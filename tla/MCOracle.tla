------------------------------ MODULE MCOracle ------------------------------
(* Instances of Oracle for TLC.                                            *)
EXTENDS Oracle, TLC

\* Members are compared for equality only, and so are data.
Symmetry == Permutations(Member) \cup Permutations(Data)

=============================================================================
