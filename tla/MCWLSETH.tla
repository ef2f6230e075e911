------------------------------- MODULE MCWLSETH -------------------------------
(* An instance of WLSETH for TLC.                                          *)
EXTENDS WLSETH, TLC

CONSTANTS a, b

Symmetry == Permutations(Account)

=============================================================================
