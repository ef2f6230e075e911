------------------------------ MODULE MCAllowlist ------------------------------
(* Allowlist with constants for TLC. *)
EXTENDS Allowlist, TLC

Symmetry == Permutations(Accounts)
=============================================================================
