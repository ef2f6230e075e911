-------------------------- MODULE MCNonceDeployment --------------------------
(* NonceDeployment with the scripts of mainnet. *)
EXTENDS NonceDeployment, MainnetScripts

=============================================================================
