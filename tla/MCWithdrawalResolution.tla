----------------------- MODULE MCWithdrawalResolution -----------------------
(* Every contiguous stack of up to MaxEvents events, every request.        *)
EXTENDS WithdrawalResolution

=============================================================================
