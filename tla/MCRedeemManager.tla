--------------------------- MODULE MCRedeemManager ---------------------------
(* Instances of RedeemManager for TLC.                                     *)
EXTENDS RedeemManager

\* A gain, which rounds one wei to no LsETH at all, and a loss.
RateUp == [assets |-> 3, supply |-> 2]
RateDown == [assets |-> 1, supply |-> 2]

TwoRates == {RateDown, RateUp}
OneRate == {RateUp}

=============================================================================
