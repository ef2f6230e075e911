------------------------------- MODULE Segments -------------------------------
(***************************************************************************)
(* Segments of the axis on which the redeem manager lays redeem requests   *)
(* and withdrawal events: records with a height and an amount of LsETH.    *)
(***************************************************************************)
EXTENDS Integers

EndOf(segment) == segment.height + segment.amount

\* Variant of IsMatch: a request that starts with the event does not match it.
IsMatchInside(request, event) ==
  /\ request.height < EndOf(event)
  /\ request.height > event.height

\* The end of the event is excluded, so that a height on a boundary belongs to
\* the next event.
IsMatch(request, event) ==
  /\ request.height < EndOf(event)
  /\ request.height >= event.height
=============================================================================
