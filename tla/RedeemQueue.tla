----------------------------- MODULE RedeemQueue -----------------------------
(***************************************************************************)
(* What the redeem manager promises its users, without the way it computes *)
(* it.  A redeem request is a segment of an axis of LsETH that never moves *)
(* and a ceiling in ETH; requests follow one another without a gap, and so *)
(* do the withdrawal events that back them.  A transaction adds requests   *)
(* and events and lets any set of requests advance into the backed part.   *)
(* What a request has been paid is a function of where it stands, of the   *)
(* events it has crossed and of its ceiling: it does not depend on how     *)
(* many claims it took, on their depth, on their order, or on when they    *)
(* were made.                                                              *)
(***************************************************************************)
EXTENDS Integers, Sequences, SequencesExt

VARIABLES
  queue,    \* the requests, [height, amount, maxRedeemableEth] as placed
  stack,    \* the withdrawal events, [height, amount, withdrawnEth]
  claimed,  \* the LsETH of each request already exchanged
  paid      \* the ETH each request has been paid

vars == <<queue, stack, claimed, paid>>

EndOf(segment) == segment.height + segment.amount

EndOfLast(segments) ==
  IF segments = <<>> THEN 0 ELSE EndOf(segments[Len(segments)])

\* Segments laid end to end from the origin.
Contiguous(segments) ==
  \A i \in DOMAIN segments :
    segments[i].height = IF i = 1 THEN 0 ELSE EndOf(segments[i - 1])

Least(a, b) == IF a < b THEN a ELSE b
Greatest(a, b) == IF a < b THEN b ELSE a

\* The part of an event that a request crosses on its way to reached.
Crossed(request, reached, event) ==
  Greatest(0, Least(EndOf(event), reached) - Greatest(event.height, request.height))

\* What is left of a request once it has crossed an event: it exchanges that part
\* for its share of the event's ETH, capped by the share of what is left of the
\* ceiling.
Exchanged(left, part, event) ==
  IF part = 0 THEN left
  ELSE LET eth == Least((part * event.withdrawnEth) \div event.amount,
                        (part * left.max) \div left.amount)
       IN  [amount |-> left.amount - part, max |-> left.max - eth,
            eth |-> left.eth + eth]

\* What is left of a request after each event, if it exchanges done of its LsETH.
After(request, events, done) ==
  LET after[k \in 0..Len(events)] ==
        IF k = 0
          THEN [amount |-> request.amount, max |-> request.maxRedeemableEth, eth |-> 0]
          ELSE Exchanged(after[k - 1],
                         Crossed(request, request.height + done, events[k]), events[k])
  IN  after

\* The ETH a request is due once it has exchanged done of its LsETH.
Due(request, events, done) == After(request, events, done)[Len(events)].eth

\* A request stops where it was placed, at the end of an event, or at its end.
MayStand(request, events, done) ==
  \/ done = 0
  \/ /\ request.height + done <= EndOfLast(events)
     /\ \/ done = request.amount
        \/ \E k \in DOMAIN events : request.height + done = EndOf(events[k])

Init == queue = <<>> /\ stack = <<>> /\ claimed = <<>> /\ paid = <<>>

Transaction ==
  /\ IsPrefix(queue, queue') /\ Contiguous(queue')
  /\ IsPrefix(stack, stack') /\ Contiguous(stack')
  /\ EndOfLast(stack') <= EndOfLast(queue')
  /\ Len(claimed') = Len(queue')
  /\ Len(paid') = Len(queue')
  /\ \A i \in DOMAIN claimed : claimed[i] <= claimed'[i]
  /\ \A i \in DOMAIN claimed' :
       /\ claimed'[i] <= queue'[i].amount
       /\ MayStand(queue'[i], stack', claimed'[i])
       /\ paid'[i] = Due(queue'[i], stack', claimed'[i])

Spec == Init /\ [][Transaction]_vars

=============================================================================
