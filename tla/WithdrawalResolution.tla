------------------------- MODULE WithdrawalResolution -------------------------
(***************************************************************************)
(* RedeemManager._resolveRedeemRequestId: which withdrawal event a redeem  *)
(* request can be claimed against, or why there is none.  The withdrawal   *)
(* stack only grows, so a resolution sees one fixed stack.  It is read     *)
(* from a contiguous stack, which may hold events of no LsETH, as every    *)
(* stack of RedeemManager is (RedeemManagerProofs, StackCanBeSearched).    *)
(*                                                                         *)
(* Identifiers are one-based here and zero-based in the code; the probe of *)
(* the dichotomic search is the code's, moved by one.                      *)
(***************************************************************************)
EXTENDS Integers, Sequences, Segments

CONSTANTS
  Height,     \* heights a redeem request may have reached
  Remaining,  \* amounts a redeem request may have left
  EventHeight,  \* heights an event may have
  EventAmount,  \* LsETH amounts an event may cover, 0 among them
  MaxEvents   \* bound on the withdrawal stack

ASSUME ResolutionAssumption ==
  /\ Height \subseteq Nat
  /\ Remaining \subseteq Nat
  /\ EventHeight \subseteq Nat
  /\ EventAmount \subseteq Nat
  /\ MaxEvents \in Nat

VARIABLES
  eventStack,     \* the withdrawal stack, [height, amount]
  known,          \* whether the redeem request id is within the queue
  redeemRequest,  \* the redeem request, [height, amount]
  min, max,       \* the range of the search
  stage,          \* "resolve", "ends", "search" or "done"
  result          \* the event found, 0 while there is none

resolutionVars == <<eventStack, known, redeemRequest, min, max, stage, result>>

Segment == [height : Nat, amount : Nat]

\* Laid end to end from the origin, and so in order.
Contiguous(stack) ==
  /\ Len(stack) > 0 => stack[1].height = 0
  /\ \A e \in 1..(Len(stack) - 1) : stack[e + 1].height = EndOf(stack[e])
  /\ \A e, f \in DOMAIN stack : e < f => EndOf(stack[e]) <= stack[f].height

Codes == {"none", "unsatisfied", "out of bounds", "fully claimed", "found"}

Results == [code : Codes, event : Nat]

ResolutionTypeOK ==
  /\ eventStack \in Seq(Segment)
  /\ known \in BOOLEAN
  /\ redeemRequest \in Segment
  /\ min \in Nat
  /\ max \in Nat
  /\ stage \in {"resolve", "ends", "search", "done"}
  /\ result \in Results

-----------------------------------------------------------------------------
Answer(code, event) ==
  /\ stage' = "done"
  /\ result' = [code |-> code, event |-> event]
  /\ UNCHANGED <<eventStack, known, redeemRequest, min, max>>

\* Variant of Satisfied: the end of the last event counts as covered.
SatisfiedAtEnd ==
  /\ Len(eventStack) > 0
  /\ EndOf(eventStack[Len(eventStack)]) >= redeemRequest.height

Satisfied ==
  /\ Len(eventStack) > 0
  /\ EndOf(eventStack[Len(eventStack)]) > redeemRequest.height

\* The early returns of _resolveRedeemRequestId, in their order.
Resolve ==
  /\ stage = "resolve"
  /\ IF ~known THEN Answer("out of bounds", 0)
     ELSE IF redeemRequest.amount = 0 THEN Answer("fully claimed", 0)
     ELSE IF ~Satisfied THEN Answer("unsatisfied", 0)
     ELSE /\ stage' = "ends"
          /\ max' = Len(eventStack)
          /\ min' = 1
          /\ UNCHANGED <<eventStack, known, redeemRequest, result>>

\* The last event and the first one are tried before the search.
TryEnds ==
  /\ stage = "ends"
  /\ IF IsMatch(redeemRequest, eventStack[max]) THEN Answer("found", max)
     ELSE IF IsMatch(redeemRequest, eventStack[min]) THEN Answer("found", min)
     ELSE /\ stage' = "search"
          /\ UNCHANGED <<eventStack, known, redeemRequest, min, max, result>>

\* (min + max) / 2 on zero-based identifiers.
Middle == (min - 1 + max - 1) \div 2 + 1

\* Variant of TakesLowerHalf: an event at the request's own height counts as above
\* it.  It is there when the event covers no LsETH, and the match comes after it.
TakesLowerHalfAtHeight == redeemRequest.height <= eventStack[Middle].height

TakesLowerHalf == redeemRequest.height < eventStack[Middle].height

Search ==
  /\ stage = "search"
  /\ IF min = max THEN Answer("found", min)
     ELSE IF IsMatch(redeemRequest, eventStack[Middle]) THEN Answer("found", Middle)
     ELSE /\ IF TakesLowerHalf
               THEN max' = Middle /\ UNCHANGED min
               ELSE min' = Middle /\ UNCHANGED max
          /\ UNCHANGED <<eventStack, known, redeemRequest, stage, result>>

-----------------------------------------------------------------------------
ResolutionInit ==
  /\ \E n \in 0..MaxEvents :
       eventStack \in [1..n -> [height : EventHeight, amount : EventAmount]]
  /\ Contiguous(eventStack)
  /\ known \in BOOLEAN
  /\ redeemRequest \in [height : Height, amount : Remaining]
  /\ min = 0
  /\ max = 0
  /\ stage = "resolve"
  /\ result = [code |-> "none", event |-> 0]

ResolutionNext == Resolve \/ TryEnds \/ Search

ResolutionSpec == ResolutionInit /\ [][ResolutionNext]_resolutionVars

\* A view call runs to its end.
FairResolutionSpec == ResolutionSpec /\ WF_resolutionVars(ResolutionNext)

-----------------------------------------------------------------------------
(* Properties                                                              *)

\* Invariant: an event that is found does match the request, and a request is
\* declared unsatisfied only when no event of the stack matches it (the comments
\* of _resolveRedeemRequestId and _performDichotomicResolution rely on both).
AnswerIsRight ==
  stage = "done" =>
    /\ result.code = "found" => IsMatch(redeemRequest, eventStack[result.event])
    /\ result.code = "unsatisfied" =>
         \A e \in DOMAIN eventStack : ~IsMatch(redeemRequest, eventStack[e])

\* Invariant: the probe lies strictly inside the range of the while loop, so an
\* iteration that does not answer narrows the range.  (min + max) / 2 rounds down
\* to min when the range has two events, and the loop would spin there: it never
\* gets there, because a match always lies strictly between min and max, events
\* of no LsETH, which match nothing, included.
ProbeIsInside == stage = "search" => min < Middle /\ Middle < max

\* Property: the resolution returns.
ResolutionEnds == <>(stage = "done")

=============================================================================
