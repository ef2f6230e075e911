------------------------- MODULE RedeemManagerProofs -------------------------
(***************************************************************************)
(* The axis of the redeem manager stays consistent, no request is paid     *)
(* more than its ceiling, the contract stays solvent and it implements     *)
(* RedeemQueue, for every set of accounts, amounts and rates and for       *)
(* queues, stacks and batches of any length; and the resolution of a       *)
(* request against its stack is right.                                     *)
(***************************************************************************)
EXTENDS RedeemManager, WithdrawalResolution, Sums, SequenceTheorems, TLAPS

-----------------------------------------------------------------------------
(* The inductive invariant                                                 *)

\* An event ends before every later one starts.
StackIsInOrder(s) ==
  \A e, f \in DOMAIN Events(s) : e < f => EndOf(Events(s)[e]) <= Events(s)[f].height

\* What holds of the storage at every step of a transaction.
Sound(s) ==
  /\ s \in Storage
  /\ StackIsContiguous(s)
  /\ StackIsInOrder(s)
  /\ QueueIsContiguous(s)
  /\ DemandIsUncovered(s)
  /\ ClaimsAreCovered(s)
  /\ Len(s.paid) = Len(Requests(s))

\* What was paid and what is left of the ceiling, outside of a payment.
CeilingsKept(s) ==
  \A r \in 1..Len(s.paid) :
    s.paid[r] + s.redeemRequests[r].maxRedeemableEth = s.placed[r].maxRedeemableEth

\* The request in memory is the stored one, advanced inside the current event;
\* what it advanced by is what the payment will be.
InFlight ==
  /\ pc # "idle" =>
       /\ call.redeemRequestCount <= Len(storage.redeemRequests)
       /\ call.withdrawalEventCount <= Len(storage.withdrawalEvents)
  /\ pc \in {"match", "pay"} => params.redeemRequestId \in 1..Len(storage.redeemRequests)
  /\ pc = "match" =>
       LET stored == storage.redeemRequests[params.redeemRequestId] IN
       /\ params.withdrawalEventId \in 1..call.withdrawalEventCount
       /\ params.amount > 0
       /\ EndOf(params) = EndOf(stored)
       /\ stored.height <= params.height
       /\ CurrentEvent.height <= params.height
       /\ params.height <= EndOf(CurrentEvent)
       /\ params.maxRedeemableEth + params.ethAmount = stored.maxRedeemableEth

IInv ==
  /\ TypeOK
  /\ Sound(storage)
  /\ Sound(txStart)
  /\ CeilingsKept(txStart)
  /\ InFlight
  /\ PaidWithinCeiling

-----------------------------------------------------------------------------
(* Arithmetic and sequences                                                *)

\* What Solidity's mulDiv computes is a natural number...
LEMMA QuotientIsNat ==
  ASSUME NEW a \in Nat, NEW b \in Nat, NEW c \in Nat, c > 0
  PROVE  (a * b) \div c \in Nat
<1>1. a * b \in Nat
  OBVIOUS
<1>2. ASSUME NEW n \in Nat PROVE n \div c \in Nat
  OBVIOUS
<1> QED
  BY <1>1, <1>2

\* ... and a share of a whole is no more than the whole.
LEMMA ShareIsBounded ==
  ASSUME NEW part \in Nat, NEW value \in Nat, NEW whole \in Nat,
         whole > 0, part <= whole
  PROVE  (part * value) \div whole <= value
<1>1. part * value \in Nat /\ whole * value \in Nat /\ part * value <= whole * value
  OBVIOUS
<1>2. ASSUME NEW n \in Nat, n <= whole * value PROVE n \div whole <= value
  <2>1. n \div whole \in Nat /\ whole * (n \div whole) <= n
    OBVIOUS
  <2>2. ASSUME NEW q \in Nat, q > value PROVE whole * q > whole * value
    <3>1. q >= value + 1
      BY <2>2
    <3>2. whole * q >= whole * (value + 1)
      BY <3>1
    <3>3. whole * (value + 1) = whole * value + whole
      OBVIOUS
    <3> QED
      BY <3>2, <3>3
  <2> QED
    BY <1>1, <1>2, <2>1, <2>2
<1> QED
  BY <1>1, <1>2

LEMMA AppendElements ==
  ASSUME NEW S, NEW seq \in Seq(S), NEW x \in S
  PROVE  /\ Append(seq, x) \in Seq(S)
         /\ Len(seq) \in Nat
         /\ Len(Append(seq, x)) = Len(seq) + 1
         /\ DOMAIN seq = 1..Len(seq)
         /\ DOMAIN Append(seq, x) = 1..(Len(seq) + 1)
         /\ \A i \in 1..Len(seq) : Append(seq, x)[i] = seq[i]
         /\ Append(seq, x)[Len(seq) + 1] = x
         /\ Append(seq, x) # <<>>
BY AppendProperties, LenProperties

-----------------------------------------------------------------------------
(* What the type of a storage says of its parts                            *)

LEMMA StorageParts ==
  ASSUME NEW s \in Storage
  PROVE  /\ s.redeemRequests \in Seq(Request)
         /\ s.withdrawalEvents \in Seq(Event)
         /\ s.placed \in Seq(Placement)
         /\ s.paid \in Seq(Nat)
         /\ s.redeemDemand \in Nat
         /\ s.bufferedExceedingEth \in Nat
         /\ s.balance \in Nat
BY DEF Storage

LEMMA EventParts ==
  ASSUME NEW event \in Event
  PROVE  /\ event.height \in Nat /\ event.amount \in Nat
         /\ event.withdrawnEth \in Nat /\ EndOf(event) \in Nat
BY DEF Event, EndOf

LEMMA RequestParts ==
  ASSUME NEW request \in Request
  PROVE  /\ request.height \in Nat /\ request.amount \in Nat
         /\ request.maxRedeemableEth \in Nat /\ EndOf(request) \in Nat
BY DEF Request, EndOf

LEMMA PlacementParts ==
  ASSUME NEW request \in Placement
  PROVE  /\ request.height \in Nat /\ request.amount \in Nat
         /\ request.maxRedeemableEth \in Nat /\ EndOf(request) \in Nat
BY DEF Placement, EndOf

LEMMA SequenceParts ==
  ASSUME NEW s \in Storage
  PROVE  /\ Len(s.redeemRequests) \in Nat
         /\ DOMAIN s.redeemRequests = 1..Len(s.redeemRequests)
         /\ \A r \in 1..Len(s.redeemRequests) :
              /\ s.redeemRequests[r] \in Request
              /\ s.redeemRequests[r].height \in Nat
              /\ s.redeemRequests[r].amount \in Nat
              /\ s.redeemRequests[r].maxRedeemableEth \in Nat
              /\ EndOf(s.redeemRequests[r]) \in Nat
         /\ Len(s.withdrawalEvents) \in Nat
         /\ DOMAIN s.withdrawalEvents = 1..Len(s.withdrawalEvents)
         /\ \A e \in 1..Len(s.withdrawalEvents) :
              /\ s.withdrawalEvents[e] \in Event
              /\ s.withdrawalEvents[e].height \in Nat
              /\ s.withdrawalEvents[e].amount \in Nat
              /\ s.withdrawalEvents[e].withdrawnEth \in Nat
              /\ EndOf(s.withdrawalEvents[e]) \in Nat
         /\ Len(s.placed) \in Nat
         /\ DOMAIN s.placed = 1..Len(s.placed)
         /\ \A r \in 1..Len(s.placed) :
              /\ s.placed[r] \in Placement
              /\ s.placed[r].height \in Nat
              /\ s.placed[r].amount \in Nat
              /\ s.placed[r].maxRedeemableEth \in Nat
              /\ EndOf(s.placed[r]) \in Nat
         /\ Len(s.paid) \in Nat
         /\ DOMAIN s.paid = 1..Len(s.paid)
         /\ \A r \in 1..Len(s.paid) : s.paid[r] \in Nat
<1>1. /\ s.redeemRequests \in Seq(Request) /\ s.withdrawalEvents \in Seq(Event)
      /\ s.placed \in Seq(Placement) /\ s.paid \in Seq(Nat)
  BY StorageParts
<1>2. /\ Len(s.redeemRequests) \in Nat
      /\ DOMAIN s.redeemRequests = 1..Len(s.redeemRequests)
      /\ Len(s.withdrawalEvents) \in Nat
      /\ DOMAIN s.withdrawalEvents = 1..Len(s.withdrawalEvents)
      /\ Len(s.placed) \in Nat
      /\ DOMAIN s.placed = 1..Len(s.placed)
      /\ Len(s.paid) \in Nat
      /\ DOMAIN s.paid = 1..Len(s.paid)
  BY <1>1, LenProperties
<1>3. \A r \in 1..Len(s.redeemRequests) : s.redeemRequests[r] \in Request
  BY <1>1, ElementOfSeq
<1>4. \A e \in 1..Len(s.withdrawalEvents) : s.withdrawalEvents[e] \in Event
  BY <1>1, ElementOfSeq
<1>5. \A r \in 1..Len(s.placed) : s.placed[r] \in Placement
  BY <1>1, ElementOfSeq
<1>6. \A r \in 1..Len(s.paid) : s.paid[r] \in Nat
  BY <1>1, ElementOfSeq
<1> QED
  BY <1>2, <1>3, <1>4, <1>5, <1>6, RequestParts, EventParts, PlacementParts

\* The end of a sequence of segments is a position.
LEMMA EndsAreNat ==
  ASSUME NEW s \in Storage
  PROVE  /\ EndOfLast(Requests(s)) \in Nat
         /\ EndOfLast(Events(s)) \in Nat
         /\ Len(Requests(s)) = 0 => EndOfLast(Requests(s)) = 0
         /\ Len(Requests(s)) > 0 =>
              EndOfLast(Requests(s)) = EndOf(Requests(s)[Len(Requests(s))])
         /\ Len(Events(s)) = 0 => EndOfLast(Events(s)) = 0
         /\ Len(Events(s)) > 0 =>
              EndOfLast(Events(s)) = EndOf(Events(s)[Len(Events(s))])
<1> DEFINE R == s.redeemRequests
           E == s.withdrawalEvents
<1>1. /\ R \in Seq(Request) /\ E \in Seq(Event)
  BY StorageParts
<1>2. /\ Len(R) \in Nat /\ (R = <<>> <=> Len(R) = 0)
      /\ Len(E) \in Nat /\ (E = <<>> <=> Len(E) = 0)
  BY <1>1, EmptySeq, LenProperties
<1>3. R # <<>> => EndOf(R[Len(R)]) \in Nat
  <2>1. \A r \in 1..Len(R) : EndOf(R[r]) \in Nat
    BY SequenceParts DEF EndOf
  <2>2. R # <<>> => Len(R) \in 1..Len(R)
    BY <1>2
  <2> QED
    BY <2>1, <2>2
<1>4. E # <<>> => EndOf(E[Len(E)]) \in Nat
  <2>1. \A e \in 1..Len(E) : EndOf(E[e]) \in Nat
    BY SequenceParts
  <2>2. E # <<>> => Len(E) \in 1..Len(E)
    BY <1>2
  <2> QED
    BY <2>1, <2>2
<1> QED
  BY <1>2, <1>3, <1>4 DEF EndOfLast, Requests, Events

\* No event of a sound stack ends after the last one.
LEMMA EventsEndBeforeLast ==
  ASSUME NEW s, Sound(s), NEW e \in 1..Len(s.withdrawalEvents)
  PROVE  EndOf(s.withdrawalEvents[e]) <= EndOfLast(Events(s))
<1> DEFINE E == s.withdrawalEvents
           n == Len(E)
<1>1. s \in Storage
  BY DEF Sound
<1>2. /\ n \in Nat /\ n > 0 /\ e \in 1..n /\ n \in 1..n /\ DOMAIN E = 1..n
      /\ E[n].height \in Nat /\ E[n].amount \in Nat
      /\ EndOf(E[e]) \in Nat /\ EndOf(E[n]) \in Nat
  BY <1>1, SequenceParts
<1>3. EndOfLast(Events(s)) = EndOf(E[n])
  BY <1>1, <1>2, EndsAreNat DEF Events
<1>4. CASE e = n
  BY <1>2, <1>3, <1>4
<1>5. CASE e < n
  <2>1. EndOf(E[e]) <= E[n].height
    BY <1>2, <1>5 DEF Sound, StackIsInOrder, Events
  <2> QED
    BY <2>1, <1>2, <1>3 DEF EndOf
<1> QED
  BY <1>2, <1>4, <1>5

-----------------------------------------------------------------------------
(* Requests, reports and pulls                                             *)

LEMMA RateConverts ==
  ASSUME NEW rate \in Rate, NEW n \in Nat
  PROVE  /\ BalanceFromShares(rate, n) \in Nat
         /\ SharesFromBalance(rate, n) \in Nat
<1>1. rate.assets \in Nat /\ rate.supply \in Nat
  BY RedeemAssumption
<1> QED
  BY <1>1, QuotientIsNat DEF BalanceFromShares, SharesFromBalance

\* The two calls that only move numbers leave the axis alone.
LEMMA SoundIgnoresEth ==
  ASSUME NEW s, NEW t, Sound(s), t \in Storage,
         t.redeemRequests = s.redeemRequests,
         t.withdrawalEvents = s.withdrawalEvents,
         t.placed = s.placed,
         t.redeemDemand = s.redeemDemand,
         Len(t.paid) = Len(s.paid)
  PROVE  Sound(t)
BY DEF Sound, StackIsContiguous, StackIsInOrder, QueueIsContiguous,
       DemandIsUncovered, ClaimsAreCovered, Requests, Events

LEMMA RequestEffect ==
  ASSUME Sound(storage),
         NEW initiator \in Account, NEW recipient \in Account,
         NEW lsETHAmount \in LsETHAmount, NEW rate \in Rate,
         RequestRedeem(initiator, recipient, lsETHAmount, rate)
  PROVE  \E q \in Request, p \in Placement :
           /\ p.height = EndOfLast(Requests(storage)) /\ q.height = p.height
           /\ p.amount = lsETHAmount /\ q.amount = p.amount
           /\ q.maxRedeemableEth = p.maxRedeemableEth
           /\ storage' \in Storage
           /\ storage'.redeemRequests = Append(storage.redeemRequests, q)
           /\ storage'.placed = Append(storage.placed, p)
           /\ storage'.paid = Append(storage.paid, 0)
           /\ storage'.withdrawalEvents = storage.withdrawalEvents
           /\ storage'.redeemDemand = storage.redeemDemand + lsETHAmount
           /\ storage'.bufferedExceedingEth = storage.bufferedExceedingEth
           /\ storage'.balance = storage.balance
<1> DEFINE p == [height |-> EndOfLast(storage.redeemRequests),
                 amount |-> lsETHAmount,
                 maxRedeemableEth |-> BalanceFromShares(rate, lsETHAmount)]
           q == [height |-> p.height, amount |-> p.amount,
                 maxRedeemableEth |-> p.maxRedeemableEth,
                 recipient |-> recipient, initiator |-> initiator]
<1>1. storage \in Storage /\ lsETHAmount \in Nat
  BY RedeemAssumption DEF Sound
<1>2. EndOfLast(storage.redeemRequests) \in Nat
  BY <1>1, EndsAreNat DEF Requests
<1>3. p \in Placement /\ q \in Request
  BY <1>1, <1>2, RateConverts DEF Placement, Request
<1>4. storage' = [storage EXCEPT
         !.redeemRequests = Append(storage.redeemRequests, q),
         !.redeemDemand = storage.redeemDemand + lsETHAmount,
         !.placed = Append(storage.placed, p),
         !.paid = Append(storage.paid, 0)]
  BY DEF RequestRedeem
<1> HIDE DEF p, q
<1>5. /\ Append(storage.redeemRequests, q) \in Seq(Request)
      /\ Append(storage.placed, p) \in Seq(Placement)
      /\ Append(storage.paid, 0) \in Seq(Nat)
      /\ storage.redeemDemand + lsETHAmount \in Nat
  BY <1>1, <1>3, StorageParts, AppendProperties
<1>6. /\ storage' \in Storage
      /\ storage'.redeemRequests = Append(storage.redeemRequests, q)
      /\ storage'.placed = Append(storage.placed, p)
      /\ storage'.paid = Append(storage.paid, 0)
      /\ storage'.withdrawalEvents = storage.withdrawalEvents
      /\ storage'.redeemDemand = storage.redeemDemand + lsETHAmount
      /\ storage'.bufferedExceedingEth = storage.bufferedExceedingEth
      /\ storage'.balance = storage.balance
  BY <1>1, <1>4, <1>5 DEF Storage
<1>7. /\ p.height = EndOfLast(Requests(storage)) /\ q.height = p.height
      /\ p.amount = lsETHAmount /\ q.amount = p.amount
      /\ q.maxRedeemableEth = p.maxRedeemableEth
  BY DEF p, q, Requests
<1> QED
  BY <1>3, <1>6, <1>7

LEMMA RequestKeepsSound ==
  ASSUME Sound(storage),
         NEW initiator \in Account, NEW recipient \in Account,
         NEW lsETHAmount \in LsETHAmount, NEW rate \in Rate,
         RequestRedeem(initiator, recipient, lsETHAmount, rate)
  PROVE  Sound(storage')
<1> DEFINE s == storage
           t == storage'
           n == Len(s.redeemRequests)
<1>1. PICK q \in Request, p \in Placement :
        /\ p.height = EndOfLast(Requests(s)) /\ q.height = p.height
        /\ p.amount = lsETHAmount /\ q.amount = p.amount
        /\ t \in Storage
        /\ t.redeemRequests = Append(s.redeemRequests, q)
        /\ t.placed = Append(s.placed, p)
        /\ t.paid = Append(s.paid, 0)
        /\ t.withdrawalEvents = s.withdrawalEvents
        /\ t.redeemDemand = s.redeemDemand + lsETHAmount
  BY RequestEffect
<1>2. /\ s \in Storage /\ lsETHAmount \in Nat
      /\ n \in Nat /\ Len(s.placed) = n /\ Len(s.paid) = n
      /\ DOMAIN s.redeemRequests = 1..n
  BY RedeemAssumption, SequenceParts DEF Sound, QueueIsContiguous, Requests
<1>3. /\ Len(t.redeemRequests) = n + 1 /\ Len(t.placed) = n + 1 /\ Len(t.paid) = n + 1
      /\ DOMAIN t.redeemRequests = 1..(n + 1)
      /\ \A r \in 1..n : /\ t.redeemRequests[r] = s.redeemRequests[r]
                         /\ t.placed[r] = s.placed[r]
      /\ t.redeemRequests[n + 1] = q /\ t.placed[n + 1] = p
  <2>1. /\ s.redeemRequests \in Seq(Request)
        /\ s.placed \in Seq(Placement)
        /\ s.paid \in Seq(Nat)
    BY <1>2, StorageParts
  <2>2. /\ Len(t.redeemRequests) = n + 1
        /\ DOMAIN t.redeemRequests = 1..(n + 1)
        /\ \A r \in 1..n : t.redeemRequests[r] = s.redeemRequests[r]
        /\ t.redeemRequests[n + 1] = q
    BY <1>1, <2>1, AppendElements
  <2>3. /\ Len(t.placed) = n + 1
        /\ \A r \in 1..n : t.placed[r] = s.placed[r]
        /\ t.placed[n + 1] = p
    BY <1>1, <1>2, <2>1, AppendElements
  <2>4. Len(t.paid) = n + 1
    BY <1>1, <1>2, <2>1, AppendElements
  <2> QED
    BY <2>2, <2>3, <2>4
<1>4. /\ EndOf(q) = EndOf(p)
      /\ EndOf(q) = EndOfLast(Requests(s)) + lsETHAmount
  BY <1>1 DEF EndOf
<1>5. EndOfLast(Requests(t)) = EndOf(q)
  <2>1. Len(Requests(t)) = n + 1 /\ Len(Requests(t)) > 0
    BY <1>2, <1>3 DEF Requests
  <2>2. EndOfLast(Requests(t)) = EndOf(Requests(t)[Len(Requests(t))])
    BY <1>1, <2>1, EndsAreNat
  <2> QED
    BY <1>3, <2>1, <2>2 DEF Requests
<1>6. EndOfLast(Events(t)) = EndOfLast(Events(s))
  BY <1>1 DEF Events
<1>7. EndOfLast(Requests(s)) = IF n = 0 THEN 0 ELSE EndOf(s.placed[n])
  BY <1>2, EndsAreNat DEF Sound, QueueIsContiguous, Requests
<1>8. QueueIsContiguous(t)
  <2> SUFFICES ASSUME NEW r \in 1..(n + 1)
               PROVE  /\ EndOf(t.redeemRequests[r]) = EndOf(t.placed[r])
                      /\ t.placed[r].height <= t.redeemRequests[r].height
                      /\ t.placed[r].height = IF r = 1 THEN 0 ELSE EndOf(t.placed[r - 1])
    BY <1>3 DEF QueueIsContiguous, Requests
  <2>1. CASE r \in 1..n
    <3>1. r # 1 => r - 1 \in 1..n
      BY <1>2, <2>1
    <3>2. /\ EndOf(s.redeemRequests[r]) = EndOf(s.placed[r])
          /\ s.placed[r].height <= s.redeemRequests[r].height
          /\ s.placed[r].height = IF r = 1 THEN 0 ELSE EndOf(s.placed[r - 1])
      BY <1>2, <2>1 DEF Sound, QueueIsContiguous, Requests
    <3> QED
      BY <1>3, <2>1, <3>1, <3>2
  <2>2. CASE r = n + 1
    <3>1. p.height \in Nat
      BY PlacementParts
    <3>2. p.height = IF n = 0 THEN 0 ELSE EndOf(t.placed[n])
      BY <1>1, <1>2, <1>3, <1>7
    <3>3. n + 1 - 1 = n /\ (n + 1 = 1 <=> n = 0)
      BY <1>2
    <3>4. t.redeemRequests[r] = q /\ t.placed[r] = p
      BY <1>3, <2>2
    <3>5. EndOf(t.redeemRequests[r]) = EndOf(t.placed[r])
      BY <1>4, <3>4
    <3>6. t.placed[r].height <= t.redeemRequests[r].height
      BY <1>1, <3>1, <3>4
    <3>7. t.placed[r].height = IF r = 1 THEN 0 ELSE EndOf(t.placed[r - 1])
      BY <2>2, <3>2, <3>3, <3>4
    <3> QED
      BY <3>5, <3>6, <3>7
  <2> QED
    BY <1>2, <2>1, <2>2
<1>9. ClaimsAreCovered(t)
  <2> SUFFICES ASSUME NEW r \in 1..(n + 1)
               PROVE  \/ t.redeemRequests[r].height = t.placed[r].height
                      \/ t.redeemRequests[r].height <= EndOfLast(Events(t))
    BY <1>3 DEF ClaimsAreCovered, Requests
  <2>1. CASE r \in 1..n
    BY <1>2, <1>3, <1>6, <2>1 DEF Sound, ClaimsAreCovered, Requests
  <2>2. CASE r = n + 1
    BY <1>1, <1>3, <2>2
  <2> QED
    BY <1>2, <2>1, <2>2
<1>10. DemandIsUncovered(t)
  <2>1. s.redeemDemand = EndOfLast(Requests(s)) - EndOfLast(Events(s))
    BY DEF Sound, DemandIsUncovered
  <2> QED
    BY <2>1, <1>1, <1>2, <1>4, <1>5, <1>6, EndsAreNat DEF DemandIsUncovered
<1>11. StackIsContiguous(t) /\ StackIsInOrder(t)
  BY <1>1 DEF Sound, StackIsContiguous, StackIsInOrder, Events
<1> QED
  BY <1>1, <1>3, <1>8, <1>9, <1>10, <1>11 DEF Sound, Requests

LEMMA ReportEffect ==
  ASSUME Sound(storage), NEW lsETHWithdrawable \in Nat, NEW value \in Nat,
         ReportWithdraw(lsETHWithdrawable, value)
  PROVE  \E new \in Event :
           /\ new.height = EndOfLast(Events(storage))
           /\ new.amount = lsETHWithdrawable /\ new.withdrawnEth = value
           /\ storage' \in Storage
           /\ storage'.withdrawalEvents = Append(storage.withdrawalEvents, new)
           /\ storage'.redeemDemand = storage.redeemDemand - lsETHWithdrawable
           /\ storage'.redeemRequests = storage.redeemRequests
           /\ storage'.placed = storage.placed
           /\ storage'.paid = storage.paid
           /\ storage'.bufferedExceedingEth = storage.bufferedExceedingEth
           /\ storage'.balance = storage.balance + value
<1> DEFINE s == storage
           t == storage'
           new == [height |-> EndOfLast(Events(s)), amount |-> lsETHWithdrawable,
                   withdrawnEth |-> value]
<1>1. /\ s \in Storage /\ EndOfLast(Events(s)) \in Nat
      /\ s.redeemDemand \in Nat /\ s.balance \in Nat
      /\ lsETHWithdrawable <= s.redeemDemand
  BY EndsAreNat, StorageParts DEF Sound, ReportWithdraw
<1>2. new \in Event
  BY <1>1 DEF Event
<1>3. t = [s EXCEPT
         !.withdrawalEvents = Append(s.withdrawalEvents, new),
         !.redeemDemand = s.redeemDemand - lsETHWithdrawable,
         !.balance = s.balance + value]
  BY DEF ReportWithdraw, Events
<1>4. /\ new.height = EndOfLast(Events(s)) /\ new.amount = lsETHWithdrawable
      /\ new.withdrawnEth = value
  OBVIOUS
<1> HIDE DEF new
<1>5. /\ Append(s.withdrawalEvents, new) \in Seq(Event)
      /\ s.redeemDemand - lsETHWithdrawable \in Nat
      /\ s.balance + value \in Nat
  BY <1>1, <1>2, StorageParts, AppendProperties
<1>6. /\ t \in Storage
      /\ t.withdrawalEvents = Append(s.withdrawalEvents, new)
      /\ t.redeemDemand = s.redeemDemand - lsETHWithdrawable
      /\ t.redeemRequests = s.redeemRequests
      /\ t.placed = s.placed
      /\ t.paid = s.paid
      /\ t.bufferedExceedingEth = s.bufferedExceedingEth
      /\ t.balance = s.balance + value
  BY <1>1, <1>3, <1>5 DEF Storage
<1> QED
  BY <1>2, <1>4, <1>6

LEMMA ReportKeepsSound ==
  ASSUME Sound(storage), NEW lsETHWithdrawable \in Nat, NEW value \in Nat,
         ReportWithdraw(lsETHWithdrawable, value)
  PROVE  Sound(storage')
<1> DEFINE s == storage
           t == storage'
           n == Len(s.withdrawalEvents)
           last == EndOfLast(Events(s))
<1>1. /\ s \in Storage /\ n \in Nat /\ DOMAIN s.withdrawalEvents = 1..n
      /\ last \in Nat /\ s.redeemDemand \in Nat
      /\ lsETHWithdrawable <= s.redeemDemand
  BY SequenceParts, EndsAreNat, StorageParts DEF Sound, ReportWithdraw
<1>2. PICK new \in Event :
        /\ new.height = last /\ new.amount = lsETHWithdrawable
        /\ t \in Storage
        /\ t.withdrawalEvents = Append(s.withdrawalEvents, new)
        /\ t.redeemDemand = s.redeemDemand - lsETHWithdrawable
        /\ t.redeemRequests = s.redeemRequests
        /\ t.placed = s.placed
        /\ t.paid = s.paid
  BY ReportEffect
<1>4. /\ new.height = last /\ new.amount = lsETHWithdrawable
      /\ EndOf(new) = last + lsETHWithdrawable
  BY <1>2 DEF EndOf
<1>6. /\ t \in Storage
      /\ t.withdrawalEvents = Append(s.withdrawalEvents, new)
      /\ t.redeemDemand = s.redeemDemand - lsETHWithdrawable
      /\ t.redeemRequests = s.redeemRequests
      /\ t.placed = s.placed
      /\ t.paid = s.paid
  BY <1>2
<1>7. /\ Len(t.withdrawalEvents) = n + 1
      /\ DOMAIN t.withdrawalEvents = 1..(n + 1)
      /\ \A e \in 1..n : t.withdrawalEvents[e] = s.withdrawalEvents[e]
      /\ t.withdrawalEvents[n + 1] = new
  BY <1>1, <1>2, <1>6, StorageParts, AppendElements
<1>8. EndOfLast(Events(t)) = last + lsETHWithdrawable
  <2>1. Len(Events(t)) = n + 1 /\ Len(Events(t)) > 0
    BY <1>1, <1>7 DEF Events
  <2>2. EndOfLast(Events(t)) = EndOf(Events(t)[Len(Events(t))])
    BY <1>6, <2>1, EndsAreNat
  <2> QED
    BY <1>4, <1>7, <2>1, <2>2 DEF Events
<1>9. StackIsContiguous(t)
  <2> SUFFICES ASSUME NEW e \in 1..(n + 1)
               PROVE  t.withdrawalEvents[e].height =
                        IF e = 1 THEN 0 ELSE EndOf(t.withdrawalEvents[e - 1])
    BY <1>7 DEF StackIsContiguous, Events
  <2>1. CASE e \in 1..n
    <3>1. e # 1 => e - 1 \in 1..n
      BY <1>1, <2>1
    <3>2. s.withdrawalEvents[e].height =
            IF e = 1 THEN 0 ELSE EndOf(s.withdrawalEvents[e - 1])
      BY <1>1, <2>1 DEF Sound, StackIsContiguous, Events
    <3> QED
      BY <1>7, <2>1, <3>1, <3>2
  <2>2. CASE e = n + 1
    <3>1. last = IF n = 0 THEN 0 ELSE EndOf(s.withdrawalEvents[n])
      BY <1>1, EndsAreNat DEF Events
    <3>2. n + 1 - 1 = n /\ (n + 1 = 1 <=> n = 0) /\ (n # 0 => n \in 1..n)
      BY <1>1
    <3> QED
      BY <1>4, <1>7, <2>2, <3>1, <3>2
  <2> QED
    BY <1>1, <2>1, <2>2
<1>10. StackIsInOrder(t)
  <2> SUFFICES ASSUME NEW e \in 1..(n + 1), NEW f \in 1..(n + 1), e < f
               PROVE  EndOf(t.withdrawalEvents[e]) <= t.withdrawalEvents[f].height
    BY <1>7 DEF StackIsInOrder, Events
  <2>1. e \in 1..n
    BY <1>1
  <2>2. CASE f \in 1..n
    BY <1>1, <1>7, <2>1, <2>2 DEF Sound, StackIsInOrder, Events
  <2>3. CASE f = n + 1
    BY <1>4, <1>7, <2>1, <2>3, EventsEndBeforeLast
  <2> QED
    BY <1>1, <2>2, <2>3
<1>11. DemandIsUncovered(t)
  <2>1. s.redeemDemand = EndOfLast(Requests(s)) - last
    BY DEF Sound, DemandIsUncovered
  <2>2. EndOfLast(Requests(t)) = EndOfLast(Requests(s))
    BY <1>6 DEF Requests
  <2> QED
    BY <2>1, <2>2, <1>1, <1>6, <1>8, EndsAreNat DEF DemandIsUncovered
<1>12. ClaimsAreCovered(t)
  <2> SUFFICES ASSUME NEW r \in 1..Len(s.redeemRequests)
               PROVE  \/ s.redeemRequests[r].height = s.placed[r].height
                      \/ s.redeemRequests[r].height <= EndOfLast(Events(t))
    BY <1>1, <1>6, SequenceParts DEF ClaimsAreCovered, Requests
  <2>1. s.redeemRequests[r].height \in Nat
    BY <1>1, SequenceParts
  <2>2. \/ s.redeemRequests[r].height = s.placed[r].height
        \/ s.redeemRequests[r].height <= last
    BY <1>1, SequenceParts DEF Sound, ClaimsAreCovered, Requests
  <2> QED
    BY <1>1, <1>8, <2>1, <2>2
<1>13. QueueIsContiguous(t) /\ Len(t.paid) = Len(Requests(t))
  BY <1>6 DEF Sound, QueueIsContiguous, Requests
<1> QED
  BY <1>6, <1>9, <1>10, <1>11, <1>12, <1>13 DEF Sound

LEMMA PullKeepsSound ==
  ASSUME Sound(storage), NEW limit \in PullLimit, PullExceedingEth(limit)
  PROVE  /\ Sound(storage')
         /\ storage'.paid = storage.paid
         /\ storage'.redeemRequests = storage.redeemRequests
         /\ storage'.placed = storage.placed
         /\ storage'.withdrawalEvents = storage.withdrawalEvents
         /\ storage.balance - storage'.balance =
              storage.bufferedExceedingEth - storage'.bufferedExceedingEth
<1> DEFINE sent == Smaller(storage.bufferedExceedingEth, limit)
<1>1. /\ storage \in Storage /\ limit \in Nat
      /\ storage.bufferedExceedingEth \in Nat /\ storage.balance \in Nat
      /\ sent <= storage.balance
  BY RedeemAssumption, StorageParts DEF Sound, PullExceedingEth
<1>2. sent \in Nat /\ sent <= storage.bufferedExceedingEth
  BY <1>1 DEF Smaller
<1>3. storage' = [storage EXCEPT
         !.bufferedExceedingEth = storage.bufferedExceedingEth - sent,
         !.balance = storage.balance - sent]
  BY DEF PullExceedingEth
<1>4. /\ storage.bufferedExceedingEth - sent \in Nat
      /\ storage.balance - sent \in Nat
  BY <1>1, <1>2
<1> HIDE DEF sent
<1>5. /\ storage' \in Storage
      /\ storage'.paid = storage.paid
      /\ storage'.redeemRequests = storage.redeemRequests
      /\ storage'.placed = storage.placed
      /\ storage'.withdrawalEvents = storage.withdrawalEvents
      /\ storage'.redeemDemand = storage.redeemDemand
      /\ storage'.bufferedExceedingEth = storage.bufferedExceedingEth - sent
      /\ storage'.balance = storage.balance - sent
  BY <1>1, <1>3, <1>4 DEF Storage
<1>6. Sound(storage')
  BY <1>5, SoundIgnoresEth
<1> QED
  BY <1>1, <1>2, <1>5, <1>6

-----------------------------------------------------------------------------
(* One recursion level of a claim                                          *)

LEMMA ParamsParts ==
  ASSUME params \in Params
  PROVE  /\ params.redeemRequestId \in Nat /\ params.withdrawalEventId \in Nat
         /\ params.depth \in Nat /\ params.height \in Nat /\ params.amount \in Nat
         /\ params.maxRedeemableEth \in Nat /\ params.ethAmount \in Nat
         /\ EndOf(params) \in Nat
BY DEF Params, EndOf

\* The current event exists, and the request in memory stands inside it.
LEMMA CurrentEventParts ==
  ASSUME IInv, pc = "match"
  PROVE  /\ params.withdrawalEventId \in 1..Len(storage.withdrawalEvents)
         /\ params.withdrawalEventId \in 1..call.withdrawalEventCount
         /\ call.withdrawalEventCount \in Nat
         /\ CurrentEvent.height \in Nat /\ CurrentEvent.amount \in Nat
         /\ CurrentEvent.withdrawnEth \in Nat /\ EndOf(CurrentEvent) \in Nat
         /\ CurrentEvent.height <= params.height
         /\ params.height <= EndOf(CurrentEvent)
         /\ EndOf(CurrentEvent) <= EndOfLast(Events(storage))
<1>1. /\ params.withdrawalEventId \in 1..call.withdrawalEventCount
      /\ call.withdrawalEventCount <= Len(storage.withdrawalEvents)
      /\ CurrentEvent.height <= params.height
      /\ params.height <= EndOf(CurrentEvent)
  BY DEF IInv, InFlight
<1>2. /\ call.withdrawalEventCount \in Nat /\ Len(storage.withdrawalEvents) \in Nat
      /\ Sound(storage) /\ storage \in Storage
  BY SequenceParts DEF IInv, TypeOK, Call, Sound
<1>3. params.withdrawalEventId \in 1..Len(storage.withdrawalEvents)
  BY <1>1, <1>2
<1> QED
  BY <1>1, <1>2, <1>3, SequenceParts, EventsEndBeforeLast DEF CurrentEvent

\* What a level matches, what it pays and what it buffers are natural numbers
\* within what is left of the request, of its ceiling and of the event: none of
\* the checked subtractions of _claimRedeemRequest fails.
LEMMA MatchFacts ==
  ASSUME IInv, pc = "match", ~Panics
  PROVE  /\ MatchingAmount \in Nat
         /\ MatchingAmount <= params.amount
         /\ params.height + MatchingAmount <= EndOf(CurrentEvent)
         /\ MatchingAmount < params.amount =>
              params.height + MatchingAmount = EndOf(CurrentEvent)
         /\ EthAmount \in Nat
         /\ EthAmount <= params.maxRedeemableEth
         /\ ExceedingEthAmount \in Nat
<1>1. /\ params.amount \in Nat /\ params.height \in Nat
      /\ params.maxRedeemableEth \in Nat /\ params.amount > 0
  BY ParamsParts DEF IInv, TypeOK, InFlight
<1>2. /\ CurrentEvent.amount \in Nat /\ CurrentEvent.amount > 0
      /\ CurrentEvent.withdrawnEth \in Nat
      /\ EndOf(CurrentEvent) \in Nat /\ params.height <= EndOf(CurrentEvent)
  BY CurrentEventParts DEF Panics
<1>3. /\ MatchingAmount \in Nat
      /\ MatchingAmount <= params.amount
      /\ params.height + MatchingAmount <= EndOf(CurrentEvent)
      /\ MatchingAmount < params.amount =>
           params.height + MatchingAmount = EndOf(CurrentEvent)
  BY <1>1, <1>2 DEF MatchingAmount, Smaller
<1>4. EventEth \in Nat
  BY <1>2, <1>3, QuotientIsNat DEF EventEth
<1>5. /\ MaxRedeemableEthAmount \in Nat
      /\ MaxRedeemableEthAmount <= params.maxRedeemableEth
  BY <1>1, <1>3, QuotientIsNat, ShareIsBounded DEF MaxRedeemableEthAmount
<1>6. /\ EthAmount \in Nat /\ EthAmount <= params.maxRedeemableEth
      /\ EthAmount <= EventEth
  BY <1>1, <1>4, <1>5 DEF EthAmount, Smaller
<1>7. ExceedingEthAmount \in Nat
  BY <1>4, <1>6 DEF ExceedingEthAmount
<1> QED
  BY <1>3, <1>6, <1>7

\* The request in memory after a level: it has moved, its end has not, and what
\* left its ceiling is in the payment.
LEMMA MatchedParts ==
  ASSUME IInv, pc = "match", ~Panics
  PROVE  /\ Matched \in Params
         /\ Matched.redeemRequestId = params.redeemRequestId
         /\ Matched.withdrawalEventId = params.withdrawalEventId
         /\ Matched.depth = params.depth
         /\ Matched.height = params.height + MatchingAmount
         /\ Matched.amount = params.amount - MatchingAmount
         /\ EndOf(Matched) = EndOf(params)
         /\ Matched.maxRedeemableEth = params.maxRedeemableEth - EthAmount
         /\ Matched.ethAmount = params.ethAmount + EthAmount
<1>1. params \in Params
  BY DEF IInv, TypeOK
<1>2. /\ params.height + MatchingAmount \in Nat
      /\ params.amount - MatchingAmount \in Nat
      /\ params.maxRedeemableEth - EthAmount \in Nat
      /\ params.ethAmount + EthAmount \in Nat
      /\ params.height + MatchingAmount + (params.amount - MatchingAmount)
           = params.height + params.amount
  BY <1>1, ParamsParts, MatchFacts
<1>3. /\ Matched \in Params
      /\ Matched.redeemRequestId = params.redeemRequestId
      /\ Matched.withdrawalEventId = params.withdrawalEventId
      /\ Matched.depth = params.depth
      /\ Matched.height = params.height + MatchingAmount
      /\ Matched.amount = params.amount - MatchingAmount
      /\ Matched.maxRedeemableEth = params.maxRedeemableEth - EthAmount
      /\ Matched.ethAmount = params.ethAmount + EthAmount
  BY <1>1, <1>2 DEF Matched, Params
<1> QED
  BY <1>2, <1>3 DEF EndOf

LEMMA DescendEffect ==
  ASSUME IInv, MatchAndDescend
  PROVE  /\ Sound(storage')
         /\ storage'.redeemRequests = storage.redeemRequests
         /\ storage'.withdrawalEvents = storage.withdrawalEvents
         /\ storage'.placed = storage.placed
         /\ storage'.paid = storage.paid
         /\ storage'.bufferedExceedingEth =
              storage.bufferedExceedingEth + ExceedingEthAmount
         /\ storage'.balance = storage.balance
<1>1. /\ Sound(storage) /\ storage \in Storage /\ storage.bufferedExceedingEth \in Nat
      /\ ExceedingEthAmount \in Nat
  BY MatchFacts, StorageParts DEF IInv, Sound, MatchAndDescend
<1>2. storage' = [storage EXCEPT
         !.bufferedExceedingEth = storage.bufferedExceedingEth + ExceedingEthAmount]
  BY DEF MatchAndDescend
<1>3. storage.bufferedExceedingEth + ExceedingEthAmount \in Nat
  BY <1>1
<1>4. /\ storage' \in Storage
      /\ storage'.redeemRequests = storage.redeemRequests
      /\ storage'.withdrawalEvents = storage.withdrawalEvents
      /\ storage'.placed = storage.placed
      /\ storage'.paid = storage.paid
      /\ storage'.redeemDemand = storage.redeemDemand
      /\ storage'.bufferedExceedingEth =
           storage.bufferedExceedingEth + ExceedingEthAmount
      /\ storage'.balance = storage.balance
  BY <1>1, <1>2, <1>3 DEF Storage
<1> QED
  BY <1>1, <1>4, SoundIgnoresEth

\* Saving replaces one request by one that ends at the same place, no further
\* than the stack.
LEMMA SaveEffect ==
  ASSUME IInv, MatchAndSave
  PROVE  LET id == params.redeemRequestId IN
         /\ Sound(storage')
         /\ storage'.withdrawalEvents = storage.withdrawalEvents
         /\ storage'.placed = storage.placed
         /\ storage'.paid = storage.paid
         /\ Len(storage'.redeemRequests) = Len(storage.redeemRequests)
         /\ \A r \in 1..Len(storage.redeemRequests) :
              storage'.redeemRequests[r].maxRedeemableEth =
                IF r = id THEN Matched.maxRedeemableEth
                ELSE storage.redeemRequests[r].maxRedeemableEth
         /\ \A r \in 1..Len(storage.redeemRequests) :
              r # id => storage'.redeemRequests[r] = storage.redeemRequests[r]
         /\ storage'.redeemRequests[id].height = Matched.height
         /\ storage'.redeemRequests[id].amount = Matched.amount
         /\ storage'.bufferedExceedingEth =
              storage.bufferedExceedingEth + ExceedingEthAmount
         /\ storage'.balance = storage.balance
<1> DEFINE s == storage
           t == storage'
           id == params.redeemRequestId
           n == Len(s.redeemRequests)
           new == SavedRequest(s.redeemRequests[id], Matched)
<1>1. /\ Sound(s) /\ s \in Storage /\ s.bufferedExceedingEth \in Nat
      /\ pc = "match" /\ ~Panics
      /\ ExceedingEthAmount \in Nat
  BY MatchFacts, StorageParts DEF IInv, Sound, MatchAndSave
<1>2. /\ id \in 1..n /\ n \in Nat /\ s.redeemRequests[id] \in Request
      /\ DOMAIN s.redeemRequests = 1..n
      /\ EndOf(params) = EndOf(s.redeemRequests[id])
      /\ s.redeemRequests[id].height <= params.height
      /\ s.redeemRequests[id].height \in Nat
  BY <1>1, SequenceParts DEF IInv, InFlight
<1>3. Matched \in Params
  BY <1>1, MatchedParts
<1>4. /\ new \in Request
      /\ new.height = Matched.height
      /\ new.amount = Matched.amount
      /\ new.maxRedeemableEth = Matched.maxRedeemableEth
  BY <1>2, <1>3 DEF SavedRequest, Request, Params
<1>5. EndOf(new) = EndOf(s.redeemRequests[id])
  BY <1>1, <1>2, <1>4, MatchedParts DEF EndOf
<1>6. t = [s EXCEPT
         !.bufferedExceedingEth = s.bufferedExceedingEth + ExceedingEthAmount,
         !.redeemRequests = [s.redeemRequests EXCEPT ![id] = new]]
  BY DEF MatchAndSave
<1> HIDE DEF new
<1>7. /\ [s.redeemRequests EXCEPT ![id] = new] \in Seq(Request)
      /\ Len([s.redeemRequests EXCEPT ![id] = new]) = n
      /\ \A r \in 1..n : [s.redeemRequests EXCEPT ![id] = new][r] =
                           IF r = id THEN new ELSE s.redeemRequests[r]
  BY <1>1, <1>2, <1>4, StorageParts, ExceptSeq
<1>8. s.bufferedExceedingEth + ExceedingEthAmount \in Nat
  BY <1>1
<1>9. /\ t \in Storage
      /\ t.redeemRequests = [s.redeemRequests EXCEPT ![id] = new]
      /\ t.withdrawalEvents = s.withdrawalEvents
      /\ t.placed = s.placed
      /\ t.paid = s.paid
      /\ t.redeemDemand = s.redeemDemand
      /\ t.bufferedExceedingEth = s.bufferedExceedingEth + ExceedingEthAmount
      /\ t.balance = s.balance
  BY <1>1, <1>6, <1>7, <1>8 DEF Storage
<1>10. /\ Len(t.redeemRequests) = n
       /\ DOMAIN t.redeemRequests = 1..n
       /\ \A r \in 1..n : t.redeemRequests[r] =
                            IF r = id THEN new ELSE s.redeemRequests[r]
  BY <1>2, <1>7, <1>9, SequenceParts
<1>11. \A r \in 1..n : EndOf(t.redeemRequests[r]) = EndOf(s.redeemRequests[r])
  BY <1>5, <1>10
<1>12. EndOfLast(Requests(t)) = EndOfLast(Requests(s))
  <2>1. /\ Len(Requests(t)) = n /\ Len(Requests(s)) = n /\ n > 0
        /\ n \in 1..n
    BY <1>2, <1>10 DEF Requests
  <2>2. /\ EndOfLast(Requests(t)) = EndOf(t.redeemRequests[n])
        /\ EndOfLast(Requests(s)) = EndOf(s.redeemRequests[n])
    BY <1>1, <1>9, <2>1, EndsAreNat DEF Requests
  <2> QED
    BY <1>11, <2>1, <2>2
<1>13. EndOfLast(Events(t)) = EndOfLast(Events(s))
  BY <1>9 DEF Events
<1>14. QueueIsContiguous(t)
  <2>0. Len(s.placed) = n
    BY <1>1 DEF Sound, QueueIsContiguous, Requests
  <2> SUFFICES ASSUME NEW r \in 1..n
               PROVE  /\ EndOf(t.redeemRequests[r]) = EndOf(s.placed[r])
                      /\ s.placed[r].height <= t.redeemRequests[r].height
                      /\ s.placed[r].height = IF r = 1 THEN 0 ELSE EndOf(s.placed[r - 1])
    BY <1>9, <1>10, <2>0 DEF QueueIsContiguous, Requests
  <2>1. /\ EndOf(s.redeemRequests[r]) = EndOf(s.placed[r])
        /\ s.placed[r].height <= s.redeemRequests[r].height
        /\ s.placed[r].height = IF r = 1 THEN 0 ELSE EndOf(s.placed[r - 1])
    BY <1>1, <1>2 DEF Sound, QueueIsContiguous, Requests
  <2>2. r = id => s.placed[r].height <= new.height
    <3>1. /\ params.height \in Nat /\ MatchingAmount \in Nat
          /\ new.height = params.height + MatchingAmount
      BY <1>1, <1>4, MatchFacts, MatchedParts, ParamsParts DEF IInv, TypeOK
    <3>2. /\ r \in 1..Len(s.placed)
      BY <1>1 DEF Sound, QueueIsContiguous, Requests
    <3>3. s.placed[r].height \in Nat
      BY <1>1, <3>2, SequenceParts
    <3> QED
      BY <1>2, <2>1, <3>1, <3>3
  <2> QED
    BY <1>10, <1>11, <2>1, <2>2
<1>15. ClaimsAreCovered(t)
  <2> SUFFICES ASSUME NEW r \in 1..n
               PROVE  \/ t.redeemRequests[r].height = s.placed[r].height
                      \/ t.redeemRequests[r].height <= EndOfLast(Events(s))
    BY <1>9, <1>10, <1>13 DEF ClaimsAreCovered, Requests
  <2>1. CASE r = id
    <3>1. new.height <= EndOf(CurrentEvent)
      BY <1>1, <1>4, MatchFacts, MatchedParts
    <3>2. /\ EndOf(CurrentEvent) <= EndOfLast(Events(s))
          /\ EndOf(CurrentEvent) \in Nat /\ EndOfLast(Events(s)) \in Nat
          /\ new.height \in Nat
      BY <1>1, <1>4, CurrentEventParts, EndsAreNat, RequestParts
    <3> QED
      BY <1>10, <2>1, <3>1, <3>2
  <2>2. CASE r # id
    BY <1>1, <1>2, <1>10, <2>2 DEF Sound, ClaimsAreCovered, Requests
  <2> QED
    BY <2>1, <2>2
<1>16. DemandIsUncovered(t)
  BY <1>1, <1>9, <1>12, <1>13 DEF Sound, DemandIsUncovered
<1>17. StackIsContiguous(t) /\ StackIsInOrder(t)
  BY <1>1, <1>9 DEF Sound, StackIsContiguous, StackIsInOrder, Events
<1>18. Len(t.paid) = Len(Requests(t))
  BY <1>1, <1>9, <1>10 DEF Sound, Requests
<1>19. Sound(t)
  BY <1>9, <1>14, <1>15, <1>16, <1>17, <1>18 DEF Sound
<1>20. \A r \in 1..n : t.redeemRequests[r].maxRedeemableEth =
                         IF r = id THEN Matched.maxRedeemableEth
                         ELSE s.redeemRequests[r].maxRedeemableEth
  BY <1>4, <1>10
<1>21. /\ t.redeemRequests[id].height = Matched.height
       /\ t.redeemRequests[id].amount = Matched.amount
       /\ \A r \in 1..n : r # id => t.redeemRequests[r] = s.redeemRequests[r]
  BY <1>2, <1>4, <1>10
<1> QED
  BY <1>9, <1>10, <1>19, <1>20, <1>21

LEMMA PayEffect ==
  ASSUME IInv, PayRecipient
  PROVE  LET id == params.redeemRequestId IN
         /\ Sound(storage')
         /\ storage'.redeemRequests = storage.redeemRequests
         /\ storage'.withdrawalEvents = storage.withdrawalEvents
         /\ storage'.placed = storage.placed
         /\ Len(storage'.paid) = Len(storage.paid)
         /\ \A r \in 1..Len(storage.paid) :
              storage'.paid[r] = IF r = id THEN storage.paid[r] + params.ethAmount
                                 ELSE storage.paid[r]
         /\ storage'.bufferedExceedingEth = storage.bufferedExceedingEth
         /\ storage'.balance = storage.balance - params.ethAmount
<1> DEFINE s == storage
           t == storage'
           id == params.redeemRequestId
           n == Len(s.paid)
<1>1. /\ Sound(s) /\ s \in Storage /\ s.balance \in Nat /\ s.paid \in Seq(Nat)
      /\ pc = "pay" /\ params.ethAmount <= s.balance
      /\ params.ethAmount \in Nat
  BY StorageParts, ParamsParts DEF IInv, Sound, TypeOK, PayRecipient
<1>2. n \in Nat /\ id \in 1..n /\ s.paid[id] \in Nat
  BY <1>1, SequenceParts DEF IInv, InFlight, Sound, Requests
<1>3. t = [s EXCEPT
         !.balance = s.balance - params.ethAmount,
         !.paid = [s.paid EXCEPT ![id] = s.paid[id] + params.ethAmount]]
  BY DEF PayRecipient
<1>4. s.paid[id] + params.ethAmount \in Nat /\ s.balance - params.ethAmount \in Nat
  <2>1. /\ s.balance \in Nat /\ params.ethAmount \in Nat
        /\ params.ethAmount <= s.balance
    BY <1>1
  <2>2. s.balance - params.ethAmount \in Nat
    BY <2>1
  <2>3. s.paid[id] + params.ethAmount \in Nat
    BY <1>2, <2>1
  <2> QED
    BY <2>2, <2>3
<1>5. /\ [s.paid EXCEPT ![id] = s.paid[id] + params.ethAmount] \in Seq(Nat)
      /\ Len([s.paid EXCEPT ![id] = s.paid[id] + params.ethAmount]) = n
      /\ \A r \in 1..n : [s.paid EXCEPT ![id] = s.paid[id] + params.ethAmount][r] =
                           IF r = id THEN s.paid[id] + params.ethAmount ELSE s.paid[r]
  BY <1>1, <1>2, <1>4, ExceptSeq
<1>6. /\ t \in Storage
      /\ t.paid = [s.paid EXCEPT ![id] = s.paid[id] + params.ethAmount]
      /\ t.redeemRequests = s.redeemRequests
      /\ t.withdrawalEvents = s.withdrawalEvents
      /\ t.placed = s.placed
      /\ t.redeemDemand = s.redeemDemand
      /\ t.bufferedExceedingEth = s.bufferedExceedingEth
      /\ t.balance = s.balance - params.ethAmount
  BY <1>1, <1>3, <1>4, <1>5 DEF Storage
<1>7. Sound(t)
  BY <1>1, <1>5, <1>6, SoundIgnoresEth
<1> QED
  BY <1>5, <1>6, <1>7

-----------------------------------------------------------------------------
(* The invariant is inductive                                              *)

LEMMA EmptyIsSound == Sound(EmptyStorage) /\ CeilingsKept(EmptyStorage)
<1>1. <<>> \in Seq(Request) /\ <<>> \in Seq(Event) /\ <<>> \in Seq(Placement) /\ <<>> \in Seq(Nat)
  BY EmptySeq
<1>2. EmptyStorage \in Storage
  BY <1>1 DEF EmptyStorage, Storage
<1>3. /\ EmptyStorage.redeemRequests = <<>> /\ EmptyStorage.withdrawalEvents = <<>>
      /\ EmptyStorage.placed = <<>> /\ EmptyStorage.paid = <<>>
      /\ EmptyStorage.redeemDemand = 0
  BY DEF EmptyStorage
<1>4. Len(<<>>) = 0 /\ DOMAIN <<>> = {}
  OBVIOUS
<1> QED
  BY <1>2, <1>3, <1>4
     DEF Sound, StackIsContiguous, StackIsInOrder, QueueIsContiguous,
         DemandIsUncovered, ClaimsAreCovered, CeilingsKept, Requests, Events, EndOfLast

\* Outside of a payment the ceilings are those of the storage.
LEMMA CeilingsOfStorage ==
  ASSUME Sound(storage), pc # "pay"
  PROVE  PaidWithinCeiling <=> CeilingsKept(storage)
<1>1. storage \in Storage
  BY DEF Sound
<1>2. /\ DOMAIN storage.paid = 1..Len(storage.paid)
      /\ Len(storage.paid) = Len(storage.redeemRequests)
      /\ \A r \in 1..Len(storage.paid) :
           /\ storage.paid[r] \in Nat
           /\ storage.redeemRequests[r].maxRedeemableEth \in Nat
  BY <1>1, SequenceParts DEF Sound, Requests
<1>3. ASSUME NEW r \in 1..Len(storage.paid)
      PROVE  storage.paid[r] + storage.redeemRequests[r].maxRedeemableEth
               + (IF pc = "pay" /\ r = params.redeemRequestId THEN params.ethAmount ELSE 0)
             = storage.paid[r] + storage.redeemRequests[r].maxRedeemableEth
  BY <1>2
<1> QED
  BY <1>2, <1>3, Zenon DEF PaidWithinCeiling, CeilingsKept

\* A step that does not move the claim in progress: only the storage changes, and
\* it stays sound and no shorter.
LEMMA EnteredKeepsIInv ==
  ASSUME IInv, Entered, UNCHANGED <<pc, call, params, txStart>>,
         denied' \subseteq Account, slashingContainmentMode' \in BOOLEAN,
         Sound(storage'), CeilingsKept(storage'),
         Len(storage.redeemRequests) <= Len(storage'.redeemRequests),
         Len(storage.withdrawalEvents) <= Len(storage'.withdrawalEvents)
  PROVE  IInv'
<1>1. TypeOK'
  BY DEF IInv, TypeOK, Sound
<1>2. InFlight'
  <2>1. /\ call.redeemRequestCount \in Nat /\ call.withdrawalEventCount \in Nat
        /\ storage \in Storage /\ storage' \in Storage
    BY DEF IInv, TypeOK, Call, Sound
  <2>2. /\ Len(storage.redeemRequests) \in Nat /\ Len(storage'.redeemRequests) \in Nat
        /\ Len(storage.withdrawalEvents) \in Nat /\ Len(storage'.withdrawalEvents) \in Nat
    BY <2>1, SequenceParts
  <2>3. pc' \notin {"match", "pay"}
    BY DEF Entered
  <2>4. pc' # "idle" =>
          /\ call'.redeemRequestCount <= Len(storage'.redeemRequests)
          /\ call'.withdrawalEventCount <= Len(storage'.withdrawalEvents)
    BY <2>1, <2>2 DEF IInv, InFlight
  <2> QED
    BY <2>3, <2>4 DEF InFlight
<1>3. PaidWithinCeiling'
  <2>1. /\ DOMAIN storage'.paid = 1..Len(storage'.paid)
        /\ Len(storage'.paid) = Len(storage'.redeemRequests)
        /\ \A r \in 1..Len(storage'.paid) :
             /\ storage'.paid[r] \in Nat
             /\ storage'.redeemRequests[r].maxRedeemableEth \in Nat
    BY SequenceParts DEF Sound, Requests
  <2>2. pc' # "pay"
    BY DEF Entered
  <2> QED
    BY <2>1, <2>2 DEF PaidWithinCeiling, CeilingsKept
<1> QED
  BY <1>1, <1>2, <1>3 DEF IInv

LEMMA ReturnIsTyped ==
  ASSUME TypeOK, storage' \in Storage, Return
  PROVE  TypeOK'
<1>1. NoCall \in Call /\ NoParams \in Params /\ EmptyStorage \in Storage
  BY EmptyIsSound DEF NoCall, Call, NoParams, Params, Sound
<1> QED
  BY <1>1 DEF TypeOK, Return

LEMMA ReturnKeepsIInv ==
  ASSUME IInv, Return, Sound(storage'), CeilingsKept(storage')
  PROVE  IInv'
<1>1. TypeOK'
  BY ReturnIsTyped DEF IInv, Sound
<1>2. InFlight'
  BY DEF Return, InFlight
<1>3. Sound(txStart)' /\ CeilingsKept(txStart)'
  BY EmptyIsSound DEF Return
<1>4. PaidWithinCeiling'
  <2>1. /\ DOMAIN storage'.paid = 1..Len(storage'.paid)
        /\ Len(storage'.paid) = Len(storage'.redeemRequests)
        /\ \A r \in 1..Len(storage'.paid) :
             /\ storage'.paid[r] \in Nat
             /\ storage'.redeemRequests[r].maxRedeemableEth \in Nat
    BY SequenceParts DEF Sound, Requests
  <2>2. pc' # "pay"
    BY DEF Return
  <2> QED
    BY <2>1, <2>2 DEF PaidWithinCeiling, CeilingsKept
<1> QED
  BY <1>1, <1>2, <1>3, <1>4 DEF IInv

LEMMA RevertKeepsIInv ==
  ASSUME IInv, Revert
  PROVE  IInv'
BY ReturnKeepsIInv DEF Revert, IInv

LEMMA RequestKeepsCeilings ==
  ASSUME Sound(storage), CeilingsKept(storage),
         NEW initiator \in Account, NEW recipient \in Account,
         NEW lsETHAmount \in LsETHAmount, NEW rate \in Rate,
         RequestRedeem(initiator, recipient, lsETHAmount, rate)
  PROVE  /\ CeilingsKept(storage')
         /\ Len(storage.redeemRequests) <= Len(storage'.redeemRequests)
         /\ storage'.withdrawalEvents = storage.withdrawalEvents
<1> DEFINE s == storage
           t == storage'
           n == Len(s.redeemRequests)
<1>1. PICK q \in Request, p \in Placement :
        /\ q.maxRedeemableEth = p.maxRedeemableEth
        /\ t \in Storage
        /\ t.redeemRequests = Append(s.redeemRequests, q)
        /\ t.placed = Append(s.placed, p)
        /\ t.paid = Append(s.paid, 0)
        /\ t.withdrawalEvents = s.withdrawalEvents
  BY RequestEffect
<1>2. /\ s.redeemRequests \in Seq(Request) /\ s.placed \in Seq(Placement)
      /\ s.paid \in Seq(Nat)
      /\ n \in Nat /\ Len(s.placed) = n /\ Len(s.paid) = n
  BY StorageParts, SequenceParts DEF Sound, QueueIsContiguous, Requests
<1>3. /\ Len(t.redeemRequests) = n + 1
      /\ \A r \in 1..n : t.redeemRequests[r] = s.redeemRequests[r]
      /\ t.redeemRequests[n + 1] = q
  BY <1>1, <1>2, AppendElements
<1>4. /\ \A r \in 1..n : t.placed[r] = s.placed[r]
      /\ t.placed[n + 1] = p
  BY <1>1, <1>2, AppendElements
<1>5. /\ Len(t.paid) = n + 1
      /\ \A r \in 1..n : t.paid[r] = s.paid[r]
      /\ t.paid[n + 1] = 0
  BY <1>1, <1>2, AppendElements
<1>6. CeilingsKept(t)
  <2> SUFFICES ASSUME NEW r \in 1..(n + 1)
               PROVE  t.paid[r] + t.redeemRequests[r].maxRedeemableEth
                        = t.placed[r].maxRedeemableEth
    BY <1>5 DEF CeilingsKept
  <2>1. CASE r \in 1..n
    BY <1>2, <1>3, <1>4, <1>5, <2>1 DEF CeilingsKept
  <2>2. CASE r = n + 1
    <3>1. /\ t.paid[r] = 0 /\ t.redeemRequests[r] = q /\ t.placed[r] = p
      BY <1>3, <1>4, <1>5, <2>2
    <3>2. p.maxRedeemableEth \in Nat
      BY PlacementParts
    <3>3. t.redeemRequests[r].maxRedeemableEth = p.maxRedeemableEth
      BY <1>1, <3>1
    <3>4. 0 + p.maxRedeemableEth = p.maxRedeemableEth
      BY <3>2
    <3>5. /\ t.paid[r] + t.redeemRequests[r].maxRedeemableEth = 0 + p.maxRedeemableEth
          /\ t.placed[r].maxRedeemableEth = p.maxRedeemableEth
      BY <3>1, <3>3
    <3> QED
      BY <3>4, <3>5
  <2> QED
    BY <1>2, <2>1, <2>2
<1> QED
  BY <1>1, <1>2, <1>3, <1>6

LEMMA ReportKeepsCeilings ==
  ASSUME Sound(storage), CeilingsKept(storage),
         NEW lsETHWithdrawable \in Nat, NEW value \in Nat,
         ReportWithdraw(lsETHWithdrawable, value)
  PROVE  /\ CeilingsKept(storage')
         /\ storage'.redeemRequests = storage.redeemRequests
         /\ Len(storage.withdrawalEvents) <= Len(storage'.withdrawalEvents)
<1>1. storage \in Storage /\ storage.withdrawalEvents \in Seq(Event)
  BY StorageParts DEF Sound
<1>2. PICK new \in Event :
        /\ storage'.redeemRequests = storage.redeemRequests
        /\ storage'.placed = storage.placed
        /\ storage'.paid = storage.paid
        /\ storage'.withdrawalEvents = Append(storage.withdrawalEvents, new)
  BY ReportEffect
<1>3. /\ Len(storage.withdrawalEvents) \in Nat
      /\ Len(storage'.withdrawalEvents) = Len(storage.withdrawalEvents) + 1
  BY <1>1, <1>2, AppendElements
<1> QED
  BY <1>2, <1>3 DEF CeilingsKept

LEMMA InitEstablishesIInv == Init => IInv
<1> SUFFICES ASSUME Init PROVE IInv
  OBVIOUS
<1>1. NoCall \in Call /\ NoParams \in Params /\ EmptyStorage \in Storage
  BY EmptyIsSound DEF NoCall, Call, NoParams, Params, Sound
<1>2. TypeOK
  BY <1>1 DEF Init, TypeOK
<1>3. Sound(storage) /\ Sound(txStart) /\ CeilingsKept(storage) /\ CeilingsKept(txStart)
  BY EmptyIsSound DEF Init
<1>4. InFlight
  BY DEF Init, InFlight
<1>5. PaidWithinCeiling
  BY <1>3, CeilingsOfStorage DEF Init
<1> QED
  BY <1>2, <1>3, <1>4, <1>5 DEF IInv

LEMMA EnvironmentKeepsIInv ==
  ASSUME IInv
  PROVE  /\ \A initiator, recipient \in Account, a \in LsETHAmount, rate \in Rate :
              RequestRedeem(initiator, recipient, a, rate) => IInv'
         /\ \A rate \in Rate, available \in RedeemBalance :
              RiverReportsWithdraw(rate, available) => IInv'
         /\ \A limit \in PullLimit : PullExceedingEth(limit) => IInv'
         /\ \A accounts \in SUBSET Account : SetDenied(accounts) => IInv'
         /\ SetSlashingContainmentMode => IInv'
<1>1. /\ Sound(storage) /\ storage \in Storage /\ TypeOK
      /\ Len(storage.redeemRequests) \in Nat /\ Len(storage.withdrawalEvents) \in Nat
      /\ Len(storage.paid) = Len(storage.redeemRequests)
  BY SequenceParts DEF IInv, Sound, Requests
<1>2. pc # "pay" => CeilingsKept(storage)
  BY <1>1, CeilingsOfStorage DEF IInv
<1>3. ASSUME NEW initiator \in Account, NEW recipient \in Account,
             NEW a \in LsETHAmount, NEW rate \in Rate,
             RequestRedeem(initiator, recipient, a, rate)
      PROVE  IInv'
  <2>1. /\ Entered /\ pc # "pay" /\ UNCHANGED <<pc, call, params, txStart>>
        /\ denied' \subseteq Account /\ slashingContainmentMode' \in BOOLEAN
    BY <1>1, <1>3 DEF RequestRedeem, Entered, TypeOK
  <2>2. /\ Sound(storage') /\ CeilingsKept(storage')
        /\ Len(storage.redeemRequests) <= Len(storage'.redeemRequests)
        /\ Len(storage.withdrawalEvents) <= Len(storage'.withdrawalEvents)
    BY <1>1, <1>2, <1>3, <2>1, RequestKeepsSound, RequestKeepsCeilings
  <2> QED
    BY <2>1, <2>2, EnteredKeepsIInv
<1>4. ASSUME NEW rate \in Rate, NEW available \in RedeemBalance,
             RiverReportsWithdraw(rate, available)
      PROVE  IInv'
  <2> DEFINE supply == Supply(rate, available, storage.redeemDemand)
  <2>1. supply.lsETH \in Nat /\ supply.eth \in Nat
    <3>1. available \in Nat /\ storage.redeemDemand \in Nat
      BY <1>1, RedeemAssumption, StorageParts
    <3> QED
      BY <3>1, RateConverts DEF Supply
  <2>2. ReportWithdraw(supply.lsETH, supply.eth)
    BY <1>4 DEF RiverReportsWithdraw
  <2>3. /\ Entered /\ pc # "pay" /\ UNCHANGED <<pc, call, params, txStart>>
        /\ denied' \subseteq Account /\ slashingContainmentMode' \in BOOLEAN
    BY <1>1, <2>2 DEF ReportWithdraw, Entered, TypeOK
  <2> HIDE DEF supply
  <2>4. /\ Sound(storage') /\ CeilingsKept(storage')
        /\ Len(storage.redeemRequests) <= Len(storage'.redeemRequests)
        /\ Len(storage.withdrawalEvents) <= Len(storage'.withdrawalEvents)
    BY <1>1, <1>2, <2>1, <2>2, <2>3, ReportKeepsSound, ReportKeepsCeilings
  <2> QED
    BY <2>3, <2>4, EnteredKeepsIInv
<1>5. ASSUME NEW limit \in PullLimit, PullExceedingEth(limit) PROVE IInv'
  <2>1. /\ Entered /\ pc # "pay" /\ UNCHANGED <<pc, call, params, txStart>>
        /\ denied' \subseteq Account /\ slashingContainmentMode' \in BOOLEAN
    BY <1>1, <1>5 DEF PullExceedingEth, Entered, TypeOK
  <2>2. /\ Sound(storage') /\ CeilingsKept(storage')
        /\ Len(storage.redeemRequests) <= Len(storage'.redeemRequests)
        /\ Len(storage.withdrawalEvents) <= Len(storage'.withdrawalEvents)
    BY <1>1, <1>2, <1>5, <2>1, PullKeepsSound DEF CeilingsKept
  <2> QED
    BY <2>1, <2>2, EnteredKeepsIInv
<1>6. ASSUME NEW accounts \in SUBSET Account, SetDenied(accounts) PROVE IInv'
  BY <1>1, <1>2, <1>6, EnteredKeepsIInv DEF SetDenied, Entered, TypeOK
<1>7. ASSUME SetSlashingContainmentMode PROVE IInv'
  BY <1>1, <1>2, <1>7, EnteredKeepsIInv DEF SetSlashingContainmentMode, Entered, TypeOK
<1> QED
  BY <1>3, <1>4, <1>5, <1>6, <1>7

LEMMA ClaimStartKeepsIInv ==
  ASSUME IInv, NEW n \in 0..MaxBatch, NEW skip \in BOOLEAN, NEW d \in Depth,
         ClaimRedeemRequests(n, skip, d)
  PROVE  IInv'
<1>1. /\ Sound(storage) /\ storage \in Storage /\ TypeOK
      /\ Len(storage.redeemRequests) \in Nat /\ Len(storage.withdrawalEvents) \in Nat
      /\ pc = "idle"
  BY SequenceParts DEF IInv, Sound, ClaimRedeemRequests
<1>2. CeilingsKept(storage)
  BY <1>1, CeilingsOfStorage DEF IInv
<1>3. call' \in Call
  BY <1>1, RedeemAssumption DEF ClaimRedeemRequests, Call
<1>4. TypeOK'
  BY <1>1, <1>3 DEF ClaimRedeemRequests, TypeOK
<1>5. InFlight'
  BY <1>1 DEF ClaimRedeemRequests, InFlight
<1>6. Sound(storage)' /\ Sound(txStart)' /\ CeilingsKept(txStart)'
  BY <1>1, <1>2 DEF ClaimRedeemRequests
<1>7. PaidWithinCeiling'
  BY <1>1 DEF ClaimRedeemRequests, IInv, PaidWithinCeiling
<1> QED
  BY <1>4, <1>5, <1>6, <1>7 DEF IInv

LEMMA LoadKeepsIInv ==
  ASSUME IInv, NEW r \in 1..(MaxRequests + 1), NEW e \in 1..(MaxWithdrawalEvents + 1),
         LoadItem(r, e)
  PROVE  IInv'
<1> DEFINE request == storage.redeemRequests[r]
<1>1. /\ Sound(storage) /\ storage \in Storage /\ TypeOK
      /\ Len(storage.redeemRequests) \in Nat /\ Len(storage.withdrawalEvents) \in Nat
      /\ pc = "loop"
      /\ call \in Call
      /\ call.redeemRequestCount \in Nat /\ call.withdrawalEventCount \in Nat
      /\ call.left \in Nat /\ call.left > 0 /\ call.depth \in Nat
  BY SequenceParts DEF IInv, Sound, LoadItem, TypeOK, Call
<1>2. /\ call.redeemRequestCount <= Len(storage.redeemRequests)
      /\ call.withdrawalEventCount <= Len(storage.withdrawalEvents)
  BY <1>1 DEF IInv, InFlight
<1>3. /\ r <= call.redeemRequestCount /\ e <= call.withdrawalEventCount
      /\ request.amount > 0
      /\ IsMatch(request, storage.withdrawalEvents[e])
  BY DEF LoadItem, Claimable, InBounds
<1>4. /\ r \in 1..Len(storage.redeemRequests)
      /\ e \in 1..call.withdrawalEventCount
      /\ e \in 1..Len(storage.withdrawalEvents)
      /\ r \in Nat /\ e \in Nat
  BY <1>1, <1>2, <1>3, RedeemAssumption
<1>5. /\ request.height \in Nat /\ request.amount \in Nat
      /\ request.maxRedeemableEth \in Nat
      /\ storage.withdrawalEvents[e].height \in Nat
      /\ EndOf(storage.withdrawalEvents[e]) \in Nat
  BY <1>1, <1>4, SequenceParts
<1>6. /\ storage' = storage /\ txStart' = txStart
      /\ denied' = denied /\ slashingContainmentMode' = slashingContainmentMode
      /\ pc' = "match"
      /\ call' = [call EXCEPT !.left = call.left - 1]
      /\ params' = [redeemRequestId |-> r, withdrawalEventId |-> e,
                    depth |-> call.depth, height |-> request.height,
                    amount |-> request.amount,
                    maxRedeemableEth |-> request.maxRedeemableEth, ethAmount |-> 0]
  BY DEF LoadItem
<1>7. /\ call' \in Call
      /\ call'.redeemRequestCount = call.redeemRequestCount
      /\ call'.withdrawalEventCount = call.withdrawalEventCount
  BY <1>1, <1>6 DEF Call
<1>8. /\ params' \in Params
      /\ params'.redeemRequestId = r /\ params'.withdrawalEventId = e
      /\ params'.height = request.height /\ params'.amount = request.amount
      /\ params'.maxRedeemableEth = request.maxRedeemableEth
      /\ params'.ethAmount = 0
  BY <1>1, <1>4, <1>5, <1>6 DEF Params
<1>9. TypeOK'
  BY <1>1, <1>6, <1>7, <1>8 DEF TypeOK
<1>10. InFlight'
  <2>1. /\ CurrentEvent' = storage.withdrawalEvents[e]
        /\ storage'.redeemRequests[params'.redeemRequestId] = request
    BY <1>6, <1>8 DEF CurrentEvent
  <2>2. /\ EndOf(params') = EndOf(request)
        /\ request.height <= params'.height
        /\ CurrentEvent'.height <= params'.height
        /\ params'.height <= EndOf(CurrentEvent')
        /\ params'.maxRedeemableEth + params'.ethAmount = request.maxRedeemableEth
    BY <1>3, <1>5, <1>8, <2>1 DEF IsMatch, EndOf
  <2> QED
    BY <1>2, <1>3, <1>4, <1>6, <1>7, <1>8, <2>1, <2>2 DEF InFlight
<1>11. PaidWithinCeiling'
  BY <1>1, <1>6 DEF IInv, PaidWithinCeiling
<1>12. Sound(storage)' /\ Sound(txStart)' /\ CeilingsKept(txStart)'
  BY <1>6 DEF IInv
<1> QED
  BY <1>9, <1>10, <1>11, <1>12 DEF IInv

LEMMA SkipKeepsIInv ==
  ASSUME IInv, NEW r \in 1..(MaxRequests + 1), NEW e \in 1..(MaxWithdrawalEvents + 1),
         SkipItem(r, e)
  PROVE  IInv'
<1>1. /\ pc = "loop" /\ pc' = pc /\ storage' = storage /\ txStart' = txStart
      /\ denied' = denied /\ slashingContainmentMode' = slashingContainmentMode
      /\ params' = params
      /\ call' = [call EXCEPT !.left = call.left - 1]
      /\ call \in Call /\ call.left > 0
  BY DEF SkipItem, IInv, TypeOK
<1>2. /\ call' \in Call
      /\ call'.redeemRequestCount = call.redeemRequestCount
      /\ call'.withdrawalEventCount = call.withdrawalEventCount
  BY <1>1 DEF Call
<1>3. TypeOK' /\ InFlight' /\ PaidWithinCeiling'
  BY <1>1, <1>2 DEF IInv, TypeOK, InFlight, PaidWithinCeiling
<1> QED
  BY <1>1, <1>3 DEF IInv

LEMMA DescendKeepsIInv ==
  ASSUME IInv, MatchAndDescend
  PROVE  IInv'
<1> DEFINE id == params.redeemRequestId
           k == params.withdrawalEventId
<1>1. /\ pc = "match" /\ pc' = "match" /\ ~Panics /\ Descends
      /\ denied' = denied /\ slashingContainmentMode' = slashingContainmentMode
      /\ call' = call /\ txStart' = txStart
      /\ params' = [Matched EXCEPT !.withdrawalEventId = Matched.withdrawalEventId + 1,
                                   !.depth = Matched.depth - 1]
  BY DEF MatchAndDescend
<1>2. /\ Sound(storage')
      /\ storage'.redeemRequests = storage.redeemRequests
      /\ storage'.withdrawalEvents = storage.withdrawalEvents
      /\ storage'.placed = storage.placed
      /\ storage'.paid = storage.paid
  BY DescendEffect
<1>3. /\ TypeOK /\ params \in Params /\ k \in Nat /\ params.depth \in Nat
      /\ params.amount \in Nat /\ params.height \in Nat
      /\ params.maxRedeemableEth \in Nat /\ params.ethAmount \in Nat
      /\ Sound(storage) /\ storage \in Storage
  BY ParamsParts DEF IInv, TypeOK, Sound
<1>4. /\ params.amount - MatchingAmount > 0
      /\ k + 1 <= call.withdrawalEventCount
      /\ params.depth > 0
  BY <1>1 DEF Descends
<1>5. /\ params' \in Params
      /\ params'.redeemRequestId = id
      /\ params'.withdrawalEventId = k + 1
      /\ params'.height = params.height + MatchingAmount
      /\ params'.amount = params.amount - MatchingAmount
      /\ EndOf(params') = EndOf(params)
      /\ params'.maxRedeemableEth = params.maxRedeemableEth - EthAmount
      /\ params'.ethAmount = params.ethAmount + EthAmount
  <2>1. /\ Matched \in Params
        /\ Matched.withdrawalEventId + 1 \in Nat /\ Matched.depth - 1 \in Nat
    BY <1>1, <1>3, <1>4, MatchedParts
  <2>2. /\ params' \in Params
        /\ params'.redeemRequestId = Matched.redeemRequestId
        /\ params'.withdrawalEventId = Matched.withdrawalEventId + 1
        /\ params'.height = Matched.height
        /\ params'.amount = Matched.amount
        /\ params'.maxRedeemableEth = Matched.maxRedeemableEth
        /\ params'.ethAmount = Matched.ethAmount
    BY <1>1, <2>1 DEF Params
  <2>3. EndOf(params') = EndOf(Matched)
    BY <2>2 DEF EndOf
  <2> QED
    BY <1>1, <2>2, <2>3, MatchedParts
<1>6. /\ k \in 1..Len(storage.withdrawalEvents)
      /\ call.withdrawalEventCount \in Nat
      /\ call.withdrawalEventCount <= Len(storage.withdrawalEvents)
      /\ Len(storage.withdrawalEvents) \in Nat
  BY <1>1, <1>3, CurrentEventParts, SequenceParts DEF IInv, InFlight
<1>7. k + 1 \in 1..Len(storage.withdrawalEvents) /\ k + 1 \in 1..call.withdrawalEventCount
  BY <1>4, <1>6
<1>8. /\ storage.withdrawalEvents[k + 1].height = EndOf(CurrentEvent)
      /\ storage.withdrawalEvents[k + 1].amount \in Nat
      /\ EndOf(CurrentEvent) \in Nat
  <2>1. k + 1 # 1 /\ k + 1 - 1 = k
    BY <1>6
  <2>2. storage.withdrawalEvents[k + 1].height = EndOf(storage.withdrawalEvents[k])
    <3>1. k + 1 \in DOMAIN Events(storage)
      BY <1>3, <1>7, SequenceParts DEF Events
    <3>2. StackIsContiguous(storage)
      BY <1>3 DEF Sound
    <3>3. \A e \in DOMAIN storage.withdrawalEvents :
            e # 1 => storage.withdrawalEvents[e].height =
                       EndOf(storage.withdrawalEvents[e - 1])
      BY <3>2 DEF StackIsContiguous, Events
    <3>4. PICK e \in DOMAIN storage.withdrawalEvents : e = k + 1
      BY <3>1 DEF Events
    <3>5. e # 1 /\ e - 1 = k
      <4>1. k \in Nat /\ k # 0
        BY <1>6
      <4> HIDE DEF k
      <4> QED
        BY <3>4, <4>1
    <3>6. storage.withdrawalEvents[e].height = EndOf(storage.withdrawalEvents[e - 1])
      BY <3>3, <3>5
    <3> QED
      BY <3>4, <3>5, <3>6
  <2> QED
    BY <1>1, <1>3, <1>7, <2>2, SequenceParts, CurrentEventParts DEF CurrentEvent
<1>9. params.height + MatchingAmount = EndOf(CurrentEvent)
  BY <1>1, <1>3, <1>4, MatchFacts
<1>10. CurrentEvent' = storage.withdrawalEvents[k + 1]
  BY <1>2, <1>5 DEF CurrentEvent
<1>11. InFlight'
  <2>1. /\ id \in 1..Len(storage.redeemRequests)
        /\ EndOf(params) = EndOf(storage.redeemRequests[id])
        /\ storage.redeemRequests[id].height <= params.height
        /\ storage.redeemRequests[id].height \in Nat
        /\ params.maxRedeemableEth + params.ethAmount =
             storage.redeemRequests[id].maxRedeemableEth
        /\ call.redeemRequestCount <= Len(storage.redeemRequests)
    BY <1>1, <1>3, SequenceParts DEF IInv, InFlight
  <2>2. MatchingAmount \in Nat /\ EthAmount \in Nat
    BY <1>1, MatchFacts
  <2>3. /\ params'.amount > 0
        /\ EndOf(params') = EndOf(storage.redeemRequests[id])
        /\ storage.redeemRequests[id].height <= params'.height
        /\ params'.maxRedeemableEth + params'.ethAmount =
             storage.redeemRequests[id].maxRedeemableEth
    <3>1. params'.amount > 0
      BY <1>4, <1>5
    <3>2. EndOf(params') = EndOf(storage.redeemRequests[id])
      BY <1>5, <2>1
    <3>3. storage.redeemRequests[id].height <= params'.height
      <4>1. /\ params.height \in Nat /\ params'.height = params.height + MatchingAmount
            /\ storage.redeemRequests[id].height <= params.height
            /\ storage.redeemRequests[id].height \in Nat
        BY <1>3, <1>5, <2>1
      <4> HIDE DEF id
      <4> QED
        BY <2>2, <4>1
    <3>4. params.maxRedeemableEth - EthAmount + (params.ethAmount + EthAmount)
            = params.maxRedeemableEth + params.ethAmount
      BY <1>3, <2>2
    <3>5. params'.maxRedeemableEth + params'.ethAmount =
            storage.redeemRequests[id].maxRedeemableEth
      BY <1>5, <2>1, <3>4
    <3> QED
      BY <3>1, <3>2, <3>3, <3>5
  <2>4. CurrentEvent'.height <= params'.height /\ params'.height <= EndOf(CurrentEvent')
    BY <1>5, <1>8, <1>9, <1>10 DEF EndOf
  <2> QED
    BY <1>1, <1>2, <1>5, <1>6, <1>7, <2>1, <2>3, <2>4 DEF InFlight
<1>12. PaidWithinCeiling'
  BY <1>1, <1>2 DEF IInv, PaidWithinCeiling
<1>13. TypeOK'
  BY <1>1, <1>2, <1>3, <1>5 DEF TypeOK, Sound
<1> QED
  BY <1>1, <1>2, <1>11, <1>12, <1>13 DEF IInv

LEMMA SaveKeepsIInv ==
  ASSUME IInv, MatchAndSave
  PROVE  IInv'
<1> DEFINE id == params.redeemRequestId
           n == Len(storage.redeemRequests)
<1>1. /\ pc = "match" /\ pc' = "pay" /\ ~Panics
      /\ denied' = denied /\ slashingContainmentMode' = slashingContainmentMode
      /\ call' = call /\ txStart' = txStart /\ params' = Matched
  BY DEF MatchAndSave
<1>2. /\ Sound(storage')
      /\ storage'.withdrawalEvents = storage.withdrawalEvents
      /\ storage'.placed = storage.placed
      /\ storage'.paid = storage.paid
      /\ Len(storage'.redeemRequests) = n
      /\ \A r \in 1..n :
           storage'.redeemRequests[r].maxRedeemableEth =
             IF r = id THEN Matched.maxRedeemableEth
             ELSE storage.redeemRequests[r].maxRedeemableEth
  BY SaveEffect
<1>3. /\ TypeOK /\ Sound(storage) /\ storage \in Storage
      /\ id \in 1..n /\ Len(storage.paid) = n
      /\ call.redeemRequestCount <= n
      /\ call.withdrawalEventCount <= Len(storage.withdrawalEvents)
      /\ params.maxRedeemableEth + params.ethAmount =
           storage.redeemRequests[id].maxRedeemableEth
  BY <1>1 DEF IInv, InFlight, Sound, Requests
<1>4. /\ Matched \in Params /\ Matched.redeemRequestId = id
      /\ Matched.maxRedeemableEth + Matched.ethAmount =
           storage.redeemRequests[id].maxRedeemableEth
  BY <1>1, <1>3, MatchedParts, MatchFacts, ParamsParts DEF TypeOK
<1>5. TypeOK'
  BY <1>1, <1>2, <1>3, <1>4 DEF TypeOK, Sound
<1>6. InFlight'
  BY <1>1, <1>2, <1>3, <1>4 DEF InFlight
<1>7. PaidWithinCeiling'
  <2>1. CeilingsKept(storage)
    BY <1>1, <1>3, CeilingsOfStorage DEF IInv
  <2>2. DOMAIN storage'.paid = 1..n
    BY <1>2, <1>3, SequenceParts
  <2> SUFFICES ASSUME NEW r \in 1..n
               PROVE  storage.paid[r] + storage'.redeemRequests[r].maxRedeemableEth
                        + (IF r = id THEN Matched.ethAmount ELSE 0)
                      = storage.placed[r].maxRedeemableEth
    BY <1>1, <1>2, <1>4, <2>2 DEF PaidWithinCeiling
  <2>3. storage.paid[r] + storage.redeemRequests[r].maxRedeemableEth =
          storage.placed[r].maxRedeemableEth
    BY <1>3, <2>1 DEF CeilingsKept
  <2>4. /\ storage.paid[r] \in Nat
        /\ storage.redeemRequests[r].maxRedeemableEth \in Nat
        /\ Matched.maxRedeemableEth \in Nat /\ Matched.ethAmount \in Nat
    BY <1>3, <1>4, SequenceParts DEF Params
  <2>5. CASE r = id
    <3>1. storage'.redeemRequests[r].maxRedeemableEth = Matched.maxRedeemableEth
      BY <1>2, <2>5
    <3>2. Matched.maxRedeemableEth + Matched.ethAmount =
            storage.redeemRequests[r].maxRedeemableEth
      BY <1>4, <2>5
    <3> QED
      BY <2>3, <2>4, <2>5, <3>1, <3>2
  <2>6. CASE r # id
    BY <1>2, <2>3, <2>4, <2>6
  <2> QED
    BY <2>5, <2>6
<1> QED
  BY <1>1, <1>2, <1>5, <1>6, <1>7 DEF IInv

LEMMA PayKeepsIInv ==
  ASSUME IInv, PayRecipient
  PROVE  IInv'
<1> DEFINE id == params.redeemRequestId
           n == Len(storage.paid)
<1>1. /\ pc = "pay" /\ pc' = "callback"
      /\ denied' = denied /\ slashingContainmentMode' = slashingContainmentMode
      /\ call' = call /\ txStart' = txStart /\ params' = params
  BY DEF PayRecipient
<1>2. /\ Sound(storage')
      /\ storage'.redeemRequests = storage.redeemRequests
      /\ storage'.withdrawalEvents = storage.withdrawalEvents
      /\ storage'.placed = storage.placed
      /\ Len(storage'.paid) = n
      /\ \A r \in 1..n :
           storage'.paid[r] = IF r = id THEN storage.paid[r] + params.ethAmount
                              ELSE storage.paid[r]
  BY PayEffect
<1>3. /\ TypeOK /\ storage \in Storage /\ storage' \in Storage
      /\ n = Len(storage.redeemRequests)
      /\ params.ethAmount \in Nat
  BY <1>2, ParamsParts DEF IInv, TypeOK, Sound, Requests
<1>4. TypeOK' /\ InFlight'
  BY <1>1, <1>2, <1>3 DEF IInv, TypeOK, InFlight
<1>5. PaidWithinCeiling'
  <2>1. DOMAIN storage'.paid = 1..n /\ DOMAIN storage.paid = 1..n
    BY <1>2, <1>3, SequenceParts
  <2> SUFFICES ASSUME NEW r \in 1..n
               PROVE  storage'.paid[r] + storage.redeemRequests[r].maxRedeemableEth + 0
                      = storage.placed[r].maxRedeemableEth
    BY <1>1, <1>2, <2>1 DEF PaidWithinCeiling
  <2>2. storage.paid[r] + storage.redeemRequests[r].maxRedeemableEth
          + (IF r = id THEN params.ethAmount ELSE 0)
        = storage.placed[r].maxRedeemableEth
    BY <1>1, <2>1 DEF IInv, PaidWithinCeiling
  <2>3. /\ storage.paid[r] \in Nat
        /\ storage.redeemRequests[r].maxRedeemableEth \in Nat
    BY <1>3, SequenceParts
  <2>4. CASE r = id
    <3>1. storage'.paid[r] = storage.paid[r] + params.ethAmount
      BY <1>2, <2>4
    <3>2. storage.paid[r] + storage.redeemRequests[r].maxRedeemableEth + params.ethAmount
          = storage.placed[r].maxRedeemableEth
      BY <2>2, <2>4
    <3>3. storage.paid[r] + params.ethAmount + storage.redeemRequests[r].maxRedeemableEth + 0
          = storage.paid[r] + storage.redeemRequests[r].maxRedeemableEth + params.ethAmount
      BY <1>3, <2>3
    <3> QED
      BY <3>1, <3>2, <3>3
  <2>5. CASE r # id
    <3>1. storage'.paid[r] = storage.paid[r]
      BY <1>2, <2>5
    <3> QED
      BY <2>2, <2>3, <2>5, <3>1
  <2> QED
    BY <2>4, <2>5
<1> QED
  BY <1>1, <1>2, <1>4, <1>5 DEF IInv

LEMMA RecipientReturnsKeepsIInv ==
  ASSUME IInv, RecipientReturns
  PROVE  IInv'
<1>1. NoParams \in Params
  BY DEF NoParams, Params
<1>2. /\ pc = "callback" /\ pc' = "loop" /\ storage' = storage /\ call' = call
      /\ denied' = denied /\ slashingContainmentMode' = slashingContainmentMode
      /\ txStart' = txStart /\ params' = NoParams
  BY DEF RecipientReturns
<1>3. TypeOK' /\ InFlight' /\ PaidWithinCeiling'
  BY <1>1, <1>2 DEF IInv, TypeOK, InFlight, PaidWithinCeiling
<1> QED
  BY <1>2, <1>3 DEF IInv

LEMMA NextPreservesIInv ==
  ASSUME IInv, [Next]_vars
  PROVE  IInv'
<1>1. CASE EndClaim
  <2>1. CeilingsKept(storage) /\ Sound(storage)
    BY <1>1, CeilingsOfStorage DEF IInv, EndClaim
  <2> QED
    BY <1>1, <2>1, ReturnKeepsIInv DEF EndClaim
<1>2. ASSUME NEW r \in 1..(MaxRequests + 1), NEW e \in 1..(MaxWithdrawalEvents + 1),
             LoadItem(r, e) \/ SkipItem(r, e) \/ RejectItem(r, e)
      PROVE  IInv'
  BY <1>2, LoadKeepsIInv, SkipKeepsIInv, RevertKeepsIInv DEF RejectItem
<1>3. CASE MatchAndDescend
  BY <1>3, DescendKeepsIInv
<1>4. CASE MatchAndSave
  BY <1>4, SaveKeepsIInv
<1>5. CASE MatchPanics \/ RecipientReverts
  BY <1>5, RevertKeepsIInv DEF MatchPanics, RecipientReverts
<1>6. CASE PayRecipient
  BY <1>6, PayKeepsIInv
<1>7. CASE RecipientReturns
  BY <1>7, RecipientReturnsKeepsIInv
<1>8. CASE ClaimStep
  BY <1>1, <1>2, <1>3, <1>4, <1>5, <1>6, <1>7, <1>8 DEF ClaimStep
<1>9. CASE \E n \in 0..MaxBatch, skip \in BOOLEAN, d \in Depth :
             ClaimRedeemRequests(n, skip, d)
  BY <1>9, ClaimStartKeepsIInv
<1>10. CASE UNCHANGED vars
  BY <1>10 DEF vars, IInv, TypeOK, InFlight, CurrentEvent, PaidWithinCeiling
<1> QED
  BY <1>8, <1>9, <1>10, EnvironmentKeepsIInv DEF Next

-----------------------------------------------------------------------------
(* The theorems                                                            *)

\* The inductive invariant holds of every reachable state.
THEOREM Inductive == Spec => []IInv
<1>1. IInv /\ [Next]_vars => IInv'
  BY NextPreservesIInv
<1> QED
  BY InitEstablishesIInv, <1>1, PTL DEF Spec

\* The storage and the parameters of a claim keep their types; in particular no
\* checked subtraction of RedeemManager.1.sol can fail.
THEOREM TypeCorrect == Spec => []TypeOK
<1>1. IInv => TypeOK
  BY DEF IInv
<1> QED
  BY Inductive, <1>1, PTL

\* The queue, the stack and the redeem demand describe one axis, at every step of
\* every claim and after every revert (_requestRedeem, reportWithdraw,
\* _claimRedeemRequest).
THEOREM AxisStaysConsistent == Spec => []AxisIsConsistent
<1>1. IInv => AxisIsConsistent
  BY DEF IInv, Sound, AxisIsConsistent
<1> QED
  BY Inductive, <1>1, PTL

\* No request is paid more than its value when it was placed, over any number of
\* claims at any depth (_claimRedeemRequest).
THEOREM NobodyIsOverpaid == Spec => []PaidWithinCeiling
<1>1. IInv => PaidWithinCeiling
  BY DEF IInv
<1> QED
  BY Inductive, <1>1, PTL

-----------------------------------------------------------------------------
(* Claims end                                                              *)

\* The steps an entry of the arrays has left: its levels, the payment, the return.
StepsOfItem ==
  CASE pc = "match" -> 3 + params.depth
    [] pc = "pay" -> 2
    [] pc = "callback" -> 1
    [] OTHER -> 0

\* A bound on the steps a claim has left, whatever the entries and the stack are.
StepsLeft == call.left * (call.depth + 4) + StepsOfItem

\* A level is given what is left of the depth the claimer asked for.
DepthIsLeft == pc = "match" => params.depth <= call.depth

\* What a recipient calls back is no step of the claim and gives it none.
IsCallback == pc = "callback" /\ UNCHANGED <<pc, call, params>>

LEMMA StepsAreCounted ==
  ASSUME TypeOK
  PROVE  /\ StepsOfItem \in Nat
         /\ call.left \in Nat /\ call.depth \in Nat /\ params.depth \in Nat
         /\ call.left * (call.depth + 4) \in Nat
         /\ call.left > 0 =>
              (call.left - 1) * (call.depth + 4) = call.left * (call.depth + 4) - (call.depth + 4)
<1>1. call.left \in Nat /\ call.depth \in Nat /\ params.depth \in Nat
  BY DEF TypeOK, Call, Params
<1>2. ASSUME NEW n \in Nat, NEW k \in Nat
      PROVE  n * k \in Nat /\ (n - 1) * k = n * k - k
  OBVIOUS
<1>3. call.depth + 4 \in Nat
  BY <1>1
<1> QED BY <1>1, <1>2, <1>3 DEF StepsOfItem

LEMMA NextKeepsDepth ==
  ASSUME TypeOK, DepthIsLeft, [Next]_vars
  PROVE  DepthIsLeft'
<1>1. call \in Call /\ params \in Params
  BY DEF TypeOK
<1>2. ASSUME NEW r \in 1..(MaxRequests + 1), NEW e \in 1..(MaxWithdrawalEvents + 1), LoadItem(r, e)
      PROVE  DepthIsLeft'
  <2>1. params'.depth = call.depth /\ call' = [call EXCEPT !.left = @ - 1]
    BY <1>2 DEF LoadItem
  <2>2. call'.depth = call.depth /\ call.depth \in Nat
    BY <1>1, <2>1 DEF Call
  <2> QED BY <2>1, <2>2 DEF DepthIsLeft
<1>3. CASE MatchAndDescend
  <2>1. /\ params' = [Matched EXCEPT !.withdrawalEventId = @ + 1, !.depth = @ - 1]
        /\ call' = call /\ pc = "match"
    BY <1>3 DEF MatchAndDescend
  <2>2. params'.depth = params.depth - 1 /\ params.depth \in Nat /\ call.depth \in Nat
    BY <1>1, <2>1 DEF Matched, Params, Call
  <2> QED BY <2>1, <2>2 DEF DepthIsLeft
<1>4. pc' # "match" \/ UNCHANGED <<pc, call, params>> => DepthIsLeft'
  BY DEF DepthIsLeft
<1>5. CASE ClaimStep
  <2>1. CASE \E r \in 1..(MaxRequests + 1), e \in 1..(MaxWithdrawalEvents + 1) :
               SkipItem(r, e) \/ RejectItem(r, e)
    BY <1>4, <2>1 DEF SkipItem, RejectItem, Revert, Return
  <2>2. CASE MatchAndSave \/ PayRecipient \/ RecipientReturns \/ MatchPanics
             \/ RecipientReverts \/ EndClaim
    BY <1>4, <2>2 DEF MatchAndSave, PayRecipient, RecipientReturns, MatchPanics,
                      RecipientReverts, EndClaim, Revert, Return
  <2> QED BY <1>2, <1>3, <1>5, <2>1, <2>2 DEF ClaimStep
<1>6. CASE \E n \in 0..MaxBatch, skip \in BOOLEAN, d \in Depth : ClaimRedeemRequests(n, skip, d)
  BY <1>4, <1>6 DEF ClaimRedeemRequests
<1>7. CASE UNCHANGED vars
  BY <1>4, <1>7 DEF vars
<1>8. CASE ~ClaimStep /\ Next /\ UNCHANGED <<pc, call, params>>
  BY <1>4, <1>8
<1>9. Next => \/ ClaimStep \/ UNCHANGED <<pc, call, params>>
              \/ \E n \in 0..MaxBatch, skip \in BOOLEAN, d \in Depth : ClaimRedeemRequests(n, skip, d)
  BY DEF Next, RequestRedeem, RiverReportsWithdraw, ReportWithdraw, PullExceedingEth, SetDenied,
         SetSlashingContainmentMode
<1> QED BY <1>5, <1>6, <1>7, <1>8, <1>9

\* A step inside a claim is one of its own, or a callback.
LEMMA InsideClaim ==
  ASSUME InClaim, Next
  PROVE  ClaimStep \/ IsCallback
<1>1. pc # "idle"
  BY DEF InClaim
<1>2. ASSUME NEW initiator, NEW recipient, NEW a, NEW rate,
             RequestRedeem(initiator, recipient, a, rate)
      PROVE  IsCallback
  BY <1>1, <1>2 DEF RequestRedeem, Entered, IsCallback
<1>3. ASSUME NEW rate, NEW available, RiverReportsWithdraw(rate, available)
      PROVE  IsCallback
  <2>1. Entered /\ UNCHANGED <<pc, call, params>>
    BY <1>3 DEF RiverReportsWithdraw, ReportWithdraw
  <2> QED BY <1>1, <2>1 DEF Entered, IsCallback
<1>4. ASSUME NEW limit, PullExceedingEth(limit) PROVE IsCallback
  BY <1>1, <1>4 DEF PullExceedingEth, Entered, IsCallback
<1>5. ASSUME NEW accounts PROVE ~SetDenied(accounts)
  BY <1>1 DEF SetDenied
<1>6. ~SetSlashingContainmentMode
  BY <1>1 DEF SetSlashingContainmentMode
<1>7. ASSUME NEW n, NEW skip, NEW d PROVE ~ClaimRedeemRequests(n, skip, d)
  BY <1>1 DEF ClaimRedeemRequests
<1> QED BY <1>2, <1>3, <1>4, <1>5, <1>6, <1>7 DEF Next

LEMMA ClaimStepIsCounted ==
  ASSUME TypeOK, TypeOK', DepthIsLeft, ClaimStep
  PROVE  ~InClaim' \/ StepsLeft' < StepsLeft
<1>1. call \in Call /\ params \in Params
  BY DEF TypeOK
<1> DEFINE turn == call.depth + 4
           rest == call.left * turn
<1>2. /\ rest \in Nat /\ turn \in Nat /\ call.depth \in Nat /\ params.depth \in Nat
      /\ call.left > 0 => (call.left - 1) * turn = rest - turn
      /\ StepsLeft = rest + StepsOfItem
  BY StepsAreCounted DEF StepsLeft
<1>3. ASSUME UNCHANGED call, StepsOfItem' < StepsOfItem
      PROVE  StepsLeft' < StepsLeft
  <2>1. StepsLeft' = rest + StepsOfItem'
    BY <1>3 DEF StepsLeft
  <2>2. StepsOfItem \in Nat /\ StepsOfItem' \in Nat
    BY StepsAreCounted DEF StepsOfItem, TypeOK, Params
  <2> QED BY <1>2, <1>3, <2>1, <2>2
<1>4. ASSUME call.left > 0, call' = [call EXCEPT !.left = @ - 1], StepsOfItem = 0,
             StepsOfItem' \in 0..(call.depth + 3)
      PROVE  StepsLeft' < StepsLeft
  <2>1. call'.left = call.left - 1 /\ call'.depth = call.depth
    BY <1>1, <1>4 DEF Call
  <2>2. StepsLeft' = rest - turn + StepsOfItem'
    BY <1>2, <1>4, <2>1 DEF StepsLeft
  <2> QED BY <1>2, <1>4, <2>2
<1>5. ASSUME NEW r \in 1..(MaxRequests + 1), NEW e \in 1..(MaxWithdrawalEvents + 1),
             LoadItem(r, e) \/ SkipItem(r, e)
      PROVE  StepsLeft' < StepsLeft
  <2>1. /\ call.left > 0 /\ call' = [call EXCEPT !.left = @ - 1] /\ pc = "loop"
        /\ \/ pc' = "match" /\ params'.depth = call.depth
           \/ pc' = "loop"
    BY <1>5 DEF LoadItem, SkipItem
  <2>2. StepsOfItem = 0 /\ StepsOfItem' \in 0..(call.depth + 3)
    BY <1>2, <2>1 DEF StepsOfItem
  <2> QED BY <1>4, <2>1, <2>2
<1>6. CASE MatchAndDescend
  <2>1. /\ params' = [Matched EXCEPT !.withdrawalEventId = @ + 1, !.depth = @ - 1]
        /\ UNCHANGED <<call, pc>> /\ pc = "match"
    BY <1>6 DEF MatchAndDescend
  <2>2. params'.depth = params.depth - 1
    BY <1>1, <2>1 DEF Matched, Params
  <2>3. StepsOfItem' < StepsOfItem
    BY <1>2, <2>1, <2>2 DEF StepsOfItem
  <2> QED BY <1>3, <2>1, <2>3
<1>7. CASE MatchAndSave \/ PayRecipient \/ RecipientReturns
  <2>1. /\ UNCHANGED call
        /\ \/ pc = "match" /\ pc' = "pay"
           \/ pc = "pay" /\ pc' = "callback"
           \/ pc = "callback" /\ pc' = "loop"
    BY <1>7 DEF MatchAndSave, PayRecipient, RecipientReturns
  <2>2. StepsOfItem' < StepsOfItem
    BY <1>2, <2>1 DEF StepsOfItem
  <2> QED BY <1>3, <2>1, <2>2
<1>8. ASSUME NEW r \in 1..(MaxRequests + 1), NEW e \in 1..(MaxWithdrawalEvents + 1), RejectItem(r, e)
      PROVE  ~InClaim'
  BY <1>8 DEF RejectItem, Revert, Return, InClaim
<1>9. CASE MatchPanics \/ RecipientReverts \/ EndClaim
  BY <1>9 DEF MatchPanics, RecipientReverts, EndClaim, Revert, Return, InClaim
<1> QED BY <1>5, <1>6, <1>7, <1>8, <1>9 DEF ClaimStep

\* Inside a claim every step but those a recipient makes ends it or brings its end
\* closer, by a count fixed by the arguments of the call: a claim of n entries at
\* depth d makes at most n * (d + 4) steps and returns, however the stack grows in
\* the meantime (_claimRedeemRequests and the recursion of _claimRedeemRequest).
THEOREM ClaimsComeToAnEnd ==
  Spec => [][InClaim => \/ ~InClaim'
                        \/ StepsLeft \in Nat /\ StepsLeft' < StepsLeft
                        \/ IsCallback]_vars
<1>1. Init => DepthIsLeft
  BY DEF Init, DepthIsLeft
<1>2. IInv /\ DepthIsLeft /\ [Next]_vars => DepthIsLeft'
  BY NextKeepsDepth DEF IInv
<1>3. IInv /\ IInv' /\ DepthIsLeft /\ [Next]_vars =>
        [InClaim => \/ ~InClaim'
                    \/ StepsLeft \in Nat /\ StepsLeft' < StepsLeft
                    \/ IsCallback]_vars
  <2> SUFFICES ASSUME IInv, IInv', DepthIsLeft, Next, InClaim, ~IsCallback, InClaim'
               PROVE  StepsLeft \in Nat /\ StepsLeft' < StepsLeft
    OBVIOUS
  <2>1. TypeOK /\ TypeOK'
    BY DEF IInv
  <2>2. StepsLeft' < StepsLeft
    BY <2>1, InsideClaim, ClaimStepIsCounted
  <2>3. StepsLeft \in Nat
    BY <2>1, StepsAreCounted DEF StepsLeft
  <2> QED BY <2>2, <2>3
<1> QED BY Inductive, <1>1, <1>2, <1>3, PTL DEF Spec

-----------------------------------------------------------------------------
(* What an event covers and pays                                           *)

IsSegment(segment) == segment.height \in Nat /\ segment.amount \in Nat

LEMMA CoveredIsBounded ==
  ASSUME NEW request, IsSegment(request), NEW event, IsSegment(event)
  PROVE  /\ Covered(request, event) \in Nat
         /\ Covered(request, event) <= event.amount
BY DEF Covered, IsSegment, EndOf, Smaller

LEMMA ShareIsNat ==
  ASSUME NEW request, IsSegment(request), NEW event \in Event
  PROVE  Share(request, event) \in Nat
<1>1. IsSegment(event) /\ event.amount \in Nat /\ event.withdrawnEth \in Nat
  BY EventParts DEF IsSegment
<1>2. /\ Covered(request, event) \in Nat
      /\ Covered(request, event) <= event.amount
  BY <1>1, CoveredIsBounded
<1>3. CASE Covered(request, event) = 0
  BY <1>3 DEF Share
<1>4. CASE Covered(request, event) # 0
  <2>1. event.amount > 0
    BY <1>1, <1>2, <1>4
  <2> HIDE DEF Covered
  <2> QED
    BY <1>1, <1>2, <1>4, <2>1, QuotientIsNat DEF Share
<1> QED
  BY <1>3, <1>4

LEMMA StorageSegments ==
  ASSUME NEW s \in Storage
  PROVE  /\ \A r \in 1..Len(s.redeemRequests) : IsSegment(s.redeemRequests[r])
         /\ \A e \in 1..Len(s.withdrawalEvents) : IsSegment(s.withdrawalEvents[e])
BY SequenceParts DEF IsSegment

\* What a request is owed depends on its place only.
LEMMA PlaceIsOwed ==
  ASSUME NEW s, NEW p, NEW q, p.height = q.height, p.amount = q.amount
  PROVE  OwedTo(p, s) = OwedTo(q, s)
BY DEF OwedTo, Share, Covered, EndOf

LEMMA TilingIsOwed ==
  ASSUME NEW s, NEW t, t.redeemRequests = s.redeemRequests,
         t.withdrawalEvents = s.withdrawalEvents
  PROVE  /\ Owed(t) = Owed(s)
         /\ \A q : OwedTo(q, t) = OwedTo(q, s)
BY DEF Owed, OwedTo, Requests, Events

LEMMA OwedToIsSum ==
  ASSUME NEW s \in Storage, NEW q, IsSegment(q)
  PROVE  LET shares == [e \in 1..Len(s.withdrawalEvents) |->
                          Share(q, s.withdrawalEvents[e])] IN
         /\ OwedTo(q, s) = SumFunctionOnSet(shares, 1..Len(s.withdrawalEvents))
         /\ \A e \in 1..Len(s.withdrawalEvents) : shares[e] \in Nat
         /\ IsFiniteSet(1..Len(s.withdrawalEvents))
         /\ OwedTo(q, s) \in Nat
<1> DEFINE n == Len(s.withdrawalEvents)
           shares == [e \in 1..n |-> Share(q, s.withdrawalEvents[e])]
<1>1. n \in Nat /\ DOMAIN s.withdrawalEvents = 1..n
  BY SequenceParts
<1>2. IsFiniteSet(1..n)
  BY <1>1, FS_Interval
<1>3. \A e \in 1..n : shares[e] \in Nat
  BY SequenceParts, ShareIsNat
<1>4. OwedTo(q, s) = SumFunctionOnSet(shares, 1..n)
  <2>1. OwedTo(q, s) = SumFunction(shares)
    BY <1>1 DEF OwedTo, Events
  <2>2. DOMAIN shares = 1..n
    OBVIOUS
  <2> HIDE DEF shares
  <2> QED
    BY <2>1, <2>2 DEF SumFunction
<1> HIDE DEF shares
<1>5. OwedTo(q, s) \in Nat
  BY <1>2, <1>3, <1>4, SumIsNat
<1> QED
  BY <1>2, <1>3, <1>4, <1>5 DEF shares

LEMMA OwedIsSum ==
  ASSUME NEW s \in Storage
  PROVE  LET owed == [r \in 1..Len(s.redeemRequests) |-> OwedTo(s.redeemRequests[r], s)] IN
         /\ Owed(s) = SumFunctionOnSet(owed, 1..Len(s.redeemRequests))
         /\ \A r \in 1..Len(s.redeemRequests) : owed[r] \in Nat
         /\ IsFiniteSet(1..Len(s.redeemRequests))
         /\ Owed(s) \in Nat
<1> DEFINE n == Len(s.redeemRequests)
           owed == [r \in 1..n |-> OwedTo(s.redeemRequests[r], s)]
<1>1. n \in Nat /\ DOMAIN s.redeemRequests = 1..n
  BY SequenceParts
<1>2. IsFiniteSet(1..n)
  BY <1>1, FS_Interval
<1>3. \A r \in 1..n : owed[r] \in Nat
  BY StorageSegments, OwedToIsSum
<1>4. Owed(s) = SumFunctionOnSet(owed, 1..n)
  <2>1. Owed(s) = SumFunction(owed)
    BY <1>1 DEF Owed, Requests
  <2>2. DOMAIN owed = 1..n
    OBVIOUS
  <2> HIDE DEF owed
  <2> QED
    BY <2>1, <2>2 DEF SumFunction
<1> HIDE DEF owed
<1>5. Owed(s) \in Nat
  BY <1>2, <1>3, <1>4, SumIsNat
<1> QED
  BY <1>2, <1>3, <1>4, <1>5 DEF owed

\* The last term of a sum over the indexes of a sequence.
LEMMA SumToLast ==
  ASSUME NEW n \in Nat, NEW f, \A i \in 1..(n + 1) : f[i] \in Int
  PROVE  SumFunctionOnSet(f, 1..(n + 1)) = SumFunctionOnSet(f, 1..n) + f[n + 1]
<1>1. IsFiniteSet(1..(n + 1)) /\ n + 1 \in 1..(n + 1)
  BY FS_Interval
<1>2. (1..(n + 1)) \ {n + 1} = 1..n
  OBVIOUS
<1>3. SumFunctionOnSet(f, 1..(n + 1)) = f[n + 1] + SumFunctionOnSet(f, (1..(n + 1)) \ {n + 1})
  BY <1>1, SumWithout
<1>4. SumFunctionOnSet(f, 1..n) \in Int
  <2>1. IsFiniteSet(1..n) /\ \A i \in 1..n : f[i] \in Int
    BY FS_Interval
  <2> QED
    BY <2>1, SumIsInt
<1>5. SumFunctionOnSet(f, 1..(n + 1)) = f[n + 1] + SumFunctionOnSet(f, 1..n)
  BY <1>2, <1>3
<1>6. f[n + 1] \in Int
  BY <1>1
<1> QED
  BY <1>4, <1>5, <1>6

-----------------------------------------------------------------------------
(* An event pays no more than its value to all the requests together       *)

\* How far a position lies inside an event.
Reach(position, event) ==
  IF position < event.height THEN 0
  ELSE Smaller(position - event.height, event.amount)

LEMMA CoveredIsReach ==
  ASSUME NEW request, IsSegment(request), NEW event, IsSegment(event)
  PROVE  /\ Reach(EndOf(request), event) \in Nat
         /\ Reach(EndOf(request), event) <= event.amount
         /\ Reach(request.height, event) \in Nat
         /\ Covered(request, event) =
              Reach(EndOf(request), event) - Reach(request.height, event)
<1>1. /\ request.height \in Nat /\ request.amount \in Nat
      /\ event.height \in Nat /\ event.amount \in Nat
      /\ EndOf(request) = request.height + request.amount
      /\ EndOf(event) = event.height + event.amount
  BY DEF IsSegment, EndOf
<1> DEFINE h == request.height
           z == EndOf(request)
           x == event.height
           a == event.amount
<1>2. /\ h \in Nat /\ z \in Nat /\ x \in Nat /\ a \in Nat /\ h <= z
      /\ EndOf(event) = x + a
  BY <1>1
<1>3. Reach(EndOf(request), event) = IF z < x THEN 0 ELSE Smaller(z - x, a)
  BY DEF Reach
<1>4. Reach(request.height, event) = IF h < x THEN 0 ELSE Smaller(h - x, a)
  BY DEF Reach
<1>5. Covered(request, event) =
        LET overlap == Smaller(z, x + a) - (IF h < x THEN x ELSE h)
        IN  IF overlap > 0 THEN overlap ELSE 0
  BY <1>2 DEF Covered
<1>6. event.amount = a
  OBVIOUS
<1> HIDE DEF h, z, x, a
<1> QED
  BY <1>2, <1>3, <1>4, <1>5, <1>6 DEF Smaller

LEMMA ReachIsMonotonic ==
  ASSUME NEW event, IsSegment(event), NEW p \in Nat, NEW q \in Nat, p <= q
  PROVE  Reach(p, event) <= Reach(q, event)
BY DEF Reach, IsSegment, Smaller

\* A request starts no earlier than the one before it ends.
LEMMA RequestsAreDisjoint ==
  ASSUME NEW s, Sound(s), NEW r \in 1..Len(s.redeemRequests), r # 1
  PROVE  EndOf(s.redeemRequests[r - 1]) <= s.redeemRequests[r].height
<1>1. /\ s \in Storage /\ DOMAIN s.redeemRequests = 1..Len(s.redeemRequests)
      /\ Len(s.redeemRequests) \in Nat
  BY SequenceParts DEF Sound
<1>2. r - 1 \in 1..Len(s.redeemRequests)
  BY <1>1
<1>3. /\ EndOf(s.redeemRequests[r - 1]) = EndOf(s.placed[r - 1])
      /\ s.placed[r].height = EndOf(s.placed[r - 1])
      /\ s.placed[r].height <= s.redeemRequests[r].height
  BY <1>1, <1>2 DEF Sound, QueueIsContiguous, Requests
<1> QED
  BY <1>3

\* The parts of an event that the requests overlap are disjoint: up to any
\* request they add up to no more than the event reaches.
LEMMA PartsAreDisjoint ==
  ASSUME NEW s, Sound(s), NEW event \in Event,
         NEW parts, \A r \in 1..Len(s.redeemRequests) :
                      parts[r] = Covered(s.redeemRequests[r], event)
  PROVE  SumFunctionOnSet(parts, 1..Len(s.redeemRequests)) <= event.amount
<1> DEFINE R == s.redeemRequests
           n == Len(R)
           Within(m) == SumFunctionOnSet(parts, 1..m) <= Reach(EndOf(R[m]), event)
           C == {m \in 1..n : ~Within(m)}
<1>1. /\ s \in Storage /\ n \in Nat
      /\ IsSegment(event) /\ event.amount \in Nat
      /\ \A r \in 1..n : IsSegment(R[r]) /\ EndOf(R[r]) \in Nat /\ R[r].height \in Nat
  BY EventParts, StorageSegments, SequenceParts DEF Sound, IsSegment
<1>2. \A r \in 1..n : /\ parts[r] \in Nat
                      /\ parts[r] = Reach(EndOf(R[r]), event) - Reach(R[r].height, event)
                      /\ Reach(EndOf(R[r]), event) \in Nat
                      /\ Reach(EndOf(R[r]), event) <= event.amount
                      /\ Reach(R[r].height, event) \in Nat
  <2> SUFFICES ASSUME NEW r \in 1..n
               PROVE  /\ parts[r] \in Nat
                      /\ parts[r] = Reach(EndOf(R[r]), event) - Reach(R[r].height, event)
                      /\ Reach(EndOf(R[r]), event) \in Nat
                      /\ Reach(EndOf(R[r]), event) <= event.amount
                      /\ Reach(R[r].height, event) \in Nat
    OBVIOUS
  <2>1. IsSegment(R[r]) /\ parts[r] = Covered(R[r], event)
    BY <1>1
  <2> QED
    BY <1>1, <2>1, CoveredIsBounded, CoveredIsReach
<1>3. ASSUME NEW m \in 1..n
      PROVE  /\ m - 1 \in Nat
             /\ SumFunctionOnSet(parts, 1..m) = SumFunctionOnSet(parts, 1..(m - 1)) + parts[m]
             /\ SumFunctionOnSet(parts, 1..(m - 1)) \in Nat
  <2>1. m - 1 \in Nat /\ m - 1 + 1 = m
    BY <1>1
  <2>2. \A i \in 1..m : parts[i] \in Nat
    BY <1>1, <1>2
  <2>3. \A i \in 1..(m - 1 + 1) : parts[i] \in Int
    BY <2>1, <2>2
  <2>4. SumFunctionOnSet(parts, 1..(m - 1 + 1)) =
          SumFunctionOnSet(parts, 1..(m - 1)) + parts[m - 1 + 1]
    BY <2>1, <2>3, SumToLast
  <2>5. IsFiniteSet(1..(m - 1)) /\ \A i \in 1..(m - 1) : parts[i] \in Nat
    <3>1. 1 \in Int /\ m - 1 \in Int
      BY <2>1
    <3>2. IsFiniteSet(1..(m - 1))
      BY <3>1, FS_Interval
    <3>3. \A i \in 1..(m - 1) : i \in 1..m
      BY <2>1
    <3> QED
      BY <2>2, <3>2, <3>3
  <2>6. SumFunctionOnSet(parts, 1..(m - 1)) \in Nat
    BY <2>5, SumIsNat
  <2> QED
    BY <2>1, <2>4, <2>6
<1>4. C = {}
  <2> SUFFICES ASSUME C # {} PROVE FALSE
    OBVIOUS
  <2>1. PICK m \in C : \A k \in C : m <= k
    <3>1. IsFiniteSet(1..n)
      <4>1. 1 \in Int /\ n \in Int
        BY <1>1
      <4> QED
        BY <4>1, FS_Interval
    <3>2. IsFiniteSet(C) /\ \A k \in C : k \in Int
      BY <1>1, <3>1, FS_Subset
    <3> HIDE DEF C
    <3> QED
      BY <3>2, LeastElement
  <2>2. m \in 1..n /\ ~Within(m)
    BY <2>1
  <2>3. /\ parts[m] = Reach(EndOf(R[m]), event) - Reach(R[m].height, event)
        /\ Reach(EndOf(R[m]), event) \in Nat
        /\ Reach(R[m].height, event) \in Nat
    BY <1>1, <1>2
  <2>4. SumFunctionOnSet(parts, 1..(m - 1)) <= Reach(R[m].height, event)
    <3>1. CASE m = 1
      <4>1. 1..(m - 1) = {}
        BY <3>1
      <4>2. SumFunctionOnSet(parts, 1..(m - 1)) = 0
        BY <4>1, SumOfNone
      <4> QED
        BY <2>3, <4>2
    <3>2. CASE m # 1
      <4>1. m - 1 \in 1..n
        BY <1>1, <3>2
      <4>2. Within(m - 1)
        <5>1. ~(m <= m - 1)
          BY <1>1, <2>2
        <5>2. m - 1 \notin C
          BY <2>1, <5>1
        <5> QED
          BY <4>1, <5>2
      <4>3. EndOf(R[m - 1]) <= R[m].height
        BY <3>2, RequestsAreDisjoint
      <4>4. Reach(EndOf(R[m - 1]), event) <= Reach(R[m].height, event)
        BY <1>1, <4>1, <4>3, ReachIsMonotonic
      <4>5. Reach(EndOf(R[m - 1]), event) \in Nat
        BY <1>2, <4>1
      <4>6. SumFunctionOnSet(parts, 1..(m - 1)) \in Nat
        BY <1>3
      <4> QED
        BY <2>3, <4>2, <4>4, <4>5, <4>6
    <3> QED
      BY <3>1, <3>2
  <2>5. /\ SumFunctionOnSet(parts, 1..m) = SumFunctionOnSet(parts, 1..(m - 1)) + parts[m]
        /\ SumFunctionOnSet(parts, 1..(m - 1)) \in Nat
    BY <1>3
  <2>6. Within(m)
    BY <2>3, <2>4, <2>5
  <2> QED
    BY <2>2, <2>6
<1>5. CASE n = 0
  <2>1. 1..n = {}
    BY <1>5
  <2>2. SumFunctionOnSet(parts, 1..n) = 0
    BY <2>1, SumOfNone
  <2> QED
    BY <1>1, <2>2
<1>6. CASE n # 0
  <2>1. n \in 1..n
    BY <1>1, <1>6
  <2>2. Within(n)
    BY <1>4, <2>1
  <2>3. Reach(EndOf(R[n]), event) \in Nat /\ Reach(EndOf(R[n]), event) <= event.amount
    BY <1>1, <1>2, <2>1
  <2>4. SumFunctionOnSet(parts, 1..n) \in Nat
    <3>1. IsFiniteSet(1..n)
      <4>1. 1 \in Int /\ n \in Int
        BY <1>1
      <4> QED
        BY <4>1, FS_Interval
    <3> QED
      BY <1>2, <3>1, SumIsNat
  <2> QED
    BY <1>1, <2>2, <2>3, <2>4
<1> QED
  BY <1>5, <1>6

\* All the requests together are owed no more for an event than was paid in.
LEMMA EventPaysItsValue ==
  ASSUME NEW s, Sound(s), NEW event \in Event,
         NEW shares, \A r \in 1..Len(s.redeemRequests) :
                       shares[r] = Share(s.redeemRequests[r], event)
  PROVE  SumFunctionOnSet(shares, 1..Len(s.redeemRequests)) <= event.withdrawnEth
<1> DEFINE R == s.redeemRequests
           n == Len(R)
           parts == [r \in 1..n |-> Covered(R[r], event)]
<1>1. /\ s \in Storage /\ n \in Nat /\ IsFiniteSet(1..n)
      /\ IsSegment(event) /\ event.amount \in Nat /\ event.withdrawnEth \in Nat
      /\ \A r \in 1..n : IsSegment(R[r])
  <2>1. s \in Storage /\ n \in Nat
    BY SequenceParts DEF Sound
  <2>2. IsFiniteSet(1..n) /\ \A r \in 1..n : IsSegment(R[r])
    BY <2>1, FS_Interval, StorageSegments
  <2> QED
    BY <2>1, <2>2, EventParts DEF IsSegment
<1>2. \A r \in 1..n : Covered(R[r], event) \in Nat /\ Covered(R[r], event) <= event.amount
  BY <1>1, CoveredIsBounded
<1>3. CASE event.amount = 0
  <2>1. \A r \in 1..n : Covered(R[r], event) = 0
    BY <1>2, <1>3
  <2>2. \A r \in 1..n : shares[r] = 0
    BY <2>1 DEF Share
  <2>3. SumFunctionOnSet(shares, 1..n) = 0
    BY <1>1, <2>2, SumOfZeros
  <2> QED
    BY <1>1, <2>3
<1>4. CASE event.amount > 0
  <2>1. \A r \in 1..n : parts[r] \in Nat /\ parts[r] = Covered(R[r], event)
    BY <1>2
  <2>2. SumFunctionOnSet(parts, 1..n) <= event.amount
    <3> HIDE DEF parts
    <3> QED
      BY <2>1, PartsAreDisjoint
  <2>3. \A r \in 1..n : shares[r] = (parts[r] * event.withdrawnEth) \div event.amount
    <3> SUFFICES ASSUME NEW r \in 1..n
                 PROVE  shares[r] = (parts[r] * event.withdrawnEth) \div event.amount
      OBVIOUS
    <3>1. (0 * event.withdrawnEth) \div event.amount = 0
      BY <1>1, <1>4
    <3> HIDE DEF parts
    <3> QED
      BY <2>1, <3>1 DEF Share
  <2> HIDE DEF parts
  <2> QED
    BY <1>1, <1>4, <2>1, <2>2, <2>3, SumOfShares
<1> QED
  BY <1>1, <1>3, <1>4

-----------------------------------------------------------------------------
(* What each operation owes                                                *)

\* An event that ends before a request starts owes it nothing, nor does one that
\* starts where the request ends.
LEMMA ApartOwesNothing ==
  ASSUME NEW request, IsSegment(request), NEW event, IsSegment(event),
         EndOf(event) <= request.height \/ EndOf(request) <= event.height
  PROVE  Share(request, event) = 0
<1>1. Covered(request, event) = 0
  BY DEF Covered, IsSegment, EndOf, Smaller
<1> QED
  BY <1>1 DEF Share

\* A request is placed past the stack: it is owed nothing yet.
LEMMA RequestOwesNothing ==
  ASSUME Sound(storage), Sound(storage'),
         NEW initiator \in Account, NEW recipient \in Account,
         NEW lsETHAmount \in LsETHAmount, NEW rate \in Rate,
         RequestRedeem(initiator, recipient, lsETHAmount, rate)
  PROVE  /\ Owed(storage') = Owed(storage)
         /\ storage'.bufferedExceedingEth = storage.bufferedExceedingEth
         /\ storage'.balance = storage.balance
<1> DEFINE s == storage
           t == storage'
           n == Len(s.redeemRequests)
           m == Len(s.withdrawalEvents)
<1>1. PICK q \in Request :
        /\ q.height = EndOfLast(Requests(s))
        /\ t.redeemRequests = Append(s.redeemRequests, q)
        /\ t.withdrawalEvents = s.withdrawalEvents
        /\ t.bufferedExceedingEth = s.bufferedExceedingEth
        /\ t.balance = s.balance
  BY RequestEffect
<1>2. /\ s \in Storage /\ t \in Storage /\ n \in Nat /\ m \in Nat
      /\ s.redeemRequests \in Seq(Request)
  BY StorageParts, SequenceParts DEF Sound
<1>3. /\ Len(t.redeemRequests) = n + 1
      /\ \A r \in 1..n : t.redeemRequests[r] = s.redeemRequests[r]
      /\ t.redeemRequests[n + 1] = q
  BY <1>1, <1>2, AppendElements
<1>4. IsSegment(q) /\ EndOfLast(Events(s)) <= q.height
  <2>1. /\ EndOfLast(Requests(s)) \in Nat /\ EndOfLast(Events(s)) \in Nat
        /\ s.redeemDemand \in Nat
        /\ s.redeemDemand = EndOfLast(Requests(s)) - EndOfLast(Events(s))
    BY <1>2, EndsAreNat, StorageParts DEF Sound, DemandIsUncovered
  <2>2. IsSegment(q)
    BY RequestParts DEF IsSegment
  <2> QED
    BY <1>1, <2>1, <2>2
<1>5. OwedTo(q, s) = 0
  <2> DEFINE shares == [e \in 1..m |-> Share(q, s.withdrawalEvents[e])]
  <2>1. OwedTo(q, s) = SumFunctionOnSet(shares, 1..m) /\ IsFiniteSet(1..m)
    BY <1>2, <1>4, OwedToIsSum
  <2>2. \A e \in 1..m : shares[e] = 0
    <3> SUFFICES ASSUME NEW e \in 1..m PROVE Share(q, s.withdrawalEvents[e]) = 0
      OBVIOUS
    <3>1. IsSegment(s.withdrawalEvents[e]) /\ EndOf(s.withdrawalEvents[e]) \in Nat
      BY <1>2, StorageSegments, SequenceParts
    <3>2. EndOf(s.withdrawalEvents[e]) <= EndOfLast(Events(s))
      BY EventsEndBeforeLast
    <3>3. EndOf(s.withdrawalEvents[e]) <= q.height
      <4>1. EndOfLast(Events(s)) \in Nat /\ q.height \in Nat
        BY <1>2, EndsAreNat, RequestParts
      <4> QED
        BY <1>4, <3>1, <3>2, <4>1
    <3> QED
      BY <1>4, <3>1, <3>3, ApartOwesNothing
  <2> HIDE DEF shares
  <2> QED
    BY <2>1, <2>2, SumOfZeros
<1>6. \A p : OwedTo(p, t) = OwedTo(p, s)
  BY <1>1 DEF OwedTo, Events
<1> DEFINE before == [r \in 1..n |-> OwedTo(s.redeemRequests[r], s)]
           after == [r \in 1..(n + 1) |-> OwedTo(t.redeemRequests[r], t)]
<1>7. /\ Owed(s) = SumFunctionOnSet(before, 1..n)
      /\ IsFiniteSet(1..n)
      /\ \A r \in 1..n : before[r] \in Nat
      /\ Owed(s) \in Nat
  BY <1>2, OwedIsSum
<1>8. /\ Owed(t) = SumFunctionOnSet(after, 1..(n + 1))
      /\ \A r \in 1..(n + 1) : after[r] \in Nat
  <2>1. LET sums == [r \in 1..Len(t.redeemRequests) |-> OwedTo(t.redeemRequests[r], t)] IN
        /\ Owed(t) = SumFunctionOnSet(sums, 1..Len(t.redeemRequests))
        /\ \A r \in 1..Len(t.redeemRequests) : sums[r] \in Nat
    BY <1>2, OwedIsSum
  <2> QED
    BY <1>3, <2>1
<1>9. (\A r \in 1..n : after[r] = before[r]) /\ after[n + 1] = 0
  <2>1. n + 1 \in 1..(n + 1) /\ 1..n \subseteq 1..(n + 1)
    BY <1>2
  <2> QED
    BY <1>3, <1>5, <1>6, <2>1
<1> HIDE DEF before, after
<1>10. SumFunctionOnSet(after, 1..(n + 1)) = SumFunctionOnSet(after, 1..n) + after[n + 1]
  <2>1. \A r \in 1..(n + 1) : after[r] \in Int
    BY <1>8
  <2> QED
    BY <1>2, <2>1, SumToLast
<1>11. SumFunctionOnSet(after, 1..n) = SumFunctionOnSet(before, 1..n)
  BY <1>7, <1>9, SumOfEqual
<1>12. Owed(t) = Owed(s)
  BY <1>7, <1>8, <1>9, <1>10, <1>11
<1> QED
  BY <1>1, <1>12

\* A report owes no more than the ETH it brings.
LEMMA ReportOwesItsValue ==
  ASSUME Sound(storage), Sound(storage'),
         NEW lsETHWithdrawable \in Nat, NEW value \in Nat,
         ReportWithdraw(lsETHWithdrawable, value)
  PROVE  /\ Owed(storage') <= Owed(storage) + value
         /\ storage'.bufferedExceedingEth = storage.bufferedExceedingEth
         /\ storage'.balance = storage.balance + value
<1> DEFINE s == storage
           t == storage'
           R == s.redeemRequests
           n == Len(R)
           m == Len(s.withdrawalEvents)
<1>1. PICK new \in Event :
        /\ new.withdrawnEth = value
        /\ t.withdrawalEvents = Append(s.withdrawalEvents, new)
        /\ t.redeemRequests = R
        /\ t.bufferedExceedingEth = s.bufferedExceedingEth
        /\ t.balance = s.balance + value
  BY ReportEffect
<1>2. /\ s \in Storage /\ t \in Storage /\ n \in Nat /\ m \in Nat
      /\ s.withdrawalEvents \in Seq(Event)
      /\ \A r \in 1..n : IsSegment(R[r])
  BY StorageParts, SequenceParts, StorageSegments DEF Sound
<1>3. /\ Len(t.withdrawalEvents) = m + 1
      /\ \A e \in 1..m : t.withdrawalEvents[e] = s.withdrawalEvents[e]
      /\ t.withdrawalEvents[m + 1] = new
  BY <1>1, <1>2, AppendElements
<1>4. ASSUME NEW q, IsSegment(q)
      PROVE  OwedTo(q, t) = OwedTo(q, s) + Share(q, new)
  <2> DEFINE before == [e \in 1..m |-> Share(q, s.withdrawalEvents[e])]
             after == [e \in 1..(m + 1) |-> Share(q, t.withdrawalEvents[e])]
  <2>1. /\ OwedTo(q, s) = SumFunctionOnSet(before, 1..m)
        /\ IsFiniteSet(1..m)
    BY <1>2, <1>4, OwedToIsSum
  <2>2. /\ OwedTo(q, t) = SumFunctionOnSet(after, 1..(m + 1))
        /\ \A e \in 1..(m + 1) : after[e] \in Nat
    <3>1. LET sums == [e \in 1..Len(t.withdrawalEvents) |-> Share(q, t.withdrawalEvents[e])] IN
          /\ OwedTo(q, t) = SumFunctionOnSet(sums, 1..Len(t.withdrawalEvents))
          /\ \A e \in 1..Len(t.withdrawalEvents) : sums[e] \in Nat
      BY <1>2, <1>4, OwedToIsSum
    <3> QED
      BY <1>3, <3>1
  <2>3. (\A e \in 1..m : after[e] = before[e]) /\ after[m + 1] = Share(q, new)
    <3>1. m + 1 \in 1..(m + 1) /\ 1..m \subseteq 1..(m + 1)
      BY <1>2
    <3> QED
      BY <1>3, <3>1
  <2> HIDE DEF before, after
  <2>4. SumFunctionOnSet(after, 1..(m + 1)) = SumFunctionOnSet(after, 1..m) + after[m + 1]
    <3>1. \A e \in 1..(m + 1) : after[e] \in Int
      BY <2>2
    <3> QED
      BY <1>2, <3>1, SumToLast
  <2>5. SumFunctionOnSet(after, 1..m) = SumFunctionOnSet(before, 1..m)
    BY <2>1, <2>3, SumOfEqual
  <2> QED
    BY <2>1, <2>2, <2>3, <2>4, <2>5
<1> DEFINE before == [r \in 1..n |-> OwedTo(R[r], s)]
           shares == [r \in 1..n |-> Share(R[r], new)]
           after == [r \in 1..n |-> OwedTo(R[r], t)]
<1>5. /\ Owed(s) = SumFunctionOnSet(before, 1..n)
      /\ IsFiniteSet(1..n)
      /\ \A r \in 1..n : before[r] \in Nat
      /\ Owed(s) \in Nat
  BY <1>2, OwedIsSum
<1>6. Owed(t) = SumFunctionOnSet(after, 1..n)
  <2>1. LET sums == [r \in 1..Len(t.redeemRequests) |-> OwedTo(t.redeemRequests[r], t)] IN
        Owed(t) = SumFunctionOnSet(sums, 1..Len(t.redeemRequests))
    BY <1>2, OwedIsSum
  <2> QED
    BY <1>1, <2>1
<1>7. \A r \in 1..n : shares[r] \in Nat /\ shares[r] = Share(R[r], new)
                      /\ after[r] = before[r] + shares[r]
  BY <1>2, <1>4, ShareIsNat
<1> HIDE DEF before, shares, after
<1>8. SumFunctionOnSet(shares, 1..n) <= value
  BY <1>1, <1>7, EventPaysItsValue
<1>9. SumFunctionOnSet(after, 1..n) =
        SumFunctionOnSet(before, 1..n) + SumFunctionOnSet(shares, 1..n)
  <2>1. \A r \in 1..n : /\ before[r] \in Int /\ shares[r] \in Int
                        /\ after[r] = before[r] + shares[r]
    BY <1>5, <1>7
  <2>2. IsFiniteSet(1..n)
    BY <1>5
  <2>3. PICK S : S = 1..n
    OBVIOUS
  <2>4. IsFiniteSet(S)
    BY <2>2, <2>3
  <2>5. \A r \in S : /\ before[r] \in Int /\ shares[r] \in Int
                     /\ after[r] = before[r] + shares[r]
    BY <2>1, <2>3
  <2>6. SumFunctionOnSet(after, S) =
          SumFunctionOnSet(before, S) + SumFunctionOnSet(shares, S)
    BY <2>4, <2>5, SumOfPlus
  <2> QED
    BY <2>3, <2>6
<1>10. SumFunctionOnSet(shares, 1..n) \in Nat
  BY <1>5, <1>7, SumIsNat
<1>11. Owed(t) <= Owed(s) + value
  BY <1>5, <1>6, <1>8, <1>9, <1>10
<1> QED
  BY <1>1, <1>11

\* One level of a claim takes from what the request is owed exactly what the
\* current event pays for the stretch it matches, whether it is paid out or
\* buffered: the other events owe the rest of the request what they did.
LEMMA MatchedOwesLess ==
  ASSUME IInv, pc = "match", ~Panics
  PROVE  /\ OwedTo(Matched, storage) = OwedTo(params, storage) - EventEth
         /\ OwedTo(Matched, storage) \in Nat
         /\ OwedTo(params, storage) \in Nat
         /\ EventEth \in Nat
         /\ EthAmount + ExceedingEthAmount = EventEth
<1> DEFINE E == storage.withdrawalEvents
           m == Len(E)
           k == params.withdrawalEventId
           moved == params.height + MatchingAmount
<1>1. /\ storage \in Storage /\ Sound(storage) /\ m \in Nat /\ DOMAIN E = 1..m
      /\ k \in 1..m /\ CurrentEvent = E[k]
      /\ \A e \in 1..m : /\ IsSegment(E[e]) /\ E[e] \in Event
                         /\ E[e].height \in Nat /\ EndOf(E[e]) \in Nat
  <2>1. storage \in Storage /\ Sound(storage)
    BY DEF IInv, Sound
  <2> QED
    BY <2>1, SequenceParts, StorageSegments, CurrentEventParts DEF CurrentEvent
<1>2. /\ params.height \in Nat /\ params.amount \in Nat /\ params.amount > 0
      /\ EndOf(params) = params.height + params.amount
      /\ EndOf(Matched) = EndOf(params)
      /\ Matched.height = moved
      /\ IsSegment(params) /\ IsSegment(Matched)
  <2>1. params \in Params /\ Matched \in Params
    BY MatchedParts DEF IInv, TypeOK
  <2>2. IsSegment(params) /\ IsSegment(Matched)
    BY <2>1 DEF Params, IsSegment
  <2> QED
    BY <2>1, <2>2, ParamsParts, MatchedParts DEF IInv, InFlight, EndOf
<1>3. /\ CurrentEvent.height \in Nat /\ CurrentEvent.amount \in Nat
      /\ CurrentEvent.amount > 0
      /\ CurrentEvent.withdrawnEth \in Nat
      /\ CurrentEvent.height <= params.height
      /\ params.height <= EndOf(CurrentEvent)
      /\ EndOf(CurrentEvent) \in Nat
  BY CurrentEventParts DEF Panics
<1>4. /\ MatchingAmount \in Nat /\ MatchingAmount <= params.amount
      /\ moved \in Nat /\ params.height <= moved /\ moved <= EndOf(CurrentEvent)
      /\ MatchingAmount < params.amount => moved = EndOf(CurrentEvent)
  BY <1>2, MatchFacts
<1>5. EventEth \in Nat
  BY <1>3, <1>4, QuotientIsNat DEF EventEth
<1>6. EthAmount + ExceedingEthAmount = EventEth
  BY <1>5, MatchFacts DEF ExceedingEthAmount
<1>7. Share(params, E[k]) = EventEth
  <2>1. Covered(params, CurrentEvent) = MatchingAmount
    BY <1>2, <1>3, <1>4 DEF Covered, MatchingAmount, Smaller
  <2>2. (0 * CurrentEvent.withdrawnEth) \div CurrentEvent.amount = 0
    BY <1>3
  <2> HIDE DEF Covered
  <2>3. Share(params, CurrentEvent) = EventEth
    BY <2>1, <2>2 DEF Share, EventEth
  <2> QED
    BY <1>1, <2>3
<1>8. Share(Matched, E[k]) = 0
  <2>1. EndOf(Matched) <= moved \/ EndOf(CurrentEvent) <= moved
    BY <1>2, <1>3, <1>4
  <2>2. Covered(Matched, CurrentEvent) = 0
    <3>1. CurrentEvent.height <= moved
      BY <1>2, <1>3, <1>4
    <3> HIDE DEF moved
    <3>2. EndOf(Matched) \in Nat
      BY <1>2
    <3> QED
      BY <1>2, <1>3, <1>4, <2>1, <3>1, <3>2 DEF Covered, Smaller
  <2> QED
    BY <1>1, <2>2 DEF Share
<1>9. ASSUME NEW e \in 1..m, e # k
      PROVE  Share(Matched, E[e]) = Share(params, E[e])
  <2>1. CASE e < k
    <3>1. EndOf(E[e]) <= E[k].height
      BY <1>1, <2>1 DEF Sound, StackIsInOrder, Events
    <3>2. EndOf(E[e]) <= params.height /\ EndOf(E[e]) <= Matched.height
      <4>1. EndOf(E[e]) \in Nat /\ E[k].height \in Nat /\ E[k].height <= params.height
        BY <1>1, <1>3
      <4>2. /\ params.height \in Nat /\ Matched.height \in Nat
            /\ params.height <= Matched.height
        BY <1>2, <1>4
      <4> HIDE DEF E, moved
      <4> QED
        BY <3>1, <4>1, <4>2
    <3> QED
      BY <1>1, <1>2, <3>2, ApartOwesNothing
  <2>2. CASE e > k
    <3>1. EndOf(E[k]) <= E[e].height
      BY <1>1, <2>2 DEF Sound, StackIsInOrder, Events
    <3>2. params.height <= E[e].height /\ Matched.height <= E[e].height
      <4>1. E[e].height \in Nat /\ EndOf(E[k]) \in Nat /\ Matched.height <= EndOf(E[k])
        BY <1>1, <1>2, <1>4
      <4>2. /\ params.height \in Nat /\ Matched.height \in Nat
            /\ params.height <= Matched.height
        BY <1>2, <1>4
      <4> HIDE DEF E, moved
      <4> QED
        BY <3>1, <4>1, <4>2
    <3>3. Covered(Matched, E[e]) = Covered(params, E[e])
      <4>1. /\ (IF params.height < E[e].height THEN E[e].height ELSE params.height)
                 = E[e].height
            /\ (IF Matched.height < E[e].height THEN E[e].height ELSE Matched.height)
                 = E[e].height
        <5>1. /\ params.height \in Nat /\ Matched.height \in Nat
              /\ E[e].height \in Nat
          BY <1>1, <1>2, <1>4
        <5> HIDE DEF E
        <5> QED
          BY <3>2, <5>1
      <4> QED
        BY <1>2, <4>1 DEF Covered
    <3> QED
      BY <3>3 DEF Share
  <2> QED
    BY <1>1, <1>9, <2>1, <2>2
<1> DEFINE before == [e \in 1..m |-> Share(params, E[e])]
           after == [e \in 1..m |-> Share(Matched, E[e])]
<1>10. /\ OwedTo(params, storage) = SumFunctionOnSet(before, 1..m)
       /\ \A e \in 1..m : before[e] \in Nat
       /\ IsFiniteSet(1..m)
       /\ OwedTo(params, storage) \in Nat
  BY <1>1, <1>2, OwedToIsSum
<1>11. /\ OwedTo(Matched, storage) = SumFunctionOnSet(after, 1..m)
       /\ \A e \in 1..m : after[e] \in Nat
       /\ OwedTo(Matched, storage) \in Nat
  BY <1>1, <1>2, OwedToIsSum
<1>12. /\ before[k] = EventEth /\ after[k] = 0
       /\ \A e \in 1..m : e # k => after[e] = before[e]
  BY <1>1, <1>7, <1>8, <1>9
<1> HIDE DEF before, after
<1>13. SumFunctionOnSet(after, 1..m) = SumFunctionOnSet(before, 1..m) + after[k] - before[k]
  <2> DEFINE X == 1..m
  <2>1. /\ IsFiniteSet(X) /\ k \in X
        /\ \A e \in X : before[e] \in Int /\ after[e] \in Int
        /\ \A e \in X : e # k => after[e] = before[e]
    BY <1>1, <1>10, <1>11, <1>12
  <2> HIDE DEF X
  <2>2. SumFunctionOnSet(after, X) = SumFunctionOnSet(before, X) + after[k] - before[k]
    BY <2>1, SumOfChange
  <2> QED
    BY <2>2 DEF X
<1> QED
  BY <1>5, <1>6, <1>10, <1>11, <1>12, <1>13

\* Saving the request in memory changes what is owed by what it changes of it.
LEMMA SaveOwesTheRest ==
  ASSUME IInv, MatchAndSave
  PROVE  LET stored == storage.redeemRequests[params.redeemRequestId] IN
         /\ Owed(storage') =
              Owed(storage) + OwedTo(Matched, storage) - OwedTo(stored, storage)
         /\ OwedTo(stored, storage) \in Nat
<1> DEFINE s == storage
           t == storage'
           id == params.redeemRequestId
           n == Len(s.redeemRequests)
           before == [r \in 1..n |-> OwedTo(s.redeemRequests[r], s)]
           after == [r \in 1..n |-> OwedTo(t.redeemRequests[r], t)]
<1>1. /\ s \in Storage /\ t \in Storage /\ id \in 1..n /\ n \in Nat
      /\ t.withdrawalEvents = s.withdrawalEvents
      /\ Len(t.redeemRequests) = n
      /\ \A r \in 1..n : r # id => t.redeemRequests[r] = s.redeemRequests[r]
      /\ t.redeemRequests[id].height = Matched.height
      /\ t.redeemRequests[id].amount = Matched.amount
  <2>1. s \in Storage /\ id \in 1..n
    BY DEF IInv, Sound, InFlight, MatchAndSave
  <2>2. n \in Nat
    BY <2>1, SequenceParts
  <2> QED
    BY <2>1, <2>2, SaveEffect DEF Sound
<1>2. \A q : OwedTo(q, t) = OwedTo(q, s)
  BY <1>1 DEF OwedTo, Events
<1>3. /\ Owed(s) = SumFunctionOnSet(before, 1..n)
      /\ \A r \in 1..n : before[r] \in Nat
      /\ IsFiniteSet(1..n)
      /\ Owed(s) \in Nat
  BY <1>1, OwedIsSum
<1>4. /\ Owed(t) = SumFunctionOnSet(after, 1..n)
      /\ \A r \in 1..n : after[r] \in Nat
  <2>1. LET sums == [r \in 1..Len(t.redeemRequests) |-> OwedTo(t.redeemRequests[r], t)] IN
        /\ Owed(t) = SumFunctionOnSet(sums, 1..Len(t.redeemRequests))
        /\ \A r \in 1..Len(t.redeemRequests) : sums[r] \in Nat
    BY <1>1, OwedIsSum
  <2> QED
    BY <1>1, <2>1
<1>5. /\ before[id] = OwedTo(s.redeemRequests[id], s)
      /\ after[id] = OwedTo(Matched, s)
      /\ \A r \in 1..n : r # id => after[r] = before[r]
  <2>1. OwedTo(t.redeemRequests[id], s) = OwedTo(Matched, s)
    BY <1>1, PlaceIsOwed
  <2> QED
    BY <1>1, <1>2, <2>1
<1> HIDE DEF before, after
<1>6. SumFunctionOnSet(after, 1..n) = SumFunctionOnSet(before, 1..n) + after[id] - before[id]
  <2> DEFINE X == 1..n
  <2>1. /\ IsFiniteSet(X) /\ id \in X
        /\ \A r \in X : before[r] \in Int /\ after[r] \in Int
        /\ \A r \in X : r # id => after[r] = before[r]
    BY <1>1, <1>3, <1>4, <1>5
  <2> HIDE DEF X
  <2>2. SumFunctionOnSet(after, X) = SumFunctionOnSet(before, X) + after[id] - before[id]
    BY <2>1, SumOfChange
  <2> QED
    BY <2>2 DEF X
<1> QED
  BY <1>1, <1>3, <1>4, <1>5, <1>6

-----------------------------------------------------------------------------
(* The ETH the contract holds                                              *)

\* What holds of the storage between two claims.
Backed(s) == s.bufferedExceedingEth + Owed(s) <= s.balance

\* While a request is matched in memory, its payment so far and what the rest of
\* it is owed stand for the stored request.
ClaimIsBacked ==
  pc = "match" =>
    storage.bufferedExceedingEth + params.ethAmount + Owed(storage)
      - OwedTo(storage.redeemRequests[params.redeemRequestId], storage)
      + OwedTo(params, storage) <= storage.balance

EthIsHeld == Solvent /\ ClaimIsBacked /\ Backed(txStart)

LEMMA EmptyIsBacked == Backed(EmptyStorage)
<1>1. EmptyStorage \in Storage
  BY EmptyIsSound DEF Sound
<1>2. /\ Len(EmptyStorage.redeemRequests) = 0
      /\ EmptyStorage.bufferedExceedingEth = 0 /\ EmptyStorage.balance = 0
  BY DEF EmptyStorage
<1>3. 1..Len(EmptyStorage.redeemRequests) = {}
  BY <1>2
<1>4. Owed(EmptyStorage) = 0
  BY <1>1, <1>3, OwedIsSum, SumOfNone
<1> QED
  BY <1>2, <1>4 DEF Backed

\* Outside of a claim's steps Solvent says that the storage is backed.
LEMMA SolventIsBacked ==
  ASSUME storage \in Storage, pc \notin {"match", "pay"}
  PROVE  Solvent <=> Backed(storage)
<1>1. storage.bufferedExceedingEth \in Nat /\ Owed(storage) \in Nat
  BY StorageParts, OwedIsSum
<1> QED
  BY <1>1 DEF Solvent, Backed

LEMMA EnteredKeepsBacked ==
  ASSUME Entered, UNCHANGED <<pc, txStart>>, storage' \in Storage,
         EthIsHeld, Backed(storage')
  PROVE  EthIsHeld'
<1>1. pc' \notin {"match", "pay"}
  BY DEF Entered
<1>2. storage'.bufferedExceedingEth \in Nat /\ Owed(storage') \in Nat
  BY StorageParts, OwedIsSum
<1>3. Solvent'
  <2>1. Owed(storage)' = Owed(storage')
    BY DEF Owed, OwedTo, Requests, Events
  <2> QED
    BY <1>1, <1>2, <2>1 DEF Solvent, Backed
<1>4. ClaimIsBacked'
  BY <1>1 DEF ClaimIsBacked
<1>5. Backed(txStart)'
  BY DEF EthIsHeld, Backed, Owed, OwedTo, Requests, Events
<1> QED
  BY <1>3, <1>4, <1>5 DEF EthIsHeld

LEMMA ReturnKeepsBacked ==
  ASSUME Return, storage' \in Storage, Backed(storage')
  PROVE  EthIsHeld'
<1>1. pc' = "idle" /\ txStart' = EmptyStorage
  BY DEF Return
<1>2. storage'.bufferedExceedingEth \in Nat /\ Owed(storage') \in Nat
  BY StorageParts, OwedIsSum
<1>3. Solvent'
  <2>1. Owed(storage)' = Owed(storage')
    BY DEF Owed, OwedTo, Requests, Events
  <2> QED
    BY <1>1, <1>2, <2>1 DEF Solvent, Backed
<1>4. ClaimIsBacked'
  BY <1>1 DEF ClaimIsBacked
<1>5. Backed(txStart)'
  BY <1>1, EmptyIsBacked
<1> QED
  BY <1>3, <1>4, <1>5 DEF EthIsHeld

LEMMA RevertKeepsBacked ==
  ASSUME IInv, EthIsHeld, Revert
  PROVE  EthIsHeld'
<1>1. Return /\ storage' = txStart /\ txStart \in Storage
  BY DEF Revert, IInv, TypeOK
<1>2. storage' \in Storage /\ Backed(storage')
  BY <1>1 DEF EthIsHeld
<1> QED
  BY <1>1, <1>2, ReturnKeepsBacked

LEMMA EnvironmentKeepsBacked ==
  ASSUME IInv, IInv', EthIsHeld
  PROVE  /\ \A initiator, recipient \in Account, a \in LsETHAmount, rate \in Rate :
              RequestRedeem(initiator, recipient, a, rate) => EthIsHeld'
         /\ \A rate \in Rate, available \in RedeemBalance :
              RiverReportsWithdraw(rate, available) => EthIsHeld'
         /\ \A limit \in PullLimit : PullExceedingEth(limit) => EthIsHeld'
         /\ \A accounts \in SUBSET Account : SetDenied(accounts) => EthIsHeld'
         /\ SetSlashingContainmentMode => EthIsHeld'
<1>1. /\ Sound(storage) /\ storage \in Storage
      /\ Sound(storage') /\ storage' \in Storage
      /\ storage.bufferedExceedingEth \in Nat /\ storage.balance \in Nat
      /\ storage'.bufferedExceedingEth \in Nat /\ storage'.balance \in Nat
      /\ Owed(storage) \in Nat /\ Owed(storage') \in Nat
      /\ storage.redeemDemand \in Nat
  <2>1. Sound(storage) /\ Sound(storage)'
    BY DEF IInv
  <2>2. storage \in Storage /\ storage' \in Storage
    BY DEF IInv, Sound
  <2>3. Sound(storage')
    BY <2>1 DEF Sound, StackIsContiguous, StackIsInOrder, QueueIsContiguous,
                DemandIsUncovered, ClaimsAreCovered, Requests, Events
  <2> QED
    BY <2>1, <2>2, <2>3, StorageParts, OwedIsSum
<1>2. Entered => Backed(storage)
  BY <1>1, SolventIsBacked DEF Entered, EthIsHeld
<1>3. ASSUME NEW initiator \in Account, NEW recipient \in Account,
             NEW a \in LsETHAmount, NEW rate \in Rate,
             RequestRedeem(initiator, recipient, a, rate)
      PROVE  EthIsHeld'
  <2>1. Entered /\ UNCHANGED <<pc, txStart>>
    BY <1>3 DEF RequestRedeem
  <2>2. Backed(storage')
    BY <1>1, <1>2, <1>3, <2>1, RequestOwesNothing DEF Backed
  <2> QED
    BY <1>1, <2>1, <2>2, EnteredKeepsBacked
<1>4. ASSUME NEW rate \in Rate, NEW available \in RedeemBalance,
             RiverReportsWithdraw(rate, available)
      PROVE  EthIsHeld'
  <2> DEFINE supply == Supply(rate, available, storage.redeemDemand)
  <2>1. supply.lsETH \in Nat /\ supply.eth \in Nat
    <3>1. available \in Nat
      BY RedeemAssumption
    <3> QED
      BY <1>1, <3>1, RateConverts DEF Supply
  <2>2. ReportWithdraw(supply.lsETH, supply.eth)
    BY <1>4 DEF RiverReportsWithdraw
  <2>3. Entered /\ UNCHANGED <<pc, txStart>>
    BY <2>2 DEF ReportWithdraw
  <2> HIDE DEF supply
  <2>4. /\ Owed(storage') <= Owed(storage) + supply.eth
        /\ storage'.bufferedExceedingEth = storage.bufferedExceedingEth
        /\ storage'.balance = storage.balance + supply.eth
    BY <1>1, <2>1, <2>2, ReportOwesItsValue
  <2>5. Backed(storage')
    BY <1>1, <1>2, <2>1, <2>3, <2>4 DEF Backed
  <2> QED
    BY <1>1, <2>3, <2>5, EnteredKeepsBacked
<1>5. ASSUME NEW limit \in PullLimit, PullExceedingEth(limit) PROVE EthIsHeld'
  <2>1. Entered /\ UNCHANGED <<pc, txStart>>
    BY <1>5 DEF PullExceedingEth
  <2>2. /\ storage'.redeemRequests = storage.redeemRequests
        /\ storage'.withdrawalEvents = storage.withdrawalEvents
        /\ storage.balance - storage'.balance =
             storage.bufferedExceedingEth - storage'.bufferedExceedingEth
    BY <1>1, <1>5, PullKeepsSound
  <2>3. Owed(storage') = Owed(storage)
    BY <2>2, TilingIsOwed
  <2>4. Backed(storage')
    BY <1>1, <1>2, <2>1, <2>2, <2>3 DEF Backed
  <2> QED
    BY <1>1, <2>1, <2>4, EnteredKeepsBacked
<1>6. ASSUME NEW accounts \in SUBSET Account, SetDenied(accounts) PROVE EthIsHeld'
  <2>1. Entered /\ UNCHANGED <<pc, txStart>> /\ storage' = storage
    BY <1>6 DEF SetDenied, Entered
  <2> QED
    BY <1>1, <1>2, <2>1, EnteredKeepsBacked
<1>7. ASSUME SetSlashingContainmentMode PROVE EthIsHeld'
  <2>1. Entered /\ UNCHANGED <<pc, txStart>> /\ storage' = storage
    BY <1>7 DEF SetSlashingContainmentMode, Entered
  <2> QED
    BY <1>1, <1>2, <2>1, EnteredKeepsBacked
<1> QED
  BY <1>3, <1>4, <1>5, <1>6, <1>7

LEMMA ClaimStartKeepsBacked ==
  ASSUME IInv, EthIsHeld, NEW n \in 0..MaxBatch, NEW skip \in BOOLEAN, NEW d \in Depth,
         ClaimRedeemRequests(n, skip, d)
  PROVE  EthIsHeld'
<1>1. pc = "idle" /\ pc' = "loop" /\ storage' = storage /\ txStart' = storage
  BY DEF ClaimRedeemRequests
<1>2. Backed(storage)
  BY <1>1, SolventIsBacked DEF IInv, TypeOK, EthIsHeld
<1>3. Solvent' /\ Backed(txStart)'
  <2>1. Owed(storage)' = Owed(storage) /\ Owed(txStart)' = Owed(storage)
    BY <1>1 DEF Owed, OwedTo, Requests, Events
  <2> QED
    BY <1>1, <1>2, <2>1 DEF EthIsHeld, Solvent, Backed
<1>4. ClaimIsBacked'
  BY <1>1 DEF ClaimIsBacked
<1> QED
  BY <1>3, <1>4 DEF EthIsHeld

LEMMA LoadKeepsBacked ==
  ASSUME IInv, EthIsHeld, NEW r \in 1..(MaxRequests + 1),
         NEW e \in 1..(MaxWithdrawalEvents + 1), LoadItem(r, e)
  PROVE  EthIsHeld'
<1> DEFINE request == storage.redeemRequests[r]
<1>1. /\ pc = "loop" /\ pc' = "match" /\ storage' = storage /\ txStart' = txStart
      /\ params'.redeemRequestId = r
      /\ params'.height = request.height /\ params'.amount = request.amount
      /\ params'.ethAmount = 0
      /\ r <= call.redeemRequestCount
  BY DEF LoadItem, Claimable, InBounds
<1>2. storage \in Storage /\ Backed(storage)
  BY <1>1, SolventIsBacked DEF IInv, TypeOK, EthIsHeld
<1>3. IsSegment(request)
  <2>1. /\ call.redeemRequestCount <= Len(storage.redeemRequests)
        /\ call.redeemRequestCount \in Nat /\ Len(storage.redeemRequests) \in Nat
    BY <1>1, <1>2, SequenceParts DEF IInv, InFlight, TypeOK, Call
  <2>2. r \in 1..Len(storage.redeemRequests)
    BY <1>1, <2>1, RedeemAssumption
  <2> QED
    BY <1>2, <2>2, StorageSegments
<1>4. /\ OwedTo(params, storage)' = OwedTo(request, storage)
      /\ OwedTo(storage.redeemRequests[params.redeemRequestId], storage)' =
           OwedTo(request, storage)
      /\ Owed(storage)' = Owed(storage)
  <2>1. OwedTo(params', storage) = OwedTo(request, storage)
    BY <1>1, PlaceIsOwed
  <2>2. OwedTo(params, storage)' = OwedTo(params', storage)
    BY <1>1 DEF OwedTo, Share, Covered, EndOf, Events, Smaller
  <2> QED
    BY <1>1, <2>1, <2>2 DEF Owed, OwedTo, Requests, Events
<1>5. /\ storage.bufferedExceedingEth \in Nat /\ storage.balance \in Nat
      /\ Owed(storage) \in Nat /\ OwedTo(request, storage) \in Nat
  BY <1>2, <1>3, StorageParts, OwedIsSum, OwedToIsSum
<1>6. ClaimIsBacked'
  <2> HIDE DEF request
  <2>1. storage.bufferedExceedingEth + 0 + Owed(storage)
          - OwedTo(request, storage) + OwedTo(request, storage) <= storage.balance
    BY <1>2, <1>5 DEF Backed
  <2> QED
    BY <1>1, <1>4, <2>1 DEF ClaimIsBacked
<1>7. Solvent' /\ Backed(txStart)'
  BY <1>1 DEF EthIsHeld, Solvent, Backed, Owed, OwedTo, Requests, Events
<1> QED
  BY <1>6, <1>7 DEF EthIsHeld

\* A level of a claim moves what the current event pays from what the request is
\* owed to the payment and to the buffer.
LEMMA LevelIsBacked ==
  ASSUME IInv, EthIsHeld, pc = "match", ~Panics
  PROVE  LET stored == storage.redeemRequests[params.redeemRequestId] IN
         /\ (storage.bufferedExceedingEth + ExceedingEthAmount)
              + (params.ethAmount + EthAmount) + Owed(storage)
              - OwedTo(stored, storage) + OwedTo(Matched, storage) <= storage.balance
         /\ storage.bufferedExceedingEth \in Nat /\ storage.balance \in Nat
         /\ ExceedingEthAmount \in Nat /\ EthAmount \in Nat /\ params.ethAmount \in Nat
         /\ Owed(storage) \in Nat /\ OwedTo(stored, storage) \in Nat
         /\ OwedTo(Matched, storage) \in Nat
<1> DEFINE stored == storage.redeemRequests[params.redeemRequestId]
<1>1. /\ storage \in Storage /\ params \in Params
      /\ params.redeemRequestId \in 1..Len(storage.redeemRequests)
  BY DEF IInv, TypeOK, InFlight
<1>2. /\ storage.bufferedExceedingEth \in Nat /\ storage.balance \in Nat
      /\ params.ethAmount \in Nat /\ Owed(storage) \in Nat
      /\ OwedTo(stored, storage) \in Nat
  BY <1>1, StorageParts, ParamsParts, OwedIsSum, StorageSegments, OwedToIsSum
<1>3. /\ storage.bufferedExceedingEth + params.ethAmount + Owed(storage)
           - OwedTo(stored, storage) + OwedTo(params, storage) <= storage.balance
  BY DEF EthIsHeld, ClaimIsBacked
<1>4. /\ OwedTo(Matched, storage) = OwedTo(params, storage) - EventEth
      /\ OwedTo(Matched, storage) \in Nat /\ OwedTo(params, storage) \in Nat
      /\ EventEth \in Nat /\ EthAmount + ExceedingEthAmount = EventEth
  BY MatchedOwesLess
<1>5. ExceedingEthAmount \in Nat /\ EthAmount \in Nat
  BY MatchFacts
<1> HIDE DEF stored
<1>6. (storage.bufferedExceedingEth + ExceedingEthAmount)
        + (params.ethAmount + EthAmount) + Owed(storage)
        - OwedTo(stored, storage) + OwedTo(Matched, storage) <= storage.balance
  BY <1>2, <1>3, <1>4, <1>5
<1> QED
  BY <1>2, <1>4, <1>5, <1>6 DEF stored

LEMMA DescendKeepsBacked ==
  ASSUME IInv, EthIsHeld, MatchAndDescend
  PROVE  EthIsHeld'
<1> DEFINE stored == storage.redeemRequests[params.redeemRequestId]
<1>1. /\ pc = "match" /\ pc' = "match" /\ ~Panics /\ txStart' = txStart
      /\ params' = [Matched EXCEPT !.withdrawalEventId = Matched.withdrawalEventId + 1,
                                   !.depth = Matched.depth - 1]
  BY DEF MatchAndDescend
<1>2. /\ storage'.redeemRequests = storage.redeemRequests
      /\ storage'.withdrawalEvents = storage.withdrawalEvents
      /\ storage'.bufferedExceedingEth = storage.bufferedExceedingEth + ExceedingEthAmount
      /\ storage'.balance = storage.balance
  BY DescendEffect
<1>3. /\ params'.redeemRequestId = params.redeemRequestId
      /\ params'.height = Matched.height /\ params'.amount = Matched.amount
      /\ params'.ethAmount = params.ethAmount + EthAmount
  <2>1. Matched \in Params
    BY <1>1, MatchedParts
  <2>2. /\ params'.redeemRequestId = Matched.redeemRequestId
        /\ params'.height = Matched.height /\ params'.amount = Matched.amount
        /\ params'.ethAmount = Matched.ethAmount
    BY <1>1, <2>1 DEF Params
  <2> QED
    BY <1>1, <2>2, MatchedParts
<1>4. /\ Owed(storage)' = Owed(storage)
      /\ OwedTo(storage.redeemRequests[params.redeemRequestId], storage)' =
           OwedTo(stored, storage)
      /\ OwedTo(params, storage)' = OwedTo(Matched, storage)
  <2>1. OwedTo(params', storage) = OwedTo(Matched, storage)
    BY <1>3, PlaceIsOwed
  <2>2. OwedTo(params, storage)' = OwedTo(params', storage)
    BY <1>2 DEF OwedTo, Share, Covered, EndOf, Events, Smaller
  <2>3. Owed(storage)' = Owed(storage)
    BY <1>2 DEF Owed, OwedTo, Share, Covered, EndOf, Requests, Events, Smaller
  <2>4. OwedTo(storage.redeemRequests[params.redeemRequestId], storage)' =
          OwedTo(stored, storage)
    BY <1>2, <1>3 DEF OwedTo, Share, Covered, EndOf, Events, Smaller
  <2> QED
    BY <2>1, <2>2, <2>3, <2>4
<1>5. ClaimIsBacked'
  <2>1. (storage.bufferedExceedingEth + ExceedingEthAmount)
          + (params.ethAmount + EthAmount) + Owed(storage)
          - OwedTo(stored, storage) + OwedTo(Matched, storage) <= storage.balance
    BY <1>1, LevelIsBacked
  <2> HIDE DEF stored
  <2> QED
    BY <1>2, <1>3, <1>4, <2>1 DEF ClaimIsBacked
<1>6. Solvent' /\ Backed(txStart)'
  BY <1>1 DEF EthIsHeld, Solvent, Backed, Owed, OwedTo, Requests, Events
<1> QED
  BY <1>5, <1>6 DEF EthIsHeld

LEMMA SaveKeepsBacked ==
  ASSUME IInv, EthIsHeld, MatchAndSave
  PROVE  EthIsHeld'
<1> DEFINE stored == storage.redeemRequests[params.redeemRequestId]
<1>1. /\ pc = "match" /\ pc' = "pay" /\ ~Panics /\ txStart' = txStart
      /\ params' = Matched
  BY DEF MatchAndSave
<1>2. /\ storage'.bufferedExceedingEth = storage.bufferedExceedingEth + ExceedingEthAmount
      /\ storage'.balance = storage.balance
  BY SaveEffect
<1>3. params'.ethAmount = params.ethAmount + EthAmount
  BY <1>1, MatchedParts
<1>4. Owed(storage)' = Owed(storage) + OwedTo(Matched, storage) - OwedTo(stored, storage)
  <2>1. Owed(storage') = Owed(storage) + OwedTo(Matched, storage) - OwedTo(stored, storage)
    BY SaveOwesTheRest
  <2>2. Owed(storage)' = Owed(storage')
    BY DEF Owed, OwedTo, Requests, Events
  <2> QED
    BY <2>1, <2>2
<1>5. /\ (storage.bufferedExceedingEth + ExceedingEthAmount)
           + (params.ethAmount + EthAmount) + Owed(storage)
           - OwedTo(stored, storage) + OwedTo(Matched, storage) <= storage.balance
      /\ storage.bufferedExceedingEth \in Nat /\ storage.balance \in Nat
      /\ ExceedingEthAmount \in Nat /\ EthAmount \in Nat /\ params.ethAmount \in Nat
      /\ Owed(storage) \in Nat /\ OwedTo(stored, storage) \in Nat
      /\ OwedTo(Matched, storage) \in Nat
  BY <1>1, LevelIsBacked
<1> HIDE DEF stored
<1>6. Solvent'
  <2>1. (storage.bufferedExceedingEth + ExceedingEthAmount)
          + (Owed(storage) + OwedTo(Matched, storage) - OwedTo(stored, storage))
          + (params.ethAmount + EthAmount) <= storage.balance
    BY <1>5
  <2> QED
    BY <1>1, <1>2, <1>3, <1>4, <2>1 DEF Solvent
<1>7. ClaimIsBacked' /\ Backed(txStart)'
  BY <1>1 DEF EthIsHeld, ClaimIsBacked, Backed, Owed, OwedTo, Requests, Events
<1> QED
  BY <1>6, <1>7 DEF EthIsHeld

LEMMA PayKeepsBacked ==
  ASSUME IInv, EthIsHeld, PayRecipient
  PROVE  EthIsHeld'
<1>1. /\ pc = "pay" /\ pc' = "callback" /\ txStart' = txStart
      /\ params' = params
  BY DEF PayRecipient
<1>2. /\ storage'.redeemRequests = storage.redeemRequests
      /\ storage'.withdrawalEvents = storage.withdrawalEvents
      /\ storage'.bufferedExceedingEth = storage.bufferedExceedingEth
      /\ storage'.balance = storage.balance - params.ethAmount
  BY PayEffect
<1>3. /\ storage.bufferedExceedingEth \in Nat /\ storage.balance \in Nat
      /\ Owed(storage) \in Nat /\ params.ethAmount \in Nat
  BY StorageParts, ParamsParts, OwedIsSum DEF IInv, TypeOK
<1>4. Owed(storage)' = Owed(storage)
  BY <1>2 DEF Owed, OwedTo, Share, Covered, EndOf, Requests, Events, Smaller
<1>5. storage.bufferedExceedingEth + Owed(storage) + params.ethAmount <= storage.balance
  BY <1>1 DEF EthIsHeld, Solvent
<1>6. storage.bufferedExceedingEth + Owed(storage) + 0 <= storage.balance - params.ethAmount
  BY <1>3, <1>5
<1>7. Solvent'
  BY <1>1, <1>2, <1>4, <1>6 DEF Solvent
<1>8. ClaimIsBacked' /\ Backed(txStart)'
  BY <1>1 DEF EthIsHeld, ClaimIsBacked, Backed, Owed, OwedTo, Requests, Events
<1> QED
  BY <1>7, <1>8 DEF EthIsHeld

\* The steps of a claim that leave the storage as it is.
LEMMA ReadingKeepsBacked ==
  ASSUME EthIsHeld, UNCHANGED <<storage, txStart>>,
         pc \in {"loop", "callback"}, pc' = "loop"
  PROVE  EthIsHeld'
BY DEF EthIsHeld, Solvent, ClaimIsBacked, Backed, Owed, OwedTo, Requests, Events

LEMMA NextKeepsBacked ==
  ASSUME IInv, IInv', EthIsHeld, [Next]_vars
  PROVE  EthIsHeld'
<1>1. CASE EndClaim
  <2>1. Return /\ storage' = storage /\ pc = "loop"
    BY <1>1 DEF EndClaim
  <2>2. storage' \in Storage /\ Backed(storage')
    BY <2>1, SolventIsBacked DEF IInv, TypeOK, EthIsHeld
  <2> QED
    BY <2>1, <2>2, ReturnKeepsBacked
<1>2. ASSUME NEW r \in 1..(MaxRequests + 1), NEW e \in 1..(MaxWithdrawalEvents + 1),
             LoadItem(r, e) \/ SkipItem(r, e) \/ RejectItem(r, e)
      PROVE  EthIsHeld'
  BY <1>2, LoadKeepsBacked, ReadingKeepsBacked, RevertKeepsBacked DEF RejectItem, SkipItem
<1>3. CASE MatchAndDescend
  BY <1>3, DescendKeepsBacked
<1>4. CASE MatchAndSave
  BY <1>4, SaveKeepsBacked
<1>5. CASE MatchPanics \/ RecipientReverts
  BY <1>5, RevertKeepsBacked DEF MatchPanics, RecipientReverts
<1>6. CASE PayRecipient
  BY <1>6, PayKeepsBacked
<1>7. CASE RecipientReturns
  BY <1>7, ReadingKeepsBacked DEF RecipientReturns
<1>8. CASE ClaimStep
  BY <1>1, <1>2, <1>3, <1>4, <1>5, <1>6, <1>7, <1>8 DEF ClaimStep
<1>9. CASE \E n \in 0..MaxBatch, skip \in BOOLEAN, d \in Depth :
             ClaimRedeemRequests(n, skip, d)
  BY <1>9, ClaimStartKeepsBacked
<1>10. CASE UNCHANGED vars
  <2>1. storage' = storage /\ txStart' = txStart /\ pc' = pc /\ params' = params
    BY <1>10 DEF vars
  <2>2. /\ Owed(storage)' = Owed(storage) /\ Owed(txStart)' = Owed(txStart)
        /\ OwedTo(params, storage)' = OwedTo(params, storage)
        /\ OwedTo(storage.redeemRequests[params.redeemRequestId], storage)' =
             OwedTo(storage.redeemRequests[params.redeemRequestId], storage)
    <3>1. Owed(storage)' = Owed(storage) /\ Owed(txStart)' = Owed(txStart)
      BY <2>1 DEF Owed, OwedTo, Requests, Events
    <3>2. OwedTo(params, storage)' = OwedTo(params, storage)
      BY <2>1 DEF OwedTo, Share, Covered, EndOf, Smaller, Events
    <3>3. OwedTo(storage.redeemRequests[params.redeemRequestId], storage)' =
            OwedTo(storage.redeemRequests[params.redeemRequestId], storage)
      BY <2>1 DEF OwedTo, Share, Covered, EndOf, Smaller, Events
    <3> QED
      BY <3>1, <3>2, <3>3
  <2>3. Solvent' /\ ClaimIsBacked'
    BY <2>1, <2>2 DEF EthIsHeld, Solvent, ClaimIsBacked
  <2>4. Backed(txStart)'
    BY <2>1, <2>2 DEF EthIsHeld, Backed
  <2> QED
    BY <2>3, <2>4 DEF EthIsHeld
<1> QED
  BY <1>8, <1>9, <1>10, EnvironmentKeepsBacked DEF Next

\* The contract always holds the exceeding buffer, the payment in flight and what
\* the covered requests can still claim, through any interleaving of claims with
\* what recipients call back, at any depth, for any rates and amounts: neither the
\* two roundings of a level nor the split of a claim over events can cost more than
\* an event brought (reportWithdraw, pullExceedingEth, _claimRedeemRequest).
THEOREM StaysSolvent == Spec => []Solvent
<1>1. Init => EthIsHeld
  <2> SUFFICES ASSUME Init PROVE EthIsHeld
    OBVIOUS
  <2>1. /\ pc = "idle" /\ storage = EmptyStorage /\ txStart = EmptyStorage
        /\ storage \in Storage
    BY EmptyIsSound DEF Init, Sound
  <2> QED
    BY <2>1, EmptyIsBacked, SolventIsBacked DEF EthIsHeld, ClaimIsBacked
<1>2. IInv /\ IInv' /\ EthIsHeld /\ [Next]_vars => EthIsHeld'
  BY NextKeepsBacked
<1>3. EthIsHeld => Solvent
  BY DEF EthIsHeld
<1> QED
  BY Inductive, <1>1, <1>2, <1>3, PTL DEF Spec

-----------------------------------------------------------------------------
(* What a request is due, as RedeemQueue computes it: event after event     *)

Crosses(request, reached, event) == Promise!Crossed(request, reached, event)

\* g holds what is left of a request after each of the first n events.
Walks(g, request, events, reached, n) ==
  g = [k \in 0..n |->
         IF k = 0
           THEN [amount |-> request.amount, max |-> request.maxRedeemableEth, eth |-> 0]
           ELSE Promise!Exchanged(g[k - 1], Crosses(request, reached, events[k]), events[k])]

\* A walk is extended event by event.
LEMMA WalkExists ==
  ASSUME NEW request, NEW events, NEW reached, NEW N \in Nat
  PROVE  \E g : Walks(g, request, events, reached, N)
<1> DEFINE V(t, k) == IF k = 0
                      THEN [amount |-> request.amount, max |-> request.maxRedeemableEth,
                            eth |-> 0]
                      ELSE Promise!Exchanged(t[k - 1], Crosses(request, reached, events[k]),
                                             events[k])
           Fails(n) == ~ \E g : Walks(g, request, events, reached, n)
           C == {n \in 0..N : Fails(n)}
<1> SUFFICES ASSUME C # {} PROVE FALSE OBVIOUS
<1>1. PICK n \in C : \A m \in C : n <= m
  <2>1. 0 \in Int /\ N \in Int /\ C \subseteq 0..N OBVIOUS
  <2> HIDE DEF C
  <2> QED BY <2>1, LeastInInterval
<1>2. n # 0
  <2>1. Walks([k \in 0..0 |-> V(<<>>, 0)], request, events, reached, 0) BY DEF Walks
  <2> QED BY <1>1, <2>1
<1>3. n - 1 \in 0..N /\ n - 1 \notin C BY <1>1, <1>2
<1>4. PICK g : Walks(g, request, events, reached, n - 1) BY <1>3
<1> DEFINE h == [k \in 0..n |-> IF k < n THEN g[k] ELSE V(g, n)]
<1>5. \A k \in 0..(n - 1) : g[k] = V(g, k) BY <1>4 DEF Walks
<1>6. ASSUME NEW k \in 0..n PROVE h[k] = V(h, k)
  <2>1. CASE k < n
    <3>1. h[k] = g[k] /\ g[k] = V(g, k) BY <1>5, <2>1
    <3>2. k # 0 => h[k - 1] = g[k - 1] BY <2>1
    <3> QED BY <3>1, <3>2
  <2>2. CASE k = n
    <3>1. n \in Nat /\ n # 0 BY <1>1, <1>2
    <3>2. n - 1 \in 0..n /\ n - 1 < n BY <3>1
    <3>3. h[n - 1] = g[n - 1] BY <3>2
    <3>4. n \in 0..n /\ ~(n < n) BY <3>1
    <3>5. h[n] = V(g, n) BY <3>4
    <3> HIDE DEF h
    <3> QED BY <2>2, <3>1, <3>3, <3>5
  <2> QED BY <1>1, <2>1, <2>2
<1>7. Walks(h, request, events, reached, n)
  <2>1. h = [k \in 0..n |-> V(h, k)] BY <1>6
  <2> QED BY <2>1 DEF Walks
<1> QED BY <1>1, <1>7

\* The table that RedeemQueue defines by recursion is such a walk.
LEMMA AfterWalks ==
  ASSUME NEW request, NEW events, NEW done, Len(events) \in Nat
  PROVE  Walks(Promise!After(request, events, done), request, events,
               request.height + done, Len(events))
<1> DEFINE g == CHOOSE g : Walks(g, request, events, request.height + done, Len(events))
<1>1. Walks(g, request, events, request.height + done, Len(events)) BY WalkExists
<1>2. Promise!After(request, events, done) = g BY DEF Promise!After, Walks, Crosses
<1> QED BY <1>1, <1>2

\* Walks agree as far as they cross the same parts of the same events.
LEMMA WalksAgree ==
  ASSUME NEW request, NEW E, NEW F, NEW x, NEW y, NEW n \in Nat, NEW m \in Nat,
         NEW g, NEW h, Walks(g, request, E, x, n), Walks(h, request, F, y, m),
         NEW j \in Nat, j <= n, j <= m,
         \A k \in 1..n : k <= j =>
           E[k] = F[k] /\ Crosses(request, x, E[k]) = Crosses(request, y, F[k])
  PROVE  g[j] = h[j]
<1> DEFINE C == {k \in 0..j : g[k] # h[k]}
<1> SUFFICES ASSUME C # {} PROVE FALSE OBVIOUS
<1>1. PICK k \in C : \A i \in C : k <= i
  <2>1. 0 \in Int /\ j \in Int /\ C \subseteq 0..j OBVIOUS
  <2> HIDE DEF C
  <2> QED BY <2>1, LeastInInterval
<1>2. k \in 0..n /\ k \in 0..m OBVIOUS
<1>3. k # 0
  <2>1. g[0] = h[0] BY DEF Walks
  <2> QED BY <2>1
<1>4. k - 1 \in 0..j /\ k - 1 \notin C /\ k \in 1..n /\ k <= j BY <1>1, <1>3
<1>5. g[k - 1] = h[k - 1] BY <1>4
<1>6. g[k] = Promise!Exchanged(g[k - 1], Crosses(request, x, E[k]), E[k])
  BY <1>2, <1>3 DEF Walks
<1>7. h[k] = Promise!Exchanged(h[k - 1], Crosses(request, y, F[k]), F[k])
  BY <1>2, <1>3 DEF Walks
<1> QED BY <1>4, <1>5, <1>6, <1>7

\* A walk stands still over events it does not cross.
LEMMA WalkStands ==
  ASSUME NEW request, NEW E, NEW x, NEW n \in Nat, NEW g, Walks(g, request, E, x, n),
         NEW j \in 0..n, \A k \in 1..n : k > j => Crosses(request, x, E[k]) = 0
  PROVE  g[n] = g[j]
<1> DEFINE C == {k \in j..n : g[k] # g[j]}
<1> SUFFICES ASSUME C # {} PROVE FALSE OBVIOUS
<1>1. PICK k \in C : \A i \in C : k <= i
  <2>1. j \in Int /\ n \in Int /\ C \subseteq j..n OBVIOUS
  <2> HIDE DEF C
  <2> QED BY <2>1, LeastInInterval
<1>2. k # j /\ k \in 0..n OBVIOUS
<1>3. k - 1 \in j..n /\ k - 1 \notin C /\ k \in 1..n /\ k > j /\ k # 0 BY <1>1, <1>2
<1>4. g[k - 1] = g[j] BY <1>3
<1>5. g[k] = Promise!Exchanged(g[k - 1], Crosses(request, x, E[k]), E[k])
  BY <1>2, <1>3 DEF Walks
<1>6. g[k] = g[k - 1] BY <1>3, <1>5 DEF Promise!Exchanged
<1> QED BY <1>4, <1>6

\* Heights whose walks differ by what they cross of one event, the last that
\* either crosses.
Differ(request, E, x, y, n, e) ==
  /\ \A k \in 1..n : k < e => Crosses(request, x, E[k]) = Crosses(request, y, E[k])
  /\ \A k \in 1..n : k >= e => Crosses(request, x, E[k]) = 0
  /\ \A k \in 1..n : k > e => Crosses(request, y, E[k]) = 0

\* The farther walk ends with that part of the event exchanged.
LEMMA WalkGoesOn ==
  ASSUME NEW request, NEW E, NEW x, NEW y, NEW n \in Nat, NEW g, NEW h,
         Walks(g, request, E, x, n), Walks(h, request, E, y, n), NEW e \in 1..n,
         Differ(request, E, x, y, n, e), NEW part, part = Crosses(request, y, E[e])
  PROVE  h[n] = Promise!Exchanged(g[n], part, E[e])
<1>1. PICK j \in 0..n : j = e - 1 OBVIOUS
<1>2. g[j] = h[j]
  <2>1. j \in Nat /\ j <= n BY <1>1
  <2>2. \A k \in 1..n : k <= j =>
          E[k] = E[k] /\ Crosses(request, x, E[k]) = Crosses(request, y, E[k])
    BY <1>1 DEF Differ
  <2> QED BY <2>1, <2>2, WalksAgree
<1>3. g[n] = g[j]
  <2>1. \A k \in 1..n : k > j => Crosses(request, x, E[k]) = 0 BY <1>1 DEF Differ
  <2> QED BY <2>1, WalkStands
<1>4. h[n] = h[e]
  <2>1. e \in 0..n /\ \A k \in 1..n : k > e => Crosses(request, y, E[k]) = 0 BY DEF Differ
  <2> QED BY <2>1, WalkStands
<1>5. h[e] = Promise!Exchanged(h[e - 1], Crosses(request, y, E[e]), E[e])
  <2>1. e \in 0..n /\ e # 0 OBVIOUS
  <2> QED BY <2>1 DEF Walks
<1> QED BY <1>1, <1>2, <1>3, <1>4, <1>5

\* Nothing is crossed of an event that starts where the request stands or later,
\* and nothing before the request moves.
LEMMA NothingIsCrossed ==
  ASSUME NEW request, request.height \in Nat, NEW event \in Event, NEW reached \in Nat,
         reached <= event.height \/ reached = request.height
  PROVE  Crosses(request, reached, event) = 0
BY DEF Crosses, Promise!Crossed, Promise!Least, Promise!Greatest, Promise!EndOf, Event

\* An event that ends where the request stands is crossed, how far it stands beyond.
LEMMA CrossedForGood ==
  ASSUME NEW request, request.height \in Nat, NEW event \in Event,
         NEW x \in Nat, NEW y \in Nat, EndOf(event) <= x, EndOf(event) <= y
  PROVE  Crosses(request, x, event) = Crosses(request, y, event)
BY DEF Crosses, Promise!Crossed, Promise!Least, Promise!Greatest, Promise!EndOf,
       EndOf, Event

\* What a request crosses of an event it stands in, or is about to enter.
LEMMA PartIsCrossed ==
  ASSUME NEW request, request.height \in Nat, NEW event \in Event,
         NEW x \in Nat, NEW part \in Nat,
         x = Promise!Greatest(event.height, request.height), x + part <= EndOf(event)
  PROVE  Crosses(request, x + part, event) = part
BY DEF Crosses, Promise!Crossed, Promise!Least, Promise!Greatest, Promise!EndOf,
       EndOf, Event

-----------------------------------------------------------------------------
(* What is left of a request, and when it is settled                        *)

\* What is left of a request placed at place once it stands at a height, and the
\* ETH it is due there.
Left(place, events, height) ==
  Promise!After(place, events, height - place.height)[Len(events)]

Standing(request, eth) ==
  [amount |-> request.amount, max |-> request.maxRedeemableEth, eth |-> eth]

\* A request stands where the promise lets it, and what it was paid, with a
\* payment under way, is its due.
IsSettled(s, r, payment) ==
  /\ Promise!MayStand(s.placed[r], Events(s), Requests(s)[r].height - s.placed[r].height)
  /\ Left(s.placed[r], Events(s), Requests(s)[r].height) =
       Standing(Requests(s)[r], s.paid[r] + payment)

LEMMA LeftWalks ==
  ASSUME NEW place \in Placement, NEW events \in Seq(Event), NEW height \in Nat
  PROVE  \E g : /\ Walks(g, place, events, height, Len(events))
                /\ Left(place, events, height) = g[Len(events)]
<1> DEFINE g == Promise!After(place, events, height - place.height)
<1>1. Len(events) \in Nat /\ place.height + (height - place.height) = height
  BY PlacementParts
<1>2. Walks(g, place, events, place.height + (height - place.height), Len(events))
  BY <1>1, AfterWalks
<1>3. Walks(g, place, events, height, Len(events)) BY <1>1, <1>2
<1>4. Left(place, events, height) = g[Len(events)] BY DEF Left
<1> QED BY <1>3, <1>4

\* Nothing is due to a request that has not moved.
LEMMA NothingIsDueAtFirst ==
  ASSUME NEW place \in Placement, NEW events \in Seq(Event)
  PROVE  Left(place, events, place.height) = Standing(place, 0)
<1>1. place.height \in Nat BY PlacementParts
<1>2. PICK g : /\ Walks(g, place, events, place.height, Len(events))
               /\ Left(place, events, place.height) = g[Len(events)]
  BY <1>1, LeftWalks
<1>3. Len(events) \in Nat /\ \A k \in 1..Len(events) : events[k] \in Event OBVIOUS
<1>4. PICK j \in 0..Len(events) : j = 0 BY <1>3
<1>5. g[Len(events)] = g[j]
  <2>1. \A k \in 1..Len(events) : k > j => Crosses(place, place.height, events[k]) = 0
    BY <1>1, <1>3, NothingIsCrossed
  <2> QED BY <1>2, <1>3, <1>4, <2>1, WalkStands
<1>6. g[0] = Standing(place, 0) BY <1>2, <1>3 DEF Walks, Standing
<1> QED BY <1>2, <1>4, <1>5, <1>6

\* A new event is crossed by nobody yet.
LEMMA LeftWithEvent ==
  ASSUME NEW place \in Placement, NEW events \in Seq(Event), NEW height \in Nat,
         NEW new \in Event, height <= new.height \/ height = place.height
  PROVE  Left(place, Append(events, new), height) = Left(place, events, height)
<1> DEFINE F == Append(events, new)
           n == Len(events)
<1>1. /\ F \in Seq(Event) /\ Len(F) = n + 1 /\ n \in Nat
      /\ \A k \in 1..n : F[k] = events[k]
      /\ F[n + 1] = new
  BY AppendElements
<1>2. PICK g : Walks(g, place, events, height, n) /\ Left(place, events, height) = g[n]
  BY LeftWalks
<1>3. PICK h : Walks(h, place, F, height, n + 1) /\ Left(place, F, height) = h[n + 1]
  <2>1. \E h : Walks(h, place, F, height, Len(F)) /\ Left(place, F, height) = h[Len(F)]
    BY <1>1, LeftWalks
  <2> HIDE DEF F
  <2> QED BY <1>1, <2>1
<1>4. place.height \in Nat BY PlacementParts
<1> HIDE DEF F, n
<1>5. g[n] = h[n]
  <2>1. \A k \in 1..n : k <= n =>
          events[k] = F[k] /\ Crosses(place, height, events[k]) = Crosses(place, height, F[k])
    BY <1>1
  <2>2. n \in Nat /\ n + 1 \in Nat /\ n <= n /\ n <= n + 1 BY <1>1
  <2> QED BY <1>2, <1>3, <2>1, <2>2, WalksAgree
<1>6. h[n + 1] = h[n]
  <2>1. Crosses(place, height, F[n + 1]) = 0 BY <1>1, <1>4, NothingIsCrossed
  <2>2. \A k \in 1..(n + 1) : k > n => Crosses(place, height, F[k]) = 0 BY <1>1, <2>1
  <2>3. n + 1 \in Nat /\ n \in 0..(n + 1) BY <1>1
  <2> QED BY <1>3, <2>2, <2>3, WalkStands
<1> QED BY <1>2, <1>3, <1>5, <1>6 DEF F

\* Each of the first n events ends before the later ones start.
Ordered(E, n) == \A k, l \in 1..n : k < l => EndOf(E[k]) <= E[l].height

\* A request that stands where an event or the request itself starts, and moves
\* within the event, crosses no other.
LEMMA LeftAfterLevel ==
  ASSUME NEW place \in Placement, NEW E \in Seq(Event), NEW n \in Nat, n = Len(E), Ordered(E, n),
         NEW e \in 1..n, NEW x \in Nat, NEW y \in Nat, x <= y, y <= EndOf(E[e]),
         E[e].height <= x, place.height <= x,
         x = E[e].height \/ x = place.height
  PROVE  Left(place, E, y) = Promise!Exchanged(Left(place, E, x), y - x, E[e])
<1>1. /\ \A k \in 1..n : E[k] \in Event /\ E[k].height \in Nat /\ EndOf(E[k]) \in Nat
      /\ place.height \in Nat
  BY EventParts, PlacementParts
<1>2. PICK g : Walks(g, place, E, x, n) /\ Left(place, E, x) = g[n]
  BY LeftWalks
<1>3. PICK h : Walks(h, place, E, y, n) /\ Left(place, E, y) = h[n]
  BY LeftWalks
<1>4. ASSUME NEW k \in 1..n, k < e
      PROVE  Crosses(place, x, E[k]) = Crosses(place, y, E[k])
  <2>1. EndOf(E[k]) <= x /\ EndOf(E[k]) <= y BY <1>1, <1>4 DEF Ordered
  <2> QED BY <1>1, <2>1, CrossedForGood
<1>5. ASSUME NEW k \in 1..n, k >= e PROVE Crosses(place, x, E[k]) = 0
  <2>1. x <= E[k].height \/ x = place.height
    <3>1. k = e \/ e < k BY <1>5
    <3> QED BY <1>1, <3>1 DEF Ordered
  <2> QED BY <1>1, <2>1, NothingIsCrossed
<1>6. ASSUME NEW k \in 1..n, k > e PROVE Crosses(place, y, E[k]) = 0
  <2>1. y <= E[k].height BY <1>1, <1>6 DEF Ordered
  <2> QED BY <1>1, <2>1, NothingIsCrossed
<1>7. Crosses(place, y, E[e]) = y - x
  <2>1. x = Promise!Greatest(E[e].height, place.height)
    BY <1>1 DEF Promise!Greatest
  <2>2. y - x \in Nat /\ x + (y - x) = y OBVIOUS
  <2>3. place.height \in Nat /\ E[e] \in Event BY <1>1
  <2>4. x + (y - x) <= EndOf(E[e]) BY <2>2
  <2>5. Crosses(place, x + (y - x), E[e]) = y - x
    BY <2>1, <2>2, <2>3, <2>4, PartIsCrossed
  <2> QED BY <2>2, <2>5
<1>8. h[n] = Promise!Exchanged(g[n], y - x, E[e])
  <2>1. Walks(g, place, E, x, n) /\ Walks(h, place, E, y, n) BY <1>2, <1>3
  <2>2. y - x = Crosses(place, y, E[e]) BY <1>7
  <2>3. Differ(place, E, x, y, n, e) BY <1>4, <1>5, <1>6 DEF Differ
  <2> QED BY <2>1, <2>2, <2>3, WalkGoesOn
<1> QED BY <1>2, <1>3, <1>8

\* Exchanging the matching amount is what a level of a claim does.
LEMMA LevelIsExchanged ==
  ASSUME IInv, pc = "match", ~Panics, NEW eth \in Nat
  PROVE  Promise!Exchanged(Standing(params, eth), MatchingAmount, CurrentEvent) =
           Standing(Matched, eth + EthAmount)
<1>1. /\ params.amount \in Nat /\ params.amount > 0
      /\ params.maxRedeemableEth \in Nat
      /\ CurrentEvent.amount \in Nat /\ CurrentEvent.amount # 0
      /\ CurrentEvent.withdrawnEth \in Nat
  BY ParamsParts, CurrentEventParts DEF IInv, TypeOK, InFlight, Panics
<1>2. /\ MatchingAmount \in Nat /\ EthAmount \in Nat
      /\ Matched.amount = params.amount - MatchingAmount
      /\ Matched.maxRedeemableEth = params.maxRedeemableEth - EthAmount
  BY MatchFacts, MatchedParts
<1>3. CASE MatchingAmount = 0
  <2>1. EventEth = 0
    <3>1. (0 * CurrentEvent.withdrawnEth) \div CurrentEvent.amount = 0 BY <1>1
    <3> QED BY <1>3, <3>1 DEF EventEth
  <2>2. MaxRedeemableEthAmount = 0
    <3>1. (0 * params.maxRedeemableEth) \div params.amount = 0 BY <1>1
    <3> QED BY <1>3, <3>1 DEF MaxRedeemableEthAmount
  <2>3. EthAmount = 0 BY <2>1, <2>2 DEF EthAmount, Smaller
  <2>4. Matched.amount = params.amount /\ Matched.maxRedeemableEth = params.maxRedeemableEth
    BY <1>1, <1>2, <1>3, <2>3
  <2>5. eth + EthAmount = eth BY <2>3
  <2> QED BY <1>3, <2>4, <2>5 DEF Standing, Promise!Exchanged
<1>4. CASE MatchingAmount # 0
  <2> DEFINE left == Standing(params, eth)
  <2>1. left.amount = params.amount /\ left.max = params.maxRedeemableEth /\ left.eth = eth
    BY DEF Standing
  <2>2. Promise!Least((MatchingAmount * CurrentEvent.withdrawnEth) \div CurrentEvent.amount,
                      (MatchingAmount * left.max) \div left.amount) = EthAmount
    BY <2>1 DEF Promise!Least, EthAmount, EventEth, MaxRedeemableEthAmount, Smaller
  <2> HIDE DEF left
  <2>3. Promise!Exchanged(left, MatchingAmount, CurrentEvent) =
          [amount |-> left.amount - MatchingAmount, max |-> left.max - EthAmount,
           eth |-> left.eth + EthAmount]
    BY <1>4, <2>2 DEF Promise!Exchanged
  <2>4. Standing(Matched, eth + EthAmount) =
          [amount |-> left.amount - MatchingAmount, max |-> left.max - EthAmount,
           eth |-> left.eth + EthAmount]
    BY <1>2, <2>1 DEF Standing
  <2> QED BY <2>3, <2>4 DEF left
<1> QED BY <1>3, <1>4

\* Being settled depends on the place, the events, the request and its payments.
LEMMA SettledIfSame ==
  ASSUME NEW s, NEW t, NEW r, NEW u, NEW v, IsSettled(s, r, u),
         t.placed[r] = s.placed[r], t.withdrawalEvents = s.withdrawalEvents,
         t.redeemRequests[r].height = s.redeemRequests[r].height,
         t.redeemRequests[r].amount = s.redeemRequests[r].amount,
         t.redeemRequests[r].maxRedeemableEth = s.redeemRequests[r].maxRedeemableEth,
         t.paid[r] + v = s.paid[r] + u
  PROVE  IsSettled(t, r, v)
BY DEF IsSettled, Standing, Requests, Events

\* A request that has not moved is settled.
LEMMA SettledAtFirst ==
  ASSUME NEW s, s.withdrawalEvents \in Seq(Event), NEW r, s.placed[r] \in Placement,
         s.redeemRequests[r].height = s.placed[r].height,
         s.redeemRequests[r].amount = s.placed[r].amount,
         s.redeemRequests[r].maxRedeemableEth = s.placed[r].maxRedeemableEth,
         s.paid[r] = 0
  PROVE  IsSettled(s, r, 0)
<1>1. Left(s.placed[r], s.withdrawalEvents, s.placed[r].height) = Standing(s.placed[r], 0)
  BY NothingIsDueAtFirst
<1>2. s.placed[r].height - s.placed[r].height = 0 /\ s.paid[r] + 0 = 0
  BY PlacementParts
<1> QED BY <1>1, <1>2 DEF IsSettled, Standing, Requests, Events, Promise!MayStand

\* A settled request stays settled when an event is pushed.
LEMMA SettledWithEvent ==
  ASSUME NEW s, Sound(s), NEW t, NEW new \in Event, new.height = EndOfLast(Events(s)),
         t.withdrawalEvents = Append(s.withdrawalEvents, new),
         t.placed = s.placed, t.redeemRequests = s.redeemRequests, t.paid = s.paid,
         NEW r \in 1..Len(s.placed), NEW u, IsSettled(s, r, u)
  PROVE  IsSettled(t, r, u)
<1> DEFINE E == s.withdrawalEvents
           F == Append(E, new)
           n == Len(E)
           place == s.placed[r]
           height == s.redeemRequests[r].height
           done == height - place.height
<1>1. /\ s \in Storage /\ E \in Seq(Event) /\ n \in Nat /\ place \in Placement
      /\ place.height \in Nat /\ height \in Nat /\ EndOfLast(E) \in Nat
  <2>1. s \in Storage /\ Len(s.placed) = Len(s.redeemRequests)
    BY DEF Sound, QueueIsContiguous, Requests
  <2> QED BY <2>1, StorageParts, SequenceParts, EndsAreNat DEF Events
<1>2. /\ F \in Seq(Event) /\ Len(F) = n + 1 /\ F # <<>> /\ DOMAIN E = 1..n
      /\ \A k \in 1..n : F[k] = E[k]
      /\ F[n + 1] = new /\ DOMAIN F = 1..(n + 1)
  <2>1. E \in Seq(Event) BY <1>1
  <2> HIDE DEF E
  <2> QED BY <2>1, AppendElements
<1>3. /\ EndOfLast(F) = EndOf(new) /\ EndOfLast(E) <= EndOf(new)
  <2>1. EndOf(new) = new.height + new.amount /\ new.amount \in Nat /\ new.height \in Nat
    BY EventParts DEF EndOf
  <2>2. EndOfLast(F) = EndOf(new) BY <1>2 DEF EndOfLast
  <2> QED BY <1>1, <2>1, <2>2 DEF Events
<1>4. Promise!MayStand(place, E, done)
  BY DEF IsSettled, Requests, Events
<1> HIDE DEF E, F, n, place, height
<1>5. done = 0 \/ height <= EndOfLast(E)
  <2>1. place.height + done = height BY <1>1
  <2> QED BY <1>4, <2>1
       DEF Promise!MayStand, Promise!EndOfLast, Promise!EndOf, EndOfLast, EndOf
<1>6. Promise!MayStand(place, F, done)
  <2>1. place.height + done = height BY <1>1
  <2>2. CASE done = 0 BY <2>2 DEF Promise!MayStand
  <2>3. CASE done # 0
    <3>1. height <= Promise!EndOfLast(F)
      <4>1. EndOf(new) \in Nat BY EventParts
      <4>2. height <= EndOfLast(F) BY <1>1, <1>3, <1>5, <2>3, <4>1
      <4> QED BY <4>2 DEF Promise!EndOfLast, Promise!EndOf, EndOfLast, EndOf
    <3>2. done = place.amount \/ \E k \in DOMAIN F : height = Promise!EndOf(F[k])
      <4>1. done = place.amount \/ \E k \in DOMAIN E : height = Promise!EndOf(E[k])
        BY <1>4, <2>1, <2>3 DEF Promise!MayStand
      <4>2. \A k \in DOMAIN E : k \in DOMAIN F /\ F[k] = E[k] BY <1>1, <1>2
      <4> QED BY <4>1, <4>2
    <3> HIDE DEF done
    <3> QED BY <2>1, <3>1, <3>2 DEF Promise!MayStand
  <2> QED BY <2>2, <2>3
<1>7. Left(place, F, height) = Left(place, E, height)
  <2>1. height <= new.height \/ height = place.height
    BY <1>1, <1>5 DEF E, Events
  <2> QED BY <1>1, <2>1, LeftWithEvent DEF F
<1>8. Left(place, E, height) = Standing(s.redeemRequests[r], s.paid[r] + u)
  BY DEF IsSettled, Requests, Events, E, place, height
<1> QED
  BY <1>6, <1>7, <1>8 DEF IsSettled, Requests, Events, E, F, place, height

-----------------------------------------------------------------------------
(* What a transaction does to queue and stack                               *)

Begins(s, t) == Len(s) <= Len(t) /\ \A i \in 1..Len(s) : s[i] = t[i]

\* Requests and events are added, and requests advance.
Grows(s, t) ==
  /\ Begins(s.placed, t.placed)
  /\ Begins(s.withdrawalEvents, t.withdrawalEvents)
  /\ \A r \in 1..Len(s.placed) : s.redeemRequests[r].height <= t.redeemRequests[r].height

LEMMA GrowsTyped ==
  ASSUME NEW s, Sound(s)
  PROVE  /\ Len(s.placed) \in Nat /\ Len(s.withdrawalEvents) \in Nat
         /\ Len(s.redeemRequests) = Len(s.placed) /\ Len(s.paid) = Len(s.placed)
         /\ \A r \in 1..Len(s.placed) : s.redeemRequests[r].height \in Nat
         /\ \A r \in 1..Len(s.placed) : s.paid[r] \in Nat /\ s.placed[r] \in Placement
<1>1. s \in Storage /\ Len(s.placed) = Len(s.redeemRequests) /\ Len(s.paid) = Len(s.placed)
  BY DEF Sound, QueueIsContiguous, Requests
<1>2. s.paid \in Seq(Nat) BY <1>1, StorageParts
<1>3. \A r \in 1..Len(s.placed) : s.paid[r] \in Nat BY <1>1, <1>2
<1> QED BY <1>1, <1>3, SequenceParts

LEMMA GrowsIsReflexive ==
  ASSUME NEW s, Sound(s)
  PROVE  Grows(s, s)
BY GrowsTyped DEF Grows, Begins

LEMMA GrowsIsTransitive ==
  ASSUME NEW s, NEW t, NEW u, Sound(s), Sound(t), Sound(u), Grows(s, t), Grows(t, u)
  PROVE  Grows(s, u)
<1>1. /\ \A x \in {s, t, u} : /\ Len(x.placed) \in Nat /\ Len(x.withdrawalEvents) \in Nat
                              /\ \A r \in 1..Len(x.placed) : x.redeemRequests[r].height \in Nat
  BY GrowsTyped
<1>2. Begins(s.placed, u.placed) BY <1>1 DEF Grows, Begins
<1>3. Begins(s.withdrawalEvents, u.withdrawalEvents) BY <1>1 DEF Grows, Begins
<1>4. ASSUME NEW r \in 1..Len(s.placed)
      PROVE  s.redeemRequests[r].height <= u.redeemRequests[r].height
  <2>1. r \in 1..Len(t.placed) /\ r \in 1..Len(u.placed) BY <1>1 DEF Grows, Begins
  <2>2. /\ s.redeemRequests[r].height <= t.redeemRequests[r].height
        /\ t.redeemRequests[r].height <= u.redeemRequests[r].height
    BY <2>1 DEF Grows
  <2>3. /\ s.redeemRequests[r].height \in Nat /\ t.redeemRequests[r].height \in Nat
        /\ u.redeemRequests[r].height \in Nat
    BY <1>1, <2>1
  <2> QED BY <2>2, <2>3
<1> QED BY <1>2, <1>3, <1>4 DEF Grows

\* Every request stands as promised, and has been paid what is due there.
AllSettled(s) == \A r \in 1..Len(s.placed) : IsSettled(s, r, 0)

\* What requestRedeem pushes is settled...
LEMMA RequestIsSettled ==
  ASSUME NEW s, Sound(s), NEW t, Sound(t), AllSettled(s),
         NEW q \in Request, NEW p \in Placement,
         q.height = p.height, q.amount = p.amount, q.maxRedeemableEth = p.maxRedeemableEth,
         t.redeemRequests = Append(s.redeemRequests, q),
         t.placed = Append(s.placed, p), t.paid = Append(s.paid, 0),
         t.withdrawalEvents = s.withdrawalEvents
  PROVE  AllSettled(t) /\ Grows(s, t)
<1> DEFINE n == Len(s.placed)
<1>1. s \in Storage /\ s.redeemRequests \in Seq(Request) /\ s.placed \in Seq(Placement)
      /\ s.paid \in Seq(Nat) /\ s.withdrawalEvents \in Seq(Event)
  BY StorageParts DEF Sound
<1>2. /\ n \in Nat /\ Len(s.redeemRequests) = n /\ Len(s.paid) = n
      /\ Len(s.withdrawalEvents) \in Nat
      /\ \A r \in 1..n : s.redeemRequests[r].height \in Nat
  BY GrowsTyped
<1>3. /\ Len(t.placed) = n + 1 /\ t.placed[n + 1] = p
      /\ \A r \in 1..n : t.placed[r] = s.placed[r]
  BY <1>1, AppendElements
<1>4. /\ t.redeemRequests[n + 1] = q
      /\ \A r \in 1..n : t.redeemRequests[r] = s.redeemRequests[r]
  BY <1>1, <1>2, AppendElements
<1>5. /\ t.paid[n + 1] = 0
      /\ \A r \in 1..n : t.paid[r] = s.paid[r]
  BY <1>1, <1>2, AppendElements
<1> HIDE DEF n
<1>6. Grows(s, t)
  BY <1>2, <1>3, <1>4 DEF Grows, Begins, n
<1>7. ASSUME NEW r \in 1..Len(t.placed) PROVE IsSettled(t, r, 0)
  <2>1. r \in 1..n \/ r = n + 1 BY <1>2, <1>3
  <2>2. CASE r \in 1..n
    <3>1. IsSettled(s, r, 0) BY <2>2 DEF AllSettled, n
    <3> QED BY <1>3, <1>4, <1>5, <2>2, <3>1, SettledIfSame
  <2>3. CASE r = n + 1
    BY <1>1, <1>3, <1>4, <1>5, <2>3, SettledAtFirst
  <2> QED BY <2>1, <2>2, <2>3
<1> QED BY <1>6, <1>7 DEF AllSettled

\* ...and what reportWithdraw pushes unsettles nobody.
LEMMA EventIsSettled ==
  ASSUME NEW s, Sound(s), NEW t, Sound(t), AllSettled(s),
         NEW new \in Event, new.height = EndOfLast(Events(s)),
         t.withdrawalEvents = Append(s.withdrawalEvents, new),
         t.placed = s.placed, t.redeemRequests = s.redeemRequests, t.paid = s.paid
  PROVE  AllSettled(t) /\ Grows(s, t)
<1>1. AllSettled(t)
  BY SettledWithEvent DEF AllSettled
<1>2. /\ Len(t.withdrawalEvents) = Len(s.withdrawalEvents) + 1
      /\ \A k \in 1..Len(s.withdrawalEvents) :
           t.withdrawalEvents[k] = s.withdrawalEvents[k]
  <2>1. s.withdrawalEvents \in Seq(Event) BY StorageParts DEF Sound
  <2> QED BY <2>1, AppendElements
<1>3. Grows(s, t)
  BY <1>2, GrowsTyped DEF Grows, Begins
<1> QED BY <1>1, <1>3

-----------------------------------------------------------------------------
(* What a request was paid is what RedeemQueue says it is due               *)

\* The payment of a request under way.
Payment(r) == IF pc = "pay" /\ r = params.redeemRequestId THEN params.ethAmount ELSE 0

\* A request matched in memory stands where an event or the request itself starts.
ClaimIsDue ==
  pc = "match" =>
    LET place == storage.placed[params.redeemRequestId] IN
    /\ params.height = CurrentEvent.height \/ params.height = place.height
    /\ Left(place, Events(storage), params.height) =
         Standing(params, storage.paid[params.redeemRequestId] + params.ethAmount)

DuesArePaid ==
  /\ AllSettled(txStart)
  /\ \A r \in 1..Len(storage.placed) : IsSettled(storage, r, Payment(r))
  /\ ClaimIsDue
  /\ pc # "idle" => Grows(txStart, storage)

LEMMA DuesPrimed ==
  ASSUME AllSettled(txStart'), ClaimIsDue',
         \A r \in 1..Len(storage'.placed) : IsSettled(storage', r, Payment(r)'),
         pc' # "idle" => Grows(txStart', storage')
  PROVE  DuesArePaid'
<1>1. AllSettled(txStart)' <=> AllSettled(txStart')
  BY DEF AllSettled, IsSettled, Left, Requests, Events
<1>2. (\A r \in 1..Len(storage.placed) : IsSettled(storage, r, Payment(r)))' <=>
      \A r \in 1..Len(storage'.placed) : IsSettled(storage', r, Payment(r)')
  BY DEF IsSettled, Left, Requests, Events
<1>3. Grows(txStart, storage)' <=> Grows(txStart', storage')
  BY DEF Grows, Begins
<1> QED BY <1>1, <1>2, <1>3 DEF DuesArePaid

LEMMA SoundPrimed ==
  ASSUME IInv'
  PROVE  Sound(storage') /\ Sound(txStart')
<1>1. Sound(storage)' /\ Sound(txStart)' BY DEF IInv
<1> QED BY <1>1 DEF Sound, StackIsContiguous, StackIsInOrder, QueueIsContiguous,
                    DemandIsUncovered, ClaimsAreCovered, Requests, Events

LEMMA StorageIsSettled ==
  ASSUME DuesArePaid, pc # "pay"
  PROVE  AllSettled(storage)
<1>1. \A r \in 1..Len(storage.placed) : Payment(r) = 0 BY DEF Payment
<1> QED BY <1>1 DEF DuesArePaid, AllSettled

\* Operations called between transactions, or from a recipient's code.
LEMMA EnteredKeepsDues ==
  ASSUME IInv, IInv', DuesArePaid, Entered, UNCHANGED <<pc, txStart>>,
         AllSettled(storage'), Grows(storage, storage')
  PROVE  DuesArePaid' /\ Grows(Committed, Committed')
<1>1. Sound(storage) /\ Sound(txStart) /\ Sound(storage')
  BY SoundPrimed DEF IInv
<1>2. pc' # "pay" /\ pc' # "match" BY DEF Entered
<1>3. \A r \in 1..Len(storage'.placed) : IsSettled(storage', r, Payment(r)')
  <2>1. \A r \in 1..Len(storage'.placed) : Payment(r)' = 0 BY <1>2 DEF Payment
  <2> QED BY <2>1 DEF AllSettled
<1>4. pc # "idle" => Grows(txStart, storage')
  BY <1>1, GrowsIsTransitive DEF DuesArePaid
<1>5. DuesArePaid'
  BY <1>2, <1>3, <1>4, DuesPrimed DEF DuesArePaid, ClaimIsDue
<1>6. Grows(Committed, Committed')
  BY <1>1, GrowsIsReflexive DEF Committed, InClaim
<1> QED BY <1>5, <1>6

\* The end of a claim, completed or reverted.
LEMMA ReturnKeepsDues ==
  ASSUME Return, AllSettled(storage'), Grows(Committed, storage')
  PROVE  DuesArePaid' /\ Grows(Committed, Committed')
<1>1. pc' = "idle" /\ txStart' = EmptyStorage BY DEF Return
<1>2. AllSettled(txStart') BY <1>1 DEF AllSettled, EmptyStorage
<1>3. \A r \in 1..Len(storage'.placed) : IsSettled(storage', r, Payment(r)')
  <2>1. \A r \in 1..Len(storage'.placed) : Payment(r)' = 0 BY <1>1 DEF Payment
  <2> QED BY <2>1 DEF AllSettled
<1>4. Committed' = storage' BY <1>1 DEF Committed, InClaim
<1> QED BY <1>1, <1>2, <1>3, <1>4, DuesPrimed DEF ClaimIsDue

LEMMA RevertKeepsDues ==
  ASSUME IInv, DuesArePaid, Revert, pc # "idle"
  PROVE  DuesArePaid' /\ Grows(Committed, Committed')
<1>1. Return /\ storage' = txStart BY DEF Revert
<1>2. Committed = txStart /\ Sound(txStart) BY DEF Committed, InClaim, IInv
<1>3. Grows(Committed, storage') BY <1>1, <1>2, GrowsIsReflexive
<1>4. AllSettled(storage') BY <1>1 DEF DuesArePaid
<1> QED BY <1>1, <1>3, <1>4, ReturnKeepsDues

LEMMA EndKeepsDues ==
  ASSUME IInv, DuesArePaid, EndClaim
  PROVE  DuesArePaid' /\ Grows(Committed, Committed')
<1>1. Return /\ storage' = storage /\ pc = "loop" BY DEF EndClaim
<1>2. AllSettled(storage') BY <1>1, StorageIsSettled
<1>3. Grows(Committed, storage') BY <1>1 DEF DuesArePaid, Committed, InClaim
<1> QED BY <1>1, <1>2, <1>3, ReturnKeepsDues

\* Steps within a transaction.
LEMMA InsideKeepsCommitted ==
  ASSUME IInv, pc # "idle", pc' # "idle", txStart' = txStart
  PROVE  Grows(Committed, Committed')
<1>1. Committed = txStart /\ Committed' = txStart BY DEF Committed, InClaim
<1>2. Sound(txStart) BY DEF IInv
<1> QED BY <1>1, <1>2, GrowsIsReflexive

LEMMA StartKeepsDues ==
  ASSUME IInv, DuesArePaid, NEW n \in 0..MaxBatch, NEW skip \in BOOLEAN, NEW d \in Depth,
         ClaimRedeemRequests(n, skip, d)
  PROVE  DuesArePaid' /\ Grows(Committed, Committed')
<1>1. pc = "idle" /\ pc' = "loop" /\ storage' = storage /\ txStart' = storage
  BY DEF ClaimRedeemRequests
<1>2. AllSettled(storage) BY <1>1, StorageIsSettled
<1>3. Grows(storage, storage) BY GrowsIsReflexive DEF IInv
<1>4. \A r \in 1..Len(storage'.placed) : IsSettled(storage', r, Payment(r)')
  <2>1. \A r \in 1..Len(storage'.placed) : Payment(r)' = 0 BY <1>1 DEF Payment
  <2> QED BY <1>1, <1>2, <2>1 DEF AllSettled
<1>5. Committed = storage /\ Committed' = storage BY <1>1 DEF Committed, InClaim
<1> QED BY <1>1, <1>2, <1>3, <1>4, <1>5, DuesPrimed DEF ClaimIsDue

LEMMA ReadingKeepsDues ==
  ASSUME IInv, DuesArePaid, UNCHANGED <<storage, txStart>>,
         pc \in {"loop", "callback"}, pc' = "loop"
  PROVE  DuesArePaid' /\ Grows(Committed, Committed')
<1>1. AllSettled(storage) BY StorageIsSettled
<1>2. \A r \in 1..Len(storage'.placed) : IsSettled(storage', r, Payment(r)')
  <2>1. \A r \in 1..Len(storage'.placed) : Payment(r)' = 0 BY DEF Payment
  <2> QED BY <1>1, <2>1 DEF AllSettled
<1>3. Grows(txStart', storage') /\ AllSettled(txStart') BY DEF DuesArePaid
<1>4. ClaimIsDue' BY DEF ClaimIsDue
<1> QED BY <1>2, <1>3, <1>4, DuesPrimed, InsideKeepsCommitted

\* A request is loaded where an event or the request itself starts.
LEMMA LoadedAtStart ==
  ASSUME NEW s, Sound(s), NEW r \in 1..Len(s.placed), NEW e \in 1..Len(s.withdrawalEvents),
         s.redeemRequests[r].amount > 0,
         IsMatch(s.redeemRequests[r], s.withdrawalEvents[e]), IsSettled(s, r, 0)
  PROVE  \/ s.redeemRequests[r].height = s.withdrawalEvents[e].height
         \/ s.redeemRequests[r].height = s.placed[r].height
<1> DEFINE request == s.redeemRequests[r]
           place == s.placed[r]
           E == s.withdrawalEvents
           done == request.height - place.height
<1>1. /\ s \in Storage /\ Len(s.redeemRequests) = Len(s.placed)
      /\ EndOf(request) = EndOf(place)
      /\ \A k, l \in DOMAIN E : k < l => EndOf(E[k]) <= E[l].height
  BY DEF Sound, QueueIsContiguous, StackIsInOrder, Requests, Events
<1>2. /\ request.height \in Nat /\ request.amount \in Nat
      /\ place.height \in Nat /\ place.amount \in Nat
      /\ DOMAIN E = 1..Len(E) /\ Len(E) \in Nat
      /\ \A k \in 1..Len(E) : EndOf(E[k]) \in Nat /\ E[k].height \in Nat
  BY <1>1, SequenceParts
<1>3. Promise!MayStand(place, E, done) BY DEF IsSettled, Requests, Events
<1>4. E[e].height <= request.height /\ request.height < EndOf(E[e]) BY DEF IsMatch
<1>5. request.amount > 0 OBVIOUS
<1> HIDE DEF request, place, E
<1>6. place.height + done = request.height BY <1>2
<1>7. CASE done = 0 BY <1>2, <1>7 DEF request, place
<1>8. CASE done # 0
  <2>1. done # place.amount
    <3>1. request.height + request.amount = place.height + place.amount
      BY <1>1 DEF EndOf
    <3> QED BY <1>2, <1>5, <3>1
  <2>2. PICK k \in 1..Len(E) : request.height = EndOf(E[k])
    <3> HIDE DEF done
    <3> QED BY <1>2, <1>3, <1>6, <1>8, <2>1 DEF Promise!MayStand, Promise!EndOf, EndOf
  <2>3. e \in 1..Len(E) BY DEF E
  <2>4. k < e
    <3>1. k # e BY <1>2, <1>4, <2>2
    <3>2. ~(e < k)
      <4> SUFFICES ASSUME e < k PROVE FALSE OBVIOUS
      <4>1. EndOf(E[e]) <= E[k].height BY <1>1, <1>2, <2>3
      <4>2. E[k].height <= EndOf(E[k])
        <5>1. s \in Storage /\ k \in 1..Len(s.withdrawalEvents) BY <1>1 DEF E
        <5>2. E[k].amount \in Nat BY <5>1, SequenceParts DEF E
        <5> QED BY <1>2, <5>2 DEF EndOf
      <4> QED BY <1>2, <1>4, <2>2, <2>3, <4>1, <4>2
    <3> QED BY <2>3, <3>1, <3>2
  <2>5. EndOf(E[k]) <= E[e].height BY <1>1, <1>2, <2>3, <2>4
  <2>6. request.height = E[e].height BY <1>2, <1>4, <2>2, <2>3, <2>5
  <2> QED BY <2>6 DEF request, E
<1> QED BY <1>7, <1>8

LEMMA LoadKeepsDues ==
  ASSUME IInv, DuesArePaid, NEW r \in 1..(MaxRequests + 1),
         NEW e \in 1..(MaxWithdrawalEvents + 1), LoadItem(r, e)
  PROVE  DuesArePaid' /\ Grows(Committed, Committed')
<1> DEFINE request == storage.redeemRequests[r]
<1>1. /\ pc = "loop" /\ pc' = "match" /\ storage' = storage /\ txStart' = txStart
      /\ params'.redeemRequestId = r /\ params'.withdrawalEventId = e
      /\ params'.height = request.height /\ params'.amount = request.amount
      /\ params'.maxRedeemableEth = request.maxRedeemableEth
      /\ params'.ethAmount = 0
      /\ r <= call.redeemRequestCount /\ e <= call.withdrawalEventCount
      /\ request.amount > 0 /\ IsMatch(request, storage.withdrawalEvents[e])
  BY DEF LoadItem, Claimable, InBounds
<1>2. Sound(storage) /\ Len(storage.placed) = Len(storage.redeemRequests)
      /\ storage \in Storage
  BY DEF IInv, Sound, QueueIsContiguous, Requests
<1>3. r \in 1..Len(storage.placed) /\ e \in 1..Len(storage.withdrawalEvents)
  <2>1. /\ call.redeemRequestCount <= Len(storage.redeemRequests)
        /\ call.withdrawalEventCount <= Len(storage.withdrawalEvents)
        /\ call.redeemRequestCount \in Nat /\ Len(storage.redeemRequests) \in Nat
        /\ call.withdrawalEventCount \in Nat /\ Len(storage.withdrawalEvents) \in Nat
    BY <1>1, <1>2, SequenceParts DEF IInv, InFlight, TypeOK, Call
  <2> QED BY <1>1, <1>2, <2>1, RedeemAssumption
<1>4. AllSettled(storage) /\ IsSettled(storage, r, 0)
  <2>1. AllSettled(storage) BY <1>1, StorageIsSettled
  <2> QED BY <1>3, <2>1 DEF AllSettled
<1>5. \/ request.height = storage.withdrawalEvents[e].height
      \/ request.height = storage.placed[r].height
  BY <1>1, <1>2, <1>3, <1>4, LoadedAtStart
<1>6. Left(storage.placed[r], Events(storage), request.height) =
        Standing(request, storage.paid[r] + 0)
  BY <1>4 DEF IsSettled, Requests
<1> HIDE DEF request
<1>7. ClaimIsDue'
  <2>1. params'.height = CurrentEvent'.height \/ params'.height = storage.placed[r].height
    BY <1>1, <1>5 DEF CurrentEvent
  <2>2. Standing(params', storage.paid[r] + 0) = Standing(request, storage.paid[r] + 0)
    BY <1>1 DEF Standing
  <2>3. Left(storage.placed[r], Events(storage), params'.height) =
          Standing(params', storage.paid[r] + 0)
    BY <1>1, <1>6, <2>2
  <2>4. /\ Left(storage.placed[params.redeemRequestId], Events(storage), params.height)' =
             Left(storage.placed[r], Events(storage), params'.height)
        /\ Standing(params, storage.paid[params.redeemRequestId] + params.ethAmount)' =
             Standing(params', storage.paid[r] + 0)
    BY <1>1 DEF Left, Standing, Events
  <2> QED BY <1>1, <2>1, <2>3, <2>4 DEF ClaimIsDue
<1>8. \A q \in 1..Len(storage'.placed) : IsSettled(storage', q, Payment(q)')
  <2>1. \A q \in 1..Len(storage'.placed) : Payment(q)' = 0 BY <1>1 DEF Payment
  <2> QED BY <1>1, <1>4, <2>1 DEF AllSettled
<1>9. Grows(txStart', storage') /\ AllSettled(txStart') BY <1>1 DEF DuesArePaid
<1> QED BY <1>1, <1>7, <1>8, <1>9, DuesPrimed, InsideKeepsCommitted

\* The same, of a request and an event of the storage.
LEMMA LeftInStorage ==
  ASSUME NEW s, Sound(s), NEW r \in 1..Len(s.placed), NEW e \in 1..Len(s.withdrawalEvents),
         NEW x \in Nat, NEW y \in Nat, x <= y, y <= EndOf(s.withdrawalEvents[e]),
         s.withdrawalEvents[e].height <= x, s.placed[r].height <= x,
         x = s.withdrawalEvents[e].height \/ x = s.placed[r].height
  PROVE  Left(s.placed[r], Events(s), y) =
           Promise!Exchanged(Left(s.placed[r], Events(s), x), y - x, s.withdrawalEvents[e])
<1>1. /\ s \in Storage
      /\ \A k, l \in DOMAIN Events(s) :
           k < l => EndOf(Events(s)[k]) <= Events(s)[l].height
  BY DEF Sound, StackIsInOrder
<1>2. s.withdrawalEvents \in Seq(Event) /\ s.placed[r] \in Placement
  BY <1>1, StorageParts, SequenceParts
<1>3. Len(s.withdrawalEvents) \in Nat /\ DOMAIN s.withdrawalEvents = 1..Len(s.withdrawalEvents)
  BY <1>1, SequenceParts
<1>4. PICK E \in Seq(Event), n \in Nat, place \in Placement :
        E = s.withdrawalEvents /\ n = Len(E) /\ place = s.placed[r]
  BY <1>2, <1>3
<1>5. Ordered(E, n)
  BY <1>1, <1>3, <1>4 DEF Ordered, Events
<1>6. /\ n = Len(E) /\ e \in 1..n /\ y <= EndOf(E[e])
      /\ E[e].height <= x /\ place.height <= x
      /\ x = E[e].height \/ x = place.height
  BY <1>4
<1>7. Left(place, E, y) = Promise!Exchanged(Left(place, E, x), y - x, E[e])
  BY <1>5, <1>6, LeftAfterLevel
<1> QED BY <1>4, <1>7 DEF Events

\* A level of a claim pays what the promise says the matched part is due.
LEMMA LevelIsDue ==
  ASSUME IInv, DuesArePaid, pc = "match", ~Panics
  PROVE  LET id == params.redeemRequestId
             place == storage.placed[id]
         IN  /\ id \in 1..Len(storage.placed)
             /\ storage.paid[id] \in Nat
             /\ place \in Placement
             /\ place.height <= Matched.height
             /\ Matched.height <= EndOf(CurrentEvent)
             /\ Matched.height \in Nat
             /\ Left(place, Events(storage), Matched.height) =
                  Standing(Matched, storage.paid[id] + Matched.ethAmount)
<1> DEFINE id == params.redeemRequestId
           place == storage.placed[id]
           E == Events(storage)
           e == params.withdrawalEventId
           x == params.height
           y == Matched.height
<1>1. /\ storage \in Storage /\ Sound(storage) /\ params \in Params
      /\ id \in 1..Len(storage.redeemRequests)
      /\ Len(storage.placed) = Len(storage.redeemRequests)
  BY DEF IInv, TypeOK, InFlight, Sound, QueueIsContiguous, Requests
<1>2. /\ id \in 1..Len(storage.placed) /\ storage.paid[id] \in Nat /\ place \in Placement
      /\ place.height \in Nat
  BY <1>1, GrowsTyped, PlacementParts
<1>3. place.height <= x
  <2>1. /\ place.height <= storage.redeemRequests[id].height
        /\ storage.redeemRequests[id].height <= x
    <3>1. DOMAIN storage.redeemRequests = 1..Len(storage.redeemRequests)
      BY <1>1, SequenceParts
    <3> QED BY <1>1, <3>1 DEF IInv, InFlight, Sound, QueueIsContiguous, Requests
  <2>2. storage.redeemRequests[id].height \in Nat /\ x \in Nat
    BY <1>1, SequenceParts, ParamsParts
  <2> QED BY <1>2, <2>1, <2>2
<1>4. /\ MatchingAmount \in Nat /\ EthAmount \in Nat /\ x + MatchingAmount <= EndOf(CurrentEvent)
      /\ y = x + MatchingAmount
      /\ Matched.ethAmount = params.ethAmount + EthAmount
      /\ params.ethAmount \in Nat /\ x \in Nat
  BY <1>1, MatchFacts, MatchedParts, ParamsParts
<1>5. /\ e \in 1..Len(storage.withdrawalEvents) /\ CurrentEvent = storage.withdrawalEvents[e]
      /\ storage.withdrawalEvents[e].height <= x
  BY CurrentEventParts DEF CurrentEvent
<1>6. /\ x = storage.withdrawalEvents[e].height \/ x = place.height
      /\ Left(place, E, x) = Standing(params, storage.paid[id] + params.ethAmount)
  BY <1>5 DEF DuesArePaid, ClaimIsDue
<1>7. Promise!Exchanged(Left(place, E, x), MatchingAmount, CurrentEvent) =
        Standing(Matched, storage.paid[id] + params.ethAmount + EthAmount)
  <2>1. storage.paid[id] + params.ethAmount \in Nat BY <1>2, <1>4
  <2> QED BY <1>6, <2>1, LevelIsExchanged
<1>8. x <= y /\ y \in Nat /\ y <= EndOf(storage.withdrawalEvents[e]) BY <1>4, <1>5
<1>9. Left(place, E, y) = Promise!Exchanged(Left(place, E, x), y - x, CurrentEvent)
  <2>1. Sound(storage) BY <1>1
  <2>2. id \in 1..Len(storage.placed) BY <1>2
  <2>3. x \in Nat BY <1>4
  <2>4. storage.placed[id].height <= x BY <1>3
  <2>5. x = storage.withdrawalEvents[e].height \/ x = storage.placed[id].height BY <1>6
  <2>6. Left(storage.placed[id], Events(storage), y) =
          Promise!Exchanged(Left(storage.placed[id], Events(storage), x), y - x,
                            storage.withdrawalEvents[e])
    <3> HIDE DEF id, e, x, y
    <3> QED BY <1>5, <1>8, <2>1, <2>2, <2>3, <2>4, <2>5, LeftInStorage
  <2> QED BY <1>5, <2>6
<1> HIDE DEF id, place, E, e, x, y
<1>10. y - x = MatchingAmount
       /\ storage.paid[id] + params.ethAmount + EthAmount = storage.paid[id] + Matched.ethAmount
  BY <1>2, <1>4
<1>11. Left(place, E, y) = Standing(Matched, storage.paid[id] + Matched.ethAmount)
  BY <1>7, <1>9, <1>10
<1>12. place.height <= y /\ y <= EndOf(CurrentEvent) /\ y \in Nat
  BY <1>2, <1>3, <1>4
<1> QED BY <1>2, <1>11, <1>12 DEF id, place, E, y

LEMMA DescendKeepsDues ==
  ASSUME IInv, DuesArePaid, MatchAndDescend
  PROVE  DuesArePaid' /\ Grows(Committed, Committed')
<1> DEFINE id == params.redeemRequestId
           e == params.withdrawalEventId
           place == storage.placed[id]
<1>1. /\ pc = "match" /\ pc' = "match" /\ ~Panics /\ Descends /\ txStart' = txStart
      /\ params' = [Matched EXCEPT !.withdrawalEventId = Matched.withdrawalEventId + 1,
                                   !.depth = Matched.depth - 1]
  BY DEF MatchAndDescend
<1>2. /\ storage'.redeemRequests = storage.redeemRequests
      /\ storage'.withdrawalEvents = storage.withdrawalEvents
      /\ storage'.placed = storage.placed
      /\ storage'.paid = storage.paid
  BY DescendEffect
<1>3. /\ params'.redeemRequestId = id /\ params'.withdrawalEventId = e + 1
      /\ params'.height = Matched.height /\ params'.amount = Matched.amount
      /\ params'.maxRedeemableEth = Matched.maxRedeemableEth
      /\ params'.ethAmount = Matched.ethAmount
  <2>1. Matched \in Params /\ Matched.redeemRequestId = id /\ Matched.withdrawalEventId = e
    BY <1>1, MatchedParts
  <2> QED BY <1>1, <2>1 DEF Params
<1>4. CurrentEvent' = storage.withdrawalEvents[e + 1] /\ CurrentEvent = storage.withdrawalEvents[e]
  BY <1>2, <1>3 DEF CurrentEvent
<1>5. CurrentEvent'.height = EndOf(CurrentEvent)
  <2>1. /\ e \in 1..Len(storage.withdrawalEvents) /\ e + 1 <= call.withdrawalEventCount
        /\ call.withdrawalEventCount <= Len(storage.withdrawalEvents)
        /\ call.withdrawalEventCount \in Nat /\ Len(storage.withdrawalEvents) \in Nat
        /\ DOMAIN storage.withdrawalEvents = 1..Len(storage.withdrawalEvents)
    BY <1>1, CurrentEventParts, SequenceParts DEF IInv, InFlight, Descends, Sound
  <2>2. e + 1 \in DOMAIN Events(storage) /\ e + 1 # 1 /\ (e + 1) - 1 = e
    BY <2>1 DEF Events
  <2>3. StackIsContiguous(storage) BY DEF IInv, Sound
  <2>4. storage.withdrawalEvents[e + 1].height = EndOf(storage.withdrawalEvents[(e + 1) - 1])
    BY <2>2, <2>3 DEF StackIsContiguous, Events
  <2> QED BY <1>4, <2>2, <2>4
<1>6. Matched.height = EndOf(CurrentEvent)
  <2>1. params.amount \in Nat /\ MatchingAmount \in Nat /\ params.amount - MatchingAmount > 0
    BY <1>1, MatchFacts, ParamsParts DEF Descends, IInv, TypeOK
  <2>2. MatchingAmount < params.amount BY <2>1
  <2> QED BY <1>1, <2>2, MatchFacts, MatchedParts
<1>7. Left(place, Events(storage), Matched.height) =
        Standing(Matched, storage.paid[id] + Matched.ethAmount)
  BY <1>1, LevelIsDue
<1>8. ClaimIsDue'
  <2>1. Left(storage.placed[params.redeemRequestId], Events(storage), params.height)' =
          Left(place, Events(storage), Matched.height)
    BY <1>2, <1>3 DEF Left, Events
  <2>2. Standing(params, storage.paid[params.redeemRequestId] + params.ethAmount)' =
          Standing(Matched, storage.paid[id] + Matched.ethAmount)
    BY <1>2, <1>3 DEF Standing
  <2>3. params'.height = CurrentEvent'.height BY <1>3, <1>5, <1>6
  <2> QED BY <1>7, <2>1, <2>2, <2>3 DEF ClaimIsDue
<1>9. \A r \in 1..Len(storage'.placed) : IsSettled(storage', r, Payment(r)')
  <2>1. \A r : Payment(r)' = Payment(r) BY <1>1 DEF Payment
  <2> QED BY <1>2, <2>1, SettledIfSame DEF DuesArePaid
<1>10. Grows(txStart', storage')
  BY <1>1, <1>2 DEF DuesArePaid, Grows
<1>11. AllSettled(txStart') BY <1>1 DEF DuesArePaid
<1> QED BY <1>1, <1>8, <1>9, <1>10, <1>11, DuesPrimed, InsideKeepsCommitted

\* A request is saved at the end of an event or at its own end.
LEMMA SavedMayStand ==
  ASSUME IInv, MatchAndSave
  PROVE  LET place == storage.placed[params.redeemRequestId]
         IN  Promise!MayStand(place, Events(storage), Matched.height - place.height)
<1> DEFINE id == params.redeemRequestId
           place == storage.placed[id]
           E == storage.withdrawalEvents
           y == Matched.height
           done == y - place.height
<1>1. /\ pc = "match" /\ ~Panics /\ ~Descends
      /\ storage \in Storage /\ Sound(storage) /\ params \in Params
      /\ id \in 1..Len(storage.redeemRequests)
      /\ Len(storage.placed) = Len(storage.redeemRequests)
      /\ EndOf(params) = EndOf(storage.redeemRequests[id])
  BY DEF IInv, TypeOK, InFlight, Sound, QueueIsContiguous, Requests, MatchAndSave
<1>2. /\ place.height \in Nat /\ place.amount \in Nat
      /\ params.height \in Nat /\ params.amount \in Nat
      /\ DOMAIN storage.redeemRequests = 1..Len(storage.redeemRequests)
  BY <1>1, SequenceParts, ParamsParts
<1>3. EndOf(storage.redeemRequests[id]) = EndOf(place)
  BY <1>1, <1>2 DEF Sound, QueueIsContiguous, Requests
<1>4. /\ MatchingAmount \in Nat /\ MatchingAmount <= params.amount
      /\ y = params.height + MatchingAmount
      /\ y <= EndOf(CurrentEvent)
      /\ MatchingAmount < params.amount => y = EndOf(CurrentEvent)
  BY <1>1, MatchFacts, MatchedParts
<1>5. /\ EndOf(CurrentEvent) \in Nat /\ EndOf(CurrentEvent) <= EndOfLast(E)
      /\ EndOfLast(E) \in Nat
  BY <1>1, CurrentEventParts, EndsAreNat DEF Events
<1>6. CurrentEvent = E[params.withdrawalEventId] /\ params.withdrawalEventId \in DOMAIN E
  BY <1>1, CurrentEventParts, SequenceParts DEF CurrentEvent
<1> HIDE DEF id, place, E, y
<1>7. place.height + done = y /\ y <= EndOfLast(E)
  BY <1>2, <1>4, <1>5
<1>8. done = place.amount \/ \E k \in DOMAIN E : y = EndOf(E[k])
  <2>1. CASE MatchingAmount < params.amount
    BY <1>4, <1>6, <2>1
  <2>2. CASE MatchingAmount = params.amount
    <3>1. params.height + params.amount = place.height + place.amount
      BY <1>1, <1>3 DEF EndOf, id
    <3> QED BY <1>2, <1>4, <2>2, <3>1
  <2> QED BY <1>2, <1>4, <2>1, <2>2
<1>9. Promise!MayStand(place, E, done)
  <2> HIDE DEF done
  <2> QED BY <1>7, <1>8 DEF Promise!MayStand, Promise!EndOfLast, Promise!EndOf, EndOfLast, EndOf
<1> QED BY <1>9 DEF Events, id, place, E, y, done

LEMMA SaveKeepsDues ==
  ASSUME IInv, IInv', DuesArePaid, MatchAndSave
  PROVE  DuesArePaid' /\ Grows(Committed, Committed')
<1> DEFINE id == params.redeemRequestId
           place == storage.placed[id]
<1>1. /\ pc = "match" /\ pc' = "pay" /\ ~Panics /\ txStart' = txStart
      /\ params' = Matched
  BY DEF MatchAndSave
<1>2. /\ storage'.withdrawalEvents = storage.withdrawalEvents
      /\ storage'.placed = storage.placed
      /\ storage'.paid = storage.paid
      /\ \A r \in 1..Len(storage.redeemRequests) :
           r # id => storage'.redeemRequests[r] = storage.redeemRequests[r]
      /\ storage'.redeemRequests[id].height = Matched.height
      /\ storage'.redeemRequests[id].amount = Matched.amount
  BY SaveEffect
<1>3. /\ Sound(storage) /\ Sound(storage') /\ Sound(txStart)
      /\ id \in 1..Len(storage.redeemRequests)
      /\ Len(storage.placed) = Len(storage.redeemRequests)
  BY <1>1, GrowsTyped, SoundPrimed DEF IInv, InFlight
<1>4. storage'.redeemRequests[id].maxRedeemableEth = Matched.maxRedeemableEth
  BY <1>3, SaveEffect
<1>5. Matched.redeemRequestId = id BY <1>1, MatchedParts
<1>6. /\ storage.paid[id] \in Nat
      /\ Left(place, Events(storage), Matched.height) =
           Standing(Matched, storage.paid[id] + Matched.ethAmount)
  BY <1>1, LevelIsDue
<1>7. Promise!MayStand(place, Events(storage), Matched.height - place.height)
  BY SavedMayStand
<1>8. IsSettled(storage', id, Matched.ethAmount)
  BY <1>2, <1>4, <1>6, <1>7 DEF IsSettled, Standing, Requests, Events
<1>9. ASSUME NEW r \in 1..Len(storage'.placed) PROVE IsSettled(storage', r, Payment(r)')
  <2>1. Payment(r)' = IF r = id THEN Matched.ethAmount ELSE 0
    BY <1>1, <1>5 DEF Payment
  <2>2. CASE r = id BY <1>8, <2>1, <2>2
  <2>3. CASE r # id
    <3>1. r \in 1..Len(storage.placed) BY <1>2
    <3>2. IsSettled(storage, r, 0)
      <4>1. Payment(r) = 0 BY <1>1 DEF Payment
      <4> QED BY <3>1, <4>1 DEF DuesArePaid
    <3>3. storage'.redeemRequests[r] = storage.redeemRequests[r] BY <1>2, <1>3, <2>3, <3>1
    <3>4. IsSettled(storage', r, 0) BY <1>2, <3>2, <3>3, SettledIfSame
    <3> QED BY <2>1, <2>3, <3>4
  <2> QED BY <2>2, <2>3
<1>10. Grows(storage, storage')
  <2>1. /\ Len(storage.placed) \in Nat /\ Len(storage.withdrawalEvents) \in Nat
        /\ \A r \in 1..Len(storage.placed) : storage.redeemRequests[r].height \in Nat
    BY <1>3, GrowsTyped
  <2>2. storage.redeemRequests[id].height <= Matched.height
    <3>1. storage.redeemRequests[id].height <= params.height
      BY <1>1 DEF IInv, InFlight
    <3>2. Matched.height = params.height + MatchingAmount /\ MatchingAmount \in Nat
          /\ params.height \in Nat
      BY <1>1, MatchFacts, MatchedParts, ParamsParts DEF IInv, TypeOK
    <3>3. storage.redeemRequests[id].height \in Nat BY <1>3, <2>1
    <3> HIDE DEF id
    <3> QED BY <3>1, <3>2, <3>3
  <2>3. ASSUME NEW r \in 1..Len(storage.placed)
        PROVE  storage.redeemRequests[r].height <= storage'.redeemRequests[r].height
    <3>1. CASE r = id BY <1>2, <2>2, <3>1
    <3>2. CASE r # id
      <4>1. storage'.redeemRequests[r] = storage.redeemRequests[r] BY <1>2, <1>3, <3>2
      <4> QED BY <2>1, <4>1
    <3> QED BY <3>1, <3>2
  <2> QED BY <1>2, <2>1, <2>3 DEF Grows, Begins
<1>11. Grows(txStart', storage')
  BY <1>1, <1>3, <1>10, GrowsIsTransitive DEF DuesArePaid
<1>12. AllSettled(txStart') BY <1>1 DEF DuesArePaid
<1> QED
  BY <1>1, <1>9, <1>11, <1>12, DuesPrimed, InsideKeepsCommitted DEF ClaimIsDue

LEMMA PayKeepsDues ==
  ASSUME IInv, DuesArePaid, PayRecipient
  PROVE  DuesArePaid' /\ Grows(Committed, Committed')
<1> DEFINE id == params.redeemRequestId
<1>1. /\ pc = "pay" /\ pc' = "callback" /\ txStart' = txStart /\ params' = params
  BY DEF PayRecipient
<1>2. /\ storage'.redeemRequests = storage.redeemRequests
      /\ storage'.withdrawalEvents = storage.withdrawalEvents
      /\ storage'.placed = storage.placed
      /\ \A r \in 1..Len(storage.paid) :
           storage'.paid[r] = IF r = id THEN storage.paid[r] + params.ethAmount
                              ELSE storage.paid[r]
  BY PayEffect
<1>3. /\ params.ethAmount \in Nat /\ Len(storage.paid) = Len(storage.placed)
      /\ \A r \in 1..Len(storage.placed) : storage.paid[r] \in Nat
  BY GrowsTyped, ParamsParts DEF IInv, TypeOK
<1>4. ASSUME NEW r \in 1..Len(storage'.placed) PROVE IsSettled(storage', r, Payment(r)')
  <2>1. r \in 1..Len(storage.placed) /\ r \in 1..Len(storage.paid) BY <1>2, <1>3
  <2>2. IsSettled(storage, r, Payment(r)) BY <2>1 DEF DuesArePaid
  <2>3. storage'.paid[r] + 0 = storage.paid[r] + Payment(r)
    <3>1. storage'.paid[r] = storage.paid[r] + Payment(r)
      <4>1. storage.paid[r] \in Nat BY <1>3, <2>1
      <4> QED BY <1>1, <1>2, <1>3, <2>1, <4>1 DEF Payment
    <3>2. Payment(r) \in Nat /\ storage.paid[r] \in Nat
      BY <1>3, <2>1 DEF Payment
    <3> QED BY <3>1, <3>2
  <2>4. Payment(r)' = 0 BY <1>1 DEF Payment
  <2>5. IsSettled(storage', r, 0) BY <1>2, <2>2, <2>3, SettledIfSame
  <2> QED BY <2>4, <2>5
<1>5. Grows(txStart', storage')
  BY <1>1, <1>2 DEF DuesArePaid, Grows
<1>6. AllSettled(txStart') BY <1>1 DEF DuesArePaid
<1> QED BY <1>1, <1>4, <1>5, <1>6, DuesPrimed, InsideKeepsCommitted DEF ClaimIsDue

LEMMA EnvironmentKeepsDues ==
  ASSUME IInv, IInv', DuesArePaid,
         \/ \E initiator, recipient \in Account, a \in LsETHAmount, rate \in Rate :
              RequestRedeem(initiator, recipient, a, rate)
         \/ \E rate \in Rate, available \in RedeemBalance :
              RiverReportsWithdraw(rate, available)
         \/ \E limit \in PullLimit : PullExceedingEth(limit)
         \/ \E accounts \in SUBSET Account : SetDenied(accounts)
         \/ SetSlashingContainmentMode
  PROVE  DuesArePaid' /\ Grows(Committed, Committed')
<1>1. Sound(storage) /\ Sound(storage') /\ storage \in Storage
  BY SoundPrimed DEF IInv, Sound
<1>2. SUFFICES /\ Entered /\ UNCHANGED <<pc, txStart>>
               /\ AllSettled(storage') /\ Grows(storage, storage')
  BY EnteredKeepsDues
<1>3. Entered /\ UNCHANGED <<pc, txStart>>
  BY DEF RequestRedeem, RiverReportsWithdraw, ReportWithdraw, PullExceedingEth, SetDenied,
         SetSlashingContainmentMode, Entered
<1>4. AllSettled(storage)
  BY <1>3, StorageIsSettled DEF Entered
<1>5. CASE \E initiator, recipient \in Account, a \in LsETHAmount, rate \in Rate :
             RequestRedeem(initiator, recipient, a, rate)
  <2>1. PICK initiator \in Account, recipient \in Account, a \in LsETHAmount, rate \in Rate :
          RequestRedeem(initiator, recipient, a, rate)
    BY <1>5
  <2>2. PICK q \in Request, p \in Placement :
          /\ q.height = p.height /\ q.amount = p.amount
          /\ q.maxRedeemableEth = p.maxRedeemableEth
          /\ storage'.redeemRequests = Append(storage.redeemRequests, q)
          /\ storage'.placed = Append(storage.placed, p)
          /\ storage'.paid = Append(storage.paid, 0)
          /\ storage'.withdrawalEvents = storage.withdrawalEvents
    BY <1>1, <2>1, RequestEffect
  <2> QED BY <1>1, <1>3, <1>4, <2>2, RequestIsSettled
<1>6. CASE \E rate \in Rate, available \in RedeemBalance :
             RiverReportsWithdraw(rate, available)
  <2>1. PICK rate \in Rate, available \in RedeemBalance :
          RiverReportsWithdraw(rate, available)
    BY <1>6
  <2> DEFINE supply == Supply(rate, available, storage.redeemDemand)
  <2>2. supply.lsETH \in Nat /\ supply.eth \in Nat
    <3>1. available \in Nat /\ storage.redeemDemand \in Nat
      BY <1>1, StorageParts, RedeemAssumption
    <3> QED BY <3>1, RateConverts DEF Supply
  <2>3. ReportWithdraw(supply.lsETH, supply.eth) BY <2>1 DEF RiverReportsWithdraw
  <2> HIDE DEF supply
  <2>4. PICK new \in Event :
          /\ new.height = EndOfLast(Events(storage))
          /\ storage'.withdrawalEvents = Append(storage.withdrawalEvents, new)
          /\ storage'.redeemRequests = storage.redeemRequests
          /\ storage'.placed = storage.placed
          /\ storage'.paid = storage.paid
    BY <1>1, <2>2, <2>3, ReportEffect
  <2> QED BY <1>1, <1>3, <1>4, <2>4, EventIsSettled
<1>7. ASSUME storage'.redeemRequests = storage.redeemRequests,
             storage'.withdrawalEvents = storage.withdrawalEvents,
             storage'.placed = storage.placed, storage'.paid = storage.paid
      PROVE  AllSettled(storage') /\ Grows(storage, storage')
  <2>1. AllSettled(storage') BY <1>4, <1>7, SettledIfSame DEF AllSettled
  <2>2. Grows(storage, storage) BY <1>1, GrowsIsReflexive
  <2> QED BY <1>7, <2>1, <2>2 DEF Grows
<1>8. CASE \E limit \in PullLimit : PullExceedingEth(limit)
  BY <1>1, <1>3, <1>7, <1>8, PullKeepsSound
<1>9. CASE (\E accounts \in SUBSET Account : SetDenied(accounts)) \/ SetSlashingContainmentMode
  BY <1>3, <1>7, <1>9 DEF SetDenied, SetSlashingContainmentMode
<1> QED BY <1>5, <1>6, <1>8, <1>9

LEMMA NextKeepsDues ==
  ASSUME IInv, IInv', DuesArePaid, [Next]_vars
  PROVE  DuesArePaid' /\ Grows(Committed, Committed')
<1>1. CASE EndClaim BY <1>1, EndKeepsDues
<1>2. ASSUME NEW r \in 1..(MaxRequests + 1), NEW e \in 1..(MaxWithdrawalEvents + 1),
             LoadItem(r, e) \/ SkipItem(r, e) \/ RejectItem(r, e)
      PROVE  DuesArePaid' /\ Grows(Committed, Committed')
  BY <1>2, LoadKeepsDues, ReadingKeepsDues, RevertKeepsDues DEF RejectItem, SkipItem
<1>3. CASE MatchAndDescend BY <1>3, DescendKeepsDues
<1>4. CASE MatchAndSave BY <1>4, SaveKeepsDues
<1>5. CASE MatchPanics \/ RecipientReverts
  BY <1>5, RevertKeepsDues DEF MatchPanics, RecipientReverts
<1>6. CASE PayRecipient BY <1>6, PayKeepsDues
<1>7. CASE RecipientReturns BY <1>7, ReadingKeepsDues DEF RecipientReturns
<1>8. CASE ClaimStep
  BY <1>1, <1>2, <1>3, <1>4, <1>5, <1>6, <1>7, <1>8 DEF ClaimStep
<1>9. CASE \E n \in 0..MaxBatch, skip \in BOOLEAN, d \in Depth :
             ClaimRedeemRequests(n, skip, d)
  BY <1>9, StartKeepsDues
<1>10. CASE UNCHANGED vars
  <2>1. storage' = storage /\ txStart' = txStart /\ pc' = pc /\ params' = params
    BY <1>10 DEF vars
  <2>2. ClaimIsDue'
    <3>1. CurrentEvent' = CurrentEvent BY <2>1 DEF CurrentEvent
    <3>2. Left(storage.placed[params.redeemRequestId], Events(storage), params.height)' =
            Left(storage.placed[params.redeemRequestId], Events(storage), params.height)
      BY <2>1 DEF Left, Events
    <3>3. Standing(params, storage.paid[params.redeemRequestId] + params.ethAmount)' =
            Standing(params, storage.paid[params.redeemRequestId] + params.ethAmount)
      BY <2>1 DEF Standing
    <3> QED BY <2>1, <3>1, <3>2, <3>3 DEF DuesArePaid, ClaimIsDue
  <2>3. \A r \in 1..Len(storage'.placed) : IsSettled(storage', r, Payment(r)')
    <3>1. \A r : Payment(r)' = Payment(r) BY <2>1 DEF Payment
    <3> QED BY <2>1, <3>1 DEF DuesArePaid
  <2>4. AllSettled(txStart') /\ (pc' # "idle" => Grows(txStart', storage'))
    BY <2>1 DEF DuesArePaid
  <2>5. Grows(Committed, Committed')
    <3>1. Sound(Committed) BY DEF IInv, Committed
    <3>2. Committed' = Committed BY <2>1 DEF Committed, InClaim
    <3> QED BY <3>1, <3>2, GrowsIsReflexive
  <2> QED BY <2>2, <2>3, <2>4, <2>5, DuesPrimed
<1> QED BY <1>8, <1>9, <1>10, EnvironmentKeepsDues DEF Next

-----------------------------------------------------------------------------
(* Every step is a transaction of RedeemQueue, or none                      *)

\* Sequences only grow.
LEMMA BeginsIsPrefix ==
  ASSUME NEW S, NEW s \in Seq(S), NEW t \in Seq(S), Begins(s, t)
  PROVE  Promise!IsPrefix(s, t)
<1>1. Len(s) \in Nat /\ Len(t) \in Nat /\ Len(s) <= Len(t)
      /\ \A i \in 1..Len(s) : s[i] = t[i]
  BY LenProperties DEF Begins
<1>2. SubSeq(s, 1, Len(s)) = s BY SubSeqFull
<1>3. SubSeq(t, 1, Len(s)) = s
  <2>1. \A i \in 1..Len(s) : t[i] \in S BY <1>1
  <2>2. /\ SubSeq(t, 1, Len(s)) \in Seq(S)
        /\ Len(SubSeq(t, 1, Len(s))) = IF 1 <= Len(s) THEN Len(s) - 1 + 1 ELSE 0
        /\ \A i \in 1..(Len(s) - 1 + 1) : SubSeq(t, 1, Len(s))[i] = t[1 + i - 1]
    BY <1>1, <2>1, SubSeqProperties
  <2>3. Len(SubSeq(t, 1, Len(s))) = Len(s) BY <1>1, <2>2
  <2>4. \A i \in 1..Len(s) : SubSeq(t, 1, Len(s))[i] = s[i] BY <1>1, <2>2
  <2> QED BY <2>2, <2>3, <2>4, SeqEqual
<1> QED BY <1>1, <1>2, <1>3 DEF Promise!IsPrefix

Standings(s) ==
  [r \in DOMAIN s.placed |-> s.redeemRequests[r].height - s.placed[r].height]

\* The tiling of the axis is the one RedeemQueue promises...
LEMMA TilingIsPromised ==
  ASSUME NEW s, Sound(s)
  PROVE  /\ Promise!Contiguous(s.placed) /\ Promise!Contiguous(s.withdrawalEvents)
         /\ Promise!EndOfLast(s.withdrawalEvents) <= Promise!EndOfLast(s.placed)
<1>1. /\ s \in Storage /\ Len(s.placed) = Len(s.redeemRequests)
      /\ \A r \in DOMAIN s.redeemRequests :
           /\ EndOf(s.redeemRequests[r]) = EndOf(s.placed[r])
           /\ s.placed[r].height = IF r = 1 THEN 0 ELSE EndOf(s.placed[r - 1])
      /\ s.redeemDemand = EndOfLast(s.redeemRequests) - EndOfLast(s.withdrawalEvents)
      /\ \A e \in DOMAIN s.withdrawalEvents :
           s.withdrawalEvents[e].height =
             IF e = 1 THEN 0 ELSE EndOf(s.withdrawalEvents[e - 1])
  BY DEF Sound, QueueIsContiguous, StackIsContiguous, DemandIsUncovered, Requests, Events
<1>2. DOMAIN s.placed = DOMAIN s.redeemRequests BY <1>1, SequenceParts
<1>3. EndOfLast(s.placed) = EndOfLast(s.redeemRequests)
  <2>1. s.placed \in Seq(Placement) /\ s.redeemRequests \in Seq(Request)
        /\ Len(s.placed) \in Nat /\ DOMAIN s.placed = 1..Len(s.placed)
    BY <1>1, StorageParts, SequenceParts
  <2>2. s.placed = <<>> <=> s.redeemRequests = <<>> BY <1>1, <2>1, EmptySeq
  <2>3. s.placed # <<>> => Len(s.placed) \in DOMAIN s.redeemRequests
    <3>1. s.placed # <<>> => Len(s.placed) # 0 BY <2>1, EmptySeq
    <3> QED BY <1>2, <2>1, <3>1
  <2> QED BY <1>1, <2>2, <2>3 DEF EndOfLast
<1>4. EndOfLast(s.withdrawalEvents) <= EndOfLast(s.placed)
  <2>1. s.redeemDemand \in Nat /\ EndOfLast(s.redeemRequests) \in Nat
        /\ EndOfLast(s.withdrawalEvents) \in Nat
    BY <1>1, StorageParts, EndsAreNat DEF Requests, Events
  <2> QED BY <1>1, <1>3, <2>1
<1>5. Promise!Contiguous(s.placed) BY <1>1, <1>2 DEF Promise!Contiguous, Promise!EndOf, EndOf
<1>6. Promise!Contiguous(s.withdrawalEvents)
  BY <1>1 DEF Promise!Contiguous, Promise!EndOf, EndOf
<1>7. Promise!EndOfLast(s.withdrawalEvents) <= Promise!EndOfLast(s.placed)
  BY <1>4 DEF Promise!EndOfLast, Promise!EndOf, EndOfLast, EndOf
<1> QED BY <1>5, <1>6, <1>7

\* ...and so is where a request stands, and what it was paid there.
LEMMA RequestIsPromised ==
  ASSUME NEW s, Sound(s), AllSettled(s), NEW r \in DOMAIN s.placed
  PROVE  /\ Standings(s)[r] <= s.placed[r].amount
         /\ Promise!MayStand(s.placed[r], s.withdrawalEvents, Standings(s)[r])
         /\ s.paid[r] = Promise!Due(s.placed[r], s.withdrawalEvents, Standings(s)[r])
<1>1. /\ s \in Storage /\ DOMAIN s.placed = 1..Len(s.placed)
      /\ DOMAIN s.redeemRequests = DOMAIN s.placed
      /\ EndOf(s.redeemRequests[r]) = EndOf(s.placed[r])
  <2>1. s \in Storage /\ Len(s.placed) = Len(s.redeemRequests)
    BY DEF Sound, QueueIsContiguous, Requests
  <2>2. DOMAIN s.placed = 1..Len(s.placed) /\ DOMAIN s.redeemRequests = DOMAIN s.placed
    BY <2>1, SequenceParts
  <2> QED BY <2>1, <2>2 DEF Sound, QueueIsContiguous, Requests
<1>2. Standings(s)[r] = s.redeemRequests[r].height - s.placed[r].height BY DEF Standings
<1>3. /\ s.redeemRequests[r].height \in Nat /\ s.redeemRequests[r].amount \in Nat
      /\ s.placed[r].height \in Nat /\ s.placed[r].amount \in Nat /\ s.paid[r] \in Nat
  BY <1>1, SequenceParts, GrowsTyped
<1>4. Standings(s)[r] <= s.placed[r].amount
  <2>1. s.redeemRequests[r].height + s.redeemRequests[r].amount =
          s.placed[r].height + s.placed[r].amount
    BY <1>1 DEF EndOf
  <2>2. s.redeemRequests[r].height - s.placed[r].height <= s.placed[r].amount
    BY <1>3, <2>1
  <2> QED BY <1>2, <2>2
<1>5. IsSettled(s, r, 0) BY <1>1 DEF AllSettled
<1>6. Promise!MayStand(s.placed[r], s.withdrawalEvents, Standings(s)[r])
  BY <1>2, <1>5 DEF IsSettled, Requests, Events
<1>7. Promise!Due(s.placed[r], s.withdrawalEvents, Standings(s)[r]) = s.paid[r]
  <2>1. Promise!Due(s.placed[r], s.withdrawalEvents, Standings(s)[r]) =
          Left(s.placed[r], s.withdrawalEvents, s.redeemRequests[r].height).eth
    BY <1>2 DEF Promise!Due, Left
  <2>2. Left(s.placed[r], s.withdrawalEvents, s.redeemRequests[r].height) =
          Standing(s.redeemRequests[r], s.paid[r] + 0)
    BY <1>5 DEF IsSettled, Requests, Events
  <2>3. Standing(s.redeemRequests[r], s.paid[r] + 0).eth = s.paid[r]
    BY <1>3 DEF Standing
  <2> QED BY <2>1, <2>2, <2>3
<1> QED BY <1>4, <1>6, <1>7

LEMMA GrowthIsPromised ==
  ASSUME NEW s, NEW t, Sound(s), Sound(t), Grows(s, t)
  PROVE  /\ Promise!IsPrefix(s.placed, t.placed)
         /\ Promise!IsPrefix(s.withdrawalEvents, t.withdrawalEvents)
         /\ Len(Standings(t)) = Len(t.placed) /\ Len(t.paid) = Len(t.placed)
         /\ \A r \in DOMAIN Standings(s) : Standings(s)[r] <= Standings(t)[r]
<1>1. /\ s.placed \in Seq(Placement) /\ t.placed \in Seq(Placement)
      /\ s.withdrawalEvents \in Seq(Event) /\ t.withdrawalEvents \in Seq(Event)
  BY StorageParts DEF Sound
<1>2. /\ Promise!IsPrefix(s.placed, t.placed)
      /\ Promise!IsPrefix(s.withdrawalEvents, t.withdrawalEvents)
  BY <1>1, BeginsIsPrefix DEF Grows
<1>3. /\ Len(s.placed) \in Nat /\ DOMAIN s.placed = 1..Len(s.placed)
      /\ Len(t.placed) \in Nat /\ DOMAIN t.placed = 1..Len(t.placed)
  BY <1>1, LenProperties
<1>4. Len(Standings(t)) = Len(t.placed)
  <2>1. DOMAIN Standings(t) = 1..Len(t.placed) BY <1>3 DEF Standings
  <2>2. \A r \in 1..Len(t.placed) : Standings(t)[r] \in Int
    BY <1>3, GrowsTyped, PlacementParts DEF Standings
  <2>3. Standings(t) \in [1..Len(t.placed) -> Int] BY <2>1, <2>2 DEF Standings
  <2>4. Standings(t) \in Seq(Int)
    <3> HIDE DEF Standings
    <3> QED BY <1>3, <2>3
  <2> QED BY <1>3, <2>1, <2>4, LenProperties
<1>5. ASSUME NEW r \in DOMAIN Standings(s) PROVE Standings(s)[r] <= Standings(t)[r]
  <2>1. r \in 1..Len(s.placed) /\ r \in 1..Len(t.placed) /\ s.placed[r] = t.placed[r]
    BY <1>3 DEF Standings, Grows, Begins
  <2>2. /\ Standings(s)[r] = s.redeemRequests[r].height - s.placed[r].height
        /\ Standings(t)[r] = t.redeemRequests[r].height - s.placed[r].height
    BY <1>3, <2>1 DEF Standings
  <2>3. s.redeemRequests[r].height <= t.redeemRequests[r].height BY <2>1 DEF Grows
  <2>4. /\ s.redeemRequests[r].height \in Nat /\ t.redeemRequests[r].height \in Nat
        /\ s.placed[r].height \in Nat
    BY <2>1, GrowsTyped, PlacementParts
  <2> QED BY <2>2, <2>3, <2>4
<1> QED BY <1>2, <1>4, <1>5, GrowsTyped

LEMMA StepIsPromised ==
  ASSUME IInv, IInv', DuesArePaid, DuesArePaid', Grows(Committed, Committed')
  PROVE  Promise!Transaction
<1>1. Sound(Committed) /\ Sound(Committed')
  <2>1. Committed' = txStart' \/ Committed' = storage' BY DEF Committed
  <2> QED BY <2>1, SoundPrimed DEF IInv, Committed
<1>2. AllSettled(Committed')
  <2>1. AllSettled(txStart') BY DEF DuesArePaid, AllSettled, IsSettled, Left, Requests, Events
  <2>2. pc' = "idle" => AllSettled(storage')
    <3>1. AllSettled(storage)' <=> AllSettled(storage')
      BY DEF AllSettled, IsSettled, Left, Requests, Events
    <3>2. pc' = "idle" => \A r \in 1..Len(storage'.placed) : Payment(r)' = 0
      BY DEF Payment
    <3>3. \A r \in 1..Len(storage'.placed) : IsSettled(storage', r, Payment(r)')
      BY DEF DuesArePaid, IsSettled, Left, Requests, Events
    <3> QED BY <3>2, <3>3 DEF AllSettled
  <2>3. Committed' = IF pc' # "idle" THEN txStart' ELSE storage' BY DEF Committed, InClaim
  <2> QED BY <2>1, <2>2, <2>3
<1>3. \A r \in DOMAIN Committed'.placed :
        /\ Standings(Committed')[r] <= Committed'.placed[r].amount
        /\ Promise!MayStand(Committed'.placed[r], Committed'.withdrawalEvents,
                            Standings(Committed')[r])
        /\ Committed'.paid[r] =
             Promise!Due(Committed'.placed[r], Committed'.withdrawalEvents,
                         Standings(Committed')[r])
  BY <1>1, <1>2, RequestIsPromised
<1>4. DOMAIN Standings(Committed') = DOMAIN Committed'.placed BY DEF Standings
<1>5. /\ Promise!IsPrefix(Committed.placed, Committed'.placed)
      /\ Promise!IsPrefix(Committed.withdrawalEvents, Committed'.withdrawalEvents)
      /\ Len(Standings(Committed')) = Len(Committed'.placed)
      /\ Len(Committed'.paid) = Len(Committed'.placed)
      /\ \A r \in DOMAIN Standings(Committed) :
           Standings(Committed)[r] <= Standings(Committed')[r]
  BY <1>1, GrowthIsPromised
<1>6. /\ Promise!Contiguous(Committed'.placed)
      /\ Promise!Contiguous(Committed'.withdrawalEvents)
      /\ Promise!EndOfLast(Committed'.withdrawalEvents) <= Promise!EndOfLast(Committed'.placed)
  BY <1>1, TilingIsPromised
<1> QED
  BY <1>3, <1>4, <1>5, <1>6 DEF Promise!Transaction, Standings

\* Transaction by transaction, whatever recipients call back and however a claim is
\* cut over calls, depths and events, the manager does what RedeemQueue promises: a
\* request stands where it was placed, at the end of an event or at its own end, and
\* was paid exactly what its place, the events it crossed and its ceiling make due
\* (_requestRedeem, reportWithdraw, _claimRedeemRequest, _claimRedeemRequests).
THEOREM QueueIsKept == Spec => ImplementsRedeemQueue
<1>1. Init => DuesArePaid /\ Promise!Init
  <2> SUFFICES ASSUME Init PROVE DuesArePaid /\ Promise!Init OBVIOUS
  <2>1. pc = "idle" /\ storage = EmptyStorage /\ txStart = EmptyStorage BY DEF Init
  <2>2. /\ EmptyStorage.placed = <<>> /\ EmptyStorage.withdrawalEvents = <<>>
        /\ EmptyStorage.paid = <<>> /\ Len(EmptyStorage.placed) = 0
    BY DEF EmptyStorage
  <2>3. DuesArePaid
    BY <2>1, <2>2 DEF DuesArePaid, AllSettled, ClaimIsDue
  <2>4. Committed = EmptyStorage BY <2>1 DEF Committed
  <2>5. [r \in DOMAIN Committed.placed |->
           Committed.redeemRequests[r].height - Committed.placed[r].height] = <<>>
    BY <2>2, <2>4
  <2> QED BY <2>2, <2>3, <2>4, <2>5 DEF Promise!Init
<1>2. IInv /\ IInv' /\ DuesArePaid /\ [Next]_vars =>
        DuesArePaid' /\ [Promise!Transaction]_(Promise!vars)
  BY NextKeepsDues, StepIsPromised
<1> QED
  BY Inductive, <1>1, <1>2, PTL DEF Spec, ImplementsRedeemQueue, Promise!Spec

-----------------------------------------------------------------------------
(* The resolution of a redeem request: right, and probing strictly inside  *)
(* its range, for every contiguous stack and every request.                *)

\* Every stack the redeem manager has, in the middle of a claim as well, is one a
\* resolution may start from (reportWithdraw is all that adds to it).
THEOREM StackCanBeSearched == Spec => []Contiguous(storage.withdrawalEvents)
<1>1. IInv => Contiguous(storage.withdrawalEvents)
  <2> SUFFICES ASSUME IInv PROVE Contiguous(storage.withdrawalEvents)
    OBVIOUS
  <2>1. Sound(storage)
    BY DEF IInv
  <2>2. /\ storage.withdrawalEvents \in Seq(Event)
        /\ \A e \in DOMAIN storage.withdrawalEvents :
             storage.withdrawalEvents[e].height =
               IF e = 1 THEN 0 ELSE EndOf(storage.withdrawalEvents[e - 1])
    BY <2>1 DEF Sound, Storage, StackIsContiguous, Events
  <2>3. \A e, f \in DOMAIN storage.withdrawalEvents :
          e < f => EndOf(storage.withdrawalEvents[e]) <= storage.withdrawalEvents[f].height
    BY <2>1 DEF Sound, StackIsInOrder, Events
  <2>4. PICK E : E = storage.withdrawalEvents
    OBVIOUS
  <2>5. /\ Len(E) \in Nat /\ DOMAIN E = 1..Len(E)
        /\ \A e \in DOMAIN E : E[e].height = IF e = 1 THEN 0 ELSE EndOf(E[e - 1])
        /\ \A e, f \in DOMAIN E : e < f => EndOf(E[e]) <= E[f].height
    BY <2>2, <2>3, <2>4, LenProperties
  <2>6. ASSUME NEW e \in 1..(Len(E) - 1)
        PROVE  E[e + 1].height = EndOf(E[e])
    BY <2>5
  <2>7. Len(E) > 0 => E[1].height = 0
    BY <2>5
  <2> QED BY <2>4, <2>5, <2>6, <2>7 DEF Contiguous
<1> QED
  BY Inductive, <1>1, PTL

\* While the ends are tried the request is within the stack; while the search
\* runs, it lies past the event at min and before the event at max, so that the
\* range never becomes a single event nor two events between which nothing fits.
Bracketed ==
  /\ stage \in {"ends", "search"} =>
       /\ Len(eventStack) > 0
       /\ min \in 1..Len(eventStack)
       /\ max \in 1..Len(eventStack)
  /\ stage = "ends" =>
       /\ min = 1
       /\ max = Len(eventStack)
       /\ redeemRequest.height < EndOf(eventStack[max])
  /\ stage = "search" =>
       /\ EndOf(eventStack[min]) <= redeemRequest.height
       /\ redeemRequest.height < eventStack[max].height

ResolutionInv == ResolutionTypeOK /\ Contiguous(eventStack) /\ Bracketed /\ AnswerIsRight

\* An element of the stack is a segment: what SMT needs to know of a sequence.
LEMMA EventIsSegment ==
  ASSUME ResolutionTypeOK, NEW e \in 1..Len(eventStack)
  PROVE  /\ eventStack[e] \in Segment
         /\ eventStack[e].height \in Nat
         /\ eventStack[e].amount \in Nat
         /\ EndOf(eventStack[e]) \in Nat
<1>1. eventStack[e] \in Segment
  BY ElementOfSeq DEF ResolutionTypeOK
<1> QED
  BY <1>1 DEF Segment, EndOf

LEMMA StackHasLength ==
  ASSUME ResolutionTypeOK
  PROVE  Len(eventStack) \in Nat /\ DOMAIN eventStack = 1..Len(eventStack)
BY LenProperties DEF ResolutionTypeOK

LEMMA InitIsTyped == ResolutionInit => ResolutionTypeOK
<1> SUFFICES ASSUME ResolutionInit PROVE ResolutionTypeOK
  OBVIOUS
<1>1. PICK n \in 0..MaxEvents :
        eventStack \in [1..n -> [height : EventHeight, amount : EventAmount]]
  BY DEF ResolutionInit
<1>2. [height : EventHeight, amount : EventAmount] \subseteq Segment
  BY ResolutionAssumption DEF Segment
<1>3. n \in Nat /\ eventStack \in [1..n -> Segment]
  BY <1>1, <1>2, ResolutionAssumption
<1>4. eventStack \in Seq(Segment)
  BY <1>3, SeqDef, Zenon
<1>5. redeemRequest \in Segment
  BY ResolutionAssumption DEF ResolutionInit, Segment
<1>6. result \in Results
  BY DEF ResolutionInit, Results, Codes
<1> QED
  BY <1>4, <1>5, <1>6 DEF ResolutionInit, ResolutionTypeOK

LEMMA AnswerIsTyped ==
  ASSUME ResolutionTypeOK, NEW code \in Codes, NEW e \in Nat, Answer(code, e)
  PROVE  ResolutionTypeOK'
BY DEF ResolutionTypeOK, Answer, Results

LEMMA NextIsTyped == ResolutionTypeOK /\ [ResolutionNext]_resolutionVars => ResolutionTypeOK'
<1> SUFFICES ASSUME ResolutionTypeOK, [ResolutionNext]_resolutionVars PROVE ResolutionTypeOK'
  OBVIOUS
<1>1. CASE Resolve
  <2>1. CASE /\ stage' = "ends" /\ max' = Len(eventStack) /\ min' = 1
             /\ UNCHANGED <<eventStack, known, redeemRequest, result>>
    BY <2>1, StackHasLength DEF ResolutionTypeOK
  <2>2. ASSUME NEW code \in Codes, Answer(code, 0) PROVE ResolutionTypeOK'
    BY <2>2, AnswerIsTyped
  <2> QED
    BY <1>1, <2>1, <2>2 DEF Resolve, Codes
<1>2. CASE TryEnds
  <2>1. ASSUME NEW e \in Nat, Answer("found", e) PROVE ResolutionTypeOK'
    BY <2>1, AnswerIsTyped DEF Codes
  <2>2. CASE /\ stage' = "search"
             /\ UNCHANGED <<eventStack, known, redeemRequest, min, max, result>>
    BY <2>2 DEF ResolutionTypeOK
  <2> QED
    BY <1>2, <2>1, <2>2 DEF TryEnds, ResolutionTypeOK
<1>3. CASE Search
  <2>1. min # max => Middle \in Nat
    BY DEF ResolutionTypeOK, Middle
  <2>2. ASSUME NEW e \in Nat, Answer("found", e) PROVE ResolutionTypeOK'
    BY <2>2, AnswerIsTyped DEF Codes
  <2>3. CASE /\ min # max
             /\ min' \in {min, Middle} /\ max' \in {max, Middle}
             /\ UNCHANGED <<eventStack, known, redeemRequest, stage, result>>
    BY <2>1, <2>3 DEF ResolutionTypeOK
  <2> QED
    BY <1>3, <2>1, <2>2, <2>3 DEF Search, ResolutionTypeOK
<1>4. CASE UNCHANGED resolutionVars
  BY <1>4 DEF resolutionVars, ResolutionTypeOK
<1> QED
  BY <1>1, <1>2, <1>3, <1>4 DEF ResolutionNext

\* The middle of a range lies in it, below its upper end.
LEMMA MiddleWithin ==
  ASSUME min \in Nat, max \in Nat, 1 <= min, min < max
  PROVE  /\ Middle \in Nat
         /\ min <= Middle
         /\ Middle < max
         /\ max - min > 1 => min < Middle
BY DEF Middle

\* A request past the event at min and before the event at max has another
\* event between them.
LEMMA RangeHasInterior ==
  ASSUME ResolutionTypeOK, Contiguous(eventStack), Bracketed, stage = "search"
  PROVE  max - min > 1
<1>1. /\ min \in 1..Len(eventStack)
      /\ max \in 1..Len(eventStack)
      /\ EndOf(eventStack[min]) <= redeemRequest.height
      /\ redeemRequest.height < eventStack[max].height
  BY DEF Bracketed
<1>2. /\ eventStack[min].height \in Nat /\ eventStack[min].amount \in Nat
      /\ eventStack[max].height \in Nat /\ eventStack[max].amount \in Nat
      /\ redeemRequest.height \in Nat
  BY <1>1, EventIsSegment DEF ResolutionTypeOK, Segment
<1>3. min # max
  BY <1>1, <1>2 DEF EndOf
<1>4. ~(max < min)
  <2> SUFFICES ASSUME max < min PROVE FALSE
    OBVIOUS
  <2>1. EndOf(eventStack[max]) <= eventStack[min].height
    BY <1>1 DEF Contiguous
  <2> QED
    BY <2>1, <1>1, <1>2 DEF EndOf
<1>5. max # min + 1
  <2> SUFFICES ASSUME max = min + 1 PROVE FALSE
    OBVIOUS
  <2>1. eventStack[max].height = EndOf(eventStack[min])
    BY <1>1 DEF Contiguous
  <2> QED
    BY <2>1, <1>1, <1>2 DEF EndOf
<1> QED
  BY <1>1, <1>3, <1>4, <1>5

\* A request the last event does not cover matches no event.
LEMMA UnsatisfiedMatchesNothing ==
  ASSUME ResolutionTypeOK, Contiguous(eventStack), ~Satisfied, NEW e \in DOMAIN eventStack
  PROVE  ~IsMatch(redeemRequest, eventStack[e])
<1> DEFINE last == Len(eventStack)
<1>1. e \in 1..last /\ last \in 1..last /\ last > 0
  BY StackHasLength
<1>2. /\ eventStack[e].height \in Nat /\ eventStack[e].amount \in Nat
      /\ eventStack[last].height \in Nat /\ eventStack[last].amount \in Nat
      /\ redeemRequest.height \in Nat
  BY <1>1, EventIsSegment DEF ResolutionTypeOK, Segment
<1>3. EndOf(eventStack[last]) <= redeemRequest.height
  BY <1>1, <1>2 DEF Satisfied, EndOf
<1>4. EndOf(eventStack[e]) <= EndOf(eventStack[last])
  <2>1. e < last => EndOf(eventStack[e]) <= eventStack[last].height
    BY <1>1 DEF Contiguous
  <2> QED
    BY <2>1, <1>1, <1>2 DEF EndOf
<1> QED
  BY <1>2, <1>3, <1>4 DEF IsMatch, EndOf

LEMMA InitEstablishesResolutionInv == ResolutionInit => ResolutionInv
<1> SUFFICES ASSUME ResolutionInit PROVE ResolutionInv
  OBVIOUS
<1>1. ResolutionTypeOK
  BY InitIsTyped
<1> QED
  BY <1>1 DEF ResolutionInit, ResolutionInv, Bracketed, AnswerIsRight

LEMMA NextPreservesResolutionInv ==
  ASSUME ResolutionInv, [ResolutionNext]_resolutionVars
  PROVE  ResolutionInv'
<1> USE DEF ResolutionInv
<1>1. ResolutionTypeOK'
  BY NextIsTyped
<1>2. Contiguous(eventStack)'
  <2>1. eventStack' = eventStack
    BY DEF ResolutionNext, Resolve, TryEnds, Search, Answer, resolutionVars
  <2> QED
    BY <2>1 DEF Contiguous, EndOf
<1>3. CASE Resolve
  <2>1. CASE ~Satisfied /\ Answer("unsatisfied", 0)
    BY <1>1, <1>2, <2>1, UnsatisfiedMatchesNothing
       DEF Answer, Bracketed, AnswerIsRight, IsMatch, EndOf
  <2>2. ASSUME NEW code \in {"out of bounds", "fully claimed"}, Answer(code, 0)
        PROVE  ResolutionInv'
    <3>1. stage' = "done" /\ result'.code # "found" /\ result'.code # "unsatisfied"
      BY <2>2 DEF Answer
    <3> QED
      BY <1>1, <1>2, <3>1 DEF Bracketed, AnswerIsRight
  <2>3. CASE /\ Satisfied
             /\ stage' = "ends" /\ max' = Len(eventStack) /\ min' = 1
             /\ UNCHANGED <<eventStack, known, redeemRequest, result>>
    <3>1. Len(eventStack) \in Nat
      BY StackHasLength
    <3>2. Bracketed'
      BY <2>3, <3>1 DEF Satisfied, Bracketed, EndOf
    <3> QED
      BY <1>1, <1>2, <2>3, <3>2 DEF AnswerIsRight
  <2> QED
    BY <1>3, <2>1, <2>2, <2>3 DEF Resolve
<1>4. CASE TryEnds
  <2>1. /\ Len(eventStack) \in Nat /\ Len(eventStack) > 0
        /\ min = 1 /\ max = Len(eventStack)
        /\ redeemRequest.height < EndOf(eventStack[max])
        /\ 1 \in DOMAIN eventStack /\ max \in DOMAIN eventStack
        /\ eventStack[1].height = 0
        /\ redeemRequest.height \in Nat
        /\ eventStack[max].height \in Nat /\ eventStack[max].amount \in Nat
    <3>1. /\ Len(eventStack) \in Nat /\ Len(eventStack) > 0
          /\ min = 1 /\ max = Len(eventStack)
          /\ redeemRequest.height < EndOf(eventStack[max])
      BY <1>4 DEF TryEnds, Bracketed, ResolutionTypeOK
    <3>2. /\ DOMAIN eventStack = 1..Len(eventStack)
          /\ 1 \in DOMAIN eventStack /\ max \in DOMAIN eventStack
      BY <3>1, StackHasLength
    <3>3. eventStack[1].height = 0
      BY <3>1 DEF Contiguous
    <3>4. eventStack[max].height \in Nat /\ eventStack[max].amount \in Nat
      BY <3>2, EventIsSegment
    <3> QED
      BY <3>1, <3>2, <3>3, <3>4 DEF ResolutionTypeOK, Segment
  <2>2. CASE \E e \in {min, max} : IsMatch(redeemRequest, eventStack[e]) /\ Answer("found", e)
    BY <1>1, <1>2, <2>2 DEF Answer, Bracketed, AnswerIsRight, IsMatch, EndOf
  <2>3. CASE /\ ~IsMatch(redeemRequest, eventStack[max])
             /\ ~IsMatch(redeemRequest, eventStack[min])
             /\ stage' = "search"
             /\ UNCHANGED <<eventStack, known, redeemRequest, min, max, result>>
    <3>1. redeemRequest.height < eventStack[max].height
      BY <2>1, <2>3 DEF IsMatch
    <3>2. EndOf(eventStack[min]) <= redeemRequest.height
      <4>1. eventStack[min].height = 0 /\ eventStack[min].amount \in Nat
        BY <2>1, StackHasLength, EventIsSegment
      <4> QED
        BY <4>1, <2>1, <2>3 DEF IsMatch, EndOf
    <3>3. Bracketed'
      BY <2>1, <2>3, <3>1, <3>2 DEF Bracketed, EndOf
    <3> QED
      BY <1>1, <1>2, <2>3, <3>3 DEF AnswerIsRight
  <2> QED
    BY <1>4, <2>2, <2>3 DEF TryEnds
<1>5. CASE Search
  <2>1. /\ max - min > 1
        /\ min \in 1..Len(eventStack) /\ max \in 1..Len(eventStack)
        /\ min \in Nat /\ max \in Nat
        /\ EndOf(eventStack[min]) <= redeemRequest.height
        /\ redeemRequest.height < eventStack[max].height
    BY <1>5, RangeHasInterior DEF Search, Bracketed, ResolutionTypeOK
  <2>2. /\ Middle \in Nat /\ min < Middle /\ Middle < max
    BY <2>1, MiddleWithin
  <2>3. /\ Middle \in 1..Len(eventStack)
        /\ eventStack[Middle].height \in Nat /\ eventStack[Middle].amount \in Nat
        /\ redeemRequest.height \in Nat
    <3>1. Len(eventStack) \in Nat
      BY StackHasLength
    <3>2. Middle \in 1..Len(eventStack)
      BY <3>1, <2>1, <2>2
    <3>3. eventStack[Middle].height \in Nat /\ eventStack[Middle].amount \in Nat
      BY <3>2, EventIsSegment
    <3> QED
      BY <3>2, <3>3 DEF ResolutionTypeOK, Segment
  <2>4. CASE IsMatch(redeemRequest, eventStack[Middle]) /\ Answer("found", Middle)
    BY <1>1, <1>2, <2>4 DEF Answer, Bracketed, AnswerIsRight, IsMatch, EndOf
  <2>5. CASE /\ ~IsMatch(redeemRequest, eventStack[Middle])
             /\ TakesLowerHalf /\ max' = Middle /\ UNCHANGED min
             /\ UNCHANGED <<eventStack, known, redeemRequest, stage, result>>
    <3>1. Bracketed'
      BY <1>5, <2>1, <2>3, <2>5 DEF Search, Bracketed, TakesLowerHalf, EndOf
    <3> QED
      BY <1>1, <1>2, <1>5, <2>5, <3>1 DEF Search, AnswerIsRight
  <2>6. CASE /\ ~IsMatch(redeemRequest, eventStack[Middle])
             /\ ~TakesLowerHalf /\ min' = Middle /\ UNCHANGED max
             /\ UNCHANGED <<eventStack, known, redeemRequest, stage, result>>
    <3>1. EndOf(eventStack[Middle]) <= redeemRequest.height
      BY <2>3, <2>6 DEF TakesLowerHalf, IsMatch, EndOf
    <3>2. Bracketed'
      BY <1>5, <2>1, <2>3, <2>6, <3>1 DEF Search, Bracketed, EndOf
    <3> QED
      BY <1>1, <1>2, <1>5, <2>6, <3>2 DEF Search, AnswerIsRight
  <2> QED
    BY <1>5, <2>1, <2>4, <2>5, <2>6 DEF Search
<1>6. CASE UNCHANGED resolutionVars
  BY <1>1, <1>2, <1>6 DEF resolutionVars, Bracketed, AnswerIsRight, IsMatch, EndOf
<1> QED
  BY <1>3, <1>4, <1>5, <1>6 DEF ResolutionNext

\* Every event a resolution finds matches the request, and a request it declares
\* unsatisfied matches none (_resolveRedeemRequestId, _performDichotomicResolution).
THEOREM AnswerCorrect == ResolutionSpec => []AnswerIsRight
<1>1. ResolutionInv /\ [ResolutionNext]_resolutionVars => ResolutionInv'
  BY NextPreservesResolutionInv
<1>2. ResolutionInv => AnswerIsRight
  BY DEF ResolutionInv
<1> QED
  BY InitEstablishesResolutionInv, <1>1, <1>2, PTL DEF ResolutionSpec

\* Every iteration of the dichotomic search probes an event strictly inside its
\* range, so the while loop ends whatever the stack (_performDichotomicResolution).
THEOREM ProbeStaysInside == ResolutionSpec => []ProbeIsInside
<1>1. ResolutionInv /\ [ResolutionNext]_resolutionVars => ResolutionInv'
  BY NextPreservesResolutionInv
<1>2. ResolutionInv => ProbeIsInside
  <2> SUFFICES ASSUME ResolutionInv, stage = "search" PROVE min < Middle /\ Middle < max
    BY DEF ProbeIsInside
  <2>1. /\ max - min > 1 /\ min \in Nat /\ max \in Nat /\ 1 <= min
    BY RangeHasInterior DEF ResolutionInv, Bracketed, ResolutionTypeOK
  <2> QED
    BY <2>1, MiddleWithin
<1> QED
  BY InitEstablishesResolutionInv, <1>1, <1>2, PTL DEF ResolutionSpec

\* An iteration leaves half of the range, or half a step more, so that the search
\* takes as many as its range has binary digits (_performDichotomicResolution).
THEOREM SearchHalves ==
  ResolutionSpec =>
    [][stage = "search" /\ stage' = "search" => 2 * (max' - min') <= max - min + 1]_resolutionVars
<1>1. ResolutionInv /\ [ResolutionNext]_resolutionVars => ResolutionInv'
  BY NextPreservesResolutionInv
<1>2. ResolutionInv /\ [ResolutionNext]_resolutionVars =>
        [stage = "search" /\ stage' = "search" => 2 * (max' - min') <= max - min + 1]_resolutionVars
  <2> SUFFICES ASSUME ResolutionInv, ResolutionNext, stage = "search", stage' = "search"
               PROVE  2 * (max' - min') <= max - min + 1
    OBVIOUS
  <2>1. min \in Nat /\ max \in Nat /\ 1 <= min /\ 1 <= max
    BY DEF ResolutionInv, Bracketed, ResolutionTypeOK
  <2>2. \/ max' = Middle /\ min' = min
        \/ min' = Middle /\ max' = max
    BY DEF ResolutionNext, Resolve, TryEnds, Search, Answer
  <2>3. 2 * Middle \in {min + max, min + max - 1}
    BY <2>1 DEF Middle
  <2>4. Middle \in Int
    BY <2>1 DEF Middle
  <2> QED BY <2>1, <2>2, <2>3, <2>4
<1> QED
  BY InitEstablishesResolutionInv, <1>1, <1>2, PTL DEF ResolutionSpec
=============================================================================
