---------------------------- MODULE RedeemManager ----------------------------
(***************************************************************************)
(* The redeem manager (RedeemManager.1.sol): a queue of redeem requests,   *)
(* laid end to end on an axis of LsETH, and a stack of withdrawal events,  *)
(* laid end to end on the same axis by the reports of River.  The stretch  *)
(* of a request that the stack covers can be claimed for ETH.              *)
(*                                                                         *)
(* A contract call is atomic, except that a claim hands control to every   *)
(* recipient it pays.  A claim is therefore a sequence of steps of pc, one *)
(* per recursion level of _claimRedeemRequest, and nothing else runs until *)
(* it ends, save what a recipient may call back ("callback").  The claims  *)
(* themselves are nonReentrant.  A revert restores the storage the         *)
(* transaction started from.                                               *)
(*                                                                         *)
(* Identifiers are one-based here and zero-based in the code.              *)
(***************************************************************************)
EXTENDS Integers, Segments, Sequences, Functions

CONSTANTS
  Account,              \* recipients and initiators of redeem requests
  LsETHAmount,          \* LsETH amounts a redeem request may ask for
  Rate,                 \* conversion rates River may apply
  RedeemBalance,        \* values of River's BalanceToRedeem
  PullLimit,            \* values of _max River may pull
  Depth,                \* values of _depth a claimer may pass
  MaxRequests,          \* bound on the redeem queue
  MaxWithdrawalEvents,  \* bound on the withdrawal stack
  MaxBatch              \* bound on the length of a claim's arrays

ASSUME RedeemAssumption ==
  /\ LsETHAmount \subseteq Nat
  /\ Rate \subseteq [assets : Nat, supply : Nat]
  /\ RedeemBalance \subseteq Nat
  /\ PullLimit \subseteq Nat
  /\ Depth \subseteq Nat
  /\ MaxRequests \in Nat
  /\ MaxWithdrawalEvents \in Nat
  /\ MaxBatch \in Nat

VARIABLES
  storage,                  \* what a revert restores: the contract's storage and ETH
  denied,                   \* accounts the allowlist denies
  slashingContainmentMode,  \* River's mode, set by the last report
  pc,                       \* where the transaction in progress stands
  call,                     \* the claim's arguments and cached lengths
  params,                   \* ClaimRedeemRequestParameters, in memory
  txStart                   \* the storage the transaction started from

vars == <<storage, denied, slashingContainmentMode, pc, call, params, txStart>>

-----------------------------------------------------------------------------
(* Records                                                                 *)

Event == [height : Nat, amount : Nat, withdrawnEth : Nat]

Request == [height : Nat, amount : Nat, maxRedeemableEth : Nat,
            recipient : Account, initiator : Account]

Placement == [height : Nat, amount : Nat, maxRedeemableEth : Nat]

\* placed and paid are history: each request as it was pushed, and the ETH it
\* has been paid.
Storage == [redeemRequests : Seq(Request), withdrawalEvents : Seq(Event),
            redeemDemand : Nat, bufferedExceedingEth : Nat, balance : Nat,
            placed : Seq(Placement), paid : Seq(Nat)]

EmptyStorage == [redeemRequests |-> <<>>, withdrawalEvents |-> <<>>,
                 redeemDemand |-> 0, bufferedExceedingEth |-> 0, balance |-> 0,
                 placed |-> <<>>, paid |-> <<>>]

Call == [left : Nat, skipAlreadyClaimed : BOOLEAN, depth : Nat,
         redeemRequestCount : Nat, withdrawalEventCount : Nat]

NoCall == [left |-> 0, skipAlreadyClaimed |-> FALSE, depth |-> 0,
           redeemRequestCount |-> 0, withdrawalEventCount |-> 0]

Params == [redeemRequestId : Nat, withdrawalEventId : Nat, depth : Nat,
           height : Nat, amount : Nat, maxRedeemableEth : Nat, ethAmount : Nat]

NoParams == [redeemRequestId |-> 0, withdrawalEventId |-> 0, depth |-> 0,
             height |-> 0, amount |-> 0, maxRedeemableEth |-> 0, ethAmount |-> 0]

TypeOK ==
  /\ storage \in Storage
  /\ denied \subseteq Account
  /\ slashingContainmentMode \in BOOLEAN
  /\ pc \in {"idle", "loop", "match", "pay", "callback"}
  /\ call \in Call
  /\ params \in Params
  /\ txStart \in Storage

-----------------------------------------------------------------------------
(* Positions on the LsETH axis                                             *)

EndOfLast(segments) ==
  IF segments = <<>> THEN 0 ELSE EndOf(segments[Len(segments)])

Smaller(a, b) == IF a < b THEN a ELSE b

-----------------------------------------------------------------------------
(* River, as far as the redeem manager sees it                             *)

BalanceFromShares(rate, shares) ==
  IF rate.supply = 0 THEN 0 ELSE (shares * rate.assets) \div rate.supply

SharesFromBalance(rate, eth) ==
  IF rate.assets = 0 THEN 0 ELSE (eth * rate.supply) \div rate.assets

\* What River._reportWithdrawToRedeemManager hands over: the ETH that covers
\* the whole demand, or all it has and the LsETH that is worth.
Supply(rate, available, demand) ==
  LET demandInEth == BalanceFromShares(rate, demand)
  IN  IF demandInEth > available
        THEN [lsETH |-> SharesFromBalance(rate, available), eth |-> available]
        ELSE [lsETH |-> demand, eth |-> demandInEth]

-----------------------------------------------------------------------------
(* Requests, reports and pulls                                             *)

\* Between transactions, or inside the code of a recipient being paid.
Entered == pc \in {"idle", "callback"}

RequestRedeem(initiator, recipient, lsETHAmount, rate) ==
  LET request == [height |-> EndOfLast(storage.redeemRequests),
                  amount |-> lsETHAmount,
                  maxRedeemableEth |-> BalanceFromShares(rate, lsETHAmount)]
  IN
  /\ Entered
  /\ ~slashingContainmentMode
  /\ initiator \notin denied
  /\ recipient \notin denied
  /\ lsETHAmount > 0
  /\ Len(storage.redeemRequests) < MaxRequests
  /\ storage' = [storage EXCEPT
       !.redeemRequests = Append(@,
          [height |-> request.height,
           amount |-> request.amount,
           maxRedeemableEth |-> request.maxRedeemableEth,
           recipient |-> recipient, initiator |-> initiator]),
       !.redeemDemand = @ + lsETHAmount,
       !.placed = Append(@, request),
       !.paid = Append(@, 0)]
  /\ UNCHANGED <<denied, slashingContainmentMode, pc, call, params, txStart>>

ReportWithdraw(lsETHWithdrawable, value) ==
  /\ Entered
  /\ lsETHWithdrawable <= storage.redeemDemand
  /\ Len(storage.withdrawalEvents) < MaxWithdrawalEvents
  /\ storage' = [storage EXCEPT
       !.withdrawalEvents = Append(@,
          [height |-> EndOfLast(@), amount |-> lsETHWithdrawable,
           withdrawnEth |-> value]),
       !.redeemDemand = @ - lsETHWithdrawable,
       !.balance = @ + value]
  /\ UNCHANGED <<denied, slashingContainmentMode, pc, call, params, txStart>>

RiverReportsWithdraw(rate, available) ==
  LET supply == Supply(rate, available, storage.redeemDemand)
  IN  /\ rate.assets > 0
      /\ rate.supply > 0
      /\ supply.eth > 0
      /\ ReportWithdraw(supply.lsETH, supply.eth)

\* Variants of PullExceedingEth: without the min, and without the subtraction.
PullExceedingEthUncapped(max) ==
  /\ Entered
  /\ max <= storage.balance
  /\ storage' = [storage EXCEPT !.bufferedExceedingEth = @ - max,
                                !.balance = @ - max]
  /\ UNCHANGED <<denied, slashingContainmentMode, pc, call, params, txStart>>

PullExceedingEthKeepingBuffer(max) ==
  LET amountToSend == Smaller(storage.bufferedExceedingEth, max)
  IN
  /\ Entered
  /\ amountToSend > 0
  /\ amountToSend <= storage.balance
  /\ storage' = [storage EXCEPT !.balance = @ - amountToSend]
  /\ UNCHANGED <<denied, slashingContainmentMode, pc, call, params, txStart>>

PullExceedingEth(max) ==
  LET amountToSend == Smaller(storage.bufferedExceedingEth, max)
  IN
  /\ Entered
  /\ amountToSend > 0
  /\ amountToSend <= storage.balance
  /\ storage' = [storage EXCEPT !.bufferedExceedingEth = @ - amountToSend,
                                !.balance = @ - amountToSend]
  /\ UNCHANGED <<denied, slashingContainmentMode, pc, call, params, txStart>>

\* The allowlist and the report flag change in transactions of their own.
SetDenied(accounts) ==
  /\ pc = "idle"
  /\ accounts # denied
  /\ denied' = accounts
  /\ UNCHANGED <<storage, slashingContainmentMode, pc, call, params, txStart>>

SetSlashingContainmentMode ==
  /\ pc = "idle"
  /\ slashingContainmentMode' = ~slashingContainmentMode
  /\ UNCHANGED <<storage, denied, pc, call, params, txStart>>

-----------------------------------------------------------------------------
(* Claims: _claimRedeemRequests, one array entry after another             *)

Return ==
  /\ pc' = "idle"
  /\ call' = NoCall
  /\ params' = NoParams
  /\ txStart' = EmptyStorage
  /\ UNCHANGED <<denied, slashingContainmentMode>>

Revert == storage' = txStart /\ Return

\* The entries of the two arrays are chosen when the loop reaches them.
ClaimRedeemRequests(length, skipAlreadyClaimed, depth) ==
  /\ pc = "idle"
  /\ pc' = "loop"
  /\ call' = [left |-> length, skipAlreadyClaimed |-> skipAlreadyClaimed,
              depth |-> depth,
              redeemRequestCount |-> Len(storage.redeemRequests),
              withdrawalEventCount |-> Len(storage.withdrawalEvents)]
  /\ txStart' = storage
  /\ UNCHANGED <<storage, denied, slashingContainmentMode, params>>

InBounds(r, e) ==
  /\ r <= call.redeemRequestCount
  /\ e <= call.withdrawalEventCount

DeniesPayee(request) ==
  \/ request.recipient \in denied
  \/ request.initiator \in denied

Claimable(r, e) ==
  LET request == storage.redeemRequests[r]
  IN  /\ InBounds(r, e)
      /\ ~DeniesPayee(request)
      /\ request.amount > 0
      /\ IsMatch(request, storage.withdrawalEvents[e])

Skippable(r, e) ==
  /\ InBounds(r, e)
  /\ ~DeniesPayee(storage.redeemRequests[r])
  /\ storage.redeemRequests[r].amount = 0
  /\ call.skipAlreadyClaimed

LoadItem(r, e) ==
  LET request == storage.redeemRequests[r]
  IN
  /\ pc = "loop"
  /\ call.left > 0
  /\ Claimable(r, e)
  /\ pc' = "match"
  /\ call' = [call EXCEPT !.left = @ - 1]
  /\ params' = [redeemRequestId |-> r, withdrawalEventId |-> e,
                depth |-> call.depth, height |-> request.height,
                amount |-> request.amount,
                maxRedeemableEth |-> request.maxRedeemableEth, ethAmount |-> 0]
  /\ UNCHANGED <<storage, denied, slashingContainmentMode, txStart>>

SkipItem(r, e) ==
  /\ pc = "loop"
  /\ call.left > 0
  /\ Skippable(r, e)
  /\ call' = [call EXCEPT !.left = @ - 1]
  /\ UNCHANGED <<storage, denied, slashingContainmentMode, pc, params, txStart>>

RejectItem(r, e) ==
  /\ pc = "loop"
  /\ call.left > 0
  /\ ~Claimable(r, e)
  /\ ~Skippable(r, e)
  /\ Revert

EndClaim ==
  /\ pc = "loop"
  /\ call.left = 0
  /\ Return
  /\ UNCHANGED storage

-----------------------------------------------------------------------------
(* One recursion level of _claimRedeemRequest                              *)

CurrentEvent == storage.withdrawalEvents[params.withdrawalEventId]

\* Variant of MatchingAmount: the whole request, past the end of the event.
UnclampedAmount == params.amount

MatchingAmount == Smaller(params.amount, EndOf(CurrentEvent) - params.height)

EventEth == (MatchingAmount * CurrentEvent.withdrawnEth) \div CurrentEvent.amount

\* Variant of MaxRedeemableEthAmount: the whole ceiling, not its pro rata part.
WholeCeiling == params.maxRedeemableEth

MaxRedeemableEthAmount ==
  (MatchingAmount * params.maxRedeemableEth) \div params.amount

EthAmount == Smaller(EventEth, MaxRedeemableEthAmount)

ExceedingEthAmount == EventEth - EthAmount

\* Checked arithmetic: the division by the event's amount, and the two
\* subtractions.
Panics ==
  \/ CurrentEvent.amount = 0
  \/ EndOf(CurrentEvent) < params.height

Descends ==
  /\ params.amount - MatchingAmount > 0
  /\ params.withdrawalEventId + 1 <= call.withdrawalEventCount
  /\ params.depth > 0

Matched ==
  [params EXCEPT !.height = @ + MatchingAmount,
                 !.amount = @ - MatchingAmount,
                 !.maxRedeemableEth = @ - EthAmount,
                 !.ethAmount = @ + EthAmount]

\* Variant of MatchAndDescend: the event id and the depth stay as they are.
MatchAndDescendInPlace ==
  /\ pc = "match"
  /\ ~Panics
  /\ Descends
  /\ params' = Matched
  /\ storage' = [storage EXCEPT !.bufferedExceedingEth = @ + ExceedingEthAmount]
  /\ UNCHANGED <<denied, slashingContainmentMode, pc, call, txStart>>

MatchAndDescend ==
  /\ pc = "match"
  /\ ~Panics
  /\ Descends
  /\ params' = [Matched EXCEPT !.withdrawalEventId = @ + 1, !.depth = @ - 1]
  /\ storage' = [storage EXCEPT !.bufferedExceedingEth = @ + ExceedingEthAmount]
  /\ UNCHANGED <<denied, slashingContainmentMode, pc, call, txStart>>

\* Variant of SavedRequest: the ceiling is not written back.
SavedRequestKeepingCeiling(request, matched) ==
  [request EXCEPT !.height = matched.height, !.amount = matched.amount]

SavedRequest(request, matched) ==
  [request EXCEPT !.height = matched.height,
                  !.amount = matched.amount,
                  !.maxRedeemableEth = matched.maxRedeemableEth]

MatchAndSave ==
  /\ pc = "match"
  /\ ~Panics
  /\ ~Descends
  /\ params' = Matched
  /\ pc' = "pay"
  /\ storage' = [storage EXCEPT
       !.bufferedExceedingEth = @ + ExceedingEthAmount,
       !.redeemRequests[params.redeemRequestId] = SavedRequest(@, Matched)]
  /\ UNCHANGED <<denied, slashingContainmentMode, call, txStart>>

MatchPanics ==
  /\ pc = "match"
  /\ Panics
  /\ Revert

-----------------------------------------------------------------------------
(* The call that pays the recipient                                        *)

PayRecipient ==
  /\ pc = "pay"
  /\ params.ethAmount <= storage.balance
  /\ pc' = "callback"
  /\ storage' = [storage EXCEPT
       !.balance = @ - params.ethAmount,
       !.paid[params.redeemRequestId] = @ + params.ethAmount]
  /\ UNCHANGED <<denied, slashingContainmentMode, call, params, txStart>>

\* The recipient refuses the ETH, or its code fails after some calls.
RecipientReverts ==
  /\ pc \in {"pay", "callback"}
  /\ Revert

RecipientReturns ==
  /\ pc = "callback"
  /\ pc' = "loop"
  /\ params' = NoParams
  /\ UNCHANGED <<storage, denied, slashingContainmentMode, call, txStart>>

-----------------------------------------------------------------------------
Init ==
  /\ storage = EmptyStorage
  /\ denied = {}
  /\ slashingContainmentMode = FALSE
  /\ pc = "idle"
  /\ call = NoCall
  /\ params = NoParams
  /\ txStart = EmptyStorage

ClaimStep ==
  \/ \E r \in 1..(MaxRequests + 1), e \in 1..(MaxWithdrawalEvents + 1) :
       LoadItem(r, e) \/ SkipItem(r, e) \/ RejectItem(r, e)
  \/ MatchAndDescend
  \/ MatchAndSave
  \/ MatchPanics
  \/ PayRecipient
  \/ RecipientReverts
  \/ RecipientReturns
  \/ EndClaim

Next ==
  \/ \E initiator, recipient \in Account, a \in LsETHAmount, rate \in Rate :
       RequestRedeem(initiator, recipient, a, rate)
  \/ \E rate \in Rate, available \in RedeemBalance :
       RiverReportsWithdraw(rate, available)
  \/ \E max \in PullLimit : PullExceedingEth(max)
  \/ \E accounts \in SUBSET Account : SetDenied(accounts)
  \/ SetSlashingContainmentMode
  \/ \E n \in 0..MaxBatch, skip \in BOOLEAN, d \in Depth :
       ClaimRedeemRequests(n, skip, d)
  \/ ClaimStep

Spec == Init /\ [][Next]_vars

\* The EVM runs a transaction to its end once it has started.
FairSpec == Spec /\ WF_vars(ClaimStep)

-----------------------------------------------------------------------------
(* Properties                                                              *)

InClaim == pc # "idle"

Requests(s) == s.redeemRequests
Events(s) == s.withdrawalEvents

\* Withdrawal events are laid end to end from the origin.
StackIsContiguous(s) ==
  \A e \in DOMAIN Events(s) :
    Events(s)[e].height = IF e = 1 THEN 0 ELSE EndOf(Events(s)[e - 1])

\* A request still ends where it was placed, and was placed at the end of its
\* predecessor: claims move its height, never its end.
QueueIsContiguous(s) ==
  /\ Len(s.placed) = Len(Requests(s))
  /\ \A r \in DOMAIN Requests(s) :
       /\ EndOf(Requests(s)[r]) = EndOf(s.placed[r])
       /\ s.placed[r].height <= Requests(s)[r].height
       /\ s.placed[r].height = IF r = 1 THEN 0 ELSE EndOf(s.placed[r - 1])

\* The redeem demand is exactly the LsETH in the queue that no event covers.
DemandIsUncovered(s) ==
  s.redeemDemand = EndOfLast(Requests(s)) - EndOfLast(Events(s))

\* A request has only advanced into the covered part of the axis.
ClaimsAreCovered(s) ==
  \A r \in DOMAIN Requests(s) :
    \/ Requests(s)[r].height = s.placed[r].height
    \/ Requests(s)[r].height <= EndOfLast(Events(s))

\* Invariant: on every storage a caller can see, and on the one a revert would
\* restore, the queue and the stack are two contiguous tilings of one axis, the
\* demand is the gap between their ends, and nobody has claimed past the stack
\* (_requestRedeem, reportWithdraw and _claimRedeemRequest keep three records
\* of the same quantity).
AxisIsConsistent ==
  \A s \in {storage, txStart} :
    /\ StackIsContiguous(s)
    /\ QueueIsContiguous(s)
    /\ DemandIsUncovered(s)
    /\ ClaimsAreCovered(s)

\* The LsETH of a request that an event covers and that is still to be claimed.
Covered(request, event) ==
  LET overlap == Smaller(EndOf(request), EndOf(event)) -
                 (IF request.height < event.height THEN event.height ELSE request.height)
  IN  IF overlap > 0 THEN overlap ELSE 0

\* What an event pays for its overlap with a request, rounded down.
Share(request, event) ==
  IF Covered(request, event) = 0 THEN 0
  ELSE (Covered(request, event) * event.withdrawnEth) \div event.amount

OwedTo(request, s) == SumFunction([e \in DOMAIN Events(s) |-> Share(request, Events(s)[e])])

Owed(s) == SumFunction([r \in DOMAIN Requests(s) |-> OwedTo(Requests(s)[r], s)])

\* Invariant: the ETH the contract holds always pays the exceeding buffer, the
\* payment in flight, and everything the covered requests can still claim at the
\* price of their events, whatever the order of claims, pulls and reports and
\* however the divisions round.
Solvent ==
  pc # "match" =>
    storage.bufferedExceedingEth + Owed(storage)
      + (IF pc = "pay" THEN params.ethAmount ELSE 0) <= storage.balance

\* Invariant: the ETH a request has been paid and the ceiling it has left add up
\* to the value it had when it was placed, so it never receives more than that;
\* a payment being made is already taken from the ceiling.
PaidWithinCeiling ==
  \A r \in DOMAIN storage.paid :
    storage.paid[r] + storage.redeemRequests[r].maxRedeemableEth
      + (IF pc = "pay" /\ r = params.redeemRequestId THEN params.ethAmount ELSE 0)
      = storage.placed[r].maxRedeemableEth

\* The storage of the last completed transaction.
Committed == IF InClaim THEN txStart ELSE storage

Promise == INSTANCE RedeemQueue WITH
  queue <- Committed.placed,
  stack <- Committed.withdrawalEvents,
  claimed <- [r \in DOMAIN Committed.placed |->
                Committed.redeemRequests[r].height - Committed.placed[r].height],
  paid <- Committed.paid

\* Property: transaction by transaction, the manager implements RedeemQueue:
\* claims are all or nothing, and what a request is paid does not depend on the
\* way it is claimed, in one call or piecewise, with or without requests and
\* reports made from inside the recipients' code.
ImplementsRedeemQueue == Promise!Spec

\* Property: every claim ends: _claimRedeemRequest stops recursing and the loop
\* reaches the end of its arrays or reverts.
ClaimEnds == InClaim ~> ~InClaim

\* What RedeemManager.1.sol:440-442 says: a request that was not entirely
\* matched is now assigned to the next withdrawal event, its height being the
\* height of that event.
RemainderMatchesNextEvent ==
  pc = "match" => IsMatch(params, CurrentEvent)

=============================================================================
