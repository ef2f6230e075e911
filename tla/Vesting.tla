------------------------------- MODULE Vesting -------------------------------
(***************************************************************************)
(* The vesting schedules of the TLC token                                  *)
(* (ERC20VestableVotesUpgradeable.1.sol): a creator puts tokens in escrow, *)
(* they vest period by period, the beneficiary releases what has vested,   *)
(* within the lock and the global unlock schedule, and the creator may     *)
(* revoke what has not vested yet.  A schedule's escrow is an address      *)
(* computed from its index; it is the entry of "escrow" at that index.     *)
(*                                                                         *)
(* The specification starts when the token is upgraded: schedules of the   *)
(* first version are migrated in the transaction of the upgrade.  Left     *)
(* out: voting power and its delegation, which the token's library keeps.  *)
(***************************************************************************)
EXTENDS Integers, Sequences

CONSTANTS
  Holder,       \* holders of the token
  Holder0,       \* the account the whole supply was minted to
  InitialSupply,        \* INITIAL_SUPPLY
  Month,         \* 365 days / 12
  UnlockParts,   \* 24, the months the global unlock schedule takes
  Offers,        \* parameters a schedule may be created with
  Old,           \* sequences of schedules the upgrade may find, with their escrows
  Transfers,     \* amounts transferred between accounts
  Upgraded,      \* time of the upgrade
  MaxTime,       \* bound on the time
  MaxSchedules   \* bound on the number of schedules

Terms ==
  [start : Nat, lockDuration : Nat, cliffDuration : Nat, duration : Nat,
   periodDuration : Nat, amount : Nat, revocable : BOOLEAN]

ScheduleV1 == [terms : Terms, end : Nat, creator : Holder, beneficiary : Holder]

Schedule ==
  [terms : Terms, end : Nat, creator : Holder, beneficiary : Holder,
   releasedAmount : Nat, ignoreGlobalUnlock : BOOLEAN]

\* The requirements of createVestingSchedule that what vests is computed from.
VestsInTime(t) ==
  /\ t.duration > 0
  /\ t.periodDuration > 0
  /\ t.cliffDuration <= t.duration

ASSUME VestingAssumption ==
  /\ Holder0 \in Holder
  /\ InitialSupply \in Nat
  /\ Month \in Nat \ {0}
  /\ UnlockParts \in Nat \ {0}
  /\ Offers \subseteq Terms
  /\ \A old \in Old :
       /\ old \in Seq([schedule : ScheduleV1, escrow : Nat])
       /\ \A i \in DOMAIN old :
            LET s == old[i].schedule
            IN  /\ VestsInTime(s.terms)
                /\ s.end \in s.terms.start..(s.terms.start + s.terms.duration)
  /\ Transfers \subseteq Nat
  /\ Upgraded \in Nat \ {0}
  /\ MaxTime \in Nat
  /\ MaxSchedules \in Nat

\* The upgrade finds no schedule that was revoked, and no tokens in an escrow
\* beyond a schedule's own.
NothingRevoked ==
  \A old \in Old : \A i \in DOMAIN old :
    LET s == old[i].schedule
    IN  /\ s.end = s.terms.start + s.terms.duration
        /\ old[i].escrow <= s.terms.amount

VARIABLES
  now,        \* block.timestamp
  schedules,  \* VestingSchedulesV2, with their IgnoreGlobalUnlockSchedule
  escrow,     \* balances of the schedules' escrows
  balances    \* balances of the accounts

vestingVars == <<now, schedules, escrow, balances>>

VestingTypeOK ==
  /\ now \in Nat
  /\ schedules \in Seq(Schedule)
  /\ escrow \in Seq(Nat)
  /\ Len(escrow) = Len(schedules)
  /\ balances \in [Holder -> Nat]

Least(a, b) == IF a < b THEN a ELSE b

-----------------------------------------------------------------------------
(* What has vested and what may be released                                *)

\* _computeVestedAmount
VestedAmount(s, time) ==
  LET t == s.terms
      elapsed == time - t.start
  IN
  IF time < t.start + t.cliffDuration THEN 0
  ELSE IF time >= t.start + t.duration THEN t.amount
  ELSE ((elapsed \div t.periodDuration) * t.periodDuration * t.amount) \div t.duration

\* Variant of GlobalUnlocked: the last part never comes.
GlobalUnlockedShort(amount, elapsed) ==
  (amount \div UnlockParts) * Least(elapsed \div Month, UnlockParts - 1)

\* _computeGlobalUnlocked
GlobalUnlocked(amount, elapsed) ==
  Least((amount \div UnlockParts) * (elapsed \div Month), amount)

Unlock(s) == s.terms.start + s.terms.lockDuration

IsLocked(s) == now < Unlock(s)

VestedNow(s) == VestedAmount(s, Least(now, s.end))

UnlockedNow(s) == GlobalUnlocked(s.terms.amount, now - Unlock(s))

\* _computeVestingReleasableAmount reverts with GlobalUnlockUnderlfow.
Underflows(s) ==
  /\ VestedNow(s) > s.releasedAmount
  /\ ~s.ignoreGlobalUnlock
  /\ s.releasedAmount > UnlockedNow(s)

\* _computeVestingReleasableAmount, where it does not revert
ReleasableAmount(s) ==
  IF IsLocked(s) \/ VestedNow(s) <= s.releasedAmount THEN 0
  ELSE IF s.ignoreGlobalUnlock THEN VestedNow(s) - s.releasedAmount
  ELSE Least(VestedNow(s), UnlockedNow(s)) - s.releasedAmount

-----------------------------------------------------------------------------
(* The operations                                                          *)

\* migrateVestingSchedulesFromV1ToV2: what is not in the escrow any more counts
\* as released; every schedule follows the global unlock schedule.
MigratedFromV1(old) ==
  LET s == old.schedule
  IN  [terms |-> s.terms, end |-> s.end, creator |-> s.creator,
       beneficiary |-> s.beneficiary,
       releasedAmount |-> s.terms.amount - Least(old.escrow, s.terms.amount),
       ignoreGlobalUnlock |-> FALSE]

\* What createVestingSchedule requires of a schedule's terms.
AreValid(t) ==
  /\ VestsInTime(t)
  /\ t.amount > 0
  /\ t.duration % t.periodDuration = 0
  /\ t.cliffDuration % t.periodDuration = 0
  /\ (t.amount * t.periodDuration) \div t.duration > 0

CanPay(creator, amount) == balances[creator] >= amount

\* A start of 0 stands for the current time.
CreateVestingSchedule(creator, beneficiary, offer, ignore) ==
  LET t == [offer EXCEPT !.start = IF @ = 0 THEN now ELSE @]
  IN
  /\ Len(schedules) < MaxSchedules
  /\ CanPay(creator, offer.amount)
  /\ AreValid(offer)
  /\ schedules' = Append(schedules,
       [terms |-> t, end |-> t.start + t.duration, creator |-> creator,
        beneficiary |-> beneficiary, releasedAmount |-> 0, ignoreGlobalUnlock |-> ignore])
  /\ escrow' = Append(escrow, t.amount)
  /\ balances' = [balances EXCEPT ![creator] = @ - t.amount]
  /\ UNCHANGED now

\* Variant of MayEndAt: the past is not excluded.
MayHaveEndedAt(s, end) == end >= s.terms.start /\ end <= s.end

MayEndAt(s, end) ==
  /\ end >= now
  /\ end >= s.terms.start
  /\ end <= s.end

\* Variant of RevokeVestingSchedule: the schedule keeps its end.
RevokeKeepingEnd(i, end) ==
  LET s == schedules[i]
      returned == VestedAmount(s, s.end) - VestedAmount(s, end)
  IN
  /\ s.terms.revocable
  /\ MayEndAt(s, end)
  /\ returned <= escrow[i]
  /\ escrow' = [escrow EXCEPT ![i] = @ - returned]
  /\ balances' = [balances EXCEPT ![s.creator] = @ + returned]
  /\ UNCHANGED <<now, schedules>>

\* What will never vest goes back to the creator.
RevokeVestingSchedule(i, end) ==
  LET s == schedules[i]
      returned == VestedAmount(s, s.end) - VestedAmount(s, end)
  IN
  /\ s.terms.revocable
  /\ MayEndAt(s, end)
  /\ returned <= escrow[i]
  /\ schedules' = [schedules EXCEPT ![i].end = end]
  /\ escrow' = [escrow EXCEPT ![i] = @ - returned]
  /\ balances' = [balances EXCEPT ![s.creator] = @ + returned]
  /\ UNCHANGED now

ReleaseVestingSchedule(i) ==
  LET s == schedules[i]
      releasable == ReleasableAmount(s)
  IN
  /\ ~IsLocked(s)
  /\ ~Underflows(s)
  /\ releasable \in 1..escrow[i]
  /\ schedules' = [schedules EXCEPT ![i].releasedAmount = @ + releasable]
  /\ escrow' = [escrow EXCEPT ![i] = @ - releasable]
  /\ balances' = [balances EXCEPT ![s.beneficiary] = @ + releasable]
  /\ UNCHANGED now

TransferTLC(from, to, value) ==
  /\ value <= balances[from]
  /\ balances' = [balances EXCEPT ![from] = @ - value, ![to] = @ + value]
  /\ UNCHANGED <<now, schedules, escrow>>

TimePasses ==
  /\ now < MaxTime
  /\ now' = now + 1
  /\ UNCHANGED <<schedules, escrow, balances>>

-----------------------------------------------------------------------------
VestingInit ==
  \E old \in Old :
    /\ now = Upgraded
    /\ schedules = [i \in DOMAIN old |-> MigratedFromV1(old[i])]
    /\ escrow = [i \in DOMAIN old |-> old[i].escrow]
    /\ balances = [a \in Holder |-> IF a = Holder0 THEN InitialSupply ELSE 0]

VestingNext ==
  \/ TimePasses
  \/ \E creator, beneficiary \in Holder, offer \in Offers, ignore \in BOOLEAN :
       CreateVestingSchedule(creator, beneficiary, offer, ignore)
  \/ \E i \in DOMAIN schedules :
       \/ \E end \in schedules[i].terms.start..schedules[i].end : RevokeVestingSchedule(i, end)
       \/ ReleaseVestingSchedule(i)
  \/ \E from \in Holder, value \in Transfers :
       \E to \in Holder \ {from} : TransferTLC(from, to, value)

VestingSpec == VestingInit /\ [][VestingNext]_vestingVars

-----------------------------------------------------------------------------
(* Properties                                                              *)

\* Invariant: the escrow of a schedule holds what will vest and has not been
\* released, after any number of releases and revocations, and no escrow or account
\* pays what it does not have.
EscrowIsOwed ==
  /\ VestingTypeOK
  /\ \A i \in DOMAIN schedules :
       LET s == schedules[i]
       IN  escrow[i] = VestedAmount(s, s.end) - s.releasedAmount

\* Past its end, its lock and one month more than the global unlock schedule takes
\* (the parts are rounded down; amounts of a few wei take longer).
IsOver(s) ==
  /\ now >= s.end
  /\ now >= Unlock(s) + Month * (UnlockParts + 1)
  /\ s.terms.amount >= UnlockParts * (UnlockParts - 1)

\* Invariant: once a schedule is over its beneficiary may release all that is left
\* in the escrow: no rounding, no revocation and no earlier release leaves tokens
\* there for ever.
NothingIsStuck ==
  \A i \in DOMAIN schedules :
    IsOver(schedules[i]) =>
      /\ ~Underflows(schedules[i])
      /\ ReleasableAmount(schedules[i]) = escrow[i]

\* Action property: what has vested stays vested; no revocation takes it back.
VestedNeverShrinks ==
  [][\A i \in DOMAIN schedules : VestedNow(schedules[i])' >= VestedNow(schedules[i])]_vestingVars

=============================================================================
