------------------------------ MODULE MCVesting ------------------------------
(* Instances of Vesting for TLC.                                           *)
EXTENDS Vesting, TLC

CONSTANTS a, b

Terms1 == [start |-> 0, lockDuration |-> 1, cliffDuration |-> 2, duration |-> 4,
           periodDuration |-> 2, amount |-> 5, revocable |-> TRUE]

Terms2 == [Terms1 EXCEPT !.start = 3, !.cliffDuration = 0, !.periodDuration = 1]

Terms3 == [Terms1 EXCEPT !.lockDuration = 5, !.duration = 2, !.amount = 2, !.revocable = FALSE]

SomeOffers == {Terms1, Terms2, Terms3}

OldTerms == [Terms1 EXCEPT !.start = 1]

OldSchedule(end) == [terms |-> OldTerms, end |-> end, creator |-> a, beneficiary |-> b]

\* A new token, and one with a schedule nothing was released from.
FreshOrUnreleased == {<<>>, <<[schedule |-> OldSchedule(5), escrow |-> 5]>>}

\* A schedule that was revoked, its last tokens returned to the creator.
Revoked == {<<[schedule |-> OldSchedule(3), escrow |-> 2]>>}

=============================================================================
