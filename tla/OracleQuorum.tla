---------------------------- MODULE OracleQuorum ----------------------------
(***************************************************************************)
(* What the oracle promises River, without the way it counts: the seats of *)
(* a committee vote on the report of an epoch, one vote a seat, and a      *)
(* report is pushed by the vote that makes a quorum of seats agree on it.  *)
(* A vote for a later epoch starts a new ballot, and so does every change  *)
(* of the committee's size or of its quorum.                               *)
(***************************************************************************)
EXTENDS Integers, FiniteSets, Functions

CONSTANT Report     \* the reports a seat may vote for, each with an epoch

VARIABLES
  seats,   \* the number of seats
  quorum,  \* the votes that push a report
  epoch,   \* the epoch of the ballot, or one past that of the last push
  ballot,  \* the votes: a function from the seats that voted to reports
  pushed   \* the epoch of the last report pushed

vars == <<seats, quorum, epoch, ballot, pushed>>

NoVotes == [s \in {} |-> {}]

Supporters(votes, report) == {s \in DOMAIN votes : votes[s] = report}

Init ==
  /\ seats = 0
  /\ quorum = 0
  /\ epoch = 0
  /\ ballot = NoVotes
  /\ pushed = 0

\* The votes once a seat has voted: the ballot's, if it is for its epoch.
Cast(seat, report) ==
  LET running == IF report.epoch = epoch THEN ballot ELSE NoVotes
  IN  [s \in DOMAIN running \cup {seat} |->
         IF s = seat THEN report ELSE running[s]]

MayVote(seat, report) ==
  /\ report.epoch >= epoch
  /\ report.epoch > pushed
  /\ report.epoch = epoch => seat \notin DOMAIN ballot

Vote(seat, report) ==
  /\ MayVote(seat, report)
  /\ Cardinality(Supporters(Cast(seat, report), report)) < quorum
  /\ ballot' = Cast(seat, report)
  /\ epoch' = report.epoch
  /\ UNCHANGED <<seats, quorum, pushed>>

Push(seat, report) ==
  /\ MayVote(seat, report)
  /\ Cardinality(Supporters(Cast(seat, report), report)) >= quorum
  /\ ballot' = NoVotes
  /\ epoch' = report.epoch + 1
  /\ pushed' = report.epoch
  /\ UNCHANGED <<seats, quorum>>

\* The quorum is within the committee, and only an empty committee has none.
Reorganise ==
  /\ seats' \in {seats - 1, seats, seats + 1}
  /\ quorum' \in 0..seats'
  /\ seats' > 0 => quorum' > 0
  /\ ballot' = NoVotes
  /\ UNCHANGED <<epoch, pushed>>

Next ==
  \/ \E seat \in 1..seats, report \in Report : Vote(seat, report) \/ Push(seat, report)
  \/ Reorganise

Spec == Init /\ [][Next]_vars

=============================================================================
