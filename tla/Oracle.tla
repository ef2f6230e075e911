------------------------------- MODULE Oracle -------------------------------
(***************************************************************************)
(* The oracle (Oracle.1.sol) and the part of River that tells whether an   *)
(* epoch may be reported (OracleManager.1.sol).  Members hold seats, the   *)
(* indexes of an array; a bit mask remembers which seats have voted, a     *)
(* list of variants how many votes each distinct report has, and the vote  *)
(* that reaches the quorum pushes the report to River in the same          *)
(* transaction.  Every call is atomic; a call that reverts, or that River  *)
(* makes revert, changes nothing and is not a step.                        *)
(*                                                                         *)
(* Seats are one-based here and zero-based in the code.  A report is its   *)
(* epoch and its data; its keccak256 checksum is taken to be itself.       *)
(***************************************************************************)
EXTENDS Integers, Sequences, FiniteSets, Functions

CONSTANTS
  Member,          \* addresses that may sit in the committee
  Data,            \* what reports of one epoch may differ in
  EpochsPerFrame,  \* frame lengths River's administrator may set
  Finality,        \* epochsToAssumedFinality
  WordBits,        \* the bits of the word that remembers who has voted: 256
  MaxMembers,      \* bound on the committee
  MaxEpoch         \* bound on the current epoch

ASSUME OracleAssumption ==
  /\ EpochsPerFrame \subseteq Nat \ {0}
  /\ Finality \in Nat
  /\ WordBits \in Nat
  /\ MaxMembers \in Nat
  /\ MaxEpoch \in Nat

VARIABLES
  members,         \* OracleMembers: the committee, seat by seat
  quorum,          \* Quorum
  positions,       \* ReportsPositions: the seats that have voted
  variants,        \* ReportsVariants: the distinct reports and their votes
  lastEpochId,     \* LastEpochId
  epochsPerFrame,  \* River's CLSpec
  reportedEpoch,   \* the epoch of River's LastConsensusLayerReport
  currentEpoch,    \* the epoch of the block's timestamp
  ballot           \* history: the vote of each seat since the last clearing

committee == <<members, quorum>>
reports == <<positions, variants, lastEpochId, ballot>>
river == <<epochsPerFrame, reportedEpoch, currentEpoch>>

vars == <<members, quorum, positions, variants, lastEpochId, epochsPerFrame,
          reportedEpoch, currentEpoch, ballot>>

Report == [epoch : Nat, data : Data]

Variant == [variant : Report, votes : Nat]

TypeOK ==
  /\ members \in Seq(Member)
  /\ quorum \in Nat
  /\ positions \subseteq 1..Len(members)
  /\ variants \in Seq(Variant)
  /\ lastEpochId \in Nat
  /\ epochsPerFrame \in EpochsPerFrame
  /\ reportedEpoch \in Nat
  /\ currentEpoch \in Nat
  /\ DOMAIN ballot = positions
  /\ \A s \in positions : ballot[s] \in Report

IsMember(m) == \E s \in DOMAIN members : members[s] = m

\* OracleMembers.indexOf: the first seat the member holds.
SeatOf(m) ==
  CHOOSE s \in DOMAIN members :
    /\ members[s] = m
    /\ \A t \in DOMAIN members : members[t] = m => s <= t

-----------------------------------------------------------------------------
(* Clearing                                                                *)

NoVotes == [s \in {} |-> {}]

ClearReports ==
  /\ variants' = <<>>
  /\ positions' = {}
  /\ ballot' = NoVotes

QuorumFits(q, memberCount) ==
  /\ memberCount > 0 => q > 0
  /\ q <= memberCount

\* Variant of ClearReportsAndSetQuorum: the votes survive.
SetQuorumOnly(q, memberCount) ==
  /\ QuorumFits(q, memberCount)
  /\ quorum' = q
  /\ UNCHANGED <<positions, variants, ballot>>

ClearReportsAndSetQuorum(q, memberCount) ==
  /\ QuorumFits(q, memberCount)
  /\ ClearReports
  /\ quorum' = q

-----------------------------------------------------------------------------
(* The committee, under its administrator                                  *)

AddMember(m, q) ==
  /\ ~IsMember(m)
  /\ Len(members) < MaxMembers
  /\ members' = Append(members, m)
  /\ ClearReportsAndSetQuorum(q, Len(members) + 1)
  /\ UNCHANGED <<lastEpochId, river>>

\* OracleMembers.deleteItem: the last member takes the seat that falls vacant.
Vacated(seat) ==
  [s \in 1..(Len(members) - 1) |->
     IF s = seat THEN members[Len(members)] ELSE members[s]]

RemoveMember(m, q) ==
  /\ IsMember(m)
  /\ members' = Vacated(SeatOf(m))
  /\ ClearReportsAndSetQuorum(q, Len(members) - 1)
  /\ UNCHANGED <<lastEpochId, river>>

\* A member, or the administrator, puts another address on the seat; the vote
\* of the seat stays.
SetMember(m, new) ==
  /\ ~IsMember(new)
  /\ IsMember(m)
  /\ members' = [members EXCEPT ![SeatOf(m)] = new]
  /\ UNCHANGED <<quorum, reports, river>>

SetQuorum(q) ==
  /\ q # quorum
  /\ ClearReportsAndSetQuorum(q, Len(members))
  /\ UNCHANGED <<members, lastEpochId, river>>

-----------------------------------------------------------------------------
(* River                                                                   *)

IsValidEpoch(epoch) ==
  /\ currentEpoch >= epoch + Finality
  /\ epoch > reportedEpoch
  /\ epoch % epochsPerFrame = 0

SetCLSpec(n) ==
  /\ n # epochsPerFrame
  /\ epochsPerFrame' = n
  /\ UNCHANGED <<committee, reports, reportedEpoch, currentEpoch>>

EpochPasses ==
  /\ currentEpoch < MaxEpoch
  /\ currentEpoch' = currentEpoch + 1
  /\ UNCHANGED <<committee, reports, epochsPerFrame, reportedEpoch>>

-----------------------------------------------------------------------------
(* Reporting                                                               *)

\* A later epoch than the last one clears the votes; Running is what a report of
\* the epoch finds of them.
Starts(epoch) == epoch > lastEpochId

Running(epoch, kept, cleared) == IF Starts(epoch) THEN cleared ELSE kept

Listed(list, report) == \E i \in DOMAIN list : list[i].variant = report

IndexOf(list, report) == CHOOSE i \in DOMAIN list : list[i].variant = report

VotesFor(list, report) ==
  IF Listed(list, report) THEN list[IndexOf(list, report)].votes ELSE 0

\* Variant of Counted: every vote makes a variant of its own.
CountedApart(list, report) == Append(list, [variant |-> report, votes |-> 1])

Counted(list, report) ==
  IF Listed(list, report)
    THEN [list EXCEPT ![IndexOf(list, report)].votes = @ + 1]
    ELSE Append(list, [variant |-> report, votes |-> 1])

\* Variant of HasReported: the last seat of the word is beyond it.
HasReportedShort(seat, voted) == seat \in voted \/ seat >= WordBits

\* Whether the word has the seat's bit.  The bit of a seat beyond the word is
\* shifted out of its mask, and any word has all the bits of an empty mask.
HasReported(seat, voted) == seat \in voted \/ seat > WordBits

\* The checks every vote goes through, in their order.
MayReport(m, report) ==
  /\ IsMember(m)
  /\ report.epoch >= lastEpochId
  /\ IsValidEpoch(report.epoch)
  /\ ~HasReported(SeatOf(m), Running(report.epoch, positions, {}))

\* Variant of ReachesQuorum: the vote being cast is not counted.
ReachesQuorumLate(report) ==
  VotesFor(Running(report.epoch, variants, <<>>), report) >= quorum

ReachesQuorum(report) ==
  VotesFor(Running(report.epoch, variants, <<>>), report) + 1 >= quorum

Vote(m, report) ==
  LET seat == SeatOf(m)
      kept == Running(report.epoch, ballot, NoVotes)
  IN
  /\ MayReport(m, report)
  /\ ~ReachesQuorum(report)
  /\ lastEpochId' = report.epoch
  /\ positions' = Running(report.epoch, positions, {}) \cup {seat}
  /\ variants' = Counted(Running(report.epoch, variants, <<>>), report)
  /\ ballot' = [s \in DOMAIN kept \cup {seat} |->
                  IF s = seat THEN report ELSE kept[s]]
  /\ UNCHANGED <<committee, river>>

\* River checks the epoch again and stores it; it may refuse the report for
\* reasons of its own, and then the vote is reverted too.
PushToRiver(m, report) ==
  /\ MayReport(m, report)
  /\ ReachesQuorum(report)
  /\ ClearReports
  /\ lastEpochId' = report.epoch + 1
  /\ reportedEpoch' = report.epoch
  /\ UNCHANGED <<committee, epochsPerFrame, currentEpoch>>

-----------------------------------------------------------------------------
Init ==
  /\ members = <<>>
  /\ quorum = 0
  /\ positions = {}
  /\ variants = <<>>
  /\ lastEpochId = 0
  /\ epochsPerFrame \in EpochsPerFrame
  /\ reportedEpoch = 0
  /\ currentEpoch = 0
  /\ ballot = NoVotes

Next ==
  \/ \E m \in Member, q \in 0..MaxMembers : AddMember(m, q) \/ RemoveMember(m, q)
  \/ \E m, new \in Member : SetMember(m, new)
  \/ \E q \in 0..MaxMembers : SetQuorum(q)
  \/ \E n \in EpochsPerFrame : SetCLSpec(n)
  \/ EpochPasses
  \/ \E m \in Member, report \in [epoch : 0..MaxEpoch, data : Data] :
       Vote(m, report) \/ PushToRiver(m, report)

Spec == Init /\ [][Next]_vars

-----------------------------------------------------------------------------
(* Properties                                                              *)

Supporters(report) == {s \in positions : ballot[s] = report}

\* Invariant: the bit mask, the list of variants and the votes actually cast are
\* three records of one ballot: each variant is listed once, with as many votes
\* as there are seats that voted for it, and every vote is listed.
BallotIsCounted ==
  /\ TypeOK
  /\ \A i \in DOMAIN variants :
       /\ variants[i].votes = Cardinality(Supporters(variants[i].variant))
       /\ variants[i].votes > 0
  /\ \A i, j \in DOMAIN variants : variants[i].variant = variants[j].variant => i = j
  /\ \A s \in positions : Listed(variants, ballot[s])

\* Invariant: no report that has its quorum waits in the list.  Votes are only
\* compared with the quorum when one is cast, so whatever lowers the quorum has
\* to clear the votes (_clearReportsAndSetQuorum).
NoQuorumIsPending ==
  \A i \in DOMAIN variants : variants[i].votes < quorum

\* Invariant: a member that would be turned away because it "already reported on
\* the given epoch id" has a vote in the ballot, the member in the last seat the word
\* has a bit for included.  Beyond it this fails, so the committee has to fit.
RefusedHaveReported ==
  \A m \in Member :
    IsMember(m) /\ HasReported(SeatOf(m), positions) => SeatOf(m) \in DOMAIN ballot

Promise == INSTANCE OracleQuorum WITH
  Report <- [epoch : 0..MaxEpoch, data : Data],
  seats <- Len(members),
  epoch <- lastEpochId,
  pushed <- reportedEpoch

\* Property: the oracle implements OracleQuorum: River stores a report only when
\* a quorum of distinct seats has voted for exactly that report since the last
\* change of the committee, whatever members come, go and are replaced meanwhile.
ImplementsOracleQuorum == Promise!Spec

=============================================================================
