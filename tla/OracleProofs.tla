----------------------------- MODULE OracleProofs -----------------------------
(***************************************************************************)
(* The oracle counts votes right and pushes only what a quorum of distinct *)
(* seats agreed on, for committees, data and frames of any size and        *)
(* whatever members come, go and are replaced between two votes.           *)
(***************************************************************************)
EXTENDS Oracle, SequenceTheorems, FiniteSetTheorems, TLAPS

-----------------------------------------------------------------------------
(* The inductive invariant                                                 *)

\* A list of variants tells the votes of a ballot.
Tells(list, votes) ==
  /\ \A i \in DOMAIN list :
       /\ list[i].votes = Cardinality(Promise!Supporters(votes, list[i].variant))
       /\ list[i].votes > 0
  /\ \A i, j \in DOMAIN list : list[i].variant = list[j].variant => i = j
  /\ \A s \in DOMAIN votes : Listed(list, votes[s])

\* An address has one seat.
SeatsDiffer ==
  \A s, t \in DOMAIN members : members[s] = members[t] => s = t

IInv ==
  /\ TypeOK
  /\ SeatsDiffer
  /\ QuorumFits(quorum, Len(members))
  /\ Tells(variants, ballot)
  /\ NoQuorumIsPending

-----------------------------------------------------------------------------
(* Seats                                                                   *)

LEMMA MembersHaveSeats ==
  ASSUME TypeOK, SeatsDiffer, NEW m, IsMember(m)
  PROVE  /\ SeatOf(m) \in DOMAIN members
         /\ SeatOf(m) \in 1..Len(members)
         /\ members[SeatOf(m)] = m
<1>1. PICK s \in DOMAIN members : members[s] = m BY DEF IsMember
<1>2. \A t \in DOMAIN members : members[t] = m => s <= t
  BY <1>1 DEF SeatsDiffer, TypeOK
<1>3. SeatOf(m) \in DOMAIN members /\ members[SeatOf(m)] = m
  BY <1>1, <1>2 DEF SeatOf
<1> QED BY <1>3 DEF TypeOK

\* Deleting a seat leaves the others, the last one moved.
LEMMA VacatedMembers ==
  ASSUME TypeOK, SeatsDiffer, NEW m, IsMember(m)
  PROVE  /\ Vacated(SeatOf(m)) \in Seq(Member)
         /\ Len(Vacated(SeatOf(m))) = Len(members) - 1
         /\ Len(members) - 1 \in Nat
         /\ \A s, t \in DOMAIN Vacated(SeatOf(m)) :
              Vacated(SeatOf(m))[s] = Vacated(SeatOf(m))[t] => s = t
<1> DEFINE seat == SeatOf(m)
           n == Len(members)
<1>1. seat \in 1..n BY MembersHaveSeats
<1> HIDE DEF seat
<1>2. n \in Nat /\ n - 1 \in Nat BY <1>1 DEF TypeOK
<1>3. \A s \in 1..n : members[s] \in Member BY DEF TypeOK
<1>4. \A s, t \in 1..n : members[s] = members[t] => s = t
  BY DEF TypeOK, SeatsDiffer
<1> HIDE DEF n
<1>5. Vacated(seat) = [s \in 1..(n - 1) |-> IF s = seat THEN members[n] ELSE members[s]]
  BY DEF Vacated, n
<1>6. Vacated(seat) \in [1..(n - 1) -> Member] BY <1>2, <1>3, <1>5
<1>7. Vacated(seat) \in Seq(Member) /\ Len(Vacated(seat)) = n - 1
  BY <1>2, <1>6, SeqDef
<1>8. \A s, t \in 1..(n - 1) : Vacated(seat)[s] = Vacated(seat)[t] => s = t
  BY <1>1, <1>2, <1>4, <1>5
<1> QED BY <1>2, <1>5, <1>7, <1>8 DEF n, seat

-----------------------------------------------------------------------------
(* Counting                                                                *)

LEMMA NoVotesAreTold ==
  /\ <<>> \in Seq(Variant)
  /\ DOMAIN NoVotes = {}
  /\ Tells(<<>>, NoVotes)
  /\ \A report : VotesFor(<<>>, report) = 0
BY DEF Tells, NoVotes, VotesFor, Listed

Cast(votes, seat, report) ==
  [s \in DOMAIN votes \cup {seat} |-> IF s = seat THEN report ELSE votes[s]]

LEMMA SupportersOfCast ==
  ASSUME NEW votes, IsFiniteSet(DOMAIN votes), NEW seat, seat \notin DOMAIN votes,
         NEW report
  PROVE  /\ IsFiniteSet(DOMAIN Cast(votes, seat, report))
         /\ Cardinality(Promise!Supporters(Cast(votes, seat, report), report)) =
              Cardinality(Promise!Supporters(votes, report)) + 1
         /\ Cardinality(Promise!Supporters(votes, report)) \in Nat
         /\ \A other : other # report =>
              Promise!Supporters(Cast(votes, seat, report), other) =
                Promise!Supporters(votes, other)
<1>1. Promise!Supporters(Cast(votes, seat, report), report) =
        Promise!Supporters(votes, report) \cup {seat}
  BY DEF Cast, Promise!Supporters
<1>2. /\ IsFiniteSet(Promise!Supporters(votes, report))
      /\ seat \notin Promise!Supporters(votes, report)
  BY FS_Subset DEF Promise!Supporters
<1>3. DOMAIN Cast(votes, seat, report) = DOMAIN votes \cup {seat} BY DEF Cast
<1>4. \A other : other # report =>
        Promise!Supporters(Cast(votes, seat, report), other) =
          Promise!Supporters(votes, other)
  BY DEF Cast, Promise!Supporters
<1> QED BY <1>1, <1>2, <1>3, <1>4, FS_AddElement, FS_CardinalityType

\* The votes a list has for a report are those the ballot has.
LEMMA VotesForReport ==
  ASSUME NEW list, NEW votes, IsFiniteSet(DOMAIN votes), Tells(list, votes), NEW report
  PROVE  VotesFor(list, report) = Cardinality(Promise!Supporters(votes, report))
<1>1. CASE Listed(list, report)
  <2>1. IndexOf(list, report) \in DOMAIN list /\ list[IndexOf(list, report)].variant = report
    BY <1>1 DEF Listed, IndexOf
  <2> QED BY <1>1, <2>1 DEF VotesFor, Tells
<1>2. CASE ~Listed(list, report)
  <2>1. Promise!Supporters(votes, report) = {} BY <1>2 DEF Tells, Promise!Supporters
  <2> QED BY <1>2, <2>1, FS_EmptySet DEF VotesFor
<1> QED BY <1>1, <1>2

\* A vote counted, the list tells the ballot with the vote.
LEMMA CountedIsTold ==
  ASSUME NEW list \in Seq(Variant), NEW votes, IsFiniteSet(DOMAIN votes),
         Tells(list, votes), NEW report \in Report, NEW seat, seat \notin DOMAIN votes
  PROVE  /\ Counted(list, report) \in Seq(Variant)
         /\ Tells(Counted(list, report), Cast(votes, seat, report))
         /\ \A i \in DOMAIN Counted(list, report) :
              \/ Counted(list, report)[i].votes = VotesFor(list, report) + 1
              \/ i \in DOMAIN list /\ Counted(list, report)[i] = list[i]
<1> DEFINE new == Counted(list, report)
           after == Cast(votes, seat, report)
<1>1. /\ Cardinality(Promise!Supporters(after, report)) =
           Cardinality(Promise!Supporters(votes, report)) + 1
      /\ Cardinality(Promise!Supporters(votes, report)) \in Nat
      /\ \A other : other # report =>
           Promise!Supporters(after, other) = Promise!Supporters(votes, other)
  BY SupportersOfCast
<1>2. VotesFor(list, report) = Cardinality(Promise!Supporters(votes, report))
  BY VotesForReport
<1>3. \A s \in DOMAIN after :
        after[s] = report \/ (s \in DOMAIN votes /\ after[s] = votes[s])
  BY DEF Cast
<1>4. \A i \in DOMAIN list : list[i] \in Variant OBVIOUS
<1> HIDE DEF after
<1>5. CASE Listed(list, report)
  <2> DEFINE k == IndexOf(list, report)
  <2>1. k \in DOMAIN list /\ list[k].variant = report
    BY <1>5 DEF Listed, IndexOf
  <2>2. VotesFor(list, report) = list[k].votes BY <1>5 DEF VotesFor
  <2>3. new = [list EXCEPT ![k].votes = @ + 1] BY <1>5 DEF Counted
  <2> HIDE DEF k, new
  <2>4. /\ DOMAIN new = DOMAIN list
        /\ new[k] = [list[k] EXCEPT !.votes = @ + 1]
        /\ \A i \in DOMAIN list : i # k => new[i] = list[i]
    BY <2>1, <2>3
  <2>5. /\ new[k].variant = report
        /\ new[k].votes = list[k].votes + 1
        /\ new[k] \in Variant
    <3>1. list[k] \in [variant : Report, votes : Nat] BY <1>4, <2>1 DEF Variant
    <3>2. list[k].votes \in Nat BY <3>1
    <3>3. new[k] = [variant |-> report, votes |-> list[k].votes + 1]
      BY <2>1, <2>4, <3>1
    <3> QED BY <3>2, <3>3 DEF Variant
  <2>6. \A i \in DOMAIN list : new[i] \in Variant /\ new[i].variant = list[i].variant
    BY <1>4, <2>1, <2>4, <2>5
  <2>7. new \in Seq(Variant)
    <3>1. DOMAIN list = 1..Len(list) /\ Len(list) \in Nat OBVIOUS
    <3>2. new = [i \in 1..Len(list) |-> new[i]] BY <2>3, <3>1
    <3>3. new \in [1..Len(list) -> Variant] BY <2>6, <3>1, <3>2
    <3> QED BY <3>1, <3>3, SeqDef
  <2>8. \A i \in DOMAIN new :
          /\ new[i].votes = Cardinality(Promise!Supporters(after, new[i].variant))
          /\ new[i].votes > 0
    <3> SUFFICES ASSUME NEW i \in DOMAIN new
                 PROVE  /\ new[i].votes = Cardinality(Promise!Supporters(after, new[i].variant))
                        /\ new[i].votes > 0
      OBVIOUS
    <3>1. CASE i = k BY <1>1, <1>2, <2>2, <2>5, <3>1
    <3>2. CASE i # k
      <4>1. new[i] = list[i] /\ i \in DOMAIN list BY <2>4, <3>2
      <4>2. list[i].variant # report BY <2>1, <3>2, <4>1 DEF Tells
      <4> QED BY <1>1, <4>1, <4>2 DEF Tells
    <3> QED BY <3>1, <3>2
  <2>9. \A i, j \in DOMAIN new : new[i].variant = new[j].variant => i = j
    BY <2>4, <2>6 DEF Tells
  <2>10. \A s \in DOMAIN after : Listed(new, after[s])
    <3> SUFFICES ASSUME NEW s \in DOMAIN after PROVE Listed(new, after[s]) OBVIOUS
    <3>1. Listed(list, after[s]) BY <1>3, <1>5 DEF Tells
    <3> QED BY <2>4, <2>6, <3>1 DEF Listed
  <2>11. \A i \in DOMAIN new :
           new[i].votes = VotesFor(list, report) + 1 \/ (i \in DOMAIN list /\ new[i] = list[i])
    BY <2>2, <2>4, <2>5
  <2> QED BY <2>7, <2>8, <2>9, <2>10, <2>11 DEF new, after, Tells
<1>6. CASE ~Listed(list, report)
  <2> DEFINE last == [variant |-> report, votes |-> 1]
             n == Len(list)
  <2>1. last \in Variant BY DEF Variant
  <2>2. new = Append(list, last) BY <1>6 DEF Counted
  <2>3. VotesFor(list, report) = 0 BY <1>6 DEF VotesFor
  <2> HIDE DEF new, last
  <2>4. /\ n \in Nat /\ DOMAIN list = 1..n /\ DOMAIN new = 1..(n + 1)
        /\ new \in Seq(Variant)
        /\ new[n + 1] = last
        /\ \A i \in 1..n : new[i] = list[i]
    BY <2>1, <2>2
  <2> HIDE DEF n
  <2>5. last.variant = report /\ last.votes = 1 BY DEF last
  <2>6. \A i \in DOMAIN new :
          /\ new[i].votes = Cardinality(Promise!Supporters(after, new[i].variant))
          /\ new[i].votes > 0
    <3> SUFFICES ASSUME NEW i \in DOMAIN new
                 PROVE  /\ new[i].votes = Cardinality(Promise!Supporters(after, new[i].variant))
                        /\ new[i].votes > 0
      OBVIOUS
    <3>1. CASE i = n + 1 BY <1>1, <1>2, <2>3, <2>4, <2>5, <3>1
    <3>2. CASE i \in 1..n
      <4>1. new[i] = list[i] /\ i \in DOMAIN list BY <2>4, <3>2
      <4>2. list[i].variant # report BY <1>6, <4>1 DEF Listed
      <4> QED BY <1>1, <4>1, <4>2 DEF Tells
    <3> QED BY <2>4, <3>1, <3>2
  <2>7. \A i, j \in DOMAIN new : new[i].variant = new[j].variant => i = j
    <3>1. \A i \in 1..n : new[i].variant # report BY <1>6, <2>4 DEF Listed
    <3>2. \A i, j \in 1..n : new[i].variant = new[j].variant => i = j
      BY <2>4 DEF Tells
    <3> QED BY <2>4, <2>5, <3>1, <3>2
  <2>8. \A s \in DOMAIN after : Listed(new, after[s])
    <3> SUFFICES ASSUME NEW s \in DOMAIN after PROVE Listed(new, after[s]) OBVIOUS
    <3>1. CASE after[s] = report BY <2>4, <2>5, <3>1 DEF Listed
    <3>2. CASE Listed(list, after[s]) BY <2>4, <3>2 DEF Listed
    <3> QED BY <1>3, <3>1, <3>2 DEF Tells
  <2>9. \A i \in DOMAIN new :
          new[i].votes = VotesFor(list, report) + 1 \/ (i \in DOMAIN list /\ new[i] = list[i])
    BY <2>3, <2>4, <2>5
  <2> QED BY <2>4, <2>6, <2>7, <2>8, <2>9 DEF new, after, Tells
<1> QED BY <1>5, <1>6

-----------------------------------------------------------------------------
(* The committee                                                           *)

LEMMA ClearedHolds ==
  ASSUME IInv, ClearReports, UNCHANGED <<epochsPerFrame, reportedEpoch, currentEpoch>>,
         lastEpochId' \in Nat, quorum' \in Nat,
         members' \in Seq(Member), SeatsDiffer', QuorumFits(quorum', Len(members'))
  PROVE  IInv'
<1>1. TypeOK' BY NoVotesAreTold DEF IInv, TypeOK, ClearReports
<1>2. Tells(variants', ballot') BY NoVotesAreTold DEF ClearReports
<1>3. NoQuorumIsPending' BY DEF NoQuorumIsPending, ClearReports
<1> QED BY <1>1, <1>2, <1>3 DEF IInv

LEMMA AddMemberHolds ==
  ASSUME IInv, NEW m \in Member, NEW q \in 0..MaxMembers, AddMember(m, q)
  PROVE  IInv'
<1> USE DEF AddMember, ClearReportsAndSetQuorum
<1>1. /\ members' \in Seq(Member)
      /\ Len(members') = Len(members) + 1
      /\ DOMAIN members' = 1..(Len(members) + 1)
      /\ Len(members) \in Nat
      /\ \A s \in 1..Len(members) : members'[s] = members[s]
      /\ members'[Len(members) + 1] = m
  BY DEF IInv, TypeOK
<1>2. SeatsDiffer'
  <2>1. \A s \in 1..Len(members) : members[s] # m BY DEF IsMember, IInv, TypeOK
  <2>2. \A s, t \in 1..Len(members) : members[s] = members[t] => s = t
    BY DEF IInv, TypeOK, SeatsDiffer
  <2> QED BY <1>1, <2>1, <2>2 DEF SeatsDiffer
<1>3. QuorumFits(quorum', Len(members')) BY <1>1
<1> QED BY <1>1, <1>2, <1>3, ClearedHolds, OracleAssumption DEF IInv, TypeOK, river

LEMMA RemoveMemberHolds ==
  ASSUME IInv, NEW m \in Member, NEW q \in 0..MaxMembers, RemoveMember(m, q)
  PROVE  IInv'
<1> USE DEF RemoveMember, ClearReportsAndSetQuorum
<1>1. TypeOK /\ SeatsDiffer BY DEF IInv
<1>2. /\ members' \in Seq(Member)
      /\ Len(members') = Len(members) - 1
      /\ SeatsDiffer'
  BY <1>1, VacatedMembers DEF SeatsDiffer
<1>3. QuorumFits(quorum', Len(members')) BY <1>2
<1> QED BY <1>2, <1>3, ClearedHolds, OracleAssumption DEF IInv, TypeOK, river

LEMMA SetMemberHolds ==
  ASSUME IInv, NEW m \in Member, NEW new \in Member, SetMember(m, new)
  PROVE  IInv'
<1>1. SeatOf(m) \in DOMAIN members /\ members \in Seq(Member)
  BY MembersHaveSeats DEF SetMember, IInv, TypeOK
<1>2. members' = [members EXCEPT ![SeatOf(m)] = new] /\ ~IsMember(new)
  BY DEF SetMember
<1>3. /\ members' \in Seq(Member)
      /\ Len(members') = Len(members)
      /\ DOMAIN members' = DOMAIN members
  BY <1>1, <1>2
<1>4. SeatsDiffer'
  <2>1. \A s \in DOMAIN members : members[s] # new BY <1>2 DEF IsMember
  <2>2. \A s \in DOMAIN members :
          members'[s] = IF s = SeatOf(m) THEN new ELSE members[s]
    BY <1>1, <1>2
  <2> QED BY <1>3, <2>1, <2>2 DEF SeatsDiffer, IInv
<1> QED
  BY <1>3, <1>4 DEF IInv, TypeOK, SetMember, QuorumFits, NoQuorumIsPending, reports, river

LEMMA SetQuorumHolds ==
  ASSUME IInv, NEW q \in 0..MaxMembers, SetQuorum(q)
  PROVE  IInv'
BY ClearedHolds, OracleAssumption
   DEF IInv, TypeOK, SeatsDiffer, SetQuorum, ClearReportsAndSetQuorum, river

-----------------------------------------------------------------------------
(* Reports                                                                 *)

Votable == [epoch : 0..MaxEpoch, data : Data]

\* What a report finds of the ballot: its votes, or none.
LEMMA RunningBallot ==
  ASSUME IInv, NEW report \in Votable
  PROVE  /\ report \in Report
         /\ Running(report.epoch, variants, <<>>) \in Seq(Variant)
         /\ DOMAIN Running(report.epoch, ballot, NoVotes)
              = Running(report.epoch, positions, {})
         /\ Running(report.epoch, positions, {}) \subseteq 1..Len(members)
         /\ IsFiniteSet(Running(report.epoch, positions, {}))
         /\ Tells(Running(report.epoch, variants, <<>>),
                  Running(report.epoch, ballot, NoVotes))
         /\ \A s \in Running(report.epoch, positions, {}) :
              Running(report.epoch, ballot, NoVotes)[s] \in Report
         /\ \A i \in DOMAIN Running(report.epoch, variants, <<>>) :
              Running(report.epoch, variants, <<>>)[i].votes < quorum
<1>1. Len(members) \in Nat /\ positions \subseteq 1..Len(members) BY DEF IInv, TypeOK
<1>2. IsFiniteSet(positions)
  <2>1. IsFiniteSet(1..Len(members)) BY <1>1, FS_Interval
  <2> QED BY <1>1, <2>1, FS_Subset
<1>3. report \in Report BY OracleAssumption DEF Votable, Report
<1> QED
  BY <1>1, <1>2, <1>3, NoVotesAreTold, FS_EmptySet
     DEF Running, IInv, TypeOK, NoQuorumIsPending

\* The votes for a report are so many seats.
LEMMA VotesOfSeats ==
  ASSUME IInv, NEW report \in Votable
  PROVE  /\ VotesFor(Running(report.epoch, variants, <<>>), report) =
              Cardinality(Promise!Supporters(Running(report.epoch, ballot, NoVotes), report))
         /\ VotesFor(Running(report.epoch, variants, <<>>), report) \in Nat
<1> DEFINE list == Running(report.epoch, variants, <<>>)
           kept == Running(report.epoch, ballot, NoVotes)
<1>1. IsFiniteSet(DOMAIN kept) /\ Tells(list, kept) BY RunningBallot
<1> HIDE DEF list, kept
<1>2. VotesFor(list, report) = Cardinality(Promise!Supporters(kept, report))
  BY <1>1, VotesForReport
<1>3. Promise!Supporters(kept, report) \subseteq DOMAIN kept BY DEF Promise!Supporters
<1>4. Cardinality(Promise!Supporters(kept, report)) \in Nat
  BY <1>1, <1>3, FS_Subset, FS_CardinalityType
<1> QED BY <1>2, <1>4 DEF list, kept

LEMMA VoteHolds ==
  ASSUME IInv, NEW m \in Member, NEW report \in Votable, Vote(m, report)
  PROVE  IInv'
<1> DEFINE list == Running(report.epoch, variants, <<>>)
           kept == Running(report.epoch, ballot, NoVotes)
           voted == Running(report.epoch, positions, {})
           seat == SeatOf(m)
<1>1. /\ MayReport(m, report)
      /\ VotesFor(list, report) + 1 < quorum
      /\ lastEpochId' = report.epoch
      /\ positions' = voted \cup {seat}
      /\ variants' = Counted(list, report)
      /\ ballot' = Cast(kept, seat, report)
      /\ UNCHANGED <<members, quorum, epochsPerFrame, reportedEpoch, currentEpoch>>
  <2>1. VotesFor(list, report) \in Int BY VotesOfSeats
  <2> QED BY <2>1 DEF Vote, Cast, ReachesQuorum, committee, river, IInv, TypeOK
<1>2. /\ report \in Report /\ list \in Seq(Variant) /\ DOMAIN kept = voted
      /\ voted \subseteq 1..Len(members) /\ IsFiniteSet(voted) /\ Tells(list, kept)
      /\ \A s \in voted : kept[s] \in Report
      /\ \A i \in DOMAIN list : list[i].votes < quorum
  BY RunningBallot
<1>3. seat \in 1..Len(members) /\ seat \notin voted
  BY <1>1, MembersHaveSeats DEF MayReport, HasReported, IInv
<1> HIDE DEF list, kept, voted, seat
<1>4. /\ variants' \in Seq(Variant)
      /\ Tells(variants', ballot')
      /\ \A i \in DOMAIN variants' :
           variants'[i].votes = VotesFor(list, report) + 1 \/
             (i \in DOMAIN list /\ variants'[i] = list[i])
  BY <1>1, <1>2, <1>3, CountedIsTold
<1>5. NoQuorumIsPending'
  BY <1>1, <1>2, <1>4 DEF NoQuorumIsPending
<1>6. DOMAIN ballot' = positions' /\ \A s \in positions' : ballot'[s] \in Report
  BY <1>1, <1>2 DEF Cast
<1>7. report.epoch \in Nat BY <1>2 DEF Report
<1>8. TypeOK'
  BY <1>1, <1>2, <1>3, <1>4, <1>6, <1>7 DEF IInv, TypeOK
<1> QED BY <1>1, <1>4, <1>5, <1>8 DEF IInv, SeatsDiffer, QuorumFits

LEMMA PushHolds ==
  ASSUME IInv, NEW m \in Member, NEW report \in Votable, PushToRiver(m, report)
  PROVE  IInv'
<1>1. report.epoch \in Nat BY RunningBallot DEF Report
<1>2. TypeOK'
  BY <1>1, NoVotesAreTold DEF IInv, TypeOK, PushToRiver, ClearReports, committee
<1>3. Tells(variants', ballot') BY NoVotesAreTold DEF PushToRiver, ClearReports
<1>4. NoQuorumIsPending' BY DEF NoQuorumIsPending, PushToRiver, ClearReports
<1> QED BY <1>2, <1>3, <1>4 DEF IInv, PushToRiver, committee, SeatsDiffer

-----------------------------------------------------------------------------
(* The invariant                                                           *)

LEMMA InitHolds == Init => IInv
<1> SUFFICES ASSUME Init PROVE IInv OBVIOUS
<1>1. TypeOK BY NoVotesAreTold DEF Init, TypeOK
<1>2. Tells(variants, ballot) BY NoVotesAreTold DEF Init
<1> QED BY <1>1, <1>2 DEF Init, IInv, SeatsDiffer, QuorumFits, NoQuorumIsPending

LEMMA NextHolds == ASSUME IInv, [Next]_vars PROVE IInv'
<1>1. ASSUME NEW m \in Member, NEW q \in 0..MaxMembers, AddMember(m, q) \/ RemoveMember(m, q)
      PROVE  IInv'
  BY <1>1, AddMemberHolds, RemoveMemberHolds
<1>2. ASSUME NEW m \in Member, NEW new \in Member, SetMember(m, new) PROVE IInv'
  BY <1>2, SetMemberHolds
<1>3. ASSUME NEW q \in 0..MaxMembers, SetQuorum(q) PROVE IInv'
  BY <1>3, SetQuorumHolds
<1>4. ASSUME NEW n \in EpochsPerFrame, SetCLSpec(n) PROVE IInv'
  BY <1>4
     DEF SetCLSpec, IInv, TypeOK, SeatsDiffer, QuorumFits, NoQuorumIsPending, committee, reports
<1>5. ASSUME EpochPasses PROVE IInv'
  BY <1>5
     DEF EpochPasses, IInv, TypeOK, SeatsDiffer, QuorumFits, NoQuorumIsPending, committee, reports
<1>6. ASSUME NEW m \in Member, NEW report \in Votable,
             Vote(m, report) \/ PushToRiver(m, report)
      PROVE  IInv'
  BY <1>6, VoteHolds, PushHolds
<1>7. ASSUME UNCHANGED vars PROVE IInv'
  BY <1>7 DEF vars, IInv, TypeOK, SeatsDiffer, QuorumFits, NoQuorumIsPending
<1> QED BY <1>1, <1>2, <1>3, <1>4, <1>5, <1>6, <1>7 DEF Next, Votable

\* The inductive invariant holds of every reachable state.
THEOREM Inductive == Spec => []IInv
<1>1. Init => IInv BY InitHolds
<1>2. IInv /\ [Next]_vars => IInv' BY NextHolds
<1> QED BY <1>1, <1>2, PTL DEF Spec

\* Seats, votes, variants and epochs keep their types
\* (reportConsensusLayerData, OracleMembers).
THEOREM TypeCorrect == Spec => []TypeOK
<1>1. IInv => TypeOK BY DEF IInv
<1> QED BY <1>1, Inductive, PTL

\* The bit mask, the list of variants and the votes cast tell one ballot, whatever
\* happens to the committee between two votes (reportConsensusLayerData,
\* addMember, removeMember, setMember, setQuorum).
THEOREM VotesAreCounted == Spec => []BallotIsCounted
<1>1. IInv => BallotIsCounted
  BY DEF IInv, BallotIsCounted, Tells, TypeOK, Supporters, Promise!Supporters
<1> QED BY <1>1, Inductive, PTL

\* No report that has its quorum waits: every change of the committee or of the
\* quorum clears the votes (_clearReportsAndSetQuorum).
THEOREM NothingWaits == Spec => []NoQuorumIsPending
<1>1. IInv => NoQuorumIsPending BY DEF IInv
<1> QED BY <1>1, Inductive, PTL

\* In a committee that fits the word of the ballot, nobody is refused a vote that
\* was not cast (reportConsensusLayerData, ReportsPositions.get).
THEOREM NobodyIsRefused ==
  ASSUME MaxMembers <= WordBits
  PROVE  Spec => []RefusedHaveReported
<1> DEFINE Fits == Len(members) <= MaxMembers
<1>1. Init => Fits BY OracleAssumption DEF Init
<1>2. IInv /\ Fits /\ [Next]_vars => Fits'
  <2> SUFFICES ASSUME IInv, Fits, [Next]_vars PROVE Fits' OBVIOUS
  <2>1. Len(members') <= Len(members) \/ Len(members') <= MaxMembers
    <3>1. ASSUME NEW m \in Member, NEW q \in 0..MaxMembers, AddMember(m, q)
          PROVE  Len(members') <= MaxMembers
      BY <3>1, OracleAssumption DEF AddMember, IInv, TypeOK
    <3>2. ASSUME NEW m \in Member, NEW q \in 0..MaxMembers, RemoveMember(m, q)
          PROVE  Len(members') <= Len(members)
      BY <3>2, VacatedMembers DEF RemoveMember, IInv, TypeOK
    <3>3. ASSUME NEW m \in Member, NEW new \in Member, SetMember(m, new)
          PROVE  Len(members') <= Len(members)
      BY <3>3 DEF SetMember, IInv, TypeOK
    <3>4. ASSUME UNCHANGED members PROVE Len(members') <= Len(members)
      BY <3>4 DEF IInv, TypeOK
    <3> QED
      BY <3>1, <3>2, <3>3, <3>4
         DEF Next, vars, SetQuorum, SetCLSpec, EpochPasses, Vote, PushToRiver, committee
  <2> QED BY <2>1, OracleAssumption, NextHolds DEF IInv, TypeOK
<1>3. IInv /\ Fits => RefusedHaveReported
  BY MembersHaveSeats, OracleAssumption
     DEF IInv, TypeOK, RefusedHaveReported, HasReported
<1> HIDE DEF Fits
<1> QED BY <1>1, <1>2, <1>3, Inductive, PTL DEF Spec

-----------------------------------------------------------------------------
(* The promise                                                             *)

\* A vote that passes the checks of the code passes those of the promise, and the
\* votes it then adds up to are those the code compares with the quorum.
LEMMA VoteIsPromised ==
  ASSUME IInv, NEW m \in Member, NEW report \in Votable, MayReport(m, report)
  PROVE  /\ SeatOf(m) \in 1..Len(members)
         /\ Promise!MayVote(SeatOf(m), report)
         /\ Promise!Cast(SeatOf(m), report) =
              Cast(Running(report.epoch, ballot, NoVotes), SeatOf(m), report)
         /\ Cardinality(Promise!Supporters(Promise!Cast(SeatOf(m), report), report)) =
              VotesFor(Running(report.epoch, variants, <<>>), report) + 1
<1> DEFINE kept == Running(report.epoch, ballot, NoVotes)
           seat == SeatOf(m)
<1>1. /\ report.epoch \in Nat /\ lastEpochId \in Nat /\ reportedEpoch \in Nat
      /\ DOMAIN ballot = positions
  BY RunningBallot DEF Report, IInv, TypeOK
<1>2. seat \in 1..Len(members) BY MembersHaveSeats DEF MayReport, IInv
<1>3. seat \notin DOMAIN kept BY RunningBallot DEF MayReport, HasReported
<1>4. Promise!MayVote(seat, report)
  BY <1>1, <1>3 DEF Promise!MayVote, MayReport, IsValidEpoch, Running, Starts
<1>5. Promise!Cast(seat, report) = Cast(kept, seat, report)
  BY <1>1 DEF Promise!Cast, Cast, Running, Starts, MayReport, NoVotes, Promise!NoVotes
<1>6. IsFiniteSet(DOMAIN kept) BY RunningBallot
<1> HIDE DEF kept, seat
<1>7. Cardinality(Promise!Supporters(Cast(kept, seat, report), report)) =
        Cardinality(Promise!Supporters(kept, report)) + 1
  BY <1>3, <1>6, SupportersOfCast
<1> QED BY <1>2, <1>4, <1>5, <1>7, VotesOfSeats DEF kept, seat

LEMMA ReorganisationIsPromised ==
  ASSUME IInv, ClearReports, UNCHANGED <<lastEpochId, reportedEpoch>>,
         Len(members') \in {Len(members) - 1, Len(members), Len(members) + 1},
         quorum' \in Nat, QuorumFits(quorum', Len(members'))
  PROVE  Promise!Reorganise
<1>1. Len(members) \in Nat BY DEF IInv, TypeOK
<1> QED
  BY <1>1 DEF Promise!Reorganise, ClearReports, QuorumFits, NoVotes, Promise!NoVotes

\* The cardinality of the standard module, which OracleQuorum extends too.
LEMMA CardinalityOfPromise == \A S : Promise!Cardinality(S) = Cardinality(S)
BY DEF Promise!Cardinality, Cardinality

LEMMA NextIsPromised ==
  ASSUME IInv, [Next]_vars
  PROVE  [Promise!Next]_Promise!vars
<1>1. ASSUME NEW m \in Member, NEW q \in 0..MaxMembers, AddMember(m, q) \/ RemoveMember(m, q)
      PROVE  Promise!Reorganise
  <2>1. CASE AddMember(m, q)
    <3>1. Len(members') = Len(members) + 1 BY <2>1 DEF AddMember, IInv, TypeOK
    <3> QED
      BY <2>1, <3>1, OracleAssumption, ReorganisationIsPromised
         DEF AddMember, ClearReportsAndSetQuorum, river
  <2>2. CASE RemoveMember(m, q)
    <3>1. Len(members') = Len(members) - 1
      BY <2>2, VacatedMembers DEF RemoveMember, IInv
    <3> QED
      BY <2>2, <3>1, OracleAssumption, ReorganisationIsPromised
         DEF RemoveMember, ClearReportsAndSetQuorum, river
  <2> QED BY <1>1, <2>1, <2>2
<1>2. ASSUME NEW q \in 0..MaxMembers, SetQuorum(q) PROVE Promise!Reorganise
  BY <1>2, OracleAssumption, ReorganisationIsPromised
     DEF SetQuorum, ClearReportsAndSetQuorum, river
<1>3. ASSUME NEW m \in Member, NEW new \in Member, SetMember(m, new)
      PROVE  UNCHANGED Promise!vars
  <2>1. Len(members') = Len(members) BY <1>3 DEF SetMember, IInv, TypeOK
  <2> QED BY <1>3, <2>1 DEF SetMember, reports, river, Promise!vars
<1>4. ASSUME NEW m \in Member, NEW report \in Votable, Vote(m, report)
      PROVE  Promise!Vote(SeatOf(m), report) /\ SeatOf(m) \in 1..Len(members)
  <2>1. MayReport(m, report) BY <1>4 DEF Vote
  <2>2. ballot' = Cast(Running(report.epoch, ballot, NoVotes), SeatOf(m), report)
    BY <1>4 DEF Vote, Cast
  <2>3. VotesFor(Running(report.epoch, variants, <<>>), report) + 1 < quorum
    BY <1>4, VotesOfSeats DEF Vote, ReachesQuorum, IInv, TypeOK
  <2>4. /\ SeatOf(m) \in 1..Len(members)
        /\ Promise!MayVote(SeatOf(m), report)
        /\ ballot' = Promise!Cast(SeatOf(m), report)
        /\ Cardinality(Promise!Supporters(Promise!Cast(SeatOf(m), report), report)) < quorum
    BY <2>1, <2>2, <2>3, VoteIsPromised
  <2>5. lastEpochId' = report.epoch /\ UNCHANGED <<members, quorum, reportedEpoch>>
    BY <1>4 DEF Vote, committee, river
  <2> QED BY <2>4, <2>5, CardinalityOfPromise DEF Promise!Vote
<1>5. ASSUME NEW m \in Member, NEW report \in Votable, PushToRiver(m, report)
      PROVE  Promise!Push(SeatOf(m), report) /\ SeatOf(m) \in 1..Len(members)
  <2>1. MayReport(m, report) BY <1>5 DEF PushToRiver
  <2>2. VotesFor(Running(report.epoch, variants, <<>>), report) + 1 >= quorum
    BY <1>5 DEF PushToRiver, ReachesQuorum
  <2>3. /\ SeatOf(m) \in 1..Len(members)
        /\ Promise!MayVote(SeatOf(m), report)
        /\ Cardinality(Promise!Supporters(Promise!Cast(SeatOf(m), report), report)) >= quorum
    BY <2>1, <2>2, VoteIsPromised
  <2>4. /\ ballot' = Promise!NoVotes
        /\ lastEpochId' = report.epoch + 1
        /\ reportedEpoch' = report.epoch
        /\ UNCHANGED <<members, quorum>>
    BY <1>5 DEF PushToRiver, ClearReports, committee, NoVotes, Promise!NoVotes
  <2> QED BY <2>3, <2>4, CardinalityOfPromise DEF Promise!Push
<1>6. ASSUME UNCHANGED <<members, quorum, lastEpochId, ballot, reportedEpoch>>
      PROVE  UNCHANGED Promise!vars
  BY <1>6 DEF Promise!vars
<1>7. ASSUME NEW n \in EpochsPerFrame, SetCLSpec(n) PROVE UNCHANGED Promise!vars
  BY <1>6, <1>7 DEF SetCLSpec, committee, reports
<1>8. ASSUME EpochPasses PROVE UNCHANGED Promise!vars
  BY <1>6, <1>8 DEF EpochPasses, committee, reports
<1>9. ASSUME UNCHANGED vars PROVE UNCHANGED Promise!vars
  BY <1>6, <1>9 DEF vars
<1> QED
  BY <1>1, <1>2, <1>3, <1>4, <1>5, <1>7, <1>8, <1>9 DEF Next, Votable, Promise!Next

\* The oracle implements OracleQuorum: River stores a report only when a quorum of
\* distinct seats has voted for exactly that report since the last change of the
\* committee (reportConsensusLayerData, _clearReports, isValidEpoch).
THEOREM QuorumIsKept == Spec => ImplementsOracleQuorum
<1>1. Init => Promise!Init BY DEF Init, Promise!Init, NoVotes, Promise!NoVotes
<1>2. IInv /\ [Next]_vars => [Promise!Next]_Promise!vars BY NextIsPromised
<1> QED BY <1>1, <1>2, Inductive, PTL DEF Spec, ImplementsOracleQuorum, Promise!Spec

=============================================================================
