-------------------------- MODULE OperatorsRegistry --------------------------
(***************************************************************************)
(* The operators registry (OperatorsRegistry.1.sol): the keys of the node  *)
(* operators, how many of them may be funded, how many are, and the exits  *)
(* that River demands, the keeper requests and the oracle reports.  Every  *)
(* call is atomic; a call that reverts changes nothing and is not a step.  *)
(*                                                                         *)
(* Key indexes are zero-based, as in the code; operators are numbered from *)
(* one.  The administrator audits keys off-chain, on the state a completed *)
(* block left, and then sets limits naming that block.                     *)
(***************************************************************************)
EXTENDS Integers, Sequences, FiniteSetsExt

CONSTANTS
  Key,          \* public keys and signatures
  NoKey,        \* an empty slot of ValidatorKeys
  ExitCount,    \* exits River may demand in a report
  MaxOperators, \* bound on the operators
  MaxKeys,      \* bound on the keys of an operator
  MaxBlock      \* bound on the block number

ASSUME RegistryAssumption ==
  /\ NoKey \notin Key
  /\ ExitCount \subseteq Nat
  /\ MaxOperators \in Nat
  /\ MaxKeys \in Nat
  /\ MaxBlock \in Nat

VARIABLES
  operators,        \* OperatorsV2: the counters of each operator
  validatorKeys,    \* ValidatorKeys: the keys of each operator by index
  stopped,          \* the stopped validator count of each operator reported
  totalValidatorExitsRequested,
  currentValidatorExitsDemand,
  depositedValidatorCount,  \* River's DepositedValidatorCount
  block,            \* block.number
  snapshot,         \* the last audit: its block and the keys it read
  approved          \* history: the keys an audit has approved

exits == <<totalValidatorExitsRequested, currentValidatorExitsDemand>>
audit == <<block, snapshot, approved>>

vars == <<operators, validatorKeys, stopped, totalValidatorExitsRequested,
          currentValidatorExitsDemand, depositedValidatorCount, block, snapshot,
          approved>>

Operator == [limit : Nat, funded : Nat, requestedExits : Nat, keys : Nat,
             latestKeysEditBlockNumber : Nat, active : BOOLEAN]

KeyIndex == 0..(MaxKeys - 1)

KeyTable == [KeyIndex -> Key \cup {NoKey}]

Indexes == DOMAIN operators

TypeOK ==
  /\ operators \in Seq(Operator)
  /\ validatorKeys \in [Indexes -> KeyTable]
  /\ stopped \in Seq(Nat)
  /\ Len(stopped) <= Len(operators)
  /\ totalValidatorExitsRequested \in Nat
  /\ currentValidatorExitsDemand \in Nat
  /\ depositedValidatorCount \in Nat
  /\ block \in Nat
  /\ snapshot.block \in Nat
  /\ approved \in [Indexes -> SUBSET Key]

\* _getStoppedValidatorCountAtIndex: 0 for an operator no report has named.
StoppedCount(i) == IF i \in DOMAIN stopped THEN stopped[i] ELSE 0

\* What the calls that take (operator, count) pairs in strictly increasing order
\* accept: at most one positive count for each operator.
Allocations ==
  UNION {[S -> 1..MaxKeys] : S \in SUBSET Indexes \ {{}}}

-----------------------------------------------------------------------------
(* Operators and their keys                                                *)

AddOperator ==
  /\ Len(operators) < MaxOperators
  /\ operators' = Append(operators,
       [limit |-> 0, funded |-> 0, requestedExits |-> 0, keys |-> 0,
        latestKeysEditBlockNumber |-> block, active |-> TRUE])
  /\ validatorKeys' = Append(validatorKeys, [k \in KeyIndex |-> NoKey])
  /\ approved' = Append(approved, {})
  /\ UNCHANGED <<stopped, exits, depositedValidatorCount, block, snapshot>>

SetOperatorStatus(i, status) ==
  /\ status # operators[i].active
  /\ operators' = [operators EXCEPT ![i].active = status]
  /\ UNCHANGED <<validatorKeys, stopped, exits, depositedValidatorCount, audit>>

\* OperatorsV2.setKeys, and the block of the edit with it.
SetKeys(operator, count) ==
  [operator EXCEPT !.keys = count, !.latestKeysEditBlockNumber = block]

AddValidators(i, newKeys) ==
  LET totalKeys == operators[i].keys
  IN
  /\ Len(newKeys) > 0
  /\ totalKeys + Len(newKeys) <= MaxKeys
  /\ validatorKeys' = [validatorKeys EXCEPT ![i] =
       [k \in KeyIndex |-> IF k \in totalKeys..(totalKeys + Len(newKeys) - 1)
                             THEN newKeys[k - totalKeys + 1] ELSE @[k]]]
  /\ operators' = [operators EXCEPT ![i] = SetKeys(@, totalKeys + Len(newKeys))]
  /\ UNCHANGED <<stopped, exits, depositedValidatorCount, audit>>

NthHighest(removed, n) ==
  CHOOSE k \in removed : Cardinality({j \in removed : j > k}) = n - 1

\* The loop of removeValidators: from the highest index down, the last key left
\* takes the place of the removed one and its own place is emptied.
KeysWithout(table, totalKeys, removed) ==
  LET after[n \in 0..Cardinality(removed)] ==
        IF n = 0 THEN table
        ELSE [after[n - 1] EXCEPT ![NthHighest(removed, n)] = after[n - 1][totalKeys - n],
                                  ![totalKeys - n] = NoKey]
  IN  after[Cardinality(removed)]

\* Variant of LimitWithout: a removal below the limit leaves it alone.
LimitKept(operator, removed) ==
  IF operator.limit = operator.keys
    THEN operator.keys - Cardinality(removed) ELSE operator.limit

\* Either all keys were fundable and all that are left still are, or the limit
\* falls back to the lowest key that was replaced.
LimitWithout(operator, removed) ==
  IF operator.limit = operator.keys THEN operator.keys - Cardinality(removed)
  ELSE IF Min(removed) < operator.limit THEN Min(removed)
  ELSE operator.limit

\* The keys that may go: those that are not funded.
Removable(operator) == operator.funded..(operator.keys - 1)

RemoveValidators(i, removed) ==
  LET operator == operators[i]
  IN
  /\ removed # {}
  /\ removed \subseteq Removable(operator)
  /\ validatorKeys' = [validatorKeys EXCEPT ![i] =
                         KeysWithout(@, operator.keys, removed)]
  /\ operators' = [operators EXCEPT ![i] =
       [SetKeys(@, operator.keys - Cardinality(removed)) EXCEPT
          !.limit = LimitWithout(operator, removed)]]
  /\ UNCHANGED <<stopped, exits, depositedValidatorCount, audit>>

-----------------------------------------------------------------------------
(* The administrator's audits and limits                                   *)

\* A block ends, and the audit that starts reads the keys it leaves.
TakeSnapshot ==
  /\ block < MaxBlock
  /\ block' = block + 1
  /\ snapshot' = [block |-> block,
                  count |-> [i \in Indexes |-> operators[i].keys],
                  table |-> validatorKeys]
  /\ UNCHANGED <<operators, validatorKeys, stopped, exits,
                 depositedValidatorCount, approved>>

\* Variant of EditedSinceSnapshot: the keys are never looked at again.
NeverEdited(operator) == FALSE

EditedSinceSnapshot(operator) ==
  snapshot.block < operator.latestKeysEditBlockNumber

\* A limit is left as it is when it does not change, or when it would rise over
\* keys that were edited after the audit.
LimitIsKept(operator, newLimit) ==
  \/ newLimit = operator.limit
  \/ EditedSinceSnapshot(operator) /\ newLimit > operator.limit

LimitIsAllowed(operator, newLimit) ==
  newLimit \in operator.funded..operator.keys

SetOperatorLimits(newLimits) ==
  /\ DOMAIN newLimits # {}
  /\ \A i \in DOMAIN newLimits :
       \/ LimitIsKept(operators[i], newLimits[i])
       \/ LimitIsAllowed(operators[i], newLimits[i])
  /\ operators' = [i \in Indexes |->
       IF i \in DOMAIN newLimits /\ ~LimitIsKept(operators[i], newLimits[i])
         THEN [operators[i] EXCEPT !.limit = newLimits[i]] ELSE operators[i]]
  /\ approved' = [i \in Indexes |->
       IF i \in DOMAIN newLimits
         THEN approved[i] \cup {snapshot.table[i][k] : k \in 0..(newLimits[i] - 1)}
         ELSE approved[i]]
  /\ UNCHANGED <<validatorKeys, stopped, exits, depositedValidatorCount, block,
                 snapshot>>

\* The limits an audit can end with: never more keys than it read.
AuditedLimits ==
  LET audited == DOMAIN snapshot.count
  IN  UNION {{l \in [S -> 0..MaxKeys] : \A i \in S : l[i] <= snapshot.count[i]} :
               S \in SUBSET audited}

-----------------------------------------------------------------------------
(* River and its keeper                                                    *)

Fundable(i, count) ==
  /\ operators[i].active
  /\ StoppedCount(i) >= operators[i].requestedExits
  /\ count <= operators[i].limit - operators[i].funded

\* Called by depositToConsensusLayerWithDepositRoot, which then adds the keys it
\* received to the deposited validators.
PickNextValidatorsToDeposit(allocation) ==
  /\ \A i \in DOMAIN allocation : Fundable(i, allocation[i])
  /\ operators' = [i \in Indexes |->
       IF i \in DOMAIN allocation
         THEN [operators[i] EXCEPT !.funded = @ + allocation[i]] ELSE operators[i]]
  /\ depositedValidatorCount' = depositedValidatorCount + SumFunction(allocation)
  /\ UNCHANGED <<validatorKeys, stopped, exits, audit>>

RequestValidatorExits(allocation) ==
  LET requestedExitCount == SumFunction(allocation)
  IN
  /\ currentValidatorExitsDemand > 0
  /\ \A i \in DOMAIN allocation :
       /\ operators[i].active
       /\ allocation[i] <= operators[i].funded - operators[i].requestedExits
  /\ requestedExitCount <= currentValidatorExitsDemand
  /\ operators' = [i \in Indexes |->
       IF i \in DOMAIN allocation
         THEN [operators[i] EXCEPT !.requestedExits = @ + allocation[i]]
         ELSE operators[i]]
  /\ totalValidatorExitsRequested' = totalValidatorExitsRequested + requestedExitCount
  /\ currentValidatorExitsDemand' = currentValidatorExitsDemand - requestedExitCount
  /\ UNCHANGED <<validatorKeys, stopped, depositedValidatorCount, audit>>

\* Variant of Demandable: exits requested already are demanded once more.
DemandableTwice(count) ==
  Min({count, depositedValidatorCount - currentValidatorExitsDemand})

Demandable(count) ==
  Min({count, depositedValidatorCount
                - (totalValidatorExitsRequested + currentValidatorExitsDemand)})

DemandValidatorExits(count) ==
  /\ Demandable(count) > 0
  /\ currentValidatorExitsDemand' = currentValidatorExitsDemand + Demandable(count)
  /\ UNCHANGED <<operators, validatorKeys, stopped, totalValidatorExitsRequested,
                 depositedValidatorCount, audit>>

-----------------------------------------------------------------------------
(* The oracle's stopped validator counts                                   *)

\* The total that comes with the counts has to be their sum.
CountsAreAccepted(counts) ==
  /\ Len(counts) \in Len(stopped)..Len(operators)
  /\ \A i \in DOMAIN stopped : counts[i] >= stopped[i]
  /\ \A i \in DOMAIN counts : counts[i] <= operators[i].funded
  /\ SumFunction(counts) <= depositedValidatorCount

\* Validators that stopped although no exit of theirs was requested.
Unsolicited(counts) ==
  SumFunction([i \in DOMAIN counts |-> Max({0, counts[i] - operators[i].requestedExits})])

\* Variant of RaisedRequest: the request is left as it was.
RequestLeft(operator, count) == operator.requestedExits

RaisedRequest(operator, count) == Max({operator.requestedExits, count})

\* Unsolicited exits answer the demand.
AnsweredDemand(unsolicited) ==
  currentValidatorExitsDemand - Min({unsolicited, currentValidatorExitsDemand})

ReportStoppedValidatorCounts(counts) ==
  LET unsolicited == Unsolicited(counts)
  IN
  /\ CountsAreAccepted(counts)
  /\ operators' = [i \in Indexes |->
       IF i \in DOMAIN counts
         THEN [operators[i] EXCEPT !.requestedExits =
                                     RaisedRequest(operators[i], counts[i])]
         ELSE operators[i]]
  /\ totalValidatorExitsRequested' = totalValidatorExitsRequested + unsolicited
  /\ currentValidatorExitsDemand' = AnsweredDemand(unsolicited)
  /\ stopped' = counts
  /\ UNCHANGED <<validatorKeys, depositedValidatorCount, audit>>

-----------------------------------------------------------------------------
Init ==
  /\ operators = <<>>
  /\ validatorKeys = <<>>
  /\ stopped = <<>>
  /\ totalValidatorExitsRequested = 0
  /\ currentValidatorExitsDemand = 0
  /\ depositedValidatorCount = 0
  /\ block = 1
  /\ snapshot = [block |-> 0, count |-> <<>>, table |-> <<>>]
  /\ approved = <<>>

\* The sequences of keys an operator may add, and of counts a report may hold.
UpTo(n, S) == UNION {[1..m -> S] : m \in 0..n}

Next ==
  \/ AddOperator
  \/ \E i \in Indexes :
       \/ \E status \in BOOLEAN : SetOperatorStatus(i, status)
       \/ \E newKeys \in UpTo(MaxKeys, Key) : AddValidators(i, newKeys)
       \/ \E removed \in SUBSET KeyIndex : RemoveValidators(i, removed)
  \/ TakeSnapshot
  \/ \E newLimits \in AuditedLimits : SetOperatorLimits(newLimits)
  \/ \E allocation \in Allocations :
       \/ PickNextValidatorsToDeposit(allocation)
       \/ RequestValidatorExits(allocation)
  \/ \E count \in ExitCount : DemandValidatorExits(count)
  \/ \E counts \in UpTo(Len(operators), 0..MaxKeys) :
       ReportStoppedValidatorCounts(counts)

Spec == Init /\ [][Next]_vars

-----------------------------------------------------------------------------
(* Properties                                                              *)

\* Invariant: what Operators.2.sol:14-15 says of every operator, continued with
\* the validators reported stopped.  Each comparison guards a subtraction the
\* code makes elsewhere.
CountsAreOrdered ==
  \A i \in Indexes :
    /\ operators[i].keys >= operators[i].limit
    /\ operators[i].limit >= operators[i].funded
    /\ operators[i].funded >= operators[i].requestedExits
    /\ operators[i].requestedExits >= StoppedCount(i)

\* Invariant: the three global counters are the sums they stand for, and what is
\* requested or demanded never exceeds what is deposited: demandValidatorExits
\* subtracts one from the other, and its revert would stop every report.  None of
\* them falls below zero.
ExitsAreAccounted ==
  /\ TypeOK
  /\ totalValidatorExitsRequested
       = SumFunction([i \in Indexes |-> operators[i].requestedExits])
  /\ depositedValidatorCount = SumFunction([i \in Indexes |-> operators[i].funded])
  /\ totalValidatorExitsRequested + currentValidatorExitsDemand
       <= depositedValidatorCount

\* Invariant: a key that may be funded has been approved by an audit, although
\* operators add, remove and so reorder keys while audits are under way.
OnlyAuditedKeysAreFundable ==
  \A i \in Indexes : \A k \in 0..(operators[i].limit - 1) :
    validatorKeys[i][k] \in approved[i]

=============================================================================
