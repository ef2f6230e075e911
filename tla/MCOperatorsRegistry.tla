------------------------- MODULE MCOperatorsRegistry -------------------------
(* An instance of OperatorsRegistry for TLC.                               *)
EXTENDS OperatorsRegistry, TLC

\* Keys are compared for equality only.
KeySymmetry == Permutations(Key)

\* With one operator and no exits demanded, any keys and any audits.
KeysVary == Len(operators) <= 1 /\ currentValidatorExitsDemand = 0

\* With several operators, exits of any number, of keys that are all alike, one
\* operator having fewer than the other may.
KeysUsed == UNION {{validatorKeys[i][k] : k \in KeyIndex} : i \in Indexes} \ {NoKey}

ExitsVary ==
  /\ block <= 2
  /\ \E i \in Indexes : operators[i].keys < MaxKeys
  /\ \E i \in Indexes : operators[i].active
  /\ Cardinality(KeysUsed) <= 1

\* Bound: one or the other.
KeysOrExits == KeysVary \/ ExitsVary

=============================================================================
