--------------------------- MODULE NonceDeployment ---------------------------
(***************************************************************************)
(* The deployment scripts of mainnet.  Contracts that refer to each other  *)
(* are deployed one after another, so a script computes the addresses of   *)
(* those still to come from the deployer's transaction count, passes them  *)
(* to the contracts it deploys first, and in the end compares them with    *)
(* what the later ones got.  A deployment is recorded as it is made, a     *)
(* rerun reuses what is recorded, and a script is skipped on the strength  *)
(* of the records alone.  The scripts are a constant (MainnetScripts).     *)
(*                                                                         *)
(* An address of the deployer is the nonce it was deployed with.           *)
(***************************************************************************)
EXTENDS Integers, Sequences, FiniteSets

CONSTANTS
  Scripts,      \* the scripts, in the order they run
  MaxCrashes,   \* bound: runs that end in the middle
  MaxForeign,   \* bound: transactions the deployer sends beside the scripts
  MaxRuns       \* bound: times the command is run

(* A script is a record [futures, steps, skip]: the contracts whose address *)
(* it computes, and how far from the first nonce each is expected; what it  *)
(* does; the names that are recorded when it is to be skipped.  A step is a *)
(* record [op, name, future, known]: it deploys a contract or a proxy, with *)
(* the contracts it is to refer to, by a computed address or by a recorded  *)
(* one; or it compares the computed address of a contract with the recorded *)
(* one (addressHolds), or what one answers with the record (refersTo).      *)

Operations == {"contract", "proxy", "addressHolds", "refersTo"}

StepsOf(s) == {Scripts[s].steps[i] : i \in DOMAIN Scripts[s].steps}
FuturesOf(s) == DOMAIN Scripts[s].futures
Names ==
  UNION {{step.name : step \in StepsOf(s)} \cup Scripts[s].skip : s \in DOMAIN Scripts}

ASSUME ScriptsAssumption ==
  /\ Scripts \in Seq({Scripts[s] : s \in DOMAIN Scripts})
  /\ \A s \in DOMAIN Scripts :
       /\ Scripts[s].steps \in Seq(StepsOf(s))
       /\ \A step \in StepsOf(s) :
            /\ step.op \in Operations
            /\ step.future \subseteq FuturesOf(s)
            /\ step.known \subseteq Names
       /\ \A t \in FuturesOf(s) : Scripts[s].futures[t] \in Nat

IsDeployment(step) == step.op \in {"contract", "proxy"}
Deployments(s) == {i \in DOMAIN Scripts[s].steps : IsDeployment(Scripts[s].steps[i])}
Deployed(s) == {Scripts[s].steps[i].name : i \in Deployments(s)}

\* Never deployed again once it is recorded, if what it knows is so too.
IsFirm(step) == step.op = "proxy" \/ step.future = {}

Firm ==
  UNION {{step.name : step \in {d \in StepsOf(s) : IsDeployment(d) /\ IsFirm(d)}} :
         s \in DOMAIN Scripts}

\* The script deploys t as a proxy; it compares t with the computed address.
DeploysProxy(s, t) == \E step \in StepsOf(s) : step.op = "proxy" /\ step.name = t
Compares(s, t) == \E step \in StepsOf(s) : step.op = "addressHolds" /\ step.name = t

\* A script that computes addresses is skipped on the strength of its own records.
Computes(s) == FuturesOf(s) # {} \/ \E step \in StepsOf(s) : ~IsDeployment(step)

\* Recorded when the step is reached: by the script, or by one before it, which
\* left it recorded whether it went through or was skipped.
DeployedBefore(s, i, t) == \E j \in Deployments(s) : j < i /\ Scripts[s].steps[j].name = t
RecordedBefore(s, i, t) ==
  \/ DeployedBefore(s, i, t)
  \/ \E r \in DOMAIN Scripts : r < s /\ t \in Deployed(r) \cap Scripts[r].skip

\* How the scripts wire contracts.  Each is deployed in one place.  An address is
\* computed of a proxy of the same script, and compared in the end.  What may be
\* deployed again is known to nothing outside of its script; a proxy that knows it
\* or was given a computed address is itself compared.
ASSUME WiringAssumption ==
  /\ \A s, r \in DOMAIN Scripts : \A i \in Deployments(s), j \in Deployments(r) :
       Scripts[s].steps[i].name = Scripts[r].steps[j].name => s = r /\ i = j
  /\ \A s \in DOMAIN Scripts :
       /\ Computes(s) => Scripts[s].skip \subseteq Deployed(s)
       /\ \A i \in DOMAIN Scripts[s].steps :
            LET step == Scripts[s].steps[i] IN
            /\ \A t \in step.known : RecordedBefore(s, i, t)
            /\ step.known \cap step.future = {}
            /\ step.op = "contract" => step.known \subseteq Firm
            /\ step.known \ Firm \subseteq Deployed(s)
            /\ step.op = "proxy" =>
                 \/ step.known \subseteq Firm /\ step.future = {}
                 \/ Compares(s, step.name)
            /\ \A t \in step.future : DeploysProxy(s, t) /\ Compares(s, t)
            /\ ~IsDeployment(step) => DeployedBefore(s, i, step.name)
            /\ step.op = "addressHolds" => step.name \in FuturesOf(s)
            /\ step.op = "refersTo" => step.future = {}

\* How many deployments of a script come before i.
Distance(s, i) == Cardinality({j \in Deployments(s) : j < i})

\* The distances of a script count its deployments, and a contract is asked for
\* what it was given.
ASSUME DistanceAssumption ==
  \A s \in DOMAIN Scripts :
    \A i \in DOMAIN Scripts[s].steps, j \in Deployments(s) :
      LET step == Scripts[s].steps[i]
          deployment == Scripts[s].steps[j]
      IN
      step.name = deployment.name =>
        /\ step.op = "addressHolds" => Scripts[s].futures[step.name] = Distance(s, j)
        /\ step.op = "refersTo" =>
             /\ step.known \subseteq deployment.known \cup deployment.future
             /\ \A t \in step.known : DeployedBefore(s, i, t)

ASSUME BoundsAssumption ==
  /\ MaxCrashes \in Nat
  /\ MaxForeign \in Nat
  /\ MaxRuns \in Nat

VARIABLES
  nonce,     \* the transactions of the deployer
  address,   \* deployments/mainnet: the address of each name
  refers,    \* the contracts each was given, with the address it was given
  script,    \* the script under way; 0: none; past the last: all went through
  pc,        \* its step; 0: its skip function
  base,      \* the transaction count it read
  ran,       \* the scripts that went through without being skipped
  runs, crashes, foreign

records == <<address, refers>>
vars == <<nonce, records, script, pc, base, ran, runs, crashes, foreign>>

None == -1
Finished == Len(Scripts) + 1
Running == script \in DOMAIN Scripts
Steps == Scripts[script].steps
Step == Steps[pc]
AtStep == Running /\ pc \in DOMAIN Steps

isDeployed(name) == address[name] # None

\* A variant that passes over no script but those that went through.
SkipHoldsOnceRan(s) == s \in ran
SkipHolds(s) == \A name \in Scripts[s].skip : isDeployed(name)

\* A variant that counts from the transaction after the next one.
FutureAddressAfter(t) == base + Scripts[script].futures[t] + 1
FutureAddress(t) == base + Scripts[script].futures[t]

References(step) ==
  {<<t, FutureAddress(t)>> : t \in step.future}
    \cup {<<t, address[t]>> : t \in step.known}

-----------------------------------------------------------------------------

\* On to a step of the script, or to another script, which will count anew.
Goto(i) == pc' = i /\ UNCHANGED <<script, base>>
Leave(s) == script' = s /\ pc' = 0 /\ base' = None

Start ==
  /\ ~Running
  /\ runs < MaxRuns
  /\ runs' = runs + 1
  /\ Leave(1)
  /\ UNCHANGED <<nonce, records, ran, crashes, foreign>>

Skip ==
  /\ Running
  /\ pc = 0
  /\ SkipHolds(script)
  /\ Leave(script + 1)
  /\ UNCHANGED <<nonce, records, ran, runs, crashes, foreign>>

\* The script reads the deployer's transaction count.
RunScript ==
  /\ Running
  /\ pc = 0
  /\ ~SkipHolds(script)
  /\ base' = nonce
  /\ pc' = 1
  /\ UNCHANGED <<nonce, records, script, ran, runs, crashes, foreign>>

Deploys == AtStep /\ IsDeployment(Step)

\* A plain contract is deployed again when its arguments are others; a proxy
\* that is recorded stays what it is.
Reused(step) ==
  /\ isDeployed(step.name)
  /\ step.op = "contract" => refers[step.name] = References(step)

Reuse ==
  /\ Deploys
  /\ Reused(Step)
  /\ Goto(pc + 1)
  /\ UNCHANGED <<nonce, records, ran, runs, crashes, foreign>>

Deploy ==
  /\ Deploys
  /\ ~Reused(Step)
  /\ address' = [address EXCEPT ![Step.name] = nonce]
  /\ refers' = [refers EXCEPT ![Step.name] = References(Step)]
  /\ nonce' = nonce + 1
  /\ Goto(pc + 1)
  /\ UNCHANGED <<ran, runs, crashes, foreign>>

\* A variant that takes any recorded address for the computed one.
HoldsIfDeployed(step) == isDeployed(step.name)

\* A comparison of the script.
Holds(step) ==
  \/ step.op = "addressHolds" /\ address[step.name] = FutureAddress(step.name)
  \/ step.op = "refersTo" /\ References(step) \subseteq refers[step.name]

Compare ==
  /\ AtStep
  /\ Holds(Step)
  /\ Goto(pc + 1)
  /\ UNCHANGED <<nonce, records, ran, runs, crashes, foreign>>

Throw ==
  /\ AtStep
  /\ ~Deploys
  /\ ~Holds(Step)
  /\ Leave(0)
  /\ UNCHANGED <<nonce, records, ran, runs, crashes, foreign>>

EndScript ==
  /\ Running
  /\ pc = Len(Steps) + 1
  /\ ran' = ran \cup {script}
  /\ Leave(script + 1)
  /\ UNCHANGED <<nonce, records, runs, crashes, foreign>>

\* The deployer's key is used for something else, during a run or between two.
SendForeign ==
  /\ foreign < MaxForeign
  /\ foreign' = foreign + 1
  /\ nonce' = nonce + 1
  /\ UNCHANGED <<records, script, pc, base, ran, runs, crashes>>

\* A run ends in the middle.  A deployment sent and not recorded is found again
\* by the next run, which waits for it, so a deployment and its record are one.
Crash ==
  /\ Running
  /\ crashes < MaxCrashes
  /\ crashes' = crashes + 1
  /\ Leave(0)
  /\ UNCHANGED <<nonce, records, ran, runs, foreign>>

Init ==
  /\ nonce = 0
  /\ address = [name \in Names |-> None]
  /\ refers = [name \in Names |-> {}]
  /\ script = 0
  /\ pc = 0
  /\ base = None
  /\ ran = {}
  /\ runs = 0
  /\ crashes = 0
  /\ foreign = 0

Proceed == Skip \/ RunScript \/ Reuse \/ Deploy \/ Compare \/ Throw \/ EndScript

Next == Start \/ Proceed \/ SendForeign \/ Crash

Spec == Init /\ [][Next]_vars

\* The process makes its steps, and the operator runs the command again until
\* it goes through.
FairSpec ==
  /\ Spec
  /\ WF_vars(Proceed)
  /\ WF_vars(Start /\ script # Finished)

-----------------------------------------------------------------------------

\* What a script deployed refers to the contracts that are recorded.
Wired(s) ==
  \A step \in StepsOf(s) :
    \A given \in refers[step.name] : given[2] = address[given[1]]

\* A script that went through by running has left every contract referring to
\* the recorded ones, and no later run breaks this, whatever it found recorded
\* and whatever else the deployer sent meanwhile (the comparisons of 02, 03, 07
\* and 10).
RanIsWired == \A s \in ran : Wired(s)

\* The distances the scripts count with are right: unless a run was lost or the
\* deployer sent something else, no computed address is wrong.
DistancesAreRight == [][Throw => crashes + foreign > 0]_vars

\* The redeem manager is recorded, the implementations after it are not: its
\* script is not skipped, and cannot go through.
RedeemManagerIsStuck ==
  \E s \in DOMAIN Scripts :
    /\ "RedeemManager" \in FuturesOf(s)
    /\ isDeployed("RedeemManager")
    /\ ~SkipHolds(s)

\* Rerunning the command goes through in the end: every script that throws is
\* passed over by the next run, except that of the redeem manager (10), which
\* can stay where it is for good.
EventuallyPassed == <>(script = Finished) \/ <>[]RedeemManagerIsStuck
=============================================================================
