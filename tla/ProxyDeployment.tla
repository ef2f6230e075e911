--------------------------- MODULE ProxyDeployment ---------------------------
(***************************************************************************)
(* The deployment of the proxies on hoodi and devHoodi, and their upgrade  *)
(* to 1.3.0 on devHoodi.  `hardhat deploy' runs the scripts of a network   *)
(* one after another.  Each first asks whether to be skipped, then goes    *)
(* through its steps: it deploys what is not recorded, reads the chain to  *)
(* see whether a proxy is to be initialised, handed over or upgraded,      *)
(* sends a transaction if so, and waits for it.  A run may end anywhere,   *)
(* leaving a transaction in flight; the operator then runs the command     *)
(* again, from the first script.  The scripts are a constant, one table    *)
(* for each network (module DeployScripts); this module is what running,   *)
(* losing and rerunning them does to the chain.                            *)
(***************************************************************************)
EXTENDS Integers, Sequences, FiniteSets

CONSTANTS
  Scripts,          \* the scripts of the network, in the order they run
  MaxCrashes,       \* bound: runs that end in the middle of a script
  MaxReadFailures   \* bound: reads of the chain that fail and are caught

Core == {"River", "Oracle", "OperatorsRegistry", "ELFeeRecipient", "RedeemManager"}
Contracts == Core \cup {"Withdraw", "Allowlist", "CoverageFund"}

\* The account that is to govern each proxy: a firewall in front of the proxy
\* administrator, or the proxy administrator itself.
ProxyFirewall ==
  [Allowlist |-> "AllowlistProxyFirewall",
   River |-> "RiverProxyFirewall",
   Oracle |-> "OracleProxyFirewall",
   OperatorsRegistry |-> "OperatorsRegistryProxyFirewall",
   RedeemManager |-> "RedeemManagerProxyFirewall"]

Governor(c) ==
  IF c \in DOMAIN ProxyFirewall THEN ProxyFirewall[c] ELSE "proxyAdministrator"

Firewalls ==
  {ProxyFirewall[c] : c \in DOMAIN ProxyFirewall}
    \cup {"AllowlistFirewall", "RiverFirewall", "OracleFirewall", "OperatorsRegistryFirewall"}
Nobody == "nobody"
Accounts == {"deployer", "proxyAdministrator", Nobody} \cup Firewalls
Releases == {"none", "1_2_1", "1_3_0"}

-----------------------------------------------------------------------------
(* A script is a record [steps, skip]: what it does, in order, and what its *)
(* skip function finds done to skip it.  A step is a record [op, of, at, to]: *)
(* an operation, the contract it is about, the Initializable version an     *)
(* initialiser runs at, and the implementation or the account it leads to.  *)

Deployments == {"implementation", "proxy", "firewall"}
Transactions == {"initialise", "handOver", "call", "migrate", "upgrade"}
Operations == Deployments \cup Transactions \cup {"verify"}

NoInitialiser == -1

StepRecord ==
  [op : Operations, of : Contracts \cup Firewalls, at : Int,
   to : Accounts \cup Releases \cup {""}]

StepsOf(s) == {Scripts[s].steps[i] : i \in DOMAIN Scripts[s].steps}

ASSUME ScriptsAssumption ==
  /\ Scripts \in Seq([steps : Seq(StepRecord), skip : SUBSET StepRecord])
  /\ \A s \in DOMAIN Scripts :
       \A step \in StepsOf(s) \cup Scripts[s].skip :
         step.op # "firewall" => step.of \in Contracts

\* How many initialisers each proxy has after the upgrade.
Initialisers(c) ==
  CASE c = "River" -> 3
    [] c \in {"Withdraw", "CoverageFund", "ELFeeRecipient"} -> 1
    [] OTHER -> 2

\* What the scripts have in common.  An implementation is one of a release; a proxy
\* of the core is deployed for the deployer, who initialises it, and those of
\* Withdraw and CoverageFund for their governor; an initialiser runs once; a proxy is
\* handed over to its governor; an upgrade runs the last initialiser of a proxy, or
\* none if the proxy has but one.
WellFormed(step) ==
  /\ step.op = "implementation" => step.to \in Releases
  /\ step.op = "proxy" =>
       \/ step.to = "deployer" /\ step.at = 0 /\ step.of \notin {"Withdraw", "CoverageFund"}
       \/ /\ step.of \notin Core
          /\ step.to = Governor(step.of)
          /\ step.at = 1 \/ (step.at = 0 /\ step.of = "Withdraw")
  /\ step.op = "initialise" => step.at = 0 /\ step.to = "1_2_1"
  /\ step.op = "handOver" => step.to = Governor(step.of)
  /\ step.op = "call" => <<step.of, step.at>> \in {<<"Withdraw", 0>>, <<"River", 1>>}
  /\ step.op = "upgrade" =>
       /\ step.to = "1_3_0"
       /\ \/ step.at = NoInitialiser /\ Initialisers(step.of) = 1
          \/ step.at >= 1 /\ step.at = Initialisers(step.of) - 1

Precedes(op, c, s, i) ==
  \E j \in 1..(i - 1) : Scripts[s].steps[j].op = op /\ Scripts[s].steps[j].of = c

GivesRedeemManager(step) == step.op = "call" /\ step.of = "River" /\ step.at = 1

\* Once a script went through or was skipped, River has its redeem manager; `op'
\* is done to c.
HandsOut(s) ==
  /\ \E done \in Scripts[s].skip : GivesRedeemManager(done)
  /\ \E done \in StepsOf(s) : GivesRedeemManager(done)

Leaves(s, op, c) ==
  /\ \E done \in Scripts[s].skip : done.op = op /\ done.of = c
  /\ \E done \in StepsOf(s) : done.op = op /\ done.of = c

\* The order they keep.  A proxy is initialised, then handed over; River is given
\* its redeem manager after everything else of that script; the upgrade comes
\* after a script that gives it, and is not skipped before it is given; River is
\* upgraded last.
WellPlaced(s, i) ==
  LET step == Scripts[s].steps[i] IN
  /\ step.op = "handOver" => Precedes("initialise", step.of, s, i)
  /\ GivesRedeemManager(step) =>
       /\ \A c \in Core : Precedes("handOver", c, s, i)
       /\ Precedes("call", "Withdraw", s, i)
  /\ step.op = "upgrade" =>
       /\ \E t \in 1..(s - 1) : HandsOut(t)
       /\ step.of = "River" =>
            \A c \in Contracts \ {"River"} : Precedes("upgrade", c, s, i)

ASSUME OrderAssumption ==
  \A s \in DOMAIN Scripts :
    \A i \in DOMAIN Scripts[s].steps :
      WellFormed(Scripts[s].steps[i]) /\ WellPlaced(s, i)

\* What they achieve together.  The four scripts of the deployment, gone through or
\* skipped, leave River with its redeem manager, the Allowlist initialised and
\* CoverageFund deployed, whatever other proxies they have; those of the upgrade
\* leave every proxy upgraded.
ASSUME CompletenessAssumption ==
  /\ \A s \in DOMAIN Scripts : \A step \in Scripts[s].skip : WellFormed(step)
  /\ \E s \in DOMAIN Scripts : s <= 4 /\ HandsOut(s)
  /\ \E s \in DOMAIN Scripts : s <= 4 /\ Leaves(s, "initialise", "Allowlist")
  /\ \E s \in DOMAIN Scripts : s <= 4 /\ Leaves(s, "proxy", "CoverageFund")
  /\ Len(Scripts) >= 7 =>
       \A c \in Contracts : \E s \in DOMAIN Scripts : s <= 7 /\ Leaves(s, "upgrade", c)

ASSUME BoundsAssumption == MaxCrashes \in Nat /\ MaxReadFailures \in Nat

VARIABLES
  recorded,   \* the deployments of deployments/<network>, by name and kind
  chain,      \* each proxy: its admin, its implementation, and how many of
              \* its initialisers have run (the Initializable version)
  migrated,   \* whether the OperatorsRegistry's event migration is complete
  script,     \* the script under way; 0: none; past the last: all went through
  pc,         \* its step; 0: its skip function
  inFlight,   \* the transactions of each sender that are not mined, by nonce
  waitingFor, \* the sender whose last transaction the run waits for
  crashes,
  readFailures

world == <<recorded, chain, migrated>>
run == <<script, pc, waitingFor>>
vars == <<world, run, inFlight, crashes, readFailures>>

Senders == {"deployer", "proxyAdministrator"}

Finished == Len(Scripts) + 1
Running == script \in 1..Len(Scripts)
Steps == Scripts[script].steps
Step == Steps[pc]

-----------------------------------------------------------------------------
(* The chain and the recorded deployments.                                 *)

Undeployed == [admin |-> Nobody, impl |-> "none", version |-> 0]

Name(step) == <<step.of, IF step.op = "implementation" THEN step.to ELSE step.op>>

\* A variant that does not look at the admin.
DoneButTheAdmin(step) ==
  \/ step.op \in Deployments /\ Name(step) \in recorded
  \/ step.op \in {"initialise", "call"} /\ chain[step.of].version > step.at
  \/ step.op = "upgrade" /\ chain[step.of].impl = step.to
  \/ step.op = "migrate" /\ migrated

\* A variant that takes a recorded proxy for an initialised one.
DoneIfRecorded(step) ==
  \/ step.op \in Deployments /\ Name(step) \in recorded
  \/ step.op \in {"initialise", "call"} /\ <<step.of, "proxy">> \in recorded
  \/ step.op = "handOver" /\ chain[step.of].admin = step.to
  \/ step.op = "upgrade" /\ chain[step.of].impl = step.to
  \/ step.op = "migrate" /\ migrated

\* A variant that does not look at the implementation of a proxy.
DoneButTheUpgrade(step) ==
  \/ step.op \in Deployments /\ Name(step) \in recorded
  \/ step.op \in {"initialise", "call"} /\ chain[step.of].version > step.at
  \/ step.op = "handOver" /\ chain[step.of].admin = step.to
  \/ step.op = "migrate" /\ migrated

\* What a step does is found to be the case already.
Done(step) ==
  \/ step.op \in Deployments /\ Name(step) \in recorded
  \/ step.op \in {"initialise", "call"} /\ chain[step.of].version > step.at
  \/ step.op = "handOver" /\ chain[step.of].admin = step.to
  \/ step.op = "upgrade" /\ chain[step.of].impl = step.to
  \/ step.op = "migrate" /\ migrated

\* A variant whose initialisers run at any version.
AcceptedAgain(tx) ==
  \/ /\ tx.op \in {"initialise", "handOver"}
     /\ chain[tx.of].admin = "deployer"
  \/ /\ tx.op = "call"
     /\ chain[tx.of].admin \notin {"deployer", Nobody}
  \/ /\ tx.op = "upgrade"
     /\ chain[tx.of].admin = Governor(tx.of)
  \/ /\ tx.op = "migrate"
     /\ ~migrated

\* A transaction is accepted.  A proxy obeys upgradeToAndCall and changeAdmin
\* from its admin alone; from anyone else it passes them to the implementation,
\* which has no such functions.  It passes nothing on for its admin.  An
\* initialiser runs at its own version only.
Accepted(tx) ==
  \/ /\ tx.op = "initialise"
     /\ chain[tx.of].admin = "deployer"
     /\ chain[tx.of].version = tx.at
  \/ /\ tx.op = "handOver"
     /\ chain[tx.of].admin = "deployer"
  \/ /\ tx.op = "call"
     /\ chain[tx.of].admin \notin {"deployer", Nobody}
     /\ chain[tx.of].version = tx.at
  \/ /\ tx.op = "upgrade"
     /\ chain[tx.of].admin = Governor(tx.of)
     /\ tx.at \in {NoInitialiser, chain[tx.of].version}
  \/ /\ tx.op = "migrate"
     /\ ~migrated

Effect(tx) ==
  /\ chain' =
       IF tx.op = "migrate" THEN chain
       ELSE [chain EXCEPT
              ![tx.of].admin = IF tx.op = "handOver" THEN tx.to ELSE @,
              ![tx.of].impl = IF tx.op \in {"initialise", "upgrade"} THEN tx.to ELSE @,
              ![tx.of].version =
                 IF tx.op = "handOver" \/ tx.at = NoInitialiser THEN @ ELSE @ + 1]
  /\ migrated' = (migrated \/ tx.op = "migrate")
  /\ UNCHANGED recorded

SenderOf(step) == IF step.op = "upgrade" THEN "proxyAdministrator" ELSE "deployer"

-----------------------------------------------------------------------------
(* A run of the command.                                                   *)

Goto(s, i) == script' = s /\ pc' = i /\ waitingFor' = Nobody

\* The operator runs the command, for the first time or again.
Start ==
  /\ ~Running
  /\ Goto(1, 0)
  /\ UNCHANGED <<world, inFlight, crashes, readFailures>>

\* A read of the chain fails, and the script catches the failure.
ReadFails ==
  /\ readFailures < MaxReadFailures
  /\ readFailures' = readFailures + 1

\* A variant that takes one thing done for all of them.
SkipIfAny ==
  /\ Running
  /\ pc = 0
  /\ \E step \in Scripts[script].skip : Done(step)
  /\ Goto(script + 1, 0)
  /\ UNCHANGED <<world, inFlight, crashes, readFailures>>

Skip ==
  /\ Running
  /\ pc = 0
  /\ \A step \in Scripts[script].skip : Done(step)
  /\ Goto(script + 1, 0)
  /\ UNCHANGED <<world, inFlight, crashes, readFailures>>

\* A skip function that cannot read the chain lets the script run.
RunScript ==
  /\ Running
  /\ pc = 0
  /\ \/ /\ \E step \in Scripts[script].skip : ~Done(step)
        /\ UNCHANGED readFailures
     \/ /\ \E step \in Scripts[script].skip : step.op \in Transactions
        /\ ReadFails
  /\ Goto(script, 1)
  /\ UNCHANGED <<world, inFlight, crashes>>

AtStep == Running /\ pc \in DOMAIN Steps /\ waitingFor = Nobody

\* deployments.deploy records what it deploys and reuses what is recorded.  A
\* proxy is born with its admin, and initialised when it is deployed with
\* `execute'.  The deployment has a nonce after those in flight.
Deploy ==
  /\ AtStep
  /\ Step.op \in Deployments
  /\ ~Done(Step)
  /\ inFlight["deployer"] = <<>>
  /\ recorded' = recorded \cup {Name(Step)}
  /\ chain' = IF Step.op = "proxy"
              THEN [chain EXCEPT ![Step.of] =
                      [admin |-> Step.to, impl |-> "1_2_1", version |-> Step.at]]
              ELSE chain
  /\ Goto(script, pc + 1)
  /\ UNCHANGED <<migrated, inFlight, crashes, readFailures>>

\* The step finds its work done.  The migration does not look.
PassOver ==
  /\ AtStep
  /\ Step.op # "migrate"
  /\ Done(Step)
  /\ Goto(script, pc + 1)
  /\ UNCHANGED <<world, inFlight, crashes, readFailures>>

\* Reads through a view function fall back to "not initialised"; those of
\* the Allowlist and of a storage slot end the run.
CaughtRead(step) ==
  step.op \in {"initialise", "call"} /\ step.of \notin {"Allowlist", "ELFeeRecipient"}

Send ==
  /\ AtStep
  /\ Step.op \in Transactions
  /\ \/ /\ ~Done(Step) \/ Step.op = "migrate"
        /\ UNCHANGED readFailures
     \/ CaughtRead(Step) /\ ReadFails
  /\ waitingFor' = SenderOf(Step)
  /\ inFlight' = [inFlight EXCEPT ![SenderOf(Step)] = Append(@, Step)]
  /\ UNCHANGED <<world, script, pc, crashes>>

\* The verification finds every proxy on the new implementation, the references
\* between the contracts set, and the denier of the Allowlist.
Verified ==
  /\ \A c \in Contracts : chain[c].impl = "1_3_0"
  /\ \A c \in {"Oracle", "OperatorsRegistry", "RedeemManager", "Withdraw"} :
       chain[c].version >= 1
  /\ chain["River"].version >= 2
  /\ chain["Allowlist"].version >= 2

\* It throws otherwise, and the run ends.
Verify ==
  /\ AtStep
  /\ Step.op = "verify"
  /\ IF Verified THEN Goto(script, pc + 1) ELSE Goto(0, 0)
  /\ UNCHANGED <<world, inFlight, crashes, readFailures>>

EndScript ==
  /\ Running
  /\ pc = Len(Steps) + 1
  /\ Goto(script + 1, 0)
  /\ UNCHANGED <<world, inFlight, crashes, readFailures>>

\* A transaction is mined, the sender's earlier ones first.  The run goes on
\* if it waited for this one.
Awaited(a) == waitingFor = a /\ Len(inFlight[a]) = 1

Mine(a) ==
  /\ inFlight[a] # <<>>
  /\ Accepted(Head(inFlight[a]))
  /\ Effect(Head(inFlight[a]))
  /\ inFlight' = [inFlight EXCEPT ![a] = Tail(@)]
  /\ IF Awaited(a) THEN Goto(script, pc + 1) ELSE UNCHANGED run
  /\ UNCHANGED <<crashes, readFailures>>

\* It reverts.  The run ends by an exception if it waited for this one, except
\* that a migration already complete is expected.  The script throws on a node that
\* names another reason for that: an end of the run like any other, see Crash.
Revert(a) ==
  /\ inFlight[a] # <<>>
  /\ ~Accepted(Head(inFlight[a]))
  /\ inFlight' = [inFlight EXCEPT ![a] = Tail(@)]
  /\ IF ~Awaited(a) THEN UNCHANGED run
     ELSE IF Head(inFlight[a]).op = "migrate" THEN Goto(script, pc + 1)
     ELSE Goto(0, 0)
  /\ UNCHANGED <<world, crashes, readFailures>>

-----------------------------------------------------------------------------
(* What goes wrong.                                                        *)

\* The run ends: the process dies, the node does not answer, the wait for a
\* transaction is given up.  What was sent stays sent.
Crash ==
  /\ Running
  /\ crashes < MaxCrashes
  /\ crashes' = crashes + 1
  /\ Goto(0, 0)
  /\ UNCHANGED <<world, inFlight, readFailures>>

\* What an ended run left in flight is dropped by the network.
Drop(a) ==
  /\ inFlight[a] # <<>>
  /\ waitingFor # a
  /\ inFlight' = [inFlight EXCEPT ![a] = <<>>]
  /\ UNCHANGED <<world, run, crashes, readFailures>>

Init ==
  /\ recorded = {}
  /\ chain = [c \in Contracts |-> Undeployed]
  /\ migrated = FALSE
  /\ script = 0
  /\ pc = 0
  /\ inFlight = [a \in Senders |-> <<>>]
  /\ waitingFor = Nobody
  /\ crashes = 0
  /\ readFailures = 0

Proceed == Skip \/ RunScript \/ Deploy \/ PassOver \/ Send \/ Verify \/ EndScript

Next ==
  \/ Start
  \/ Proceed
  \/ \E a \in Senders : Mine(a) \/ Revert(a) \/ Drop(a)
  \/ Crash

\* The process makes its steps, the network mines what it is sent, and the
\* operator runs the command again until it goes through.
Fairness ==
  /\ WF_vars(Proceed)
  /\ \A a \in Senders : WF_vars(Mine(a) \/ Revert(a))
  /\ WF_vars(Start /\ script # Finished)

Spec == Init /\ [][Next]_vars
FairSpec == Spec /\ Fairness

-----------------------------------------------------------------------------
(* What the scripts achieve.                                               *)

TypeOK ==
  /\ recorded \subseteq
       (Contracts \cup Firewalls) \X (Deployments \cup Accounts \cup Releases \cup {""})
  /\ chain \in [Contracts -> [admin : Accounts, impl : Releases, version : Nat]]
  /\ migrated \in BOOLEAN
  /\ script \in 0..Finished
  /\ pc \in Nat
  /\ inFlight \in [Senders -> Seq(StepRecord)]
  /\ waitingFor \in Senders \cup {Nobody}
  /\ crashes \in Nat
  /\ readFailures \in Nat

Initialised(c) == chain[c].version >= 1
Governed(c) == chain[c].admin = Governor(c)
Opened == chain["River"].version >= 2
Upgraded(c) == chain[c].impl = "1_3_0"

\* Once the four scripts of the deployment went through, every proxy is
\* initialised, River has its redeem manager, and every proxy is under its governor
\* but for an Allowlist left with the deployer, wherever the runs before ended and
\* whatever their reads returned: a script is skipped only when what it was to do
\* is done (skip functions of 02 and 03, phases 3 to 5 of 03).  The Allowlist is
\* the exception because 02 is skipped once it is initialised.
DeployedIsInitialised ==
  script > 4 =>
    /\ Opened
    /\ \A c \in Contracts :
         /\ Initialised(c)
         /\ Governed(c) \/ (c = "Allowlist" /\ chain[c].admin = "deployer")

FullyInitialised(c) == chain[c].version = Initialisers(c)

\* An upgrade that has been verified left every proxy on its new implementation,
\* with every initialiser run exactly once, and under its governor, although the
\* verification looks at none of the admins and at few of the initialisers.
VerifiedIsComplete ==
  script > 7 => \A c \in Contracts : Upgraded(c) /\ Governed(c) /\ FullyInitialised(c)

\* Once runs stop being lost, rerunning the command deploys everything: no crash, no
\* transaction left in flight and no failed read leaves a state that the rerun
\* scripts cannot continue from.
EventuallyDeployed == <>(script > 4)

\* The same of the upgrade, unless the Allowlist was left with the deployer for
\* good, in which case 06 cannot upgrade it.
EventuallyVerified ==
  <>(script = Finished) \/ <>[](chain["Allowlist"].admin = "deployer")

\* The scripts implement the life of a proxy: initialised once, handed over
\* initialised, River opened with everything around it governed and upgraded
\* last, and never taken back, whatever is lost, rerun or mined late.
Lifecycle ==
  INSTANCE ProxyLifecycle WITH
    Proxies <- Contracts,
    Hub <- "River",
    initialised <- {c \in Contracts : Initialised(c)},
    governed <- {c \in Contracts : Governed(c)},
    opened <- Opened,
    upgraded <- {c \in Contracts : Upgraded(c)}

LifecycleSpec == Lifecycle!Spec
=============================================================================
