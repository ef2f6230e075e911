------------------------ MODULE NonceDeploymentProofs ------------------------
(***************************************************************************)
(* What a script of mainnet that went through has wired stays wired, and   *)
(* the distances it counts with are right: for any scripts of which        *)
(* WiringAssumption and DistanceAssumption hold, wherever their runs end   *)
(* and whatever else the deployer sends.                                   *)
(***************************************************************************)
EXTENDS NonceDeployment, FiniteSetTheorems, TLAPS

-----------------------------------------------------------------------------
(* The invariant                                                           *)

StepAt(s, i) == Scripts[s].steps[i]

TypeOK ==
  /\ nonce \in Nat
  /\ address \in [Names -> Int]
  /\ \A name \in Names : isDeployed(name) => address[name] \in Nat /\ address[name] < nonce
  /\ DOMAIN refers = Names
  /\ script \in 0..Finished
  /\ pc \in Nat
  /\ pc > 0 => Running /\ pc <= Len(Steps) + 1 /\ base \in Nat /\ base <= nonce
  /\ ran \subseteq DOMAIN Scripts
  /\ crashes \in Nat
  /\ foreign \in Nat

\* What a script leaves recorded, skipped or not.
PassedAreRecorded ==
  \A s \in DOMAIN Scripts :
    /\ s < script => \A name \in Deployed(s) \cap Scripts[s].skip : isDeployed(name)
    /\ s \in ran => \A name \in Deployed(s) : isDeployed(name)

\* A script that computes addresses does not run again once it went through.
RunsOnce == pc > 0 /\ Computes(script) => script \notin ran

\* Given only addresses that do not change, of contracts that are recorded.
IsSettled(step) == step.known \subseteq Firm /\ step.future = {}
SettledAreWired ==
  \A s \in DOMAIN Scripts : \A i \in Deployments(s) :
    isDeployed(StepAt(s, i).name) /\ IsSettled(StepAt(s, i)) =>
      /\ refers[StepAt(s, i).name] = {<<t, address[t]>> : t \in StepAt(s, i).known}
      /\ \A t \in StepAt(s, i).known : isDeployed(t)

\* A contract was given addresses of contracts its script names.
GivenAreNamed ==
  \A s \in DOMAIN Scripts : \A i \in Deployments(s) :
    \A given \in refers[StepAt(s, i).name] :
      given[1] \in StepAt(s, i).known \cup StepAt(s, i).future /\ given[2] \in Nat

\* The steps a run is past.  What it deployed itself, and every plain contract, was
\* given the addresses that are recorded and computed now.
BehindAreWired ==
  pc > 0 =>
    \A i \in 1..(pc - 1) :
      LET step == StepAt(script, i) IN
      /\ IsDeployment(step) =>
           /\ isDeployed(step.name)
           /\ step.op = "contract" \/ address[step.name] >= base =>
                refers[step.name] = References(step)
      /\ step.op = "addressHolds" => address[step.name] = FutureAddress(step.name)

\* What a run finds recorded was deployed before it counted.
AheadAreOld ==
  pc > 0 =>
    \A i \in Deployments(script) :
      i >= pc /\ isDeployed(StepAt(script, i).name) => address[StepAt(script, i).name] < base

WiringInv ==
  /\ TypeOK
  /\ PassedAreRecorded
  /\ RunsOnce
  /\ SettledAreWired
  /\ GivenAreNamed
  /\ BehindAreWired
  /\ AheadAreOld
  /\ RanIsWired

\* Without a lost run or another transaction, what a script deploys is deployed by
\* its first run, one transaction after the other.
DistanceInv ==
  crashes + foreign = 0 =>
    /\ \A s \in DOMAIN Scripts :
         s \notin ran /\ (pc > 0 => script # s) =>
           \A name \in Deployed(s) : ~isDeployed(name)
    /\ pc > 0 /\ script \notin ran =>
         /\ nonce = base + Distance(script, pc)
         /\ \A i \in Deployments(script) :
              IF i < pc THEN address[StepAt(script, i).name] = base + Distance(script, i)
                        ELSE ~isDeployed(StepAt(script, i).name)

-----------------------------------------------------------------------------
(* The scripts                                                             *)

LEMMA ScriptsAreCounted ==
  /\ Len(Scripts) \in Nat /\ DOMAIN Scripts = 1..Len(Scripts)
  /\ \A s \in DOMAIN Scripts :
       /\ Len(Scripts[s].steps) \in Nat
       /\ DOMAIN Scripts[s].steps = 1..Len(Scripts[s].steps)
<1>1. ASSUME NEW S, NEW q \in Seq(S) PROVE Len(q) \in Nat /\ DOMAIN q = 1..Len(q)
  OBVIOUS
<1> QED BY <1>1, ScriptsAssumption

\* What is assumed of a step.
LEMMA StepIsWired ==
  ASSUME NEW s \in DOMAIN Scripts, NEW i \in DOMAIN Scripts[s].steps,
         NEW step, step = StepAt(s, i)
  PROVE  /\ step \in StepsOf(s) /\ step.name \in Names /\ step.op \in Operations
         /\ step.known \subseteq Names /\ step.future \subseteq FuturesOf(s)
         /\ \A t \in step.known : RecordedBefore(s, i, t)
         /\ step.known \cap step.future = {}
         /\ step.op = "contract" => step.known \subseteq Firm
         /\ step.known \ Firm \subseteq Deployed(s)
         /\ step.op = "proxy" => IsSettled(step) \/ Compares(s, step.name)
         /\ \A t \in step.future : DeploysProxy(s, t) /\ Compares(s, t)
         /\ ~IsDeployment(step) => DeployedBefore(s, i, step.name)
         /\ step.op = "addressHolds" => step.name \in FuturesOf(s)
         /\ step.op = "refersTo" => step.future = {}
<1>1. step \in StepsOf(s)
  BY DEF StepsOf, StepAt
<1>2. step.name \in Names /\ step.op \in Operations /\ step.known \subseteq Names
      /\ step.future \subseteq FuturesOf(s)
  BY <1>1, ScriptsAssumption DEF Names
<1> QED BY <1>1, <1>2, WiringAssumption DEF StepAt, IsSettled

LEMMA DeploymentHasName ==
  ASSUME NEW s \in DOMAIN Scripts
  PROVE  /\ \A i \in Deployments(s) :
              /\ i \in DOMAIN Scripts[s].steps
              /\ StepAt(s, i).name \in Deployed(s) /\ StepAt(s, i).name \in Names
              /\ IsDeployment(StepAt(s, i))
         /\ \A name \in Deployed(s) :
              name \in Names /\ \E i \in Deployments(s) : StepAt(s, i).name = name
<1>1. \A i \in Deployments(s) :
        /\ i \in DOMAIN Scripts[s].steps /\ IsDeployment(StepAt(s, i))
        /\ StepAt(s, i).name \in Deployed(s)
  BY DEF Deployments, Deployed, StepAt
<1>2. \A i \in Deployments(s) : StepAt(s, i).name \in Names
  BY <1>1, StepIsWired
<1>3. \A name \in Deployed(s) : \E i \in Deployments(s) : StepAt(s, i).name = name
  BY DEF Deployed, StepAt
<1> QED BY <1>1, <1>2, <1>3

\* A contract is deployed in one place.
LEMMA DeployedOnce ==
  ASSUME NEW s \in DOMAIN Scripts, NEW i \in Deployments(s),
         NEW r \in DOMAIN Scripts, NEW j \in Deployments(r),
         StepAt(s, i).name = StepAt(r, j).name
  PROVE  s = r /\ i = j
BY WiringAssumption DEF StepAt

LEMMA DeployedByOne ==
  ASSUME NEW s \in DOMAIN Scripts, NEW r \in DOMAIN Scripts,
         NEW name \in Deployed(s), name \in Deployed(r)
  PROVE  s = r
BY DeploymentHasName, DeployedOnce

LEMMA FirmStepIsFirm ==
  ASSUME NEW s \in DOMAIN Scripts, NEW i \in Deployments(s), StepAt(s, i).name \in Firm
  PROVE  IsFirm(StepAt(s, i))
<1>1. PICK r \in DOMAIN Scripts :
        \E d \in StepsOf(r) : IsDeployment(d) /\ IsFirm(d) /\ d.name = StepAt(s, i).name
  BY DEF Firm
<1>2. PICK j \in Deployments(r) :
        IsFirm(StepAt(r, j)) /\ StepAt(r, j).name = StepAt(s, i).name
  BY <1>1 DEF StepsOf, Deployments, StepAt
<1> QED BY <1>2, DeployedOnce

LEMMA ProxyIsDeployed ==
  ASSUME NEW s \in DOMAIN Scripts, NEW t, DeploysProxy(s, t)
  PROVE  \E i \in Deployments(s) : StepAt(s, i).name = t /\ StepAt(s, i).op = "proxy"
BY DEF DeploysProxy, StepsOf, Deployments, IsDeployment, StepAt

\* Every step of a script is about a contract it deploys.
LEMMA StepIsOfDeployed ==
  ASSUME NEW s \in DOMAIN Scripts, NEW step \in StepsOf(s)
  PROVE  step.name \in Deployed(s)
<1>1. PICK i \in DOMAIN Scripts[s].steps : step = StepAt(s, i)
  BY DEF StepsOf, StepAt
<1>2. CASE IsDeployment(step)
  BY <1>1, <1>2 DEF Deployed, Deployments, StepAt
<1>3. CASE ~IsDeployment(step)
  BY <1>1, <1>3, StepIsWired DEF DeployedBefore, Deployed
<1> QED BY <1>2, <1>3

LEMMA CountedStep ==
  ASSUME TypeOK, pc > 0
  PROVE  /\ script \in DOMAIN Scripts /\ base \in Nat /\ base <= nonce
         /\ pc \in 1..(Len(Steps) + 1) /\ Len(Steps) \in Nat /\ DOMAIN Steps = 1..Len(Steps)
         /\ AtStep <=> pc # Len(Steps) + 1
         /\ AtStep => Step = StepAt(script, pc) /\ pc \in DOMAIN Scripts[script].steps
<1>1. Running /\ pc <= Len(Steps) + 1 /\ base \in Nat /\ base <= nonce /\ pc \in Nat
  BY DEF TypeOK
<1>2. script \in DOMAIN Scripts
  BY <1>1 DEF Running
<1>3. Len(Steps) \in Nat /\ DOMAIN Steps = 1..Len(Steps)
  BY <1>2, ScriptsAreCounted DEF Steps
<1>4. AtStep <=> pc # Len(Steps) + 1
  BY <1>1, <1>3 DEF AtStep
<1>5. AtStep => Step = StepAt(script, pc) /\ pc \in DOMAIN Scripts[script].steps
  BY DEF AtStep, Step, Steps, StepAt
<1> QED BY <1>1, <1>2, <1>3, <1>4, <1>5

-----------------------------------------------------------------------------
(* Wiring                                                                  *)

LEMMA InitIsWired == Init => WiringInv
<1> SUFFICES ASSUME Init PROVE WiringInv
  OBVIOUS
<1>1. /\ \A name \in Names : ~isDeployed(name) /\ refers[name] = {}
      /\ nonce = 0 /\ DOMAIN refers = Names /\ script = 0 /\ pc = 0 /\ ran = {}
      /\ crashes = 0 /\ foreign = 0 /\ address \in [Names -> Int]
  BY DEF Init, isDeployed, None
<1>2. TypeOK
  BY <1>1, ScriptsAreCounted DEF TypeOK, Finished
<1>3. PassedAreRecorded
  BY <1>1, ScriptsAreCounted DEF PassedAreRecorded
<1>4. SettledAreWired /\ GivenAreNamed
  BY <1>1, DeploymentHasName DEF SettledAreWired, GivenAreNamed
<1> QED BY <1>1, <1>2, <1>3, <1>4 DEF WiringInv, RunsOnce, BehindAreWired, AheadAreOld, RanIsWired

\* What is known at a step is recorded, and not deployed by that step.
LEMMA KnownIsRecorded ==
  ASSUME TypeOK, PassedAreRecorded, BehindAreWired, pc > 0,
         NEW i \in DOMAIN Scripts[script].steps, i <= pc,
         NEW t \in StepAt(script, i).known
  PROVE  /\ t \in Names /\ isDeployed(t)
         /\ AtStep /\ IsDeployment(Step) => t # Step.name
<1>1. script \in DOMAIN Scripts /\ script \in Nat /\ pc \in Nat /\ i \in Nat
  BY CountedStep, ScriptsAreCounted DEF TypeOK
<1>2. RecordedBefore(script, i, t) /\ t \in Names
  BY <1>1, StepIsWired
<1>3. AtStep /\ IsDeployment(Step) => pc \in Deployments(script) /\ Step = StepAt(script, pc)
  BY CountedStep DEF Deployments, StepAt
<1>4. CASE \E j \in Deployments(script) : j < i /\ StepAt(script, j).name = t
  <2>1. PICK j \in Deployments(script) : j < i /\ StepAt(script, j).name = t
    BY <1>4
  <2>2. j \in 1..(pc - 1) /\ IsDeployment(StepAt(script, j))
    <3>1. j \in DOMAIN Scripts[script].steps /\ IsDeployment(StepAt(script, j))
      BY <1>1, DeploymentHasName
    <3>2. j \in Nat /\ j >= 1
      BY <1>1, <3>1, ScriptsAreCounted
    <3> QED BY <1>1, <2>1, <3>1, <3>2
  <2>3. isDeployed(t)
    BY <2>1, <2>2 DEF BehindAreWired
  <2> QED BY <1>1, <1>2, <1>3, <2>1, <2>2, <2>3, DeployedOnce
<1>5. CASE \E r \in DOMAIN Scripts : r < script /\ t \in Deployed(r) \cap Scripts[r].skip
  <2>1. PICK r \in DOMAIN Scripts : r < script /\ t \in Deployed(r) /\ t \in Scripts[r].skip
    BY <1>5
  <2>2. isDeployed(t)
    BY <2>1 DEF PassedAreRecorded
  <2>3. r # script
    BY <1>1, <2>1
  <2>4. AtStep /\ IsDeployment(Step) => Step.name \in Deployed(script)
    BY <1>1, <1>3, DeploymentHasName
  <2> QED BY <1>1, <1>2, <2>1, <2>2, <2>3, <2>4, DeployedByOne
<1> QED BY <1>2, <1>4, <1>5 DEF RecordedBefore, DeployedBefore, StepAt

\* A recorded contract is deployed again only for a computed address, and by a
\* script that did not go through yet.
LEMMA RedeployedIsLoose ==
  ASSUME WiringInv, Deploy, isDeployed(Step.name)
  PROVE  Step.op = "contract" /\ Step.name \notin Firm /\ script \notin ran
<1>1. TypeOK /\ pc > 0
  BY ScriptsAreCounted DEF WiringInv, Deploy, Deploys, AtStep, TypeOK, Running, Steps
<1>2. /\ script \in DOMAIN Scripts /\ pc \in Deployments(script)
      /\ Step = StepAt(script, pc) /\ pc \in DOMAIN Scripts[script].steps
  BY <1>1, CountedStep DEF Deploy, Deploys, Deployments, StepAt
<1>3. Step.op = "contract" /\ refers[Step.name] # References(Step)
  BY DEF Deploy, Deploys, IsDeployment, Reused
<1>4. Step.known \subseteq Firm /\ Step.future \subseteq FuturesOf(script)
  BY <1>2, <1>3, StepIsWired
<1>5. Step.future # {}
  <2> SUFFICES ASSUME Step.future = {} PROVE FALSE
    OBVIOUS
  <2>1. refers[Step.name] = {<<t, address[t]>> : t \in Step.known}
    BY <1>2, <1>4 DEF WiringInv, SettledAreWired, IsSettled
  <2>2. References(Step) = {<<t, address[t]>> : t \in Step.known}
    BY DEF References
  <2> QED BY <1>3, <2>1, <2>2
<1>6. Step.name \notin Firm
  BY <1>2, <1>3, <1>5, FirmStepIsFirm DEF IsFirm
<1>7. script \notin ran
  BY <1>1, <1>4, <1>5 DEF WiringInv, RunsOnce, Computes
<1> QED BY <1>3, <1>6, <1>7

\* The records after a deployment.
LEMMA DeployChanges ==
  ASSUME WiringInv, Deploy
  PROVE  /\ script \in DOMAIN Scripts /\ pc > 0 /\ pc \in Deployments(script)
         /\ pc \in DOMAIN Scripts[script].steps /\ Step = StepAt(script, pc)
         /\ Step.name \in Names /\ Step.name \in Deployed(script)
         /\ \A name \in Names :
              /\ name # Step.name => address'[name] = address[name] /\ refers'[name] = refers[name]
              /\ isDeployed(name)' <=> name = Step.name \/ isDeployed(name)
         /\ address'[Step.name] = nonce
         /\ refers'[Step.name] = References(Step)
         /\ DOMAIN refers' = Names /\ address' \in [Names -> Int]
         /\ nonce' = nonce + 1 /\ pc' = pc + 1
         /\ UNCHANGED <<script, base, ran, crashes, foreign>>
<1>1. TypeOK /\ pc > 0
  BY ScriptsAreCounted DEF WiringInv, Deploy, Deploys, AtStep, TypeOK, Running, Steps
<1>2. /\ script \in DOMAIN Scripts /\ pc \in Deployments(script)
      /\ Step = StepAt(script, pc) /\ pc \in DOMAIN Scripts[script].steps
  BY <1>1, CountedStep DEF Deploy, Deploys, Deployments, StepAt
<1>3. Step.name \in Names /\ Step.name \in Deployed(script)
  BY <1>2, DeploymentHasName
<1>4. /\ address' = [address EXCEPT ![Step.name] = nonce]
      /\ refers' = [refers EXCEPT ![Step.name] = References(Step)]
      /\ nonce' = nonce + 1 /\ pc' = pc + 1
      /\ UNCHANGED <<script, base, ran, crashes, foreign>>
  BY DEF Deploy, Goto
<1>5. nonce \in Nat /\ address \in [Names -> Int] /\ DOMAIN refers = Names
  BY <1>1 DEF TypeOK
<1>6. address'[Step.name] = nonce /\ refers'[Step.name] = References(Step)
  BY <1>3, <1>4, <1>5
<1>7. \A name \in Names : name # Step.name => /\ address'[name] = address[name]
                                              /\ refers'[name] = refers[name]
  BY <1>4, <1>5
<1>8. ASSUME NEW name \in Names
      PROVE  isDeployed(name)' <=> name = Step.name \/ isDeployed(name)
  <2>1. isDeployed(name)' <=> address'[name] # None
    BY DEF isDeployed, None
  <2>2. name = Step.name => address'[name] # None
    BY <1>5, <1>6 DEF None
  <2> QED BY <1>7, <2>1, <2>2 DEF isDeployed
<1>9. DOMAIN refers' = Names
  BY <1>4, <1>5
<1>10. address' \in [Names -> Int]
  BY <1>3, <1>4, <1>5
<1> QED BY <1>1, <1>2, <1>3, <1>4, <1>6, <1>7, <1>8, <1>9, <1>10

\* What an address is computed to be, or known to be.
LEMMA ReferenceIsGiven ==
  ASSUME NEW step, NEW given \in References(step)
  PROVE  \/ \E t \in step.future : given = <<t, FutureAddress(t)>>
         \/ \E t \in step.known : given = <<t, address[t]>>
BY DEF References

LEMMA ReferencesKept ==
  ASSUME NEW step, UNCHANGED <<script, base>>,
         \A t \in step.known : address'[t] = address[t]
  PROVE  References(step)' = References(step)
<1>1. \A t : FutureAddress(t)' = FutureAddress(t)
  BY DEF FutureAddress
<1>2. {<<t, FutureAddress(t)>> : t \in step.future}' = {<<t, FutureAddress(t)>> : t \in step.future}
  BY <1>1
<1>3. {<<t, address'[t]>> : t \in step.known} = {<<t, address[t]>> : t \in step.known}
  OBVIOUS
<1> QED BY <1>2, <1>3 DEF References

LEMMA DeployKeepsType ==
  ASSUME WiringInv, Deploy
  PROVE  TypeOK' /\ PassedAreRecorded' /\ RunsOnce'
<1>1. TypeOK /\ PassedAreRecorded /\ RunsOnce
  BY DEF WiringInv
<1>2. \A name \in Names : isDeployed(name) => isDeployed(name)'
  BY DeployChanges
<1>3. TypeOK'
  <2>1. AtStep
    BY DEF Deploy, Deploys
  <2>2. \A name \in Names : isDeployed(name)' => address'[name] \in Nat /\ address'[name] < nonce'
    BY <1>1, DeployChanges DEF TypeOK
  <2>3. Running' /\ Steps' = Steps
    BY DeployChanges DEF Running, Steps
  <2>4. pc' \in Nat /\ pc' <= Len(Steps) + 1
    BY <1>1, <2>1, DeployChanges, CountedStep
  <2>5. Finished' = Finished
    BY DEF Finished
  <2> QED BY <1>1, <2>2, <2>3, <2>4, <2>5, DeployChanges DEF TypeOK
<1>4. PassedAreRecorded'
  BY <1>1, <1>2, DeployChanges, DeploymentHasName DEF PassedAreRecorded
<1>5. RunsOnce'
  BY <1>1, DeployChanges DEF RunsOnce
<1> QED BY <1>3, <1>4, <1>5

LEMMA DeployKeepsBehind ==
  ASSUME WiringInv, Deploy
  PROVE  BehindAreWired'
<1>1. TypeOK /\ PassedAreRecorded /\ BehindAreWired
  BY DEF WiringInv
<1>2. pc \in Nat /\ pc' = pc + 1 /\ script' = script /\ base' = base
  BY <1>1, DeployChanges DEF TypeOK
<1>3. ASSUME NEW i \in 1..(pc' - 1), NEW step, step = StepAt(script, i)
      PROVE  /\ i \in DOMAIN Scripts[script].steps /\ References(step)' = References(step)
             /\ i # pc /\ IsDeployment(step) => step.name \in Names /\ step.name # Step.name
  <2>1. i \in DOMAIN Scripts[script].steps
    BY <1>1, <1>2, CountedStep, DeployChanges, ScriptsAreCounted
  <2>2. \A t \in step.known : t \in Names /\ t # Step.name
    BY <1>1, <1>2, <1>3, <2>1, KnownIsRecorded DEF Deploy, Deploys
  <2>3. References(step)' = References(step)
    BY <1>2, <2>2, DeployChanges, ReferencesKept
  <2>4. IsDeployment(step) => i \in Deployments(script)
    BY <1>3, <2>1 DEF Deployments, StepAt
  <2> QED BY <1>3, <2>1, <2>3, <2>4, DeployChanges, DeployedOnce, DeploymentHasName
<1>4. ASSUME NEW i \in 1..(pc' - 1), NEW step, step = StepAt(script, i), IsDeployment(step)
      PROVE  /\ isDeployed(step.name)'
             /\ step.op = "contract" \/ address'[step.name] >= base =>
                  refers'[step.name] = References(step)'
  <2>1. CASE i = pc
    BY <1>3, <1>4, <2>1, DeployChanges
  <2>2. CASE i # pc
    <3>1. /\ step.name \in Names /\ step.name # Step.name
          /\ References(step)' = References(step)
      BY <1>3, <1>4, <2>2
    <3>2. i \in 1..(pc - 1)
      BY <1>2, <2>2
    <3>3. /\ isDeployed(step.name)
          /\ step.op = "contract" \/ address[step.name] >= base =>
                refers[step.name] = References(step)
      BY <1>1, <1>4, <3>2, DeployChanges DEF BehindAreWired
    <3> QED BY <3>1, <3>3, DeployChanges
  <2> QED BY <2>1, <2>2
<1>5. ASSUME NEW i \in 1..(pc' - 1), NEW step, step = StepAt(script, i),
             step.op = "addressHolds"
      PROVE  address'[step.name] = FutureAddress(step.name)
  <2>1. i # pc
    BY <1>5, DeployChanges DEF Deploy, Deploys, IsDeployment
  <2>2. i \in 1..(pc - 1)
    BY <1>2, <2>1
  <2>3. address[step.name] = FutureAddress(step.name)
    BY <1>1, <1>5, <2>2, DeployChanges DEF BehindAreWired
  <2>4. DeployedBefore(script, i, step.name)
    BY <1>3, <1>5, DeployChanges, StepIsWired DEF IsDeployment
  <2>5. PICK j \in Deployments(script) : j < i /\ StepAt(script, j).name = step.name
    BY <2>4 DEF DeployedBefore, StepAt
  <2>6. step.name # Step.name
    BY <2>2, <2>5, <1>2, DeployChanges, DeployedOnce, ScriptsAreCounted DEF Deployments
  <2>7. step.name \in Names
    BY <2>5, DeployChanges, DeploymentHasName
  <2> QED BY <2>3, <2>6, <2>7, DeployChanges
<1>6. \A t : FutureAddress(t)' = FutureAddress(t)
  BY <1>2 DEF FutureAddress
<1>7. \A i : StepAt(script, i)' = StepAt(script, i)
  BY <1>2 DEF StepAt
<1> QED BY <1>2, <1>4, <1>5, <1>6, <1>7 DEF BehindAreWired

LEMMA DeployKeepsSettled ==
  ASSUME WiringInv, Deploy
  PROVE  SettledAreWired'
<1>1. TypeOK /\ PassedAreRecorded /\ BehindAreWired /\ SettledAreWired
  BY DEF WiringInv
<1>2. pc \in Nat /\ pc > 0 /\ pc' = pc + 1
  BY <1>1, DeployChanges DEF TypeOK
<1>3. SUFFICES ASSUME NEW s \in DOMAIN Scripts, NEW i \in Deployments(s),
                      NEW step, step = StepAt(s, i),
                      isDeployed(step.name)', IsSettled(step)
               PROVE  /\ refers'[step.name] = {<<t, address'[t]>> : t \in step.known}
                      /\ \A t \in step.known : isDeployed(t)'
  BY DEF SettledAreWired, StepAt
<1>4. step.name \in Names /\ i \in DOMAIN Scripts[s].steps /\ step.known \subseteq Names
  BY <1>3, DeploymentHasName, StepIsWired
<1>5. CASE step.name = Step.name
  <2>1. s = script /\ i = pc /\ step = Step
    BY <1>3, <1>5, DeployChanges, DeployedOnce
  <2>2. \A t \in step.known : isDeployed(t) /\ t # Step.name
    BY <1>1, <1>2, <1>3, <2>1, DeployChanges, KnownIsRecorded DEF Deploy, Deploys
  <2>3. References(Step) = {<<t, address[t]>> : t \in step.known}
    BY <1>3, <2>1 DEF References, IsSettled
  <2>4. {<<t, address'[t]>> : t \in step.known} = {<<t, address[t]>> : t \in step.known}
    BY <1>4, <2>2, DeployChanges
  <2> QED BY <1>4, <1>5, <2>2, <2>3, <2>4, DeployChanges
<1>6. CASE step.name # Step.name
  <2>1. isDeployed(step.name)
    BY <1>3, <1>4, <1>6, DeployChanges
  <2>2. /\ refers[step.name] = {<<t, address[t]>> : t \in step.known}
        /\ \A t \in step.known : isDeployed(t)
    BY <1>1, <1>3, <2>1 DEF SettledAreWired
  <2>3. \A t \in step.known : t # Step.name
    BY <1>3, <2>2, RedeployedIsLoose DEF IsSettled
  <2>4. {<<t, address'[t]>> : t \in step.known} = {<<t, address[t]>> : t \in step.known}
    BY <1>4, <2>3, DeployChanges
  <2> QED BY <1>4, <1>6, <2>2, <2>4, DeployChanges
<1> QED BY <1>5, <1>6

LEMMA DeployKeepsGiven ==
  ASSUME WiringInv, Deploy
  PROVE  GivenAreNamed'
<1>1. TypeOK /\ PassedAreRecorded /\ BehindAreWired /\ GivenAreNamed
  BY DEF WiringInv
<1>2. pc \in Nat /\ pc > 0 /\ base \in Nat
  BY <1>1, CountedStep, DeployChanges DEF TypeOK
<1>3. SUFFICES ASSUME NEW s \in DOMAIN Scripts, NEW i \in Deployments(s),
                      NEW step, step = StepAt(s, i), NEW given \in refers'[step.name]
               PROVE  given[1] \in step.known \cup step.future /\ given[2] \in Nat
  BY DEF GivenAreNamed, StepAt
<1>4. step.name \in Names
  BY <1>3, DeploymentHasName
<1>5. CASE step.name = Step.name
  <2>1. s = script /\ i = pc /\ step = Step /\ given \in References(step)
    BY <1>3, <1>5, DeployChanges, DeployedOnce
  <2>2. CASE \E t \in step.future : given = <<t, FutureAddress(t)>>
    <3>1. PICK t \in step.future : given = <<t, FutureAddress(t)>>
      BY <2>2
    <3>2. Scripts[script].futures[t] \in Nat
      BY <2>1, <3>1, DeployChanges, StepIsWired, ScriptsAssumption
    <3> QED BY <1>2, <3>1, <3>2 DEF FutureAddress
  <2>3. CASE \E t \in step.known : given = <<t, address[t]>>
    <3>1. PICK t \in step.known : given = <<t, address[t]>>
      BY <2>3
    <3>2. t \in Names /\ isDeployed(t)
      BY <1>1, <1>2, <2>1, <3>1, DeployChanges, KnownIsRecorded
    <3> QED BY <1>1, <3>1, <3>2 DEF TypeOK
  <2> QED BY <2>1, <2>2, <2>3, ReferenceIsGiven
<1>6. CASE step.name # Step.name
  BY <1>1, <1>3, <1>4, <1>6, DeployChanges DEF GivenAreNamed
<1> QED BY <1>5, <1>6

\* What a script that went through has wired is not deployed again.
LEMMA DeployKeepsWired ==
  ASSUME WiringInv, Deploy
  PROVE  RanIsWired'
<1>1. TypeOK /\ PassedAreRecorded /\ GivenAreNamed /\ RanIsWired
  BY DEF WiringInv
<1>2. SUFFICES ASSUME NEW s \in ran, NEW step \in StepsOf(s), NEW given \in refers'[step.name]
               PROVE  given[2] = address'[given[1]]
  BY DeployChanges DEF RanIsWired, Wired
<1>3. s \in DOMAIN Scripts /\ step.name \in Deployed(s)
  BY <1>1, StepIsOfDeployed DEF TypeOK
<1>4. s # script \/ ~isDeployed(Step.name)
  BY RedeployedIsLoose
<1>5. Step.name \notin Deployed(s)
  <2>1. Step.name \in Deployed(s) => s = script
    BY <1>3, DeployChanges, DeployedByOne
  <2>2. s = script => isDeployed(Step.name)
    BY <1>1, <1>3, DeployChanges DEF PassedAreRecorded
  <2> QED BY <1>4, <2>1, <2>2
<1>6. PICK i \in Deployments(s) : StepAt(s, i).name = step.name
  BY <1>3, DeploymentHasName
<1>7. step.name \in Names /\ i \in DOMAIN Scripts[s].steps
  BY <1>3, <1>6, DeploymentHasName
<1>8. given \in refers[step.name] /\ given[2] = address[given[1]]
  <2>1. given \in refers[step.name]
    BY <1>2, <1>3, <1>5, <1>7, DeployChanges
  <2> QED BY <1>1, <1>2, <2>1 DEF RanIsWired, Wired
<1>9. PICK t : t = given[1]
  OBVIOUS
<1>10. t \in StepAt(s, i).known \cup StepAt(s, i).future /\ address[t] \in Nat
  BY <1>1, <1>3, <1>6, <1>8, <1>9 DEF GivenAreNamed
<1>11. ASSUME t = Step.name PROVE FALSE
  <2>1. isDeployed(t)
    BY <1>10 DEF isDeployed, None
  <2>2. t \notin Firm
    BY <1>11, <2>1, RedeployedIsLoose
  <2>3. t \in StepAt(s, i).known => t \in Deployed(s)
    BY <1>3, <1>7, <2>2, StepIsWired
  <2>4. t \in StepAt(s, i).future => t \in Deployed(s)
    <3>1. t \in StepAt(s, i).future => DeploysProxy(s, t)
      BY <1>3, <1>7, StepIsWired
    <3> QED BY <1>3, <3>1, ProxyIsDeployed, DeploymentHasName
  <2> QED BY <1>5, <1>10, <1>11, <2>3, <2>4
<1>12. t \in Names
  <2>1. t \in StepAt(s, i).known => t \in Names
    BY <1>3, <1>7, StepIsWired
  <2>2. t \in StepAt(s, i).future => t \in Names
    <3>1. t \in StepAt(s, i).future => DeploysProxy(s, t)
      BY <1>3, <1>7, StepIsWired
    <3> QED BY <1>3, <3>1, ProxyIsDeployed, DeploymentHasName
  <2> QED BY <1>10, <2>1, <2>2
<1> QED BY <1>8, <1>9, <1>11, <1>12, DeployChanges
LEMMA DeployKeepsAhead ==
  ASSUME WiringInv, Deploy
  PROVE  AheadAreOld'
<1>1. TypeOK /\ AheadAreOld
  BY DEF WiringInv
<1>2. pc \in Nat /\ pc' = pc + 1 /\ script' = script /\ base' = base
  BY <1>1, DeployChanges DEF TypeOK
<1>3. SUFFICES ASSUME NEW i \in Deployments(script), NEW name, name = StepAt(script, i).name,
                      i >= pc + 1, isDeployed(name)'
               PROVE  address'[name] < base
  BY <1>2 DEF AheadAreOld, StepAt
<1>4. name \in Names /\ i \in Nat
  BY <1>3, DeployChanges, DeploymentHasName, ScriptsAreCounted
<1>5. name # Step.name
  BY <1>2, <1>3, <1>4, DeployChanges, DeployedOnce
<1>6. isDeployed(name) /\ address'[name] = address[name]
  BY <1>3, <1>4, <1>5, DeployChanges
<1> QED BY <1>1, <1>2, <1>3, <1>4, <1>6, DeployChanges DEF AheadAreOld

\* A step that deploys nothing leaves the records, and what they are wired to.
LEMMA RecordsKept ==
  ASSUME WiringInv, UNCHANGED records
  PROVE  /\ \A name \in Names : isDeployed(name)' = isDeployed(name)
         /\ SettledAreWired' /\ GivenAreNamed'
         /\ \A s : Wired(s)' = Wired(s)
<1>1. address' = address /\ refers' = refers
  BY DEF records
<1>2. \A name : isDeployed(name)' = isDeployed(name)
  BY <1>1 DEF isDeployed
<1>3. SettledAreWired'
  BY <1>1, <1>2 DEF WiringInv, SettledAreWired, StepAt
<1>4. GivenAreNamed'
  BY <1>1 DEF WiringInv, GivenAreNamed, StepAt
<1>5. \A s : Wired(s)' = Wired(s)
  BY <1>1 DEF Wired
<1> QED BY <1>2, <1>3, <1>4, <1>5
\* On to another script, or none.
LEMMA LeaveKeeps ==
  ASSUME WiringInv, UNCHANGED <<nonce, records>>, NEW s, s \in 0..Finished, Leave(s),
         ran' \subseteq DOMAIN Scripts, crashes' \in Nat, foreign' = foreign,
         PassedAreRecorded', \A r \in ran' : Wired(r)
  PROVE  WiringInv'
<1>1. address' = address /\ refers' = refers /\ nonce' = nonce /\ script' = s /\ pc' = 0
  BY DEF records, Leave
<1>2. \A name : isDeployed(name)' = isDeployed(name)
  BY <1>1 DEF isDeployed
<1>3. TypeOK'
  <2>1. \A name \in Names : isDeployed(name)' => address'[name] \in Nat /\ address'[name] < nonce'
    BY <1>1, <1>2 DEF WiringInv, TypeOK
  <2>2. Finished' = Finished
    BY DEF Finished
  <2> QED BY <1>1, <2>1, <2>2 DEF WiringInv, TypeOK
<1>4. RunsOnce' /\ BehindAreWired' /\ AheadAreOld'
  BY <1>1 DEF RunsOnce, BehindAreWired, AheadAreOld
<1>5. SettledAreWired' /\ GivenAreNamed'
  BY RecordsKept
<1>6. RanIsWired'
  BY RecordsKept DEF RanIsWired
<1> QED BY <1>3, <1>4, <1>5, <1>6 DEF WiringInv

\* A script that is skipped leaves recorded what it is skipped for.
LEMMA SkipKeepsWired == WiringInv /\ Skip => WiringInv'
<1> SUFFICES ASSUME WiringInv, Skip PROVE WiringInv'
  OBVIOUS
<1>1. /\ TypeOK /\ PassedAreRecorded /\ RanIsWired /\ script \in DOMAIN Scripts
      /\ script \in Nat /\ script + 1 \in 0..Finished
  BY ScriptsAreCounted DEF WiringInv, Skip, Running, Finished
<1>2. /\ Leave(script + 1) /\ UNCHANGED <<nonce, records, ran, crashes, foreign>>
      /\ script' = script + 1
  BY DEF Skip, Leave
<1>3. \A name : isDeployed(name)' = isDeployed(name)
  BY <1>2 DEF isDeployed, records
<1>4. \A s \in DOMAIN Scripts : s < script + 1 => s < script \/ s = script
  BY <1>1, ScriptsAreCounted
<1>5. \A name \in Scripts[script].skip : isDeployed(name)
  BY DEF Skip, SkipHolds
<1>6. PassedAreRecorded'
  BY <1>1, <1>2, <1>3, <1>4, <1>5 DEF PassedAreRecorded
<1> QED BY <1>1, <1>2, <1>6, LeaveKeeps DEF TypeOK, RanIsWired

\* A run that is given up keeps what it recorded.
LEMMA LeavingKeepsWired == WiringInv /\ (Start \/ Throw \/ Crash) => WiringInv'
<1> SUFFICES ASSUME WiringInv, Start \/ Throw \/ Crash PROVE WiringInv'
  OBVIOUS
<1>1. /\ TypeOK /\ PassedAreRecorded /\ RanIsWired /\ Len(Scripts) \in Nat
      /\ DOMAIN Scripts = 1..Len(Scripts) /\ script \in Nat
  BY ScriptsAreCounted DEF WiringInv, TypeOK, Finished
<1>2. UNCHANGED <<nonce, records, ran, foreign>> /\ crashes' \in Nat
  BY <1>1 DEF Start, Throw, Crash, TypeOK
<1>3. PICK s \in {0, 1} : Leave(s)
  BY DEF Start, Throw, Crash
<1>4. \A name : isDeployed(name)' = isDeployed(name)
  BY <1>2 DEF isDeployed, records
<1>5. \A r \in DOMAIN Scripts : ~(r < s)
  BY <1>1, <1>3
<1>6. PassedAreRecorded'
  BY <1>1, <1>2, <1>3, <1>4, <1>5 DEF PassedAreRecorded, Leave
<1>7. s \in 0..Finished
  BY <1>1, <1>3 DEF Finished
<1> QED BY <1>1, <1>2, <1>3, <1>6, <1>7, LeaveKeeps DEF TypeOK, RanIsWired

\* What goes through by running refers to what is recorded.
LEMMA EndScriptWires ==
  ASSUME WiringInv, EndScript
  PROVE  /\ script \in DOMAIN Scripts
         /\ \A name \in Deployed(script) : isDeployed(name)
         /\ Wired(script)
<1>1. TypeOK /\ BehindAreWired /\ SettledAreWired
  BY DEF WiringInv
<1>2. script \in DOMAIN Scripts /\ pc = Len(Steps) + 1 /\ Len(Steps) \in Nat
  BY ScriptsAreCounted DEF EndScript, Running, Steps
<1>3. pc > 0 /\ base \in Nat
  BY <1>1, <1>2, CountedStep
<1>4. DOMAIN Scripts[script].steps = 1..(pc - 1)
  BY <1>2, ScriptsAreCounted DEF Steps
<1>5. ASSUME NEW name \in Deployed(script), NEW i \in Deployments(script),
             NEW step, step = StepAt(script, i), step.name = name
      PROVE  /\ isDeployed(name)
             /\ step.op = "contract" \/ address[name] >= base => refers[name] = References(step)
  <2>1. i \in 1..(pc - 1) /\ IsDeployment(step)
    BY <1>2, <1>4, <1>5, DeploymentHasName
  <2> QED BY <1>1, <1>3, <1>5, <2>1 DEF BehindAreWired
<1>6. \A name \in Deployed(script) : isDeployed(name)
  BY <1>2, <1>5, DeploymentHasName
<1>7. ASSUME NEW t, Compares(script, t)
      PROVE  address[t] = FutureAddress(t) /\ address[t] >= base
  <2>1. PICK j \in DOMAIN Scripts[script].steps :
          StepAt(script, j).op = "addressHolds" /\ StepAt(script, j).name = t
    BY <1>7 DEF Compares, StepsOf, StepAt
  <2>2. address[t] = FutureAddress(t)
    BY <1>1, <1>3, <1>4, <2>1 DEF BehindAreWired
  <2>3. t \in FuturesOf(script)
    BY <1>2, <2>1, StepIsWired
  <2>4. Scripts[script].futures[t] \in Nat
    BY <1>2, <2>3, ScriptsAssumption
  <2> QED BY <1>3, <2>2, <2>4 DEF FutureAddress
<1>8. ASSUME NEW s \in StepsOf(script), NEW given \in refers[s.name]
      PROVE  given[2] = address[given[1]]
  <2>1. s.name \in Deployed(script)
    BY <1>2, StepIsOfDeployed
  <2>2. PICK i \in Deployments(script) : StepAt(script, i).name = s.name
    BY <1>2, <2>1, DeploymentHasName
  <2>3. PICK step : step = StepAt(script, i)
    OBVIOUS
  <2>4. i \in DOMAIN Scripts[script].steps /\ IsDeployment(step)
    BY <1>2, <2>2, <2>3, DeploymentHasName
  <2>5. CASE refers[s.name] = References(step)
    <3>1. \A t \in step.future : address[t] = FutureAddress(t)
      BY <1>2, <1>7, <2>3, <2>4, StepIsWired
    <3>2. CASE \E t \in step.future : given = <<t, FutureAddress(t)>>
      BY <3>1, <3>2
    <3>3. CASE \E t \in step.known : given = <<t, address[t]>>
      BY <3>3
    <3> QED BY <1>8, <2>5, <3>2, <3>3, ReferenceIsGiven
  <2>6. CASE step.op = "contract"
    BY <1>5, <2>1, <2>2, <2>3, <2>5, <2>6
  <2>7. CASE step.op = "proxy"
    <3>1. CASE IsSettled(step)
      <4>1. refers[s.name] = {<<t, address[t]>> : t \in step.known}
        BY <1>1, <1>2, <1>6, <2>1, <2>2, <2>3, <3>1 DEF SettledAreWired
      <4>2. PICK t \in step.known : given = <<t, address[t]>>
        BY <1>8, <4>1
      <4> QED BY <4>2
    <3>2. CASE Compares(script, step.name)
      BY <1>5, <1>7, <2>1, <2>2, <2>3, <2>5, <3>2
    <3> QED BY <1>2, <2>3, <2>4, <2>7, <3>1, <3>2, StepIsWired
  <2> QED BY <2>4, <2>6, <2>7 DEF IsDeployment
<1> QED BY <1>2, <1>6, <1>8 DEF Wired

LEMMA EndScriptKeepsWired == WiringInv /\ EndScript => WiringInv'
<1> SUFFICES ASSUME WiringInv, EndScript PROVE WiringInv'
  OBVIOUS
<1>1. TypeOK /\ PassedAreRecorded /\ RanIsWired
  BY DEF WiringInv
<1>2. /\ script \in DOMAIN Scripts /\ Wired(script)
      /\ \A name \in Deployed(script) : isDeployed(name)
  BY EndScriptWires
<1>3. script \in Nat /\ script + 1 \in 0..Finished
  BY <1>2, ScriptsAreCounted DEF Finished
<1>4. /\ Leave(script + 1) /\ UNCHANGED <<nonce, records, crashes, foreign>>
      /\ script' = script + 1 /\ ran' = ran \cup {script}
  BY DEF EndScript, Leave
<1>5. \A name : isDeployed(name)' = isDeployed(name)
  BY <1>4 DEF isDeployed, records
<1>6. \A s \in DOMAIN Scripts : s < script + 1 => s < script \/ s = script
  BY <1>3, ScriptsAreCounted
<1>7. PassedAreRecorded'
  BY <1>1, <1>2, <1>4, <1>5, <1>6 DEF PassedAreRecorded
<1>8. ran' \subseteq DOMAIN Scripts /\ \A r \in ran' : Wired(r)
  BY <1>1, <1>2, <1>4 DEF TypeOK, RanIsWired
<1> QED BY <1>1, <1>3, <1>4, <1>7, <1>8, LeaveKeeps DEF TypeOK
\* A script that went through is skipped, if it counted on addresses.
LEMMA RunScriptKeepsWired == WiringInv /\ RunScript => WiringInv'
<1> SUFFICES ASSUME WiringInv, RunScript PROVE WiringInv'
  OBVIOUS
<1>1. TypeOK /\ PassedAreRecorded /\ RanIsWired /\ script \in DOMAIN Scripts
  BY DEF WiringInv, RunScript, Running
<1>2. /\ UNCHANGED <<nonce, records, script, ran, crashes, foreign>>
      /\ base' = nonce /\ pc' = 1 /\ ~SkipHolds(script)
  BY DEF RunScript
<1>3. address' = address /\ refers' = refers
  BY <1>2 DEF records
<1>4. \A name : isDeployed(name)' = isDeployed(name)
  BY <1>3 DEF isDeployed
<1>5. TypeOK'
  <2>1. \A name \in Names : isDeployed(name)' => address'[name] \in Nat /\ address'[name] < nonce'
    BY <1>1, <1>2, <1>3, <1>4 DEF TypeOK
  <2>2. Running' /\ pc' <= (Len(Steps) + 1)'
    BY <1>1, <1>2, ScriptsAreCounted DEF Running, Steps
  <2>3. Finished' = Finished
    BY DEF Finished
  <2> QED BY <1>1, <1>2, <1>3, <2>1, <2>2, <2>3 DEF TypeOK
<1>6. PassedAreRecorded'
  BY <1>1, <1>2, <1>4 DEF PassedAreRecorded
<1>7. RunsOnce'
  <2>1. ASSUME Computes(script), script \in ran PROVE FALSE
    <3>1. Scripts[script].skip \subseteq Deployed(script)
      BY <1>1, <2>1, WiringAssumption
    <3> QED BY <1>1, <1>2, <2>1, <3>1 DEF PassedAreRecorded, SkipHolds
  <2> QED BY <1>2, <2>1 DEF RunsOnce
<1>8. BehindAreWired'
  BY <1>2 DEF BehindAreWired
<1>9. AheadAreOld'
  BY <1>1, <1>2, <1>3, <1>4, DeploymentHasName DEF AheadAreOld, StepAt, TypeOK
<1>10. SettledAreWired' /\ GivenAreNamed' /\ RanIsWired'
  BY <1>1, <1>2, RecordsKept DEF RanIsWired
<1> QED BY <1>5, <1>6, <1>7, <1>8, <1>9, <1>10 DEF WiringInv

\* A step that records nothing, and finds what it is about as it is to be.
LEMMA PassKeeps ==
  ASSUME WiringInv, AtStep, pc > 0, UNCHANGED <<nonce, records, ran, crashes, foreign>>, Goto(pc + 1),
         IsDeployment(Step) =>
           /\ isDeployed(Step.name)
           /\ Step.op = "contract" \/ address[Step.name] >= base =>
                refers[Step.name] = References(Step),
         Step.op = "addressHolds" => address[Step.name] = FutureAddress(Step.name)
  PROVE  WiringInv'
<1>1. TypeOK /\ PassedAreRecorded /\ RanIsWired /\ RunsOnce /\ BehindAreWired /\ AheadAreOld
  BY DEF WiringInv
<1>2. /\ script \in DOMAIN Scripts /\ pc \in Nat /\ pc < Len(Steps) + 1 /\ Len(Steps) \in Nat
      /\ Step = StepAt(script, pc)
  BY <1>1, CountedStep DEF TypeOK
<1>3. /\ UNCHANGED <<address, refers, nonce, script, base, ran, crashes, foreign>>
      /\ pc' = pc + 1
  BY DEF records, Goto
<1>4. \A name : isDeployed(name)' = isDeployed(name)
  BY <1>3 DEF isDeployed
<1>5. /\ \A t : FutureAddress(t)' = FutureAddress(t)
      /\ \A step : References(step)' = References(step)
  BY <1>3 DEF FutureAddress, References
<1>6. TypeOK'
  <2>1. \A name \in Names : isDeployed(name)' => address'[name] \in Nat /\ address'[name] < nonce'
    BY <1>1, <1>3, <1>4 DEF TypeOK
  <2>2. Running' /\ Steps' = Steps /\ pc' \in Nat /\ pc' <= Len(Steps) + 1
    BY <1>2, <1>3 DEF Running, Steps
  <2>3. Finished' = Finished
    BY DEF Finished
  <2> QED BY <1>1, <1>3, <2>1, <2>2, <2>3 DEF TypeOK
<1>7. PassedAreRecorded' /\ RunsOnce'
  BY <1>1, <1>2, <1>3, <1>4 DEF PassedAreRecorded, RunsOnce
<1>8. BehindAreWired'
  <2>1. SUFFICES ASSUME NEW i \in 1..pc, NEW step, step = StepAt(script, i)
                 PROVE  /\ IsDeployment(step) =>
                             /\ isDeployed(step.name)
                             /\ step.op = "contract" \/ address[step.name] >= base =>
                                  refers[step.name] = References(step)
                        /\ step.op = "addressHolds" =>
                             address[step.name] = FutureAddress(step.name)
    BY <1>2, <1>3, <1>4, <1>5 DEF BehindAreWired, StepAt
  <2>2. CASE i = pc
    BY <1>2, <2>1, <2>2
  <2>3. CASE i # pc
    <3>1. i \in 1..(pc - 1)
      BY <1>2, <2>1, <2>3
    <3> QED BY <1>1, <2>1, <3>1 DEF BehindAreWired
  <2> QED BY <2>2, <2>3
<1>9. AheadAreOld'
  <2>1. \A i \in Deployments(script) : i \in Nat
    BY <1>2, DeploymentHasName, ScriptsAreCounted
  <2> QED BY <1>1, <1>2, <1>3, <1>4, <2>1 DEF AheadAreOld, StepAt
<1>10. SettledAreWired' /\ GivenAreNamed' /\ RanIsWired'
  BY <1>1, <1>3, RecordsKept DEF RanIsWired
<1> QED BY <1>6, <1>7, <1>8, <1>9, <1>10 DEF WiringInv

LEMMA StepIsCounted == TypeOK /\ AtStep => pc > 0
BY ScriptsAreCounted DEF AtStep, TypeOK, Running, Steps

LEMMA ReuseKeepsWired == WiringInv /\ Reuse => WiringInv'
<1> SUFFICES ASSUME WiringInv, Reuse PROVE WiringInv'
  OBVIOUS
<1>1. AtStep /\ IsDeployment(Step) /\ Reused(Step) /\ pc > 0 /\ TypeOK /\ AheadAreOld
  BY StepIsCounted DEF WiringInv, Reuse, Deploys
<1>2. /\ script \in DOMAIN Scripts /\ pc \in Deployments(script) /\ pc \in Nat /\ base \in Nat
      /\ Step = StepAt(script, pc)
  BY <1>1, CountedStep DEF Deployments, StepAt, TypeOK
<1>3. isDeployed(Step.name) /\ address[Step.name] < base /\ address[Step.name] \in Nat
  BY <1>1, <1>2, DeploymentHasName DEF AheadAreOld, Reused, TypeOK
<1>4. Step.op # "addressHolds"
  BY <1>1 DEF IsDeployment
<1>5. ~(address[Step.name] >= base)
  BY <1>2, <1>3
<1> QED BY <1>1, <1>3, <1>4, <1>5, PassKeeps DEF Reuse, Reused

LEMMA CompareKeepsWired == WiringInv /\ Compare => WiringInv'
<1> SUFFICES ASSUME WiringInv, Compare PROVE WiringInv'
  OBVIOUS
<1>1. AtStep /\ Holds(Step) /\ pc > 0 /\ TypeOK
  BY StepIsCounted DEF WiringInv, Compare
<1>2. ~IsDeployment(Step)
  BY <1>1 DEF Holds, IsDeployment
<1>3. Step.op = "addressHolds" => address[Step.name] = FutureAddress(Step.name)
  BY <1>1 DEF Holds
<1> QED BY <1>1, <1>2, <1>3, PassKeeps DEF Compare

LEMMA IdleKeepsWired == WiringInv /\ (SendForeign \/ UNCHANGED vars) => WiringInv'
<1> SUFFICES ASSUME WiringInv, SendForeign \/ UNCHANGED vars PROVE WiringInv'
  OBVIOUS
<1>1. TypeOK
  BY DEF WiringInv
<1>2. /\ UNCHANGED <<address, refers, records, script, pc, base, ran, crashes>>
      /\ nonce' \in Nat /\ nonce' >= nonce /\ foreign' \in Nat
  BY <1>1 DEF SendForeign, vars, records, TypeOK
<1>3. /\ \A name : isDeployed(name)' = isDeployed(name)
      /\ \A t : FutureAddress(t)' = FutureAddress(t)
      /\ \A step : References(step)' = References(step)
      /\ \A s, i : StepAt(s, i)' = StepAt(s, i)
  BY <1>2 DEF isDeployed, FutureAddress, References, StepAt
<1>4. TypeOK'
  <2>1. \A name \in Names : isDeployed(name)' => address'[name] \in Nat /\ address'[name] < nonce'
    BY <1>1, <1>2, <1>3 DEF TypeOK
  <2>2. Running' = Running /\ Steps' = Steps /\ Finished' = Finished
    BY <1>2 DEF Running, Steps, Finished
  <2>3. pc' > 0 => base' <= nonce'
    BY <1>1, <1>2 DEF TypeOK
  <2> QED BY <1>1, <1>2, <2>1, <2>2, <2>3 DEF TypeOK
<1>5. PassedAreRecorded' /\ RunsOnce'
  BY <1>2, <1>3 DEF WiringInv, PassedAreRecorded, RunsOnce
<1>6. BehindAreWired'
  BY <1>2, <1>3 DEF WiringInv, BehindAreWired
<1>7. AheadAreOld'
  BY <1>2, <1>3 DEF WiringInv, AheadAreOld
<1>8. SettledAreWired' /\ GivenAreNamed' /\ RanIsWired'
  BY <1>2, RecordsKept DEF WiringInv, RanIsWired
<1> QED BY <1>4, <1>5, <1>6, <1>7, <1>8 DEF WiringInv

LEMMA NextKeepsWired == WiringInv /\ [Next]_vars => WiringInv'
<1> SUFFICES ASSUME WiringInv, [Next]_vars PROVE WiringInv'
  OBVIOUS
<1>1. CASE Deploy
  BY <1>1, DeployKeepsType, DeployKeepsBehind, DeployKeepsSettled, DeployKeepsGiven,
     DeployKeepsWired, DeployKeepsAhead DEF WiringInv
<1> QED BY <1>1, SkipKeepsWired, LeavingKeepsWired, EndScriptKeepsWired, RunScriptKeepsWired,
           ReuseKeepsWired, CompareKeepsWired, IdleKeepsWired DEF Next, Proceed

LEMMA WiringAlways == Spec => []WiringInv
BY InitIsWired, NextKeepsWired, PTL DEF Spec

\* A script of mainnet that went through by running (02 to 16) has left every
\* contract it deployed referring to the addresses that are recorded, and nothing
\* that runs later, or is sent beside the scripts, breaks this.
THEOREM WiringStays == Spec => []RanIsWired
<1>1. WiringInv => RanIsWired
  BY DEF WiringInv
<1> QED BY <1>1, WiringAlways, PTL
-----------------------------------------------------------------------------
(* Distances                                                               *)

LEMMA DistancesAreCounted ==
  ASSUME NEW s \in DOMAIN Scripts
  PROVE  /\ \A i \in Nat : Distance(s, i) \in Nat
         /\ Distance(s, 1) = 0
         /\ \A i \in Nat : i \in Deployments(s) => Distance(s, i + 1) = Distance(s, i) + 1
         /\ \A i \in Nat : i \notin Deployments(s) => Distance(s, i + 1) = Distance(s, i)
<1> DEFINE Before(i) == {j \in Deployments(s) : j < i}
<1>1. \A j \in Deployments(s) : j \in 1..Len(Scripts[s].steps)
  BY DeploymentHasName, ScriptsAreCounted
<1>2. ASSUME NEW i \in Nat PROVE IsFiniteSet(Before(i)) /\ Cardinality(Before(i)) \in Nat
  <2>1. Len(Scripts[s].steps) \in Nat
    BY ScriptsAreCounted
  <2>2. IsFiniteSet(1..Len(Scripts[s].steps))
    BY <2>1, FS_Interval
  <2>3. Before(i) \subseteq 1..Len(Scripts[s].steps)
    BY <1>1
  <2>4. IsFiniteSet(Before(i))
    BY <2>2, <2>3, FS_Subset
  <2> QED BY <2>4, FS_CardinalityType
<1>3. Before(1) = {}
  BY <1>1
<1>4. ASSUME NEW i \in Nat, i \in Deployments(s)
      PROVE  Cardinality(Before(i + 1)) = Cardinality(Before(i)) + 1
  <2>1. \A j \in Deployments(s) : j < i + 1 <=> j < i \/ j = i
    BY <1>1
  <2>2. Before(i + 1) = Before(i) \cup {i}
    BY <1>4, <2>1
  <2>3. i \notin Before(i)
    OBVIOUS
  <2> QED BY <1>2, <2>2, <2>3, FS_AddElement
<1>5. ASSUME NEW i \in Nat, i \notin Deployments(s) PROVE Before(i + 1) = Before(i)
  BY <1>1, <1>5
<1> QED BY <1>2, <1>3, <1>4, <1>5, FS_EmptySet DEF Distance

\* While nothing was lost, what a script deployed is where it computed it to be.
LEMMA ComputedIsRight ==
  ASSUME WiringInv, DistanceInv, crashes + foreign = 0, pc > 0, script \notin ran,
         NEW t, DeployedBefore(script, pc, t)
  PROVE  /\ \E j \in Deployments(script) : j \in 1..(pc - 1) /\ StepAt(script, j).name = t
         /\ address[t] >= base
         /\ Compares(script, t) => address[t] = FutureAddress(t)
<1>1. TypeOK /\ script \in DOMAIN Scripts /\ pc \in Nat /\ base \in Nat
  BY CountedStep DEF WiringInv, TypeOK
<1>2. PICK j \in Deployments(script) : j < pc /\ StepAt(script, j).name = t
  BY DEF DeployedBefore, StepAt
<1>3. j \in 1..(pc - 1) /\ j \in DOMAIN Scripts[script].steps /\ j \in Nat
  BY <1>1, <1>2, DeploymentHasName, ScriptsAreCounted
<1>4. address[t] = base + Distance(script, j) /\ Distance(script, j) \in Nat
  BY <1>1, <1>2, <1>3, DistancesAreCounted DEF DistanceInv
<1>5. ASSUME Compares(script, t) PROVE address[t] = FutureAddress(t)
  <2>1. PICK i \in DOMAIN Scripts[script].steps :
          StepAt(script, i).op = "addressHolds" /\ StepAt(script, i).name = t
    BY <1>5 DEF Compares, StepsOf, StepAt
  <2>2. Scripts[script].futures[t] = Distance(script, j)
    BY <1>1, <1>2, <2>1, DistanceAssumption DEF StepAt
  <2> QED BY <1>4, <2>2 DEF FutureAddress
<1> QED BY <1>1, <1>2, <1>3, <1>4, <1>5

\* So every comparison holds.
LEMMA ThrowIsForeign ==
  ASSUME WiringInv, DistanceInv, Throw
  PROVE  crashes + foreign > 0
<1> SUFFICES ASSUME crashes + foreign = 0 PROVE FALSE
  <2>1. crashes \in Nat /\ foreign \in Nat
    BY DEF WiringInv, TypeOK
  <2> QED BY <2>1
<1>1. /\ TypeOK /\ RunsOnce /\ BehindAreWired
      /\ AtStep /\ pc > 0 /\ ~IsDeployment(Step) /\ ~Holds(Step)
  BY StepIsCounted DEF WiringInv, Throw, Deploys
<1>2. /\ script \in DOMAIN Scripts /\ pc \in DOMAIN Scripts[script].steps
      /\ Step = StepAt(script, pc)
  BY <1>1, CountedStep
<1>3. script \notin ran
  <2>1. Step \in StepsOf(script)
    BY <1>2, StepIsWired
  <2> QED BY <1>1, <2>1 DEF RunsOnce, Computes
<1>4. DeployedBefore(script, pc, Step.name) /\ Step.op \in Operations
  BY <1>1, <1>2, StepIsWired
<1>5. CASE Step.op = "addressHolds"
  <2>1. Compares(script, Step.name)
    BY <1>2, <1>5, StepIsWired DEF Compares
  <2>2. address[Step.name] = FutureAddress(Step.name)
    BY <1>1, <1>3, <1>4, <2>1, ComputedIsRight
  <2> QED BY <1>1, <1>5, <2>2 DEF Holds
<1>6. CASE Step.op = "refersTo"
  <2>1. PICK j \in Deployments(script) :
          j \in 1..(pc - 1) /\ StepAt(script, j).name = Step.name
    BY <1>1, <1>3, <1>4, ComputedIsRight
  <2>2. PICK step : step = StepAt(script, j)
    OBVIOUS
  <2>3. /\ IsDeployment(step) /\ j \in DOMAIN Scripts[script].steps
        /\ address[step.name] >= base
    BY <1>1, <1>2, <1>3, <1>4, <2>1, <2>2, DeploymentHasName, ComputedIsRight
  <2>4. refers[Step.name] = References(step)
    BY <1>1, <2>1, <2>2, <2>3 DEF BehindAreWired
  <2>5. /\ Step.known \subseteq step.known \cup step.future
        /\ \A t \in Step.known : DeployedBefore(script, pc, t)
    BY <1>2, <1>6, <2>1, <2>2, DistanceAssumption DEF StepAt
  <2>6. \A t \in Step.known \cap step.future : address[t] = FutureAddress(t)
    <3>1. \A t \in step.future : Compares(script, t)
      BY <1>2, <2>2, <2>3, StepIsWired
    <3> QED BY <1>1, <1>3, <2>5, <3>1, ComputedIsRight
  <2>7. Step.future = {}
    BY <1>2, <1>6, StepIsWired
  <2>8. References(Step) \subseteq References(step)
    <3> SUFFICES ASSUME NEW t \in Step.known PROVE <<t, address[t]>> \in References(step)
      BY <2>7 DEF References
    <3>1. CASE t \in step.known
      BY <3>1 DEF References
    <3>2. CASE t \in step.future
      <4>1. <<t, FutureAddress(t)>> \in References(step)
        BY <3>2 DEF References
      <4> QED BY <2>6, <3>2, <4>1
    <3> QED BY <2>5, <3>1, <3>2
  <2> QED BY <1>1, <1>6, <2>4, <2>8 DEF Holds
<1> QED BY <1>1, <1>4, <1>5, <1>6 DEF Operations, IsDeployment
LEMMA DistanceStarts == Init => DistanceInv
<1> SUFFICES ASSUME Init PROVE DistanceInv
  OBVIOUS
<1>1. pc = 0 /\ \A name \in Names : ~isDeployed(name)
  BY DEF Init, isDeployed, None
<1> QED BY <1>1, DeploymentHasName DEF DistanceInv

\* A script that is left has gone through, or a run was lost.
LEMMA LeaveKeepsDistances ==
  ASSUME DistanceInv, pc' = 0, UNCHANGED records, crashes' + foreign' = 0 => crashes + foreign = 0,
         ran \subseteq ran', pc > 0 => script \in ran'
  PROVE  DistanceInv'
<1>1. \A name : isDeployed(name)' = isDeployed(name)
  BY DEF isDeployed, records
<1>2. SUFFICES ASSUME crashes + foreign = 0, NEW s \in DOMAIN Scripts, s \notin ran',
                      NEW name \in Deployed(s)
               PROVE  ~isDeployed(name)
  BY <1>1 DEF DistanceInv
<1>3. s \notin ran /\ (pc > 0 => script # s)
  BY <1>2
<1> QED BY <1>2, <1>3 DEF DistanceInv

LEMMA RunScriptKeepsDistances ==
  ASSUME WiringInv, DistanceInv, RunScript
  PROVE  DistanceInv'
<1>1. TypeOK /\ script \in DOMAIN Scripts /\ pc = 0 /\ nonce \in Nat
  BY DEF WiringInv, RunScript, Running, TypeOK
<1>2. /\ UNCHANGED <<nonce, address, script, ran, crashes, foreign>>
      /\ base' = nonce /\ pc' = 1
  BY DEF RunScript, records
<1>3. /\ \A name : isDeployed(name)' = isDeployed(name)
      /\ \A s, i : StepAt(s, i)' = StepAt(s, i)
  BY <1>2 DEF isDeployed, StepAt
<1>4. Distance(script, 1) = 0
  BY <1>1, DistancesAreCounted
<1>5. SUFFICES ASSUME crashes + foreign = 0
               PROVE  /\ \A s \in DOMAIN Scripts :
                           s \notin ran => \A name \in Deployed(s) : ~isDeployed(name)
                      /\ script \notin ran =>
                           /\ nonce = nonce + Distance(script, 1)
                           /\ \A i \in Deployments(script) :
                                ~(i < 1) /\ ~isDeployed(StepAt(script, i).name)
  BY <1>2, <1>3 DEF DistanceInv
<1>6. \A s \in DOMAIN Scripts : s \notin ran => \A name \in Deployed(s) : ~isDeployed(name)
  BY <1>1, <1>5 DEF DistanceInv
<1>7. \A i \in Deployments(script) : ~(i < 1)
  BY <1>1, DeploymentHasName, ScriptsAreCounted
<1> QED BY <1>1, <1>4, <1>6, <1>7, DeploymentHasName

LEMMA DeployKeepsDistances ==
  ASSUME WiringInv, DistanceInv, Deploy
  PROVE  DistanceInv'
<1>1. /\ TypeOK /\ nonce \in Nat /\ pc \in Nat /\ base \in Nat
      /\ script \in DOMAIN Scripts /\ pc > 0 /\ pc \in Deployments(script)
      /\ Step = StepAt(script, pc)
      /\ nonce' = nonce + 1 /\ pc' = pc + 1
      /\ UNCHANGED <<script, base, ran, crashes, foreign>>
  BY CountedStep, DeployChanges DEF WiringInv, TypeOK
<1>2. SUFFICES ASSUME crashes + foreign = 0
               PROVE  /\ \A s \in DOMAIN Scripts :
                           s \notin ran /\ script # s =>
                             \A name \in Deployed(s) : ~isDeployed(name)'
                      /\ script \notin ran =>
                           /\ nonce + 1 = base + Distance(script, pc + 1)
                           /\ \A i \in Deployments(script) :
                                IF i < pc + 1
                                THEN address'[StepAt(script, i).name] = base + Distance(script, i)
                                ELSE ~isDeployed(StepAt(script, i).name)'
  BY <1>1 DEF DistanceInv, StepAt
<1>3. ASSUME NEW s \in DOMAIN Scripts, s \notin ran, script # s, NEW name \in Deployed(s)
      PROVE  ~isDeployed(name)'
  <2>1. ~isDeployed(name) /\ name \in Names
    BY <1>1, <1>2, <1>3, DeploymentHasName DEF DistanceInv
  <2>2. name # Step.name
    BY <1>3, DeployChanges, DeployedByOne
  <2> QED BY <2>1, <2>2, DeployChanges
<1>4. ASSUME script \notin ran
      PROVE  nonce = base + Distance(script, pc) /\ nonce + 1 = base + Distance(script, pc + 1)
  <2>1. nonce = base + Distance(script, pc)
    BY <1>1, <1>2, <1>4 DEF DistanceInv
  <2> QED BY <1>1, <2>1, DistancesAreCounted
<1>5. ASSUME script \notin ran, NEW i \in Deployments(script)
      PROVE  IF i < pc + 1 THEN address'[StepAt(script, i).name] = base + Distance(script, i)
                           ELSE ~isDeployed(StepAt(script, i).name)'
  <2> DEFINE name == StepAt(script, i).name
  <2>0. i \in DOMAIN Scripts[script].steps /\ name \in Names
    BY <1>1, DeploymentHasName
  <2>1. i \in Nat
    BY <1>1, <2>0, ScriptsAreCounted
  <2>2. CASE i = pc
    BY <1>1, <1>4, <1>5, <2>2, DeployChanges
  <2>3. CASE i # pc
    <3>1. name # Step.name
      BY <1>1, <1>5, <2>3, DeployedOnce
    <3>2. IF i < pc THEN address[name] = base + Distance(script, i) ELSE ~isDeployed(name)
      BY <1>1, <1>2, <1>5 DEF DistanceInv
    <3>3. i < pc + 1 <=> i < pc
      BY <1>1, <2>1, <2>3
    <3>4. address'[name] = address[name] /\ (isDeployed(name)' <=> isDeployed(name))
      BY <2>0, <3>1, DeployChanges
    <3> QED BY <3>2, <3>3, <3>4
  <2> QED BY <2>2, <2>3
<1> QED BY <1>3, <1>4, <1>5

LEMMA PassKeepsDistances ==
  ASSUME WiringInv, DistanceInv, Reuse \/ Compare
  PROVE  DistanceInv'
<1>1. /\ TypeOK /\ pc > 0 /\ pc \in Nat /\ AtStep
  BY StepIsCounted DEF WiringInv, Reuse, Compare, Deploys, TypeOK
<1>2. /\ script \in DOMAIN Scripts /\ Step = StepAt(script, pc)
      /\ pc \in DOMAIN Scripts[script].steps
  BY <1>1, CountedStep
<1>3. /\ UNCHANGED <<nonce, address, script, base, ran, crashes, foreign>>
      /\ pc' = pc + 1
  BY DEF Reuse, Compare, Goto, records
<1>4. /\ \A name : isDeployed(name)' = isDeployed(name)
      /\ \A s, i : StepAt(s, i)' = StepAt(s, i)
  BY <1>3 DEF isDeployed, StepAt
<1>5. SUFFICES ASSUME crashes + foreign = 0, script \notin ran
               PROVE  /\ Distance(script, pc + 1) = Distance(script, pc)
                      /\ \A i \in Deployments(script) : i < pc + 1 <=> i < pc
  BY <1>1, <1>3, <1>4 DEF DistanceInv
<1>6. pc \notin Deployments(script)
  <2>1. CASE Reuse
    <3>1. isDeployed(StepAt(script, pc).name)
      BY <1>2, <2>1 DEF Reuse, Reused
    <3>2. pc \in Deployments(script) => ~isDeployed(StepAt(script, pc).name)
      BY <1>1, <1>5 DEF DistanceInv
    <3> QED BY <3>1, <3>2
  <2>2. CASE Compare
    BY <1>2, <2>2, DeploymentHasName DEF Compare, Holds, IsDeployment
  <2> QED BY <2>1, <2>2
<1>7. \A i \in Deployments(script) : i \in Nat /\ i # pc
  BY <1>2, <1>6, DeploymentHasName, ScriptsAreCounted
<1>8. \A i \in Deployments(script) : i < pc + 1 <=> i < pc
  BY <1>1, <1>7
<1> QED BY <1>1, <1>2, <1>6, <1>8, DistancesAreCounted

LEMMA NextKeepsDistances == WiringInv /\ DistanceInv /\ [Next]_vars => DistanceInv'
<1> SUFFICES ASSUME WiringInv, DistanceInv, [Next]_vars PROVE DistanceInv'
  OBVIOUS
<1>1. /\ TypeOK /\ crashes \in Nat /\ foreign \in Nat
      /\ pc > 0 => Running
  BY DEF WiringInv, TypeOK
<1>2. CASE Start
  BY <1>1, <1>2, LeaveKeepsDistances DEF Start, Leave
<1>3. CASE Skip
  BY <1>3, LeaveKeepsDistances DEF Skip, Leave
<1>4. CASE Throw
  <2>1. crashes' + foreign' > 0
    BY <1>4, ThrowIsForeign DEF Throw
  <2> QED BY <1>1, <1>4, <2>1 DEF DistanceInv, Throw
<1>5. CASE EndScript
  BY <1>5, LeaveKeepsDistances DEF EndScript, Leave
<1>6. CASE SendForeign
  BY <1>1, <1>6 DEF SendForeign, DistanceInv
<1>7. CASE Crash
  BY <1>1, <1>7 DEF Crash, DistanceInv
<1>8. CASE UNCHANGED vars
  BY <1>8 DEF vars, records, DistanceInv, isDeployed, StepAt
<1> QED BY <1>2, <1>3, <1>4, <1>5, <1>6, <1>7, <1>8, RunScriptKeepsDistances, DeployKeepsDistances,
           PassKeepsDistances DEF Next, Proceed

\* No comparison of a script of mainnet (02, 03, 07, 10) fails unless a run was lost
\* or the deployer sent something else: the distances the scripts add to the
\* transaction count are the numbers of deployments in between.
THEOREM DistancesHold == Spec => DistancesAreRight
<1>1. WiringInv /\ DistanceInv /\ [Next]_vars => [Throw => crashes + foreign > 0]_vars
  BY ThrowIsForeign
<1> QED BY <1>1, DistanceStarts, NextKeepsDistances, WiringAlways, PTL DEF Spec, DistancesAreRight
=============================================================================
