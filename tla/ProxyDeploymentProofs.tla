----------------------- MODULE ProxyDeploymentProofs -----------------------
(***************************************************************************)
(* Theorems about ProxyDeployment: for any scripts that keep the order of  *)
(* OrderAssumption, any number of crashes and of failed reads, rerunning   *)
(* them implements the life of a proxy (ProxyLifecycle); and for any that  *)
(* are complete besides (CompletenessAssumption), a deployment or an       *)
(* upgrade that goes through has left nothing out.                         *)
(***************************************************************************)
EXTENDS ProxyDeployment, SequenceTheorems, TLAPS

-----------------------------------------------------------------------------
(* The inductive invariant.  A transaction may be mined long after it was   *)
(* sent, in a later run or after one that found its work done, so what made *)
(* it right to send must still hold then: Ready says what that is, and Grows *)
(* that nothing undoes it.                                                  *)

Ready(tx) ==
  /\ tx.op = "handOver" => Initialised(tx.of)
  /\ GivesRedeemManager(tx) =>
       Initialised("Withdraw") /\ \A c \in Core : Governed(c)
  /\ tx.op = "upgrade" =>
       /\ Opened
       /\ tx.of = "River" => \A c \in Contracts \ {"River"} : Upgraded(c)

Sendable(tx) ==
  /\ tx \in StepRecord
  /\ tx.op \in Transactions
  /\ tx.of \in Contracts
  /\ WellFormed(tx)

InFlightIsReady ==
  \A a \in Senders : \A i \in DOMAIN inFlight[a] :
    Sendable(inFlight[a][i]) /\ Ready(inFlight[a][i])

ChainIsSound ==
  /\ \A c \in Contracts : <<c, "proxy">> \notin recorded => chain[c] = Undeployed
  /\ \A c \in Contracts : Governed(c) => c = "Withdraw" \/ Initialised(c)
  /\ \A c \in Contracts : Upgraded(c) => Governed(c)
  /\ Opened => Initialised("Withdraw")

\* A verification leaves nothing behind that could be found done.
Fulfilled(step) == step.op = "verify" \/ Done(step)

BehindIsFulfilled ==
  Running => \A j \in DOMAIN Steps : j < pc => Fulfilled(Steps[j])

PassedAreOpen == \A s \in DOMAIN Scripts : s < script /\ HandsOut(s) => Opened

WaitingForStep ==
  waitingFor \in Senders =>
    /\ Running
    /\ pc \in DOMAIN Steps
    /\ Step.op \in Transactions
    /\ inFlight[waitingFor] # <<>>
    /\ inFlight[waitingFor][Len(inFlight[waitingFor])] = Step

IInv ==
  /\ TypeOK
  /\ InFlightIsReady
  /\ ChainIsSound
  /\ BehindIsFulfilled
  /\ PassedAreOpen
  /\ WaitingForStep

\* What no step takes back.
Grows ==
  /\ recorded \subseteq recorded'
  /\ migrated => migrated'
  /\ \A c \in Contracts :
       /\ chain[c].version <= chain'[c].version
       /\ Governed(c) => Governed(c)'
       /\ Upgraded(c) => Upgraded(c)'

-----------------------------------------------------------------------------
(* Constants.                                                              *)

LEMMA ContractNames ==
  /\ "River" \in Contracts /\ "Withdraw" \in Contracts
  /\ Core \subseteq Contracts
  /\ "Withdraw" \notin Core
BY DEF Contracts, Core

LEMMA GovernorIsOther ==
  ASSUME NEW c \in Contracts
  PROVE  /\ Governor(c) \in Accounts
         /\ Governor(c) # "deployer"
         /\ Governor(c) # Nobody
<1>1. ASSUME c \in DOMAIN ProxyFirewall
      PROVE  /\ ProxyFirewall[c] \in Firewalls
             /\ ProxyFirewall[c] # "deployer"
             /\ ProxyFirewall[c] # "nobody"
  <2>0. ProxyFirewall[c] \in Firewalls
    BY <1>1 DEF Firewalls
  <2>1. ASSUME c = "Allowlist" PROVE ProxyFirewall[c] = "AllowlistProxyFirewall"
    BY <2>1 DEF ProxyFirewall
  <2>2. ASSUME c = "River" PROVE ProxyFirewall[c] = "RiverProxyFirewall"
    BY <2>2 DEF ProxyFirewall
  <2>3. ASSUME c = "Oracle" PROVE ProxyFirewall[c] = "OracleProxyFirewall"
    BY <2>3 DEF ProxyFirewall
  <2>4. ASSUME c = "OperatorsRegistry" PROVE ProxyFirewall[c] = "OperatorsRegistryProxyFirewall"
    BY <2>4 DEF ProxyFirewall
  <2>5. ASSUME c = "RedeemManager" PROVE ProxyFirewall[c] = "RedeemManagerProxyFirewall"
    BY <2>5 DEF ProxyFirewall
  <2> QED BY <1>1, <2>0, <2>1, <2>2, <2>3, <2>4, <2>5 DEF ProxyFirewall
<1>2. CASE c \in DOMAIN ProxyFirewall
  BY <1>1, <1>2 DEF Governor, Nobody, Accounts
<1>3. CASE c \notin DOMAIN ProxyFirewall
  BY <1>3 DEF Governor, Nobody, Accounts
<1> QED BY <1>2, <1>3

LEMMA StepIsSendable ==
  ASSUME NEW s \in DOMAIN Scripts, NEW i \in DOMAIN Scripts[s].steps
  PROVE  /\ Scripts[s].steps[i] \in StepRecord
         /\ Scripts[s].steps[i].op # "firewall" => Scripts[s].steps[i].of \in Contracts
         /\ WellFormed(Scripts[s].steps[i])
         /\ WellPlaced(s, i)
         /\ Len(Scripts[s].steps) \in Nat
         /\ DOMAIN Scripts[s].steps = 1..Len(Scripts[s].steps)
<1>1. Scripts[s] \in [steps : Seq(StepRecord), skip : SUBSET StepRecord]
  <2> DEFINE R == [steps : Seq(StepRecord), skip : SUBSET StepRecord]
  <2>1. Scripts \in Seq(R)
    BY ScriptsAssumption
  <2> HIDE DEF R
  <2>2. Scripts[s] \in R
    BY <2>1
  <2> QED BY <2>2 DEF R
<1>2. Scripts[s].steps \in Seq(StepRecord)
  BY <1>1
<1>3. Scripts[s].steps[i] \in StepsOf(s)
  BY DEF StepsOf
<1>4. WellFormed(Scripts[s].steps[i]) /\ WellPlaced(s, i)
  BY OrderAssumption
<1>5. Scripts[s].steps[i].op # "firewall" => Scripts[s].steps[i].of \in Contracts
  BY <1>3, ScriptsAssumption
<1> QED BY <1>2, <1>4, <1>5

LEMMA ScriptsAreCounted ==
  /\ Len(Scripts) \in Nat
  /\ DOMAIN Scripts = 1..Len(Scripts)
BY ScriptsAssumption

-----------------------------------------------------------------------------
(* What a mined transaction does.                                          *)

\* A mined transaction leaves every other proxy alone.
LEMMA EffectOnChain ==
  ASSUME TypeOK, NEW tx, Sendable(tx), tx.op # "migrate", Effect(tx)
  PROVE  /\ chain' \in [Contracts -> [admin : Accounts, impl : Releases, version : Int]]
         /\ \A c \in Contracts \ {tx.of} : chain'[c] = chain[c]
         /\ chain'[tx.of].admin = IF tx.op = "handOver" THEN tx.to ELSE chain[tx.of].admin
         /\ chain'[tx.of].impl =
              IF tx.op \in {"initialise", "upgrade"} THEN tx.to ELSE chain[tx.of].impl
         /\ chain'[tx.of].version =
              IF tx.op = "handOver" \/ tx.at = NoInitialiser
              THEN chain[tx.of].version ELSE chain[tx.of].version + 1
         /\ recorded' = recorded
         /\ migrated' = migrated
<1> DEFINE P == [admin : Accounts, impl : Releases, version : Nat]
           c == tx.of
           admin == IF tx.op = "handOver" THEN tx.to ELSE chain[c].admin
           impl == IF tx.op \in {"initialise", "upgrade"} THEN tx.to ELSE chain[c].impl
           version == IF tx.op = "handOver" \/ tx.at = NoInitialiser
                      THEN chain[c].version ELSE chain[c].version + 1
<1>1. c \in Contracts /\ chain \in [Contracts -> P] /\ chain[c] \in P
  BY DEF TypeOK, Sendable
<1>2. chain' = [chain EXCEPT ![c].admin = admin, ![c].impl = impl, ![c].version = version]
  BY DEF Effect
<1>3. recorded' = recorded /\ migrated' = migrated
  BY DEF Effect, TypeOK
<1>4. admin \in Accounts
  <2>1. tx.op = "handOver" => tx.to = Governor(c)
    BY DEF Sendable, WellFormed
  <2> QED BY <1>1, <2>1, GovernorIsOther
<1>5. impl \in Releases
  <2>1. tx.op \in {"initialise", "upgrade"} => tx.to \in Releases
    BY DEF Sendable, WellFormed, Releases
  <2> QED BY <1>1, <2>1
<1>6. version \in Int
  BY <1>1
<1> HIDE DEF admin, impl, version
<1>7. /\ chain'[c].admin = admin
      /\ chain'[c].impl = impl
      /\ chain'[c].version = version
      /\ \A d \in Contracts \ {c} : chain'[d] = chain[d]
  BY <1>1, <1>2
<1>8. chain' \in [Contracts -> [admin : Accounts, impl : Releases, version : Int]]
  BY <1>1, <1>2, <1>4, <1>5, <1>6
<1> QED BY <1>3, <1>7, <1>8 DEF admin, impl, version

Mined(tx) ==
  /\ Grows
  /\ ChainIsSound'
  /\ Done(tx)'
  /\ chain' \in [Contracts -> [admin : Accounts, impl : Releases, version : Nat]]
  /\ recorded' = recorded
  /\ migrated' \in BOOLEAN

\* A transaction that was right to send, mined at last, takes nothing back and
\* keeps the chain sound.
LEMMA MinedTransaction ==
  ASSUME TypeOK, ChainIsSound, NEW tx,
         Sendable(tx), Ready(tx), Accepted(tx), Effect(tx)
  PROVE  Mined(tx)
<1> DEFINE c == tx.of
           P == [admin : Accounts, impl : Releases, version : Nat]
<1> USE DEF Initialised, Governed, Upgraded, Opened
<1>1. /\ c \in Contracts
      /\ chain \in [Contracts -> P]
      /\ \A d \in Contracts : chain[d] \in P
      /\ Governor(c) # "deployer" /\ Governor(c) # Nobody
      /\ migrated \in BOOLEAN
  BY GovernorIsOther DEF TypeOK, Sendable
<1>2. CASE tx.op = "migrate"
  <2>1. chain' = chain /\ recorded' = recorded /\ migrated' = TRUE
    BY <1>2 DEF Effect
  <2>2. Grows /\ ChainIsSound'
    BY <1>1, <2>1 DEF Grows, ChainIsSound
  <2>3. Done(tx)'
    BY <1>2, <2>1 DEF Done
  <2> QED BY <1>1, <2>1, <2>2, <2>3 DEF Mined
<1>3. CASE tx.op # "migrate"
  <2>0. recorded' = recorded /\ migrated' = migrated
    BY <1>3, EffectOnChain
  <2>1. /\ chain' \in [Contracts -> [admin : Accounts, impl : Releases, version : Int]]
        /\ \A d \in Contracts \ {c} : chain'[d] = chain[d]
    BY <1>3, EffectOnChain
  <2>2. chain[c].version <= chain'[c].version /\ chain[c].version \in Nat
    BY <1>1, <1>3, EffectOnChain
  <2>3. chain' \in [Contracts -> P]
    <3>1. ASSUME NEW d \in Contracts PROVE chain'[d] \in P
      <4>1. CASE d = c
        <5>1. chain'[c].version \in Nat
          BY <1>1, <2>1, <2>2
        <5> QED BY <1>1, <2>1, <4>1, <5>1
      <4>2. CASE d # c
        BY <1>1, <2>1, <4>2
      <4> QED BY <4>1, <4>2
    <3> QED BY <2>1, <3>1
  \* What has to be shown of the proxy that changes.
  <2>4. SUFFICES /\ chain[c] # Undeployed
                 /\ Governed(c) => chain'[c].admin = chain[c].admin
                 /\ chain'[c].admin = Governor(c) => c = "Withdraw" \/ chain'[c].version >= 1
                 /\ Upgraded(c) => chain'[c].impl = "1_3_0"
                 /\ chain'[c].impl = "1_3_0" => chain'[c].admin = Governor(c)
                 /\ c = "River" /\ chain'[c].version >= 2 => Initialised("Withdraw")
                 /\ Done(tx)'
    <3>1. Grows
      <4>1. ASSUME NEW d \in Contracts
            PROVE  /\ chain[d].version <= chain'[d].version
                   /\ Governed(d) => Governed(d)'
                   /\ Upgraded(d) => Upgraded(d)'
        <5>1. CASE d = c
          BY <2>2, <2>4, <5>1
        <5>2. CASE d # c
          BY <1>1, <2>1, <5>2
        <5> QED BY <5>1, <5>2
      <4> QED BY <2>0, <4>1 DEF Grows
    <3>2. ASSUME NEW d \in Contracts
          PROVE  /\ <<d, "proxy">> \notin recorded' => chain'[d] = Undeployed
                 /\ Governed(d)' => d = "Withdraw" \/ Initialised(d)'
                 /\ Upgraded(d)' => Governed(d)'
      <4>1. CASE d = c
        BY <2>0, <2>4, <4>1 DEF ChainIsSound
      <4>2. CASE d # c
        BY <2>0, <2>1, <4>2 DEF ChainIsSound
      <4> QED BY <4>1, <4>2
    <3>3. Initialised("Withdraw") => Initialised("Withdraw")'
      BY <1>1, <2>3, <3>1, ContractNames DEF Grows
    <3>4. Opened' => Initialised("Withdraw")'
      <4>1. CASE c = "River"
        BY <2>4, <3>3, <4>1
      <4>2. CASE c # "River"
        BY <2>1, <3>3, <4>2, ContractNames DEF ChainIsSound
      <4> QED BY <4>1, <4>2
    <3> QED BY <1>1, <2>0, <2>3, <2>4, <3>1, <3>2, <3>4 DEF Mined, ChainIsSound
  <2>5. CASE tx.op = "initialise"
    <3>1. chain[c].admin = "deployer" /\ chain[c].version = 0
      BY <2>5 DEF Accepted, Sendable, WellFormed
    <3>2. /\ chain'[c].admin = "deployer"
          /\ chain'[c].impl = "1_2_1"
          /\ chain'[c].version = 1
          /\ tx.at = 0
      BY <1>3, <2>5, <3>1, EffectOnChain DEF Sendable, WellFormed, NoInitialiser
    <3>3. Done(tx)'
      BY <2>5, <3>2 DEF Done
    <3> QED BY <1>1, <3>1, <3>2, <3>3 DEF ChainIsSound, Undeployed, Nobody
  <2>6. CASE tx.op = "handOver"
    <3>1. chain[c].admin = "deployer" /\ chain[c].version >= 1
      BY <2>6 DEF Accepted, Ready
    <3>2. /\ chain'[c].admin = Governor(c)
          /\ tx.to = Governor(c)
          /\ chain'[c].impl = chain[c].impl
          /\ chain'[c].version = chain[c].version
      BY <1>3, <2>6, EffectOnChain DEF Sendable, WellFormed
    <3>3. Done(tx)'
      BY <2>6, <3>2 DEF Done
    <3> QED BY <1>1, <3>1, <3>2, <3>3 DEF ChainIsSound, Undeployed, Nobody
  <2>7. CASE tx.op = "call"
    <3>1. /\ chain[c].admin # Nobody
          /\ chain[c].version = tx.at
          /\ <<c, tx.at>> \in {<<"Withdraw", 0>>, <<"River", 1>>}
      BY <2>7 DEF Accepted, Sendable, WellFormed
    <3>2. /\ chain'[c].admin = chain[c].admin
          /\ chain'[c].impl = chain[c].impl
          /\ chain'[c].version = chain[c].version + 1
      BY <1>3, <2>7, <3>1, EffectOnChain DEF NoInitialiser
    <3>3. Done(tx)'
      BY <1>1, <2>7, <3>1, <3>2 DEF Done
    <3>4. c = "River" => Initialised("Withdraw")
      BY <2>7, <3>1 DEF Ready, GivesRedeemManager
    <3> QED BY <1>1, <3>1, <3>2, <3>3, <3>4 DEF ChainIsSound, Undeployed
  <2>8. CASE tx.op = "upgrade"
    <3>1. chain[c].admin = Governor(c)
      BY <2>8 DEF Accepted
    <3>2. /\ chain'[c].admin = chain[c].admin
          /\ chain'[c].impl = "1_3_0"
          /\ tx.to = "1_3_0"
      BY <1>3, <2>8, EffectOnChain DEF Sendable, WellFormed
    <3>3. Done(tx)'
      BY <2>8, <3>2 DEF Done
    <3>4. Initialised("Withdraw")
      BY <2>8 DEF Ready, ChainIsSound
    <3> QED BY <1>1, <2>2, <2>3, <3>1, <3>2, <3>3, <3>4 DEF ChainIsSound, Undeployed
  <2> QED BY <1>3, <2>5, <2>6, <2>7, <2>8 DEF Sendable, Transactions
<1> QED BY <1>2, <1>3

-----------------------------------------------------------------------------
(* What is kept while nothing is taken back.                               *)

LEMMA ReadyIsKept ==
  ASSUME TypeOK, TypeOK', Grows, NEW tx, Sendable(tx), Ready(tx)
  PROVE  Ready(tx)'
<1> USE DEF Initialised, Opened
<1>1. \A c \in Contracts :
        /\ chain[c].version \in Nat /\ chain'[c].version \in Nat
        /\ chain[c].version <= chain'[c].version
  BY DEF TypeOK, Grows
<1>2. tx.op = "handOver" => Initialised(tx.of)'
  BY <1>1 DEF Ready, Sendable
<1>3. GivesRedeemManager(tx) =>
        Initialised("Withdraw")' /\ \A c \in Core : Governed(c)'
  BY <1>1, ContractNames DEF Ready, Grows
<1>4. tx.op = "upgrade" => Opened'
  BY <1>1, ContractNames DEF Ready
<1>5. tx.op = "upgrade" /\ tx.of = "River" =>
        \A c \in Contracts \ {"River"} : Upgraded(c)'
  BY DEF Ready, Grows
<1> QED BY <1>2, <1>3, <1>4, <1>5 DEF Ready

ScriptStep(step) ==
  /\ step \in StepRecord
  /\ step.op # "firewall" => step.of \in Contracts
  /\ WellFormed(step)

LEMMA FulfilledIsKept ==
  ASSUME TypeOK, TypeOK', Grows, NEW step, ScriptStep(step), Fulfilled(step)
  PROVE  Fulfilled(step)'
<1>1. /\ step \in StepRecord
      /\ step.op # "firewall" => step.of \in Contracts
      /\ WellFormed(step)
  BY DEF ScriptStep
<1>2. Fulfilled(step)
  OBVIOUS
<1>3. CASE step.op \in Deployments
  <2>1. Name(step) \in recorded
    BY <1>2, <1>3 DEF Fulfilled, Done, Deployments
  <2> QED BY <1>3, <2>1 DEF Fulfilled, Done, Grows, Name
<1>4. CASE step.op \in {"initialise", "call"}
  <2>1. chain[step.of].version > step.at
    BY <1>2, <1>4 DEF Fulfilled, Done, Deployments
  <2>2. /\ step.of \in Contracts /\ step.at \in Int
        /\ chain[step.of].version \in Nat /\ chain'[step.of].version \in Nat
        /\ chain[step.of].version <= chain'[step.of].version
    BY <1>1, <1>4 DEF TypeOK, Grows, StepRecord
  <2> QED BY <1>4, <2>1, <2>2 DEF Fulfilled, Done
<1>5. CASE step.op = "handOver"
  <2>1. Governed(step.of) /\ step.to = Governor(step.of) /\ step.of \in Contracts
    BY <1>1, <1>2, <1>5 DEF Fulfilled, Done, Deployments, WellFormed, Governed
  <2>2. Governed(step.of)'
    BY <2>1 DEF Grows
  <2> QED BY <1>5, <2>1, <2>2 DEF Fulfilled, Done, Governed
<1>6. CASE step.op = "upgrade"
  <2>1. Upgraded(step.of) /\ step.to = "1_3_0" /\ step.of \in Contracts
    BY <1>1, <1>2, <1>6 DEF Fulfilled, Done, Deployments, WellFormed, Upgraded
  <2>2. Upgraded(step.of)'
    BY <2>1 DEF Grows
  <2> QED BY <1>6, <2>1, <2>2 DEF Fulfilled, Done, Upgraded
<1>7. CASE step.op = "migrate"
  BY <1>2, <1>7 DEF Fulfilled, Done, Deployments, Grows
<1>8. CASE step.op = "verify"
  BY <1>8 DEF Fulfilled
<1> QED
  <2>1. step.op \in Operations
    BY <1>1 DEF StepRecord
  <2> QED BY <1>3, <1>4, <1>5, <1>6, <1>7, <1>8, <2>1
       DEF Operations, Transactions

LEMMA InFlightIsKept ==
  ASSUME TypeOK, TypeOK', Grows, InFlightIsReady,
         \A a \in Senders : \A i \in DOMAIN inFlight'[a] :
           \E j \in DOMAIN inFlight[a] : inFlight'[a][i] = inFlight[a][j]
  PROVE  InFlightIsReady'
<1> SUFFICES ASSUME NEW a \in Senders, NEW i \in DOMAIN inFlight'[a],
                    NEW tx, tx = inFlight'[a][i]
             PROVE  Sendable(tx) /\ Ready(tx)'
  BY DEF InFlightIsReady, Sendable, Ready, WellFormed, GivesRedeemManager, Initialised
<1>1. Sendable(tx) /\ Ready(tx)
  BY DEF InFlightIsReady
<1> QED BY <1>1, ReadyIsKept

LEMMA OpenIsKept ==
  ASSUME TypeOK, TypeOK', Grows, Opened
  PROVE  Opened'
<1>1. "River" \in Contracts
  BY ContractNames
<1>2. /\ chain["River"].version \in Nat /\ chain'["River"].version \in Nat
      /\ chain["River"].version <= chain'["River"].version
  BY <1>1 DEF TypeOK, Grows
<1> QED BY <1>2 DEF Opened

LEMMA PassedIsKept ==
  ASSUME TypeOK, TypeOK', Grows, PassedAreOpen, script' <= script
  PROVE  PassedAreOpen'
<1>1. script \in Int /\ script' \in Int /\ Len(Scripts) \in Nat
  <2>1. \A n : n \in 0..Finished => n \in Int
    BY ScriptsAreCounted DEF Finished
  <2> QED BY <2>1, ScriptsAreCounted DEF TypeOK
<1> SUFFICES ASSUME NEW s \in DOMAIN Scripts, s < script', HandsOut(s)
             PROVE  Opened'
  BY DEF PassedAreOpen, HandsOut, GivesRedeemManager, StepsOf
<1>2. s < script
  BY <1>1, ScriptsAreCounted
<1> QED BY <1>2, OpenIsKept DEF PassedAreOpen

LEMMA StepOfScript ==
  ASSUME Running, NEW j \in DOMAIN Steps
  PROVE  ScriptStep(Steps[j]) /\ j \in Nat
BY ScriptsAreCounted, StepIsSendable DEF Running, Steps, ScriptStep

LEMMA BehindIsExtended ==
  ASSUME TypeOK, TypeOK', Grows, BehindIsFulfilled, script' = script,
         \/ pc' = pc
         \/ pc' = pc + 1 /\ \A step : pc \in DOMAIN Steps /\ step = Step => Fulfilled(step)'
  PROVE  BehindIsFulfilled'
<1> SUFFICES ASSUME Running, NEW j \in DOMAIN Steps, j < pc',
                    NEW step, step = Steps[j]
             PROVE  Fulfilled(step)'
  BY DEF BehindIsFulfilled, Running, Steps, Fulfilled, Done, Name
<1>1. j \in Nat /\ pc \in Nat /\ ScriptStep(step)
  BY StepOfScript DEF TypeOK
<1>2. CASE j < pc
  BY <1>1, <1>2, FulfilledIsKept DEF BehindIsFulfilled
<1>3. CASE j = pc
  BY <1>1, <1>3 DEF Step
<1> QED BY <1>1, <1>2, <1>3

LEMMA BehindIsEmpty ==
  ASSUME TypeOK', pc' = 0
  PROVE  BehindIsFulfilled'
<1> SUFFICES ASSUME Running', NEW j \in DOMAIN Scripts[script'].steps, j < 0
             PROVE  FALSE
  BY DEF BehindIsFulfilled, Running, Steps
<1>1. DOMAIN Scripts[script'].steps = 1..Len(Scripts[script'].steps)
  BY ScriptsAreCounted, StepIsSendable DEF Running
<1> QED BY <1>1

-----------------------------------------------------------------------------
(* The actions, one lemma each.                                            *)

LEMMA QuietGrows ==
  ASSUME TypeOK, ChainIsSound, UNCHANGED world
  PROVE  Grows /\ ChainIsSound'
<1>1. \A c \in Contracts : chain[c].version \in Nat
  BY DEF TypeOK
<1> QED BY <1>1 DEF Grows, ChainIsSound, world, Governed, Upgraded, Initialised, Opened

\* A step that touches neither the chain nor what is in flight, and waits for
\* nothing.
LEMMA QuietStep ==
  ASSUME IInv, UNCHANGED <<world, inFlight>>, TypeOK', waitingFor' = Nobody,
         PassedAreOpen', BehindIsFulfilled'
  PROVE  IInv' /\ Grows
<1>1. Grows /\ ChainIsSound'
  BY QuietGrows DEF IInv
<1>2. InFlightIsReady'
  BY <1>1, InFlightIsKept DEF IInv
<1>3. WaitingForStep'
  BY DEF WaitingForStep, Nobody, Senders
<1> QED BY <1>1, <1>2, <1>3 DEF IInv

LEMMA ScriptBounds ==
  ASSUME TypeOK
  PROVE  /\ Len(Scripts) \in Nat
         /\ script \in Nat /\ script <= Len(Scripts) + 1
         /\ Running => script >= 1 /\ script <= Len(Scripts)
         /\ 0 \in 0..Finished
         /\ Running => 1 \in 0..Finished /\ script + 1 \in 0..Finished
<1>1. Len(Scripts) \in Nat /\ Finished = Len(Scripts) + 1
  BY ScriptsAreCounted DEF Finished
<1>2. script \in 0..Finished
  BY DEF TypeOK
<1>3. script \in Nat /\ script <= Len(Scripts) + 1
  BY <1>1, <1>2
<1>4. Running => script >= 1 /\ script <= Len(Scripts)
  BY <1>1, <1>3 DEF Running
<1> QED BY <1>1, <1>3, <1>4

\* To the first script, or to none.
LEMMA RestartStep ==
  ASSUME IInv, UNCHANGED <<world, inFlight>>, Goto(0, 0) \/ Goto(1, 0),
         crashes' \in Nat, readFailures' \in Nat
  PROVE  IInv' /\ Grows
<1>1. /\ script' \in {0, 1} /\ pc' = 0 /\ waitingFor' = Nobody
  BY DEF Goto
<1>2. TypeOK'
  <2>1. {0, 1} \subseteq 0..Finished
    BY ScriptsAreCounted DEF Finished
  <2> QED BY <1>1, <2>1 DEF IInv, TypeOK, world
<1>3. PassedAreOpen'
  <2>1. \A s \in DOMAIN Scripts : ~(s < script')
    BY <1>1, ScriptsAreCounted
  <2> QED BY <2>1 DEF PassedAreOpen
<1>4. BehindIsFulfilled'
  BY <1>1, <1>2, BehindIsEmpty
<1> QED BY <1>1, <1>2, <1>3, <1>4, QuietStep

\* On to a step of the same script.
LEMMA GotoStep ==
  ASSUME IInv, UNCHANGED <<world, inFlight>>, Goto(script, pc'), pc' \in Nat,
         crashes' \in Nat, readFailures' \in Nat, BehindIsFulfilled'
  PROVE  IInv' /\ Grows
<1>1. script' = script /\ waitingFor' = Nobody
  BY DEF Goto
<1>2. TypeOK'
  BY <1>1 DEF IInv, TypeOK, world
<1>3. Grows
  BY QuietGrows DEF IInv
<1>4. script' <= script
  BY <1>1, ScriptBounds DEF IInv
<1>5. PassedAreOpen'
  BY <1>2, <1>3, <1>4, PassedIsKept DEF IInv
<1> QED BY <1>1, <1>2, <1>5, QuietStep

\* On to the next script: this one is skipped or done.
LEMMA NextScriptStep ==
  ASSUME IInv, UNCHANGED <<world, inFlight, crashes, readFailures>>,
         Running, Goto(script + 1, 0), HandsOut(script) => Opened
  PROVE  IInv' /\ Grows
<1>1. script' = script + 1 /\ pc' = 0 /\ waitingFor' = Nobody
  BY DEF Goto
<1>2. TypeOK'
  BY <1>1, ScriptBounds DEF IInv, TypeOK, world
<1>3. Grows
  BY QuietGrows DEF IInv
<1>4. PassedAreOpen'
  <2> SUFFICES ASSUME NEW s \in DOMAIN Scripts, s < script + 1, HandsOut(s)
               PROVE  Opened'
    BY <1>1 DEF PassedAreOpen, HandsOut, GivesRedeemManager, StepsOf
  <2>1. s < script \/ s = script
    BY ScriptBounds, ScriptsAreCounted DEF IInv
  <2>2. Opened
    BY <2>1 DEF IInv, PassedAreOpen
  <2> QED BY <1>2, <1>3, <2>2, OpenIsKept DEF IInv
<1>5. BehindIsFulfilled'
  BY <1>1, <1>2, BehindIsEmpty
<1> QED BY <1>1, <1>2, <1>4, <1>5, QuietStep

LEMMA NextPc ==
  ASSUME TypeOK, pc' = pc + 1
  PROVE  pc' \in Nat
<1>1. pc \in Nat
  BY DEF TypeOK
<1> QED BY <1>1

LEMMA StartKeeps == ASSUME IInv, Start PROVE IInv' /\ Grows
BY RestartStep DEF Start, IInv, TypeOK

LEMMA CrashKeeps == ASSUME IInv, Crash PROVE IInv' /\ Grows
<1>1. crashes' \in Nat
  <2>1. crashes \in Nat /\ crashes' = crashes + 1
    BY DEF Crash, IInv, TypeOK
  <2> QED BY <2>1
<1>2. readFailures' \in Nat
  BY DEF Crash, IInv, TypeOK
<1> QED BY <1>1, <1>2, RestartStep DEF Crash

LEMMA FailedRead ==
  ASSUME TypeOK, ReadFails \/ UNCHANGED readFailures
  PROVE  readFailures' \in Nat
<1>1. readFailures \in Nat
  BY DEF TypeOK
<1>2. readFailures' = readFailures + 1 \/ readFailures' = readFailures
  BY DEF ReadFails
<1> QED BY <1>1, <1>2

LEMMA SkipKeeps ==
  ASSUME IInv, Skip
  PROVE  IInv' /\ Grows
<1>1. ASSUME HandsOut(script) PROVE Opened
  <2>1. PICK done \in Scripts[script].skip : GivesRedeemManager(done)
    BY <1>1 DEF HandsOut
  <2>2. Done(done)
    BY DEF Skip
  <2>3. chain["River"].version > 1
    BY <2>1, <2>2 DEF Done, GivesRedeemManager, Deployments
  <2>4. chain["River"].version \in Nat
    BY ContractNames DEF IInv, TypeOK
  <2> QED BY <2>3, <2>4 DEF Opened
<1> QED BY <1>1, NextScriptStep DEF Skip

LEMMA EndScriptKeeps ==
  ASSUME IInv, EndScript
  PROVE  IInv' /\ Grows
<1>1. ASSUME HandsOut(script) PROVE Opened
  <2>1. PICK j \in DOMAIN Steps : GivesRedeemManager(Steps[j])
    BY <1>1 DEF HandsOut, StepsOf, Steps
  <2>2. j < pc
    BY ScriptsAreCounted, StepIsSendable DEF EndScript, Running, Steps
  <2>3. Done(Steps[j])
    BY <2>1, <2>2 DEF EndScript, IInv, BehindIsFulfilled, Fulfilled, GivesRedeemManager
  <2>4. chain["River"].version > 1
    BY <2>1, <2>3 DEF Done, GivesRedeemManager, Deployments
  <2>5. chain["River"].version \in Nat
    BY ContractNames DEF IInv, TypeOK
  <2> QED BY <2>4, <2>5 DEF Opened
<1> QED BY <1>1, NextScriptStep DEF EndScript

LEMMA RunScriptKeeps ==
  ASSUME IInv, RunScript
  PROVE  IInv' /\ Grows
<1>1. UNCHANGED <<world, inFlight, crashes>> /\ script' = script /\ pc = 0 /\ pc' = 1
  BY DEF RunScript, Goto
<1>2. readFailures' \in Nat
  BY FailedRead DEF RunScript, IInv
<1>3. BehindIsFulfilled'
  <2> SUFFICES ASSUME Running', NEW j \in DOMAIN Scripts[script'].steps, j < 1
               PROVE  FALSE
    BY <1>1 DEF BehindIsFulfilled, Running, Steps
  <2>1. DOMAIN Scripts[script'].steps = 1..Len(Scripts[script'].steps)
    BY ScriptsAreCounted, StepIsSendable DEF Running
  <2> QED BY <2>1
<1>4. Goto(script, pc')
  BY DEF RunScript, Goto
<1>5. crashes' \in Nat /\ pc' \in Nat
  BY <1>1 DEF IInv, TypeOK
<1> QED BY <1>1, <1>2, <1>3, <1>4, <1>5, GotoStep

LEMMA PassOverKeeps ==
  ASSUME IInv, PassOver
  PROVE  IInv' /\ Grows
<1>1. /\ UNCHANGED <<world, inFlight, crashes, readFailures>>
      /\ Running /\ pc \in DOMAIN Steps /\ Done(Step)
      /\ Goto(script, pc + 1)
  BY DEF PassOver, AtStep
<1>2. /\ pc' = pc + 1 /\ pc' \in Nat /\ script' = script
      /\ crashes' \in Nat /\ readFailures' \in Nat
  <2>1. pc' = pc + 1 /\ script' = script
    BY <1>1 DEF Goto
  <2>2. crashes' \in Nat /\ readFailures' \in Nat
    BY <1>1 DEF IInv, TypeOK
  <2> QED BY <2>1, <2>2, NextPc DEF IInv
<1>3. TypeOK' /\ Grows
  BY <1>1, <1>2, QuietGrows DEF Goto, IInv, TypeOK, world
<1>4. BehindIsFulfilled'
  <2>1. ASSUME NEW step, pc \in DOMAIN Steps, step = Step
        PROVE  Fulfilled(step)'
    <3>1. ScriptStep(step) /\ Fulfilled(step)
      BY <1>1, <2>1, StepOfScript DEF Step, Fulfilled
    <3> QED BY <1>3, <3>1, FulfilledIsKept DEF IInv
  <2> QED BY <1>2, <1>3, <2>1, BehindIsExtended DEF IInv
<1> QED BY <1>1, <1>2, <1>4, GotoStep

LEMMA VerifyKeeps ==
  ASSUME IInv, Verify
  PROVE  IInv' /\ Grows
<1>1. /\ UNCHANGED <<world, inFlight, crashes, readFailures>>
      /\ Running /\ pc \in DOMAIN Steps /\ Step.op = "verify"
      /\ Goto(script, pc + 1) \/ Goto(0, 0)
  BY DEF Verify, AtStep
<1>2. crashes' \in Nat /\ readFailures' \in Nat
  BY <1>1 DEF IInv, TypeOK
<1>3. CASE Goto(0, 0)
  BY <1>1, <1>2, <1>3, RestartStep
<1>4. CASE Goto(script, pc + 1)
  <2>1. pc' = pc + 1 /\ pc' \in Nat /\ script' = script
    <3>1. pc' = pc + 1 /\ script' = script
      BY <1>4 DEF Goto
    <3> QED BY <3>1, NextPc DEF IInv
  <2>2. TypeOK' /\ Grows
    BY <1>1, <1>4, <2>1, QuietGrows DEF Goto, IInv, TypeOK, world
  <2>3. BehindIsFulfilled'
    <3>1. \A step : step = Step => Fulfilled(step)'
      BY <1>1 DEF Fulfilled
    <3> QED BY <2>1, <2>2, <3>1, BehindIsExtended DEF IInv
  <2> QED BY <1>1, <1>2, <1>4, <2>1, <2>3, GotoStep
<1> QED BY <1>1, <1>3, <1>4

\* Deploying a proxy touches one that was not there.
LEMMA DeployKeeps ==
  ASSUME IInv, Deploy
  PROVE  IInv' /\ Grows
<1>1. /\ Running /\ pc \in DOMAIN Steps /\ Step.op \in Deployments /\ ~Done(Step)
      /\ recorded' = recorded \cup {Name(Step)}
      /\ UNCHANGED <<migrated, inFlight, crashes, readFailures>>
      /\ script' = script /\ pc' = pc + 1 /\ waitingFor' = Nobody
  BY DEF Deploy, AtStep, Goto
<1> DEFINE c == Step.of
           proxy == [admin |-> Step.to, impl |-> "1_2_1", version |-> Step.at]
           P == [admin : Accounts, impl : Releases, version : Nat]
<1>2. ScriptStep(Step)
  BY <1>1, StepOfScript DEF Step
<1>3. /\ chain \in [Contracts -> P]
      /\ \A d \in Contracts : chain[d] \in P
  BY DEF IInv, TypeOK
<1>4. ASSUME Step.op = "proxy"
      PROVE  /\ c \in Contracts /\ chain[c] = Undeployed
             /\ chain' = [chain EXCEPT ![c] = proxy]
             /\ proxy \in P
             /\ Step.to = Governor(c) => c = "Withdraw" \/ Step.at = 1
             /\ Step.at \in {0, 1}
  <2>1. /\ c \in Contracts
        /\ \/ Step.to = "deployer" /\ Step.at = 0
           \/ Step.to = Governor(c) /\ (Step.at = 1 \/ (Step.at = 0 /\ c = "Withdraw"))
    BY <1>2, <1>4 DEF ScriptStep, WellFormed
  <2>2. <<c, "proxy">> \notin recorded
    BY <1>1, <1>4 DEF Done, Name
  <2>3. proxy \in P
    BY <2>1, GovernorIsOther DEF Accounts, Releases
  <2> QED BY <1>4, <2>1, <2>2, <2>3, GovernorIsOther DEF Deploy, IInv, ChainIsSound
<1>5. Step.op # "proxy" => chain' = chain
  BY DEF Deploy
<1> HIDE DEF proxy
<1>6. chain' \in [Contracts -> P]
  BY <1>3, <1>4, <1>5
<1>7. Name(Step) \in
        (Contracts \cup Firewalls) \X (Deployments \cup Accounts \cup Releases \cup {""})
  BY <1>1, <1>2 DEF Name, ScriptStep, StepRecord
<1>8. TypeOK'
  <2>1. pc' \in Nat
    BY <1>1, NextPc DEF IInv
  <2>2. recorded' \subseteq
          (Contracts \cup Firewalls) \X (Deployments \cup Accounts \cup Releases \cup {""})
    BY <1>1, <1>7 DEF IInv, TypeOK
  <2>3. /\ migrated' \in BOOLEAN
        /\ script' \in 0..Finished
        /\ inFlight' \in [Senders -> Seq(StepRecord)]
        /\ crashes' \in Nat /\ readFailures' \in Nat
    BY <1>1 DEF IInv, TypeOK
  <2> QED BY <1>1, <1>6, <2>1, <2>2, <2>3 DEF TypeOK
<1>9. ASSUME NEW d \in Contracts
      PROVE  /\ chain[d].version <= chain'[d].version
             /\ Governed(d) => Governed(d)'
             /\ Upgraded(d) => Upgraded(d)'
             /\ <<d, "proxy">> \notin recorded' => chain'[d] = Undeployed
             /\ Governed(d)' => d = "Withdraw" \/ Initialised(d)'
             /\ Upgraded(d)' => Governed(d)'
             /\ chain'[d].version <= 1 \/ chain'[d] = chain[d]
  <2>1. CASE Step.op = "proxy" /\ d = c
    <3>1. chain'[d] = proxy /\ chain[d] = Undeployed
      BY <1>3, <1>4, <2>1
    <3>2. <<d, "proxy">> \in recorded'
      BY <1>1, <2>1 DEF Name
    <3> QED BY <1>4, <2>1, <3>1, <3>2, GovernorIsOther
         DEF proxy, Undeployed, Governed, Upgraded, Initialised
  <2>2. CASE ~(Step.op = "proxy" /\ d = c)
    <3>1. chain'[d] = chain[d]
      BY <1>3, <1>4, <1>5, <2>2
    <3> QED BY <1>1, <1>3, <3>1 DEF IInv, ChainIsSound, Governed, Upgraded, Initialised
  <2> QED BY <2>1, <2>2
<1>10. Grows
  BY <1>1, <1>9 DEF Grows
<1>11. ChainIsSound'
  <2>1. Opened' => Initialised("Withdraw")'
    <3>1. SUFFICES ASSUME Opened' PROVE Initialised("Withdraw")'
      OBVIOUS
    <3>2. "River" \in Contracts /\ "Withdraw" \in Contracts
      BY ContractNames
    <3>3. chain'["River"] \in P /\ chain'["Withdraw"] \in P /\ chain["Withdraw"] \in P
      BY <1>3, <1>6, <3>2
    <3>4. chain'["River"] = chain["River"]
      <4>1. chain'["River"].version >= 2 /\ chain'["River"].version \in Nat
        BY <3>1, <3>3 DEF Opened
      <4>2. ~(chain'["River"].version <= 1)
        BY <4>1
      <4> QED BY <1>9, <3>2, <4>2
    <3>5. Initialised("Withdraw")
      BY <3>1, <3>4 DEF Opened, IInv, ChainIsSound
    <3>6. /\ chain["Withdraw"].version \in Nat /\ chain'["Withdraw"].version \in Nat
          /\ chain["Withdraw"].version <= chain'["Withdraw"].version
      BY <1>9, <3>2, <3>3
    <3> QED BY <3>5, <3>6 DEF Initialised
  <2> QED BY <1>9, <2>1 DEF ChainIsSound
<1>12. InFlightIsReady'
  BY <1>1, <1>8, <1>10, InFlightIsKept DEF IInv
<1>13. BehindIsFulfilled'
  <2>1. ASSUME NEW step, pc \in DOMAIN Steps, step = Step
        PROVE  Fulfilled(step)'
    BY <1>1, <2>1 DEF Fulfilled, Done, Name
  <2> QED BY <1>1, <1>8, <1>10, <2>1, BehindIsExtended DEF IInv
<1>14. script' <= script
  BY <1>1, ScriptBounds DEF IInv
<1>15. PassedAreOpen'
  BY <1>8, <1>10, <1>14, PassedIsKept DEF IInv
<1>16. WaitingForStep'
  BY <1>1 DEF WaitingForStep, Nobody, Senders
<1> QED BY <1>8, <1>10, <1>11, <1>12, <1>13, <1>15, <1>16 DEF IInv

\* A step of the script under way is preceded by what its order asks for, done.
LEMMA PrecedingIsDone ==
  ASSUME IInv, Running, NEW op, NEW c, Precedes(op, c, script, pc), op # "verify",
         pc \in DOMAIN Steps
  PROVE  \E step : ScriptStep(step) /\ step.op = op /\ step.of = c /\ Done(step)
<1>1. PICK j \in 1..(pc - 1) : Steps[j].op = op /\ Steps[j].of = c
  BY DEF Precedes, Steps
<1>2. Len(Steps) \in Nat /\ DOMAIN Steps = 1..Len(Steps)
  BY ScriptsAreCounted, StepIsSendable DEF Running, Steps
<1>3. j \in DOMAIN Steps /\ j < pc
  BY <1>2
<1>4. ScriptStep(Steps[j])
  BY <1>3, StepOfScript
<1>5. Done(Steps[j])
  BY <1>1, <1>3 DEF IInv, BehindIsFulfilled, Fulfilled
<1> QED BY <1>1, <1>4, <1>5

\* A step of the script under way is right to send.
LEMMA StepIsReady ==
  ASSUME IInv, AtStep, Step.op \in Transactions
  PROVE  Sendable(Step) /\ Ready(Step)
<1>1. Running /\ pc \in DOMAIN Steps /\ script \in DOMAIN Scripts
  BY ScriptsAreCounted DEF AtStep, Running
<1>2. ScriptStep(Step)
  BY <1>1, StepOfScript DEF Step
<1>3. Sendable(Step)
  BY <1>2 DEF ScriptStep, Sendable, Transactions
<1>4. WellPlaced(script, pc)
  BY <1>1, StepIsSendable DEF Steps
<1>5. Step = Scripts[script].steps[pc]
  BY DEF Step, Steps
<1>6. Step.op = "handOver" => Initialised(Step.of)
  <2> SUFFICES ASSUME Step.op = "handOver" PROVE Initialised(Step.of)
    OBVIOUS
  <2>1. Precedes("initialise", Step.of, script, pc)
    BY <1>4, <1>5 DEF WellPlaced
  <2>2. PICK step : ScriptStep(step) /\ step.op = "initialise" /\ step.of = Step.of /\ Done(step)
    BY <1>1, <2>1, PrecedingIsDone
  <2>3. step.at = 0 /\ chain[Step.of].version > step.at
    BY <2>2 DEF ScriptStep, WellFormed, Done, Deployments
  <2>4. chain[Step.of].version \in Nat
    BY <1>3 DEF Sendable, IInv, TypeOK
  <2> QED BY <2>3, <2>4 DEF Initialised
<1>7. GivesRedeemManager(Step) => Initialised("Withdraw") /\ \A c \in Core : Governed(c)
  <2> SUFFICES ASSUME GivesRedeemManager(Step)
               PROVE  Initialised("Withdraw") /\ \A c \in Core : Governed(c)
    OBVIOUS
  <2>1. /\ \A c \in Core : Precedes("handOver", c, script, pc)
        /\ Precedes("call", "Withdraw", script, pc)
    BY <1>4, <1>5 DEF WellPlaced
  <2>2. ASSUME NEW c \in Core PROVE Governed(c)
    <3>1. PICK step : ScriptStep(step) /\ step.op = "handOver" /\ step.of = c /\ Done(step)
      BY <1>1, <2>1, PrecedingIsDone
    <3> QED BY <3>1 DEF ScriptStep, WellFormed, Done, Deployments, Governed
  <2>3. PICK step : ScriptStep(step) /\ step.op = "call" /\ step.of = "Withdraw" /\ Done(step)
    BY <1>1, <2>1, PrecedingIsDone
  <2>4. step.at = 0 /\ chain["Withdraw"].version > step.at
    BY <2>3 DEF ScriptStep, WellFormed, Done, Deployments
  <2>5. chain["Withdraw"].version \in Nat
    BY ContractNames DEF IInv, TypeOK
  <2>6. Initialised("Withdraw")
    BY <2>4, <2>5 DEF Initialised
  <2> QED BY <2>2, <2>6
<1>8. Step.op = "upgrade" =>
        Opened /\ (Step.of = "River" => \A c \in Contracts \ {"River"} : Upgraded(c))
  <2> SUFFICES ASSUME Step.op = "upgrade"
               PROVE  Opened /\ (Step.of = "River" =>
                                   \A c \in Contracts \ {"River"} : Upgraded(c))
    OBVIOUS
  <2>1. PICK t \in 1..(script - 1) : HandsOut(t)
    BY <1>4, <1>5 DEF WellPlaced, HandsOut
  <2>2. t \in DOMAIN Scripts /\ t < script
    BY ScriptBounds, ScriptsAreCounted DEF IInv
  <2>3. Opened
    BY <2>1, <2>2 DEF IInv, PassedAreOpen
  <2>4. ASSUME Step.of = "River", NEW c \in Contracts \ {"River"} PROVE Upgraded(c)
    <3>1. Precedes("upgrade", c, script, pc)
      BY <1>4, <1>5, <2>4 DEF WellPlaced
    <3>2. PICK step : ScriptStep(step) /\ step.op = "upgrade" /\ step.of = c /\ Done(step)
      BY <1>1, <3>1, PrecedingIsDone
    <3> QED BY <3>2 DEF ScriptStep, WellFormed, Done, Deployments, Upgraded
  <2> QED BY <2>3, <2>4
<1> QED BY <1>3, <1>6, <1>7, <1>8 DEF Ready

LEMMA SendKeeps ==
  ASSUME IInv, Send
  PROVE  IInv' /\ Grows
<1>1. /\ AtStep /\ Step.op \in Transactions
      /\ waitingFor' = SenderOf(Step)
      /\ inFlight' = [inFlight EXCEPT ![SenderOf(Step)] = Append(@, Step)]
      /\ UNCHANGED <<world, script, pc, crashes>>
  BY DEF Send
<1>2. PICK tx : tx = Step
  OBVIOUS
<1>3. PICK a \in Senders : a = SenderOf(Step)
  BY DEF SenderOf, Senders
<1>4. Sendable(tx) /\ Ready(tx)
  BY <1>1, <1>2, StepIsReady
<1>5. /\ inFlight \in [Senders -> Seq(StepRecord)]
      /\ tx \in StepRecord
  BY <1>4 DEF IInv, TypeOK, Sendable
<1>6. /\ inFlight' \in [Senders -> Seq(StepRecord)]
      /\ inFlight'[a] = Append(inFlight[a], tx)
      /\ \A b \in Senders \ {a} : inFlight'[b] = inFlight[b]
  <2> HIDE DEF StepRecord
  <2> QED BY <1>1, <1>2, <1>3, <1>5
<1>7. readFailures' \in Nat
  BY FailedRead DEF Send, IInv
<1>8. TypeOK'
  BY <1>1, <1>3, <1>6, <1>7 DEF IInv, TypeOK, world
<1>9. Grows /\ ChainIsSound'
  BY <1>1, QuietGrows DEF IInv
<1>10. /\ inFlight[a] \in Seq(StepRecord)
       /\ Len(inFlight'[a]) = Len(inFlight[a]) + 1
       /\ inFlight'[a][Len(inFlight'[a])] = tx
       /\ inFlight'[a] # <<>>
       /\ \A i \in DOMAIN inFlight'[a] :
            inFlight'[a][i] = tx \/ (i \in DOMAIN inFlight[a] /\ inFlight'[a][i] = inFlight[a][i])
  <2> HIDE DEF StepRecord
  <2> QED BY <1>5, <1>6
<1>11. InFlightIsReady'
  <2> SUFFICES ASSUME NEW b \in Senders, NEW i \in DOMAIN inFlight'[b],
                      NEW sent, sent = inFlight'[b][i]
               PROVE  Sendable(sent) /\ Ready(sent)'
    BY DEF InFlightIsReady, Sendable, Ready, WellFormed, GivesRedeemManager, Initialised
  <2>1. Sendable(sent) /\ Ready(sent)
    <3>1. sent = tx \/ (i \in DOMAIN inFlight[b] /\ sent = inFlight[b][i])
      BY <1>6, <1>10
    <3> QED BY <1>4, <3>1 DEF IInv, InFlightIsReady
  <2> QED BY <1>8, <1>9, <2>1, ReadyIsKept DEF IInv
<1>12. BehindIsFulfilled'
  BY <1>1, <1>8, <1>9, BehindIsExtended DEF IInv
<1>13. PassedAreOpen'
  <2>1. script' <= script
    BY <1>1, ScriptBounds DEF IInv
  <2> QED BY <1>8, <1>9, <2>1, PassedIsKept DEF IInv
<1>14. WaitingForStep'
  BY <1>1, <1>2, <1>3, <1>10 DEF WaitingForStep, AtStep, Running, Steps, Step
<1> QED BY <1>8, <1>9, <1>11, <1>12, <1>13, <1>14 DEF IInv

\* A sender's queue gives up its first transaction.
Dequeued(a) ==
  /\ inFlight' \in [Senders -> Seq(StepRecord)]
  /\ \A b \in Senders \ {a} : inFlight'[b] = inFlight[b]
  /\ \A b \in Senders : \A i \in DOMAIN inFlight'[b] :
       \E j \in DOMAIN inFlight[b] : inFlight'[b][i] = inFlight[b][j]
  /\ 1 \in DOMAIN inFlight[a]
  /\ Head(inFlight[a]) = inFlight[a][1]
  /\ Len(inFlight[a]) = 1 =>
       inFlight[a][Len(inFlight[a])] = Head(inFlight[a])
  /\ Len(inFlight[a]) # 1 =>
       /\ inFlight'[a] # <<>>
       /\ inFlight'[a][Len(inFlight'[a])] = inFlight[a][Len(inFlight[a])]

\* r is q without its first element.
IsTail(S, q, r) ==
  /\ r \in Seq(S)
  /\ 1 \in DOMAIN q /\ Len(q) \in Nat /\ Len(q) >= 1
  /\ Head(q) = q[1]
  /\ \A i \in DOMAIN r : i + 1 \in DOMAIN q /\ r[i] = q[i + 1]
  /\ Len(q) # 1 => r # <<>> /\ r[Len(r)] = q[Len(q)]

LEMMA TailOfQueue ==
  ASSUME NEW S, NEW q \in Seq(S), q # <<>>, NEW r, r = Tail(q)
  PROVE  IsTail(S, q, r)
<1>1. Len(q) \in Nat /\ Len(q) >= 1 /\ DOMAIN q = 1..Len(q)
  <2>1. Len(q) \in Nat /\ DOMAIN q = 1..Len(q)
    OBVIOUS
  <2>2. Len(q) # 0
    BY EmptySeq
  <2> QED BY <2>1, <2>2
<1>2. Head(q) = q[1] /\ r \in Seq(S) /\ Len(r) = Len(q) - 1
  BY HeadTailProperties
<1>3. \A i \in 1..Len(r) : r[i] = q[i + 1]
  BY HeadTailProperties
<1>4. DOMAIN r = 1..Len(r)
  BY <1>2
<1>5. ASSUME Len(q) # 1 PROVE r # <<>> /\ r[Len(r)] = q[Len(q)]
  <2>1. Len(r) \in 1..Len(r) /\ Len(r) + 1 = Len(q) /\ Len(r) # 0
    BY <1>1, <1>2, <1>5
  <2> QED BY <1>2, <1>3, <2>1, EmptySeq
<1> QED BY <1>1, <1>2, <1>3, <1>4, <1>5 DEF IsTail

LEMMA TailIsDequeued ==
  ASSUME TypeOK, NEW a \in Senders, inFlight[a] # <<>>,
         inFlight' = [inFlight EXCEPT ![a] = Tail(@)]
  PROVE  Dequeued(a)
<1>1. inFlight[a] \in Seq(StepRecord) /\ inFlight \in [Senders -> Seq(StepRecord)]
  BY DEF TypeOK
<1> HIDE DEF StepRecord
<1>2. inFlight'[a] = Tail(inFlight[a])
  BY <1>1
<1>3. PICK q \in Seq(StepRecord) : q = inFlight[a]
  BY <1>1
<1>4. PICK r : r = inFlight'[a]
  OBVIOUS
<1>5. r = Tail(q) /\ q # <<>>
  BY <1>2, <1>3, <1>4
<1>6. IsTail(StepRecord, q, r)
  BY <1>5, TailOfQueue
<1>7. /\ inFlight' \in [Senders -> Seq(StepRecord)]
      /\ \A b \in Senders \ {a} : inFlight'[b] = inFlight[b]
  BY <1>1, <1>2, <1>4, <1>6 DEF IsTail
<1>8. ASSUME NEW i \in DOMAIN inFlight'[a]
      PROVE  \E j \in DOMAIN inFlight[a] : inFlight'[a][i] = inFlight[a][j]
  BY <1>3, <1>4, <1>6, <1>8 DEF IsTail
<1> QED BY <1>3, <1>4, <1>6, <1>7, <1>8 DEF Dequeued, IsTail

\* The transaction the run waits for is that of its step.
LEMMA AwaitedIsStep ==
  ASSUME IInv, NEW a \in Senders, Dequeued(a), Awaited(a)
  PROVE  Running /\ pc \in DOMAIN Steps /\ Head(inFlight[a]) = Step
BY DEF IInv, WaitingForStep, Dequeued, Awaited

\* A transaction leaves its queue, and the run goes on, ends, or did not wait.
LEMMA DequeuedKeeps ==
  ASSUME IInv, NEW a \in Senders, Dequeued(a), Grows, ChainIsSound',
         chain' \in [Contracts -> [admin : Accounts, impl : Releases, version : Nat]],
         migrated' \in BOOLEAN, recorded' = recorded,
         UNCHANGED <<crashes, readFailures>>,
         \/ UNCHANGED run /\ ~Awaited(a)
         \/ Goto(0, 0)
         \/ /\ Goto(script, pc + 1)
            /\ \A step : pc \in DOMAIN Steps /\ step = Step => Fulfilled(step)'
  PROVE  IInv'
<1>1. script' \in 0..Finished /\ script' <= script
  <2>1. script' = script \/ script' = 0
    BY DEF Goto, run
  <2>2. script \in 0..Finished
    BY DEF IInv, TypeOK
  <2> QED BY <2>1, <2>2, ScriptBounds DEF IInv
<1>2. pc' \in Nat /\ waitingFor' \in Senders \cup {Nobody}
  <2>1. CASE UNCHANGED run
    BY <2>1 DEF run, IInv, TypeOK
  <2>2. CASE Goto(0, 0)
    BY <2>2 DEF Goto
  <2>3. CASE Goto(script, pc + 1)
    <3>1. pc' = pc + 1 /\ waitingFor' = Nobody
      BY <2>3 DEF Goto
    <3> QED BY <3>1, NextPc DEF IInv
  <2> QED BY <2>1, <2>2, <2>3
<1>3. TypeOK'
  BY <1>1, <1>2 DEF IInv, TypeOK, Dequeued
<1>4. InFlightIsReady'
  BY <1>3, InFlightIsKept DEF IInv, Dequeued
<1>5. PassedAreOpen'
  BY <1>1, <1>3, PassedIsKept DEF IInv
<1>6. BehindIsFulfilled'
  <2>1. CASE UNCHANGED run
    BY <1>3, <2>1, BehindIsExtended DEF run, IInv
  <2>2. CASE Goto(0, 0)
    BY <1>3, <2>2, BehindIsEmpty DEF Goto
  <2>3. CASE /\ Goto(script, pc + 1)
             /\ \A step : pc \in DOMAIN Steps /\ step = Step => Fulfilled(step)'
    BY <1>3, <2>3, BehindIsExtended DEF Goto, IInv
  <2> QED BY <2>1, <2>2, <2>3
<1>7. WaitingForStep'
  <2>1. CASE UNCHANGED run /\ ~Awaited(a)
    <3> SUFFICES ASSUME waitingFor' \in Senders PROVE WaitingForStep'
      BY DEF WaitingForStep
    <3>1. script' = script /\ pc' = pc /\ waitingFor' = waitingFor
      BY <2>1 DEF run
    <3>2. /\ inFlight'[waitingFor] # <<>>
          /\ inFlight'[waitingFor][Len(inFlight'[waitingFor])] =
               inFlight[waitingFor][Len(inFlight[waitingFor])]
      BY <2>1, <3>1 DEF Dequeued, Awaited, IInv, WaitingForStep
    <3> QED BY <3>1, <3>2 DEF IInv, WaitingForStep, Running, Steps, Step
  <2>2. CASE Goto(0, 0) \/ Goto(script, pc + 1)
    BY <2>2 DEF Goto, WaitingForStep, Nobody, Senders
  <2> QED BY <2>1, <2>2
<1> QED BY <1>3, <1>4, <1>5, <1>6, <1>7 DEF IInv

LEMMA MineKeeps ==
  ASSUME IInv, NEW a \in Senders, Mine(a)
  PROVE  IInv' /\ Grows
<1>1. /\ inFlight[a] # <<>>
      /\ inFlight' = [inFlight EXCEPT ![a] = Tail(@)]
      /\ UNCHANGED <<crashes, readFailures>>
      /\ IF Awaited(a) THEN Goto(script, pc + 1) ELSE UNCHANGED run
  BY DEF Mine
<1>2. Dequeued(a)
  BY <1>1, TailIsDequeued DEF IInv
<1>3. PICK tx : tx = Head(inFlight[a])
  OBVIOUS
<1>4. Sendable(tx) /\ Ready(tx)
  BY <1>2, <1>3 DEF Dequeued, IInv, InFlightIsReady
<1>5. Accepted(tx) /\ Effect(tx)
  BY <1>3 DEF Mine
<1>6. Mined(tx)
  BY <1>4, <1>5, MinedTransaction DEF IInv
<1>7. /\ Grows /\ ChainIsSound' /\ Done(tx)'
      /\ chain' \in [Contracts -> [admin : Accounts, impl : Releases, version : Nat]]
      /\ recorded' = recorded /\ migrated' \in BOOLEAN
  BY <1>6 DEF Mined
<1>8. CASE Awaited(a)
  <2>1. \A step : step = Step => Fulfilled(step)'
    <3>1. tx = Step
      BY <1>2, <1>3, <1>8, AwaitedIsStep
    <3>2. Fulfilled(tx)'
      BY <1>7 DEF Fulfilled
    <3> QED BY <3>1, <3>2
  <2> QED BY <1>1, <1>2, <1>7, <1>8, <2>1, DequeuedKeeps
<1>9. CASE ~Awaited(a)
  BY <1>1, <1>2, <1>7, <1>9, DequeuedKeeps
<1> QED BY <1>8, <1>9

LEMMA RevertKeeps ==
  ASSUME IInv, NEW a \in Senders, Revert(a)
  PROVE  IInv' /\ Grows
<1>1. /\ inFlight[a] # <<>>
      /\ ~Accepted(Head(inFlight[a]))
      /\ inFlight' = [inFlight EXCEPT ![a] = Tail(@)]
      /\ UNCHANGED <<world, crashes, readFailures>>
  BY DEF Revert
<1>2. Dequeued(a)
  BY <1>1, TailIsDequeued DEF IInv
<1>3. Grows /\ ChainIsSound'
  BY <1>1, QuietGrows DEF IInv
<1>4. /\ chain' \in [Contracts -> [admin : Accounts, impl : Releases, version : Nat]]
      /\ recorded' = recorded /\ migrated' \in BOOLEAN
  BY <1>1 DEF world, IInv, TypeOK
<1>5. CASE ~Awaited(a)
  BY <1>1, <1>2, <1>3, <1>4, <1>5, DequeuedKeeps DEF Revert
<1>6. CASE Awaited(a) /\ Head(inFlight[a]).op = "migrate"
  <2>1. Head(inFlight[a]) = Step
    BY <1>2, <1>6, AwaitedIsStep
  <2>2. migrated' /\ Step.op = "migrate"
    BY <1>1, <1>6, <2>1 DEF Accepted, world
  <2>3. \A step : step = Step => Fulfilled(step)'
    BY <2>2 DEF Fulfilled, Done
  <2>4. Goto(script, pc + 1)
    BY <1>6 DEF Revert
  <2> QED BY <1>1, <1>2, <1>3, <1>4, <2>3, <2>4, DequeuedKeeps
<1>7. CASE Awaited(a) /\ Head(inFlight[a]).op # "migrate"
  BY <1>1, <1>2, <1>3, <1>4, <1>7, DequeuedKeeps DEF Revert
<1> QED BY <1>5, <1>6, <1>7

LEMMA DropKeeps ==
  ASSUME IInv, NEW a \in Senders, Drop(a)
  PROVE  IInv' /\ Grows
<1>1. /\ waitingFor # a
      /\ inFlight' = [inFlight EXCEPT ![a] = <<>>]
      /\ UNCHANGED <<world, run, crashes, readFailures>>
  BY DEF Drop
<1>2. /\ inFlight' \in [Senders -> Seq(StepRecord)]
      /\ inFlight'[a] = <<>>
      /\ \A b \in Senders \ {a} : inFlight'[b] = inFlight[b]
  <2>1. inFlight \in [Senders -> Seq(StepRecord)]
    BY DEF IInv, TypeOK
  <2> HIDE DEF StepRecord
  <2> QED BY <1>1, <2>1
<1>3. TypeOK'
  BY <1>1, <1>2 DEF IInv, TypeOK, world, run
<1>4. Grows /\ ChainIsSound'
  BY <1>1, QuietGrows DEF IInv
<1>5. InFlightIsReady'
  <2>1. \A b \in Senders : \A i \in DOMAIN inFlight'[b] :
          \E j \in DOMAIN inFlight[b] : inFlight'[b][i] = inFlight[b][j]
    BY <1>2
  <2> QED BY <1>3, <1>4, <2>1, InFlightIsKept DEF IInv
<1>6. BehindIsFulfilled'
  BY <1>1, <1>3, <1>4, BehindIsExtended DEF run, IInv
<1>7. PassedAreOpen'
  <2>1. script' <= script
    BY <1>1, ScriptBounds DEF IInv, run
  <2> QED BY <1>3, <1>4, <2>1, PassedIsKept DEF IInv
<1>8. WaitingForStep'
  BY <1>1, <1>2 DEF WaitingForStep, IInv, run, Running, Steps, Step
<1> QED BY <1>3, <1>4, <1>5, <1>6, <1>7, <1>8 DEF IInv

LEMMA InitIsInvariant == Init => IInv
<1> SUFFICES ASSUME Init PROVE IInv
  OBVIOUS
<1>1. TypeOK
  <2>1. 0 \in 0..Finished
    BY ScriptsAreCounted DEF Finished
  <2>2. inFlight \in [Senders -> Seq(StepRecord)]
    <3> HIDE DEF StepRecord
    <3> QED BY DEF Init
  <2>3. chain \in [Contracts -> [admin : Accounts, impl : Releases, version : Nat]]
    BY DEF Init, Undeployed, Accounts, Releases
  <2> QED BY <2>1, <2>2, <2>3 DEF Init, TypeOK
<1>2. InFlightIsReady
  BY DEF Init, InFlightIsReady
<1>3. \A c \in Contracts :
        chain[c].admin = Nobody /\ chain[c].impl = "none" /\ chain[c].version = 0
  BY DEF Init, Undeployed
<1>4. ChainIsSound
  <2>1. \A c \in Contracts : chain[c] = Undeployed
    BY DEF Init
  <2>2. \A c \in Contracts : ~Governed(c) /\ ~Upgraded(c)
    BY <1>3, GovernorIsOther DEF Governed, Upgraded
  <2>3. ~Opened
    BY <1>3, ContractNames DEF Opened
  <2> QED BY <2>1, <2>2, <2>3 DEF ChainIsSound
<1>5. ~Running
  BY ScriptsAreCounted DEF Init, Running
<1>6. PassedAreOpen
  BY ScriptsAreCounted DEF Init, PassedAreOpen
<1>7. BehindIsFulfilled /\ WaitingForStep
  BY <1>5 DEF Init, BehindIsFulfilled, WaitingForStep, Nobody, Senders
<1> QED BY <1>1, <1>2, <1>4, <1>6, <1>7 DEF IInv

LEMMA NextKeeps ==
  ASSUME IInv, Next
  PROVE  IInv' /\ Grows
<1>1. CASE Start
  BY <1>1, StartKeeps
<1>2. CASE Proceed
  BY <1>2, SkipKeeps, RunScriptKeeps, DeployKeeps, PassOverKeeps, SendKeeps,
     VerifyKeeps, EndScriptKeeps DEF Proceed
<1>3. ASSUME NEW a \in Senders, Mine(a) \/ Revert(a) \/ Drop(a)
      PROVE  IInv' /\ Grows
  BY <1>3, MineKeeps, RevertKeeps, DropKeeps
<1>4. CASE Crash
  BY <1>4, CrashKeeps
<1> QED BY <1>1, <1>2, <1>3, <1>4 DEF Next

LEMMA StutterKeeps ==
  ASSUME IInv, UNCHANGED vars
  PROVE  IInv'
<1>1. TypeOK'
  BY DEF IInv, TypeOK, vars, world, run
<1>2. Grows /\ ChainIsSound'
  BY QuietGrows DEF IInv, vars
<1>3. InFlightIsReady'
  BY <1>1, <1>2, InFlightIsKept DEF IInv, vars
<1>4. BehindIsFulfilled'
  BY <1>1, <1>2, BehindIsExtended DEF IInv, vars, run
<1>5. PassedAreOpen'
  <2>1. script' <= script
    BY ScriptBounds DEF IInv, vars, run
  <2> QED BY <1>1, <1>2, <2>1, PassedIsKept DEF IInv
<1>6. WaitingForStep'
  BY DEF IInv, WaitingForStep, vars, run, Running, Steps, Step
<1> QED BY <1>1, <1>2, <1>3, <1>4, <1>5, <1>6 DEF IInv

\* A transaction that is in flight, however late it is mined, is one that was
\* right to send, and what a run has gone past is done: the inductive invariant.
THEOREM Inductive == Spec => []IInv
<1>1. IInv /\ [Next]_vars => IInv'
  BY NextKeeps, StutterKeeps
<1> QED BY <1>1, InitIsInvariant, PTL DEF Spec

\* Every variable keeps its type: no mined transaction leaves a proxy with an
\* admin, an implementation or a version the deployment does not know.
THEOREM TypeCorrect == Spec => []TypeOK
<1>1. IInv => TypeOK
  BY DEF IInv
<1> QED BY <1>1, Inductive, PTL

-----------------------------------------------------------------------------
(* The refinement: every step is one of the life of a proxy, or none.       *)

\* A step that leaves the chain alone is none.
LEMMA QuietIsStutter ==
  ASSUME chain' = chain
  PROVE  UNCHANGED Lifecycle!vars
BY DEF Lifecycle!vars, Initialised, Governed, Opened, Upgraded

LEMMA DeployRefines ==
  ASSUME IInv, Deploy
  PROVE  [Lifecycle!Next]_Lifecycle!vars
<1> DEFINE proxy == [admin |-> Step.to, impl |-> "1_2_1", version |-> Step.at]
<1>0. PICK c : c = Step.of
  OBVIOUS
<1> USE DEF Initialised, Governed, Opened, Upgraded
<1>1. /\ Running /\ pc \in DOMAIN Steps /\ ~Done(Step)
      /\ Step.op # "proxy" => chain' = chain
      /\ Step.op = "proxy" => chain' = [chain EXCEPT ![c] = proxy]
  BY <1>0 DEF Deploy, AtStep
<1>2. CASE Step.op # "proxy"
  BY <1>1, <1>2, QuietIsStutter
<1>3. CASE Step.op = "proxy"
  <2>1. ScriptStep(Step)
    BY <1>1, StepOfScript DEF Step
  <2>2. /\ c \in Contracts
        /\ \/ Step.to = "deployer" /\ Step.at = 0
           \/ Step.to = Governor(c) /\ Step.at \in {0, 1} /\ c \notin Core
    BY <1>0, <1>3, <2>1 DEF ScriptStep, WellFormed
  <2>3. <<c, "proxy">> \notin recorded
    BY <1>0, <1>1, <1>3 DEF Done, Name, Deployments
  <2>4. chain[c] = Undeployed /\ chain \in [Contracts -> [admin : Accounts, impl : Releases, version : Nat]]
    BY <2>2, <2>3 DEF IInv, ChainIsSound, TypeOK
  <2>5. /\ chain'[c] = proxy
        /\ \A d \in Contracts \ {c} : chain'[d] = chain[d]
    BY <1>1, <1>3, <2>2, <2>4
  <2>6. chain'[c].admin = Step.to /\ chain'[c].impl = "1_2_1" /\ chain'[c].version = Step.at
    BY <2>5
  <2>7. chain[c].admin = Nobody /\ chain[c].impl = "none" /\ chain[c].version = 0
    BY <2>4 DEF Undeployed
  <2>8. Governor(c) # Nobody /\ Governor(c) # "deployer"
    BY <2>2, GovernorIsOther
  <2> HIDE DEF proxy
  <2>9. Opened' = Opened
    BY <2>2, <2>5, <2>6, <2>7, ContractNames
  <2>10. {d \in Contracts : Upgraded(d)}' = {d \in Contracts : Upgraded(d)}
    BY <2>5, <2>6, <2>7
  <2>11. CASE Step.to = "deployer" /\ Step.at = 0
    <3>1. {d \in Contracts : Governed(d)}' = {d \in Contracts : Governed(d)}
      BY <2>5, <2>6, <2>7, <2>8, <2>11
    <3>2. {d \in Contracts : Initialised(d)}' = {d \in Contracts : Initialised(d)}
      BY <2>5, <2>6, <2>7, <2>11
    <3> QED BY <2>9, <2>10, <3>1, <3>2 DEF Lifecycle!vars
  <2>12. CASE Step.to = Governor(c) /\ Step.at \in {0, 1} /\ c \notin Core
    <3>1. {d \in Contracts : Governed(d)}' = {d \in Contracts : Governed(d)} \cup {c}
      BY <2>2, <2>5, <2>6, <2>12
    <3>2. {d \in Contracts : Initialised(d)}' \in
            { {d \in Contracts : Initialised(d)}, {d \in Contracts : Initialised(d)} \cup {c} }
      <4>1. CASE Step.at = 0
        BY <2>5, <2>6, <2>7, <4>1
      <4>2. CASE Step.at = 1
        BY <2>2, <2>5, <2>6, <2>7, <4>2
      <4> QED BY <2>12, <4>1, <4>2
    <3>3. c \notin {d \in Contracts : Governed(d)} \cup {d \in Contracts : Initialised(d)}
      BY <2>7, <2>8
    <3>4. Lifecycle!Found(c)
      BY <2>2, <2>9, <2>10, <2>12, <3>1, <3>2, <3>3 DEF Lifecycle!Found
    <3> QED BY <2>2, <3>4 DEF Lifecycle!Next
  <2> QED BY <2>2, <2>11, <2>12
<1> QED BY <1>2, <1>3

LEMMA MineRefines ==
  ASSUME IInv, NEW a \in Senders, Mine(a)
  PROVE  [Lifecycle!Next]_Lifecycle!vars
<1> USE DEF Initialised, Governed, Opened, Upgraded
<1>1. inFlight[a] # <<>> /\ inFlight' = [inFlight EXCEPT ![a] = Tail(@)]
  BY DEF Mine
<1>2. Dequeued(a)
  BY <1>1, TailIsDequeued DEF IInv
<1>3. PICK tx : tx = Head(inFlight[a])
  OBVIOUS
<1>4. /\ TypeOK /\ ChainIsSound
      /\ Sendable(tx) /\ Ready(tx) /\ Accepted(tx) /\ Effect(tx)
  BY <1>2, <1>3 DEF Dequeued, IInv, InFlightIsReady, Mine
<1>5. CASE tx.op = "migrate"
  <2>1. chain' = chain
    BY <1>4, <1>5 DEF Effect
  <2> QED BY <2>1, QuietIsStutter
<1>6. CASE tx.op # "migrate"
  <2>1. PICK c \in Contracts : c = tx.of
    BY <1>4 DEF Sendable
  <2>2. /\ \A d \in Contracts \ {c} : chain'[d] = chain[d]
        /\ chain'[c].admin = IF tx.op = "handOver" THEN tx.to ELSE chain[c].admin
        /\ chain'[c].impl =
             IF tx.op \in {"initialise", "upgrade"} THEN tx.to ELSE chain[c].impl
        /\ chain'[c].version =
             IF tx.op = "handOver" \/ tx.at = NoInitialiser
             THEN chain[c].version ELSE chain[c].version + 1
    BY <1>4, <1>6, <2>1, EffectOnChain
  <2>3. /\ \A d \in Contracts : chain[d].version \in Nat
        /\ Governor(c) # "deployer" /\ Governor(c) # Nobody
    BY <1>4, GovernorIsOther DEF TypeOK
  <2>4. CASE tx.op = "initialise"
    <3>1. /\ chain[c].admin = "deployer" /\ chain[c].version = 0
          /\ chain'[c].admin = "deployer" /\ chain'[c].impl = "1_2_1" /\ chain'[c].version = 1
      BY <1>4, <2>1, <2>2, <2>4 DEF Accepted, Sendable, WellFormed, NoInitialiser
    <3>2. /\ {d \in Contracts : Governed(d)}' = {d \in Contracts : Governed(d)}
          /\ Opened' = Opened
      BY <2>2, <2>3, <3>1, ContractNames
    <3>3. {d \in Contracts : Upgraded(d)}' = {d \in Contracts : Upgraded(d)}
      BY <1>4, <2>2, <2>3, <3>1 DEF ChainIsSound
    <3>4. {d \in Contracts : Initialised(d)}' = {d \in Contracts : Initialised(d)} \cup {c}
      BY <2>2, <3>1
    <3>5. Lifecycle!Initialise(c)
      BY <3>1, <3>2, <3>3, <3>4 DEF Lifecycle!Initialise
    <3> QED BY <3>5 DEF Lifecycle!Next
  <2>5. CASE tx.op = "handOver"
    <3>1. /\ chain[c].admin = "deployer" /\ chain[c].version >= 1
          /\ chain'[c].admin = Governor(c)
          /\ chain'[c].impl = chain[c].impl /\ chain'[c].version = chain[c].version
      BY <1>4, <2>1, <2>2, <2>5 DEF Accepted, Ready, Sendable, WellFormed
    <3>2. /\ {d \in Contracts : Initialised(d)}' = {d \in Contracts : Initialised(d)}
          /\ {d \in Contracts : Upgraded(d)}' = {d \in Contracts : Upgraded(d)}
      BY <2>2, <3>1
    <3>3. Opened' = Opened
      BY <2>2, <3>1, ContractNames
    <3>4. {d \in Contracts : Governed(d)}' = {d \in Contracts : Governed(d)} \cup {c}
      BY <2>2, <3>1
    <3>5. Lifecycle!HandOver(c)
      BY <2>3, <3>1, <3>2, <3>3, <3>4 DEF Lifecycle!HandOver
    <3> QED BY <3>5 DEF Lifecycle!Next
  <2>6. CASE tx.op = "call"
    <3>1. /\ chain[c].version = tx.at
          /\ <<c, tx.at>> \in {<<"Withdraw", 0>>, <<"River", 1>>}
          /\ chain'[c].admin = chain[c].admin /\ chain'[c].impl = chain[c].impl
          /\ chain'[c].version = chain[c].version + 1
      BY <1>4, <2>1, <2>2, <2>6 DEF Accepted, Sendable, WellFormed, NoInitialiser
    <3>2. /\ {d \in Contracts : Governed(d)}' = {d \in Contracts : Governed(d)}
          /\ {d \in Contracts : Upgraded(d)}' = {d \in Contracts : Upgraded(d)}
      BY <2>2, <3>1
    <3>3. CASE c = "Withdraw"
      <4>1. chain[c].version = 0 /\ chain'[c].version = 1
        BY <3>1, <3>3
      <4>2. Opened' = Opened
        BY <2>2, <3>3, ContractNames
      <4>3. {d \in Contracts : Initialised(d)}' = {d \in Contracts : Initialised(d)} \cup {c}
        BY <2>2, <4>1
      <4>4. Lifecycle!Initialise(c)
        BY <3>2, <4>1, <4>2, <4>3 DEF Lifecycle!Initialise
      <4> QED BY <4>4 DEF Lifecycle!Next
    <3>4. CASE c = "River"
      <4>1. chain[c].version = 1 /\ chain'[c].version = 2 /\ tx.at = 1
        BY <3>1, <3>4
      <4>2. ~Opened /\ Opened'
        BY <3>4, <4>1
      <4>3. {d \in Contracts : Initialised(d)}' = {d \in Contracts : Initialised(d)}
        BY <2>2, <4>1
      <4>4. \A d \in Core : Governed(d)
        BY <1>4, <2>1, <2>6, <3>4, <4>1 DEF Ready, GivesRedeemManager
      <4>5. \A d \in Core : Initialised(d)
        BY <1>4, <4>4, ContractNames DEF ChainIsSound
      <4>6. Lifecycle!Open
        BY <3>2, <4>2, <4>3, <4>4, <4>5, ContractNames DEF Lifecycle!Open
      <4> QED BY <4>6 DEF Lifecycle!Next
    <3> QED BY <3>1, <3>3, <3>4
  <2>7. CASE tx.op = "upgrade"
    <3>1. /\ chain[c].admin = Governor(c)
          /\ chain'[c].admin = chain[c].admin /\ chain'[c].impl = "1_3_0"
          /\ Opened
          /\ c = "River" => \A d \in Contracts \ {"River"} : Upgraded(d)
      BY <1>4, <2>1, <2>2, <2>7 DEF Accepted, Ready, Sendable, WellFormed
    <3>2. /\ chain[c].version \in Nat /\ chain'[c].version >= chain[c].version
      BY <2>2, <2>3
    <3>3. chain[c].version >= 1
      BY <1>4, <3>1 DEF ChainIsSound
    <3>4. chain'[c].version >= 1
      <4>1. chain'[c].version = chain[c].version \/ chain'[c].version = chain[c].version + 1
        BY <2>2
      <4> QED BY <2>3, <3>3, <4>1
    <3>5. /\ {d \in Contracts : Initialised(d)}' = {d \in Contracts : Initialised(d)}
          /\ {d \in Contracts : Governed(d)}' = {d \in Contracts : Governed(d)}
      BY <2>2, <3>1, <3>3, <3>4
    <3>6. Opened' = Opened
      <4>1. chain["River"].version >= 2
        BY <3>1
      <4>2. chain'["River"].version = chain["River"].version
              \/ chain'["River"].version = chain["River"].version + 1
        BY <2>2, ContractNames
      <4>3. chain'["River"].version >= 2
        BY <2>3, <4>1, <4>2, ContractNames
      <4> QED BY <4>1, <4>3
    <3>7. {d \in Contracts : Upgraded(d)}' = {d \in Contracts : Upgraded(d)} \cup {c}
      BY <2>2, <3>1
    <3>8. CASE Upgraded(c)
      BY <3>5, <3>6, <3>7, <3>8 DEF Lifecycle!vars
    <3>9. CASE ~Upgraded(c)
      <4>1. Lifecycle!Upgrade(c)
        BY <3>1, <3>3, <3>5, <3>6, <3>7, <3>9 DEF Lifecycle!Upgrade
      <4> QED BY <4>1 DEF Lifecycle!Next
    <3> QED BY <3>8, <3>9
  <2> QED BY <1>4, <1>6, <2>4, <2>5, <2>6, <2>7 DEF Sendable, Transactions
<1> QED BY <1>5, <1>6

LEMMA StepRefines ==
  ASSUME IInv, [Next]_vars
  PROVE  [Lifecycle!Next]_Lifecycle!vars
<1>1. CASE Start \/ Skip \/ RunScript \/ PassOver \/ Send \/ Verify \/ EndScript \/ Crash
  <2>1. chain' = chain
    BY <1>1 DEF Start, Skip, RunScript, PassOver, Send, Verify, EndScript, Crash, world
  <2> QED BY <2>1, QuietIsStutter
<1>2. CASE Deploy
  BY <1>2, DeployRefines
<1>3. ASSUME NEW a \in Senders, Mine(a) \/ Revert(a) \/ Drop(a)
      PROVE  [Lifecycle!Next]_Lifecycle!vars
  <2>1. CASE Mine(a)
    BY <2>1, MineRefines
  <2>2. CASE Revert(a) \/ Drop(a)
    <3>1. chain' = chain
      BY <2>2 DEF Revert, Drop, world
    <3> QED BY <3>1, QuietIsStutter
  <2> QED BY <1>3, <2>1, <2>2
<1>4. CASE UNCHANGED vars
  <2>1. chain' = chain
    BY <1>4 DEF vars, world
  <2> QED BY <2>1, QuietIsStutter
<1> QED BY <1>1, <1>2, <1>3, <1>4 DEF Next, Proceed

LEMMA InitRefines == Init => Lifecycle!Init
<1> SUFFICES ASSUME Init PROVE Lifecycle!Init
  OBVIOUS
<1>1. \A c \in Contracts :
        chain[c].admin = Nobody /\ chain[c].impl = "none" /\ chain[c].version = 0
  BY DEF Init, Undeployed
<1>2. \A c \in Contracts : ~Initialised(c) /\ ~Governed(c) /\ ~Upgraded(c)
  BY <1>1, GovernorIsOther DEF Initialised, Governed, Upgraded
<1>3. ~Opened
  BY <1>1, ContractNames DEF Opened
<1> QED BY <1>2, <1>3 DEF Lifecycle!Init

\* Running the scripts, losing them anywhere, and rerunning them implements the
\* life of a proxy: handed over only once initialised, opened only once all of the
\* core is governed, upgraded only once governed and open, and never taken back.
THEOREM LifecycleRefined == Spec => LifecycleSpec
<1>1. IInv /\ [Next]_vars => [Lifecycle!Next]_Lifecycle!vars
  BY StepRefines
<1> QED BY <1>1, InitRefines, Inductive, PTL DEF Spec, LifecycleSpec, Lifecycle!Spec
-----------------------------------------------------------------------------
(* What the scripts achieve.  A script gone past was found done or gone      *)
(* through, and nothing is taken back, so what it was to do is still done;   *)
(* and the chain is what the steps done to it add up to.                     *)

ScriptIsDone(s) ==
  \/ \A step \in Scripts[s].skip : Done(step)
  \/ \A step \in StepsOf(s) : Fulfilled(step)

PassedAreDone == \A s \in DOMAIN Scripts : s < script => ScriptIsDone(s)

ProxyAddsUp(c) ==
  /\ chain[c] = Undeployed \/ chain[c].admin \in {"deployer", Governor(c)}
  /\ <<c, "proxy">> \in recorded =>
       /\ c \in {"Withdraw", "CoverageFund"} => Governed(c)
       /\ c = "CoverageFund" => Initialised(c)
  /\ chain[c].version <= Initialisers(c)
  /\ Upgraded(c) => FullyInitialised(c)

ChainAddsUp ==
  /\ \A c \in Contracts : ProxyAddsUp(c)
  /\ Opened => \A c \in Core : Governed(c)

LInv == IInv /\ PassedAreDone /\ ChainAddsUp

LEMMA InitialiserCount ==
  ASSUME NEW c \in Contracts
  PROVE  /\ Initialisers(c) \in 1..3
         /\ c = "River" => Initialisers(c) = 3
         /\ c \in {"Withdraw", "CoverageFund"} => Initialisers(c) = 1
BY DEF Initialisers

\* A proxy that no step touches.
LEMMA ProxyIsLeft ==
  ASSUME NEW c \in Contracts, ProxyAddsUp(c), chain'[c] = chain[c],
         <<c, "proxy">> \in recorded' => <<c, "proxy">> \in recorded
  PROVE  ProxyAddsUp(c)'
BY DEF ProxyAddsUp, Governed, Initialised, Upgraded, FullyInitialised

LEMMA QuietAddsUp ==
  ASSUME ChainAddsUp, UNCHANGED world
  PROVE  ChainAddsUp'
<1>1. chain' = chain /\ recorded' = recorded
  BY DEF world
<1>2. \A c \in Contracts : ProxyAddsUp(c)'
  BY <1>1, ProxyIsLeft DEF ChainAddsUp
<1> QED BY <1>1, <1>2 DEF ChainAddsUp, Opened, Governed

\* A mined transaction runs the initialiser the proxy waits for, if any: a proxy has
\* the last one when it is upgraded.
LEMMA MinedAddsUp ==
  ASSUME IInv, IInv', ChainAddsUp, Grows, NEW tx,
         Sendable(tx), Ready(tx), Accepted(tx), Effect(tx)
  PROVE  ChainAddsUp'
<1> DEFINE c == tx.of
<1>1. CASE tx.op = "migrate"
  <2>1. chain' = chain /\ recorded' = recorded
    BY <1>1 DEF Effect
  <2>2. \A d \in Contracts : ProxyAddsUp(d)'
    BY <2>1, ProxyIsLeft DEF ChainAddsUp
  <2> QED BY <2>1, <2>2 DEF ChainAddsUp, Opened, Governed
<1>2. CASE tx.op # "migrate"
  <2>1. /\ recorded' = recorded
        /\ \A d \in Contracts \ {c} : chain'[d] = chain[d]
        /\ chain'[c].admin = IF tx.op = "handOver" THEN tx.to ELSE chain[c].admin
        /\ chain'[c].impl =
             IF tx.op \in {"initialise", "upgrade"} THEN tx.to ELSE chain[c].impl
        /\ chain'[c].version =
             IF tx.op = "handOver" \/ tx.at = NoInitialiser
             THEN chain[c].version ELSE chain[c].version + 1
    BY <1>2, EffectOnChain DEF IInv
  <2>2. /\ c \in Contracts
        /\ ProxyAddsUp(c)
        /\ Initialisers(c) \in 1..3
        /\ chain[c].version \in Nat /\ chain'[c].version \in Nat
        /\ tx.op \in Transactions /\ WellFormed(tx)
        /\ Governor(c) # "deployer" /\ Governor(c) # Nobody
    BY GovernorIsOther, InitialiserCount DEF Sendable, ChainAddsUp, IInv, TypeOK
  <2>3. chain[c] # Undeployed
    BY <1>2, <2>2 DEF Accepted, Undeployed, Nobody, Transactions
  <2>4. chain'[c].admin \in {"deployer", Governor(c)}
    BY <2>1, <2>2, <2>3 DEF ProxyAddsUp, WellFormed
  <2>5. <<c, "proxy">> \in recorded' =>
          /\ c \in {"Withdraw", "CoverageFund"} => Governed(c)'
          /\ c = "CoverageFund" => Initialised(c)'
    BY <2>1, <2>2 DEF ProxyAddsUp, Grows, Governed, Initialised
  <2>6. ASSUME tx.op # "upgrade"
        PROVE  /\ chain'[c].version <= Initialisers(c)
               /\ Upgraded(c)' => Upgraded(c)
    <3>1. Upgraded(c)' => Upgraded(c)
      BY <2>1, <2>2, <2>6 DEF Upgraded, WellFormed
    <3>2. CASE tx.op = "initialise"
      <4>1. chain'[c].version = 1
        BY <2>1, <2>2, <3>2 DEF Accepted, WellFormed, NoInitialiser
      <4> QED BY <2>2, <3>1, <4>1
    <3>3. CASE tx.op = "call"
      <4>1. /\ chain'[c].version = tx.at + 1
            /\ <<c, tx.at>> \in {<<"Withdraw", 0>>, <<"River", 1>>}
        BY <2>1, <2>2, <3>3 DEF Accepted, WellFormed, NoInitialiser
      <4>2. c = "River" => Initialisers(c) = 3
        BY <2>2, InitialiserCount
      <4> QED BY <2>2, <3>1, <4>1, <4>2
    <3>4. CASE tx.op = "handOver"
      BY <2>1, <2>2, <3>1, <3>4 DEF ProxyAddsUp
    <3> QED BY <1>2, <2>2, <2>6, <3>2, <3>3, <3>4 DEF Transactions
  <2>7. ASSUME tx.op = "upgrade" PROVE chain'[c].version = Initialisers(c)
    <3>1. CASE tx.at = NoInitialiser /\ Initialisers(c) = 1
      <4>1. chain'[c].version = chain[c].version /\ Governed(c) /\ Opened
        BY <2>1, <2>7, <3>1 DEF Accepted, Governed, Ready
      <4>2. chain[c].version >= 1
        BY <2>2, <4>1 DEF IInv, ChainIsSound, Initialised
      <4> QED BY <2>2, <3>1, <4>1, <4>2 DEF ProxyAddsUp
    <3>2. CASE tx.at >= 1 /\ tx.at = Initialisers(c) - 1
      <4>1. tx.at # NoInitialiser /\ tx.at + 1 = Initialisers(c)
        BY <2>2, <3>2 DEF NoInitialiser
      <4>2. chain[c].version = tx.at /\ chain'[c].version = chain[c].version + 1
        BY <2>1, <2>7, <4>1 DEF Accepted
      <4> QED BY <4>1, <4>2
    <3> QED BY <2>2, <2>7, <3>1, <3>2 DEF WellFormed
  <2>8. ProxyAddsUp(c)'
    <3>1. chain'[c].version <= Initialisers(c)
      BY <2>2, <2>6, <2>7
    <3>2. Upgraded(c)' => chain'[c].version = Initialisers(c)
      <4>1. CASE tx.op = "upgrade"
        BY <2>7, <4>1
      <4>2. CASE tx.op # "upgrade" /\ Upgraded(c)
        <5>1. chain[c].version = Initialisers(c) /\ chain[c].version <= chain'[c].version
          BY <2>2, <4>2 DEF ProxyAddsUp, FullyInitialised, Grows
        <5> QED BY <2>2, <3>1, <5>1
      <4> QED BY <2>6, <4>1, <4>2
    <3> QED BY <2>4, <2>5, <3>1, <3>2 DEF ProxyAddsUp, FullyInitialised
  <2>9. \A d \in Contracts : ProxyAddsUp(d)'
    <3>1. ASSUME NEW d \in Contracts PROVE ProxyAddsUp(d)'
      <4>1. CASE d = c
        BY <2>8, <4>1
      <4>2. CASE d # c
        BY <2>1, <4>2, ProxyIsLeft DEF ChainAddsUp
      <4> QED BY <4>1, <4>2
    <3> QED BY <3>1
  <2>10. Opened' => \A d \in Core : Governed(d)'
    <3> SUFFICES ASSUME Opened' PROVE \A d \in Core : Governed(d)
      BY ContractNames DEF Grows
    <3>1. CASE Opened
      BY <3>1 DEF ChainAddsUp
    <3>2. CASE ~Opened
      <4>1. /\ c = "River" /\ chain[c].version < 2 /\ chain'[c].version >= 2
        BY <2>1, <2>2, <3>2, ContractNames DEF Opened
      <4>2. tx.op \notin {"upgrade", "handOver"}
        BY <2>1, <2>2, <3>2, <4>1 DEF Ready
      <4>3. chain[c].version = tx.at /\ chain'[c].version = tx.at + 1
        BY <1>2, <2>1, <2>2, <4>1, <4>2 DEF Accepted, Transactions
      <4>4. tx.op = "call" /\ tx.at = 1
        BY <1>2, <2>2, <4>1, <4>2, <4>3 DEF WellFormed, Transactions
      <4> QED BY <4>1, <4>4 DEF Ready, GivesRedeemManager
    <3> QED BY <3>1, <3>2
  <2> QED BY <2>9, <2>10 DEF ChainAddsUp
<1> QED BY <1>1, <1>2

LEMMA DeployAddsUp ==
  ASSUME IInv, IInv', ChainAddsUp, Grows, Deploy
  PROVE  ChainAddsUp'
<1> DEFINE proxy == [admin |-> Step.to, impl |-> "1_2_1", version |-> Step.at]
<1>0. PICK c : c = Step.of
  OBVIOUS
<1>1. /\ Running /\ pc \in DOMAIN Steps /\ Step.op \in Deployments /\ ~Done(Step)
      /\ recorded' = recorded \cup {Name(Step)}
      /\ Step.op # "proxy" => chain' = chain
      /\ Step.op = "proxy" => chain' = [chain EXCEPT ![c] = proxy]
  BY <1>0 DEF Deploy, AtStep
<1>2. ScriptStep(Step)
  BY <1>1, StepOfScript DEF Step
<1>3. ASSUME NEW d \in Contracts, <<d, "proxy">> \in recorded', <<d, "proxy">> \notin recorded
      PROVE  Step.op = "proxy" /\ d = c
  <2>1. Name(Step) = <<d, "proxy">>
    BY <1>1, <1>3
  <2>2. Step.op = "implementation" => Step.to # "proxy"
    BY <1>2 DEF ScriptStep, WellFormed, Releases
  <2> QED BY <1>0, <2>1, <2>2 DEF Name
<1>4. CASE Step.op # "proxy"
  <2>1. \A d \in Contracts : ProxyAddsUp(d)'
    BY <1>1, <1>3, <1>4, ProxyIsLeft DEF ChainAddsUp
  <2> QED BY <1>1, <1>4, <2>1 DEF ChainAddsUp, Opened, Governed
<1>5. CASE Step.op = "proxy"
  <2>1. /\ c \in Contracts
        /\ \/ Step.to = "deployer" /\ Step.at = 0 /\ c \notin {"Withdraw", "CoverageFund"}
           \/ Step.to = Governor(c) /\ (Step.at = 1 \/ (Step.at = 0 /\ c = "Withdraw"))
    BY <1>0, <1>2, <1>5 DEF ScriptStep, WellFormed
  <2>2. /\ chain'[c] = proxy
        /\ \A d \in Contracts \ {c} : chain'[d] = chain[d]
    BY <1>1, <1>5, <2>1 DEF IInv, TypeOK
  <2>3. chain'[c].admin = Step.to /\ chain'[c].impl = "1_2_1" /\ chain'[c].version = Step.at
    BY <2>2
  <2> HIDE DEF proxy
  <2>4. ProxyAddsUp(c)'
    BY <2>1, <2>3, InitialiserCount DEF ProxyAddsUp, Governed, Initialised, Upgraded
  <2>5. ASSUME NEW d \in Contracts PROVE ProxyAddsUp(d)'
    <3>1. CASE d = c
      BY <2>4, <3>1
    <3>2. CASE d # c
      BY <1>3, <2>2, <3>2, ProxyIsLeft DEF ChainAddsUp
    <3> QED BY <3>1, <3>2
  <2>6. Opened' => Opened
    BY <2>1, <2>2, <2>3, ContractNames DEF Opened
  <2>7. Opened' => \A d \in Core : Governed(d)'
    BY <2>6, ContractNames DEF ChainAddsUp, Grows
  <2> QED BY <2>5, <2>7 DEF ChainAddsUp
<1> QED BY <1>4, <1>5

LEMMA AddsUpIsKept ==
  ASSUME IInv, IInv', ChainAddsUp, Grows, Next
  PROVE  ChainAddsUp'
<1>1. CASE Start \/ Skip \/ RunScript \/ PassOver \/ Send \/ Verify \/ EndScript \/ Crash
  <2>1. UNCHANGED world
    BY <1>1 DEF Start, Skip, RunScript, PassOver, Send, Verify, EndScript, Crash
  <2> QED BY <2>1, QuietAddsUp
<1>2. CASE Deploy
  BY <1>2, DeployAddsUp
<1>3. ASSUME NEW a \in Senders, Mine(a) \/ Revert(a) \/ Drop(a)
      PROVE  ChainAddsUp'
  <2>1. CASE Mine(a)
    <3>1. inFlight[a] # <<>> /\ inFlight' = [inFlight EXCEPT ![a] = Tail(@)]
      BY <2>1 DEF Mine
    <3>2. Dequeued(a)
      BY <3>1, TailIsDequeued DEF IInv
    <3>3. PICK tx : tx = Head(inFlight[a])
      OBVIOUS
    <3>4. Sendable(tx) /\ Ready(tx) /\ Accepted(tx) /\ Effect(tx)
      BY <2>1, <3>2, <3>3 DEF Dequeued, IInv, InFlightIsReady, Mine
    <3> QED BY <3>4, MinedAddsUp
  <2>2. CASE Revert(a) \/ Drop(a)
    BY <2>2, QuietAddsUp DEF Revert, Drop
  <2> QED BY <1>3, <2>1, <2>2
<1> QED BY <1>1, <1>2, <1>3 DEF Next, Proceed

\* What a skip function looks for is a step like those of the scripts.
LEMMA SkipIsScriptStep ==
  ASSUME NEW s \in DOMAIN Scripts
  PROVE  /\ \A step \in Scripts[s].skip : ScriptStep(step)
         /\ \A step \in StepsOf(s) : ScriptStep(step)
<1>1. Scripts[s] \in [steps : Seq(StepRecord), skip : SUBSET StepRecord]
  <2> DEFINE R == [steps : Seq(StepRecord), skip : SUBSET StepRecord]
  <2>1. Scripts \in Seq(R)
    BY ScriptsAssumption
  <2> HIDE DEF R
  <2>2. Scripts[s] \in R
    BY <2>1
  <2> QED BY <2>2 DEF R
<1>2. \A step \in Scripts[s].skip : ScriptStep(step)
  BY <1>1, ScriptsAssumption, CompletenessAssumption DEF ScriptStep
<1>3. \A step \in StepsOf(s) : ScriptStep(step)
  BY StepIsSendable DEF StepsOf, ScriptStep
<1> QED BY <1>2, <1>3

LEMMA ScriptStaysDone ==
  ASSUME TypeOK, TypeOK', Grows, NEW s \in DOMAIN Scripts, ScriptIsDone(s)
  PROVE  ScriptIsDone(s)'
<1>1. CASE \A step \in Scripts[s].skip : Done(step)
  <2>1. ASSUME NEW step \in Scripts[s].skip PROVE Done(step)'
    <3>1. ScriptStep(step) /\ Done(step) /\ Fulfilled(step)
      BY <1>1, SkipIsScriptStep DEF Fulfilled
    <3>2. Fulfilled(step)'
      BY <3>1, FulfilledIsKept
    <3>3. step.op # "verify"
      BY <3>1 DEF Done, Deployments
    <3> QED BY <3>2, <3>3 DEF Fulfilled
  <2> QED BY <2>1 DEF ScriptIsDone
<1>2. CASE \A step \in StepsOf(s) : Fulfilled(step)
  <2>1. ASSUME NEW step \in StepsOf(s) PROVE Fulfilled(step)'
    BY <1>2, SkipIsScriptStep, FulfilledIsKept
  <2> QED BY <2>1 DEF ScriptIsDone
<1> QED BY <1>1, <1>2 DEF ScriptIsDone

\* The command goes on to the next script from one that is done.
LEMMA NextScriptFromDone ==
  ASSUME IInv, Next
  PROVE  script' <= script \/ script' = 1 \/ (script' = script + 1 /\ Running /\ ScriptIsDone(script))
<1>0. script \in Nat
  BY ScriptBounds DEF IInv
<1>1. CASE Start
  BY <1>1 DEF Start, Goto
<1>2. CASE Skip
  BY <1>2 DEF Skip, Goto, ScriptIsDone
<1>3. CASE EndScript
  <2>1. Running /\ pc = Len(Steps) + 1 /\ script' = script + 1
    BY <1>3 DEF EndScript, Goto
  <2>2. ASSUME NEW step \in StepsOf(script) PROVE Fulfilled(step)
    <3>1. PICK j \in DOMAIN Steps : step = Steps[j]
      BY DEF StepsOf, Steps
    <3>2. j < pc
      BY <2>1, ScriptsAreCounted, StepIsSendable DEF Running, Steps
    <3> QED BY <2>1, <3>1, <3>2 DEF IInv, BehindIsFulfilled
  <2> QED BY <2>1, <2>2 DEF ScriptIsDone
<1>4. CASE RunScript \/ Deploy \/ PassOver \/ Send
  <2>1. script' = script
    BY <1>4 DEF RunScript, Deploy, PassOver, Send, Goto
  <2> QED BY <1>0, <2>1
<1>5. CASE Verify \/ Crash
  <2>1. script' \in {0, script}
    BY <1>5 DEF Verify, Crash, Goto
  <2> QED BY <1>0, <2>1
<1>6. ASSUME NEW a \in Senders, Mine(a) \/ Revert(a) \/ Drop(a)
      PROVE  script' <= script
  <2>1. script' \in {0, script}
    BY <1>6 DEF Mine, Revert, Drop, run, Goto
  <2> QED BY <1>0, <2>1
<1> QED BY <1>1, <1>2, <1>3, <1>4, <1>5, <1>6 DEF Next, Proceed

LEMMA PassedAreDoneIsKept ==
  ASSUME IInv, IInv', Grows, PassedAreDone, Next
  PROVE  PassedAreDone'
<1> SUFFICES ASSUME NEW s \in DOMAIN Scripts, s < script'
             PROVE  ScriptIsDone(s)'
  BY DEF PassedAreDone, ScriptIsDone, Fulfilled, Done, Name, StepsOf
<1>1. s \in Nat /\ s >= 1 /\ script \in Nat /\ script' \in Int
  <2>1. script' \in 0..Finished
    BY DEF IInv, TypeOK
  <2> QED BY <2>1, ScriptsAreCounted, ScriptBounds DEF IInv, Finished
<1>2. s < script \/ (s = script /\ ScriptIsDone(script))
  BY <1>1, NextScriptFromDone
<1>3. ScriptIsDone(s)
  BY <1>2 DEF PassedAreDone
<1> QED BY <1>3, ScriptStaysDone DEF IInv

\* Wherever runs end and whatever is mined late, a script gone past has done all it was
\* to do, and no proxy has had an initialiser too many or been upgraded one short.
THEOREM ScriptsAchieve == Spec => []LInv
<1>1. Init => LInv
  <2> SUFFICES ASSUME Init PROVE PassedAreDone /\ ChainAddsUp
    BY InitIsInvariant DEF LInv
  <2>1. \A c \in Contracts :
          /\ chain[c] = Undeployed /\ chain[c].impl = "none" /\ chain[c].version = 0
          /\ <<c, "proxy">> \notin recorded
    BY DEF Init, Undeployed
  <2>2. ASSUME NEW c \in Contracts PROVE ProxyAddsUp(c)
    <3>1. chain[c].version <= Initialisers(c)
      <4>1. chain[c].version = 0
        BY <2>1
      <4>2. Initialisers(c) \in 1..3
        BY InitialiserCount
      <4> QED BY <4>1, <4>2
    <3>2. ~Upgraded(c)
      BY <2>1 DEF Upgraded
    <3> QED BY <2>1, <3>1, <3>2 DEF ProxyAddsUp
  <2>3. ~Opened
    <3>1. chain["River"].version = 0
      BY <2>1, ContractNames
    <3> QED BY <3>1 DEF Opened
  <2>4. PassedAreDone
    BY ScriptsAreCounted DEF Init, PassedAreDone
  <2> QED BY <2>2, <2>3, <2>4 DEF ChainAddsUp
<1>2. LInv /\ [Next]_vars => LInv'
  <2>1. ASSUME LInv, Next PROVE LInv'
    <3>1. IInv' /\ Grows
      BY <2>1, NextKeeps DEF LInv
    <3> QED BY <2>1, <3>1, AddsUpIsKept, PassedAreDoneIsKept DEF LInv
  <2>2. ASSUME LInv, UNCHANGED vars PROVE LInv'
    <3>1. IInv'
      BY <2>2, StutterKeeps DEF LInv
    <3>2. UNCHANGED world /\ script' = script
      BY <2>2 DEF vars, run
    <3>3. ChainAddsUp'
      BY <2>2, <3>2, QuietAddsUp DEF LInv
    <3>4. PassedAreDone'
      BY <2>2, <3>2 DEF LInv, PassedAreDone, ScriptIsDone, Fulfilled, Done, Name, StepsOf, world
    <3> QED BY <3>1, <3>3, <3>4 DEF LInv
  <2> QED BY <2>1, <2>2
<1> QED BY <1>1, <1>2, PTL DEF Spec

LEMMA PassedHandedOut ==
  ASSUME LInv, NEW s \in DOMAIN Scripts, s < script, HandsOut(s)
  PROVE  Opened
BY DEF LInv, IInv, PassedAreOpen

\* What a script leaves is done once it is gone past.
LEMMA PassedLeft ==
  ASSUME LInv, NEW s \in DOMAIN Scripts, s < script,
         NEW op, op # "verify", NEW c, Leaves(s, op, c)
  PROVE  \E step : ScriptStep(step) /\ step.op = op /\ step.of = c /\ Done(step)
<1>1. ScriptIsDone(s)
  BY DEF LInv, PassedAreDone
<1>2. CASE \A step \in Scripts[s].skip : Done(step)
  BY <1>2, SkipIsScriptStep DEF Leaves
<1>3. CASE \A step \in StepsOf(s) : Fulfilled(step)
  BY <1>3, SkipIsScriptStep DEF Leaves, Fulfilled
<1> QED BY <1>1, <1>2, <1>3 DEF ScriptIsDone

LEMMA ScriptIsNatural ==
  ASSUME LInv
  PROVE  /\ script \in Nat /\ \A s \in DOMAIN Scripts : s \in Nat
         /\ script <= Len(Scripts) + 1 /\ Len(Scripts) \in Nat
BY ScriptBounds, ScriptsAreCounted DEF LInv, IInv

\* Once the four scripts of the deployment are gone past, skipped or run, River is
\* open, every proxy is initialised, and under its governor but for an Allowlist
\* that stays with the deployer.
THEOREM DeployedIsComplete == Spec => []DeployedIsInitialised
<1>1. LInv => DeployedIsInitialised
  <2> SUFFICES ASSUME LInv, script > 4
               PROVE  /\ Opened
                      /\ \A c \in Contracts :
                           /\ Initialised(c)
                           /\ Governed(c) \/ (c = "Allowlist" /\ chain[c].admin = "deployer")
    BY DEF DeployedIsInitialised
  <2>0. \A s \in DOMAIN Scripts : s <= 4 => s < script
    BY ScriptIsNatural
  <2>1. Opened
    <3>1. PICK s \in DOMAIN Scripts : s <= 4 /\ HandsOut(s)
      BY CompletenessAssumption
    <3> QED BY <2>0, <3>1, PassedHandedOut
  <2>2. ASSUME NEW c \in Core PROVE Initialised(c) /\ Governed(c)
    <3>1. c \in Contracts /\ c # "Withdraw"
      BY ContractNames
    <3>2. Governed(c)
      BY <2>1 DEF LInv, ChainAddsUp
    <3> QED BY <3>1, <3>2 DEF LInv, IInv, ChainIsSound
  <2>3. Initialised("Withdraw") /\ Governed("Withdraw")
    <3>1. Initialised("Withdraw")
      BY <2>1 DEF LInv, IInv, ChainIsSound
    <3>2. chain["Withdraw"] # Undeployed
      BY <3>1 DEF Initialised, Undeployed
    <3>3. <<"Withdraw", "proxy">> \in recorded
      BY <3>2, ContractNames DEF LInv, IInv, ChainIsSound
    <3> QED BY <3>1, <3>3, ContractNames DEF LInv, ChainAddsUp, ProxyAddsUp
  <2>4. Initialised("CoverageFund") /\ Governed("CoverageFund")
    <3>1. PICK s \in DOMAIN Scripts : s <= 4 /\ Leaves(s, "proxy", "CoverageFund")
      BY CompletenessAssumption
    <3>2. PICK step : step.op = "proxy" /\ step.of = "CoverageFund" /\ Done(step)
      BY <2>0, <3>1, PassedLeft
    <3>3. <<"CoverageFund", "proxy">> \in recorded
      BY <3>2 DEF Done, Name
    <3> QED BY <3>3 DEF LInv, ChainAddsUp, ProxyAddsUp, Contracts
  <2>5. /\ Initialised("Allowlist")
        /\ Governed("Allowlist") \/ chain["Allowlist"].admin = "deployer"
    <3>1. PICK s \in DOMAIN Scripts : s <= 4 /\ Leaves(s, "initialise", "Allowlist")
      BY CompletenessAssumption
    <3>2. PICK step : /\ ScriptStep(step) /\ step.op = "initialise"
                      /\ step.of = "Allowlist" /\ Done(step)
      BY <2>0, <3>1, PassedLeft
    <3>3. chain["Allowlist"].version > 0 /\ chain["Allowlist"].version \in Nat
      BY <3>2 DEF ScriptStep, WellFormed, Done, Deployments, LInv, IInv, TypeOK
    <3>4. chain["Allowlist"] # Undeployed
      BY <3>3 DEF Undeployed
    <3>5. Initialised("Allowlist")
      BY <3>3 DEF Initialised
    <3>6. chain["Allowlist"].admin \in {"deployer", Governor("Allowlist")}
      BY <3>4 DEF LInv, ChainAddsUp, ProxyAddsUp, Contracts
    <3> QED BY <3>5, <3>6 DEF Governed
  <2>6. \A c \in Contracts : c \in Core \/ c \in {"Withdraw", "Allowlist", "CoverageFund"}
    BY DEF Contracts
  <2> QED BY <2>1, <2>2, <2>3, <2>4, <2>5, <2>6
<1> QED BY <1>1, ScriptsAchieve, PTL

\* Once 07 has verified the upgrade, every proxy has its new implementation and its
\* governor, and every initialiser has run exactly once, though 07 looks at none of
\* the admins and at few of the initialisers.
THEOREM VerifiedIsAll == Spec => []VerifiedIsComplete
<1>1. LInv => VerifiedIsComplete
  <2> SUFFICES ASSUME LInv, script > 7, NEW c \in Contracts
               PROVE  Upgraded(c) /\ Governed(c) /\ FullyInitialised(c)
    BY DEF VerifiedIsComplete
  <2>1. Len(Scripts) >= 7 /\ \A s \in DOMAIN Scripts : s <= 7 => s < script
    BY ScriptIsNatural
  <2>2. PICK s \in DOMAIN Scripts : s <= 7 /\ Leaves(s, "upgrade", c)
    BY <2>1, CompletenessAssumption
  <2>3. PICK step : ScriptStep(step) /\ step.op = "upgrade" /\ step.of = c /\ Done(step)
    BY <2>1, <2>2, PassedLeft
  <2>4. Upgraded(c)
    BY <2>3 DEF ScriptStep, WellFormed, Done, Deployments, Upgraded
  <2> QED BY <2>4 DEF LInv, IInv, ChainIsSound, ChainAddsUp, ProxyAddsUp
<1> QED BY <1>1, ScriptsAchieve, PTL

=============================================================================
