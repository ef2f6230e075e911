# Liquid Collective protocol: a TLA+ verification project

Liquid Collective is a liquid staking protocol on Ethereum.  Users deposit ETH
in **River** and receive LsETH shares; River deposits batches of ETH to the
consensus layer with the keys that node operators put in the **operators
registry**; a committee of **oracle** members reports the consensus layer's
balances; users redeem LsETH through the **redeem manager**.  The contracts are
in `contracts/src` and the scripts that deploy and upgrade them in `deploy`; this
directory models the contracts' core and those scripts, checks them with TLC and
proves parts of them with TLAPS.

## Inventory

| Part | State | Operations | Hard behaviour | What makes it correct |
| --- | --- | --- | --- | --- |
| `RedeemManager.1.sol` | redeem queue, withdrawal stack, redeem demand, exceeding-ETH buffer, ETH | requestRedeem, claimRedeemRequests, reportWithdraw, pullExceedingEth, resolveRedeemRequests | a claim recurses over the stack on a memory copy and calls recipients in the middle of its loop; every division rounds | queue and stack tile one axis; solvency; nobody is paid above a request's ceiling; searches end with the right answer |
| `Oracle.1.sol` | members by seat, quorum, ballot of one epoch (bit mask and variants), last epoch | addMember, removeMember, setMember, setQuorum, reportConsensusLayerData | seats move while votes are bits by seat; the last vote pushes to River in the same transaction and is undone if River refuses | only what a quorum agreed on reaches River; no quorum waits |
| `OperatorsRegistry.1.sol` | per operator: keys, limit, funded, requested exits, stopped count, last edit; totals, exit demand | addOperator, setOperatorStatus, addValidators, removeValidators, setOperatorLimits, pickNextValidatorsToDeposit, requestValidatorExits, demandValidatorExits, reportStoppedValidatorCounts | limits are set for a past snapshot; keys move on removal; exits happen asked for or not | unaudited keys are never funded; the counters stay ordered and add up |
| `River.1.sol` and its components (deposits, shares, CL deposits, oracle manager) | three ETH balances, LsETH supply and balances, last report, fee, bounds, limits | deposit, transfer, requestRedeem, depositToConsensusLayerWithDepositRoot, setConsensusLayerData, setters | a report is one long pipeline over six contracts in which the order of the steps decides who gets what | ETH is booked once; bounds hold whatever funds bring; the rate never falls but for losses; demand is covered, not over-covered |
| `Withdraw`, `ELFeeRecipient`, `CoverageFund` | their ETH | pulls by River, donations | pulled in one report up to a common margin | part of River's accounting |
| `WLSETH.1.sol` | wrapped shares, own count of LsETH, allowances in ETH | mint, burn, transfer, transferFrom, approve | amounts in ETH, books in shares, at a moving rate | shares backed; no underflow; spenders pay |
| `TLC`, `ERC20VestableVotes` | vesting schedules, escrows | create, revoke, release, migrate | four schedules (vesting, lock, global unlock, revocation) subtract from each other with rounding | escrows hold what is owed; nothing stuck |
| `Allowlist.1.sol` | permissions by account, allower, denier, administrator | setAllowPermissions, setDenyPermissions, setAllower, setDenier, proposeAdmin, acceptAdmin | two roles write one word, in any order, and change hands | a denied account has no right, and none comes back on its own |
| `Administrable`, `Firewall` | admin, pending admin, executor, what it may call | two-step administration, filtered forwarding | the firewall has the administration functions of the contract behind it | what its administrator can reach |
| `Initializable`, `TUPProxy` | version, proxy admin, implementation, pause | initialise, upgrade, hand over, pause | spread over scripts that may end anywhere | initialised once, before it is handed over |
| `deploy/hoodi`, `deploy/devHoodi` | recorded deployments, and the chain | deploy, initialise, hand over, call, upgrade, verify | a run ends anywhere; a transaction is mined late or never; a read fails and is caught; the rerun decides from what it reads | rerunning gets to a complete deployment; what is in flight does no harm |
| `deploy/mainnet` | recorded deployments, the deployer's transaction count | deploy to a computed address, compare, throw, skip | a rerun or another transaction of the deployer moves the count | contracts refer to the recorded ones |
| migrations, storage libraries, metrics, L2 token, other scripts | | | | see `PROJECT.json` |

### How the parts interact

All calls are synchronous contract calls and a failure anywhere reverts the
whole transaction.  River is the hub:

- oracle members vote in `Oracle`; the vote that reaches the quorum calls
  `River.setConsensusLayerData`;
- that pulls ETH from `Withdraw`, `ELFeeRecipient`, the redeem manager's
  exceeding-ETH buffer and `CoverageFund`, mints fees, gives the registry the
  stopped counts and an exit demand, hands ETH to the redeem manager, which adds
  a withdrawal event, and commits ETH for deposits;
- the keeper spends committed ETH on keys the registry picks;
- holders place redeem requests through River and claim them from the redeem
  manager, which pays them with a call into the recipient's code: the one place
  where foreign code runs inside a transaction;
- `WLSETH` and `CoverageFund` ask River's allowlist;
- the administrator of most contracts is a firewall, which passes on calls of its
  own administrator and some of its executor; proxies have an administrator of
  their own, who upgrades and pauses them.

The scripts are processes outside the chain.  They meet it in transactions, which
stay in flight when a process ends, and in reads; they meet each other and their
own earlier runs through `deployments/<network>`, where hardhat-deploy records
what it deployed.

## Modules

| Module | Models | EXTENDS / INSTANCE |
| --- | --- | --- |
| `RedeemManager` | the redeem manager, a claim at the granularity of its loop items, recursion levels and payments, with recipients that call back | |
| `RedeemQueue` | what a redeem manager promises: the axis, where a request may stand, and what it is due there | the refinement `ImplementsRedeemQueue` in `RedeemManager` |
| `WithdrawalResolution` | `resolveRedeemRequests`' dichotomic search, one iteration a step | |
| `Segments` | when a request matches an event, for the two modules before | |
| `RedeemManagerProofs` | theorems about the manager, the refinement among them, and about the search | extends both |
| `Oracle` | the committee, the ballot and the push to River | |
| `OracleQuorum` | what an oracle promises: River moves to what a quorum of seats voted for | the refinement `ImplementsOracleQuorum` in `Oracle` |
| `OracleProofs` | theorems, the refinement among them | |
| `OperatorsRegistry` | operators, keys, limits, exits | |
| `OperatorsRegistryProofs` | theorems | |
| `River` | River with the contracts around it reduced to their balances and counts | |
| `RiverProofs` | theorems, on invariants and on steps | |
| `Sums` | lemmas about `SumFunctionOnSet`, for the proofs of the contracts that keep totals | used by the proofs of `RedeemManager`, `OperatorsRegistry`, `River` and `WLSETH` |
| `WLSETH` | the wrapper, over a River reduced to a rate and balances | |
| `Allowlist` | permissions, the three roles, the firewall that may hold any of them, and the pausable proxy | |
| `Vesting` | vesting schedules of TLC | |
| `TokenProofs` | theorems about the three modules before | extends all three, whose names are kept apart for it |
| `ProxyDeployment` | what running, losing and rerunning the scripts of hoodi and devHoodi does to the proxies | |
| `DeployScripts` | those scripts, step by step, as constants | |
| `ProxyLifecycle` | what the deployment promises of a proxy, without scripts and failures | the refinement `LifecycleSpec` in `ProxyDeployment` |
| `ProxyDeploymentProofs` | theorems, for any scripts in the right order, and for any that are complete too | |
| `NonceDeployment` | deployment to addresses computed from the transaction count, with reruns, and what it takes of the scripts | |
| `MainnetScripts` | the seventeen scripts of mainnet, as constants | |
| `NonceDeploymentProofs` | theorems, for any scripts wired and counted as those are | |
| `MC*` | constants for TLC | each extends the module it names, `MCProxyDeployment` and `MCNonceDeployment` the scripts too |

State and actions keep the source's names.  In each module a state variable is
a storage slot (or a record of them), an action an external call.  A call that
reverts changes nothing and is not a step; `RedeemManager`, where foreign code
runs before a later revert, keeps `txStart` and models reverts explicitly.
Definitions commented as a *variant* of another are not part of the
specification: each is a plausible mistake in the code, and the property it is
paired with in `PROJECT.json` fails when it takes the other's place.

Some things deserve a word:

- **`River`** threads one record, `books`, through the report pipeline; each
  function of the pipeline is an operator from books to books, and
  `SetConsensusLayerData` composes them in the code's order.  The registry's
  per-operator counts are taken together there; to keep that sound, the number of
  unsolicited exits of a report is an input that any split between operators may
  produce.
  What may happen around it is bounded by a `world`, chosen once from `Worlds`, so
  that one run need not combine every fund with every exit.
- **`RedeemManager`** has a program counter because a claim is the one call that
  is not atomic towards its environment.  `callback` says which calls a recipient
  may make while the claim waits for it.
- **`Vesting`** starts right after the upgrade that migrates the schedules of the
  first version, as the upgrade does it in the same transaction.
- **`Oracle`** has a word of `WordBits` bits for the ballot.  A seat beyond it
  shifts out of the mask, and the empty mask reads as a bit that is set; the code
  has 256, the instance as many as its committee has seats, so that the last bit
  is used.
- **`Allowlist`** starts after the initialisers.  The administrator, the allower
  and the denier are any account or the firewall, so that both the deployed
  arrangement (all three the firewall) and others are covered.
- **`ProxyDeployment`** takes a script for a list of steps and a skip condition.
  A step is found done, and passed over, or sends a transaction and waits for
  it; a transaction is one that the proxy accepts or reverts when it is mined,
  which is when its guard is looked at.  hardhat-deploy finds its own pending
  deployments again, so a deployment and its record are one step.  The scripts of
  devHoodi, 01 to 04, are those of hoodi but for the networks they accept and the
  epochs of a frame, so they are one definition.  The deployer and the proxy
  administrator are two accounts; `deployments.get` of what an earlier script
  deployed succeeds, since the scripts run in order.
- **`NonceDeployment`** identifies an address with the transaction it was deployed
  by.  On mainnet 04 and 05 are skipped; 05 looks for the 0.4.0 implementations
  and deploys 0.4.4, which only other networks would notice.

## Runs

| Run | Shows | Bounds, and why they are enough |
| --- | --- | --- |
| `redeem_manager` | axis, solvency, ceilings, refinement of `RedeemQueue`, every claim ends | two requests, three events, batches of two, recursion of none and of three levels: a request over three events, two requests in one event, resumed and nested claims; a rate that gains and one that halves; ETH that satisfies a request in part or in full |
| `remainder_matches_next_event` | finding 1 | one request, three events |
| `withdrawal_resolution` | every probe inside the range, the search ends, right answer | every contiguous stack of up to four events of zero to two LsETH, four iterations deep |
| `oracle` | ballot, quorum, nobody refused an uncast vote, refinement of `OracleQuorum` | five candidates for up to four seats, so that seats move and change hands; a word of four bits; two reports an epoch, frames of one and two epochs |
| `registry` | audited keys only; counters | one operator, three keys, four blocks: an edit before, in and after a snapshot; or (`KeysOrExits`) two operators, so that totals and parts differ, with exits of one or three, up to every key, while one operator has fewer keys than the other may and one is active |
| `river` | accounting, bounds, rate; demand, exits, commitments, containment | three worlds.  `Funds`, up to the second report: every fund filled or not, two bounds, a fee of zero or half.  `RewardsOnly`, three reports: rewards of the validators, of the fee recipient and of exceeding ETH report after report.  `Exits`, three reports: up to two validators at every stage of an exit, two daily limits.  `DepositSize` of two and amounts of one to three, so that every division has a remainder somewhere |
| `wlseth` | backing, rounding, allowances | two accounts, rates below, at and above one that do not divide |
| `vesting` | escrows, late release | two schedules that start at once or later, with and without cliff, lock beyond the end, amounts that do not divide; time past every end and unlock |
| `migrated_revocation` | finding 2 | one revoked schedule |
| `allowlist` | a denial lasts and leaves no right | two accounts and a firewall for four roles, two users, lists of one and two, one right beside the denial |
| `dev_hoodi` | a deployment that passed is initialised; a verified upgrade is complete; rerunning passes; refinement of `ProxyLifecycle` | all seven scripts, the first four being hoodi's; three crashes and two failed reads, two senders: a crash in each of two recoveries, each with its transaction in flight |
| `mainnet` | references between contracts, distances, rerunning passes | all seventeen scripts; one crash, one transaction beside the scripts, five runs: enough for a throw, a rerun that reuses a part, and a skip |

Amounts are a few units instead of wei: what can go wrong is a rounding, a
comparison or an order, and these show at small amounts more than at large ones.
Constants such as `DepositSize`, `BasisPoints`, `OneYear` or `UnlockParts` are
parameters, so that instances are small.  Overflow of 256-bit words is not
modelled: checked arithmetic reverts there and amounts of ETH are far below.
The two places with narrower words (epochs, counts of validators) hold values
that never come near them.

`CHECK_DEADLOCK FALSE` stands where the bounds stop the system (time, queue and
stack lengths, runs of the mainnet scripts), or a computation ends.

**Fairness.**  Nothing outside a transaction is fair: no user, keeper or oracle
has to act.  Inside one, the machine runs on until the call returns or reverts:
`redeem_manager` assumes weak fairness of the steps of a claim, the recipient's
return among them (a recipient that never returns runs out of gas, which is a
revert), and `withdrawal_resolution` weak fairness of the loop.

Of the scripts: a process that has not ended makes its steps; the network mines
what it was sent or drops it; the operator runs the command again until it goes
through, which is what a deployment is.
Ends of a process, dropped transactions and failed reads are never fair, and
bounded in number: an operator whose every run is lost gets nowhere.
`EventuallyVerified` and `EventuallyPassed` each name the one state from which no
rerun goes through: the Allowlist left with the deployer (below), and
mainnet's script 10 when the redeem manager is recorded at another address than
the one computed and its implementations are not.

## Theorems

Checked by TLAPS for every value of the constants that their assumptions allow.

- `RedeemManagerProofs`: `TypeCorrect`, `AxisStaysConsistent`, `NobodyIsOverpaid`,
  all from `Inductive == Spec => []IInv`, and `StaysSolvent`.  `AxisIsConsistent` and
  `PaidWithinCeiling` are not inductive: in the middle of a claim the request in
  memory and the one in storage differ, a revert brings back an older storage,
  and matching needs the stack to be ordered.  `IInv` therefore says of both the
  storage and `txStart` that they are `Sound` (contiguous, ordered, the demand the
  gap between queue and stack, claims within the covered part), and of the memory
  (`InFlight`) that it is the stored request advanced within the current event.
  There is one lemma per action, over lemmas of what each operation does to the
  storage.
- `ClaimsComeToAnEnd` is what `ClaimEnds` rests on beside fairness: a count fixed by
  the arguments, `StepsLeft`, falls with every step of a claim and with none of those
  a recipient makes, so that a claim of n entries at depth d makes at most
  n * (d + 4) steps.
- `StaysSolvent` is `EthIsHeld`: `Solvent`, the same of `txStart` (a revert goes
  back to it), and, while a request is matched in memory, that what its levels
  have added up and what the rest of it is owed stand for what the stored request
  is owed (`ClaimIsBacked`).  The argument is about one event: requests are
  disjoint, so their parts of it sum to no more than its amount, and shares
  rounded down to no more than the ETH it came with (`EventPaysItsValue`).  A
  report therefore brings at least what it adds to what is owed; a level of the
  recursion moves exactly its event's share from what the request is owed into
  the payment, or less when the ceiling cuts it, and the rest goes to the buffer.
- `QueueIsKept`, in the same module, is that `RedeemManager` implements
  `RedeemQueue`: `Spec => ImplementsRedeemQueue`.  What a request is due there is
  computed from its place and the whole stack, event after event; the manager
  accumulates it level by level, over claims that may be years apart.  The
  invariant `DuesArePaid` says of the storage, and of the one a revert goes back
  to, that every request stands at its place, at the end of an event or at its own
  end, and has been paid its due there; and of the request in memory that it
  stands where its place or the current event starts.  So a level exchanges its
  part of one event, which the table has not crossed before, and of no other
  (`LeftAfterLevel`); and an event pushed later is crossed by nobody
  (`LeftWithEvent`).  `After` is a recursive function over the events: that it
  exists is shown by the least length for which it would not (`WalkExists`), and
  two of them agree as far as they cross the same parts (`WalksAgree`).
- About the search, in the same module: `AnswerCorrect`, `ProbeStaysInside`, `SearchHalves`.  The inductive invariant adds `Bracketed` to the answer's
  correctness: the request lies after the event at the lower end of the range and
  before the one at the upper end.  With it, an empty interior contradicts a
  contiguous stack (`RangeHasInterior`), so the middle is strictly inside, for a
  stack of any length.  That it ends then follows from the range's halving;
  as liveness, it stays with TLC.  `StackCanBeSearched` closes the gap to the
  manager: the stack the search takes for contiguous always is, also in the middle
  of a claim and after a revert.
- `OracleProofs`: `TypeCorrect`, `VotesAreCounted`, `NothingWaits`,
  `NobodyIsRefused`, and `QuorumIsKept`, that `Oracle` implements
  `OracleQuorum`.  The invariant adds to the checked ones that an address has one
  seat, that the quorum fits the committee, and that the list of variants `Tells`
  the votes of the ballot: each listed once, with the number of seats that voted
  for it.  Under it a vote counted by its place in the list is the abstract vote
  of a seat.  `NobodyIsRefused` assumes `MaxMembers <= WordBits`, since a seat
  beyond the word is refused a vote (below); nothing else needs it.
- `OperatorsRegistryProofs`: `TypeCorrect`, `FundableIsAudited`,
  `CountsStayOrdered`, `ExitsStayAccounted`, for any operators, keys and audits.
  The invariant adds that the slots below an operator's count hold keys, and that
  what the last audit read is what the operator has, unless the block of the
  operator's last edit says otherwise (`SnapshotIsSound`); that is what makes a
  limit raised after an edit harmless.  The totals are sums over operators.  The
  loop of `removeValidators` is a recursive function.  That what it leaves are keys
  that were there, the ones below the lowest removed in their places, is proved
  over the number of its turns.
- `RiverProofs`: `TypeCorrect` and a theorem for every property of the run
  `river`.  The invariant is that the books are `Sound` (ETH is the sum of the
  three balances, the supply the sum of the holders' shares, the demand within the
  redeem manager's shares, commitments whole deposits, stopped within requested
  and all exits within deposited validators), that the last report shows no
  validator that was not deposited, and `NoAssetsWithoutShares`.  A report is one
  step made of a dozen functions, of which some break and some restore parts of
  this; there is a lemma for each, on what it changes and keeps, and `Reported`
  composes them in the code's order.  The properties of a step then need only the
  summary: for `RateHolds` the arithmetic of a fee minted on rewards, of shares
  burnt at the rate they are redeemed for and of a deposit rounded down; for
  `RedeemDemandIsCovered` and `NoExcessExits` that of `Ceil`.
- `Sums`: that the fold behind `SumFunctionOnSet` is well defined on finite sets,
  what it does when an element is added, changes or is scaled, and
  `SumOfShares`, that rounded shares of a whole sum to no more than it.  A fold
  cannot be unfolded by induction here; the lemmas take a smallest subset for
  which the claim fails (`SmallestSubset`) and refute it.
- `ProxyDeploymentProofs`: `LifecycleRefined`, that `ProxyDeployment` implements
  `ProxyLifecycle`, for any scripts that satisfy `ScriptsAssumption` and
  `OrderAssumption`.  The refinement has to show that a transaction mined long after it was sent does nothing the life of a proxy
  forbids.  So the invariant says of every transaction in flight that it was
  `Ready` when it was sent, that what it was ready for only `Grows`, and that
  the steps before a run's current one are done or were; a step of the chain then
  meets the guard of the abstract action, or the proxy refuses it.
  `DeployedIsComplete` and `VerifiedIsAll`, in the same module, are the other half:
  not what scripts never do but what they have done.  They add
  `CompletenessAssumption`, on what a script hands out and what its skip function
  leaves undone.  The invariant `LInv` says that a script gone past was gone through
  or found done, which nothing takes back, and that the chain adds up: the version
  of a proxy is the number of initialisers it ran, an upgraded one ran all.  The
  second theorem needs no more than that script 06 was gone past; the checks of 07
  can only repeat it.  TLC evaluates the assumption on the scripts of the
  repository.
- `NonceDeploymentProofs`: `WiringStays` and `DistancesHold`, the two safety
  properties of mainnet, for any scripts of which `WiringAssumption` and
  `DistanceAssumption` hold (TLC evaluates both on the seventeen of the repository),
  any number of runs, lost runs and transactions beside the scripts.  The first
  assumption says how scripts may wire contracts: what may be deployed at another
  address by a rerun, a plain contract that was given a computed address, is known
  to nothing but its own script, and there to a proxy that is compared.
  `RanIsWired` needs all of it.  The invariant says of the steps a run is past that
  what it deployed, and every plain contract, was given the addresses computed and
  recorded now (`BehindAreWired`), that a record found was made before the run
  counted (`AheadAreOld`), and of what was given only addresses that stay
  (`SettledAreWired`) that it is wired whoever deployed it.  A proxy an earlier,
  lost run gave a computed address to is in neither set: only the comparison shows
  it, since an address from before the count is never a computed one.
  That later runs do not disturb what is wired is `RedeployedIsLoose`, with
  `RunsOnce`: a script that computed addresses and went through is skipped for good.
  `DistancesHold` counts deployments (`DistanceInv`): as long as no run was lost, a
  script meets none of its contracts recorded, so the transaction count is its
  first one and the deployments since.
- `TokenProofs`, about the wrapper: `WrappedIsBacked` and `SpendersPay`, for any
  holders, rates and amounts.  `SharesAreBacked` is inductive; what makes it so is
  that an account with the funds for an amount, counted in ETH and rounded down, has
  the shares the amount stands for, rounded down again (`WorthBuysNoMore`); the
  allowance is the same argument the other way (`BoughtIsWorthNoMore`), and holds of
  every `transferFrom` of an allowance that is spent at all.
- `TokenProofs`, about the Allowlist: `AllowlistIsSound` and `DenialLasts`.  The
  inductive invariant is the type and that a denied account has nothing beside the
  denial; it holds whoever has which role, which is the point, and assumes nothing
  of the constants.
- `TokenProofs`, about vesting: `SchedulesAreSound`, `VestedStays`,
  `EscrowsHoldWhatIsOwed` and `NothingStaysStuck`.  What vests of a schedule grows
  with time and stays within its amount (`VestedGrows`), through two roundings, by
  periods and by wei.  So a revocation returns no less than nothing, a later end
  vests no less, and the escrow always differs from what will have vested by what
  was released.  That the escrow can be emptied is `PartsMakeTheWhole`: a month more
  than the global unlock schedule takes makes up for the rounding of its parts,
  from an amount of `UnlockParts * (UnlockParts - 1)` on.  The last two theorems
  assume `NothingRevoked` of the schedules the upgrade finds, as without it they are
  false (below); the instance `FreshOrUnreleased` of `MCVesting` satisfies it.

All assume only the named assumptions of the modules, which every run evaluates,
and `NobodyIsRefused` and the two of vesting what is named above.

Every safety property and every action property of the runs is stated by a theorem.
Model-checked and not proved: liveness and whatever rests on fairness (`ClaimEnds`,
`ResolutionEnds`, `EventuallyDeployed`, `EventuallyVerified`, `EventuallyPassed`),
which is out of the prover's reach; and what the two runs that expect a violation
show, since a counterexample is its own proof.

## Findings

1. `remainder_matches_next_event`: a comment in `RedeemManager.1.sol` says that
   what is left of a request is matched by the next event.  River may report an
   event of no LsETH, when the ETH it has is worth less than one wei of LsETH; a
   claim that descends into it divides by zero and reverts, while one with a
   smaller depth goes through.
2. `migrated_revocation`: the migration of vesting schedules takes what is missing
   from an escrow as released.  For a schedule revoked before the migration, that
   counts what went back to the creator as well, and as many vested tokens can
   never be released.  No schedule the migration test lists had been revoked.

Two more are named by the properties that hold around them:

- The skip function of `hoodi/02`, whose header calls its steps idempotent, asks
  whether the Allowlist is initialised.  A run that ends between the
  initialisation and the hand-over leaves the deployer administrator of the proxy
  for good, and the upgrade of devHoodi cannot go through:
  `DeployedIsInitialised` and `EventuallyVerified` make the exception.
- mainnet's script 10 can stay where it is for good: `EventuallyPassed` makes the
  exception.

And some were met while reading, with no property about them:

- The skip function of `hoodi/03` asks what the last call but one establishes; when
  the last one, the registry's migration of its funded key events, fails, no rerun
  makes up for it.
- `mainnet/02`, 03 and 07 throw when a contract is not at the address another was
  given, but the next run finds it recorded and passes over the script;
  `RanIsWired` is about scripts that ran to their end for this reason.
- A seat beyond the word of the ballot reads as having reported, so that member 257
  of the oracle could never vote; nothing stops at 256.  `RefusedHaveReported`
  holds for a committee that fits the word.
- `Firewall` has `proposeAdmin` and `acceptAdmin` itself, so a contract it
  administers can never be given another administrator.
- `gen_root_artifacts` starts hardhat-deploy's export without awaiting it and sleeps
  five seconds; an export that takes longer overwrites the finished file.

## Plan

Done: the redeem manager with its abstract specification, the search, the oracle
with its abstract specification, the registry, River's pipeline, the wrapper,
vesting, the allowlist with its firewall, the deployments with their abstract
specification, and proofs of every safety property.
Next, in this order:

1. A composition of `River`, `RedeemManager` and `OperatorsRegistry`: the demand
   River reads is the queue's, the exits the registry's, with operators apart.
2. Proofs: of the composition, that the demand and the exits River reads stay those
   of the others.
3. `Vesting`: the table of `TlcMigration` as an action; delegation of escrows.
4. The artifact scripts beside the export.

## Not modelled

- Storage accessors and byte utilities: one slot each, atomic.
- The libraries that are not in the repository (proxies, tokens, roles, and with
  them the L2 token); `Accepted` and `Effect` in `ProxyDeployment` say what is
  used of the proxies.
- One-off storage migrations inside upgrades, but for the two (vesting, event
  migration) that runs are about.
- `ProtocolMetrics`, which keeps no state; interfaces, mocks and tests.
- The artifact scripts, whose files no other part of the system reads.
- The scripts for Linea and Sepolia, one deployment each; verification on
  explorers and other tools that change neither chain nor records; the upgrades
  of mainnet, which its administrators send by other means.
- Arguments of initialisers, texts, events and logging.
