-------------------------------- MODULE River --------------------------------
(***************************************************************************)
(* River (River.1.sol and its components): the deposits, the shares, the   *)
(* ETH River holds and the pipeline an oracle report goes through.  The    *)
(* contracts around it are here by what River calls of them: the funds     *)
(* reports pull from, the redeem manager's demand and the exits of the     *)
(* operators registry.  RedeemManager, OperatorsRegistry and Oracle model  *)
(* their insides.                                                          *)
(*                                                                         *)
(* Every call is atomic; a call that reverts changes nothing and is not a  *)
(* step.  The skimmed and exited balances of a report are cumulative in    *)
(* the code; here they are the increases since the last report, all that   *)
(* the code uses of them once it has refused a decrease.                   *)
(*                                                                         *)
(* Left out: the allowlist, which only narrows who may act (any user may   *)
(* here); allowances; which epochs are final (Oracle); reports are taken   *)
(* from the oracle alone; the migrations, the committed balance starting   *)
(* in whole deposits as initRiverV1_2 leaves it.                           *)
(***************************************************************************)
EXTENDS Integers, FiniteSetsExt

CONSTANTS
  User, Collector, RedeemManager,  \* holders of LsETH
  DepositSize,                     \* DEPOSIT_SIZE
  BasisPoints,                     \* BASIS_POINTS_MAX
  EpochTime, OneDay, OneYear,      \* seconds
  Deposits, Redeems,               \* amounts users deposit and redeem
  Epochs,                          \* epochs between two reports
  Worlds                           \* what may happen around River, see World

Holder == User \cup {Collector, RedeemManager}

\* A world bounds what one behaviour meets: the settings the administrator may
\* choose, the amounts that holders transfer and that reach the funds, and the
\* amounts a report may hold, so that an instance needs not combine them all.
World ==
  [fees : SUBSET (0..BasisPoints),
   bounds : SUBSET [annualAprUpperBound : Nat, relativeLowerBound : Nat],
   dailyLimits : SUBSET [minDailyNet : Nat, maxDailyRelative : Nat],
   transfers : SUBSET Nat,                   \* of LsETH
   sweeps : SUBSET Nat, elFees : SUBSET Nat, \* of ETH, to the funds
   donations : SUBSET Nat,
   excesses : SUBSET Nat,                    \* left by claims in the redeem manager
   balances : SUBSET Nat, exiting : SUBSET Nat, \* of validators, in a report
   skims : SUBSET Nat, exits : SUBSET Nat,   \* skimmed and exited, in a report
   maxEth : Nat,                             \* bound on the ETH after a deposit
   maxFund : Nat,                            \* bound on the ETH in each fund
   maxEpoch : Nat]                           \* bound on the epoch

ASSUME RiverAssumption ==
  /\ IsFiniteSet(User)
  /\ Collector \notin User
  /\ RedeemManager \notin User \cup {Collector}
  /\ DepositSize \in Nat \ {0}
  /\ BasisPoints \in Nat \ {0}
  /\ EpochTime \in Nat
  /\ OneDay \in Nat \ {0}
  /\ OneYear \in Nat \ {0}
  /\ Deposits \cup Redeems \cup Epochs \subseteq Nat \ {0}
  /\ \A w \in Worlds : w \in World

VARIABLES
  books,       \* the accounts a report goes through, River's and its neighbours'
  lastReport,  \* LastConsensusLayerReport
  globalFee,   \* GlobalFee
  bounds,      \* ReportBounds
  dailyLimits, \* DailyCommittableLimits
  world        \* the world of this behaviour

settings == <<globalFee, bounds, dailyLimits, world>>

vars == <<books, lastReport, globalFee, bounds, dailyLimits, world>>

Books ==
  [balanceToDeposit : Nat, committedBalance : Nat, balanceToRedeem : Nat,
   eth : Nat,                      \* the ETH River really has
   depositedValidatorCount : Nat,
   totalSupply : Nat, balanceOf : [Holder -> Nat],
   withdraw : Nat, elFees : Nat, coverage : Nat,         \* the funds
   redeemDemand : Nat, redeemEth : Nat, exceedingEth : Nat,  \* RedeemManager
   exitsRequested : Nat, exitsDemand : Nat, stopped : Nat]   \* OperatorsRegistry

Report ==
  [epoch : Nat, validatorsBalance : Nat, validatorsExitingBalance : Nat,
   validatorsCount : Nat, slashingContainmentMode : BOOLEAN]

TypeOK ==
  /\ books \in Books
  /\ lastReport \in Report
  /\ globalFee \in world.fees
  /\ bounds \in world.bounds
  /\ dailyLimits \in world.dailyLimits

Least(a, b) == IF a < b THEN a ELSE b

Greatest(a, b) == IF a < b THEN b ELSE a

\* Variant of Ceil: rounds down.
Floor(a, b) == a \div b

Ceil(a, b) == (a + b - 1) \div b

-----------------------------------------------------------------------------
(* Shares and the balance they stand for                                   *)

\* Variant of AssetBalance: deposits no report has seen yet do not count.
AssetBalanceSeen(b, report) ==
  report.validatorsBalance + b.balanceToDeposit + b.committedBalance + b.balanceToRedeem

\* _assetBalance: validators deposited and not yet seen by a report count for
\* what was deposited.
AssetBalance(b, report) ==
  report.validatorsBalance + b.balanceToDeposit + b.committedBalance
    + b.balanceToRedeem
    + Greatest(b.depositedValidatorCount - report.validatorsCount, 0) * DepositSize

BalanceFromShares(b, report, shares) ==
  IF b.totalSupply = 0 THEN 0
  ELSE (shares * AssetBalance(b, report)) \div b.totalSupply

\* Variant of SharesFromBalance: rounds up.
SharesFromBalanceUp(b, report, balance) ==
  IF AssetBalance(b, report) = 0 THEN 0
  ELSE Ceil(balance * b.totalSupply, AssetBalance(b, report))

SharesFromBalance(b, report, balance) ==
  IF AssetBalance(b, report) = 0 THEN 0
  ELSE (balance * b.totalSupply) \div AssetBalance(b, report)

MintRawShares(b, owner, value) ==
  [b EXCEPT !.totalSupply = @ + value, !.balanceOf[owner] = @ + value]

BurnRawShares(b, owner, value) ==
  [b EXCEPT !.totalSupply = @ - value, !.balanceOf[owner] = @ - value]

Moved(b, from, to, value) ==
  [b EXCEPT !.balanceOf = [h \in Holder |->
     @[h] - (IF h = from THEN value ELSE 0) + (IF h = to THEN value ELSE 0)]]

\* _mintShares: the new ETH is already part of the books.
SharesToMint(b, value) ==
  LET oldTotalAssetBalance == AssetBalance(b, lastReport) - value
  IN  IF oldTotalAssetBalance = 0 \/ b.totalSupply = 0 THEN value
      ELSE (value * b.totalSupply) \div oldTotalAssetBalance

-----------------------------------------------------------------------------
(* The holders                                                             *)

Deposit(depositor, recipient, value) ==
  LET b == [books EXCEPT !.balanceToDeposit = @ + value, !.eth = @ + value]
      minted == SharesToMint(b, value)
  IN
  /\ ~lastReport.slashingContainmentMode
  /\ AssetBalance(b, lastReport) <= world.maxEth
  /\ books' = Moved(MintRawShares(b, depositor, minted), depositor, recipient, minted)
  /\ UNCHANGED <<lastReport, settings>>

Transfer(from, to, value) ==
  /\ value \in 1..books.balanceOf[from]
  /\ books' = Moved(books, from, to, value)
  /\ UNCHANGED <<lastReport, settings>>

\* The shares go to River and from there to the redeem manager.
RequestRedeem(from, value) ==
  /\ ~lastReport.slashingContainmentMode
  /\ value \in 1..books.balanceOf[from]
  /\ books' = [Moved(books, from, RedeemManager, value) EXCEPT !.redeemDemand = @ + value]
  /\ UNCHANGED <<lastReport, settings>>

-----------------------------------------------------------------------------
(* The keeper, the administrator and the contracts around                  *)

\* depositToConsensusLayerWithDepositRoot; which operators receive the deposits
\* is the registry's matter.
DepositToConsensusLayer(count) ==
  /\ ~lastReport.slashingContainmentMode
  /\ count \in 1..(books.committedBalance \div DepositSize)
  /\ books' = [books EXCEPT !.committedBalance = @ - DepositSize * count,
                            !.eth = @ - DepositSize * count,
                            !.depositedValidatorCount = @ + count]
  /\ UNCHANGED <<lastReport, settings>>

RequestValidatorExits(count) ==
  /\ count \in 1..books.exitsDemand
  /\ books' = [books EXCEPT !.exitsRequested = @ + count, !.exitsDemand = @ - count]
  /\ UNCHANGED <<lastReport, settings>>

SetGlobalFee(fee) ==
  /\ fee # globalFee
  /\ globalFee' = fee
  /\ UNCHANGED <<books, lastReport, bounds, dailyLimits, world>>

SetReportBounds(new) ==
  /\ new # bounds
  /\ bounds' = new
  /\ UNCHANGED <<books, lastReport, globalFee, dailyLimits, world>>

SetDailyCommittableLimits(new) ==
  /\ new # dailyLimits
  /\ dailyLimits' = new
  /\ UNCHANGED <<books, lastReport, globalFee, bounds, world>>

\* Validators are swept to the Withdraw contract, fees reach the execution layer
\* fee recipient, donors fill the coverage fund.
Swept(value) ==
  /\ books.withdraw + value <= world.maxFund
  /\ books' = [books EXCEPT !.withdraw = @ + value]
  /\ UNCHANGED <<lastReport, settings>>

FeesArrive(value) ==
  /\ books.elFees + value <= world.maxFund
  /\ books' = [books EXCEPT !.elFees = @ + value]
  /\ UNCHANGED <<lastReport, settings>>

Donate(value) ==
  /\ books.coverage + value <= world.maxFund
  /\ books' = [books EXCEPT !.coverage = @ + value]
  /\ UNCHANGED <<lastReport, settings>>

\* A claim leaves the ETH above the request's ceiling in the redeem manager.
ClaimLeavesExceedingEth(value) ==
  /\ value \in 1..books.redeemEth
  /\ books' = [books EXCEPT !.redeemEth = @ - value, !.exceedingEth = @ + value]
  /\ UNCHANGED <<lastReport, settings>>

-----------------------------------------------------------------------------
(* The report pipeline: what each step makes of the books.  "report" is    *)
(* the new report, already stored but for the first step.                  *)

PullCLFunds(b, skimmed, exited) ==
  [b EXCEPT !.withdraw = @ - (skimmed + exited),
            !.eth = @ + skimmed + exited,
            !.balanceToDeposit = @ + skimmed,
            !.balanceToRedeem = @ + exited]

PullELFees(b, max) ==
  LET collected == Least(b.elFees, max)
  IN  [b EXCEPT !.elFees = @ - collected,
                !.eth = @ + collected,
                !.balanceToDeposit = @ + collected]

\* Variant of PullRedeemManagerExceedingEth: the ETH is in none of the balances.
PullExceedingEthUnbooked(b, max) ==
  LET collected == Least(b.exceedingEth, max)
  IN  [b EXCEPT !.exceedingEth = @ - collected, !.eth = @ + collected]

PullRedeemManagerExceedingEth(b, max) ==
  LET collected == Least(b.exceedingEth, max)
  IN  [b EXCEPT !.exceedingEth = @ - collected,
                !.eth = @ + collected,
                !.balanceToDeposit = @ + collected]

PullCoverageFunds(b, max) ==
  LET collected == Least(b.coverage, max)
  IN  [b EXCEPT !.coverage = @ - collected,
                !.eth = @ + collected,
                !.balanceToDeposit = @ + collected]

MaxIncrease(balance, elapsed) ==
  (balance * bounds.annualAprUpperBound * elapsed) \div (BasisPoints * OneYear)

MaxDecrease(balance) == (balance * bounds.relativeLowerBound) \div BasisPoints

\* Fees are minted so that the collector's new shares are worth its part of the
\* rewards once they are minted.
OnEarnings(b, report, rewards) ==
  LET denominator == AssetBalance(b, report) * BasisPoints - rewards * globalFee
      minted == IF denominator = 0 THEN 0
                ELSE (rewards * b.totalSupply * globalFee) \div denominator
  IN  MintRawShares(b, Collector, minted)

\* OperatorsRegistry.reportStoppedValidatorCounts, operators taken together:
\* "unsolicited" validators stopped without a request.
ReportStoppedValidatorCounts(b, stopped, unsolicited) ==
  [b EXCEPT !.stopped = stopped,
            !.exitsRequested = @ + unsolicited,
            !.exitsDemand = @ - Least(unsolicited, @)]

\* OperatorsRegistry.demandValidatorExits
DemandValidatorExits(b, count) ==
  [b EXCEPT !.exitsDemand =
     @ + Least(count, b.depositedValidatorCount - (b.exitsRequested + b.exitsDemand))]

DemandInEth(b, report) == BalanceFromShares(b, report, b.redeemDemand)

\* Variant of PreExitingBalance: exits demanded and not requested are forgotten.
RequestedExitingBalance(b) == Greatest(b.exitsRequested - b.stopped, 0) * DepositSize

PreExitingBalance(b) ==
  Greatest(b.exitsRequested + b.exitsDemand - b.stopped, 0) * DepositSize

\* What the redeem demand needs beyond the ETH set aside for it and the exits
\* under way.
MissingEth(b, report) ==
  DemandInEth(b, report) - b.balanceToRedeem - report.validatorsExitingBalance

Rebalanced(b, report, allowed) ==
  LET amount == IF allowed
                  THEN Least(b.balanceToDeposit, Greatest(MissingEth(b, report), 0))
                  ELSE 0
  IN  [b EXCEPT !.balanceToRedeem = @ + amount, !.balanceToDeposit = @ - amount]

RequestExits(b, report, rebalancing) ==
  LET rebalanced == Rebalanced(b, report, rebalancing)
      missing == MissingEth(rebalanced, report) - PreExitingBalance(rebalanced)
  IN
  IF report.slashingContainmentMode \/ b.totalSupply = 0 THEN b
  ELSE IF missing > 0 THEN DemandValidatorExits(rebalanced, Ceil(missing, DepositSize))
  ELSE rebalanced

\* Variant of ReportWithdraw: the shares of the whole demand are burned, supplied
\* or not.
ReportWithdrawBurningDemand(b, report) ==
  LET supplied == Least(DemandInEth(b, report), b.balanceToRedeem)
  IN
  IF supplied = 0 THEN b
  ELSE [BurnRawShares(b, RedeemManager, b.redeemDemand) EXCEPT
          !.balanceToRedeem = @ - supplied,
          !.eth = @ - supplied,
          !.redeemEth = @ + supplied,
          !.redeemDemand = @ - SharesFromBalance(b, report, supplied)]

\* RedeemManager.reportWithdraw takes the ETH and the shares off its demand.
ReportWithdraw(b, report) ==
  LET demanded == DemandInEth(b, report)
      supplied == Least(demanded, b.balanceToRedeem)
      shares == IF demanded > b.balanceToRedeem
                  THEN SharesFromBalance(b, report, supplied) ELSE b.redeemDemand
  IN
  IF supplied = 0 THEN b
  ELSE [BurnRawShares(b, RedeemManager, shares) EXCEPT
          !.balanceToRedeem = @ - supplied,
          !.eth = @ - supplied,
          !.redeemEth = @ + supplied,
          !.redeemDemand = @ - shares]

SkimExcessBalanceToRedeem(b) ==
  [b EXCEPT !.balanceToDeposit = @ + b.balanceToRedeem, !.balanceToRedeem = 0]

\* Variants of CommitBalanceToDeposit: parts of deposits are committed too, and
\* containment does not stop it.
CommitParts(b, report, elapsed) ==
  LET amount == Least((dailyLimits.minDailyNet * elapsed) \div OneDay, b.balanceToDeposit)
  IN
  IF report.slashingContainmentMode THEN b
  ELSE [b EXCEPT !.committedBalance = @ + amount, !.balanceToDeposit = @ - amount]

CommitAlways(b, report, elapsed) ==
  LET committable == Least((dailyLimits.minDailyNet * elapsed) \div OneDay, b.balanceToDeposit)
      amount == (committable \div DepositSize) * DepositSize
  IN  [b EXCEPT !.committedBalance = @ + amount, !.balanceToDeposit = @ - amount]

CommitBalanceToDeposit(b, report, elapsed) ==
  LET daily == Greatest(dailyLimits.minDailyNet,
                 (dailyLimits.maxDailyRelative
                    * (AssetBalance(b, report) - b.balanceToDeposit)) \div BasisPoints)
      committable == Least((daily * elapsed) \div OneDay, b.balanceToDeposit)
      amount == (committable \div DepositSize) * DepositSize
  IN
  IF report.slashingContainmentMode THEN b
  ELSE [b EXCEPT !.committedBalance = @ + amount, !.balanceToDeposit = @ - amount]

\* What may still be pulled before the balance reaches its upper bound, "before"
\* being the balance the report found.
Margin(b, report, before, elapsed) ==
  MaxIncrease(before, elapsed) + before - AssetBalance(b, report)

\* Fees are due on what the validators and the fee recipient bring.
Rewards(b, report, before, margin) ==
  Greatest(AssetBalance(b, report) - before, 0) + Least(b.elFees, margin)

\* Variant of Funded: every fund may fill the whole margin.
FundedApart(b, margin) ==
  PullCoverageFunds(PullRedeemManagerExceedingEth(PullELFees(b, margin), margin), margin)

\* The funds are pulled in this order, each up to what the others left.
Funded(b, margin) ==
  LET left(c) == margin - (c.eth - b.eth)
      withFees == PullELFees(b, margin)
      withExceeding == PullRedeemManagerExceedingEth(withFees, left(withFees))
  IN  PullCoverageFunds(withExceeding, left(withExceeding))

\* What the registry accepts: counts do not shrink nor exceed the deposits.
\* Counts are per operator there, so that validators may stop unsolicited while
\* exits requested from other operators are still to come.
StoppedIsAccepted(stopped, unsolicited) ==
  /\ stopped \in books.stopped..books.depositedValidatorCount
  /\ unsolicited \in Greatest(stopped - books.exitsRequested, 0)..(stopped - books.stopped)
  /\ books.exitsRequested + unsolicited <= books.depositedValidatorCount

SetConsensusLayerData(report, skimmed, exited, stopped, unsolicited, rebalancing) ==
  LET elapsed == (report.epoch - lastReport.epoch) * EpochTime
      before == AssetBalance(books, lastReport)
      collected == PullCLFunds(books, skimmed, exited)
      margin == Margin(collected, report, before, elapsed)
      rewards == Rewards(collected, report, before, margin)
      earned == OnEarnings(Funded(collected, margin), report, rewards)
      stopping == ReportStoppedValidatorCounts(earned, stopped, unsolicited)
      exiting == RequestExits(stopping, report, rebalancing)
      supplied == ReportWithdraw(exiting, report)
  IN
  /\ report.epoch > lastReport.epoch
  /\ report.validatorsCount \in lastReport.validatorsCount..books.depositedValidatorCount
  /\ skimmed + exited <= books.withdraw
  /\ margin >= 0
  /\ AssetBalance(collected, report) >= before - MaxDecrease(before)
  /\ rewards > 0 => books.totalSupply > 0
  /\ StoppedIsAccepted(stopped, unsolicited)
  /\ books' = CommitBalanceToDeposit(SkimExcessBalanceToRedeem(supplied), report, elapsed)
  /\ lastReport' = report
  /\ UNCHANGED settings

-----------------------------------------------------------------------------
Init ==
  /\ books = [balanceToDeposit |-> 0, committedBalance |-> 0, balanceToRedeem |-> 0,
              eth |-> 0, depositedValidatorCount |-> 0,
              totalSupply |-> 0, balanceOf |-> [h \in Holder |-> 0],
              withdraw |-> 0, elFees |-> 0, coverage |-> 0,
              redeemDemand |-> 0, redeemEth |-> 0, exceedingEth |-> 0,
              exitsRequested |-> 0, exitsDemand |-> 0, stopped |-> 0]
  /\ lastReport = [epoch |-> 0, validatorsBalance |-> 0, validatorsExitingBalance |-> 0,
                   validatorsCount |-> 0, slashingContainmentMode |-> FALSE]
  /\ world \in Worlds
  /\ globalFee \in world.fees
  /\ bounds \in world.bounds
  /\ dailyLimits \in world.dailyLimits

\* The reports the oracle may push next.
Reports ==
  [epoch : {e \in {lastReport.epoch + n : n \in Epochs} : e <= world.maxEpoch},
   validatorsBalance : world.balances,
   validatorsExitingBalance : world.exiting,
   validatorsCount : lastReport.validatorsCount..books.depositedValidatorCount,
   slashingContainmentMode : BOOLEAN]

HoldersAct ==
  \/ \E u \in User, recipient \in User, value \in Deposits : Deposit(u, recipient, value)
  \/ \E h \in Holder \ {RedeemManager} :
       \/ \E to \in Holder \ {h}, value \in world.transfers : Transfer(h, to, value)
       \/ \E value \in Redeems : RequestRedeem(h, value)

AdministratorActs ==
  \/ \E fee \in world.fees : SetGlobalFee(fee)
  \/ \E new \in world.bounds : SetReportBounds(new)
  \/ \E new \in world.dailyLimits : SetDailyCommittableLimits(new)

KeeperActs ==
  \/ \E count \in 1..(books.committedBalance \div DepositSize) : DepositToConsensusLayer(count)
  \/ \E count \in 1..books.exitsDemand : RequestValidatorExits(count)

EthArrives ==
  \/ \E value \in world.sweeps : Swept(value)
  \/ \E value \in world.elFees : FeesArrive(value)
  \/ \E value \in world.donations : Donate(value)
  \/ \E value \in world.excesses : ClaimLeavesExceedingEth(value)

OracleReports ==
  \E report \in Reports, skimmed \in world.skims, exited \in world.exits, rebalancing \in BOOLEAN,
     stopped \in books.stopped..books.depositedValidatorCount,
     unsolicited \in 0..books.depositedValidatorCount :
    SetConsensusLayerData(report, skimmed, exited, stopped, unsolicited, rebalancing)

Next == HoldersAct \/ AdministratorActs \/ KeeperActs \/ EthArrives \/ OracleReports

Spec == Init /\ [][Next]_vars

-----------------------------------------------------------------------------
(* Properties                                                              *)

\* Invariant: the ETH River holds is the ETH of its three balances: no pull, no
\* supply of the redeem manager and no deposit is booked twice or not at all, and
\* no entry of the books ever falls below zero.
EthIsAccounted ==
  /\ TypeOK
  /\ books.eth = books.balanceToDeposit + books.committedBalance + books.balanceToRedeem

\* Invariant: the redeem manager holds the LsETH it has yet to redeem, so that
\* burning what a report redeems never makes the report revert.
DemandIsHeld == books.balanceOf[RedeemManager] >= books.redeemDemand

\* Invariant: what is committed is whole deposits, as initRiverV1_2 made it.
CommittedInDeposits == books.committedBalance % DepositSize = 0

\* Invariant: no ETH is left to a protocol whose LsETH has all been redeemed; the
\* next depositor would own it, and rewards on it would make every report revert.
NoAssetsWithoutShares ==
  books.totalSupply = 0 => AssetBalance(books, lastReport) = 0

Reporting == lastReport'.epoch # lastReport.epoch

Balance == AssetBalance(books, lastReport)

\* Action property: a report raises the balance, what it hands to the redeem
\* manager included, by no more than the upper bound, wherever the ETH is from.
ReportWithinBounds ==
  [][Reporting =>
       LET supplied == books'.redeemEth - books.redeemEth
           elapsed == (lastReport'.epoch - lastReport.epoch) * EpochTime
       IN  /\ Balance' + supplied <= Balance + MaxIncrease(Balance, elapsed)
           /\ Balance' + supplied >= Balance - MaxDecrease(Balance)]_vars

Pulled(fund) == books[fund] - books'[fund]

\* The report found the validators no poorer than the one before.
Lossless ==
  Balance' + (books'.redeemEth - books.redeemEth)
    - Pulled("elFees") - Pulled("exceedingEth") - Pulled("coverage") >= Balance

\* Action property: unless validators lost ETH, no step lowers what a share is
\* worth by more than rounding one share away: not deposits, not fees, not redeems.
RateHolds ==
  [][(Reporting => Lossless) =>
       Balance' * books.totalSupply >= Balance * (books'.totalSupply - 1)]_vars

InFlight == books.exitsRequested + books.exitsDemand - books.stopped

\* Action property: what a report leaves of the redeem demand, but for one share,
\* is on its way, or every validator has been asked to exit.
RedeemDemandIsCovered ==
  [][Reporting /\ ~lastReport'.slashingContainmentMode =>
       \/ BalanceFromShares(books', lastReport', books'.redeemDemand - 1)
            <= lastReport'.validatorsExitingBalance + InFlight' * DepositSize
       \/ books'.exitsRequested + books'.exitsDemand = books'.depositedValidatorCount]_vars

\* Action property: a report demands no validator whose exit the redeem demand it
\* leaves could do without.
NoExcessExits ==
  [][books'.exitsDemand > books.exitsDemand =>
       lastReport'.validatorsExitingBalance + (InFlight' - 1) * DepositSize
         < DemandInEth(books', lastReport')]_vars

\* Action property: while slashing is contained no ETH is committed or deposited,
\* no redeem request is placed and no exit is demanded.
ContainmentHolds ==
  [][lastReport'.slashingContainmentMode =>
       /\ books'.committedBalance <= books.committedBalance
       /\ books'.depositedValidatorCount = books.depositedValidatorCount
       /\ books'.redeemDemand <= books.redeemDemand
       /\ books'.exitsDemand <= books.exitsDemand]_vars

=============================================================================
