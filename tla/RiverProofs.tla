----------------------------- MODULE RiverProofs -----------------------------
(***************************************************************************)
(* River's books stay sound and its reports keep their bounds, for every   *)
(* set of users, every amount, fee, rate and limit, and every report.  A   *)
(* report is one action made of a dozen functions from books to books:     *)
(* there is one lemma per function, on what it changes and keeps, and      *)
(* Reported puts them together in the order of setConsensusLayerData.  The *)
(* theorems on a step follow from that summary and from Quiet, which says  *)
(* what every other step leaves alone.                                     *)
(***************************************************************************)
EXTENDS River, Sums, TLAPS

-----------------------------------------------------------------------------
(* Arithmetic: products and quotients of integers                          *)

LEMMA Quotient ==
  ASSUME NEW a \in Int, NEW b \in Int, b > 0
  PROVE  /\ a \div b \in Int
         /\ b * (a \div b) <= a
         /\ a < b * (a \div b) + b
OBVIOUS

LEMMA QuotientIsNat ==
  ASSUME NEW a \in Nat, NEW b \in Int, b > 0
  PROVE  a \div b \in Nat
OBVIOUS

LEMMA ProductIsNat == ASSUME NEW a \in Nat, NEW b \in Nat PROVE a * b \in Nat
OBVIOUS

LEMMA ProductsGrow ==
  ASSUME NEW a \in Int, NEW b \in Int, a <= b, NEW c \in Nat
  PROVE  a * c <= b * c
OBVIOUS

LEMMA FactorCancels ==
  ASSUME NEW a \in Int, NEW b \in Int, NEW c \in Int, c > 0, a * c <= b * c
  PROVE  a <= b
OBVIOUS

LEMMA Distributes ==
  ASSUME NEW a \in Int, NEW b \in Int, NEW c \in Int
  PROVE  (a - b) * c = a * c - b * c /\ (a + b) * c = a * c + b * c
OBVIOUS

LEMMA Whole ==
  ASSUME NEW n \in Int, NEW d \in Int, d > 0
  PROVE  /\ (n * d) % d = 0
         /\ n % d = 0 => n = (n \div d) * d
OBVIOUS

LEMMA WholeChanges ==
  ASSUME NEW a \in Int, NEW n \in Int, NEW d \in Int, d > 0, a % d = 0
  PROVE  (a + n * d) % d = 0 /\ (a - n * d) % d = 0
<1> DEFINE k == a \div d
<1>1. a = k * d /\ k \in Int BY Whole, Quotient
<1> HIDE DEF k
<1>2. a + n * d = (k + n) * d /\ a - n * d = (k - n) * d BY <1>1, Distributes
<1>3. k + n \in Int /\ k - n \in Int BY <1>1
<1>4. \A m \in Int : (m * d) % d = 0 BY Whole
<1>5. ((k + n) * d) % d = 0 /\ ((k - n) * d) % d = 0 BY ONLY <1>3, <1>4
<1> QED BY <1>2, <1>5

-----------------------------------------------------------------------------
(* What holds of the books before, within and after a report               *)

Exits(b) == b.exitsRequested + b.exitsDemand

\* Books that keep their promises: ETH, shares and exits are accounted for.
Sound(b) ==
  /\ b \in Books
  /\ b.eth = b.balanceToDeposit + b.committedBalance + b.balanceToRedeem
  /\ b.totalSupply = SumFunctionOnSet(b.balanceOf, Holder)
  /\ b.redeemDemand <= b.balanceOf[RedeemManager]
  /\ b.committedBalance % DepositSize = 0
  /\ b.stopped <= b.exitsRequested
  /\ Exits(b) <= b.depositedValidatorCount

SameShares(b, c) ==
  /\ c.totalSupply = b.totalSupply
  /\ c.balanceOf = b.balanceOf
  /\ c.redeemDemand = b.redeemDemand

SameEth(b, c) ==
  /\ c.eth = b.eth
  /\ c.balanceToDeposit = b.balanceToDeposit
  /\ c.committedBalance = b.committedBalance
  /\ c.balanceToRedeem = b.balanceToRedeem

SameFunds(b, c) ==
  /\ c.withdraw = b.withdraw
  /\ c.elFees = b.elFees
  /\ c.exceedingEth = b.exceedingEth
  /\ c.coverage = b.coverage
  /\ c.redeemEth = b.redeemEth

SameExits(b, c) ==
  /\ c.exitsRequested = b.exitsRequested
  /\ c.exitsDemand = b.exitsDemand
  /\ c.stopped = b.stopped
  /\ c.depositedValidatorCount = b.depositedValidatorCount

LEMMA HoldersAreFinite ==
  /\ IsFiniteSet(Holder)
  /\ Collector \in Holder
  /\ RedeemManager \in Holder
  /\ User \subseteq Holder
  /\ Collector # RedeemManager
<1>1. IsFiniteSet({Collector}) /\ IsFiniteSet({RedeemManager}) BY FS_Singleton
<1>2. IsFiniteSet({Collector} \cup {RedeemManager}) BY <1>1, FS_Union
<1>3. Holder = User \cup ({Collector} \cup {RedeemManager}) BY DEF Holder
<1>4. IsFiniteSet(Holder) BY <1>2, <1>3, FS_Union, RiverAssumption
<1> QED BY <1>3, <1>4, RiverAssumption

\* No holder has more than there is.
LEMMA NoneHasMore ==
  ASSUME NEW b, Sound(b), NEW h \in Holder
  PROVE  b.balanceOf[h] \in Nat /\ b.balanceOf[h] <= b.totalSupply
<1>1. \A x \in Holder : b.balanceOf[x] \in Nat BY DEF Sound, Books
<1>2. b.totalSupply = SumFunctionOnSet(b.balanceOf, Holder) BY DEF Sound
<1> QED BY <1>1, <1>2, SumBoundsEach, HoldersAreFinite

LEMMA SharesAreMinted ==
  ASSUME NEW b, Sound(b), NEW owner \in Holder, NEW value \in Nat
  PROVE  LET c == MintRawShares(b, owner, value)
         IN  /\ c \in Books
             /\ c.totalSupply = SumFunctionOnSet(c.balanceOf, Holder)
             /\ c.balanceOf[RedeemManager] >= b.balanceOf[RedeemManager]
             /\ c.balanceOf[owner] >= value
             /\ c.totalSupply = b.totalSupply + value
             /\ c.redeemDemand = b.redeemDemand
             /\ SameEth(b, c) /\ SameFunds(b, c) /\ SameExits(b, c)
<1> DEFINE c == MintRawShares(b, owner, value)
           f == b.balanceOf
           g == [f EXCEPT ![owner] = @ + value]
<1>1. f \in [Holder -> Nat] /\ b \in Books BY DEF Sound, Books
<1>2. g \in [Holder -> Nat] /\ g[owner] = f[owner] + value /\ \A h \in Holder : h # owner => g[h] = f[h]
  BY <1>1
<1>3. c = [b EXCEPT !.totalSupply = @ + value, !.balanceOf = g]
  BY DEF MintRawShares
<1> HIDE DEF c, g
<1>4. c.totalSupply = b.totalSupply + value /\ c.balanceOf = g /\ c.redeemDemand = b.redeemDemand
  BY <1>1, <1>3 DEF Books
<1>5. c \in Books
  <2>1. b.totalSupply \in Nat BY <1>1 DEF Books
  <2>2. ASSUME NEW d \in Books, NEW n \in Nat PROVE [d EXCEPT !.totalSupply = n] \in Books
    BY DEF Books
  <2>3. ASSUME NEW d \in Books PROVE [d EXCEPT !.balanceOf = g] \in Books
    BY <1>2 DEF Books
  <2>4. b.totalSupply + value \in Nat BY <2>1
  <2>5. [b EXCEPT !.totalSupply = @ + value] \in Books BY <1>1, <2>2, <2>4
  <2>6. c = [[b EXCEPT !.totalSupply = @ + value] EXCEPT !.balanceOf = g] BY <1>3
  <2> QED BY <2>3, <2>5, <2>6
<1>6. SameEth(b, c) /\ SameFunds(b, c) /\ SameExits(b, c)
  BY <1>1, <1>3 DEF Books, SameEth, SameFunds, SameExits
<1>7. SumFunctionOnSet(g, Holder) = SumFunctionOnSet(f, Holder) + value
  <2> HIDE DEF f
  <2>1. SumFunctionOnSet(g, Holder) = SumFunctionOnSet(f, Holder) + g[owner] - f[owner]
    BY <1>1, <1>2, HoldersAreFinite, SumOfChange
  <2>2. SumFunctionOnSet(f, Holder) \in Int BY <1>1, HoldersAreFinite, SumIsInt
  <2> QED BY <2>1, <2>2, <1>1, <1>2
<1>8. g[RedeemManager] >= f[RedeemManager] /\ g[owner] >= value BY <1>1, <1>2, HoldersAreFinite
<1>9. b.totalSupply = SumFunctionOnSet(f, Holder) BY DEF Sound
<1> QED BY <1>4, <1>5, <1>6, <1>7, <1>8, <1>9 DEF c

LEMMA SharesAreBurned ==
  ASSUME NEW b, Sound(b), NEW value \in Nat, value <= b.balanceOf[RedeemManager]
  PROVE  LET c == BurnRawShares(b, RedeemManager, value)
         IN  /\ c \in Books
             /\ c.totalSupply = SumFunctionOnSet(c.balanceOf, Holder)
             /\ c.balanceOf[RedeemManager] = b.balanceOf[RedeemManager] - value
             /\ c.totalSupply = b.totalSupply - value
             /\ c.redeemDemand = b.redeemDemand
             /\ SameEth(b, c) /\ SameFunds(b, c) /\ SameExits(b, c)
<1> DEFINE c == BurnRawShares(b, RedeemManager, value)
           f == b.balanceOf
           g == [f EXCEPT ![RedeemManager] = @ - value]
<1>1. f \in [Holder -> Nat] /\ b \in Books BY DEF Sound, Books
<1>2. /\ g \in [Holder -> Nat]
      /\ g[RedeemManager] = f[RedeemManager] - value
      /\ \A h \in Holder : h # RedeemManager => g[h] = f[h]
  BY <1>1, HoldersAreFinite
<1>3. c = [b EXCEPT !.totalSupply = @ - value, !.balanceOf = g]
  BY DEF BurnRawShares
<1> HIDE DEF c, g
<1>4. c.totalSupply = b.totalSupply - value /\ c.balanceOf = g /\ c.redeemDemand = b.redeemDemand
  BY <1>1, <1>3 DEF Books
<1>5. c \in Books
  <2>1. b.totalSupply \in Nat BY <1>1 DEF Books
  <2>2. ASSUME NEW d \in Books, NEW n \in Nat PROVE [d EXCEPT !.totalSupply = n] \in Books
    BY DEF Books
  <2>3. ASSUME NEW d \in Books PROVE [d EXCEPT !.balanceOf = g] \in Books
    BY <1>2 DEF Books
  <2>4. b.totalSupply - value \in Nat BY <2>1, NoneHasMore, HoldersAreFinite
  <2>5. [b EXCEPT !.totalSupply = @ - value] \in Books BY <1>1, <2>2, <2>4
  <2>6. c = [[b EXCEPT !.totalSupply = @ - value] EXCEPT !.balanceOf = g] BY <1>3
  <2> QED BY <2>3, <2>5, <2>6
<1>6. SameEth(b, c) /\ SameFunds(b, c) /\ SameExits(b, c)
  BY <1>1, <1>3 DEF Books, SameEth, SameFunds, SameExits
<1>7. SumFunctionOnSet(g, Holder) = SumFunctionOnSet(f, Holder) - value
  <2> HIDE DEF f
  <2>1. SumFunctionOnSet(g, Holder)
          = SumFunctionOnSet(f, Holder) + g[RedeemManager] - f[RedeemManager]
    BY <1>1, <1>2, HoldersAreFinite, SumOfChange
  <2>2. SumFunctionOnSet(f, Holder) \in Int BY <1>1, HoldersAreFinite, SumIsInt
  <2> QED BY <2>1, <2>2, <1>1, <1>2, HoldersAreFinite
<1>8. b.totalSupply = SumFunctionOnSet(f, Holder) BY DEF Sound
<1> QED BY <1>2, <1>4, <1>5, <1>6, <1>7, <1>8 DEF c

\* Moving shares changes no sum of them.
LEMMA SharesAreMoved ==
  ASSUME NEW b \in Books, NEW from \in Holder, NEW to \in Holder,
         NEW value \in Nat, value <= b.balanceOf[from],
         b.totalSupply = SumFunctionOnSet(b.balanceOf, Holder)
  PROVE  LET c == Moved(b, from, to, value)
         IN  /\ c \in Books
             /\ c.totalSupply = SumFunctionOnSet(c.balanceOf, Holder)
             /\ c.totalSupply = b.totalSupply
             /\ from # RedeemManager => c.balanceOf[RedeemManager] >= b.balanceOf[RedeemManager]
             /\ from # RedeemManager /\ to = RedeemManager =>
                  c.balanceOf[RedeemManager] = b.balanceOf[RedeemManager] + value
             /\ c.redeemDemand = b.redeemDemand
             /\ SameEth(b, c) /\ SameFunds(b, c) /\ SameExits(b, c)
<1> DEFINE c == Moved(b, from, to, value)
           f == b.balanceOf
           g == [h \in Holder |->
                  f[h] - (IF h = from THEN value ELSE 0) + (IF h = to THEN value ELSE 0)]
           m == [h \in Holder |-> f[h] - (IF h = from THEN value ELSE 0)]
<1>1. f \in [Holder -> Nat] BY DEF Books
<1>2. c = [b EXCEPT !.balanceOf = g] BY DEF Moved
<1>3. /\ \A h \in Holder : m[h] = f[h] - (IF h = from THEN value ELSE 0)
      /\ \A h \in Holder : g[h] = m[h] + (IF h = to THEN value ELSE 0)
      /\ m \in [Holder -> Nat]
      /\ g \in [Holder -> Nat]
  BY <1>1
<1> HIDE DEF c, g, m
<1>4. c.totalSupply = b.totalSupply /\ c.balanceOf = g /\ c.redeemDemand = b.redeemDemand
  BY <1>2 DEF Books
<1>5. c \in Books BY <1>2, <1>3 DEF Books
<1>6. SameEth(b, c) /\ SameFunds(b, c) /\ SameExits(b, c)
  BY <1>2 DEF Books, SameEth, SameFunds, SameExits
<1>7. SumFunctionOnSet(g, Holder) = SumFunctionOnSet(f, Holder)
  <2> HIDE DEF f
  <2>1. SumFunctionOnSet(m, Holder) = SumFunctionOnSet(f, Holder) + m[from] - f[from]
    BY <1>1, <1>3, HoldersAreFinite, SumOfChange
  <2>2. SumFunctionOnSet(g, Holder) = SumFunctionOnSet(m, Holder) + g[to] - m[to]
    BY <1>1, <1>3, HoldersAreFinite, SumOfChange
  <2>3. SumFunctionOnSet(f, Holder) \in Int BY <1>1, HoldersAreFinite, SumIsInt
  <2> QED BY <2>1, <2>2, <2>3, <1>1, <1>3
<1>8. /\ from # RedeemManager => g[RedeemManager] >= f[RedeemManager]
      /\ from # RedeemManager /\ to = RedeemManager => g[RedeemManager] = f[RedeemManager] + value
  BY <1>1, <1>3, HoldersAreFinite
<1> QED BY <1>4, <1>5, <1>6, <1>7, <1>8 DEF c

LEMMA LeastAndGreatest ==
  ASSUME NEW m \in Int, NEW n \in Int
  PROVE  /\ Least(m, n) \in {m, n} /\ Least(m, n) <= m /\ Least(m, n) <= n
         /\ Greatest(m, n) \in {m, n} /\ Greatest(m, n) >= m /\ Greatest(m, n) >= n
         /\ m \in Nat /\ n \in Nat => Least(m, n) \in Nat
         /\ n \in Nat => Greatest(m, n) \in Nat
BY DEF Least, Greatest

\* The balance is the ETH River holds, with what validators hold and what was
\* deposited to validators no report has seen.
LEMMA BalanceFollowsEth ==
  ASSUME NEW b, Sound(b), NEW report \in Report,
         report.validatorsCount <= b.depositedValidatorCount
  PROVE  /\ AssetBalance(b, report) \in Nat
         /\ AssetBalance(b, report) = b.eth + report.validatorsBalance
              + (b.depositedValidatorCount - report.validatorsCount) * DepositSize
         /\ AssetBalance(b, report) >= b.eth
<1>1. /\ b.eth \in Nat /\ b.balanceToDeposit \in Nat /\ b.committedBalance \in Nat
      /\ b.balanceToRedeem \in Nat /\ b.depositedValidatorCount \in Nat
      /\ b.eth = b.balanceToDeposit + b.committedBalance + b.balanceToRedeem
  BY DEF Sound, Books
<1>2. report.validatorsCount \in Nat /\ report.validatorsBalance \in Nat BY DEF Report
<1> DEFINE unseen == b.depositedValidatorCount - report.validatorsCount
<1>3. unseen \in Nat /\ Greatest(unseen, 0) = unseen BY <1>1, <1>2 DEF Greatest
<1>4. unseen * DepositSize \in Nat BY <1>3, ProductIsNat, RiverAssumption
<1> QED BY <1>1, <1>2, <1>3, <1>4 DEF AssetBalance

LEMMA BalanceMoves ==
  ASSUME NEW b, Sound(b), NEW c, Sound(c), NEW report \in Report,
         c.depositedValidatorCount = b.depositedValidatorCount,
         report.validatorsCount <= b.depositedValidatorCount
  PROVE  AssetBalance(c, report) = AssetBalance(b, report) + (c.eth - b.eth)
<1> DEFINE m == (b.depositedValidatorCount - report.validatorsCount) * DepositSize
<1>1. m \in Int /\ b.eth \in Nat /\ c.eth \in Nat /\ report.validatorsBalance \in Nat
  BY RiverAssumption DEF Sound, Books, Report
<1>2. /\ AssetBalance(b, report) = b.eth + report.validatorsBalance + m
      /\ AssetBalance(c, report) = c.eth + report.validatorsBalance + m
  BY BalanceFollowsEth
<1> HIDE DEF m
<1> QED BY <1>1, <1>2

-----------------------------------------------------------------------------
(* The steps of a report                                                   *)

\* ETH that moves takes nothing from the shares and the exits.
LEMMA OnlyEthMoves ==
  ASSUME NEW b, Sound(b), NEW c \in Books, SameShares(b, c), SameExits(b, c),
         c.eth = c.balanceToDeposit + c.committedBalance + c.balanceToRedeem,
         c.committedBalance % DepositSize = 0
  PROVE  Sound(c)
BY DEF Sound, SameShares, SameExits, Exits

LEMMA CLFundsPulled ==
  ASSUME NEW b, Sound(b), NEW skimmed \in Nat, NEW exited \in Nat,
         skimmed + exited <= b.withdraw
  PROVE  LET c == PullCLFunds(b, skimmed, exited)
         IN  /\ Sound(c)
             /\ SameShares(b, c) /\ SameExits(b, c)
             /\ c.eth = b.eth + skimmed + exited
             /\ c.committedBalance = b.committedBalance
             /\ c.elFees = b.elFees
             /\ c.exceedingEth = b.exceedingEth
             /\ c.coverage = b.coverage
             /\ c.redeemEth = b.redeemEth
<1> DEFINE c == PullCLFunds(b, skimmed, exited)
<1>1. b \in Books BY DEF Sound
<1>2. b.eth = b.balanceToDeposit + b.committedBalance + b.balanceToRedeem
      /\ b.committedBalance % DepositSize = 0
  BY DEF Sound
<1>3. /\ b.withdraw - (skimmed + exited) \in Nat
      /\ b.eth + skimmed + exited \in Nat
      /\ b.balanceToDeposit + skimmed \in Nat
      /\ b.balanceToRedeem + exited \in Nat
      /\ b.balanceToDeposit \in Nat /\ b.committedBalance \in Nat /\ b.balanceToRedeem \in Nat
  BY <1>1 DEF Books
<1>4. c \in Books BY <1>1, <1>3 DEF PullCLFunds, Books
<1>5. /\ c.eth = b.eth + skimmed + exited
      /\ c.balanceToDeposit = b.balanceToDeposit + skimmed
      /\ c.balanceToRedeem = b.balanceToRedeem + exited
      /\ c.committedBalance = b.committedBalance
      /\ c.elFees = b.elFees
      /\ c.exceedingEth = b.exceedingEth
      /\ c.coverage = b.coverage
      /\ c.redeemEth = b.redeemEth
  BY <1>1 DEF PullCLFunds, Books
<1>6. SameShares(b, c) /\ SameExits(b, c)
  BY <1>1 DEF PullCLFunds, Books, SameShares, SameExits
<1> HIDE DEF c
<1>7. c.eth = c.balanceToDeposit + c.committedBalance + c.balanceToRedeem
  BY <1>2, <1>3, <1>5
<1> QED BY <1>2, <1>4, <1>5, <1>6, <1>7, OnlyEthMoves DEF c

LEMMA ELFeesPulled ==
  ASSUME NEW b, Sound(b), NEW max \in Nat
  PROVE  LET c == PullELFees(b, max)
         IN  /\ Sound(c)
             /\ SameShares(b, c) /\ SameExits(b, c)
             /\ c.eth = b.eth + Least(b.elFees, max)
             /\ c.elFees = b.elFees - Least(b.elFees, max)
             /\ c.committedBalance = b.committedBalance
             /\ c.exceedingEth = b.exceedingEth
             /\ c.coverage = b.coverage
             /\ c.redeemEth = b.redeemEth
<1> DEFINE c == PullELFees(b, max)
           collected == Least(b.elFees, max)
<1>1. b \in Books BY DEF Sound
<1>2. b.eth = b.balanceToDeposit + b.committedBalance + b.balanceToRedeem
      /\ b.committedBalance % DepositSize = 0
  BY DEF Sound
<1>3. /\ collected \in Nat
      /\ b.elFees - collected \in Nat
      /\ b.eth + collected \in Nat
      /\ b.balanceToDeposit + collected \in Nat
      /\ b.balanceToDeposit \in Nat /\ b.committedBalance \in Nat /\ b.balanceToRedeem \in Nat
  BY <1>1 DEF Books, Least
<1> HIDE DEF collected
<1>4. c = [b EXCEPT !.elFees = @ - collected, !.eth = @ + collected,
                    !.balanceToDeposit = @ + collected]
  BY DEF PullELFees, collected
<1> HIDE DEF c
<1>5. c \in Books BY <1>1, <1>3, <1>4 DEF Books
<1>6. /\ c.eth = b.eth + collected
      /\ c.balanceToDeposit = b.balanceToDeposit + collected
      /\ c.elFees = b.elFees - collected
      /\ c.balanceToRedeem = b.balanceToRedeem
      /\ c.committedBalance = b.committedBalance
      /\ c.exceedingEth = b.exceedingEth
      /\ c.coverage = b.coverage
      /\ c.redeemEth = b.redeemEth
  BY <1>1, <1>4 DEF Books
<1>7. SameShares(b, c) /\ SameExits(b, c)
  BY <1>1, <1>4 DEF Books, SameShares, SameExits
<1>8. c.eth = c.balanceToDeposit + c.committedBalance + c.balanceToRedeem
  BY <1>2, <1>3, <1>6
<1> QED BY <1>2, <1>5, <1>6, <1>7, <1>8, OnlyEthMoves DEF c, collected

LEMMA ExceedingEthPulled ==
  ASSUME NEW b, Sound(b), NEW max \in Nat
  PROVE  LET c == PullRedeemManagerExceedingEth(b, max)
         IN  /\ Sound(c)
             /\ SameShares(b, c) /\ SameExits(b, c)
             /\ c.eth = b.eth + Least(b.exceedingEth, max)
             /\ c.exceedingEth = b.exceedingEth - Least(b.exceedingEth, max)
             /\ c.committedBalance = b.committedBalance
             /\ c.elFees = b.elFees
             /\ c.coverage = b.coverage
             /\ c.redeemEth = b.redeemEth
<1> DEFINE c == PullRedeemManagerExceedingEth(b, max)
           collected == Least(b.exceedingEth, max)
<1>1. b \in Books BY DEF Sound
<1>2. b.eth = b.balanceToDeposit + b.committedBalance + b.balanceToRedeem
      /\ b.committedBalance % DepositSize = 0
  BY DEF Sound
<1>3. /\ collected \in Nat
      /\ b.exceedingEth - collected \in Nat
      /\ b.eth + collected \in Nat
      /\ b.balanceToDeposit + collected \in Nat
      /\ b.balanceToDeposit \in Nat /\ b.committedBalance \in Nat /\ b.balanceToRedeem \in Nat
  BY <1>1 DEF Books, Least
<1> HIDE DEF collected
<1>4. c = [b EXCEPT !.exceedingEth = @ - collected, !.eth = @ + collected,
                    !.balanceToDeposit = @ + collected]
  BY DEF PullRedeemManagerExceedingEth, collected
<1> HIDE DEF c
<1>5. c \in Books BY <1>1, <1>3, <1>4 DEF Books
<1>6. /\ c.eth = b.eth + collected
      /\ c.balanceToDeposit = b.balanceToDeposit + collected
      /\ c.exceedingEth = b.exceedingEth - collected
      /\ c.balanceToRedeem = b.balanceToRedeem
      /\ c.committedBalance = b.committedBalance
      /\ c.elFees = b.elFees
      /\ c.coverage = b.coverage
      /\ c.redeemEth = b.redeemEth
  BY <1>1, <1>4 DEF Books
<1>7. SameShares(b, c) /\ SameExits(b, c)
  BY <1>1, <1>4 DEF Books, SameShares, SameExits
<1>8. c.eth = c.balanceToDeposit + c.committedBalance + c.balanceToRedeem
  BY <1>2, <1>3, <1>6
<1> QED BY <1>2, <1>5, <1>6, <1>7, <1>8, OnlyEthMoves DEF c, collected

LEMMA CoverageFundsPulled ==
  ASSUME NEW b, Sound(b), NEW max \in Nat
  PROVE  LET c == PullCoverageFunds(b, max)
         IN  /\ Sound(c)
             /\ SameShares(b, c) /\ SameExits(b, c)
             /\ c.eth = b.eth + Least(b.coverage, max)
             /\ c.coverage = b.coverage - Least(b.coverage, max)
             /\ c.committedBalance = b.committedBalance
             /\ c.elFees = b.elFees
             /\ c.exceedingEth = b.exceedingEth
             /\ c.redeemEth = b.redeemEth
<1> DEFINE c == PullCoverageFunds(b, max)
           collected == Least(b.coverage, max)
<1>1. b \in Books BY DEF Sound
<1>2. b.eth = b.balanceToDeposit + b.committedBalance + b.balanceToRedeem
      /\ b.committedBalance % DepositSize = 0
  BY DEF Sound
<1>3. /\ collected \in Nat
      /\ b.coverage - collected \in Nat
      /\ b.eth + collected \in Nat
      /\ b.balanceToDeposit + collected \in Nat
      /\ b.balanceToDeposit \in Nat /\ b.committedBalance \in Nat /\ b.balanceToRedeem \in Nat
  BY <1>1 DEF Books, Least
<1> HIDE DEF collected
<1>4. c = [b EXCEPT !.coverage = @ - collected, !.eth = @ + collected,
                    !.balanceToDeposit = @ + collected]
  BY DEF PullCoverageFunds, collected
<1> HIDE DEF c
<1>5. c \in Books BY <1>1, <1>3, <1>4 DEF Books
<1>6. /\ c.eth = b.eth + collected
      /\ c.balanceToDeposit = b.balanceToDeposit + collected
      /\ c.coverage = b.coverage - collected
      /\ c.balanceToRedeem = b.balanceToRedeem
      /\ c.committedBalance = b.committedBalance
      /\ c.elFees = b.elFees
      /\ c.exceedingEth = b.exceedingEth
      /\ c.redeemEth = b.redeemEth
  BY <1>1, <1>4 DEF Books
<1>7. SameShares(b, c) /\ SameExits(b, c)
  BY <1>1, <1>4 DEF Books, SameShares, SameExits
<1>8. c.eth = c.balanceToDeposit + c.committedBalance + c.balanceToRedeem
  BY <1>2, <1>3, <1>6
<1> QED BY <1>2, <1>5, <1>6, <1>7, <1>8, OnlyEthMoves DEF c, collected

\* Together the funds bring no more than the margin, and all the fees it allows.
LEMMA FundsPulled ==
  ASSUME NEW b, Sound(b), NEW margin \in Nat
  PROVE  LET c == Funded(b, margin)
         IN  /\ Sound(c)
             /\ SameShares(b, c) /\ SameExits(b, c)
             /\ c.eth >= b.eth + Least(b.elFees, margin)
             /\ c.eth <= b.eth + margin
             /\ c.eth - b.eth = (b.elFees - c.elFees) + (b.exceedingEth - c.exceedingEth)
                                 + (b.coverage - c.coverage)
             /\ c.committedBalance = b.committedBalance
             /\ c.redeemEth = b.redeemEth
<1> DEFINE withFees == PullELFees(b, margin)
           left1 == margin - (withFees.eth - b.eth)
           withExceeding == PullRedeemManagerExceedingEth(withFees, left1)
           left2 == margin - (withExceeding.eth - b.eth)
           c == PullCoverageFunds(withExceeding, left2)
<1>1. b \in Books BY DEF Sound
<1>2. /\ b.eth \in Nat /\ b.elFees \in Nat /\ b.exceedingEth \in Nat /\ b.coverage \in Nat
      /\ b.committedBalance \in Nat
  BY <1>1 DEF Books
<1>3. /\ Least(b.elFees, margin) \in Nat
      /\ Least(b.elFees, margin) <= margin
  BY <1>2 DEF Least
<1>4. /\ Sound(withFees)
      /\ SameShares(b, withFees) /\ SameExits(b, withFees)
      /\ withFees.eth = b.eth + Least(b.elFees, margin)
      /\ withFees.elFees = b.elFees - Least(b.elFees, margin)
      /\ withFees.committedBalance = b.committedBalance
      /\ withFees.exceedingEth = b.exceedingEth
      /\ withFees.coverage = b.coverage
      /\ withFees.redeemEth = b.redeemEth
  BY ELFeesPulled
<1> HIDE DEF withFees
<1>5. left1 = margin - Least(b.elFees, margin) /\ left1 \in Nat BY <1>2, <1>3, <1>4
<1> HIDE DEF left1
<1>6. /\ Least(withFees.exceedingEth, left1) \in Nat
      /\ Least(withFees.exceedingEth, left1) <= left1
  BY <1>2, <1>4, <1>5 DEF Least
<1>7. /\ Sound(withExceeding)
      /\ SameShares(withFees, withExceeding) /\ SameExits(withFees, withExceeding)
      /\ withExceeding.eth = withFees.eth + Least(withFees.exceedingEth, left1)
      /\ withExceeding.exceedingEth = withFees.exceedingEth - Least(withFees.exceedingEth, left1)
      /\ withExceeding.committedBalance = withFees.committedBalance
      /\ withExceeding.elFees = withFees.elFees
      /\ withExceeding.coverage = withFees.coverage
      /\ withExceeding.redeemEth = withFees.redeemEth
  BY <1>4, <1>5, ExceedingEthPulled
<1> HIDE DEF withExceeding
<1>8. left2 = left1 - Least(withFees.exceedingEth, left1) /\ left2 \in Nat
  BY <1>2, <1>3, <1>4, <1>5, <1>6, <1>7
<1> HIDE DEF left2
<1>9. /\ Least(withExceeding.coverage, left2) \in Nat
      /\ Least(withExceeding.coverage, left2) <= left2
  BY <1>2, <1>4, <1>7, <1>8 DEF Least
<1>10. /\ Sound(c)
       /\ SameShares(withExceeding, c) /\ SameExits(withExceeding, c)
       /\ c.eth = withExceeding.eth + Least(withExceeding.coverage, left2)
       /\ c.coverage = withExceeding.coverage - Least(withExceeding.coverage, left2)
       /\ c.committedBalance = withExceeding.committedBalance
       /\ c.elFees = withExceeding.elFees
       /\ c.exceedingEth = withExceeding.exceedingEth
       /\ c.redeemEth = withExceeding.redeemEth
  BY <1>7, <1>8, CoverageFundsPulled
<1>11. c = Funded(b, margin) BY DEF Funded, withFees, left1, withExceeding, left2
<1> HIDE DEF c
<1>12. SameShares(b, c) /\ SameExits(b, c)
  BY <1>4, <1>7, <1>10 DEF SameShares, SameExits
<1>13. /\ c.eth >= b.eth + Least(b.elFees, margin)
       /\ c.eth <= b.eth + margin
       /\ c.eth - b.eth = (b.elFees - c.elFees) + (b.exceedingEth - c.exceedingEth)
                           + (b.coverage - c.coverage)
  BY <1>2, <1>3, <1>4, <1>5, <1>6, <1>7, <1>8, <1>9, <1>10
<1> QED BY <1>4, <1>7, <1>10, <1>11, <1>12, <1>13

\* A fee of "fee" parts in "points" of the rewards r, minted on a balance a that
\* they are part of, leaves the shares there were what the rest of it is worth.
LEMMA FeeIsPaidByRewards ==
  ASSUME NEW a \in Nat, NEW r \in Nat, NEW t \in Nat, NEW fee \in Nat, NEW points \in Nat,
         points > 0, fee <= points, r <= a,
         NEW minted \in Nat, minted * (a * points - r * fee) <= r * t * fee,
         NEW before \in Nat, before <= a - r
  PROVE  before * minted <= r * t
<1> DEFINE denominator == a * points - r * fee
           rt == r * t
           mb == before * minted
<1>1. /\ a * points \in Nat /\ r * points \in Nat /\ r * fee \in Nat /\ rt \in Nat /\ mb \in Nat
      /\ before * points \in Nat
  BY ProductIsNat
<1>2. r * fee <= r * points BY ProductsGrow
<1>3. (a - r) * points = a * points - r * points BY Distributes
<1>4. before * points <= (a - r) * points BY ProductsGrow
<1>5. before * points <= denominator /\ denominator \in Int BY <1>1, <1>2, <1>3, <1>4
<1> HIDE DEF denominator, rt, mb
<1>6. (before * points) * minted <= denominator * minted BY <1>1, <1>5, ProductsGrow
<1>7. (before * points) * minted = mb * points BY DEF mb
<1>8. denominator * minted <= rt * fee BY <1>5 DEF denominator, rt
<1>9. rt * fee <= rt * points BY <1>1, ProductsGrow
<1>10. /\ mb * points \in Int /\ rt * points \in Int /\ rt * fee \in Int
       /\ denominator * minted \in Int
  BY <1>1, <1>5
<1>11. mb * points <= rt * points BY <1>6, <1>7, <1>8, <1>9, <1>10
<1>12. mb <= rt BY <1>1, <1>11, FactorCancels
<1> QED BY <1>12 DEF mb, rt

LEMMA FeesMinted ==
  ASSUME NEW b, Sound(b), NEW report \in Report,
         report.validatorsCount <= b.depositedValidatorCount,
         NEW rewards \in Nat, rewards <= AssetBalance(b, report),
         globalFee \in 0..BasisPoints
  PROVE  LET c == OnEarnings(b, report, rewards)
         IN  /\ Sound(c)
             /\ SameEth(b, c) /\ SameFunds(b, c) /\ SameExits(b, c)
             /\ c.redeemDemand = b.redeemDemand
             /\ c.totalSupply >= b.totalSupply
             /\ b.totalSupply = 0 => c.totalSupply = 0
             /\ \A before \in Nat :
                  before <= AssetBalance(b, report) - rewards =>
                    before * (c.totalSupply - b.totalSupply) <= rewards * b.totalSupply
<1> DEFINE a == AssetBalance(b, report)
           t == b.totalSupply
           denominator == a * BasisPoints - rewards * globalFee
           minted == IF denominator = 0 THEN 0
                     ELSE (rewards * b.totalSupply * globalFee) \div denominator
           c == MintRawShares(b, Collector, minted)
<1>1. /\ a \in Nat /\ t \in Nat
      /\ BasisPoints \in Nat /\ BasisPoints > 0
      /\ globalFee \in Nat /\ globalFee <= BasisPoints
  BY BalanceFollowsEth, RiverAssumption DEF Sound, Books
<1>2. denominator \in Nat
  <2>1. rewards * globalFee <= rewards * BasisPoints BY <1>1, ProductsGrow
  <2>2. rewards * BasisPoints <= a * BasisPoints BY <1>1, ProductsGrow
  <2>3. a * BasisPoints \in Nat /\ rewards * globalFee \in Nat /\ rewards * BasisPoints \in Nat
    BY <1>1, ProductIsNat
  <2> QED BY <2>1, <2>2, <2>3
<1> HIDE DEF a, denominator
<1>3. rewards * t * globalFee \in Nat
  <2>1. rewards * t \in Nat BY <1>1, ProductIsNat
  <2> QED BY <1>1, <2>1, ProductIsNat
<1>4. minted \in Nat /\ minted * denominator <= rewards * t * globalFee
  <2>1. CASE denominator = 0 BY <1>3, <2>1
  <2>2. CASE denominator # 0
    <3> DEFINE n == rewards * t * globalFee
    <3>1. n \in Nat /\ denominator > 0 /\ minted = n \div denominator BY <1>2, <1>3, <2>2
    <3> HIDE DEF n
    <3>2. n \div denominator \in Nat /\ denominator * (n \div denominator) <= n
      BY <1>2, <3>1, Quotient, QuotientIsNat
    <3> QED BY <1>2, <3>1, <3>2 DEF n
  <2> QED BY <2>1, <2>2
<1>5. t = 0 => minted = 0
  <2> SUFFICES ASSUME t = 0 PROVE minted = 0 OBVIOUS
  <2>1. rewards * t * globalFee = 0 BY <1>1
  <2>2. denominator # 0 => 0 \div denominator = 0 BY <1>2
  <2> QED BY <2>1, <2>2
<1> HIDE DEF minted
<1>6. /\ c \in Books
      /\ c.totalSupply = SumFunctionOnSet(c.balanceOf, Holder)
      /\ c.balanceOf[RedeemManager] >= b.balanceOf[RedeemManager]
      /\ c.totalSupply = b.totalSupply + minted
      /\ c.redeemDemand = b.redeemDemand
      /\ SameEth(b, c) /\ SameFunds(b, c) /\ SameExits(b, c)
  BY <1>4, SharesAreMinted, HoldersAreFinite
<1>7. c = OnEarnings(b, report, rewards)
  BY DEF OnEarnings, minted, denominator, a
<1> HIDE DEF c
<1>8. Sound(c)
  <2>1. b.redeemDemand <= b.balanceOf[RedeemManager] BY DEF Sound
  <2>2. b.redeemDemand \in Nat /\ b.balanceOf[RedeemManager] \in Nat /\ c.balanceOf[RedeemManager] \in Nat
    BY <1>6, HoldersAreFinite DEF Sound, Books
  <2>3. c.redeemDemand <= c.balanceOf[RedeemManager] BY <1>6, <2>1, <2>2
  <2> QED BY <1>6, <2>3 DEF Sound, SameEth, SameExits, Exits
<1>9. ASSUME NEW before \in Nat, before <= a - rewards
      PROVE  before * (c.totalSupply - b.totalSupply) <= rewards * b.totalSupply
  <2>1. c.totalSupply - b.totalSupply = minted BY <1>1, <1>4, <1>6
  <2>2. before * minted <= rewards * t
    BY <1>1, <1>4, <1>9, FeeIsPaidByRewards DEF denominator, a
  <2> QED BY <2>1, <2>2
<1>10. c.totalSupply >= t /\ (t = 0 => c.totalSupply = 0) BY <1>1, <1>4, <1>5, <1>6
<1>11. ASSUME NEW before \in Nat, before <= AssetBalance(b, report) - rewards
       PROVE  before * (c.totalSupply - b.totalSupply) <= rewards * b.totalSupply
  BY <1>9, <1>11 DEF a
<1> QED BY <1>6, <1>7, <1>8, <1>10, <1>11

LEMMA StoppedReported ==
  ASSUME NEW b, Sound(b), NEW stopped \in Nat, NEW unsolicited \in Nat,
         b.stopped <= stopped, stopped <= b.depositedValidatorCount,
         stopped - b.exitsRequested <= unsolicited,
         b.exitsRequested + unsolicited <= b.depositedValidatorCount
  PROVE  LET c == ReportStoppedValidatorCounts(b, stopped, unsolicited)
         IN  /\ Sound(c)
             /\ SameEth(b, c) /\ SameFunds(b, c) /\ SameShares(b, c)
             /\ c.depositedValidatorCount = b.depositedValidatorCount
             /\ c.exitsDemand <= b.exitsDemand
<1> DEFINE c == ReportStoppedValidatorCounts(b, stopped, unsolicited)
           forgotten == Least(unsolicited, b.exitsDemand)
<1>1. b \in Books BY DEF Sound
<1>2. /\ b.exitsRequested \in Nat /\ b.exitsDemand \in Nat /\ b.depositedValidatorCount \in Nat
      /\ b.exitsRequested + unsolicited \in Nat
  BY <1>1 DEF Books
<1>3. /\ b.exitsDemand - forgotten \in Nat
      /\ b.exitsDemand - forgotten <= b.exitsDemand
      /\ b.exitsRequested + unsolicited + (b.exitsDemand - forgotten) <= b.depositedValidatorCount
  BY <1>2 DEF Least, Sound, Exits
<1> HIDE DEF forgotten
<1>4. c = [b EXCEPT !.stopped = stopped, !.exitsRequested = @ + unsolicited,
                    !.exitsDemand = @ - forgotten]
  BY DEF ReportStoppedValidatorCounts, forgotten
<1> HIDE DEF c
<1>5. c \in Books BY <1>1, <1>2, <1>3, <1>4 DEF Books
<1>6. /\ c.stopped = stopped
      /\ c.exitsRequested = b.exitsRequested + unsolicited
      /\ c.exitsDemand = b.exitsDemand - forgotten
      /\ c.depositedValidatorCount = b.depositedValidatorCount
  BY <1>1, <1>4 DEF Books
<1>7. SameEth(b, c) /\ SameFunds(b, c) /\ SameShares(b, c)
  BY <1>1, <1>4 DEF Books, SameEth, SameFunds, SameShares
<1>8. c.stopped <= c.exitsRequested /\ Exits(c) <= c.depositedValidatorCount
  BY <1>2, <1>3, <1>6 DEF Exits
<1>9. Sound(c) BY <1>5, <1>7, <1>8 DEF Sound, SameEth, SameShares
<1> QED BY <1>3, <1>6, <1>7, <1>9 DEF c

LEMMA ExitsDemanded ==
  ASSUME NEW b, Sound(b), NEW count \in Nat
  PROVE  LET c == DemandValidatorExits(b, count)
         IN  /\ Sound(c)
             /\ SameEth(b, c) /\ SameFunds(b, c) /\ SameShares(b, c)
             /\ c.depositedValidatorCount = b.depositedValidatorCount
             /\ c.exitsRequested = b.exitsRequested
             /\ c.stopped = b.stopped
             /\ c.exitsDemand <= b.exitsDemand + count
             /\ \/ c.exitsDemand = b.exitsDemand + count
                \/ Exits(c) = c.depositedValidatorCount
<1> DEFINE c == DemandValidatorExits(b, count)
           more == Least(count, b.depositedValidatorCount - (b.exitsRequested + b.exitsDemand))
<1>1. b \in Books BY DEF Sound
<1>2. b.exitsRequested \in Nat /\ b.exitsDemand \in Nat /\ b.depositedValidatorCount \in Nat
  BY <1>1 DEF Books
<1>3. /\ more \in Nat /\ b.exitsDemand + more \in Nat /\ more <= count
      /\ b.exitsRequested + b.exitsDemand + more <= b.depositedValidatorCount
      /\ \/ more = count
         \/ b.exitsRequested + b.exitsDemand + more = b.depositedValidatorCount
  BY <1>2 DEF Least, Sound, Exits
<1> HIDE DEF more
<1>4. c = [b EXCEPT !.exitsDemand = @ + more] BY DEF DemandValidatorExits, more
<1> HIDE DEF c
<1>5. c \in Books BY <1>1, <1>3, <1>4 DEF Books
<1>6. /\ c.stopped = b.stopped
      /\ c.exitsRequested = b.exitsRequested
      /\ c.exitsDemand = b.exitsDemand + more
      /\ c.depositedValidatorCount = b.depositedValidatorCount
  BY <1>1, <1>4 DEF Books
<1>7. SameEth(b, c) /\ SameFunds(b, c) /\ SameShares(b, c)
  BY <1>1, <1>4 DEF Books, SameEth, SameFunds, SameShares
<1>8. /\ Exits(c) <= c.depositedValidatorCount
      /\ c.exitsDemand <= b.exitsDemand + count
      /\ \/ c.exitsDemand = b.exitsDemand + count
         \/ Exits(c) = c.depositedValidatorCount
  BY <1>2, <1>3, <1>6 DEF Exits
<1>9. Sound(c) BY <1>5, <1>6, <1>7, <1>8 DEF Sound, SameEth, SameShares
<1> QED BY <1>6, <1>7, <1>8, <1>9 DEF c

LEMMA RoundedUp ==
  ASSUME NEW a \in Nat, NEW d \in Nat, d > 0
  PROVE  /\ Ceil(a, d) \in Nat
         /\ Ceil(a, d) * d >= a
         /\ (Ceil(a, d) - 1) * d < a
<1> DEFINE k == (a + d - 1) \div d
<1>1. a + d - 1 \in Nat OBVIOUS
<1>2. k \in Nat /\ d * k <= a + d - 1 /\ a + d - 1 < d * k + d
  BY <1>1, Quotient, QuotientIsNat
<1> HIDE DEF k
<1>3. d * k = k * d /\ (k - 1) * d = k * d - d /\ k * d \in Nat
  BY <1>2, ProductIsNat
<1>4. Ceil(a, d) = k BY DEF Ceil, k
<1> QED BY <1>2, <1>3, <1>4

\* The redeem demand is worth part of the balance.
LEMMA DemandIsWorth ==
  ASSUME NEW b, Sound(b), NEW report \in Report,
         report.validatorsCount <= b.depositedValidatorCount
  PROVE  LET demanded == DemandInEth(b, report)
             balance == AssetBalance(b, report)
         IN  /\ demanded \in Nat
             /\ b.totalSupply = 0 => demanded = 0
             /\ b.totalSupply * demanded <= b.redeemDemand * balance
             /\ b.totalSupply > 0 =>
                  b.redeemDemand * balance < b.totalSupply * demanded + b.totalSupply
             /\ demanded <= balance
             /\ b.redeemDemand <= b.totalSupply
<1> DEFINE t == b.totalSupply
           a == AssetBalance(b, report)
           r == b.redeemDemand
<1>1. t \in Nat /\ r \in Nat BY DEF Sound, Books
<1>2. a \in Nat BY BalanceFollowsEth
<1>3. r <= t
  <2>1. r <= b.balanceOf[RedeemManager] BY DEF Sound
  <2>2. b.balanceOf[RedeemManager] \in Nat /\ b.balanceOf[RedeemManager] <= t
    BY NoneHasMore, HoldersAreFinite
  <2> QED BY <1>1, <2>1, <2>2
<1>4. DemandInEth(b, report) = IF t = 0 THEN 0 ELSE (r * a) \div t
  BY DEF DemandInEth, BalanceFromShares
<1> HIDE DEF t, a, r
<1>5. CASE t = 0
  BY <1>1, <1>2, <1>3, <1>4, <1>5, ProductIsNat DEF t, a, r
<1>6. CASE t # 0
  <2> DEFINE p == r * a
             q == p \div t
  <2>1. p \in Nat BY <1>1, <1>2, ProductIsNat
  <2> HIDE DEF p
  <2>2. q \in Nat /\ t * q <= p /\ p < t * q + t
    BY <1>1, <1>6, <2>1, Quotient, QuotientIsNat
  <2>3. DemandInEth(b, report) = q BY <1>4, <1>6 DEF p
  <2> HIDE DEF q
  <2>4. p <= t * a BY <1>1, <1>2, <1>3, ProductsGrow DEF p
  <2>5. q <= a
    <3>1. t * q = q * t /\ t * a = a * t /\ q * t \in Nat /\ a * t \in Nat
      BY <1>1, <1>2, <2>2, ProductIsNat
    <3>2. q * t <= a * t BY <2>1, <2>2, <2>4, <3>1
    <3> QED BY <1>1, <1>2, <1>6, <2>2, <3>2, FactorCancels
  <2> QED BY <1>1, <1>3, <1>6, <2>2, <2>3, <2>5 DEF t, a, r, p
<1> QED BY <1>5, <1>6

LEMMA BalanceRebalanced ==
  ASSUME NEW b, Sound(b), NEW report \in Report, NEW allowed \in BOOLEAN,
         report.validatorsCount <= b.depositedValidatorCount
  PROVE  LET c == Rebalanced(b, report, allowed)
         IN  /\ Sound(c)
             /\ SameShares(b, c) /\ SameExits(b, c) /\ SameFunds(b, c)
             /\ c.eth = b.eth
             /\ c.committedBalance = b.committedBalance
             /\ AssetBalance(c, report) = AssetBalance(b, report)
             /\ DemandInEth(c, report) = DemandInEth(b, report)
<1> DEFINE c == Rebalanced(b, report, allowed)
           missing == MissingEth(b, report)
           amount == IF allowed THEN Least(b.balanceToDeposit, Greatest(missing, 0)) ELSE 0
<1>1. b \in Books BY DEF Sound
<1>2. /\ b.balanceToDeposit \in Nat /\ b.balanceToRedeem \in Nat /\ b.committedBalance \in Nat
      /\ report.validatorsExitingBalance \in Nat /\ b.eth \in Nat
  BY <1>1 DEF Books, Report
<1>3. missing \in Int BY <1>2, DemandIsWorth DEF MissingEth
<1> HIDE DEF missing
<1>4. /\ amount \in Nat
      /\ b.balanceToDeposit - amount \in Nat
      /\ b.balanceToRedeem + amount \in Nat
  BY <1>2, <1>3 DEF Least, Greatest
<1> HIDE DEF amount
<1>5. c = [b EXCEPT !.balanceToRedeem = @ + amount, !.balanceToDeposit = @ - amount]
  BY DEF Rebalanced, amount, missing
<1> HIDE DEF c
<1>6. c \in Books BY <1>1, <1>4, <1>5 DEF Books
<1>7. /\ c.balanceToRedeem = b.balanceToRedeem + amount
      /\ c.balanceToDeposit = b.balanceToDeposit - amount
      /\ c.committedBalance = b.committedBalance
      /\ c.eth = b.eth
  BY <1>1, <1>5 DEF Books
<1>8. SameShares(b, c) /\ SameExits(b, c) /\ SameFunds(b, c)
  BY <1>1, <1>5 DEF Books, SameShares, SameExits, SameFunds
<1>9. /\ c.eth = c.balanceToDeposit + c.committedBalance + c.balanceToRedeem
      /\ c.committedBalance % DepositSize = 0
  BY <1>2, <1>4, <1>7 DEF Sound
<1>10. Sound(c) BY <1>6, <1>8, <1>9, OnlyEthMoves
<1>11. AssetBalance(c, report) = AssetBalance(b, report)
  BY <1>7, <1>8, <1>10, BalanceFollowsEth DEF SameExits
<1>12. DemandInEth(c, report) = DemandInEth(b, report)
  BY <1>8, <1>11 DEF DemandInEth, BalanceFromShares, SameShares
<1> QED BY <1>7, <1>8, <1>10, <1>11, <1>12 DEF c

\* Validators asked to exit, or about to be, that have not stopped.
UnderWay(b) == Exits(b) - b.stopped

\* Once exits are requested, the ETH the demand still needs is on its way, or
\* every validator is; and the last exit demanded was needed.
ExitsSuffice(b, report) ==
  \/ DemandInEth(b, report) - b.balanceToRedeem
       <= report.validatorsExitingBalance + UnderWay(b) * DepositSize
  \/ Exits(b) = b.depositedValidatorCount

LastExitIsNeeded(b, report) ==
  report.validatorsExitingBalance + (UnderWay(b) - 1) * DepositSize
    < DemandInEth(b, report) - b.balanceToRedeem

LEMMA ExitsRequested ==
  ASSUME NEW b, Sound(b), NEW report \in Report, NEW rebalancing \in BOOLEAN,
         report.validatorsCount <= b.depositedValidatorCount
  PROVE  LET c == RequestExits(b, report, rebalancing)
         IN  /\ Sound(c)
             /\ SameShares(b, c) /\ SameFunds(b, c)
             /\ c.eth = b.eth
             /\ c.committedBalance = b.committedBalance
             /\ c.depositedValidatorCount = b.depositedValidatorCount
             /\ report.slashingContainmentMode => c.exitsDemand = b.exitsDemand
             /\ ~report.slashingContainmentMode => ExitsSuffice(c, report)
             /\ c.exitsDemand > b.exitsDemand => LastExitIsNeeded(c, report)
             /\ c.exitsDemand > b.exitsDemand => DemandInEth(c, report) > c.balanceToRedeem
<1> DEFINE c == RequestExits(b, report, rebalancing)
           d == Rebalanced(b, report, rebalancing)
           missing == MissingEth(d, report) - PreExitingBalance(d)
           count == Ceil(missing, DepositSize)
           demanded == DemandInEth(d, report)
           exiting == report.validatorsExitingBalance
<1>1. /\ Sound(d)
      /\ SameShares(b, d) /\ SameExits(b, d) /\ SameFunds(b, d)
      /\ d.eth = b.eth
      /\ d.committedBalance = b.committedBalance
      /\ AssetBalance(d, report) = AssetBalance(b, report)
      /\ demanded = DemandInEth(b, report)
  BY BalanceRebalanced
<1>2. c = IF report.slashingContainmentMode \/ b.totalSupply = 0 THEN b
          ELSE IF missing > 0 THEN DemandValidatorExits(d, count)
          ELSE d
  BY DEF RequestExits
<1>3. /\ report.validatorsCount <= d.depositedValidatorCount
      /\ d.exitsDemand = b.exitsDemand
  BY <1>1 DEF SameExits
<1>4. /\ demanded \in Nat
      /\ exiting \in Nat
      /\ d.balanceToRedeem \in Nat /\ d.exitsDemand \in Nat
      /\ UnderWay(d) \in Nat
      /\ DepositSize \in Nat /\ DepositSize > 0
  <2>1. demanded \in Nat BY <1>1, <1>3, DemandIsWorth
  <2> HIDE DEF demanded, d
  <2>2. UnderWay(d) \in Nat BY <1>1 DEF Sound, Books, UnderWay, Exits
  <2> QED BY <1>1, <2>1, <2>2, RiverAssumption DEF Sound, Books, Report
<1> HIDE DEF d
<1>5. /\ missing = demanded - d.balanceToRedeem - exiting - UnderWay(d) * DepositSize
      /\ missing \in Int
      /\ UnderWay(d) * DepositSize \in Nat
  <2>1. PreExitingBalance(d) = UnderWay(d) * DepositSize
    <3>1. d.exitsRequested + d.exitsDemand - d.stopped = UnderWay(d)
      BY <1>1 DEF UnderWay, Exits, Sound, Books
    <3>2. Greatest(UnderWay(d), 0) = UnderWay(d) BY <1>4 DEF Greatest
    <3> QED BY <3>1, <3>2 DEF PreExitingBalance
  <2>2. UnderWay(d) * DepositSize \in Nat BY <1>4, ProductIsNat
  <2>3. MissingEth(d, report) = demanded - d.balanceToRedeem - exiting BY DEF MissingEth
  <2> QED BY <1>4, <2>1, <2>2, <2>3
<1> HIDE DEF missing, demanded, exiting
<1>6. CASE report.slashingContainmentMode \/ b.totalSupply = 0
  <2>1. c = b BY <1>2, <1>6
  <2>2. ~report.slashingContainmentMode => ExitsSuffice(b, report)
    <3> SUFFICES ASSUME ~report.slashingContainmentMode PROVE ExitsSuffice(b, report) OBVIOUS
    <3>1. DemandInEth(b, report) = 0 BY <1>6, DemandIsWorth
    <3>2. b.balanceToRedeem \in Nat /\ UnderWay(b) \in Nat
      BY DEF Sound, Books, UnderWay, Exits
    <3>3. UnderWay(b) * DepositSize \in Nat BY <1>4, <3>2, ProductIsNat
    <3> QED BY <1>4, <3>1, <3>2, <3>3 DEF ExitsSuffice, exiting
  <2>3. ~ (b.exitsDemand > b.exitsDemand) BY DEF Sound, Books
  <2> QED BY <2>1, <2>2, <2>3 DEF SameShares, SameFunds, c
<1>7. CASE ~(report.slashingContainmentMode \/ b.totalSupply = 0) /\ missing <= 0
  <2>1. c = d BY <1>2, <1>5, <1>7
  <2>2. ExitsSuffice(d, report) BY <1>4, <1>5, <1>7 DEF ExitsSuffice, demanded, exiting
  <2>3. ~ (d.exitsDemand > b.exitsDemand) BY <1>3, <1>4
  <2>4. d.depositedValidatorCount = b.depositedValidatorCount BY <1>1 DEF SameExits
  <2> QED BY <1>1, <1>7, <2>1, <2>2, <2>3, <2>4 DEF c
<1>8. CASE ~(report.slashingContainmentMode \/ b.totalSupply = 0) /\ missing > 0
  <2>1. c = DemandValidatorExits(d, count) BY <1>2, <1>8
  <2>2. /\ count \in Nat
        /\ count * DepositSize >= missing
        /\ (count - 1) * DepositSize < missing
    BY <1>4, <1>5, <1>8, RoundedUp
  <2> HIDE DEF count, c
  <2>3. /\ Sound(c)
        /\ SameEth(d, c) /\ SameFunds(d, c) /\ SameShares(d, c)
        /\ c.depositedValidatorCount = d.depositedValidatorCount
        /\ c.exitsRequested = d.exitsRequested
        /\ c.stopped = d.stopped
        /\ c.exitsDemand <= d.exitsDemand + count
        /\ \/ c.exitsDemand = d.exitsDemand + count
           \/ Exits(c) = c.depositedValidatorCount
    BY <1>1, <2>1, <2>2, ExitsDemanded
  <2>4. DemandInEth(c, report) = demanded /\ c.balanceToRedeem = d.balanceToRedeem
    BY <2>3 DEF DemandInEth, BalanceFromShares, AssetBalance, SameEth, SameShares, demanded
  <2>5. /\ UnderWay(c) \in Int
        /\ UnderWay(c) <= UnderWay(d) + count
        /\ c.exitsDemand = d.exitsDemand + count => UnderWay(c) = UnderWay(d) + count
    BY <1>1, <2>2, <2>3 DEF Sound, Books, UnderWay, Exits
  <2>6. ExitsSuffice(c, report)
    <3>1. CASE Exits(c) = c.depositedValidatorCount BY <3>1 DEF ExitsSuffice
    <3>2. CASE c.exitsDemand = d.exitsDemand + count
      <4>1. UnderWay(c) * DepositSize = UnderWay(d) * DepositSize + count * DepositSize
        BY <1>4, <2>2, <2>5, <3>2, Distributes
      <4>2. count * DepositSize \in Nat BY <1>4, <2>2, ProductIsNat
      <4>3. demanded - d.balanceToRedeem <= exiting + UnderWay(c) * DepositSize
        BY <1>4, <1>5, <2>2, <4>1, <4>2
      <4> QED BY <2>4, <4>3 DEF ExitsSuffice, exiting
    <3> QED BY <2>3, <3>1, <3>2
  <2>7. LastExitIsNeeded(c, report)
    <3>1. (UnderWay(c) - 1) * DepositSize <= (UnderWay(d) + (count - 1)) * DepositSize
      BY <1>4, <2>2, <2>5, ProductsGrow
    <3>2. (UnderWay(d) + (count - 1)) * DepositSize
            = UnderWay(d) * DepositSize + (count - 1) * DepositSize
      BY <1>4, <2>2, Distributes
    <3>3. (UnderWay(c) - 1) * DepositSize \in Int /\ (count - 1) * DepositSize \in Int
      BY <1>4, <2>2, <2>5
    <3>4. exiting + (UnderWay(c) - 1) * DepositSize < demanded - d.balanceToRedeem
      BY <1>4, <1>5, <2>2, <3>1, <3>2, <3>3
    <3> QED BY <2>4, <3>4 DEF LastExitIsNeeded, exiting
  <2>8. DemandInEth(c, report) > c.balanceToRedeem BY <1>4, <1>5, <1>8, <2>4
  <2>9. /\ SameShares(b, c) /\ SameFunds(b, c)
        /\ c.eth = b.eth
        /\ c.committedBalance = b.committedBalance
        /\ c.depositedValidatorCount = b.depositedValidatorCount
    BY <1>1, <2>3 DEF SameShares, SameFunds, SameEth, SameExits
  <2> QED BY <1>8, <2>3, <2>6, <2>7, <2>8, <2>9 DEF c
<1> QED BY <1>5, <1>6, <1>7, <1>8

\* Handing over what a share is worth, rounded against the holders who stay by
\* less than a share, leaves the value of theirs: with e ETH for s of t shares of
\* a balance a, of which r are demanded.
LEMMA PartOfTheDemand ==
  ASSUME NEW a \in Nat, NEW t \in Nat, NEW r \in Nat, r <= t, NEW e \in Nat, a > 0, t > 0,
         e * t < r * a,
         NEW s \in Nat, s = (e * t) \div a
  PROVE  /\ s <= r
         /\ a * s <= e * t
         /\ e * t < a * s + a
<1> DEFINE p == e * t
<1>1. p \in Nat BY ProductIsNat
<1> HIDE DEF p
<1>2. a * s <= p /\ p < a * s + a BY <1>1, Quotient DEF p
<1>3. s <= r
  <2>1. s * a = a * s /\ a * s \in Nat /\ r * a \in Nat BY ProductIsNat
  <2>2. s * a <= r * a BY <1>1, <1>2, <2>1 DEF p
  <2> QED BY <2>2, FactorCancels
<1> QED BY <1>2, <1>3 DEF p

\* What a report hands over of the demand, for how many shares.
Supplied(b, report) == Least(DemandInEth(b, report), b.balanceToRedeem)

Redeemed(b, report) ==
  IF Supplied(b, report) = 0 THEN 0
  ELSE IF DemandInEth(b, report) > b.balanceToRedeem
         THEN SharesFromBalance(b, report, Supplied(b, report))
  ELSE b.redeemDemand

\* All of the demand is redeemed, or the shares the ETH set aside pays for.
LEMMA DemandRedeemed ==
  ASSUME NEW b, Sound(b), NEW report \in Report,
         report.validatorsCount <= b.depositedValidatorCount
  PROVE  LET demanded == DemandInEth(b, report)
             balance == AssetBalance(b, report)
             supplied == Supplied(b, report)
             shares == Redeemed(b, report)
         IN  /\ supplied \in Nat /\ shares \in Nat
             /\ supplied <= balance /\ supplied <= b.balanceToRedeem /\ supplied <= demanded
             /\ shares <= b.redeemDemand
             /\ \/ supplied = 0 /\ shares = 0
                \/ /\ supplied = demanded /\ supplied > 0 /\ demanded <= b.balanceToRedeem
                   /\ shares = b.redeemDemand
                   /\ b.totalSupply > 0
                \/ /\ demanded > supplied /\ supplied = b.balanceToRedeem /\ supplied > 0
                   /\ b.totalSupply > 0
                   /\ balance * shares <= supplied * b.totalSupply
                   /\ supplied * b.totalSupply < balance * shares + balance
<1> DEFINE demanded == DemandInEth(b, report)
           a == AssetBalance(b, report)
           t == b.totalSupply
           r == b.redeemDemand
           e == Supplied(b, report)
           s == Redeemed(b, report)
           k == b.balanceToRedeem
<1>1. /\ t \in Nat /\ r \in Nat /\ k \in Nat BY DEF Sound, Books
<1>2. /\ demanded \in Nat
      /\ t = 0 => demanded = 0
      /\ t * demanded <= r * a
      /\ demanded <= a
      /\ r <= t
      /\ a \in Nat
  BY DemandIsWorth, BalanceFollowsEth
<1>3. e = Least(demanded, k) BY DEF Supplied
<1>4. /\ e = 0 => s = 0
      /\ e # 0 /\ demanded > k => s = SharesFromBalance(b, report, e)
      /\ e # 0 /\ ~(demanded > k) => s = r
  BY DEF Redeemed
<1>5. SharesFromBalance(b, report, e) = IF a = 0 THEN 0 ELSE (e * t) \div a
  BY DEF SharesFromBalance
<1> HIDE DEF demanded, a, t, r, e, s, k
<1>6. /\ e \in Nat /\ e <= demanded /\ e <= k
      /\ demanded > k => e = k
      /\ ~(demanded > k) => e = demanded
      /\ e <= a
      /\ e > 0 => t > 0 /\ a > 0
  BY <1>1, <1>2, <1>3 DEF Least
<1>7. CASE e = 0 BY <1>1, <1>2, <1>4, <1>6, <1>7 DEF demanded, a, t, r, e, s, k
<1>8. CASE e # 0 /\ ~(demanded > k)
  BY <1>1, <1>2, <1>4, <1>6, <1>8 DEF demanded, a, t, r, e, s, k
<1>9. CASE e # 0 /\ demanded > k
  <2>1. a > 0 /\ t > 0 /\ s = (e * t) \div a /\ e < demanded
    BY <1>1, <1>2, <1>4, <1>5, <1>6, <1>9
  <2>2. e * t < r * a
    <3>1. e * t <= (demanded - 1) * t BY <1>1, <1>2, <1>6, <2>1, ProductsGrow
    <3>2. (demanded - 1) * t = t * demanded - t BY <1>1, <1>2
    <3>3. e * t \in Nat /\ t * demanded \in Nat /\ r * a \in Nat
      BY <1>1, <1>2, <1>6, ProductIsNat
    <3> QED BY <1>1, <1>2, <2>1, <3>1, <3>2, <3>3
  <2>3. s \in Nat
    <3>1. e * t \in Nat BY <1>1, <1>6, ProductIsNat
    <3> QED BY <1>2, <2>1, <3>1, QuotientIsNat
  <2>4. s <= r /\ a * s <= e * t /\ e * t < a * s + a
    BY <1>1, <1>2, <1>6, <2>1, <2>2, <2>3, PartOfTheDemand
  <2> QED BY <1>6, <1>9, <2>1, <2>3, <2>4 DEF demanded, a, t, r, e, s, k
<1> QED BY <1>7, <1>8, <1>9

LEMMA WithdrawReported ==
  ASSUME NEW b, Sound(b), NEW report \in Report,
         report.validatorsCount <= b.depositedValidatorCount
  PROVE  LET c == ReportWithdraw(b, report)
             supplied == Supplied(b, report)
             shares == Redeemed(b, report)
         IN  /\ Sound(c)
             /\ SameExits(b, c)
             /\ c.eth = b.eth - supplied
             /\ c.balanceToRedeem = b.balanceToRedeem - supplied
             /\ c.redeemEth = b.redeemEth + supplied
             /\ c.committedBalance = b.committedBalance
             /\ c.elFees = b.elFees
             /\ c.exceedingEth = b.exceedingEth
             /\ c.coverage = b.coverage
             /\ c.totalSupply = b.totalSupply - shares
             /\ c.redeemDemand = b.redeemDemand - shares
             /\ AssetBalance(c, report) = AssetBalance(b, report) - supplied
<1> DEFINE c == ReportWithdraw(b, report)
           e == Supplied(b, report)
           s == Redeemed(b, report)
           d == BurnRawShares(b, RedeemManager, s)
<1>1. /\ e \in Nat /\ s \in Nat
      /\ e <= b.balanceToRedeem
      /\ s <= b.redeemDemand
      /\ e = 0 => s = 0
  BY DemandRedeemed
<1>2. c = IF e = 0 THEN b
          ELSE [d EXCEPT !.balanceToRedeem = @ - e, !.eth = @ - e, !.redeemEth = @ + e,
                         !.redeemDemand = @ - s]
  BY DEF ReportWithdraw, Supplied, Redeemed
<1> HIDE DEF c, e, s
<1>3. /\ b \in Books
      /\ b.balanceToDeposit \in Nat /\ b.balanceToRedeem \in Nat /\ b.committedBalance \in Nat
      /\ b.eth \in Nat /\ b.redeemEth \in Nat /\ b.redeemDemand \in Nat /\ b.totalSupply \in Nat
      /\ b.balanceOf[RedeemManager] \in Nat
      /\ b.eth = b.balanceToDeposit + b.committedBalance + b.balanceToRedeem
      /\ b.redeemDemand <= b.balanceOf[RedeemManager]
      /\ b.committedBalance % DepositSize = 0
      /\ b.stopped <= b.exitsRequested
      /\ Exits(b) <= b.depositedValidatorCount
      /\ AssetBalance(b, report) \in Nat
  BY HoldersAreFinite, BalanceFollowsEth DEF Sound, Books
<1>4. CASE e = 0
  <2>1. c = b /\ s = 0 BY <1>1, <1>2, <1>4
  <2>2. SameExits(b, c) BY <2>1 DEF SameExits
  <2> QED BY <1>3, <1>4, <2>1, <2>2 DEF c, e, s
<1>5. CASE e # 0
  <2>1. c = [d EXCEPT !.balanceToRedeem = @ - e, !.eth = @ - e, !.redeemEth = @ + e,
                      !.redeemDemand = @ - s]
    BY <1>2, <1>5
  <2>2. /\ d \in Books
        /\ d.totalSupply = SumFunctionOnSet(d.balanceOf, Holder)
        /\ d.balanceOf[RedeemManager] = b.balanceOf[RedeemManager] - s
        /\ d.totalSupply = b.totalSupply - s
        /\ d.redeemDemand = b.redeemDemand
        /\ SameEth(b, d) /\ SameFunds(b, d) /\ SameExits(b, d)
    BY <1>1, <1>3, SharesAreBurned
  <2> HIDE DEF d
  <2>3. /\ d.balanceToRedeem - e \in Nat
        /\ d.eth - e \in Nat
        /\ d.redeemEth + e \in Nat
        /\ d.redeemDemand - s \in Nat
    BY <1>1, <1>3, <2>2 DEF SameEth, SameFunds
  <2>4. c \in Books BY <2>1, <2>2, <2>3 DEF Books
  <2>5. /\ c.balanceToRedeem = d.balanceToRedeem - e
        /\ c.eth = d.eth - e
        /\ c.redeemEth = d.redeemEth + e
        /\ c.redeemDemand = d.redeemDemand - s
        /\ c.balanceToDeposit = d.balanceToDeposit
        /\ c.committedBalance = d.committedBalance
        /\ c.totalSupply = d.totalSupply /\ c.balanceOf = d.balanceOf
        /\ c.elFees = d.elFees /\ c.exceedingEth = d.exceedingEth /\ c.coverage = d.coverage
        /\ SameExits(d, c)
    BY <2>1, <2>2 DEF Books, SameExits
  <2>6. SameExits(b, c) BY <2>2, <2>5 DEF SameExits
  <2>7. /\ c.eth = c.balanceToDeposit + c.committedBalance + c.balanceToRedeem
        /\ c.redeemDemand <= c.balanceOf[RedeemManager]
    BY <1>1, <1>3, <2>2, <2>5 DEF SameEth
  <2>8. Sound(c)
    BY <1>3, <2>2, <2>4, <2>5, <2>6, <2>7 DEF Sound, SameEth, SameExits, Exits
  <2>9. AssetBalance(c, report) = AssetBalance(b, report) - e
    <3>1. c.eth = b.eth - e BY <2>2, <2>5 DEF SameEth
    <3>2. report.validatorsCount <= c.depositedValidatorCount
          /\ c.depositedValidatorCount = b.depositedValidatorCount
      BY <2>6 DEF SameExits
    <3>3. AssetBalance(c, report) = AssetBalance(b, report) + (c.eth - b.eth)
      BY <2>8, <3>2, BalanceMoves
    <3> QED BY <1>1, <1>3, <3>1, <3>3
  <2> QED BY <2>2, <2>5, <2>6, <2>8, <2>9 DEF c, e, s, SameEth, SameFunds
<1> QED BY <1>4, <1>5

LEMMA ExcessSkimmed ==
  ASSUME NEW b, Sound(b)
  PROVE  LET c == SkimExcessBalanceToRedeem(b)
         IN  /\ Sound(c)
             /\ SameShares(b, c) /\ SameExits(b, c) /\ SameFunds(b, c)
             /\ c.eth = b.eth
             /\ c.committedBalance = b.committedBalance
<1> DEFINE c == SkimExcessBalanceToRedeem(b)
<1>1. b \in Books BY DEF Sound
<1>2. /\ b.balanceToDeposit \in Nat /\ b.balanceToRedeem \in Nat /\ b.committedBalance \in Nat
      /\ b.balanceToDeposit + b.balanceToRedeem \in Nat
  BY <1>1 DEF Books
<1>3. c = [b EXCEPT !.balanceToDeposit = @ + b.balanceToRedeem, !.balanceToRedeem = 0]
  BY DEF SkimExcessBalanceToRedeem
<1> HIDE DEF c
<1>4. c \in Books BY <1>1, <1>2, <1>3 DEF Books
<1>5. /\ c.balanceToDeposit = b.balanceToDeposit + b.balanceToRedeem
      /\ c.balanceToRedeem = 0
      /\ c.committedBalance = b.committedBalance
      /\ c.eth = b.eth
  BY <1>1, <1>3 DEF Books
<1>6. SameShares(b, c) /\ SameExits(b, c) /\ SameFunds(b, c)
  BY <1>1, <1>3 DEF Books, SameShares, SameExits, SameFunds
<1>7. c.eth = c.balanceToDeposit + c.committedBalance + c.balanceToRedeem
      /\ c.committedBalance % DepositSize = 0
  BY <1>2, <1>5 DEF Sound
<1> QED BY <1>4, <1>5, <1>6, <1>7, OnlyEthMoves DEF c

LEMMA BalanceCommitted ==
  ASSUME NEW b, Sound(b), NEW report \in Report, NEW elapsed \in Nat,
         report.validatorsCount <= b.depositedValidatorCount,
         dailyLimits \in [minDailyNet : Nat, maxDailyRelative : Nat]
  PROVE  LET c == CommitBalanceToDeposit(b, report, elapsed)
         IN  /\ Sound(c)
             /\ SameShares(b, c) /\ SameExits(b, c) /\ SameFunds(b, c)
             /\ c.eth = b.eth
             /\ report.slashingContainmentMode => c.committedBalance = b.committedBalance
<1> DEFINE c == CommitBalanceToDeposit(b, report, elapsed)
           relative == (dailyLimits.maxDailyRelative
                          * (AssetBalance(b, report) - b.balanceToDeposit)) \div BasisPoints
           daily == Greatest(dailyLimits.minDailyNet, relative)
           committable == Least((daily * elapsed) \div OneDay, b.balanceToDeposit)
           count == committable \div DepositSize
           amount == count * DepositSize
<1>1. b \in Books BY DEF Sound
<1>2. /\ b.balanceToDeposit \in Nat /\ b.balanceToRedeem \in Nat /\ b.committedBalance \in Nat
      /\ b.eth = b.balanceToDeposit + b.committedBalance + b.balanceToRedeem
      /\ b.committedBalance % DepositSize = 0
      /\ dailyLimits.minDailyNet \in Nat /\ dailyLimits.maxDailyRelative \in Nat
      /\ BasisPoints \in Nat /\ BasisPoints > 0
      /\ OneDay \in Nat /\ OneDay > 0
      /\ DepositSize \in Nat /\ DepositSize > 0
  BY <1>1, RiverAssumption DEF Sound, Books
<1>3. CASE report.slashingContainmentMode
  BY <1>3 DEF CommitBalanceToDeposit, SameShares, SameExits, SameFunds
<1>4. CASE ~report.slashingContainmentMode
  <2>1. relative \in Nat
    <3> DEFINE base == AssetBalance(b, report) - b.balanceToDeposit
               n == dailyLimits.maxDailyRelative * base
    <3>1. base \in Nat BY <1>2, BalanceFollowsEth
    <3> HIDE DEF base
    <3>2. n \in Nat BY <1>2, <3>1, ProductIsNat
    <3> HIDE DEF n
    <3>3. n \div BasisPoints \in Nat BY <1>2, <3>2, QuotientIsNat
    <3> QED BY <3>3 DEF n, base
  <2> HIDE DEF relative
  <2>2. daily \in Nat BY <1>2, <2>1 DEF Greatest
  <2> HIDE DEF daily
  <2>3. committable \in Nat /\ committable <= b.balanceToDeposit
    <3> DEFINE n == daily * elapsed
               q == n \div OneDay
    <3>1. n \in Nat BY <2>2, ProductIsNat
    <3> HIDE DEF n
    <3>2. q \in Nat BY <1>2, <3>1, QuotientIsNat
    <3> HIDE DEF q
    <3>3. committable = Least(q, b.balanceToDeposit) BY DEF n, q
    <3> QED BY <1>2, <3>2, <3>3 DEF Least
  <2> HIDE DEF committable
  <2>4. count \in Nat /\ DepositSize * count <= committable
    BY <1>2, <2>3, Quotient, QuotientIsNat
  <2> HIDE DEF count
  <2>5. amount \in Nat /\ amount <= b.balanceToDeposit
    <3>1. count * DepositSize = DepositSize * count BY <1>2, <2>4
    <3> QED BY <1>2, <2>3, <2>4, <3>1, ProductIsNat
  <2>6. (b.committedBalance + amount) % DepositSize = 0
    <3>1. /\ b.committedBalance \in Int /\ b.committedBalance % DepositSize = 0
          /\ DepositSize \in Int /\ DepositSize > 0
      BY <1>2
    <3>2. count \in Int BY <2>4
    <3>3. (b.committedBalance + count * DepositSize) % DepositSize = 0
      BY <3>1, <3>2, WholeChanges
    <3> QED BY <3>3
  <2> HIDE DEF amount
  <2>7. c = [b EXCEPT !.committedBalance = @ + amount, !.balanceToDeposit = @ - amount]
    BY <1>4 DEF CommitBalanceToDeposit, amount, count, committable, daily, relative
  <2> HIDE DEF c
  <2>8. b.committedBalance + amount \in Nat /\ b.balanceToDeposit - amount \in Nat
    BY <1>2, <2>5
  <2>9. c \in Books BY <1>1, <2>7, <2>8 DEF Books
  <2>10. /\ c.committedBalance = b.committedBalance + amount
         /\ c.balanceToDeposit = b.balanceToDeposit - amount
         /\ c.balanceToRedeem = b.balanceToRedeem
         /\ c.eth = b.eth
    BY <1>1, <2>7 DEF Books
  <2>11. SameShares(b, c) /\ SameExits(b, c) /\ SameFunds(b, c)
    BY <1>1, <2>7 DEF Books, SameShares, SameExits, SameFunds
  <2>12. c.eth = c.balanceToDeposit + c.committedBalance + c.balanceToRedeem
         /\ c.committedBalance % DepositSize = 0
    BY <1>2, <2>5, <2>6, <2>10
  <2> QED BY <1>4, <2>9, <2>10, <2>11, <2>12, OnlyEthMoves DEF c
<1> QED BY <1>3, <1>4

-----------------------------------------------------------------------------
(* The whole report                                                        *)

\* The inductive invariant.
IInv ==
  /\ TypeOK
  /\ world \in Worlds
  /\ Sound(books)
  /\ lastReport.validatorsCount <= books.depositedValidatorCount
  /\ NoAssetsWithoutShares

LEMMA SettingsAreTyped ==
  ASSUME IInv
  PROVE  /\ globalFee \in 0..BasisPoints
         /\ bounds \in [annualAprUpperBound : Nat, relativeLowerBound : Nat]
         /\ dailyLimits \in [minDailyNet : Nat, maxDailyRelative : Nat]
<1>1. world \in World BY RiverAssumption DEF IInv
<1> QED BY <1>1 DEF IInv, TypeOK, World

LEMMA BoundsAreNumbers ==
  ASSUME IInv, NEW balance \in Nat, NEW elapsed \in Nat
  PROVE  MaxIncrease(balance, elapsed) \in Nat /\ MaxDecrease(balance) \in Nat
<1>1. bounds.annualAprUpperBound \in Nat /\ bounds.relativeLowerBound \in Nat
  BY SettingsAreTyped
<1>2. BasisPoints \in Nat /\ BasisPoints > 0 /\ OneYear \in Nat /\ OneYear > 0
  BY RiverAssumption
<1>3. MaxIncrease(balance, elapsed) \in Nat
  <2> DEFINE n == balance * bounds.annualAprUpperBound
             m == n * elapsed
             d == BasisPoints * OneYear
  <2>1. n \in Nat BY <1>1, ProductIsNat
  <2> HIDE DEF n
  <2>2. m \in Nat BY <2>1, ProductIsNat
  <2>3. d \in Nat /\ d > 0 BY <1>2, ProductIsNat
  <2> HIDE DEF m, d
  <2>4. m \div d \in Nat BY <2>2, <2>3, QuotientIsNat
  <2> QED BY <2>4 DEF MaxIncrease, n, m, d
<1>4. MaxDecrease(balance) \in Nat
  <2> DEFINE n == balance * bounds.relativeLowerBound
  <2>1. n \in Nat BY <1>1, ProductIsNat
  <2> HIDE DEF n
  <2>2. n \div BasisPoints \in Nat BY <1>2, <2>1, QuotientIsNat
  <2> QED BY <2>2 DEF MaxDecrease, n
<1> QED BY <1>3, <1>4

\* What a report does, told by the books once the validators' ETH is collected,
\* the funds are pulled, the fees are minted and the exits are requested.
FundsArePulled(report, collected, funded) ==
  LET before == AssetBalance(books, lastReport)
      elapsed == (report.epoch - lastReport.epoch) * EpochTime
  IN  /\ AssetBalance(collected, report) >= before - MaxDecrease(before)
      /\ AssetBalance(collected, report) <= AssetBalance(funded, report)
      /\ AssetBalance(funded, report) <= before + MaxIncrease(before, elapsed)
      /\ AssetBalance(funded, report) = AssetBalance(collected, report)
           + (books.elFees - funded.elFees) + (books.exceedingEth - funded.exceedingEth)
           + (books.coverage - funded.coverage)
      /\ SameShares(books, funded) /\ SameExits(books, funded)
      /\ funded.redeemEth = books.redeemEth
      /\ funded.committedBalance = books.committedBalance

FeesAreMinted(report, collected, funded, earned) ==
  LET before == AssetBalance(books, lastReport)
  IN  /\ SameEth(funded, earned) /\ SameFunds(funded, earned) /\ SameExits(funded, earned)
      /\ earned.redeemDemand = funded.redeemDemand
      /\ earned.totalSupply >= books.totalSupply
      /\ books.totalSupply = 0 => earned.totalSupply = 0 /\ AssetBalance(earned, report) = 0
      /\ AssetBalance(collected, report) >= before =>
           before * earned.totalSupply <= AssetBalance(funded, report) * books.totalSupply

ExitsAreRequested(report, earned, exiting) ==
  /\ SameShares(earned, exiting) /\ SameFunds(earned, exiting)
  /\ exiting.eth = earned.eth
  /\ exiting.committedBalance = earned.committedBalance
  /\ exiting.depositedValidatorCount = earned.depositedValidatorCount
  /\ report.slashingContainmentMode => exiting.exitsDemand <= books.exitsDemand
  /\ ~report.slashingContainmentMode => ExitsSuffice(exiting, report)
  /\ exiting.exitsDemand > books.exitsDemand =>
       LastExitIsNeeded(exiting, report) /\ DemandInEth(exiting, report) > exiting.balanceToRedeem

DemandIsServed(report, exiting) ==
  /\ SameExits(exiting, books')
  /\ AssetBalance(books', report)
       = AssetBalance(exiting, report) - Supplied(exiting, report)
  /\ books'.totalSupply = exiting.totalSupply - Redeemed(exiting, report)
  /\ books'.redeemDemand = exiting.redeemDemand - Redeemed(exiting, report)
  /\ books'.redeemEth = exiting.redeemEth + Supplied(exiting, report)
  /\ books'.elFees = exiting.elFees
  /\ books'.exceedingEth = exiting.exceedingEth
  /\ books'.coverage = exiting.coverage
  /\ report.slashingContainmentMode => books'.committedBalance = exiting.committedBalance

Reported(report, collected, funded, earned, exiting) ==
  /\ report \in Report
  /\ report.epoch > lastReport.epoch
  /\ report.validatorsCount <= books.depositedValidatorCount
  /\ lastReport' = report /\ UNCHANGED settings
  /\ Sound(collected) /\ Sound(funded) /\ Sound(earned) /\ Sound(exiting) /\ Sound(books')
  /\ collected.depositedValidatorCount = books.depositedValidatorCount
  /\ FundsArePulled(report, collected, funded)
  /\ FeesAreMinted(report, collected, funded, earned)
  /\ ExitsAreRequested(report, earned, exiting)
  /\ DemandIsServed(report, exiting)

LEMMA ReportIsMade ==
  ASSUME IInv, NEW report \in Report, NEW skimmed \in Nat, NEW exited \in Nat,
         NEW stopped \in Nat, NEW unsolicited \in Nat, NEW rebalancing \in BOOLEAN,
         SetConsensusLayerData(report, skimmed, exited, stopped, unsolicited, rebalancing)
  PROVE  \E collected, funded, earned, exiting \in Books :
           Reported(report, collected, funded, earned, exiting)
<1> DEFINE elapsed == (report.epoch - lastReport.epoch) * EpochTime
           before == AssetBalance(books, lastReport)
           collected == PullCLFunds(books, skimmed, exited)
           margin == Margin(collected, report, before, elapsed)
           fees == Least(collected.elFees, margin)
           rewards == Rewards(collected, report, before, margin)
           funded == Funded(collected, margin)
           earned == OnEarnings(funded, report, rewards)
           stopping == ReportStoppedValidatorCounts(earned, stopped, unsolicited)
           exiting == RequestExits(stopping, report, rebalancing)
           supplied == ReportWithdraw(exiting, report)
           skimming == SkimExcessBalanceToRedeem(supplied)
           final == CommitBalanceToDeposit(skimming, report, elapsed)
<1>1. /\ report.epoch > lastReport.epoch
      /\ report.validatorsCount \in lastReport.validatorsCount..books.depositedValidatorCount
      /\ skimmed + exited <= books.withdraw
      /\ margin >= 0
      /\ AssetBalance(collected, report) >= before - MaxDecrease(before)
      /\ rewards > 0 => books.totalSupply > 0
      /\ StoppedIsAccepted(stopped, unsolicited)
      /\ books' = final
      /\ lastReport' = report /\ UNCHANGED settings
  BY DEF SetConsensusLayerData
<1>2. /\ Sound(books) /\ books \in Books /\ lastReport \in Report
      /\ lastReport.validatorsCount <= books.depositedValidatorCount
      /\ report.validatorsCount <= books.depositedValidatorCount
      /\ books.depositedValidatorCount \in Nat /\ books.totalSupply \in Nat
      /\ books.elFees \in Nat
  BY <1>1 DEF IInv, TypeOK, Books, Report
<1>3. elapsed \in Nat
  <2>1. report.epoch - lastReport.epoch \in Nat BY <1>1, <1>2 DEF Report
  <2> QED BY <2>1, ProductIsNat, RiverAssumption
<1> HIDE DEF elapsed
<1>4. before \in Nat BY <1>2, BalanceFollowsEth
<1> HIDE DEF before
<1>5. /\ MaxIncrease(before, elapsed) \in Nat /\ MaxDecrease(before) \in Nat
  BY <1>3, <1>4, BoundsAreNumbers
<1>6. /\ Sound(collected)
      /\ SameShares(books, collected) /\ SameExits(books, collected)
      /\ collected.committedBalance = books.committedBalance
      /\ collected.elFees = books.elFees
      /\ collected.exceedingEth = books.exceedingEth
      /\ collected.coverage = books.coverage
      /\ collected.redeemEth = books.redeemEth
  BY <1>1, <1>2, CLFundsPulled
<1> HIDE DEF collected
<1>7. AssetBalance(collected, report) \in Nat BY <1>2, <1>6, BalanceFollowsEth DEF SameExits
<1>8. margin = MaxIncrease(before, elapsed) + before - AssetBalance(collected, report)
      /\ margin \in Nat
  BY <1>1, <1>4, <1>5, <1>7 DEF Margin
<1> HIDE DEF margin
<1>9. /\ Sound(funded)
      /\ SameShares(collected, funded) /\ SameExits(collected, funded)
      /\ funded.eth >= collected.eth + fees
      /\ funded.eth <= collected.eth + margin
      /\ funded.eth - collected.eth = (collected.elFees - funded.elFees)
           + (collected.exceedingEth - funded.exceedingEth)
           + (collected.coverage - funded.coverage)
      /\ funded.committedBalance = collected.committedBalance
      /\ funded.redeemEth = collected.redeemEth
  BY <1>6, <1>8, FundsPulled
<1>10. /\ fees \in Nat /\ fees <= margin
  BY <1>2, <1>6, <1>8 DEF Least
<1>11. rewards = Greatest(AssetBalance(collected, report) - before, 0) + fees
  BY DEF Rewards
<1> HIDE DEF funded, fees, rewards
<1>12. AssetBalance(funded, report) = AssetBalance(collected, report) + (funded.eth - collected.eth)
  BY <1>2, <1>6, <1>9, BalanceMoves DEF SameExits
<1>13. /\ AssetBalance(funded, report) \in Nat
       /\ AssetBalance(funded, report) >= AssetBalance(collected, report) + fees
       /\ AssetBalance(funded, report) <= AssetBalance(collected, report) + margin
  <2>1. funded.eth \in Nat /\ collected.eth \in Nat BY <1>6, <1>9 DEF Sound, Books
  <2> QED BY <1>7, <1>8, <1>9, <1>10, <1>12, <2>1
<1>14. FundsArePulled(report, collected, funded)
  <2>1. SameShares(books, funded) /\ SameExits(books, funded)
    BY <1>6, <1>9 DEF SameShares, SameExits
  <2>2. /\ AssetBalance(funded, report) <= before + MaxIncrease(before, elapsed)
        /\ AssetBalance(collected, report) <= AssetBalance(funded, report)
    BY <1>4, <1>5, <1>7, <1>8, <1>10, <1>13
  <2>3. AssetBalance(funded, report) = AssetBalance(collected, report)
           + (books.elFees - funded.elFees) + (books.exceedingEth - funded.exceedingEth)
           + (books.coverage - funded.coverage)
    <3>1. /\ funded.eth \in Nat /\ collected.eth \in Nat
          /\ funded.elFees \in Nat /\ funded.exceedingEth \in Nat /\ funded.coverage \in Nat
          /\ books.exceedingEth \in Nat /\ books.coverage \in Nat
      BY <1>2, <1>6, <1>9 DEF Sound, Books
    <3> QED BY <1>2, <1>6, <1>7, <1>9, <1>12, <3>1
  <2> QED BY <1>1, <1>6, <1>9, <2>1, <2>2, <2>3 DEF FundsArePulled, before, elapsed
<1>15. /\ rewards \in Nat
       /\ rewards <= AssetBalance(funded, report)
       /\ AssetBalance(collected, report) >= before =>
            before <= AssetBalance(funded, report) - rewards
  BY <1>4, <1>7, <1>10, <1>11, <1>13 DEF Greatest
<1>16. report.validatorsCount <= funded.depositedValidatorCount
  BY <1>2, <1>6, <1>9 DEF SameExits
<1>17. /\ Sound(earned)
       /\ SameEth(funded, earned) /\ SameFunds(funded, earned) /\ SameExits(funded, earned)
       /\ earned.redeemDemand = funded.redeemDemand
       /\ earned.totalSupply >= funded.totalSupply
       /\ funded.totalSupply = 0 => earned.totalSupply = 0
       /\ \A x \in Nat :
            x <= AssetBalance(funded, report) - rewards =>
              x * (earned.totalSupply - funded.totalSupply) <= rewards * funded.totalSupply
  BY <1>9, <1>15, <1>16, SettingsAreTyped, FeesMinted
<1> HIDE DEF earned
<1>18. /\ funded.totalSupply = books.totalSupply
       /\ earned.totalSupply \in Nat
       /\ AssetBalance(earned, report) = AssetBalance(funded, report)
  <2>1. funded.totalSupply = books.totalSupply BY <1>6, <1>9 DEF SameShares
  <2>2. earned.totalSupply \in Nat BY <1>17 DEF Sound, Books
  <2>3. AssetBalance(earned, report) = AssetBalance(funded, report)
    BY <1>17 DEF AssetBalance, SameEth, SameExits
  <2> QED BY <2>1, <2>2, <2>3
<1>19. books.totalSupply = 0 => AssetBalance(funded, report) = 0
  <2> SUFFICES ASSUME books.totalSupply = 0 PROVE AssetBalance(funded, report) = 0 OBVIOUS
  <2>1. before = 0 BY DEF IInv, NoAssetsWithoutShares, before
  <2>2. rewards = 0 BY <1>1, <1>15
  <2>3. AssetBalance(collected, report) = 0
    BY <1>7, <1>10, <1>11, <2>1, <2>2 DEF Greatest
  <2>4. MaxIncrease(0, elapsed) = 0
    <3> DEFINE d == BasisPoints * OneYear
    <3>1. bounds.annualAprUpperBound \in Nat BY SettingsAreTyped
    <3>2. 0 * bounds.annualAprUpperBound * elapsed = 0 BY <1>3, <3>1
    <3>3. d \in Nat /\ d > 0
      <4>1. /\ BasisPoints \in Nat /\ BasisPoints > 0
            /\ OneYear \in Nat /\ OneYear > 0
        BY RiverAssumption
      <4> QED BY <4>1, ProductIsNat
    <3> HIDE DEF d
    <3>4. 0 \div d = 0 BY <3>3
    <3> QED BY <3>2, <3>4 DEF MaxIncrease, d
  <2>5. margin = 0 BY <1>8, <2>1, <2>3, <2>4
  <2> QED BY <1>13, <2>3, <2>5
<1>20. FeesAreMinted(report, collected, funded, earned)
  <2> DEFINE t == books.totalSupply
             u == earned.totalSupply
             a == AssetBalance(funded, report)
  <2>1. ASSUME AssetBalance(collected, report) >= before
        PROVE  before * u <= a * t
    <3>1. before * (u - t) <= rewards * t BY <1>4, <1>15, <1>17, <1>18, <2>1
    <3>2. t \in Nat /\ u \in Nat /\ a \in Nat /\ before + rewards <= a
      BY <1>2, <1>4, <1>13, <1>15, <1>18, <2>1
    <3> HIDE DEF t, u, a
    <3>3. (before + rewards) * t <= a * t BY <1>4, <1>15, <3>2, ProductsGrow
    <3>4. (before + rewards) * t = before * t + rewards * t BY <1>4, <1>15, <3>2, Distributes
    <3>5. before * (u - t) = before * u - before * t BY <1>4, <3>2
    <3>6. /\ before * t \in Nat /\ before * u \in Nat /\ rewards * t \in Nat /\ a * t \in Nat
      BY <1>4, <1>15, <3>2, ProductIsNat
    <3> QED BY <3>1, <3>3, <3>4, <3>5, <3>6
  <2> QED BY <1>17, <1>18, <1>19, <2>1 DEF FeesAreMinted, before
<1>21. /\ Sound(stopping)
       /\ SameEth(earned, stopping) /\ SameFunds(earned, stopping) /\ SameShares(earned, stopping)
       /\ stopping.depositedValidatorCount = earned.depositedValidatorCount
       /\ stopping.exitsDemand <= earned.exitsDemand
  <2>1. SameExits(books, earned) BY <1>6, <1>9, <1>17 DEF SameExits
  <2>2. /\ books.stopped <= stopped /\ stopped <= books.depositedValidatorCount
        /\ stopped - books.exitsRequested <= unsolicited
        /\ books.exitsRequested + unsolicited <= books.depositedValidatorCount
    <3>1. books.stopped \in Nat /\ books.exitsRequested \in Nat BY <1>2 DEF Books
    <3>2. /\ stopped \in books.stopped..books.depositedValidatorCount
          /\ unsolicited \in Greatest(stopped - books.exitsRequested, 0)..(stopped - books.stopped)
          /\ books.exitsRequested + unsolicited <= books.depositedValidatorCount
      BY <1>1 DEF StoppedIsAccepted
    <3>3. Greatest(stopped - books.exitsRequested, 0) <= unsolicited
      BY <3>1, <3>2 DEF Greatest
    <3> QED BY <1>2, <3>1, <3>2, <3>3 DEF Greatest
  <2> QED BY <1>17, <2>1, <2>2, StoppedReported DEF SameExits
<1> HIDE DEF stopping
<1>22. SameExits(books, earned) BY <1>6, <1>9, <1>17 DEF SameExits
<1>23. report.validatorsCount <= stopping.depositedValidatorCount
  BY <1>2, <1>21, <1>22 DEF SameExits
<1>24. /\ Sound(exiting)
       /\ SameShares(stopping, exiting) /\ SameFunds(stopping, exiting)
       /\ exiting.eth = stopping.eth
       /\ exiting.committedBalance = stopping.committedBalance
       /\ exiting.depositedValidatorCount = stopping.depositedValidatorCount
       /\ report.slashingContainmentMode => exiting.exitsDemand = stopping.exitsDemand
       /\ ~report.slashingContainmentMode => ExitsSuffice(exiting, report)
       /\ exiting.exitsDemand > stopping.exitsDemand => LastExitIsNeeded(exiting, report)
       /\ exiting.exitsDemand > stopping.exitsDemand =>
            DemandInEth(exiting, report) > exiting.balanceToRedeem
  BY <1>21, <1>23, ExitsRequested
<1> HIDE DEF exiting
<1>25. ExitsAreRequested(report, earned, exiting)
  <2>1. /\ SameShares(earned, exiting) /\ SameFunds(earned, exiting)
        /\ exiting.eth = earned.eth
        /\ exiting.committedBalance = earned.committedBalance
        /\ exiting.depositedValidatorCount = earned.depositedValidatorCount
    BY <1>21, <1>24 DEF SameShares, SameFunds, SameEth
  <2>2. /\ books.exitsDemand \in Nat /\ stopping.exitsDemand \in Nat /\ exiting.exitsDemand \in Nat
        /\ stopping.exitsDemand <= books.exitsDemand
    BY <1>2, <1>21, <1>22, <1>24 DEF Sound, Books, SameExits
  <2>3. exiting.exitsDemand > books.exitsDemand => exiting.exitsDemand > stopping.exitsDemand
    BY <2>2
  <2> QED BY <1>24, <2>1, <2>2, <2>3 DEF ExitsAreRequested
<1>26. report.validatorsCount <= exiting.depositedValidatorCount BY <1>23, <1>24
<1>27. /\ Sound(supplied)
       /\ SameExits(exiting, supplied)
       /\ supplied.redeemEth = exiting.redeemEth + Supplied(exiting, report)
       /\ supplied.committedBalance = exiting.committedBalance
       /\ supplied.elFees = exiting.elFees
       /\ supplied.exceedingEth = exiting.exceedingEth
       /\ supplied.coverage = exiting.coverage
       /\ supplied.totalSupply = exiting.totalSupply - Redeemed(exiting, report)
       /\ supplied.redeemDemand = exiting.redeemDemand - Redeemed(exiting, report)
       /\ AssetBalance(supplied, report)
            = AssetBalance(exiting, report) - Supplied(exiting, report)
  BY <1>24, <1>26, WithdrawReported
<1> HIDE DEF supplied
<1>28. /\ Sound(skimming)
       /\ SameShares(supplied, skimming) /\ SameExits(supplied, skimming)
       /\ SameFunds(supplied, skimming)
       /\ skimming.eth = supplied.eth
       /\ skimming.committedBalance = supplied.committedBalance
  BY <1>27, ExcessSkimmed
<1> HIDE DEF skimming
<1>29. /\ report.validatorsCount <= supplied.depositedValidatorCount
       /\ report.validatorsCount <= skimming.depositedValidatorCount
  BY <1>26, <1>27, <1>28 DEF SameExits
<1>30. /\ Sound(final)
       /\ SameShares(skimming, final) /\ SameExits(skimming, final) /\ SameFunds(skimming, final)
       /\ final.eth = skimming.eth
       /\ report.slashingContainmentMode => final.committedBalance = skimming.committedBalance
  BY <1>3, <1>28, <1>29, SettingsAreTyped, BalanceCommitted
<1> HIDE DEF final
<1>31. SameExits(exiting, final) BY <1>27, <1>28, <1>30 DEF SameExits
<1>32. AssetBalance(final, report) = AssetBalance(supplied, report)
  <2>1. /\ report.validatorsCount <= final.depositedValidatorCount
        /\ final.depositedValidatorCount = supplied.depositedValidatorCount
        /\ final.eth = supplied.eth
    BY <1>28, <1>29, <1>30 DEF SameExits
  <2> QED BY <1>27, <1>29, <1>30, <2>1, BalanceFollowsEth
<1>33. DemandIsServed(report, exiting)
  BY <1>1, <1>27, <1>28, <1>30, <1>31, <1>32 DEF DemandIsServed, SameShares, SameFunds
<1>34. Reported(report, collected, funded, earned, exiting)
  <2>1. collected.depositedValidatorCount = books.depositedValidatorCount BY <1>6 DEF SameExits
  <2> QED BY <1>1, <1>2, <1>6, <1>9, <1>14, <1>17, <1>20, <1>24, <1>25, <1>30, <1>33, <2>1
          DEF Reported
<1>35. collected \in Books /\ funded \in Books /\ earned \in Books /\ exiting \in Books
  BY <1>6, <1>9, <1>17, <1>24 DEF Sound
<1> QED BY <1>34, <1>35

-----------------------------------------------------------------------------
(* The other steps                                                         *)

Contained ==
  /\ books'.committedBalance <= books.committedBalance
  /\ books'.depositedValidatorCount = books.depositedValidatorCount
  /\ books'.redeemDemand <= books.redeemDemand
  /\ books'.exitsDemand <= books.exitsDemand

\* What a step that is no report does.
Quiet ==
  /\ lastReport' = lastReport
  /\ books'.exitsDemand <= books.exitsDemand
  /\ AssetBalance(books', lastReport) * books.totalSupply
       >= AssetBalance(books, lastReport) * (books'.totalSupply - 1)
  /\ lastReport.slashingContainmentMode => Contained

LEMMA BalanceIsKept ==
  ASSUME IInv, UNCHANGED <<lastReport, settings>>, Sound(books'),
         books'.totalSupply = books.totalSupply,
         AssetBalance(books', lastReport) = AssetBalance(books, lastReport),
         lastReport.validatorsCount <= books'.depositedValidatorCount,
         books'.exitsDemand <= books.exitsDemand,
         lastReport.slashingContainmentMode => Contained
  PROVE  IInv' /\ Quiet
<1> DEFINE a == AssetBalance(books, lastReport)
           t == books.totalSupply
<1>1. a \in Nat /\ t \in Nat BY BalanceFollowsEth DEF IInv, TypeOK, Sound, Books
<1>2. a * t >= a * (t - 1)
  <2> HIDE DEF a, t
  <2>1. a * (t - 1) = a * t - a /\ a * t \in Nat BY <1>1, ProductIsNat
  <2> QED BY <1>1, <2>1
<1>3. /\ lastReport' = lastReport /\ globalFee' = globalFee /\ bounds' = bounds
      /\ dailyLimits' = dailyLimits /\ world' = world
  BY DEF settings
<1>4. IInv'
  <2>1. TypeOK' BY <1>3 DEF IInv, TypeOK, Sound
  <2>2. NoAssetsWithoutShares'
    BY <1>3 DEF IInv, NoAssetsWithoutShares
  <2> QED BY <1>3, <2>1, <2>2 DEF IInv
<1> QED BY <1>2, <1>3, <1>4 DEF Quiet

LEMMA DepositIsKept ==
  ASSUME IInv, NEW depositor \in User, NEW recipient \in User, NEW value \in Deposits,
         Deposit(depositor, recipient, value)
  PROVE  IInv' /\ Quiet
<1> DEFINE b == [books EXCEPT !.balanceToDeposit = @ + value, !.eth = @ + value]
           minted == SharesToMint(b, value)
           c == MintRawShares(b, depositor, minted)
           a == AssetBalance(books, lastReport)
           t == books.totalSupply
<1>1. /\ ~lastReport.slashingContainmentMode
      /\ books' = Moved(c, depositor, recipient, minted)
      /\ lastReport' = lastReport
      /\ UNCHANGED settings
  BY DEF Deposit
<1>2. /\ value \in Nat /\ value > 0
      /\ Sound(books) /\ books \in Books /\ lastReport \in Report
      /\ lastReport.validatorsCount <= books.depositedValidatorCount
      /\ depositor \in Holder /\ recipient \in Holder /\ depositor # RedeemManager
  BY HoldersAreFinite, RiverAssumption DEF IInv, TypeOK
<1>3. a \in Nat /\ t \in Nat /\ books.eth \in Nat
      /\ books.balanceToDeposit \in Nat /\ books.balanceToRedeem \in Nat
      /\ books.committedBalance \in Nat /\ books.depositedValidatorCount \in Nat
  BY <1>2, BalanceFollowsEth DEF Books
<1>4. /\ b \in Books
      /\ b.eth = books.eth + value
      /\ b.balanceToDeposit = books.balanceToDeposit + value
      /\ b.balanceToRedeem = books.balanceToRedeem
      /\ b.committedBalance = books.committedBalance
  <2>1. books.balanceToDeposit + value \in Nat /\ books.eth + value \in Nat BY <1>2, <1>3
  <2>2. b \in Books BY <1>2, <2>1 DEF Books
  <2> QED BY <1>2, <2>2 DEF Books
<1>5. SameShares(books, b) /\ SameExits(books, b)
  BY <1>2 DEF Books, SameShares, SameExits
<1> HIDE DEF b
<1>6. Sound(b)
  <2>1. /\ b.eth = b.balanceToDeposit + b.committedBalance + b.balanceToRedeem
        /\ b.committedBalance % DepositSize = 0
    BY <1>2, <1>3, <1>4 DEF Sound
  <2> QED BY <1>2, <1>4, <1>5, <2>1, OnlyEthMoves
<1>7. AssetBalance(b, lastReport) = a + value
  <2>1. AssetBalance(b, lastReport) = a + (b.eth - books.eth)
    BY <1>2, <1>5, <1>6, BalanceMoves DEF SameExits
  <2> QED BY <1>2, <1>3, <1>4, <2>1
<1> HIDE DEF a, t
<1>8. /\ minted \in Nat
      /\ a = 0 \/ t = 0 => minted = value
      /\ a * minted <= value * t \/ a = 0 \/ t = 0
  <2>1. AssetBalance(b, lastReport) - value = a /\ b.totalSupply = t
    BY <1>2, <1>3, <1>5, <1>7 DEF SameShares, t
  <2>2. minted = IF a = 0 \/ t = 0 THEN value ELSE (value * t) \div a
    BY <2>1 DEF SharesToMint
  <2> DEFINE n == value * t
  <2>3. n \in Nat BY <1>2, <1>3, ProductIsNat
  <2> HIDE DEF n, minted
  <2>4. a # 0 => n \div a \in Nat /\ a * (n \div a) <= n
    BY <1>3, <2>3, Quotient, QuotientIsNat
  <2> QED BY <1>2, <2>2, <2>4 DEF n
<1> HIDE DEF minted
<1>9. /\ c \in Books
      /\ c.totalSupply = SumFunctionOnSet(c.balanceOf, Holder)
      /\ c.balanceOf[RedeemManager] >= b.balanceOf[RedeemManager]
      /\ c.balanceOf[depositor] >= minted
      /\ c.totalSupply = b.totalSupply + minted
      /\ c.redeemDemand = b.redeemDemand
      /\ SameEth(b, c) /\ SameFunds(b, c) /\ SameExits(b, c)
  BY <1>2, <1>6, <1>8, SharesAreMinted
<1> HIDE DEF c
<1>10. minted <= c.balanceOf[depositor] BY <1>2, <1>8, <1>9 DEF Books
<1>11. /\ books' \in Books
       /\ books'.totalSupply = SumFunctionOnSet(books'.balanceOf, Holder)
       /\ books'.totalSupply = c.totalSupply
       /\ books'.balanceOf[RedeemManager] >= c.balanceOf[RedeemManager]
       /\ books'.redeemDemand = c.redeemDemand
       /\ SameEth(c, books') /\ SameFunds(c, books') /\ SameExits(c, books')
  BY <1>1, <1>2, <1>8, <1>9, <1>10, SharesAreMoved
<1>12. Sound(books')
  <2>1. books'.redeemDemand <= books'.balanceOf[RedeemManager]
    <3>1. b.redeemDemand <= b.balanceOf[RedeemManager] BY <1>6 DEF Sound
    <3>2. /\ b.redeemDemand \in Nat /\ b.balanceOf[RedeemManager] \in Nat
          /\ c.balanceOf[RedeemManager] \in Nat /\ books'.balanceOf[RedeemManager] \in Nat
      BY <1>4, <1>9, <1>11, HoldersAreFinite DEF Books
    <3> QED BY <1>9, <1>11, <3>1, <3>2
  <2> QED BY <1>6, <1>9, <1>11, <2>1 DEF Sound, SameEth, SameExits, Exits
<1>13. AssetBalance(books', lastReport) = a + value
  BY <1>7, <1>9, <1>11 DEF AssetBalance, SameEth, SameExits
<1>14. books'.totalSupply = t + minted BY <1>5, <1>9, <1>11 DEF SameShares, t
<1>15. t = 0 => a = 0 BY DEF IInv, NoAssetsWithoutShares, a, t
<1>16. (a + value) * t >= a * (t + minted - 1)
  <2>1. CASE a = 0 BY <1>2, <1>3, <1>8, <2>1, ProductIsNat
  <2>2. CASE a # 0 /\ t # 0
    <3>1. (a + value) * t = a * t + value * t /\ a * (t + minted - 1) = a * t + a * minted - a
      BY <1>2, <1>3, <1>8
    <3>2. a * t \in Nat /\ value * t \in Nat /\ a * minted \in Nat
      BY <1>2, <1>3, <1>8, ProductIsNat
    <3> QED BY <1>3, <1>8, <2>2, <3>1, <3>2
  <2> QED BY <1>15, <2>1, <2>2
<1>17. books'.totalSupply # 0 BY <1>2, <1>3, <1>8, <1>14
<1>18. IInv'
  <2>1. TypeOK' BY <1>1, <1>11 DEF IInv, TypeOK, settings
  <2>2. NoAssetsWithoutShares' BY <1>17 DEF NoAssetsWithoutShares
  <2>3. books'.depositedValidatorCount = books.depositedValidatorCount
    BY <1>5, <1>9, <1>11 DEF SameExits
  <2> QED BY <1>1, <1>2, <1>12, <2>1, <2>2, <2>3 DEF IInv, settings
<1>19. books'.exitsDemand <= books.exitsDemand
  <2>1. books'.exitsDemand = books.exitsDemand BY <1>5, <1>9, <1>11 DEF SameExits
  <2> QED BY <1>2, <2>1 DEF Books
<1>20. AssetBalance(books', lastReport) * books.totalSupply
         >= AssetBalance(books, lastReport) * (books'.totalSupply - 1)
  <2>1. books'.totalSupply - 1 = t + minted - 1 BY <1>3, <1>8, <1>14
  <2>2. AssetBalance(books', lastReport) * t >= a * (books'.totalSupply - 1)
    BY <1>13, <1>16, <2>1
  <2> QED BY <2>2 DEF a, t
<1> QED BY <1>1, <1>18, <1>19, <1>20 DEF Quiet

LEMMA TransferIsKept ==
  ASSUME IInv, NEW from \in Holder \ {RedeemManager}, NEW to \in Holder, NEW value \in Nat,
         Transfer(from, to, value)
  PROVE  IInv' /\ Quiet
<1>1. /\ value \in 1..books.balanceOf[from]
      /\ books' = Moved(books, from, to, value)
      /\ lastReport' = lastReport /\ UNCHANGED settings
  BY DEF Transfer
<1>2. /\ Sound(books) /\ books \in Books
      /\ lastReport.validatorsCount <= books.depositedValidatorCount
      /\ value <= books.balanceOf[from]
      /\ books.exitsDemand \in Nat /\ books.committedBalance \in Nat /\ books.redeemDemand \in Nat
  BY <1>1 DEF IInv, TypeOK, Books
<1>3. /\ books' \in Books
      /\ books'.totalSupply = SumFunctionOnSet(books'.balanceOf, Holder)
      /\ books'.totalSupply = books.totalSupply
      /\ books'.balanceOf[RedeemManager] >= books.balanceOf[RedeemManager]
      /\ books'.redeemDemand = books.redeemDemand
      /\ SameEth(books, books') /\ SameExits(books, books')
  BY <1>1, <1>2, SharesAreMoved DEF Sound
<1>4. Sound(books')
  <2>1. books'.redeemDemand <= books'.balanceOf[RedeemManager]
    <3>1. books.redeemDemand <= books.balanceOf[RedeemManager] BY <1>2 DEF Sound
    <3>2. books.balanceOf[RedeemManager] \in Nat /\ books'.balanceOf[RedeemManager] \in Nat
      BY <1>2, <1>3, HoldersAreFinite DEF Books
    <3> QED BY <1>2, <1>3, <3>1, <3>2
  <2> QED BY <1>2, <1>3, <2>1 DEF Sound, SameEth, SameExits, Exits
<1>5. AssetBalance(books', lastReport) = AssetBalance(books, lastReport)
  BY <1>3 DEF AssetBalance, SameEth, SameExits
<1>6. /\ lastReport.validatorsCount <= books'.depositedValidatorCount
      /\ books'.exitsDemand <= books.exitsDemand
      /\ Contained
  BY <1>2, <1>3 DEF SameExits, SameEth, Contained
<1> QED BY <1>1, <1>3, <1>4, <1>5, <1>6, BalanceIsKept

LEMMA RequestRedeemIsKept ==
  ASSUME IInv, NEW from \in Holder \ {RedeemManager}, NEW value \in Nat,
         RequestRedeem(from, value)
  PROVE  IInv' /\ Quiet
<1> DEFINE b == Moved(books, from, RedeemManager, value)
<1>1. /\ ~lastReport.slashingContainmentMode
      /\ value \in 1..books.balanceOf[from]
      /\ books' = [b EXCEPT !.redeemDemand = @ + value]
      /\ lastReport' = lastReport /\ UNCHANGED settings
  BY DEF RequestRedeem
<1>2. /\ Sound(books) /\ books \in Books
      /\ lastReport.validatorsCount <= books.depositedValidatorCount
      /\ value <= books.balanceOf[from]
      /\ books.exitsDemand \in Nat /\ books.redeemDemand \in Nat
      /\ books.redeemDemand <= books.balanceOf[RedeemManager]
      /\ books.balanceOf[RedeemManager] \in Nat
  BY <1>1, HoldersAreFinite DEF IInv, TypeOK, Books, Sound
<1>3. /\ b \in Books
      /\ b.totalSupply = SumFunctionOnSet(b.balanceOf, Holder)
      /\ b.totalSupply = books.totalSupply
      /\ b.balanceOf[RedeemManager] = books.balanceOf[RedeemManager] + value
      /\ b.redeemDemand = books.redeemDemand
      /\ SameEth(books, b) /\ SameExits(books, b)
  BY <1>1, <1>2, HoldersAreFinite, SharesAreMoved DEF Sound
<1> HIDE DEF b
<1>4. /\ books' \in Books
      /\ books'.totalSupply = b.totalSupply /\ books'.balanceOf = b.balanceOf
      /\ books'.redeemDemand = b.redeemDemand + value
      /\ SameEth(b, books') /\ SameExits(b, books')
  <2>1. b.redeemDemand + value \in Nat BY <1>2, <1>3
  <2>2. books' \in Books BY <1>1, <1>3, <2>1 DEF Books
  <2> QED BY <1>1, <1>3, <2>2 DEF Books, SameEth, SameExits
<1>5. Sound(books')
  <2>1. books'.redeemDemand <= books'.balanceOf[RedeemManager] BY <1>2, <1>3, <1>4
  <2> QED BY <1>2, <1>3, <1>4, <2>1 DEF Sound, SameEth, SameExits, Exits
<1>6. AssetBalance(books', lastReport) = AssetBalance(books, lastReport)
  BY <1>3, <1>4 DEF AssetBalance, SameEth, SameExits
<1>7. /\ lastReport.validatorsCount <= books'.depositedValidatorCount
      /\ books'.exitsDemand <= books.exitsDemand
  BY <1>2, <1>3, <1>4 DEF SameExits
<1> QED BY <1>1, <1>3, <1>4, <1>5, <1>6, <1>7, BalanceIsKept

LEMMA DepositToConsensusLayerIsKept ==
  ASSUME IInv, NEW count \in Nat, DepositToConsensusLayer(count)
  PROVE  IInv' /\ Quiet
<1> DEFINE amount == DepositSize * count
<1>1. /\ ~lastReport.slashingContainmentMode
      /\ count \in 1..(books.committedBalance \div DepositSize)
      /\ books' = [books EXCEPT !.committedBalance = @ - amount, !.eth = @ - amount,
                                !.depositedValidatorCount = @ + count]
      /\ lastReport' = lastReport /\ UNCHANGED settings
  BY DEF DepositToConsensusLayer
<1>2. /\ Sound(books) /\ books \in Books /\ lastReport \in Report
      /\ lastReport.validatorsCount <= books.depositedValidatorCount
      /\ lastReport.validatorsCount \in Nat
      /\ books.exitsDemand \in Nat /\ books.committedBalance \in Nat /\ books.eth \in Nat
      /\ books.depositedValidatorCount \in Nat /\ books.exitsRequested \in Nat
      /\ books.balanceToDeposit \in Nat /\ books.balanceToRedeem \in Nat
      /\ books.eth = books.balanceToDeposit + books.committedBalance + books.balanceToRedeem
      /\ books.committedBalance % DepositSize = 0
      /\ DepositSize \in Nat /\ DepositSize > 0
  BY RiverAssumption DEF IInv, TypeOK, Books, Sound, Report
<1>3. amount \in Nat /\ amount <= books.committedBalance /\ amount = count * DepositSize
  <2> DEFINE q == books.committedBalance \div DepositSize
  <2>1. q \in Nat /\ DepositSize * q <= books.committedBalance
    BY <1>2, Quotient, QuotientIsNat
  <2>2. count <= q BY <1>1, <2>1
  <2> HIDE DEF q
  <2>3. count * DepositSize <= q * DepositSize BY <1>2, <2>1, <2>2, ProductsGrow
  <2>4. /\ DepositSize * count = count * DepositSize /\ DepositSize * q = q * DepositSize
        /\ count * DepositSize \in Nat /\ q * DepositSize \in Nat
    BY <1>2, <2>1, ProductIsNat
  <2> QED BY <1>2, <2>1, <2>3, <2>4
<1>4. (books.committedBalance - count * DepositSize) % DepositSize = 0
  BY <1>2, WholeChanges
<1> HIDE DEF amount
<1>5. /\ books' \in Books
      /\ books'.committedBalance = books.committedBalance - amount
      /\ books'.eth = books.eth - amount
      /\ books'.depositedValidatorCount = books.depositedValidatorCount + count
      /\ books'.balanceToDeposit = books.balanceToDeposit
      /\ books'.balanceToRedeem = books.balanceToRedeem
      /\ books'.exitsRequested = books.exitsRequested
      /\ books'.exitsDemand = books.exitsDemand
      /\ books'.stopped = books.stopped
  <2>1. /\ books.committedBalance - amount \in Nat /\ books.eth - amount \in Nat
        /\ books.depositedValidatorCount + count \in Nat
    BY <1>2, <1>3
  <2>2. books' \in Books BY <1>1, <1>2, <2>1 DEF Books
  <2> QED BY <1>1, <1>2, <2>2 DEF Books
<1>6. SameShares(books, books') BY <1>1, <1>2 DEF Books, SameShares
<1>7. Sound(books')
  <2>1. books'.eth = books'.balanceToDeposit + books'.committedBalance + books'.balanceToRedeem
    BY <1>2, <1>3, <1>5
  <2>2. books'.committedBalance % DepositSize = 0 BY <1>3, <1>4, <1>5
  <2>3. Exits(books') <= books'.depositedValidatorCount
    BY <1>2, <1>5 DEF Sound, Exits
  <2> QED BY <1>2, <1>5, <1>6, <2>1, <2>2, <2>3 DEF Sound, SameShares
<1>8. lastReport.validatorsCount <= books'.depositedValidatorCount BY <1>2, <1>5
<1>9. AssetBalance(books', lastReport) = AssetBalance(books, lastReport)
  <2> DEFINE v == lastReport.validatorsCount
             n == books.depositedValidatorCount - v
  <2>1. /\ AssetBalance(books, lastReport)
             = books.eth + lastReport.validatorsBalance + n * DepositSize
        /\ AssetBalance(books', lastReport) = books'.eth + lastReport.validatorsBalance
             + (books'.depositedValidatorCount - v) * DepositSize
    BY <1>2, <1>7, <1>8, BalanceFollowsEth
  <2>2. books'.depositedValidatorCount - v = n + count /\ n \in Int BY <1>2, <1>5
  <2> HIDE DEF n
  <2>3. (n + count) * DepositSize = n * DepositSize + amount /\ n * DepositSize \in Int
    BY <1>2, <1>3, <2>2, Distributes
  <2>4. lastReport.validatorsBalance \in Nat BY <1>2 DEF Report
  <2> QED BY <1>2, <1>3, <1>5, <2>1, <2>2, <2>3, <2>4
<1>10. books'.totalSupply = books.totalSupply /\ books'.exitsDemand <= books.exitsDemand
  BY <1>2, <1>5, <1>6 DEF SameShares
<1> QED BY <1>1, <1>7, <1>8, <1>9, <1>10, BalanceIsKept

LEMMA RequestValidatorExitsIsKept ==
  ASSUME IInv, NEW count \in Nat, RequestValidatorExits(count)
  PROVE  IInv' /\ Quiet
<1>1. /\ count \in 1..books.exitsDemand
      /\ books' = [books EXCEPT !.exitsRequested = @ + count, !.exitsDemand = @ - count]
      /\ lastReport' = lastReport /\ UNCHANGED settings
  BY DEF RequestValidatorExits
<1>2. /\ Sound(books) /\ books \in Books
      /\ lastReport.validatorsCount <= books.depositedValidatorCount
      /\ books.exitsDemand \in Nat /\ books.exitsRequested \in Nat /\ books.stopped \in Nat
      /\ books.depositedValidatorCount \in Nat
      /\ books.committedBalance \in Nat /\ books.redeemDemand \in Nat
  BY DEF IInv, TypeOK, Books
<1>3. /\ books' \in Books
      /\ books'.exitsRequested = books.exitsRequested + count
      /\ books'.exitsDemand = books.exitsDemand - count
      /\ books'.stopped = books.stopped
      /\ books'.depositedValidatorCount = books.depositedValidatorCount
      /\ SameEth(books, books') /\ SameShares(books, books')
  <2>1. books.exitsRequested + count \in Nat /\ books.exitsDemand - count \in Nat BY <1>1, <1>2
  <2>2. books' \in Books BY <1>1, <1>2, <2>1 DEF Books
  <2> QED BY <1>1, <1>2, <2>2 DEF Books, SameEth, SameShares
<1>4. Sound(books')
  <2>1. books'.stopped <= books'.exitsRequested /\ Exits(books') <= books'.depositedValidatorCount
    BY <1>2, <1>3 DEF Sound, Exits
  <2> QED BY <1>2, <1>3, <2>1 DEF Sound, SameEth, SameShares
<1>5. AssetBalance(books', lastReport) = AssetBalance(books, lastReport)
  BY <1>3 DEF AssetBalance, SameEth
<1>6. /\ lastReport.validatorsCount <= books'.depositedValidatorCount
      /\ books'.totalSupply = books.totalSupply
      /\ books'.exitsDemand <= books.exitsDemand
      /\ Contained
  BY <1>2, <1>3 DEF SameEth, SameShares, Contained
<1> QED BY <1>1, <1>4, <1>5, <1>6, BalanceIsKept

\* ETH that comes to the contracts around River is no step of its books.
LEMMA BooksAreKept ==
  ASSUME IInv, books' \in Books, UNCHANGED <<lastReport, settings>>,
         SameEth(books, books'), SameShares(books, books'), SameExits(books, books')
  PROVE  IInv' /\ Quiet
<1>1. /\ Sound(books)
      /\ lastReport.validatorsCount <= books.depositedValidatorCount
      /\ books.exitsDemand \in Nat /\ books.committedBalance \in Nat /\ books.redeemDemand \in Nat
  BY DEF IInv, TypeOK, Books
<1>2. Sound(books') BY <1>1 DEF Sound, SameEth, SameShares, SameExits, Exits
<1>3. AssetBalance(books', lastReport) = AssetBalance(books, lastReport)
  BY DEF AssetBalance, SameEth, SameExits
<1>4. /\ lastReport.validatorsCount <= books'.depositedValidatorCount
      /\ books'.totalSupply = books.totalSupply
      /\ books'.exitsDemand <= books.exitsDemand
      /\ Contained
  BY <1>1 DEF SameEth, SameShares, SameExits, Contained
<1> QED BY <1>2, <1>3, <1>4, BalanceIsKept

LEMMA EthArrivingIsKept ==
  ASSUME IInv, EthArrives
  PROVE  IInv' /\ Quiet
<1>1. world \in World BY RiverAssumption DEF IInv
<1>2. /\ books \in Books
      /\ books.withdraw \in Nat /\ books.elFees \in Nat /\ books.coverage \in Nat
      /\ books.redeemEth \in Nat /\ books.exceedingEth \in Nat
  BY DEF IInv, TypeOK, Books
<1>3. ASSUME NEW value \in world.sweeps, Swept(value)
      PROVE  IInv' /\ Quiet
  <2>1. books' = [books EXCEPT !.withdraw = @ + value] /\ UNCHANGED <<lastReport, settings>>
    BY <1>3 DEF Swept
  <2>2. books.withdraw + value \in Nat BY <1>1, <1>2 DEF World
  <2>3. books' \in Books BY <1>2, <2>1, <2>2 DEF Books
  <2>4. SameEth(books, books') /\ SameShares(books, books') /\ SameExits(books, books')
    BY <1>2, <2>1 DEF Books, SameEth, SameShares, SameExits
  <2> QED BY <2>1, <2>3, <2>4, BooksAreKept
<1>4. ASSUME NEW value \in world.elFees, FeesArrive(value)
      PROVE  IInv' /\ Quiet
  <2>1. books' = [books EXCEPT !.elFees = @ + value] /\ UNCHANGED <<lastReport, settings>>
    BY <1>4 DEF FeesArrive
  <2>2. books.elFees + value \in Nat BY <1>1, <1>2 DEF World
  <2>3. books' \in Books BY <1>2, <2>1, <2>2 DEF Books
  <2>4. SameEth(books, books') /\ SameShares(books, books') /\ SameExits(books, books')
    BY <1>2, <2>1 DEF Books, SameEth, SameShares, SameExits
  <2> QED BY <2>1, <2>3, <2>4, BooksAreKept
<1>5. ASSUME NEW value \in world.donations, Donate(value)
      PROVE  IInv' /\ Quiet
  <2>1. books' = [books EXCEPT !.coverage = @ + value] /\ UNCHANGED <<lastReport, settings>>
    BY <1>5 DEF Donate
  <2>2. books.coverage + value \in Nat BY <1>1, <1>2 DEF World
  <2>3. books' \in Books BY <1>2, <2>1, <2>2 DEF Books
  <2>4. SameEth(books, books') /\ SameShares(books, books') /\ SameExits(books, books')
    BY <1>2, <2>1 DEF Books, SameEth, SameShares, SameExits
  <2> QED BY <2>1, <2>3, <2>4, BooksAreKept
<1>6. ASSUME NEW value \in world.excesses, ClaimLeavesExceedingEth(value)
      PROVE  IInv' /\ Quiet
  <2>1. /\ value \in 1..books.redeemEth
        /\ books' = [books EXCEPT !.redeemEth = @ - value, !.exceedingEth = @ + value]
        /\ UNCHANGED <<lastReport, settings>>
    BY <1>6 DEF ClaimLeavesExceedingEth
  <2>2. books.redeemEth - value \in Nat /\ books.exceedingEth + value \in Nat
    BY <1>2, <2>1
  <2>3. books' \in Books BY <1>2, <2>1, <2>2 DEF Books
  <2>4. SameEth(books, books') /\ SameShares(books, books') /\ SameExits(books, books')
    BY <1>2, <2>1 DEF Books, SameEth, SameShares, SameExits
  <2> QED BY <2>1, <2>3, <2>4, BooksAreKept
<1> QED BY <1>3, <1>4, <1>5, <1>6 DEF EthArrives

LEMMA AdministratorIsKept ==
  ASSUME IInv, AdministratorActs
  PROVE  IInv' /\ Quiet
<1>1. /\ UNCHANGED <<books, lastReport, world>>
      /\ globalFee' \in world.fees
      /\ bounds' \in world.bounds
      /\ dailyLimits' \in world.dailyLimits
  BY DEF AdministratorActs, SetGlobalFee, SetReportBounds, SetDailyCommittableLimits, IInv, TypeOK
<1>2. IInv' BY <1>1 DEF IInv, TypeOK, Sound, NoAssetsWithoutShares
<1>3. Quiet
  <2> DEFINE a == AssetBalance(books, lastReport)
             t == books.totalSupply
  <2>1. a \in Nat /\ t \in Nat BY BalanceFollowsEth DEF IInv, TypeOK, Sound, Books
  <2>2. a * t >= a * (t - 1)
    <3> HIDE DEF a, t
    <3>1. a * (t - 1) = a * t - a /\ a * t \in Nat BY <2>1, ProductIsNat
    <3> QED BY <2>1, <3>1
  <2>3. /\ books.committedBalance \in Nat /\ books.redeemDemand \in Nat
        /\ books.exitsDemand \in Nat
    BY DEF IInv, TypeOK, Books
  <2> QED BY <1>1, <2>2, <2>3 DEF Quiet, Contained
<1> QED BY <1>2, <1>3

-----------------------------------------------------------------------------
(* What redeeming does to the worth of the shares that stay.  Of t shares  *)
(* and a balance a, r shares are demanded, worth d; s of them are redeemed *)
(* for e ETH.                                                              *)

\* All of the demand is redeemed, or the part e pays for, or nothing.
PartRedeemed(a, t, r, d, s, e) ==
  /\ t > 0 /\ r <= t /\ t * d <= r * a /\ r * a < t * d + t
  /\ \/ s = 0 /\ e = 0
     \/ s = r /\ e = d
     \/ s <= r /\ e < d /\ a * s <= e * t /\ e * t < a * s + a

LEMMA WorthStays ==
  ASSUME NEW a \in Nat, NEW t \in Nat, NEW r \in Nat, NEW d \in Nat, NEW s \in Nat, NEW e \in Nat,
         PartRedeemed(a, t, r, d, s, e), e <= a
  PROVE  (a - e) * t >= a * (t - s - 1)
<1>1. /\ a * t \in Nat /\ e * t \in Nat /\ a * s \in Nat /\ r * a \in Nat /\ t * d \in Nat
  BY ProductIsNat
<1>2. (a - e) * t = a * t - e * t /\ a * (t - s - 1) = a * t - a * s - a OBVIOUS
<1>3. CASE s = 0 /\ e = 0 BY <1>1, <1>2, <1>3
<1>4. CASE s = r /\ e = d
  <2>1. e * t = t * d /\ a * s = r * a BY <1>4
  <2> QED BY <1>1, <1>2, <2>1 DEF PartRedeemed
<1>5. CASE e * t < a * s + a BY <1>1, <1>2, <1>5
<1> QED BY <1>3, <1>4, <1>5 DEF PartRedeemed

\* No more than one share's worth of the demand is left uncovered by d - e.
LEMMA DemandLeftIsBounded ==
  ASSUME NEW a \in Nat, NEW t \in Nat, NEW r \in Nat, NEW d \in Nat, NEW s \in Nat, NEW e \in Nat,
         PartRedeemed(a, t, r, d, s, e), e <= a, s <= r, e <= d, t - s > 0
  PROVE  ((r - s - 1) * (a - e)) \div (t - s) <= d - e
<1> DEFINE n == (r - s - 1) * (a - e)
           m == t - s
           q == n \div m
<1>1. n \in Int /\ m \in Int /\ m > 0 OBVIOUS
<1>2. n < m * (d - e + 1)
  <2>1. /\ a * t \in Nat /\ e * t \in Nat /\ a * s \in Nat /\ r * a \in Nat /\ t * d \in Nat
    BY ProductIsNat
  <2>2. CASE s = 0 /\ e = 0
    <3>1. n = r * a - a BY <2>2
    <3>2. m * (d - e + 1) = t * d + t BY <2>2
    <3> QED BY <2>1, <3>1, <3>2 DEF PartRedeemed
  <2>3. CASE s = r /\ e = d
    <3>1. n = 0 - (a - e) BY <2>3
    <3>2. m * (d - e + 1) = m BY <2>3
    <3> QED BY <1>1, <3>1, <3>2
  <2>4. CASE e < d /\ a * s <= e * t /\ e * t < a * s + a
    <3> DEFINE k == r - s - 1
               w == d - e + 1
    <3>1. CASE k <= 0
      <4>1. w \in Nat /\ w >= 1 BY <2>4
      <4>2. (0 - k) * (a - e) \in Nat BY <3>1, ProductIsNat
      <4>3. n = 0 - (0 - k) * (a - e) OBVIOUS
      <4>4. m * w >= m
        <5> HIDE DEF w
        <5>1. 1 * m <= w * m BY <1>1, <4>1, ProductsGrow
        <5> QED BY <1>1, <4>1, <5>1
      <4> QED BY <1>1, <4>2, <4>3, <4>4
    <3>2. CASE k > 0
      <4>1. k \in Nat /\ w \in Nat BY <2>4, <3>2
      <4>2. (a - e) * t <= a * m
        <5>1. (a - e) * t = a * t - e * t /\ a * m = a * t - a * s OBVIOUS
        <5> QED BY <2>1, <2>4, <5>1
      <4>3. k * a < t * w
        <5>1. k * a = r * a - a * s - a OBVIOUS
        <5>2. t * w = t * d - e * t + t OBVIOUS
        <5> QED BY <2>1, <2>4, <5>1, <5>2 DEF PartRedeemed
      <4>4. n * t <= (k * a) * m
        <5> DEFINE x == (a - e) * t
                   y == a * m
        <5>1. x \in Int /\ y \in Int OBVIOUS
        <5>2. x * k <= y * k
          <6> HIDE DEF x, y, k
          <6> QED BY <4>1, <4>2, <5>1, ProductsGrow DEF x, y
        <5>3. n * t = x * k /\ (k * a) * m = y * k OBVIOUS
        <5> QED BY <5>2, <5>3
      <4>5. (k * a) * m < (t * w) * m
        <5> DEFINE x == k * a
                   y == t * w
        <5>1. x \in Nat /\ y \in Nat BY <4>1, ProductIsNat
        <5> HIDE DEF x, y, k, w, m
        <5>2. (x + 1) * m <= y * m BY <1>1, <4>3, <5>1, ProductsGrow DEF x, y
        <5>3. (x + 1) * m = x * m + m /\ x * m \in Int /\ y * m \in Int BY <1>1, <5>1
        <5>4. x * m < y * m BY <1>1, <5>2, <5>3
        <5> QED BY <5>4 DEF x, y
      <4>6. (t * w) * m = (m * w) * t OBVIOUS
      <4>7. n * t < (m * w) * t BY <4>4, <4>5, <4>6
      <4>8. ~ (m * w <= n)
        <5> DEFINE x == m * w
        <5>1. x \in Int OBVIOUS
        <5> HIDE DEF x, n
        <5>2. x <= n => x * t <= n * t BY <1>1, <5>1, ProductsGrow
        <5>3. x * t \in Int /\ n * t \in Int BY <1>1, <5>1
        <5> QED BY <1>1, <4>7, <5>1, <5>2, <5>3 DEF x
      <4> QED BY <4>8
    <3> QED BY <3>1, <3>2
  <2> QED BY <2>2, <2>3, <2>4 DEF PartRedeemed
<1>3. q \in Int /\ m * q <= n BY <1>1, Quotient
<1> DEFINE w == d - e
<1>4. w \in Int OBVIOUS
<1> HIDE DEF n, m, q, w
<1>5. m * q < m * (w + 1) BY <1>1, <1>2, <1>3, <1>4 DEF w
<1>6. q <= w
  <2>1. w + 1 <= q => (w + 1) * m <= q * m BY <1>1, <1>3, <1>4, ProductsGrow
  <2>2. (w + 1) * m = m * (w + 1) /\ q * m = m * q /\ m * q \in Int /\ m * (w + 1) \in Int
    BY <1>1, <1>3, <1>4
  <2> QED BY <1>3, <1>4, <1>5, <2>1, <2>2
<1> QED BY <1>6 DEF q, n, m, w

\* What is left of the demand is worth what was not handed over.
LEMMA DemandLeftIsWorth ==
  ASSUME NEW a \in Nat, NEW t \in Nat, NEW r \in Nat, NEW d \in Nat, NEW s \in Nat, NEW e \in Nat,
         PartRedeemed(a, t, r, d, s, e), e <= a, s <= r, e < d, t - s > 0,
         a * s <= e * t
  PROVE  d - e <= ((r - s) * (a - e)) \div (t - s)
<1> DEFINE n == (r - s) * (a - e)
           m == t - s
           q == n \div m
           w == d - e
<1>1. n \in Nat /\ m \in Nat /\ m > 0 /\ w \in Nat BY ProductIsNat
<1>2. w * m <= n
  <2>1. /\ a * t \in Nat /\ e * t \in Nat /\ a * s \in Nat /\ r * a \in Nat /\ t * d \in Nat
    BY ProductIsNat
  <2>2. a * s <= e * t OBVIOUS
  <2>3. w * t <= r * a - e * t
    <3>1. w * t = t * d - e * t OBVIOUS
    <3> QED BY <2>1, <3>1 DEF PartRedeemed
  <2>4. (w * t) * m <= (r * a - e * t) * m
    <3> DEFINE x == w * t
               y == r * a - e * t
    <3>1. x \in Int /\ y \in Int OBVIOUS
    <3> HIDE DEF x, y, m
    <3> QED BY <1>1, <2>3, <3>1, ProductsGrow DEF x, y
  <2>5. (t - r) * (e * t - a * s) \in Nat
    <3>1. t - r \in Nat /\ e * t - a * s \in Nat BY <2>1, <2>2 DEF PartRedeemed
    <3> QED BY <3>1, ProductIsNat
  <2>6. n * t - (r * a - e * t) * m = (t - r) * (e * t - a * s) OBVIOUS
  <2>7. (r * a - e * t) * m <= n * t
    <3> DEFINE x == (r * a - e * t) * m
               y == n * t
    <3>1. x \in Int /\ y \in Int OBVIOUS
    <3> HIDE DEF x, y
    <3> QED BY <2>5, <2>6, <3>1 DEF x, y
  <2>8. (w * m) * t <= n * t
    <3>1. (w * t) * m = (w * m) * t OBVIOUS
    <3> DEFINE x == (w * m) * t
               y == (r * a - e * t) * m
               z == n * t
    <3>2. x \in Int /\ y \in Int /\ z \in Int OBVIOUS
    <3>3. x <= y /\ y <= z BY <2>4, <2>7, <3>1
    <3> HIDE DEF x, y, z
    <3>4. x <= z BY <3>2, <3>3
    <3> QED BY <3>4 DEF x, z
  <2> DEFINE x == w * m
  <2>9. x \in Int OBVIOUS
  <2> HIDE DEF x, n
  <2> QED BY <1>1, <2>8, <2>9, FactorCancels DEF x, PartRedeemed
<1> HIDE DEF n, m, w, q
<1>3. q \in Nat /\ n < m * q + m BY <1>1, Quotient, QuotientIsNat DEF q
<1>4. w <= q
  <2>1. q + 1 <= w => (q + 1) * m <= w * m BY <1>1, <1>3, ProductsGrow
  <2>2. (q + 1) * m = m * q + m /\ w * m \in Int /\ m * q \in Int BY <1>1, <1>3
  <2> QED BY <1>1, <1>2, <1>3, <2>1, <2>2
<1> QED BY <1>4 DEF q, n, m, w

\* The worth of a share over a whole report.
LEMMA WorthOverReport ==
  ASSUME NEW x \in Nat, NEW t \in Nat, NEW a \in Nat, NEW u \in Nat, NEW b \in Nat, NEW v \in Nat,
         x * u <= a * t, b * u >= a * (v - 1), v <= u
  PROVE  b * t >= x * (v - 1)
<1>1. CASE v = 0
  <2>1. x * (v - 1) = 0 - x /\ b * t \in Nat BY <1>1, ProductIsNat
  <2> QED BY <2>1
<1>2. CASE v > 0
  <2> DEFINE w == v - 1
             bt == b * t
             xw == x * w
             bu == b * u
             aw == a * w
             xu == x * u
             at == a * t
  <2>1. w \in Nat /\ u > 0 BY <1>2
  <2>2. bt \in Nat /\ xw \in Nat /\ bu \in Nat /\ aw \in Nat /\ xu \in Nat /\ at \in Nat
    BY <2>1, ProductIsNat
  <2>3. aw <= bu /\ xu <= at OBVIOUS
  <2>4. /\ bt * u = bu * t
        /\ aw * t = at * w
        /\ xu * w = xw * u
    OBVIOUS
  <2> HIDE DEF w, bt, xw, bu, aw, xu, at
  <2>5. aw * t <= bu * t /\ xu * w <= at * w BY <2>1, <2>2, <2>3, ProductsGrow
  <2>6. xw * u <= bt * u
    <3>1. aw * t \in Int /\ bu * t \in Int /\ xu * w \in Int /\ at * w \in Int BY <2>1, <2>2
    <3> QED BY <2>4, <2>5, <3>1
  <2>7. xw <= bt BY <2>1, <2>2, <2>6, FactorCancels
  <2> QED BY <2>2, <2>7 DEF xw, bt, w
<1> QED BY <1>1, <1>2

-----------------------------------------------------------------------------
(* What a report makes of the shares, the demand and the exits             *)

InNumbers(report, funded, earned, exiting, a, t, r, d, s, e) ==
  /\ a = AssetBalance(funded, report)
  /\ t = exiting.totalSupply /\ t = earned.totalSupply
  /\ r = books.redeemDemand
  /\ d = DemandInEth(exiting, report)
  /\ e = Least(d, exiting.balanceToRedeem)
  /\ e <= a /\ s <= r /\ r <= t /\ e <= d
  /\ t > 0 => PartRedeemed(a, t, r, d, s, e)
  /\ t > 0 /\ e < d => a * s <= e * t
  /\ t = 0 => a = 0 /\ d = 0 /\ r = 0
  /\ AssetBalance(books', report) = a - e
  /\ books'.totalSupply = t - s
  /\ books'.redeemDemand = r - s
  /\ t - s = 0 => e = a
  /\ books'.redeemEth = books.redeemEth + e
  /\ SameExits(exiting, books')
  /\ exiting.depositedValidatorCount = books.depositedValidatorCount
  /\ report.validatorsCount <= books.depositedValidatorCount

LEMMA ReportInNumbers ==
  ASSUME IInv, NEW report, NEW collected \in Books, NEW funded \in Books, NEW earned \in Books,
         NEW exiting \in Books, Reported(report, collected, funded, earned, exiting)
  PROVE  \E a, t, r, d, s, e \in Nat :
           InNumbers(report, funded, earned, exiting, a, t, r, d, s, e)
<1> DEFINE a == AssetBalance(exiting, report)
           t == exiting.totalSupply
           r == exiting.redeemDemand
           d == DemandInEth(exiting, report)
           s == Redeemed(exiting, report)
           e == Supplied(exiting, report)
<1>1. /\ Sound(exiting) /\ Sound(earned) /\ Sound(funded) /\ report \in Report
      /\ report.validatorsCount <= books.depositedValidatorCount
      /\ FundsArePulled(report, collected, funded)
      /\ FeesAreMinted(report, collected, funded, earned)
      /\ ExitsAreRequested(report, earned, exiting)
      /\ DemandIsServed(report, exiting)
  BY DEF Reported
<1>2. /\ funded.depositedValidatorCount = books.depositedValidatorCount
      /\ earned.depositedValidatorCount = books.depositedValidatorCount
      /\ exiting.depositedValidatorCount = books.depositedValidatorCount
      /\ earned.eth = funded.eth /\ exiting.eth = earned.eth
      /\ t = earned.totalSupply
      /\ r = books.redeemDemand
  BY <1>1 DEF FundsArePulled, FeesAreMinted, ExitsAreRequested, SameExits, SameEth, SameShares
<1>3. a = AssetBalance(earned, report) /\ a = AssetBalance(funded, report)
  <2>1. exiting.eth \in Nat BY DEF Books
  <2>2. /\ AssetBalance(exiting, report) = AssetBalance(funded, report) + (exiting.eth - funded.eth)
        /\ AssetBalance(exiting, report) = AssetBalance(earned, report) + (exiting.eth - earned.eth)
    BY <1>1, <1>2, BalanceMoves
  <2>3. AssetBalance(funded, report) \in Nat /\ AssetBalance(earned, report) \in Nat
    BY <1>1, <1>2, BalanceFollowsEth
  <2> QED BY <1>2, <2>1, <2>2, <2>3
<1>4. /\ a \in Nat /\ d \in Nat /\ t \in Nat /\ r \in Nat
      /\ t = 0 => d = 0
      /\ t * d <= r * a
      /\ t > 0 => r * a < t * d + t
      /\ d <= a /\ r <= t
  BY <1>1, <1>2, DemandIsWorth, BalanceFollowsEth DEF Books
<1>5. /\ e \in Nat /\ s \in Nat
      /\ e <= a /\ e <= d /\ s <= r
      /\ \/ e = 0 /\ s = 0
         \/ e = d /\ s = r /\ t > 0
         \/ d > e /\ t > 0 /\ a * s <= e * t /\ e * t < a * s + a
  BY <1>1, <1>2, DemandRedeemed
<1>6. /\ AssetBalance(books', report) = a - e
      /\ books'.totalSupply = t - s
      /\ books'.redeemDemand = r - s
  BY <1>1 DEF DemandIsServed
<1>7. t = 0 => a = 0
  <2>1. earned.totalSupply >= books.totalSupply /\ books.totalSupply \in Nat
    BY <1>1 DEF FeesAreMinted, IInv, TypeOK, Books
  <2>2. t = 0 => books.totalSupply = 0 BY <1>2, <2>1
  <2> QED BY <1>1, <1>3, <2>2 DEF FeesAreMinted
<1> HIDE DEF a, t, r, d, s, e
<1>8. t > 0 => PartRedeemed(a, t, r, d, s, e) BY <1>4, <1>5 DEF PartRedeemed
<1>9. t = 0 => r = 0 BY <1>4
<1>10. t - s = 0 => e = a
  <2> SUFFICES ASSUME t - s = 0 PROVE e = a OBVIOUS
  <2>1. s = t /\ s = r BY <1>4, <1>5
  <2>2. CASE t = 0 BY <1>4, <1>5, <1>7, <2>2
  <2>3. CASE t > 0 /\ e = d
    <3>1. t * a < t * (d + 1)
      <4>1. t * (d + 1) = t * d + t /\ r * a = t * a BY <1>4, <2>1
      <4> QED BY <1>4, <2>3, <4>1
    <3>2. d + 1 <= a => (d + 1) * t <= a * t BY <1>4, ProductsGrow
    <3>3. (d + 1) * t = t * (d + 1) /\ a * t = t * a /\ t * a \in Int /\ t * (d + 1) \in Int
      BY <1>4
    <3> QED BY <1>4, <2>3, <3>1, <3>2, <3>3
  <2>4. CASE t > 0 /\ d > e /\ a * s <= e * t
    <3>1. a * t <= e * t BY <2>1, <2>4
    <3>2. a <= e BY <1>4, <1>5, <2>4, <3>1, FactorCancels
    <3> QED BY <1>4, <1>5, <3>2
  <2>5. CASE e = 0 /\ s = 0 BY <1>4, <1>5, <1>7, <2>1, <2>5
  <2> QED BY <1>4, <1>5, <2>2, <2>3, <2>4, <2>5
<1>11. t > 0 /\ e < d => a * s <= e * t
  <2> SUFFICES ASSUME t > 0, e < d PROVE a * s <= e * t OBVIOUS
  <2>1. CASE e = 0 /\ s = 0 BY <1>4, <2>1
  <2> QED BY <1>4, <1>5, <2>1
<1>12. /\ books'.redeemEth = books.redeemEth + e
       /\ e = Least(d, exiting.balanceToRedeem)
       /\ t = exiting.totalSupply
       /\ d = DemandInEth(exiting, report)
  BY <1>1 DEF FundsArePulled, FeesAreMinted, ExitsAreRequested, DemandIsServed, SameFunds,
              Supplied, e, d, t
<1>13. SameExits(exiting, books') BY <1>1 DEF DemandIsServed
<1>14. InNumbers(report, funded, earned, exiting, a, t, r, d, s, e)
  BY <1>1, <1>2, <1>3, <1>4, <1>5, <1>6, <1>7, <1>8, <1>9, <1>10, <1>11, <1>12, <1>13
     DEF InNumbers
<1> QED BY <1>4, <1>5, <1>14

LEMMA ReportIsKept ==
  ASSUME IInv, NEW report, NEW collected \in Books, NEW funded \in Books, NEW earned \in Books,
         NEW exiting \in Books, Reported(report, collected, funded, earned, exiting)
  PROVE  IInv'
<1>1. /\ lastReport' = report /\ report \in Report /\ Sound(books')
      /\ globalFee' = globalFee /\ bounds' = bounds
      /\ dailyLimits' = dailyLimits /\ world' = world
  BY DEF Reported, settings
<1>2. TypeOK' BY <1>1 DEF IInv, TypeOK, Sound
<1>3. PICK a, t, r, d, s, e \in Nat :
        InNumbers(report, funded, earned, exiting, a, t, r, d, s, e)
  BY ReportInNumbers
<1>4. report.validatorsCount <= books'.depositedValidatorCount
  BY <1>3 DEF InNumbers, SameExits
<1>5. books'.totalSupply = 0 => AssetBalance(books', report) = 0
  BY <1>3 DEF InNumbers
<1> QED BY <1>1, <1>2, <1>4, <1>5 DEF IInv, NoAssetsWithoutShares

\* Every step is a quiet one or a report.
AReport ==
  \E report \in Report, collected, funded, earned, exiting \in Books :
    Reported(report, collected, funded, earned, exiting)

LEMMA StepIsQuietOrReports ==
  ASSUME IInv, [Next]_vars
  PROVE  IInv' /\ (Quiet \/ AReport)
<1>1. world \in World /\ books \in Books /\ lastReport \in Report
  BY RiverAssumption DEF IInv, TypeOK
<1>2. CASE UNCHANGED vars
  <2>1. /\ books' = books /\ UNCHANGED <<lastReport, settings>>
    BY <1>2 DEF vars, settings
  <2> QED BY <1>1, <2>1, BooksAreKept DEF SameEth, SameShares, SameExits
<1>3. CASE HoldersAct
  <2>1. ASSUME NEW u \in User, NEW recipient \in User, NEW value \in Deposits,
               Deposit(u, recipient, value)
        PROVE  IInv' /\ Quiet
    BY <2>1, DepositIsKept
  <2>2. ASSUME NEW h \in Holder \ {RedeemManager}, NEW to \in Holder \ {h},
               NEW value \in world.transfers, Transfer(h, to, value)
        PROVE  IInv' /\ Quiet
    <3>1. value \in Nat BY <1>1 DEF World
    <3> QED BY <2>2, <3>1, TransferIsKept
  <2>3. ASSUME NEW h \in Holder \ {RedeemManager}, NEW value \in Redeems, RequestRedeem(h, value)
        PROVE  IInv' /\ Quiet
    <3>1. value \in Nat BY RiverAssumption
    <3> QED BY <2>3, <3>1, RequestRedeemIsKept
  <2> QED BY <1>3, <2>1, <2>2, <2>3 DEF HoldersAct
<1>4. CASE AdministratorActs BY <1>4, AdministratorIsKept
<1>5. CASE KeeperActs
  <2>1. ASSUME NEW count \in 1..(books.committedBalance \div DepositSize),
               DepositToConsensusLayer(count)
        PROVE  IInv' /\ Quiet
    <3>1. books.committedBalance \div DepositSize \in Int
      BY <1>1, RiverAssumption, Quotient DEF Books
    <3>2. count \in Nat BY <3>1
    <3> QED BY <2>1, <3>2, DepositToConsensusLayerIsKept
  <2>2. ASSUME NEW count \in 1..books.exitsDemand, RequestValidatorExits(count)
        PROVE  IInv' /\ Quiet
    <3>1. count \in Nat BY <1>1 DEF Books
    <3> QED BY <2>2, <3>1, RequestValidatorExitsIsKept
  <2> QED BY <1>5, <2>1, <2>2 DEF KeeperActs
<1>6. CASE EthArrives BY <1>6, EthArrivingIsKept
<1>7. CASE OracleReports
  <2>1. PICK report \in Reports, skimmed \in world.skims, exited \in world.exits,
             rebalancing \in BOOLEAN,
             stopped \in books.stopped..books.depositedValidatorCount,
             unsolicited \in 0..books.depositedValidatorCount :
          SetConsensusLayerData(report, skimmed, exited, stopped, unsolicited, rebalancing)
    BY <1>7 DEF OracleReports
  <2>2. report \in Report
    <3>1. /\ report \in [epoch : {e \in {lastReport.epoch + n : n \in Epochs} : e <= world.maxEpoch},
                         validatorsBalance : world.balances,
                         validatorsExitingBalance : world.exiting,
                         validatorsCount : lastReport.validatorsCount..books.depositedValidatorCount,
                         slashingContainmentMode : BOOLEAN]
      BY DEF Reports
    <3>2. \A n \in Epochs : lastReport.epoch + n \in Nat BY <1>1, RiverAssumption DEF Report
    <3>3. world.balances \subseteq Nat /\ world.exiting \subseteq Nat BY <1>1 DEF World
    <3>4. lastReport.validatorsCount \in Nat BY <1>1 DEF Report
    <3> QED BY <1>1, <3>1, <3>2, <3>3, <3>4 DEF Report, Books
  <2>3. skimmed \in Nat /\ exited \in Nat BY <1>1 DEF World
  <2>4. stopped \in Nat /\ unsolicited \in Nat BY <1>1 DEF Books
  <2>5. PICK collected, funded, earned, exiting \in Books :
          Reported(report, collected, funded, earned, exiting)
    BY <2>1, <2>2, <2>3, <2>4, ReportIsMade
  <2>6. IInv' BY <2>5, ReportIsKept
  <2> QED BY <2>2, <2>5, <2>6 DEF AReport
<1> QED BY <1>2, <1>3, <1>4, <1>5, <1>6, <1>7 DEF Next

-----------------------------------------------------------------------------
(* The theorems                                                            *)

LEMMA InitHolds == Init => IInv
<1> SUFFICES ASSUME Init PROVE IInv OBVIOUS
<1> DEFINE none == [h \in Holder |-> 0]
<1>1. /\ books = [balanceToDeposit |-> 0, committedBalance |-> 0, balanceToRedeem |-> 0,
                  eth |-> 0, depositedValidatorCount |-> 0,
                  totalSupply |-> 0, balanceOf |-> none,
                  withdraw |-> 0, elFees |-> 0, coverage |-> 0,
                  redeemDemand |-> 0, redeemEth |-> 0, exceedingEth |-> 0,
                  exitsRequested |-> 0, exitsDemand |-> 0, stopped |-> 0]
      /\ lastReport = [epoch |-> 0, validatorsBalance |-> 0, validatorsExitingBalance |-> 0,
                       validatorsCount |-> 0, slashingContainmentMode |-> FALSE]
      /\ world \in Worlds
      /\ globalFee \in world.fees
      /\ bounds \in world.bounds
      /\ dailyLimits \in world.dailyLimits
  BY DEF Init
<1>2. none \in [Holder -> Nat] /\ none[RedeemManager] = 0 BY HoldersAreFinite
<1>3. SumFunctionOnSet(none, Holder) = 0
  <2>1. \A h \in Holder : none[h] = 0 OBVIOUS
  <2> HIDE DEF none
  <2> QED BY <2>1, HoldersAreFinite, SumOfZeros
<1> HIDE DEF none
<1>4. books \in Books BY <1>1, <1>2 DEF Books
<1>5. lastReport \in Report BY <1>1 DEF Report
<1>6. 0 % DepositSize = 0 BY RiverAssumption
<1>7. Sound(books) BY <1>1, <1>2, <1>3, <1>4, <1>6 DEF Sound, Exits
<1>8. AssetBalance(books, lastReport) = 0
  <2>1. Greatest(0 - 0, 0) * DepositSize = 0 BY RiverAssumption DEF Greatest
  <2> QED BY <1>1, <2>1 DEF AssetBalance
<1> QED BY <1>1, <1>4, <1>5, <1>7, <1>8 DEF IInv, TypeOK, NoAssetsWithoutShares

\* The invariant the others follow from: the books are sound, reports see only
\* validators that were deposited to, and no ETH is without an owner.
THEOREM Inductive == Spec => []IInv
<1>1. IInv /\ [Next]_vars => IInv' BY StepIsQuietOrReports
<1> QED BY <1>1, InitHolds, PTL DEF Spec

\* The books and the last report keep their types, whatever a report brings:
\* supply, balances, committed ETH and counts are natural numbers
\* (setConsensusLayerData, depositToConsensusLayerWithDepositRoot).
THEOREM TypeCorrect == Spec => []TypeOK
<1>1. IInv => TypeOK BY DEF IInv
<1> QED BY <1>1, Inductive, PTL

\* No pull, supply or deposit of River is booked twice or not at all, and no
\* entry of the books falls below zero, whatever reports the oracle makes.
THEOREM EthStaysAccounted == Spec => []EthIsAccounted
<1>1. IInv => EthIsAccounted BY DEF IInv, Sound, EthIsAccounted
<1> QED BY <1>1, Inductive, PTL

\* The redeem manager holds the shares of its demand, so that a report's burn
\* does not revert.
THEOREM DemandStaysHeld == Spec => []DemandIsHeld
<1>1. IInv => DemandIsHeld
  <2> SUFFICES ASSUME IInv PROVE DemandIsHeld OBVIOUS
  <2>1. books.redeemDemand <= books.balanceOf[RedeemManager] BY DEF IInv, Sound
  <2>2. books.redeemDemand \in Nat /\ books.balanceOf[RedeemManager] \in Nat
    BY HoldersAreFinite DEF IInv, TypeOK, Books
  <2> QED BY <2>1, <2>2 DEF DemandIsHeld
<1> QED BY <1>1, Inductive, PTL

\* What River commits is whole deposits.
THEOREM DepositsStayWhole == Spec => []CommittedInDeposits
<1>1. IInv => CommittedInDeposits BY DEF IInv, Sound, CommittedInDeposits
<1> QED BY <1>1, Inductive, PTL

\* A protocol whose LsETH has all been redeemed keeps no ETH.
THEOREM AssetsHaveOwners == Spec => []NoAssetsWithoutShares
<1>1. IInv => NoAssetsWithoutShares BY DEF IInv
<1> QED BY <1>1, Inductive, PTL

\* A quiet step is no report; a report is told by its stages.
LEMMA ReportOrNot ==
  ASSUME IInv, [Next]_vars
  PROVE  /\ Reporting => AReport
         /\ books'.exitsDemand > books.exitsDemand => AReport
         /\ Quiet \/ AReport
<1>1. Quiet \/ AReport BY StepIsQuietOrReports
<1>2. IInv' BY StepIsQuietOrReports
<1>3. books.exitsDemand \in Nat /\ books'.exitsDemand \in Nat
  BY <1>2 DEF IInv, TypeOK, Books
<1>4. Quiet => ~Reporting /\ ~(books'.exitsDemand > books.exitsDemand)
  BY <1>3 DEF Quiet, Reporting
<1> QED BY <1>1, <1>4

\* A report moves the balance within the bounds the administrator set, wherever
\* the ETH is from.
THEOREM ReportsKeepBounds == Spec => ReportWithinBounds
<1> DEFINE elapsed == (lastReport'.epoch - lastReport.epoch) * EpochTime
           supplied == books'.redeemEth - books.redeemEth
           Within == /\ Balance' + supplied <= Balance + MaxIncrease(Balance, elapsed)
                     /\ Balance' + supplied >= Balance - MaxDecrease(Balance)
<1>1. ASSUME IInv, [Next]_vars, Reporting PROVE Within
  <2>1. PICK report \in Report, collected, funded, earned, exiting \in Books :
          Reported(report, collected, funded, earned, exiting)
    BY <1>1, ReportOrNot DEF AReport
  <2>2. lastReport' = report BY <2>1 DEF Reported
  <2>3. PICK a, t, r, d, s, e \in Nat :
          InNumbers(report, funded, earned, exiting, a, t, r, d, s, e)
    BY <1>1, <2>1, ReportInNumbers
  <2>4. /\ AssetBalance(books', report) = a - e
        /\ books'.redeemEth = books.redeemEth + e
        /\ a = AssetBalance(funded, report)
        /\ report.validatorsCount <= books.depositedValidatorCount
    BY <2>3 DEF InNumbers
  <2>5. Balance' = a - e BY <2>2, <2>4 DEF Balance
  <2>6. books.redeemEth \in Nat BY <1>1 DEF IInv, TypeOK, Books
  <2>7. supplied = e BY <2>4, <2>6
  <2>8. /\ a <= Balance + MaxIncrease(Balance, elapsed)
        /\ AssetBalance(collected, report) >= Balance - MaxDecrease(Balance)
        /\ AssetBalance(collected, report) <= a
    BY <2>1, <2>2, <2>4 DEF Reported, FundsArePulled, Balance
  <2>9. AssetBalance(collected, report) \in Nat
    BY <2>1, <2>4, BalanceFollowsEth DEF Reported
  <2>10. /\ Balance \in Nat
         /\ MaxIncrease(Balance, elapsed) \in Nat /\ MaxDecrease(Balance) \in Nat
    <3>1. Balance \in Nat BY <1>1, BalanceFollowsEth DEF Balance, IInv, TypeOK
    <3>2. lastReport'.epoch - lastReport.epoch \in Nat
      BY <1>1, <2>1, <2>2 DEF Reported, Report, IInv, TypeOK
    <3>3. elapsed \in Nat BY <3>2, ProductIsNat, RiverAssumption
    <3> QED BY <1>1, <3>1, <3>3, BoundsAreNumbers
  <2> HIDE DEF supplied, elapsed
  <2> QED BY <2>5, <2>7, <2>8, <2>9, <2>10
<1>2. IInv /\ [Next]_vars => [Reporting => Within]_vars BY <1>1
<1> QED BY <1>2, Inductive, PTL DEF Spec, ReportWithinBounds

\* Unless validators lost ETH, no deposit, fee or redeem lowers what a share is
\* worth by more than one share's rounding.
THEOREM RateIsKept == Spec => RateHolds
<1> DEFINE Kept == (Reporting => Lossless) =>
                     Balance' * books.totalSupply >= Balance * (books'.totalSupply - 1)
<1>1. ASSUME IInv, [Next]_vars PROVE Kept
  <2>1. CASE Quiet BY <2>1 DEF Quiet, Balance
  <2>2. CASE AReport
    <3>1. PICK report \in Report, collected, funded, earned, exiting \in Books :
            Reported(report, collected, funded, earned, exiting)
      BY <2>2 DEF AReport
    <3>2. /\ lastReport' = report
          /\ Reporting
      BY <1>1, <3>1 DEF Reported, Reporting, IInv, TypeOK, Report
    <3>3. PICK a, t, r, d, s, e \in Nat :
            InNumbers(report, funded, earned, exiting, a, t, r, d, s, e)
      BY <1>1, <3>1, ReportInNumbers
    <3>4. /\ AssetBalance(books', report) = a - e
          /\ books'.totalSupply = t - s
          /\ books'.redeemEth = books.redeemEth + e
          /\ a = AssetBalance(funded, report)
          /\ t = earned.totalSupply
          /\ e <= a /\ s <= t
          /\ t > 0 => PartRedeemed(a, t, r, d, s, e)
          /\ t = 0 => a = 0
      BY <3>3 DEF InNumbers
    <3> DEFINE x == Balance
               u == books.totalSupply
    <3>5. x \in Nat /\ u \in Nat /\ books.redeemEth \in Nat
      BY <1>1, BalanceFollowsEth DEF Balance, IInv, TypeOK, Books
    <3>6. Balance' = a - e BY <3>2, <3>4 DEF Balance
    <3>7. ASSUME Lossless PROVE AssetBalance(collected, report) >= x
      <4>1. /\ books'.elFees = funded.elFees
            /\ books'.exceedingEth = funded.exceedingEth
            /\ books'.coverage = funded.coverage
        BY <3>1 DEF Reported, FeesAreMinted, ExitsAreRequested, DemandIsServed, SameFunds
      <4>2. a = AssetBalance(collected, report)
                  + (books.elFees - funded.elFees) + (books.exceedingEth - funded.exceedingEth)
                  + (books.coverage - funded.coverage)
        BY <3>1, <3>4 DEF Reported, FundsArePulled
      <4>3. Balance' + (books'.redeemEth - books.redeemEth) - Pulled("elFees")
              - Pulled("exceedingEth") - Pulled("coverage") >= x
        BY <3>7 DEF Lossless
      <4>4. /\ Pulled("elFees") = books.elFees - books'.elFees
            /\ Pulled("exceedingEth") = books.exceedingEth - books'.exceedingEth
            /\ Pulled("coverage") = books.coverage - books'.coverage
        BY <1>1, <3>1 DEF Pulled, IInv, TypeOK, Books, Reported, Sound
      <4>5. /\ books.elFees \in Nat /\ books.exceedingEth \in Nat /\ books.coverage \in Nat
            /\ funded.elFees \in Nat /\ funded.exceedingEth \in Nat /\ funded.coverage \in Nat
        BY <1>1 DEF IInv, TypeOK, Books
      <4>6. AssetBalance(collected, report) \in Nat
        <5>1. report.validatorsCount <= collected.depositedValidatorCount
              /\ Sound(collected)
          BY <3>1 DEF Reported
        <5> QED BY <5>1, BalanceFollowsEth
      <4> HIDE DEF x
      <4> QED BY <3>4, <3>5, <3>6, <4>1, <4>2, <4>3, <4>4, <4>5, <4>6
    <3>8. AssetBalance(collected, report) >= x => x * t <= a * u
      BY <3>1, <3>4 DEF Reported, FeesAreMinted, Balance
    <3> HIDE DEF x, u
    <3>9. (a - e) * t >= a * (t - s - 1)
      <4>1. CASE t = 0 BY <3>4, <4>1
      <4>2. CASE t > 0 BY <3>4, <4>2, WorthStays
      <4> QED BY <4>1, <4>2
    <3>10. ASSUME Lossless PROVE (a - e) * u >= x * (t - s - 1)
      <4>1. x * t <= a * u BY <3>7, <3>8, <3>10
      <4>2. a - e \in Nat /\ t - s \in Nat /\ t - s <= t BY <3>4
      <4> QED BY <3>5, <3>9, <4>1, <4>2, WorthOverReport
    <3>11. Lossless => Balance' * u >= x * (books'.totalSupply - 1)
      BY <3>4, <3>6, <3>10
    <3> QED BY <3>2, <3>11 DEF x, u
  <2> QED BY <1>1, <2>1, <2>2, ReportOrNot
<1>2. IInv /\ [Next]_vars => [Kept]_vars BY <1>1
<1> QED BY <1>2, Inductive, PTL DEF Spec, RateHolds

\* While slashing is contained nothing is committed, deposited, requested or
\* demanded.
THEOREM ContainmentIsKept == Spec => ContainmentHolds
<1> DEFINE Kept == lastReport'.slashingContainmentMode =>
                     /\ books'.committedBalance <= books.committedBalance
                     /\ books'.depositedValidatorCount = books.depositedValidatorCount
                     /\ books'.redeemDemand <= books.redeemDemand
                     /\ books'.exitsDemand <= books.exitsDemand
<1>1. ASSUME IInv, [Next]_vars, lastReport'.slashingContainmentMode PROVE Contained
  <2>1. CASE Quiet BY <1>1, <2>1 DEF Quiet
  <2>2. CASE AReport
    <3>1. PICK report \in Report, collected, funded, earned, exiting \in Books :
            Reported(report, collected, funded, earned, exiting)
      BY <2>2 DEF AReport
    <3>2. lastReport' = report BY <3>1 DEF Reported
    <3>3. PICK a, t, r, d, s, e \in Nat :
            InNumbers(report, funded, earned, exiting, a, t, r, d, s, e)
      BY <1>1, <3>1, ReportInNumbers
    <3>4. /\ books'.redeemDemand = r - s /\ r = books.redeemDemand
          /\ books'.depositedValidatorCount = books.depositedValidatorCount
          /\ books'.exitsDemand = exiting.exitsDemand
      BY <3>3 DEF InNumbers, SameExits
    <3>5. exiting.exitsDemand <= books.exitsDemand
      BY <1>1, <3>1, <3>2 DEF Reported, ExitsAreRequested
    <3>6. books'.committedBalance = books.committedBalance
      BY <1>1, <3>1, <3>2 DEF Reported, FundsArePulled, FeesAreMinted, ExitsAreRequested,
                              DemandIsServed, SameEth
    <3>7. books.committedBalance \in Nat BY <1>1 DEF IInv, TypeOK, Books
    <3> QED BY <3>4, <3>5, <3>6, <3>7 DEF Contained
  <2> QED BY <1>1, <2>1, <2>2, ReportOrNot
<1>2. IInv /\ [Next]_vars => [Kept]_vars BY <1>1 DEF Contained
<1> QED BY <1>2, Inductive, PTL DEF Spec, ContainmentHolds

\* What a report leaves of the redeem demand, but for one share, is on its way,
\* or every validator has been asked to exit.
THEOREM DemandIsCovered == Spec => RedeemDemandIsCovered
<1> DEFINE Covered ==
      \/ BalanceFromShares(books', lastReport', books'.redeemDemand - 1)
           <= lastReport'.validatorsExitingBalance + InFlight' * DepositSize
      \/ books'.exitsRequested + books'.exitsDemand = books'.depositedValidatorCount
<1>1. ASSUME IInv, [Next]_vars, Reporting, ~lastReport'.slashingContainmentMode
      PROVE  Covered
  <2>1. PICK report \in Report, collected, funded, earned, exiting \in Books :
          Reported(report, collected, funded, earned, exiting)
    BY <1>1, ReportOrNot DEF AReport
  <2>2. lastReport' = report BY <2>1 DEF Reported
  <2>3. PICK a, t, r, d, s, e \in Nat :
          InNumbers(report, funded, earned, exiting, a, t, r, d, s, e)
    BY <1>1, <2>1, ReportInNumbers
  <2>4. /\ AssetBalance(books', report) = a - e
        /\ books'.totalSupply = t - s
        /\ books'.redeemDemand = r - s
        /\ t > 0 => PartRedeemed(a, t, r, d, s, e)
        /\ e <= a /\ s <= r /\ r <= t /\ e <= d
        /\ e = Least(d, exiting.balanceToRedeem)
        /\ d = DemandInEth(exiting, report)
        /\ SameExits(exiting, books')
    BY <2>3 DEF InNumbers
  <2>5. ExitsSuffice(exiting, report)
    BY <1>1, <2>1, <2>2 DEF Reported, ExitsAreRequested
  <2>6. CASE Exits(exiting) = exiting.depositedValidatorCount
    BY <2>4, <2>6 DEF Exits, SameExits
  <2>7. CASE d - exiting.balanceToRedeem
               <= report.validatorsExitingBalance + UnderWay(exiting) * DepositSize
    <3> DEFINE room == report.validatorsExitingBalance + UnderWay(exiting) * DepositSize
    <3>1. room \in Nat
      <4>1. UnderWay(exiting) \in Nat BY <2>1 DEF Reported, Sound, Books, UnderWay, Exits
      <4>2. UnderWay(exiting) * DepositSize \in Nat BY <4>1, ProductIsNat, RiverAssumption
      <4> QED BY <4>2 DEF Report
    <3>2. InFlight' = UnderWay(exiting)
      BY <2>4 DEF InFlight, UnderWay, Exits, SameExits, Books
    <3>3. d - e <= room
      <4> HIDE DEF room
      <4>1. exiting.balanceToRedeem \in Nat BY DEF Books
      <4>2. d - exiting.balanceToRedeem <= room BY <2>7 DEF room
      <4> QED BY <2>4, <3>1, <4>1, <4>2 DEF Least
    <3> HIDE DEF room
    <3>4. BalanceFromShares(books', report, books'.redeemDemand - 1) <= room
      <4>1. BalanceFromShares(books', report, books'.redeemDemand - 1)
              = IF t - s = 0 THEN 0 ELSE ((r - s - 1) * (a - e)) \div (t - s)
        BY <2>4 DEF BalanceFromShares
      <4>2. CASE t - s = 0 BY <3>1, <4>1, <4>2
      <4>3. CASE t - s # 0
        <5>1. t - s > 0 /\ t > 0 BY <2>4, <4>3
        <5> DEFINE q == ((r - s - 1) * (a - e)) \div (t - s)
        <5>2. q <= d - e BY <2>4, <5>1, DemandLeftIsBounded
        <5>3. q \in Int
          <6> DEFINE n == (r - s - 1) * (a - e)
          <6>1. n \in Int /\ t - s \in Int OBVIOUS
          <6> HIDE DEF n
          <6>2. n \div (t - s) \in Int BY <5>1, <6>1, Quotient
          <6> QED BY <6>2 DEF n
        <5> HIDE DEF q
        <5>4. q <= room BY <3>1, <3>3, <5>2, <5>3
        <5> QED BY <4>1, <4>3, <5>4 DEF q
      <4> QED BY <4>2, <4>3
    <3> QED BY <2>2, <3>2, <3>4 DEF room
  <2> QED BY <2>4, <2>5, <2>6, <2>7 DEF ExitsSuffice
<1>2. IInv /\ [Next]_vars =>
        [Reporting /\ ~lastReport'.slashingContainmentMode => Covered]_vars
  BY <1>1
<1> QED BY <1>2, Inductive, PTL DEF Spec, RedeemDemandIsCovered

\* A report demands no validator the redeem demand it leaves could do without.
THEOREM NoExitIsExcess == Spec => NoExcessExits
<1> DEFINE Needed == lastReport'.validatorsExitingBalance + (InFlight' - 1) * DepositSize
                       < DemandInEth(books', lastReport')
<1>1. ASSUME IInv, [Next]_vars, books'.exitsDemand > books.exitsDemand PROVE Needed
  <2>1. PICK report \in Report, collected, funded, earned, exiting \in Books :
          Reported(report, collected, funded, earned, exiting)
    BY <1>1, ReportOrNot DEF AReport
  <2>2. lastReport' = report BY <2>1 DEF Reported
  <2>3. PICK a, t, r, d, s, e \in Nat :
          InNumbers(report, funded, earned, exiting, a, t, r, d, s, e)
    BY <1>1, <2>1, ReportInNumbers
  <2>4. /\ AssetBalance(books', report) = a - e
        /\ books'.totalSupply = t - s
        /\ books'.redeemDemand = r - s
        /\ t > 0 => PartRedeemed(a, t, r, d, s, e)
        /\ t > 0 /\ e < d => a * s <= e * t
        /\ t = 0 => d = 0
        /\ t - s = 0 => e = a
        /\ e <= a /\ s <= r /\ r <= t /\ e <= d
        /\ e = Least(d, exiting.balanceToRedeem)
        /\ d = DemandInEth(exiting, report)
        /\ SameExits(exiting, books')
    BY <2>3 DEF InNumbers
  <2>5. /\ LastExitIsNeeded(exiting, report)
        /\ d > exiting.balanceToRedeem
    BY <1>1, <2>1, <2>4 DEF Reported, ExitsAreRequested, SameExits
  <2>6. exiting.balanceToRedeem \in Nat BY DEF Books
  <2>7. e = exiting.balanceToRedeem /\ e < d /\ t > 0 BY <2>4, <2>5, <2>6 DEF Least
  <2>8. t - s # 0
    <3> SUFFICES ASSUME t - s = 0 PROVE FALSE OBVIOUS
    <3>1. e = a /\ s = r /\ r = t BY <2>4
    <3>2. d <= a
      <4>1. t * d <= t * a BY <2>4, <2>7, <3>1 DEF PartRedeemed
      <4>2. t * d = d * t /\ t * a = a * t OBVIOUS
      <4> QED BY <2>7, <4>1, <4>2, FactorCancels
    <3> QED BY <2>7, <3>1, <3>2
  <2>9. DemandInEth(books', report) = ((r - s) * (a - e)) \div (t - s)
    BY <2>4, <2>8 DEF DemandInEth, BalanceFromShares
  <2>10. d - e <= ((r - s) * (a - e)) \div (t - s)
    <3>1. t - s > 0 BY <2>4, <2>8
    <3> QED BY <2>4, <2>7, <3>1, DemandLeftIsWorth
  <2>11. InFlight' = UnderWay(exiting)
    BY <2>4 DEF InFlight, UnderWay, Exits, SameExits, Books
  <2>12. report.validatorsExitingBalance + (UnderWay(exiting) - 1) * DepositSize < d - e
    BY <2>4, <2>5, <2>7 DEF LastExitIsNeeded
  <2> DEFINE n == report.validatorsExitingBalance + (UnderWay(exiting) - 1) * DepositSize
             m == DemandInEth(books', report)
  <2>13. n \in Int
    <3>1. UnderWay(exiting) \in Nat BY <2>1 DEF Reported, Sound, Books, UnderWay, Exits
    <3> QED BY <3>1, RiverAssumption DEF Report
  <2>14. m \in Int
    <3>1. t - s > 0 BY <2>4, <2>8
    <3> DEFINE p == (r - s) * (a - e)
    <3>2. p \in Int /\ t - s \in Int OBVIOUS
    <3> HIDE DEF p
    <3>3. p \div (t - s) \in Int BY <3>1, <3>2, Quotient
    <3> QED BY <2>9, <3>3 DEF p
  <2>15. n < d - e /\ d - e <= m BY <2>9, <2>10, <2>12
  <2> HIDE DEF n, m
  <2>16. n < m BY <2>13, <2>14, <2>15
  <2> QED BY <2>2, <2>11, <2>16 DEF n, m
<1>2. IInv /\ [Next]_vars => [books'.exitsDemand > books.exitsDemand => Needed]_vars BY <1>1
<1> QED BY <1>2, Inductive, PTL DEF Spec, NoExcessExits

=============================================================================
