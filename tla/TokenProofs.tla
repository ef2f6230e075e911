------------------------------ MODULE TokenProofs ------------------------------
(***************************************************************************)
(* Theorems about the tokens beside LsETH and the list their holders are   *)
(* on: the wrapped LsETH (WLSETH), for any holders, rates and amounts; the *)
(* Allowlist and its firewall, for any accounts and rights; the vested TLC *)
(* (Vesting), for any schedules.                                           *)
(***************************************************************************)
EXTENDS WLSETH, Allowlist, Vesting, Sums, SequenceTheorems, TLAPS

-----------------------------------------------------------------------------
(* The wrapper.                                                            *)

\* What an account is worth, rounded down, buys no more than its shares.
LEMMA WorthBuysNoMore ==
  ASSUME NEW shares \in Nat, NEW total \in Nat, NEW supply \in Nat, supply > 0, total > 0,
         NEW value \in Nat, value <= (shares * total) \div supply
  PROVE  (value * supply) \div total \in 0..shares
<1>1. shares * total \in Nat /\ value * supply \in Nat
  OBVIOUS
<1>2. ASSUME NEW n \in Nat
      PROVE  /\ n \div supply \in Nat /\ supply * (n \div supply) \in Nat
             /\ supply * (n \div supply) <= n
  OBVIOUS
<1>3. ASSUME NEW n \in Nat
      PROVE  /\ n \div total \in Nat /\ total * (n \div total) \in Nat
             /\ total * (n \div total) <= n
  OBVIOUS
<1>4. PICK w \in Nat : w = (shares * total) \div supply
  BY <1>1, <1>2
<1>5. PICK b \in Nat : b = (value * supply) \div total
  BY <1>1, <1>3
<1>6. supply * w <= shares * total /\ total * b <= value * supply
  BY <1>1, <1>2, <1>3, <1>4, <1>5
<1>7. value * supply <= w * supply
  BY <1>4
<1>8. total * b <= total * shares
  <2>1. w * supply = supply * w /\ shares * total = total * shares
        /\ supply * w \in Nat /\ total * b \in Nat /\ total * shares \in Nat
    OBVIOUS
  <2> QED BY <1>1, <1>6, <1>7, <2>1
<1>9. ASSUME b > shares PROVE FALSE
  <2>1. total * b >= total * (shares + 1)
    BY <1>9
  <2>2. total * (shares + 1) = total * shares + total
    OBVIOUS
  <2>3. total * b \in Nat /\ total * shares \in Nat
    OBVIOUS
  <2> QED BY <1>8, <2>1, <2>2, <2>3
<1> QED BY <1>5, <1>9

\* One account's balance changes.
LEMMA SumOfPayment ==
  ASSUME NEW S, IsFiniteSet(S), NEW f, NEW g, NEW a \in S, NEW n \in Int,
         \A x \in S : f[x] \in Nat /\ g[x] \in Nat,
         \A x \in S : x # a => g[x] = f[x],
         g[a] = f[a] + n
  PROVE  SumFunctionOnSet(g, S) = SumFunctionOnSet(f, S) + n
<1>1. \A x \in S : f[x] \in Int /\ g[x] \in Int
  OBVIOUS
<1>2. SumFunctionOnSet(g, S) = SumFunctionOnSet(f, S) + g[a] - f[a]
  BY <1>1, SumOfChange
<1>3. SumFunctionOnSet(f, S) \in Int /\ f[a] \in Int /\ g[a] \in Int
  BY <1>1, SumIsInt
<1> QED BY <1>2, <1>3

\* Who has the funds for an amount, in ETH, has the shares it stands for.
LEMMA SharesBought ==
  ASSUME TypeOK, NEW a \in Account, NEW value \in Nat, HasFunds(a, value)
  PROVE  SharesFromUnderlyingBalance(value) \in 0..balanceOf[a]
<1>1. balanceOf[a] \in Nat /\ assets \in Nat /\ Supply \in Nat /\ Supply > 0
  BY WLSETHAssumption DEF TypeOK
<1>2. CASE assets = 0
  BY <1>1, <1>2 DEF SharesFromUnderlyingBalance
<1>3. CASE assets # 0
  <2>1. value <= (balanceOf[a] * assets) \div Supply
    <3>1. (balanceOf[a] * assets) \div Supply >= value
      BY DEF HasFunds, UnderlyingBalanceFromShares
    <3>2. balanceOf[a] * assets \in Nat
      BY <1>1
    <3>3. (balanceOf[a] * assets) \div Supply \in Int
      BY <1>1, <3>2
    <3> QED BY <3>1, <3>3
  <2>2. assets > 0
    BY <1>1, <1>3
  <2>3. (value * Supply) \div assets \in 0..balanceOf[a]
    BY <1>1, <2>1, <2>2, WorthBuysNoMore
  <2> QED BY <1>3, <2>3 DEF SharesFromUnderlyingBalance
<1> QED BY <1>2, <1>3

\* _transfer: the shares that move change hands, and none is overdrawn.
LEMMA MoveKeeps ==
  ASSUME SharesAreBacked, NEW from \in Account, NEW to \in Account, NEW value \in Nat,
         HasFunds(from, value), Move(from, to, value)
  PROVE  balanceOf' \in [Account -> Nat] /\ SumOf(balanceOf') = SumOf(balanceOf)
<1>1. PICK n \in Nat : n = SharesFromUnderlyingBalance(value) /\ n <= balanceOf[from]
  BY SharesBought DEF SharesAreBacked, TypeOK
<1>2. balanceOf' = [balanceOf EXCEPT ![from] = @ - n, ![to] = @ + n]
  BY <1>1 DEF Move
<1>3. IsFiniteSet(Account)
  BY WLSETHAssumption
<1>4. balanceOf \in [Account -> Nat]
  BY WLSETHAssumption DEF SharesAreBacked, TypeOK
<1>5. balanceOf' \in [Account -> Nat] /\ n \in Nat /\ balanceOf[from] - n \in Nat
  BY <1>1, <1>2, <1>4
<1>6. SumOf(balanceOf') = SumOf(balanceOf)
  <2>1. PICK f : f = balanceOf
    OBVIOUS
  <2>2. PICK g : g = balanceOf'
    OBVIOUS
  <2>3. \A x \in Account : f[x] \in Nat /\ g[x] \in Nat
    BY <1>4, <1>5, <2>1, <2>2
  <2>4. CASE from = to
    <3>1. \A x \in Account : g[x] = f[x]
      <4>1. g[from] = (f[from] - n) + n /\ f[from] \in Nat
        BY <1>2, <1>4, <2>1, <2>2, <2>4
      <4>2. \A x \in Account : x # from => g[x] = f[x]
        BY <1>2, <1>4, <2>1, <2>2, <2>4
      <4> QED BY <1>5, <4>1, <4>2
    <3>2. SumFunctionOnSet(g, Account) = SumFunctionOnSet(f, Account)
      BY <1>3, <3>1, SumOfEqual
    <3> QED BY <2>1, <2>2, <3>2 DEF SumOf
  <2>5. CASE from # to
    <3>1. PICK h : h = [x \in Account |-> IF x = from THEN g[x] ELSE f[x]]
      OBVIOUS
    <3>2. PICK m \in Int : m = 0 - n
      BY <1>5
    <3>3. SumFunctionOnSet(h, Account) = SumFunctionOnSet(f, Account) + m
      <4>1. /\ h[from] = f[from] + m
            /\ \A x \in Account : x # from => h[x] = f[x]
            /\ \A x \in Account : f[x] \in Nat /\ h[x] \in Nat
        BY <1>2, <1>4, <1>5, <2>1, <2>2, <2>3, <2>5, <3>1, <3>2
      <4> QED BY <1>3, <3>2, <4>1, SumOfPayment
    <3>4. SumFunctionOnSet(g, Account) = SumFunctionOnSet(h, Account) + n
      <4>1. /\ g[to] = h[to] + n
            /\ \A x \in Account : x # to => g[x] = h[x]
            /\ \A x \in Account : h[x] \in Nat /\ g[x] \in Nat
            /\ n \in Int
        BY <1>2, <1>4, <1>5, <2>1, <2>2, <2>3, <2>5, <3>1
      <4> QED BY <1>3, <4>1, SumOfPayment
    <3>5. SumFunctionOnSet(f, Account) \in Int
      <4>1. \A x \in Account : f[x] \in Int
        BY <2>3
      <4> QED BY <1>3, <4>1, SumIsInt
    <3>6. SumFunctionOnSet(g, Account) = SumFunctionOnSet(f, Account)
      BY <1>5, <3>2, <3>3, <3>4, <3>5
    <3> QED BY <2>1, <2>2, <3>6 DEF SumOf
  <2> QED BY <2>4, <2>5
<1> QED BY <1>5, <1>6

\* LsETH that moves: every balance stays one, and the wrapper's changes by what it is
\* sent or sends.
LEMMA LsETHMoved ==
  ASSUME TypeOK, NEW from \in Account \cup {Wrapper}, NEW to \in Account \cup {Wrapper},
         from # to, NEW shares \in Nat, MoveLsETH(from, to, shares)
  PROVE  /\ lsEth' \in [Account \cup {Wrapper} -> Nat]
         /\ shares <= lsEth[from]
         /\ lsEth'[Wrapper] = IF from = Wrapper THEN lsEth[Wrapper] - shares
                              ELSE IF to = Wrapper THEN lsEth[Wrapper] + shares
                              ELSE lsEth[Wrapper]
<1>1. lsEth \in [Account \cup {Wrapper} -> Nat] /\ shares \in 1..lsEth[from]
  BY DEF TypeOK, MoveLsETH
<1>2. lsEth' = [lsEth EXCEPT ![from] = @ - shares, ![to] = @ + shares]
  BY DEF MoveLsETH
<1>3. lsEth[from] \in Nat /\ lsEth[from] - shares \in Nat
  BY <1>1
<1> QED BY <1>1, <1>2, <1>3

LEMMA MintKeeps ==
  ASSUME SharesAreBacked, NEW sender \in Account, NEW recipient \in Account,
         NEW shares \in Nat, Mint(sender, recipient, shares)
  PROVE  SharesAreBacked'
<1>1. /\ MoveLsETH(sender, Wrapper, shares)
      /\ balanceOf' = [balanceOf EXCEPT ![recipient] = @ + shares]
      /\ balanceOfLsETH' = balanceOfLsETH + shares
      /\ UNCHANGED <<approvals, assets, denied>>
      /\ TypeOK /\ sender # Wrapper /\ IsFiniteSet(Account)
  BY WLSETHAssumption DEF Mint, SharesAreBacked
<1>2. lsEth' \in [Account \cup {Wrapper} -> Nat] /\ lsEth'[Wrapper] = lsEth[Wrapper] + shares
  BY <1>1, LsETHMoved
<1>3. balanceOf \in [Account -> Nat] /\ balanceOf[recipient] + shares \in Nat
  BY <1>1 DEF TypeOK
<1>4. balanceOf' \in [Account -> Nat] /\ SumOf(balanceOf') = SumOf(balanceOf) + shares
  <2>1. PICK f : f = balanceOf
    OBVIOUS
  <2>2. PICK g : g = balanceOf'
    OBVIOUS
  <2>3. /\ balanceOf' \in [Account -> Nat]
        /\ g[recipient] = f[recipient] + shares
        /\ \A x \in Account : x # recipient => g[x] = f[x]
        /\ \A x \in Account : f[x] \in Nat /\ g[x] \in Nat
        /\ shares \in Int
    BY <1>1, <1>3, <2>1, <2>2
  <2>4. SumFunctionOnSet(g, Account) = SumFunctionOnSet(f, Account) + shares
    <3>1. /\ IsFiniteSet(Account)
          /\ \A x \in Account : f[x] \in Nat /\ g[x] \in Nat
          /\ \A x \in Account : x # recipient => g[x] = f[x]
          /\ g[recipient] = f[recipient] + shares
          /\ shares \in Int
      BY <1>1, <2>3
    <3> QED BY <3>1, SumOfPayment
  <2> QED BY <2>1, <2>2, <2>3, <2>4 DEF SumOf
<1>5. lsEth[Wrapper] \in Nat /\ balanceOfLsETH \in Nat
  BY <1>1 DEF TypeOK
<1> QED BY <1>1, <1>2, <1>4, <1>5 DEF SharesAreBacked, TypeOK

LEMMA BurnKeeps ==
  ASSUME SharesAreBacked, NEW sender \in Account, NEW recipient \in Account,
         NEW shares \in Nat, Burn(sender, recipient, shares)
  PROVE  SharesAreBacked'
<1>1. /\ MoveLsETH(Wrapper, recipient, shares)
      /\ shares <= balanceOf[sender]
      /\ balanceOf' = [balanceOf EXCEPT ![sender] = @ - shares]
      /\ balanceOfLsETH' = balanceOfLsETH - shares
      /\ UNCHANGED <<approvals, assets, denied>>
      /\ TypeOK /\ recipient # Wrapper /\ IsFiniteSet(Account)
  BY WLSETHAssumption DEF Burn, SharesAreBacked
<1>2. lsEth' \in [Account \cup {Wrapper} -> Nat] /\ lsEth'[Wrapper] = lsEth[Wrapper] - shares
  BY <1>1, LsETHMoved
<1>3. balanceOf \in [Account -> Nat] /\ balanceOf[sender] - shares \in Nat
  BY <1>1 DEF TypeOK
<1>4. /\ balanceOf' \in [Account -> Nat]
      /\ SumOf(balanceOf') = SumOf(balanceOf) - shares
      /\ SumOf(balanceOf) \in Int
  <2>1. PICK f : f = balanceOf
    OBVIOUS
  <2>2. PICK g : g = balanceOf'
    OBVIOUS
  <2>3. PICK m \in Int : m = 0 - shares
    OBVIOUS
  <2>4. balanceOf' \in [Account -> Nat]
    BY <1>1, <1>3
  <2>5. /\ g[sender] = f[sender] + m
        /\ \A x \in Account : x # sender => g[x] = f[x]
        /\ \A x \in Account : f[x] \in Nat /\ g[x] \in Nat
        /\ \A x \in Account : f[x] \in Int
    BY <1>1, <1>3, <2>1, <2>2, <2>3
  <2>6. SumFunctionOnSet(g, Account) = SumFunctionOnSet(f, Account) + m
    <3>1. IsFiniteSet(Account) /\ \A x \in Account : f[x] \in Nat /\ g[x] \in Nat
      BY <1>1, <2>5
    <3>2. g[sender] = f[sender] + m /\ \A x \in Account : x # sender => g[x] = f[x]
      BY <2>5
    <3> QED BY <2>3, <3>1, <3>2, SumOfPayment
  <2>7. SumFunctionOnSet(f, Account) \in Int
    BY <1>1, <2>5, SumIsInt
  <2> QED BY <2>1, <2>2, <2>3, <2>4, <2>6, <2>7 DEF SumOf
<1>5. balanceOf[sender] <= SumOf(balanceOf)
  BY <1>1, <1>3, SumBoundsEach DEF SumOf
<1>6. lsEth[Wrapper] \in Nat /\ balanceOfLsETH \in Nat /\ balanceOf[sender] \in Nat
  BY <1>1 DEF TypeOK
<1> QED BY <1>1, <1>2, <1>4, <1>5, <1>6 DEF SharesAreBacked, TypeOK

LEMMA InitIsBacked == Init => SharesAreBacked
<1> SUFFICES ASSUME Init PROVE SharesAreBacked
  OBVIOUS
<1>1. IsFiniteSet(Account) /\ Wrapper \notin Account /\ Supply \in Nat /\ Rates \subseteq Nat
  BY WLSETHAssumption
<1>2. SumOf(balanceOf) = 0
  <2>1. PICK f : f = balanceOf
    OBVIOUS
  <2>2. \A x \in Account : f[x] = 0
    BY <2>1 DEF Init
  <2>3. SumFunctionOnSet(f, Account) = 0
    BY <1>1, <2>2, SumOfZeros
  <2> QED BY <2>1, <2>3 DEF SumOf
<1>3. lsEth \in [Account \cup {Wrapper} -> Nat] /\ lsEth[Wrapper] = 0
  BY <1>1 DEF Init
<1>4. TypeOK
  BY <1>1, <1>3 DEF Init, TypeOK
<1> QED BY <1>2, <1>3, <1>4 DEF Init, SharesAreBacked

\* Every account's allowances stay allowances.
LEMMA ApprovalsKept ==
  ASSUME approvals \in [Account -> [Account -> Nat]], NEW owner \in Account,
         NEW spender \in Account, NEW allowance \in Nat
  PROVE  [approvals EXCEPT ![owner][spender] = allowance] \in [Account -> [Account -> Nat]]
OBVIOUS

LEMMA TransferKeeps ==
  ASSUME SharesAreBacked, NEW from \in Account, NEW to \in Account, NEW value \in Nat,
         \/ Transfer(from, to, value)
         \/ \E spender \in Account : TransferFrom(spender, from, to, value)
  PROVE  SharesAreBacked'
<1>1. HasFunds(from, value) /\ Move(from, to, value)
  BY DEF Transfer, TransferFrom
<1>2. balanceOf' \in [Account -> Nat] /\ SumOf(balanceOf') = SumOf(balanceOf)
  BY <1>1, MoveKeeps
<1>3. approvals \in [Account -> [Account -> Nat]]
  BY DEF SharesAreBacked, TypeOK
<1>4. approvals' \in [Account -> [Account -> Nat]]
  <2>1. CASE approvals' = approvals
    BY <1>3, <2>1
  <2>2. CASE \E spender \in Account : TransferFrom(spender, from, to, value)
    <3>1. PICK spender \in Account : TransferFrom(spender, from, to, value)
      BY <2>2
    <3>2. PICK allowance \in Nat : approvals' = [approvals EXCEPT ![from][spender] = allowance]
      <4>1. approvals[from][spender] \in Nat /\ approvals[from][spender] >= value
        BY <1>3, <3>1 DEF TransferFrom
      <4>2. Spent(value) \in 0..value
        BY DEF Spent
      <4>3. approvals[from][spender] - Spent(value) \in Nat
        BY <4>1, <4>2
      <4> QED BY <3>1, <4>1, <4>3 DEF TransferFrom
    <3> QED BY <1>3, <3>2, ApprovalsKept
  <2> QED BY <2>1, <2>2 DEF Transfer
<1> QED BY <1>1, <1>2, <1>4 DEF SharesAreBacked, TypeOK, Move

LEMMA ApproveKeeps ==
  ASSUME SharesAreBacked, NEW owner \in Account, NEW spender \in Account, NEW value \in Nat,
         Approve(owner, spender, value)
  PROVE  SharesAreBacked'
<1>1. approvals' \in [Account -> [Account -> Nat]]
  BY ApprovalsKept DEF SharesAreBacked, TypeOK, Approve
<1> QED BY <1>1 DEF SharesAreBacked, TypeOK, Approve, wrapped

LEMMA RiverKeeps ==
  ASSUME SharesAreBacked, RiverActs
  PROVE  SharesAreBacked'
<1>1. CASE \E total \in Rates : RiverReports(total)
  BY <1>1, WLSETHAssumption DEF SharesAreBacked, TypeOK, RiverReports, wrapped
<1>2. CASE \E a \in Account : SetDenied(a)
  BY <1>2 DEF SharesAreBacked, TypeOK, SetDenied, wrapped
<1>3. ASSUME NEW from \in Account, NEW shares \in Shares,
             NEW to \in (Account \cup {Wrapper}) \ {from}, TransferLsETH(from, to, shares)
      PROVE  SharesAreBacked'
  <2>1. /\ MoveLsETH(from, to, shares)
        /\ UNCHANGED <<wrapped, approvals, assets, denied>>
        /\ shares \in Nat /\ from # to /\ from # Wrapper
    BY <1>3, WLSETHAssumption DEF TransferLsETH
  <2>2. /\ lsEth' \in [Account \cup {Wrapper} -> Nat]
        /\ lsEth'[Wrapper] = IF to = Wrapper THEN lsEth[Wrapper] + shares ELSE lsEth[Wrapper]
    BY <2>1, LsETHMoved DEF SharesAreBacked
  <2>3. lsEth[Wrapper] \in Nat /\ balanceOfLsETH \in Nat
    BY DEF SharesAreBacked, TypeOK
  <2> QED BY <2>1, <2>2, <2>3 DEF SharesAreBacked, TypeOK, wrapped
<1> QED BY <1>1, <1>2, <1>3 DEF RiverActs

LEMMA WrapperKeeps ==
  ASSUME SharesAreBacked, WrapperActs
  PROVE  SharesAreBacked'
<1>1. PICK a \in Account, b \in Account :
        \/ \E value \in Values :
             \/ Transfer(a, b, value)
             \/ \E spender \in Account : TransferFrom(spender, a, b, value)
        \/ \E value \in Approvals : Approve(a, b, value)
        \/ \E shares \in Shares : Mint(a, b, shares) \/ Burn(a, b, shares)
  BY DEF WrapperActs
<1>2. Values \subseteq Nat /\ Approvals \subseteq Nat /\ Shares \subseteq Nat
  BY WLSETHAssumption
<1> QED BY <1>1, <1>2, TransferKeeps, ApproveKeeps, MintKeeps, BurnKeeps

LEMMA StutterKeeps == ASSUME SharesAreBacked, UNCHANGED vars PROVE SharesAreBacked'
BY DEF SharesAreBacked, TypeOK, vars

\* For any holders, rates and amounts, and however rates, denials and transfers of
\* LsETH come in between: the wrapper holds the LsETH of every share, and takes no
\* balance or allowance below zero (_transfer, mint, burn).
THEOREM WrappedIsBacked == Spec => []SharesAreBacked
<1>1. SharesAreBacked /\ [Next]_vars => SharesAreBacked'
  BY RiverKeeps, WrapperKeeps, StutterKeeps DEF Next
<1> QED BY <1>1, InitIsBacked, PTL DEF Spec

\* What can be bought for an amount is worth no more than it.
LEMMA BoughtIsWorthNoMore ==
  ASSUME NEW value \in Nat, NEW total \in Nat, NEW supply \in Nat, supply > 0, total > 0,
         NEW shares, shares = (value * supply) \div total
  PROVE  (shares * total) \div supply <= value
<1>1. value * supply \in Nat
  OBVIOUS
<1>2. ASSUME NEW n \in Nat
      PROVE  /\ n \div supply \in Nat /\ supply * (n \div supply) \in Nat
             /\ supply * (n \div supply) <= n
  OBVIOUS
<1>3. ASSUME NEW n \in Nat
      PROVE  /\ n \div total \in Nat /\ total * (n \div total) \in Nat
             /\ total * (n \div total) <= n
  OBVIOUS
<1>4. shares \in Nat /\ total * shares \in Nat /\ total * shares <= value * supply
  BY <1>1, <1>3
<1>5. shares * total = total * shares
  BY <1>4
<1>6. PICK w \in Nat : w = (shares * total) \div supply
  BY <1>2, <1>4, <1>5
<1>7. supply * w <= value * supply
  BY <1>1, <1>2, <1>4, <1>5, <1>6
<1>8. ASSUME w > value PROVE FALSE
  <2>1. supply * w >= supply * (value + 1)
    BY <1>8
  <2>2. supply * (value + 1) = value * supply + supply
    OBVIOUS
  <2>3. supply * w \in Nat /\ value * supply \in Nat
    OBVIOUS
  <2> QED BY <1>7, <2>1, <2>2, <2>3
<1> QED BY <1>6, <1>8

LEMMA TransferFromPays ==
  ASSUME SharesAreBacked, NEW spender \in Account, NEW owner \in Account,
         NEW recipient \in Account, NEW value \in Nat,
         TransferFrom(spender, owner, recipient, value),
         approvals[owner][spender] # MaxUint
  PROVE  UnderlyingBalanceFromShares(balanceOf[owner] - balanceOf'[owner])
           <= approvals[owner][spender] - approvals'[owner][spender]
<1>1. /\ approvals \in [Account -> [Account -> Nat]]
      /\ balanceOf \in [Account -> Nat]
      /\ assets \in Nat /\ Supply \in Nat /\ Supply > 0
  BY WLSETHAssumption DEF SharesAreBacked, TypeOK
<1>2. /\ Move(owner, recipient, value)
      /\ approvals' = [approvals EXCEPT ![owner][spender] =
                         IF @ = MaxUint THEN @ ELSE @ - Spent(value)]
  BY DEF TransferFrom
<1>3. PICK shares \in Nat : shares = SharesFromUnderlyingBalance(value)
  BY SharesBought DEF TransferFrom, SharesAreBacked
<1>4. Spent(value) \in Nat /\ approvals[owner][spender] \in Nat
  BY <1>1 DEF Spent
<1>5. approvals[owner][spender] - approvals'[owner][spender] = Spent(value)
  BY <1>1, <1>2, <1>4
<1>6. balanceOf' = [balanceOf EXCEPT ![owner] = @ - shares, ![recipient] = @ + shares]
  BY <1>2, <1>3 DEF Move
<1>7. CASE shares = 0 \/ owner = recipient
  <2>1. balanceOf[owner] - balanceOf'[owner] = 0
    BY <1>1, <1>6, <1>7
  <2>2. (0 * assets) \div Supply = 0
    BY <1>1
  <2> QED BY <1>4, <1>5, <2>1, <2>2 DEF UnderlyingBalanceFromShares
<1>8. CASE shares > 0 /\ owner # recipient
  <2>1. balanceOf[owner] - balanceOf'[owner] = shares
    BY <1>1, <1>6, <1>8
  <2>2. assets > 0 /\ shares = (value * Supply) \div assets
    BY <1>1, <1>3, <1>8 DEF SharesFromUnderlyingBalance
  <2>3. (shares * assets) \div Supply <= value
    BY <1>1, <2>2, BoughtIsWorthNoMore
  <2>4. Spent(value) = value
    BY <1>3, <1>8 DEF Spent
  <2> QED BY <1>5, <2>1, <2>3, <2>4 DEF UnderlyingBalanceFromShares
<1> QED BY <1>7, <1>8

\* For any rates, whatever is rounded: what a spender moves of an owner's shares is
\* worth no more ETH than the step takes of its allowance, unless the allowance is
\* the one that is never spent (transferFrom, _spendAllowance).
THEOREM SpendersPay == Spec => SpenderPays
<1> DEFINE Pays ==
      \A spender, owner, recipient \in Account, value \in Values :
        TransferFrom(spender, owner, recipient, value)
        /\ approvals[owner][spender] # MaxUint =>
          UnderlyingBalanceFromShares(balanceOf[owner] - balanceOf'[owner])
            <= approvals[owner][spender] - approvals'[owner][spender]
<1>1. SharesAreBacked => Pays
  BY TransferFromPays, WLSETHAssumption
<1> QED BY <1>1, WrappedIsBacked, PTL DEF SpenderPays

-----------------------------------------------------------------------------
(* The Allowlist.  Nothing is assumed of its constants.                     *)

\* Denial leaves nothing beside it.
DeniedHasNothing == \A user \in Users : IsDenied(user) => permissions[user] = {Deny}

AllowlistInv == AllowlistTypeOK /\ DeniedHasNothing

-----------------------------------------------------------------------------

\* setAllowPermissions reverts as a whole when one account of its list is denied.
LEMMA AllowKeeps ==
  ASSUME AllowlistInv, NEW sender, NEW batch \in Batches,
         SetAllowPermissions(sender, batch)
  PROVE  /\ permissions' \in [Users -> SUBSET Masks]
         /\ DeniedHasNothing'
         /\ \A user \in Users : IsDenied(user) => permissions'[user] = permissions[user]
<1>1. PICK users \in SUBSET Users \ {{}} : batch \in [users -> SUBSET Masks]
  BY DEF Batches
<1>2. /\ DOMAIN batch \subseteq Users
      /\ \A user \in DOMAIN batch : batch[user] \subseteq Masks
  BY <1>1
<1>3. QED
  BY <1>2 DEF AllowlistInv, AllowlistTypeOK, DeniedHasNothing, IsDenied, SetAllowPermissions

\* setDenyPermissions leaves the denial or nothing.
LEMMA DenyKeeps ==
  ASSUME AllowlistInv, NEW sender, NEW batch \in Batches, SetDenyPermissions(sender, batch)
  PROVE  /\ permissions' \in [Users -> SUBSET Masks]
         /\ DeniedHasNothing'
         /\ \A user \in Users : IsDenied(user) => permissions'[user] \in {{}, {Deny}}
<1>1. \A user \in Users :
        \/ permissions'[user] = permissions[user]
        \/ permissions'[user] \in {{}, {Deny}}
  BY DEF SetDenyPermissions
<1>2. permissions' \in [Users -> SUBSET Masks]
  BY DEF SetDenyPermissions, AllowlistInv, AllowlistTypeOK, Masks
<1>3. QED
  BY <1>1, <1>2 DEF AllowlistInv, DeniedHasNothing, IsDenied

\* Whatever reaches the Allowlist, directly or through its firewall.
LEMMA PerformKeeps ==
  ASSUME AllowlistInv, NEW sender, NEW method, Perform(sender, method)
  PROVE  /\ permissions' \in [Users -> SUBSET Masks]
         /\ DeniedHasNothing'
         /\ admin' \in Addresses
         /\ pendingAdmin' \in Addresses \cup {Nobody}
         /\ allower' \in Addresses
         /\ denier' \in Addresses
         /\ \A user \in Users : IsDenied(user) => permissions'[user] \in {{}, {Deny}}
<1>1. CASE \E a \in Addresses : SetAllower(sender, a) \/ SetDenier(sender, a)
  BY <1>1 DEF SetAllower, SetDenier, AllowlistInv, AllowlistTypeOK, DeniedHasNothing,
         IsDenied
<1>2. CASE \E batch \in Batches : SetAllowPermissions(sender, batch)
  <2>1. roles' = roles
    BY <1>2 DEF SetAllowPermissions
  <2>2. QED
    BY <1>2, <2>1, AllowKeeps DEF AllowlistInv, AllowlistTypeOK, DeniedHasNothing, roles
<1>3. CASE \E batch \in Batches : SetDenyPermissions(sender, batch)
  <2>1. roles' = roles
    BY <1>3 DEF SetDenyPermissions
  <2>2. QED
    BY <1>3, <2>1, DenyKeeps DEF AllowlistInv, AllowlistTypeOK, roles
<1>4. QED
  BY <1>1, <1>2, <1>3 DEF Perform

\* The other steps leave the permissions as they are.
LEMMA HandOverKeeps ==
  ASSUME AllowlistInv, NEW account \in Accounts,
         \/ \E a \in Addresses \cup {Nobody} : ProposeAdmin(account, a)
         \/ AcceptAdmin(account),
         UNCHANGED <<paused, firewall>>
  PROVE  AllowlistInv' /\ permissions' = permissions
BY DEF AllowlistInv, AllowlistTypeOK, DeniedHasNothing, IsDenied, ProposeAdmin,
       AcceptAdmin, firewall, Addresses

LEMMA FirewallKeeps ==
  ASSUME AllowlistInv, NEW account \in Accounts,
         \/ SetExecutor(account)
         \/ AllowExecutor(account)
         \/ FirewallProposeAdmin(account)
         \/ FirewallAcceptAdmin(account)
  PROVE  AllowlistInv' /\ permissions' = permissions
<1>1. permissions' = permissions /\ roles' = roles /\ paused' = paused
  BY DEF SetExecutor, AllowExecutor, FirewallProposeAdmin,
         FirewallAcceptAdmin
<1>2. /\ firewallAdmin' \in Accounts
      /\ firewallPending' \in Accounts \cup {Nobody}
      /\ executor' \in Accounts
      /\ executorCanCall' \subseteq Methods
  BY DEF SetExecutor, AllowExecutor, FirewallProposeAdmin,
         FirewallAcceptAdmin, AllowlistInv, AllowlistTypeOK
<1>3. QED
  BY <1>1, <1>2 DEF AllowlistInv, AllowlistTypeOK, DeniedHasNothing, IsDenied, roles

LEMMA PausingKeeps ==
  ASSUME AllowlistInv, SetPaused \/ UNCHANGED allowlistVars
  PROVE  AllowlistInv' /\ permissions' = permissions
<1>1. /\ permissions' = permissions
      /\ roles' = roles
      /\ firewall' = firewall
      /\ paused' \in BOOLEAN
  BY DEF SetPaused, allowlistVars, AllowlistInv, AllowlistTypeOK
<1>2. QED
  BY <1>1 DEF AllowlistInv, AllowlistTypeOK, DeniedHasNothing, IsDenied, roles, firewall

LEMMA InitIsSound == AllowlistInit => AllowlistInv
BY DEF AllowlistInit, AllowlistInv, AllowlistTypeOK, DeniedHasNothing, IsDenied, Addresses

LEMMA NextIsSound ==
  ASSUME AllowlistInv, [AllowlistNext]_allowlistVars
  PROVE  /\ AllowlistInv'
         /\ \A user \in Users : IsDenied(user) => permissions'[user] \in {{}, {Deny}}
<1>1. ASSUME NEW sender, NEW method, Perform(sender, method),
             UNCHANGED <<paused, firewall>>
      PROVE  /\ AllowlistInv'
             /\ \A user \in Users : IsDenied(user) => permissions'[user] \in {{}, {Deny}}
  BY <1>1, PerformKeeps DEF AllowlistInv, AllowlistTypeOK, firewall
<1>2. ASSUME AllowlistInv', permissions' = permissions
      PROVE  \A user \in Users : IsDenied(user) => permissions'[user] \in {{}, {Deny}}
  BY <1>2 DEF AllowlistInv, DeniedHasNothing
<1>3. ASSUME NEW account \in Accounts, CallDirectly(account)
      PROVE  /\ AllowlistInv'
             /\ \A user \in Users : IsDenied(user) => permissions'[user] \in {{}, {Deny}}
  BY <1>1, <1>2, <1>3, HandOverKeeps DEF CallDirectly
<1>4. ASSUME NEW account \in Accounts, CallThroughFirewall(account)
      PROVE  /\ AllowlistInv'
             /\ \A user \in Users : IsDenied(user) => permissions'[user] \in {{}, {Deny}}
  BY <1>1, <1>4 DEF CallThroughFirewall
<1>5. QED
  BY <1>2, <1>3, <1>4, FirewallKeeps, PausingKeeps DEF AllowlistNext

\* Every state of the Allowlist and its firewall is of its type, and a denied
\* account has no right beside.
THEOREM AllowlistIsSound == AllowlistSpec => []AllowlistInv
BY InitIsSound, NextIsSound, PTL DEF AllowlistSpec

\* For any accounts and rights, whoever holds the roles and however they change
\* hands: denial leaves no right, lasts until it is forgiven, and leaves nothing
\* behind (setAllowPermissions, setDenyPermissions).
THEOREM DenialLasts == AllowlistSpec => DenialSticks
<1>1. AllowlistInv /\ [AllowlistNext]_allowlistVars =>
        [\A user \in Users :
           IsDenied(user) =>
             /\ permissions[user] = {Deny}
             /\ permissions'[user] \in {{}, {Deny}}]_allowlistVars
  BY NextIsSound DEF AllowlistInv, DeniedHasNothing
<1>2. QED
  BY <1>1, AllowlistIsSound, PTL DEF AllowlistSpec, DenialSticks

-----------------------------------------------------------------------------
(* The vested token.                                                       *)

\* No schedule ends before it starts, or later than its terms say.
Ends(s) == s.end \in s.terms.start..(s.terms.start + s.terms.duration)

VestingInv ==
  /\ VestingTypeOK
  /\ \A i \in DOMAIN schedules : VestsInTime(schedules[i].terms) /\ Ends(schedules[i])

-----------------------------------------------------------------------------
\* What a part k of a duration d is of an amount, rounded down.
LEMMA PartOfAmount ==
  ASSUME NEW amount \in Nat, NEW d \in Nat, d > 0, NEW k \in Nat, NEW m \in Nat,
         k <= m, m <= d
  PROVE  /\ (k * amount) \div d \in 0..amount
         /\ (m * amount) \div d \in 0..amount
         /\ (k * amount) \div d <= (m * amount) \div d
<1>1. ASSUME NEW n \in Nat
      PROVE  /\ n \div d \in Nat /\ d * (n \div d) \in Nat
             /\ d * (n \div d) <= n
             /\ n < d * (n \div d) + d
  OBVIOUS
<1>2. k * amount \in Nat /\ m * amount \in Nat /\ d * amount \in Nat
  OBVIOUS
<1>3. k * amount <= m * amount /\ m * amount <= d * amount
  OBVIOUS
<1>4. PICK v \in Nat : v = (k * amount) \div d
  BY <1>1, <1>2
<1>5. PICK w \in Nat : w = (m * amount) \div d
  BY <1>1, <1>2
<1>6. d * v \in Nat /\ d * w \in Nat /\ d * v <= k * amount /\ d * w <= m * amount
      /\ m * amount < d * w + d
  BY <1>1, <1>2, <1>4, <1>5
<1>7. ASSUME NEW p \in Nat, NEW q \in Nat, d * p < d * q + d
      PROVE  p <= q
  <2>1. SUFFICES ASSUME p > q PROVE FALSE
    OBVIOUS
  <2>2. d * p >= d * (q + 1)
    BY <2>1
  <2>3. d * (q + 1) = d * q + d /\ d * p \in Nat /\ d * q \in Nat
    OBVIOUS
  <2> QED BY <1>7, <2>2, <2>3
<1>8. v <= w
  BY <1>2, <1>3, <1>6, <1>7
<1>9. w <= amount
  BY <1>2, <1>3, <1>6, <1>7
<1> QED BY <1>4, <1>5, <1>8, <1>9

\* The periods that have passed, in time.
LEMMA PeriodsPassed ==
  ASSUME NEW p \in Nat, p > 0, NEW a \in Nat, NEW b \in Nat, a <= b
  PROVE  /\ (a \div p) * p \in 0..a
         /\ (b \div p) * p \in 0..b
         /\ (a \div p) * p <= (b \div p) * p
<1>1. ASSUME NEW n \in Nat
      PROVE  /\ n \div p \in Nat /\ (n \div p) * p \in Nat
             /\ (n \div p) * p <= n
             /\ n < (n \div p) * p + p
  OBVIOUS
<1>2. PICK v \in Nat : v = a \div p
  BY <1>1
<1>3. PICK w \in Nat : w = b \div p
  BY <1>1
<1>4. v * p <= a /\ b < w * p + p /\ v * p \in Nat /\ w * p \in Nat
  BY <1>1, <1>2, <1>3
<1>5. v <= w
  <2>1. SUFFICES ASSUME v > w PROVE FALSE
    OBVIOUS
  <2>2. v * p >= (w + 1) * p
    BY <2>1
  <2>3. (w + 1) * p = w * p + p
    OBVIOUS
  <2> QED BY <1>4, <2>2, <2>3
<1>6. v * p <= w * p
  BY <1>5
<1> QED BY <1>1, <1>2, <1>3, <1>6

\* What has vested is part of the amount, and more of it later.
LEMMA VestedGrows ==
  ASSUME NEW s \in Schedule, VestsInTime(s.terms), NEW early \in Nat, NEW late \in Nat,
         early <= late
  PROVE  /\ VestedAmount(s, early) \in 0..s.terms.amount
         /\ VestedAmount(s, late) \in 0..s.terms.amount
         /\ VestedAmount(s, early) <= VestedAmount(s, late)
<1>1. PICK t : t = s.terms
  OBVIOUS
<1>2. /\ t.start \in Nat /\ t.cliffDuration \in Nat /\ t.duration \in Nat
      /\ t.periodDuration \in Nat /\ t.amount \in Nat
      /\ t.duration > 0 /\ t.periodDuration > 0
  BY <1>1 DEF Schedule, Terms, VestsInTime
<1> DEFINE Whole(e) == (e \div t.periodDuration) * t.periodDuration
           Part(e) == (Whole(e) * t.amount) \div t.duration
<1>3. ASSUME NEW time \in Nat
      PROVE  VestedAmount(s, time) =
               IF time < t.start + t.cliffDuration THEN 0
               ELSE IF time >= t.start + t.duration THEN t.amount
               ELSE Part(time - t.start)
  BY <1>1 DEF VestedAmount
<1>4. ASSUME NEW e \in Nat, NEW f \in Nat, e <= f, f < t.duration
      PROVE  /\ Part(e) \in 0..t.amount
             /\ Part(f) \in 0..t.amount
             /\ Part(e) <= Part(f)
  <2>1. /\ Whole(e) \in 0..e
        /\ Whole(f) \in 0..f
        /\ Whole(e) <= Whole(f)
    BY <1>2, <1>4, PeriodsPassed
  <2> HIDE DEF Whole
  <2>2. Whole(e) \in Nat /\ Whole(f) \in Nat /\ Whole(f) <= t.duration
    BY <1>2, <1>4, <2>1
  <2> QED BY <1>2, <2>1, <2>2, PartOfAmount
<1> HIDE DEF Part
<1>5. ASSUME NEW time \in Nat, time >= t.start + t.cliffDuration,
             ~(time >= t.start + t.duration)
      PROVE  time - t.start \in Nat /\ time - t.start < t.duration
  BY <1>2, <1>5
<1>6. ASSUME NEW time \in Nat
      PROVE  VestedAmount(s, time) \in 0..t.amount
  <2>1. CASE time < t.start + t.cliffDuration
    BY <1>2, <1>3, <2>1
  <2>2. CASE time >= t.start + t.duration
    BY <1>2, <1>3, <2>2
  <2>3. CASE ~(time < t.start + t.cliffDuration) /\ ~(time >= t.start + t.duration)
    <3>1. time - t.start \in Nat /\ time - t.start < t.duration
      BY <1>2, <1>5, <2>3
    <3>2. Part(time - t.start) \in 0..t.amount
      BY <1>4, <3>1
    <3> QED BY <1>3, <2>3, <3>2
  <2> QED BY <2>1, <2>2, <2>3
<1>7. VestedAmount(s, early) <= VestedAmount(s, late)
  <2>1. CASE early < t.start + t.cliffDuration
    BY <1>2, <1>3, <1>6, <2>1
  <2>2. CASE ~(early < t.start + t.cliffDuration) /\ late >= t.start + t.duration
    <3>1. VestedAmount(s, late) = t.amount
      BY <1>2, <1>3, <2>2
    <3> QED BY <1>2, <1>6, <3>1
  <2>3. CASE ~(early < t.start + t.cliffDuration) /\ ~(late >= t.start + t.duration)
    <3>1. /\ early - t.start \in Nat /\ late - t.start \in Nat
          /\ early - t.start <= late - t.start /\ late - t.start < t.duration
      BY <1>2, <2>3
    <3>2. /\ VestedAmount(s, early) = Part(early - t.start)
          /\ VestedAmount(s, late) = Part(late - t.start)
      BY <1>2, <1>3, <2>3
    <3> QED BY <1>4, <3>1, <3>2
  <2> QED BY <2>1, <2>2, <2>3
<1> QED BY <1>1, <1>6, <1>7

-----------------------------------------------------------------------------
Owed(s) == VestedAmount(s, s.end) - s.releasedAmount

\* Every step leaves the schedules as they must be, takes nothing back that has
\* vested, and pays what it takes out of an escrow.
Grows == \A i \in DOMAIN schedules : VestedNow(schedules[i])' >= VestedNow(schedules[i])

Keeps ==
  /\ VestingInv'
  /\ Grows
  /\ EscrowIsOwed => EscrowIsOwed'

LEMMA VestedNowGrows ==
  ASSUME NEW s \in Schedule, VestsInTime(s.terms),
         NEW r \in Schedule, r.terms = s.terms,
         now \in Nat, now' \in Nat, now <= now', r.end = s.end \/ now <= r.end
  PROVE  VestedNow(r)' >= VestedNow(s)
<1>1. PICK late \in Nat : late = Least(now', r.end)
  BY DEF Least, Schedule
<1>2. PICK early \in Nat : early = Least(now, s.end)
  BY DEF Least, Schedule
<1>3. early <= late
  <2>1. s.end \in Nat /\ r.end \in Nat
    BY DEF Schedule
  <2> QED BY <1>1, <1>2, <2>1 DEF Least
<1>4. /\ VestedNow(r)' = VestedAmount(r, late)
      /\ VestedNow(s) = VestedAmount(s, early)
  BY <1>1, <1>2 DEF VestedNow
<1>5. VestedAmount(r, late) = VestedAmount(s, late)
  BY DEF VestedAmount
<1>6. /\ VestedAmount(s, early) \in 0..s.terms.amount
      /\ VestedAmount(s, late) \in 0..s.terms.amount
      /\ VestedAmount(s, early) <= VestedAmount(s, late)
  BY <1>3, VestedGrows
<1>7. s.terms.amount \in Nat
  BY DEF Schedule, Terms
<1> QED BY <1>4, <1>5, <1>6, <1>7

\* The steps that leave the schedules as they are.
LEMMA OthersKeep ==
  ASSUME VestingInv, UNCHANGED <<schedules, escrow>>, balances' \in [Holder -> Nat],
         now' \in Nat, now <= now'
  PROVE  Keeps
<1>1. VestingInv'
  BY DEF VestingInv, VestingTypeOK
<1>2. ASSUME NEW i \in DOMAIN schedules
      PROVE  VestedNow(schedules[i])' >= VestedNow(schedules[i])
  <2>1. PICK s : s = schedules[i]
    OBVIOUS
  <2>2. s \in Schedule /\ VestsInTime(s.terms) /\ now \in Nat
    BY <1>2, <2>1 DEF VestingInv, VestingTypeOK
  <2>3. VestedNow(s)' >= VestedNow(s)
    BY <2>2, VestedNowGrows
  <2>4. /\ VestedNow(schedules[i])' = VestedNow(s)'
        /\ VestedNow(schedules[i]) = VestedNow(s)
    BY <2>1 DEF VestedNow
  <2> QED BY <2>3, <2>4
<1>3. EscrowIsOwed => EscrowIsOwed'
  BY <1>1 DEF VestingInv, EscrowIsOwed
<1> QED BY <1>1, <1>2, <1>3 DEF Grows, Keeps

\* The steps that change one schedule and its escrow.
LEMMA ChangeKeeps ==
  ASSUME VestingInv, NEW i \in DOMAIN schedules, NEW r \in Schedule, NEW e \in Nat,
         schedules' = [schedules EXCEPT ![i] = r],
         escrow' = [escrow EXCEPT ![i] = e],
         balances' \in [Holder -> Nat],
         UNCHANGED now,
         r.terms = schedules[i].terms,
         Ends(r),
         r.end = schedules[i].end \/ now <= r.end,
         escrow[i] = Owed(schedules[i]) => e = Owed(r)
  PROVE  Keeps
<1>1. /\ schedules \in Seq(Schedule) /\ escrow \in Seq(Nat) /\ Len(escrow) = Len(schedules)
      /\ now \in Nat
  BY DEF VestingInv, VestingTypeOK
<1>2. DOMAIN schedules = DOMAIN escrow /\ i \in DOMAIN escrow
  BY <1>1
<1>3. /\ schedules' \in Seq(Schedule) /\ escrow' \in Seq(Nat)
      /\ Len(schedules') = Len(schedules) /\ Len(escrow') = Len(escrow)
      /\ DOMAIN schedules' = DOMAIN schedules
  BY <1>1, <1>2
<1>4. VestingTypeOK'
  BY <1>1, <1>3 DEF VestingTypeOK
<1>5. /\ schedules'[i] = r /\ escrow'[i] = e
      /\ \A j \in DOMAIN schedules :
           j # i => schedules'[j] = schedules[j] /\ escrow'[j] = escrow[j]
  BY <1>1, <1>2
<1>6. ASSUME NEW j \in DOMAIN schedules
      PROVE  /\ escrow[j] = Owed(schedules[j]) => escrow'[j] = Owed(schedules'[j])
             /\ VestsInTime(schedules'[j].terms)
             /\ Ends(schedules'[j])
             /\ VestedNow(schedules[j])' >= VestedNow(schedules[j])
  <2>1. PICK s : s = schedules[j]
    OBVIOUS
  <2>2. PICK q : q = schedules'[j]
    OBVIOUS
  <2>3. s \in Schedule /\ VestsInTime(s.terms) /\ Ends(s)
    BY <1>1, <1>6, <2>1 DEF VestingInv
  <2>4. /\ q \in Schedule /\ q.terms = s.terms /\ Ends(q)
        /\ escrow[j] = Owed(s) => escrow'[j] = Owed(q)
        /\ q.end = s.end \/ now <= q.end
    <3>1. CASE j = i
      BY <1>5, <2>1, <2>2, <3>1
    <3>2. CASE j # i
      BY <1>5, <1>6, <2>1, <2>2, <2>3, <3>2
    <3> QED BY <3>1, <3>2
  <2>5. VestedNow(q)' >= VestedNow(s)
    <3>1. now' \in Nat /\ now <= now'
      BY <1>1
    <3> QED BY <1>1, <2>3, <2>4, <3>1, VestedNowGrows
  <2>6. /\ VestedNow(schedules[j])' = VestedNow(q)'
        /\ VestedNow(schedules[j]) = VestedNow(s)
    BY <2>1, <2>2 DEF VestedNow
  <2> QED BY <2>1, <2>2, <2>3, <2>4, <2>5, <2>6
<1>7. VestingInv'
  BY <1>3, <1>4, <1>6 DEF VestingInv
<1>8. EscrowIsOwed => EscrowIsOwed'
  BY <1>3, <1>4, <1>6 DEF EscrowIsOwed, Owed
<1> QED BY <1>6, <1>7, <1>8 DEF Grows, Keeps

LEMMA RevokeKeeps ==
  ASSUME VestingInv, NEW i \in DOMAIN schedules,
         NEW end \in schedules[i].terms.start..schedules[i].end,
         RevokeVestingSchedule(i, end)
  PROVE  Keeps
<1>1. PICK s : s = schedules[i]
  OBVIOUS
<1>2. /\ s \in Schedule /\ VestsInTime(s.terms) /\ Ends(s)
      /\ escrow[i] \in Nat
      /\ balances \in [Holder -> Nat]
      /\ now \in Nat
  BY <1>1 DEF VestingInv, VestingTypeOK
<1>3. /\ s.end \in Nat /\ s.terms.start \in Nat /\ s.terms.amount \in Nat
      /\ s.terms.duration \in Nat /\ s.releasedAmount \in Nat /\ s.creator \in Holder
  BY <1>2 DEF Schedule, Terms
<1>4. end \in Nat /\ end <= s.end /\ now <= end /\ end >= s.terms.start
  BY <1>1, <1>3 DEF RevokeVestingSchedule, MayEndAt
<1>5. PICK returned \in Nat :
        /\ returned = VestedAmount(s, s.end) - VestedAmount(s, end)
        /\ VestedAmount(s, s.end) \in Nat /\ VestedAmount(s, end) \in Nat
  <2>1. /\ VestedAmount(s, end) \in 0..s.terms.amount
        /\ VestedAmount(s, s.end) \in 0..s.terms.amount
        /\ VestedAmount(s, end) <= VestedAmount(s, s.end)
    BY <1>2, <1>3, <1>4, VestedGrows
  <2> QED BY <1>3, <2>1
<1>6. /\ returned <= escrow[i]
      /\ schedules' = [schedules EXCEPT ![i].end = end]
      /\ escrow' = [escrow EXCEPT ![i] = @ - returned]
      /\ balances' = [balances EXCEPT ![s.creator] = @ + returned]
      /\ now' = now
  BY <1>1, <1>5 DEF RevokeVestingSchedule
<1>7. PICK r : r = [s EXCEPT !.end = end]
  OBVIOUS
<1>8. /\ r \in Schedule
      /\ r.terms = s.terms
      /\ r.end = end
      /\ r.releasedAmount = s.releasedAmount
  BY <1>2, <1>4, <1>7 DEF Schedule
<1>9. schedules' = [schedules EXCEPT ![i] = r]
  BY <1>1, <1>6, <1>7
<1>10. PICK e \in Nat : e = escrow[i] - returned
  BY <1>2, <1>6
<1>11. escrow' = [escrow EXCEPT ![i] = e]
  BY <1>6, <1>10
<1>12. escrow[i] = Owed(s) => e = Owed(r)
  <2>1. VestedAmount(r, r.end) = VestedAmount(s, end)
    BY <1>8 DEF VestedAmount
  <2> QED BY <1>2, <1>3, <1>5, <1>8, <1>10, <2>1 DEF Owed
<1>13. balances' \in [Holder -> Nat]
  BY <1>2, <1>3, <1>6
<1>14. Ends(r)
  BY <1>2, <1>3, <1>4, <1>8 DEF Ends
<1> QED BY <1>1, <1>4, <1>6, <1>8, <1>9, <1>11, <1>12, <1>13, <1>14, ChangeKeeps

LEMMA ReleaseKeeps ==
  ASSUME VestingInv, NEW i \in DOMAIN schedules, ReleaseVestingSchedule(i)
  PROVE  Keeps
<1>1. PICK s : s = schedules[i]
  OBVIOUS
<1>2. /\ s \in Schedule /\ VestsInTime(s.terms) /\ Ends(s)
      /\ escrow[i] \in Nat
      /\ balances \in [Holder -> Nat]
  BY <1>1 DEF VestingInv, VestingTypeOK
<1>3. /\ s.end \in Nat
      /\ s.releasedAmount \in Nat
      /\ s.terms.amount \in Nat
      /\ s.beneficiary \in Holder
  BY <1>2 DEF Schedule, Terms
<1>4. PICK releasable \in Nat : releasable = ReleasableAmount(s) /\ releasable <= escrow[i]
  BY <1>1, <1>2 DEF ReleaseVestingSchedule
<1>5. /\ schedules' = [schedules EXCEPT ![i].releasedAmount = @ + releasable]
      /\ escrow' = [escrow EXCEPT ![i] = @ - releasable]
      /\ balances' = [balances EXCEPT ![s.beneficiary] = @ + releasable]
      /\ now' = now
  BY <1>1, <1>4 DEF ReleaseVestingSchedule
<1>6. PICK r : r = [s EXCEPT !.releasedAmount = @ + releasable]
  OBVIOUS
<1>7. /\ r \in Schedule /\ r.terms = s.terms /\ r.end = s.end
      /\ r.releasedAmount = s.releasedAmount + releasable
  BY <1>2, <1>3, <1>6 DEF Schedule
<1>8. schedules' = [schedules EXCEPT ![i] = r]
  BY <1>1, <1>5, <1>6
<1>9. PICK e \in Nat : e = escrow[i] - releasable
  BY <1>2, <1>4
<1>10. escrow' = [escrow EXCEPT ![i] = e]
  BY <1>5, <1>9
<1>11. escrow[i] = Owed(s) => e = Owed(r)
  <2>1. VestedAmount(r, r.end) = VestedAmount(s, s.end)
    BY <1>7 DEF VestedAmount
  <2>2. VestedAmount(s, s.end) \in 0..s.terms.amount
    BY <1>2, <1>3, VestedGrows
  <2> QED BY <1>2, <1>3, <1>7, <1>9, <2>1, <2>2 DEF Owed
<1>12. balances' \in [Holder -> Nat]
  BY <1>2, <1>3, <1>5
<1>13. Ends(r)
  BY <1>2, <1>7 DEF Ends
<1> QED BY <1>1, <1>5, <1>7, <1>8, <1>10, <1>11, <1>12, <1>13, ChangeKeeps

\* What Append does.
LEMMA Appended ==
  ASSUME NEW S, NEW old \in Seq(S), NEW new \in S
  PROVE  /\ Append(old, new) \in Seq(S)
         /\ Len(Append(old, new)) = Len(old) + 1
         /\ DOMAIN Append(old, new) = 1..(Len(old) + 1)
         /\ DOMAIN old = 1..Len(old) /\ Len(old) \in Nat
         /\ Append(old, new)[Len(old) + 1] = new
         /\ \A j \in 1..Len(old) : Append(old, new)[j] = old[j]
OBVIOUS

LEMMA CreateKeeps ==
  ASSUME VestingInv, NEW creator \in Holder, NEW beneficiary \in Holder,
         NEW offer \in Offers, NEW ignore \in BOOLEAN,
         CreateVestingSchedule(creator, beneficiary, offer, ignore)
  PROVE  Keeps
<1>1. /\ schedules \in Seq(Schedule) /\ escrow \in Seq(Nat) /\ Len(escrow) = Len(schedules)
      /\ now \in Nat /\ balances \in [Holder -> Nat]
  BY DEF VestingInv, VestingTypeOK
<1>2. offer \in Terms /\ VestsInTime(offer) /\ offer.amount \in Nat
      /\ balances[creator] >= offer.amount
  BY VestingAssumption DEF CreateVestingSchedule, AreValid, CanPay, Terms
<1>3. PICK t : t = [offer EXCEPT !.start = IF @ = 0 THEN now ELSE @]
  OBVIOUS
<1>4. t \in Terms /\ VestsInTime(t) /\ t.amount = offer.amount
      /\ t.start \in Nat /\ t.duration \in Nat /\ t.cliffDuration \in Nat /\ t.amount \in Nat
  BY <1>1, <1>2, <1>3 DEF Terms, VestsInTime
<1>5. PICK r : r = [terms |-> t, end |-> t.start + t.duration, creator |-> creator,
                    beneficiary |-> beneficiary, releasedAmount |-> 0,
                    ignoreGlobalUnlock |-> ignore]
  OBVIOUS
<1>6. /\ schedules' = Append(schedules, r)
      /\ escrow' = Append(escrow, t.amount)
      /\ balances' = [balances EXCEPT ![creator] = @ - t.amount]
      /\ now' = now
  BY <1>3, <1>5 DEF CreateVestingSchedule
<1>7. r \in Schedule /\ r.terms = t /\ r.end = t.start + t.duration /\ r.releasedAmount = 0
  BY <1>4, <1>5 DEF Schedule
<1>8. VestedAmount(r, r.end) = t.amount
  BY <1>4, <1>7 DEF VestedAmount, VestsInTime
<1>9. Ends(r)
  BY <1>4, <1>7 DEF Ends
<1>10. balances' \in [Holder -> Nat]
  BY <1>1, <1>2, <1>4, <1>6
<1>11. /\ schedules' \in Seq(Schedule) /\ escrow' \in Seq(Nat)
       /\ Len(schedules') = Len(schedules) + 1 /\ Len(escrow') = Len(escrow) + 1
       /\ schedules'[Len(schedules) + 1] = r /\ escrow'[Len(schedules) + 1] = t.amount
       /\ \A j \in 1..Len(schedules) : schedules'[j] = schedules[j] /\ escrow'[j] = escrow[j]
       /\ DOMAIN schedules = 1..Len(schedules) /\ DOMAIN schedules' = 1..(Len(schedules) + 1)
       /\ Len(schedules) \in Nat
  <2>1. /\ schedules' \in Seq(Schedule) /\ Len(schedules') = Len(schedules) + 1
        /\ schedules'[Len(schedules) + 1] = r
        /\ \A j \in 1..Len(schedules) : schedules'[j] = schedules[j]
        /\ DOMAIN schedules = 1..Len(schedules)
        /\ DOMAIN schedules' = 1..(Len(schedules) + 1) /\ Len(schedules) \in Nat
    BY <1>1, <1>6, <1>7, Appended
  <2>2. /\ escrow' \in Seq(Nat) /\ Len(escrow') = Len(escrow) + 1
        /\ escrow'[Len(escrow) + 1] = t.amount
        /\ \A j \in 1..Len(escrow) : escrow'[j] = escrow[j]
    BY <1>1, <1>4, <1>6, Appended
  <2> QED BY <1>1, <2>1, <2>2
<1>12. VestingTypeOK'
  BY <1>1, <1>6, <1>10, <1>11 DEF VestingTypeOK
<1>13. ASSUME NEW j \in DOMAIN schedules'
       PROVE  /\ EscrowIsOwed => escrow'[j] = Owed(schedules'[j])
              /\ VestsInTime(schedules'[j].terms)
              /\ Ends(schedules'[j])
  <2>1. CASE j = Len(schedules) + 1
    BY <1>4, <1>7, <1>8, <1>9, <1>11, <2>1 DEF Owed
  <2>2. CASE j # Len(schedules) + 1
    <3>1. j \in DOMAIN schedules
      BY <1>11, <1>13, <2>2
    <3> QED BY <1>11, <3>1 DEF VestingInv, EscrowIsOwed, Owed
  <2> QED BY <2>1, <2>2
<1>14. ASSUME NEW j \in DOMAIN schedules
       PROVE  VestedNow(schedules[j])' >= VestedNow(schedules[j])
  <2>1. PICK s : s = schedules[j]
    OBVIOUS
  <2>2. s \in Schedule /\ VestsInTime(s.terms) /\ now' \in Nat /\ now <= now'
    BY <1>1, <1>6, <1>14, <2>1 DEF VestingInv
  <2>3. VestedNow(s)' >= VestedNow(s)
    BY <1>1, <2>2, VestedNowGrows
  <2>4. /\ VestedNow(schedules[j])' = VestedNow(s)'
        /\ VestedNow(schedules[j]) = VestedNow(s)
    BY <1>11, <1>14, <2>1 DEF VestedNow
  <2> QED BY <2>3, <2>4
<1>15. VestingInv'
  BY <1>12, <1>13 DEF VestingInv
<1>16. EscrowIsOwed => EscrowIsOwed'
  BY <1>12, <1>13 DEF EscrowIsOwed, Owed
<1> QED BY <1>14, <1>15, <1>16 DEF Grows, Keeps

LEMMA InitIsOwed ==
  ASSUME VestingInit
  PROVE  VestingInv /\ (NothingRevoked => EscrowIsOwed)
<1>1. PICK old \in Old :
        /\ now = Upgraded
        /\ schedules = [i \in DOMAIN old |-> MigratedFromV1(old[i])]
        /\ escrow = [i \in DOMAIN old |-> old[i].escrow]
        /\ balances = [a \in Holder |-> IF a = Holder0 THEN InitialSupply ELSE 0]
  BY DEF VestingInit
<1>2. old \in Seq([schedule : ScheduleV1, escrow : Nat])
  BY VestingAssumption
<1>3. DOMAIN old = 1..Len(old) /\ Len(old) \in Nat
  BY <1>2
<1>4. ASSUME NEW i \in DOMAIN old
      PROVE  /\ schedules[i] \in Schedule /\ escrow[i] \in Nat
             /\ VestsInTime(schedules[i].terms)
             /\ Ends(schedules[i])
             /\ NothingRevoked => escrow[i] = Owed(schedules[i])
  <2>1. PICK s : s = old[i].schedule
    OBVIOUS
  <2>2. PICK e : e = old[i].escrow
    OBVIOUS
  <2>3. s \in ScheduleV1 /\ e \in Nat
    <3>1. ASSUME NEW T, old \in Seq(T) PROVE old[i] \in T
      BY <1>3, <3>1
    <3>2. old[i] \in [schedule : ScheduleV1, escrow : Nat]
      BY <1>2, <3>1
    <3> QED BY <2>1, <2>2, <3>2
  <2>4. VestsInTime(s.terms) /\ s.end \in s.terms.start..(s.terms.start + s.terms.duration)
    BY <2>1, VestingAssumption
  <2>5. PICK amount \in Nat : amount = s.terms.amount
    BY <2>3 DEF ScheduleV1, Terms
  <2>6. PICK left \in Nat :
          left = Least(e, amount) /\ left <= amount /\ (e <= amount => left = e)
    BY <2>3 DEF Least
  <2>7. PICK r : r = [terms |-> s.terms, end |-> s.end, creator |-> s.creator,
                      beneficiary |-> s.beneficiary, releasedAmount |-> amount - left,
                      ignoreGlobalUnlock |-> FALSE]
    OBVIOUS
  <2>8. schedules[i] = r /\ escrow[i] = e
    BY <1>1, <2>1, <2>2, <2>5, <2>6, <2>7 DEF MigratedFromV1
  <2>9. /\ r \in Schedule /\ r.terms = s.terms /\ r.end = s.end
        /\ r.releasedAmount = amount - left
    BY <2>3, <2>6, <2>7 DEF Schedule, ScheduleV1
  <2>10. ASSUME NothingRevoked
         PROVE  e = Owed(r)
    <3>1. s.end = s.terms.start + s.terms.duration /\ e <= amount
      BY <2>1, <2>2, <2>5, <2>10 DEF NothingRevoked
    <3>2. s.terms.start \in Nat /\ s.terms.duration \in Nat /\ s.terms.cliffDuration \in Nat
      BY <2>3 DEF ScheduleV1, Terms
    <3>3. VestedAmount(r, r.end) = amount
      BY <2>4, <2>5, <2>9, <3>1, <3>2 DEF VestedAmount, VestsInTime
    <3> QED BY <2>3, <2>6, <2>9, <3>1, <3>3 DEF Owed
  <2> QED BY <2>3, <2>4, <2>8, <2>9, <2>10 DEF Ends
<1>5. /\ schedules \in Seq(Schedule) /\ escrow \in Seq(Nat)
      /\ Len(schedules) = Len(old) /\ Len(escrow) = Len(old)
      /\ DOMAIN schedules = DOMAIN old
  <2>1. schedules \in [1..Len(old) -> Schedule] /\ escrow \in [1..Len(old) -> Nat]
    BY <1>1, <1>3, <1>4
  <2> QED BY <1>3, <2>1
<1>6. now \in Nat /\ balances \in [Holder -> Nat]
  BY <1>1, VestingAssumption
<1>7. VestingTypeOK
  BY <1>5, <1>6 DEF VestingTypeOK
<1> QED BY <1>4, <1>5, <1>7 DEF VestingInv, EscrowIsOwed, Owed

LEMMA NextKeeps ==
  ASSUME VestingInv, [VestingNext]_vestingVars
  PROVE  Keeps
<1>1. now \in Nat /\ balances \in [Holder -> Nat]
  BY DEF VestingInv, VestingTypeOK
<1>2. CASE TimePasses
  BY <1>1, <1>2, OthersKeep DEF TimePasses
<1>3. CASE UNCHANGED vestingVars
  BY <1>1, <1>3, OthersKeep DEF vestingVars
<1>4. ASSUME NEW from \in Holder, NEW value \in Transfers, NEW to \in Holder \ {from},
             TransferTLC(from, to, value)
      PROVE  Keeps
  <2>1. value \in Nat
    BY VestingAssumption
  <2>2. balances' \in [Holder -> Nat]
    BY <1>1, <1>4, <2>1 DEF TransferTLC
  <2> QED BY <1>1, <1>4, <2>2, OthersKeep DEF TransferTLC
<1> QED BY <1>2, <1>3, <1>4, CreateKeeps, RevokeKeeps, ReleaseKeeps DEF VestingNext

\* For any schedules, revoked ones as well: every schedule is of its type and ends
\* within its terms.
THEOREM SchedulesAreSound == VestingSpec => []VestingInv
<1>1. VestingInit => VestingInv
  BY InitIsOwed
<1>2. VestingInv /\ [VestingNext]_vestingVars => VestingInv'
  BY NextKeeps DEF Keeps
<1> QED BY <1>1, <1>2, PTL DEF VestingSpec

\* For any schedules, revoked ones as well: what has vested stays vested, whatever
\* is created, released or revoked (_revokeVestingSchedule, _computeVestedAmount).
THEOREM VestedStays == VestingSpec => VestedNeverShrinks
<1>1. VestingInv /\ [VestingNext]_vestingVars =>
        [\A i \in DOMAIN schedules :
           VestedNow(schedules[i])' >= VestedNow(schedules[i])]_vestingVars
  BY NextKeeps DEF Keeps, Grows
<1> QED BY <1>1, SchedulesAreSound, PTL DEF VestingSpec, VestedNeverShrinks

\* If the upgrade finds no schedule revoked: every escrow holds what will vest and
\* has not been released, and no escrow or account is overdrawn
\* (_createVestingSchedule, _revokeVestingSchedule, _releaseVestingSchedule).
THEOREM EscrowsHoldWhatIsOwed ==
  ASSUME NothingRevoked
  PROVE  VestingSpec => []EscrowIsOwed
<1>1. VestingInit => EscrowIsOwed
  BY InitIsOwed
<1>2. VestingInv /\ EscrowIsOwed /\ [VestingNext]_vestingVars => EscrowIsOwed'
  BY NextKeeps DEF Keeps
<1> QED BY <1>1, <1>2, SchedulesAreSound, PTL DEF VestingSpec

-----------------------------------------------------------------------------
\* A month after the last part, the parts make the whole amount.
LEMMA PartsMakeTheWhole ==
  ASSUME NEW amount \in Nat, NEW parts \in Nat, parts > 0, amount >= parts * (parts - 1),
         NEW months \in Nat, months >= parts + 1
  PROVE  (amount \div parts) * months >= amount
<1>1. PICK q \in Nat : q = amount \div parts
  OBVIOUS
<1>2. amount < parts * q + parts /\ parts * q \in Nat /\ parts * (parts - 1) \in Nat
  BY <1>1
<1>3. q >= parts - 1
  <2>1. SUFFICES ASSUME q + 1 <= parts - 1 PROVE FALSE
    OBVIOUS
  <2>2. parts * (q + 1) <= parts * (parts - 1)
    BY <2>1
  <2>3. parts * (q + 1) = parts * q + parts
    OBVIOUS
  <2> QED BY <1>2, <2>2, <2>3
<1>4. q * months >= q * (parts + 1)
  OBVIOUS
<1>5. q * (parts + 1) = parts * q + q /\ q * months \in Nat
  OBVIOUS
<1> QED BY <1>1, <1>2, <1>3, <1>4, <1>5

LEMMA MonthsPassed ==
  ASSUME NEW month \in Nat, month > 0, NEW n \in Nat, NEW elapsed \in Nat,
         elapsed >= month * n
  PROVE  elapsed \div month \in Nat /\ elapsed \div month >= n
<1>1. PICK q \in Nat : q = elapsed \div month
  OBVIOUS
<1>2. elapsed < month * q + month /\ month * q \in Nat
  BY <1>1
<1>3. q >= n
  <2>1. SUFFICES ASSUME q + 1 <= n PROVE FALSE
    OBVIOUS
  <2>2. month * (q + 1) <= month * n
    BY <2>1
  <2>3. month * (q + 1) = month * q + month /\ month * n \in Nat
    OBVIOUS
  <2> QED BY <1>2, <2>2, <2>3
<1> QED BY <1>1, <1>3

\* What is over may be released whole.
LEMMA OverIsUnlocked ==
  ASSUME VestingInv, EscrowIsOwed, NEW i \in DOMAIN schedules,
         IsOver(schedules[i])
  PROVE  /\ ~Underflows(schedules[i])
         /\ ReleasableAmount(schedules[i]) = escrow[i]
<1>1. PICK s : s = schedules[i]
  OBVIOUS
<1>2. /\ s \in Schedule /\ VestsInTime(s.terms)
      /\ escrow[i] = VestedAmount(s, s.end) - s.releasedAmount
      /\ escrow[i] \in Nat
      /\ now \in Nat
  BY <1>1 DEF VestingInv, EscrowIsOwed, VestingTypeOK
<1>3. /\ s.end \in Nat /\ s.releasedAmount \in Nat /\ s.terms.amount \in Nat
      /\ s.terms.start \in Nat /\ s.terms.lockDuration \in Nat
  BY <1>2 DEF Schedule, Terms
<1>4. Month \in Nat /\ Month > 0 /\ UnlockParts \in Nat /\ UnlockParts > 0
  BY VestingAssumption
<1>5. /\ now >= s.end
      /\ now >= Unlock(s) + Month * (UnlockParts + 1)
      /\ s.terms.amount >= UnlockParts * (UnlockParts - 1)
  BY <1>1 DEF IsOver
<1>6. Unlock(s) \in Nat /\ Month * (UnlockParts + 1) \in Nat
  BY <1>3, <1>4 DEF Unlock
<1>7. ~IsLocked(s)
  BY <1>2, <1>5, <1>6 DEF IsLocked
<1>8. VestedNow(s) = VestedAmount(s, s.end)
  <2>1. Least(now, s.end) = s.end
    BY <1>2, <1>3, <1>5 DEF Least
  <2> QED BY <2>1 DEF VestedNow
<1>9. VestedNow(s) \in 0..s.terms.amount
  BY <1>2, <1>3, <1>8, VestedGrows
<1>10. UnlockedNow(s) = s.terms.amount
  <2>1. PICK elapsed \in Nat :
          elapsed = now - Unlock(s) /\ elapsed >= Month * (UnlockParts + 1)
    BY <1>2, <1>5, <1>6
  <2>2. PICK months \in Nat : months = elapsed \div Month /\ months >= UnlockParts + 1
    BY <1>4, <2>1, MonthsPassed
  <2>3. (s.terms.amount \div UnlockParts) * months >= s.terms.amount
    BY <1>3, <1>4, <1>5, <2>2, PartsMakeTheWhole
  <2>4. (s.terms.amount \div UnlockParts) * months \in Nat
    BY <1>3, <1>4
  <2> QED BY <1>3, <2>1, <2>2, <2>3, <2>4 DEF UnlockedNow, GlobalUnlocked, Least
<1>11. ~Underflows(s)
  BY <1>3, <1>9, <1>10 DEF Underflows
<1>12. ReleasableAmount(s) = escrow[i]
  BY <1>2, <1>3, <1>7, <1>8, <1>9, <1>10 DEF ReleasableAmount, Least
<1> QED BY <1>1, <1>11, <1>12

\* If the upgrade finds no schedule revoked: the whole escrow of a schedule that is
\* over can be released; the rounded parts of the global unlock schedule, one month
\* after the last of them, make the whole amount (_computeGlobalUnlocked).
THEOREM NothingStaysStuck ==
  ASSUME NothingRevoked
  PROVE  VestingSpec => []NothingIsStuck
<1>1. VestingInv /\ EscrowIsOwed => NothingIsStuck
  BY OverIsUnlocked DEF NothingIsStuck
<1> QED BY <1>1, SchedulesAreSound, EscrowsHoldWhatIsOwed, PTL
=============================================================================
