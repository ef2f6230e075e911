-------------------------------- MODULE WLSETH --------------------------------
(***************************************************************************)
(* The wrapped LsETH token (WLSETH.1.sol): accounts hold shares of LsETH   *)
(* in it and see them as the ETH they stand for, a balance that changes    *)
(* with every report to River.  River is here by what WLSETH calls of it:  *)
(* LsETH balances, its rate (assets per supply) and its allowlist.         *)
(*                                                                         *)
(* Left out: allowances of LsETH, which only narrow who may mint.  The     *)
(* reentrancy guard has no action: River calls no one back.                *)
(***************************************************************************)
EXTENDS Integers, FiniteSets, Functions

CONSTANTS
  Account,    \* holders of LsETH and of its wrapper
  Wrapper,    \* the address of the WLSETH contract
  Supply,     \* LsETH there is
  Rates,      \* assets River may manage for it
  Values,     \* amounts transferred, in ETH
  Shares,     \* amounts minted, burned and transferred, in LsETH
  Approvals,  \* allowances an owner may give
  MaxUint     \* type(uint256).max, the allowance that is never spent

ASSUME WLSETHAssumption ==
  /\ IsFiniteSet(Account)
  /\ Wrapper \notin Account
  /\ Supply \in Nat \ {0}
  /\ Rates \subseteq Nat
  /\ Values \subseteq Nat \ {0}
  /\ Shares \subseteq Nat \ {0}
  /\ Approvals \subseteq Nat
  /\ MaxUint \in Nat

VARIABLES
  balanceOf,       \* BalanceOf: shares of each account
  balanceOfLsETH,  \* BalanceOfLsETH: what the wrapper believes it holds
  approvals,       \* ApprovalsPerOwner, in ETH
  lsEth,           \* River's balances
  assets,          \* River's assets
  denied           \* accounts the allowlist denies

wrapped == <<balanceOf, balanceOfLsETH>>

vars == <<balanceOf, balanceOfLsETH, approvals, lsEth, assets, denied>>

TypeOK ==
  /\ balanceOf \in [Account -> Nat]
  /\ balanceOfLsETH \in Nat
  /\ approvals \in [Account -> [Account -> Nat]]
  /\ lsEth \in [Account \cup {Wrapper} -> Nat]
  /\ assets \in Nat
  /\ denied \subseteq Account

-----------------------------------------------------------------------------
(* River                                                                   *)

UnderlyingBalanceFromShares(shares) == (shares * assets) \div Supply

SharesFromUnderlyingBalance(balance) ==
  IF assets = 0 THEN 0 ELSE (balance * Supply) \div assets

MoveLsETH(from, to, shares) ==
  /\ shares \in 1..lsEth[from]
  /\ {from, to} \cap denied = {}
  /\ lsEth' = [lsEth EXCEPT ![from] = @ - shares, ![to] = @ + shares]

\* A report changes what River manages; the allowlist's denier denies and forgives.
RiverReports(total) ==
  /\ assets' = total
  /\ UNCHANGED <<wrapped, approvals, lsEth, denied>>

TransferLsETH(from, to, shares) ==
  /\ MoveLsETH(from, to, shares)
  /\ UNCHANGED <<wrapped, approvals, assets, denied>>

SetDenied(account) ==
  /\ denied' = IF account \in denied THEN denied \ {account} ELSE denied \cup {account}
  /\ UNCHANGED <<wrapped, approvals, lsEth, assets>>

-----------------------------------------------------------------------------
(* The wrapper                                                             *)

NotDenied(from, to) == from \notin denied /\ to \notin denied

HasFunds(owner, value) ==
  UnderlyingBalanceFromShares(balanceOf[owner]) >= value

\* _transfer: what is worth less than one share moves nothing.
Move(from, to, value) ==
  LET shares == SharesFromUnderlyingBalance(value)
  IN
  /\ NotDenied(from, to)
  /\ balanceOf' = [balanceOf EXCEPT ![from] = @ - shares, ![to] = @ + shares]
  /\ UNCHANGED <<balanceOfLsETH, lsEth, assets, denied>>

Transfer(from, to, value) ==
  /\ HasFunds(from, value)
  /\ Move(from, to, value)
  /\ UNCHANGED approvals

\* Variant of Spent: the shares moved are spent.
SpentInShares(value) == SharesFromUnderlyingBalance(value)

\* The allowance is in ETH, and left alone when nothing moves.
Spent(value) == IF SharesFromUnderlyingBalance(value) > 0 THEN value ELSE 0

TransferFrom(spender, from, to, value) ==
  /\ HasFunds(from, value)
  /\ approvals[from][spender] >= value
  /\ Move(from, to, value)
  /\ approvals' = [approvals EXCEPT ![from][spender] =
                     IF @ = MaxUint THEN @ ELSE @ - Spent(value)]

\* approve; increaseAllowance and decreaseAllowance reach the same values.
Approve(owner, spender, value) ==
  /\ approvals' = [approvals EXCEPT ![owner][spender] = value]
  /\ UNCHANGED <<wrapped, lsEth, assets, denied>>

Mint(sender, recipient, shares) ==
  /\ NotDenied(sender, recipient)
  /\ MoveLsETH(sender, Wrapper, shares)
  /\ balanceOf' = [balanceOf EXCEPT ![recipient] = @ + shares]
  /\ balanceOfLsETH' = balanceOfLsETH + shares
  /\ UNCHANGED <<approvals, assets, denied>>

\* Variant of Burn: the wrapper's own count is not updated.
BurnUncounted(sender, recipient, shares) ==
  /\ NotDenied(sender, recipient)
  /\ shares <= balanceOf[sender]
  /\ MoveLsETH(Wrapper, recipient, shares)
  /\ balanceOf' = [balanceOf EXCEPT ![sender] = @ - shares]
  /\ UNCHANGED <<balanceOfLsETH, approvals, assets, denied>>

Burn(sender, recipient, shares) ==
  /\ NotDenied(sender, recipient)
  /\ shares <= balanceOf[sender]
  /\ MoveLsETH(Wrapper, recipient, shares)
  /\ balanceOf' = [balanceOf EXCEPT ![sender] = @ - shares]
  /\ balanceOfLsETH' = balanceOfLsETH - shares
  /\ UNCHANGED <<approvals, assets, denied>>

-----------------------------------------------------------------------------
\* All LsETH is with one account at first.
Init ==
  /\ balanceOf = [a \in Account |-> 0]
  /\ balanceOfLsETH = 0
  /\ approvals = [a \in Account |-> [b \in Account |-> 0]]
  /\ \E holder \in Account :
       lsEth = [a \in Account \cup {Wrapper} |-> IF a = holder THEN Supply ELSE 0]
  /\ assets \in Rates
  /\ denied = {}

RiverActs ==
  \/ \E total \in Rates : RiverReports(total)
  \/ \E a \in Account : SetDenied(a)
  \/ \E from \in Account, shares \in Shares :
       \E to \in (Account \cup {Wrapper}) \ {from} : TransferLsETH(from, to, shares)

WrapperActs ==
  \E a, b \in Account :
    \/ \E value \in Values :
         \/ Transfer(a, b, value)
         \/ \E spender \in Account : TransferFrom(spender, a, b, value)
    \/ \E value \in Approvals : Approve(a, b, value)
    \/ \E shares \in Shares : Mint(a, b, shares) \/ Burn(a, b, shares)

Next == RiverActs \/ WrapperActs

Spec == Init /\ [][Next]_vars

-----------------------------------------------------------------------------
(* Properties                                                              *)

SumOf(f) == SumFunctionOnSet(f, Account)

\* Invariant: every share is backed by LsETH the wrapper really holds, and no
\* balance or allowance is overdrawn, although funds are checked in ETH and shares
\* are what moves.
SharesAreBacked ==
  /\ TypeOK
  /\ SumOf(balanceOf) = balanceOfLsETH
  /\ balanceOfLsETH <= lsEth[Wrapper]

\* Action property: at any rate and whatever is rounded, what a spender moves of an
\* owner's shares is worth no more ETH than the step takes of its allowance, unless
\* the allowance is the one that is never spent (transferFrom, _spendAllowance).
SpenderPays ==
  [][\A spender, owner, recipient \in Account, value \in Values :
       TransferFrom(spender, owner, recipient, value)
       /\ approvals[owner][spender] # MaxUint =>
         UnderlyingBalanceFromShares(balanceOf[owner] - balanceOf'[owner])
           <= approvals[owner][spender] - approvals'[owner][spender]]_vars

=============================================================================
