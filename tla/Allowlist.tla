------------------------------- MODULE Allowlist -------------------------------
(***************************************************************************)
(* The Allowlist behind its pausable proxy and its firewall.  The allower  *)
(* and the denier write the same word of permissions of an account; the    *)
(* administrator names both, and is itself handed over in two steps, one   *)
(* by the old and one by the new.  Each of the three may be an account or  *)
(* the firewall, which lets its own administrator, and for some functions  *)
(* its executor, call the Allowlist.  A firewall has an administrator as   *)
(* the Allowlist has, and answers the functions that hand it over itself.  *)
(*                                                                         *)
(* It starts after the initialisers, which the deployment calls together   *)
(* with the deployment or the upgrade of the proxy.                        *)
(***************************************************************************)
CONSTANTS
  Accounts,   \* the accounts that act
  Users,      \* the accounts that have permissions
  Rights,     \* the masks of the rights: deposit, donate, redeem
  Deny,       \* the mask of denied accounts
  Firewall,   \* the address of the Allowlist's firewall
  Nobody      \* the zero address

ASSUME DistinctAssumption ==
  /\ Firewall \notin Accounts
  /\ Nobody \notin Accounts \cup {Firewall}
  /\ Deny \notin Rights

VARIABLES
  permissions,                   \* the masks of each user
  admin, pendingAdmin,           \* of the Allowlist
  allower, denier,
  paused,                        \* its proxy's
  firewallAdmin, firewallPending, executor,
  executorCanCall                \* the functions the executor may call

roles == <<admin, pendingAdmin, allower, denier>>
firewall == <<firewallAdmin, firewallPending, executor, executorCanCall>>
allowlistVars == <<permissions, roles, paused, firewall>>

Masks == Rights \cup {Deny}
Addresses == Accounts \cup {Firewall}
Methods == {"setAllower", "setDenier", "setAllowPermissions", "setDenyPermissions"}

IsDenied(user) == Deny \in permissions[user]

-----------------------------------------------------------------------------
(* Calls that reach the Allowlist, by what it sees as their sender.  A list *)
(* of accounts, with the masks for each, is a function: an account listed   *)
(* twice has the later masks.                                               *)

Batches == UNION {[users -> SUBSET Masks] : users \in SUBSET Users \ {{}}}

SetAllower(sender, newAllower) ==
  /\ sender = admin
  /\ allower' = newAllower
  /\ UNCHANGED <<permissions, admin, pendingAdmin, denier>>

SetDenier(sender, newDenier) ==
  /\ sender = admin
  /\ denier' = newDenier
  /\ UNCHANGED <<permissions, admin, pendingAdmin, allower>>

\* A variant that does not look at the masks an account has.
SetAllowPermissionsUnchecked(sender, batch) ==
  /\ sender = allower
  /\ \A user \in DOMAIN batch : Deny \notin batch[user]
  /\ permissions' =
       [user \in Users |-> IF user \in DOMAIN batch THEN batch[user] ELSE permissions[user]]
  /\ UNCHANGED roles

\* The allower can neither deny an account nor touch a denied one; one such
\* account in its list reverts the whole call.
SetAllowPermissions(sender, batch) ==
  /\ sender = allower
  /\ \A user \in DOMAIN batch : ~IsDenied(user) /\ Deny \notin batch[user]
  /\ permissions' =
       [user \in Users |-> IF user \in DOMAIN batch THEN batch[user] ELSE permissions[user]]
  /\ UNCHANGED roles

\* The denier denies and forgives, and takes every right away with both.
SetDenyPermissions(sender, batch) ==
  /\ sender = denier
  /\ permissions' =
       [user \in Users |->
          IF user \in DOMAIN batch THEN batch[user] \cap {Deny} ELSE permissions[user]]
  /\ UNCHANGED roles

ProposeAdmin(sender, newAdmin) ==
  /\ sender = admin
  /\ pendingAdmin' = newAdmin
  /\ UNCHANGED <<permissions, admin, allower, denier>>

AcceptAdmin(sender) ==
  /\ sender = pendingAdmin
  /\ admin' = pendingAdmin
  /\ pendingAdmin' = Nobody
  /\ UNCHANGED <<permissions, allower, denier>>

\* The functions a firewall does not have itself.
Perform(sender, method) ==
  \/ method = "setAllower" /\ \E a \in Addresses : SetAllower(sender, a)
  \/ method = "setDenier" /\ \E a \in Addresses : SetDenier(sender, a)
  \/ method = "setAllowPermissions" /\ \E batch \in Batches : SetAllowPermissions(sender, batch)
  \/ method = "setDenyPermissions" /\ \E batch \in Batches : SetDenyPermissions(sender, batch)

\* A paused proxy passes nothing on.
CallDirectly(account) ==
  /\ ~paused
  /\ \/ \E method \in Methods : Perform(account, method)
     \/ \E a \in Addresses \cup {Nobody} : ProposeAdmin(account, a)
     \/ AcceptAdmin(account)
  /\ UNCHANGED <<paused, firewall>>

-----------------------------------------------------------------------------
(* The firewall and the proxy.                                             *)

MayForward(account, method) ==
  account = firewallAdmin \/ (account = executor /\ method \in executorCanCall)

CallThroughFirewall(account) ==
  /\ ~paused
  /\ \E method \in Methods : MayForward(account, method) /\ Perform(Firewall, method)
  /\ UNCHANGED <<paused, firewall>>

SetExecutor(account) ==
  /\ account \in {firewallAdmin, executor}
  /\ executor' \in Accounts
  /\ UNCHANGED <<permissions, roles, paused, firewallAdmin, firewallPending, executorCanCall>>

AllowExecutor(account) ==
  /\ account = firewallAdmin
  /\ \E method \in Methods :
       executorCanCall' \in {executorCanCall \cup {method}, executorCanCall \ {method}}
  /\ UNCHANGED <<permissions, roles, paused, firewallAdmin, firewallPending, executor>>

\* proposeAdmin and acceptAdmin, sent to the firewall, are about the firewall.
FirewallProposeAdmin(account) ==
  /\ account = firewallAdmin
  /\ firewallPending' \in Accounts \cup {Nobody}
  /\ UNCHANGED <<permissions, roles, paused, firewallAdmin, executor, executorCanCall>>

FirewallAcceptAdmin(account) ==
  /\ account = firewallPending
  /\ firewallAdmin' = firewallPending
  /\ firewallPending' = Nobody
  /\ UNCHANGED <<permissions, roles, paused, executor, executorCanCall>>

\* pause and unpause, by the proxy's admin.
SetPaused ==
  /\ paused' = ~paused
  /\ UNCHANGED <<permissions, roles, firewall>>

\* The Allowlist is given any administrator and allower; on hoodi and devHoodi
\* both, and the denier, are the firewall.
AllowlistInit ==
  /\ permissions = [user \in Users |-> {}]
  /\ admin \in Addresses
  /\ pendingAdmin = Nobody
  /\ allower \in Addresses
  /\ denier \in Addresses
  /\ paused = FALSE
  /\ firewallAdmin \in Accounts
  /\ firewallPending = Nobody
  /\ executor \in Accounts
  /\ executorCanCall = {}

AllowlistNext ==
  \/ \E account \in Accounts :
       \/ CallDirectly(account)
       \/ CallThroughFirewall(account)
       \/ SetExecutor(account)
       \/ AllowExecutor(account)
       \/ FirewallProposeAdmin(account)
       \/ FirewallAcceptAdmin(account)
  \/ SetPaused

AllowlistSpec == AllowlistInit /\ [][AllowlistNext]_allowlistVars

-----------------------------------------------------------------------------

\* The types of the state; proved in TokenProofs.
AllowlistTypeOK ==
  /\ permissions \in [Users -> SUBSET Masks]
  /\ admin \in Addresses
  /\ pendingAdmin \in Addresses \cup {Nobody}
  /\ allower \in Addresses
  /\ denier \in Addresses
  /\ paused \in BOOLEAN
  /\ firewallAdmin \in Accounts
  /\ firewallPending \in Accounts \cup {Nobody}
  /\ executor \in Accounts
  /\ executorCanCall \subseteq Methods

\* Whoever is administrator, allower, denier or executor, and however they
\* change: an account that is denied has no right, stays denied until it is
\* forgiven, and then starts over with none (setAllowPermissions: "an address
\* which was denied has to be undenied first"; setDenyPermissions: "has to be
\* given permissions again").
DenialSticks ==
  [][\A user \in Users :
       IsDenied(user) =>
         /\ permissions[user] = {Deny}
         /\ permissions'[user] \in {{}, {Deny}}]_allowlistVars
=============================================================================
