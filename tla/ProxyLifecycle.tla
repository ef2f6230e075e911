--------------------------- MODULE ProxyLifecycle ---------------------------
(***************************************************************************)
(* What the deployment of the proxies promises, without the scripts, the   *)
(* transactions, the crashes and the reruns.  A proxy is initialised once, *)
(* is handed over to whoever governs it, and is upgraded; nothing is ever  *)
(* taken back.  A proxy of the protocol is handed over only once it is     *)
(* initialised, since nobody who could initialise it holds it afterwards;  *)
(* River opens to redemptions only once everything around it is governed;  *)
(* it is upgraded last.                                                    *)
(***************************************************************************)
CONSTANTS
  Proxies,    \* every proxy
  Core,       \* those deployed and initialised together with River
  Hub         \* River, which the others serve

VARIABLES
  initialised,  \* the proxies whose first initialiser has run
  governed,     \* the proxies under the account that is to govern them
  opened,       \* whether the hub has been given its redeem manager
  upgraded      \* the proxies on the new implementation

vars == <<initialised, governed, opened, upgraded>>

Init ==
  /\ initialised = {}
  /\ governed = {}
  /\ opened = FALSE
  /\ upgraded = {}

\* A proxy may be born governed, and with its initialiser run.
Found(p) ==
  /\ p \in Proxies \ Core
  /\ p \notin governed \cup initialised
  /\ governed' = governed \cup {p}
  /\ initialised' \in {initialised, initialised \cup {p}}
  /\ UNCHANGED <<opened, upgraded>>

Initialise(p) ==
  /\ p \notin initialised
  /\ initialised' = initialised \cup {p}
  /\ UNCHANGED <<governed, opened, upgraded>>

HandOver(p) ==
  /\ p \in initialised \ governed
  /\ governed' = governed \cup {p}
  /\ UNCHANGED <<initialised, opened, upgraded>>

Open ==
  /\ ~opened
  /\ Core \subseteq governed \cap initialised
  /\ opened' = TRUE
  /\ UNCHANGED <<initialised, governed, upgraded>>

Upgrade(p) ==
  /\ opened
  /\ p \in (governed \cap initialised) \ upgraded
  /\ p = Hub => Proxies \ {Hub} \subseteq upgraded
  /\ upgraded' = upgraded \cup {p}
  /\ UNCHANGED <<initialised, governed, opened>>

Next ==
  \/ \E p \in Proxies : Found(p) \/ Initialise(p) \/ HandOver(p) \/ Upgrade(p)
  \/ Open

Spec == Init /\ [][Next]_vars
=============================================================================
