---------------------------- MODULE DeployScripts ----------------------------
(***************************************************************************)
(* The scripts of deploy/hoodi (01 to 04) and deploy/devHoodi (01 to 07),  *)
(* as tables for ProxyDeployment: the steps of each, in order, and what    *)
(* its skip function wants done.  Scripts 01 to 04 are the same in both    *)
(* directories, apart from the networks they accept and epochsPerFrame.    *)
(***************************************************************************)
EXTENDS Integers, Sequences, SequencesExt

Act(op, of, at, to) == [op |-> op, of |-> of, at |-> at, to |-> to]

\* deployments.deploy of a plain contract, and of the implementation and the
\* proxy of a proxied one; `ran' initialisers run at its deployment.
Implementation(c, version) == Act("implementation", c, 0, version)
Proxy(c, owner, ran) ==
  <<Implementation(c, "1_2_1"), Act("proxy", c, ran, owner)>>
Firewall(name) == Act("firewall", name, 0, "")
InitialiseProxy(c) == Act("initialise", c, 0, "1_2_1")
TransferProxyAdmin(c, target) == Act("handOver", c, 0, target)
Call(c, at) == Act("call", c, at, "")

-----------------------------------------------------------------------------

\* 01: the proxy of Withdraw, administered from the start, initialised by 03.
WithdrawStub ==
  [steps |-> Proxy("Withdraw", "proxyAdministrator", 0),
   skip |-> {Act("proxy", "Withdraw", 0, "proxyAdministrator")}]

\* 02: the proxy with the deployer as its admin, the two firewalls with its
\* address, its initialisation, its handing over.
AllowlistSteps ==
  Proxy("Allowlist", "deployer", 0)
    \o <<Firewall("AllowlistFirewall"), Firewall("AllowlistProxyFirewall"),
         InitialiseProxy("Allowlist"),
         TransferProxyAdmin("Allowlist", "AllowlistProxyFirewall")>>

\* 02 is skipped when the proxy is recorded and has an allower.
AllowlistSkip ==
  {Act("proxy", "Allowlist", 0, "deployer"), InitialiseProxy("Allowlist")}

\* 03, phase 1: the proxies, with the deployer as their admin.
ProxiesPhase ==
  Proxy("River", "deployer", 0)
    \o Proxy("Oracle", "deployer", 0)
    \o Proxy("OperatorsRegistry", "deployer", 0)
    \o Proxy("ELFeeRecipient", "deployer", 0)
    \o Proxy("RedeemManager", "deployer", 0)

\* Phase 2: the firewalls, with the addresses of the proxies.
FirewallsPhase ==
  <<Firewall("RiverFirewall"), Firewall("RiverProxyFirewall"),
    Firewall("OracleFirewall"), Firewall("OracleProxyFirewall"),
    Firewall("OperatorsRegistryFirewall"), Firewall("OperatorsRegistryProxyFirewall"),
    Firewall("RedeemManagerProxyFirewall")>>

\* Phase 3: the proxies initialised, through upgradeToAndCall.
InitialisePhase ==
  <<InitialiseProxy("River"), InitialiseProxy("Oracle"),
    InitialiseProxy("OperatorsRegistry"), InitialiseProxy("ELFeeRecipient"),
    InitialiseProxy("RedeemManager")>>

\* Phase 4: the proxies handed over.
TransferPhase ==
  <<TransferProxyAdmin("River", "RiverProxyFirewall"),
    TransferProxyAdmin("Oracle", "OracleProxyFirewall"),
    TransferProxyAdmin("OperatorsRegistry", "OperatorsRegistryProxyFirewall"),
    TransferProxyAdmin("ELFeeRecipient", "proxyAdministrator"),
    TransferProxyAdmin("RedeemManager", "RedeemManagerProxyFirewall")>>

\* Phase 5: initializeWithdrawV1, initRiverV1_1 (which gives River its redeem
\* manager), forceFundedValidatorKeysEventEmission.
PostInitialisationPhase ==
  <<Call("Withdraw", 0), Call("River", 1), Act("migrate", "OperatorsRegistry", 0, "")>>

\* 03 is skipped when its five proxies are recorded and River has a redeem
\* manager.
CoreSkip ==
  {Act("proxy", "River", 0, "deployer"), Act("proxy", "Oracle", 0, "deployer"),
   Act("proxy", "OperatorsRegistry", 0, "deployer"),
   Act("proxy", "ELFeeRecipient", 0, "deployer"),
   Act("proxy", "RedeemManager", 0, "deployer"), Call("River", 1)}

\* 04: the proxy of CoverageFund, initialised as it is deployed.
CoverageFundStub ==
  [steps |-> Proxy("CoverageFund", "proxyAdministrator", 1),
   skip |-> {Act("proxy", "CoverageFund", 1, "proxyAdministrator")}]

HoodiScripts ==
  <<WithdrawStub,
    [steps |-> AllowlistSteps, skip |-> AllowlistSkip],
    [steps |-> ProxiesPhase \o FirewallsPhase \o InitialisePhase \o TransferPhase
                 \o PostInitialisationPhase,
     skip |-> CoreSkip],
    CoverageFundStub>>

-----------------------------------------------------------------------------

\* 05: the implementations of 1.3.0.
NewImplementations ==
  <<Implementation("Allowlist", "1_3_0"), Implementation("CoverageFund", "1_3_0"),
    Implementation("ELFeeRecipient", "1_3_0"),
    Implementation("OperatorsRegistry", "1_3_0"), Implementation("Oracle", "1_3_0"),
    Implementation("RedeemManager", "1_3_0"), Implementation("River", "1_3_0"),
    Implementation("Withdraw", "1_3_0")>>

\* 06: upgradeTo for the proxies the proxy administrator holds itself (doUpgradeTo),
\* upgradeToAndCall through the proxy firewall for the others
\* (doUpgradeToAndCall), River last.
DoUpgradeTo(c) == Act("upgrade", c, -1, "1_3_0")
DoUpgradeToAndCall(c, at) == Act("upgrade", c, at, "1_3_0")

UpgradeSteps ==
  <<DoUpgradeTo("Withdraw"), DoUpgradeTo("CoverageFund"), DoUpgradeTo("ELFeeRecipient"),
    DoUpgradeToAndCall("Allowlist", 1), DoUpgradeToAndCall("OperatorsRegistry", 1),
    DoUpgradeToAndCall("Oracle", 1), DoUpgradeToAndCall("RedeemManager", 1),
    DoUpgradeToAndCall("River", 2)>>

\* 06 is skipped when every proxy has its new implementation.
UpgradeSkip == ToSet(UpgradeSteps)

\* 07: never skipped.
VerifyUpgrade == Act("verify", "River", 0, "1_3_0")

DevHoodiScripts ==
  HoodiScripts
    \o <<[steps |-> NewImplementations, skip |-> ToSet(NewImplementations)],
         [steps |-> UpgradeSteps, skip |-> UpgradeSkip],
         [steps |-> <<VerifyUpgrade>>, skip |-> {VerifyUpgrade}]>>
=============================================================================
