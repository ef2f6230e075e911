--------------------------- MODULE MainnetScripts ---------------------------
(***************************************************************************)
(* The scripts of deploy/mainnet (01 to 17) as tables for NonceDeployment, *)
(* as they run on mainnet: 04 and 05 are always skipped there, and have    *)
(* nothing to wait for.  The deployments of 04, 11 and 13 are commented    *)
(* out; 11 and 13 run every time, since nothing records what they look for.*)
(***************************************************************************)
EXTENDS Sequences, SequencesExt, TLC

NoFutures == [t \in {} |-> 0]

Act(op, name, future, known) ==
  [op |-> op, name |-> name, future |-> future, known |-> known]

\* deployments.deploy of a plain contract, of an implementation, and of a proxy
\* with its implementation.
Contract(name, future, known) == Act("contract", name, future, known)
Implementation(name) == Contract(name, {}, {})
Proxy(name, implementation, future, known) ==
  <<Implementation(implementation), Act("proxy", name, future, known)>>

\* The comparisons a script makes.
AddressHolds(name) == Act("addressHolds", name, {}, {})
RefersTo(name, other) == Act("refersTo", name, {}, {other})

Script(futures, steps, skip) == [futures |-> futures, steps |-> steps, skip |-> skip]

Skipped == Script(NoFutures, <<>>, {})
Implementations(names) ==
  Script(NoFutures, [i \in DOMAIN names |-> Implementation(names[i])], ToSet(names))

-----------------------------------------------------------------------------

\* 01
WithdrawStub ==
  Script(NoFutures, Proxy("Withdraw", "WithdrawV1_Implementation_0_2_2", {}, {}),
         {"Withdraw"})

\* 02
AllowlistSteps ==
  <<Contract("AllowlistFirewall", {"Allowlist"}, {})>>
    \o Proxy("Allowlist", "AllowlistV1_Implementation_0_2_2", {}, {"AllowlistFirewall"})
    \o <<AddressHolds("Allowlist")>>
AllowlistSkip == {"Allowlist"}

\* 03
CoreFutures ==
  "ELFeeRecipient" :> 10 @@ "OperatorsRegistry" :> 8 @@ "Oracle" :> 5 @@ "River" :> 2
RiverSteps ==
  <<Contract("RiverFirewall", {"River"}, {})>>
    \o Proxy("River", "RiverV1_Implementation_0_2_2",
             {"ELFeeRecipient", "Oracle", "OperatorsRegistry"}, {"RiverFirewall", "Allowlist"})
OracleSteps ==
  <<Contract("OracleFirewall", {"Oracle"}, {})>>
    \o Proxy("Oracle", "OracleV1_Implementation_0_2_2", {}, {"River", "OracleFirewall"})
OperatorsRegistrySteps ==
  <<Contract("OperatorsRegistryFirewall", {"OperatorsRegistry"}, {})>>
    \o Proxy("OperatorsRegistry", "OperatorsRegistryV1_Implementation_0_2_2",
             {"River"}, {"OperatorsRegistryFirewall"})
ELFeeRecipientSteps ==
  Proxy("ELFeeRecipient", "ELFeeRecipientV1_Implementation_0_2_2", {}, {"River"})
CoreComparisons ==
  <<AddressHolds("River"), AddressHolds("Oracle"), AddressHolds("ELFeeRecipient"),
    AddressHolds("OperatorsRegistry"), RefersTo("River", "Oracle"),
    RefersTo("Oracle", "River")>>
CoreSkip == {"River", "Oracle", "OperatorsRegistry", "ELFeeRecipient"}

\* 06
ProxyFirewalls ==
  Script(NoFutures,
         <<Contract("RiverProxyFirewall", {}, {"River"}),
           Contract("OracleProxyFirewall", {}, {"Oracle"}),
           Contract("OperatorsRegistryProxyFirewall", {}, {"OperatorsRegistry"}),
           Contract("AllowlistProxyFirewall", {}, {"Allowlist"})>>,
         {"RiverProxyFirewall", "OracleProxyFirewall",
          "OperatorsRegistryProxyFirewall", "AllowlistProxyFirewall"})

\* 07
TLCSteps ==
  <<Contract("TLCProxyFirewall", {"TLC"}, {})>>
    \o Proxy("TLC", "TLCV1_Implementation_0_4_0", {}, {"TLCProxyFirewall"})
    \o <<AddressHolds("TLC")>>
TLCSkip == {"TLC"}

\* 08
CoverageFundScript ==
  Script(NoFutures,
         Proxy("CoverageFund", "CoverageFundV1_Implementation_0_5_0", {}, {"River"}),
         {"CoverageFund"})

\* 09
Implementations_0_5_0 ==
  Implementations(<<"AllowlistV1_Implementation_0_5_0", "RiverV1_Implementation_0_5_0",
                    "TLCV1_Implementation_0_5_0">>)

\* 10: the redeem manager, then the implementations of 1.0.0.
RedeemManagerSteps ==
  <<Contract("RedeemManagerProxyFirewall", {"RedeemManager"}, {})>>
    \o Proxy("RedeemManager", "RedeemManagerV1_Implementation_1_0_0", {},
             {"RedeemManagerProxyFirewall", "River"})
    \o <<AddressHolds("RedeemManager")>>
Implementations_1_0_0 ==
  Implementations(<<"ELFeeRecipientV1_Implementation_1_0_0",
                    "OperatorsRegistryV1_Implementation_1_0_0",
                    "OracleV1_Implementation_1_0_0", "RiverV1_Implementation_1_0_0",
                    "WithdrawV1_Implementation_1_0_0", "TLCV1_Implementation_1_0_0">>)
RedeemManagerSkip ==
  Implementations_1_0_0.skip \cup {"RedeemManagerV1_Implementation_1_0_0"}

\* 11 and 13
Upgrade_1_0_1 ==
  Script(NoFutures, <<>>,
         {"OperatorsRegistryV1_Implementation_1_0_1", "RiverV1_Implementation_1_0_1"})
Upgrade_1_1_1 == Script(NoFutures, <<>>, {"AllowlistV1_Implementation_1_1_1"})

\* 12
Implementations_1_1_0 ==
  Implementations(<<"TLCV1_Implementation_1_1_0", "TLC_GlobalUnlockSchedule_Migration",
                    "OperatorsRegistryV1_Implementation_1_1_0",
                    "RedeemManagerV1_Implementation_1_1_0">>)

\* 14
ProtocolMetricsScript ==
  Script(NoFutures,
         Proxy("ProtocolMetrics", "ProtocolMetricsV1_Implementation", {}, {"River"}),
         {"ProtocolMetrics"})

\* 15
TLCMigration2024 ==
  Script(NoFutures, <<Implementation("TLC_GlobalUnlockSchedule_Migration_2")>>,
         {"TLCV1_Implementation_1_1_0", "TLC_GlobalUnlockSchedule_Migration_2"})

\* 16
Implementations_1_2_1 ==
  Implementations(<<"AllowlistV1_Implementation_1_2_1", "CoverageFundV1_Implementation_1_2_1",
                    "ELFeeRecipientV1_Implementation_1_2_1",
                    "OperatorsRegistryV1_Implementation_1_2_1",
                    "OracleV1_Implementation_1_2_1", "RedeemManagerV1_Implementation_1_2_1",
                    "RiverV1_Implementation_1_2_1", "WithdrawV1_Implementation_1_2_1">>)

\* 17
TLCMigration2025 == Implementations(<<"TLC_GlobalUnlockSchedule_Migration_2025">>)

AllScripts ==
  <<WithdrawStub,
    Script("Allowlist" :> 2, AllowlistSteps, AllowlistSkip),
    Script(CoreFutures,
           RiverSteps \o OracleSteps \o OperatorsRegistrySteps \o ELFeeRecipientSteps
             \o CoreComparisons,
           CoreSkip),
    Skipped, Skipped,
    ProxyFirewalls,
    Script("TLC" :> 2, TLCSteps, TLCSkip),
    CoverageFundScript,
    Implementations_0_5_0,
    Script("RedeemManager" :> 2, RedeemManagerSteps \o Implementations_1_0_0.steps,
           RedeemManagerSkip),
    Upgrade_1_0_1, Implementations_1_1_0, Upgrade_1_1_1, ProtocolMetricsScript,
    TLCMigration2024, Implementations_1_2_1, TLCMigration2025>>
=============================================================================
