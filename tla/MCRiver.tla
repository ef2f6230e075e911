------------------------------- MODULE MCRiver -------------------------------
(* An instance of River for TLC.                                           *)
EXTENDS River, TLC

\* An epoch may bring as much again as there is, and take half of it away; or
\* it may bring and take nothing.
Wide == [annualAprUpperBound |-> 2, relativeLowerBound |-> 1]
Narrow == [annualAprUpperBound |-> 0, relativeLowerBound |-> 0]

\* Every fund filled or not, fees and bounds that change, no validator exiting.
Funds ==
  [fees |-> {0, 1}, bounds |-> {Wide, Narrow},
   dailyLimits |-> {[minDailyNet |-> 3, maxDailyRelative |-> 0]},
   transfers |-> {}, sweeps |-> {1}, elFees |-> {1}, donations |-> {1}, excesses |-> {1},
   balances |-> {0, 2}, exiting |-> {0}, skims |-> {0, 1}, exits |-> {0},
   maxEth |-> 3, maxFund |-> 1, maxEpoch |-> 2]

\* Rewards of validators and of the fee recipient, report after report.
RewardsOnly ==
  [Funds EXCEPT !.fees = {1}, !.bounds = {Wide}, !.donations = {},
                !.maxEpoch = 3]

\* Validators at every stage of an exit, limits that change, no fund but what
\* is swept.
Exits ==
  [fees |-> {1}, bounds |-> {Wide},
   dailyLimits |-> {[minDailyNet |-> 2, maxDailyRelative |-> 0],
                    [minDailyNet |-> 0, maxDailyRelative |-> 2]},
   transfers |-> {2}, sweeps |-> {2}, elFees |-> {}, donations |-> {}, excesses |-> {},
   balances |-> {0, 2, 3}, exiting |-> {0, 2}, skims |-> {0}, exits |-> {0, 2},
   maxEth |-> 5, maxFund |-> 2, maxEpoch |-> 3]

AllWorlds == {Funds, RewardsOnly, Exits}

=============================================================================
