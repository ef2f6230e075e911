SPECIFICATION FairSpec
CONSTANTS
  Scripts <- DevHoodiScripts
  MaxCrashes = 3
  MaxReadFailures = 2
INVARIANT DeployedIsInitialised
INVARIANT VerifiedIsComplete
PROPERTY EventuallyDeployed
PROPERTY EventuallyVerified
PROPERTY LifecycleSpec
