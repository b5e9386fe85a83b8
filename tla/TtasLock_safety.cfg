\* Two machines with two CPUs each; every CPU works and detects, so all of them
\* may spin on the lock at once.
SPECIFICATION FairSpec
CONSTANTS
  NrMachines = 2
  NrCpus = 2
  Workers <- AllWorkers
  FalseSuspicion = FALSE
  MaxCrashes = 2
  MaxGen = 4
INVARIANTS
  LockInv
  MutualExclusion
  NoStaleReentry
  ReplayBeforeUse
PROPERTIES
  ImplementsRecoverableLock
  AbandonedLockRecovered
  SurvivorsHelp
