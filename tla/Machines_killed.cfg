\* The process groups; a process is killed by a signal.
SPECIFICATION MCSpec
CONSTANTS
  PARTS = {"groups"}
  NrMachines = 2
  MaxSkew = 1
  QuickReboot = FALSE
  MaxCrashes = 3
  Panics = TRUE
  MaxGen = 12
  NrHosts = 2
  MAX_GROUP_NUM = 2
  MAX_PROC_PER_GROUP = 2
  Tasks <- TwoAndOne
  Address <- Shared
  LocalId <- Ids
  ProcIds = 2
  Rules <- AllRules
  MaxDeaths = 2
INVARIANTS
  FailuresRemoved
CHECK_DEADLOCK FALSE
