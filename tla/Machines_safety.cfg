\* Two machines that die three times; two groups of two slots, three processes.
SPECIFICATION MCSpec
CONSTANTS
  PARTS = {"detector", "groups"}
  NrMachines = 2
  MaxSkew = 1
  QuickReboot = FALSE
  MaxCrashes = 3
  Panics = TRUE
  MaxGen = 12
  NrHosts = 2
  MAX_GROUP_NUM = 2
  MAX_PROC_PER_GROUP = 2
  Tasks <- TwoAndOne
  Address <- Shared
  LocalId <- Ids
  ProcIds = 2
  Rules <- AllRules
  MaxDeaths = 2
INVARIANTS
  TypesOK
  OwnGenerationCurrent
  NoticedInTime
  SlotsWhole
  NoDuplicateMember
  MembersAlive
  BootsNotStuck
PROPERTIES
  Accurate
  NewsAreFailures
CHECK_DEADLOCK FALSE
