\* Redo log: operations of one to three entries on two locations, two deaths.
\* Buddy tree: eight blocks, the last of them masked; one death anywhere.  The
\* other parts are sized in MCAllocator.
SPECIFICATION MCSpec
CONSTANTS
  Machines = {m1, m2}
  Loc = {"x", "y"}
  Val = {0, 1}
  Plans <- MCPlans
  REDOLOG_ENTRIES = 4
  MaxCrashes = 2
  Order = 4
  MemSize = 7
  CrashPoints <- Anywhere
  MaxDeaths = 1
INVARIANTS
  TypesOK
  BlocksDisjoint
  TreeConsistent
  SearchesExact
  LeavesExact
  ArenaExact
  QuiescentView
  MetadataConsistent
  NoBug
PROPERTIES
  AtomicOperations
  CommittedIsExecuted
  ImplementsRedoLog
