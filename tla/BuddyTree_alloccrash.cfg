SPECIFICATION BuddySpec
CONSTANTS
  Order = 3
  MemSize = 4
  CrashPoints <- InAllocChain
  MaxDeaths = 1
INVARIANTS
  MarkOnlyFree
