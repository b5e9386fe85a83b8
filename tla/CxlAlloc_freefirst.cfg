SPECIFICATION Spec
CONSTANTS
  Machines = {m1, m2}
  Ids = {1, 2}
  NumBlocks = 2
  NUM_OBJ_SLOTS = 3
  REDOLOG_ENTRIES = 6
  FreeWhere <- FirstPlace
  MaxCrashes = 0
INVARIANTS
  NoBug
