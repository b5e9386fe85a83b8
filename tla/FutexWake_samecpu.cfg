SPECIFICATION Spec
CONSTANTS
  Callers <- Everyone
  Identity <- SameCpu
  CQUEUE_SIZE = 3
  Entries = {o1, o2}
  Remote = {s1, s2}
  Local = {cpu}
  Handlers = {cpu}
  WakeType <- AllKinds
  Threads = {t1, t2}
  Coalesced = FALSE
  MaxChanges = 2
  MaxCrashes = 1
PROPERTIES
  AtomicQueue
CHECK_DEADLOCK FALSE
