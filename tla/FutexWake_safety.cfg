SPECIFICATION Spec
CONSTANTS
  Callers <- Everyone
  Identity <- DifferentCpus
  CQUEUE_SIZE = 3
  Entries = {o1, o2}
  Remote = {s1}
  Local = {cpu}
  Handlers = {cpu}
  WakeType <- AllKinds
  Threads = {t1, t2}
  Coalesced = FALSE
  MaxChanges = 3
  MaxCrashes = 1
INVARIANTS
  QueueTypeOK
  QueueExclusive
  NoMissedWake
  BucketTrue
PROPERTIES
  AtomicQueue
SYMMETRY Symmetry
CHECK_DEADLOCK FALSE
