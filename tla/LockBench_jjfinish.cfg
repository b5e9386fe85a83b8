\* Two threads, one passage each, nobody crashes.
CONSTANTS
    THREADS = {0, 1}
    QUEUED = {0, 1}
    LOCK_NUM = 1
    MaxFaults = 0
    ALGOS = {"jj"}
SPECIFICATION LocksSpec
PROPERTIES
    TestFinishes
CHECK_DEADLOCK FALSE
