\* Every lock of the benchmark: two threads in the tree of JJLock, three
\* elsewhere; two passages each, or one where a fault is possible.
\* Three connections to two listening sockets; three devices for two slots, and
\* two processes; three starts of the ping-pong.
SPECIFICATION MCSpec
CONSTANTS
    THREADS = {0, 1}
    QUEUED = {0, 1, 2}
    LOCK_NUM = 2
    MaxFaults = 1
    ALGOS = {"jj", "jj_crash", "jj_32port", "qspin", "osq", "rmcs", "ttas", "lpttas"}
    PARTS = {"hosts", "vectors", "driver", "pingpong"}
    c1 = c1
    c2 = c2
    c3 = c3
    vm_offset = FALSE
    d1 = d1
    d2 = d2
    d3 = d3
    DEVICES = {d1, d2, d3}
    PROCS = {p1, p2}
    g_max_devices = 2
    IVPOSITION <- Positions
    VCXL_MAX_SUPPORTED_MACHINES = 3
    null = null
INVARIANTS
    Exclusion
    JJRequestVisible
    PeersAgree
    DevicesWhole
PROPERTIES
    PassagesEnd
    NotificationsHandled
    RoundTripsEnd
CHECK_DEADLOCK FALSE
