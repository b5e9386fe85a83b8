\* A process that opens the file of a device that is being probed.
SPECIFICATION DeviceSpec
CONSTANTS
    PARTS = {"driver"}
    c1 = c1
    c2 = c2
    c3 = c3
    vm_offset = FALSE
    d1 = d1
    d2 = d2
    d3 = d3
    DEVICES = {d1, d2, d3}
    PROCS = {p1, p2}
    g_max_devices = 2
    IVPOSITION <- Positions
    VCXL_MAX_SUPPORTED_MACHINES = 3
    null = null
INVARIANTS
    NoBugOnStrikes
CHECK_DEADLOCK FALSE
