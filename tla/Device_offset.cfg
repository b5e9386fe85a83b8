\* Ids with an offset, as vm_lib starts the server.
SPECIFICATION DeviceSpec
CONSTANTS
    PARTS = {"hosts"}
    c1 = c1
    c2 = c2
    c3 = c3
    vm_offset = TRUE
    d1 = d1
    d2 = d2
    d3 = d3
    DEVICES = {d1, d2, d3}
    PROCS = {p1, p2}
    g_max_devices = 2
    IVPOSITION <- Positions
    VCXL_MAX_SUPPORTED_MACHINES = 3
    null = null
INVARIANTS
    PeersAgree
CHECK_DEADLOCK FALSE
