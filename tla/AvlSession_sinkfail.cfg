CONSTANTS
    Devices = {d1}
    Nodes = {n1}
    Conns = {c1}
    Targets = {wal}
    Pipelined = {}
    MaxRecord = 2
    MaxPacket = 2
    Window = 2
    MaxFaults = 2
    SharedDeduper = FALSE
    LinksMayDrop = FALSE
    BackendMayFail = TRUE
    NodesMayExit = FALSE
    TtlMayLapse = FALSE
    None = None
SPECIFICATION Spec
SYMMETRY Symmetry
INVARIANT AckedIsHeld
CHECK_DEADLOCK FALSE
