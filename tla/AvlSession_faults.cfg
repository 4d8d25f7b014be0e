CONSTANTS
    Devices = {d1}
    Nodes = {n1, n2}
    Conns = {c1, c2}
    Targets = {wal, bus}
    Pipelined = {bus}
    MaxRecord = 2
    MaxPacket = 2
    Window = 2
    MaxFaults = 2
    SharedDeduper = TRUE
    LinksMayDrop = TRUE
    BackendMayFail = TRUE
    NodesMayExit = TRUE
    TtlMayLapse = FALSE
    None = None
SPECIFICATION Spec
SYMMETRY Symmetry
INVARIANT AckedIsAccounted
INVARIANT StoredOnce
INVARIANT AcksMatchPackets
CHECK_DEADLOCK FALSE
