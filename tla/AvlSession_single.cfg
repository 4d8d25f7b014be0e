CONSTANTS
    Devices = {d1}
    Nodes = {n1}
    Conns = {c1}
    Targets = {wal, bus}
    Pipelined = {bus}
    MaxRecord = 2
    MaxPacket = 2
    Window = 2
    MaxFaults = 3
    SharedDeduper = FALSE
    LinksMayDrop = TRUE
    BackendMayFail = FALSE
    NodesMayExit = TRUE
    TtlMayLapse = TRUE
    None = None
SPECIFICATION FairSpec
PROPERTY HandsOver
PROPERTY EventuallyKept
CHECK_DEADLOCK FALSE
