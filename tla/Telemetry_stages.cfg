CONSTANTS
    Devices = {d1}
    Replicas = {c1, c2}
    Count = 2
    MaxEntries = 3
    MaxTs = 2
    MaxUpsets = 1
    MayWarm = TRUE
    None = None
    f1 = f1
    f2 = f2
    Fences = {f1, f2}
    Inputs <- MCInputs
    MoveSpeed = 5
    StopSpeed = 3
    StopMin = 2
    MaxPosition = 4
    Handlers = {h1, h2}
    MaxRecord = 2
    MaxPacket = 2
    MaxId = 3
    MaxSwitch = 1
    MaxFaults = 2
    BackendMayFail = TRUE
    NodeMayExit = TRUE
    SharedDeduper = TRUE
SPECIFICATION PartSpec
INVARIANT StoredBeforeShown
INVARIANT EvaluatedOnce
INVARIANT AlertsAreEdges
INVARIANT TripsAreJourneys
INVARIANT UdpStoresOnce
PROPERTY StreamEventuallyStored
PROPERTY OfflineIsFlagged
PROPERTY UdpEventuallyFreed
CHECK_DEADLOCK FALSE
