CONSTANTS
    Devices = {d1, d2}
    InactiveAfter = 0
    MaxReport = 2
    MaxList = 1
    MaxToggle = 1
    MaxFence = 1
    MaxTime = 1
    Tabs = {t1, t2}
    Requests = {a1, a2, a3}
    TabOf <- MCTabOf
    t1 = t1
    t2 = t2
    a1 = a1
    a2 = a2
    a3 = a3
    MaxToken = 3
    MaxChain = 2
    MaxCall = 2
    MaxExpiry = 1
    MaxBlip = 1
    MaxSwitch = 1
    Vehicles = {v1, v2}
    NewVehicles = {v2}
    MaxPageRequest = 1
    MaxSave = 3
    MaxShape = 2
    MaxMove = 1
    Profiles = {p1, p2}
    MaxValue = 1
    MaxPanelRequest = 3
    MaxOther = 1
    MaxCut = 1
SPECIFICATION PartSpec
INVARIANT TokensAreSpentOnce
INVARIANT ViewIsSound
INVARIANT DrawnIsKept
INVARIANT FormIsHeld
PROPERTY EndedStaysEnded
PROPERTY MarkersFollow
CHECK_DEADLOCK FALSE
