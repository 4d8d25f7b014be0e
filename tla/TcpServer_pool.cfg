CONSTANTS
    Devices = {d1, d2}
    Conns = {c1, c2, c3}
    MaxConnections = 2
    MaxDrops = 1
    MaxSwitch = 1
    MayDrain = TRUE
    None = None
SPECIFICATION FairSpec
INVARIANT RegisteredIsAuthenticated
INVARIANT RegistryIsRightIfQuiet
PROPERTY EventuallyOnline
PROPERTY DrainCompletes
CHECK_DEADLOCK FALSE
