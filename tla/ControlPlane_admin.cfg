CONSTANTS
    Imeis = {i1, i2}
    Rows = {u1, u2, u3}
    Requests = {c1, c2}
    Quota = 1
    MaxAborts = 1
    None = None
    Two = {c1, c2}
    One = {e1}
    AllowTtl = 2
    MaxAllowTime = 5
    MaxSwitch = 2
    MaxValue = 2
    PositiveTtl = 2
    NegativeTtl = 1
    CacheTtl = 2
    MaxLatency = 1
    MaxHold = 1
    MaxBatch = 2
    MaxTime = 6
    MaxToggle = 2
    MaxSecret = 2
    MaxMove = 6
    Tenants = {c1, c2}
    Units = {u1, u2, u3}
    Users = {c1, c2}
    Devices = {c1, c2}
    Emails = {m1, m2}
    Times = {1, 2}
    Values = {1, 2}
    Types = {1, 2}
    MaxRows = 3
    MaxOp = 5
    MaxCall = 3
    MaxPut = 3
    MaxAlert = 1
    Retries = 3
    MaxFile = 3
    MaxStart = 3
    MaxFault = 2
SPECIFICATION PartSpec
SYMMETRY Symmetry
INVARIANT RegistrySurvivesRaces
INVARIANT OneLiveRowPerImei
INVARIANT LookupsAreRecent
INVARIANT EnabledIsProved
INVARIANT LoneMovesKeepForest
INVARIANT DeploysAreSafe
PROPERTY CachesForget
PROPERTY MirrorsPostgres
PROPERTY SecretIsStable
CHECK_DEADLOCK FALSE
