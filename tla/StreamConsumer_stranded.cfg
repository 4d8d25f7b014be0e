CONSTANTS
    Devices = {d1}
    Replicas = {c1}
    Count = 2
    MaxEntries = 3
    MaxTs = 2
    MaxUpsets = 1
    MayWarm = FALSE
    None = None
SPECIFICATION Spec
SYMMETRY Symmetry
INVARIANT NothingStranded
CHECK_DEADLOCK FALSE
