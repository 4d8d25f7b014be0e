CONSTANTS
    Douts = {1}
    MaxRequest = 3
    MaxFaults = 1
    MaxDeclined = 1
    None = None
    MaxCommand = 3
    MaxClose = 2
SPECIFICATION PartSpec
INVARIANT RowIsTrue
INVARIANT LogIsTrue
INVARIANT RepliesReachCallers
PROPERTY RequestsEnd
PROPERTY EverySettles
CHECK_DEADLOCK FALSE
