CONSTANTS
    Devices = {d1, d2}
    Kept = 1
    MaxReport = 2
    MaxAlert = 1
    MaxDrop = 1
    MaxList = 2
    Groups = {g1, g2}
    MaxRequest = 1
    MaxOther = 1
SPECIFICATION PartSpec
SYMMETRY Symmetry
INVARIANT BehindIsExcused
INVARIANT TreeIsSound
INVARIANT LoneMoveIsTrue
CHECK_DEADLOCK FALSE
