CONSTANTS
    None = None
    Profiles <- MCNative
    AutoPref = TRUE
    MaxQueued = 2
    LadderSize = 1
    RegionPref = FALSE
    MaxStops = 1
SPECIFICATION FairSpec
PROPERTY OffStaysOff
