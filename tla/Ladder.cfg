CONSTANTS
    None = None
    Profiles <- MCPsiphon
    AutoPref = FALSE
    MaxQueued = 1
    LadderSize = 2
    RegionPref = TRUE
    MaxStops = 1
SPECIFICATION FairLadderSpec
PROPERTIES
  EveryRungHasATurn
  Decided
