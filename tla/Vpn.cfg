CONSTANTS
    None = None
    Profiles <- MCProfiles
    AutoPref = TRUE
    MaxQueued = 1
    LadderSize = 1
    RegionPref = FALSE
    MaxStops = 1
SPECIFICATION FairSpec
INVARIANTS
  TypeOK
  NoBlackHole
  LookedAfter
  NewestIsHeard
PROPERTIES
  NewestSurvives
  DropComesBack
