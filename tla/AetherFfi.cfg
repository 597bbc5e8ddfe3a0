CONSTANTS
    Starters = {w, c}
    Stoppers = {m, n}
    w = w
    c = c
    m = m
    n = n
SPECIFICATION FairSpec
INVARIANTS
    TypeOK
    OneRun
    NoTaskOutlivesItsRun
    ReadyHasARun
    NoStaleStop
PROPERTIES
    StopIsHeard
