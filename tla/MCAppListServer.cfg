CONSTANTS
    Locs = {import}
    import = import
    Sessions = {s1, s2}
    s1 = s1
    s2 = s2
    Watchers = {s1}
    iLoadMbmIconsOnDemand = FALSE
    MaxDisturbances = 3
SPECIFICATION FairSpec
INVARIANTS TypeOK WaitersAreServed BlockedForAReason AtOnceMeansCurrent NotifiedOfChanges
PROPERTY Settles
CHECK_DEADLOCK FALSE
