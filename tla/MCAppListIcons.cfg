SPECIFICATION FairSpec
CONSTANTS
    a = a
    b = b
    fE = fE
    fD = fD
    fC = fC
    english = english
    finnish = finnish
    NoFile = NoFile
    Off = Off
    Null = Null
    Dangling = Dangling
    Files <- MCFiles
    UidOf <- MCUidOf
    Dirs <- MCDirs
    Removable <- MCRemovable
    Stamps = {1}
    Languages = {english, finnish}
    iLoadMbmIconsOnDemand = FALSE
    Happens = {"Spurious", "Language", "Coalesced", "StopScan", "FindSpecific"}
    MaxChanges = 2
    MaxCrashes = 1
INVARIANTS ListIsCurrent CacheIsCurrent WorkersFollowList StoredAtRest
PROPERTIES ComesToRest
CHECK_DEADLOCK FALSE
