SPECIFICATION Spec
CONSTANTS
    a = a
    b = b
    fE = fE
    fD = fD
    fC = fC
    english = english
    finnish = finnish
    NoFile = NoFile
    Off = Off
    Null = Null
    Dangling = Dangling
    Files <- MCFiles
    UidOf <- MCUidOf
    Dirs <- MCDirs
    Removable <- MCRemovable
    Stamps = {1}
    Languages = {english}
    iLoadMbmIconsOnDemand = TRUE
    Happens = {"Spurious", "StopScan", "FindSpecific"}
    MaxChanges = 3
    MaxCrashes = 2
INVARIANTS TypeOK OneElementEach ListIsCurrent CacheIsCurrent OneCopy BackupOnlyWhileWorking ChangesAreTold FirstValid
PROPERTIES NothingPresentIsRemoved
CHECK_DEADLOCK FALSE
