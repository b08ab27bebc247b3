SPECIFICATION Spec
CONSTANTS
    a = a
    b = b
    fE = fE
    fD = fD
    fC = fC
    english = english
    finnish = finnish
    NoFile = NoFile
    Off = Off
    Null = Null
    Dangling = Dangling
    Files <- MCFiles
    UidOf <- MCShadowUidOf
    Dirs <- MCDirs
    Removable <- MCRemovable
    Stamps = {1}
    Languages = {english}
    iLoadMbmIconsOnDemand = TRUE
    Happens = {}
    MaxChanges = 2
    MaxCrashes = 1
PROPERTY NothingPresentIsRemoved
CHECK_DEADLOCK FALSE
