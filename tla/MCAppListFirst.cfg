SPECIFICATION Spec
CONSTANTS
    a = a
    b = b
    fE = fE
    fD = fD
    fC = fC
    english = english
    finnish = finnish
    NoFile = NoFile
    Off = Off
    Null = Null
    Dangling = Dangling
    Files <- MCFiles
    UidOf <- MCUidOf
    Dirs <- MCDirs
    Removable <- MCRemovable
    Stamps = {1}
    Languages = {english}
    iLoadMbmIconsOnDemand = FALSE
    Happens = {}
    MaxChanges = 3
    MaxCrashes = 0
INVARIANT FirstValid
CHECK_DEADLOCK FALSE
