SPECIFICATION Spec
CONSTANTS
    a = a
    b = b
    fE = fE
    fD = fD
    fC = fC
    english = english
    finnish = finnish
    NoFile = NoFile
    Off = Off
    Null = Null
    Dangling = Dangling
    Files <- MCFiles
    UidOf <- MCUidOf
    Dirs <- MCDirs
    Removable <- MCRemovable
    Stamps = {1}
    Languages = {english, finnish}
    iLoadMbmIconsOnDemand = FALSE
    Happens = {"Language", "RestartScan", "FindSpecific", "StartFails", "NextFails", "NewFails", "SuccessorFails", "StoreFails", "RestoreFails", "PurgeFails", "LoaderFails"}
    MaxChanges = 1
    MaxCrashes = 1
INVARIANTS OneElementEach
PROPERTIES PopulationReportedOnce
SYMMETRY MCLanguages
CHECK_DEADLOCK FALSE
