SPECIFICATION Spec
CONSTANTS
    Apps = {a}
    Kinds <- OneKind
    MaxUpdates = 2
    MaxCrashes = 1
    Happens = {"Crash", "Leave", "Failed"}
PROPERTIES KeepsPromise
