SPECIFICATION Spec
CONSTANTS
    Apps = {a, b}
    Kinds <- TwoKinds
    MaxUpdates = 2
    MaxCrashes = 2
    Happens = {"Refused", "Leave", "Crash", "Bundles"}
INVARIANTS TypeOK ListShape LogIsFaithful NothingLeftBehind
PROPERTIES KeepsPromise
