SPECIFICATION Spec
CONSTANTS
    Apps = {a}
    Kinds <- TwoKinds
    MaxUpdates = 2
    MaxCrashes = 2
    Happens = {"LogFull", "Crash", "Bundles", "Misnoted", "Unlogged", "Unperformed", "Failed", "Unended",
               "Undeleted", "Unrestored", "Unreplayed"}
PROPERTIES Settles
