CONSTANTS
    f1 = f1
    f2 = f2
    g = g
    d = d
    e = e
    s1 = s1
    Null = Null
    Files = {f1, f2, g}
    Directories = {d, e}
    DirectoryOf <- MCDirectoryOf
    Volatile = {f1}
    Sessions = {s1}
    KMaxNumberOfEntries = 1
    MaxRequests = 3
    MaxDisturbances = 2
SPECIFICATION FairSpec
INVARIANTS TypeOK ResultsAreTrue CacheFollowsPlugIns LoadedWhileUsed CacheIsBounded WaitersAreAnswered
PROPERTY Settles
CHECK_DEADLOCK FALSE
