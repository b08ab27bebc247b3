CONSTANTS
    Locs = {resource, import, sysdrive}
    resource = resource
    import = import
    sysdrive = sysdrive
    Flaky = {sysdrive}
    Pause = 1
    Period = 3
SPECIFICATION FairSpec
INVARIANTS TypeOK NoLostChange TimerArmed
PROPERTIES KeepsPromise ChangeReachesCallBack
