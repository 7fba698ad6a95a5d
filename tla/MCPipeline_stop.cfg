SPECIFICATION Spec
CONSTANTS
    s1 = s1
    v1 = v1
    v2 = v2
    Subs <- MCSubs
    Commit <- MCCommit
    Epoch <- MCEpoch
    Archives <- MCArchives
    NoArchive = NoArchive
    Savers <- MCSavers
    Runs = {v1, v2}
    NoRun = NoRun
    Contracts <- MCContracts
    MaxFaults = 1
INVARIANTS
    TimedOutRunIsGone
CHECK_DEADLOCK FALSE
