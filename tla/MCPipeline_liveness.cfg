SPECIFICATION FairSpec
CONSTANTS
    s1 = s1
    v1 = v1
    v2 = v2
    Subs <- MCSubs
    Commit <- MCCommit
    Epoch <- MCEpoch
    Archives <- MCArchive1
    NoArchive = NoArchive
    Savers <- MCSavers
    Runs = {v1, v2}
    NoRun = NoRun
    Contracts <- MCContract
    MaxFaults = 1
PROPERTIES
    EveryRunEnds
CHECK_DEADLOCK FALSE
