SPECIFICATION Spec
CONSTANTS
    s1 = s1
    v1 = v1
    v2 = v2
    Subs <- MCSubs
    Commit <- MCCommit
    Epoch <- MCEpoch
    Archives <- MCArchives
    NoArchive = NoArchive
    Savers <- MCSavers
    Runs = {v1, v2}
    NoRun = NoRun
    Contracts <- MCContracts
    MaxFaults = 1
INVARIANTS
    TypeOK
    SidecarHasObject
    SavedIsDurable
    OneVerification
    VerdictLeavesNoService
    AdmittedIsTagged
    CandidateIsRetained
    ArchiveIsOfRow
    VerdictIsEarned
PROPERTIES
    ImplementsBinding
CHECK_DEADLOCK FALSE
