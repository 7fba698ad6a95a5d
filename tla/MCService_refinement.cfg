\* Three heads, two of them copies of a commit, against caps of one and two;
\* a contract change, resubmissions and one fault.
SPECIFICATION Spec
CONSTANTS
    h1 = h1
    h2 = h2
    h3 = h3
    ann = ann
    bob = bob
    NoHead = NoHead
    Heads <- ThreeHeads
    Metric <- MCMetric
    Author <- MCAuthor
    Commit <- MCCommit
    Epoch <- FirstEpoch
    Contracts <- TwoContracts
    MaxInflight = 1
    QueueCap = 2
    Resubmittable <- ThreeHeads
    ClockRollback = FALSE
    MaxClock = 4
    MaxVersion = 3
    MaxFaults = 1
INVARIANTS
    TypeOK
    RecordsReplayable
    OneUndecided
    CapsRespected
    NoDuplicateCommit
    RegistryNamesResult
    SnapshotCallsInOrder
    RegistryLeads
    SnapshotFlagIsTrue
PROPERTIES
    VerdictsAreFinal
    ImplementsCompetition
\* The service rests once every head is decided, every bound is used up.
CHECK_DEADLOCK FALSE
