\* Fair schedules: two heads, no resubmission, a contract change, one fault.
SPECIFICATION FairSpec
CONSTANTS
    h1 = h1
    h2 = h2
    h3 = h3
    ann = ann
    bob = bob
    NoHead = NoHead
    Heads <- TwoHeads
    Metric <- MCMetric
    Author <- MCAuthor
    Commit <- MCCommit
    Epoch <- FirstEpoch
    Contracts <- TwoContracts
    MaxInflight = 2
    QueueCap = 2
    Resubmittable <- NoHeads
    ClockRollback = FALSE
    MaxClock = 3
    MaxVersion = 3
    MaxFaults = 1
INVARIANTS
    ReceiptHasReport
PROPERTIES
    AdmittedIsDecided
    MainFollowsBest
\* The service rests once every head is decided, every bound is used up.
CHECK_DEADLOCK FALSE
