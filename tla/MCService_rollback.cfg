\* The clock steps back between an admission and the completion of its proof.
SPECIFICATION Spec
CONSTANTS
    h1 = h1
    h2 = h2
    h3 = h3
    ann = ann
    bob = bob
    NoHead = NoHead
    Heads <- OneHead
    Metric <- MCMetric
    Author <- MCAuthor
    Commit <- MCCommit
    Epoch <- FirstEpoch
    Contracts <- OneContract
    MaxInflight = 2
    QueueCap = 2
    Resubmittable <- OneHead
    ClockRollback = TRUE
    MaxClock = 4
    MaxVersion = 3
    MaxFaults = 1
PROPERTIES
    ReceiptNeverErasesVerdict
\* The service rests once every head is decided, every bound is used up.
CHECK_DEADLOCK FALSE
