\* A failed head is submitted again while a report of its failure is delivered.
SPECIFICATION Spec
CONSTANTS
    h1 = h1
    h2 = h2
    h3 = h3
    ann = ann
    bob = bob
    NoHead = NoHead
    Heads <- OneHead
    Metric <- MCMetric
    Author <- MCAuthor
    Commit <- MCCommit
    Epoch <- FirstEpoch
    Contracts <- OneContract
    MaxInflight = 2
    QueueCap = 2
    Resubmittable <- OneHead
    ClockRollback = FALSE
    MaxClock = 4
    MaxVersion = 3
    MaxFaults = 1
INVARIANTS
    ReceiptHasReport
\* The service rests once every head is decided, every bound is used up.
CHECK_DEADLOCK FALSE
