\* Two heads, the first resubmitted, a contract change, two faults: crashes,
\* failed or lost calls, interrupted restores and the loss of the host.
SPECIFICATION RebuildSpec
CONSTANTS
    h1 = h1
    h2 = h2
    h3 = h3
    ann = ann
    bob = bob
    NoHead = NoHead
    Heads <- TwoHeads
    Metric <- MCMetric
    Author <- MCAuthor
    Commit <- MCCommit
    Epoch <- FirstEpoch
    Contracts <- TwoContracts
    MaxInflight = 2
    QueueCap = 2
    Resubmittable <- OneHead
    ClockRollback = FALSE
    MaxClock = 4
    MaxVersion = 3
    StartsEarly = FALSE
    MaxFaults = 2
INVARIANTS
    NoProofBeforeReceipt
    VerdictIsDurable
    VerdictHasReport
    MainIsDurable
    VerdictsPreserved
    
\* The service rests once every head is decided, every bound is used up.
CHECK_DEADLOCK FALSE
