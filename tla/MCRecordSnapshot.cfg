\* Three results, two contracts, two pushes of others, two faults.
SPECIFICATION FairSpec
CONSTANTS
    NoResult = NoResult
    Results <- MCResults
    Contracts <- MCContracts
    MaxAttempts = 3
    MaxPushes = 2
    MaxFaults = 2
INVARIANTS
    SnapshotTypeOK
    ConfirmedIsSettled
PROPERTIES
    ImplementsRegistry
    LeadIsPublished
\* Nothing is left to do once the last lead is published.
CHECK_DEADLOCK FALSE
