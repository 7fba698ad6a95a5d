\* The record rule, every order of five verdicts over two seasons.
SPECIFICATION CompetitionSpec
CONSTANTS
    Heads <- MCHeads
    Metric <- MCMetric
    Seasons <- MCSeasons
INVARIANTS
    CompetitionTypeOK
    RecordsAreVerified
    RecordsCoverVerified
    BestScoreIsRecord
    NoDuplicateRecord
\* A competition whose heads are all decided in its last season is over.
CHECK_DEADLOCK FALSE
