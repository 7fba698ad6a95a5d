\* What docs/repositories.md says of records.
SPECIFICATION CompetitionSpec
CONSTANTS
    Heads <- MCHeads
    Metric <- MCMetric
    Seasons <- MCSeasons
PROPERTIES
    RecordsImproveTheScore
CHECK_DEADLOCK FALSE
