CONSTANTS
    NumRecords <- MCNumRecords
    VerifierChoices <- BothChoices
    LoggingChoices <- BothChoices
    EntryCounts <- MCEntryCounts
SPECIFICATION DirSpec
INVARIANTS TypeOK SingleResult OKOnlyIfDelivered ZipClosedBeforeResult
PROPERTY ResultReachesCaller
CHECK_DEADLOCK FALSE
