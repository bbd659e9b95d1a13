CONSTANTS
    NumRecords <- MCNumRecords
    VerifierChoices <- BothChoices
    LoggingChoices <- BothChoices
    EntryCounts <- MCEntryCounts
SPECIFICATION DirSpec
INVARIANT FailureReported
CHECK_DEADLOCK FALSE
