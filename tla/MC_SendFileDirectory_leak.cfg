CONSTANTS
    NumRecords <- MCNumRecords
    VerifierChoices <- BothChoices
    LoggingChoices <- BothChoices
    EntryCounts <- MCEntryCounts
SPECIFICATION DirSpec
INVARIANT NoStrandedReader
CHECK_DEADLOCK FALSE
