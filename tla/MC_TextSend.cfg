CONSTANTS
    s1 = s1
    s2 = s2
    Sends <- MCSends
    VerifierChoices <- BothChoices
SPECIFICATION Spec
INVARIANTS TypeOK NeverSendsOnClosed
PROPERTY ImplementsSendResult
CHECK_DEADLOCK FALSE
