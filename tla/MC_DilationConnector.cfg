CONSTANTS
    ca = ca
    cb = cb
    h1 = h1
    NoCandidateValue = NoCandidateValue
    NoHintsValue = NoHintsValue
    Candidates <- MCCandidates
    Hints <- MCHints
    NoCandidate <- NoCandidateValue
    NoHints <- NoHintsValue
    ConnectorInit <- MCConnectorInit
    L2Init <- MCL2Init
    MaxRecords <- MCMaxRecords
SPECIFICATION Spec
INVARIANTS TypeOK
PROPERTIES StatesOnlyAdvance
