CONSTANTS
    ca = ca
    cb = cb
    h1 = h1
    NoCandidateValue = NoCandidateValue
    NoHintsValue = NoHintsValue
    Candidates <- MCCandidates
    Hints <- MCHints
    NoCandidate <- NoCandidateValue
    NoHints <- NoHintsValue
    ConnectorInit <- SpecConnectorInit
    L2Init <- SpecL2Init
    MaxRecords <- MCMaxRecords
SPECIFICATION Spec
INVARIANT SelectedIsWinner
