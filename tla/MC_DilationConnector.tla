------------------------ MODULE MC_DilationConnector ------------------------
(***************************************************************************)
(* Model-checking instance of DilationConnector: two candidates (enough    *)
(* for a losing and a winning one), one hint vector, and up to three       *)
(* records, so that records arrive both before and after the selection.    *)
(***************************************************************************)
EXTENDS DilationConnector

CONSTANTS ca, cb, h1, NoCandidateValue, NoHintsValue

MCCandidates == {ca, cb}
MCHints == {h1}
MCMaxRecords == 3
\* The state the specification gives a fresh Connector and L2, which the
\* shell has to install with connectorToNewState / l2ConnToNewState.
SpecConnectorInit == {"Connecting"}
SpecL2Init == {"Unselected"}
\* What InitDilation leaves in the fields: the zero value.
CodeConnectorInit == {ZeroState}
CodeL2Init == {ZeroState}
\* Both: the runs start from the code's states and from the spec's.
MCConnectorInit == SpecConnectorInit \cup CodeConnectorInit
MCL2Init == SpecL2Init \cup CodeL2Init
=============================================================================
