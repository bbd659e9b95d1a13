------------------------- MODULE DilationConnector -------------------------
(***************************************************************************)
(* The Connector and L2-connection state machines of the dilation core     *)
(* (connectorStateMachine, l2ConnStateMachine) together with the wrappers  *)
(* that attach payloads to their outputs (processConnectorStateMachine,    *)
(* processL2ConnStateMachine), driven by the imperative shell the          *)
(* specification describes.                                                *)
(*                                                                         *)
(* As in the code there is ONE connectorState and ONE l2ConnState field:   *)
(* the L2 state is shared by every candidate.  The wrappers iterate        *)
(* `for output := range outputs`, which binds the slice INDEX, and switch  *)
(* on it as if it were the output code; the model does the same.           *)
(*                                                                         *)
(* The shell: delivers Connector inputs with their payload (hints or a     *)
(* candidate), keeps the socket of a candidate it is told to               *)
(* SelectAndStopRemaining and promotes that candidate's L2 with Select,    *)
(* frees everything on StopEverything, buffers a record on                 *)
(* QueueInboundRecord, hands the buffer to the application on              *)
(* ProcessInboundQueue and a record on DeliverRecord.                      *)
(***************************************************************************)
EXTENDS Naturals, Sequences

CONSTANTS
    Candidates,      \* candidate connection handles
    Hints,           \* hint vectors the shell can pass in
    NoCandidate,     \* the zero value of Candidate (the empty string)
    NoHints,         \* the zero value of transitHintsV1
    ConnectorInit,   \* possible initial connectorState values
    L2Init,          \* possible initial l2ConnState values
    MaxRecords       \* bound on the records arriving on L2 connections

\* The zero value of a Go string-typed state, which InitDilation leaves in
\* connectorState and l2ConnState.
ZeroState == ""

ConnectorStates == {"Connecting", "Connected", "Stopped"}
L2States == {"Unselected", "Selecting", "Selected"}

ASSUME ConnectorAssumption ==
    /\ Candidates # {} /\ NoCandidate \notin Candidates
    /\ NoHints \notin Hints
    /\ ConnectorInit \subseteq ConnectorStates \cup {ZeroState}
    /\ L2Init \subseteq L2States \cup {ZeroState}
    /\ MaxRecords \in Nat

VARIABLES
    connectorState, \* d.connectorState
    l2ConnState,    \* d.l2ConnState (one field for all candidates)
    cout,           \* outputs of the last processConnectorStateMachine call
    lout,           \* outputs of the last processL2ConnStateMachine call
    winner,         \* candidate of the first Accept taken in Connecting
    selected,       \* candidates the shell was told to keep
    stopAll,        \* the shell was told StopEverything
    stopSeen,       \* a Stop has been fed to the Connector
    queue,          \* records the shell buffered on QueueInboundRecord
    delivered,      \* records handed to the application, in order
    arrived,        \* records that arrived while the L2 was Selecting/Selected
    nrec            \* records arrived so far (the next one is nrec + 1)

vars == <<connectorState, l2ConnState, cout, lout, winner, selected, stopAll,
          stopSeen, queue, delivered, arrived, nrec>>

-----------------------------------------------------------------------------
(***************************************************************************)
(* Output codes, in the order of their iota constants: the code of an      *)
(* output is its position minus one.                                       *)
(***************************************************************************)
ConnectorOutputCodes ==
    <<"PublishHints", "SelectAndStopRemaining", "Consider", "UseHints",
      "StopEverything">>

L2OutputCodes ==
    <<"AddCandidate", "SetManager", "CanSendRecords", "ProcessInboundQueue",
      "QueueInboundRecord", "DeliverRecord">>

ConnectorInputEvents ==
    {"ListenerReady", "Accept", "AddCandidate", "GotHints", "AddRelay", "Stop"}

L2InputEvents == {"GotKCM", "Select", "GotRecord"}

Go(to, outs) == [to |-> to, out |-> outs]

(***************************************************************************)
(* connectorStateMachine, one record per event case: the states the case   *)
(* handles, and the next state and outputs for each.  A state not listed   *)
(* (including the zero state) keeps its state and emits nothing.           *)
(***************************************************************************)
OnListenerReady == [Connecting |-> Go("Connecting", <<"PublishHints">>)]

OnAccept == [Connecting |-> Go("Connected", <<"SelectAndStopRemaining">>)]

OnAddCandidate == [Connecting |-> Go("Connecting", <<"Consider">>)]

OnGotHints == [Connecting |-> Go("Connecting", <<"UseHints">>)]

OnAddRelay == [Connecting |-> Go("Connecting", <<"UseHints", "PublishHints">>)]

OnConnectorStop ==
    [Connecting |-> Go("Stopped", <<"StopEverything">>),
     Connected  |-> Go("Stopped", <<"StopEverything">>)]

ConnectorTable ==
    [ListenerReady |-> OnListenerReady, Accept |-> OnAccept,
     AddCandidate |-> OnAddCandidate, GotHints |-> OnGotHints,
     AddRelay |-> OnAddRelay, Stop |-> OnConnectorStop]

ConnectorStep(currState, event) ==
    IF currState \in DOMAIN ConnectorTable[event]
    THEN ConnectorTable[event][currState]
    ELSE Go(currState, <<>>)

(***************************************************************************)
(* l2ConnStateMachine.                                                     *)
(***************************************************************************)
\* The GotKCM case without its `case L2ConnStateUnselected` guard.
OnGotKCMAnyState ==
    [Unselected |-> Go("Selecting", <<"AddCandidate">>),
     Selecting  |-> Go("Selecting", <<"AddCandidate">>),
     Selected   |-> Go("Selecting", <<"AddCandidate">>)]

OnGotKCM == [Unselected |-> Go("Selecting", <<"AddCandidate">>)]

\* The Select case with a mistyped target state.
OnSelectTypo ==
    [Selecting |-> Go("Selectd", <<"SetManager", "CanSendRecords",
                                    "ProcessInboundQueue">>)]

OnSelect ==
    [Selecting |-> Go("Selected", <<"SetManager", "CanSendRecords",
                                     "ProcessInboundQueue">>)]

OnGotRecord ==
    [Selecting |-> Go("Selecting", <<"QueueInboundRecord">>),
     Selected  |-> Go("Selected", <<"DeliverRecord">>)]

L2Table == [GotKCM |-> OnGotKCM, Select |-> OnSelect, GotRecord |-> OnGotRecord]

L2Step(currState, event) ==
    IF currState \in DOMAIN L2Table[event]
    THEN L2Table[event][currState]
    ELSE Go(currState, <<>>)

-----------------------------------------------------------------------------
(***************************************************************************)
(* The wrappers.  `for output := range outputs` visits the indices         *)
(* 0 .. n-1 of the output slice; the switch treats index k as the output   *)
(* code k, and drops an index no case names.  Each case copies the         *)
(* payload its output code carries from the input.                         *)
(***************************************************************************)
ConnectorPayload(code, in) ==
    [ev        |-> code,
     hints     |-> IF code \in {"PublishHints", "UseHints"} THEN in.hints
                   ELSE NoHints,
     candidate |-> IF code \in {"SelectAndStopRemaining", "Consider"}
                   THEN in.candidate ELSE NoCandidate]

ProcessConnectorOutputs(outs, in) ==
    [i \in 1..Len(outs) |-> ConnectorPayload(ConnectorOutputCodes[i], in)]

ProcessL2Outputs(outs, in) ==
    [i \in 1..Len(outs) |-> [ev |-> L2OutputCodes[i], candidate |-> in.candidate]]

\* The output codes of a processed output list.
Codes(outs) == {outs[i].ev : i \in DOMAIN outs}

-----------------------------------------------------------------------------
ConnectorInputs ==
    [ev : {"ListenerReady", "Stop"}, hints : {NoHints}, candidate : {NoCandidate}]
    \cup [ev : {"Accept", "AddCandidate"}, hints : {NoHints}, candidate : Candidates]
    \cup [ev : {"GotHints", "AddRelay"}, hints : Hints, candidate : {NoCandidate}]

\* L2 inputs the shell can deliver now: a KCM or a record on any candidate,
\* and Select only for a candidate the Connector told it to keep.
L2InputsNow ==
    [ev : {"GotKCM"}, candidate : Candidates]
    \cup [ev : {"Select"}, candidate : selected]
    \cup (IF nrec < MaxRecords THEN [ev : {"GotRecord"}, candidate : Candidates]
          ELSE {})

TypeOK ==
    /\ connectorState \in ConnectorStates \cup {ZeroState}
    /\ l2ConnState \in L2States \cup {ZeroState}
    /\ cout \in Seq([ev : {ConnectorOutputCodes[i] : i \in 1..5},
                     hints : Hints \cup {NoHints},
                     candidate : Candidates \cup {NoCandidate}])
    /\ lout \in Seq([ev : {L2OutputCodes[i] : i \in 1..6},
                     candidate : Candidates \cup {NoCandidate}])
    /\ winner \in Candidates \cup {NoCandidate}
    /\ selected \subseteq Candidates \cup {NoCandidate}
    /\ stopAll \in BOOLEAN /\ stopSeen \in BOOLEAN
    /\ queue \in Seq(1..MaxRecords) /\ delivered \in Seq(1..MaxRecords)
    /\ arrived \in Seq(1..MaxRecords)
    /\ nrec \in 0..MaxRecords

Init ==
    /\ connectorState \in ConnectorInit
    /\ l2ConnState \in L2Init
    /\ cout = <<>> /\ lout = <<>>
    /\ winner = NoCandidate
    /\ selected = {}
    /\ stopAll = FALSE /\ stopSeen = FALSE
    /\ queue = <<>> /\ delivered = <<>> /\ arrived = <<>>
    /\ nrec = 0

(***************************************************************************)
(* One call of processConnectorStateMachine with input `in`, and the       *)
(* shell acting on the processed outputs.                                  *)
(***************************************************************************)
ConnectorInput(in) ==
    LET t    == ConnectorStep(connectorState, in.ev)
        outs == ProcessConnectorOutputs(t.out, in)
    IN  /\ connectorState' = t.to
        /\ cout' = outs
        /\ winner' = IF in.ev = "Accept" /\ connectorState = "Connecting"
                     THEN in.candidate ELSE winner
        /\ selected' = selected \cup {outs[i].candidate : i \in
                          {j \in DOMAIN outs : outs[j].ev = "SelectAndStopRemaining"}}
        /\ stopAll' = (stopAll \/ "StopEverything" \in Codes(outs))
        /\ stopSeen' = (stopSeen \/ in.ev = "Stop")
        /\ UNCHANGED <<l2ConnState, lout, queue, delivered, arrived, nrec>>

(***************************************************************************)
(* One call of processL2ConnStateMachine with input `in`.  A GotRecord     *)
(* brings record nrec + 1.  The shell buffers it on QueueInboundRecord,    *)
(* hands it over on DeliverRecord, and hands over the whole buffer on      *)
(* ProcessInboundQueue (no output list holds two of these).                *)
(***************************************************************************)
L2Input(in) ==
    LET t    == L2Step(l2ConnState, in.ev)
        outs == ProcessL2Outputs(t.out, in)
        rec  == IF in.ev = "GotRecord" THEN <<nrec + 1>> ELSE <<>>
        cs   == Codes(outs)
    IN  /\ l2ConnState' = t.to
        /\ lout' = outs
        /\ nrec' = nrec + Len(rec)
        /\ arrived' = IF l2ConnState \in {"Selecting", "Selected"}
                      THEN arrived \o rec ELSE arrived
        /\ queue' = IF "ProcessInboundQueue" \in cs THEN <<>>
                    ELSE IF "QueueInboundRecord" \in cs THEN queue \o rec
                    ELSE queue
        /\ delivered' = delivered
                        \o (IF "ProcessInboundQueue" \in cs THEN queue ELSE <<>>)
                        \o (IF "DeliverRecord" \in cs THEN rec ELSE <<>>)
        /\ UNCHANGED <<connectorState, cout, winner, selected, stopAll, stopSeen>>

Next ==
    \/ \E in \in ConnectorInputs : ConnectorInput(in)
    \/ \E in \in L2InputsNow : L2Input(in)

Spec == Init /\ [][Next]_vars

-----------------------------------------------------------------------------
\* Position of a state along its machine's only path.
Rank(s) ==
    CASE s \in {ZeroState, "Connecting", "Unselected"} -> 0
      [] s \in {"Connected", "Selecting"} -> 1
      [] s \in {"Stopped", "Selected"} -> 2

(***************************************************************************)
(* Neither machine ever moves back: the Connector goes Connecting ->       *)
(* Connected -> Stopped and the (shared) L2 state Unselected -> Selecting  *)
(* -> Selected, whatever the shell feeds in.  A case that handles an      *)
(* event in a state it should ignore would move a machine back.            *)
(***************************************************************************)
StatesOnlyAdvance ==
    [][/\ Rank(connectorState') >= Rank(connectorState)
       /\ Rank(l2ConnState') >= Rank(l2ConnState)]_vars

(***************************************************************************)
(* Single winner (spec 4.2 and scenario 6): the shell is told to keep      *)
(* exactly the candidate of the first Accept the Connector took, and no    *)
(* other; before any Accept it is told to keep none.                       *)
(***************************************************************************)
SelectedIsWinner ==
    selected = IF winner = NoCandidate THEN {} ELSE {winner}

=============================================================================
