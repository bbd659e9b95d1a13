----------------------- MODULE DilationConnectorProofs ----------------------
(***************************************************************************)
(* Proofs about the Connector and L2-connection model, for every set of    *)
(* candidates and hints and every record bound: the state is well typed,   *)
(* neither machine moves back, and (from the initial states the            *)
(* specification gives) a Stop always leaves the Connector Stopped.        *)
(***************************************************************************)
EXTENDS DilationConnector, SequenceTheorems, TLAPS

ConnectorOut == {ConnectorOutputCodes[i] : i \in 1..5}
L2Out == {L2OutputCodes[i] : i \in 1..6}

(***************************************************************************)
(* What one case of connectorStateMachine can do: from a state it stays or *)
(* moves forward, with at most two outputs; from Connecting or Connected a *)
(* Stop lands in Stopped, and nothing leaves Stopped.                      *)
(***************************************************************************)
LEMMA ConnectorStepFacts ==
    ASSUME NEW cs \in ConnectorStates \cup {ZeroState},
           NEW ev \in ConnectorInputEvents
    PROVE  /\ ConnectorStep(cs, ev).to \in ConnectorStates \cup {ZeroState}
           /\ ConnectorStep(cs, ev).out \in Seq(ConnectorOut) /\ Len(ConnectorStep(cs, ev).out) <= 2
           /\ Rank(ConnectorStep(cs, ev).to) >= Rank(cs)
           /\ ev = "Stop" /\ cs # ZeroState => ConnectorStep(cs, ev).to = "Stopped"
           /\ cs = "Stopped" => ConnectorStep(cs, ev).to = "Stopped"
           /\ ConnectorStep(cs, ev).to = ZeroState => cs = ZeroState
<1>0. /\ "PublishHints" \in ConnectorOut /\ "SelectAndStopRemaining" \in ConnectorOut
      /\ "Consider" \in ConnectorOut /\ "UseHints" \in ConnectorOut
      /\ "StopEverything" \in ConnectorOut
  BY DEF ConnectorOut, ConnectorOutputCodes
<1>q. /\ <<"PublishHints">> \in Seq(ConnectorOut)
      /\ <<"SelectAndStopRemaining">> \in Seq(ConnectorOut)
      /\ <<"Consider">> \in Seq(ConnectorOut)
      /\ <<"UseHints">> \in Seq(ConnectorOut)
      /\ <<"UseHints", "PublishHints">> \in Seq(ConnectorOut)
      /\ <<"StopEverything">> \in Seq(ConnectorOut)
  <2>1. <<"PublishHints">> \in Seq(ConnectorOut)  BY <1>0
  <2>2. <<"SelectAndStopRemaining">> \in Seq(ConnectorOut)  BY <1>0
  <2>3. <<"Consider">> \in Seq(ConnectorOut)  BY <1>0
  <2>4. <<"UseHints">> \in Seq(ConnectorOut)  BY <1>0
  <2>5. <<"UseHints", "PublishHints">> \in Seq(ConnectorOut)  BY <1>0
  <2>6. <<"StopEverything">> \in Seq(ConnectorOut)  BY <1>0
  <2>. QED  BY <2>1, <2>2, <2>3, <2>4, <2>5, <2>6
<1>r. /\ Rank(ZeroState) = 0 /\ Rank("Connecting") = 0
      /\ Rank("Connected") = 1 /\ Rank("Stopped") = 2
  BY DEF Rank, ZeroState
<1>s. ConnectorStates = {"Connecting", "Connected", "Stopped"}
  BY DEF ConnectorStates
<1>1. CASE cs \notin DOMAIN ConnectorTable[ev]
  <2>1. ConnectorStep(cs, ev) = Go(cs, <<>>)  BY <1>1 DEF ConnectorStep
  <2>2. ev = "Stop" => cs \in {"Stopped", ZeroState}
    BY <1>1, <1>s DEF ConnectorTable, OnConnectorStop
  <2>3. <<>> \in Seq(ConnectorOut) /\ Len(<<>>) = 0  OBVIOUS
  <2>. QED  BY <2>1, <2>2, <2>3, <1>r, <1>s DEF Go
<1>2. CASE cs \in DOMAIN ConnectorTable[ev]
  <2>0. ConnectorStep(cs, ev) = ConnectorTable[ev][cs]  BY <1>2 DEF ConnectorStep
  <2>1. CASE ev \in {"ListenerReady", "Accept", "AddCandidate", "GotHints",
                     "AddRelay"}
    <3>1. cs = "Connecting"
      BY <1>2, <2>1 DEF ConnectorTable, OnListenerReady, OnAccept,
                        OnAddCandidate, OnGotHints, OnAddRelay
    <3>2. ConnectorStep(cs, ev) \in {Go("Connecting", <<"PublishHints">>),
                 Go("Connected", <<"SelectAndStopRemaining">>),
                 Go("Connecting", <<"Consider">>),
                 Go("Connecting", <<"UseHints">>),
                 Go("Connecting", <<"UseHints", "PublishHints">>)}
      BY <2>0, <2>1, <3>1 DEF ConnectorTable, OnListenerReady, OnAccept,
                              OnAddCandidate, OnGotHints, OnAddRelay
    <3>5. ConnectorStep(cs, ev).out \in {<<"PublishHints">>, <<"SelectAndStopRemaining">>,
                     <<"Consider">>, <<"UseHints">>,
                     <<"UseHints", "PublishHints">>}
      BY <3>2 DEF Go
    <3>6. ConnectorStep(cs, ev).out \in Seq(ConnectorOut)  BY <3>5, <1>q, Zenon
    <3>7. Len(ConnectorStep(cs, ev).out) <= 2
      <4>1. /\ Len(<<"PublishHints">>) = 1
            /\ Len(<<"SelectAndStopRemaining">>) = 1
            /\ Len(<<"Consider">>) = 1 /\ Len(<<"UseHints">>) = 1
            /\ Len(<<"UseHints", "PublishHints">>) = 2
        OBVIOUS
      <4>2. \A x \in {<<"PublishHints">>, <<"SelectAndStopRemaining">>,
                      <<"Consider">>, <<"UseHints">>,
                      <<"UseHints", "PublishHints">>} : Len(x) <= 2
        BY <4>1
      <4>. QED  BY <3>5, <4>2
    <3>3. ConnectorStep(cs, ev).out \in Seq(ConnectorOut) /\ Len(ConnectorStep(cs, ev).out) <= 2  BY <3>6, <3>7
    <3>4. ConnectorStep(cs, ev).to \in {"Connecting", "Connected"}  BY <3>2 DEF Go
    <3>8. ConnectorStep(cs, ev).to \in ConnectorStates \cup {ZeroState}  BY <3>4, <1>s
    <3>9. Rank(ConnectorStep(cs, ev).to) >= Rank(cs)  BY <3>1, <3>4, <1>r
    <3>. QED  BY <2>1, <3>1, <3>3, <3>4, <3>8, <3>9 DEF ZeroState
  <2>2. CASE ev = "Stop"
    <3>1. cs \in {"Connecting", "Connected"}
      BY <1>2, <2>2 DEF ConnectorTable, OnConnectorStop
    <3>2. ConnectorStep(cs, ev) = Go("Stopped", <<"StopEverything">>)
      BY <2>0, <2>2, <3>1 DEF ConnectorTable, OnConnectorStop
    <3>3. /\ ConnectorStep(cs, ev).to = "Stopped"
          /\ ConnectorStep(cs, ev).out = <<"StopEverything">>
      BY <3>2 DEF Go
    <3>4. Len(<<"StopEverything">>) = 1  OBVIOUS
    <3>5. Rank(ConnectorStep(cs, ev).to) >= Rank(cs)  BY <3>1, <3>3, <1>r
    <3>6. <<"StopEverything">> \in Seq(ConnectorOut)  BY <1>0
    <3>7. ConnectorStep(cs, ev).out \in Seq(ConnectorOut) /\ Len(ConnectorStep(cs, ev).out) <= 2
      BY <3>3, <3>4, <3>6
    <3>8. ConnectorStep(cs, ev).to \in ConnectorStates \cup {ZeroState}  BY <3>3, <1>s
    <3>9. ConnectorStep(cs, ev).to # ZeroState  BY <3>3 DEF ZeroState
    <3>. QED  BY <3>3, <3>5, <3>7, <3>8, <3>9
  <2>. QED  BY <2>1, <2>2 DEF ConnectorInputEvents
<1>. QED  BY <1>1, <1>2

(***************************************************************************)
(* What one case of l2ConnStateMachine can do: stay or move forward, with  *)
(* at most three outputs.                                                  *)
(***************************************************************************)
LEMMA L2StepFacts ==
    ASSUME NEW ls \in L2States \cup {ZeroState}, NEW ev \in L2InputEvents
    PROVE  /\ L2Step(ls, ev).to \in L2States \cup {ZeroState}
           /\ L2Step(ls, ev).out \in Seq(L2Out) /\ Len(L2Step(ls, ev).out) <= 3
           /\ Rank(L2Step(ls, ev).to) >= Rank(ls)
<1>0. /\ "AddCandidate" \in L2Out /\ "SetManager" \in L2Out
      /\ "CanSendRecords" \in L2Out /\ "ProcessInboundQueue" \in L2Out
      /\ "QueueInboundRecord" \in L2Out /\ "DeliverRecord" \in L2Out
  BY DEF L2Out, L2OutputCodes
<1>r. /\ Rank(ZeroState) = 0 /\ Rank("Unselected") = 0
      /\ Rank("Selecting") = 1 /\ Rank("Selected") = 2
  BY DEF Rank, ZeroState
<1>s. L2States = {"Unselected", "Selecting", "Selected"}  BY DEF L2States
<1>1. CASE ls \notin DOMAIN L2Table[ev]
  <2>1. L2Step(ls, ev) = Go(ls, <<>>)  BY <1>1 DEF L2Step
  <2>2. <<>> \in Seq(L2Out) /\ Len(<<>>) = 0  OBVIOUS
  <2>3. Rank(ls) \in Nat  BY <1>r, <1>s
  <2>. QED  BY <2>1, <2>2, <2>3 DEF Go
<1>2. CASE ls \in DOMAIN L2Table[ev]
  <2>0. L2Step(ls, ev) = L2Table[ev][ls]  BY <1>2 DEF L2Step
  <2>1. CASE ev = "GotKCM"
    <3>1. ls = "Unselected"  BY <1>2, <2>1 DEF L2Table, OnGotKCM
    <3>2. L2Step(ls, ev).to = "Selecting" /\ L2Step(ls, ev).out = <<"AddCandidate">>
      BY <2>0, <2>1, <3>1 DEF L2Table, OnGotKCM, Go
    <3>3. <<"AddCandidate">> \in Seq(L2Out)  BY <1>0
    <3>4. Len(<<"AddCandidate">>) = 1  OBVIOUS
    <3>5. Rank(L2Step(ls, ev).to) >= Rank(ls)  BY <3>1, <3>2, <1>r
    <3>. QED  BY <3>2, <3>3, <3>4, <3>5, <1>s
  <2>2. CASE ev = "Select"
    <3>1. ls = "Selecting"  BY <1>2, <2>2 DEF L2Table, OnSelect
    <3>2. L2Step(ls, ev).to = "Selected" /\ L2Step(ls, ev).out = <<"SetManager", "CanSendRecords", "ProcessInboundQueue">>
      BY <2>0, <2>2, <3>1 DEF L2Table, OnSelect, Go
    <3>3. <<"SetManager", "CanSendRecords", "ProcessInboundQueue">> \in Seq(L2Out)  BY <1>0
    <3>4. Len(<<"SetManager", "CanSendRecords", "ProcessInboundQueue">>) = 3  OBVIOUS
    <3>5. Rank(L2Step(ls, ev).to) >= Rank(ls)  BY <3>1, <3>2, <1>r
    <3>. QED  BY <3>2, <3>3, <3>4, <3>5, <1>s
  <2>3. CASE ev = "GotRecord"
    <3>1. ls \in {"Selecting", "Selected"}  BY <1>2, <2>3 DEF L2Table, OnGotRecord
    <3>2. CASE ls = "Selecting"
      <4>1. L2Step(ls, ev).to = "Selecting" /\ L2Step(ls, ev).out = <<"QueueInboundRecord">>
        BY <2>0, <2>3, <3>2 DEF L2Table, OnGotRecord, Go
      <4>2. <<"QueueInboundRecord">> \in Seq(L2Out)  BY <1>0
      <4>3. Len(<<"QueueInboundRecord">>) = 1  OBVIOUS
      <4>4. Rank(L2Step(ls, ev).to) >= Rank(ls)  BY <3>2, <4>1, <1>r
      <4>. QED  BY <4>1, <4>2, <4>3, <4>4, <1>s
    <3>3. CASE ls = "Selected"
      <4>1. L2Step(ls, ev).to = "Selected" /\ L2Step(ls, ev).out = <<"DeliverRecord">>
        BY <2>0, <2>3, <3>3 DEF L2Table, OnGotRecord, Go
      <4>2. <<"DeliverRecord">> \in Seq(L2Out)  BY <1>0
      <4>3. Len(<<"DeliverRecord">>) = 1  OBVIOUS
      <4>4. Rank(L2Step(ls, ev).to) >= Rank(ls)  BY <3>3, <4>1, <1>r
      <4>. QED  BY <4>1, <4>2, <4>3, <4>4, <1>s
    <3>. QED  BY <3>1, <3>2, <3>3
  <2>. QED  BY <2>1, <2>2, <2>3 DEF L2InputEvents
<1>. QED  BY <1>1, <1>2

-----------------------------------------------------------------------------
\* The records the wrappers hand to the shell.
ConnectorRec ==
    [ev : ConnectorOut, hints : Hints \cup {NoHints},
     candidate : Candidates \cup {NoCandidate}]
L2Rec == [ev : L2Out, candidate : Candidates \cup {NoCandidate}]

(***************************************************************************)
(* processConnectorStateMachine turns at most five outputs into payload    *)
(* records, one per index, each carrying the input's hints or candidate.   *)
(***************************************************************************)
LEMMA ConnectorOutputsType ==
    ASSUME NEW outs \in Seq(ConnectorOut), Len(outs) <= 5, NEW in,
           in.hints \in Hints \cup {NoHints},
           in.candidate \in Candidates \cup {NoCandidate}
    PROVE  ProcessConnectorOutputs(outs, in) \in Seq(ConnectorRec)
<1>1. \A i \in 1..Len(outs) : ConnectorOutputCodes[i] \in ConnectorOut
  BY DEF ConnectorOut
<1>2. \A i \in 1..Len(outs) :
          ConnectorPayload(ConnectorOutputCodes[i], in) \in ConnectorRec
  BY <1>1 DEF ConnectorPayload, ConnectorRec
<1>. QED  BY <1>2 DEF ProcessConnectorOutputs

\* processL2ConnStateMachine, likewise for at most six outputs.
LEMMA L2OutputsType ==
    ASSUME NEW outs \in Seq(L2Out), Len(outs) <= 6, NEW in,
           in.candidate \in Candidates \cup {NoCandidate}
    PROVE  ProcessL2Outputs(outs, in) \in Seq(L2Rec)
<1>1. \A i \in 1..Len(outs) : L2OutputCodes[i] \in L2Out
  BY DEF L2Out
<1>. QED  BY <1>1 DEF ProcessL2Outputs, L2Rec

-----------------------------------------------------------------------------
LEMMA TypeInit == Init => TypeOK
<1> SUFFICES ASSUME Init PROVE TypeOK  OBVIOUS
<1>1. connectorState \in ConnectorStates \cup {ZeroState}
  BY ConnectorAssumption DEF Init
<1>2. l2ConnState \in L2States \cup {ZeroState}
  BY ConnectorAssumption DEF Init
<1>3. nrec \in 0..MaxRecords  BY ConnectorAssumption DEF Init
<1>4. /\ cout \in Seq([ev : {ConnectorOutputCodes[i] : i \in 1..5},
                       hints : Hints \cup {NoHints},
                       candidate : Candidates \cup {NoCandidate}])
      /\ lout \in Seq([ev : {L2OutputCodes[i] : i \in 1..6},
                       candidate : Candidates \cup {NoCandidate}])
  BY DEF Init
<1>5. /\ queue \in Seq(1..MaxRecords) /\ delivered \in Seq(1..MaxRecords)
      /\ arrived \in Seq(1..MaxRecords)
  BY DEF Init
<1>6. /\ winner \in Candidates \cup {NoCandidate}
      /\ selected \subseteq Candidates \cup {NoCandidate}
      /\ stopAll \in BOOLEAN /\ stopSeen \in BOOLEAN
  BY DEF Init
<1>. QED  BY <1>1, <1>2, <1>3, <1>4, <1>5, <1>6 DEF TypeOK

(***************************************************************************)
(* A processConnectorStateMachine call keeps the state well typed: the new *)
(* state is a Connector state, the outputs are payload records, and the    *)
(* candidates the shell is told to keep are candidates.                    *)
(***************************************************************************)
LEMMA ConnectorInputType ==
    ASSUME TypeOK, NEW in \in ConnectorInputs, ConnectorInput(in)
    PROVE  TypeOK'
<1> DEFINE t == ConnectorStep(connectorState, in.ev)
           outs == ProcessConnectorOutputs(t.out, in)
<1>1. /\ in.ev \in ConnectorInputEvents
      /\ in.hints \in Hints \cup {NoHints}
      /\ in.candidate \in Candidates \cup {NoCandidate}
      /\ in.ev = "Accept" => in.candidate \in Candidates
  BY DEF ConnectorInputs, ConnectorInputEvents
<1>2. /\ t.to \in ConnectorStates \cup {ZeroState}
      /\ t.out \in Seq(ConnectorOut) /\ Len(t.out) <= 2
  BY <1>1, ConnectorStepFacts DEF TypeOK, t
<1>3. outs \in Seq(ConnectorRec)
  BY <1>1, <1>2, ConnectorOutputsType DEF outs
<1>4. /\ connectorState' = t.to /\ cout' = outs
      /\ winner' = IF in.ev = "Accept" /\ connectorState = "Connecting"
                   THEN in.candidate ELSE winner
      /\ selected' = selected \cup {outs[i].candidate : i \in
                        {j \in DOMAIN outs : outs[j].ev = "SelectAndStopRemaining"}}
      /\ stopAll' \in BOOLEAN /\ stopSeen' \in BOOLEAN
      /\ UNCHANGED <<l2ConnState, lout, queue, delivered, arrived, nrec>>
  BY DEF ConnectorInput, t, outs
<1>5. cout' \in Seq([ev : {ConnectorOutputCodes[i] : i \in 1..5},
                     hints : Hints \cup {NoHints},
                     candidate : Candidates \cup {NoCandidate}])
  BY <1>3, <1>4 DEF ConnectorRec, ConnectorOut
<1>6. winner' \in Candidates \cup {NoCandidate}  BY <1>1, <1>4 DEF TypeOK
<1>7. selected' \subseteq Candidates \cup {NoCandidate}
  <2>0. \A i \in DOMAIN outs : outs[i] \in ConnectorRec  BY <1>3
  <2>1. \A i \in DOMAIN outs : outs[i].candidate \in Candidates \cup {NoCandidate}
    BY <2>0 DEF ConnectorRec
  <2>. QED  BY <2>1, <1>4 DEF TypeOK
<1>. QED  BY <1>2, <1>4, <1>5, <1>6, <1>7 DEF TypeOK

(***************************************************************************)
(* A processL2ConnStateMachine call keeps the state well typed: a          *)
(* GotRecord is only delivered below the record bound, so the record it    *)
(* brings, and every buffer it is appended to, stay within 1..MaxRecords.  *)
(***************************************************************************)
LEMMA L2InputType ==
    ASSUME TypeOK, NEW in \in L2InputsNow, L2Input(in)
    PROVE  TypeOK'
<1> DEFINE t   == L2Step(l2ConnState, in.ev)
           outs == ProcessL2Outputs(t.out, in)
           rec  == IF in.ev = "GotRecord" THEN <<nrec + 1>> ELSE <<>>
           cs   == Codes(outs)
<1>0. MaxRecords \in Nat  BY ConnectorAssumption
<1>n. /\ nrec \in 0..MaxRecords
      /\ queue \in Seq(1..MaxRecords) /\ delivered \in Seq(1..MaxRecords)
      /\ arrived \in Seq(1..MaxRecords)
  BY DEF TypeOK
<1>1. /\ in.ev \in L2InputEvents
      /\ in.candidate \in Candidates \cup {NoCandidate}
      /\ in.ev = "GotRecord" => nrec < MaxRecords
  BY DEF L2InputsNow, L2InputEvents, TypeOK
<1>2. /\ t.to \in L2States \cup {ZeroState}
      /\ t.out \in Seq(L2Out) /\ Len(t.out) <= 3
  BY <1>1, L2StepFacts DEF TypeOK, t
<1>3. outs \in Seq(L2Rec)  BY <1>1, <1>2, L2OutputsType DEF outs
<1>4. /\ rec \in Seq(1..MaxRecords)
      /\ nrec + Len(rec) \in 0..MaxRecords
  <2>1. CASE in.ev = "GotRecord"
    <3>1. rec = <<nrec + 1>>  BY <2>1 DEF rec
    <3>2. nrec + 1 \in 1..MaxRecords  BY <1>0, <1>1, <1>n, <2>1
    <3>. QED  BY <2>1, <3>2, <1>0, <1>n DEF rec
  <2>2. CASE in.ev # "GotRecord"
    <3>1. rec = <<>>  BY <2>2 DEF rec
    <3>. QED  BY <2>2, <1>0, <1>n DEF rec
  <2>. QED  BY <2>1, <2>2
<1>5. /\ l2ConnState' = t.to /\ lout' = outs
      /\ nrec' = nrec + Len(rec)
      /\ arrived' \in {arrived \o rec, arrived}
      /\ queue' \in {<<>>, queue \o rec, queue}
      /\ \E x \in {queue, <<>>}, y \in {rec, <<>>} :
             delivered' = delivered \o x \o y
      /\ UNCHANGED <<connectorState, cout, winner, selected, stopAll, stopSeen>>
  BY DEF L2Input, t, outs, rec, cs
<1>6. lout' \in Seq([ev : {L2OutputCodes[i] : i \in 1..6},
                     candidate : Candidates \cup {NoCandidate}])
  BY <1>3, <1>5 DEF L2Rec, L2Out
<1>7. /\ arrived' \in Seq(1..MaxRecords)
      /\ queue' \in Seq(1..MaxRecords)
      /\ delivered' \in Seq(1..MaxRecords)
  <2>1. /\ arrived \o rec \in Seq(1..MaxRecords)
        /\ queue \o rec \in Seq(1..MaxRecords)
    BY <1>4, <1>n, ConcatProperties
  <2>2. \A x \in {queue, <<>>}, y \in {rec, <<>>} :
            delivered \o x \o y \in Seq(1..MaxRecords)
    <3> SUFFICES ASSUME NEW x \in {queue, <<>>}, NEW y \in {rec, <<>>}
                 PROVE  delivered \o x \o y \in Seq(1..MaxRecords)
      OBVIOUS
    <3>1. x \in Seq(1..MaxRecords) /\ y \in Seq(1..MaxRecords)
      <4>1. <<>> \in Seq(1..MaxRecords)  OBVIOUS
      <4>2. rec \in Seq(1..MaxRecords) /\ queue \in Seq(1..MaxRecords)
        BY <1>4, <1>n
      <4>. QED  BY <4>1, <4>2, Zenon
    <3>2. delivered \o x \in Seq(1..MaxRecords)
      BY <3>1, <1>n, ConcatProperties
    <3>. QED  BY <3>1, <3>2, ConcatProperties
  <2>3. <<>> \in Seq(1..MaxRecords)  OBVIOUS
  <2>. QED  BY <1>5, <2>1, <2>2, <2>3 DEF TypeOK
<1>. QED  BY <1>2, <1>4, <1>5, <1>6, <1>7 DEF TypeOK

LEMMA TypeStep == TypeOK /\ [Next]_vars => TypeOK'
<1> SUFFICES ASSUME TypeOK, [Next]_vars PROVE TypeOK'  OBVIOUS
<1>1. CASE \E in \in ConnectorInputs : ConnectorInput(in)
  BY <1>1, ConnectorInputType
<1>2. CASE \E in \in L2InputsNow : L2Input(in)
  BY <1>2, L2InputType
<1>3. CASE UNCHANGED vars  BY <1>3 DEF vars, TypeOK
<1>. QED  BY <1>1, <1>2, <1>3 DEF Next

(***************************************************************************)
(* For every set of candidates and hints, every record bound and any       *)
(* initial states (the zero value included), the Connector and L2 fields,  *)
(* the output lists the wrappers build, the winner, the kept candidates    *)
(* and the record buffers stay well typed.                                 *)
(***************************************************************************)
THEOREM TypeCorrect == Spec => []TypeOK
BY TypeInit, TypeStep, PTL DEF Spec

-----------------------------------------------------------------------------
\* Rank is a number on every state either field can hold.
LEMMA RankNat ==
    ASSUME NEW s \in ConnectorStates \cup L2States \cup {ZeroState}
    PROVE  Rank(s) \in Nat
BY DEF Rank, ConnectorStates, L2States, ZeroState

\* The step that StatesOnlyAdvance constrains.
Advance ==
    /\ Rank(connectorState') >= Rank(connectorState)
    /\ Rank(l2ConnState') >= Rank(l2ConnState)

LEMMA AdvanceStep == TypeOK /\ [Next]_vars => [Advance]_vars
<1> SUFFICES ASSUME TypeOK, [Next]_vars PROVE [Advance]_vars  OBVIOUS
<1>0. /\ Rank(connectorState) \in Nat /\ Rank(l2ConnState) \in Nat
  BY RankNat DEF TypeOK
<1>1. CASE \E in \in ConnectorInputs : ConnectorInput(in)
  <2>1. PICK in \in ConnectorInputs : ConnectorInput(in)  BY <1>1
  <2>2. in.ev \in ConnectorInputEvents  BY DEF ConnectorInputs, ConnectorInputEvents
  <2>3. /\ connectorState' = ConnectorStep(connectorState, in.ev).to
        /\ l2ConnState' = l2ConnState
    BY <2>1 DEF ConnectorInput
  <2>4. Rank(ConnectorStep(connectorState, in.ev).to) >= Rank(connectorState)
    BY <2>2, ConnectorStepFacts DEF TypeOK
  <2>. QED  BY <1>0, <2>3, <2>4 DEF Advance
<1>2. CASE \E in \in L2InputsNow : L2Input(in)
  <2>1. PICK in \in L2InputsNow : L2Input(in)  BY <1>2
  <2>2. in.ev \in L2InputEvents  BY DEF L2InputsNow, L2InputEvents
  <2>3. /\ l2ConnState' = L2Step(l2ConnState, in.ev).to
        /\ connectorState' = connectorState
    BY <2>1 DEF L2Input
  <2>4. Rank(L2Step(l2ConnState, in.ev).to) >= Rank(l2ConnState)
    BY <2>2, L2StepFacts DEF TypeOK
  <2>. QED  BY <1>0, <2>3, <2>4 DEF Advance
<1>3. CASE UNCHANGED vars  BY <1>3
<1>. QED  BY <1>1, <1>2, <1>3 DEF Next

(***************************************************************************)
(* For every set of candidates and hints, every record bound and any       *)
(* initial states: no input the shell feeds moves connectorStateMachine    *)
(* back along Connecting -> Connected -> Stopped, nor l2ConnStateMachine   *)
(* back along Unselected -> Selecting -> Selected.                         *)
(***************************************************************************)
THEOREM NeverBack == Spec => StatesOnlyAdvance
<1>1. Spec => []TypeOK  BY TypeCorrect
<1>. QED  BY <1>1, AdvanceStep, PTL DEF Spec, StatesOnlyAdvance, Advance

-----------------------------------------------------------------------------
(***************************************************************************)
(* What InitDilation leaves behind: both state fields at the zero value,  *)
(* which no case of connectorStateMachine or l2ConnStateMachine names.     *)
(* From there no input moves either machine, no output reaches the shell  *)
(* (so a Stop never yields StopEverything), no candidate is kept and no    *)
(* record is buffered or handed to the application.                        *)
(***************************************************************************)
Dormant ==
    /\ connectorState = ZeroState /\ l2ConnState = ZeroState
    /\ cout = <<>> /\ lout = <<>>
    /\ ~stopAll /\ selected = {}
    /\ queue = <<>> /\ delivered = <<>> /\ arrived = <<>>

\* The zero state steps to itself with no outputs, whatever the event.
LEMMA ZeroStep ==
    ASSUME NEW cev \in ConnectorInputEvents, NEW lev \in L2InputEvents
    PROVE  /\ ConnectorStep(ZeroState, cev) = Go(ZeroState, <<>>)
           /\ L2Step(ZeroState, lev) = Go(ZeroState, <<>>)
<1>1. ConnectorTable[cev] \in {OnListenerReady, OnAccept, OnAddCandidate,
                               OnGotHints, OnAddRelay, OnConnectorStop}
  BY DEF ConnectorInputEvents, ConnectorTable
<1>2. /\ DOMAIN OnListenerReady = {"Connecting"}
      /\ DOMAIN OnAccept = {"Connecting"}
      /\ DOMAIN OnAddCandidate = {"Connecting"}
      /\ DOMAIN OnGotHints = {"Connecting"}
      /\ DOMAIN OnAddRelay = {"Connecting"}
      /\ DOMAIN OnConnectorStop = {"Connecting", "Connected"}
  BY DEF OnListenerReady, OnAccept, OnAddCandidate, OnGotHints, OnAddRelay,
         OnConnectorStop
<1>3. L2Table[lev] \in {OnGotKCM, OnSelect, OnGotRecord}
  BY DEF L2InputEvents, L2Table
<1>4. /\ DOMAIN OnGotKCM = {"Unselected"}
      /\ DOMAIN OnSelect = {"Selecting"}
      /\ DOMAIN OnGotRecord = {"Selecting", "Selected"}
  BY DEF OnGotKCM, OnSelect, OnGotRecord
<1>5. ZeroState \notin DOMAIN ConnectorTable[cev]
  <2>1. DOMAIN ConnectorTable[cev] \subseteq {"Connecting", "Connected"}
    BY <1>1, <1>2, Zenon
  <2>. QED  BY <2>1 DEF ZeroState
<1>6. ZeroState \notin DOMAIN L2Table[lev]
  <2>1. DOMAIN L2Table[lev] \subseteq {"Unselected", "Selecting", "Selected"}
    BY <1>3, <1>4, Zenon
  <2>. QED  BY <2>1 DEF ZeroState
<1>. QED  BY <1>5, <1>6 DEF ConnectorStep, L2Step

LEMMA DormantStep == Dormant /\ [Next]_vars => Dormant'
<1> SUFFICES ASSUME Dormant, [Next]_vars PROVE Dormant'  OBVIOUS
<1>1. CASE \E in \in ConnectorInputs : ConnectorInput(in)
  <2>1. PICK in \in ConnectorInputs : ConnectorInput(in)  BY <1>1
  <2>2. in.ev \in ConnectorInputEvents
    BY DEF ConnectorInputs, ConnectorInputEvents
  <2>3. ConnectorStep(connectorState, in.ev) = Go(ZeroState, <<>>)
    BY <2>2, ZeroStep DEF Dormant, L2InputEvents
  <2>4. ProcessConnectorOutputs(<<>>, in) = <<>>
    BY DEF ProcessConnectorOutputs
  <2>5. /\ connectorState' = ZeroState /\ cout' = <<>>
        /\ UNCHANGED <<l2ConnState, lout, queue, delivered, arrived>>
    BY <2>1, <2>3, <2>4 DEF ConnectorInput, Go
  <2>6. /\ selected' = selected \cup {cout'[i].candidate : i \in
                          {j \in DOMAIN cout' : cout'[j].ev = "SelectAndStopRemaining"}}
        /\ stopAll' = (stopAll \/ "StopEverything" \in Codes(cout'))
    BY <2>1, <2>5 DEF ConnectorInput
  <2>7. DOMAIN cout' = {}  BY <2>5
  <2>8. Codes(cout') = {}  BY <2>7 DEF Codes
  <2>9. {j \in DOMAIN cout' : cout'[j].ev = "SelectAndStopRemaining"} = {}
    BY <2>7
  <2>10. {cout'[i].candidate : i \in {}} = {}  OBVIOUS
  <2>11. selected' = selected  BY <2>6, <2>9, <2>10
  <2>12. ~stopAll'  BY <2>6, <2>8, Zenon DEF Dormant
  <2>. QED  BY <2>5, <2>11, <2>12 DEF Dormant
<1>2. CASE \E in \in L2InputsNow : L2Input(in)
  <2>1. PICK in \in L2InputsNow : L2Input(in)  BY <1>2
  <2>2. in.ev \in L2InputEvents  BY DEF L2InputsNow, L2InputEvents
  <2>3. L2Step(l2ConnState, in.ev) = Go(ZeroState, <<>>)
    BY <2>2, ZeroStep DEF Dormant, ConnectorInputEvents
  <2>4. ProcessL2Outputs(<<>>, in) = <<>>  BY DEF ProcessL2Outputs
  <2>5. /\ l2ConnState' = ZeroState /\ lout' = <<>>
        /\ Codes(lout') = {}
    BY <2>1, <2>3, <2>4 DEF L2Input, Go, Codes
  <2>6. /\ arrived' = arrived /\ queue' = queue
        /\ delivered' = delivered \o <<>> \o <<>>
    BY <2>1, <2>5 DEF L2Input, Dormant, ZeroState
  <2>7. UNCHANGED <<connectorState, cout, selected, stopAll>>
    BY <2>1 DEF L2Input
  <2>. QED  BY <2>5, <2>6, <2>7 DEF Dormant
<1>3. CASE UNCHANGED vars  BY <1>3 DEF vars, Dormant
<1>. QED  BY <1>1, <1>2, <1>3 DEF Next

(***************************************************************************)
(* The Connector as the code starts it, for every set of candidates and    *)
(* hints and every record bound: when InitDilation leaves connectorState   *)
(* and l2ConnState at "" (ConnectorInit = L2Init = {""}), Dilation never   *)
(* gets going and cannot be cancelled: connectorStateMachine and           *)
(* l2ConnStateMachine drop every event, so no Stop ever produces           *)
(* StopEverything, no candidate is selected and no record reaches the      *)
(* application, contrary to spec sections 4 and 5.                         *)
(***************************************************************************)
THEOREM ZeroStateIsDormant ==
    ASSUME ConnectorInit = {ZeroState}, L2Init = {ZeroState}
    PROVE  Spec => []Dormant
<1>1. Init => Dormant  BY DEF Init, Dormant
<1>. QED  BY <1>1, DormantStep, PTL DEF Spec

=============================================================================
