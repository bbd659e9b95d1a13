------------------------ MODULE DilationManagerProofs ------------------------
(***************************************************************************)
(* Proofs about the Manager FSM model: type correctness for any number of  *)
(* callers, and agreement between the Manager and the shell when a single  *)
(* event loop drives it.                                                   *)
(***************************************************************************)
EXTENDS DilationManager, TLAPS

Transitions == [to : ManagerStates, out : Seq(ManagerOutputEvents)]

\* The table maps each input event to the handler of its case.
LEMMA TableLookup ==
    /\ ManagerTable["Start"] = OnStart
    /\ ManagerTable["RxPlease"] = OnRxPlease
    /\ ManagerTable["ConnectionMade"] = OnConnectionMade
    /\ ManagerTable["RxReconnecting"] = OnRxReconnecting
    /\ ManagerTable["RxReconnect"] = OnRxReconnect
    /\ ManagerTable["ConnectionLostLeader"] = OnConnectionLostLeader
    /\ ManagerTable["ConnectionLostFollower"] = OnConnectionLostFollower
    /\ ManagerTable["RxHints"] = OnRxHints
    /\ ManagerTable["Stop"] = OnStop
BY DEF ManagerTable

(***************************************************************************)
(* Every step of managerStateMachine, the default branch included, stays   *)
(* in the state and command sets.  The proof goes through the table one    *)
(* event and one row at a time: the provers do not instantiate a           *)
(* quantifier over the rows of a table whose command lists differ in       *)
(* length.                                                                 *)
(***************************************************************************)
LEMMA StepType ==
    ASSUME NEW s \in ManagerStates, NEW e \in ManagerInputEvents
    PROVE  ManagerStep(s, e) \in Transitions
<1> USE DEF Go, Transitions, ManagerStates, ManagerOutputEvents
<1>1. CASE e = "Start"
  <2>0. ManagerStep(s, e) = IF s \in DOMAIN OnStart THEN OnStart[s] ELSE Go(s, <<>>)
    BY <1>1, TableLookup DEF ManagerStep
  <2> USE <2>0 DEF OnStart
  <2>1. CASE s = "Waiting"  BY <2>1
  <2>2. CASE s \notin {"Waiting"}  BY <2>2
  <2>3. QED  BY <2>1, <2>2
<1>2. CASE e = "RxPlease"
  <2>0. ManagerStep(s, e) = IF s \in DOMAIN OnRxPlease THEN OnRxPlease[s] ELSE Go(s, <<>>)
    BY <1>2, TableLookup DEF ManagerStep
  <2> USE <2>0 DEF OnRxPlease
  <2>1. CASE s = "Wanting"  BY <2>1
  <2>2. CASE s \notin {"Wanting"}  BY <2>2
  <2>3. QED  BY <2>1, <2>2
<1>3. CASE e = "ConnectionMade"
  <2>0. ManagerStep(s, e) = IF s \in DOMAIN OnConnectionMade THEN OnConnectionMade[s] ELSE Go(s, <<>>)
    BY <1>3, TableLookup DEF ManagerStep
  <2> USE <2>0 DEF OnConnectionMade
  <2>1. CASE s = "Connecting"  BY <2>1
  <2>2. CASE s \notin {"Connecting"}  BY <2>2
  <2>3. QED  BY <2>1, <2>2
<1>4. CASE e = "RxReconnecting"
  <2>0. ManagerStep(s, e) = IF s \in DOMAIN OnRxReconnecting THEN OnRxReconnecting[s] ELSE Go(s, <<>>)
    BY <1>4, TableLookup DEF ManagerStep
  <2> USE <2>0 DEF OnRxReconnecting
  <2>1. CASE s = "Flushing"  BY <2>1
  <2>2. CASE s \notin {"Flushing"}  BY <2>2
  <2>3. QED  BY <2>1, <2>2
<1>5. CASE e = "RxReconnect"
  <2>0. ManagerStep(s, e) = IF s \in DOMAIN OnRxReconnect THEN OnRxReconnect[s] ELSE Go(s, <<>>)
    BY <1>5, TableLookup DEF ManagerStep
  <2> USE <2>0 DEF OnRxReconnect
  <2>1. CASE s = "Connected"  BY <2>1
  <2>2. CASE s = "Connecting"  BY <2>2
  <2>3. CASE s = "Lonely"  BY <2>3
  <2>4. CASE s \notin {"Connected", "Connecting", "Lonely"}  BY <2>4
  <2>5. QED  BY <2>1, <2>2, <2>3, <2>4
<1>6. CASE e = "ConnectionLostLeader"
  <2>0. ManagerStep(s, e) = IF s \in DOMAIN OnConnectionLostLeader THEN OnConnectionLostLeader[s] ELSE Go(s, <<>>)
    BY <1>6, TableLookup DEF ManagerStep
  <2> USE <2>0 DEF OnConnectionLostLeader
  <2>1. CASE s = "Connected"  BY <2>1
  <2>2. CASE s = "Stopping"  BY <2>2
  <2>3. CASE s \notin {"Connected", "Stopping"}  BY <2>3
  <2>4. QED  BY <2>1, <2>2, <2>3
<1>7. CASE e = "ConnectionLostFollower"
  <2>0. ManagerStep(s, e) = IF s \in DOMAIN OnConnectionLostFollower THEN OnConnectionLostFollower[s] ELSE Go(s, <<>>)
    BY <1>7, TableLookup DEF ManagerStep
  <2> USE <2>0 DEF OnConnectionLostFollower
  <2>1. CASE s = "Connected"  BY <2>1
  <2>2. CASE s = "Abandoning"  BY <2>2
  <2>3. CASE s = "Stopping"  BY <2>3
  <2>4. CASE s \notin {"Connected", "Abandoning", "Stopping"}  BY <2>4
  <2>5. QED  BY <2>1, <2>2, <2>3, <2>4
<1>8. CASE e = "RxHints"
  <2>0. ManagerStep(s, e) = IF s \in DOMAIN OnRxHints THEN OnRxHints[s] ELSE Go(s, <<>>)
    BY <1>8, TableLookup DEF ManagerStep
  <2> USE <2>0 DEF OnRxHints
  <2>1. CASE s = "Wanting"  BY <2>1
  <2>2. CASE s = "Connected"  BY <2>2
  <2>3. CASE s = "Abandoning"  BY <2>3
  <2>4. CASE s = "Flushing"  BY <2>4
  <2>5. CASE s = "Lonely"  BY <2>5
  <2>6. CASE s = "Stopping"  BY <2>6
  <2>7. CASE s = "Connecting"  BY <2>7
  <2>8. CASE s \notin {"Wanting", "Connected", "Abandoning", "Flushing", "Lonely", "Stopping", "Connecting"}  BY <2>8
  <2>9. QED  BY <2>1, <2>2, <2>3, <2>4, <2>5, <2>6, <2>7, <2>8
<1>9. CASE e = "Stop"
  <2>0. ManagerStep(s, e) = IF s \in DOMAIN OnStop THEN OnStop[s] ELSE Go(s, <<>>)
    BY <1>9, TableLookup DEF ManagerStep
  <2> USE <2>0 DEF OnStop
  <2>1. CASE s = "Waiting"  BY <2>1
  <2>2. CASE s = "Wanting"  BY <2>2
  <2>3. CASE s = "Lonely"  BY <2>3
  <2>4. CASE s = "Flushing"  BY <2>4
  <2>5. CASE s = "Connecting"  BY <2>5
  <2>6. CASE s = "Connected"  BY <2>6
  <2>7. CASE s = "Abandoning"  BY <2>7
  <2>8. CASE s \notin {"Waiting", "Wanting", "Lonely", "Flushing", "Connecting", "Connected", "Abandoning"}  BY <2>8
  <2>9. QED  BY <2>1, <2>2, <2>3, <2>4, <2>5, <2>6, <2>7, <2>8
<1>10. QED  BY <1>1, <1>2, <1>3, <1>4, <1>5, <1>6, <1>7, <1>8, <1>9 DEF ManagerInputEvents

-----------------------------------------------------------------------------
\* The shell's attempt flag stays Boolean whatever the command list.
LEMMA AttemptAfterType ==
    ASSUME NEW a \in BOOLEAN, NEW outs
    PROVE  AttemptAfter(a, outs) \in BOOLEAN
BY DEF AttemptAfter

\* The events the environment can deliver are well-typed.
LEMMA EventsNowType ==
    EventsNow \subseteq [ev : ManagerInputEvents, side : Sides \cup {NoSide}]
BY DEF EventsNow, ManagerInputEvents

\* The initial states are well-typed.
LEMMA InitType == Init => TypeOK
<1> SUFFICES ASSUME Init PROVE TypeOK
  OBVIOUS
<1>1. <<>> \in Seq(ManagerOutputEvents)
  OBVIOUS
<1>2. QED
  BY <1>1 DEF Init, TypeOK, ManagerStates, ManagerInputEvents, Roles

\* Every step of Next keeps the variables in their types.
LEMMA TypeStep == TypeOK /\ [Next]_vars => TypeOK'
<1> SUFFICES ASSUME TypeOK, [Next]_vars PROVE TypeOK'
  OBVIOUS
<1>1. ASSUME NEW c \in Callers, Read(c) PROVE TypeOK'
  BY <1>1, EventsNowType DEF Read, TypeOK
<1>2. ASSUME NEW c \in Callers, Write(c) PROVE TypeOK'
  <2> DEFINE t == ManagerStep(snap[c], evt[c].ev)
  <2>1. t \in Transitions
    BY StepType DEF TypeOK
  <2>2. ChooseRole(side, evt[c].side, role) \in Roles \cup {""}
    BY DEF ChooseRole, TypeOK, Roles
  <2>3. AttemptAfter(attempt /\ ~(evt[c].ev = "ConnectionMade"), t.out) \in BOOLEAN
    BY AttemptAfterType DEF TypeOK
  <2>4. QED
    BY <1>2, <2>1, <2>2, <2>3 DEF Write, TypeOK, Transitions, ConnAfter
<1>3. CASE UNCHANGED vars
  BY <1>3 DEF vars, TypeOK
<1>4. QED
  BY <1>1, <1>2, <1>3 DEF Next

(***************************************************************************)
(* Type correctness, for any number of callers: whatever interleaving of   *)
(* unlocked reads and locked writes, the Manager's state, the role, and    *)
(* the command lists stay in their sets.                                   *)
(***************************************************************************)
THEOREM TypeCorrect == Spec => []TypeOK
<1>1. Init => TypeOK
  BY InitType
<1>2. TypeOK /\ [Next]_vars => TypeOK'
  BY TypeStep
<1>3. QED
  BY <1>1, <1>2, PTL DEF Spec

-----------------------------------------------------------------------------
(***************************************************************************)
(* Agreement between the Manager and the shell, as a predicate of the      *)
(* three values it relates.                                                *)
(***************************************************************************)
Agree(a, cn, st) ==
    /\ a <=> st = "Connecting"
    /\ cn = "up" <=> st = "Connected"
    /\ cn = "closing" => st \in {"Abandoning", "Stopping"}

LostEvents == {"ConnectionLostLeader", "ConnectionLostFollower"}

\* The shell's connection state before the commands of a call are applied.
ConnBefore(ev, cn) ==
    IF ev = "ConnectionMade" THEN "up" ELSE IF ev \in LostEvents THEN "none" ELSE cn

(***************************************************************************)
(* One call of managerStateMachine on the current state keeps the          *)
(* agreement, provided the connector reports ConnectionMade only for a     *)
(* running attempt and a loss only for an existing connection.  The proof  *)
(* follows the table row by row; in each row the command list is known and *)
(* the shell's update can be computed.                                     *)
(***************************************************************************)
LEMMA StepKeepsAgreement ==
    ASSUME NEW st \in ManagerStates, NEW ev \in ManagerInputEvents,
           NEW a \in BOOLEAN, NEW cn \in {"none", "up", "closing"},
           Agree(a, cn, st),
           ev = "ConnectionMade" => a,
           ev \in LostEvents => cn # "none"
    PROVE  Agree(AttemptAfter(a /\ ev # "ConnectionMade", ManagerStep(st, ev).out),
                 ConnAfter(ConnBefore(ev, cn), ManagerStep(st, ev).out),
                 ManagerStep(st, ev).to)
<1> USE DEF Agree, ConnBefore, LostEvents, AttemptAfter, StartCmds, ConnAfter, Go
<1>1. CASE ev = "Start"
  <2>0. ManagerStep(st, ev) = IF st \in DOMAIN OnStart THEN OnStart[st] ELSE Go(st, <<>>)
    BY <1>1, TableLookup DEF ManagerStep
  <2> USE <1>1, <2>0 DEF OnStart
  <2>1. CASE st = "Waiting"  BY <2>1
  <2>2. CASE st \notin {"Waiting"}
    BY <2>2
  <2>3. QED  BY <2>1, <2>2
<1>2. CASE ev = "RxPlease"
  <2>0. ManagerStep(st, ev) = IF st \in DOMAIN OnRxPlease THEN OnRxPlease[st] ELSE Go(st, <<>>)
    BY <1>2, TableLookup DEF ManagerStep
  <2> USE <1>2, <2>0 DEF OnRxPlease
  <2>1. CASE st = "Wanting"  BY <2>1
  <2>2. CASE st \notin {"Wanting"}
    BY <2>2
  <2>3. QED  BY <2>1, <2>2
<1>3. CASE ev = "ConnectionMade"
  <2>0. ManagerStep(st, ev) = IF st \in DOMAIN OnConnectionMade THEN OnConnectionMade[st] ELSE Go(st, <<>>)
    BY <1>3, TableLookup DEF ManagerStep
  <2> USE <1>3, <2>0 DEF OnConnectionMade
  <2>1. CASE st = "Connecting"  BY <2>1
  <2>2. CASE st \notin {"Connecting"}
    BY <2>2
  <2>3. QED  BY <2>1, <2>2
<1>4. CASE ev = "RxReconnecting"
  <2>0. ManagerStep(st, ev) = IF st \in DOMAIN OnRxReconnecting THEN OnRxReconnecting[st] ELSE Go(st, <<>>)
    BY <1>4, TableLookup DEF ManagerStep
  <2> USE <1>4, <2>0 DEF OnRxReconnecting
  <2>1. CASE st = "Flushing"  BY <2>1
  <2>2. CASE st \notin {"Flushing"}
    BY <2>2
  <2>3. QED  BY <2>1, <2>2
<1>5. CASE ev = "RxReconnect"
  <2>0. ManagerStep(st, ev) = IF st \in DOMAIN OnRxReconnect THEN OnRxReconnect[st] ELSE Go(st, <<>>)
    BY <1>5, TableLookup DEF ManagerStep
  <2> USE <1>5, <2>0 DEF OnRxReconnect
  <2>1. CASE st = "Connected"  BY <2>1
  <2>2. CASE st = "Connecting"  BY <2>2
  <2>3. CASE st = "Lonely"  BY <2>3
  <2>4. CASE st \notin {"Connected", "Connecting", "Lonely"}
    BY <2>4
  <2>5. QED  BY <2>1, <2>2, <2>3, <2>4
<1>6. CASE ev = "ConnectionLostLeader"
  <2>0. ManagerStep(st, ev) = IF st \in DOMAIN OnConnectionLostLeader THEN OnConnectionLostLeader[st] ELSE Go(st, <<>>)
    BY <1>6, TableLookup DEF ManagerStep
  <2> USE <1>6, <2>0 DEF OnConnectionLostLeader
  <2>1. CASE st = "Connected"  BY <2>1
  <2>2. CASE st = "Stopping"  BY <2>2
  <2>3. CASE st \notin {"Connected", "Stopping"}
    BY <2>3
  <2>4. QED  BY <2>1, <2>2, <2>3
<1>7. CASE ev = "ConnectionLostFollower"
  <2>0. ManagerStep(st, ev) = IF st \in DOMAIN OnConnectionLostFollower THEN OnConnectionLostFollower[st] ELSE Go(st, <<>>)
    BY <1>7, TableLookup DEF ManagerStep
  <2> USE <1>7, <2>0 DEF OnConnectionLostFollower
  <2>1. CASE st = "Connected"  BY <2>1
  <2>2. CASE st = "Abandoning"  BY <2>2
  <2>3. CASE st = "Stopping"  BY <2>3
  <2>4. CASE st \notin {"Connected", "Abandoning", "Stopping"}
    BY <2>4
  <2>5. QED  BY <2>1, <2>2, <2>3, <2>4
<1>8. CASE ev = "RxHints"
  <2>0. ManagerStep(st, ev) = IF st \in DOMAIN OnRxHints THEN OnRxHints[st] ELSE Go(st, <<>>)
    BY <1>8, TableLookup DEF ManagerStep
  <2> USE <1>8, <2>0 DEF OnRxHints
  <2>1. CASE st = "Wanting"  BY <2>1
  <2>2. CASE st = "Connected"  BY <2>2
  <2>3. CASE st = "Abandoning"  BY <2>3
  <2>4. CASE st = "Flushing"  BY <2>4
  <2>5. CASE st = "Lonely"  BY <2>5
  <2>6. CASE st = "Stopping"  BY <2>6
  <2>7. CASE st = "Connecting"  BY <2>7
  <2>8. CASE st \notin {"Wanting", "Connected", "Abandoning", "Flushing", "Lonely", "Stopping", "Connecting"}
    BY <2>8
  <2>9. QED  BY <2>1, <2>2, <2>3, <2>4, <2>5, <2>6, <2>7, <2>8
<1>9. CASE ev = "Stop"
  <2>0. ManagerStep(st, ev) = IF st \in DOMAIN OnStop THEN OnStop[st] ELSE Go(st, <<>>)
    BY <1>9, TableLookup DEF ManagerStep
  <2> USE <1>9, <2>0 DEF OnStop
  <2>1. CASE st = "Waiting"  BY <2>1
  <2>2. CASE st = "Wanting"  BY <2>2
  <2>3. CASE st = "Lonely"  BY <2>3
  <2>4. CASE st = "Flushing"  BY <2>4
  <2>5. CASE st = "Connecting"  BY <2>5
  <2>6. CASE st = "Connected"  BY <2>6
  <2>7. CASE st = "Abandoning"  BY <2>7
  <2>8. CASE st \notin {"Waiting", "Wanting", "Lonely", "Flushing", "Connecting", "Connected", "Abandoning"}
    BY <2>8
  <2>9. QED  BY <2>1, <2>2, <2>3, <2>4, <2>5, <2>6, <2>7, <2>8
<1>10. QED  BY <1>1, <1>2, <1>3, <1>4, <1>5, <1>6, <1>7, <1>8, <1>9 DEF ManagerInputEvents


-----------------------------------------------------------------------------
(***************************************************************************)
(* The inductive strengthening of ShellAgreesWithManager.  The agreement   *)
(* alone is not inductive: a Write applies an event to a snapshot, so the  *)
(* snapshot must still be the Manager's state and the event must still be  *)
(* one the shell could deliver (ConnectionMade only while an attempt runs, *)
(* a loss only while a connection exists).  With one caller nothing can    *)
(* change the state between its Read and its Write.                        *)
(***************************************************************************)
SnapsCurrent ==
    \A c \in Callers : phase[c] = "read" =>
        /\ snap[c] = managerState
        /\ evt[c] \in EventsNow

IInv == TypeOK /\ ShellAgreesWithManager /\ SnapsCurrent

\* A deliverable event respects the shell's state.
LEMMA DeliverableEvent ==
    ASSUME NEW e \in EventsNow
    PROVE  /\ e.ev = "ConnectionMade" => attempt
           /\ e.ev \in LostEvents => conn # "none"
BY DEF EventsNow, LostEvents

\* With one caller, every step of Next keeps the inductive invariant.
LEMMA IInvStep ==
    ASSUME NEW c0, Callers = {c0}, IInv, [Next]_vars
    PROVE  IInv'
<1>1. TypeOK'
  BY TypeStep DEF IInv
<1>2. CASE Read(c0)
  <2>1. ShellAgreesWithManager'
    BY <1>2 DEF Read, IInv, ShellAgreesWithManager
  <2>2. EventsNow' = EventsNow
    BY <1>2 DEF Read, EventsNow
  <2>3. SnapsCurrent'
    BY <1>2, <2>2 DEF Read, IInv, TypeOK, SnapsCurrent
  <2>4. QED  BY <1>1, <2>1, <2>3 DEF IInv
<1>3. CASE Write(c0)
  <2> DEFINE st == snap[c0]
             ev == evt[c0].ev
             t  == ManagerStep(st, ev)
  <2>1. phase[c0] = "read"
    BY <1>3 DEF Write
  <2>2. st = managerState /\ evt[c0] \in EventsNow
    BY <2>1 DEF IInv, SnapsCurrent
  <2>3. /\ ev = "ConnectionMade" => attempt
        /\ ev \in LostEvents => conn # "none"
    BY <2>2, DeliverableEvent
  <2>4. ev \in ManagerInputEvents /\ st \in ManagerStates
    BY <2>1 DEF IInv, TypeOK
  <2>5. /\ attempt \in BOOLEAN
        /\ conn \in {"none", "up", "closing"}
        /\ Agree(attempt, conn, st)
    BY <2>2 DEF IInv, TypeOK, ShellAgreesWithManager, Agree
  <2>6. Agree(AttemptAfter(attempt /\ ev # "ConnectionMade", t.out),
              ConnAfter(ConnBefore(ev, conn), t.out),
              t.to)
    BY <2>3, <2>4, <2>5, StepKeepsAgreement
  <2>7. /\ managerState' = t.to
        /\ attempt' = AttemptAfter(attempt /\ ev # "ConnectionMade", t.out)
        /\ conn' = ConnAfter(ConnBefore(ev, conn), t.out)
    BY <1>3, <2>2 DEF Write, ConnBefore, LostEvents
  <2>8. ShellAgreesWithManager'
    BY <2>6, <2>7 DEF Agree, ShellAgreesWithManager
  <2>9. SnapsCurrent'
    BY <1>3 DEF Write, IInv, TypeOK, SnapsCurrent
  <2>10. QED  BY <1>1, <2>8, <2>9 DEF IInv
<1>4. CASE UNCHANGED vars
  BY <1>4 DEF IInv, vars, TypeOK, ShellAgreesWithManager, SnapsCurrent, EventsNow
<1>5. QED
  BY <1>2, <1>3, <1>4 DEF Next

(***************************************************************************)
(* With a single caller of managerStateMachine (calls do not overlap), the *)
(* shell and the Manager agree in every reachable state: a connection      *)
(* attempt runs exactly while the Manager is Connecting, a connection is   *)
(* up exactly while it is Connected, and one is being abandoned only in    *)
(* Abandoning or Stopping.  With two overlapping callers the run           *)
(* dilation_race shows the lock-free read breaks the Manager itself.      *)
(***************************************************************************)
THEOREM ShellAgreement ==
    ASSUME NEW c0, Callers = {c0}
    PROVE  Spec => []ShellAgreesWithManager
<1>1. Init => IInv
  BY InitType DEF IInv, Init, ShellAgreesWithManager, SnapsCurrent
<1>2. IInv /\ [Next]_vars => IInv'
  BY IInvStep
<1>3. QED
  BY <1>1, <1>2, PTL DEF Spec, IInv

-----------------------------------------------------------------------------
\* The calls for ChooseRole in a command list.
CallsChooseRole(outs) == \E i \in DOMAIN outs : outs[i] = "ChooseRole"

(***************************************************************************)
(* Three facts about the table, each read off its rows: no row leaves      *)
(* Stopped, no row enters Waiting or Wanting from a later state, and only  *)
(* the row Wanting + RxPlease (which goes to Connecting) calls for         *)
(* ChooseRole.                                                             *)
(***************************************************************************)
LEMMA StepShape ==
    ASSUME NEW st \in ManagerStates, NEW ev \in ManagerInputEvents
    PROVE  /\ st = "Stopped" => ManagerStep(st, ev).to = "Stopped"
           /\ ManagerStep(st, ev).to \in {"Waiting", "Wanting"} =>
                 st \in {"Waiting", "Wanting"}
           /\ CallsChooseRole(ManagerStep(st, ev).out) =>
                 st = "Wanting" /\ ManagerStep(st, ev).to = "Connecting"
<1> USE DEF CallsChooseRole, Go
<1>1. CASE ev = "Start"
  <2>0. ManagerStep(st, ev) = IF st \in DOMAIN OnStart THEN OnStart[st] ELSE Go(st, <<>>)
    BY <1>1, TableLookup DEF ManagerStep
  <2> USE <1>1, <2>0 DEF OnStart
  <2>1. CASE st = "Waiting"  BY <2>1
  <2>2. CASE st \notin {"Waiting"}
    BY <2>2
  <2>3. QED  BY <2>1, <2>2
<1>2. CASE ev = "RxPlease"
  <2>0. ManagerStep(st, ev) = IF st \in DOMAIN OnRxPlease THEN OnRxPlease[st] ELSE Go(st, <<>>)
    BY <1>2, TableLookup DEF ManagerStep
  <2> USE <1>2, <2>0 DEF OnRxPlease
  <2>1. CASE st = "Wanting"  BY <2>1
  <2>2. CASE st \notin {"Wanting"}
    BY <2>2
  <2>3. QED  BY <2>1, <2>2
<1>3. CASE ev = "ConnectionMade"
  <2>0. ManagerStep(st, ev) = IF st \in DOMAIN OnConnectionMade THEN OnConnectionMade[st] ELSE Go(st, <<>>)
    BY <1>3, TableLookup DEF ManagerStep
  <2> USE <1>3, <2>0 DEF OnConnectionMade
  <2>1. CASE st = "Connecting"  BY <2>1
  <2>2. CASE st \notin {"Connecting"}
    BY <2>2
  <2>3. QED  BY <2>1, <2>2
<1>4. CASE ev = "RxReconnecting"
  <2>0. ManagerStep(st, ev) = IF st \in DOMAIN OnRxReconnecting THEN OnRxReconnecting[st] ELSE Go(st, <<>>)
    BY <1>4, TableLookup DEF ManagerStep
  <2> USE <1>4, <2>0 DEF OnRxReconnecting
  <2>1. CASE st = "Flushing"  BY <2>1
  <2>2. CASE st \notin {"Flushing"}
    BY <2>2
  <2>3. QED  BY <2>1, <2>2
<1>5. CASE ev = "RxReconnect"
  <2>0. ManagerStep(st, ev) = IF st \in DOMAIN OnRxReconnect THEN OnRxReconnect[st] ELSE Go(st, <<>>)
    BY <1>5, TableLookup DEF ManagerStep
  <2> USE <1>5, <2>0 DEF OnRxReconnect
  <2>1. CASE st = "Connected"  BY <2>1
  <2>2. CASE st = "Connecting"  BY <2>2
  <2>3. CASE st = "Lonely"  BY <2>3
  <2>4. CASE st \notin {"Connected", "Connecting", "Lonely"}
    BY <2>4
  <2>5. QED  BY <2>1, <2>2, <2>3, <2>4
<1>6. CASE ev = "ConnectionLostLeader"
  <2>0. ManagerStep(st, ev) = IF st \in DOMAIN OnConnectionLostLeader THEN OnConnectionLostLeader[st] ELSE Go(st, <<>>)
    BY <1>6, TableLookup DEF ManagerStep
  <2> USE <1>6, <2>0 DEF OnConnectionLostLeader
  <2>1. CASE st = "Connected"  BY <2>1
  <2>2. CASE st = "Stopping"  BY <2>2
  <2>3. CASE st \notin {"Connected", "Stopping"}
    BY <2>3
  <2>4. QED  BY <2>1, <2>2, <2>3
<1>7. CASE ev = "ConnectionLostFollower"
  <2>0. ManagerStep(st, ev) = IF st \in DOMAIN OnConnectionLostFollower THEN OnConnectionLostFollower[st] ELSE Go(st, <<>>)
    BY <1>7, TableLookup DEF ManagerStep
  <2> USE <1>7, <2>0 DEF OnConnectionLostFollower
  <2>1. CASE st = "Connected"  BY <2>1
  <2>2. CASE st = "Abandoning"  BY <2>2
  <2>3. CASE st = "Stopping"  BY <2>3
  <2>4. CASE st \notin {"Connected", "Abandoning", "Stopping"}
    BY <2>4
  <2>5. QED  BY <2>1, <2>2, <2>3, <2>4
<1>8. CASE ev = "RxHints"
  <2>0. ManagerStep(st, ev) = IF st \in DOMAIN OnRxHints THEN OnRxHints[st] ELSE Go(st, <<>>)
    BY <1>8, TableLookup DEF ManagerStep
  <2> USE <1>8, <2>0 DEF OnRxHints
  <2>1. CASE st = "Wanting"  BY <2>1
  <2>2. CASE st = "Connected"  BY <2>2
  <2>3. CASE st = "Abandoning"  BY <2>3
  <2>4. CASE st = "Flushing"  BY <2>4
  <2>5. CASE st = "Lonely"  BY <2>5
  <2>6. CASE st = "Stopping"  BY <2>6
  <2>7. CASE st = "Connecting"  BY <2>7
  <2>8. CASE st \notin {"Wanting", "Connected", "Abandoning", "Flushing", "Lonely", "Stopping", "Connecting"}
    BY <2>8
  <2>9. QED  BY <2>1, <2>2, <2>3, <2>4, <2>5, <2>6, <2>7, <2>8
<1>9. CASE ev = "Stop"
  <2>0. ManagerStep(st, ev) = IF st \in DOMAIN OnStop THEN OnStop[st] ELSE Go(st, <<>>)
    BY <1>9, TableLookup DEF ManagerStep
  <2> USE <1>9, <2>0 DEF OnStop
  <2>1. CASE st = "Waiting"  BY <2>1
  <2>2. CASE st = "Wanting"  BY <2>2
  <2>3. CASE st = "Lonely"  BY <2>3
  <2>4. CASE st = "Flushing"  BY <2>4
  <2>5. CASE st = "Connecting"  BY <2>5
  <2>6. CASE st = "Connected"  BY <2>6
  <2>7. CASE st = "Abandoning"  BY <2>7
  <2>8. CASE st \notin {"Waiting", "Wanting", "Lonely", "Flushing", "Connecting", "Connected", "Abandoning"}
    BY <2>8
  <2>9. QED  BY <2>1, <2>2, <2>3, <2>4, <2>5, <2>6, <2>7, <2>8
<1>10. QED  BY <1>1, <1>2, <1>3, <1>4, <1>5, <1>6, <1>7, <1>8, <1>9 DEF ManagerInputEvents

\* Before the Manager leaves Wanting no role has been chosen.
RoleUnsetEarly == managerState \in {"Waiting", "Wanting"} => role = ""

(***************************************************************************)
(* With one caller, a step keeps RoleUnsetEarly, leaves an assigned role   *)
(* alone and does not leave Stopped: the Write applies the table to the    *)
(* current state, and StepShape says what the table does there.            *)
(***************************************************************************)
LEMMA ManagerStepSafe ==
    ASSUME NEW c0, Callers = {c0}, IInv, RoleUnsetEarly, [Next]_vars
    PROVE  /\ RoleUnsetEarly'
           /\ role # "" => role' = role
           /\ managerState = "Stopped" => managerState' = "Stopped"
<1>1. CASE Read(c0)
  BY <1>1 DEF Read, RoleUnsetEarly
<1>2. CASE Write(c0)
  <2> DEFINE st == snap[c0]
             ev == evt[c0].ev
             t  == ManagerStep(st, ev)
  <2>1. st = managerState
    BY <1>2 DEF Write, IInv, SnapsCurrent
  <2>2. ev \in ManagerInputEvents /\ st \in ManagerStates
    BY <1>2 DEF Write, IInv, TypeOK
  <2>3. /\ st = "Stopped" => t.to = "Stopped"
        /\ t.to \in {"Waiting", "Wanting"} => st \in {"Waiting", "Wanting"}
        /\ CallsChooseRole(t.out) => st = "Wanting" /\ t.to = "Connecting"
    BY <2>2, StepShape
  <2>4. /\ managerState' = t.to
        /\ role' = IF CallsChooseRole(t.out)
                   THEN ChooseRole(side, evt[c0].side, role) ELSE role
    BY <1>2, <2>1 DEF Write, CallsChooseRole
  <2>5. QED
    BY <2>1, <2>3, <2>4 DEF RoleUnsetEarly
<1>3. CASE UNCHANGED vars
  BY <1>3 DEF vars, RoleUnsetEarly
<1>4. QED
  BY <1>1, <1>2, <1>3 DEF Next

\* The initial state satisfies both invariants.
LEMMA InitInv == Init => IInv /\ RoleUnsetEarly
BY InitType DEF IInv, Init, ShellAgreesWithManager, SnapsCurrent, RoleUnsetEarly

(***************************************************************************)
(* With a single caller, chooseRole's result is never overwritten: the     *)
(* table calls for ChooseRole only from Wanting, which no later state      *)
(* returns to.  (With two callers the race run shows the Manager itself   *)
(* leaving a state it should keep.)                                        *)
(***************************************************************************)
THEOREM RoleStable ==
    ASSUME NEW c0, Callers = {c0}
    PROVE  Spec => RoleNeverRevised
<1>1. IInv /\ RoleUnsetEarly /\ [Next]_vars => (IInv /\ RoleUnsetEarly)'
  BY IInvStep, ManagerStepSafe
<1>2. IInv /\ RoleUnsetEarly /\ [Next]_vars => [role # "" => role' = role]_vars
  BY ManagerStepSafe
<1>3. QED
  BY InitInv, <1>1, <1>2, PTL DEF Spec, RoleNeverRevised

(***************************************************************************)
(* With a single caller, once managerStateMachine has returned Stopped no  *)
(* later call moves the Manager out of it.                                 *)
(***************************************************************************)
THEOREM StoppedAbsorbing ==
    ASSUME NEW c0, Callers = {c0}
    PROVE  Spec => StoppedIsFinal
<1>1. IInv /\ RoleUnsetEarly /\ [Next]_vars => (IInv /\ RoleUnsetEarly)'
  BY IInvStep, ManagerStepSafe
<1>2. IInv /\ RoleUnsetEarly /\ [Next]_vars =>
        [managerState = "Stopped" => managerState' = "Stopped"]_vars
  BY ManagerStepSafe
<1>3. QED
  BY InitInv, <1>1, <1>2, PTL DEF Spec, StoppedIsFinal


===============================================================================
