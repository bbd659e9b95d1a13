--------------------------- MODULE DilationManager ---------------------------
(***************************************************************************)
(* The dilation Manager FSM of src/unnamed/part_000 (managerStateMachine), *)
(* driven by one or more goroutines ("callers") that each deliver one      *)
(* input event per call.                                                   *)
(*                                                                         *)
(* A call reads d.managerState WITHOUT the lock (currState =               *)
(* d.managerState), computes the next state and the output commands from   *)
(* that snapshot, and then writes the next state under managerStateMu      *)
(* (managerToNewState).  A call is therefore two steps: Read and Write.    *)
(* With a single caller the two are indistinguishable from one atomic      *)
(* step; with several callers another call may write in between.           *)
(*                                                                         *)
(* The imperative shell that consumes the output commands is not in the    *)
(* repository; its contract (spec.md sections 4.1 and 6) is modelled by    *)
(* two variables: attempt (a connection attempt started by                 *)
(* StartConnecting is running) and conn (the state of the established L2   *)
(* connection).  The shell answers a ChooseRole command by calling         *)
(* chooseRole with the side carried by the RxPlease that produced it, and  *)
(* reports the loss of a connection as ConnectionLostLeader or             *)
(* ConnectionLostFollower according to the role.                           *)
(***************************************************************************)
EXTENDS Naturals, Sequences

CONSTANTS
    Callers,    \* goroutines that call managerStateMachine
    Sides,      \* side identifiers; 16-char lowercase hex strings, which
                \* compare as strings exactly as their values compare
    NoSide      \* the payload of an event that carries no side

ASSUME SidesAssumption == Sides \subseteq Nat /\ Sides # {}
ASSUME CallersAssumption == Callers # {}
ASSUME NoSideAssumption == NoSide \notin Sides

VARIABLES
    managerState,   \* d.managerState
    role,           \* d.role ("" until chooseRole succeeds)
    side,           \* d.side, generated once by InitDilation
    phase,          \* phase[c]: "idle", or "read" between Read and Write
    evt,            \* evt[c]: the input event of c's call, with its payload
    snap,           \* snap[c]: currState, the unlocked read of managerState
    out,            \* out[c]: the output commands c's last call returned
    attempt,        \* shell: a connection attempt is running
    conn            \* shell: "none", "up" or "closing" (abandoned, loss not yet reported)

vars == <<managerState, role, side, phase, evt, snap, out, attempt, conn>>

ManagerStates == {"Waiting", "Wanting", "Connecting", "Connected", "Flushing",
                  "Lonely", "Abandoning", "Stopping", "Stopped"}

ManagerInputEvents == {"Start", "RxPlease", "ConnectionMade", "RxReconnecting",
                       "RxReconnect", "ConnectionLostLeader",
                       "ConnectionLostFollower", "RxHints", "Stop"}

ManagerOutputEvents == {"SendPlease", "NotifyStopped", "RxHints", "ChooseRole",
                        "StartConnectingIgnoreMsg", "UseHints", "StopConnecting",
                        "SendReconnecting", "StartConnecting", "SendReconnect",
                        "AbandonConnection"}

Roles == {"Leader", "Follower"}

-----------------------------------------------------------------------------
(***************************************************************************)
(* The transition table.  For each input event, a function from the states *)
(* that handle it (the case labels of the inner switch) to the next state  *)
(* and the output commands.  A state outside the domain takes the default  *)
(* branch: the state is kept and no output is produced.                    *)
(***************************************************************************)
Go(to, outs) == [to |-> to, out |-> outs]

\* Mutant: Start also restarts a stopped Manager (case Waiting, Stopped).
OnStartAfterStop ==
    [Waiting |-> Go("Wanting", <<"SendPlease">>),
     Stopped |-> Go("Wanting", <<"SendPlease">>)]

OnStart == [Waiting |-> Go("Wanting", <<"SendPlease">>)]

\* Mutant: a retransmitted please in Connecting chooses the role again.
OnRxPleaseAgain ==
    [Wanting    |-> Go("Connecting", <<"ChooseRole", "StartConnectingIgnoreMsg">>),
     Connecting |-> Go("Connecting", <<"ChooseRole", "StartConnectingIgnoreMsg">>)]

OnRxPlease ==
    [Wanting |-> Go("Connecting", <<"ChooseRole", "StartConnectingIgnoreMsg">>)]

OnConnectionMade == [Connecting |-> Go("Connected", <<>>)]

OnRxReconnecting == [Flushing |-> Go("Connecting", <<"StartConnecting">>)]

\* Mutant: Connecting + RxReconnect restarts before it stops.
OnRxReconnectStartFirst ==
    [Connected  |-> Go("Abandoning", <<"AbandonConnection">>),
     Connecting |-> Go("Connecting", <<"SendReconnecting", "StartConnecting",
                                       "StopConnecting">>),
     Lonely     |-> Go("Connecting", <<"SendReconnecting", "StartConnecting">>)]

OnRxReconnect ==
    [Connected  |-> Go("Abandoning", <<"AbandonConnection">>),
     Connecting |-> Go("Connecting", <<"StopConnecting", "SendReconnecting",
                                       "StartConnecting">>),
     Lonely     |-> Go("Connecting", <<"SendReconnecting", "StartConnecting">>)]

\* Mutant: a mistyped state string (states are untyped string constants).
OnConnectionLostLeaderTypo ==
    [Connected |-> Go("Flushng", <<"SendReconnect">>),
     Stopping  |-> Go("Stopped", <<"NotifyStopped">>)]

OnConnectionLostLeader ==
    [Connected |-> Go("Flushing", <<"SendReconnect">>),
     Stopping  |-> Go("Stopped", <<"NotifyStopped">>)]

OnConnectionLostFollower ==
    [Connected  |-> Go("Lonely", <<>>),
     Abandoning |-> Go("Connecting", <<"SendReconnecting", "StartConnecting">>),
     Stopping   |-> Go("Stopped", <<"NotifyStopped">>)]

\* The states listed only to do nothing keep their state with no output.
OnRxHints ==
    [Wanting    |-> Go("Wanting", <<>>),
     Connected  |-> Go("Connected", <<>>),
     Abandoning |-> Go("Abandoning", <<>>),
     Flushing   |-> Go("Flushing", <<>>),
     Lonely     |-> Go("Lonely", <<>>),
     Stopping   |-> Go("Stopping", <<>>),
     Connecting |-> Go("Connecting", <<"UseHints">>)]

OnStop ==
    [Waiting    |-> Go("Stopped", <<"NotifyStopped">>),
     Wanting    |-> Go("Stopped", <<"NotifyStopped">>),
     Lonely     |-> Go("Stopped", <<"NotifyStopped">>),
     Flushing   |-> Go("Stopped", <<"NotifyStopped">>),
     Connecting |-> Go("Stopped", <<"StopConnecting", "NotifyStopped">>),
     Connected  |-> Go("Stopping", <<"AbandonConnection">>),
     Abandoning |-> Go("Stopping", <<>>)]

ManagerTable ==
    [Start |-> OnStart, RxPlease |-> OnRxPlease,
     ConnectionMade |-> OnConnectionMade, RxReconnecting |-> OnRxReconnecting,
     RxReconnect |-> OnRxReconnect, ConnectionLostLeader |-> OnConnectionLostLeader,
     ConnectionLostFollower |-> OnConnectionLostFollower, RxHints |-> OnRxHints,
     Stop |-> OnStop]

\* managerStateMachine(event) run on the state currState.
ManagerStep(currState, event) ==
    IF currState \in DOMAIN ManagerTable[event]
    THEN ManagerTable[event][currState]
    ELSE Go(currState, <<>>)

\* chooseRole(otherSide): the greater side leads; equal sides are an error
\* and leave the role as it was.
ChooseRole(mySide, otherSide, oldRole) ==
    IF mySide > otherSide THEN "Leader"
    ELSE IF mySide < otherSide THEN "Follower"
    ELSE oldRole

-----------------------------------------------------------------------------
(***************************************************************************)
(* The shell's view of connections, updated by the commands of one call in *)
(* their order.  An attempt runs after the list if the list starts one     *)
(* that no later StopConnecting stops; a list without StartConnecting,     *)
(* StartConnectingIgnoreMsg or StopConnecting leaves it as it was.         *)
(***************************************************************************)
StartCmds == {"StartConnecting", "StartConnectingIgnoreMsg"}

AttemptAfter(a, outs) ==
    IF \E i \in DOMAIN outs : outs[i] \in StartCmds \cup {"StopConnecting"}
    THEN \E i \in DOMAIN outs :
            /\ outs[i] \in StartCmds
            /\ \A j \in DOMAIN outs : j > i => outs[j] # "StopConnecting"
    ELSE a

ConnAfter(c, outs) ==
    IF c = "up" /\ \E i \in DOMAIN outs : outs[i] = "AbandonConnection"
    THEN "closing" ELSE c

\* The events the environment may deliver: the application and the peer may
\* send anything at any time; the connector reports ConnectionMade only for
\* a running attempt, and a loss only for a connection that exists.
EventsNow ==
    {[ev |-> e, side |-> NoSide] : e \in {"Start", "Stop", "RxHints",
                                          "RxReconnect", "RxReconnecting"}}
    \cup {[ev |-> "RxPlease", side |-> s] : s \in Sides}
    \cup (IF attempt THEN {[ev |-> "ConnectionMade", side |-> NoSide]} ELSE {})
    \cup (IF conn # "none"
          THEN {[ev |-> IF role = "Leader" THEN "ConnectionLostLeader"
                        ELSE "ConnectionLostFollower", side |-> NoSide]}
          ELSE {})

-----------------------------------------------------------------------------
TypeOK ==
    /\ managerState \in ManagerStates
    /\ role \in Roles \cup {""}
    /\ side \in Sides
    /\ phase \in [Callers -> {"idle", "read"}]
    /\ evt \in [Callers -> [ev : ManagerInputEvents, side : Sides \cup {NoSide}]]
    /\ snap \in [Callers -> ManagerStates]
    /\ out \in [Callers -> Seq(ManagerOutputEvents)]
    /\ attempt \in BOOLEAN
    /\ conn \in {"none", "up", "closing"}

\* InitDilation: a fresh side, the Manager in Waiting, no role yet.
Init ==
    /\ managerState = "Waiting"
    /\ role = ""
    /\ side \in Sides
    /\ phase = [c \in Callers |-> "idle"]
    /\ evt = [c \in Callers |-> [ev |-> "Start", side |-> NoSide]]
    /\ snap = [c \in Callers |-> "Waiting"]
    /\ out = [c \in Callers |-> <<>>]
    /\ attempt = FALSE
    /\ conn = "none"

\* Caller c takes an event and reads currState without the lock.
Read(c) ==
    /\ phase[c] = "idle"
    /\ \E e \in EventsNow : evt' = [evt EXCEPT ![c] = e]
    /\ snap' = [snap EXCEPT ![c] = managerState]
    /\ phase' = [phase EXCEPT ![c] = "read"]
    /\ UNCHANGED <<managerState, role, side, out, attempt, conn>>

\* Caller c writes the next state computed from its snapshot under the lock
\* (only when the case changes it) and hands the outputs to the shell, which
\* calls chooseRole for a ChooseRole and updates its connections.
Write(c) ==
    LET t == ManagerStep(snap[c], evt[c].ev)
        made == evt[c].ev = "ConnectionMade"
        lost == evt[c].ev \in {"ConnectionLostLeader", "ConnectionLostFollower"}
    IN  /\ phase[c] = "read"
        /\ managerState' = IF t.to # snap[c] THEN t.to ELSE managerState
        /\ out' = [out EXCEPT ![c] = t.out]
        /\ role' = IF \E i \in DOMAIN t.out : t.out[i] = "ChooseRole"
                   THEN ChooseRole(side, evt[c].side, role) ELSE role
        /\ attempt' = AttemptAfter(attempt /\ ~made, t.out)
        /\ conn' = ConnAfter(IF made THEN "up" ELSE IF lost THEN "none" ELSE conn,
                             t.out)
        /\ phase' = [phase EXCEPT ![c] = "idle"]
        /\ UNCHANGED <<side, evt, snap>>

Next == \E c \in Callers : Read(c) \/ Write(c)

Spec == Init /\ [][Next]_vars

-----------------------------------------------------------------------------
(***************************************************************************)
(* The Manager's state and what the shell was told agree: a *)
(* connection attempt runs exactly while the Manager is Connecting (every  *)
(* StartConnecting is matched by a StopConnecting or a ConnectionMade      *)
(* before the Manager leaves Connecting, and in the list [StopConnecting,  *)
(* SendReconnecting, StartConnecting] the stop comes first), an L2         *)
(* connection is up exactly while it is Connected, and a connection is     *)
(* being abandoned only in Abandoning or Stopping.  In particular the      *)
(* Manager reaches Stopped (and emits NotifyStopped) only once every       *)
(* attempt and connection it caused has been released.                     *)
(***************************************************************************)
ShellAgreesWithManager ==
    /\ attempt <=> managerState = "Connecting"
    /\ conn = "up" <=> managerState = "Connected"
    /\ conn = "closing" => managerState \in {"Abandoning", "Stopping"}

(***************************************************************************)
(* Spec invariant 4: once chooseRole has assigned a role, it is never      *)
(* overwritten.  The code calls for ChooseRole only on Wanting + RxPlease, *)
(* so this holds only if no path of the table ever returns to Wanting.     *)
(***************************************************************************)
RoleNeverRevised == [][role # "" => role' = role]_vars

(***************************************************************************)
(* Spec invariant 2: Stopped is absorbing; no call of managerStateMachine  *)
(* moves the Manager out of Stopped.                                       *)
(***************************************************************************)
StoppedIsFinal == [][managerState = "Stopped" => managerState' = "Stopped"]_vars

(***************************************************************************)
(* A Manager in Stopping still has a connection loss to be told of, the    *)
(* event that takes Stopping to Stopped: shutdown can complete.            *)
(***************************************************************************)
StoppingAwaitsLoss ==
    managerState = "Stopping" => conn = "closing"

=============================================================================
