--------------------------- MODULE DilationCodec ---------------------------
(***************************************************************************)
(* The inbound control-frame decoder of the dilation core: the goroutine   *)
(* started by receiveDilationMsg, which takes decrypted frames from        *)
(* d.msgInput, json.Unmarshals each into ONE map `result` declared outside *)
(* the loop, looks up result["type"] with a .(string) assertion, and       *)
(* pushes the mapped Manager event into d.managerInputEv.  Both channels   *)
(* are unbuffered.  InitDilation leaves them nil, so as written every      *)
(* send and receive on them blocks forever; the model assumes a shell      *)
(* that makes them, sends frames on d.msgInput and takes the events from   *)
(* d.managerInputEv in its event loop (spec section 5).                    *)
(*                                                                         *)
(* A frame is abstracted to its JSON shape: an object with or without a    *)
(* "type" member (a string or not), `null`, a non-object value such as an  *)
(* array, or a syntax error.                                               *)
(***************************************************************************)
EXTENDS Naturals, Sequences

CONSTANTS
    FrameTypes,     \* "type" strings the peer can send
    NonString,      \* a "type" member that is not a JSON string
    Absent,         \* no "type" member
    ObjectTypes,    \* the "type" members object frames carry
    MaxFrames       \* bound on the frames the shell sends

ASSUME CodecAssumption ==
    /\ NonString \notin FrameTypes /\ Absent \notin FrameTypes \cup {NonString}
    /\ ObjectTypes \subseteq FrameTypes \cup {NonString, Absent}
    /\ MaxFrames \in Nat

\* eventMap of receiveDilationMsg.
EventMap ==
    [t \in {"please", "connection-hints", "reconnect", "reconnecting"} |->
        CASE t = "please"           -> "RxPlease"
          [] t = "connection-hints" -> "RxHints"
          [] t = "reconnect"        -> "RxReconnect"
          [] t = "reconnecting"     -> "RxReconnecting"]

TypeValues == FrameTypes \cup {NonString, Absent}

Frames ==
    [kind : {"object"}, type : ObjectTypes]
    \cup [kind : {"null", "nonobject", "malformed"}, type : {Absent}]

NoFrame == [kind |-> "none", type |-> Absent]

VARIABLES
    pending,     \* frame the shell is blocked sending on d.msgInput
    sent,        \* frames the shell has sent so far
    result,      \* the "type" entry of the reused map (Absent if none or nil)
    gpc,         \* goroutine: "recv" (ranging), "send" (pushing), "dead"
    gev,         \* the event the goroutine is pushing
    received,    \* frames the goroutine took, in order
    dispatched,  \* events the shell's loop took from d.managerInputEv
    expected     \* events the frames taken so far stand for

vars == <<pending, sent, result, gpc, gev, received, dispatched, expected>>

ManagerEvents == {EventMap[t] : t \in DOMAIN EventMap}

\* A frame that decodes to an object whose "type" is a known string.
Recognised(f) == f.kind = "object" /\ f.type \in DOMAIN EventMap

\* What the specification says a frame stands for: its event if it is
\* recognised, nothing otherwise (unknown types and decode failures are
\* discarded and never advance state).
ExpectedOf(f) == IF Recognised(f) THEN <<EventMap[f.type]>> ELSE <<>>

(***************************************************************************)
(* json.Unmarshal(plaintext, &result) on the reused map, as seen through   *)
(* its "type" entry: an object merges its members into the map, so one     *)
(* without "type" leaves the previous type in place; `null` sets the map   *)
(* to nil; a non-object value is a type error and a syntax error is caught *)
(* before decoding, both leaving the map untouched.                        *)
(***************************************************************************)
Unmarshal(res, f) ==
    CASE f.kind = "object" -> IF f.type = Absent THEN res ELSE f.type
      [] f.kind = "null"   -> Absent
      [] OTHER             -> res

TypeOK ==
    /\ pending \in Frames \cup {NoFrame}
    /\ sent \in 0..MaxFrames
    /\ result \in TypeValues
    /\ gpc \in {"recv", "send", "dead"}
    /\ gev \in ManagerEvents \cup {"none"}
    /\ received \in Seq(Frames)
    /\ dispatched \in Seq(ManagerEvents)
    /\ expected \in Seq(ManagerEvents)

Init ==
    /\ pending = NoFrame /\ sent = 0
    /\ result = Absent
    /\ gpc = "recv" /\ gev = "none"
    /\ received = <<>> /\ dispatched = <<>> /\ expected = <<>>

\* The shell starts sending a decrypted frame on d.msgInput.
ShellSend(f) ==
    /\ pending = NoFrame /\ sent < MaxFrames
    /\ pending' = f /\ sent' = sent + 1
    /\ UNCHANGED <<result, gpc, gev, received, dispatched, expected>>

\* Receive, ignoring the `ok` of the eventMap lookup: an unknown string
\* type pushes the zero ManagerInputEvent, ManagerInputEventStart.
ReceiveIgnoreOk ==
    LET res == Unmarshal(result, pending)
    IN  /\ gpc = "recv" /\ pending # NoFrame
        /\ pending' = NoFrame
        /\ received' = Append(received, pending)
        /\ expected' = expected \o ExpectedOf(pending)
        /\ result' = res
        /\ gpc' = CASE res = NonString -> "dead"
                    [] res = Absent -> "recv"
                    [] OTHER -> "send"
        /\ gev' = IF res \in DOMAIN EventMap THEN EventMap[res] ELSE "Start"
        /\ UNCHANGED <<sent, dispatched>>

(***************************************************************************)
(* One iteration of the goroutine's loop up to the channel push: receive   *)
(* the frame, unmarshal it into result, look up "type": absent or          *)
(* unknown -> drop it; not a string -> the .(string) assertion panics      *)
(* and the goroutine (and the process) dies; known -> go on to push the    *)
(* event.                                                                  *)
(***************************************************************************)
Receive ==
    LET res == Unmarshal(result, pending)
    IN  /\ gpc = "recv" /\ pending # NoFrame
        /\ pending' = NoFrame
        /\ received' = Append(received, pending)
        /\ expected' = expected \o ExpectedOf(pending)
        /\ result' = res
        /\ gpc' = CASE res = NonString -> "dead"
                    [] res \in DOMAIN EventMap -> "send"
                    [] OTHER -> "recv"
        /\ gev' = IF res \in DOMAIN EventMap THEN EventMap[res] ELSE "none"
        /\ UNCHANGED <<sent, dispatched>>

\* `d.managerInputEv <- event` completes when the shell's loop takes it.
Push ==
    /\ gpc = "send"
    /\ dispatched' = Append(dispatched, gev)
    /\ gpc' = "recv" /\ gev' = "none"
    /\ UNCHANGED <<pending, sent, result, received, expected>>

Next ==
    \/ \E f \in Frames : ShellSend(f)
    \/ Receive
    \/ Push

Spec == Init /\ [][Next]_vars

-----------------------------------------------------------------------------
(***************************************************************************)
(* Decode failures and frames without a known string type are discarded    *)
(* (spec 4.4 and 7): the events pushed to the Manager are exactly those of *)
(* the recognised frames, in order, each once.                             *)
(***************************************************************************)
NoSpuriousEvent ==
    dispatched \o (IF gpc = "send" THEN <<gev>> ELSE <<>>) = expected

=============================================================================
