------------------------- MODULE DilationCodecProofs ------------------------
(***************************************************************************)
(* Proof that the inbound frame decoder keeps its state well typed, for    *)
(* every set of frame types, every shape of "type" member object frames   *)
(* may carry (a non-string one included) and every frame bound.            *)
(***************************************************************************)
EXTENDS DilationCodec, SequenceTheorems, TLAPS

(***************************************************************************)
(* The inductive invariant: TypeOK, and the goroutine only waits on        *)
(* d.managerInputEv with an event it looked up in eventMap.  Without the   *)
(* second conjunct a Push could append "none" to the dispatched events.    *)
(***************************************************************************)
CInv ==
    /\ TypeOK
    /\ gpc = "send" => gev \in ManagerEvents

\* What json.Unmarshal leaves in the "type" entry is again a "type" value.
LEMMA UnmarshalType ==
    ASSUME NEW res \in TypeValues, NEW f \in Frames
    PROVE  Unmarshal(res, f) \in TypeValues
<1>1. CASE f.kind = "object"
  <2>1. f.type \in ObjectTypes  BY <1>1 DEF Frames
  <2>. QED  BY <1>1, <2>1, CodecAssumption DEF Unmarshal, TypeValues
<1>2. CASE f.kind = "null"  BY <1>2 DEF Unmarshal, TypeValues
<1>3. CASE f.kind \notin {"object", "null"}  BY <1>3 DEF Unmarshal
<1>. QED  BY <1>1, <1>2, <1>3

\* The events a frame stands for are Manager events.
LEMMA ExpectedOfType ==
    ASSUME NEW f \in Frames
    PROVE  ExpectedOf(f) \in Seq(ManagerEvents)
<1>1. CASE Recognised(f)
  <2>1. EventMap[f.type] \in ManagerEvents
    BY <1>1 DEF Recognised, ManagerEvents
  <2>. QED  BY <1>1, <2>1 DEF ExpectedOf
<1>2. CASE ~Recognised(f)  BY <1>2 DEF ExpectedOf
<1>. QED  BY <1>1, <1>2

LEMMA CInvInit == Init => CInv
<1> SUFFICES ASSUME Init PROVE CInv  OBVIOUS
<1>1. sent \in 0..MaxFrames  BY CodecAssumption DEF Init
<1>2. result \in TypeValues  BY DEF Init, TypeValues
<1>3. /\ received \in Seq(Frames) /\ dispatched \in Seq(ManagerEvents)
      /\ expected \in Seq(ManagerEvents)
  BY DEF Init
<1>. QED  BY <1>1, <1>2, <1>3 DEF Init, CInv, TypeOK

\* A frame the shell sends is a frame, within the bound.
LEMMA ShellSendStep ==
    ASSUME CInv, NEW f \in Frames, ShellSend(f)
    PROVE  CInv'
<1>1. pending' \in Frames \cup {NoFrame}  BY DEF ShellSend
<1>2. sent' \in 0..MaxFrames  BY CodecAssumption DEF ShellSend, CInv, TypeOK
<1>. QED  BY <1>1, <1>2 DEF ShellSend, CInv, TypeOK

\* One loop iteration up to the push: the decoded type, the frame taken and
\* the events it stands for are well typed, and a push is only set up with
\* the event eventMap gives.
LEMMA ReceiveStep ==
    ASSUME CInv, Receive
    PROVE  CInv'
<1> DEFINE res == Unmarshal(result, pending)
<1>1. pending \in Frames  BY DEF Receive, CInv, TypeOK, NoFrame
<1>2. res \in TypeValues  BY <1>1, UnmarshalType DEF CInv, TypeOK
<1>3. received' \in Seq(Frames)
  <2>1. received' = Append(received, pending)  BY DEF Receive
  <2>. QED  BY <1>1, <2>1 DEF CInv, TypeOK
<1>4. expected' \in Seq(ManagerEvents)
  <2>1. expected' = expected \o ExpectedOf(pending)  BY DEF Receive
  <2>2. ExpectedOf(pending) \in Seq(ManagerEvents)  BY <1>1, ExpectedOfType
  <2>. QED  BY <2>1, <2>2, ConcatProperties DEF CInv, TypeOK
<1>5. /\ gpc' \in {"recv", "send", "dead"}
      /\ gev' \in ManagerEvents \cup {"none"}
      /\ gpc' = "send" => gev' \in ManagerEvents
  <2>1. /\ gpc' = CASE res = NonString -> "dead"
                    [] res \in DOMAIN EventMap -> "send"
                    [] OTHER -> "recv"
        /\ gev' = IF res \in DOMAIN EventMap THEN EventMap[res] ELSE "none"
    BY DEF Receive, res
  <2>2. \A r \in DOMAIN EventMap : EventMap[r] \in ManagerEvents
    BY Zenon DEF ManagerEvents
  <2>3. gpc' \in {"recv", "send", "dead"}  BY <2>1
  <2>4. gpc' = "send" => res \in DOMAIN EventMap  BY <2>1
  <2>5. gev' \in ManagerEvents \cup {"none"}  BY <2>1, <2>2
  <2>. QED  BY <2>1, <2>2, <2>3, <2>4, <2>5
<1>6. /\ result' = res /\ pending' = NoFrame
      /\ UNCHANGED <<sent, dispatched>>
  BY DEF Receive, res
<1>. QED  BY <1>2, <1>3, <1>4, <1>5, <1>6 DEF CInv, TypeOK

LEMMA CInvStep == CInv /\ [Next]_vars => CInv'
<1> SUFFICES ASSUME CInv, [Next]_vars PROVE CInv'  OBVIOUS
<1>1. CASE \E f \in Frames : ShellSend(f)  BY <1>1, ShellSendStep
<1>2. CASE Receive  BY <1>2, ReceiveStep
<1>3. CASE Push
  <2>1. dispatched' \in Seq(ManagerEvents)  BY <1>3 DEF Push, CInv, TypeOK
  <2>. QED  BY <1>3, <2>1 DEF Push, CInv, TypeOK
<1>4. CASE UNCHANGED vars  BY <1>4 DEF vars, CInv, TypeOK
<1>. QED  BY <1>1, <1>2, <1>3, <1>4 DEF Next

(***************************************************************************)
(* For every set of frame types, every ObjectTypes (non-string "type"      *)
(* members included) and every frame bound, the decoding goroutine's       *)
(* state stays well typed: the reused map's "type" entry is a JSON "type"  *)
(* value, the events it pushes to d.managerInputEv are Manager events, and *)
(* the frame count stays within the bound.                                 *)
(***************************************************************************)
THEOREM CodecTypeCorrect == Spec => []TypeOK
<1>1. CInv => TypeOK  BY DEF CInv
<1>. QED  BY <1>1, CInvInit, CInvStep, PTL DEF Spec
=============================================================================
