---------------------- MODULE SendFileDirectoryProofs -----------------------
(***************************************************************************)
(* Proofs about the sendFileDirectory model, for every file size and every *)
(* choice of verifier and logging: the result channel carries at most one  *)
(* result and is never sent on once closed, and a successful result means  *)
(* the receiver got the whole file.                                        *)
(***************************************************************************)
EXTENDS SendFileDirectory, TLAPS

\* The handshake positions of the sender goroutine.
HandshakeSteps == {Steps[i] : i \in DOMAIN Steps}

(***************************************************************************)
(* The inductive invariant.  The channel is closed exactly when it holds   *)
(* a result, and only once the goroutine has returned (so sendErr is never *)
(* reached again).  The receiver's bookkeeping: it starts receiving only   *)
(* at acceptConnection, receives no more than was written, acks once and   *)
(* only then, and its ack covers what it received, which stops growing     *)
(* once it has acked.  The reader hands over an ack only once there is one *)
(* and always hands over something.  The write loop reaches the final read *)
(* only after writing every record.                                        *)
(***************************************************************************)
IInv ==
    /\ TypeOK
    /\ SingleResult
    /\ chClosed <=> results # <<>>
    /\ chClosed => spc \in {"Done", "Crashed"}
    /\ recvd <= k
    /\ spc = "Await" => k = NumRecords
    /\ spc \in HandshakeSteps => ppc = "waiting"
    /\ ppc \in {"waiting", "receiving"} => ackKind = "none"
    /\ ppc = "acked" => ackKind # "none"
    /\ ackKind # "none" => ackSha = recvd
    /\ rres = "ack" => ackKind # "none"
    /\ rpc = "sending" => rres # "none"
    /\ OKOnlyIfDelivered

\* The positions PlainStep handles.
PlainSteps ==
    {"WritePake", "ReadPake", "WriteVersion", "ReadVersion", "RelayURL",
     "Listen", "ListenRelay", "MakeTransitMsg", "WriteTransit", "WriteOffer",
     "Collect", "WaitAnswer"}

\* Every handshake call but acceptConnection is followed by another call.
LEMMA NextStep ==
    ASSUME NEW s \in PlainSteps
    PROVE  Steps[Idx(s) + 1] \in HandshakeSteps
<1>1. \E i \in 1..14 : Steps[i] = s
  BY DEF PlainSteps, Steps
<1>2. Idx(s) \in 1..14 /\ Steps[Idx(s)] = s
  BY <1>1 DEF Idx, Steps
<1>3. Idx(s) # 14
  BY <1>2 DEF Steps, PlainSteps
<1>4. Idx(s) + 1 \in DOMAIN Steps
  BY <1>2, <1>3 DEF Steps
<1>. QED  BY <1>4 DEF HandshakeSteps

\* Past the handshake the goroutine is at none of its handshake positions.
LEMMA PastHandshake ==
    {"Transfer", "Await", "Done", "Crashed"} \cap HandshakeSteps = {}
BY DEF HandshakeSteps, Steps

\* The errors a call can fail with are errors sendErr and the mood know.
LEMMA StepErrorsType ==
    ASSUME NEW s
    PROVE  StepErrors(s) \subseteq Errors
BY DEF StepErrors, Errors

\* The goroutine starts at WritePake with an open channel and an idle peer.
LEMMA InitIInv == Init => IInv
<1> SUFFICES ASSUME Init PROVE IInv  OBVIOUS
<1>1. "WritePake" \in {Steps[i] : i \in DOMAIN Steps}
  <2>1. "WritePake" = Steps[1] /\ 1 \in DOMAIN Steps  BY DEF Steps
  <2>. QED  BY <2>1
<1>2. TypeOK
  <2>1. verifierSet \in BOOLEAN /\ logging \in BOOLEAN  BY SendAssumption DEF Init
  <2>2. k \in 0..NumRecords  BY SendAssumption DEF Init
  <2>3. results \in Seq(SendResults)  BY DEF Init
  <2>4. returnErr \in Errors \cup {NilErr}  BY DEF Init
  <2>5. spc \in {Steps[i] : i \in DOMAIN Steps}  BY <1>1 DEF Init
  <2>. QED  BY <2>1, <2>2, <2>3, <2>4, <2>5, SendAssumption DEF Init, TypeOK
<1>3. spc \in HandshakeSteps  BY <1>1 DEF Init, HandshakeSteps
<1>. QED  BY <1>2, <1>3 DEF Init, IInv, SingleResult, OKOnlyIfDelivered

(***************************************************************************)
(* sendErr and return, from any point where the channel is still open: one *)
(* failed result, the channel closed, the goroutine done.  The reader      *)
(* goroutine is left alone, or has just handed over its record.            *)
(***************************************************************************)
LEMMA SendErrKeeps ==
    ASSUME IInv, ~chClosed,
           NEW e \in Errors \cup {NilErr}, SendErr(e),
           UNCHANGED <<verifierSet, logging, k, rres, ppc, recvd, ackKind,
                       ackSha, connClosed>>,
           rpc' \in {rpc, "finished"}
    PROVE  IInv'
<1>1. results = <<>>  BY DEF IInv
<1>2. /\ results' = <<[ok |-> FALSE, err |-> e]>>
      /\ chClosed' = TRUE /\ returnErr' = e /\ sendOnClosed' = FALSE
      /\ mood' = Mood(e) /\ spc' = "Done"
  BY <1>1 DEF SendErr, IInv, SingleResult
<1>3. Mood(e) \in {"none", "happy", "errory", "scary"}  BY DEF Mood
<1>4. TypeOK'
  <2>1. results' \in Seq(SendResults)  BY <1>2 DEF SendResults
  <2>2. TypeOK  BY DEF IInv
  <2>3. chClosed' \in BOOLEAN /\ sendOnClosed' \in BOOLEAN  BY <1>2
  <2>4. returnErr' \in Errors \cup {NilErr}
        /\ mood' \in {"none", "happy", "errory", "scary"}
    BY <1>2, <1>3
  <2>5. spc' \in {"Transfer", "Await", "Done", "Crashed"}  BY <1>2
  <2>6. rpc' \in {"idle", "reading", "sending", "finished"}  BY <2>2 DEF TypeOK
  <2>. QED  BY <2>1, <2>2, <2>3, <2>4, <2>5, <2>6 DEF TypeOK
<1>5. ~(spc' \in HandshakeSteps)  BY <1>2 DEF HandshakeSteps, Steps
<1>6. rpc' = "sending" => rres' # "none"  BY DEF IInv
<1>. QED  BY <1>2, <1>4, <1>5, <1>6 DEF IInv, SingleResult, OKOnlyIfDelivered

(***************************************************************************)
(* A handshake call that either moves on to the next handshake position   *)
(* or fails through sendErr and returns.                                   *)
(***************************************************************************)
LEMMA CallKeeps ==
    ASSUME IInv, spc \in HandshakeSteps,
           NEW next \in HandshakeSteps, Call(next)
    PROVE  IInv'
<1>0. ~chClosed /\ results = <<>> /\ ppc = "waiting"
  BY DEF IInv, HandshakeSteps, Steps
<1>1. CASE spc' = next /\ UNCHANGED <<results, chClosed, sendOnClosed,
                                     returnErr, mood>>
  BY <1>0, <1>1 DEF Call, PeerAndReader, IInv, TypeOK, SingleResult,
                    OKOnlyIfDelivered, HandshakeSteps, Steps
<1>2. CASE \E e \in StepErrors(spc) : SendErr(e)
  <2>1. PICK e \in StepErrors(spc) : SendErr(e)  BY <1>2
  <2>2. e \in Errors  BY StepErrorsType
  <2>. QED  BY <1>0, <2>1, <2>2, SendErrKeeps DEF Call, PeerAndReader
<1>. QED  BY <1>1, <1>2 DEF Call

(***************************************************************************)
(* Every step of the sender, the reader goroutine, the ctx goroutine and   *)
(* the receiver keeps the invariant.                                       *)
(***************************************************************************)
LEMMA IInvStep == IInv /\ [Next]_vars => IInv'
<1> SUFFICES ASSUME IInv, [Next]_vars PROVE IInv'  OBVIOUS
<1>0. TypeOK  BY DEF IInv
<1>1. CASE PlainStep
  <2>1. spc \in PlainSteps  BY <1>1 DEF PlainStep, PlainSteps
  <2>2. spc \in HandshakeSteps
    BY <2>1, NextStep DEF PlainSteps, HandshakeSteps, Steps
  <2>. QED  BY <1>1, <2>1, <2>2, NextStep, CallKeeps DEF PlainStep
<1>2. CASE VerifierStep
  <2>1. spc \in HandshakeSteps /\ "RelayURL" \in HandshakeSteps
    <3>1. Steps[5] = "Verifier" /\ Steps[6] = "RelayURL"
          /\ {5, 6} \subseteq DOMAIN Steps
      BY DEF Steps
    <3>. QED  BY <1>2, <3>1 DEF VerifierStep, HandshakeSteps
  <2>2. CASE verifierSet
    BY <1>2, <2>1, <2>2, CallKeeps DEF VerifierStep
  <2>3. CASE ~verifierSet
    <3>1. ~chClosed /\ ppc = "waiting"  BY <2>1, PastHandshake DEF IInv
    <3>2. spc' = "RelayURL" /\ UNCHANGED <<verifierSet, logging, k, results,
                chClosed, sendOnClosed, returnErr, mood>> /\ UNCHANGED PeerAndReader
      BY <1>2, <2>3 DEF VerifierStep
    <3>. QED  BY <1>0, <2>1, <3>1, <3>2
              DEF PeerAndReader, IInv, TypeOK, SingleResult, OKOnlyIfDelivered,
                  HandshakeSteps
  <2>. QED  BY <2>2, <2>3
<1>3. CASE AcceptStep
  <2>1. spc \in HandshakeSteps
    <3>1. Steps[14] = "Accept" /\ 14 \in DOMAIN Steps  BY DEF Steps
    <3>. QED  BY <1>3, <3>1 DEF AcceptStep, HandshakeSteps
  <2>2. ~chClosed /\ ppc = "waiting" /\ ackKind = "none"
    BY <2>1, PastHandshake DEF IInv
  <2>3. ~("Transfer" \in HandshakeSteps) /\ ~("Crashed" \in HandshakeSteps)
    BY DEF HandshakeSteps, Steps
  <2>4. CASE /\ spc' = "Transfer" /\ rpc' = "reading" /\ ppc' = "receiving"
             /\ UNCHANGED <<results, chClosed, sendOnClosed, returnErr, mood,
                            rres, recvd, ackKind, ackSha, connClosed>>
    BY <1>0, <1>3, <2>2, <2>3, <2>4 DEF AcceptStep, IInv, TypeOK, SingleResult,
                                       OKOnlyIfDelivered
  <2>5. CASE /\ logging /\ spc' = "Crashed"
             /\ UNCHANGED <<results, chClosed, sendOnClosed, returnErr, mood>>
             /\ UNCHANGED PeerAndReader
    BY <1>0, <1>3, <2>2, <2>3, <2>5 DEF AcceptStep, PeerAndReader, IInv, TypeOK,
                                       SingleResult, OKOnlyIfDelivered
  <2>6. CASE ~logging /\ SendErr("err") /\ UNCHANGED PeerAndReader
    <3>1. "err" \in Errors  BY DEF Errors
    <3>. QED  BY <1>3, <2>2, <2>6, <3>1, SendErrKeeps DEF AcceptStep, PeerAndReader
  <2>. QED  BY <1>3, <2>4, <2>5, <2>6 DEF AcceptStep
<1>4. CASE TransferStep
  <2>1. ~chClosed /\ results = <<>> /\ spc = "Transfer"
    BY <1>4 DEF TransferStep, IInv
  <2>2. ~("Transfer" \in HandshakeSteps) /\ ~("Await" \in HandshakeSteps)
    BY DEF HandshakeSteps, Steps
  <2>3. CASE /\ k < NumRecords /\ ~connClosed /\ ppc \in {"receiving", "acked"}
             /\ k' = k + 1
             /\ recvd' = IF ppc = "receiving" THEN recvd + 1 ELSE recvd
             /\ UNCHANGED <<spc, results, chClosed, sendOnClosed, returnErr, mood>>
    <3>1. recvd' <= k' /\ recvd' \in 0..NumRecords /\ k' \in 0..NumRecords
      BY <1>0, <2>3, SendAssumption DEF IInv, TypeOK
    <3>2. ackKind # "none" => ackSha = recvd'
      BY <2>3 DEF IInv
    <3>. QED  BY <1>0, <1>4, <2>1, <2>2, <2>3, <3>1, <3>2
              DEF TransferStep, IInv, TypeOK, SingleResult, OKOnlyIfDelivered
  <2>4. CASE k < NumRecords /\ SendErr("err") /\ UNCHANGED <<k, recvd>>
    <3>1. "err" \in Errors  BY DEF Errors
    <3>. QED  BY <1>4, <2>1, <2>4, <3>1, SendErrKeeps DEF TransferStep
  <2>5. CASE /\ k = NumRecords /\ spc' = "Await"
             /\ UNCHANGED <<k, recvd, results, chClosed, sendOnClosed,
                            returnErr, mood>>
    BY <1>0, <1>4, <2>1, <2>2, <2>5 DEF TransferStep, IInv, TypeOK,
                                       SingleResult, OKOnlyIfDelivered
  <2>. QED  BY <1>4, <2>3, <2>4, <2>5 DEF TransferStep
<1>5. CASE AwaitAck
  <2>1. /\ ~chClosed /\ results = <<>> /\ spc = "Await" /\ rpc = "sending"
        /\ k = NumRecords /\ rres \in {"ack", "err"}
    BY <1>0, <1>5 DEF AwaitAck, IInv, TypeOK
  <2>2. rpc' = "finished"
        /\ UNCHANGED <<verifierSet, logging, k, rres, ppc, recvd, ackKind,
                       ackSha, connClosed>>
    BY <1>5 DEF AwaitAck
  <2>3. CASE rres = "err"
    <3>1. SendErr(NilErr)  BY <1>5, <2>3 DEF AwaitAck, ErrAtAwait
    <3>. QED  BY <2>1, <2>2, <3>1, SendErrKeeps
  <2>4. CASE rres # "err" /\ (ackKind = "garbage" \/ ackKind = "notok")
    <3>1. SendErr("err") /\ "err" \in Errors  BY <1>5, <2>4 DEF AwaitAck, Errors
    <3>. QED  BY <2>1, <2>2, <3>1, SendErrKeeps
  <2>5. CASE rres # "err" /\ ~(ackKind = "garbage" \/ ackKind = "notok")
             /\ ackSha # k
    <3>1. SendErr("err") /\ "err" \in Errors  BY <1>5, <2>5 DEF AwaitAck, Errors
    <3>. QED  BY <2>1, <2>2, <3>1, SendErrKeeps
  <2>6. CASE rres # "err" /\ ~(ackKind = "garbage" \/ ackKind = "notok")
             /\ ackSha = k
    <3>1. /\ results' = <<[ok |-> TRUE, err |-> NilErr]>>
          /\ chClosed' = TRUE /\ spc' = "Done" /\ mood' = Mood(returnErr)
          /\ UNCHANGED <<sendOnClosed, returnErr>>
      BY <1>5, <2>1, <2>6 DEF AwaitAck, Succeed
    <3>2. recvd = NumRecords
      BY <2>1, <2>6 DEF IInv
    <3>3. Mood(returnErr) \in {"none", "happy", "errory", "scary"}  BY DEF Mood
    <3>4. TypeOK'
      BY <1>0, <2>2, <3>1, <3>3 DEF TypeOK, SendResults
    <3>5. ~("Done" \in HandshakeSteps)  BY DEF HandshakeSteps, Steps
    <3>. QED  BY <2>2, <3>1, <3>2, <3>4, <3>5 DEF IInv, SingleResult,
                                                 OKOnlyIfDelivered
  <2>. QED  BY <2>3, <2>4, <2>5, <2>6
<1>6. CASE ReaderRead
  BY <1>0, <1>6 DEF ReaderRead, IInv, TypeOK, SingleResult, OKOnlyIfDelivered
<1>7. CASE PeerAck
  <2>1. ~(spc \in HandshakeSteps) /\ ackKind = "none"  BY <1>7 DEF PeerAck, IInv
  <2>. QED  BY <1>0, <1>7, <2>1 DEF PeerAck, IInv, TypeOK, SingleResult,
                                   OKOnlyIfDelivered
<1>8. CASE PeerClose
  <2>1. ~(spc \in HandshakeSteps)  BY <1>8 DEF PeerClose, IInv
  <2>. QED  BY <1>0, <1>8, <2>1 DEF PeerClose, IInv, TypeOK, SingleResult,
                                   OKOnlyIfDelivered
<1>9. CASE CtxDone
  BY <1>0, <1>9 DEF CtxDone, IInv, TypeOK, SingleResult, OKOnlyIfDelivered
<1>10. CASE UNCHANGED vars
  BY <1>10 DEF vars, IInv, TypeOK, SingleResult, OKOnlyIfDelivered
<1>. QED  BY <1>1, <1>2, <1>3, <1>4, <1>5, <1>6, <1>7, <1>8, <1>9, <1>10 DEF Next

\* The sender goroutine's results stay well typed.
THEOREM TypeCorrect == Spec => []TypeOK
<1>1. IInv => TypeOK  BY DEF IInv
<1>. QED  BY InitIInv, IInvStep, <1>1, PTL DEF Spec

(***************************************************************************)
(* sendErr is always followed by a return: the 1-slot result channel       *)
(* receives at most one SendResult and no send on the closed channel ever  *)
(* happens, for every file size, verifier and logging setting.             *)
(***************************************************************************)
THEOREM ResultSentOnce == Spec => []SingleResult
<1>1. IInv => SingleResult  BY DEF IInv
<1>. QED  BY InitIInv, IInvStep, <1>1, PTL DEF Spec

(***************************************************************************)
(* SendResult{OK: true} is sent only if the receiver got every record of   *)
(* the file: its final ack must say "ok" and carry the SHA-256 of exactly  *)
(* what was written, so an early or partial ack is never taken as success. *)
(***************************************************************************)
THEOREM SuccessMeansDelivered == Spec => []OKOnlyIfDelivered
<1>1. IInv => OKOnlyIfDelivered  BY DEF IInv
<1>. QED  BY InitIInv, IInvStep, <1>1, PTL DEF Spec

=============================================================================
