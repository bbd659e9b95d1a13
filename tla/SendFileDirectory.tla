------------------------- MODULE SendFileDirectory -------------------------
(***************************************************************************)
(* The goroutine sendFileDirectory starts to send a file or a zipped       *)
(* directory (src/wormhole/send.go), with the reader goroutine it starts   *)
(* for the receiver's final ack, the goroutine that closes the connection  *)
(* when ctx is done, and the receiving peer.                               *)
(*                                                                         *)
(* The handshake is a list of calls each of which may fail; a failure      *)
(* calls sendErr (one SendResult{Error} on the 1-slot result channel, then *)
(* close(ch)) and returns, and the deferred function closes the mailbox    *)
(* with a mood derived from returnErr.  After acceptConnection the file is *)
(* written record by record while the reader goroutine waits for one       *)
(* record from the peer and hands it over on the unbuffered recordChan.    *)
(* The file is abstracted to NumRecords records; the peer's SHA-256 is     *)
(* abstracted to the number of records it hashed.                          *)
(***************************************************************************)
EXTENDS Naturals, Sequences

CONSTANTS
    NumRecords,       \* records the file is split into
    VerifierChoices,  \* whether c.VerifierOk is set (subset of BOOLEAN)
    LoggingChoices    \* whether ctx carries a "log-func" (subset of BOOLEAN)

ASSUME SendAssumption ==
    /\ NumRecords \in Nat
    /\ VerifierChoices \subseteq BOOLEAN /\ VerifierChoices # {}
    /\ LoggingChoices \subseteq BOOLEAN /\ LoggingChoices # {}

\* Errors, as far as the deferred mood tells them apart.
Errors == {"err", "decrypt", "rejected"}
NilErr == "nil"

(***************************************************************************)
(* The calls of the handshake, in order.  Each is followed in the code by  *)
(* `if err != nil { sendErr(...); return }`.                              *)
(***************************************************************************)
Steps ==
    <<"WritePake", "ReadPake", "WriteVersion", "ReadVersion", "Verifier",
      "RelayURL", "Listen", "ListenRelay", "MakeTransitMsg", "WriteTransit",
      "WriteOffer", "Collect", "WaitAnswer", "Accept">>

\* The errors a call can return: decryption fails only on messages read
\* from the mailbox, and only the answer can carry errOfferRejected.
StepErrors(s) ==
    CASE s = "ReadVersion" -> {"err", "decrypt"}
      [] s = "WaitAnswer"  -> {"err", "decrypt", "rejected"}
      [] OTHER             -> {"err"}

Idx(s) == CHOOSE i \in DOMAIN Steps : Steps[i] = s

VARIABLES
    verifierSet,  \* c.VerifierOk != nil
    logging,      \* loggingEnabled
    spc,          \* sender goroutine: a step name, "Transfer", "Await",
                  \* "Done" (returned) or "Crashed" (unrecovered panic)
    k,            \* records read from r and written to the connection
    results,      \* values sent on ch, in order
    chClosed,     \* close(ch) has run
    sendOnClosed, \* a send on the closed ch panicked (recovered in sendErr)
    returnErr,    \* returnErr
    mood,         \* mood passed to rc.Close, "none" before the return
    rpc,          \* reader goroutine: "idle", "reading", "sending", "finished"
    rres,         \* what readRecord returned: "none", "ack" or "err"
    ppc,          \* peer: "waiting", "receiving", "acked", "closed"
    recvd,        \* records the peer received
    ackKind,      \* the peer's final ack: "none", "ok", "notok", "garbage"
    ackSha,       \* the records the peer's SHA-256 covers
    connClosed    \* conn.Close() ran (ctx done)

vars == <<verifierSet, logging, spc, k, results, chClosed, sendOnClosed,
          returnErr, mood, rpc, rres, ppc, recvd, ackKind, ackSha, connClosed>>

SendResults == [ok : BOOLEAN, err : Errors \cup {NilErr}]

TypeOK ==
    /\ verifierSet \in BOOLEAN /\ logging \in BOOLEAN
    /\ spc \in {Steps[i] : i \in DOMAIN Steps}
               \cup {"Transfer", "Await", "Done", "Crashed"}
    /\ k \in 0..NumRecords
    /\ results \in Seq(SendResults)
    /\ chClosed \in BOOLEAN /\ sendOnClosed \in BOOLEAN
    /\ returnErr \in Errors \cup {NilErr}
    /\ mood \in {"none", "happy", "errory", "scary"}
    /\ rpc \in {"idle", "reading", "sending", "finished"}
    /\ rres \in {"none", "ack", "err"}
    /\ ppc \in {"waiting", "receiving", "acked", "closed"}
    /\ recvd \in 0..NumRecords
    /\ ackKind \in {"none", "ok", "notok", "garbage"}
    /\ ackSha \in 0..NumRecords
    /\ connClosed \in BOOLEAN

Init ==
    /\ verifierSet \in VerifierChoices /\ logging \in LoggingChoices
    /\ spc = "WritePake" /\ k = 0
    /\ results = <<>> /\ chClosed = FALSE /\ sendOnClosed = FALSE
    /\ returnErr = NilErr /\ mood = "none"
    /\ rpc = "idle" /\ rres = "none"
    /\ ppc = "waiting" /\ recvd = 0 /\ ackKind = "none" /\ ackSha = 0
    /\ connClosed = FALSE

-----------------------------------------------------------------------------
\* The deferred function: the mood rc.Close is called with.
Mood(e) ==
    CASE e \in {NilErr, "rejected"} -> "happy"
      [] e = "decrypt"              -> "scary"
      [] OTHER                      -> "errory"

(***************************************************************************)
(* sendErr(e) followed by return.  On a closed ch the send panics, the     *)
(* recover in sendErr swallows it and close(ch) and returnErr = err are    *)
(* skipped.  The return runs the deferred rc.Close(ctx, mood).             *)
(***************************************************************************)
SendErr(e) ==
    /\ IF chClosed
       THEN /\ sendOnClosed' = TRUE
            /\ UNCHANGED <<results, chClosed, returnErr>>
            /\ mood' = Mood(returnErr)
       ELSE /\ results' = Append(results, [ok |-> FALSE, err |-> e])
            /\ chClosed' = TRUE /\ returnErr' = e
            /\ mood' = Mood(e)
            /\ UNCHANGED sendOnClosed
    /\ spc' = "Done"

\* Unchanged by a step of the sender's own handshake.
PeerAndReader == <<rpc, rres, ppc, recvd, ackKind, ackSha, connClosed>>

\* Call without the return after sendErr: the goroutine goes on.
CallNoReturn(next) ==
    /\ \/ spc' = next /\ UNCHANGED <<results, chClosed, sendOnClosed,
                                      returnErr, mood>>
       \/ \E e \in StepErrors(spc) :
            /\ IF chClosed
               THEN /\ sendOnClosed' = TRUE
                    /\ UNCHANGED <<results, chClosed, returnErr>>
               ELSE /\ results' = Append(results, [ok |-> FALSE, err |-> e])
                    /\ chClosed' = TRUE /\ returnErr' = e
                    /\ UNCHANGED sendOnClosed
            /\ spc' = next /\ UNCHANGED mood
    /\ UNCHANGED <<verifierSet, logging, k>> /\ UNCHANGED PeerAndReader

\* A handshake call that either succeeds or fails with one of its errors.
Call(next) ==
    /\ \/ spc' = next /\ UNCHANGED <<results, chClosed, sendOnClosed,
                                      returnErr, mood>>
       \/ \E e \in StepErrors(spc) : SendErr(e)
    /\ UNCHANGED <<verifierSet, logging, k>> /\ UNCHANGED PeerAndReader

(***************************************************************************)
(* WritePake .. ReadVersion, RelayURL .. Collect, and waitFor(&answer)     *)
(* followed by the FileAck check: call, check, go on.                      *)
(***************************************************************************)
PlainStep ==
    /\ spc \in {"WritePake", "ReadPake", "WriteVersion", "ReadVersion",
                "RelayURL", "Listen", "ListenRelay", "MakeTransitMsg",
                "WriteTransit", "WriteOffer", "Collect", "WaitAnswer"}
    /\ Call(Steps[Idx(spc) + 1])

(***************************************************************************)
(* `if c.VerifierOk != nil`: Verifier() may fail, and a rejected verifier  *)
(* writes an error message to the peer (which may fail) and ends with the  *)
(* rejection error; each is an "err" that sendErr reports.                 *)
(***************************************************************************)
VerifierStep ==
    /\ spc = "Verifier"
    /\ IF verifierSet
       THEN Call("RelayURL")
       ELSE /\ spc' = "RelayURL"
            /\ UNCHANGED <<verifierSet, logging, k, results, chClosed,
                           sendOnClosed, returnErr, mood>>
            /\ UNCHANGED PeerAndReader

(***************************************************************************)
(* acceptConnection.  With logging on, conn.LocalAddr() is called before   *)
(* err is checked: on an error conn is nil and the call panics.  On        *)
(* success the ctx goroutine and the reader goroutine start, and the peer  *)
(* starts receiving.                                                       *)
(***************************************************************************)
AcceptStep ==
    /\ spc = "Accept"
    /\ \/ /\ spc' = "Transfer" /\ rpc' = "reading" /\ ppc' = "receiving"
          /\ UNCHANGED <<results, chClosed, sendOnClosed, returnErr, mood,
                         rres, recvd, ackKind, ackSha, connClosed>>
       \/ /\ logging /\ spc' = "Crashed"
          /\ UNCHANGED <<results, chClosed, sendOnClosed, returnErr, mood>>
          /\ UNCHANGED PeerAndReader
       \/ /\ ~logging /\ SendErr("err") /\ UNCHANGED PeerAndReader
    /\ UNCHANGED <<verifierSet, logging, k>>

\* TransferStep with the loop's bound off by one.
TransferStepOffByOne ==
    /\ spc = "Transfer"
    /\ \/ /\ k <= NumRecords /\ ~connClosed /\ ppc \in {"receiving", "acked"}
          /\ k' = k + 1
          /\ recvd' = IF ppc = "receiving" THEN recvd + 1 ELSE recvd
          /\ UNCHANGED <<spc, results, chClosed, sendOnClosed, returnErr, mood>>
       \/ /\ k < NumRecords /\ SendErr("err") /\ UNCHANGED <<k, recvd>>
       \/ /\ k = NumRecords /\ spc' = "Await"
          /\ UNCHANGED <<k, recvd, results, chClosed, sendOnClosed,
                         returnErr, mood>>
    /\ UNCHANGED <<verifierSet, logging, rpc, rres, ppc, ackKind, ackSha,
                   connClosed>>

(***************************************************************************)
(* One iteration of the write loop.  The `select` on done never leaves the *)
(* loop (its break ends the select) and done is closed only after the      *)
(* recordChan send, so it is left out.  r.Read returns a record, an error, *)
(* or (after the last record) io.EOF, which breaks the loop.  writeRecord  *)
(* fails once the connection is closed on either end, and may fail any     *)
(* time.                                                                   *)
(***************************************************************************)
TransferStep ==
    /\ spc = "Transfer"
    /\ \/ /\ k < NumRecords /\ ~connClosed /\ ppc \in {"receiving", "acked"}
          /\ k' = k + 1
          /\ recvd' = IF ppc = "receiving" THEN recvd + 1 ELSE recvd
          /\ UNCHANGED <<spc, results, chClosed, sendOnClosed, returnErr, mood>>
       \/ /\ k < NumRecords /\ SendErr("err") /\ UNCHANGED <<k, recvd>>
       \/ /\ k = NumRecords /\ spc' = "Await"
          /\ UNCHANGED <<k, recvd, results, chClosed, sendOnClosed,
                         returnErr, mood>>
    /\ UNCHANGED <<verifierSet, logging, rpc, rres, ppc, ackKind, ackSha,
                   connClosed>>

\* The goroutine's err when the final read fails: last assigned by
\* acceptConnection and checked to be nil, since the loop's `n, err :=`
\* declares a new err.
ErrAtAwait == NilErr

\* The success path: a send on a closed ch here is not recovered.
Succeed ==
    IF chClosed
    THEN spc' = "Crashed" /\ UNCHANGED <<results, chClosed, mood>>
    ELSE /\ results' = Append(results, [ok |-> TRUE, err |-> NilErr])
         /\ chClosed' = TRUE /\ spc' = "Done" /\ mood' = Mood(returnErr)

\* AwaitAck without the SHA-256 comparison.
AwaitAckNoSha ==
    /\ spc = "Await" /\ rpc = "sending"
    /\ rpc' = "finished"
    /\ IF rres = "err" THEN SendErr(ErrAtAwait)
       ELSE IF ackKind = "garbage" \/ ackKind = "notok" THEN SendErr("err")
       ELSE Succeed /\ UNCHANGED <<sendOnClosed, returnErr>>
    /\ UNCHANGED <<verifierSet, logging, k, rres, ppc, recvd, ackKind, ackSha,
                   connClosed>>

(***************************************************************************)
(* `recOrErr := <-recordChan` and what follows: a read error is reported   *)
(* with the stale err; an ack that does not unmarshal, is not "ok", or     *)
(* whose SHA-256 differs from the hash of what was read ends in sendErr;   *)
(* otherwise SendResult{OK: true}.                                         *)
(***************************************************************************)
AwaitAck ==
    /\ spc = "Await" /\ rpc = "sending"
    /\ rpc' = "finished"
    /\ IF rres = "err" THEN SendErr(ErrAtAwait)
       ELSE IF ackKind = "garbage" \/ ackKind = "notok" THEN SendErr("err")
       ELSE IF ackSha # k THEN SendErr("err")
       ELSE Succeed /\ UNCHANGED <<sendOnClosed, returnErr>>
    /\ UNCHANGED <<verifierSet, logging, k, rres, ppc, recvd, ackKind, ackSha,
                   connClosed>>

-----------------------------------------------------------------------------
(***************************************************************************)
(* The reader goroutine: readRecord returns the peer's ack once it is      *)
(* sent, or an error once the connection is closed on either end (or on a  *)
(* network error); then `recordChan <- recOrErr` waits for the sender.     *)
(***************************************************************************)
ReaderRead ==
    /\ rpc = "reading"
    /\ \/ ppc = "acked" /\ rres' = "ack"
       \/ rres' = "err"
    /\ rpc' = "sending"
    /\ UNCHANGED <<verifierSet, logging, spc, k, results, chClosed,
                   sendOnClosed, returnErr, mood, ppc, recvd, ackKind, ackSha,
                   connClosed>>

\* The peer sends its final ack, covering what it received; a faulty peer
\* may ack early, refuse, or send something that is not an ack.
PeerAck ==
    /\ ppc = "receiving"
    /\ \E a \in {"ok", "notok", "garbage"} : ackKind' = a
    /\ ackSha' = recvd /\ ppc' = "acked"
    /\ UNCHANGED <<verifierSet, logging, spc, k, results, chClosed,
                   sendOnClosed, returnErr, mood, rpc, rres, recvd, connClosed>>

\* The peer hangs up.
PeerClose ==
    /\ ppc \in {"receiving", "acked"}
    /\ ppc' = "closed"
    /\ UNCHANGED <<verifierSet, logging, spc, k, results, chClosed,
                   sendOnClosed, returnErr, mood, rpc, rres, recvd, ackKind,
                   ackSha, connClosed>>

\* ctx is cancelled; once the connection exists its goroutine closes it.
CtxDone ==
    /\ rpc # "idle" /\ ~connClosed
    /\ connClosed' = TRUE
    /\ UNCHANGED <<verifierSet, logging, spc, k, results, chClosed,
                   sendOnClosed, returnErr, mood, rpc, rres, ppc, recvd,
                   ackKind, ackSha>>

Next ==
    \/ PlainStep \/ VerifierStep \/ AcceptStep
    \/ TransferStep \/ AwaitAck
    \/ ReaderRead \/ PeerAck \/ PeerClose \/ CtxDone

Spec == Init /\ [][Next]_vars

-----------------------------------------------------------------------------
(***************************************************************************)
(* The result channel carries at most one SendResult and sendErr never     *)
(* sends on the closed channel: every sendErr is followed by a return.     *)
(***************************************************************************)
SingleResult == Len(results) <= 1 /\ ~sendOnClosed

(***************************************************************************)
(* The sender reports success only if the receiver got the whole file:     *)
(* the SHA-256 check of the final ack catches a peer that acks "ok"        *)
(* before it has everything.                                               *)
(***************************************************************************)
OKOnlyIfDelivered ==
    \A i \in DOMAIN results : results[i].ok => recvd = NumRecords

(***************************************************************************)
(* A failed transfer is reported as one: a SendResult without OK carries   *)
(* an error (the mid-stream cancel tests only check !OK).                  *)
(***************************************************************************)
FailureReported ==
    \A i \in DOMAIN results : ~results[i].ok => results[i].err # NilErr

(***************************************************************************)
(* When the sender goroutine has returned, the reader goroutine is not     *)
(* left blocked forever in readRecord or on the unbuffered recordChan.     *)
(***************************************************************************)
NoStrandedReader == spc = "Done" => rpc \in {"idle", "finished"}

=============================================================================
