------------------------------ MODULE TextSend ------------------------------
(***************************************************************************)
(* Client.SendText (src/wormhole/send.go), called several times on one     *)
(* Client as the tests and the C shim do.  Each call runs                  *)
(* CreateOrAttachMailbox (connect a rendezvous client, create a mailbox),  *)
(* then SendTextMsg starts a goroutine that runs PAKE, the version         *)
(* exchange and the verifier, writes the offer and waits for the answer,   *)
(* and returns its 1-slot result channel.  The goroutine reports through   *)
(* sendErr (send, set returnErr, close; no recover) or through the OK      *)
(* send, and its deferred function closes the mailbox with a mood derived  *)
(* from returnErr.  For each call a receiver joins with the right or a     *)
(* wrong code and answers the offer.  The message, the code and the keys   *)
(* are abstracted away; the calls share only the Client.                   *)
(***************************************************************************)
EXTENDS Naturals, Sequences

CONSTANTS
    Sends,           \* the SendText calls
    VerifierChoices  \* whether c.VerifierOk is set (subset of BOOLEAN)

ASSUME TextAssumption ==
    /\ Sends # {}
    /\ VerifierChoices \subseteq BOOLEAN /\ VerifierChoices # {}

\* Errors, as far as the deferred mood tells them apart: "decrypt" is
\* errDecryptFailed, "rejected" the verifier's abandon error.
Errors == {"err", "decrypt", "rejected"}
NilErr == "nil"

\* The goroutine's call that follows each handshake call.
After == [WritePake |-> "ReadPake", ReadPake |-> "WriteVersion",
          WriteVersion |-> "ReadVersion", ReadVersion |-> "Verifier",
          Verifier |-> "WriteOffer", WriteOffer |-> "Collect",
          Collect |-> "WaitAnswer"]

VARIABLES
    verifierSet, \* c.VerifierOk != nil
    cpc,         \* per call, the caller: "Start", "Failed", "Returned"
    rc,          \* per call, its rendezvous client: "new", "connected",
                 \* "closed"
    gpc,         \* per call, its goroutine: "idle", a key of After,
                 \* "WaitAnswer", "Return" (running its defers), "Done",
                 \* "Crashed"
    results,     \* per call, the values sent on ch, in order
    chClosed,    \* per call, close(ch) has run
    returnErr,   \* per call, returnErr
    mood,        \* per call, the mood passed to rc.Close, "none" before
    peer,        \* per call, the receiver: "absent", or joined with the
                 \* "right" or a "wrong" code
    offered,     \* per call, the offer reached the mailbox
    answer       \* per call, the receiver's answer: "none", "ok", "other"

vars == <<verifierSet, cpc, rc, gpc, results, chClosed, returnErr, mood,
          peer, offered, answer>>

\* What the callers and the receivers hold; a goroutine step leaves it alone.
Env == <<verifierSet, cpc, rc, peer, offered, answer>>

\* Where a goroutine can be.
GoroutinePcs ==
    {"idle", "WritePake", "ReadPake", "WriteVersion", "ReadVersion",
     "Verifier", "WriteOffer", "Collect", "WaitAnswer", "Return", "Done",
     "Crashed"}

SendResults == [ok : BOOLEAN, err : Errors \cup {NilErr}]

TypeOK ==
    /\ verifierSet \in BOOLEAN
    /\ cpc \in [Sends -> {"Start", "Failed", "Returned"}]
    /\ rc \in [Sends -> {"new", "connected", "closed"}]
    /\ gpc \in [Sends -> GoroutinePcs]
    /\ results \in [Sends -> Seq(SendResults)]
    /\ chClosed \in [Sends -> BOOLEAN]
    /\ returnErr \in [Sends -> Errors \cup {NilErr}]
    /\ mood \in [Sends -> {"none", "happy", "errory", "scary"}]
    /\ peer \in [Sends -> {"absent", "right", "wrong"}]
    /\ offered \in [Sends -> BOOLEAN]
    /\ answer \in [Sends -> {"none", "ok", "other"}]

Init ==
    /\ verifierSet \in VerifierChoices
    /\ cpc = [s \in Sends |-> "Start"]
    /\ rc = [s \in Sends |-> "new"]
    /\ gpc = [s \in Sends |-> "idle"]
    /\ results = [s \in Sends |-> <<>>]
    /\ chClosed = [s \in Sends |-> FALSE]
    /\ returnErr = [s \in Sends |-> NilErr]
    /\ mood = [s \in Sends |-> "none"]
    /\ peer = [s \in Sends |-> "absent"]
    /\ offered = [s \in Sends |-> FALSE]
    /\ answer = [s \in Sends |-> "none"]

-----------------------------------------------------------------------------
\* The deferred mood with `var mood rendezvous.Mood` for `mood := Errory`.
TextMoodZero(e) ==
    CASE e = NilErr    -> "happy"
      [] e = "decrypt" -> "scary"
      [] OTHER         -> ""

\* The deferred function's mood: Errory unless returnErr is nil (Happy) or
\* errDecryptFailed (Scary).
TextMood(e) ==
    CASE e = NilErr    -> "happy"
      [] e = "decrypt" -> "scary"
      [] OTHER         -> "errory"

\* Call s's goroutine moves to pc `to`, its reports left alone.
Go(s, to) ==
    /\ gpc' = [gpc EXCEPT ![s] = to]
    /\ UNCHANGED <<results, chClosed, returnErr, mood>>

\* Call s's goroutine sends on its closed channel and panics.
Panic(s) ==
    /\ gpc' = [gpc EXCEPT ![s] = "Crashed"]
    /\ UNCHANGED <<results, chClosed, returnErr, mood>>

\* sendErr without `returnErr = err`.
SendErrNoReturnErr(s, e) ==
    IF chClosed[s] THEN Panic(s)
    ELSE /\ results' = [results EXCEPT ![s] = Append(@, [ok |-> FALSE, err |-> e])]
         /\ chClosed' = [chClosed EXCEPT ![s] = TRUE]
         /\ gpc' = [gpc EXCEPT ![s] = "Return"]
         /\ UNCHANGED <<returnErr, mood>>

(***************************************************************************)
(* sendErr(e) followed by return: one SendResult{Error: e}, returnErr = e, *)
(* close(ch).  Unlike the file path's sendErr there is no recover: a send  *)
(* on the closed channel panics the goroutine, and with it the process.    *)
(***************************************************************************)
SendErr(s, e) ==
    IF chClosed[s] THEN Panic(s)
    ELSE /\ results' = [results EXCEPT ![s] = Append(@, [ok |-> FALSE, err |-> e])]
         /\ returnErr' = [returnErr EXCEPT ![s] = e]
         /\ chClosed' = [chClosed EXCEPT ![s] = TRUE]
         /\ gpc' = [gpc EXCEPT ![s] = "Return"]
         /\ UNCHANGED mood

\* The errors call s's handshake step can return: only the version
\* message, the first one encrypted with the PAKE key, fails to decrypt,
\* and it always does when the receiver typed a wrong code.
StepErrors(s) ==
    IF gpc[s] = "ReadVersion" /\ peer[s] = "wrong" THEN {"decrypt", "err"}
    ELSE {"err"}

\* Whether call s's handshake step can succeed: ReadPake needs the
\* receiver's PAKE message, ReadVersion a receiver with the same code.
Succeeds(s) ==
    CASE gpc[s] = "ReadPake"    -> peer[s] # "absent"
      [] gpc[s] = "ReadVersion" -> peer[s] = "right"
      [] OTHER                  -> TRUE

-----------------------------------------------------------------------------
(***************************************************************************)
(* What CreateOrAttachMailbox leaves behind.  An option's error (in        *)
(* SendText) or Connect's returns with the client never connected.  After  *)
(* Connect, both branches (CreateMailbox with no code option;               *)
(* nameplateFromCode then AttachMailbox with one) return each error at      *)
(* once and leave the client connected, or return the code.                *)
(***************************************************************************)
MailboxOutcomes ==
    {[ok |-> FALSE, rc |-> "new"],        \* an option's or rc.Connect's error
     [ok |-> FALSE, rc |-> "connected"],  \* CreateMailbox's, nameplateFromCode's
                                          \* or AttachMailbox's error
     [ok |-> TRUE,  rc |-> "connected"]}

\* SendTextMsg: make the 1-slot channel and start the goroutine.
SendTextMsg(s) ==
    /\ gpc' = [gpc EXCEPT ![s] = "WritePake"]
    /\ UNCHANGED <<results, chClosed, returnErr>>

\* SendText: set up the mailbox, and on success start the sender and
\* return the code.
SendText(s) ==
    /\ cpc[s] = "Start"
    /\ \E o \in MailboxOutcomes :
         /\ rc' = [rc EXCEPT ![s] = o.rc]
         /\ IF o.ok
            THEN cpc' = [cpc EXCEPT ![s] = "Returned"] /\ SendTextMsg(s)
            ELSE /\ cpc' = [cpc EXCEPT ![s] = "Failed"]
                 /\ UNCHANGED <<gpc, results, chClosed, returnErr>>
    /\ UNCHANGED <<verifierSet, mood, peer, offered, answer>>

\* WritePake, ReadPake, WriteVersion, ReadVersion: call, check, go on.
HandshakeStep(s) ==
    /\ gpc[s] \in {"WritePake", "ReadPake", "WriteVersion", "ReadVersion"}
    /\ \/ Succeeds(s) /\ Go(s, After[gpc[s]])
       \/ \E e \in StepErrors(s) : SendErr(s, e)
    /\ UNCHANGED Env

\* VerifierStep with no return after sendErr(writeErr): the rejection is
\* then sent on the closed channel.
VerifierStepNoReturn(s) ==
    /\ gpc[s] = "Verifier"
    /\ IF verifierSet
       THEN \/ Go(s, "WriteOffer")
            \/ SendErr(s, "err")
            \/ /\ ~chClosed[s]
               /\ results' = [results EXCEPT ![s] = Append(@, [ok |-> FALSE, err |-> "err"])]
               /\ returnErr' = [returnErr EXCEPT ![s] = "err"]
               /\ chClosed' = [chClosed EXCEPT ![s] = TRUE]
               /\ gpc' = [gpc EXCEPT ![s] = "Crashed"]
               /\ UNCHANGED mood
            \/ SendErr(s, "rejected")
       ELSE Go(s, "WriteOffer")
    /\ UNCHANGED Env

(***************************************************************************)
(* `if c.VerifierOk != nil`: Verifier() may fail; if the application       *)
(* rejects the verifier the error message is written to the peer, and      *)
(* either that write's error or the rejection is reported.                 *)
(***************************************************************************)
VerifierStep(s) ==
    /\ gpc[s] = "Verifier"
    /\ IF verifierSet
       THEN \/ Go(s, "WriteOffer")       \* VerifierOk returned true
            \/ SendErr(s, "err")         \* Verifier() or WriteAppData failed
            \/ SendErr(s, "rejected")    \* VerifierOk returned false
       ELSE Go(s, "WriteOffer")
    /\ UNCHANGED Env

\* WriteAppData(offer) and Collect(); the offer reaches the receiver.
OfferStep(s) ==
    /\ gpc[s] \in {"WriteOffer", "Collect"}
    /\ \/ /\ Go(s, After[gpc[s]])
          /\ offered' = [offered EXCEPT ![s] = @ \/ gpc[s] = "WriteOffer"]
       \/ SendErr(s, "err") /\ UNCHANGED offered
    /\ UNCHANGED <<verifierSet, cpc, rc, peer, answer>>

\* The `ch <- SendResult{OK: true}; close(ch)` path; also unrecovered.
Succeed(s) ==
    IF chClosed[s] THEN Panic(s)
    ELSE /\ results' = [results EXCEPT ![s] = Append(@, [ok |-> TRUE, err |-> NilErr])]
         /\ chClosed' = [chClosed EXCEPT ![s] = TRUE]
         /\ gpc' = [gpc EXCEPT ![s] = "Return"]
         /\ UNCHANGED <<returnErr, mood>>

(***************************************************************************)
(* collector.waitFor(&answer): an error, or the answer; MessageAck "ok" is *)
(* a success (after the progress callback), anything else is reported as   *)
(* "unexpected answer".                                                    *)
(***************************************************************************)
WaitAnswer(s) ==
    /\ gpc[s] = "WaitAnswer"
    /\ \/ answer[s] = "ok" /\ Succeed(s)
       \/ answer[s] = "other" /\ SendErr(s, "err")
       \/ SendErr(s, "err")
    /\ UNCHANGED Env

\* The goroutine returns: the deferred rc.Close(ctx, mood).
Return(s) ==
    /\ gpc[s] = "Return"
    /\ gpc' = [gpc EXCEPT ![s] = "Done"]
    /\ rc' = [rc EXCEPT ![s] = "closed"]
    /\ mood' = [mood EXCEPT ![s] = TextMood(returnErr[s])]
    /\ UNCHANGED <<verifierSet, cpc, results, chClosed, returnErr, peer,
                   offered, answer>>

-----------------------------------------------------------------------------
\* The receiver joins the mailbox once the code is handed out, typing it
\* right or wrong.
PeerJoin(s) ==
    /\ cpc[s] = "Returned" /\ peer[s] = "absent"
    /\ \E p \in {"right", "wrong"} : peer' = [peer EXCEPT ![s] = p]
    /\ UNCHANGED <<verifierSet, cpc, rc, gpc, results, chClosed, returnErr,
                   mood, offered, answer>>

\* A receiver holding the key answers the offer: MessageAck "ok", or
\* something else.
PeerAnswer(s) ==
    /\ offered[s] /\ peer[s] = "right" /\ answer[s] = "none"
    /\ \E a \in {"ok", "other"} : answer' = [answer EXCEPT ![s] = a]
    /\ UNCHANGED <<verifierSet, cpc, rc, gpc, results, chClosed, returnErr,
                   mood, peer, offered>>

Next ==
    \E s \in Sends :
        \/ SendText(s) \/ HandshakeStep(s) \/ VerifierStep(s) \/ OfferStep(s)
        \/ WaitAnswer(s) \/ Return(s)
        \/ PeerJoin(s) \/ PeerAnswer(s)

Spec == Init /\ [][Next]_vars

-----------------------------------------------------------------------------
(***************************************************************************)
(* No goroutine sends on its closed result channel: with no recover in     *)
(* this sendErr that panic would kill the process.                         *)
(***************************************************************************)
NeverSendsOnClosed == \A s \in Sends : gpc[s] # "Crashed"

\* The outcome call s's result channel reports, "none" before.
ResultOf(s) ==
    IF results[s] = <<>> THEN "none"
    ELSE IF results[s][1].ok THEN "ok" ELSE results[s][1].err

\* What each call's result channel reports.
AbsResult == [s \in Sends |-> ResultOf(s)]

\* The SendResult promise, under the mapping of each call's channel and mood.
RS == INSTANCE SendResult
        WITH Calls <- Sends,
             Outcomes <- {"ok"} \cup Errors,
             MoodOf <- LAMBDA o : TextMood(IF o = "ok" THEN NilErr ELSE o),
             result <- AbsResult, mood <- mood

(***************************************************************************)
(* Every SendText implements the SendResult promise: one outcome, and only *)
(* then the mailbox closed by the deferred function with that outcome's    *)
(* mood (the deferred function reads returnErr, which sendErr must set).   *)
(***************************************************************************)
ImplementsSendResult == RS!Spec

=============================================================================
