--------------------------- MODULE TextSendProofs ---------------------------
(***************************************************************************)
(* Proofs about the SendText model, for every set of calls and either      *)
(* verifier choice: every state is well typed, success means the receiver  *)
(* acked, no goroutine sends on its closed channel, and the model          *)
(* implements the abstract SendResult specification.                       *)
(***************************************************************************)
EXTENDS TextSend, TLAPS

\* Where a goroutine's reports have been made: it has sent its one result
\* and closed the channel.
Reported == {"Return", "Done"}

(***************************************************************************)
(* What holds of each call.  Its channel is closed exactly once the        *)
(* goroutine has reported, and then holds one result; before that          *)
(* returnErr is still nil.  A success was acked, an error is one of the    *)
(* errors the mood knows and is returnErr.  The mood is set exactly when   *)
(* the goroutine is done, from returnErr.  The goroutine starts only with  *)
(* SendText and never panics.                                              *)
(***************************************************************************)
CallInv(s) ==
    /\ chClosed[s] <=> gpc[s] \in Reported
    /\ ~chClosed[s] => results[s] = <<>> /\ returnErr[s] = NilErr
    /\ chClosed[s] => Len(results[s]) = 1
    /\ chClosed[s] /\ results[s][1].ok =>
           returnErr[s] = NilErr /\ answer[s] = "ok"
    /\ chClosed[s] /\ ~results[s][1].ok =>
           results[s][1].err \in Errors /\ returnErr[s] = results[s][1].err
    /\ mood[s] = IF gpc[s] = "Done" THEN TextMood(returnErr[s]) ELSE "none"
    /\ cpc[s] = "Start" => gpc[s] = "idle"
    /\ gpc[s] # "Crashed"

\* The inductive invariant.
IInv == TypeOK /\ \A s \in Sends : CallInv(s)

\* The deferred function always picks one of the moods.
LEMMA TextMoodType ==
    ASSUME NEW e
    PROVE  TextMood(e) \in {"happy", "errory", "scary"}
BY DEF TextMood

\* The errors a handshake step can fail with are errors the mood knows.
LEMMA StepErrorsType ==
    ASSUME NEW s
    PROVE  StepErrors(s) \subseteq Errors
BY DEF StepErrors, Errors

\* Every call starts before SendText with nothing reported.
LEMMA InitIInv == Init => IInv
<1> SUFFICES ASSUME Init PROVE IInv  OBVIOUS
<1>1. TypeOK
  <2>1. verifierSet \in BOOLEAN  BY TextAssumption DEF Init
  <2>2. gpc \in [Sends -> GoroutinePcs]  BY DEF Init, GoroutinePcs
  <2>3. results \in [Sends -> Seq(SendResults)]  BY DEF Init
  <2>4. returnErr \in [Sends -> Errors \cup {NilErr}]  BY DEF Init
  <2>5. /\ cpc \in [Sends -> {"Start", "Failed", "Returned"}]
        /\ rc \in [Sends -> {"new", "connected", "closed"}]
        /\ chClosed \in [Sends -> BOOLEAN]
        /\ mood \in [Sends -> {"none", "happy", "errory", "scary"}]
        /\ peer \in [Sends -> {"absent", "right", "wrong"}]
        /\ offered \in [Sends -> BOOLEAN]
        /\ answer \in [Sends -> {"none", "ok", "other"}]
    BY DEF Init
  <2>. QED  BY <2>1, <2>2, <2>3, <2>4, <2>5 DEF TypeOK
<1>2. ASSUME NEW s \in Sends PROVE CallInv(s)
  BY DEF Init, CallInv, Reported
<1>. QED  BY <1>1, <1>2 DEF IInv

-----------------------------------------------------------------------------
\* TypeOK, one variable at a time.
LEMMA TypeParts ==
    TypeOK <=>
    /\ verifierSet \in BOOLEAN
    /\ cpc \in [Sends -> {"Start", "Failed", "Returned"}]
    /\ rc \in [Sends -> {"new", "connected", "closed"}]
    /\ gpc \in [Sends -> GoroutinePcs]
    /\ results \in [Sends -> Seq(SendResults)]
    /\ chClosed \in [Sends -> BOOLEAN]
    /\ returnErr \in [Sends -> Errors \cup {NilErr}]
    /\ mood \in [Sends -> {"none", "happy", "errory", "scary"}]
    /\ peer \in [Sends -> {"absent", "right", "wrong"}]
    /\ offered \in [Sends -> BOOLEAN]
    /\ answer \in [Sends -> {"none", "ok", "other"}]
BY DEF TypeOK

\* Appending a result to one call's channel keeps the channels typed.
LEMMA AppendResultType ==
    ASSUME NEW s \in Sends, NEW e \in Errors \cup {NilErr}, NEW ok \in BOOLEAN,
           results \in [Sends -> Seq(SendResults)]
    PROVE  [results EXCEPT ![s] = Append(@, [ok |-> ok, err |-> e])]
             \in [Sends -> Seq(SendResults)]
<1>1. [ok |-> ok, err |-> e] \in SendResults  BY DEF SendResults
<1>2. Append(results[s], [ok |-> ok, err |-> e]) \in Seq(SendResults)
  BY <1>1
<1>. QED  BY <1>2

(***************************************************************************)
(* A report (sendErr or the OK send) of call s: either the panic, or one   *)
(* result appended, the channel closed and the goroutine at Return; in     *)
(* both cases the goroutine's variables stay typed and the mood is left    *)
(* alone.                                                                  *)
(***************************************************************************)
LEMMA ReportType ==
    ASSUME TypeOK, NEW s \in Sends, NEW e \in Errors,
           SendErr(s, e) \/ Succeed(s)
    PROVE  /\ gpc' \in [Sends -> GoroutinePcs]
           /\ results' \in [Sends -> Seq(SendResults)]
           /\ chClosed' \in [Sends -> BOOLEAN]
           /\ returnErr' \in [Sends -> Errors \cup {NilErr}]
           /\ mood' = mood
<1>0. /\ gpc \in [Sends -> GoroutinePcs]
      /\ results \in [Sends -> Seq(SendResults)]
      /\ chClosed \in [Sends -> BOOLEAN]
      /\ returnErr \in [Sends -> Errors \cup {NilErr}]
  BY TypeParts
<1>1. "Return" \in GoroutinePcs /\ "Crashed" \in GoroutinePcs
  BY DEF GoroutinePcs
<1>2. CASE chClosed[s]
  <2>1. UNCHANGED <<results, chClosed, returnErr, mood>>
        /\ gpc' = [gpc EXCEPT ![s] = "Crashed"]
    BY <1>2 DEF SendErr, Succeed, Panic
  <2>. QED  BY <2>1, <1>0, <1>1
<1>3. CASE ~chClosed[s] /\ SendErr(s, e)
  <2>1. /\ results' = [results EXCEPT ![s] = Append(@, [ok |-> FALSE, err |-> e])]
        /\ returnErr' = [returnErr EXCEPT ![s] = e]
        /\ chClosed' = [chClosed EXCEPT ![s] = TRUE]
        /\ gpc' = [gpc EXCEPT ![s] = "Return"]
        /\ mood' = mood
    BY <1>3 DEF SendErr
  <2>2. results' \in [Sends -> Seq(SendResults)]  BY <2>1, <1>0, AppendResultType
  <2>. QED  BY <2>1, <2>2, <1>0, <1>1
<1>4. CASE ~chClosed[s] /\ Succeed(s)
  <2>1. /\ results' = [results EXCEPT ![s] = Append(@, [ok |-> TRUE, err |-> NilErr])]
        /\ chClosed' = [chClosed EXCEPT ![s] = TRUE]
        /\ gpc' = [gpc EXCEPT ![s] = "Return"]
        /\ UNCHANGED <<returnErr, mood>>
    BY <1>4 DEF Succeed
  <2>2. results' \in [Sends -> Seq(SendResults)]  BY <2>1, <1>0, AppendResultType
  <2>. QED  BY <2>1, <2>2, <1>0, <1>1
<1>. QED  BY <1>2, <1>3, <1>4

(***************************************************************************)
(* Type correctness of each step.                                          *)
(***************************************************************************)
LEMMA TypeStep == IInv /\ [Next]_vars => TypeOK'
<1> SUFFICES ASSUME IInv, [Next]_vars PROVE TypeOK'  OBVIOUS
<1>0. TypeOK  BY DEF IInv
<1>t. /\ verifierSet \in BOOLEAN
      /\ cpc \in [Sends -> {"Start", "Failed", "Returned"}]
      /\ rc \in [Sends -> {"new", "connected", "closed"}]
      /\ gpc \in [Sends -> GoroutinePcs]
      /\ results \in [Sends -> Seq(SendResults)]
      /\ chClosed \in [Sends -> BOOLEAN]
      /\ returnErr \in [Sends -> Errors \cup {NilErr}]
      /\ mood \in [Sends -> {"none", "happy", "errory", "scary"}]
      /\ peer \in [Sends -> {"absent", "right", "wrong"}]
      /\ offered \in [Sends -> BOOLEAN]
      /\ answer \in [Sends -> {"none", "ok", "other"}]
  BY <1>0, TypeParts
<1>u. ASSUME /\ gpc' \in [Sends -> GoroutinePcs]
             /\ results' \in [Sends -> Seq(SendResults)]
             /\ chClosed' \in [Sends -> BOOLEAN]
             /\ returnErr' \in [Sends -> Errors \cup {NilErr}]
             /\ mood' = mood,
             UNCHANGED Env
      PROVE  TypeOK'
  BY <1>t, <1>u DEF Env, TypeOK
<1>p. /\ "WritePake" \in GoroutinePcs /\ "WriteOffer" \in GoroutinePcs
      /\ \A g \in DOMAIN After : After[g] \in GoroutinePcs
  BY DEF GoroutinePcs, After
<1>1. ASSUME NEW s \in Sends, SendText(s) PROVE TypeOK'
  <2>1. PICK o \in MailboxOutcomes :
          /\ rc' = [rc EXCEPT ![s] = o.rc]
          /\ IF o.ok
             THEN cpc' = [cpc EXCEPT ![s] = "Returned"] /\ SendTextMsg(s)
             ELSE /\ cpc' = [cpc EXCEPT ![s] = "Failed"]
                  /\ UNCHANGED <<gpc, results, chClosed, returnErr>>
    BY <1>1 DEF SendText
  <2>2. o.rc \in {"new", "connected", "closed"}
    BY DEF MailboxOutcomes
  <2>3. gpc' \in [Sends -> GoroutinePcs]
    BY <2>1, <1>t, <1>p DEF SendTextMsg
  <2>4. UNCHANGED <<verifierSet, mood, peer, offered, answer, results,
                    chClosed, returnErr>>
    BY <1>1, <2>1 DEF SendText, SendTextMsg
  <2>5. cpc' \in [Sends -> {"Start", "Failed", "Returned"}]  BY <2>1, <1>t
  <2>. QED  BY <2>1, <2>2, <2>3, <2>4, <2>5, <1>t DEF TypeOK
<1>2. ASSUME NEW s \in Sends, HandshakeStep(s) PROVE TypeOK'
  <2>0. gpc[s] \in DOMAIN After  BY <1>2 DEF HandshakeStep, After
  <2>1. CASE Go(s, After[gpc[s]])
    BY <1>2, <2>0, <2>1, <1>t, <1>p, <1>u DEF HandshakeStep, Go
  <2>2. CASE \E e \in StepErrors(s) : SendErr(s, e)
    BY <1>0, <1>2, <2>2, <1>u, ReportType, StepErrorsType DEF HandshakeStep
  <2>. QED  BY <1>2, <2>1, <2>2 DEF HandshakeStep
<1>3. ASSUME NEW s \in Sends, VerifierStep(s) PROVE TypeOK'
  <2>0. "err" \in Errors /\ "rejected" \in Errors  BY DEF Errors
  <2>1. CASE Go(s, "WriteOffer")
    BY <1>3, <2>1, <1>t, <1>p, <1>u DEF VerifierStep, Go
  <2>2. CASE SendErr(s, "err") \/ SendErr(s, "rejected")
    BY <1>0, <1>3, <2>0, <2>2, <1>u, ReportType DEF VerifierStep
  <2>. QED  BY <1>3, <2>1, <2>2 DEF VerifierStep
<1>4. ASSUME NEW s \in Sends, OfferStep(s) PROVE TypeOK'
  <2>0. "err" \in Errors /\ gpc[s] \in DOMAIN After
    BY <1>4 DEF Errors, OfferStep, After
  <2>1. CASE Go(s, After[gpc[s]])
             /\ offered' = [offered EXCEPT ![s] = @ \/ gpc[s] = "WriteOffer"]
    <3>1. offered' \in [Sends -> BOOLEAN]  BY <2>1, <1>t
    <3>2. gpc' \in [Sends -> GoroutinePcs]  BY <2>0, <2>1, <1>t, <1>p DEF Go
    <3>3. UNCHANGED <<verifierSet, cpc, rc, peer, answer, results, chClosed,
                      returnErr, mood>>
      BY <1>4, <2>1 DEF OfferStep, Go
    <3>. QED  BY <3>1, <3>2, <3>3, <1>t DEF TypeOK
  <2>2. CASE SendErr(s, "err") /\ UNCHANGED offered
    BY <1>0, <1>4, <2>0, <2>2, <1>u, ReportType DEF OfferStep, Env
  <2>. QED  BY <1>4, <2>1, <2>2 DEF OfferStep
<1>5. ASSUME NEW s \in Sends, WaitAnswer(s) PROVE TypeOK'
  <2>0. "err" \in Errors  BY DEF Errors
  <2>. QED  BY <1>0, <1>5, <2>0, <1>u, ReportType DEF WaitAnswer
<1>6. ASSUME NEW s \in Sends, Return(s) PROVE TypeOK'
  <2>1. TextMood(returnErr[s]) \in {"none", "happy", "errory", "scary"}
    BY TextMoodType
  <2>2. /\ gpc' \in [Sends -> GoroutinePcs]
        /\ rc' \in [Sends -> {"new", "connected", "closed"}]
        /\ mood' \in [Sends -> {"none", "happy", "errory", "scary"}]
    BY <1>6, <1>t, <2>1 DEF Return, GoroutinePcs
  <2>. QED  BY <1>6, <2>2, <1>t DEF TypeOK, Return
<1>7. ASSUME NEW s \in Sends, PeerJoin(s) PROVE TypeOK'
  <2>1. peer' \in [Sends -> {"absent", "right", "wrong"}]
    BY <1>7, <1>t DEF PeerJoin
  <2>. QED  BY <1>7, <2>1, <1>t DEF TypeOK, PeerJoin
<1>8. ASSUME NEW s \in Sends, PeerAnswer(s) PROVE TypeOK'
  <2>1. answer' \in [Sends -> {"none", "ok", "other"}]
    BY <1>8, <1>t DEF PeerAnswer
  <2>. QED  BY <1>8, <2>1, <1>t DEF TypeOK, PeerAnswer
<1>9. CASE UNCHANGED vars  BY <1>0, <1>9 DEF vars, TypeOK
<1>. QED  BY <1>1, <1>2, <1>3, <1>4, <1>5, <1>6, <1>7, <1>8, <1>9 DEF Next

-----------------------------------------------------------------------------
\* A step of call s leaves every other call's variables as they were.
Untouched(s) ==
    \A t \in Sends \ {s} :
        /\ gpc'[t] = gpc[t] /\ results'[t] = results[t]
        /\ chClosed'[t] = chClosed[t] /\ returnErr'[t] = returnErr[t]
        /\ mood'[t] = mood[t] /\ cpc'[t] = cpc[t] /\ answer'[t] = answer[t]

\* CallInv(t) reads only t's variables.
LEMMA Frame ==
    ASSUME NEW t, CallInv(t),
           gpc'[t] = gpc[t], results'[t] = results[t],
           chClosed'[t] = chClosed[t], returnErr'[t] = returnErr[t],
           mood'[t] = mood[t], cpc'[t] = cpc[t], answer'[t] = answer[t]
    PROVE  CallInv(t)'
BY DEF CallInv, Reported

\* So a step of s that keeps CallInv(s) keeps the invariant of all calls.
LEMMA Others ==
    ASSUME IInv, NEW s \in Sends, Untouched(s), CallInv(s)'
    PROVE  \A t \in Sends : CallInv(t)'
<1> TAKE t \in Sends
<1>1. CASE t = s  BY <1>1
<1>2. CASE t # s
  <2>1. CallInv(t)  BY DEF IInv
  <2>. QED  BY <1>2, <2>1, Frame DEF Untouched
<1>. QED  BY <1>1, <1>2

(***************************************************************************)
(* A goroutine step that moves call s on, between the start and its        *)
(* report, keeps the invariant: nothing is reported yet on either side.    *)
(***************************************************************************)
LEMMA GoCall ==
    ASSUME TypeOK, NEW s \in Sends, CallInv(s),
           NEW to \in GoroutinePcs \ (Reported \cup {"Crashed", "idle"}),
           gpc[s] \notin Reported \cup {"idle"},
           Go(s, to), cpc' = cpc, answer' = answer
    PROVE  CallInv(s)' /\ Untouched(s)
<1>1. gpc' = [gpc EXCEPT ![s] = to]
      /\ UNCHANGED <<results, chClosed, returnErr, mood>>
  BY DEF Go
<1>2. ~chClosed[s] /\ mood[s] = "none" /\ cpc[s] # "Start"
  BY DEF CallInv, Reported
<1>3. gpc'[s] = to  BY <1>1 DEF TypeOK
<1>4. CallInv(s)'  BY <1>1, <1>2, <1>3 DEF CallInv, Reported, GoroutinePcs
<1>5. Untouched(s)  BY <1>1 DEF Untouched, TypeOK
<1>. QED  BY <1>4, <1>5

(***************************************************************************)
(* sendErr(e) of a call that has not reported: one error result, which is  *)
(* returnErr, and the channel closed; no panic.                            *)
(***************************************************************************)
LEMMA SendErrCall ==
    ASSUME TypeOK, NEW s \in Sends, CallInv(s), NEW e \in Errors,
           gpc[s] \notin Reported \cup {"idle"},
           SendErr(s, e), cpc' = cpc, answer' = answer
    PROVE  CallInv(s)' /\ Untouched(s)
<1>1. ~chClosed[s] /\ results[s] = <<>> /\ mood[s] = "none"
      /\ cpc[s] # "Start"
  BY DEF CallInv, Reported
<1>2. /\ results' = [results EXCEPT ![s] = Append(@, [ok |-> FALSE, err |-> e])]
      /\ returnErr' = [returnErr EXCEPT ![s] = e]
      /\ chClosed' = [chClosed EXCEPT ![s] = TRUE]
      /\ gpc' = [gpc EXCEPT ![s] = "Return"]
      /\ mood' = mood
  BY <1>1 DEF SendErr
<1>a. results'[s] = Append(results[s], [ok |-> FALSE, err |-> e])
  BY <1>2 DEF TypeOK
<1>b. Append(<<>>, [ok |-> FALSE, err |-> e]) = <<[ok |-> FALSE, err |-> e]>>
  OBVIOUS
<1>3. /\ results'[s] = <<[ok |-> FALSE, err |-> e]>>
      /\ returnErr'[s] = e /\ chClosed'[s] = TRUE /\ gpc'[s] = "Return"
  BY <1>1, <1>2, <1>a, <1>b DEF TypeOK
<1>4. CallInv(s)'  BY <1>1, <1>2, <1>3 DEF CallInv, Reported
<1>5. Untouched(s)  BY <1>2 DEF Untouched, TypeOK
<1>. QED  BY <1>4, <1>5

\* The OK send of an acked call that has not reported.
LEMMA SucceedCall ==
    ASSUME TypeOK, NEW s \in Sends, CallInv(s), answer[s] = "ok",
           gpc[s] \notin Reported \cup {"idle"},
           Succeed(s), cpc' = cpc, answer' = answer
    PROVE  CallInv(s)' /\ Untouched(s)
<1>1. ~chClosed[s] /\ results[s] = <<>> /\ mood[s] = "none"
      /\ cpc[s] # "Start" /\ returnErr[s] = NilErr
  BY DEF CallInv, Reported
<1>2. /\ results' = [results EXCEPT ![s] = Append(@, [ok |-> TRUE, err |-> NilErr])]
      /\ chClosed' = [chClosed EXCEPT ![s] = TRUE]
      /\ gpc' = [gpc EXCEPT ![s] = "Return"]
      /\ UNCHANGED <<returnErr, mood>>
  BY <1>1 DEF Succeed
<1>a. results'[s] = Append(results[s], [ok |-> TRUE, err |-> NilErr])
  BY <1>2 DEF TypeOK
<1>b. Append(<<>>, [ok |-> TRUE, err |-> NilErr]) = <<[ok |-> TRUE, err |-> NilErr]>>
  OBVIOUS
<1>3. /\ results'[s] = <<[ok |-> TRUE, err |-> NilErr]>>
      /\ chClosed'[s] = TRUE /\ gpc'[s] = "Return"
  BY <1>1, <1>2, <1>a, <1>b DEF TypeOK
<1>4. CallInv(s)'  BY <1>1, <1>2, <1>3 DEF CallInv, Reported
<1>5. Untouched(s)  BY <1>2 DEF Untouched, TypeOK
<1>. QED  BY <1>4, <1>5

(***************************************************************************)
(* Every step keeps each call's invariant, given that it keeps the types.  *)
(***************************************************************************)
LEMMA CallStep ==
    IInv /\ [Next]_vars => \A t \in Sends : CallInv(t)'
<1> SUFFICES ASSUME IInv, [Next]_vars PROVE \A t \in Sends : CallInv(t)'
  OBVIOUS
<1>0. TypeOK  BY DEF IInv
<1>c. ASSUME NEW s \in Sends PROVE CallInv(s)  BY DEF IInv
<1>1. ASSUME NEW s \in Sends, SendText(s) PROVE \A t \in Sends : CallInv(t)'
  <2>0. CallInv(s) /\ gpc[s] = "idle" /\ ~chClosed[s] /\ mood[s] = "none"
    BY <1>1, <1>c DEF SendText, CallInv, Reported
  <2>1. PICK o \in MailboxOutcomes :
          /\ rc' = [rc EXCEPT ![s] = o.rc]
          /\ IF o.ok
             THEN cpc' = [cpc EXCEPT ![s] = "Returned"] /\ SendTextMsg(s)
             ELSE /\ cpc' = [cpc EXCEPT ![s] = "Failed"]
                  /\ UNCHANGED <<gpc, results, chClosed, returnErr>>
    BY <1>1 DEF SendText
  <2>2. /\ cpc'[s] \in {"Returned", "Failed"}
        /\ gpc'[s] \in {"WritePake", "idle"}
        /\ UNCHANGED <<results, chClosed, returnErr, mood, answer>>
    <3>1. UNCHANGED <<mood, answer>>  BY <1>1 DEF SendText
    <3>2. CASE o.ok
      BY <1>0, <2>1, <3>1, <3>2 DEF SendTextMsg, TypeOK
    <3>3. CASE ~o.ok
      BY <1>0, <2>0, <2>1, <3>1, <3>3 DEF TypeOK
    <3>. QED  BY <3>2, <3>3
  <2>3. CallInv(s)'  BY <2>0, <2>2 DEF CallInv, Reported
  <2>4. Untouched(s)  BY <1>0, <2>1, <2>2 DEF Untouched, SendTextMsg, TypeOK
  <2>. QED  BY <2>3, <2>4, Others
<1>2. ASSUME NEW s \in Sends, HandshakeStep(s)
      PROVE \A t \in Sends : CallInv(t)'
  <2>0. /\ gpc[s] \notin Reported \cup {"idle"} /\ cpc' = cpc /\ answer' = answer
        /\ After[gpc[s]] \in GoroutinePcs \ (Reported \cup {"Crashed", "idle"})
    BY <1>2 DEF HandshakeStep, Env, Reported, After, GoroutinePcs
  <2>1. CASE Go(s, After[gpc[s]])
    BY <1>0, <1>c, <2>0, <2>1, GoCall, Others
  <2>2. CASE \E e \in StepErrors(s) : SendErr(s, e)
    BY <1>0, <1>c, <2>0, <2>2, SendErrCall, StepErrorsType, Others
  <2>. QED  BY <1>2, <2>1, <2>2 DEF HandshakeStep
<1>3. ASSUME NEW s \in Sends, VerifierStep(s)
      PROVE \A t \in Sends : CallInv(t)'
  <2>0. /\ gpc[s] \notin Reported \cup {"idle"} /\ cpc' = cpc /\ answer' = answer
        /\ "WriteOffer" \in GoroutinePcs \ (Reported \cup {"Crashed", "idle"})
        /\ "err" \in Errors /\ "rejected" \in Errors
    BY <1>3 DEF VerifierStep, Env, Reported, GoroutinePcs, Errors
  <2>1. CASE Go(s, "WriteOffer")
    BY <1>0, <1>c, <2>0, <2>1, GoCall, Others
  <2>2. CASE SendErr(s, "err") \/ SendErr(s, "rejected")
    BY <1>0, <1>c, <2>0, <2>2, SendErrCall, Others
  <2>. QED  BY <1>3, <2>1, <2>2 DEF VerifierStep
<1>4. ASSUME NEW s \in Sends, OfferStep(s)
      PROVE \A t \in Sends : CallInv(t)'
  <2>0. /\ gpc[s] \notin Reported \cup {"idle"} /\ cpc' = cpc /\ answer' = answer
        /\ After[gpc[s]] \in GoroutinePcs \ (Reported \cup {"Crashed", "idle"})
        /\ "err" \in Errors
    BY <1>4 DEF OfferStep, Reported, After, GoroutinePcs, Errors
  <2>1. CASE Go(s, After[gpc[s]])
    BY <1>0, <1>c, <2>0, <2>1, GoCall, Others
  <2>2. CASE SendErr(s, "err")
    BY <1>0, <1>c, <2>0, <2>2, SendErrCall, Others
  <2>. QED  BY <1>4, <2>1, <2>2 DEF OfferStep
<1>5. ASSUME NEW s \in Sends, WaitAnswer(s)
      PROVE \A t \in Sends : CallInv(t)'
  <2>0. /\ gpc[s] \notin Reported \cup {"idle"} /\ cpc' = cpc /\ answer' = answer
        /\ "err" \in Errors
    BY <1>5 DEF WaitAnswer, Env, Reported, Errors
  <2>1. CASE answer[s] = "ok" /\ Succeed(s)
    BY <1>0, <1>c, <2>0, <2>1, SucceedCall, Others
  <2>2. CASE SendErr(s, "err")
    BY <1>0, <1>c, <2>0, <2>2, SendErrCall, Others
  <2>. QED  BY <1>5, <2>1, <2>2 DEF WaitAnswer
<1>6. ASSUME NEW s \in Sends, Return(s) PROVE \A t \in Sends : CallInv(t)'
  <2>1. gpc'[s] = "Done" /\ mood'[s] = TextMood(returnErr[s])
    BY <1>0, <1>6 DEF Return, TypeOK
  <2>2. CallInv(s)'  BY <1>6, <1>c, <2>1 DEF Return, CallInv, Reported
  <2>3. Untouched(s)  BY <1>0, <1>6 DEF Untouched, Return, TypeOK
  <2>. QED  BY <2>2, <2>3, Others
<1>7. ASSUME NEW s \in Sends, PeerJoin(s) PROVE \A t \in Sends : CallInv(t)'
  BY <1>7, <1>c, Frame DEF PeerJoin
<1>8. ASSUME NEW s \in Sends, PeerAnswer(s) PROVE \A t \in Sends : CallInv(t)'
  <2>1. CallInv(s)'
    <3>1. answer[s] = "none"  BY <1>8 DEF PeerAnswer
    <3>2. answer'[s] \in {"ok", "other"}  BY <1>0, <1>8 DEF PeerAnswer, TypeOK
    <3>. QED  BY <1>8, <1>c, <3>1, <3>2 DEF PeerAnswer, CallInv, Reported
  <2>2. Untouched(s)  BY <1>0, <1>8 DEF Untouched, PeerAnswer, TypeOK
  <2>. QED  BY <2>1, <2>2, Others
<1>9. CASE UNCHANGED vars  BY <1>9, <1>c, Frame DEF vars
<1>. QED  BY <1>1, <1>2, <1>3, <1>4, <1>5, <1>6, <1>7, <1>8, <1>9 DEF Next

\* The strengthened invariant holds in every reachable state.
THEOREM InductiveInvariant == Spec => []IInv
<1>1. Init => IInv  BY InitIInv
<1>2. IInv /\ [Next]_vars => IInv'  BY TypeStep, CallStep DEF IInv
<1>. QED  BY <1>1, <1>2, PTL DEF Spec

-----------------------------------------------------------------------------
(***************************************************************************)
(* Type correctness: every variable of every call keeps its type.          *)
(***************************************************************************)
THEOREM TypeCorrect == Spec => []TypeOK
BY InductiveInvariant, PTL DEF IInv

(***************************************************************************)
(* No SendText goroutine ever sends on its closed channel, which with no   *)
(* recover in its sendErr would panic the process.                        *)
(***************************************************************************)
THEOREM NoPanic == Spec => []NeverSendsOnClosed
<1>1. IInv => NeverSendsOnClosed  BY DEF IInv, CallInv, NeverSendsOnClosed
<1>. QED  BY <1>1, InductiveInvariant, PTL

-----------------------------------------------------------------------------
\* The outcome reported on s's channel, read off CallInv.
LEMMA ResultOfReported ==
    ASSUME IInv, NEW s \in Sends
    PROVE  /\ ~chClosed[s] => ResultOf(s) = "none"
           /\ chClosed[s] => /\ ResultOf(s) \in {"ok"} \cup Errors
                             /\ TextMood(IF ResultOf(s) = "ok" THEN NilErr
                                         ELSE ResultOf(s))
                                = TextMood(returnErr[s])
<1>1. CallInv(s) /\ results[s] \in Seq(SendResults)  BY DEF IInv, TypeOK
<1>2. ASSUME chClosed[s] PROVE results[s] # <<>> /\ results[s][1] \in SendResults
  BY <1>1, <1>2 DEF CallInv
<1>3. ASSUME chClosed[s], results[s][1].ok
      PROVE  ResultOf(s) = "ok" /\ returnErr[s] = NilErr
  BY <1>1, <1>2, <1>3 DEF CallInv, ResultOf
<1>4. ASSUME chClosed[s], ~results[s][1].ok
      PROVE  ResultOf(s) = returnErr[s] /\ returnErr[s] \in Errors
  BY <1>1, <1>2, <1>4 DEF CallInv, ResultOf
<1>5. "ok" \notin Errors  BY DEF Errors
<1>. QED  BY <1>1, <1>3, <1>4, <1>5 DEF CallInv, ResultOf

\* The mapped initial state is the abstract one.
LEMMA InitRefines == Init => RS!Init
BY DEF Init, RS!Init, AbsResult, ResultOf

\* A step that changes no result and no mood maps to a stutter.
LEMMA StutterRefines ==
    ASSUME results' = results, mood' = mood
    PROVE  UNCHANGED <<AbsResult, mood>>
BY DEF AbsResult, ResultOf

(***************************************************************************)
(* A report of call s (sendErr or the OK send) maps to Report(s): the      *)
(* channel was empty and now holds the one outcome.                        *)
(***************************************************************************)
LEMMA ReportRefines ==
    ASSUME IInv, IInv', NEW s \in Sends, ~chClosed[s], chClosed'[s],
           mood' = mood, Untouched(s)
    PROVE  RS!Report(s)
<1>1. AbsResult[s] = "none"  BY ResultOfReported DEF AbsResult
<1>2. ResultOf(s)' \in {"ok"} \cup Errors
  <2>1. CallInv(s)' /\ results'[s] \in Seq(SendResults)  BY DEF IInv, TypeOK
  <2>2. results'[s] # <<>> /\ results'[s][1] \in SendResults
    BY <2>1 DEF CallInv
  <2>. QED  BY <2>1, <2>2 DEF CallInv, ResultOf
<1>3. AbsResult' = [AbsResult EXCEPT ![s] = ResultOf(s)']
  BY DEF AbsResult, ResultOf, Untouched
<1>. QED  BY <1>1, <1>2, <1>3 DEF RS!Report

(***************************************************************************)
(* The goroutine's return of call s maps to Close(s): its outcome is in,   *)
(* and the mood the deferred function derives from returnErr is the mood   *)
(* of that outcome.                                                        *)
(***************************************************************************)
LEMMA ReturnRefines ==
    ASSUME IInv, NEW s \in Sends, Return(s)
    PROVE  RS!Close(s)
<1>1. CallInv(s) /\ chClosed[s] /\ mood[s] = "none"
  BY DEF Return, IInv, CallInv, Reported
<1>2. AbsResult[s] # "none"
  BY <1>1, ResultOfReported DEF AbsResult, Errors
<1>3. mood' = [mood EXCEPT ![s] = TextMood(IF AbsResult[s] = "ok" THEN NilErr
                                           ELSE AbsResult[s])]
  BY <1>1, ResultOfReported DEF Return, AbsResult
<1>4. AbsResult' = AbsResult  BY DEF Return, AbsResult, ResultOf
<1>. QED  BY <1>1, <1>2, <1>3, <1>4 DEF RS!Close

\* sendErr of a call that has not reported maps to Report(s).
LEMMA ErrRefines ==
    ASSUME IInv, IInv', NEW s \in Sends, NEW e \in Errors,
           gpc[s] \notin Reported \cup {"idle"},
           SendErr(s, e), cpc' = cpc, answer' = answer
    PROVE  RS!Report(s)
<1>1. ~chClosed[s] /\ TypeOK /\ CallInv(s)  BY DEF IInv, CallInv, Reported
<1>2. chClosed'[s] /\ mood' = mood  BY <1>1 DEF SendErr, TypeOK
<1>3. Untouched(s)  BY <1>1, SendErrCall
<1>. QED  BY <1>1, <1>2, <1>3, ReportRefines

\* The OK send of an acked call maps to Report(s).
LEMMA OkRefines ==
    ASSUME IInv, IInv', NEW s \in Sends, answer[s] = "ok",
           gpc[s] \notin Reported \cup {"idle"},
           Succeed(s), cpc' = cpc, answer' = answer
    PROVE  RS!Report(s)
<1>1. ~chClosed[s] /\ TypeOK /\ CallInv(s)  BY DEF IInv, CallInv, Reported
<1>2. chClosed'[s] /\ mood' = mood  BY <1>1 DEF Succeed, TypeOK
<1>3. Untouched(s)  BY <1>1, SucceedCall
<1>. QED  BY <1>1, <1>2, <1>3, ReportRefines

(***************************************************************************)
(* Every step maps to a step of SendResult or to a stutter: the reports    *)
(* to Report, the goroutine's return to Close, everything else leaves the  *)
(* channels and the moods alone.                                           *)
(***************************************************************************)
LEMMA RefineStep ==
    IInv /\ IInv' /\ [Next]_vars => [RS!Next]_<<AbsResult, mood>>
<1> SUFFICES ASSUME IInv, IInv', [Next]_vars
             PROVE  [RS!Next]_<<AbsResult, mood>>
  OBVIOUS
<1> DEFINE Stut == UNCHANGED <<AbsResult, mood>>
<1>n. ASSUME NEW s \in Sends, RS!Report(s) \/ RS!Close(s)
      PROVE  [RS!Next]_<<AbsResult, mood>>
  BY <1>n DEF RS!Next
<1>e. /\ "err" \in Errors /\ "rejected" \in Errors
      /\ \A s \in Sends : StepErrors(s) \subseteq Errors
  BY StepErrorsType DEF Errors
<1>1. ASSUME NEW s \in Sends, SendText(s) PROVE Stut
  BY <1>1, StutterRefines DEF SendText, SendTextMsg
<1>2. ASSUME NEW s \in Sends, HandshakeStep(s)
      PROVE [RS!Next]_<<AbsResult, mood>>
  <2>0. gpc[s] \notin Reported \cup {"idle"} /\ cpc' = cpc /\ answer' = answer
    BY <1>2 DEF HandshakeStep, Env, Reported
  <2>1. CASE Go(s, After[gpc[s]])  BY <2>1, StutterRefines DEF Go
  <2>2. CASE \E e \in StepErrors(s) : SendErr(s, e)
    BY <1>e, <1>n, <2>0, <2>2, ErrRefines
  <2>. QED  BY <1>2, <2>1, <2>2 DEF HandshakeStep
<1>3. ASSUME NEW s \in Sends, VerifierStep(s)
      PROVE [RS!Next]_<<AbsResult, mood>>
  <2>0. gpc[s] \notin Reported \cup {"idle"} /\ cpc' = cpc /\ answer' = answer
    BY <1>3 DEF VerifierStep, Env, Reported
  <2>1. CASE Go(s, "WriteOffer")  BY <2>1, StutterRefines DEF Go
  <2>2. CASE SendErr(s, "err") \/ SendErr(s, "rejected")
    BY <1>e, <1>n, <2>0, <2>2, ErrRefines
  <2>. QED  BY <1>3, <2>1, <2>2 DEF VerifierStep
<1>4. ASSUME NEW s \in Sends, OfferStep(s)
      PROVE [RS!Next]_<<AbsResult, mood>>
  <2>0. gpc[s] \notin Reported \cup {"idle"} /\ cpc' = cpc /\ answer' = answer
    BY <1>4 DEF OfferStep, Reported
  <2>1. CASE Go(s, After[gpc[s]])  BY <2>1, StutterRefines DEF Go
  <2>2. CASE SendErr(s, "err")  BY <1>e, <1>n, <2>0, <2>2, ErrRefines
  <2>. QED  BY <1>4, <2>1, <2>2 DEF OfferStep
<1>5. ASSUME NEW s \in Sends, WaitAnswer(s)
      PROVE [RS!Next]_<<AbsResult, mood>>
  <2>0. gpc[s] \notin Reported \cup {"idle"} /\ cpc' = cpc /\ answer' = answer
    BY <1>5 DEF WaitAnswer, Env, Reported
  <2>1. CASE answer[s] = "ok" /\ Succeed(s)
    BY <1>n, <2>0, <2>1, OkRefines
  <2>2. CASE SendErr(s, "err")  BY <1>e, <1>n, <2>0, <2>2, ErrRefines
  <2>. QED  BY <1>5, <2>1, <2>2 DEF WaitAnswer
<1>6. ASSUME NEW s \in Sends, Return(s) PROVE [RS!Next]_<<AbsResult, mood>>
  BY <1>6, <1>n, ReturnRefines
<1>7. ASSUME NEW s \in Sends, PeerJoin(s) \/ PeerAnswer(s) PROVE Stut
  BY <1>7, StutterRefines DEF PeerJoin, PeerAnswer
<1>8. CASE UNCHANGED vars  BY <1>8, StutterRefines DEF vars
<1>. QED  BY <1>1, <1>2, <1>3, <1>4, <1>5, <1>6, <1>7, <1>8 DEF Next

(***************************************************************************)
(* SendText implements the SendResult promise for every set of calls: one *)
(* outcome per call, and the mailbox closed only after it, with the mood   *)
(* the outcome calls for.                                                  *)
(***************************************************************************)
THEOREM Refinement == Spec => ImplementsSendResult
<1>1. Init => RS!Init  BY InitRefines
<1>2. IInv /\ IInv' /\ [Next]_vars => [RS!Next]_<<AbsResult, mood>>
  BY RefineStep
<1>. QED  BY <1>1, <1>2, InductiveInvariant, PTL
          DEF Spec, ImplementsSendResult, RS!Spec

=============================================================================
