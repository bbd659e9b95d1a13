----------------------------- MODULE SendResult -----------------------------
(***************************************************************************)
(* What a send promises its caller through the SendResult channel it       *)
(* returns (src/wormhole/send.go): exactly one outcome is reported, and    *)
(* only after that is the mailbox closed, with the mood that outcome       *)
(* calls for.  The detailed sender modules implement this specification    *)
(* under a refinement mapping; a call may stop before reporting (its       *)
(* setup failed, or it waits forever), which this safety specification     *)
(* allows.                                                                 *)
(***************************************************************************)
CONSTANTS
    Calls,      \* the send calls
    Outcomes,   \* what the one SendResult of a call can say
    MoodOf(_)   \* the mood the mailbox is closed with after an outcome

VARIABLES
    result,  \* per call, "none" before its SendResult, then its outcome
    mood     \* per call, "none" before its rc.Close, then the mood

\* Call c reports its one SendResult.
Report(c) ==
    /\ result[c] = "none"
    /\ \E o \in Outcomes : result' = [result EXCEPT ![c] = o]
    /\ UNCHANGED mood

\* Call c closes its mailbox, after its outcome and with that outcome's mood.
Close(c) ==
    /\ result[c] # "none" /\ mood[c] = "none"
    /\ mood' = [mood EXCEPT ![c] = MoodOf(result[c])]
    /\ UNCHANGED result

Init ==
    /\ result = [c \in Calls |-> "none"]
    /\ mood = [c \in Calls |-> "none"]

Next == \E c \in Calls : Report(c) \/ Close(c)

Spec == Init /\ [][Next]_<<result, mood>>

=============================================================================
