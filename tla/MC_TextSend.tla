----------------------------- MODULE MC_TextSend -----------------------------
(***************************************************************************)
(* Model-checking instance of TextSend: two SendText calls on one Client,  *)
(* with and without a verifier, each against a receiver that may type a   *)
(* wrong code and may answer with something other than the "ok" ack.      *)
(***************************************************************************)
EXTENDS TextSend

CONSTANTS s1, s2

MCSends == {s1, s2}
BothChoices == BOOLEAN
=============================================================================
