----------------------- MODULE MC_SendFileDirectory ------------------------
(***************************************************************************)
(* Model-checking instance of SendFileDirectory: a file of two records     *)
(* (enough for a peer that acks after one), with and without a verifier    *)
(* and with and without logging, called through SendFile or through      *)
(* SendDirectory with no entry or with one.                               *)
(***************************************************************************)
EXTENDS DirectorySend

MCNumRecords == 2
BothChoices == BOOLEAN
MCEntryCounts == {0, 1}
=============================================================================
