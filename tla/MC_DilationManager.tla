------------------------- MODULE MC_DilationManager -------------------------
(***************************************************************************)
(* Model-checking instance of DilationManager.  Three side values: the     *)
(* local engine can be Leader, Follower or meet an equal side, and with a  *)
(* local side of 2 two please frames can carry sides on opposite sides of *)
(* it, the case in which a second chooseRole would flip the role.         *)
(***************************************************************************)
EXTENDS DilationManager

CONSTANTS c1, c2, NoSideValue

MCSides == {1, 2, 3}

\* One goroutine drives the Manager: the serialized event loop of spec.md 5.
OneCaller == {c1}

\* Two goroutines call managerStateMachine concurrently.
TwoCallers == {c1, c2}

=============================================================================
