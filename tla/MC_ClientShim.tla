---------------------------- MODULE MC_ClientShim ----------------------------
(***************************************************************************)
(* Model-checking instance of ClientShim: two C threads, two addresses a   *)
(* client can be allocated at, one SendText goroutine per client.          *)
(***************************************************************************)
EXTENDS ClientShim

CONSTANTS t1, t2, a1, a2

MCThreads == {t1, t2}
MCAddrs == {a1, a2}
MCMaxHeld == 1
=============================================================================
