------------------------- MODULE DirectorySendProofs ------------------------
(***************************************************************************)
(* Proof that a SendDirectory caller never holds its result while the zip  *)
(* file is still open, for every file size, entry count and setting.       *)
(***************************************************************************)
EXTENDS DirectorySend, TLAPS

(***************************************************************************)
(* The inductive invariant.  The intercepting goroutine exists only for a  *)
(* started directory send, has closed the zip once it is past the close,   *)
(* and is the only sender on retCh, which holds nothing until it is done   *)
(* and then exactly the value it took.  The caller has a result only after *)
(* SendDirectory or SendFile returned, and a directory's result comes from *)
(* retCh.                                                                  *)
(***************************************************************************)
ZInv ==
    /\ ipc # "none" => kind = "dir" /\ cpc = "Returned"
    /\ ipc \in {"send", "done"} => zipFd = "closed"
    /\ ipc # "done" => retCh = <<>>
    /\ ipc = "done" => retCh = <<taken>>
    /\ got # NoResult => cpc = "Returned"
    /\ kind = "dir" /\ got # NoResult => retCh # <<>>

LEMMA ZInvInit == DirInit => ZInv
BY DEF DirInit, ZInv

\* Every step of the caller, the wrappers, the goroutine or the intercept
\* keeps ZInv.
LEMMA ZInvStep == ZInv /\ [DirNext]_allVars => ZInv'
<1> SUFFICES ASSUME ZInv, [DirNext]_allVars PROVE ZInv'  OBVIOUS
<1>1. CASE SendFile  BY <1>1 DEF SendFile, ZInv
<1>2. CASE SendDirectory  BY <1>2 DEF SendDirectory, ZInv
<1>3. CASE Prologue  BY <1>3 DEF Prologue, ZInv
<1>4. CASE GoroutineStep  BY <1>4 DEF GoroutineStep, dirVars, ZInv
<1>5. CASE InterceptRecv  BY <1>5 DEF InterceptRecv, ZInv
<1>6. CASE InterceptClose  BY <1>6 DEF InterceptClose, ZInv
<1>7. CASE InterceptSend
  <2>1. retCh = <<>> /\ retCh' = Append(retCh, taken) /\ ipc' = "done"
    BY <1>7 DEF InterceptSend, ZInv
  <2>2. retCh' = <<taken>>  BY <2>1
  <2>. QED  BY <1>7, <2>1, <2>2 DEF InterceptSend, ZInv
<1>8. CASE CallerRecv  BY <1>8 DEF CallerRecv, CallerCh, ZInv
<1>9. CASE UNCHANGED allVars  BY <1>9 DEF allVars, dirVars, ZInv
<1>. QED  BY <1>1, <1>2, <1>3, <1>4, <1>5, <1>6, <1>7, <1>8, <1>9 DEF DirNext

(***************************************************************************)
(* For every file size, entry count and setting, a SendDirectory caller    *)
(* that has its SendResult finds the zip file closed: the intercepting     *)
(* goroutine closes it before it forwards the result.                      *)
(***************************************************************************)
THEOREM ZipClosedFirst == DirSpec => []ZipClosedBeforeResult
<1>1. ZInv => ZipClosedBeforeResult  BY DEF ZInv, ZipClosedBeforeResult
<1>. QED  BY <1>1, ZInvInit, ZInvStep, PTL DEF DirSpec

=============================================================================
