--------------------------- MODULE DirectorySend ---------------------------
(***************************************************************************)
(* The callers of the sender goroutine (src/wormhole/send.go): SendFile    *)
(* sizes its reader, SendDirectory first zips the entries into a temporary *)
(* file (makeTmpZip), and both call sendFileDirectory, whose prologue sets *)
(* the options, connects a rendezvous client and creates or attaches the   *)
(* mailbox before it starts the goroutine modelled in SendFileDirectory.   *)
(* SendDirectory then starts a goroutine that takes the one result off the *)
(* goroutine's channel, closes the zip file and forwards the result on a   *)
(* channel of its own, which is what its caller reads.                     *)
(*                                                                         *)
(* The goroutine is composed in: its variables stay at their initial       *)
(* values until the prologue starts it, and its steps are the steps of     *)
(* SendFileDirectory.  The entries are abstracted to their number, the zip *)
(* file to whether it is on disk and whether its descriptor is open.       *)
(***************************************************************************)
EXTENDS SendFileDirectory

CONSTANTS
    EntryCounts  \* the values len(entries) can take in SendDirectory

ASSUME DirAssumption == EntryCounts \subseteq Nat /\ EntryCounts # {}

VARIABLES
    kind,     \* which entry point the caller used: "none", "file", "dir"
    entries,  \* len(entries)
    cpc,      \* the caller: "Start", "Prologue", "Returned", "Failed"
    rc,       \* the prologue's rendezvous client: "none", "new", "connected"
    tmp,      \* the temporary zip on disk: "none", "linked", "unlinked"
    zipFd,    \* its descriptor: "none", "open", "closed"
    ipc,      \* SendDirectory's goroutine: "none", "recv", "close", "send",
              \* "done"
    taken,    \* the SendResult it took off the goroutine's channel
    retCh,    \* the values it sent on retCh, in order
    got       \* what the caller received from the channel it was given

dirVars == <<kind, entries, cpc, rc, tmp, zipFd, ipc, taken, retCh, got>>
allVars == <<vars, dirVars>>

\* A SendResult not yet received.
NoResult == [ok |-> FALSE, err |-> "none"]

DirInit ==
    /\ Init
    /\ kind = "none" /\ entries \in EntryCounts /\ cpc = "Start"
    /\ rc = "none" /\ tmp = "none" /\ zipFd = "none"
    /\ ipc = "none" /\ taken = NoResult /\ retCh = <<>> /\ got = NoResult

-----------------------------------------------------------------------------
(***************************************************************************)
(* makeTmpZip, by what it leaves behind: TempFile may fail; with no        *)
(* entries it returns before `defer os.Remove`, leaving the file on disk;  *)
(* every later return (a bad directoryName, an entry outside it, a failed  *)
(* header, reader, copy, close or size) runs the remove.  The descriptor   *)
(* is closed on no path.                                                   *)
(***************************************************************************)
ZipOutcomes(n) ==
    {[ok |-> FALSE, tmp |-> "none", fd |-> "none"]}
    \cup (IF n < 1 THEN {[ok |-> FALSE, tmp |-> "linked", fd |-> "open"]}
          ELSE {[ok |-> FALSE, tmp |-> "unlinked", fd |-> "open"],
                [ok |-> TRUE, tmp |-> "unlinked", fd |-> "open"]})

\* readSeekerSize: either Seek may fail; otherwise the size, with the reader
\* back at its start.
ReadSeekerSize == {"err", "size"}

\* SendFile: readSeekerSize(r), returning its error, else sendFileDirectory.
SendFile ==
    /\ cpc = "Start"
    /\ kind' = "file"
    /\ \E o \in ReadSeekerSize :
         cpc' = IF o = "size" THEN "Prologue" ELSE "Failed"
    /\ UNCHANGED <<entries, rc, tmp, zipFd, ipc, taken, retCh, got>>
    /\ UNCHANGED vars

\* SendDirectory: makeTmpZip, returning its error, else sendFileDirectory.
SendDirectory ==
    /\ cpc = "Start"
    /\ kind' = "dir"
    /\ \E z \in ZipOutcomes(entries) :
         /\ tmp' = z.tmp /\ zipFd' = z.fd
         /\ cpc' = IF z.ok THEN "Prologue" ELSE "Failed"
    /\ UNCHANGED <<entries, rc, ipc, taken, retCh, got>>
    /\ UNCHANGED vars

(***************************************************************************)
(* sendFileDirectory up to `go func()`: an option's error, rc.Connect's,   *)
(* or CreateMailbox's (AttachMailbox's, with a code option) returns at     *)
(* once, leaving a connected client unclosed; otherwise the goroutine      *)
(* starts and the code is returned.  SendDirectory returns the error as it *)
(* is, without closing the zip, and on success starts its goroutine.       *)
(***************************************************************************)
Prologue ==
    /\ cpc = "Prologue"
    /\ \/ rc' = "none" /\ cpc' = "Failed" /\ UNCHANGED ipc
       \/ rc' = "new" /\ cpc' = "Failed" /\ UNCHANGED ipc
       \/ rc' = "connected" /\ cpc' = "Failed" /\ UNCHANGED ipc
       \/ /\ rc' = "connected" /\ cpc' = "Returned"
          /\ ipc' = IF kind = "dir" THEN "recv" ELSE "none"
    /\ UNCHANGED <<kind, entries, tmp, zipFd, taken, retCh, got>>
    /\ UNCHANGED vars

\* A step of the started goroutine, its reader, its peer or ctx.
GoroutineStep ==
    /\ cpc = "Returned"
    /\ Next
    /\ UNCHANGED dirVars

\* `r := <-resultCh`, dropping the close of the zip.
InterceptRecvNoClose ==
    /\ ipc = "recv" /\ results # <<>>
    /\ taken' = results[1] /\ ipc' = "send"
    /\ UNCHANGED <<kind, entries, cpc, rc, tmp, zipFd, retCh, got>>
    /\ UNCHANGED vars

\* `r := <-resultCh`, forwarding only successes.
InterceptRecvOkOnly ==
    /\ ipc = "recv" /\ results # <<>>
    /\ taken' = results[1]
    /\ ipc' = IF results[1].ok THEN "close" ELSE "done"
    /\ UNCHANGED <<kind, entries, cpc, rc, tmp, zipFd, retCh, got>>
    /\ UNCHANGED vars

\* `r := <-resultCh`: the goroutine's one result.
InterceptRecv ==
    /\ ipc = "recv" /\ results # <<>>
    /\ taken' = results[1] /\ ipc' = "close"
    /\ UNCHANGED <<kind, entries, cpc, rc, tmp, zipFd, retCh, got>>
    /\ UNCHANGED vars

\* `zipInfo.file.Close()`.
InterceptClose ==
    /\ ipc = "close"
    /\ zipFd' = "closed" /\ ipc' = "send"
    /\ UNCHANGED <<kind, entries, cpc, rc, tmp, taken, retCh, got>>
    /\ UNCHANGED vars

\* `retCh <- r` on the empty 1-slot channel.
InterceptSend ==
    /\ ipc = "send"
    /\ retCh' = Append(retCh, taken) /\ ipc' = "done"
    /\ UNCHANGED <<kind, entries, cpc, rc, tmp, zipFd, taken, got>>
    /\ UNCHANGED vars

\* The channel the caller was given: retCh for a directory, else ch.
CallerCh == IF kind = "dir" THEN retCh ELSE results

\* The caller reads its result.
CallerRecv ==
    /\ cpc = "Returned" /\ got = NoResult /\ CallerCh # <<>>
    /\ got' = CallerCh[1]
    /\ UNCHANGED <<kind, entries, cpc, rc, tmp, zipFd, ipc, taken, retCh>>
    /\ UNCHANGED vars

DirNext ==
    \/ SendFile \/ SendDirectory \/ Prologue
    \/ GoroutineStep
    \/ InterceptRecv \/ InterceptClose \/ InterceptSend
    \/ CallerRecv

(***************************************************************************)
(* The Go scheduler runs SendDirectory's goroutine once it can move, and   *)
(* the caller reads the channel it was given (the tests and the command    *)
(* line do so at once).  The sender goroutine and the peer are not assumed *)
(* to make progress.                                                       *)
(***************************************************************************)
DirSpec ==
    /\ DirInit /\ [][DirNext]_allVars
    /\ WF_allVars(InterceptRecv) /\ WF_allVars(InterceptClose)
    /\ WF_allVars(InterceptSend) /\ WF_allVars(CallerRecv)

-----------------------------------------------------------------------------
(***************************************************************************)
(* A SendDirectory caller who has its result can remove or reuse the zip:  *)
(* the intercepting goroutine closed the file before it forwarded.         *)
(***************************************************************************)
ZipClosedBeforeResult ==
    kind = "dir" /\ got # NoResult => zipFd = "closed"

(***************************************************************************)
(* Whatever the goroutine reports reaches the caller: once it has sent its *)
(* SendResult, the caller of SendFile or SendDirectory eventually receives *)
(* exactly that value, whether it is a success or an error.                *)
(***************************************************************************)
ResultReachesCaller ==
    \A r \in SendResults :
        (cpc = "Returned" /\ results # <<>> /\ results[1] = r) ~> got = r

=============================================================================
