----------------------------- MODULE ClientShim -----------------------------
(***************************************************************************)
(* The cgo shim concatenated at the end of src/wormhole/send.go: C threads *)
(* call the exported NewClient, FreeClient, ClientSendText and             *)
(* ClientRecvText, which share the package-level Go map clientsMap, keyed  *)
(* by the client's address, with no lock.  A Go map access is not atomic:  *)
(* each access is modelled as a begin and an end step, and the threads     *)
(* inside an access are tracked, so that a write overlapping another       *)
(* access (a data race, which the Go runtime may turn into a fatal error)  *)
(* is a state.  A new client gets an address no live client has; a client *)
(* stays live while it is in the map, while an exported call uses it, and  *)
(* while a SendText goroutine it started runs.  SendText and Receive are   *)
(* abstracted to their outcomes (SendText is modelled in TextSend).        *)
(* ClientSendText's unused `status` is a compile error in the source; it   *)
(* is modelled as if the value were discarded.                             *)
(***************************************************************************)
EXTENDS Naturals, FiniteSets

CONSTANTS
    Threads,   \* the C threads calling into the library
    Addrs,     \* the addresses a new client can be allocated at
    MaxHeld    \* bound on the running SendText goroutines per client

\* Return codes of the exported functions (c/codes).
Codes == {"OK", "ERR_NO_CLIENT", "ERR_SEND_TEXT", "ERR_RECV_TEXT"}

VARIABLES
    clientsMap, \* the addresses that are keys of clientsMap
    pc,         \* per thread: "idle" or where it is in an exported call
    arg,        \* per thread: the handle (address) of its current call
    handles,    \* per thread: the handles NewClient has returned to it
    ret,        \* per thread: what its last call returned, "none" before
    readers,    \* threads inside a read of clientsMap
    writers,    \* threads inside a write of clientsMap
    held        \* per address: SendText goroutines still running on it

vars == <<clientsMap, pc, arg, handles, ret, readers, writers, held>>

Pcs == {"idle", "NewClient", "FreeGet", "FreeDelete", "SendGet",
        "RecvGet"}

TypeOK ==
    /\ clientsMap \subseteq Addrs
    /\ pc \in [Threads -> Pcs]
    /\ arg \in [Threads -> Addrs]
    /\ handles \in [Threads -> SUBSET Addrs]
    /\ ret \in [Threads -> Codes \cup {"none"}]
    /\ readers \subseteq Threads /\ writers \subseteq Threads
    /\ held \in [Addrs -> 0..MaxHeld]

\* The addresses of clients the garbage collector must keep.
Live ==
    clientsMap \cup {a \in Addrs : held[a] > 0}
               \cup {arg[t] : t \in {u \in Threads : pc[u] # "idle"}}

Init ==
    /\ clientsMap = {}
    /\ pc = [t \in Threads |-> "idle"]
    /\ arg = [t \in Threads |-> CHOOSE a \in Addrs : TRUE]
    /\ handles = [t \in Threads |-> {}]
    /\ ret = [t \in Threads |-> "none"]
    /\ readers = {} /\ writers = {}
    /\ held = [a \in Addrs |-> 0]

-----------------------------------------------------------------------------
\* Thread t begins reading clientsMap (getClient) for handle a.
BeginGet(t, a, where) ==
    /\ pc[t] = "idle"
    /\ pc' = [pc EXCEPT ![t] = where] /\ arg' = [arg EXCEPT ![t] = a]
    /\ readers' = readers \cup {t}
    /\ UNCHANGED <<clientsMap, handles, ret, writers, held>>

\* getClient's lookup for thread t's handle: ok when it is a key (a miss is
\* printed and returned as ErrClientNotFound).
GetClientFound(t) == arg[t] \in clientsMap

\* Thread t returns code c from its exported call.
Finish(t, c) ==
    /\ pc' = [pc EXCEPT ![t] = "idle"] /\ ret' = [ret EXCEPT ![t] = c]

(***************************************************************************)
(* NewClient: allocate a wormhole.Client, take its address as the handle,  *)
(* and begin `clientsMap[clientPtr] = client`.                             *)
(***************************************************************************)
NewClient(t) ==
    /\ pc[t] = "idle"
    /\ \E a \in Addrs \ Live :
         /\ pc' = [pc EXCEPT ![t] = "NewClient"] /\ arg' = [arg EXCEPT ![t] = a]
    /\ writers' = writers \cup {t}
    /\ UNCHANGED <<clientsMap, handles, ret, readers, held>>

\* The map write ends and the handle is returned to the C caller.
NewClientStore(t) ==
    /\ pc[t] = "NewClient"
    /\ clientsMap' = clientsMap \cup {arg[t]}
    /\ writers' = writers \ {t}
    /\ handles' = [handles EXCEPT ![t] = @ \cup {arg[t]}]
    /\ Finish(t, "OK")
    /\ UNCHANGED <<arg, readers, held>>

\* FreeClient(h), ClientSendText(h, ...), ClientRecvText(h, ...) with a
\* handle the thread was given: each starts with getClient(h).
CallWithHandle(t) ==
    \E a \in handles[t], where \in {"FreeGet", "SendGet", "RecvGet"} :
        BeginGet(t, a, where)

(***************************************************************************)
(* FreeClient, after getClient's read: ERR_NO_CLIENT if the handle is not  *)
(* a key, else begin `delete(clientsMap, clientPtr)`.                      *)
(***************************************************************************)
FreeClientGot(t) ==
    /\ pc[t] = "FreeGet"
    /\ readers' = readers \ {t}
    /\ IF GetClientFound(t)
       THEN /\ pc' = [pc EXCEPT ![t] = "FreeDelete"]
            /\ writers' = writers \cup {t}
            /\ UNCHANGED ret
       ELSE Finish(t, "ERR_NO_CLIENT") /\ UNCHANGED writers
    /\ UNCHANGED <<clientsMap, arg, handles, held>>

\* The delete ends; FreeClient returns OK.
FreeClientDelete(t) ==
    /\ pc[t] = "FreeDelete"
    /\ clientsMap' = clientsMap \ {arg[t]}
    /\ writers' = writers \ {t}
    /\ Finish(t, "OK")
    /\ UNCHANGED <<arg, handles, readers, held>>

(***************************************************************************)
(* ClientSendText, after getClient's read: ERR_NO_CLIENT, or SendText on   *)
(* the client with context.Background(): an error is ERR_SEND_TEXT, a code *)
(* is OK and leaves a goroutine running that holds the client.             *)
(***************************************************************************)
ClientSendText(t) ==
    /\ pc[t] = "SendGet"
    /\ readers' = readers \ {t}
    /\ IF ~GetClientFound(t)
       THEN Finish(t, "ERR_NO_CLIENT") /\ UNCHANGED held
       ELSE \/ Finish(t, "ERR_SEND_TEXT") /\ UNCHANGED held
            \/ /\ held[arg[t]] < MaxHeld
               /\ held' = [held EXCEPT ![arg[t]] = @ + 1]
               /\ Finish(t, "OK")
    /\ UNCHANGED <<clientsMap, arg, handles, writers>>

(***************************************************************************)
(* ClientRecvText, after getClient's read: ERR_NO_CLIENT; a failed Receive *)
(* returns ERR_SEND_TEXT, a failed ReadAll ERR_RECV_TEXT, else OK.         *)
(***************************************************************************)
ClientRecvText(t) ==
    /\ pc[t] = "RecvGet"
    /\ readers' = readers \ {t}
    /\ IF ~GetClientFound(t)
       THEN Finish(t, "ERR_NO_CLIENT")
       ELSE \E c \in {"ERR_SEND_TEXT", "ERR_RECV_TEXT", "OK"} : Finish(t, c)
    /\ UNCHANGED <<clientsMap, arg, handles, writers, held>>

\* A SendText goroutine on the client at a returns and drops the client.
GoroutineDone(a) ==
    /\ held[a] > 0
    /\ held' = [held EXCEPT ![a] = @ - 1]
    /\ UNCHANGED <<clientsMap, pc, arg, handles, ret, readers, writers>>

Next ==
    \/ \E t \in Threads :
         \/ NewClient(t) \/ NewClientStore(t) \/ CallWithHandle(t)
         \/ FreeClientGot(t) \/ FreeClientDelete(t)
         \/ ClientSendText(t) \/ ClientRecvText(t)
    \/ \E a \in Addrs : GoroutineDone(a)

Spec == Init /\ [][Next]_vars

-----------------------------------------------------------------------------
(***************************************************************************)
(* No data race on clientsMap: while one exported call writes the map (in  *)
(* NewClient or FreeClient) no other call reads or writes it.  Go maps are *)
(* not safe for concurrent use, and nothing in the shim serialises the C   *)
(* threads' calls.                                                         *)
(***************************************************************************)
NoMapRace == \A t \in writers : readers \cup writers = {t}

=============================================================================
