# Verification development for wormhole-william (dilation core, senders and C shim)

This directory holds TLA+ models of the concurrent and state-machine parts of
the repository, the TLC configurations that check them on small instances,
and TLAPS proofs of the safety properties of the Manager, the Connector and
L2 machines, the frame decoder, the file sender, the directory wrapper and
the text sender for every value of the constants, including a refinement proof of the text sender against an
abstract specification of the result channel.  `PROJECT.json` lists the
components, the runs, the mutants, the source lines each definition models,
the findings and the hazards.

## The system

The source has two parts.

* `src/unnamed/part_000` is the "functional core" of the dilation protocol
  (spec.md).  `dilationProtocol` holds three state machines.
  * The **Manager** (`managerStateMachine`) runs the dilation lifecycle:
    Waiting, Wanting, Connecting, Connected, Flushing, Lonely, Abandoning,
    Stopping and Stopped.  Each call returns a list of output commands for
    an imperative shell to carry out.  That shell is not in the repository.
  * The **Connector** (`connectorStateMachine`) handles candidate
    connections.
  * The **L2 connection** (`l2ConnStateMachine`) handles the chosen
    connection.
  * `process*StateMachine` wrap the last two and attach payloads to the
    outputs.
  * `receiveDilationMsg` starts a goroutine that decodes control frames into
    Manager events.
  * `chooseRole` elects the Leader by comparing sides.

  Every state machine reads its state without its mutex.  It writes the new
  state through `*ToNewState`, which takes the mutex.

* `src/wormhole/send.go` is the sender side of wormhole, concatenated with
  three other things: its tests, a CI workflow and a C shim.
  * `sendFileDirectory` returns a 1-slot result channel.
  * It starts a goroutine that does several things:
    * runs the PAKE/version/verifier handshake, the transit setup, the offer
      and the answer;
    * accepts the transit connection;
    * writes the file record by record;
    * checks the receiver's final ack against the SHA-256 of what it sent.
  * That goroutine starts two helper goroutines. One closes the connection
    when ctx is done. The other reads the final ack and hands it over on an
    unbuffered channel.
  * Every failure goes through `sendErr`, which sends one result, closes the
    channel and recovers from a send on a closed channel.
  * A deferred function closes the mailbox with a mood derived from the
    error.
  * `SendFile` sizes its reader and calls `sendFileDirectory`.
    `SendDirectory` first zips the entries into a temporary file
    (`makeTmpZip`).  After `sendFileDirectory` returns, it starts a goroutine
    that takes the result, closes the zip and forwards the result on a
    channel of its own.  Its caller reads that channel.
  * `SendText` runs `CreateOrAttachMailbox` and then `SendTextMsg`.  That
    starts a goroutine for the handshake, the offer and the answer.  Its
    `sendErr` has **no** `recover`.
  * The C shim exports `NewClient`, `FreeClient`, `ClientSendText` and
    `ClientRecvText` to C threads.  All of them share the package-level map
    `clientsMap`, and nothing locks it.

## Modules

| module | models | state | actions |
|---|---|---|---|
| `DilationManager` | `managerStateMachine`, `managerToNewState`, `chooseRole`, `InitDilation`; the shell's contract (spec-modelled) | `managerState`, `role`, `side`; per caller `phase`, `evt`, `snap` (the unlocked read), `out`; shell `attempt`, `conn` | `Read(c)` (take an event, read `currState`), `Write(c)` (apply the table row, write under the lock, run the commands) |
| `DilationManagerProofs` | the TLAPS proofs about `DilationManager` | | |
| `SendFileDirectoryProofs` | the TLAPS proofs about `SendFileDirectory` | | |
| `DilationConnector` | `connectorStateMachine`, `l2ConnStateMachine`, the two `process*` wrappers, `*ToNewState` | both FSM states, the outputs of the last call, the winner and selected candidates, the inbound records | `ConnectorInput(in)`, `L2Input(in)` |
| `DilationConnectorProofs` | the TLAPS proofs about `DilationConnector` | | |
| `DilationCodecProofs` | the TLAPS proofs about `DilationCodec` | | |
| `DilationCodec` | the goroutine of `receiveDilationMsg` | the frame being sent on `msgInput`, the reused map's `"type"`, the goroutine's pc and event, the events dispatched | `ShellSend(f)`, `Receive`, `Push` |
| `SendFileDirectory` | the goroutine of `sendFileDirectory` and the two helper goroutines; the receiver (spec-modelled) | the sender's pc, the records written, the result channel, `returnErr`, the mood, the reader's pc, the peer's state and ack, `connClosed` | `PlainStep`, `VerifierStep`, `AcceptStep`, `TransferStep`, `AwaitAck`, `ReaderRead`, `PeerAck`, `PeerClose`, `CtxDone` |
| `DirectorySend` | `SendFile`, `SendDirectory` with its intercepting goroutine, `makeTmpZip` (by what each return leaves behind), the prologue of `sendFileDirectory`; composes `SendFileDirectory` | entry point `kind`, `entries`, caller `cpc`, `rc`, the temp file `tmp` and its descriptor `zipFd`, the intercept's `ipc`, `taken`, `retCh`, the caller's `got` | `SendFile`, `SendDirectory`, `Prologue`, `GoroutineStep` (a step of `SendFileDirectory` once started), `InterceptRecv`, `InterceptClose`, `InterceptSend`, `CallerRecv` |
| `DirectorySendProofs` | the TLAPS proof about `DirectorySend` | | |
| `SendResult` | abstract: what a send promises through its result channel | per call `result`, `mood` | `Report(c)`, `Close(c)` |
| `TextSend` | `SendText`, `CreateOrAttachMailbox`, the goroutine of `SendTextMsg`, for several calls on one Client; the receiver (spec-modelled) | per call: caller `cpc`, `rc`, goroutine `gpc`, `results`, `chClosed`, `returnErr`, `mood`, `peer`, `offered`, `answer` | `SendText`, `HandshakeStep`, `VerifierStep`, `OfferStep`, `WaitAnswer`, `Return`, `PeerJoin`, `PeerAnswer` |
| `TextSendProofs` | the TLAPS proofs about `TextSend`, including the refinement | | |
| `ClientShim` | `clientsMap`, `NewClient`, `FreeClient`, `ClientSendText`, `ClientRecvText`, `getClient` | `clientsMap`, per thread `pc`, `arg`, `handles`, `ret`; the threads inside a map read or write; the SendText goroutines holding each client | `NewClient`/`NewClientStore`, `CallWithHandle`, `FreeClientGot`/`FreeClientDelete`, `ClientSendText`, `ClientRecvText`, `GoroutineDone` |

How the models are built:

* **Tables.** Each transition table is a record from input events to
  functions from the handled states to `[to, out]`.  A state outside a row's
  domain takes the code's `default` branch.
* **Output codes.** Output events are modelled by their iota codes.  That
  lets the models reproduce `for output := range outputs` exactly: Go
  yields indices there.
* **Data.** Data is abstracted:
  * sides are small naturals, which compare as the hex strings do;
  * a frame is its JSON shape;
  * a file is `NumRecords` records;
  * a SHA-256 is the number of records it covers.

## Runs

Each `MC_*.tla` gives the constants and each `.cfg` names the properties.

| run | result | what it shows |
|---|---|---|
| `dilation_manager` | pass | One caller, sides {1,2}. Checks `TypeOK`, `ShellAgreesWithManager`, `RoleNeverRevised` and `StoppedIsFinal`. |
| `dilation_manager_race` | violation | With two callers, a Start read before a concurrent Stop takes the Manager out of Stopped. |
| `dilation_manager_leaderreconnect` | violation | A Leader that abandons on RxReconnect and is then stopped sits in Stopping forever. |
| `dilation_connector` | pass | From both the code's zero states and the specified ones, the two machines only move forward (`StatesOnlyAdvance`). |
| `dilation_connector_select` | violation | Accept's SelectAndStopRemaining comes out as PublishHints, so nothing is ever selected. |
| `dilation_codec` | pass | Frames of every shape, non-string "type" members included: the decoder stays well typed and pushes only events it found in `eventMap` (`TypeOK`; its mutant drops the `ok` of the lookup at line 477 and pushes the zero event). |
| `dilation_codec_stale` | violation | A frame without a type re-dispatches the previous event. |
| `send_file` | pass | Called through `SendFile` or `SendDirectory` (`DirSpec`), the goroutine produces at most one result and never sends on the closed channel (`SingleResult`). It reports OK only if the receiver got every record (`OKOnlyIfDelivered`). A directory caller holding its result finds the zip closed (`ZipClosedBeforeResult`). Whatever result the goroutine sends reaches the caller (`ResultReachesCaller`, liveness). |
| `send_file_staleerr` | violation | A failed final read is reported as `{OK:false, Error:nil}` with mood happy. |
| `send_file_leak` | violation | After a write error the reader goroutine blocks forever. |
| `text_send` | pass | Two concurrent `SendText` calls, with and without a verifier. No send on a closed channel, which would panic (`NeverSendsOnClosed`); the model implements `SendResult` (`ImplementsSendResult`, checked as a temporal property through the refinement mapping). |
| `client_shim_race` | violation | Two C threads calling `NewClient` at once write `clientsMap` concurrently (`NoMapRace`). |

**Bounds.**

* One or two callers suffice for the Manager: the race needs two, and every
  row of the table is reached with one.
* Two sides give both roles.
* Two candidates and one hint give a winner and a loser.
* Three records let the L2 connection receive after selection.
* Three frames let a typed frame be followed by an untyped one and then a
  third.
* Two file records let the peer ack after a strict prefix.
* Entry counts {0, 1} reach both the empty-directory return of
  `makeTmpZip` and a successful zip.
* Two text sends make the per-call state interleave.  Both verifier
  settings give the verifier's three outcomes.
* Two threads and two addresses in the shim give two concurrent map
  writers.  They also let a freed address be reused.

**Mutants.** Every property of a passing run is broken by a plausible bug in
the code it is about.  The list is in PROJECT.json.

**Fairness.** Only `DirectorySend` assumes fairness.  `DirectorySend` assumes weak fairness of the intercepting goroutine's
three steps and of the caller's read of its channel.  None of these steps
can block once it is enabled.  The tests and the command line read the
returned channel at once.  The sender goroutine itself and the peer are not
assumed fair, so `ResultReachesCaller` is stated from the moment a result
exists.  `DilationCodec` assumes none: nothing in `src/` ever receives from
`managerInputEv` (the channel is never made), so its `Push` only says what
a receiver would see, and the codec run checks safety alone.  The peer and
the application are never assumed fair.

## Proofs (`DilationManagerProofs`)

Assumptions:

* `Sides \subseteq Nat`, nonempty;
* `Callers` nonempty;
* `NoSide \notin Sides`.

Theorems:

* `TypeCorrect`: `Spec => []TypeOK` for any set of callers.
* `ShellAgreement`: `Spec => []ShellAgreesWithManager` for a single caller.
  * It goes through the inductive invariant `IInv == TypeOK /\
    ShellAgreesWithManager /\ SnapsCurrent`.
  * `SnapsCurrent` says that a caller between Read and Write holds the
    current state, and that its event is one the environment could deliver
    in that state.
  * Without `SnapsCurrent` a Write could apply a stale row.  The
    two-caller race run shows that this is exactly what goes wrong
    otherwise.
  * Lemma `StepKeepsAgreement` checks each row of the table against the
    shell's bookkeeping, case by case.
* `RoleStable`: `Spec => RoleNeverRevised` for a single caller.
  * It rests on `StepShape`: only Wanting + RxPlease emits ChooseRole, and
    Wanting is entered only from Waiting or Wanting.
  * It also rests on the invariant that the role is unset while the Manager
    is in Waiting or Wanting.
* `StoppedAbsorbing`: `Spec => StoppedIsFinal` for a single caller.

The single-caller hypothesis is needed.  With two callers both properties
fail, as the race run shows.

## Proofs (`SendFileDirectoryProofs`)

Assumptions:

* `NumRecords \in Nat`;
* the verifier and logging choices are nonempty sets of Booleans.

Theorems, all through one inductive invariant `IInv`:

* `TypeCorrect`: `Spec => []TypeOK`.
* `ResultSentOnce`: `Spec => []SingleResult`.
* `SuccessMeansDelivered`: `Spec => []OKOnlyIfDelivered`.

`IInv` adds several facts to the three properties:

* The channel is closed exactly when it holds a result, and only once the
  goroutine is Done or Crashed.  Without this, a second `sendErr` could
  not be excluded.
* The receiver is idle during the handshake.  It has not acked while it
  is receiving, and once it acks, its ack covers exactly the records it
  received.  It receives no more than was written.
* The write loop reaches the final read only after writing every record.
* The reader hands over an ack only if there is one.

Success then follows from the SHA-256 comparison: the ack covers `k =
NumRecords` records.

Lemmas:

* `SendErrKeeps` covers every `sendErr; return`.
* `CallKeeps` covers every handshake call.
* `NextStep` shows the handshake positions follow one another.

## Proofs (`TextSendProofs`)

Assumptions (`TextAssumption`): `Sends` is nonempty; the verifier choices
are a nonempty set of Booleans.  The theorems hold for any number of
concurrent calls.

* `TypeCorrect`: `Spec => []TypeOK`.
* `NoPanic`: `Spec => []NeverSendsOnClosed`.
* `Refinement`: `Spec => ImplementsSendResult`, that is `SendResult!Spec`
  under the mapping `result <- AbsResult` (each call's first channel value),
  `mood <- mood`.

All three go through `IInv == TypeOK /\ \A s : CallInv(s)`.  `CallInv(s)`
says the following about call `s`:

* its channel is closed exactly when the goroutine is at Return or Done;
* the channel then holds exactly one result;
* before that, `returnErr` is nil;
* a success was acked;
* an error result is `returnErr`;
* the mood is set exactly at Done, from `returnErr`.

Without the link between the channel and the pc, a second `sendErr`, and
with it the panic, could not be excluded.

The refinement maps the steps as follows:

* `sendErr` and the OK send map to `Report(s)`;
* the goroutine's return maps to `Close(s)`;
* every other step is a stutter.

`Close` needs the mood of the reported outcome.  The deferred function
computes it from `returnErr`, and `CallInv` gives the equality.

The proof has a lemma for each kind of step (`GoCall`, `SendErrCall`,
`SucceedCall`, `ReturnRefines`, ...).  `Frame` shows that a step of one call
leaves every other call's invariant alone.

## Proofs (`DirectorySendProofs`)

* `ZipClosedFirst`: `DirSpec => []ZipClosedBeforeResult`, for every
  entry count, file size and setting.

It goes through the inductive invariant `ZInv`:

* the intercepting goroutine exists only for a started directory send;
* it has closed the zip once it is past the close;
* `retCh` is empty until the intercept is done, and then holds what it took;
* a caller has a result only after its call returned;
* a directory caller's result comes from `retCh`.

## Proofs (`DilationConnectorProofs`)

Assumptions (`ConnectorAssumption`, in `DilationConnector`): `Candidates`
is nonempty, the zero candidate and the zero hints are not real ones, the
initial states are machine states or the zero value, `MaxRecords \in Nat`.

* `TypeCorrect`: `Spec => []TypeOK`, from any initial states, the zero
  value included.  `TypeOK` is inductive as it stands.
* `NeverBack`: `Spec => StatesOnlyAdvance`, also from any initial states.
* `ZeroStateIsDormant`: under the hypothesis `ConnectorInit = {""}` and
  `L2Init = {""}`, which is exactly what `InitDilation` leaves,
  `Spec => []Dormant`.  `Dormant` says both states stay `""`, no output
  reaches the shell (so a Stop never yields StopEverything), no candidate
  is selected and no record is buffered or delivered.  This is the code's
  defect at line 211, proved for every set of candidates, hints and
  records.  `Dormant` is inductive: `ZeroStep` shows that `""` is in the
  domain of no row, so every call takes the `default` branch.

The lemmas:

* `ConnectorStepFacts` and `L2StepFacts` go through the tables row by row.
  Each row stays or moves forward, and has at most two (Connector) or three
  (L2) outputs.  A Stop from Connecting or Connected lands in Stopped.  No
  row leaves Stopped or leads to the zero value.
* `ConnectorOutputsType` and `L2OutputsType` type the payload records.
  The index-for-code loop only looks up codes 1..n, and `n` is at most 5
  or 6.
* `L2InputType` uses the guard of `L2InputsNow`: a record arrives only
  below the bound, so every buffer stays in `Seq(1..MaxRecords)`.

## Proofs (`DilationCodecProofs`)

Assumptions (`CodecAssumption`, in `DilationCodec`): the non-string and
absent "type" markers are distinct from each other and from every string
type; object frames carry string types or those markers; `MaxFrames \in
Nat`.

* `CodecTypeCorrect`: `Spec => []TypeOK` for every shape of frame, the
  non-string "type" included.  It goes through `CInv == TypeOK /\ (gpc =
  "send" => gev \in ManagerEvents)`.  Without the second conjunct a push
  could not be shown to carry a Manager event.

The unchecked `.(string)` at line 477 is kept (`gpc = "dead"`), and the
theorem covers frames that reach it.  No property states that the decoder
never panics: it does, on one frame with a non-string "type" (see the
defects below).

## Only model-checked

* the liveness property `ResultReachesCaller`;
* `NoMapRace` in the shim, which is a counterexample;
* every violation run: each is a counterexample, not a theorem.

Liveness and ENABLED are beyond TLAPS.

## Not modelled

* `genDilationMsg`, `genPleaseMsg` and `sendDilationMsg`: formatting and an
  empty stub.
* The nil channels InitDilation leaves (`msgInput`, `managerInputEv`): the
  codec model assumes a shell that makes them, since as written every frame
  blocks forever.
* The equal-sides case of `chooseRole` (a 64-bit collision) is modelled,
  but no run checks it.
* With debug logging on, `conn` is dereferenced before the error check.
  `AcceptStep` keeps that crash path, and the pass run explores it, but no
  run checks it.
* The zip encoding in `makeTmpZip` and the seeks of `readSeekerSize`: only
  their outcomes are modelled.  `validateCode` is called nowhere under
  `src/`.
* The progress callback of the file transfer: a call out to the
  application.
* The tests and the CI YAML.
* The rendezvous client, the transit transport and the crypto: they are not
  in `src/`.

## Defects found by reading, kept in the models but not run

The run budget goes to races and orderings a unit test would hardly
reach.  The defects below are single-call defects a test reaches
directly.  Each is reachable in a model, and PROJECT.json lists each one as
a hazard with a note.

* `CreateOrAttachMailbox` (send.go:62) and the prologue of
  `sendFileDirectory` (send.go:226) return after a successful
  `rc.Connect` without closing the rendezvous client.
* `makeTmpZip` returns "no files provided" before `defer os.Remove`
  (send.go:585), which leaves the temporary file on disk.  No path closes
  its descriptor.
* `SendDirectory` returns a `sendFileDirectory` error without closing the
  zip (send.go:557).
* In the shim, a handle is the client's address as a `uintptr`, which does
  not keep the client alive.  A freed client's address can be handed out
  again.  Also, `ClientRecvText` returns `ERR_SEND_TEXT` when `Receive`
  fails.
* `InitDilation` leaves `connectorState` and `l2ConnState` at the zero
  value `""`, which no case of either machine handles.  Until the shell
  installs a state, every event, Stop included, is dropped.
* `ClientSendText` declares `status` and never uses it.  Go rejects that
  at compile time, so the shim as written does not build; `ClientShim`
  models it as if `status` were discarded.
* The decoder asserts `eventTxt.(string)` without the `ok` form
  (part_000:477).  A frame whose "type" is a number, an object or a list
  panics the goroutine and the process, whereas spec section 7 says a
  malformed frame is reported and discarded.  The codec run reaches the
  state (`gpc = "dead"`).

## Plan

1. Prove the shim's single-threaded discipline: with one thread,
   `NoMapRace` holds.
2. Model the receive side (`Receive`), which is not under `src/` in this
   repository, from its spec once it is.
