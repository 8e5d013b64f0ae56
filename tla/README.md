# A TLA+ development for pulumi-engine

pulumi-engine runs the Pulumi engine inside a process: Go code in `engine/`, a
C ABI over it in `capi/`, and Node and Python bindings over that. The modules
here model the library's own concurrency, as the code has it, on top of
Pulumi's backends and engine, which are external and modelled only from how the
library uses them.

## The system

| Part | State | Operations | What is hard |
|---|---|---|---|
| Operation, event path (`operation.go`, `eventsink.go`, `events.go`) | sequence, recorded summary/failures/diagnostics, the queue, the channel | `handleEvent`, `push`, `pump`, `finish` | several goroutines deliver events; each kind of source is joined by a different call; the reader may be absent |
| Operation, cancellation (`operation.go`, `errors.go`) | `cancelRequested`, two channels, the scope goroutine | `Cancel`, `NewScope`, `Close`, `AfterFunc` | any number of callers and the context race the end of the operation |
| Operation, result (`operation.go`, `errors.go`, `plan.go`) | the raw error, recorded failures and diagnostics, `planned`, `Result` | `execute`'s early returns, `savePlan`, `Outputs`, `fillFailureMessages`, `classifyOperationError`, `KindOf` | precedence of causes; reads of a checkpoint that others may change |
| Stack handle (`stack.go`, `operation.go`) | `opMu`, `running`, the backend's lock files | `start`, `execute`'s gate, `Cancel`, `Import`, `Remove` | a mutex per handle and lock files between handles; two ways into the checkpoint |
| Stdout capture (`stdout.go`) | the swapped `os.Stdout`, listeners, awaited sentinels | `listenStdout`, pump, `flushStdoutCapture`, `unlistenStdout` | process-wide; shared by all operations and by the host program's own output |
| Config and secrets (`stack.go`, `crypto.go`, `spec.go`, `passphrase.go`) | `projectStack`, `Pulumi.<stack>.yaml`, the secrets manager, Pulumi's cache of managers | `Open`, `SetConfig`, `GetConfig`, `RemoveConfig`, `OfType` | several handles on one file; racing first `Open`s; a cache that ignores the passphrase |
| Credentials (`stack.go`) | the credentials file, `credentialsMu` | `withSpecCredentials` | process-wide file written, used and restored; crash in between |
| Programs, language server (`program.go`, `langserver.go`) | server state, condition, cancel channel | `Start`, `Run`, `Close` | `Close` against several `Run`s and other `Close`s |
| Plugin host, launcher (`pluginhost.go`, `launch.go`) | launched hosts, tracers | `LanguageRuntime`, `Close`, launch, port, dial, test | a launch that fails or meets `Close`; tracers nobody awaits |
| C ABI (`capi.go`) | handle registry | `op_start`, `op_next_event`, `op_cancel`, `op_wait`, `op_release` | release while another thread waits or iterates |
| Node, Python bindings | operation objects, inline servers | iterate, wait, cancel, release, `__exit__` | release after the end; a start that fails half way |
| Facade (`automation-compat.ts`) | the lazily opened engine stack | `run`, `createStack`, `removeStack`, tags | concurrent first calls; read-modify-write of tags |

A caller starts an operation on a `Stack`; `start` puts it into
`Stack.running` and spawns its goroutine, which takes `opMu`, prepares the
program, listens on stdout, builds a plugin host and calls the backend. The
backend asks for a cancellation scope and drives the engine, whose events come
back through a channel (preview, up) or a loopback gRPC sink (refresh,
destroy); the plugin host's diagnostics, the stdout pump and the tracers of
launched language hosts call `handleEvent` too. On the way out `execute`'s
deferred calls run in reverse order (sink, host, flush and unlisten, program,
`opMu`, `AfterFunc`), then `finish` classifies the error, pushes the
terminator, closes the queue and closes `done`.

## Modules

`EventFeed` is the abstract specification of `Operation.Events()`: a log that
grows until it is ended, shown to a reader in order and without gaps.

`EventStream` is one operation's event path. Sources are of four kinds by who
waits for them: `Forwarders` (`<-forwarded`, or `sink.Close`), `HostDiags`
(`host.close`), `Banners` (the flush) and `Tracers` (nobody). `HandleEvent`,
`StampEvent`, `QueuePush` and `QueueSignal` are the critical sections of
`handleEvent` and `push`, which lock `Operation.mu` and then `eventQueue.mu`
separately; `Main` walks through the joins and `finish`; the pump moves the
queue into the unbuffered channel; the caller may stop reading. An event keeps
its source, its number there, its sequence number and whether `handleEvent`
records it, forwards it or drops it. `log` and `late` are history: what the
queue accepted, and what it refused when closed.

`OperationCancel` has the callers of `Cancel` step by step through the
compare-and-swap and the two `Once`s, the goroutine `NewScope` starts with its
two selects, the phases of `run`, and the engine's steps (external: in flight,
applied to the world, recorded in the checkpoint). The context's call may come
at any time, also after `execute`'s `stop()`, which does not wait for an
`AfterFunc` that has started.

`StackLocking` has several handles on one stack of a DIY backend. Each handle
is a backend instance with one lock file; the lock (external) checks for other
instances' files, writes its own, checks again and backs out, and unlocking
deletes the instance's file. Operations go through `opMu`, `Import` and
`Remove` do not. `Stack.Cancel` copies the running set (`CopyRunning`) and then
cancels one operation after the other (`CancelOne`), while others start and
end. Two variables are history: `owed` is what was under way when the copy was
made, `shared` that an `Import` or `Remove` wrote its lock file while another
call of the handle had it, or the other way round.

`StdoutCapture` has operations, the pump and the host program around the pipe.
A write is a header, a sentinel or a write of the host with or without a
newline. The pump takes what `ReadString` returns: everything up to the next
newline, so a partial line becomes the start of the next one. The branch of
`pumpStdout` for partial lines is reached only at the end of the input, which
never comes, because nothing closes the pipe.

`Credentials` has calls of `Open` (or `ListStacks`) around the credentials
file. A call with a token takes `credentialsMu`, records the file, stores its
account, constructs the backend, which keeps the token it finds, and restores
the file (a `WriteFile` is a truncation and a write); a call without a token
goes straight to the constructor. Every call may fail and the process may die
at any point; calls that have not begun belong to the next process.

`StackSpec` has the specs `validate` accepts, with its defaults, and
`StackConfig` builds on it: several handles of one stack, each with its copy of
`Pulumi.<stack>.yaml`, the file itself, the checkpoint's secrets state and
Pulumi's cache. Key material is numbered as it is made and a secret value is
the key it was encrypted with, so reading one means having that key.
`newSecretsManager` is one action per way to a manager (`ReuseSalt`, `NewSalt`,
`ReuseDataKey`, `NewDataKey`, `KeylessManager`); `Open` may fail at any of its
calls and undoes nothing. `Import` replaces the checkpoint by one that the
stack had before or that was made elsewhere, with or without key material of
its own (`Exported`); material of another provider in it is not reused, as
`checkpointSecrets` and its callers look at the type. The handles of a stack
agree on its provider: a migration between providers is not something the
library does.

`OperationResult` follows `run` through `execute` and `finish`. A Go error is
the sequence of types that `errors.As` and `strings.Contains` see in it, from
the outside in; `KindOf`, `errorJSON`, `classifyBackendError` and
`classifyOperationError` are ordered lists of cases over such chains. The
checkpoint is a version and the pending resources; `Neighbour` is another
operation that changes it once this one has let go. `ran` is history: the
engine ran.

`LanguageServer` is the in-process program server with its state, mutex and
condition, `PluginHost` the operation's plugin host with the launch of a
language host process, and `ProgramHost` composes them as `execute` does: the
program decides which of them is used, and the deferred calls close the host
before the program. A Go program's server has one `Run` and one `Close`; a
callback server (`ServeGoProgram`) is the caller's and has many of both.

`Execution` composes `ProgramHost` with `OperationCancel` into one operation
from start to `Wait`: `run`'s goroutine prepares the program, rejects or calls
the backend, and when the engine has returned closes the host, then the
program, and leaves `execute` only behind both. The engine uses the program and
may close the host itself; goroutines of an engine that was terminated may go on
doing so after the backend call has returned. The flush of the captured stdout,
which lies between the two deferred closes, is `StdoutCapture`'s, and the unlock
of `opMu` behind them `StackLocking`'s.

`CApi` has the registry of the C ABI and, on top of it, the operation objects
of the two bindings (`python` says which is in use): Node waits from the
constructor on, Python on demand and under a lock, and only Python polls, has
`__exit__` and can refuse options after the inline server is up. A lookup and
what is done with the object found are separate steps.

`MC*.tla` give TLC its constants; `*Proofs.tla` hold the theorems. The
"faulty variants" in each module are not part of any specification: each is an
action with one slip, and each property fails when one takes its action's place.

## Runs

| Run | Result | Shows |
|---|---|---|
| `event_stream` | holds | every number is accounted for, awaited sources precede the one terminator, the result matches the stream, no wake-up of the pump is lost, the stream implements `EventFeed`, `Wait` returns without a reader, a reader reaches the end |
| `execution` | holds | one `Cancel` is graceful and loses no step, two are needed to terminate, no cancel is lost, the deferred calls included, unless code of others holds the operation up for ever, the scope's goroutine ends; when `Wait` returns no `Run` of the operation's Go program goes on and every language host launched before the host was closed has been waited for; the operation's `Close` of its server sleeps only while its `Run` goes on |
| `operation_result` | holds | after `InvalidSpec` and `ConcurrentUpdate` nothing was changed and, but for a plan that could not be written, the engine has not run; the error and the `Result` tell the same story, reads at the end are fresh |
| `stack_locking` | holds | exclusion unless an `Import` or `Remove` overlaps its own handle, nothing left locked, `Stack.Cancel` cancels exactly what was under way at its copy, everyone ends |
| `stack_race` | violated | with that overlap two updates are in the checkpoint |
| `stdout_capture` | holds | a flushed header has been routed, an unambiguous header is in its own stream once, host output keeps its order, a sentinel is lost only to a partial line, operations end while the host writes whole lines |
| `flush_hangs` | violated | a partial line of the host makes an operation wait for ever |
| `credentials` | holds | a spec's backend has that spec's token, the file is the user's again after every failure, every `Open` ends |
| `stack_config` | holds | no wrong passphrase gets in, secrets stay readable (all providers but a cloud KMS), no update changes the passphrase of the checkpoint it finds, whatever was imported |
| `encryption_context` | violated | with a cloud KMS a handle can load secrets it has no key for |
| `program_host` | holds | a `Close` that waited leaves no program running, no language host process outlives the host, one process per runtime, the deferred `Close`s return unless a language host never prints its port or a program never ends |
| `capi` | holds | waits find their operation, the inline server lives as long as the operation needs it, iterations are complete, every call returns |

The violated properties state what a comment or the repository's README says;
`PROJECT.json` quotes it.

### Exceptions the properties name, and things to know

- `JoinedBeforeTerminator` excludes the tracers of launched language hosts,
  which nobody awaits, although the repository's README says that every stream
  ends with the terminator. A header with the same text that another operation
  printed can come as late, when it is routed between this operation's flush
  and its `unlistenStdout` (`stdout.go:176-189`); in the module it is one more
  tracer. Sequence numbers are distinct but not the place in the
  stream: they are taken under one mutex and appended under another. `Wait` may
  return before the channel closes, which needs the reader to take the last
  event (`operation.go:124` says otherwise of both).
- `OwnHeaderOnce` is about headers that no other running operation shares; of
  two operations with the same header text one may get both.
- `OwnToken` is about specs with a token. One without may read a token that is
  being handed over, because it does not take `credentialsMu`. `README.md:188-189`
  of the repository, "operations with different tokens (even for one URL) run
  concurrently without interfering", does not say so.
- `FileRestored` excepts a restore that fails and a process that dies in it:
  the file then has the token, or is empty.
- `NothingLeftRunning` excepts a process launched after `Close` took the map:
  nobody closes it. A test call that ran into its deadline counts as alive
  (`launch.go:322`), so a host that never answers is handed out.
- `ClosesReturn` and `CancelEnds` name what may keep `Wait` from returning for
  ever, all of it code of others. The port of a language host is read with no
  deadline (`launch.go:170-211`; the timeout in this file is `dialPlugin`'s)
  and with the host's mutex held (`pluginhost.go:127`), so a process that never
  prints it keeps `host.close` waiting; a Go program that never returns keeps
  `prep.close` waiting. A second `Cancel`, which terminates the engine, ends
  neither wait. A provider that never answers holds the engine up until it is
  terminated. The repository's README (417-427) says that language-side calls
  may never return after a failed step or program.
- `ClosesReturn` asks for one of several `Close` calls of a program server. Of
  two that sleep through one `Run`, the second finds "canceled" and sleeps for
  ever; with a second `Run` it can send on the closed channel and panic.
- `ServerServesOperation` excepts a Python start whose options are refused
  after the inline server came up (`_stack.py:316`), which leaves it up.
- A Python `__exit__` cancels when the result is not in; after a cancel of the
  caller's own that is the second, which terminates.
- The doc of `InvalidSpec`, "detected before any backend or engine work starts"
  (`errors.go:45-46`), is not so for `savePlan`: it returns `InvalidSpec` after
  a whole preview (`operation.go:476-479`). `RefusedMeansUntouched` states this
  case as the one exception to "the engine has not run"; the run reaches it.
  Nothing is changed by it, as a preview writes nothing. An `InvalidSpec` of
  `loadPlan` is reported as `ProgramFailed` when plugin diagnostics were
  recorded. A blank plan file is no plan.
- `FreshReads` compares the pending operations in the error with what the
  backend refused only when no other operation of the stack came in between:
  `opMu` is free by then (`operation.go:583`), and the list is then the other
  operation's.

### Bounds

- `event_stream`: a forwarder, a host emitter and a tracer with one event each,
  and the terminator: four producers' `push` calls interleave and one source of
  each way of being joined, or not, is there. A flushed header behaves as a
  host emitter's event does, joined one step later; the run has none, which
  keeps it small, and the theorems cover any number of them.
- `execution`: a caller and the context, so that a first and a second call meet
  in either order (a third does what the second does); an engine step, in flight
  or not when the cancel comes (steps do not interact); a Go program with its
  `Run` and `Close`, which may go on for ever, or a launch of a language host against the engine's `Close`
  of the host and the operation's, so that either `Close` meets the launch after
  a terminate. The theorems cover any number of calls, steps and launches; two
  launches meet in `program_host`.
- `stack_locking`: two updates of one handle contend for `opMu`, an `Import`
  shares their handle, and a `Remove` and a preview come from another handle.
  Any two calls of the three ways in meet within a handle or between two.
  `Cancellers` bounds `Stack.Cancel` to the handle with the two updates, so
  that one of them can start or end between any two of its steps. Calls are
  made once.
- `stdout_capture`: two operations on one stack reference, of every
  combination of two kinds, and two host writes (`MaxHostWrites`), each whole
  or partial. `SetStdoutCapture` may be called at any time.

- `credentials`: two specs with different tokens for one URL and one without a
  token, and a login with or without accounts at two URLs, so that hand-overs
  for one account meet each other, a plain read and a crash.
- `stack_config`: three handles, because it takes two to race a first `Open`
  and a third to load what they left; two passphrases; one config key, since
  keys do not interact; two pieces of key material (`MaxMade`), made here or
  brought by an `Import`, which is enough for a checkpoint with other material
  than the file's.
- `operation_result`: every combination of kind and options; two resources and
  diagnostics without one; three recorded events (`MaxEvents`), enough for two
  failures and a diagnostic in any order; one change of the checkpoint
  (`MaxSteps`); one change by others.
- `program_host`: three `Run`s and two `Close`s, so that the first `Run` to
  finish leaves others running; two launches of one runtime and one of another
  against the engine's and the operation's `Close`.
- `capi`: one operation, as operations share only the counter of ids; two
  releasers, an iteration and a wait; two events before the terminator
  (`MaxEvents`); two cancels (`MaxCancels`) besides `__exit__`'s.

Symmetry is used in `stack_config` and `encryption_context` only, which check no
liveness: handles are alike and so are passphrases, and no constant tells them
apart. Deadlock is not checked where the
system may stop: an operation that is over, a reader that has gone away or a
caller that makes no further call take no step.

### Fairness

Weak fairness of every goroutine's steps: Go's scheduler runs what can run, and
none of these steps is disabled again by others once it is enabled, except by
its own progress. `EventStream` also lets a source end once what feeds it is
closed, and a caller that keeps reading receive. `Execution` has the fairness of
`ProgramHost` and of `run`'s goroutine (`RunStep`), and lets the engine record
what was applied and return when it may; nothing makes a provider finish a step
in flight or the engine start another, and nobody has to call `Cancel`.
`StackLocking` assumes nothing
of who makes calls, `StdoutCapture` nothing of the host, `Credentials` nothing
of which calls succeed. `ProgramHost` assumes neither that a program ends nor
that a language host prints its port (`LaunchGoesOn` is fair while the port is
read only if the process has died, when the read returns); the rest of a launch
is the library's own or ends with `dialPlugin`'s timeout. `Close` of the host is
strongly fair because it waits for a mutex that other calls take, and a Go mutex
does not starve its waiters. In `CApi` operations end (`WaitReturns` of `EventStream`) and a
blocked receive is strongly fair against Python's polling timeout: an event
that is there is taken, since the timer wins only when there is none for
250 ms. `StackConfig` and `OperationResult` check safety only.

## Proofs

For all values of the constants:

- `EventStreamProofs`: type correctness; `JoinedNotLate`; `SequenceNumbers`;
  `EventsImplementFeed`; `ResultIsTheStreams`. The join argument needs to know
  how far `Main` is for each kind of source that is still at work (`JoinInv`),
  since the terminator is stamped and appended in two steps.
  `SequenceAccountedFor` is inductive with the types. For the refinement, `log`
  is what was received, then what is in the pump's hand, then what is queued
  (`FeedInv`), and the channel is closed only when the last two are empty. The
  notes recorded for the result are those on the log and those a producer still
  holds between recording and `push` (`NoteInv`); `finish` takes its snapshot
  after the joins, when nobody holds one. `NoLostWakeup` (`PumpWoken`) is
  inductive by itself: it is the safety half of `ReaderReachesEnd`.
- `ExecutionProofs`, in three parts. Of the program and its host:
  `CloseLeavesIdle`; `AllReaped`; `OneProcessEach`. A step is one of the server
  or of the host, and each has its own invariant. The server is stopped once,
  because its cancel channel is closed once, and takes no `Run` when it has
  stopped (`ServerInv`). A process that was not waited for is being launched by
  the holder of the mutex, is in the map, or was taken out of it by `Close`
  (`OwnedInv`); a launch under way means that the map has no entry for its
  runtime. Of the cancellation: type correctness; `TerminateOnSecondCall`, by
  where each closed channel's closer is (a thread past `closeCancel` and another
  past `closeTerminate`); `GracefulCheckpoint`, since without termination the
  backend returns only when no step is under way. Of the whole:
  `StepOfCancel` and `StepOfParts` show that a step of `Execution` is a step of
  each part or leaves it alone, so the parts' invariants carry over, and
  `NothingLeftBehind` combines them. It needs three facts that neither part has:
  a program that was not prepared has launched nothing (`UnpreparedInv`); the
  operation's `Close` of a Go program's server is the only one, so it never
  finds the server "canceled" by another and returns without waiting
  (`OwnServerInv`); and `execute` returns only behind both deferred calls, whose
  effect no late goroutine of the engine undoes (`ReturnedInv`).
  `OwnCloseGetsThrough` is the safety half of the promise that this `Close`
  returns: `OwnServerInv` ties the state to how far the one `Run` and the one
  `Close` are, so a `Close` that sleeps has a `Run` that will wake it, and one
  that wakes finds "finished". With a second `Close` both fail, see above.
- `OperationResultProofs`: `RefusalsUntouched`, `ReportsAgree`,
  `ReadsAreFresh`. `ResultInv` is the conjunction of what is known of the stage
  and its raw error (`RunInv`), of the checkpoint before the engine runs
  (`UntouchedInv`), of the plan (`PlanInv`), of the recorded failures
  (`NotesInv`) and of what was read (`ReadInv`). Its last step is about `classify`: the kind of an error is that
  of the first link of its chain that has one, so the lemmas `FirstCaseIs`,
  `KindIs`, `JSONIs` and `ClassifyCases` say which branch gives which kind. It
  has to be shown, for instance, that no branch turns an error of a run that
  wrote into one of the kinds that promise that nothing was written, and that
  `savePlan`'s is the only refusal after the engine ran.
- `StackLockingProofs`: type correctness; `MutualExclusion`; `AllReleased`;
  `CancelCovers`. The invariant of the locks says that the mutex belongs to an operation
  exactly while it is between `TryLock` and the deferred `Unlock`, that every
  lock file has a holder, that without sharing every holder still has its file
  and is alone on its handle, and that an unfinished operation is in `running`.
  A call then enters the checkpoint alone because a critical call's file would
  have been seen on the second look. For `CancelCovers`, what a sweep owes is
  what it has cancelled together with what is left in its copy (`SweepInv`);
  the two meet when the copy is empty, whatever started or ended meanwhile.
- `StdoutCaptureProofs`: type correctness; `FlushRouted`; `HostOrderKept`;
  `HeaderReachesItsOperation`. `FlushInv` says that the pipe and the pump's
  hand are empty before the swap, that a sentinel is registered before it is
  written and lies behind its operation's header, and that once it was
  answered, or was never needed, no header of that operation is under way. The
  order in the pipe is what makes it inductive: reading a sentinel at the head
  then leaves no header behind it. The order of the host's writes is not
  inductive on the original stdout alone; it is an invariant of the original
  stdout followed by the pipe (`HostInv`), which a forwarded write does not
  change. For the header, an operation is listed until it has flushed
  (`ListenInv`), and a header is in at most one of pipe, hand and streams, in
  none before it is printed and, if it is unique and lines are whole, never
  dropped (`PlaceInv`). With `FlushInv` it can then only be in its own stream.
  `SentinelAwaited`: the sentinel of a flush that waits is in the pipe
  (`Unread`), and the pump that reads it either answers it or finds it behind
  an unfinished line and forwards it (`Glued`), which is for good. So
  `flush_hangs` shows the only way to wait for ever.
- `CredentialsProofs`: type correctness; `EachGetsItsOwn`; `FileIsRestored`.
  Whoever is inside has the mutex (`MutexInv`), so nobody else has rewritten
  the file between a client's store and its constructor (`TokenInv`), and what
  it read before is the user's login (`FileInv`), until a restore fails or a
  process dies inside.
- `StackConfigProofs`: type correctness; `HandleHasRightPassphrase`;
  `SecretsStayReadable`; `CheckpointPassphraseKept`, an action property. A
  manager is sound if it holds the passphrase its salt was made with. `KeyInv`
  says that of the cache, of every handle that has got its manager and of the
  checkpoint, and of the keys of the secrets in the file and in every handle's
  copy of it: a copy may be older than the file, so each needs it separately.
  What an `Import` brings is sound too: whatever material it is, the passphrase
  belongs to it.
- `CApiProofs`: `WaitsFindTheirOperation`; `ServerLivesWithOperation`;
  `IterationsAreComplete`. An id is given out once, so a release removes no
  other operation's, and every release comes after a wait that returned
  (`RegistryInv`); the server is up from the request to the return of the wait
  (`ServerInv`).

The assumptions are those on the constants, named in the module that declares
them (`StreamAssumption`, `LockingAssumption`, `CaptureAssumption`,
`CredentialsAssumption`, `ProgramHostAssumption`, `ExecutionAssumption`,
`SpecAssumption`, `ConfigAssumption`, `CApiAssumption`): the kinds of calls and
sources are disjoint, markers such as "no token" are none of the values, and
the bounds are numbers. The theorems on `OperationResult` need none.

Every invariant, action property and refinement of a passing run is stated by a
theorem. Type correctness is proved of every module whose proofs need it and
model-checked for `EventStream` only. Only model-checked are the liveness properties, since fairness and
`ENABLED` are out of the prover's reach: `WaitReturns`, `ReaderReachesEnd`,
`CancelEnds`, `ScopeGoroutineEnds`, `OperationsEnd`, `EndsIfWholeLines`,
`OpenEnds`, `CallsReturn` and `ClosesReturn`; and the three runs that show a
violation. What a recursive definition computes for every input would need
induction over data, which the installed provers cannot do; no module that is
proved about declares a `RECURSIVE` operator, and `HostOutputInOrder` speaks of
positions rather than of a filtered sequence for that reason.

## Not modelled

Pulumi's engine, backends and cryptography beyond what is said above; memory
use of abandoned streams; the conversion and wording of events and of output
values; queries that only read (export, history, tags, the paging of a
listing); `SetTags`, which writes through the backend and replaces the handle's
stack object by another of the same stack; `SignalCancellation` and `Provider`
of the plugin host, which pass a call on; the gRPC services of the bindings'
inline programs and koffi's thread pool; the Automation API facade, a
translation of types and messages over the Node binding; scripts, examples and
the drift checker, which do not run with the library. `os.Pipe` blocking when
full and the host keeping the old `os.Stdout` are left out of `StdoutCapture`.

## Plan

1. Abstract specifications of the lock (one call in the checkpoint) and of the
   credentials hand-over (each `Open` reads its token in one step), with the
   detailed modules shown to implement them, as `EventStream` is.
2. Properties for the hazards that have none, where the code makes a promise.
