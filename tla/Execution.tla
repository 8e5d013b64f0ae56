----------------------------- MODULE Execution -----------------------------
(***************************************************************************)
(* One operation from start to Wait (src/engine/operation.go, execute and  *)
(* run): the goroutine that prepares the program, calls the backend and    *)
(* makes the deferred calls, the calls of Cancel and the scope             *)
(* (OperationCancel), and the program's server and plugin host             *)
(* (ProgramHost), which the engine uses and the deferred calls close.      *)
(***************************************************************************)
EXTENDS ProgramHost

CONSTANTS
    CancelCallers, Ctx, Steps,  \* as in OperationCancel
    OwnHostCloser               \* the operation's Close of its host; the others are the engine's

ASSUME ExecutionAssumption ==
    /\ Ctx \notin CancelCallers
    /\ OwnHostCloser \in HostClosers

VARIABLES
    thread, cancelRequested, cancelCh, terminateCh, phase, scope, scopeDone, canceled,
    terminated, step, raw, err

OC == INSTANCE OperationCancel WITH Callers <- CancelCallers

operationVars == <<thread, cancelRequested, cancelCh, terminateCh, phase, scope, scopeDone,
                   canceled, terminated, step, raw, err>>
allVars == <<vars, operationVars>>

ExecInit == Init /\ OC!Init

Server(A) == A /\ UNCHANGED <<program, hostVars, operationVars>>
Host(A)   == A /\ UNCHANGED <<program, serverVars, operationVars>>
Engine(A) == A /\ UNCHANGED vars

-----------------------------------------------------------------------------
(* Faulty variants, one slip each. *)

\* prep.close is not deferred but left to a goroutine.
ReturnWithoutProgram ==
    /\ Prepared => hcloser[OwnHostCloser] = "returned"
    /\ Engine(OC!LeaveExecute)

-----------------------------------------------------------------------------
(* execute. *)

Prepare ==
    /\ phase = "preparing"
    /\ PrepareFails \/ PrepareServed \/ PrepareLocal
    /\ UNCHANGED operationVars

\* The early returns, before and after prepare, and a backend that fails
\* before it asks for its scope.
Reject == Engine(OC!Reject)

BackendCall == Prepared /\ Engine(OC!NewScope)

\* What the engine does with the program and its host.  A goroutine of an
\* engine that was terminated may still do so when the call has returned.
EngineUses ==
    /\ phase # "preparing" /\ raw # "rejected"
    /\ \/ Server(RunProgram)
       \/ Host(LanguageRuntime)
       \/ \E k \in HostClosers \ {OwnHostCloser} : Host(CloseHost(k))

\* The deferred calls: host.close, prep.close, stop.
DeferredHostClose == phase = "scopeClosed" /\ Host(CloseHost(OwnHostCloser))

DeferredProgramClose ==
    /\ phase = "scopeClosed"
    /\ hcloser[OwnHostCloser] = "returned"
    /\ Server(CloseProgram)

ExecuteReturns ==
    /\ Prepared => hcloser[OwnHostCloser] = "returned"
    /\ program = "go" => closer[OwnCloser] \in {"nothing", "returned"}
    /\ Engine(OC!LeaveExecute)

RunStep ==
    \/ Prepare \/ Reject \/ BackendCall
    \/ Engine(OC!CloseScope)
    \/ DeferredHostClose \/ DeferredProgramClose \/ ExecuteReturns
    \/ Engine(OC!Finish)

ExecNext ==
    \/ RunStep \/ EngineUses
    \/ Server(UseCallback) \/ Server(ServerGoesOn) \/ Host(HostGoesOn)
    \/ \E t \in OC!Threads : Engine(OC!CancelNext(t))
    \/ Engine(OC!ScopeNext)
    \/ \E s \in Steps : Engine(OC!StepNext(s))
    \/ Engine(OC!EngineReturns)

ExecSpec == ExecInit /\ [][ExecNext]_allVars

\* Goroutines that can run do, and the engine records what was applied and
\* returns when it can.  Code of others need not go on: a program need not
\* start a step nor end, a provider need not finish one, a language host need
\* not print its port, and nobody has to call Cancel.
ExecFairness ==
    /\ WF_allVars(RunStep)
    /\ \A t \in OC!Threads : WF_allVars(Engine(OC!CloseCancel(t) \/ OC!CloseTerminate(t)))
    /\ WF_allVars(Engine(OC!ScopeNext))
    /\ \A s \in Steps : WF_allVars(Engine(OC!RecordStep(s)))
    /\ WF_allVars(Engine(OC!EngineReturns))
    /\ \A r \in Runs : WF_allVars(Server(LS!Broadcast(r)))
    /\ \A c \in Closers : WF_allVars(Server(LS!CloserStep(c)))
    /\ WF_allVars(Server(LS!Stopped))
    /\ \A c \in Callers : WF_allVars(Host(PH!LaunchGoesOn(c)))
    /\ \A k \in HostClosers : SF_allVars(Host(PH!CloseStep(k)))

FairExecSpec == ExecSpec /\ ExecFairness

-----------------------------------------------------------------------------
(* Properties. *)

TypeOK == OC!TypeOK

\* OperationCancel: one call of Cancel never terminates the engine.
TerminateTakesTwo == OC!TerminateTakesTwo

\* OperationCancel: a graceful cancel leaves the checkpoint up to date.
CheckpointNotBehind == OC!CheckpointNotBehind

\* When execute has returned, and so when Wait does, the operation leaves
\* nothing of its own behind, however it ended: no Run of its Go program is
\* still going on in this process, also when a terminated engine did not wait
\* for it, and every language host that was launched before the host was
\* closed has been waited for (operation.go:300 and 341, the deferred calls).
WaitLeavesNothing ==
    phase \in {"finishing", "done"} =>
        /\ program = "go" => LS!Handling = {}
        /\ \A c \in Callers \ late : proc[c] \in {"none", "reaped"}

\* The operation's own Close of a Go program's server gets through, unlike one
\* that meets others: it sleeps only while the Run that will wake it goes on,
\* finds the program finished when it wakes, and never sends on a channel that
\* is closed (langserver.go:110, Close; operation.go:300).
OwnCloseWoken ==
    program = "go" =>
        /\ closer[OwnCloser] \notin {"nothing", "panicked"}
        /\ closer[OwnCloser] = "asleep" => OwnRun \in LS!Handling
        /\ closer[OwnCloser] = "awake" => state = "finished"

\* What may hold the operation up for ever once it was cancelled, nothing of
\* which is code of this repository: a provider with a step in flight, until
\* the engine is terminated; a language host that neither prints its port nor
\* dies; a Go program that does not return.  The last two hold it up after a
\* terminate as well, since execute's deferred calls wait for them.
HeldUp ==
    \/ ~terminated /\ \E s \in Steps : step[s] = "inflight"
    \/ \E c \in Callers : call[c] = "port"
    \/ program = "go" /\ run[OwnRun] = "active"

\* A cancel is never lost, whenever it comes, before the backend has asked for
\* its scope too: Wait returns, as it does when the backend call has returned
\* by itself, unless the operation is held up by code of others for ever
\* (operation.go:190, Cancel, and 605, NewScope; README.md:417-427 of the
\* repository says that language-side calls may never return).
CancelEnds == (cancelRequested \/ raw # "none") ~> (phase = "done" \/ []HeldUp)

\* The scope's goroutine does not outlive the operation.
ScopeGoroutineEnds == OC!ScopeGoroutineEnds

=============================================================================
