-------------------------- MODULE OperationCancel --------------------------
(***************************************************************************)
(* Cancelling one Operation (src/engine/operation.go).                     *)
(*                                                                         *)
(* Operation.Cancel is called by any number of threads (callers, a         *)
(* Stack.Cancel, a binding) and by the context's AfterFunc.  The first     *)
(* call closes cancelCh and asks for a graceful stop, a later one closes   *)
(* terminateCh.  While the backend runs, a goroutine of the cancellation   *)
(* scope turns the two channels into the engine's cancel and terminate     *)
(* signals.  The engine itself is external: its steps change the world and *)
(* are then written to the checkpoint.                                     *)
(***************************************************************************)
EXTENDS Naturals

CONSTANTS
    Callers,   \* threads that may call Operation.Cancel, once each
    Ctx,       \* the goroutine of context.AfterFunc(ctx, o.Cancel)
    Steps      \* the engine's resource steps

Threads == Callers \cup {Ctx}

ThreadStates == {"idle", "closeCancel", "closeTerminate", "returned"}
Phases       == {"preparing", "running", "scopeClosed", "finishing", "done"}
ScopeStates  == {"none", "awaitCancel", "awaitTerminate", "exited"}
StepStates   == {"todo", "inflight", "applied", "failed", "recorded"}
Raws         == {"none", "ok", "rejected", "failed", "cancelled"}
Errors       == {"none", "ok", "Cancelled", "rejected", "failed"}

VARIABLES
    thread,            \* where each caller of Cancel is
    cancelRequested,   \* Operation.cancelRequested
    cancelCh,          \* how often cancelCh was closed
    terminateCh,       \* how often terminateCh was closed
    phase,             \* the goroutine of Operation.run
    scope,             \* the goroutine NewScope starts
    scopeDone,         \* scope.done is closed
    canceled,          \* the engine's context was cancelled: src.Cancel
    terminated,        \* ... or terminated: src.Terminate
    step,              \* the engine's steps
    raw,               \* what execute returned
    err                \* Operation.err, once finish has classified raw

vars == <<thread, cancelRequested, cancelCh, terminateCh, phase, scope, scopeDone,
          canceled, terminated, step, raw, err>>
signalVars == <<thread, cancelRequested, cancelCh, terminateCh>>
scopeVars  == <<scope, scopeDone, canceled, terminated>>

Init ==
    /\ thread = [t \in Threads |-> "idle"]
    /\ cancelRequested = FALSE
    /\ cancelCh = 0
    /\ terminateCh = 0
    /\ phase = "preparing"
    /\ scope = "none"
    /\ scopeDone = FALSE
    /\ canceled = FALSE
    /\ terminated = FALSE
    /\ step = [s \in Steps |-> "todo"]
    /\ raw = "none"
    /\ err = "none"

-----------------------------------------------------------------------------
(***************************************************************************)
(* Faulty variants of the actions below, one slip each; every property at  *)
(* the end fails when one of them replaces the action it is named after.   *)
(***************************************************************************)

\* Cancel without the return after the first close: every call goes on to
\* terminate.
CloseCancelFallsThrough(t) ==
    /\ thread[t] = "closeCancel"
    /\ cancelCh' = IF cancelCh = 0 THEN 1 ELSE cancelCh
    /\ thread' = [thread EXCEPT ![t] = "closeTerminate"]
    /\ UNCHANGED <<cancelRequested, terminateCh, phase, scopeVars, step, raw, err>>

\* The scope turns the first signal into src.Terminate.
ScopeCancelTerminates ==
    /\ scope = "awaitCancel"
    /\ cancelCh > 0
    /\ canceled' = TRUE
    /\ terminated' = TRUE
    /\ scope' = "exited"
    /\ UNCHANGED <<signalVars, phase, scopeDone, step, raw, err>>

\* The scope's goroutine gives up when its scope is closed, but only while
\* it waits for the first signal.
ScopeEndsOnlyEarly ==
    /\ scope = "awaitCancel"
    /\ scopeDone
    /\ scope' = "exited"
    /\ UNCHANGED <<signalVars, phase, scopeDone, canceled, terminated, step, raw, err>>

\* The scope is handed out without its goroutine when a cancel came first.
NewScopeMissesCancel ==
    /\ phase = "preparing"
    /\ phase' = "running"
    /\ scope' = IF cancelRequested THEN "exited" ELSE "awaitCancel"
    /\ UNCHANGED <<signalVars, scopeDone, canceled, terminated, step, raw, err>>

-----------------------------------------------------------------------------
(* Operation.Cancel, one thread at a time through each atomic step. *)

\* The CompareAndSwap.  The context's AfterFunc is one of the threads, at any
\* time: the deferred stop() keeps it from starting but does not wait for a
\* function that has started.
Cancel(t) ==
    /\ thread[t] = "idle"
    /\ cancelRequested' = TRUE
    /\ thread' = [thread EXCEPT ![t] = IF cancelRequested THEN "closeTerminate" ELSE "closeCancel"]
    /\ UNCHANGED <<cancelCh, terminateCh, phase, scopeVars, step, raw, err>>

\* cancelOnce.Do(close(cancelCh)): at most once.
CloseCancel(t) ==
    /\ thread[t] = "closeCancel"
    /\ cancelCh' = IF cancelCh = 0 THEN 1 ELSE cancelCh
    /\ thread' = [thread EXCEPT ![t] = "returned"]
    /\ UNCHANGED <<cancelRequested, terminateCh, phase, scopeVars, step, raw, err>>

\* terminateOnce.Do(close(terminateCh)): at most once.
CloseTerminate(t) ==
    /\ thread[t] = "closeTerminate"
    /\ terminateCh' = IF terminateCh = 0 THEN 1 ELSE terminateCh
    /\ thread' = [thread EXCEPT ![t] = "returned"]
    /\ UNCHANGED <<cancelRequested, cancelCh, phase, scopeVars, step, raw, err>>

-----------------------------------------------------------------------------
(* The cancellation scope. *)

\* The backend asks for its scope when it starts the engine.
NewScope ==
    /\ phase = "preparing"
    /\ phase' = "running"
    /\ scope' = "awaitCancel"
    /\ UNCHANGED <<signalVars, scopeDone, canceled, terminated, step, raw, err>>

\* `case <-s.op.cancelCh: src.Cancel()`
ScopeCancel ==
    /\ scope = "awaitCancel"
    /\ cancelCh > 0
    /\ canceled' = TRUE
    /\ scope' = "awaitTerminate"
    /\ UNCHANGED <<signalVars, phase, scopeDone, terminated, step, raw, err>>

\* `case <-s.op.terminateCh: src.Terminate()`
ScopeTerminate ==
    /\ scope = "awaitTerminate"
    /\ terminateCh > 0
    /\ terminated' = TRUE
    /\ scope' = "exited"
    /\ UNCHANGED <<signalVars, phase, scopeDone, canceled, step, raw, err>>

\* `case <-sc.done`, in either select.
ScopeEnds ==
    /\ scope \in {"awaitCancel", "awaitTerminate"}
    /\ scopeDone
    /\ scope' = "exited"
    /\ UNCHANGED <<signalVars, phase, scopeDone, canceled, terminated, step, raw, err>>

-----------------------------------------------------------------------------
(* The engine (external). *)

EngineStep(s, from, to) ==
    /\ step[s] = from
    /\ step' = [step EXCEPT ![s] = to]
    /\ UNCHANGED <<signalVars, phase, scopeVars, raw, err>>

\* No new step starts once a step failed or the context was cancelled.
StartStep(s) ==
    /\ phase = "running" /\ raw = "none"
    /\ ~canceled
    /\ \A u \in Steps : step[u] # "failed"
    /\ EngineStep(s, "todo", "inflight")

\* A step in flight reaches the world or fails, the operation's end or not:
\* a provider that was told to terminate may still have acted.
ApplyStep(s) == EngineStep(s, "inflight", "applied")
FailStep(s)  == EngineStep(s, "inflight", "failed")

\* The checkpoint is written under a context nobody cancels (bctx).
RecordStep(s) ==
    /\ raw = "none"
    /\ EngineStep(s, "applied", "recorded")

Quiet == \A s \in Steps : step[s] \notin {"inflight", "applied"}

\* The backend call returns: finished, failed or cancelled once nothing is in
\* flight, or at once when it was terminated.
EngineReturns ==
    /\ phase = "running" /\ raw = "none"
    /\ \/ /\ \A s \in Steps : step[s] = "recorded"
          /\ raw' = "ok"
       \/ /\ Quiet
          /\ \E s \in Steps : step[s] = "failed"
          /\ raw' = "failed"
       \/ /\ Quiet
          /\ canceled
          /\ raw' = "cancelled"
       \/ /\ terminated
          /\ raw' = "cancelled"
    /\ UNCHANGED <<signalVars, phase, scopeVars, step, err>>

-----------------------------------------------------------------------------
(* Operation.run. *)

\* execute returns before the backend call: invalid options, the handle is
\* busy, the program does not prepare.
Reject ==
    /\ phase = "preparing"
    /\ raw' = "rejected"
    /\ phase' = "scopeClosed"
    /\ UNCHANGED <<signalVars, scopeVars, step, err>>

\* The backend closes its scope when the engine has returned.
CloseScope ==
    /\ phase = "running"
    /\ raw # "none"
    /\ scopeDone' = TRUE
    /\ phase' = "scopeClosed"
    /\ UNCHANGED <<signalVars, scope, canceled, terminated, step, raw, err>>

\* The rest of execute, up to the deferred stop().
LeaveExecute ==
    /\ phase = "scopeClosed"
    /\ phase' = "finishing"
    /\ UNCHANGED <<signalVars, scopeVars, step, raw, err>>

\* finish: classifyOperationError, then Wait returns.
Finish ==
    /\ phase = "finishing"
    /\ err' = CASE raw = "ok"                             -> "ok"
                [] raw # "ok" /\ cancelRequested          -> "Cancelled"
                [] raw = "cancelled" /\ ~cancelRequested  -> "Cancelled"
                [] OTHER                                  -> raw
    /\ phase' = "done"
    /\ UNCHANGED <<signalVars, scopeVars, step, raw>>

-----------------------------------------------------------------------------
CancelNext(t) == Cancel(t) \/ CloseCancel(t) \/ CloseTerminate(t)
ScopeNext     == ScopeCancel \/ ScopeTerminate \/ ScopeEnds
StepNext(s)   == StartStep(s) \/ ApplyStep(s) \/ FailStep(s) \/ RecordStep(s)
RunNext       == NewScope \/ Reject \/ CloseScope \/ LeaveExecute \/ Finish

Next ==
    \/ \E t \in Threads : CancelNext(t)
    \/ ScopeNext
    \/ \E s \in Steps : StepNext(s)
    \/ EngineReturns
    \/ RunNext

-----------------------------------------------------------------------------
(* Properties. *)

TypeOK ==
    /\ thread \in [Threads -> ThreadStates]
    /\ cancelRequested \in BOOLEAN
    /\ cancelCh \in Nat /\ terminateCh \in Nat
    /\ phase \in Phases
    /\ scope \in ScopeStates
    /\ scopeDone \in BOOLEAN /\ canceled \in BOOLEAN /\ terminated \in BOOLEAN
    /\ step \in [Steps -> StepStates]
    /\ raw \in Raws
    /\ err \in Errors

\* Threads whose Cancel call has got past the CompareAndSwap.
Called == {t \in Threads : thread[t] # "idle"}

\* The engine is terminated only after it was cancelled and only when Cancel
\* was called twice: one call, from whichever source, is a graceful cancel
\* however it interleaves with the scope (operation.go, Cancel and NewScope).
TerminateTakesTwo ==
    /\ terminated => canceled
    /\ terminated => \E t, u \in Called : t # u

\* A single Cancel never leaves the checkpoint behind reality: when Wait
\* returns, every step that reached the world is recorded.  Only a second
\* call may (operation.go, Cancel).
CheckpointNotBehind ==
    phase = "done" /\ (\A t, u \in Called : t = u) => Quiet

\* The scope's goroutine does not outlive the operation.
ScopeGoroutineEnds == (phase = "done") ~> (scope \in {"none", "exited"})

=============================================================================
