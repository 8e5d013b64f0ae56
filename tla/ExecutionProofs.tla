-------------------------- MODULE ExecutionProofs --------------------------
(***************************************************************************)
(* Proofs about an operation's execution, for any number of callers of     *)
(* Cancel, steps, runs, closes, language hosts and runtimes: first its     *)
(* program and host (ProgramHost), then its cancellation                   *)
(* (OperationCancel), then what it leaves behind (Execution).              *)
(***************************************************************************)
EXTENDS Execution, TLAPS

RunStates    == {"idle", "active", "leaving", "done", "refused"}
CloserStates == {"idle", "nothing", "send", "asleep", "awake", "stopping", "panicked", "returned"}

(***************************************************************************)
(* The server.  It stops once, because the cancel channel is closed once;  *)
(* a Close returns from the wait for the stop, and the server has stopped  *)
(* only when it handles nothing and takes no Run after that.               *)
(***************************************************************************)
ServerInv ==
    /\ run \in [Runs -> RunStates]
    /\ closer \in [Closers -> CloserStates]
    /\ cancel = "open" => grpc = "serving"
    /\ \A c \in Closers : closer[c] = "returned" => grpc = "stopped"
    /\ grpc = "stopped" => LS!Handling = {}

\* A step of the server, whoever's Run or Close it is.
LEMMA ServerStepInv ==
    ASSUME ServerInv, ServerStep
    PROVE  ServerInv'
<1> USE DEF ServerInv, RunStates, CloserStates, LS!Handling
<1>1. ASSUME NEW r \in Runs, LS!Run(r)
      PROVE  ServerInv'
  BY <1>1 DEF LS!Run
<1>2. ASSUME NEW r \in Runs, LS!RunStep(r)
      PROVE  ServerInv'
  BY <1>2 DEF LS!RunStep, LS!RunFinished, LS!Broadcast
<1>3. ASSUME NEW c \in Closers, LS!Close(c)
      PROVE  ServerInv'
  BY <1>3 DEF LS!Close
<1>4. ASSUME NEW c \in Closers, LS!CloserStep(c)
      PROVE  ServerInv'
  <2>1. CASE LS!Wake(c)
    BY <2>1 DEF LS!Wake
  <2>2. CASE LS!SendCancel(c)
    BY <2>2 DEF LS!SendCancel
  <2>3. CASE LS!CloseReturns(c)
    BY <2>3 DEF LS!CloseReturns
  <2> QED
    BY <1>4, <2>1, <2>2, <2>3 DEF LS!CloserStep
<1>5. CASE LS!Stopped
  BY <1>5 DEF LS!Stopped
<1> QED
  BY <1>1, <1>2, <1>3, <1>4, <1>5, ProgramHostAssumption
  DEF ServerStep, RunProgram, CloseProgram, UseCallback, ServerGoesOn

-----------------------------------------------------------------------------
(***************************************************************************)
(* The plugin host.  A process that has not been waited for belongs to the *)
(* launch under way, to the map, or to the Close that took the map; a      *)
(* launch holds the mutex throughout, so Close finds none half done and no *)
(* launch replaces an entry of the map.                                    *)
(***************************************************************************)
Launching  == {"locked", "exec", "port", "dial", "test"}
CallStates == {"idle", "delegated", "failed", "alive"} \cup Launching

HostTypes ==
    /\ mu \in Callers \cup {None}
    /\ call \in [Callers -> CallStates]
    /\ proc \in [Callers -> {"none", "up", "dead", "reaped"}]
    /\ langs \in [Runtimes -> Callers \cup {None}]
    /\ once \in {"no", "taken", "swapped", "done"}
    /\ hcloser \in [HostClosers -> {"idle", "first", "waiting", "returned"}]
    /\ closing \subseteq Callers
    /\ late \subseteq Callers

Unreaped(c) == proc[c] \in {"up", "dead"}

OwnedInv ==
    /\ closing # {} => once = "swapped"
    /\ \A c \in Callers :
        /\ call[c] \in Launching <=> mu = c
        /\ call[c] \in Launching \ {"locked"} => langs[RuntimeOf[c]] = None
        /\ Unreaped(c) =>
              \/ call[c] \in {"port", "dial", "test"}
              \/ langs[RuntimeOf[c]] = c
              \/ c \in closing
        /\ once \in {"swapped", "done"} =>
              /\ call[c] \in {"port", "dial", "test"} => c \in late
              /\ langs[RuntimeOf[c]] = c => c \in late

HostInv == HostTypes /\ OwnedInv

\* A step of a launch.
LEMMA LaunchInv ==
    ASSUME HostInv, NEW c \in Callers,
           PH!Delegate(c) \/ PH!Lock(c) \/ PH!LaunchStep(c) \/ PH!Dies(c)
    PROVE  HostInv'
<1> USE ProgramHostAssumption
    DEF HostInv, HostTypes, OwnedInv, Unreaped, CallStates, Launching, PH!Goto, PH!Reaped
<1>1. CASE PH!Delegate(c)
  BY <1>1 DEF PH!Delegate
<1>2. CASE PH!Lock(c)
  BY <1>2 DEF PH!Lock
<1>3. CASE PH!Lookup(c)
  BY <1>3 DEF PH!Lookup
<1>4. CASE PH!ExecPlugin(c)
  BY <1>4 DEF PH!ExecPlugin
<1>5. CASE PH!ReadPort(c) \/ PH!DialReady(c)
  BY <1>5 DEF PH!ReadPort, PH!DialReady
<1>6. CASE PH!TestConnection(c)
  BY <1>6 DEF PH!TestConnection
<1>7. CASE PH!LaunchFails(c)
  BY <1>7 DEF PH!LaunchFails
<1>8. CASE PH!Dies(c)
  BY <1>8 DEF PH!Dies
<1> QED
  BY <1>1, <1>2, <1>3, <1>4, <1>5, <1>6, <1>7, <1>8 DEF PH!LaunchStep

\* A step of a Close.
LEMMA CloseInv ==
    ASSUME HostInv, NEW k \in HostClosers, PH!HostClose(k) \/ PH!CloseStep(k)
    PROVE  HostInv'
<1> USE ProgramHostAssumption
    DEF HostInv, HostTypes, OwnedInv, Unreaped, CallStates, Launching, PH!Reaped
<1>1. CASE PH!HostClose(k)
  BY <1>1 DEF PH!HostClose
<1>2. CASE PH!TakeLangs(k)
  BY <1>2 DEF PH!TakeLangs
<1>3. CASE PH!ClosePlugin(k)
  BY <1>3 DEF PH!ClosePlugin
<1>4. CASE PH!HostClosed(k) \/ PH!OnceReturns(k)
  BY <1>4 DEF PH!HostClosed, PH!OnceReturns
<1> QED
  BY <1>1, <1>2, <1>3, <1>4 DEF PH!CloseStep

-----------------------------------------------------------------------------
(* The program with its host. *)

PartsInv == ServerInv /\ HostInv

\* They hold at the start.
LEMMA PartsInit == Init => PartsInv
<1> SUFFICES ASSUME Init
             PROVE  ServerInv /\ HostInv
  BY DEF PartsInv
<1>1. ServerInv
  BY DEF Init, LS!Init, ServerInv, RunStates, CloserStates, LS!Handling
<1>2. HostTypes
  BY ProgramHostAssumption DEF Init, PH!Init, HostTypes, CallStates
<1>3. OwnedInv
  BY ProgramHostAssumption DEF Init, PH!Init, OwnedInv, Unreaped, Launching
<1> QED
  BY <1>1, <1>2, <1>3 DEF HostInv

\* A step of the one leaves the other alone.
LEMMA PartsStep == PartsInv /\ [Next]_vars => PartsInv'
<1> SUFFICES ASSUME PartsInv, [Next]_vars
             PROVE  PartsInv'
  OBVIOUS
<1>1. ASSUME UNCHANGED serverVars
      PROVE  ServerInv'
  BY <1>1 DEF serverVars, PartsInv, ServerInv, LS!Handling
<1>2. ASSUME UNCHANGED hostVars
      PROVE  HostInv'
  BY <1>2 DEF hostVars, PartsInv, HostInv, HostTypes, OwnedInv, Unreaped
<1>3. CASE ServerStep /\ UNCHANGED <<program, hostVars>>
  BY <1>2, <1>3, ServerStepInv DEF PartsInv
<1>4. CASE HostStep /\ UNCHANGED <<program, serverVars>>
  <2>1. HostInv'
    BY <1>4, LaunchInv, CloseInv DEF PartsInv, HostStep, LanguageRuntime, CloseHost, HostGoesOn
  <2> QED
    BY <1>1, <1>4, <2>1 DEF PartsInv
<1>5. CASE PrepareFails \/ PrepareServed \/ PrepareLocal \/ UNCHANGED vars
  BY <1>1, <1>2, <1>5 DEF PrepareFails, PrepareServed, PrepareLocal, vars, PartsInv
<1> QED
  BY <1>3, <1>4, <1>5 DEF Next

\* Both parts' invariants hold together.
LEMMA PartsInvariant == Spec => []PartsInv
BY PartsInit, PartsStep, PTL DEF Spec

\* A Close that waited for the server has left no program running in it, for
\* any number of Runs and Closes (langserver.go, Run and Close).
THEOREM CloseLeavesIdle == Spec => []ClosedMeansIdle
<1>1. PartsInv => ClosedMeansIdle
  BY DEF PartsInv, ServerInv, ClosedMeansIdle, LS!ClosedMeansIdle
<1> QED
  BY <1>1, PartsInvariant, PTL

\* When Close has returned and no launch is under way, every process launched
\* before Close took the map has been waited for, for any number of launches,
\* runtimes and Closes (pluginhost.go, LanguageRuntime and Close).
THEOREM AllReaped == Spec => []NothingLeftRunning
<1>1. PartsInv => NothingLeftRunning
  BY ProgramHostAssumption
  DEF PartsInv, HostInv, HostTypes, OwnedInv, Unreaped, Launching, NothingLeftRunning,
      PH!NothingLeftRunning
<1> QED
  BY <1>1, PartsInvariant, PTL

\* Until Close takes the map, a runtime has at most one process, however many
\* calls ask for it at once (pluginhost.go, LanguageRuntime).
THEOREM OneProcessEach == Spec => []OneHostPerRuntime
<1>1. PartsInv => OneHostPerRuntime
  BY ProgramHostAssumption
  DEF PartsInv, HostInv, HostTypes, OwnedInv, Unreaped, Launching, OneHostPerRuntime,
      PH!OneHostPerRuntime
<1> QED
  BY <1>1, PartsInvariant, PTL

-----------------------------------------------------------------------------
(***************************************************************************)
(* The composition.  A step of an execution is a step of its cancellation  *)
(* or leaves that alone, and likewise of its program and host, so what the *)
(* parts keep the execution keeps.                                         *)
(***************************************************************************)

\* Seen from the cancellation.
LEMMA StepOfCancel == [ExecNext]_allVars => [OC!Next]_operationVars
<1> SUFFICES ASSUME [ExecNext]_allVars
             PROVE  [OC!Next]_operationVars
  OBVIOUS
<1>1. CASE RunStep
  <2>1. CASE Prepare \/ DeferredHostClose \/ DeferredProgramClose
    BY <2>1 DEF Prepare, DeferredHostClose, DeferredProgramClose, Host, Server
  <2>2. CASE Reject \/ BackendCall \/ ExecuteReturns \/ Engine(OC!CloseScope) \/ Engine(OC!Finish)
    BY <2>2 DEF Reject, BackendCall, ExecuteReturns, Engine, OC!Next, OC!RunNext
  <2> QED
    BY <1>1, <2>1, <2>2 DEF RunStep
<1>2. CASE EngineUses
  BY <1>2 DEF EngineUses, Server, Host
<1>3. CASE Server(UseCallback) \/ Server(ServerGoesOn) \/ Host(HostGoesOn)
  BY <1>3 DEF Server, Host
<1>4. CASE \E t \in OC!Threads : Engine(OC!CancelNext(t))
  BY <1>4 DEF Engine, OC!Next
<1>5. CASE Engine(OC!ScopeNext) \/ Engine(OC!EngineReturns)
  BY <1>5 DEF Engine, OC!Next
<1>6. CASE \E s \in Steps : Engine(OC!StepNext(s))
  BY <1>6 DEF Engine, OC!Next
<1>7. CASE UNCHANGED allVars
  BY <1>7 DEF allVars
<1> QED
  BY <1>1, <1>2, <1>3, <1>4, <1>5, <1>6, <1>7 DEF ExecNext

\* Seen from the program and its host.
LEMMA StepOfParts == [ExecNext]_allVars => [Next]_vars
<1> SUFFICES ASSUME [ExecNext]_allVars
             PROVE  [Next]_vars
  OBVIOUS
<1>1. CASE RunStep
  <2>1. CASE Prepare
    BY <2>1 DEF Prepare, Next
  <2>2. CASE DeferredHostClose
    BY <2>2, ExecutionAssumption DEF DeferredHostClose, Host, Next, HostStep
  <2>3. CASE DeferredProgramClose
    BY <2>3 DEF DeferredProgramClose, Server, Next, ServerStep
  <2>4. CASE Reject \/ BackendCall \/ ExecuteReturns \/ Engine(OC!CloseScope) \/ Engine(OC!Finish)
    BY <2>4 DEF Reject, BackendCall, ExecuteReturns, Engine
  <2> QED
    BY <1>1, <2>1, <2>2, <2>3, <2>4 DEF RunStep
<1>2. CASE EngineUses
  BY <1>2 DEF EngineUses, Server, Host, Next, ServerStep, HostStep
<1>3. CASE Server(UseCallback) \/ Server(ServerGoesOn) \/ Host(HostGoesOn)
  BY <1>3 DEF Server, Host, Next, ServerStep, HostStep
<1>4. CASE \/ \E t \in OC!Threads : Engine(OC!CancelNext(t))
           \/ Engine(OC!ScopeNext) \/ Engine(OC!EngineReturns)
           \/ \E s \in Steps : Engine(OC!StepNext(s))
  BY <1>4 DEF Engine
<1>5. CASE UNCHANGED allVars
  BY <1>5 DEF allVars
<1> QED
  BY <1>1, <1>2, <1>3, <1>4, <1>5 DEF ExecNext

\* The variables keep their types.
LEMMA TypeStep == OC!TypeOK /\ [OC!Next]_operationVars => OC!TypeOK'
<1> SUFFICES ASSUME OC!TypeOK, [OC!Next]_operationVars
             PROVE  OC!TypeOK'
  OBVIOUS
<1> USE DEF OC!TypeOK, OC!ThreadStates, OC!Phases, OC!ScopeStates, OC!StepStates, OC!Raws, OC!Errors,
            OC!signalVars, OC!scopeVars
<1>1. ASSUME NEW t \in OC!Threads, OC!CancelNext(t)
      PROVE  OC!TypeOK'
  <2>1. thread' \in [OC!Threads -> OC!ThreadStates]
    BY <1>1 DEF OC!CancelNext, OC!Cancel, OC!CloseCancel, OC!CloseTerminate
  <2>2. cancelRequested' \in BOOLEAN
    BY <1>1 DEF OC!CancelNext, OC!Cancel, OC!CloseCancel, OC!CloseTerminate
  <2>3. cancelCh' \in Nat /\ terminateCh' \in Nat
    BY <1>1 DEF OC!CancelNext, OC!Cancel, OC!CloseCancel, OC!CloseTerminate
  <2>4. UNCHANGED <<phase, OC!scopeVars, step, raw, err>>
    BY <1>1 DEF OC!CancelNext, OC!Cancel, OC!CloseCancel, OC!CloseTerminate
  <2> QED
    BY <2>1, <2>2, <2>3, <2>4
<1>2. CASE OC!ScopeNext
  <2>1. CASE OC!ScopeCancel     BY <2>1 DEF OC!ScopeCancel
  <2>2. CASE OC!ScopeTerminate  BY <2>2 DEF OC!ScopeTerminate
  <2>3. CASE OC!ScopeEnds       BY <2>3 DEF OC!ScopeEnds
  <2> QED
    BY <1>2, <2>1, <2>2, <2>3 DEF OC!ScopeNext
<1>3. ASSUME NEW s \in Steps, OC!StepNext(s)
      PROVE  OC!TypeOK'
  BY <1>3 DEF OC!StepNext, OC!StartStep, OC!ApplyStep, OC!FailStep, OC!RecordStep, OC!EngineStep
<1>4. CASE OC!EngineReturns
  BY <1>4 DEF OC!EngineReturns
<1>5. CASE OC!NewScope \/ OC!Reject \/ OC!CloseScope \/ OC!LeaveExecute
  <2>1. CASE OC!NewScope      BY <2>1 DEF OC!NewScope
  <2>2. CASE OC!Reject        BY <2>2 DEF OC!Reject
  <2>3. CASE OC!CloseScope    BY <2>3 DEF OC!CloseScope
  <2>4. CASE OC!LeaveExecute  BY <2>4 DEF OC!LeaveExecute
  <2> QED
    BY <1>5, <2>1, <2>2, <2>3, <2>4
<1>6. CASE OC!Finish
  <2>1. err' \in OC!Errors
    BY <1>6 DEF OC!Finish
  <2> QED
    BY <1>6, <2>1 DEF OC!Finish
<1>7. CASE UNCHANGED operationVars
  BY <1>7 DEF operationVars
<1> QED
  BY <1>1, <1>2, <1>3, <1>4, <1>5, <1>6, <1>7 DEF OC!Next, OC!RunNext

\* At the start.
LEMMA TypeInit == OC!Init => OC!TypeOK
<1> SUFFICES ASSUME OC!Init
             PROVE  OC!TypeOK
  OBVIOUS
<1>1. thread \in [OC!Threads -> OC!ThreadStates] /\ step \in [Steps -> OC!StepStates]
  BY DEF OC!Init, OC!ThreadStates, OC!StepStates
<1>2. cancelCh \in Nat /\ terminateCh \in Nat
  BY DEF OC!Init
<1> QED
  BY <1>1, <1>2 DEF OC!Init, OC!TypeOK, OC!Phases, OC!ScopeStates, OC!Raws, OC!Errors

\* Type correctness of the cancellation machinery (operation.go, the fields of
\* Operation and the goroutines of run, NewScope and the engine).
THEOREM TypeCorrect == ExecSpec => []TypeOK
BY TypeInit, TypeStep, StepOfCancel, PTL DEF ExecSpec, ExecInit, TypeOK

-----------------------------------------------------------------------------
(***************************************************************************)
(* The second caller.  A terminate signal, from the thread that is about   *)
(* to close terminateCh to the engine's context, can only exist once two   *)
(* threads have passed the CompareAndSwap, because the thread that lost it *)
(* found cancelRequested set by another.                                   *)
(***************************************************************************)
TwoCalled == \E t, u \in OC!Called : t # u

TerminateInv ==
    /\ cancelRequested => OC!Called # {}
    /\ (\E t \in OC!Threads : thread[t] = "closeTerminate") => TwoCalled
    /\ terminateCh > 0 => TwoCalled
    /\ scope = "awaitTerminate" => canceled
    /\ OC!TerminateTakesTwo

\* Threads never go back to before their call.
LEMMA CalledGrows == OC!TypeOK /\ [OC!Next]_operationVars => OC!Called \subseteq OC!Called'
<1> SUFFICES ASSUME OC!TypeOK, [OC!Next]_operationVars
             PROVE  OC!Called \subseteq OC!Called'
  OBVIOUS
<1>1. ASSUME NEW t \in OC!Threads, OC!CancelNext(t)
      PROVE  OC!Called \subseteq OC!Called'
  BY <1>1 DEF OC!CancelNext, OC!Cancel, OC!CloseCancel, OC!CloseTerminate, OC!Called, OC!TypeOK, OC!ThreadStates
<1>2. ASSUME UNCHANGED thread
      PROVE  OC!Called \subseteq OC!Called'
  BY <1>2 DEF OC!Called
<1>3. (\E t \in OC!Threads : OC!CancelNext(t)) \/ UNCHANGED thread
  BY DEF OC!Next, OC!ScopeNext, OC!ScopeCancel, OC!ScopeTerminate, OC!ScopeEnds, OC!StepNext, OC!StartStep,
         OC!ApplyStep, OC!FailStep, OC!RecordStep, OC!EngineStep, OC!EngineReturns, OC!RunNext, OC!NewScope,
         OC!Reject, OC!CloseScope, OC!LeaveExecute, OC!Finish, operationVars, OC!signalVars
<1> QED
  BY <1>1, <1>2, <1>3

\* Every step keeps the account of who closed which channel.
LEMMA TerminateStep == OC!TypeOK /\ TerminateInv /\ [OC!Next]_operationVars => TerminateInv'
<1> SUFFICES ASSUME OC!TypeOK, TerminateInv, [OC!Next]_operationVars
             PROVE  TerminateInv'
  OBVIOUS
<1>0. /\ OC!Called \subseteq OC!Called'
      /\ TwoCalled => TwoCalled'
      /\ OC!Called # {} => OC!Called' # {}
  BY CalledGrows DEF TwoCalled
<1>1. ASSUME NEW t \in OC!Threads, OC!Cancel(t)
      PROVE  TerminateInv'
  <2>1. /\ thread[t] = "idle"
        /\ thread' = [thread EXCEPT ![t] = IF cancelRequested THEN "closeTerminate" ELSE "closeCancel"]
        /\ UNCHANGED <<terminateCh, scope, canceled, terminated>>
    BY <1>1 DEF OC!Cancel, OC!scopeVars
  <2>2. t \in OC!Called' /\ t \notin OC!Called
    BY <2>1 DEF OC!Called, OC!TypeOK
  <2>3. cancelRequested => TwoCalled'
    BY <2>2, <1>0 DEF TerminateInv, TwoCalled
  <2>4. (\E u \in OC!Threads : thread'[u] = "closeTerminate") => TwoCalled'
    BY <1>0, <2>1, <2>3 DEF TerminateInv, OC!TypeOK
  <2> QED
    BY <1>0, <2>1, <2>2, <2>4 DEF TerminateInv, OC!TerminateTakesTwo, TwoCalled
<1>2. ASSUME NEW t \in OC!Threads, OC!CloseCancel(t) \/ OC!CloseTerminate(t)
      PROVE  TerminateInv'
  <2>1. /\ UNCHANGED <<cancelRequested, scope, canceled, terminated>>
        /\ terminateCh' = terminateCh \/ thread[t] = "closeTerminate"
        /\ \A u \in OC!Threads : thread'[u] = "closeTerminate" => thread[u] = "closeTerminate"
    BY <1>2 DEF OC!CloseCancel, OC!CloseTerminate, OC!scopeVars, OC!TypeOK
  <2> QED
    BY <1>0, <2>1 DEF TerminateInv, OC!TerminateTakesTwo, TwoCalled
<1>3. CASE OC!ScopeNext
  BY <1>0, <1>3 DEF OC!ScopeNext, OC!ScopeCancel, OC!ScopeTerminate, OC!ScopeEnds, OC!signalVars,
                    TerminateInv, OC!TerminateTakesTwo, TwoCalled, OC!Called
<1>4. ASSUME UNCHANGED <<OC!signalVars, canceled, terminated>>, scope' = scope \/ scope' = "awaitCancel"
      PROVE  TerminateInv'
  BY <1>4 DEF OC!signalVars, TerminateInv, OC!TerminateTakesTwo, TwoCalled, OC!Called
<1>5. ASSUME NEW s \in Steps, OC!StepNext(s)
      PROVE  TerminateInv'
  BY <1>4, <1>5 DEF OC!StepNext, OC!StartStep, OC!ApplyStep, OC!FailStep, OC!RecordStep, OC!EngineStep, OC!scopeVars
<1>6. CASE OC!EngineReturns \/ OC!RunNext
  BY <1>4, <1>6 DEF OC!EngineReturns, OC!RunNext, OC!NewScope, OC!Reject, OC!CloseScope, OC!LeaveExecute, OC!Finish, OC!scopeVars
<1>7. CASE UNCHANGED operationVars
  BY <1>4, <1>7 DEF operationVars, OC!signalVars
<1> QED
  BY <1>1, <1>2, <1>3, <1>5, <1>6, <1>7 DEF OC!Next, OC!CancelNext

\* However many threads call Cancel and however they interleave with the scope,
\* the engine is terminated only after it was cancelled and only on a second
\* call.
THEOREM TerminateOnSecondCall == ExecSpec => []TerminateTakesTwo
<1>1. OC!Init => TerminateInv
  BY DEF OC!Init, TerminateInv, OC!TerminateTakesTwo, OC!Called
<1>2. TerminateInv => TerminateTakesTwo
  BY DEF TerminateInv, TerminateTakesTwo
<1> QED
  BY <1>1, <1>2, TypeCorrect, TerminateStep, StepOfCancel, PTL DEF ExecSpec, ExecInit, TypeOK

-----------------------------------------------------------------------------
(***************************************************************************)
(* The checkpoint.  An engine that returned left nothing in flight unless  *)
(* it was terminated, and after it has returned no step starts.            *)
(***************************************************************************)
CheckpointInv ==
    /\ phase = "preparing" => raw = "none" /\ \A s \in Steps : step[s] = "todo"
    /\ phase \in {"scopeClosed", "finishing", "done"} => raw # "none"
    /\ raw # "none" => OC!Quiet \/ terminated

\* Every step keeps what is known of the checkpoint.
LEMMA CheckpointStep == OC!TypeOK /\ CheckpointInv /\ [OC!Next]_operationVars => CheckpointInv'
<1> SUFFICES ASSUME OC!TypeOK, CheckpointInv, [OC!Next]_operationVars
             PROVE  CheckpointInv'
  OBVIOUS
<1> USE DEF CheckpointInv, OC!Quiet
<1>1. ASSUME UNCHANGED <<phase, raw, step>>, terminated => terminated'
      PROVE  CheckpointInv'
  BY <1>1
<1>2. ASSUME NEW t \in OC!Threads, OC!CancelNext(t)
      PROVE  CheckpointInv'
  BY <1>1, <1>2 DEF OC!CancelNext, OC!Cancel, OC!CloseCancel, OC!CloseTerminate, OC!scopeVars
<1>3. CASE OC!ScopeNext
  BY <1>1, <1>3 DEF OC!ScopeNext, OC!ScopeCancel, OC!ScopeTerminate, OC!ScopeEnds
<1>4. ASSUME NEW s \in Steps, OC!StepNext(s)
      PROVE  CheckpointInv'
  <2>1. CASE OC!StartStep(s)
    BY <2>1 DEF OC!StartStep, OC!EngineStep, OC!scopeVars, OC!TypeOK, OC!Phases
  <2>2. CASE OC!ApplyStep(s) \/ OC!FailStep(s) \/ OC!RecordStep(s)
    BY <2>2 DEF OC!ApplyStep, OC!FailStep, OC!RecordStep, OC!EngineStep, OC!scopeVars, OC!TypeOK
  <2> QED
    BY <1>4, <2>1, <2>2 DEF OC!StepNext
<1>5. CASE OC!EngineReturns
  BY <1>5 DEF OC!EngineReturns, OC!scopeVars, OC!TypeOK, OC!Phases
<1>6. CASE OC!RunNext
  BY <1>6 DEF OC!RunNext, OC!NewScope, OC!Reject, OC!CloseScope, OC!LeaveExecute, OC!Finish, OC!scopeVars
<1>7. CASE UNCHANGED operationVars
  BY <1>1, <1>7 DEF operationVars
<1> QED
  BY <1>2, <1>3, <1>4, <1>5, <1>6, <1>7 DEF OC!Next

\* One Cancel, at whatever moment, never leaves a step that reached the world
\* out of the checkpoint by the time Wait returns.
THEOREM GracefulCheckpoint == ExecSpec => []CheckpointNotBehind
<1>1. OC!Init => CheckpointInv
  BY DEF OC!Init, CheckpointInv
<1>2. CheckpointInv /\ TerminateTakesTwo => CheckpointNotBehind
  BY DEF CheckpointInv, TerminateTakesTwo, OC!TerminateTakesTwo, CheckpointNotBehind,
         OC!CheckpointNotBehind
<1> QED
  BY <1>1, <1>2, TypeCorrect, TerminateOnSecondCall, CheckpointStep, StepOfCancel, PTL
  DEF ExecSpec, ExecInit, TypeOK

-----------------------------------------------------------------------------
(***************************************************************************)
(* What is left behind.  A program that was not prepared has launched      *)
(* nothing.  The server of a Go program has one Run and the operation's    *)
(* Close only, so the state tells how far both are: that Close never finds *)
(* the server canceled by another, sleeps only through its Run, and        *)
(* returns from the wait for the stop.  Execute has returned only when     *)
(* both deferred calls have, and a Close of the host returns when the once *)
(* is done, whichever call did the work.                                   *)
(***************************************************************************)
UnpreparedInv ==
    ~Prepared =>
        /\ \A c \in Callers : call[c] = "idle" /\ proc[c] = "none"
        /\ \A k \in HostClosers : hcloser[k] = "idle"

OwnServerInv ==
    program # "callback" =>
        /\ \A c \in Closers \ {OwnCloser} : closer[c] = "idle"
        /\ \A r \in Runs \ {OwnRun} : run[r] = "idle"
        /\ run[OwnRun] = "active" <=> state = "running"
        /\ run[OwnRun] = "idle" => state \in {"waiting", "canceled"}
        /\ run[OwnRun] = "leaving" => state \in {"finished", "canceled"}
        /\ state = "canceled" <=> closer[OwnCloser] \in {"send", "stopping", "returned"}
        /\ cancel = "closed" => closer[OwnCloser] \in {"stopping", "returned"}
        /\ closer[OwnCloser] \notin {"nothing", "panicked"}
        /\ closer[OwnCloser] = "asleep" => run[OwnRun] \in {"active", "leaving"}
        /\ closer[OwnCloser] = "awake" => state = "finished"

HostClosedInv == \A k \in HostClosers : hcloser[k] = "returned" => once = "done"

ReturnedInv ==
    phase \in {"finishing", "done"} =>
        /\ Prepared => once = "done"
        /\ program = "go" => closer[OwnCloser] = "returned"

PartsLeft == UnpreparedInv /\ OwnServerInv /\ HostClosedInv

\* A step of the server: only the operation closes the server of a Go program.
LEMMA OwnServerStep ==
    ASSUME PartsInv, OwnServerInv, ServerStep, UNCHANGED program
    PROVE  OwnServerInv'
<1> USE DEF OwnServerInv, PartsInv, ServerInv, RunStates, CloserStates
<1>1. CASE RunProgram
  BY <1>1, ProgramHostAssumption DEF RunProgram, LS!Run
<1>2. ASSUME NEW r \in Runs, LS!RunStep(r)
      PROVE  OwnServerInv'
  <2>1. CASE LS!RunFinished(r)
    BY <2>1, ProgramHostAssumption DEF LS!RunFinished
  <2>2. CASE LS!Broadcast(r)
    BY <2>2, ProgramHostAssumption DEF LS!Broadcast
  <2> QED
    BY <1>2, <2>1, <2>2 DEF LS!RunStep
<1>3. CASE CloseProgram
  BY <1>3, ProgramHostAssumption DEF CloseProgram, LS!Close
<1>4. ASSUME NEW c \in Closers, LS!CloserStep(c)
      PROVE  OwnServerInv'
  <2>1. CASE LS!Wake(c)
    BY <2>1, ProgramHostAssumption DEF LS!Wake
  <2>2. CASE LS!SendCancel(c)
    BY <2>2, ProgramHostAssumption DEF LS!SendCancel
  <2>3. CASE LS!CloseReturns(c)
    BY <2>3, ProgramHostAssumption DEF LS!CloseReturns
  <2> QED
    BY <1>4, <2>1, <2>2, <2>3 DEF LS!CloserStep
<1>5. CASE LS!Stopped
  BY <1>5 DEF LS!Stopped
<1>6. CASE UseCallback
  BY <1>6 DEF UseCallback
<1> QED
  BY <1>1, <1>2, <1>3, <1>4, <1>5, <1>6 DEF ServerStep, ServerGoesOn

\* A step of the host: what was not prepared stays untouched, ...
LEMMA UnpreparedStep ==
    ASSUME PartsInv, UnpreparedInv, HostStep, UNCHANGED program
    PROVE  UnpreparedInv'
<1> SUFFICES ASSUME ~Prepared
             PROVE  FALSE
  BY DEF UnpreparedInv, Prepared
<1>1. ~LanguageRuntime /\ \A k \in HostClosers : ~CloseHost(k)
  BY DEF LanguageRuntime, CloseHost, Prepared
<1>2. ASSUME NEW c \in Callers
      PROVE  ~(PH!LaunchStep(c) \/ PH!Dies(c))
  BY DEF UnpreparedInv, PH!LaunchStep, PH!Lookup, PH!ExecPlugin, PH!ReadPort, PH!DialReady,
         PH!TestConnection, PH!LaunchFails, PH!Dies
<1>3. ASSUME NEW k \in HostClosers
      PROVE  ~PH!CloseStep(k)
  BY DEF UnpreparedInv, PH!CloseStep, PH!TakeLangs, PH!ClosePlugin, PH!HostClosed, PH!OnceReturns
<1> QED
  BY <1>1, <1>2, <1>3 DEF HostStep, HostGoesOn

\* ... and the once, when it is done, stays done.
LEMMA HostClosedStep ==
    ASSUME PartsInv, HostClosedInv, HostStep
    PROVE  HostClosedInv' /\ (once = "done" => once' = "done")
<1> USE DEF HostClosedInv, PartsInv, HostInv, HostTypes
<1>1. ASSUME NEW c \in Callers,
             PH!Delegate(c) \/ PH!Lock(c) \/ PH!LaunchStep(c) \/ PH!Dies(c)
      PROVE  UNCHANGED <<once, hcloser>>
  BY <1>1 DEF PH!Delegate, PH!Lock, PH!LaunchStep, PH!Lookup, PH!ExecPlugin, PH!ReadPort,
              PH!DialReady, PH!TestConnection, PH!LaunchFails, PH!Dies
<1>2. ASSUME NEW k \in HostClosers, PH!HostClose(k)
      PROVE  HostClosedInv' /\ (once = "done" => once' = "done")
  BY <1>2 DEF PH!HostClose
<1>3. ASSUME NEW k \in HostClosers, PH!CloseStep(k)
      PROVE  HostClosedInv' /\ (once = "done" => once' = "done")
  BY <1>3 DEF PH!CloseStep, PH!TakeLangs, PH!ClosePlugin, PH!HostClosed, PH!OnceReturns
<1> QED
  BY <1>1, <1>2, <1>3 DEF HostStep, LanguageRuntime, CloseHost, HostGoesOn

\* A Close of the server that has returned stays so.
LEMMA ReturnedStays ==
    ASSUME PartsInv, ServerStep, NEW c \in Closers, closer[c] = "returned"
    PROVE  closer'[c] = "returned"
<1> USE DEF PartsInv, ServerInv
<1>1. ASSUME NEW d \in Closers, LS!Close(d) \/ LS!CloserStep(d)
      PROVE  closer'[c] = "returned"
  BY <1>1 DEF LS!Close, LS!CloserStep, LS!Wake, LS!SendCancel, LS!CloseReturns
<1>2. ASSUME NEW r \in Runs, LS!Run(r) \/ LS!RunStep(r)
      PROVE  closer'[c] = "returned"
  BY <1>2 DEF LS!Run, LS!RunStep, LS!RunFinished, LS!Broadcast
<1>3. CASE LS!Stopped
  BY <1>3 DEF LS!Stopped
<1> QED
  BY <1>1, <1>2, <1>3, ProgramHostAssumption
  DEF ServerStep, RunProgram, CloseProgram, UseCallback, ServerGoesOn

\* At the start nothing has been used.
LEMMA PartsLeftInit == Init => PartsLeft
<1> SUFFICES ASSUME Init
             PROVE  UnpreparedInv /\ OwnServerInv /\ HostClosedInv
  BY DEF PartsLeft
<1>1. UnpreparedInv /\ HostClosedInv
  BY DEF Init, PH!Init, UnpreparedInv, HostClosedInv
<1>2. OwnServerInv
  BY ProgramHostAssumption DEF Init, LS!Init, OwnServerInv
<1> QED
  BY <1>1, <1>2

\* Every step of the program and its host keeps their part of it.
LEMMA PartsLeftStep == PartsInv /\ PartsLeft /\ [Next]_vars => PartsLeft'
<1> SUFFICES ASSUME PartsInv, PartsLeft, [Next]_vars
             PROVE  PartsLeft'
  OBVIOUS
<1> USE DEF PartsLeft
<1>1. ASSUME UNCHANGED <<program, serverVars>>
      PROVE  OwnServerInv'
  BY <1>1 DEF serverVars, OwnServerInv
<1>2. ASSUME UNCHANGED hostVars
      PROVE  HostClosedInv' /\ (UNCHANGED program => UnpreparedInv')
  BY <1>2 DEF hostVars, HostClosedInv, UnpreparedInv, Prepared
<1>3. CASE ServerStep /\ UNCHANGED <<program, hostVars>>
  BY <1>2, <1>3, OwnServerStep
<1>4. CASE HostStep /\ UNCHANGED <<program, serverVars>>
  BY <1>1, <1>4, UnpreparedStep, HostClosedStep
<1>5. CASE PrepareFails \/ PrepareServed \/ PrepareLocal
  <2>1. program = "none" /\ UNCHANGED <<serverVars, hostVars>>
    BY <1>5 DEF PrepareFails, PrepareServed, PrepareLocal
  <2>2. OwnServerInv' /\ UnpreparedInv'
    BY <2>1 DEF serverVars, hostVars, OwnServerInv, UnpreparedInv, Prepared
  <2> QED
    BY <1>2, <2>1, <2>2
<1>6. CASE UNCHANGED vars
  BY <1>1, <1>2, <1>6 DEF vars
<1> QED
  BY <1>3, <1>4, <1>5, <1>6 DEF Next

\* Execute returns behind its deferred calls, and nothing undoes what they did.
LEMMA ReturnedStep == PartsInv /\ PartsLeft /\ ReturnedInv /\ [ExecNext]_allVars => ReturnedInv'
<1> SUFFICES ASSUME PartsInv, PartsLeft, ReturnedInv, [ExecNext]_allVars,
                    phase' \in {"finishing", "done"}
             PROVE  /\ Prepared' => once' = "done"
                    /\ program' = "go" => closer'[OwnCloser] = "returned"
  BY DEF ReturnedInv
<1>1. CASE ExecuteReturns
  BY <1>1, ExecutionAssumption
  DEF ExecuteReturns, Engine, vars, serverVars, hostVars, Prepared, PartsLeft, HostClosedInv,
      OwnServerInv
<1>2. ASSUME phase \in {"finishing", "done"}, ~Prepare
      PROVE  /\ Prepared' => once' = "done"
             /\ program' = "go" => closer'[OwnCloser] = "returned"
  <2>1. UNCHANGED program
    BY <1>2 DEF ExecNext, RunStep, Reject, BackendCall, DeferredHostClose, DeferredProgramClose,
                ExecuteReturns, EngineUses, Server, Host, Engine, allVars, vars
  <2>2. Prepared => once' = "done"
    <3>1. UNCHANGED hostVars \/ HostStep
      BY <1>2, <2>1, StepOfParts DEF Next, PrepareFails, PrepareServed, PrepareLocal, vars
    <3> QED
      BY <1>2, <3>1, HostClosedStep DEF ReturnedInv, PartsLeft, hostVars
  <2>3. program = "go" => closer'[OwnCloser] = "returned"
    <3>1. UNCHANGED serverVars \/ ServerStep
      BY <1>2, <2>1, StepOfParts DEF Next, PrepareFails, PrepareServed, PrepareLocal, vars
    <3> QED
      BY <1>2, <3>1, ReturnedStays, ProgramHostAssumption DEF ReturnedInv, serverVars
  <2> QED
    BY <2>1, <2>2, <2>3 DEF Prepared
<1>3. ExecuteReturns \/ (phase \in {"finishing", "done"} /\ ~Prepare)
  <2>1. CASE RunStep
    BY <2>1 DEF RunStep, Prepare, Reject, BackendCall, DeferredHostClose, DeferredProgramClose,
                Server, Host, Engine, OC!Reject, OC!NewScope, OC!CloseScope, OC!Finish,
                operationVars
  <2>2. ASSUME UNCHANGED phase
        PROVE  phase \in {"finishing", "done"} /\ ~Prepare
    BY <2>2 DEF Prepare
  <2>3. CASE EngineUses \/ Server(UseCallback) \/ Server(ServerGoesOn) \/ Host(HostGoesOn)
    BY <2>2, <2>3 DEF EngineUses, Server, Host, operationVars
  <2>4. CASE \/ \E t \in OC!Threads : Engine(OC!CancelNext(t))
             \/ Engine(OC!ScopeNext) \/ Engine(OC!EngineReturns)
             \/ \E s \in Steps : Engine(OC!StepNext(s))
    BY <2>2, <2>4
    DEF Engine, OC!CancelNext, OC!Cancel, OC!CloseCancel, OC!CloseTerminate, OC!ScopeNext,
        OC!ScopeCancel, OC!ScopeTerminate, OC!ScopeEnds, OC!StepNext, OC!StartStep,
        OC!ApplyStep, OC!FailStep, OC!RecordStep, OC!EngineStep, OC!EngineReturns
  <2>5. CASE UNCHANGED allVars
    BY <2>2, <2>5 DEF allVars, operationVars
  <2> QED
    BY <2>1, <2>3, <2>4, <2>5 DEF ExecNext
<1> QED
  BY <1>1, <1>2, <1>3

\* When execute has returned, and so when Wait does, no Run of the operation's
\* Go program is still going on and every language host launched before the
\* host was closed has been waited for, whether the engine finished, failed or
\* was terminated under them, and whoever closed the host first
\* (operation.go, the deferred calls of execute).
THEOREM NothingLeftBehind == ExecSpec => []WaitLeavesNothing
<1>1. ExecInit => PartsInv /\ PartsLeft /\ ReturnedInv
  <2> SUFFICES ASSUME ExecInit
               PROVE  PartsInv /\ PartsLeft /\ ReturnedInv
    OBVIOUS
  <2>1. PartsInv
    BY PartsInit DEF ExecInit
  <2>2. PartsLeft
    BY PartsLeftInit DEF ExecInit
  <2>3. ReturnedInv
    BY DEF ExecInit, OC!Init, ReturnedInv
  <2> QED
    BY <2>1, <2>2, <2>3
<1>2. PartsInv /\ PartsLeft /\ ReturnedInv => WaitLeavesNothing
  <2> SUFFICES ASSUME PartsInv, PartsLeft, ReturnedInv, phase \in {"finishing", "done"}
               PROVE  /\ program = "go" => LS!Handling = {}
                      /\ \A c \in Callers \ late : proc[c] \in {"none", "reaped"}
    BY DEF WaitLeavesNothing
  <2>1. program = "go" => LS!Handling = {}
    BY ProgramHostAssumption DEF PartsInv, ServerInv, ReturnedInv
  <2>2. ASSUME NEW c \in Callers \ late
        PROVE  proc[c] \in {"none", "reaped"}
    <3>1. CASE Prepared
      BY <2>2, <3>1, ProgramHostAssumption
      DEF ReturnedInv, PartsInv, HostInv, HostTypes, OwnedInv, Unreaped
    <3>2. CASE ~Prepared
      BY <2>2, <3>2 DEF PartsLeft, UnpreparedInv
    <3> QED
      BY <3>1, <3>2
  <2> QED
    BY <2>1, <2>2
<1> QED
  BY <1>1, <1>2, PartsStep, PartsLeftStep, ReturnedStep, StepOfParts, PTL DEF ExecSpec

\* The operation's Close of its Go program's server is woken by the Run it
\* waits for, finds the program finished and sends on an open channel, however
\* the Run, the engine's end and the deferred calls interleave
\* (langserver.go, Run and Close).
THEOREM OwnCloseGetsThrough == ExecSpec => []OwnCloseWoken
<1>1. ExecInit => PartsInv /\ PartsLeft
  BY PartsInit, PartsLeftInit DEF ExecInit
<1>2. PartsLeft => OwnCloseWoken
  BY ProgramHostAssumption DEF PartsLeft, OwnServerInv, OwnCloseWoken, LS!Handling
<1> QED
  BY <1>1, <1>2, PartsStep, PartsLeftStep, StepOfParts, PTL DEF ExecSpec

=============================================================================
