-------------------------- MODULE OperationResult --------------------------
(***************************************************************************)
(* What an Operation tells its caller (src/engine/operation.go, errors.go, *)
(* plan.go; src/capi/capi.go for the JSON form): execute's early returns,  *)
(* the events recorded on the way, the plan and the outputs, and then      *)
(* finish, which turns the raw error and the recorded events into one      *)
(* typed error and a Result.                                               *)
(*                                                                         *)
(* Meanwhile anybody may cancel, and a neighbour (the handle's next        *)
(* operation, or another handle's) may change the checkpoint as soon as    *)
(* this operation has let go of it.                                        *)
(***************************************************************************)
EXTENDS Naturals, Sequences, FiniteSetsExt, SequencesExt

CONSTANTS
    URNs,       \* resources
    Program,    \* the URN of a diagnostic that has none
    Requests,   \* the calls to consider: kind, options, program
    MaxEvents,  \* bound: events that handleEvent records
    MaxSteps    \* bound: changes the engine makes to the checkpoint

ASSUME ResultAssumption ==
    /\ Program \notin URNs
    /\ MaxEvents \in Nat
    /\ MaxSteps \in Nat

VARIABLES
    req,        \* the call
    pc,         \* where run is
    raw,        \* the error execute returns
    planned,    \* Operation.planned
    cancelled,  \* Operation.cancelRequested
    failures,   \* Operation.failures: the failed resources, in order, and their messages
    urnDiags,   \* Operation.urnDiags
    events,     \* how many events have been recorded
    result,     \* Operation.result
    err,        \* Operation.err
    ckpt,       \* the checkpoint: a version and its pending operations
    ran,        \* history: the engine ran
    steps,      \* history: the changes this operation made
    own,        \* history: the checkpoint when the backend call returned
    meddled     \* history: a neighbour has changed it since

vars == <<req, pc, raw, planned, cancelled, failures, urnDiags, events, result, err,
          ckpt, ran, steps, own, meddled>>
noteVars == <<failures, urnDiags, events>>
worldVars == <<ckpt, ran, steps, own, meddled>>

(***************************************************************************)
(* A Go error is the chain of types and texts that errors.As and           *)
(* strings.Contains see, outermost first; nil is the empty chain.          *)
(***************************************************************************)
nil == <<>>
Has(chain, type) == \E i \in DOMAIN chain : chain[i] = type

\* The first type of an ordered list of cases that a chain has.
FirstCase(cases, chain, otherwise) ==
    LET hits == {i \in DOMAIN cases : Has(chain, cases[i])}
    IN  IF hits = {} THEN otherwise ELSE cases[Min(hits)]

KindOf(chain) ==
    FirstCase(<<"InvalidSpec", "PlanViolation", "ResourceOpFailed", "ProgramFailed",
                "ConcurrentUpdate", "StackNotFound", "StackExists", "PendingOperations",
                "Cancelled", "Unsupported">>, chain, "Unclassified")

\* The type whose fields errorJSON adds to the kind and the message.
errorJSON(chain) ==
    FirstCase(<<"InvalidSpec", "PlanViolation", "ResourceOpFailed", "PendingOperations",
                "StackNotFound", "StackExists", "Cancelled", "Unsupported">>, chain, "none")

isLockError(chain) == Has(chain, "locked")

\* Errors of the backend outside an engine run.
BackendErrors == {<<"notFound">>, <<"exists">>, <<"conflict">>, <<"locked">>, <<"text">>}

classifyBackendError(e) ==
    CASE e = nil -> nil
      [] Has(e, "notFound") -> <<"StackNotFound">>
      [] Has(e, "exists")   -> <<"StackExists">>
      [] Has(e, "conflict") \/ isLockError(e) -> <<"ConcurrentUpdate">> \o e
      [] OTHER              -> <<"Unclassified">> \o e

Texts == {"plain", "violation"}
isPlanViolationDiag(text) == text = "violation"

Diagnosed == URNs \cup {Program}
NoResult  == [failures |-> <<>>, cancelled |-> FALSE, outputs |-> {}, plan |-> FALSE]
NoError   == [chain |-> nil, failure |-> <<>>, messages |-> {}, urns |-> {}, read |-> FALSE]

Init ==
    /\ req \in Requests
    /\ pc = "validate"
    /\ raw = nil
    /\ planned = FALSE
    /\ cancelled = FALSE
    /\ failures = <<>>
    /\ urnDiags = [u \in Diagnosed |-> <<>>]
    /\ events = 0
    /\ result = NoResult
    /\ err = NoError
    /\ \E pending \in SUBSET URNs : ckpt = [version |-> 1, pending |-> pending]
    /\ ran = FALSE
    /\ steps = 0
    /\ own = ckpt
    /\ meddled = FALSE

\* Steps of execute: it goes on, returns before there is a plugin host, or
\* after, when the deferred host.close comes first.
Goto(state)  == pc' = state /\ UNCHANGED raw
Return(e)    == pc' = "release" /\ raw' = e
ReturnHosted(e) == pc' = "closing" /\ raw' = e

-----------------------------------------------------------------------------
(* Faulty variants, one slip each. *)

\* An error of Outputs becomes the operation's error.
OutputsFailReturned(e) == ReturnHosted(classifyBackendError(e))

\* finish copies the failures before it fills in their messages.
FillAfterCopy ==
    /\ pc = "finish"
    /\ failures' = [i \in DOMAIN failures |->
                       [failures[i] EXCEPT !.messages = urnDiags[failures[i].urn]]]
    /\ result' = [result EXCEPT !.failures = failures]
    /\ Goto("classify")
    /\ UNCHANGED <<req, planned, cancelled, urnDiags, events, err, worldVars>>

\* The handle's stack object is asked, which caches the snapshot it first
\* loaded, here one from before anything was pending.
CachedStack == [version |-> 0, pending |-> {}]

-----------------------------------------------------------------------------
(* execute, up to the backend call. *)

validatePlanOptions(r) ==
    /\ r.savePlan # "none" => r.kind = "preview"
    /\ r.plan # "none" => r.kind = "up" /\ r.plan # "both"

Validate ==
    /\ pc = "validate"
    /\ IF validatePlanOptions(req) /\ ~(req.dryRun /\ req.kind = "up")
       THEN Goto("lock")
       ELSE Return(<<"InvalidSpec">>)
    /\ UNCHANGED <<req, planned, cancelled, noteVars, result, err, worldVars>>

\* Another operation of the handle may be running.
TryLock ==
    /\ pc = "lock"
    /\ \/ Goto("prepare")
       \/ Return(<<"ConcurrentUpdate", "text">>)
    /\ UNCHANGED <<req, planned, cancelled, noteVars, result, err, worldVars>>

\* A program where one is needed, prepare, the config and the plugin host.
Prepare ==
    /\ pc = "prepare"
    /\ \/ ~req.program /\ req.kind \in {"preview", "up"} /\ Return(<<"InvalidSpec">>)
       \/ /\ req.program \/ req.kind \notin {"preview", "up"}
          /\ \/ \E e \in {<<"InvalidSpec">>, <<"text">>, <<"Unclassified", "text">>} : Return(e)
             \/ Goto("host")
    /\ UNCHANGED <<req, planned, cancelled, noteVars, result, err, worldVars>>

\* An Up loads its plan: unreadable, or blank and ignored, or a constraint.
\* A refresh or destroy starts its event sink.
LoadPlan ==
    /\ pc = "host"
    /\ \/ /\ req.plan # "none"
          /\ \/ ReturnHosted(<<"InvalidSpec">>) /\ UNCHANGED planned
             \/ Goto("backend") /\ planned' \in BOOLEAN
       \/ /\ req.plan = "none"
          /\ Goto("backend")
          /\ UNCHANGED planned
       \/ /\ req.kind \in {"refresh", "destroy"}
          /\ ReturnHosted(<<"Unclassified", "text">>)
          /\ UNCHANGED planned
    /\ UNCHANGED <<req, cancelled, noteVars, result, err, worldVars>>

-----------------------------------------------------------------------------
(* The backend call. *)

\* The stack is locked, here or by the service, or has pending operations
\* (external).
BackendRefuses ==
    /\ pc = "backend"
    /\ \E e \in {<<"conflict">>, <<"locked">>, <<"pending">>} :
        /\ e = <<"pending">> => ckpt.pending # {}
        /\ ReturnHosted(e)
    /\ own' = ckpt
    /\ UNCHANGED <<req, planned, cancelled, noteVars, result, err, ckpt, ran, steps, meddled>>

EngineStarts ==
    /\ pc = "backend"
    /\ Goto("engine")
    /\ ran' = TRUE
    /\ UNCHANGED <<req, planned, cancelled, noteVars, result, err, ckpt, steps, own, meddled>>

\* The engine changes the checkpoint (external).
EngineStep ==
    /\ pc = "engine"
    /\ req.kind # "preview" /\ ~req.dryRun
    /\ steps < MaxSteps
    /\ steps' = steps + 1
    /\ \E pending \in SUBSET URNs : ckpt' = [version |-> ckpt.version + 1, pending |-> pending]
    /\ UNCHANGED <<req, pc, raw, planned, cancelled, noteVars, result, err, ran, own, meddled>>

\* It succeeds, fails, or says it was cancelled (external).
EngineReturns ==
    /\ pc = "engine"
    /\ \E e \in {nil, <<"text">>, <<"backendCancelled">>, <<"context.Canceled">>} :
        IF e = nil /\ req.kind = "preview" /\ req.savePlan # "none" THEN Goto("plan")
        ELSE IF e = nil /\ req.kind \in {"up", "refresh"} /\ ~req.dryRun THEN Goto("outputs")
        ELSE ReturnHosted(e)
    /\ own' = ckpt
    /\ UNCHANGED <<req, planned, cancelled, noteVars, result, err, ckpt, ran, steps, meddled>>

\* savePlan: no plan, or it cannot be encoded; the file cannot be written.
SavePlan ==
    /\ pc = "plan"
    /\ \/ /\ ReturnHosted(<<"Unclassified", "text">>)
          /\ UNCHANGED result
       \/ /\ req.savePlan = "path"
          /\ ReturnHosted(<<"InvalidSpec">>)
          /\ UNCHANGED result
       \/ /\ ReturnHosted(nil)
          /\ result' = [result EXCEPT !.plan = TRUE]
    /\ UNCHANGED <<req, planned, cancelled, noteVars, err, worldVars>>

\* freshStack: the stack is resolved again, so its snapshot is the latest.
freshStack == ckpt

\* The outputs of a successful up or refresh; an error of theirs is dropped.
OutputsFail(e) == classifyBackendError(e) # nil /\ ReturnHosted(nil)

ReadOutputs ==
    /\ pc = "outputs"
    /\ \/ /\ ReturnHosted(nil)
          /\ result' = [result EXCEPT !.outputs = {freshStack.version}]
       \/ /\ \E e \in BackendErrors : OutputsFail(e)
          /\ UNCHANGED result
    /\ UNCHANGED <<req, planned, cancelled, noteVars, err, worldVars>>

CloseHost ==
    /\ pc = "closing"
    /\ Goto("release")
    /\ UNCHANGED <<req, planned, cancelled, noteVars, result, err, worldVars>>

\* opMu is given back before finish.
Release ==
    /\ pc = "release"
    /\ Goto("finish")
    /\ UNCHANGED <<req, planned, cancelled, noteVars, result, err, worldVars>>

-----------------------------------------------------------------------------
(* What happens meanwhile. *)

\* handleEvent of a failed resource, ...
HandleFailure ==
    /\ pc = "engine"
    /\ events < MaxEvents
    /\ events' = events + 1
    /\ \E u \in URNs : failures' = Append(failures, [urn |-> u, messages |-> <<>>])
    /\ UNCHANGED <<req, pc, raw, planned, cancelled, urnDiags, result, err, worldVars>>

\* ... and of an error diagnostic, the engine's or the plugin host's.
HandleDiagnostic ==
    /\ pc \in {"host", "backend", "engine", "plan", "outputs", "closing"}
    /\ events < MaxEvents
    /\ events' = events + 1
    /\ \E u \in Diagnosed, text \in Texts :
        urnDiags' = [urnDiags EXCEPT ![u] = Append(@, text)]
    /\ UNCHANGED <<req, pc, raw, planned, cancelled, failures, result, err, worldVars>>

Cancel ==
    /\ ~cancelled
    /\ pc # "done"
    /\ cancelled' = TRUE
    /\ UNCHANGED <<req, pc, raw, planned, noteVars, result, err, worldVars>>

\* The next operation on the stack resolves what is pending.
Neighbour ==
    /\ pc \in {"plan", "outputs", "closing", "release", "finish", "classify"}
    /\ ~meddled
    /\ meddled' = TRUE
    /\ ckpt' = [version |-> ckpt.version + 1, pending |-> {}]
    /\ UNCHANGED <<req, pc, raw, planned, cancelled, noteVars, result, err, ran, steps, own>>

-----------------------------------------------------------------------------
(* finish. *)

\* Under Operation.mu: the failures get the diagnostics of their resources
\* and are copied into the result.
Fill ==
    /\ pc = "finish"
    /\ failures' = [i \in DOMAIN failures |->
                       [failures[i] EXCEPT !.messages = urnDiags[failures[i].urn]]]
    /\ result' = [result EXCEPT !.failures = failures']
    /\ Goto("classify")
    /\ UNCHANGED <<req, planned, cancelled, urnDiags, events, err, worldVars>>

\* The diagnostics of no failed resource: <<resource, place>>.
Messages(us) == UNION {{<<u, i>> : i \in DOMAIN urnDiags[u]} : u \in us}
errorDiags == Messages(Diagnosed \ {failures[i].urn : i \in DOMAIN failures})
planViolations ==
    IF planned
    THEN {m \in Messages(Diagnosed) : isPlanViolationDiag(urnDiags[m[1]][m[2]])}
    ELSE {}

\* The cases of classifyOperationError, in its order.
classifyOperationError ==
    LET cases == <<
            <<"nil", raw = nil>>,
            <<"Cancelled", cancelled \/ Has(raw, "context.Canceled")>>,
            <<"ConcurrentUpdate", Has(raw, "conflict") \/ isLockError(raw)>>,
            <<"Cancelled", Has(raw, "backendCancelled")>>,
            <<"PendingOperations", Has(raw, "pending")>>,
            <<"PlanViolation", planViolations # {}>>,
            <<"ResourceOpFailed", failures # <<>> >>,
            <<"ProgramFailed", errorDiags # {}>>,
            <<"Unclassified", TRUE>> >>
    IN  cases[Min({i \in DOMAIN cases : cases[i][2]})][1]

\* The error value of a case: three of them wrap the raw error.
ErrorOf(type) ==
    [chain    |-> CASE type = "nil" -> nil
                    [] type \in {"ConcurrentUpdate", "PendingOperations", "Unclassified"} ->
                         <<type>> \o raw
                    [] OTHER -> <<type>>,
     failure  |-> IF type = "ResourceOpFailed" THEN <<Head(failures)>> ELSE <<>>,
     messages |-> CASE type = "PlanViolation" -> planViolations
                    [] type = "ProgramFailed" -> errorDiags
                    [] OTHER -> {},
     urns     |-> {},
     read     |-> FALSE]

\* What is pending in the checkpoint by now.
pendingOperationURNs == freshStack.pending

\* The read for PendingOperations may fail, and then none are listed.
Classify ==
    /\ pc = "classify"
    /\ LET e == ErrorOf(classifyOperationError) IN
        \/ /\ Has(e.chain, "PendingOperations")
           /\ err' = [e EXCEPT !.urns = pendingOperationURNs, !.read = TRUE]
        \/ err' = e
    /\ result' = [result EXCEPT !.cancelled = Has(err'.chain, "Cancelled")]
    /\ Goto("done")
    /\ UNCHANGED <<req, planned, cancelled, noteVars, worldVars>>

Next ==
    \/ Validate \/ TryLock \/ Prepare \/ LoadPlan
    \/ BackendRefuses \/ EngineStarts \/ EngineStep \/ EngineReturns
    \/ SavePlan \/ ReadOutputs \/ CloseHost \/ Release \/ Fill \/ Classify
    \/ HandleFailure \/ HandleDiagnostic \/ Cancel \/ Neighbour

Spec == Init /\ [][Next]_vars

-----------------------------------------------------------------------------
(* Properties. *)

Kind == KindOf(err.chain)

\* An operation that ends in InvalidSpec or ConcurrentUpdate has changed
\* nothing, and its engine has not run, whatever was recorded, cancelled or
\* read on its way out (operation.go:269, execute; the lock errors of the
\* backend).  There is one exception, the InvalidSpec of savePlan: a preview
\* whose plan cannot be written to its path has run the engine to its end
\* (operation.go:476-479).  The doc of InvalidSpec, "before any backend or
\* engine work starts" (errors.go:45-46), leaves it out.
RefusedMeansUntouched ==
    pc = "done" /\ Kind \in {"InvalidSpec", "ConcurrentUpdate"} =>
        /\ steps = 0
        /\ ran => Kind = "InvalidSpec" /\ req.kind = "preview" /\ req.savePlan = "path"

\* The error and the Result tell the same story: the failure in the error is
\* the first of Result.Failures with every diagnostic of its resource,
\* whichever came first on the stream (errors.go:54-55, "It carries the first
\* failure; Result.Failures has all of them"); a failed program comes with
\* every diagnostic there was; a plan violation only where there was a plan;
\* and the fields of the JSON form are those of the kind it names.
FailureReported ==
    pc = "done" =>
        /\ Kind = "ResourceOpFailed" =>
              /\ err.failure = <<Head(result.failures)>>
              /\ \A i \in DOMAIN result.failures :
                    result.failures[i].messages = urnDiags[result.failures[i].urn]
        /\ Kind = "ProgramFailed" => err.messages = Messages(Diagnosed)
        /\ Kind = "PlanViolation" => req.kind = "up" /\ req.plan # "none"
        /\ errorJSON(err.chain) \in {Kind, "none"}

\* What is read from the checkpoint at the end is not what the handle read
\* when it was opened: Result.Outputs is at least as new as the operation's
\* own last write, and the list of PendingOperations is the one the backend
\* refused, unless another operation came in between, which it may since opMu
\* is released before finish (stack.go:383-385, "anything that reads state
\* after an operation must go through here").
FreshReads ==
    pc = "done" =>
        /\ \A v \in result.outputs : v >= own.version
        /\ Kind = "PendingOperations" /\ err.read /\ ~meddled => err.urns = own.pending

=============================================================================
