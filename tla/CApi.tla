-------------------------------- MODULE CApi --------------------------------
(***************************************************************************)
(* The C ABI (src/capi/capi.go) and the Operation objects that the Node    *)
(* and Python bindings build on it.                                        *)
(*                                                                         *)
(* The registry gives out ids for stack handles and operations and is only *)
(* locked for a lookup: a call that found its stack or operation goes on   *)
(* with it whatever is closed or released meanwhile.  Around an operation  *)
(* the caller may at the same time iterate its events, wait for its        *)
(* result, cancel it and release it, from several threads or promises; an  *)
(* inline program is served by a server in the caller's process, which the *)
(* binding has to close.                                                   *)
(***************************************************************************)
EXTENDS Naturals, FiniteSets

CONSTANTS
    Ops,        \* operations the caller starts on one stack handle
    Inline,     \* the ones whose program is a function of the caller
    Callers,    \* calls on the stack other than starting an operation
    Releasers,  \* threads or promises that release an operation
    MaxEvents,  \* bound: events of an operation before the terminator
    MaxCancels  \* bound: cancel calls of a caller per operation

ASSUME CApiAssumption ==
    /\ Inline \subseteq Ops
    /\ MaxEvents \in Nat
    /\ MaxCancels \in Nat

VARIABLES
    python,    \* the process uses the Python binding, else Node's
    next,      \* registry.next
    handle,    \* the id of the stack, 0 before it is open
    stacks,    \* the ids in registry.stacks
    ops,       \* the ids in registry.ops
    call,      \* each caller: "idle", "inside", "returned" or "unknown"
    start,     \* each operation: "new", "request", "started" or why it did not
    id,        \* its id
    ended,     \* the operations whose Wait has returned
    emitted,   \* events the engine queued, the terminator included
    taken,     \* events next_event has handed out
    iter,      \* the iteration: "idle", "next", "blocked" or "ended"
    waiter,    \* op_wait: "no", "waiting", "returned" or "unknown"
    releaser,  \* each release: "idle", "waiting" or "done"
    released,  \* Operation.released
    cancels,   \* cancel calls that reached the engine
    server     \* the inline server: "none", "up" or "closed"

vars == <<python, next, handle, stacks, ops, call, start, id, ended, emitted, taken,
          iter, waiter, releaser, released, cancels, server>>

\* Everything but the stack's own lookups.
opVars  == <<start, id, ended, emitted, taken, iter, waiter, releaser, released, cancels, server>>
regVars == <<python, next, handle, stacks, ops, call>>

Init ==
    /\ python \in BOOLEAN
    /\ next = 0
    /\ handle = 0
    /\ stacks = {}
    /\ ops = {}
    /\ call = [c \in Callers |-> "idle"]
    /\ start = [o \in Ops |-> "new"]
    /\ id = [o \in Ops |-> 0]
    /\ ended = {}
    /\ emitted = [o \in Ops |-> 0]
    /\ taken = [o \in Ops |-> 0]
    /\ iter = [o \in Ops |-> "idle"]
    /\ waiter = [o \in Ops |-> "no"]
    /\ releaser = [o \in Ops |-> [r \in Releasers |-> "idle"]]
    /\ released = {}
    /\ cancels = [o \in Ops |-> 0]
    /\ server = [o \in Ops |-> "none"]

Set(f, o, v) == [f EXCEPT ![o] = v]

Running(o) == start[o] = "started" /\ o \notin ended

\* The inline server of an operation, if it has one, is closed.
ServerClosed(o) == Set(server, o, IF server[o] = "up" THEN "closed" ELSE server[o])

\* What op_wait finds in the registry.
WaitOn(i) == IF i \in ops THEN "waiting" ELSE "unknown"

-----------------------------------------------------------------------------
(* Faulty variants, one slip each. *)

\* A timeout is returned as NULL, which is the end of the stream.
TimeoutEnds(o) ==
    /\ iter[o] = "blocked"
    /\ python
    /\ iter' = Set(iter, o, "ended")
    /\ UNCHANGED <<regVars, start, id, ended, emitted, taken, waiter, releaser, released, cancels, server>>

\* release does not wait for the result first.
ReleaseAtOnce(o, r) ==
    /\ start[o] = "started"
    /\ releaser[o][r] = "idle"
    /\ o \notin released
    /\ releaser' = [releaser EXCEPT ![o][r] = "done"]
    /\ released' = released \cup {o}
    /\ ops' = ops \ {id[o]}
    /\ UNCHANGED <<python, next, handle, stacks, call, start, id, ended, emitted, taken, iter,
                   waiter, cancels, server>>

\* The inline server is closed when the wait begins, not when it returns.
BeginWaitCloses(o) ==
    /\ waiter[o] = "no"
    /\ waiter' = Set(waiter, o, WaitOn(id[o]))
    /\ server' = ServerClosed(o)

\* next_event keeps waiting on an id that is gone.
NextEventSpins(o) ==
    /\ iter[o] = "next"
    /\ id[o] \in ops
    /\ iter' = Set(iter, o, "blocked")
    /\ UNCHANGED <<regVars, start, id, ended, emitted, taken, waiter, releaser, released, cancels, server>>

-----------------------------------------------------------------------------
(* The stack handle. *)

\* An error of engine.Open leaves no handle.
stack_open ==
    /\ handle = 0
    /\ next' = next + 1
    /\ handle' = next'
    /\ stacks' = stacks \cup {next'}
    /\ UNCHANGED <<python, ops, call, opVars>>

\* Stack.close of the bindings: once.
stack_close ==
    /\ handle \in stacks
    /\ stacks' = stacks \ {handle}
    /\ UNCHANGED <<python, next, handle, ops, call, opVars>>

\* stack_export and the other calls on a handle: a lookup, and the library
\* call on what it found.
StackCall(c) ==
    /\ call[c] = "idle"
    /\ handle # 0
    /\ call' = Set(call, c, IF handle \in stacks THEN "inside" ELSE "unknown")
    /\ UNCHANGED <<python, next, handle, stacks, ops, opVars>>

StackCallReturns(c) ==
    /\ call[c] = "inside"
    /\ call' = Set(call, c, "returned")
    /\ UNCHANGED <<python, next, handle, stacks, ops, opVars>>

-----------------------------------------------------------------------------
(* Starting an operation: Stack._start and op_start. *)

\* _ensure_open, then the inline server.  Node awaits it, Python has threads:
\* the stack may be closed before the request is sent.
Start(o) ==
    /\ start[o] = "new"
    /\ handle # 0
    /\ \/ /\ handle \in stacks
          /\ start' = Set(start, o, "request")
          /\ server' = Set(server, o, IF o \in Inline THEN "up" ELSE "none")
       \/ /\ handle \notin stacks
          /\ start' = Set(start, o, "refused")
          /\ UNCHANGED server
    /\ UNCHANGED <<regVars, id, ended, emitted, taken, iter, waiter, releaser, released, cancels>>

\* Python converts the options after the server is up and outside its try.
BadOptions(o) ==
    /\ start[o] = "request"
    /\ python
    /\ start' = Set(start, o, "badOptions")
    /\ UNCHANGED <<regVars, id, ended, emitted, taken, iter, waiter, releaser, released, cancels, server>>

\* The constructor of Node's Operation starts waiting; Python's does not.
op_start(o) ==
    /\ start[o] = "request"
    /\ handle \in stacks
    /\ next' = next + 1
    /\ ops' = ops \cup {next'}
    /\ id' = Set(id, o, next')
    /\ start' = Set(start, o, "started")
    /\ waiter' = Set(waiter, o, IF python THEN "no" ELSE "waiting")
    /\ UNCHANGED <<python, handle, stacks, call, ended, emitted, taken, iter, releaser, released, cancels, server>>

\* An unknown handle, program mode or kind: the binding closes the server.
op_start_fails(o) ==
    /\ start[o] = "request"
    /\ start' = Set(start, o, "refused")
    /\ server' = ServerClosed(o)
    /\ UNCHANGED <<regVars, id, ended, emitted, taken, iter, waiter, releaser, released, cancels>>

-----------------------------------------------------------------------------
(* The engine behind an operation: events, then the terminator and the end. *)

Emit(o) ==
    /\ Running(o)
    /\ emitted[o] < MaxEvents
    /\ emitted' = Set(emitted, o, emitted[o] + 1)
    /\ UNCHANGED <<regVars, start, id, ended, taken, iter, waiter, releaser, released, cancels, server>>

End(o) ==
    /\ Running(o)
    /\ emitted' = Set(emitted, o, emitted[o] + 1)
    /\ ended' = ended \cup {o}
    /\ UNCHANGED <<regVars, start, id, taken, iter, waiter, releaser, released, cancels, server>>

-----------------------------------------------------------------------------
(* Iterating: op_next_event in a loop. *)

Iterate(o) ==
    /\ start[o] = "started"
    /\ iter[o] = "idle"
    /\ iter' = Set(iter, o, "next")
    /\ UNCHANGED <<regVars, start, id, ended, emitted, taken, waiter, releaser, released, cancels, server>>

\* The lookup; an unknown id is NULL, the end.
op_next_event(o) ==
    /\ iter[o] = "next"
    /\ iter' = Set(iter, o, IF id[o] \in ops THEN "blocked" ELSE "ended")
    /\ UNCHANGED <<regVars, start, id, ended, emitted, taken, waiter, releaser, released, cancels, server>>

\* An event, or NULL from a closed channel.
NextEventReturns(o) ==
    /\ iter[o] = "blocked"
    /\ \/ /\ taken[o] < emitted[o]
          /\ taken' = Set(taken, o, taken[o] + 1)
          /\ iter' = Set(iter, o, "next")
       \/ /\ taken[o] = emitted[o]
          /\ o \in ended
          /\ iter' = Set(iter, o, "ended")
          /\ UNCHANGED taken
    /\ UNCHANGED <<regVars, start, id, ended, emitted, waiter, releaser, released, cancels, server>>

\* Python polls: "" makes it ask again.
NextEventTimeout(o) ==
    /\ iter[o] = "blocked"
    /\ python
    /\ iter' = Set(iter, o, "next")
    /\ UNCHANGED <<regVars, start, id, ended, emitted, taken, waiter, releaser, released, cancels, server>>

-----------------------------------------------------------------------------
(* Waiting, cancelling and releasing. *)

\* Python's result: the first caller has the lock and waits.  An unknown id
\* raises, and the server is closed all the same.
BeginWait(o) ==
    /\ waiter[o] = "no"
    /\ waiter' = Set(waiter, o, WaitOn(id[o]))
    /\ server' = IF id[o] \in ops THEN server ELSE ServerClosed(o)

Result(o) ==
    /\ start[o] = "started"
    /\ BeginWait(o)
    /\ UNCHANGED <<regVars, start, id, ended, emitted, taken, iter, releaser, released, cancels>>

\* op_wait returns, with the result or the error, and the cleanup runs.
op_wait(o) ==
    /\ waiter[o] = "waiting"
    /\ o \in ended
    /\ waiter' = Set(waiter, o, "returned")
    /\ server' = ServerClosed(o)
    /\ UNCHANGED <<regVars, start, id, ended, emitted, taken, iter, releaser, released, cancels>>

\* cancel: a call on an operation that is being released finds its id gone in
\* the registry and does nothing, so the binding's look at its own flag and
\* the registry's lookup are one step.
Cancel(o) ==
    /\ start[o] = "started"
    /\ o \notin released
    /\ cancels[o] < MaxCancels
    /\ cancels' = Set(cancels, o, cancels[o] + 1)
    /\ UNCHANGED <<regVars, start, id, ended, emitted, taken, iter, waiter, releaser,
                   released, server>>

\* release, up to the wait; it returns at once when another has released.
Release(o, r) ==
    /\ start[o] = "started"
    /\ releaser[o][r] = "idle"
    /\ releaser' = [releaser EXCEPT ![o][r] = IF o \in released THEN "done" ELSE "waiting"]
    /\ IF waiter[o] = "no" THEN BeginWait(o) ELSE UNCHANGED <<waiter, server>>
    /\ UNCHANGED <<regVars, start, id, ended, emitted, taken, iter, released, cancels>>

\* Leaving a with block of Python: a cancel first, unless the result is in.
Exit(o, r) ==
    /\ python
    /\ start[o] = "started"
    /\ waiter[o] # "returned"
    /\ o \notin released
    /\ releaser[o][r] = "idle"
    /\ releaser' = [releaser EXCEPT ![o][r] = "waiting"]
    /\ cancels' = Set(cancels, o, cancels[o] + 1)
    /\ IF waiter[o] = "no" THEN BeginWait(o) ELSE UNCHANGED <<waiter, server>>
    /\ UNCHANGED <<regVars, start, id, ended, emitted, taken, iter, released>>

\* The wait is over.  A second releaser's op_release finds no id, which the
\* bindings ignore.
op_release(o, r) ==
    /\ releaser[o][r] = "waiting"
    /\ waiter[o] \in {"returned", "unknown"}
    /\ releaser' = [releaser EXCEPT ![o][r] = "done"]
    /\ released' = released \cup {o}
    /\ ops' = ops \ {id[o]}
    /\ UNCHANGED <<python, next, handle, stacks, call, start, id, ended, emitted, taken, iter,
                   waiter, cancels, server>>

-----------------------------------------------------------------------------

\* What goes on by itself once the caller has asked for it.
Progress(o) ==
    \/ op_start(o) \/ op_start_fails(o) \/ BadOptions(o)
    \/ End(o) \/ op_next_event(o) \/ NextEventReturns(o) \/ op_wait(o)
    \/ \E r \in Releasers : op_release(o, r)

\* What the caller may or may not do, and what may or may not happen to it.
Choice(o) ==
    \/ Start(o) \/ Emit(o) \/ Iterate(o) \/ NextEventTimeout(o) \/ Result(o) \/ Cancel(o)
    \/ \E r \in Releasers : Release(o, r) \/ Exit(o, r)

Next ==
    \/ stack_open \/ stack_close
    \/ \E c \in Callers : StackCall(c) \/ StackCallReturns(c)
    \/ \E o \in Ops : Progress(o) \/ Choice(o)

\* The threads of the process run, operations end (WaitReturns of
\* EventStream), and a blocked receive takes an event that is there: a timer
\* wins against it only when there is none for its 250 ms.
Fairness ==
    \A o \in Ops :
        /\ WF_vars(End(o)) /\ WF_vars(op_next_event(o)) /\ WF_vars(op_wait(o))
        /\ SF_vars(NextEventReturns(o))
        /\ \A r \in Releasers : WF_vars(op_release(o, r))

Spec == Init /\ [][Next]_vars /\ Fairness

-----------------------------------------------------------------------------
(* Properties. *)

\* op_wait always finds its operation: the id is not released before every
\* wait of the binding has looked it up, also when two threads release and a
\* third asks for the result (capi.go:361, "Call it after pulumi_op_wait").
WaitFindsOperation == \A o \in Ops : waiter[o] # "unknown"

\* The inline server lives exactly as long as the operation may call it: it
\* is up while the operation runs, and closed when the result is in or the
\* start was refused.  The exception is a Python start whose options were
\* refused, which leaves it up (_stack.py:316).
ServerServesOperation ==
    \A o \in Inline :
        /\ Running(o) => server[o] = "up"
        /\ waiter[o] = "returned" \/ start[o] = "refused" => server[o] # "up"

\* An iteration that ends has handed out every event, the terminator
\* included, unless the operation was released under it (capi.go:283, NULL
\* "at end of stream (or for an unknown id)").
IterationComplete ==
    \A o \in Ops :
        iter[o] = "ended" => o \in released \/ (o \in ended /\ taken[o] = emitted[o])

\* Whatever is released, closed or cancelled meanwhile, iterations, waits and
\* releases return (capi.go:63, only next_event and wait block).
CallsReturn ==
    \A o \in Ops :
        /\ iter[o] = "next" ~> iter[o] = "ended"
        /\ waiter[o] = "waiting" ~> waiter[o] = "returned"
        /\ \A r \in Releasers : releaser[o][r] = "waiting" ~> releaser[o][r] = "done"

=============================================================================
