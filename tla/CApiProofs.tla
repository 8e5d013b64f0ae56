----------------------------- MODULE CApiProofs -----------------------------
(***************************************************************************)
(* Proofs about CApi, for any number of operations, callers and releasers. *)
(***************************************************************************)
EXTENDS CApi, TLAPS

USE DEF Set

Types ==
    /\ python \in BOOLEAN
    /\ next \in Nat
    /\ handle \in Nat
    /\ stacks \subseteq Nat
    /\ ops \subseteq Nat
    /\ call \in [Callers -> {"idle", "inside", "returned", "unknown"}]
    /\ start \in [Ops -> {"new", "request", "started", "refused", "badOptions"}]
    /\ id \in [Ops -> Nat]
    /\ ended \subseteq Ops
    /\ emitted \in [Ops -> Nat]
    /\ taken \in [Ops -> Nat]
    /\ iter \in [Ops -> {"idle", "next", "blocked", "ended"}]
    /\ waiter \in [Ops -> {"no", "waiting", "returned", "unknown"}]
    /\ releaser \in [Ops -> [Releasers -> {"idle", "waiting", "done"}]]
    /\ released \subseteq Ops
    /\ cancels \in [Ops -> Nat]
    /\ server \in [Ops -> {"none", "up", "closed"}]

(***************************************************************************)
(* The registry.  Ids are given out once, so a release removes only its    *)
(* own operation's; and an operation is released only after a wait for it  *)
(* has returned.                                                           *)
(***************************************************************************)
RegistryInv ==
    /\ \A o \in Ops : start[o] = "started" => id[o] <= next /\ (id[o] \in ops <=> o \notin released)
    /\ \A o, p \in Ops : start[o] = "started" /\ start[p] = "started" /\ id[o] = id[p] => o = p
    /\ \A o \in Ops :
        /\ waiter[o] # "no" => start[o] = "started"
        /\ waiter[o] # "unknown"
        /\ waiter[o] = "returned" => o \in ended
        /\ o \in released => waiter[o] = "returned"
        /\ o \in ended => start[o] = "started"
        /\ iter[o] # "idle" => start[o] = "started"
        /\ \A r \in Releasers : releaser[o][r] # "idle" => waiter[o] # "no"

\* The inline server, from the request to the end of the wait.
ServerInv ==
    \A o \in Inline :
        /\ start[o] = "new" => server[o] = "none"
        /\ start[o] = "request" => server[o] = "up"
        /\ start[o] = "refused" => server[o] # "up"
        /\ start[o] = "started" => (server[o] = "up" <=> waiter[o] # "returned")

Inv == Types /\ RegistryInv /\ ServerInv /\ IterationComplete

-----------------------------------------------------------------------------

\* The stack handle's calls leave the operations alone.
LEMMA HandleStep ==
    ASSUME Inv,
           stack_open \/ stack_close \/ \E c \in Callers : StackCall(c) \/ StackCallReturns(c)
    PROVE  Inv'
<1> USE DEF Inv, Types
<1>1. Types'
  <2>1. CASE stack_open
    BY <2>1 DEF stack_open, opVars
  <2>2. CASE stack_close
    BY <2>2 DEF stack_close, opVars
  <2>3. ASSUME NEW c \in Callers, StackCall(c) \/ StackCallReturns(c)
        PROVE  Types'
    <3>1. call' \in [Callers -> {"idle", "inside", "returned", "unknown"}]
      BY <2>3 DEF StackCall, StackCallReturns
    <3>2. UNCHANGED <<python, next, handle, stacks, ops, start, id, ended, emitted, taken, iter,
                      waiter, releaser, released, cancels, server>>
      BY <2>3 DEF StackCall, StackCallReturns, opVars
    <3> QED
      BY <3>1, <3>2
  <2> QED
    BY <2>1, <2>2, <2>3
<1>2. UNCHANGED <<ops, opVars>> /\ next' \in Nat /\ next <= next'
  BY DEF stack_open, stack_close, StackCall, StackCallReturns
<1>3. RegistryInv'
  BY <1>2 DEF RegistryInv, opVars
<1>4. ServerInv' /\ IterationComplete'
  BY <1>2 DEF ServerInv, IterationComplete, opVars
<1> QED
  BY <1>1, <1>3, <1>4

\* A start that does not get as far as an operation.
LEMMA RequestStep ==
    ASSUME Inv, NEW o \in Ops, Start(o) \/ BadOptions(o) \/ op_start_fails(o)
    PROVE  Inv'
<1> USE CApiAssumption DEF Inv, Types, regVars
<1>1. Types'
  BY DEF Start, BadOptions, op_start_fails, ServerClosed
<1>2. /\ start[o] \in {"new", "request"}
      /\ \A p \in Ops : start'[p] = "started" <=> start[p] = "started"
      /\ UNCHANGED <<regVars, id, ended, emitted, taken, iter, waiter, releaser, released, cancels>>
  BY DEF Start, BadOptions, op_start_fails
<1>3. RegistryInv'
  BY <1>2 DEF RegistryInv
<1>4. ServerInv'
  BY DEF Start, BadOptions, op_start_fails, ServerClosed, ServerInv
<1>5. IterationComplete'
  BY <1>2 DEF IterationComplete
<1> QED
  BY <1>1, <1>3, <1>4, <1>5

\* A start that does: the id is a new one.
LEMMA OpStartStep ==
    ASSUME Inv, NEW o \in Ops, op_start(o)
    PROVE  Inv'
<1> USE CApiAssumption DEF Inv, Types
<1>1. Types'
  BY DEF op_start
<1>2. /\ start[o] = "request" /\ waiter[o] = "no" /\ o \notin released /\ o \notin ended
      /\ iter[o] = "idle"
  BY DEF op_start, RegistryInv
<1>3. RegistryInv'
  BY <1>2 DEF op_start, RegistryInv
<1>4. ServerInv'
  BY <1>2 DEF op_start, ServerInv
<1>5. IterationComplete'
  BY DEF op_start, IterationComplete
<1> QED
  BY <1>1, <1>3, <1>4, <1>5

\* The engine: after the end nothing is emitted.
LEMMA EngineStep ==
    ASSUME Inv, NEW o \in Ops, Emit(o) \/ End(o)
    PROVE  Inv'
<1> USE CApiAssumption DEF Inv, Types, regVars
<1>1. Types'
  <2>1. emitted' \in [Ops -> Nat] /\ ended' \subseteq Ops
    BY DEF Emit, End
  <2> QED
    BY <2>1 DEF Emit, End
<1>2. /\ start[o] = "started" /\ o \notin ended
      /\ ended \subseteq ended' /\ ended' \subseteq ended \cup {o}
      /\ \A p \in Ops \ {o} : emitted'[p] = emitted[p]
      /\ UNCHANGED <<regVars, start, id, taken, iter, waiter, releaser, released, cancels, server>>
  <2>1. CASE Emit(o)
    BY <2>1 DEF Emit, Running
  <2>2. CASE End(o)
    BY <2>2 DEF End, Running
  <2> QED
    BY <2>1, <2>2
<1>3. RegistryInv'
  BY <1>2 DEF RegistryInv
<1>4. ServerInv'
  BY <1>2 DEF ServerInv
<1>5. IterationComplete'
  BY <1>2 DEF IterationComplete
<1> QED
  BY <1>1, <1>3, <1>4, <1>5

\* The iteration: an unknown id is a released one.
LEMMA IterateStep ==
    ASSUME Inv, NEW o \in Ops,
           Iterate(o) \/ op_next_event(o) \/ NextEventReturns(o) \/ NextEventTimeout(o)
    PROVE  Inv'
<1> USE CApiAssumption DEF Inv, Types, regVars
<1>1. Types'
  <2>1. iter' \in [Ops -> {"idle", "next", "blocked", "ended"}]
    BY DEF Iterate, op_next_event, NextEventReturns, NextEventTimeout
  <2>2. taken' \in [Ops -> Nat]
    BY DEF Iterate, op_next_event, NextEventReturns, NextEventTimeout
  <2> QED
    BY <2>1, <2>2 DEF Iterate, op_next_event, NextEventReturns, NextEventTimeout
<1>2. /\ start[o] = "started"
      /\ \A p \in Ops \ {o} : iter'[p] = iter[p] /\ taken'[p] = taken[p]
      /\ UNCHANGED <<regVars, start, id, ended, emitted, waiter, releaser, released, cancels, server>>
  <2>1. CASE Iterate(o)
    BY <2>1 DEF Iterate
  <2>2. CASE op_next_event(o)
    BY <2>2 DEF op_next_event, RegistryInv
  <2>3. CASE NextEventReturns(o)
    BY <2>3 DEF NextEventReturns, RegistryInv
  <2>4. CASE NextEventTimeout(o)
    BY <2>4 DEF NextEventTimeout, RegistryInv
  <2> QED
    BY <2>1, <2>2, <2>3, <2>4
<1>3. RegistryInv'
  BY <1>2 DEF RegistryInv
<1>4. ServerInv'
  BY <1>2 DEF ServerInv
<1>5. iter'[o] = "ended" => o \in released \/ (o \in ended /\ taken'[o] = emitted[o])
  BY <1>2 DEF Iterate, op_next_event, NextEventReturns, NextEventTimeout, RegistryInv
<1>6. IterationComplete'
  BY <1>2, <1>5 DEF IterationComplete
<1> QED
  BY <1>1, <1>3, <1>4, <1>6

\* A wait that begins finds the operation, since nobody has released it.
LEMMA BeginWaitFinds ==
    ASSUME Inv, NEW o \in Ops, start[o] = "started", BeginWait(o)
    PROVE  waiter[o] = "no" /\ waiter' = [waiter EXCEPT ![o] = "waiting"] /\ server' = server
BY DEF Inv, Types, RegistryInv, BeginWait, WaitOn

\* Waiting, cancelling, and asking for a release.
LEMMA WaitStep ==
    ASSUME Inv, NEW o \in Ops,
           \/ Result(o) \/ Cancel(o)
           \/ \E r \in Releasers : Release(o, r) \/ Exit(o, r)
    PROVE  Inv'
<1> USE CApiAssumption DEF Inv, Types, regVars
<1>1. /\ start[o] = "started"
      /\ waiter' = waiter \/ (waiter[o] = "no" /\ waiter' = [waiter EXCEPT ![o] = "waiting"])
      /\ server' = server
      /\ UNCHANGED <<regVars, start, id, ended, emitted, taken, iter, released>>
  BY BeginWaitFinds DEF Result, Cancel, Release, Exit
<1>2. /\ releaser' \in [Ops -> [Releasers -> {"idle", "waiting", "done"}]]
      /\ \A p \in Ops \ {o} : releaser'[p] = releaser[p]
      /\ releaser'[o] = releaser[o] \/ waiter'[o] # "no"
  <2>1. CASE Result(o) \/ Cancel(o)
    BY <2>1 DEF Result, Cancel
  <2>2. ASSUME NEW r \in Releasers, Release(o, r) \/ Exit(o, r)
        PROVE  <1>2
    <3>1. PICK v \in {"waiting", "done"} : releaser' = [releaser EXCEPT ![o][r] = v]
      BY <2>2 DEF Release, Exit
    <3>2. waiter'[o] # "no"
      BY <1>1, <2>2 DEF Release, Exit, BeginWait, WaitOn
    <3> QED
      BY <3>1, <3>2
  <2> QED
    BY <2>1, <2>2
<1>a. cancels' \in [Ops -> Nat]
  BY DEF Result, Cancel, Release, Exit
<1>3. Types'
  BY <1>1, <1>2, <1>a
<1>4. RegistryInv'
  <2>1. \A p \in Ops : waiter'[p] = waiter[p] \/ (waiter[p] = "no" /\ waiter'[p] = "waiting" /\ p = o)
    BY <1>1
  <2>2. \A p \in Ops, r \in Releasers : releaser'[p][r] # "idle" => waiter'[p] # "no"
    BY <1>2, <2>1 DEF RegistryInv
  <2> QED
    BY <1>1, <2>1, <2>2 DEF RegistryInv
<1>5. ServerInv'
  BY <1>1 DEF ServerInv
<1>6. IterationComplete'
  BY <1>1 DEF IterationComplete
<1> QED
  BY <1>3, <1>4, <1>5, <1>6

\* The wait returns, and the server is closed.
LEMMA WaitReturnsStep ==
    ASSUME Inv, NEW o \in Ops, op_wait(o)
    PROVE  Inv'
<1> USE CApiAssumption DEF Inv, Types, regVars
<1>1. Types'
  BY DEF op_wait, ServerClosed
<1>2. RegistryInv'
  BY DEF op_wait, RegistryInv
<1>3. ServerInv'
  BY DEF op_wait, ServerInv, ServerClosed, RegistryInv
<1>4. IterationComplete'
  BY DEF op_wait, IterationComplete
<1> QED
  BY <1>1, <1>2, <1>3, <1>4

\* The release removes the operation's own id and nobody else's.
LEMMA ReleaseStep ==
    ASSUME Inv, NEW o \in Ops, NEW r \in Releasers, op_release(o, r)
    PROVE  Inv'
<1> USE CApiAssumption DEF Inv, Types, regVars
<1>1. Types'
  <2>1. releaser' \in [Ops -> [Releasers -> {"idle", "waiting", "done"}]]
    BY DEF op_release
  <2> QED
    BY <2>1 DEF op_release
<1>2. waiter[o] = "returned" /\ start[o] = "started"
  BY DEF op_release, RegistryInv
<1>3. RegistryInv'
  <2>1. /\ \A p \in Ops \ {o} : releaser'[p] = releaser[p]
        /\ released' = released \cup {o}
        /\ ops' = ops \ {id[o]}
        /\ UNCHANGED <<next, start, id, ended, iter, waiter>>
    BY DEF op_release
  <2>2. \A p \in Ops : start[p] = "started" => (id[p] \in ops' <=> p \notin released')
    BY <1>2, <2>1 DEF RegistryInv
  <2> QED
    BY <1>2, <2>1, <2>2 DEF RegistryInv
<1>4. ServerInv'
  BY DEF op_release, ServerInv
<1>5. IterationComplete'
  BY DEF op_release, IterationComplete
<1> QED
  BY <1>1, <1>3, <1>4, <1>5

\* The registry, the servers and the iterations together.
LEMMA Invariant == Spec => []Inv
<1>1. Init => Inv
  <2> SUFFICES ASSUME Init
               PROVE  Inv
    OBVIOUS
  <2>1. Types
    BY DEF Init, Types
  <2>2. RegistryInv /\ ServerInv /\ IterationComplete
    BY CApiAssumption DEF Init, RegistryInv, ServerInv, IterationComplete
  <2> QED
    BY <2>1, <2>2 DEF Inv
<1>2. Inv /\ [Next]_vars => Inv'
  <2> SUFFICES ASSUME Inv, [Next]_vars
               PROVE  Inv'
    OBVIOUS
  <2>1. ASSUME NEW o \in Ops, Progress(o)
        PROVE  Inv'
    BY <2>1, OpStartStep, RequestStep, EngineStep, IterateStep, WaitReturnsStep, ReleaseStep
       DEF Progress
  <2>2. ASSUME NEW o \in Ops, Choice(o)
        PROVE  Inv'
    BY <2>2, RequestStep, EngineStep, IterateStep, WaitStep DEF Choice
  <2>3. CASE UNCHANGED vars
    BY <2>3 DEF vars, Inv, Types, RegistryInv, ServerInv, IterationComplete
  <2> QED
    BY <2>1, <2>2, <2>3, HandleStep DEF Next
<1> QED
  BY <1>1, <1>2, PTL DEF Spec

-----------------------------------------------------------------------------

\* No wait of a binding misses its operation, however many threads wait,
\* release and cancel (capi.go, op_wait and op_release).
THEOREM WaitsFindTheirOperation == Spec => []WaitFindsOperation
<1>1. Inv => WaitFindsOperation
  BY DEF Inv, RegistryInv, WaitFindsOperation
<1> QED
  BY <1>1, Invariant, PTL

\* The inline server is up while its operation runs and closed when the
\* result is in or the start was refused, for any operations (capi.go, op_start
\* and op_wait; _stack.py, Stack._start and Operation.result).
THEOREM ServerLivesWithOperation == Spec => []ServerServesOperation
<1>1. Inv => ServerServesOperation
  BY CApiAssumption DEF Inv, RegistryInv, ServerInv, ServerServesOperation, Running
<1> QED
  BY <1>1, Invariant, PTL

\* An iteration that ends has handed out every event, unless the operation
\* was released under it, for any number of events (capi.go, op_next_event).
THEOREM IterationsAreComplete == Spec => []IterationComplete
<1>1. Inv => IterationComplete
  BY DEF Inv
<1> QED
  BY <1>1, Invariant, PTL

=============================================================================
