---------------------------- MODULE StackLocking ----------------------------
(***************************************************************************)
(* Who may touch a stack's checkpoint, and when (src/engine/stack.go,      *)
(* operation.go).                                                          *)
(*                                                                         *)
(* Several Stack handles are open on one stack of a DIY backend.  Each has *)
(* its own backend instance, and so its own lock file: Pulumi's lock       *)
(* (external) only sees the lock files of other instances.  Operations of  *)
(* one handle are kept apart by the handle's opMu; Import and Remove go    *)
(* straight to the backend and do not take it.                             *)
(***************************************************************************)
EXTENDS Naturals

CONSTANTS
    Handles,    \* open handles on the stack
    Cancellers, \* the handles whose owner may call Stack.Cancel
    Updates,    \* up, refresh and destroy operations: the backend locks them
    Previews,   \* previews and dry runs: the backend does not
    Admins,     \* calls of Import and Remove
    On,         \* the handle of each call
    None        \* nobody holds the mutex

Ops   == Updates \cup Previews
Calls == Ops \cup Admins

ASSUME LockingAssumption ==
    /\ On \in [Calls -> Handles]
    /\ Cancellers \subseteq Handles
    /\ Ops \cap Admins = {}
    /\ Updates \cap Previews = {}
    /\ None \notin Calls

States == {"new", "started", "holding", "check", "write", "recheck", "critical",
           "previewing", "unlock", "releasing", "finishing", "done"}

VARIABLES
    pc,          \* where each call is
    opMu,        \* Stack.opMu of each handle: the operation that holds it
    running,     \* Stack.running of each handle
    sweep,       \* each handle's Stack.Cancel: "idle", "sweeping" or "returned"
    copy,        \* the operations it has copied and not yet cancelled
    owed,        \* history: those under way when it made the copy
    cancelled,   \* the operations it has called Operation.Cancel on
    locks,       \* the handles whose lock file exists
    shared       \* history: an Import or Remove met its own handle's lock file

cancelVars == <<sweep, copy, owed, cancelled>>
vars == <<pc, opMu, running, cancelVars, locks, shared>>

Init ==
    /\ pc = [c \in Calls |-> "new"]
    /\ opMu = [h \in Handles |-> None]
    /\ running = [h \in Handles |-> {}]
    /\ sweep = [h \in Cancellers |-> "idle"]
    /\ copy = [h \in Cancellers |-> {}]
    /\ owed = [h \in Cancellers |-> {}]
    /\ cancelled = {}
    /\ locks = {}
    /\ shared = FALSE

Goto(c, state) == pc' = [pc EXCEPT ![c] = state]

\* The lock files of other backend instances.
OtherLocks(c) == locks \ {On[c]}

\* Calls whose lock file was written and not yet removed.
Holding == {c \in Updates \cup Admins : pc[c] \in {"recheck", "critical", "unlock"}}

\* Where a call goes when the backend is done with it.
AfterBackend(c) == IF c \in Ops THEN "releasing" ELSE "done"

-----------------------------------------------------------------------------
(***************************************************************************)
(* Faulty variants of the actions below, one slip each; every property at  *)
(* the end fails when one of them replaces the action it is named after.   *)
(***************************************************************************)

\* start forgets the operations that are already running.
StartReplaces(o) ==
    /\ pc[o] = "new"
    /\ running' = [running EXCEPT ![On[o]] = {o}]
    /\ Goto(o, "started")
    /\ UNCHANGED <<opMu, cancelVars, locks, shared>>

\* execute without opMu.TryLock.
TryLockMissing(o) ==
    /\ pc[o] = "started"
    /\ Goto(o, "holding")
    /\ opMu' = [opMu EXCEPT ![On[o]] = o]
    /\ UNCHANGED <<running, cancelVars, locks, shared>>

\* An early return that was written above the deferred opMu.Unlock.
PrepareFailsEarly(o) ==
    /\ pc[o] = "holding"
    /\ Goto(o, "finishing")
    /\ UNCHANGED <<opMu, running, cancelVars, locks, shared>>

\* finish waits until the handle's other operations are done.
FinishWaitsForOthers(o) ==
    /\ pc[o] = "finishing"
    /\ running[On[o]] = {o}
    /\ running' = [running EXCEPT ![On[o]] = @ \ {o}]
    /\ Goto(o, "done")
    /\ UNCHANGED <<opMu, cancelVars, locks, shared>>

-----------------------------------------------------------------------------
(* Operations: start, execute and finish. *)

Start(o) ==
    /\ pc[o] = "new"
    /\ running' = [running EXCEPT ![On[o]] = @ \cup {o}]
    /\ Goto(o, "started")
    /\ UNCHANGED <<opMu, cancelVars, locks, shared>>

\* Options that do not fit the operation are refused before the mutex.
RejectOptions(o) ==
    /\ pc[o] = "started"
    /\ Goto(o, "finishing")
    /\ UNCHANGED <<opMu, running, cancelVars, locks, shared>>

\* s.opMu.TryLock(): taken, or refused at once.
TryLock(o) ==
    /\ pc[o] = "started"
    /\ \/ /\ opMu[On[o]] = None
          /\ opMu' = [opMu EXCEPT ![On[o]] = o]
          /\ Goto(o, "holding")
       \/ /\ opMu[On[o]] # None
          /\ Goto(o, "finishing")
          /\ UNCHANGED opMu
    /\ UNCHANGED <<running, cancelVars, locks, shared>>

\* The program, the config or the plugin host does not come up: execute
\* returns through its deferred calls.
PrepareFails(o) ==
    /\ pc[o] = "holding"
    /\ Goto(o, "releasing")
    /\ UNCHANGED <<opMu, running, cancelVars, locks, shared>>

\* The backend call.
CallBackend(o) ==
    /\ pc[o] = "holding"
    /\ Goto(o, IF o \in Previews THEN "previewing" ELSE "check")
    /\ UNCHANGED <<opMu, running, cancelVars, locks, shared>>

\* A preview reads the checkpoint and returns.
PreviewReturns(o) ==
    /\ pc[o] = "previewing"
    /\ Goto(o, "releasing")
    /\ UNCHANGED <<opMu, running, cancelVars, locks, shared>>

\* The deferred s.opMu.Unlock().
Release(o) ==
    /\ pc[o] = "releasing"
    /\ opMu' = [opMu EXCEPT ![On[o]] = None]
    /\ Goto(o, "finishing")
    /\ UNCHANGED <<running, cancelVars, locks, shared>>

\* finish: the operation leaves Stack.running and Wait returns.
Finish(o) ==
    /\ pc[o] = "finishing"
    /\ running' = [running EXCEPT ![On[o]] = @ \ {o}]
    /\ Goto(o, "done")
    /\ UNCHANGED <<opMu, cancelVars, locks, shared>>

-----------------------------------------------------------------------------
(* Stack.Import, Stack.Remove and Stack.Cancel. *)

\* Import and Remove call the backend directly; Import refuses a malformed
\* deployment first.
CallAdmin(a) ==
    /\ pc[a] = "new"
    /\ \/ Goto(a, "done")
       \/ Goto(a, "check")
    /\ UNCHANGED <<opMu, running, cancelVars, locks, shared>>

\* The handle's operations between start and finish.
UnderWay(h) == {o \in Ops : On[o] = h /\ pc[o] \notin {"new", "done"}}

\* Stack.Cancel, once for each handle: the running set is copied under
\* Stack.mu, ...
CopyRunning(h) ==
    /\ sweep[h] = "idle"
    /\ sweep' = [sweep EXCEPT ![h] = "sweeping"]
    /\ copy' = [copy EXCEPT ![h] = running[h]]
    /\ owed' = [owed EXCEPT ![h] = UnderWay(h)]
    /\ UNCHANGED <<pc, opMu, running, cancelled, locks, shared>>

\* ... and the operations in the copy are cancelled one by one, without it:
\* others may start, and those in the copy may end.
CancelOne(h) ==
    /\ sweep[h] = "sweeping"
    /\ \E o \in copy[h] :
        /\ copy' = [copy EXCEPT ![h] = @ \ {o}]
        /\ cancelled' = cancelled \cup {o}
    /\ UNCHANGED <<pc, opMu, running, sweep, owed, locks, shared>>

\* A DIY backend has no update of its own to cancel.
CancelReturns(h) ==
    /\ sweep[h] = "sweeping"
    /\ copy[h] = {}
    /\ sweep' = [sweep EXCEPT ![h] = "returned"]
    /\ UNCHANGED <<pc, opMu, running, copy, owed, cancelled, locks, shared>>

-----------------------------------------------------------------------------
(* The DIY backend's lock (external). *)

\* Lock: refuse if another instance's lock file is there, ...
CheckLock(c) ==
    /\ pc[c] = "check"
    /\ \/ /\ OtherLocks(c) = {}
          /\ Goto(c, "write")
       \/ /\ OtherLocks(c) # {}
          /\ Goto(c, AfterBackend(c))
    /\ UNCHANGED <<opMu, running, cancelVars, locks, shared>>

\* ... write this instance's, ...
WriteLock(c) ==
    /\ pc[c] = "write"
    /\ locks' = locks \cup {On[c]}
    /\ shared' = (shared \/ \E d \in Holding : On[d] = On[c] /\ {c, d} \cap Admins # {})
    /\ Goto(c, "recheck")
    /\ UNCHANGED <<opMu, running, cancelVars>>

\* ... and look again, backing out if another instance did the same.
RecheckLock(c) ==
    /\ pc[c] = "recheck"
    /\ \/ /\ OtherLocks(c) = {}
          /\ Goto(c, "critical")
       \/ /\ OtherLocks(c) # {}
          /\ Goto(c, "unlock")
    /\ UNCHANGED <<opMu, running, cancelVars, locks, shared>>

\* The checkpoint is read and written between Lock and Unlock.
Work(c) ==
    /\ pc[c] = "critical"
    /\ Goto(c, "unlock")
    /\ UNCHANGED <<opMu, running, cancelVars, locks, shared>>

\* Unlock deletes this instance's lock file, whoever wrote it.
Unlock(c) ==
    /\ pc[c] = "unlock"
    /\ locks' = locks \ {On[c]}
    /\ Goto(c, AfterBackend(c))
    /\ UNCHANGED <<opMu, running, cancelVars, shared>>

-----------------------------------------------------------------------------
OpNext(o) ==
    \/ Start(o) \/ RejectOptions(o) \/ TryLock(o) \/ PrepareFails(o) \/ CallBackend(o)
    \/ PreviewReturns(o) \/ Release(o) \/ Finish(o)

CancelNext(h) == CopyRunning(h) \/ CancelOne(h) \/ CancelReturns(h)

BackendNext(c) == CheckLock(c) \/ WriteLock(c) \/ RecheckLock(c) \/ Work(c) \/ Unlock(c)

Next ==
    \/ \E o \in Ops : OpNext(o)
    \/ \E a \in Admins : CallAdmin(a)
    \/ \E h \in Cancellers : CancelNext(h)
    \/ \E c \in Updates \cup Admins : BackendNext(c)

Spec == Init /\ [][Next]_vars

\* A started operation's goroutine runs; nobody has to make a call.
Fairness ==
    /\ \A o \in Ops : WF_vars(OpNext(o) /\ pc[o] # "new")
    /\ \A c \in Updates \cup Admins : WF_vars(BackendNext(c))

FairSpec == Spec /\ Fairness

-----------------------------------------------------------------------------
(* Properties. *)

TypeOK ==
    /\ pc \in [Calls -> States]
    /\ opMu \in [Handles -> Ops \cup {None}]
    /\ running \in [Handles -> SUBSET Ops]
    /\ sweep \in [Cancellers -> {"idle", "sweeping", "returned"}]
    /\ copy \in [Cancellers -> SUBSET Ops]
    /\ owed \in [Cancellers -> SUBSET Ops]
    /\ cancelled \subseteq Ops
    /\ locks \subseteq Handles
    /\ shared \in BOOLEAN

\* Calls between Lock and Unlock: they read and write the checkpoint.
Critical == {c \in Updates \cup Admins : pc[c] = "critical"}

\* No two calls, of one handle or of several, are ever in the checkpoint
\* together, as long as no Import or Remove overlapped another call of its own
\* handle: opMu within a handle and the lock files between handles are enough,
\* provided that everything of one handle goes through opMu
\* (operation.go, execute; stack.go, Import and Remove).
ExclusiveUnlessShared == shared \/ \A c, d \in Critical : c = d

\* The code's claim without the proviso (README.md:409, stack.go:46): the
\* operations of one stack, from one handle or two, are serialised.
UpdatesExclude == \A c, d \in Critical \cap Updates : c = d

\* What a call took, it gave back: a handle whose calls have all returned
\* holds neither its mutex nor its lock file, whichever way they ended.
NothingLeftLocked ==
    \A h \in Handles :
        (\A c \in Calls : On[c] = h => pc[c] \in {"new", "done"})
            => opMu[h] = None /\ h \notin locks

\* A Stack.Cancel that has returned has cancelled the operations that were
\* between start and finish when it took its copy, and no other, although
\* operations started and ended while it went through the copy without the
\* mutex (stack.go:526-534, Cancel; operation.go, start and finish).
CancelReachesActive ==
    \A h \in Cancellers :
        sweep[h] = "returned" => {o \in cancelled : On[o] = h} = owed[h]

\* Every operation ends, refused or not: nobody waits for a lock.
OperationsEnd == \A o \in Ops : (pc[o] = "started") ~> (pc[o] = "done")

=============================================================================
