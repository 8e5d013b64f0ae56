------------------------ MODULE StackLockingProofs ------------------------
(***************************************************************************)
(* Proofs about StackLocking, for any number of handles and calls.         *)
(***************************************************************************)
EXTENDS StackLocking, TLAPS

\* The states between TryLock and the deferred Unlock.
Busy == {"holding", "check", "write", "recheck", "critical", "previewing", "unlock",
         "releasing"}

Held == {"recheck", "critical", "unlock"}

\* The mutex belongs to an operation exactly while it is busy.
MutexInv ==
    /\ \A o \in Ops : pc[o] \in Busy => opMu[On[o]] = o
    /\ \A h \in Handles : opMu[h] # None => On[opMu[h]] = h /\ pc[opMu[h]] \in Busy

\* A lock file belongs to some call that wrote it.
OwnedInv == \A h \in locks : \E c \in Holding : On[c] = h

\* Unless two calls shared a lock file, every call that wrote one still has
\* it, alone on its handle.
FileInv ==
    ~shared =>
        /\ \A c \in Holding : On[c] \in locks
        /\ \A c, d \in Holding : On[c] = On[d] => c = d

\* A handle's running set has its operations between start and finish.
RunningInv == \A h \in Handles : running[h] = UnderWay(h)

\* A Stack.Cancel has cancelled what was under way, up to what is left of its
\* copy; before the call, nothing.
SweepInv ==
    \A h \in Cancellers :
        /\ copy[h] \cup {o \in cancelled : On[o] = h} = owed[h]
        /\ owed[h] \subseteq {o \in Ops : On[o] = h}
        /\ sweep[h] = "idle" => owed[h] = {}
        /\ sweep[h] = "returned" => copy[h] = {}

Inv ==
    /\ TypeOK /\ MutexInv /\ RunningInv /\ SweepInv
    /\ OwnedInv /\ FileInv /\ ExclusiveUnlessShared

-----------------------------------------------------------------------------
\* Every reachable state has the invariant in its initial form.
LEMMA InitInv == Init => Inv
BY LockingAssumption
   DEF Init, Inv, TypeOK, MutexInv, RunningInv, SweepInv, OwnedInv, FileInv,
       ExclusiveUnlessShared, UnderWay, States, Busy, Holding, Critical, Ops, Calls

\* A step of a call between two states neither of which holds a lock file
\* leaves the set of holders and of critical calls alone.
LEMMA HoldersSame ==
    ASSUME TypeOK, NEW c \in Calls, NEW to \in States, Goto(c, to),
           pc[c] \notin Held, to \notin Held
    PROVE  Holding' = Holding /\ Critical' = Critical
BY DEF TypeOK, Goto, Held, Holding, Critical, Calls, Ops

\* Types are preserved by every step.
LEMMA TypeStep == TypeOK /\ [Next]_vars => TypeOK'
<1> SUFFICES ASSUME TypeOK, [Next]_vars PROVE TypeOK'
  OBVIOUS
<1> USE LockingAssumption DEF TypeOK, Goto, States, Ops, Calls, cancelVars
<1>1. ASSUME NEW o \in Ops, OpNext(o) PROVE TypeOK'
  <2>1. CASE Start(o)          BY <2>1 DEF Start
  <2>2. CASE RejectOptions(o)  BY <2>2 DEF RejectOptions
  <2>3. CASE TryLock(o)        BY <2>3 DEF TryLock
  <2>4. CASE PrepareFails(o)   BY <2>4 DEF PrepareFails
  <2>5. CASE CallBackend(o)    BY <2>5 DEF CallBackend
  <2>6. CASE PreviewReturns(o) BY <2>6 DEF PreviewReturns
  <2>7. CASE Release(o)        BY <2>7 DEF Release
  <2>8. CASE Finish(o)         BY <2>8 DEF Finish
  <2> QED BY <1>1, <2>1, <2>2, <2>3, <2>4, <2>5, <2>6, <2>7, <2>8 DEF OpNext
<1>2. ASSUME NEW a \in Admins, CallAdmin(a) PROVE TypeOK'
  BY <1>2 DEF CallAdmin
<1>3. ASSUME NEW h \in Cancellers, CancelNext(h) PROVE TypeOK'
  <2>1. CASE CopyRunning(h)   BY <2>1 DEF CopyRunning, UnderWay
  <2>2. CASE CancelOne(h)     BY <2>2 DEF CancelOne
  <2>3. CASE CancelReturns(h) BY <2>3 DEF CancelReturns
  <2> QED BY <1>3, <2>1, <2>2, <2>3 DEF CancelNext
<1>4. ASSUME NEW c \in Updates \cup Admins, BackendNext(c) PROVE TypeOK'
  <2>1. CASE CheckLock(c)   BY <2>1 DEF CheckLock, AfterBackend
  <2>2. CASE WriteLock(c)   BY <2>2 DEF WriteLock
  <2>3. CASE RecheckLock(c) BY <2>3 DEF RecheckLock
  <2>4. CASE Work(c)        BY <2>4 DEF Work
  <2>5. CASE Unlock(c)      BY <2>5 DEF Unlock, AfterBackend
  <2> QED BY <1>4, <2>1, <2>2, <2>3, <2>4, <2>5 DEF BackendNext
<1>5. CASE UNCHANGED vars
  BY <1>5 DEF vars
<1> QED
  BY <1>1, <1>2, <1>3, <1>4, <1>5 DEF Next

-----------------------------------------------------------------------------
\* The mutex and the running set: opMu is taken and given back by the busy
\* operation only, and Import and Remove never touch it.
LEMMA MutexStep ==
    TypeOK /\ MutexInv /\ RunningInv /\ [Next]_vars => MutexInv' /\ RunningInv'
<1> SUFFICES ASSUME TypeOK, MutexInv, RunningInv, [Next]_vars PROVE MutexInv' /\ RunningInv'
  OBVIOUS
<1> USE LockingAssumption DEF TypeOK, MutexInv, RunningInv, UnderWay, Busy, Goto, Ops, Calls
<1>1. ASSUME NEW o \in Ops, OpNext(o) PROVE MutexInv' /\ RunningInv'
  <2>1. CASE Start(o)          BY <2>1 DEF Start
  <2>2. CASE RejectOptions(o)  BY <2>2 DEF RejectOptions
  <2>3. CASE TryLock(o)        BY <2>3 DEF TryLock
  <2>4. CASE PrepareFails(o)   BY <2>4 DEF PrepareFails
  <2>5. CASE CallBackend(o)    BY <2>5 DEF CallBackend
  <2>6. CASE PreviewReturns(o) BY <2>6 DEF PreviewReturns
  <2>7. CASE Release(o)        BY <2>7 DEF Release
  <2>8. CASE Finish(o)         BY <2>8 DEF Finish
  <2> QED BY <1>1, <2>1, <2>2, <2>3, <2>4, <2>5, <2>6, <2>7, <2>8 DEF OpNext
<1>2. ASSUME NEW a \in Admins, CallAdmin(a) PROVE MutexInv' /\ RunningInv'
  BY <1>2 DEF CallAdmin
<1>3. ASSUME NEW h \in Cancellers, CancelNext(h) PROVE MutexInv' /\ RunningInv'
  BY <1>3 DEF CancelNext, CopyRunning, CancelOne, CancelReturns
<1>4. ASSUME NEW c \in Updates \cup Admins, BackendNext(c) PROVE MutexInv' /\ RunningInv'
  <2>1. CASE CheckLock(c)   BY <2>1 DEF CheckLock, AfterBackend
  <2>2. CASE WriteLock(c)   BY <2>2 DEF WriteLock
  <2>3. CASE RecheckLock(c) BY <2>3 DEF RecheckLock
  <2>4. CASE Work(c)        BY <2>4 DEF Work
  <2>5. CASE Unlock(c)      BY <2>5 DEF Unlock, AfterBackend
  <2> QED BY <1>4, <2>1, <2>2, <2>3, <2>4, <2>5 DEF BackendNext
<1>5. CASE UNCHANGED vars
  BY <1>5 DEF vars
<1> QED
  BY <1>1, <1>2, <1>3, <1>4, <1>5 DEF Next

-----------------------------------------------------------------------------
\* Stack.Cancel moves operations from its copy to the cancelled ones, and
\* nothing else touches either.
LEMMA SweepStep == TypeOK /\ RunningInv /\ SweepInv /\ [Next]_vars => SweepInv'
<1> SUFFICES ASSUME TypeOK, RunningInv, SweepInv, [Next]_vars PROVE SweepInv'
  OBVIOUS
<1>1. ASSUME NEW h \in Cancellers, CancelNext(h) PROVE SweepInv'
  <2> USE LockingAssumption DEF TypeOK, SweepInv, Ops, Calls
  <2>1. CASE CopyRunning(h)
    <3>1. running[h] = UnderWay(h) /\ {o \in cancelled : On[o] = h} = {} /\ copy[h] = {}
      BY <2>1 DEF CopyRunning, RunningInv
    <3> QED
      BY <2>1, <3>1 DEF CopyRunning, UnderWay
  <2>2. CASE CancelOne(h)
    <3> PICK o \in copy[h] : /\ copy' = [copy EXCEPT ![h] = @ \ {o}]
                             /\ cancelled' = cancelled \cup {o}
      BY <2>2 DEF CancelOne
    <3>1. On[o] = h
      OBVIOUS
    <3> QED
      BY <2>2, <3>1 DEF CancelOne
  <2>3. CASE CancelReturns(h)
    BY <2>3 DEF CancelReturns
  <2> QED
    BY <1>1, <2>1, <2>2, <2>3 DEF CancelNext
<1>2. CASE UNCHANGED cancelVars
  BY <1>2 DEF SweepInv, cancelVars
<1> QED
  BY <1>1, <1>2 DEF Next, vars, OpNext, Start, RejectOptions, TryLock, PrepareFails,
     CallBackend, PreviewReturns, Release, Finish, CallAdmin, BackendNext, CheckLock,
     WriteLock, RecheckLock, Work, Unlock

-----------------------------------------------------------------------------
\* What the lock files and the history have to do with each other.
Files == OwnedInv /\ FileInv /\ ExclusiveUnlessShared

\* A step that leaves the holders, the critical calls, the lock files and the
\* history alone keeps all that is said of them.
LEMMA FilesSame ==
    ASSUME Files, Holding' = Holding, Critical' = Critical, UNCHANGED <<locks, shared>>
    PROVE  Files'
BY DEF Files, OwnedInv, FileInv, ExclusiveUnlessShared

\* WriteLock: the new holder meets another one of its handle only if an Import
\* or Remove is involved, since two operations would both hold opMu.
LEMMA WriteLockFiles ==
    ASSUME TypeOK, MutexInv, Files, NEW c \in Updates \cup Admins, WriteLock(c)
    PROVE  Files'
<1> USE LockingAssumption DEF TypeOK, WriteLock, Goto, Ops, Calls
<1>1. Holding' = Holding \cup {c} /\ Critical' = Critical
  BY DEF Holding, Critical
<1>2. OwnedInv'
  BY <1>1 DEF Files, OwnedInv
<1>3. ASSUME ~shared', NEW d \in Holding, On[d] = On[c] PROVE d = c
  <2>1. c \in Ops /\ d \in Ops
    BY <1>3 DEF Holding
  <2>2. pc[c] \in Busy /\ pc[d] \in Busy
    BY DEF Holding, Busy
  <2> QED
    BY <1>3, <2>1, <2>2 DEF MutexInv
<1>4. FileInv'
  BY <1>1, <1>3 DEF Files, FileInv
<1>5. ExclusiveUnlessShared'
  BY <1>1 DEF Files, ExclusiveUnlessShared
<1> QED
  BY <1>2, <1>4, <1>5 DEF Files

\* RecheckLock: a call that sees no other instance's lock file enters alone,
\* because a critical call's own file is still there.
LEMMA RecheckLockFiles ==
    ASSUME TypeOK, Files, NEW c \in Updates \cup Admins, RecheckLock(c)
    PROVE  Files'
<1> USE LockingAssumption DEF TypeOK, RecheckLock, Goto, Ops, Calls
<1>1. Holding' = Holding /\ c \in Holding
  BY DEF Holding
<1>2. OwnedInv' /\ FileInv'
  BY <1>1 DEF Files, OwnedInv, FileInv
<1>3. ExclusiveUnlessShared'
  <2>1. CASE OtherLocks(c) # {}
    BY <2>1 DEF Files, ExclusiveUnlessShared, Critical
  <2>2. CASE OtherLocks(c) = {}
    <3>1. ASSUME ~shared, NEW d \in Critical PROVE d = c
      <4>1. d \in Holding
        BY DEF Critical, Holding
      <4> QED
        BY <1>1, <2>2, <3>1, <4>1 DEF Files, FileInv, OtherLocks
    <3>2. Critical' \subseteq Critical \cup {c}
      BY DEF Critical
    <3> QED
      BY <3>1, <3>2 DEF Files, ExclusiveUnlessShared
  <2> QED
    BY <2>1, <2>2
<1> QED
  BY <1>2, <1>3 DEF Files

\* Work leaves the holders alone and only takes a call out of the checkpoint.
LEMMA WorkFiles ==
    ASSUME TypeOK, Files, NEW c \in Updates \cup Admins, Work(c)
    PROVE  Files'
<1> USE LockingAssumption DEF TypeOK, Work, Goto, Ops, Calls
<1>1. Holding' = Holding /\ Critical' \subseteq Critical
  BY DEF Holding, Critical
<1> QED
  BY <1>1 DEF Files, OwnedInv, FileInv, ExclusiveUnlessShared

\* Unlock takes the handle's lock file away and one holder with it.
LEMMA UnlockFiles ==
    ASSUME TypeOK, Files, NEW c \in Updates \cup Admins, Unlock(c)
    PROVE  Files'
<1> USE LockingAssumption DEF TypeOK, Unlock, Goto, AfterBackend, Ops, Calls
<1>1. Holding' = Holding \ {c} /\ Critical' = Critical /\ c \in Holding
  BY DEF Holding, Critical
<1> QED
  BY <1>1 DEF Files, OwnedInv, FileInv, ExclusiveUnlessShared

\* No step breaks what is said of the lock files.
LEMMA FilesStep == TypeOK /\ MutexInv /\ Files /\ [Next]_vars => Files'
<1> SUFFICES ASSUME TypeOK, MutexInv, Files, [Next]_vars PROVE Files'
  OBVIOUS
<1>1. ASSUME NEW o \in Ops, OpNext(o) PROVE Files'
  <2>1. UNCHANGED <<locks, shared>>
    BY <1>1 DEF OpNext, Start, RejectOptions, TryLock, PrepareFails, CallBackend,
                PreviewReturns, Release, Finish
  <2>2. \E to \in States : Goto(o, to) /\ pc[o] \notin Held /\ to \notin Held
    BY <1>1 DEF OpNext, Start, RejectOptions, TryLock, PrepareFails, CallBackend,
                PreviewReturns, Release, Finish, States, Held
  <2> QED
    BY <2>1, <2>2, HoldersSame, FilesSame DEF Calls
<1>2. ASSUME NEW a \in Admins, CallAdmin(a) PROVE Files'
  <2>1. \E to \in States : Goto(a, to) /\ pc[a] \notin Held /\ to \notin Held
    BY <1>2 DEF CallAdmin, States, Held
  <2> QED
    BY <1>2, <2>1, HoldersSame, FilesSame DEF CallAdmin, Calls
<1>3. ASSUME NEW h \in Cancellers, CancelNext(h) PROVE Files'
  <2>1. UNCHANGED <<pc, locks, shared>>
    BY <1>3 DEF CancelNext, CopyRunning, CancelOne, CancelReturns
  <2> QED
    BY <2>1, FilesSame DEF Holding, Critical
<1>4. ASSUME NEW c \in Updates \cup Admins, BackendNext(c) PROVE Files'
  <2>1. CASE CheckLock(c)
    <3>1. \E to \in States : Goto(c, to) /\ pc[c] \notin Held /\ to \notin Held
      BY <2>1 DEF CheckLock, AfterBackend, States, Held
    <3> QED
      BY <2>1, <3>1, HoldersSame, FilesSame DEF CheckLock, Calls, Ops
  <2> QED
    BY <1>4, <2>1, WriteLockFiles, RecheckLockFiles, WorkFiles, UnlockFiles DEF BackendNext
<1>5. CASE UNCHANGED vars
  BY <1>5, FilesSame DEF vars, Holding, Critical
<1> QED
  BY <1>1, <1>2, <1>3, <1>4, <1>5 DEF Next

-----------------------------------------------------------------------------
\* The inductive invariant holds in every reachable state.
THEOREM Invariance == Spec => []Inv
<1>1. Inv /\ [Next]_vars => Inv'
  BY TypeStep, MutexStep, SweepStep, FilesStep DEF Inv, Files
<1> QED
  BY InitInv, <1>1, PTL DEF Spec

\* Every variable of the model keeps its type, whatever the calls and handles.
THEOREM TypeCorrect == Spec => []TypeOK
BY Invariance, PTL DEF Inv

\* Mutual exclusion on the checkpoint, for any number of handles, operations,
\* imports and removes: opMu and the lock files suffice unless an Import or
\* Remove overlapped a call of its own handle.
THEOREM MutualExclusion == Spec => []ExclusiveUnlessShared
BY Invariance, PTL DEF Inv

\* A handle whose calls have all returned has given back its mutex and its
\* lock file, on every way out of execute.
THEOREM AllReleased == Spec => []NothingLeftLocked
<1>1. Inv => NothingLeftLocked
  <2> SUFFICES ASSUME Inv, NEW h \in Handles,
                      \A c \in Calls : On[c] = h => pc[c] \in {"new", "done"}
               PROVE  opMu[h] = None /\ h \notin locks
    BY DEF NothingLeftLocked
  <2>1. opMu[h] = None
    BY DEF Inv, TypeOK, MutexInv, Busy, Calls
  <2>2. h \notin locks
    BY DEF Inv, OwnedInv, Holding, Calls, Ops
  <2> QED
    BY <2>1, <2>2
<1> QED
  BY Invariance, <1>1, PTL

\* A Stack.Cancel that has returned has cancelled exactly the operations of
\* its handle that were under way when it took its copy, for any number of
\* them and whatever started or ended meanwhile.
THEOREM CancelCovers == Spec => []CancelReachesActive
<1>1. Inv => CancelReachesActive
  BY DEF Inv, SweepInv, CancelReachesActive
<1> QED
  BY Invariance, <1>1, PTL

=============================================================================
