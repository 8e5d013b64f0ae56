------------------------ MODULE StdoutCaptureProofs ------------------------
(***************************************************************************)
(* Proofs about StdoutCapture, for any number of operations, stacks and    *)
(* host writes.                                                            *)
(***************************************************************************)
EXTENDS StdoutCapture, SequenceTheorems, TLAPS

\* The kinds of writes to os.Stdout are told apart.
LEMMA WriteFacts ==
    /\ \A o \in Ops : Header(o) \in Writes /\ Sentinel(o) \in Writes
    /\ \A n \in 1..MaxHostWrites, nl \in BOOLEAN : HostWrite(n, nl) \in Writes
    /\ \A o, p \in Ops : Header(o) = Header(p) => o = p
    /\ \A o, p \in Ops : Header(o) # Sentinel(p)
    /\ \A o \in Ops : \A n, nl : HostWrite(n, nl) # Header(o) /\ HostWrite(n, nl) # Sentinel(o)
    /\ \A w \in Writes : w.type = "header" => w.id \in Ops /\ w = Header(w.id)
    /\ \A w \in Writes : w.type = "sentinel" => w.id \in Ops /\ w = Sentinel(w.id)
<1>1. \A o \in Ops : Header(o) \in Writes /\ Sentinel(o) \in Writes
  BY DEF Writes
<1>2. \A n \in 1..MaxHostWrites, nl \in BOOLEAN : HostWrite(n, nl) \in Writes
  BY DEF Writes
<1>3. \A o, p \in Ops : Header(o) = Header(p) => o = p
  BY DEF Header
<1>4. \A o, p \in Ops : Header(o) # Sentinel(p)
  BY DEF Header, Sentinel
<1>5. \A o \in Ops : \A n, nl : HostWrite(n, nl) # Header(o) /\ HostWrite(n, nl) # Sentinel(o)
  BY DEF Header, Sentinel, HostWrite
<1>6. \A w \in Writes : w.type = "header" => w.id \in Ops /\ w = Header(w.id)
  BY DEF Writes, Header, Sentinel, HostWrite
<1>7. \A w \in Writes : w.type = "sentinel" => w.id \in Ops /\ w = Sentinel(w.id)
  BY DEF Writes, Header, Sentinel, HostWrite
<1> QED
  BY <1>1, <1>2, <1>3, <1>4, <1>5, <1>6, <1>7

\* What is left of the pipe once its first k writes have been read.
LEMMA PipeRead ==
    ASSUME pipe \in Seq(Writes), NEW k \in 1..Len(pipe),
           pipe' = SubSeq(pipe, k + 1, Len(pipe))
    PROVE  /\ pipe' \in Seq(Writes)
           /\ \A i \in DOMAIN pipe' : i + k \in DOMAIN pipe /\ pipe'[i] = pipe[i + k]
<1>1. \A i \in (k + 1)..Len(pipe) : pipe[i] \in Writes
  BY ElementOfSeq
<1>2. k + 1 \in Int /\ Len(pipe) \in Int
  BY LenProperties
<1>3. /\ pipe' \in Seq(Writes)
      /\ Len(pipe') = IF k + 1 <= Len(pipe) THEN Len(pipe) - (k + 1) + 1 ELSE 0
      /\ \A i \in 1..(Len(pipe) - (k + 1) + 1) : pipe'[i] = pipe[k + 1 + i - 1]
  BY <1>1, <1>2, SubSeqProperties
<1> QED
  BY <1>2, <1>3, LenProperties

\* RouteSentinel and RouteHeader read one write.
LEMMA PipeTail ==
    ASSUME pipe \in Seq(Writes), 1 \in DOMAIN pipe, pipe' = Tail(pipe)
    PROVE  /\ pipe' \in Seq(Writes)
           /\ \A i \in DOMAIN pipe' : i + 1 \in DOMAIN pipe /\ pipe'[i] = pipe[i + 1]
BY HeadTailProperties, LenProperties

\* A write goes to the end of the pipe.
LEMMA PipeAppend ==
    ASSUME pipe \in Seq(Writes), NEW w \in Writes, pipe' = Append(pipe, w)
    PROVE  /\ pipe' \in Seq(Writes)
           /\ DOMAIN pipe' = 1..(Len(pipe) + 1) /\ DOMAIN pipe = 1..Len(pipe)
           /\ Len(pipe) \in Nat
           /\ \A i \in DOMAIN pipe : pipe'[i] = pipe[i]
           /\ pipe'[Len(pipe) + 1] = w
BY LenProperties

-----------------------------------------------------------------------------
\* A write to os.Stdout keeps the types of the two files.
LEMMA StdoutTypes ==
    ASSUME TypeOK, NEW w \in Writes, WriteStdout(w)
    PROVE  pipe' \in Seq(Writes) /\ orig' \in Seq(Writes)
<1>1. CASE started /\ pipe' = Append(pipe, w) /\ UNCHANGED orig
  BY <1>1, AppendProperties DEF TypeOK
<1>2. CASE ~started /\ orig' = Append(orig, w) /\ UNCHANGED pipe
  BY <1>2, AppendProperties DEF TypeOK
<1> QED
  BY <1>1, <1>2 DEF WriteStdout

\* The variables keep their types.
LEMMA TypeStep == TypeOK /\ [Next]_vars => TypeOK'
<1> SUFFICES ASSUME TypeOK, [Next]_vars PROVE TypeOK'
  OBVIOUS
<1> USE CaptureAssumption DEF TypeOK, Goto, OpStates, labels, pumpVars
<1>1. ASSUME NEW o \in Ops, OpNext(o) PROVE TypeOK'
  <2>1. CASE StartStdoutCapture(o)  BY <2>1 DEF StartStdoutCapture
  <2>2. CASE ListenStdout(o)        BY <2>2 DEF ListenStdout
  <2>3. CASE PrintHeader(o)
    <3>1. pipe' \in Seq(Writes) /\ orig' \in Seq(Writes)
      BY <2>3, WriteFacts, StdoutTypes DEF PrintHeader
    <3> QED
      BY <2>3, <3>1 DEF PrintHeader
  <2>4. CASE FlushStdoutCapture(o)  BY <2>4 DEF FlushStdoutCapture
  <2>5. CASE WriteSentinel(o)       BY <2>5, WriteFacts DEF WriteSentinel
  <2>6. CASE FlushReturns(o)        BY <2>6 DEF FlushReturns
  <2>7. CASE UnlistenStdout(o)
    <3> DEFINE ops == listeners[ref[o]]
    <3>1. PICK i \in DOMAIN ops :
             listeners' = [listeners EXCEPT ![ref[o]] =
                              SubSeq(@, 1, i - 1) \o SubSeq(@, i + 1, Len(@))]
      BY <2>7 DEF UnlistenStdout
    <3>2. ops \in Seq(Ops) /\ ref[o] \in Refs
      OBVIOUS
    <3>3. i \in 1..Len(ops) /\ Len(ops) \in Nat
      BY <3>2, LenProperties
    <3>4. \A j \in 1..Len(ops) : ops[j] \in Ops
      BY <3>2, ElementOfSeq
    <3> HIDE DEF ops
    <3>5. SubSeq(ops, 1, i - 1) \in Seq(Ops)
      <4>1. \A j \in 1..(i - 1) : ops[j] \in Ops
        BY <3>3, <3>4
      <4> QED
        BY <3>3, <4>1, SubSeqProperties
    <3>6. SubSeq(ops, i + 1, Len(ops)) \in Seq(Ops)
      <4>1. \A j \in (i + 1)..Len(ops) : ops[j] \in Ops
        BY <3>3, <3>4
      <4> QED
        BY <3>3, <4>1, SubSeqProperties
    <3>7. SubSeq(ops, 1, i - 1) \o SubSeq(ops, i + 1, Len(ops)) \in Seq(Ops)
      BY <3>5, <3>6, ConcatProperties
    <3>8. listeners' \in [Refs -> Seq(Ops)]
      BY <3>1, <3>2, <3>7 DEF ops
    <3> QED
      BY <2>7, <3>8 DEF UnlistenStdout
  <2>8. CASE Finish(o)              BY <2>8 DEF Finish
  <2> QED BY <1>1, <2>1, <2>2, <2>3, <2>4, <2>5, <2>6, <2>7, <2>8 DEF OpNext
<1>2. ASSUME NEW k \in DOMAIN pipe, RouteSentinel(k) PROVE TypeOK'
  BY <1>2, PipeTail DEF RouteSentinel, LineReady
<1>3. ASSUME NEW k \in DOMAIN pipe, RouteHeader(k) PROVE TypeOK'
  <2>1. pipe' \in Seq(Writes)
    BY <1>3, PipeTail DEF RouteHeader, LineReady
  <2>2. 1 \in DOMAIN pipe /\ pipe[1] \in Writes
    BY <1>3, ElementOfSeq, LenProperties DEF RouteHeader, LineReady
  <2>3. pipe[1].id \in Ops
    BY <1>3, <2>2, WriteFacts DEF RouteHeader
  <2>4. PICK i \in Matching(pipe[1].id) :
           hand' = <<[header |-> pipe[1].id, target |-> listeners[ref[pipe[1].id]][i]]>>
    BY <1>3 DEF RouteHeader
  <2>5. listeners[ref[pipe[1].id]][i] \in Ops
    <3>1. listeners[ref[pipe[1].id]] \in Seq(Ops)
      BY <2>3
    <3>2. i \in 1..Len(listeners[ref[pipe[1].id]])
      BY <2>4, <3>1, LenProperties DEF Matching
    <3> QED
      BY <3>1, <3>2, ElementOfSeq
  <2>6. hand' \in Seq([header : Ops, target : Ops]) /\ Len(hand') <= 1
    BY <2>3, <2>4, <2>5
  <2> QED
    BY <1>3, <2>1, <2>6 DEF RouteHeader
<1>4. ASSUME NEW k \in DOMAIN pipe, ForwardLine(k) PROVE TypeOK'
  <2>1. k \in 1..Len(pipe) /\ Len(pipe) \in Nat
    BY <1>4, LenProperties
  <2>2. pipe' \in Seq(Writes)
    BY <1>4, <2>1, PipeRead DEF ForwardLine
  <2>3. \A i \in 1..k : pipe[i] \in Writes
    BY <2>1, ElementOfSeq
  <2>4. SubSeq(pipe, 1, k) \in Seq(Writes)
    BY <2>1, <2>3, SubSeqProperties
  <2>5. orig' \in Seq(Writes)
    BY <1>4, <2>4, ConcatProperties DEF ForwardLine
  <2> QED
    BY <1>4, <2>2, <2>5 DEF ForwardLine
<1>5. ASSUME DeliverHeader PROVE TypeOK'
  <2>1. hand[1] \in [header : Ops, target : Ops]
    <3> DEFINE H == [header : Ops, target : Ops]
    <3>1. hand \in Seq(H) /\ hand # <<>>
      BY <1>5 DEF DeliverHeader
    <3> HIDE DEF H
    <3>2. Head(hand) \in H /\ Head(hand) = hand[1]
      BY <3>1, HeadTailProperties
    <3> QED
      BY <3>2 DEF H
  <2>2. delivered' \in [Ops -> Seq(Ops)]
    BY <1>5, <2>1 DEF DeliverHeader
  <2>3. hand' \in Seq([header : Ops, target : Ops]) /\ Len(hand') <= 1
    BY <1>5 DEF DeliverHeader
  <2> QED
    BY <1>5, <2>2, <2>3 DEF DeliverHeader
<1>6. ASSUME HostWrites PROVE TypeOK'
  <2>1. hostWrites' \in 1..MaxHostWrites
    BY <1>6 DEF HostWrites
  <2>2. PICK nl \in BOOLEAN : WriteStdout(HostWrite(hostWrites + 1, nl))
    BY <1>6 DEF HostWrites
  <2>3. HostWrite(hostWrites + 1, nl) \in Writes
    BY <1>6, <2>1, WriteFacts DEF HostWrites
  <2>4. pipe' \in Seq(Writes) /\ orig' \in Seq(Writes)
    BY <2>2, <2>3, StdoutTypes
  <2> QED
    BY <1>6, <2>1, <2>4 DEF HostWrites
<1>7. ASSUME SetStdoutCapture PROVE TypeOK'
  <2>1. enabled' \in BOOLEAN
    BY <1>7, Zenon DEF SetStdoutCapture
  <2> QED
    BY <1>7, <2>1 DEF SetStdoutCapture
<1>8. CASE UNCHANGED vars
  BY <1>8 DEF vars
<1> QED
  BY <1>1, <1>2, <1>3, <1>4, <1>5, <1>6, <1>7, <1>8 DEF Next, PumpNext

\* Type correctness of the capture.
THEOREM TypeCorrect == Spec => []TypeOK
<1>1. Init => TypeOK
  <2> SUFFICES ASSUME Init PROVE TypeOK
    OBVIOUS
  <2>1. /\ <<>> \in Seq(Ops) /\ <<>> \in Seq(Writes)
        /\ <<>> \in Seq([header : Ops, target : Ops]) /\ Len(<<>>) <= 1
    OBVIOUS
  <2>2. listeners \in [Refs -> Seq(Ops)] /\ delivered \in [Ops -> Seq(Ops)]
    BY <2>1 DEF Init
  <2>3. pc \in [Ops -> OpStates] /\ hostWrites \in 0..MaxHostWrites
    BY CaptureAssumption DEF Init, OpStates
  <2> QED
    BY <2>1, <2>2, <2>3, Zenon DEF Init, TypeOK
<1> QED
  BY <1>1, TypeStep, PTL DEF Spec

-----------------------------------------------------------------------------
\* No header of o is under way.
Clean(o) ==
    /\ \A i \in DOMAIN pipe : pipe[i] # Header(o)
    /\ \A i \in DOMAIN hand : hand[i].header # o

\* The states from the sentinel's write on.
Sent == {"waiting", "unlisten", "closing", "done"}

(***************************************************************************)
(* Nothing is in the pipe before the swap; a sentinel is registered before *)
(* it is written and follows its operation's header; once it was read, or  *)
(* was never needed, no header is under way.                               *)
(***************************************************************************)
BeforeSwap      == ~started => pipe = <<>> /\ hand = <<>>
Registered      == \A o \in Ops : pc[o] = "sentinel" => started /\ o \in flushes
SentinelWritten == \A o \in Ops, i \in DOMAIN pipe : pipe[i] = Sentinel(o) => pc[o] \in Sent
HeaderFirst     == \A o \in Ops, i, j \in DOMAIN pipe :
                      pipe[i] = Sentinel(o) /\ pipe[j] = Header(o) => j < i
Answered        == \A o \in Ops : pc[o] = "waiting" /\ o \notin flushes => Clean(o)
Left            == \A o \in Ops : pc[o] \in {"unlisten", "closing", "done"} => Clean(o)

FlushInv == BeforeSwap /\ Registered /\ SentinelWritten /\ HeaderFirst /\ Answered /\ Left

\* Steps that touch neither the pipe nor the pump's hand.
LEMMA FlushQuiet ==
    ASSUME TypeOK, FlushInv, UNCHANGED <<pipe, hand>>,
           NEW o \in Ops, StartStdoutCapture(o) \/ ListenStdout(o) \/ FlushStdoutCapture(o)
                            \/ FlushReturns(o) \/ UnlistenStdout(o) \/ Finish(o)
    PROVE  FlushInv'
<1> USE DEF TypeOK, OpStates, Sent, Goto, labels
<1>1. \A p \in Ops : Clean(p)' <=> Clean(p)
  BY DEF Clean
<1>2. BeforeSwap'
  BY DEF FlushInv, BeforeSwap, StartStdoutCapture, ListenStdout, FlushStdoutCapture,
         FlushReturns, UnlistenStdout, Finish
<1>3. Registered'
  BY DEF FlushInv, Registered, StartStdoutCapture, ListenStdout, FlushStdoutCapture,
         FlushReturns, UnlistenStdout, Finish
<1>4. SentinelWritten' /\ HeaderFirst'
  BY DEF FlushInv, SentinelWritten, HeaderFirst, StartStdoutCapture, ListenStdout,
         FlushStdoutCapture, FlushReturns, UnlistenStdout, Finish
<1>5. Answered'
  BY <1>1 DEF FlushInv, Answered, StartStdoutCapture, ListenStdout, FlushStdoutCapture,
              FlushReturns, UnlistenStdout, Finish
<1>6. Left'
  <2>1. CASE FlushStdoutCapture(o)
    <3>1. ~started => Clean(o)
      BY DEF FlushInv, BeforeSwap, Clean
    <3> QED
      BY <1>1, <2>1, <3>1 DEF FlushInv, Left, FlushStdoutCapture
  <2>2. CASE FlushReturns(o)
    BY <1>1, <2>2 DEF FlushInv, Answered, Left, FlushReturns
  <2> QED
    BY <1>1, <2>1, <2>2 DEF FlushInv, Left, StartStdoutCapture, ListenStdout,
                            UnlistenStdout, Finish
<1> QED
  BY <1>2, <1>3, <1>4, <1>5, <1>6 DEF FlushInv

\* A write into the pipe of something that is no sentinel, and no header
\* unless its operation has not left yet.
LEMMA FlushWrite ==
    ASSUME TypeOK, FlushInv, started, started', NEW w \in Writes, pipe' = Append(pipe, w),
           UNCHANGED <<hand, flushes>>,
           \A p \in Ops : w # Sentinel(p),
           \A p \in Ops : w = Header(p) => pc[p] = "running" /\ pc'[p] = "printed",
           \A p \in Ops : w # Header(p) => pc'[p] = pc[p]
    PROVE  FlushInv'
<1>1. pipe \in Seq(Writes) /\ hand' = hand
  BY DEF TypeOK
<1>2. /\ DOMAIN pipe' = 1..(Len(pipe) + 1) /\ DOMAIN pipe = 1..Len(pipe) /\ Len(pipe) \in Nat
      /\ \A i \in DOMAIN pipe : pipe'[i] = pipe[i]
      /\ pipe'[Len(pipe) + 1] = w
  BY <1>1, PipeAppend
<1>3. \A p \in Ops : w # Header(p) /\ Clean(p) => Clean(p)'
  BY <1>1, <1>2 DEF Clean
<1>4. BeforeSwap' /\ Registered'
  BY DEF FlushInv, BeforeSwap, Registered
<1>5. SentinelWritten'
  BY <1>2 DEF FlushInv, SentinelWritten, Sent
<1>6. HeaderFirst'
  BY <1>2 DEF FlushInv, HeaderFirst, SentinelWritten, Sent
<1>7. Answered' /\ Left'
  BY <1>3 DEF FlushInv, Answered, Left
<1> QED
  BY <1>4, <1>5, <1>6, <1>7 DEF FlushInv

\* The sentinel goes behind everything its operation has printed.
LEMMA FlushSentinel ==
    ASSUME TypeOK, FlushInv, NEW o \in Ops, WriteSentinel(o)
    PROVE  FlushInv'
<1> USE DEF WriteSentinel, Goto, labels, pumpVars
<1>1. pipe \in Seq(Writes) /\ hand' = hand /\ pc \in [Ops -> OpStates]
  BY DEF TypeOK
<1>2. /\ DOMAIN pipe' = 1..(Len(pipe) + 1) /\ DOMAIN pipe = 1..Len(pipe) /\ Len(pipe) \in Nat
      /\ \A i \in DOMAIN pipe : pipe'[i] = pipe[i]
      /\ pipe'[Len(pipe) + 1] = Sentinel(o)
  BY <1>1, PipeAppend, WriteFacts
<1>3. \A p \in Ops : Clean(p) => Clean(p)'
  BY <1>1, <1>2, WriteFacts DEF Clean
<1>4. BeforeSwap' /\ Registered'
  BY <1>1 DEF FlushInv, BeforeSwap, Registered
<1>5. SentinelWritten'
  <2>1. \A p \in Ops : Sentinel(p) = Sentinel(o) => p = o
    BY DEF Sentinel
  <2> QED
    BY <1>1, <1>2, <2>1 DEF FlushInv, SentinelWritten, Sent
<1>6. HeaderFirst'
  BY <1>2, WriteFacts DEF FlushInv, HeaderFirst
<1>7. Answered' /\ Left'
  BY <1>1, <1>3 DEF FlushInv, Registered, Answered, Left
<1> QED
  BY <1>4, <1>5, <1>6, <1>7 DEF FlushInv

\* The pump reads k writes: what it takes out of the pipe makes no operation's
\* header come back, and a waiter it releases has none under way.
LEMMA FlushRead ==
    ASSUME FlushInv, NEW k \in Nat, pipe # <<>>, UNCHANGED <<pc, started>>,
           \A i \in DOMAIN pipe' : i \in Nat /\ i + k \in DOMAIN pipe /\ pipe'[i] = pipe[i + k],
           \A p \in Ops : Clean(p) => Clean(p)',
           \A p \in Ops : p \in flushes /\ p \notin flushes' =>
                             pc[p] # "sentinel" /\ Clean(p)'
    PROVE  FlushInv'
<1>1. BeforeSwap'
  BY DEF FlushInv, BeforeSwap
<1>2. Registered'
  BY DEF FlushInv, Registered
<1>3. SentinelWritten'
  BY DEF FlushInv, SentinelWritten
<1>4. HeaderFirst'
  <2> SUFFICES ASSUME NEW o \in Ops, NEW i \in DOMAIN pipe', NEW j \in DOMAIN pipe',
                      pipe'[i] = Sentinel(o), pipe'[j] = Header(o)
               PROVE  j < i
    BY DEF HeaderFirst, Header, Sentinel
  <2>1. j + k < i + k
    BY DEF FlushInv, HeaderFirst
  <2> QED
    BY <2>1
<1>5. Answered'
  BY DEF FlushInv, Answered
<1>6. Left'
  BY DEF FlushInv, Left
<1> QED
  BY <1>1, <1>2, <1>3, <1>4, <1>5, <1>6 DEF FlushInv

\* A sentinel at the head of the pipe has no header of its operation behind it.
LEMMA FlushRouteSentinel ==
    ASSUME TypeOK, FlushInv, NEW k \in DOMAIN pipe, RouteSentinel(k)
    PROVE  FlushInv'
<1>1. /\ pipe \in Seq(Writes) /\ k = 1 /\ pipe' = Tail(pipe) /\ hand = <<>> /\ hand' = hand
      /\ pipe[1].type = "sentinel" /\ flushes' = flushes \ {pipe[1].id}
      /\ UNCHANGED <<pc, started>>
  BY DEF TypeOK, RouteSentinel, LineReady, pumpVars
<1>2. \A i \in DOMAIN pipe' : i \in Nat /\ i # 0 /\ i + 1 \in DOMAIN pipe /\ pipe'[i] = pipe[i + 1]
  BY <1>1, PipeTail, LenProperties
<1>3. pipe # <<>> /\ 1 \in DOMAIN pipe /\ pipe[1] \in Writes
  BY <1>1, ElementOfSeq, LenProperties
<1>4. PICK o \in Ops : o = pipe[1].id /\ pipe[1] = Sentinel(o)
  BY <1>1, <1>3, WriteFacts
<1>5. pc[o] # "sentinel"
  BY <1>3, <1>4 DEF FlushInv, SentinelWritten, Sent
<1>6. \A i \in DOMAIN pipe' : pipe'[i] # Header(o)
  <2> SUFFICES ASSUME NEW i \in DOMAIN pipe', pipe'[i] = Header(o) PROVE FALSE
    OBVIOUS
  <2>1. i \in Nat /\ i # 0 /\ i + 1 \in DOMAIN pipe /\ pipe[i + 1] = Header(o)
    BY <1>2
  <2>2. i + 1 < 1
    BY <1>3, <1>4, <2>1 DEF FlushInv, HeaderFirst
  <2> QED
    BY <2>1, <2>2
<1>7. Clean(o)'
  <2>1. \A i \in DOMAIN hand' : hand'[i].header # o
    BY <1>1
  <2> QED
    BY <1>6, <2>1 DEF Clean
<1>8. \A p \in Ops : Clean(p) => Clean(p)'
  BY <1>1, <1>2 DEF Clean
<1>9. \A p \in Ops : p \in flushes /\ p \notin flushes' => pc[p] # "sentinel" /\ Clean(p)'
  BY <1>1, <1>4, <1>5, <1>7
<1> QED
  BY <1>1, <1>2, <1>3, <1>8, <1>9, FlushRead

\* The header the pump takes in hand was in the pipe.
LEMMA FlushRouteHeader ==
    ASSUME TypeOK, FlushInv, NEW k \in DOMAIN pipe, RouteHeader(k)
    PROVE  FlushInv'
<1>1. /\ pipe \in Seq(Writes) /\ k = 1 /\ pipe' = Tail(pipe) /\ pipe[1].type = "header"
      /\ UNCHANGED <<pc, started, flushes>>
  BY DEF TypeOK, RouteHeader, LineReady
<1>2. \A i \in DOMAIN pipe' : i \in Nat /\ i + 1 \in DOMAIN pipe /\ pipe'[i] = pipe[i + 1]
  BY <1>1, PipeTail, LenProperties
<1>3. pipe # <<>> /\ 1 \in DOMAIN pipe /\ pipe[1] \in Writes
  BY <1>1, ElementOfSeq, LenProperties
<1>4. pipe[1].id \in Ops /\ pipe[1] = Header(pipe[1].id)
  BY <1>1, <1>3, WriteFacts
<1>5. \A i \in DOMAIN hand' : hand'[i].header = pipe[1].id
  BY DEF RouteHeader
<1>6. \A p \in Ops : Clean(p) => p # pipe[1].id
  BY <1>3, <1>4 DEF Clean
<1>7. \A p \in Ops : Clean(p) => Clean(p)'
  BY <1>2, <1>5, <1>6 DEF Clean
<1> QED
  BY <1>1, <1>2, <1>3, <1>7, FlushRead

\* A forwarded line leaves the pipe and enters nobody's hand.
LEMMA FlushForward ==
    ASSUME TypeOK, FlushInv, NEW k \in DOMAIN pipe, ForwardLine(k)
    PROVE  FlushInv'
<1>1. /\ pipe \in Seq(Writes) /\ pipe' = SubSeq(pipe, k + 1, Len(pipe)) /\ hand' = hand
      /\ UNCHANGED <<pc, started, flushes>>
  BY DEF TypeOK, ForwardLine, pumpVars
<1>2. k \in 1..Len(pipe) /\ k \in Nat /\ pipe # <<>>
  BY <1>1, LenProperties
<1>3. pipe' \in Seq(Writes)
      /\ \A i \in DOMAIN pipe' : i + k \in DOMAIN pipe /\ pipe'[i] = pipe[i + k]
  BY <1>1, <1>2, PipeRead
<1>4. \A i \in DOMAIN pipe' : i \in Nat
  BY <1>3, LenProperties
<1>5. \A p \in Ops : Clean(p) => Clean(p)'
  BY <1>1, <1>3 DEF Clean
<1> QED
  BY <1>1, <1>2, <1>3, <1>4, <1>5, FlushRead

\* A write that goes to the original stdout, before the swap.
LEMMA FlushDirect ==
    ASSUME FlushInv, UNCHANGED <<pipe, hand, flushes, started>>,
           \A p \in Ops : pc'[p] = pc[p] \/ (pc'[p] = "printed" /\ pc[p] = "running")
    PROVE  FlushInv'
<1>1. \A p \in Ops : Clean(p)' <=> Clean(p)
  BY DEF Clean
<1> QED
  BY <1>1 DEF FlushInv, BeforeSwap, Registered, SentinelWritten, HeaderFirst, Answered, Left, Sent

\* Every step keeps the invariant of the flush.
LEMMA FlushStep == TypeOK /\ FlushInv /\ [Next]_vars => FlushInv'
<1> SUFFICES ASSUME TypeOK, FlushInv, [Next]_vars PROVE FlushInv'
  OBVIOUS
<1>1. ASSUME NEW o \in Ops, OpNext(o) PROVE FlushInv'
  <2>1. CASE StartStdoutCapture(o) \/ ListenStdout(o) \/ FlushStdoutCapture(o)
               \/ FlushReturns(o) \/ UnlistenStdout(o) \/ Finish(o)
    <3>1. UNCHANGED <<pipe, hand>>
      BY <2>1 DEF StartStdoutCapture, ListenStdout, FlushStdoutCapture, FlushReturns,
                  UnlistenStdout, Finish, pumpVars
    <3> QED
      BY <2>1, <3>1, FlushQuiet
  <2>2. CASE PrintHeader(o)
    <3>1. /\ pc[o] = "running" /\ pc'[o] = "printed"
          /\ \A p \in Ops : p # o => pc'[p] = pc[p]
          /\ UNCHANGED <<hand, flushes, started>>
      BY <2>2 DEF PrintHeader, Goto, TypeOK, pumpVars
    <3>2. WriteStdout(Header(o))
      BY <2>2 DEF PrintHeader
    <3>3. CASE started
      <4>1. pipe' = Append(pipe, Header(o)) /\ started'
        BY <3>1, <3>2, <3>3 DEF WriteStdout
      <4>2. /\ Header(o) \in Writes
            /\ \A p \in Ops : Header(o) # Sentinel(p)
            /\ \A p \in Ops : Header(o) = Header(p) => p = o
        BY WriteFacts
      <4>3. /\ \A p \in Ops : Header(o) = Header(p) => pc[p] = "running" /\ pc'[p] = "printed"
            /\ \A p \in Ops : Header(o) # Header(p) => pc'[p] = pc[p]
        BY <3>1, <4>2
      <4> QED
        BY <3>1, <3>3, <4>1, <4>2, <4>3, FlushWrite
    <3>4. CASE ~started
      <4>1. UNCHANGED pipe
        BY <3>2, <3>4 DEF WriteStdout
      <4> QED
        BY <3>1, <4>1, FlushDirect
    <3> QED
      BY <3>3, <3>4
  <2>3. CASE WriteSentinel(o)
    BY <2>3, FlushSentinel
  <2> QED
    BY <1>1, <2>1, <2>2, <2>3 DEF OpNext
<1>2. ASSUME NEW k \in DOMAIN pipe, RouteSentinel(k) \/ RouteHeader(k) \/ ForwardLine(k)
      PROVE  FlushInv'
  BY <1>2, FlushRouteSentinel, FlushRouteHeader, FlushForward
<1>3. ASSUME DeliverHeader PROVE FlushInv'
  <2>1. hand' = <<>> /\ UNCHANGED <<pc, pipe, started, flushes>>
    BY <1>3 DEF DeliverHeader
  <2>2. \A p \in Ops : Clean(p) => Clean(p)'
    BY <2>1 DEF Clean
  <2> QED
    BY <2>1, <2>2 DEF FlushInv, BeforeSwap, Registered, SentinelWritten, HeaderFirst, Answered,
                      Left
<1>4. ASSUME HostWrites PROVE FlushInv'
  <2>1. PICK nl \in BOOLEAN : WriteStdout(HostWrite(hostWrites + 1, nl))
    BY <1>4 DEF HostWrites
  <2>2. UNCHANGED <<pc, hand, flushes, started>>
    BY <1>4 DEF HostWrites, pumpVars
  <2> DEFINE w == HostWrite(hostWrites + 1, nl)
  <2>3. w \in Writes
    <3>1. hostWrites + 1 \in 1..MaxHostWrites
      BY <1>4, CaptureAssumption DEF HostWrites, TypeOK
    <3> QED
      BY <3>1, WriteFacts
  <2>4. \A p \in Ops : w # Header(p) /\ w # Sentinel(p)
    BY WriteFacts
  <2>5. CASE started
    <3>1. pipe' = Append(pipe, w) /\ started'
      BY <2>1, <2>2, <2>5 DEF WriteStdout
    <3> HIDE DEF w
    <3> QED
      BY <2>2, <2>3, <2>4, <2>5, <3>1, FlushWrite
  <2>6. CASE ~started
    <3>1. UNCHANGED pipe
      BY <2>1, <2>6 DEF WriteStdout
    <3> QED
      BY <2>2, <3>1, FlushDirect
  <2> QED
    BY <2>5, <2>6
<1>5. ASSUME SetStdoutCapture PROVE FlushInv'
  BY <1>5, FlushDirect DEF SetStdoutCapture, pumpVars
<1>6. CASE UNCHANGED vars
  BY <1>6, FlushDirect DEF vars
<1> QED
  BY <1>1, <1>2, <1>3, <1>4, <1>5, <1>6 DEF Next, PumpNext

\* An operation that has left flushStdoutCapture has no header in the pipe or
\* in the pump's hand, whatever the host writes and however many operations
\* share the pipe.
THEOREM FlushRouted == Spec => []FlushedMeansRouted
<1>1. Init => FlushInv
  BY DEF Init, FlushInv, BeforeSwap, Registered, SentinelWritten, HeaderFirst, Answered, Left, Clean
<1>2. FlushInv => FlushedMeansRouted
  BY DEF FlushInv, Left, Clean, FlushedMeansRouted
<1> QED
  BY <1>1, <1>2, TypeCorrect, FlushStep, PTL DEF Spec

-----------------------------------------------------------------------------
(***************************************************************************)
(* The host's output.  What is on the original stdout and then what is in  *)
(* the pipe holds every write of the host so far, in order (HostInv): the  *)
(* order on the original stdout alone is not inductive, because a line     *)
(* that is forwarded carries on where the last one stopped only if the     *)
(* pipe does.                                                              *)
(***************************************************************************)
Output == orig \o pipe

InOrder(s) ==
    \A j \in 1..Len(s) : s[j].type = "host" =>
        \A n \in 1..MaxHostWrites : HostAt(s, 1..(j - 1), n) <=> n < s[j].id

Complete(s, count) ==
    \A n \in 1..MaxHostWrites : HostAt(s, 1..Len(s), n) <=> n <= count

HostInv == InOrder(Output) /\ Complete(Output, hostWrites)

\* A write at the end keeps the order, if it is the host's next or not its.
LEMMA OrderAppend ==
    ASSUME NEW s \in Seq(Writes), NEW w \in Writes, NEW count \in Nat, NEW next \in Nat,
           InOrder(s), Complete(s, count),
           IF w.type = "host" THEN w.id = count + 1 /\ next = count + 1 ELSE next = count
    PROVE  InOrder(Append(s, w)) /\ Complete(Append(s, w), next)
<1> DEFINE t == Append(s, w)
<1>1. /\ Len(s) \in Nat /\ Len(t) = Len(s) + 1
      /\ \A i \in 1..Len(s) : t[i] = s[i]
      /\ t[Len(s) + 1] = w
  BY AppendProperties, LenProperties
<1> HIDE DEF t
<1>2. ASSUME NEW j \in 1..Len(t), NEW n \in 1..MaxHostWrites
      PROVE  HostAt(t, 1..(j - 1), n) <=> HostAt(s, 1..(j - 1), n)
  <2>1. \A i \in 1..(j - 1) : t[i] = s[i]
    BY <1>1
  <2> QED
    BY <2>1 DEF HostAt
<1>3. InOrder(t)
  <2> SUFFICES ASSUME NEW j \in 1..Len(t), t[j].type = "host", NEW n \in 1..MaxHostWrites
               PROVE  HostAt(t, 1..(j - 1), n) <=> n < t[j].id
    BY DEF InOrder
  <2>1. CASE j \in 1..Len(s)
    BY <1>1, <1>2, <2>1 DEF InOrder
  <2>2. CASE j = Len(s) + 1
    <3>1. HostAt(s, 1..(j - 1), n) <=> n <= count
      BY <1>1, <2>2 DEF Complete
    <3>2. t[j].id = count + 1
      BY <1>1, <2>2
    <3> QED
      BY <1>2, <3>1, <3>2, CaptureAssumption
  <2> QED
    BY <1>1, <2>1, <2>2
<1>4. Complete(t, next)
  <2> SUFFICES ASSUME NEW n \in 1..MaxHostWrites
               PROVE  HostAt(t, 1..Len(t), n) <=> n <= next
    BY DEF Complete
  <2>1. HostAt(t, 1..Len(t), n) <=> HostAt(s, 1..Len(s), n) \/ (w.type = "host" /\ w.id = n)
    BY <1>1 DEF HostAt
  <2>2. HostAt(s, 1..Len(s), n) <=> n <= count
    BY DEF Complete
  <2> QED
    BY <2>1, <2>2, CaptureAssumption
<1> QED
  BY <1>3, <1>4 DEF t

\* Taking out what is not the host's keeps the order.
LEMMA OrderRemove ==
    ASSUME NEW s \in Seq(Writes), NEW t \in Seq(Writes), NEW p \in 1..Len(s), NEW count \in Nat,
           InOrder(s), Complete(s, count), s[p].type # "host",
           Len(t) = Len(s) - 1,
           \A i \in 1..Len(t) : t[i] = IF i < p THEN s[i] ELSE s[i + 1]
    PROVE  InOrder(t) /\ Complete(t, count)
<1> DEFINE up(i) == IF i < p THEN i ELSE i + 1
<1>1. Len(s) \in Nat /\ Len(t) \in Nat
  BY LenProperties
<1>2. ASSUME NEW j \in 1..(Len(t) + 1), NEW n \in 1..MaxHostWrites
      PROVE  HostAt(t, 1..(j - 1), n) <=> HostAt(s, 1..(up(j) - 1), n)
  <2>1. ASSUME NEW i \in 1..(j - 1), t[i].type = "host", t[i].id = n
        PROVE  HostAt(s, 1..(up(j) - 1), n)
    <3>0. i \in 1..Len(t) /\ i \in Nat /\ p \in Nat
      BY <1>1
    <3>1. up(i) \in 1..(up(j) - 1) /\ s[up(i)] = t[i]
      <4>1. up(i) \in 1..(up(j) - 1)
        BY <1>1, <3>0
      <4>2. s[up(i)] = t[i]
        BY <3>0
      <4> QED
        BY <4>1, <4>2
    <3> QED
      BY <2>1, <3>1 DEF HostAt
  <2>2. ASSUME NEW i \in 1..(up(j) - 1), s[i].type = "host", s[i].id = n
        PROVE  HostAt(t, 1..(j - 1), n)
    <3>1. i # p
      BY <2>2
    <3>2. CASE i < p
      <4>0. i \in 1..(j - 1)
        BY <1>1, <3>2
      <4>1. i \in 1..(j - 1) /\ t[i] = s[i]
        BY <1>1, <3>2, <4>0
      <4> QED
        BY <2>2, <4>1 DEF HostAt
    <3>3. CASE i > p
      <4>1. i - 1 \in 1..(j - 1) /\ t[i - 1] = s[i]
        BY <1>1, <3>3
      <4> QED
        BY <2>2, <4>1 DEF HostAt
    <3> QED
      BY <1>1, <3>1, <3>2, <3>3
  <2> QED
    BY <2>1, <2>2 DEF HostAt
<1>3. InOrder(t)
  <2> SUFFICES ASSUME NEW j \in 1..Len(t), t[j].type = "host", NEW n \in 1..MaxHostWrites
               PROVE  HostAt(t, 1..(j - 1), n) <=> n < t[j].id
    BY DEF InOrder
  <2>1. up(j) \in 1..Len(s) /\ s[up(j)] = t[j]
    BY <1>1
  <2>2. HostAt(s, 1..(up(j) - 1), n) <=> n < t[j].id
    BY <2>1 DEF InOrder
  <2>3. HostAt(t, 1..(j - 1), n) <=> HostAt(s, 1..(up(j) - 1), n)
    BY <1>1, <1>2
  <2> QED
    BY <2>2, <2>3
<1>4. Complete(t, count)
  <2> SUFFICES ASSUME NEW n \in 1..MaxHostWrites
               PROVE  HostAt(t, 1..Len(t), n) <=> n <= count
    BY DEF Complete
  <2>1. up(Len(t) + 1) - 1 = Len(s) /\ Len(t) + 1 \in 1..(Len(t) + 1) /\ Len(t) + 1 - 1 = Len(t)
    BY <1>1
  <2>2. HostAt(t, 1..Len(t), n) <=> HostAt(s, 1..Len(s), n)
    <3>0. PICK j \in 1..(Len(t) + 1) : j = Len(t) + 1
      BY <2>1
    <3> HIDE DEF up
    <3>1. HostAt(t, 1..(Len(t) + 1 - 1), n) <=> HostAt(s, 1..(up(Len(t) + 1) - 1), n)
      <4>1. HostAt(t, 1..(j - 1), n) <=> HostAt(s, 1..(up(j) - 1), n)
        BY <1>2
      <4> QED
        BY <3>0, <4>1
    <3> QED
      BY <2>1, <3>1, Zenon
  <2> QED
    BY <2>2 DEF Complete
<1> QED
  BY <1>3, <1>4

\* Dropping the first element of the second of two sequences.
LEMMA ConcatTail ==
    ASSUME NEW S, NEW s \in Seq(S), NEW t \in Seq(S), t # <<>>
    PROVE  LET p == Len(s) + 1
               u == s \o Tail(t)
               v == s \o t
           IN  /\ u \in Seq(S) /\ Len(u) = Len(v) - 1
               /\ p \in 1..Len(v) /\ v[p] = t[1]
               /\ \A i \in 1..Len(u) : u[i] = IF i < p THEN v[i] ELSE v[i + 1]
<1> DEFINE p == Len(s) + 1
           r == Tail(t)
           u == s \o r
           v == s \o t
<1>1. /\ r \in Seq(S) /\ Len(r) = Len(t) - 1
      /\ \A i \in 1..Len(r) : r[i] = t[i + 1]
  BY HeadTailProperties
<1>2. Len(s) \in Nat /\ Len(t) \in Nat /\ Len(t) # 0
  BY LenProperties, EmptySeq
<1>3. /\ Len(v) = Len(s) + Len(t)
      /\ \A i \in 1..(Len(s) + Len(t)) : v[i] = IF i <= Len(s) THEN s[i] ELSE t[i - Len(s)]
  BY ConcatProperties
<1> HIDE DEF r
<1>4. /\ u \in Seq(S) /\ Len(u) = Len(s) + Len(r)
      /\ \A i \in 1..(Len(s) + Len(r)) : u[i] = IF i <= Len(s) THEN s[i] ELSE r[i - Len(s)]
  BY <1>1, ConcatProperties
<1> HIDE DEF u, v
<1>5. Len(u) = Len(v) - 1 /\ p \in 1..Len(v) /\ v[p] = t[1]
  BY <1>1, <1>2, <1>3, <1>4
<1>6. ASSUME NEW i \in 1..Len(u) PROVE u[i] = IF i < p THEN v[i] ELSE v[i + 1]
  <2>1. CASE i <= Len(s)
    BY <1>2, <1>3, <1>4, <1>5, <2>1
  <2>2. CASE i > Len(s)
    <3>1. i - Len(s) \in 1..Len(r) /\ u[i] = r[i - Len(s)]
      BY <1>1, <1>2, <1>4, <2>2
    <3>2. i + 1 \in 1..(Len(s) + Len(t)) /\ v[i + 1] = t[i + 1 - Len(s)]
      BY <1>1, <1>2, <1>3, <1>4, <2>2
    <3>3. PICK m \in 1..Len(r) : m = i - Len(s)
      BY <3>1
    <3>4. r[m] = t[m + 1]
      BY <1>1
    <3>5. m + 1 = i + 1 - Len(s)
      BY <1>2, <3>3
    <3> QED
      BY <1>2, <2>2, <3>1, <3>2, <3>3, <3>4, <3>5
  <2> QED
    BY <1>2, <2>1, <2>2
<1> QED
  BY <1>4, <1>5, <1>6 DEF u, v, r

\* Moving the first k elements of a sequence to the end of the one before it.
LEMMA ConcatSplit ==
    ASSUME NEW S, NEW s \in Seq(S), NEW t \in Seq(S), NEW k \in 1..Len(t)
    PROVE  (s \o SubSeq(t, 1, k)) \o SubSeq(t, k + 1, Len(t)) = s \o t
<1>1. Len(t) \in Nat
  BY LenProperties
<1>2. \A i \in 1..Len(t) : t[i] \in S
  BY ElementOfSeq
<1>3. SubSeq(t, 1, k) \in Seq(S)
  <2>1. \A i \in 1..k : t[i] \in S
    BY <1>1, <1>2
  <2> QED
    BY <1>1, <2>1, SubSeqProperties
<1>4. SubSeq(t, k + 1, Len(t)) \in Seq(S)
  <2>1. \A i \in (k + 1)..Len(t) : t[i] \in S
    BY <1>1, <1>2
  <2>2. k + 1 \in Int /\ Len(t) \in Int
    BY <1>1
  <2> QED
    BY <2>1, <2>2, SubSeqProperties
<1>5. SubSeq(t, 1, k) \o SubSeq(t, k + 1, Len(t)) = SubSeq(t, 1, Len(t))
  <2>1. 1 \in 1..(Len(t) + 1) /\ k \in (1 - 1)..Len(t) /\ Len(t) \in k..Len(t)
    BY <1>1
  <2> QED
    BY <2>1, ConcatAdjacentSubSeq, Zenon
<1>6. SubSeq(t, 1, Len(t)) = t
  BY SubSeqFull
<1>7. PICK a \in Seq(S) : a = SubSeq(t, 1, k)
  BY <1>3
<1>8. PICK b \in Seq(S) : b = SubSeq(t, k + 1, Len(t))
  BY <1>4
<1>9. (s \o a) \o b = s \o (a \o b)
  OBVIOUS
<1> QED
  BY <1>5, <1>6, <1>7, <1>8, <1>9

\* A write to os.Stdout goes to the end of the output, before the swap because
\* the pipe is empty then.
LEMMA OutputWrite ==
    ASSUME TypeOK, BeforeSwap, NEW w \in Writes, WriteStdout(w)
    PROVE  Output' = Append(Output, w)
<1>1. orig \in Seq(Writes) /\ pipe \in Seq(Writes) /\ <<w>> \in Seq(Writes)
  BY DEF TypeOK
<1>2. CASE started /\ pipe' = Append(pipe, w) /\ UNCHANGED orig
  <2>1. pipe' = pipe \o <<w>>
    BY <1>1, <1>2, AppendIsConcat
  <2>2. orig \o (pipe \o <<w>>) = (orig \o pipe) \o <<w>>
    BY <1>1, ConcatAssociative
  <2>3. Append(orig \o pipe, w) = (orig \o pipe) \o <<w>>
    BY <1>1, ConcatProperties, AppendIsConcat
  <2> QED
    BY <1>2, <2>1, <2>2, <2>3 DEF Output
<1>3. CASE ~started /\ orig' = Append(orig, w) /\ UNCHANGED pipe
  <2>1. pipe = <<>> /\ pipe' = <<>>
    BY <1>3 DEF BeforeSwap
  <2>2. Append(orig, w) \in Seq(Writes)
    BY <1>1, AppendProperties
  <2> QED
    BY <1>1, <1>3, <2>1, <2>2, ConcatEmptySeq DEF Output
<1> QED
  BY <1>2, <1>3 DEF WriteStdout

\* Everything but a routed sentinel or header is still in the output.
LEMMA HostStep == TypeOK /\ BeforeSwap /\ HostInv /\ [Next]_vars => HostInv'
<1> SUFFICES ASSUME TypeOK, BeforeSwap, HostInv, [Next]_vars PROVE HostInv'
  OBVIOUS
<1>1. /\ orig \in Seq(Writes) /\ pipe \in Seq(Writes) /\ Output \in Seq(Writes)
      /\ hostWrites \in Nat /\ hostWrites <= MaxHostWrites
  BY ConcatProperties DEF TypeOK, Output
<1>2. ASSUME NEW w \in Writes, w.type # "host", WriteStdout(w), UNCHANGED hostWrites
      PROVE  HostInv'
  BY <1>1, <1>2, OutputWrite, OrderAppend DEF HostInv
<1>3. ASSUME 1 \in DOMAIN pipe, pipe[1].type # "host", pipe' = Tail(pipe),
             UNCHANGED <<orig, hostWrites>>
      PROVE  HostInv'
  <2> DEFINE p == Len(orig) + 1
  <2>1. Output' = orig \o Tail(pipe)
    BY <1>3 DEF Output
  <2>2. pipe # <<>>
    BY <1>3
  <2>3. /\ Output' \in Seq(Writes) /\ Len(Output') = Len(Output) - 1
        /\ p \in 1..Len(Output) /\ Output[p] = pipe[1]
        /\ \A i \in 1..Len(Output') : Output'[i] = IF i < p THEN Output[i] ELSE Output[i + 1]
    BY <1>1, <2>1, <2>2, ConcatTail DEF Output
  <2>4. Output[p].type # "host" /\ InOrder(Output) /\ Complete(Output, hostWrites)
    BY <1>3, <2>3 DEF HostInv
  <2> HIDE DEF p
  <2>5. InOrder(Output') /\ Complete(Output', hostWrites)
    BY <1>1, <2>3, <2>4, OrderRemove
  <2> QED
    BY <1>3, <2>5 DEF HostInv
<1>4. ASSUME UNCHANGED <<orig, pipe, hostWrites>> PROVE HostInv'
  BY <1>4 DEF HostInv, Output
<1>5. ASSUME NEW o \in Ops, OpNext(o) PROVE HostInv'
  <2>1. CASE PrintHeader(o)
    <3>1. Header(o) \in Writes /\ Header(o).type # "host"
      BY WriteFacts DEF Header
    <3> QED
      BY <1>2, <2>1, <3>1 DEF PrintHeader
  <2>2. CASE WriteSentinel(o)
    <3>1. Sentinel(o) \in Writes /\ Sentinel(o).type # "host"
      BY WriteFacts DEF Sentinel
    <3>2. pipe' = Append(pipe, Sentinel(o)) /\ UNCHANGED <<orig, hostWrites>>
      BY <2>2 DEF WriteSentinel
    <3>3. Output' = Append(Output, Sentinel(o))
      <4>1. <<Sentinel(o)>> \in Seq(Writes)
        BY <3>1
      <4>2. pipe' = pipe \o <<Sentinel(o)>>
        BY <1>1, <3>1, <3>2, AppendIsConcat
      <4>3. Append(Output, Sentinel(o)) = Output \o <<Sentinel(o)>>
        BY <1>1, <3>1, AppendIsConcat
      <4>4. orig \o (pipe \o <<Sentinel(o)>>) = (orig \o pipe) \o <<Sentinel(o)>>
        BY <1>1, <4>1, ConcatAssociative
      <4> QED
        BY <3>2, <4>2, <4>3, <4>4 DEF Output
    <3> QED
      BY <1>1, <3>1, <3>2, <3>3, OrderAppend DEF HostInv
  <2>3. CASE StartStdoutCapture(o) \/ ListenStdout(o) \/ FlushStdoutCapture(o)
               \/ FlushReturns(o) \/ UnlistenStdout(o) \/ Finish(o)
    BY <1>4, <2>3 DEF StartStdoutCapture, ListenStdout, FlushStdoutCapture, FlushReturns,
                      UnlistenStdout, Finish
  <2> QED
    BY <1>5, <2>1, <2>2, <2>3 DEF OpNext
<1>6. ASSUME NEW k \in DOMAIN pipe, RouteSentinel(k) PROVE HostInv'
  BY <1>3, <1>6 DEF RouteSentinel
<1>7. ASSUME NEW k \in DOMAIN pipe, RouteHeader(k) PROVE HostInv'
  BY <1>3, <1>7 DEF RouteHeader
<1>8. ASSUME NEW k \in DOMAIN pipe, ForwardLine(k) PROVE HostInv'
  <2>1. /\ k \in 1..Len(pipe) /\ Len(pipe) \in Nat /\ UNCHANGED hostWrites
        /\ orig' = orig \o SubSeq(pipe, 1, k)
        /\ pipe' = SubSeq(pipe, k + 1, Len(pipe))
    BY <1>1, <1>8, LenProperties DEF ForwardLine
  <2>2. Output' = Output
    BY <1>1, <2>1, ConcatSplit DEF Output
  <2> QED
    BY <2>1, <2>2 DEF HostInv
<1>9. ASSUME DeliverHeader PROVE HostInv'
  BY <1>4, <1>9 DEF DeliverHeader
<1>10. ASSUME HostWrites PROVE HostInv'
  <2>1. PICK nl \in BOOLEAN : WriteStdout(HostWrite(hostWrites + 1, nl))
    BY <1>10 DEF HostWrites
  <2> DEFINE w == HostWrite(hostWrites + 1, nl)
  <2>2. w \in Writes /\ w.type = "host" /\ w.id = hostWrites + 1
    <3>1. hostWrites + 1 \in 1..MaxHostWrites
      BY <1>1, <1>10, CaptureAssumption DEF HostWrites
    <3> QED
      BY <3>1, WriteFacts DEF HostWrite
  <2>3. hostWrites' = hostWrites + 1
    BY <1>10 DEF HostWrites
  <2> HIDE DEF w
  <2>4. Output' = Append(Output, w)
    BY <2>1, <2>2, OutputWrite DEF w
  <2> QED
    BY <1>1, <2>2, <2>3, <2>4, OrderAppend DEF HostInv
<1>11. ASSUME SetStdoutCapture PROVE HostInv'
  BY <1>4, <1>11 DEF SetStdoutCapture
<1>12. CASE UNCHANGED vars
  BY <1>4, <1>12 DEF vars
<1> QED
  BY <1>5, <1>6, <1>7, <1>8, <1>9, <1>10, <1>11, <1>12 DEF Next, PumpNext

\* The original stdout shows what the host has written in order and with
\* nothing missing in between, for any number of operations whose headers and
\* sentinels the pump takes out, and across the swap.
THEOREM HostOrderKept == Spec => []HostOutputInOrder
<1>1. Init => HostInv
  <2> SUFFICES ASSUME Init PROVE HostInv
    OBVIOUS
  <2>1. Output = <<>> /\ hostWrites = 0
    BY ConcatEmptySeq DEF Init, Output
  <2> QED
    BY <2>1, CaptureAssumption DEF HostInv, InOrder, Complete, HostAt
<1>2. TypeOK /\ HostInv => HostOutputInOrder
  <2> SUFFICES ASSUME TypeOK, HostInv PROVE HostOutputInOrder
    OBVIOUS
  <2>1. /\ Len(orig) \in Nat /\ Len(pipe) \in Nat /\ DOMAIN orig = 1..Len(orig)
        /\ Len(Output) = Len(orig) + Len(pipe)
        /\ \A i \in 1..Len(orig) : Output[i] = orig[i]
    <3>1. orig \in Seq(Writes) /\ pipe \in Seq(Writes)
      BY DEF TypeOK
    <3> QED
      BY <3>1, ConcatProperties, LenProperties DEF Output
  <2>2. ASSUME NEW j \in DOMAIN orig, orig[j].type = "host", NEW n \in 1..MaxHostWrites
        PROVE  HostAt(orig, 1..(j - 1), n) <=> n < orig[j].id
    <3>1. j \in 1..Len(Output) /\ Output[j] = orig[j]
      BY <2>1
    <3>2. HostAt(Output, 1..(j - 1), n) <=> n < orig[j].id
      BY <2>2, <3>1 DEF HostInv, InOrder
    <3>3. \A i \in 1..(j - 1) : Output[i] = orig[i]
      BY <2>1
    <3> QED
      BY <3>2, <3>3 DEF HostAt
  <2> QED
    BY <2>2 DEF HostOutputInOrder
<1>3. Init => FlushInv
  BY DEF Init, FlushInv, BeforeSwap, Registered, SentinelWritten, HeaderFirst, Answered, Left, Clean
<1>4. FlushInv => BeforeSwap
  BY DEF FlushInv
<1> QED
  BY <1>1, <1>2, <1>3, <1>4, TypeCorrect, FlushStep, HostStep, PTL DEF Spec

-----------------------------------------------------------------------------
(***************************************************************************)
(* A header's way.  It is in one place at a time: in the pipe, in the      *)
(* pump's hand, or in a stream.                                            *)
(***************************************************************************)
InPipe(o)   == \E i \in DOMAIN pipe : pipe[i] = Header(o)
InHand(o)   == \E i \in DOMAIN hand : hand[i].header = o
Received(o) == \E p \in Ops : \E i \in DOMAIN delivered[p] : delivered[p][i] = o
Once(o)     == \A i, j \in DOMAIN pipe : pipe[i] = Header(o) /\ pipe[j] = Header(o) => i = j

\* Nobody else's header reads like o's.
Unique(o) == \A p \in Ops : SameBanner(o, p) => p = o

\* Only whole lines have been forwarded.
Whole == \A i \in DOMAIN orig : orig[i].newline

Listening == {"running", "printed", "sentinel", "waiting", "unlisten"}

(***************************************************************************)
(* An operation listens until it has left its flush and prints its header  *)
(* once.  The operation a header goes to has the header's text, and a      *)
(* header that is unique is lost to the original stdout only together with *)
(* a partial line.                                                         *)
(***************************************************************************)
Listed    == \A o \in Ops : pc[o] \in Listening =>
                \E i \in DOMAIN listeners[ref[o]] : listeners[ref[o]][i] = o
Unprinted == \A o \in Ops : pc[o] \in {"new", "listen", "running"} => o \notin piped
Nowhere   == \A o \in Ops \ piped : ~InPipe(o) /\ ~InHand(o) /\ ~Received(o)
OnePlace  == \A o \in Ops : /\ Once(o)
                            /\ InPipe(o) => ~InHand(o) /\ ~Received(o)
                            /\ InHand(o) => ~Received(o)
Addressed == /\ \A i \in DOMAIN hand : SameBanner(hand[i].target, hand[i].header)
             /\ \A p \in Ops : \A i \in DOMAIN delivered[p] : SameBanner(p, delivered[p][i])
NotLost   == \A o \in piped : Unique(o) /\ Whole =>
                InPipe(o) \/ InHand(o) \/ delivered[o] = <<o>>

ListenInv == Listed /\ Unprinted
PlaceInv  == Nowhere /\ OnePlace /\ Addressed /\ NotLost

\* The header's text does not change, and reads the same from both sides.
LEMMA BannerFixed ==
    /\ \A o, p : UNCHANGED <<ref, kind>> => (SameBanner(o, p)' <=> SameBanner(o, p))
    /\ \A o, p : SameBanner(o, p) => SameBanner(p, o)
    /\ \A o : SameBanner(o, o)
BY DEF SameBanner, bannerVerb

\* Taking the m-th element out of a sequence keeps the others.
LEMMA RemoveKeeps ==
    ASSUME NEW S, NEW s \in Seq(S), NEW m \in 1..Len(s), NEW i \in 1..Len(s), i # m
    PROVE  LET t == SubSeq(s, 1, m - 1) \o SubSeq(s, m + 1, Len(s))
           IN  \E j \in DOMAIN t : t[j] = s[i]
<1>1. Len(s) \in Nat /\ m \in Nat /\ i \in Nat
  BY LenProperties
<1>2. \A j \in 1..Len(s) : s[j] \in S
  BY ElementOfSeq
<1>3. PICK a : a = SubSeq(s, 1, m - 1)
  OBVIOUS
<1>4. PICK b : b = SubSeq(s, m + 1, Len(s))
  OBVIOUS
<1>5. /\ a \in Seq(S) /\ Len(a) = m - 1
      /\ \A j \in 1..(m - 1) : a[j] = s[j]
  <2>1. \A j \in 1..(m - 1) : s[j] \in S
    BY <1>1, <1>2
  <2>2. /\ a \in Seq(S) /\ Len(a) = IF 1 <= m - 1 THEN m - 1 - 1 + 1 ELSE 0
        /\ \A j \in 1..(m - 1 - 1 + 1) : a[j] = s[1 + j - 1]
    BY <1>1, <1>3, <2>1, SubSeqProperties
  <2> QED
    BY <1>1, <2>2
<1>6. /\ b \in Seq(S) /\ Len(b) = Len(s) - m
      /\ \A j \in 1..(Len(s) - m) : b[j] = s[m + j]
  <2>1. \A j \in (m + 1)..Len(s) : s[j] \in S
    BY <1>1, <1>2
  <2>2. /\ b \in Seq(S) /\ Len(b) = IF m + 1 <= Len(s) THEN Len(s) - (m + 1) + 1 ELSE 0
        /\ \A j \in 1..(Len(s) - (m + 1) + 1) : b[j] = s[m + 1 + j - 1]
    BY <1>1, <1>4, <2>1, SubSeqProperties
  <2> QED
    BY <1>1, <2>2
<1>7. PICK t : t = a \o b
  OBVIOUS
<1>8. /\ DOMAIN t = 1..(Len(a) + Len(b))
      /\ \A j \in 1..(Len(a) + Len(b)) : t[j] = IF j <= Len(a) THEN a[j] ELSE b[j - Len(a)]
  <2>1. a \in Seq(S) /\ b \in Seq(S)
    BY <1>5, <1>6
  <2>2. /\ t \in Seq(S) /\ Len(t) = Len(a) + Len(b)
        /\ \A j \in 1..(Len(a) + Len(b)) : t[j] = IF j <= Len(a) THEN a[j] ELSE b[j - Len(a)]
    BY <1>7, <2>1, ConcatProperties
  <2> QED
    BY <2>2, LenProperties
<1>9. \E j \in DOMAIN t : t[j] = s[i]
  <2>1. CASE i < m
    <3>1. i \in 1..(m - 1) /\ i \in 1..(Len(a) + Len(b)) /\ i <= Len(a)
      BY <1>1, <1>5, <1>6, <2>1
    <3> QED
      BY <1>5, <1>8, <3>1
  <2>2. CASE i > m
    <3>1. i - m \in 1..(Len(s) - m) /\ m + (i - m) = i
      BY <1>1, <2>2
    <3>2. b[i - m] = s[i]
      BY <1>6, <3>1
    <3>3. /\ i - 1 \in 1..(Len(a) + Len(b)) /\ ~(i - 1 <= Len(a))
          /\ i - 1 - Len(a) = i - m
      BY <1>1, <1>5, <1>6, <2>2
    <3>4. t[i - 1] = b[i - 1 - Len(a)]
      BY <1>8, <3>3
    <3> QED
      BY <1>8, <3>2, <3>3, <3>4
  <2> QED
    BY <1>1, <2>1, <2>2
<1> QED
  BY <1>3, <1>4, <1>7, <1>9

\* ListenStdout adds its operation to the listeners and UnlistenStdout takes
\* out one entry, its own.
LEMMA ListenStep == TypeOK /\ ListenInv /\ [Next]_vars => ListenInv'
<1> SUFFICES ASSUME TypeOK, ListenInv, [Next]_vars PROVE ListenInv'
  OBVIOUS
<1> USE DEF TypeOK, OpStates, Goto, labels, Listening
<1>1. ASSUME UNCHANGED <<pc, ref, listeners, piped>> PROVE ListenInv'
  BY <1>1 DEF ListenInv, Listed, Unprinted
<1>2. ASSUME NEW o \in Ops, OpNext(o) PROVE ListenInv'
  <2>1. CASE ListenStdout(o)
    <3>1. ref' = ref /\ piped' = piped /\ ref[o] \in Refs
      BY <2>1 DEF ListenStdout
    <3> DEFINE ops == listeners[ref[o]]
    <3>2. ops \in Seq(Ops)
      OBVIOUS
    <3>3. /\ listeners'[ref[o]] = Append(ops, o)
          /\ \A r \in Refs : r # ref[o] => listeners'[r] = listeners[r]
      BY <2>1, <3>1 DEF ListenStdout
    <3> HIDE DEF ops
    <3>4. /\ Len(ops) \in Nat /\ DOMAIN ops = 1..Len(ops)
          /\ DOMAIN Append(ops, o) = 1..(Len(ops) + 1)
          /\ Append(ops, o)[Len(ops) + 1] = o
          /\ \A i \in 1..Len(ops) : Append(ops, o)[i] = ops[i]
      BY <3>2, AppendProperties, LenProperties
    <3>5. Listed'
      <4> SUFFICES ASSUME NEW p \in Ops, pc'[p] \in Listening
                   PROVE  \E i \in DOMAIN listeners'[ref[p]] : listeners'[ref[p]][i] = p
        BY <3>1 DEF Listed
      <4>1. CASE p = o
        BY <3>3, <3>4, <4>1
      <4>2. CASE p # o
        <5>1. PICK i \in DOMAIN listeners[ref[p]] : listeners[ref[p]][i] = p
          BY <2>1, <4>2 DEF ListenStdout, ListenInv, Listed
        <5>2. CASE ref[p] = ref[o]
          <6>1. i \in 1..Len(ops) /\ ops[i] = p
            BY <3>4, <5>1, <5>2 DEF ops
          <6>2. i \in DOMAIN Append(ops, o) /\ Append(ops, o)[i] = p
            BY <3>4, <6>1
          <6> QED
            BY <3>3, <5>2, <6>2
        <5>3. CASE ref[p] # ref[o]
          BY <3>3, <5>1, <5>3
        <5> QED
          BY <5>2, <5>3
      <4> QED
        BY <4>1, <4>2
    <3>6. Unprinted'
      BY <2>1, <3>1 DEF ListenStdout, ListenInv, Unprinted
    <3> QED
      BY <3>5, <3>6 DEF ListenInv
  <2>2. CASE UnlistenStdout(o)
    <3>1. ref' = ref /\ piped' = piped /\ ref[o] \in Refs
      BY <2>2 DEF UnlistenStdout
    <3> DEFINE ops == listeners[ref[o]]
    <3>2. PICK m \in DOMAIN ops :
             /\ ops[m] = o
             /\ listeners' = [listeners EXCEPT ![ref[o]] =
                                 SubSeq(@, 1, m - 1) \o SubSeq(@, m + 1, Len(@))]
      BY <2>2 DEF UnlistenStdout
    <3> DEFINE left == SubSeq(ops, 1, m - 1) \o SubSeq(ops, m + 1, Len(ops))
    <3>3. /\ listeners'[ref[o]] = left
          /\ \A r \in Refs : r # ref[o] => listeners'[r] = listeners[r]
      BY <3>1, <3>2
    <3>4. ops \in Seq(Ops)
      OBVIOUS
    <3> HIDE DEF ops, left
    <3>5. \A i \in DOMAIN ops : i # m => \E j \in DOMAIN left : left[j] = ops[i]
      <4>1. DOMAIN ops = 1..Len(ops)
        BY <3>4, LenProperties
      <4> SUFFICES ASSUME NEW i \in 1..Len(ops), i # m
                   PROVE  \E j \in DOMAIN left : left[j] = ops[i]
        BY <4>1
      <4>2. m \in 1..Len(ops)
        BY <3>2, <4>1
      <4> QED
        BY <3>4, <4>2, RemoveKeeps DEF left
    <3>6. Listed'
      <4> SUFFICES ASSUME NEW p \in Ops, pc'[p] \in Listening
                   PROVE  \E i \in DOMAIN listeners'[ref[p]] : listeners'[ref[p]][i] = p
        BY <3>1 DEF Listed
      <4>1. p # o /\ pc[p] \in Listening
        BY <2>2 DEF UnlistenStdout
      <4>2. PICK i \in DOMAIN listeners[ref[p]] : listeners[ref[p]][i] = p
        BY <4>1 DEF ListenInv, Listed
      <4>3. CASE ref[p] = ref[o]
        <5>1. i \in DOMAIN ops /\ ops[i] = p /\ i # m
          BY <3>2, <4>1, <4>2, <4>3 DEF ops
        <5> QED
          BY <3>3, <3>5, <4>3, <5>1
      <4>4. CASE ref[p] # ref[o]
        BY <3>3, <4>2, <4>4
      <4> QED
        BY <4>3, <4>4
    <3>7. Unprinted'
      BY <2>2, <3>1 DEF UnlistenStdout, ListenInv, Unprinted
    <3> QED
      BY <3>6, <3>7 DEF ListenInv
  <2>3. CASE StartStdoutCapture(o) \/ FlushStdoutCapture(o) \/ WriteSentinel(o)
               \/ FlushReturns(o) \/ Finish(o) \/ PrintHeader(o)
    <3>1. ref' = ref /\ listeners' = listeners
      BY <2>3 DEF StartStdoutCapture, FlushStdoutCapture, WriteSentinel, FlushReturns, Finish,
                  PrintHeader
    <3>2. \A p \in Ops : pc'[p] \in Listening => pc[p] \in Listening
      BY <2>3 DEF StartStdoutCapture, FlushStdoutCapture, WriteSentinel, FlushReturns, Finish,
                  PrintHeader
    <3>3. Unprinted'
      BY <2>3 DEF StartStdoutCapture, FlushStdoutCapture, WriteSentinel, FlushReturns, Finish,
                  PrintHeader, ListenInv, Unprinted
    <3> QED
      BY <3>1, <3>2, <3>3 DEF ListenInv, Listed
  <2> QED
    BY <1>2, <2>1, <2>2, <2>3 DEF OpNext
<1>3. ASSUME NEW k \in DOMAIN pipe, RouteSentinel(k) \/ RouteHeader(k) \/ ForwardLine(k)
      PROVE  ListenInv'
  BY <1>1, <1>3 DEF RouteSentinel, RouteHeader, ForwardLine
<1>4. ASSUME DeliverHeader \/ HostWrites \/ SetStdoutCapture PROVE ListenInv'
  BY <1>1, <1>4 DEF DeliverHeader, HostWrites, SetStdoutCapture
<1>5. CASE UNCHANGED vars
  BY <1>1, <1>5 DEF vars
<1> QED
  BY <1>2, <1>3, <1>4, <1>5 DEF Next, PumpNext

\* Steps that leave every header where it is.
LEMMA PlaceKept ==
    ASSUME TypeOK, PlaceInv, UNCHANGED <<ref, kind, hand, delivered, piped>>,
           \A o \in Ops : InPipe(o)' <=> InPipe(o),
           \A o \in Ops : Once(o) => Once(o)',
           Whole' => Whole
    PROVE  PlaceInv'
<1>1. \A o : InHand(o)' <=> InHand(o)
  BY DEF InHand
<1>2. \A o : Received(o)' <=> Received(o)
  BY DEF Received
<1>3. \A o : Unique(o)' <=> Unique(o)
  BY BannerFixed DEF Unique
<1>4. Nowhere' /\ OnePlace'
  BY <1>1, <1>2 DEF PlaceInv, Nowhere, OnePlace
<1>5. Addressed'
  BY BannerFixed DEF PlaceInv, Addressed
<1>6. NotLost'
  BY <1>1, <1>3 DEF TypeOK, PlaceInv, NotLost
<1> QED
  BY <1>4, <1>5, <1>6 DEF PlaceInv

\* A write of something that is no header.
LEMMA PlaceWrite ==
    ASSUME TypeOK, PlaceInv, UNCHANGED <<ref, kind, hand, delivered, piped>>,
           NEW w \in Writes, \A o \in Ops : w # Header(o),
           \/ pipe' = Append(pipe, w) /\ UNCHANGED orig
           \/ orig' = Append(orig, w) /\ UNCHANGED pipe
    PROVE  PlaceInv'
<1>1. CASE pipe' = Append(pipe, w) /\ UNCHANGED orig
  <2>1. /\ DOMAIN pipe' = 1..(Len(pipe) + 1) /\ DOMAIN pipe = 1..Len(pipe) /\ Len(pipe) \in Nat
        /\ \A i \in DOMAIN pipe : pipe'[i] = pipe[i]
        /\ pipe'[Len(pipe) + 1] = w
    BY <1>1, PipeAppend DEF TypeOK
  <2>2. \A o \in Ops : InPipe(o)' <=> InPipe(o)
    BY <2>1 DEF InPipe
  <2>3. \A o \in Ops : Once(o) => Once(o)'
    BY <2>1 DEF Once
  <2>4. Whole' <=> Whole
    BY <1>1 DEF Whole
  <2> QED
    BY <2>2, <2>3, <2>4, PlaceKept
<1>2. CASE orig' = Append(orig, w) /\ UNCHANGED pipe
  <2>1. \A o : (InPipe(o)' <=> InPipe(o)) /\ (Once(o)' <=> Once(o))
    BY <1>2 DEF InPipe, Once
  <2>2. Whole' => Whole
    <3>1. orig \in Seq(Writes)
      BY DEF TypeOK
    <3>2. /\ DOMAIN orig \subseteq DOMAIN orig'
          /\ \A i \in DOMAIN orig : orig'[i] = orig[i]
      BY <1>2, <3>1, AppendProperties, LenProperties
    <3> QED
      BY <3>2 DEF Whole
  <2> QED
    BY <2>1, <2>2, PlaceKept
<1> QED
  BY <1>1, <1>2

\* A header enters the pipe when its operation prints it, and not before.
LEMMA PlacePrint ==
    ASSUME TypeOK, ListenInv, PlaceInv, NEW o \in Ops, PrintHeader(o)
    PROVE  PlaceInv'
<1>1. UNCHANGED <<ref, kind, hand, delivered>> /\ pc[o] = "running"
  BY DEF PrintHeader, pumpVars
<1>2. o \notin piped /\ ~InPipe(o) /\ ~InHand(o) /\ ~Received(o)
  BY <1>1 DEF ListenInv, Unprinted, PlaceInv, Nowhere
<1>3. CASE started
  <2>1. pipe' = Append(pipe, Header(o)) /\ UNCHANGED orig /\ piped' = piped \cup {o}
    BY <1>3 DEF PrintHeader, WriteStdout
  <2>2. /\ DOMAIN pipe' = 1..(Len(pipe) + 1) /\ DOMAIN pipe = 1..Len(pipe) /\ Len(pipe) \in Nat
        /\ \A i \in DOMAIN pipe : pipe'[i] = pipe[i]
        /\ pipe'[Len(pipe) + 1] = Header(o)
    BY <2>1, PipeAppend, WriteFacts DEF TypeOK
  <2>3. \A p \in Ops : p # o => Header(p) # Header(o)
    BY WriteFacts
  <2>4. InPipe(o)' /\ Once(o)'
    BY <1>2, <2>2 DEF InPipe, Once
  <2>5. \A p \in Ops : p # o => (InPipe(p)' <=> InPipe(p)) /\ (Once(p) => Once(p)')
    BY <2>2, <2>3 DEF InPipe, Once
  <2>6. \A p : (InHand(p)' <=> InHand(p)) /\ (Received(p)' <=> Received(p))
    BY <1>1 DEF InHand, Received
  <2>7. Nowhere' /\ OnePlace'
    BY <1>2, <2>1, <2>4, <2>5, <2>6 DEF PlaceInv, Nowhere, OnePlace
  <2>8. Addressed'
    BY <1>1, BannerFixed DEF PlaceInv, Addressed
  <2>9. NotLost'
    <3>1. \A p : Unique(p)' <=> Unique(p)
      BY <1>1, BannerFixed DEF Unique
    <3>2. Whole' <=> Whole
      BY <2>1 DEF Whole
    <3>3. piped \subseteq Ops
      BY DEF TypeOK
    <3> QED
      BY <1>1, <2>1, <2>4, <2>5, <2>6, <3>1, <3>2, <3>3 DEF PlaceInv, NotLost
  <2> QED
    BY <2>7, <2>8, <2>9 DEF PlaceInv
<1>4. CASE ~started
  <2>1. orig' = Append(orig, Header(o)) /\ UNCHANGED <<pipe, piped>>
    BY <1>4 DEF PrintHeader, WriteStdout
  <2>2. \A p : (InPipe(p)' <=> InPipe(p)) /\ (Once(p)' <=> Once(p))
    BY <2>1 DEF InPipe, Once
  <2>3. Whole' => Whole
    <3>1. orig \in Seq(Writes) /\ Header(o) \in Writes
      BY WriteFacts DEF TypeOK
    <3>2. /\ DOMAIN orig \subseteq DOMAIN orig'
          /\ \A i \in DOMAIN orig : orig'[i] = orig[i]
      BY <2>1, <3>1, AppendProperties, LenProperties
    <3> QED
      BY <3>2 DEF Whole
  <2> QED
    BY <1>1, <2>1, <2>2, <2>3, PlaceKept
<1> QED
  BY <1>3, <1>4

\* Reading something that is not o's header from the pipe.
LEMMA TailPlaces ==
    ASSUME pipe \in Seq(Writes), 1 \in DOMAIN pipe, pipe' = Tail(pipe),
           NEW o \in Ops, pipe[1] # Header(o)
    PROVE  (InPipe(o)' <=> InPipe(o)) /\ (Once(o) => Once(o)')
<1>1. /\ Len(pipe) \in Nat /\ DOMAIN pipe = 1..Len(pipe)
      /\ DOMAIN pipe' = 1..(Len(pipe) - 1)
      /\ \A i \in DOMAIN pipe' : pipe'[i] = pipe[i + 1]
  BY HeadTailProperties, LenProperties
<1>2. InPipe(o)' => InPipe(o)
  BY <1>1 DEF InPipe
<1>3. ASSUME NEW j \in DOMAIN pipe, pipe[j] = Header(o) PROVE InPipe(o)'
  <2>1. j # 1
    BY <1>3
  <2>2. j - 1 \in DOMAIN pipe' /\ j - 1 + 1 = j
    BY <1>1, <2>1
  <2>3. pipe'[j - 1] = pipe[j]
    BY <1>1, <2>2
  <2> QED
    BY <1>3, <2>2, <2>3 DEF InPipe
<1>4. ASSUME Once(o), NEW i \in DOMAIN pipe', NEW j \in DOMAIN pipe',
             pipe'[i] = Header(o), pipe'[j] = Header(o)
      PROVE  i = j
  <2>1. i + 1 = j + 1
    BY <1>1, <1>4 DEF Once
  <2> QED
    BY <1>1, <2>1
<1> QED
  BY <1>2, <1>3, <1>4 DEF InPipe, Once

\* Reading o's header from the pipe, where it is once.
LEMMA TailOnce ==
    ASSUME pipe \in Seq(Writes), 1 \in DOMAIN pipe, pipe' = Tail(pipe),
           NEW o \in Ops, pipe[1] = Header(o), Once(o)
    PROVE  ~InPipe(o)' /\ Once(o)'
<1>1. /\ Len(pipe) \in Nat /\ DOMAIN pipe = 1..Len(pipe)
      /\ DOMAIN pipe' = 1..(Len(pipe) - 1)
      /\ \A i \in DOMAIN pipe' : pipe'[i] = pipe[i + 1]
  BY HeadTailProperties, LenProperties
<1>2. \A i \in DOMAIN pipe' : pipe'[i] # Header(o)
  <2> SUFFICES ASSUME NEW i \in DOMAIN pipe', pipe'[i] = Header(o) PROVE FALSE
    OBVIOUS
  <2>1. i + 1 \in DOMAIN pipe /\ pipe[i + 1] = Header(o)
    BY <1>1
  <2>2. i + 1 = 1
    BY <2>1 DEF Once
  <2> QED
    BY <1>1, <2>2
<1> QED
  BY <1>2 DEF InPipe, Once

\* What is left of the pipe after the first k writes, place by place.
LEMMA PipeRest ==
    ASSUME pipe \in Seq(Writes), NEW k \in 1..Len(pipe),
           pipe' = SubSeq(pipe, k + 1, Len(pipe))
    PROVE  /\ DOMAIN pipe' = 1..(Len(pipe) - k)
           /\ \A i \in DOMAIN pipe' : i + k \in DOMAIN pipe /\ pipe'[i] = pipe[i + k]
<1>1. \A i \in (k + 1)..Len(pipe) : pipe[i] \in Writes
  BY ElementOfSeq
<1>2. k + 1 \in Int /\ Len(pipe) \in Nat
  BY LenProperties
<1>3. /\ pipe' \in Seq(Writes)
      /\ Len(pipe') = IF k + 1 <= Len(pipe) THEN Len(pipe) - (k + 1) + 1 ELSE 0
  BY <1>1, <1>2, SubSeqProperties
<1>4. Len(pipe') = Len(pipe) - k
  BY <1>2, <1>3
<1> QED
  BY <1>3, <1>4, PipeRead, LenProperties

\* What was on the original stdout stays and the line follows it.
LEMMA OrigForward ==
    ASSUME pipe \in Seq(Writes), orig \in Seq(Writes), NEW k \in 1..Len(pipe),
           orig' = orig \o SubSeq(pipe, 1, k)
    PROVE  /\ \A i \in DOMAIN orig : i \in DOMAIN orig' /\ orig'[i] = orig[i]
           /\ \A i \in 1..k : Len(orig) + i \in DOMAIN orig' /\ orig'[Len(orig) + i] = pipe[i]
<1>1. Len(pipe) \in Nat /\ Len(orig) \in Nat /\ DOMAIN orig = 1..Len(orig)
  BY LenProperties
<1>2. \A i \in 1..k : pipe[i] \in Writes
  BY <1>1, ElementOfSeq
<1>3. PICK line : line = SubSeq(pipe, 1, k)
  OBVIOUS
<1>4. line \in Seq(Writes) /\ Len(line) = k /\ \A i \in 1..k : line[i] = pipe[i]
  <2>1. /\ line \in Seq(Writes) /\ Len(line) = IF 1 <= k THEN k - 1 + 1 ELSE 0
        /\ \A i \in 1..(k - 1 + 1) : line[i] = pipe[1 + i - 1]
    BY <1>1, <1>2, <1>3, SubSeqProperties
  <2> QED
    BY <1>1, <2>1
<1>5. /\ orig' \in Seq(Writes) /\ Len(orig') = Len(orig) + Len(line)
      /\ \A i \in 1..(Len(orig) + Len(line)) :
            orig'[i] = IF i <= Len(orig) THEN orig[i] ELSE line[i - Len(orig)]
  <2>1. line \in Seq(Writes) /\ orig' = orig \o line
    BY <1>3, <1>4
  <2>2. /\ orig \o line \in Seq(Writes)
        /\ Len(orig \o line) = Len(orig) + Len(line)
        /\ \A i \in 1..(Len(orig) + Len(line)) :
              (orig \o line)[i] = IF i <= Len(orig) THEN orig[i] ELSE line[i - Len(orig)]
    BY <2>1, ConcatProperties, Zenon
  <2> QED
    BY <2>1, <2>2, Zenon
<1>6. DOMAIN orig' = 1..(Len(orig) + k)
  BY <1>4, <1>5, LenProperties
<1>7. \A i \in DOMAIN orig : i \in DOMAIN orig' /\ orig'[i] = orig[i]
  BY <1>1, <1>4, <1>5, <1>6
<1>8. ASSUME NEW i \in 1..k
      PROVE  Len(orig) + i \in DOMAIN orig' /\ orig'[Len(orig) + i] = pipe[i]
  <2>1. /\ Len(orig) + i \in 1..(Len(orig) + k) /\ ~(Len(orig) + i <= Len(orig))
        /\ Len(orig) + i - Len(orig) = i
    BY <1>1
  <2>2. orig'[Len(orig) + i] = line[Len(orig) + i - Len(orig)]
    BY <1>4, <1>5, <2>1
  <2> QED
    BY <1>4, <1>6, <2>1, <2>2
<1> QED
  BY <1>7, <1>8

\* A sentinel leaves the pipe and the headers in it.
LEMMA PlaceRouteSentinel ==
    ASSUME TypeOK, PlaceInv, NEW k \in DOMAIN pipe, RouteSentinel(k)
    PROVE  PlaceInv'
<1>1. /\ pipe \in Seq(Writes) /\ pipe' = Tail(pipe) /\ 1 \in DOMAIN pipe
      /\ pipe[1].type = "sentinel"
      /\ UNCHANGED <<ref, kind, hand, delivered, piped, orig>>
  BY DEF TypeOK, RouteSentinel, pumpVars, labels
<1>2. \A o \in Ops : pipe[1] # Header(o)
  BY <1>1 DEF Header
<1>3. \A o \in Ops : (InPipe(o)' <=> InPipe(o)) /\ (Once(o) => Once(o)')
  BY <1>1, <1>2, TailPlaces
<1>4. Whole' <=> Whole
  BY <1>1 DEF Whole
<1> QED
  BY <1>1, <1>3, <1>4, PlaceKept

\* A header goes from the pipe into the pump's hand, for a listener with its
\* text.
LEMMA PlaceRouteHeader ==
    ASSUME TypeOK, PlaceInv, NEW k \in DOMAIN pipe, RouteHeader(k)
    PROVE  PlaceInv'
<1>1. /\ pipe \in Seq(Writes) /\ pipe' = Tail(pipe) /\ 1 \in DOMAIN pipe /\ hand = <<>>
      /\ pipe[1].type = "header"
      /\ UNCHANGED <<ref, kind, delivered, piped, orig>>
  BY DEF TypeOK, RouteHeader, LineReady, labels
<1>2. pipe[1] \in Writes
  BY <1>1, ElementOfSeq, LenProperties
<1>3. PICK o \in Ops : o = pipe[1].id /\ pipe[1] = Header(o)
  BY <1>1, <1>2, WriteFacts
<1>4. PICK i \in Matching(o) : hand' = <<[header |-> o, target |-> listeners[ref[o]][i]]>>
  BY <1>3 DEF RouteHeader
<1> DEFINE t == listeners[ref[o]][i]
<1>5. SameBanner(t, o)
  BY <1>4 DEF Matching
<1> HIDE DEF t
<1>6. /\ \A j \in DOMAIN hand' : hand'[j].header = o /\ hand'[j].target = t
      /\ 1 \in DOMAIN hand'
  BY <1>4 DEF t
<1>7. InHand(o)' /\ \A p : p # o => ~InHand(p)'
  BY <1>6 DEF InHand
<1>8. \A p : ~InHand(p)
  BY <1>1 DEF InHand
<1>9. \A p : Received(p)' <=> Received(p)
  BY <1>1 DEF Received
<1>10. InPipe(o) /\ ~Received(o) /\ o \in piped
  BY <1>1, <1>3 DEF InPipe, PlaceInv, OnePlace, Nowhere
<1>11. \A p \in Ops : p # o => (InPipe(p)' <=> InPipe(p)) /\ (Once(p) => Once(p)')
  BY <1>1, <1>3, TailPlaces, WriteFacts
<1>12. ~InPipe(o)' /\ Once(o)'
  BY <1>1, <1>3, TailOnce DEF PlaceInv, OnePlace
<1>13. Nowhere' /\ OnePlace'
  BY <1>1, <1>7, <1>8, <1>9, <1>10, <1>11, <1>12 DEF PlaceInv, Nowhere, OnePlace
<1>14. Addressed'
  <2>1. \A j \in DOMAIN hand' : SameBanner(hand'[j].target, hand'[j].header)
    BY <1>5, <1>6
  <2> QED
    BY <1>1, <2>1, BannerFixed DEF PlaceInv, Addressed
<1>15. NotLost'
  <2>1. \A p : Unique(p)' <=> Unique(p)
    BY <1>1, BannerFixed DEF Unique
  <2>2. Whole' <=> Whole
    BY <1>1 DEF Whole
  <2> QED
    BY <1>1, <1>7, <1>8, <1>11, <2>1, <2>2 DEF TypeOK, PlaceInv, NotLost
<1> QED
  BY <1>13, <1>14, <1>15 DEF PlaceInv

\* A header the pump forwards was part of a line that began with a partial
\* one, since its operation still listens.
LEMMA PlaceForward ==
    ASSUME TypeOK, FlushInv, ListenInv, PlaceInv, NEW k \in DOMAIN pipe, ForwardLine(k)
    PROVE  PlaceInv'
<1>1. /\ pipe \in Seq(Writes) /\ orig \in Seq(Writes)
      /\ pipe' = SubSeq(pipe, k + 1, Len(pipe))
      /\ orig' = orig \o SubSeq(pipe, 1, k)
      /\ UNCHANGED <<ref, kind, hand, delivered, piped>>
  BY DEF TypeOK, ForwardLine, pumpVars, labels
<1>2. k \in 1..Len(pipe) /\ Len(pipe) \in Nat /\ DOMAIN pipe = 1..Len(pipe)
  BY <1>1, LenProperties
<1>3. /\ DOMAIN pipe' = 1..(Len(pipe) - k)
      /\ \A i \in DOMAIN pipe' : i + k \in DOMAIN pipe /\ pipe'[i] = pipe[i + k]
  BY <1>1, <1>2, PipeRest
<1>4. /\ \A i \in DOMAIN orig : i \in DOMAIN orig' /\ orig'[i] = orig[i]
      /\ \A i \in 1..k : Len(orig) + i \in DOMAIN orig' /\ orig'[Len(orig) + i] = pipe[i]
  BY <1>1, <1>2, OrigForward
<1>5. Whole' => Whole
  BY <1>4 DEF Whole
<1>6. \A o \in Ops : (InPipe(o)' => InPipe(o)) /\ (Once(o) => Once(o)')
  <2> SUFFICES ASSUME NEW o \in Ops PROVE (InPipe(o)' => InPipe(o)) /\ (Once(o) => Once(o)')
    OBVIOUS
  <2>1. InPipe(o)' => InPipe(o)
    BY <1>3 DEF InPipe
  <2>2. ASSUME Once(o), NEW i \in DOMAIN pipe', NEW j \in DOMAIN pipe',
               pipe'[i] = Header(o), pipe'[j] = Header(o)
        PROVE  i = j
    <3>1. i + k = j + k
      BY <1>3, <2>2 DEF Once
    <3> QED
      BY <1>2, <1>3, <3>1
  <2> QED
    BY <2>1, <2>2 DEF Once
<1>7. ASSUME NEW o \in Ops, InPipe(o), ~InPipe(o)', Whole' PROVE FALSE
  <2>1. PICK j \in 1..Len(pipe) : pipe[j] = Header(o)
    BY <1>2, <1>7 DEF InPipe
  <2>2. j <= k
    <3> SUFFICES ASSUME j > k PROVE FALSE
      BY <1>2
    <3>1. j - k \in DOMAIN pipe' /\ j - k + k = j
      BY <1>2, <1>3
    <3>2. pipe'[j - k] = pipe[j]
      BY <1>3, <3>1
    <3> QED
      BY <1>7, <2>1, <3>1, <3>2 DEF InPipe
  <2>3. \A i \in 1..k : pipe[i].newline
    BY <1>4, <1>7 DEF Whole
  <2>4. k = 1
    <3>1. \A i \in 1..(k - 1) : ~pipe[i].newline
      BY DEF ForwardLine, LineReady
    <3> QED
      BY <1>2, <2>3, <3>1
  <2>5. pipe[1] = Header(o)
    BY <1>2, <2>1, <2>2, <2>4
  <2>6. pipe[1].type = "header" /\ pipe[1].id = o
    BY <2>5 DEF Header
  <2>7. pc[o] \in Listening
    <3>1. o \in piped
      BY <1>7 DEF PlaceInv, Nowhere
    <3>2. pc[o] \notin {"new", "listen", "running"}
      BY <3>1 DEF ListenInv, Unprinted
    <3>3. pc[o] \notin {"unlisten", "closing", "done"}
      BY <1>7 DEF FlushInv, Left, Clean, InPipe
    <3>4. pc[o] \in OpStates
      BY DEF TypeOK
    <3> QED
      BY <3>2, <3>3, <3>4 DEF OpStates, Listening
  <2>8. Matching(o) # {}
    <3>1. PICK i \in DOMAIN listeners[ref[o]] : listeners[ref[o]][i] = o
      BY <2>7 DEF ListenInv, Listed
    <3>2. SameBanner(listeners[ref[o]][i], o)
      BY <3>1, BannerFixed
    <3> QED
      BY <3>2 DEF Matching
  <2> QED
    BY <2>4, <2>6, <2>8 DEF ForwardLine
<1>8. \A o : (InHand(o)' <=> InHand(o)) /\ (Received(o)' <=> Received(o))
  BY <1>1 DEF InHand, Received
<1>9. Nowhere' /\ OnePlace'
  BY <1>1, <1>6, <1>8 DEF PlaceInv, Nowhere, OnePlace
<1>10. Addressed'
  BY <1>1, BannerFixed DEF PlaceInv, Addressed
<1>11. NotLost'
  <2>1. \A p : Unique(p)' <=> Unique(p)
    BY <1>1, BannerFixed DEF Unique
  <2>2. \A o \in Ops : InPipe(o) /\ Whole' => InPipe(o)'
    BY <1>7
  <2> QED
    BY <1>1, <1>5, <1>8, <2>1, <2>2 DEF TypeOK, PlaceInv, NotLost
<1> QED
  BY <1>9, <1>10, <1>11 DEF PlaceInv

\* The stream that is given a header has its text; a unique header is the
\* first and only one of its stream.
LEMMA PlaceDeliver ==
    ASSUME TypeOK, PlaceInv, DeliverHeader
    PROVE  PlaceInv'
<1>1. UNCHANGED <<ref, kind, pipe, piped, orig>> /\ hand' = <<>>
  BY DEF DeliverHeader, labels
<1>2. PICK h \in Ops, t \in Ops : /\ hand[1].header = h /\ hand[1].target = t
                                  /\ DOMAIN hand = {1}
  <2> DEFINE H == [header : Ops, target : Ops]
  <2>1. hand \in Seq(H) /\ hand # <<>> /\ Len(hand) <= 1
    BY DEF TypeOK, DeliverHeader
  <2> HIDE DEF H
  <2>2. Head(hand) \in H /\ Head(hand) = hand[1]
    BY <2>1, HeadTailProperties
  <2>3. DOMAIN hand = {1}
    <3>1. Len(hand) \in Nat /\ Len(hand) # 0 /\ DOMAIN hand = 1..Len(hand)
      BY <2>1, LenProperties, EmptySeq
    <3>2. Len(hand) = 1
      BY <2>1, <3>1
    <3> QED
      BY <3>1, <3>2
  <2> QED
    BY <2>2, <2>3 DEF H
<1>3. delivered' = [delivered EXCEPT ![t] = Append(@, h)] /\ delivered \in [Ops -> Seq(Ops)]
  BY <1>2 DEF DeliverHeader, TypeOK
<1>4. /\ DOMAIN delivered'[t] = 1..(Len(delivered[t]) + 1)
      /\ DOMAIN delivered[t] = 1..Len(delivered[t]) /\ Len(delivered[t]) \in Nat
      /\ \A i \in DOMAIN delivered[t] : delivered'[t][i] = delivered[t][i]
      /\ delivered'[t][Len(delivered[t]) + 1] = h
      /\ \A p \in Ops : p # t => delivered'[p] = delivered[p]
  <2>1. delivered[t] \in Seq(Ops) /\ delivered'[t] = Append(delivered[t], h)
    BY <1>3
  <2>2. \A p \in Ops : p # t => delivered'[p] = delivered[p]
    BY <1>3
  <2> QED
    BY <2>1, <2>2, AppendProperties, LenProperties
<1>5. SameBanner(t, h)
  BY <1>2 DEF PlaceInv, Addressed
<1>6. InHand(h) /\ (\A p : p # h => ~InHand(p)) /\ (\A p : ~InHand(p)')
  BY <1>1, <1>2 DEF InHand
<1>7. ~InPipe(h) /\ ~Received(h) /\ h \in piped
  BY <1>6 DEF PlaceInv, OnePlace, Nowhere
<1>8. \A p : (InPipe(p)' <=> InPipe(p)) /\ (Once(p)' <=> Once(p))
  BY <1>1 DEF InPipe, Once
<1>9. \A p \in Ops : p # h => (Received(p)' => Received(p))
  BY <1>4 DEF Received
<1>10. Nowhere' /\ OnePlace'
  BY <1>1, <1>6, <1>7, <1>8, <1>9 DEF PlaceInv, Nowhere, OnePlace
<1>11. Addressed'
  <2>1. \A p \in Ops : \A i \in DOMAIN delivered'[p] : SameBanner(p, delivered'[p][i])
    BY <1>4, <1>5 DEF PlaceInv, Addressed
  <2>2. \A i \in DOMAIN hand' : SameBanner(hand'[i].target, hand'[i].header)
    BY <1>1
  <2> QED
    BY <1>1, <2>1, <2>2, BannerFixed DEF Addressed
<1>12. NotLost'
  <2>1. \A p : Unique(p)' <=> Unique(p)
    BY <1>1, BannerFixed DEF Unique
  <2>2. Whole' <=> Whole
    BY <1>1 DEF Whole
  <2>3. ASSUME Unique(h) PROVE delivered'[h] = <<h>>
    <3>1. t = h
      BY <1>5, <2>3, BannerFixed DEF Unique
    <3>2. delivered[h] = <<>>
      <4>1. \A i \in DOMAIN delivered[h] : delivered[h][i] \in Ops
        BY <1>3, ElementOfSeq, LenProperties
      <4>2. \A i \in DOMAIN delivered[h] : delivered[h][i] = h
        BY <2>3, <4>1 DEF Unique, PlaceInv, Addressed
      <4>3. DOMAIN delivered[h] = {}
        BY <1>7, <4>2 DEF Received
      <4> QED
        <5>1. delivered[h] \in Seq(Ops)
          BY <1>3
        <5>2. Len(delivered[h]) \in Nat /\ DOMAIN delivered[h] = 1..Len(delivered[h])
          BY <5>1, LenProperties
        <5>3. Len(delivered[h]) # 0 => 1 \in DOMAIN delivered[h]
          BY <5>2
        <5> QED
          BY <4>3, <5>1, <5>3, EmptySeq
    <3> QED
      BY <1>3, <3>1, <3>2
  <2>4. ASSUME NEW p \in Ops, p # h, Unique(p) PROVE delivered'[p] = delivered[p]
    <3>1. p # t
      BY <1>5, <2>4 DEF Unique
    <3> QED
      BY <1>4, <3>1
  <2> QED
    BY <1>1, <1>6, <1>8, <2>1, <2>2, <2>3, <2>4 DEF TypeOK, PlaceInv, NotLost
<1> QED
  BY <1>10, <1>11, <1>12 DEF PlaceInv

\* Every step keeps each header in its place or moves it on.
LEMMA PlaceStep == TypeOK /\ FlushInv /\ ListenInv /\ PlaceInv /\ [Next]_vars => PlaceInv'
<1> SUFFICES ASSUME TypeOK, FlushInv, ListenInv, PlaceInv, [Next]_vars PROVE PlaceInv'
  OBVIOUS
<1>1. ASSUME UNCHANGED <<ref, kind, pipe, hand, delivered, piped, orig>> PROVE PlaceInv'
  <2>1. \A o : (InPipe(o)' <=> InPipe(o)) /\ (Once(o)' <=> Once(o))
    BY <1>1 DEF InPipe, Once
  <2>2. Whole' <=> Whole
    BY <1>1 DEF Whole
  <2> QED
    BY <1>1, <2>1, <2>2, PlaceKept
<1>2. ASSUME NEW o \in Ops, OpNext(o) PROVE PlaceInv'
  <2>1. CASE PrintHeader(o)
    BY <2>1, PlacePrint
  <2>2. CASE WriteSentinel(o)
    <3>1. Sentinel(o) \in Writes /\ \A p \in Ops : Sentinel(o) # Header(p)
      BY WriteFacts
    <3>2. /\ pipe' = Append(pipe, Sentinel(o)) /\ UNCHANGED orig
          /\ UNCHANGED <<ref, kind, hand, delivered, piped>>
      BY <2>2 DEF WriteSentinel, labels, pumpVars
    <3> QED
      BY <3>1, <3>2, PlaceWrite
  <2>3. CASE StartStdoutCapture(o) \/ ListenStdout(o) \/ FlushStdoutCapture(o)
               \/ FlushReturns(o) \/ UnlistenStdout(o) \/ Finish(o)
    BY <1>1, <2>3 DEF StartStdoutCapture, ListenStdout, FlushStdoutCapture, FlushReturns,
                      UnlistenStdout, Finish, labels, pumpVars
  <2> QED
    BY <1>2, <2>1, <2>2, <2>3 DEF OpNext
<1>3. ASSUME NEW k \in DOMAIN pipe, RouteSentinel(k) \/ RouteHeader(k) \/ ForwardLine(k)
      PROVE  PlaceInv'
  BY <1>3, PlaceRouteSentinel, PlaceRouteHeader, PlaceForward
<1>4. ASSUME DeliverHeader PROVE PlaceInv'
  BY <1>4, PlaceDeliver
<1>5. ASSUME HostWrites PROVE PlaceInv'
  <2>1. PICK nl \in BOOLEAN : WriteStdout(HostWrite(hostWrites + 1, nl))
    BY <1>5 DEF HostWrites
  <2> DEFINE w == HostWrite(hostWrites + 1, nl)
  <2>2. w \in Writes /\ \A p \in Ops : w # Header(p)
    <3>1. hostWrites + 1 \in 1..MaxHostWrites
      BY <1>5, CaptureAssumption DEF HostWrites, TypeOK
    <3> QED
      BY <3>1, WriteFacts
  <2>3. UNCHANGED <<ref, kind, hand, delivered, piped>>
    BY <1>5 DEF HostWrites, labels, pumpVars
  <2> HIDE DEF w
  <2>4. \/ pipe' = Append(pipe, w) /\ UNCHANGED orig
        \/ orig' = Append(orig, w) /\ UNCHANGED pipe
    BY <2>1 DEF WriteStdout, w
  <2> QED
    BY <2>2, <2>3, <2>4, PlaceWrite
<1>6. ASSUME SetStdoutCapture PROVE PlaceInv'
  BY <1>1, <1>6 DEF SetStdoutCapture, labels, pumpVars
<1>7. CASE UNCHANGED vars
  BY <1>1, <1>7 DEF vars
<1> QED
  BY <1>2, <1>3, <1>4, <1>5, <1>6, <1>7 DEF Next, PumpNext

\* A header that went into the pipe and is nobody else's is in its own
\* operation's stream once, and in no other, when the operation is done, for
\* any number of operations and stacks, as long as no partial line of the host
\* has been forwarded.
THEOREM HeaderReachesItsOperation == Spec => []OwnHeaderOnce
<1>1. Init => FlushInv /\ ListenInv /\ PlaceInv
  <2> SUFFICES ASSUME Init PROVE FlushInv /\ ListenInv /\ PlaceInv
    OBVIOUS
  <2>1. FlushInv
    BY DEF Init, FlushInv, BeforeSwap, Registered, SentinelWritten, HeaderFirst, Answered, Left,
           Clean
  <2>2. ListenInv
    BY DEF Init, ListenInv, Listed, Unprinted, Listening
  <2>3. \A o \in Ops : ~InPipe(o) /\ ~InHand(o) /\ ~Received(o) /\ Once(o)
    <3>1. pipe = <<>> /\ hand = <<>> /\ \A p \in Ops : delivered[p] = <<>>
      BY DEF Init
    <3>2. DOMAIN pipe = {} /\ DOMAIN hand = {} /\ \A p \in Ops : DOMAIN delivered[p] = {}
      BY <3>1
    <3> QED
      BY <3>2 DEF InPipe, InHand, Received, Once
  <2>4. Addressed
    BY DEF Init, Addressed
  <2>5. NotLost
    BY DEF Init, NotLost
  <2> QED
    BY <2>1, <2>2, <2>3, <2>4, <2>5 DEF PlaceInv, Nowhere, OnePlace
<1>2. TypeOK /\ FlushInv /\ PlaceInv => OwnHeaderOnce
  <2> SUFFICES ASSUME TypeOK, FlushInv, PlaceInv, NEW o \in piped, pc[o] = "done",
                      Unique(o), Whole
               PROVE  /\ delivered[o] = <<o>>
                      /\ \A p \in Ops \ {o} : \A i \in DOMAIN delivered[p] : delivered[p][i] # o
    BY DEF OwnHeaderOnce, Unique, Whole
  <2>1. o \in Ops
    BY DEF TypeOK
  <2>2. ~InPipe(o) /\ ~InHand(o)
    BY <2>1 DEF FlushInv, Left, Clean, InPipe, InHand
  <2>3. delivered[o] = <<o>>
    BY <2>2 DEF PlaceInv, NotLost
  <2>4. ASSUME NEW p \in Ops, NEW i \in DOMAIN delivered[p], delivered[p][i] = o
        PROVE  p = o
    BY <2>4, BannerFixed DEF PlaceInv, Addressed, Unique
  <2> QED
    BY <2>3, <2>4
<1> QED
  BY <1>1, <1>2, TypeCorrect, FlushStep, ListenStep, PlaceStep, PTL DEF Spec

-----------------------------------------------------------------------------
(***************************************************************************)
(* The sentinel.  It is read at the head of a line of its own, which       *)
(* releases its waiter, or as the end of a line, and then what is in front *)
(* of it there is not the end of one.                                      *)
(***************************************************************************)
Unread(o) == \E i \in DOMAIN pipe : pipe[i] = Sentinel(o)
Glued(o)  == \E i \in DOMAIN orig : i > 1 /\ orig[i] = Sentinel(o) /\ ~orig[i - 1].newline

\* A write to os.Stdout, or none.
LEMMA SentinelWrite ==
    ASSUME TypeOK, NEW w \in Writes,
           \/ pipe' = Append(pipe, w) /\ UNCHANGED orig
           \/ orig' = Append(orig, w) /\ UNCHANGED pipe
           \/ UNCHANGED <<pipe, orig>>,
           NEW o \in Ops
    PROVE  (Unread(o) => Unread(o)') /\ (Glued(o) => Glued(o)')
<1>1. pipe \in Seq(Writes) /\ orig \in Seq(Writes)
  BY DEF TypeOK
<1>2. CASE pipe' = Append(pipe, w) /\ UNCHANGED orig
  <2>1. \A i \in DOMAIN pipe : i \in DOMAIN pipe' /\ pipe'[i] = pipe[i]
    BY <1>1, <1>2, PipeAppend
  <2> QED
    BY <1>2, <2>1 DEF Unread, Glued
<1>3. CASE orig' = Append(orig, w) /\ UNCHANGED pipe
  <2>1. /\ DOMAIN orig = 1..Len(orig) /\ Len(orig) \in Nat
        /\ DOMAIN orig' = 1..(Len(orig) + 1)
        /\ \A i \in 1..Len(orig) : orig'[i] = orig[i]
    BY <1>1, <1>3, LenProperties
  <2>2. ASSUME NEW i \in DOMAIN orig, i > 1
        PROVE  i \in DOMAIN orig' /\ orig'[i] = orig[i] /\ orig'[i - 1] = orig[i - 1]
    BY <2>1, <2>2
  <2> QED
    BY <1>3, <2>2 DEF Unread, Glued
<1>4. CASE UNCHANGED <<pipe, orig>>
  BY <1>4 DEF Unread, Glued
<1> QED
  BY <1>2, <1>3, <1>4

\* A line that the pump takes: a sentinel in it was its last write.
LEMMA SentinelForward ==
    ASSUME TypeOK, NEW k \in DOMAIN pipe, ForwardLine(k), NEW o \in Ops
    PROVE  (Unread(o) => Unread(o)' \/ Glued(o)') /\ (Glued(o) => Glued(o)')
<1>1. /\ pipe \in Seq(Writes) /\ orig \in Seq(Writes)
      /\ pipe' = SubSeq(pipe, k + 1, Len(pipe)) /\ orig' = orig \o SubSeq(pipe, 1, k)
      /\ pipe[k].newline /\ \A j \in 1..(k - 1) : ~pipe[j].newline
      /\ ~(k = 1 /\ pipe[1].type = "sentinel")
  BY DEF TypeOK, ForwardLine, LineReady
<1>2. k \in 1..Len(pipe) /\ Len(pipe) \in Nat /\ DOMAIN pipe = 1..Len(pipe)
      /\ Len(orig) \in Nat /\ DOMAIN orig = 1..Len(orig)
  BY <1>1, LenProperties
<1>3. /\ \A i \in DOMAIN orig : i \in DOMAIN orig' /\ orig'[i] = orig[i]
      /\ \A i \in 1..k : Len(orig) + i \in DOMAIN orig' /\ orig'[Len(orig) + i] = pipe[i]
  BY <1>1, <1>2, OrigForward
<1>4. Glued(o) => Glued(o)'
  <2> SUFFICES ASSUME NEW i \in DOMAIN orig, i > 1, orig[i] = Sentinel(o), ~orig[i - 1].newline
               PROVE  i \in DOMAIN orig' /\ orig'[i] = Sentinel(o) /\ ~orig'[i - 1].newline
    BY DEF Glued
  <2>1. i - 1 \in DOMAIN orig
    BY <1>2
  <2> QED
    BY <1>3, <2>1
<1>5. ASSUME NEW i \in DOMAIN pipe, pipe[i] = Sentinel(o)
      PROVE  Unread(o)' \/ Glued(o)'
  <2>1. CASE i > k
    <3>1. /\ DOMAIN pipe' = 1..(Len(pipe) - k)
          /\ \A j \in DOMAIN pipe' : pipe'[j] = pipe[j + k]
      BY <1>1, <1>2, PipeRest
    <3>2. i - k \in 1..(Len(pipe) - k) /\ (i - k) + k = i
      BY <1>2, <2>1
    <3>3. i - k \in DOMAIN pipe' /\ pipe'[i - k] = Sentinel(o)
      BY <1>5, <3>1, <3>2
    <3> QED
      BY <3>3 DEF Unread
  <2>2. CASE ~(i > k)
    <3>1. pipe[i].newline /\ pipe[i].type = "sentinel"
      BY <1>5 DEF Sentinel
    <3>2. i = k /\ k # 1
      BY <1>1, <1>2, <2>2, <3>1
    <3>3. k \in 1..k /\ k - 1 \in 1..k /\ k - 1 \in 1..(k - 1)
      BY <1>2, <3>2
    <3>4. /\ Len(orig) + k \in DOMAIN orig' /\ orig'[Len(orig) + k] = Sentinel(o)
          /\ orig'[Len(orig) + (k - 1)] = pipe[k - 1]
          /\ ~pipe[k - 1].newline
      BY <1>1, <1>3, <1>5, <3>2, <3>3
    <3>5. Len(orig) + k > 1 /\ Len(orig) + k - 1 = Len(orig) + (k - 1)
      BY <1>2, <3>2
    <3>6. PICK n : n = Len(orig) + k
      OBVIOUS
    <3>7. n \in DOMAIN orig' /\ n > 1 /\ orig'[n] = Sentinel(o)
      BY <3>4, <3>5, <3>6
    <3>8. n - 1 = Len(orig) + (k - 1)
      BY <3>5, <3>6
    <3>9. ~orig'[n - 1].newline
      BY <3>4, <3>8, Zenon
    <3> QED
      BY <3>7, <3>9, Zenon DEF Glued
  <2> QED
    BY <2>1, <2>2
<1> QED
  BY <1>4, <1>5 DEF Unread

\* A header or a sentinel that is a line of its own leaves the others where
\* they are.
LEMMA SentinelTail ==
    ASSUME TypeOK, 1 \in DOMAIN pipe, pipe' = Tail(pipe), UNCHANGED orig,
           NEW o \in Ops, pipe[1] # Sentinel(o)
    PROVE  (Unread(o) => Unread(o)') /\ (Glued(o) => Glued(o)')
<1>1. pipe \in Seq(Writes) /\ pipe # <<>> /\ Len(pipe) \in Nat /\ DOMAIN pipe = 1..Len(pipe)
  BY LenProperties DEF TypeOK
<1>2. Len(pipe') = Len(pipe) - 1 /\ DOMAIN pipe' = 1..Len(pipe')
      /\ \A i \in 1..Len(pipe') : pipe'[i] = pipe[i + 1]
  BY <1>1, HeadTailProperties, LenProperties
<1>3. ASSUME NEW i \in DOMAIN pipe, pipe[i] = Sentinel(o)
      PROVE  i - 1 \in DOMAIN pipe' /\ pipe'[i - 1] = Sentinel(o)
  <2>1. i # 1 /\ i - 1 \in 1..Len(pipe') /\ (i - 1) + 1 = i
    BY <1>1, <1>2, <1>3
  <2> QED
    BY <1>2, <1>3, <2>1
<1> QED
  BY <1>3 DEF Unread, Glued

\* Every step leaves an awaited sentinel unread, or forwards it glued.
LEMMA SentinelStep == TypeOK /\ SentinelNotLost /\ [Next]_vars => SentinelNotLost'
<1> SUFFICES ASSUME TypeOK, SentinelNotLost, [Next]_vars,
                    NEW o \in Ops, pc'[o] = "waiting", o \in flushes'
             PROVE  Unread(o)' \/ Glued(o)'
  BY DEF SentinelNotLost, Unread, Glued
<1>0. pc[o] = "waiting" /\ o \in flushes => Unread(o) \/ Glued(o)
  BY DEF SentinelNotLost, Unread, Glued
<1>1. ASSUME NEW p \in Ops, OpNext(p)
      PROVE  Unread(o)' \/ Glued(o)'
  <2>1. CASE PrintHeader(p)
    <3>1. Header(p) \in Writes /\ pc[o] = "waiting" /\ o \in flushes
      BY <2>1, WriteFacts DEF PrintHeader, Goto, TypeOK
    <3>2. \/ pipe' = Append(pipe, Header(p)) /\ UNCHANGED orig
          \/ orig' = Append(orig, Header(p)) /\ UNCHANGED pipe
      BY <2>1 DEF PrintHeader, WriteStdout
    <3> QED
      BY <1>0, <3>1, <3>2, SentinelWrite
  <2>2. CASE WriteSentinel(p)
    <3>1. Sentinel(p) \in Writes /\ o \in flushes /\ (p # o => pc[o] = "waiting")
          /\ pipe' = Append(pipe, Sentinel(p)) /\ UNCHANGED orig
      BY <2>2, WriteFacts DEF WriteSentinel, Goto, TypeOK
    <3>2. CASE p = o
      <4>1. Len(pipe) + 1 \in DOMAIN pipe' /\ pipe'[Len(pipe) + 1] = Sentinel(o)
        BY <3>1, <3>2, PipeAppend DEF TypeOK
      <4> QED
        BY <4>1 DEF Unread
    <3>3. CASE p # o
      BY <1>0, <3>1, <3>3, SentinelWrite
    <3> QED
      BY <3>2, <3>3
  <2>3. CASE StartStdoutCapture(p) \/ ListenStdout(p) \/ FlushStdoutCapture(p)
               \/ FlushReturns(p) \/ UnlistenStdout(p) \/ Finish(p)
    <3>1. UNCHANGED <<pipe, orig>>
      BY <2>3 DEF StartStdoutCapture, ListenStdout, FlushStdoutCapture, FlushReturns,
                  UnlistenStdout, Finish
    <3>2. pc[o] = "waiting"
      BY <2>3 DEF StartStdoutCapture, ListenStdout, FlushStdoutCapture, FlushReturns,
                  UnlistenStdout, Finish, Goto, TypeOK
    <3>3. o \in flushes
      BY <2>3, <3>2 DEF StartStdoutCapture, ListenStdout, FlushStdoutCapture, FlushReturns,
                        UnlistenStdout, Finish, Goto, TypeOK
    <3> QED
      BY <1>0, <3>1, <3>2, <3>3 DEF Unread, Glued
  <2> QED
    BY <1>1, <2>1, <2>2, <2>3 DEF OpNext
<1>2. ASSUME NEW k \in DOMAIN pipe, RouteSentinel(k) \/ RouteHeader(k)
      PROVE  Unread(o)' \/ Glued(o)'
  <2>1. /\ 1 \in DOMAIN pipe /\ pipe' = Tail(pipe) /\ UNCHANGED <<orig, pc>> /\ o \in flushes
        /\ pipe[1].type = "header" \/ pipe[1].id # o
    BY <1>2 DEF RouteSentinel, RouteHeader, LineReady
  <2>2. pipe[1] # Sentinel(o)
    BY <2>1 DEF Sentinel
  <2> QED
    BY <1>0, <2>1, <2>2, SentinelTail
<1>3. ASSUME NEW k \in DOMAIN pipe, ForwardLine(k)
      PROVE  Unread(o)' \/ Glued(o)'
  <2>1. pc[o] = "waiting" /\ o \in flushes
    BY <1>3 DEF ForwardLine
  <2> QED
    BY <1>0, <1>3, <2>1, SentinelForward
<1>4. ASSUME HostWrites
      PROVE  Unread(o)' \/ Glued(o)'
  <2>1. PICK nl \in BOOLEAN : WriteStdout(HostWrite(hostWrites + 1, nl))
    BY <1>4 DEF HostWrites
  <2> DEFINE w == HostWrite(hostWrites + 1, nl)
  <2>2. w \in Writes
    <3>1. hostWrites + 1 \in 1..MaxHostWrites
      BY <1>4, CaptureAssumption DEF HostWrites, TypeOK
    <3> QED
      BY <3>1, WriteFacts
  <2> HIDE DEF w
  <2>3. \/ pipe' = Append(pipe, w) /\ UNCHANGED orig
        \/ orig' = Append(orig, w) /\ UNCHANGED pipe
    BY <2>1 DEF WriteStdout, w
  <2>4. pc[o] = "waiting" /\ o \in flushes
    BY <1>4 DEF HostWrites
  <2> QED
    BY <1>0, <2>2, <2>3, <2>4, SentinelWrite
<1>5. CASE DeliverHeader \/ SetStdoutCapture \/ UNCHANGED vars
  BY <1>0, <1>5 DEF DeliverHeader, SetStdoutCapture, vars, Unread, Glued
<1> QED
  BY <1>1, <1>2, <1>3, <1>4, <1>5 DEF Next, PumpNext

\* For any number of operations and host writes, a flush that waits has its
\* sentinel before it, unless the host's unfinished line swallowed it
\* (stdout.go, flushStdoutCapture and pumpStdout).
THEOREM SentinelAwaited == Spec => []SentinelNotLost
<1>1. Init => SentinelNotLost
  BY DEF Init, SentinelNotLost
<1> QED
  BY <1>1, TypeCorrect, SentinelStep, PTL DEF Spec

=============================================================================
