------------------------- MODULE EventStreamProofs -------------------------
(***************************************************************************)
(* Proofs about EventStream, for any sets of sources and any number of     *)
(* events.                                                                 *)
(***************************************************************************)
EXTENDS EventStream, TLAPS

\* A source is a producer, and Main is not a source.
LEMMA ProducerFacts ==
    /\ Main \in Producers
    /\ Main \notin Sources
    /\ \A s \in Sources : s \in Producers /\ s # Main
    /\ \A s \in Joined : s \in Sources /\ s \notin Tracers
    /\ \A p \in Producers : p \in Sources \/ p = Main
  BY StreamAssumption DEF Producers, Sources, Joined

\* The terminator that finish pushes is an event.
LEMMA TerminatorType == Terminator \in Event
  BY ProducerFacts DEF Terminator, Event, Kinds

\* The variables keep their types (the fields of Operation and eventQueue).
LEMMA TypeStep == TypeOK /\ [Next]_vars => TypeOK'
<1> SUFFICES ASSUME TypeOK, [Next]_vars
             PROVE  TypeOK'
  OBVIOUS
<1> USE ProducerFacts DEF SourceStates, MainStates
<1>1. ASSUME NEW s \in Sources, HandleEvent(s)
      PROVE  TypeOK'
  <2> PICK e \in NextEvents(s) :
        \/ /\ e.kind = "cancel"
           /\ UNCHANGED <<pc, held, noted>>
        \/ /\ e.kind # "cancel"
           /\ held' = [held EXCEPT ![s] = e]
           /\ noted' = IF e.kind = "note" THEN noted \cup {Id(e)} ELSE noted
           /\ Goto(s, "stamp")
    BY <1>1 DEF HandleEvent
  <2>1. e \in Event /\ Id(e) \in Ids
    BY DEF NextEvents, KindsOf, Kinds, Event, Id, Ids, TypeOK
  <2>2. emitted' \in [Sources -> Nat]
    BY <1>1 DEF HandleEvent, TypeOK
  <2>3. UNCHANGED <<sequence, result, items, closed, log, late, pump, hand, received, reading>>
    BY <1>1 DEF HandleEvent, queueVars, readerVars
  <2>4. held' \in [Producers -> Event] /\ noted' \subseteq Ids
    BY <2>1 DEF TypeOK
  <2>5. /\ pc' \in [Producers -> SourceStates \cup MainStates]
        /\ pc'[Main] \in MainStates
        /\ \A t \in Sources : pc'[t] \in SourceStates
    BY DEF TypeOK, Goto
  <2> QED
    BY <2>2, <2>3, <2>4, <2>5 DEF TypeOK
<1>2. ASSUME NEW s \in Sources, Exit(s)
      PROVE  TypeOK'
  BY <1>2 DEF Exit, TypeOK, Goto, queueVars, readerVars, noteVars
<1>3. ASSUME NEW p \in Producers, StampEvent(p)
      PROVE  TypeOK'
  <2>0. held[p] \in Event
    BY DEF TypeOK
  <2>1. [held[p] EXCEPT !.seq = sequence] \in Event
    BY <2>0 DEF Event, TypeOK
  <2>2. held' = [held EXCEPT ![p] = [held[p] EXCEPT !.seq = sequence]]
    BY <1>3 DEF StampEvent
  <2>3. held' \in [Producers -> Event]
    BY <2>1, <2>2 DEF TypeOK
  <2> QED
    BY <1>3, <2>3 DEF StampEvent, TypeOK, Goto, queueVars, readerVars, noteVars
<1>4. ASSUME NEW p \in Producers, QueuePush(p)
      PROVE  TypeOK'
  <2>1. held[p] \in Event
    BY DEF TypeOK
  <2>a. items \in Seq(Event) /\ log \in Seq(Event) /\ late \subseteq Event
    BY DEF TypeOK
  <2>b. Append(items, held[p]) \in Seq(Event) /\ Append(log, held[p]) \in Seq(Event)
    BY <2>1, <2>a
  <2>2. items' \in Seq(Event) /\ log' \in Seq(Event) /\ late' \subseteq Event
    BY <1>4, <2>1, <2>a, <2>b DEF QueuePush
  <2>3. pc' \in [Producers -> SourceStates \cup MainStates]
    BY <1>4 DEF QueuePush, TypeOK, Goto
  <2>4. pc'[Main] \in MainStates /\ \A s \in Sources : pc'[s] \in SourceStates
    BY <1>4 DEF QueuePush, TypeOK, Goto
  <2> QED
    BY <1>4, <2>2, <2>3, <2>4 DEF QueuePush, TypeOK, readerVars, noteVars
<1>5. ASSUME NEW p \in Producers, QueueSignal(p)
      PROVE  TypeOK'
  BY <1>5, TerminatorType
     DEF QueueSignal, TypeOK, Goto, WakePump, queueVars, readerVars, noteVars
<1>6. CASE MainNext
  BY <1>6 DEF MainNext, MainStep, BackendReturns, JoinForwarders, CloseHost, FlushStdout,
              Snapshot, CloseQueue, Broadcast, CloseDone, WakePump,
              TypeOK, Goto, queueVars, readerVars, noteVars
<1>7. CASE PumpTake
  BY <1>7 DEF PumpTake, TypeOK, noteVars
<1>8. CASE PumpWait \/ PumpExit
  BY <1>8 DEF PumpWait, PumpExit, TypeOK, queueVars, readerVars, noteVars
<1>9. CASE Receive
  BY <1>9 DEF Receive, TypeOK, queueVars, noteVars
<1>10. CASE Abandon
  BY <1>10 DEF Abandon, TypeOK, queueVars, noteVars
<1>11. CASE UNCHANGED vars
  BY <1>11 DEF vars, TypeOK
<1> QED
  BY <1>1, <1>2, <1>3, <1>4, <1>5, <1>6, <1>7, <1>8, <1>9, <1>10, <1>11
     DEF Next, SourceNext, PushNext, PumpNext

\* Type correctness of the operation's event path.
THEOREM TypeCorrect == Spec => []TypeOK
<1>1. Init => TypeOK
  <2> SUFFICES ASSUME Init
               PROVE  TypeOK
    OBVIOUS
  <2>1. pc \in [Producers -> SourceStates \cup MainStates]
    BY DEF Init, SourceStates, MainStates
  <2>2. pc[Main] \in MainStates /\ \A s \in Sources : pc[s] \in SourceStates
    BY ProducerFacts DEF Init, SourceStates, MainStates
  <2>3. held \in [Producers -> Event] /\ emitted \in [Sources -> Nat]
    BY TerminatorType DEF Init
  <2>4. <<>> \in Seq(Event) /\ Len(<<>>) <= 1
    OBVIOUS
  <2>5. items \in Seq(Event) /\ log \in Seq(Event) /\ received \in Seq(Event)
    BY <2>4 DEF Init
  <2>6. hand \in Seq(Event) /\ Len(hand) <= 1
    BY <2>4 DEF Init
  <2> QED
    BY <2>1, <2>2, <2>3, <2>5, <2>6 DEF Init, TypeOK
<1> QED
  BY <1>1, TypeStep, PTL DEF Spec

-----------------------------------------------------------------------------
(***************************************************************************)
(* Nothing joined is late.  Main passes a join only when the sources it    *)
(* waits for have exited; the terminator enters the log, and the queue is  *)
(* closed, only after the last join.                                       *)
(***************************************************************************)
AfterPush     == {"close", "broadcast", "done", "returned"}
AfterAppend   == AfterPush \cup {"signal"}
AfterFlush    == AfterAppend \cup {"finish", "stamp", "append"}
AfterHost     == AfterFlush \cup {"flush"}
AfterForwards == AfterHost \cup {"hostClose"}

JoinInv ==
    /\ pc[Main] \in AfterForwards => AllExited(Forwarders)
    /\ pc[Main] \in AfterHost => AllExited(HostDiags)
    /\ pc[Main] \in AfterFlush => AllExited(Banners)
    /\ closed => pc[Main] \in AfterPush
    /\ \A i \in DOMAIN log : log[i].kind = "cancel" => pc[Main] \in AfterAppend
    /\ \A s \in Sources : pc[s] \in {"stamp", "append"} =>
          held[s].src = s /\ held[s].kind # "cancel"
    /\ JoinedBeforeTerminator

\* While a joined source is at work, Main has not passed its last join.
LEMMA JoinedAtWork ==
    ASSUME TypeOK, JoinInv, NEW s \in Joined, pc[s] # "exited"
    PROVE  /\ pc[Main] \notin AfterFlush
           /\ ~closed
           /\ \A i \in DOMAIN log : log[i].kind # "cancel"
<1>1. pc[Main] \notin AfterFlush
  BY DEF JoinInv, Joined, AllExited, AfterForwards, AfterHost
<1> QED
  BY <1>1 DEF JoinInv, AfterFlush, AfterAppend

\* Every step keeps what the join argument knows about Main.
LEMMA JoinStep == TypeOK /\ JoinInv /\ [Next]_vars => JoinInv'
<1> SUFFICES ASSUME TypeOK, JoinInv, [Next]_vars
             PROVE  JoinInv'
  OBVIOUS
<1> USE ProducerFacts DEF AfterPush, AfterAppend, AfterFlush, AfterHost, AfterForwards
<1>1. ASSUME NEW s \in Sources, HandleEvent(s)
      PROVE  JoinInv'
  <2>1. PICK e \in NextEvents(s) :
          \/ e.kind = "cancel" /\ UNCHANGED <<pc, held>>
          \/ /\ e.kind # "cancel"
             /\ held' = [held EXCEPT ![s] = e]
             /\ Goto(s, "stamp")
    BY <1>1 DEF HandleEvent
  <2>2. e.src = s
    BY DEF NextEvents
  <2>3. UNCHANGED <<closed, log, late>> /\ pc[s] = "idle"
    BY <1>1 DEF HandleEvent, queueVars
  <2>4. CASE UNCHANGED <<pc, held>>
    BY <2>3, <2>4 DEF JoinInv, AllExited, JoinedBeforeTerminator
  <2>5. CASE e.kind # "cancel" /\ held' = [held EXCEPT ![s] = e] /\ Goto(s, "stamp")
    <3>1. pc' = [pc EXCEPT ![s] = "stamp"] /\ pc'[Main] = pc[Main]
      BY <2>5 DEF Goto, TypeOK
    <3>2. \A S : S \subseteq Sources /\ AllExited(S) => AllExited(S)'
      BY <2>3, <3>1 DEF AllExited, TypeOK
    <3>3. \A t \in Sources : pc'[t] \in {"stamp", "append"} =>
              held'[t].src = t /\ held'[t].kind # "cancel"
      BY <2>2, <2>5, <3>1 DEF JoinInv, TypeOK
    <3> QED
      BY <2>3, <3>1, <3>2, <3>3 DEF JoinInv, JoinedBeforeTerminator, Sources
  <2> QED
    BY <2>1, <2>4, <2>5
<1>2. ASSUME NEW s \in Sources, Exit(s)
      PROVE  JoinInv'
  BY <1>2 DEF Exit, Goto, queueVars, TypeOK, JoinInv, AllExited, JoinedBeforeTerminator
<1>3. ASSUME NEW p \in Producers, StampEvent(p)
      PROVE  JoinInv'
  <2>1. UNCHANGED <<closed, log, late>> /\ pc[p] = "stamp"
        /\ pc' = [pc EXCEPT ![p] = "append"]
    BY <1>3 DEF StampEvent, queueVars, Goto
  <2>2. \A q \in Producers : held'[q].src = held[q].src /\ held'[q].kind = held[q].kind
    BY <1>3 DEF StampEvent, TypeOK, Event
  <2>3. \A S : S \subseteq Sources /\ AllExited(S) => AllExited(S)'
    BY <2>1 DEF AllExited, TypeOK
  <2>4. pc'[Main] \in AfterFlush => pc[Main] \in AfterFlush
    BY <2>1 DEF TypeOK
  <2>5. \A t \in Sources : pc'[t] \in {"stamp", "append"} =>
              held'[t].src = t /\ held'[t].kind # "cancel"
    BY <2>1, <2>2 DEF JoinInv, TypeOK
  <2> QED
    BY <2>1, <2>3, <2>4, <2>5 DEF JoinInv, JoinedBeforeTerminator, Sources, TypeOK
<1>5. ASSUME NEW p \in Producers, QueueSignal(p)
      PROVE  JoinInv'
  BY <1>5 DEF QueueSignal, Goto, queueVars, TypeOK, JoinInv, AllExited, JoinedBeforeTerminator
<1>6. CASE MainNext
  <2>1. ASSUME NEW from, NEW to, MainStep(from, to)
        PROVE  /\ pc[Main] = from /\ pc'[Main] = to /\ UNCHANGED held
               /\ \A s \in Sources : pc'[s] = pc[s]
    BY <2>1 DEF MainStep, Goto, TypeOK
  <2>2. /\ UNCHANGED <<log, late, held>>
        /\ closed' => closed \/ pc'[Main] = "broadcast"
        /\ \A s \in Sources : pc'[s] = pc[s]
        /\ pc'[Main] \in AfterForwards => pc[Main] \in AfterForwards \/ AllExited(Forwarders)
        /\ pc'[Main] \in AfterHost => pc[Main] \in AfterHost \/ AllExited(HostDiags)
        /\ pc'[Main] \in AfterFlush => pc[Main] \in AfterFlush \/ AllExited(Banners)
        /\ pc[Main] \in AfterPush => pc'[Main] \in AfterPush
        /\ pc[Main] \in AfterAppend => pc'[Main] \in AfterAppend
    BY <1>6, <2>1 DEF MainNext, BackendReturns, JoinForwarders, CloseHost, FlushStdout,
                      Snapshot, CloseQueue, Broadcast, CloseDone, queueVars
  <2> QED
    BY <2>2 DEF JoinInv, JoinedBeforeTerminator, AllExited, Sources
<1>7. CASE PumpNext \/ Receive \/ Abandon
  BY <1>7 DEF PumpNext, PumpTake, PumpWait, PumpExit, Receive, Abandon, queueVars,
              JoinInv, AllExited, JoinedBeforeTerminator
<1>8. CASE UNCHANGED vars
  BY <1>8 DEF vars, JoinInv, AllExited, JoinedBeforeTerminator
<1>4. ASSUME NEW p \in Producers, QueuePush(p)
      PROVE  JoinInv'
  <2>1. pc[p] = "append" /\ pc' = [pc EXCEPT ![p] = "signal"] /\ UNCHANGED <<held, closed>>
    BY <1>4 DEF QueuePush, Goto
  <2>2. \A S : S \subseteq Sources /\ AllExited(S) => AllExited(S)'
    BY <2>1 DEF AllExited, TypeOK
  <2>3. \A t \in Sources : pc'[t] \in {"stamp", "append"} =>
              held'[t].src = t /\ held'[t].kind # "cancel"
    BY <2>1 DEF JoinInv, TypeOK
  <2>4. p \in Sources => held[p].src = p /\ held[p].kind # "cancel"
    BY <2>1 DEF JoinInv
  <2>5. p = Main => ~closed /\ pc'[Main] = "signal"
    BY <2>1 DEF JoinInv, TypeOK
  <2>6. p # Main => pc'[Main] = pc[Main]
    BY <2>1 DEF TypeOK
  <2>7. p \in Joined => ~closed /\ \A i \in DOMAIN log : log[i].kind # "cancel"
    BY <2>1, JoinedAtWork
  <2>8. p = Main => \A i \in DOMAIN log : log[i].kind # "cancel"
    BY <2>1 DEF JoinInv
  <2>9. CASE closed
    <3>1. UNCHANGED log /\ late' = late \cup {held[p]}
      BY <1>4, <2>9 DEF QueuePush
    <3>2. held[p].src \in Tracers
      BY <2>9, <2>4, <2>5, <2>7 DEF Sources, Joined
    <3> QED
      BY <3>1, <3>2, <2>1, <2>2, <2>3, <2>5, <2>6, <2>9 DEF JoinInv, JoinedBeforeTerminator, Sources
  <2>10. CASE ~closed
    <3>1. log' = Append(log, held[p]) /\ UNCHANGED late
      BY <1>4, <2>10 DEF QueuePush
    <3>2. /\ Len(log) \in Nat /\ DOMAIN log = 1..Len(log)
          /\ DOMAIN log' = 1..(Len(log) + 1)
          /\ \A i \in 1..Len(log) : log'[i] = log[i]
          /\ log'[Len(log) + 1] = held[p]
      BY <3>1 DEF TypeOK
    <3>3. \A i \in DOMAIN log' : log'[i].kind = "cancel" => pc'[Main] \in AfterAppend
      <4> SUFFICES ASSUME NEW i \in DOMAIN log', log'[i].kind = "cancel"
                   PROVE  pc'[Main] \in AfterAppend
        OBVIOUS
      <4>1. CASE i \in 1..Len(log)
        BY <4>1, <3>2, <2>5, <2>6 DEF JoinInv
      <4>2. CASE i = Len(log) + 1
        BY <4>2, <3>2, <2>4, <2>5
      <4> QED
        BY <4>1, <4>2, <3>2
    <3>4. \A i, j \in DOMAIN log' :
              log'[i].kind = "cancel" /\ i < j => log'[j].src \in Tracers
      <4> SUFFICES ASSUME NEW i \in DOMAIN log', NEW j \in DOMAIN log',
                          log'[i].kind = "cancel", i < j
                   PROVE  log'[j].src \in Tracers
        OBVIOUS
      <4>1. i \in 1..Len(log) /\ log[i].kind = "cancel"
        BY <3>2
      <4>2. CASE j \in 1..Len(log)
        BY <4>1, <4>2, <3>2 DEF JoinInv, JoinedBeforeTerminator
      <4>3. CASE j = Len(log) + 1
        BY <4>1, <4>3, <3>2, <2>4, <2>7, <2>8 DEF Sources, Joined
      <4> QED
        BY <4>2, <4>3, <3>2
    <3> QED
      BY <3>1, <3>3, <3>4, <2>1, <2>2, <2>3, <2>5, <2>6, <2>10
         DEF JoinInv, JoinedBeforeTerminator, Sources
  <2> QED
    BY <2>9, <2>10
<1> QED
  BY <1>1, <1>2, <1>3, <1>4, <1>5, <1>6, <1>7, <1>8 DEF Next, SourceNext, PushNext

\* The join argument holds throughout.
LEMMA JoinInvariant == Spec => []JoinInv
<1>1. Init => JoinInv
  BY ProducerFacts DEF Init, JoinInv, JoinedBeforeTerminator, AfterPush, AfterAppend,
                       AfterFlush, AfterHost, AfterForwards
<1> QED
  BY <1>1, TypeCorrect, JoinStep, PTL DEF Spec

\* Whatever the number of sources and events, no event of a source that execute
\* waits for is refused by the closed queue or follows the terminator.
THEOREM JoinedNotLate == Spec => []JoinedBeforeTerminator
<1>1. JoinInv => JoinedBeforeTerminator
  BY DEF JoinInv
<1> QED
  BY <1>1, JoinInvariant, PTL

-----------------------------------------------------------------------------
(***************************************************************************)
(* Sequence numbers.  SequenceAccountedFor is inductive as it stands: the  *)
(* number handed out is one that no event has, and the second half of push *)
(* moves it from the producer into the log or into the refused events.     *)
(***************************************************************************)
LogSeqs    == {log[i].seq : i \in DOMAIN log}
FlightSeqs == {held[p].seq : p \in InFlight}
LateSeqs   == {e.seq : e \in late}

\* A step that leaves the log, the refused events and the producers between
\* the two halves of push alone preserves SequenceAccountedFor.
LEMMA SequenceUntouched ==
    ASSUME SequenceAccountedFor, UNCHANGED <<log, late, sequence>>,
           InFlight' = InFlight, \A p \in InFlight : held'[p] = held[p]
    PROVE  SequenceAccountedFor'
<1>1. FlightSeqs' = FlightSeqs
  BY DEF FlightSeqs
<1>2. LogSeqs' = LogSeqs /\ LateSeqs' = LateSeqs
  BY DEF LogSeqs, LateSeqs
<1> QED
  BY <1>1, <1>2 DEF SequenceAccountedFor, FlightSeqs, LogSeqs, LateSeqs

\* Stamping takes the next number and puts it in flight.
LEMMA SequenceStamp ==
    ASSUME TypeOK, SequenceAccountedFor, NEW p \in Producers, StampEvent(p)
    PROVE  SequenceAccountedFor'
<1>1. /\ UNCHANGED <<log, late>>
      /\ pc[p] = "stamp" /\ pc' = [pc EXCEPT ![p] = "append"]
      /\ sequence' = sequence + 1 /\ sequence \in Nat
  BY DEF StampEvent, queueVars, Goto, TypeOK
<1>2. InFlight' = InFlight \cup {p} /\ p \notin InFlight
  BY <1>1 DEF InFlight, TypeOK
<1>3. held'[p].seq = sequence /\ \A q \in InFlight : held'[q] = held[q]
  BY <1>1, <1>2 DEF StampEvent, TypeOK, Event, InFlight
<1>4. FlightSeqs' = FlightSeqs \cup {sequence}
  BY <1>2, <1>3 DEF FlightSeqs
<1>5. LogSeqs' = LogSeqs /\ LateSeqs' = LateSeqs
  BY <1>1 DEF LogSeqs, LateSeqs
<1>6. LogSeqs \cup FlightSeqs \cup LateSeqs = 0..(sequence - 1)
  BY DEF SequenceAccountedFor, LogSeqs, FlightSeqs, LateSeqs
<1>7. (LogSeqs \cup FlightSeqs \cup LateSeqs)' = 0..(sequence' - 1)
  <2>1. 0..(sequence' - 1) = 0..(sequence - 1) \cup {sequence}
    BY <1>1
  <2> QED
    BY <1>4, <1>5, <1>6, <2>1
<1>a. sequence \notin 0..(sequence - 1)
  BY <1>1
<1>b. sequence \notin LogSeqs /\ sequence \notin FlightSeqs
  BY <1>6, <1>a
<1>8. \A i \in DOMAIN log : log[i].seq # sequence
  BY <1>b DEF LogSeqs
<1>9. \A q \in InFlight : held[q].seq # sequence
  BY <1>b DEF FlightSeqs
<1>10. \A i, j \in DOMAIN log' : log'[i].seq = log'[j].seq => i = j
  BY <1>1 DEF SequenceAccountedFor
<1>11. \A i \in DOMAIN log', q \in InFlight' : log'[i].seq # held'[q].seq
  BY <1>1, <1>2, <1>3, <1>8 DEF SequenceAccountedFor
<1>12. \A q, r \in InFlight' : held'[q].seq = held'[r].seq => q = r
  BY <1>2, <1>3, <1>9 DEF SequenceAccountedFor
<1> QED
  BY <1>7, <1>10, <1>11, <1>12 DEF SequenceAccountedFor, LogSeqs, FlightSeqs, LateSeqs

\* A pushed event moves from flight to the log, or to the late ones once
\* the queue is closed.
LEMMA SequencePush ==
    ASSUME TypeOK, SequenceAccountedFor, NEW p \in Producers, QueuePush(p)
    PROVE  SequenceAccountedFor'
<1>1. /\ pc[p] = "append" /\ pc' = [pc EXCEPT ![p] = "signal"]
      /\ UNCHANGED <<held, sequence>>
  BY DEF QueuePush, Goto
<1>2. InFlight' = InFlight \ {p} /\ p \in InFlight
  BY <1>1 DEF InFlight, TypeOK
<1>3. FlightSeqs = FlightSeqs' \cup {held[p].seq}
  BY <1>1, <1>2 DEF FlightSeqs
<1>4. LogSeqs \cup FlightSeqs \cup LateSeqs = 0..(sequence - 1)
  BY DEF SequenceAccountedFor, LogSeqs, FlightSeqs, LateSeqs
<1>5. \A q, r \in InFlight' : held'[q].seq = held'[r].seq => q = r
  BY <1>1, <1>2 DEF SequenceAccountedFor
<1>6. CASE closed
  <2>1. UNCHANGED log /\ late' = late \cup {held[p]}
    BY <1>6 DEF QueuePush
  <2>2. LogSeqs' = LogSeqs /\ LateSeqs' = LateSeqs \cup {held[p].seq}
    BY <2>1 DEF LogSeqs, LateSeqs
  <2>3. (LogSeqs \cup FlightSeqs \cup LateSeqs)' = 0..(sequence' - 1)
    BY <1>1, <1>3, <1>4, <2>2
  <2>4. /\ \A i, j \in DOMAIN log' : log'[i].seq = log'[j].seq => i = j
        /\ \A i \in DOMAIN log', q \in InFlight' : log'[i].seq # held'[q].seq
    BY <1>1, <1>2, <2>1 DEF SequenceAccountedFor
  <2> QED
    BY <1>5, <2>3, <2>4 DEF SequenceAccountedFor, LogSeqs, FlightSeqs, LateSeqs
<1>7. CASE ~closed
  <2>1. UNCHANGED late /\ log' = Append(log, held[p])
    BY <1>7 DEF QueuePush
  <2>2. /\ Len(log) \in Nat /\ DOMAIN log = 1..Len(log)
        /\ DOMAIN log' = 1..(Len(log) + 1)
        /\ \A i \in 1..Len(log) : log'[i] = log[i]
        /\ log'[Len(log) + 1] = held[p]
    BY <2>1 DEF TypeOK
  <2>3. LogSeqs' = LogSeqs \cup {held[p].seq} /\ LateSeqs' = LateSeqs
    <3>1. LateSeqs' = LateSeqs
      BY <2>1 DEF LateSeqs
    <3>2. DOMAIN log' = DOMAIN log \cup {Len(log) + 1}
      BY <2>2
    <3>3. \A i \in DOMAIN log : log'[i].seq = log[i].seq
      BY <2>2
    <3>4. log'[Len(log) + 1].seq = held[p].seq
      BY <2>2
    <3> QED
      BY <3>1, <3>2, <3>3, <3>4 DEF LogSeqs
  <2>4. (LogSeqs \cup FlightSeqs \cup LateSeqs)' = 0..(sequence' - 1)
    BY <1>1, <1>3, <1>4, <2>3
  <2>5. \A i \in 1..Len(log) : log[i].seq # held[p].seq
    BY <1>2, <2>2 DEF SequenceAccountedFor
  <2>6. \A i, j \in DOMAIN log' : log'[i].seq = log'[j].seq => i = j
    BY <2>2, <2>5 DEF SequenceAccountedFor
  <2>7. \A i \in DOMAIN log', q \in InFlight' : log'[i].seq # held'[q].seq
    BY <1>1, <1>2, <2>2 DEF SequenceAccountedFor
  <2> QED
    BY <1>5, <2>4, <2>6, <2>7 DEF SequenceAccountedFor, LogSeqs, FlightSeqs, LateSeqs
<1> QED
  BY <1>6, <1>7

\* Every number handed out stays accounted for.
LEMMA SequenceStep == TypeOK /\ SequenceAccountedFor /\ [Next]_vars => SequenceAccountedFor'
<1> SUFFICES ASSUME TypeOK, SequenceAccountedFor, [Next]_vars
             PROVE  SequenceAccountedFor'
  OBVIOUS
<1> USE ProducerFacts
<1>1. ASSUME NEW s \in Sources, HandleEvent(s)
      PROVE  SequenceAccountedFor'
  <2>1. /\ UNCHANGED <<log, late, sequence>> /\ pc[s] = "idle"
        /\ pc' = pc \/ pc' = [pc EXCEPT ![s] = "stamp"]
        /\ held' = held \/ \E e : held' = [held EXCEPT ![s] = e]
    BY <1>1 DEF HandleEvent, queueVars, Goto
  <2>2. InFlight' = InFlight /\ \A p \in InFlight : held'[p] = held[p]
    BY <2>1 DEF InFlight, TypeOK
  <2> QED
    BY <2>1, <2>2, SequenceUntouched
<1>2. ASSUME NEW s \in Sources, Exit(s)
      PROVE  SequenceAccountedFor'
  <2>1. /\ UNCHANGED <<log, late, sequence, held>> /\ pc[s] = "idle"
        /\ pc' = [pc EXCEPT ![s] = "exited"]
    BY <1>2 DEF Exit, queueVars, Goto
  <2>2. InFlight' = InFlight /\ \A p \in InFlight : held'[p] = held[p]
    BY <2>1 DEF InFlight, TypeOK
  <2> QED
    BY <2>1, <2>2, SequenceUntouched
<1>3. ASSUME NEW p \in Producers, StampEvent(p)
      PROVE  SequenceAccountedFor'
  BY <1>3, SequenceStamp
<1>4. ASSUME NEW p \in Producers, QueuePush(p)
      PROVE  SequenceAccountedFor'
  BY <1>4, SequencePush
<1>5. ASSUME NEW p \in Producers, QueueSignal(p)
      PROVE  SequenceAccountedFor'
  <2>1. /\ UNCHANGED <<log, late, sequence>> /\ pc[p] = "signal"
        /\ \E t \in {"close", "idle"} : pc' = [pc EXCEPT ![p] = t]
        /\ held' = [held EXCEPT ![p] = Terminator]
    BY <1>5 DEF QueueSignal, queueVars, Goto
  <2>2. InFlight' = InFlight /\ \A q \in InFlight : held'[q] = held[q]
    BY <2>1 DEF InFlight, TypeOK
  <2> QED
    BY <2>1, <2>2, SequenceUntouched
<1>6. CASE MainNext
  <2>1. /\ UNCHANGED <<log, late, sequence, held>> /\ pc[Main] # "append"
        /\ \E t \in MainStates \ {"append"} : pc' = [pc EXCEPT ![Main] = t]
    BY <1>6 DEF MainNext, MainStep, BackendReturns, JoinForwarders, CloseHost, FlushStdout,
                Snapshot, CloseQueue, Broadcast, CloseDone, queueVars, Goto, MainStates
  <2>2. InFlight' = InFlight /\ \A q \in InFlight : held'[q] = held[q]
    BY <2>1 DEF InFlight, TypeOK
  <2> QED
    BY <2>1, <2>2, SequenceUntouched
<1>7. CASE PumpNext \/ Receive \/ Abandon \/ UNCHANGED vars
  <2>1. UNCHANGED <<log, late, sequence, held, pc>>
    BY <1>7 DEF PumpNext, PumpTake, PumpWait, PumpExit, Receive, Abandon, queueVars, vars
  <2> QED
    BY <2>1, SequenceUntouched DEF InFlight
<1> QED
  BY <1>1, <1>2, <1>3, <1>4, <1>5, <1>6, <1>7 DEF Next, SourceNext, PushNext

\* Whatever the interleaving of push calls, no two events share a sequence
\* number, and a number missing from the stream is that of an event in flight
\* or refused: the two critical sections of push lose no number.
THEOREM SequenceNumbers == Spec => []SequenceAccountedFor
<1>1. Init => SequenceAccountedFor
  <2> SUFFICES ASSUME Init
               PROVE  SequenceAccountedFor
    OBVIOUS
  <2>1. log = <<>> /\ late = {} /\ sequence = 0 /\ InFlight = {}
    BY DEF Init, InFlight
  <2> QED
    BY <2>1 DEF SequenceAccountedFor
<1> QED
  BY <1>1, TypeCorrect, SequenceStep, PTL DEF Spec

-----------------------------------------------------------------------------
(***************************************************************************)
(* The reader's view.  The log is what was received, then what the pump    *)
(* holds, then what is queued; a pump that returned found the queue closed *)
(* and empty.                                                              *)
(***************************************************************************)
FeedInv ==
    /\ Len(log) = Len(received) + Len(hand) + Len(items)
    /\ \A i \in 1..Len(hand) : hand[i] = log[Len(received) + i]
    /\ \A i \in 1..Len(items) : items[i] = log[Len(received) + Len(hand) + i]
    /\ pump = "exited" => closed /\ items = <<>> /\ hand = <<>>
    /\ pump = "waiting" => hand = <<>>

\* What a step does to the variables that the feed is about.
FeedVars == <<items, closed, pump, hand, received, log>>

\* A push onto the open queue is a push of the feed; onto the closed one, a
\* stutter.
LEMMA FeedPush ==
    ASSUME TypeOK, FeedInv, NEW p \in Producers, QueuePush(p)
    PROVE  FeedInv' /\ [Feed!Next]_(Feed!feedVars)
<1>1. CASE closed
  BY <1>1 DEF QueuePush, FeedInv, readerVars, Feed!feedVars, ChannelClosed
<1>2. CASE ~closed
  <2>1. /\ items' = Append(items, held[p]) /\ log' = Append(log, held[p])
        /\ UNCHANGED <<closed, pump, hand, received>>
    BY <1>2 DEF QueuePush, readerVars
  <2>2. /\ items \in Seq(Event) /\ log \in Seq(Event) /\ received \in Seq(Event)
        /\ hand \in Seq(Event) /\ held[p] \in Event
        /\ Len(items) \in Nat /\ Len(log) \in Nat /\ Len(received) \in Nat /\ Len(hand) \in Nat
    BY DEF TypeOK
  <2>3. /\ Len(log') = Len(log) + 1
        /\ \A i \in 1..Len(log) : log'[i] = log[i]
        /\ log'[Len(log) + 1] = held[p]
        /\ log' \in Seq(Event)
    BY <2>1, <2>2
  <2>4. /\ Len(items') = Len(items) + 1
        /\ \A i \in 1..Len(items) : items'[i] = items[i]
        /\ items'[Len(items) + 1] = held[p]
    BY <2>1, <2>2
  <2>5. \A i \in 1..Len(items') : items'[i] = log'[Len(received) + Len(hand) + i]
    <3> SUFFICES ASSUME NEW i \in 1..Len(items')
                 PROVE  items'[i] = log'[Len(received) + Len(hand) + i]
      OBVIOUS
    <3>1. CASE i \in 1..Len(items)
      <4>1. items'[i] = log[Len(received) + Len(hand) + i]
        BY <3>1, <2>4 DEF FeedInv
      <4>2. Len(received) + Len(hand) + i \in 1..Len(log)
        BY <3>1, <2>2 DEF FeedInv
      <4> QED
        BY <4>1, <4>2, <2>3
    <3>2. CASE i = Len(items) + 1
      <4>1. Len(received) + Len(hand) + i = Len(log) + 1
        BY <3>2, <2>2 DEF FeedInv
      <4> QED
        BY <3>2, <4>1, <2>3, <2>4
    <3> QED
      BY <3>1, <3>2, <2>2, <2>4
  <2>6. \A i \in 1..Len(hand) : hand[i] = log'[Len(received) + i]
    BY <2>2, <2>3 DEF FeedInv
  <2>7. FeedInv'
    <3>1. Len(log') = Len(received') + Len(hand') + Len(items')
      BY <2>1, <2>2, <2>3, <2>4 DEF FeedInv
    <3>2. pump' # "exited" /\ (pump' = "waiting" => hand' = <<>>)
      BY <1>2, <2>1 DEF FeedInv
    <3> QED
      BY <2>1, <2>5, <2>6, <3>1, <3>2 DEF FeedInv
  <2>8. Feed!Publish
    BY <1>2, <2>1, <2>3 DEF Feed!Publish, ChannelClosed
  <2> QED
    BY <2>7, <2>8 DEF Feed!Next
<1> QED
  BY <1>1, <1>2

\* The pump taking the next event is not visible to the reader.
LEMMA FeedTake ==
    ASSUME TypeOK, FeedInv, PumpTake
    PROVE  FeedInv' /\ UNCHANGED Feed!feedVars
<1>1. /\ hand = <<>> /\ hand' = <<Head(items)>> /\ items' = Tail(items) /\ items # <<>>
      /\ UNCHANGED <<closed, pump, received, log>> /\ pump = "running"
  BY DEF PumpTake
<1>2. /\ items \in Seq(Event) /\ Len(items) \in Nat /\ Len(items) > 0 /\ Len(received) \in Nat
  BY <1>1 DEF TypeOK
<1>3. /\ Len(hand') = 1 /\ hand'[1] = items[1] /\ Len(hand) = 0
      /\ Len(items') = Len(items) - 1
      /\ \A i \in 1..(Len(items) - 1) : items'[i] = items[i + 1]
  BY <1>1, <1>2
<1>4. \A i \in 1..Len(items) : items[i] = log[Len(received) + i]
  BY <1>2, <1>3 DEF FeedInv
<1>5. \A i \in 1..Len(items') : items'[i] = log[Len(received) + 1 + i]
  <2> SUFFICES ASSUME NEW i \in 1..Len(items')
               PROVE  items'[i] = log[Len(received) + 1 + i]
    OBVIOUS
  <2>1. i + 1 \in 1..Len(items) /\ items'[i] = items[i + 1]
    BY <1>2, <1>3
  <2>2. Len(received) + (i + 1) = Len(received) + 1 + i
    BY <1>2, <1>3
  <2> QED
    BY <1>4, <2>1, <2>2
<1>6. \A i \in 1..Len(hand') : hand'[i] = log[Len(received) + i]
  BY <1>2, <1>3, <1>4
<1>7. Len(log) = Len(received) + Len(hand') + Len(items')
  BY <1>2, <1>3 DEF FeedInv
<1> QED
  BY <1>1, <1>2, <1>3, <1>5, <1>6, <1>7 DEF FeedInv, Feed!feedVars, ChannelClosed

\* A receive shows the reader the next event of the feed.
LEMMA FeedReceive ==
    ASSUME TypeOK, FeedInv, Receive
    PROVE  FeedInv' /\ Feed!Show
<1>1. /\ hand # <<>> /\ hand' = <<>> /\ received' = Append(received, Head(hand))
      /\ UNCHANGED <<closed, pump, items, log>>
  BY DEF Receive, queueVars
<1>2. /\ hand \in Seq(Event) /\ received \in Seq(Event) /\ items \in Seq(Event)
      /\ Len(received) \in Nat /\ Len(items) \in Nat /\ Len(log) \in Nat
      /\ Len(hand) \in Nat /\ Len(hand) <= 1
  BY DEF TypeOK
<1>a. Len(hand) # 0
  BY <1>1, <1>2
<1>b. Len(hand) = 1
  <2>1. \A n \in Nat : n <= 1 /\ n # 0 => n = 1
    OBVIOUS
  <2> QED
    BY <1>2, <1>a, <2>1, Zenon
<1>3. received' = Append(received, hand[1])
  BY <1>1, <1>2
<1>4. Len(received') = Len(received) + 1 /\ Len(hand') = 0
  BY <1>1, <1>2, <1>3
<1>5. hand[1] = log[Len(received) + 1] /\ Len(received) < Len(log)
  BY <1>2, <1>b DEF FeedInv
<1>6. Feed!Show
  BY <1>1, <1>3, <1>5 DEF Feed!Show, ChannelClosed
<1>7. \A i \in 1..Len(items') : items'[i] = log'[Len(received') + Len(hand') + i]
  BY <1>1, <1>2, <1>4, <1>b DEF FeedInv
<1>8. Len(log') = Len(received') + Len(hand') + Len(items')
  BY <1>1, <1>2, <1>4, <1>b DEF FeedInv
<1>9. pump' # "exited"
  BY <1>1 DEF FeedInv
<1>10. \A i \in 1..Len(hand') : hand'[i] = log'[Len(received') + i]
  BY <1>4
<1> QED
  BY <1>1, <1>6, <1>7, <1>8, <1>9, <1>10 DEF FeedInv

\* Every step is a step or a stutter of the feed.
LEMMA FeedStep == TypeOK /\ FeedInv /\ [Next]_vars => FeedInv' /\ [Feed!Next]_(Feed!feedVars)
<1> SUFFICES ASSUME TypeOK, FeedInv, [Next]_vars
             PROVE  FeedInv' /\ [Feed!Next]_(Feed!feedVars)
  OBVIOUS
<1>1. ASSUME NEW s \in Sources, SourceNext(s)
      PROVE  UNCHANGED FeedVars
  BY <1>1 DEF SourceNext, HandleEvent, Exit, queueVars, readerVars, FeedVars
<1>2. ASSUME NEW p \in Producers, StampEvent(p)
      PROVE  UNCHANGED FeedVars
  BY <1>2 DEF StampEvent, queueVars, readerVars, FeedVars
<1>3. CASE Abandon \/ UNCHANGED vars
  BY <1>3 DEF Abandon, vars, queueVars, FeedInv, Feed!feedVars, ChannelClosed
<1>4. ASSUME UNCHANGED FeedVars
      PROVE  FeedInv' /\ [Feed!Next]_(Feed!feedVars)
  BY <1>4 DEF FeedVars, FeedInv, Feed!feedVars, ChannelClosed
<1>5. ASSUME NEW p \in Producers, QueuePush(p)
      PROVE  FeedInv' /\ [Feed!Next]_(Feed!feedVars)
  BY <1>5, FeedPush
<1>6. ASSUME UNCHANGED <<items, closed, hand, received, log>>, WakePump
      PROVE  FeedInv' /\ [Feed!Next]_(Feed!feedVars)
  BY <1>6 DEF WakePump, FeedInv, Feed!feedVars, ChannelClosed
<1>7. ASSUME NEW p \in Producers, QueueSignal(p)
      PROVE  FeedInv' /\ [Feed!Next]_(Feed!feedVars)
  BY <1>6, <1>7 DEF QueueSignal, queueVars, readerVars
<1>8. CASE MainNext
  <2>1. CASE Broadcast
    BY <1>6, <2>1 DEF Broadcast, MainStep, queueVars, readerVars
  <2>2. CASE CloseQueue
    <3>1. closed' = TRUE /\ UNCHANGED <<items, pump, hand, received, log>>
      BY <2>2 DEF CloseQueue, MainStep, readerVars
    <3>2. CASE closed
      BY <3>1, <3>2 DEF FeedInv, Feed!feedVars, ChannelClosed, TypeOK
    <3>3. CASE ~closed
      BY <3>1, <3>3 DEF FeedInv, Feed!Next, Feed!End, ChannelClosed
    <3> QED
      BY <3>2, <3>3
  <2>3. CASE BackendReturns \/ JoinForwarders \/ CloseHost \/ FlushStdout \/ Snapshot \/ CloseDone
    BY <1>4, <2>3 DEF BackendReturns, JoinForwarders, CloseHost, FlushStdout, Snapshot,
                      CloseDone, MainStep, queueVars, readerVars, FeedVars
  <2> QED
    BY <1>8, <2>1, <2>2, <2>3 DEF MainNext
<1>9. CASE PumpTake
  BY <1>9, FeedTake
<1>10. CASE PumpWait
  BY <1>10 DEF PumpWait, FeedInv, queueVars, readerVars, Feed!feedVars, ChannelClosed
<1>11. CASE PumpExit
  <2>1. /\ closed /\ items = <<>> /\ hand = <<>> /\ pump = "running" /\ pump' = "exited"
        /\ UNCHANGED <<items, closed, hand, received, log>>
    BY <1>11 DEF PumpExit, queueVars, readerVars
  <2>2. Len(items) = 0 /\ Len(hand) = 0 /\ Len(received) \in Nat
    BY <2>1 DEF TypeOK
  <2>3. Len(received) = Len(log)
    BY <2>2 DEF FeedInv
  <2>4. Feed!Finish
    BY <2>1, <2>3 DEF Feed!Finish, ChannelClosed
  <2>5. FeedInv'
    BY <2>1 DEF FeedInv
  <2> QED
    BY <2>4, <2>5 DEF Feed!Next
<1>12. CASE Receive
  BY <1>12, FeedReceive DEF Feed!Next
<1> QED
  BY <1>1, <1>2, <1>3, <1>4, <1>5, <1>7, <1>8, <1>9, <1>10, <1>11, <1>12
     DEF Next, PushNext, PumpNext

\* Operation.Events() implements the feed: for any sources and any reader, what
\* is received is the log from its first event on, in order and without gaps,
\* nothing is accepted once the queue is closed, and the channel closes only
\* when everything accepted was received.
THEOREM EventsImplementFeed == Spec => ImplementsFeed
<1>1. Init => FeedInv /\ Feed!Init
  <2> SUFFICES ASSUME Init
               PROVE  FeedInv /\ Feed!Init
    OBVIOUS
  <2>1. Len(<<>>) = 0
    OBVIOUS
  <2> QED
    BY <2>1 DEF Init, FeedInv, Feed!Init, ChannelClosed
<1> QED
  BY <1>1, FeedStep, TypeCorrect, PTL DEF Spec, ImplementsFeed, Feed!Spec

-----------------------------------------------------------------------------
(***************************************************************************)
(* The result.  What was recorded is what the log has or what a source is  *)
(* about to push; a refused event was never recorded, because only tracers *)
(* are refused and theirs are plain; and once finish has copied the notes, *)
(* every source that records any has exited.                               *)
(***************************************************************************)
AfterSnapshot == AfterAppend \cup {"stamp", "append"}

LogNotes  == {Id(log[i]) : i \in {j \in DOMAIN log : log[j].kind = "note"}}
Carrying  == {s \in Sources : pc[s] \in {"stamp", "append"} /\ held[s].kind = "note"}
HeldNotes == {Id(held[s]) : s \in Carrying}

NoteInv ==
    /\ held[Main].kind = "cancel"
    /\ \A s \in Sources : pc[s] \in {"stamp", "append"} => held[s].kind \in KindsOf(s)
    /\ noted = LogNotes \cup HeldNotes
    /\ pc[Main] \in AfterSnapshot => result = noted

\* Only a source that execute waits for records anything.
LEMMA NotesAreJoined ==
    ASSUME NEW s \in Sources, "note" \in KindsOf(s)
    PROVE  s \in Joined
BY DEF KindsOf, Joined

\* A step that touches no held event, no note and no log entry.
LEMMA NotesUntouched ==
    ASSUME NoteInv, UNCHANGED <<held, noted, log>>, Carrying' = Carrying,
           \A s \in Sources : pc'[s] \in {"stamp", "append"} => pc[s] \in {"stamp", "append"},
           pc'[Main] \in AfterSnapshot => result' = noted
    PROVE  NoteInv'
<1>1. LogNotes' = LogNotes /\ HeldNotes' = HeldNotes
  BY DEF LogNotes, HeldNotes
<1> QED
  BY <1>1 DEF NoteInv

\* A source records and takes up an event in one step.
LEMMA NotesHandle ==
    ASSUME TypeOK, JoinInv, NoteInv, NEW s \in Sources, HandleEvent(s)
    PROVE  NoteInv'
<1> USE ProducerFacts DEF TypeOK
<1>1. PICK e \in NextEvents(s) :
        \/ e.kind = "cancel" /\ UNCHANGED <<pc, held, noted>>
        \/ /\ e.kind # "cancel"
           /\ held' = [held EXCEPT ![s] = e]
           /\ noted' = IF e.kind = "note" THEN noted \cup {Id(e)} ELSE noted
           /\ pc' = [pc EXCEPT ![s] = "stamp"]
  BY DEF HandleEvent, Goto
<1>2. pc[s] = "idle" /\ UNCHANGED <<result, log>> /\ s # Main /\ e.kind \in KindsOf(s)
  BY <1>1 DEF HandleEvent, queueVars, NextEvents
<1>3. CASE e.kind = "cancel"
  BY <1>1, <1>2, <1>3, NotesUntouched DEF NoteInv, Carrying
<1>4. CASE e.kind # "cancel"
  <2>1. /\ held' = [held EXCEPT ![s] = e]
        /\ noted' = IF e.kind = "note" THEN noted \cup {Id(e)} ELSE noted
        /\ pc' = [pc EXCEPT ![s] = "stamp"]
    BY <1>1, <1>4
  <2>2. LogNotes' = LogNotes
    BY <1>2 DEF LogNotes
  <2>3. \A r \in Sources : r \in Carrying' <=> r \in Carrying \/ (r = s /\ e.kind = "note")
    BY <1>2, <2>1 DEF Carrying
  <2>4. s \notin Carrying
    BY <1>2 DEF Carrying
  <2>5. HeldNotes' = IF e.kind = "note" THEN HeldNotes \cup {Id(e)} ELSE HeldNotes
    <3>1. \A r \in Carrying : r \in Carrying' /\ held'[r] = held[r]
      BY <2>1, <2>3, <2>4 DEF Carrying
    <3>2. \A r \in Carrying' : r \in Carrying \/ (r = s /\ e.kind = "note" /\ held'[r] = e)
      BY <2>1, <2>3 DEF Carrying
    <3>3. e.kind = "note" => s \in Carrying' /\ held'[s] = e
      BY <2>1, <2>3
    <3> QED
      BY <3>1, <3>2, <3>3 DEF HeldNotes
  <2>6. pc[Main] \in AfterSnapshot => noted' = noted
    <3>1. CASE e.kind = "note"
      BY <1>2, <3>1, NotesAreJoined, JoinedAtWork DEF AfterSnapshot, AfterFlush
    <3> QED
      BY <2>1, <3>1
  <2> QED
    BY <1>2, <2>1, <2>2, <2>5, <2>6 DEF NoteInv
<1> QED
  BY <1>3, <1>4

\* The number of an event is not part of its identity.
LEMMA NotesStamp ==
    ASSUME TypeOK, NoteInv, NEW p \in Producers, StampEvent(p)
    PROVE  NoteInv'
<1> USE ProducerFacts DEF TypeOK
<1>1. /\ pc[p] = "stamp" /\ pc' = [pc EXCEPT ![p] = "append"]
      /\ held' = [held EXCEPT ![p].seq = sequence]
      /\ UNCHANGED <<noted, result, log>>
  BY DEF StampEvent, Goto, noteVars, queueVars
<1>2. \A q \in Producers : held'[q].kind = held[q].kind /\ Id(held'[q]) = Id(held[q])
  BY <1>1 DEF Event, Id
<1>3. Carrying' = Carrying
  BY <1>1, <1>2 DEF Carrying
<1>4. LogNotes' = LogNotes
  BY <1>1 DEF LogNotes
<1>a. HeldNotes' = HeldNotes
  <2>1. \A s \in Carrying : Id(held'[s]) = Id(held[s])
    BY <1>2 DEF Carrying
  <2> QED
    BY <1>3, <2>1 DEF HeldNotes
<1>5. pc'[Main] \in AfterSnapshot => pc[Main] \in AfterSnapshot
  BY <1>1 DEF AfterSnapshot
<1>6. \A s \in Sources : pc'[s] \in {"stamp", "append"} => held'[s].kind \in KindsOf(s)
  BY <1>1, <1>2 DEF NoteInv
<1> QED
  BY <1>1, <1>2, <1>4, <1>a, <1>5, <1>6 DEF NoteInv

\* A note goes from its source into the log; the closed queue refuses none.
LEMMA NotesPush ==
    ASSUME TypeOK, JoinInv, NoteInv, NEW p \in Producers, QueuePush(p)
    PROVE  NoteInv'
<1> USE ProducerFacts DEF TypeOK
<1>1. /\ pc[p] = "append" /\ pc' = [pc EXCEPT ![p] = "signal"]
      /\ UNCHANGED <<held, noted, result>>
      /\ \/ ~closed /\ log' = Append(log, held[p])
         \/ closed /\ log' = log
  BY DEF QueuePush, Goto, noteVars
<1>2. /\ pc'[Main] \in AfterSnapshot => pc[Main] \in AfterSnapshot
      /\ \A s \in Sources : pc'[s] \in {"stamp", "append"} => pc[s] \in {"stamp", "append"} /\ s # p
  BY <1>1 DEF AfterSnapshot
<1>3. Carrying' = Carrying \ {p}
  BY <1>1, <1>2 DEF Carrying
<1>4. held[p].kind = "note" => p \in Carrying
  BY <1>1 DEF Carrying, NoteInv, Producers
<1>5. LogNotes' = IF ~closed /\ held[p].kind = "note" THEN LogNotes \cup {Id(held[p])} ELSE LogNotes
  <2>1. CASE closed
    BY <1>1, <2>1 DEF LogNotes
  <2>2. CASE ~closed
    <3>1. /\ DOMAIN log = 1..Len(log) /\ Len(log) \in Nat
          /\ DOMAIN log' = 1..(Len(log) + 1)
          /\ log'[Len(log) + 1] = held[p]
          /\ \A i \in 1..Len(log) : log'[i] = log[i]
      <4>1. log \in Seq(Event) /\ held[p] \in Event /\ log' = Append(log, held[p])
        BY <1>1, <2>2
      <4> QED
        BY <4>1
    <3>2. {j \in DOMAIN log' : log'[j].kind = "note"} =
            {j \in DOMAIN log : log[j].kind = "note"}
              \cup (IF held[p].kind = "note" THEN {Len(log) + 1} ELSE {})
      BY <3>1
    <3> QED
      BY <2>2, <3>1, <3>2 DEF LogNotes
  <2> QED
    BY <2>1, <2>2
<1>6. closed => p \notin Carrying
  <2> SUFFICES ASSUME p \in Carrying
               PROVE  ~closed
    OBVIOUS
  <2>1. p \in Sources /\ "note" \in KindsOf(p)
    BY <1>1 DEF Carrying, NoteInv
  <2> QED
    BY <1>1, <2>1, NotesAreJoined, JoinedAtWork
<1>7. HeldNotes' \subseteq HeldNotes
  BY <1>1, <1>3 DEF HeldNotes
<1>8. HeldNotes \subseteq HeldNotes' \cup (IF p \in Carrying THEN {Id(held[p])} ELSE {})
  BY <1>1, <1>3 DEF HeldNotes
<1>9. p \in Carrying => Id(held[p]) \in HeldNotes /\ held[p].kind = "note"
  BY DEF HeldNotes, Carrying
<1>10. LogNotes' \cup HeldNotes' = LogNotes \cup HeldNotes
  BY <1>4, <1>5, <1>6, <1>7, <1>8, <1>9
<1> QED
  BY <1>1, <1>2, <1>10 DEF NoteInv

\* Every step keeps the account of the notes.
LEMMA NoteStep == TypeOK /\ JoinInv /\ NoteInv /\ [Next]_vars => NoteInv'
<1> SUFFICES ASSUME TypeOK, JoinInv, NoteInv, [Next]_vars
             PROVE  NoteInv'
  OBVIOUS
<1> USE ProducerFacts
<1>1. ASSUME NEW s \in Sources, Exit(s)
      PROVE  NoteInv'
  <2>1. /\ pc[s] = "idle" /\ pc' = [pc EXCEPT ![s] = "exited"]
        /\ UNCHANGED <<held, noted, result, log>>
    BY <1>1 DEF Exit, Goto, noteVars, queueVars
  <2>2. Carrying' = Carrying
    BY <2>1 DEF Carrying, TypeOK
  <2> QED
    BY <2>1, <2>2, NotesUntouched DEF NoteInv, TypeOK
<1>2. ASSUME NEW p \in Producers, QueueSignal(p)
      PROVE  NoteInv'
  <2>1. /\ pc[p] = "signal" /\ held' = [held EXCEPT ![p] = Terminator]
        /\ pc' = [pc EXCEPT ![p] = IF p = Main THEN "close" ELSE "idle"]
        /\ UNCHANGED <<noted, result, log>>
    BY <1>2 DEF QueueSignal, Goto, noteVars, queueVars
  <2>2. /\ \A s \in Sources : pc'[s] \in {"stamp", "append"} =>
              s # p /\ pc'[s] = pc[s] /\ held'[s] = held[s]
        /\ \A s \in Sources : pc[s] \in {"stamp", "append"} =>
              s # p /\ pc'[s] = pc[s] /\ held'[s] = held[s]
    BY <2>1 DEF TypeOK
  <2>3. Carrying' = Carrying /\ \A s \in Carrying : held'[s] = held[s]
    BY <2>2 DEF Carrying
  <2>4. LogNotes' = LogNotes /\ HeldNotes' = HeldNotes
    BY <2>1, <2>3 DEF LogNotes, HeldNotes
  <2>5. held'[Main].kind = "cancel"
    BY <2>1 DEF NoteInv, Terminator, TypeOK
  <2>6. pc'[Main] \in AfterSnapshot => pc[Main] \in AfterSnapshot
    BY <2>1 DEF AfterSnapshot, AfterAppend, TypeOK
  <2> QED
    BY <2>1, <2>2, <2>4, <2>5, <2>6 DEF NoteInv
<1>3. CASE MainNext
  <2>1. /\ \A s \in Sources : pc'[s] = pc[s]
        /\ UNCHANGED <<held, noted, log>>
    BY <1>3 DEF MainNext, BackendReturns, JoinForwarders, CloseHost, FlushStdout, Snapshot,
                CloseQueue, Broadcast, CloseDone, MainStep, Goto, queueVars, TypeOK
  <2>2. Carrying' = Carrying
    BY <2>1 DEF Carrying
  <2>3. pc'[Main] \in AfterSnapshot => result' = noted
    BY <1>3 DEF MainNext, BackendReturns, JoinForwarders, CloseHost, FlushStdout, Snapshot,
                CloseQueue, Broadcast, CloseDone, MainStep, Goto, TypeOK, NoteInv,
                AfterSnapshot, AfterAppend, AfterPush
  <2> QED
    BY <2>1, <2>2, <2>3, NotesUntouched
<1>4. CASE PumpNext \/ Receive \/ Abandon \/ UNCHANGED vars
  <2>1. UNCHANGED <<pc, held, noted, result, log>>
    BY <1>4 DEF PumpNext, PumpTake, PumpWait, PumpExit, Receive, Abandon, vars, noteVars, queueVars
  <2> QED
    BY <2>1, NotesUntouched DEF NoteInv, Carrying
<1> QED
  BY <1>1, <1>2, <1>3, <1>4, NotesHandle, NotesStamp, NotesPush DEF Next, SourceNext, PushNext

\* The result of a finished operation has exactly the failures, error
\* diagnostics and summary of its stream, for any sources and any number of
\* events (operation.go, handleEvent and finish).
THEOREM ResultIsTheStreams == Spec => []ResultMatchesStream
<1>1. Init => NoteInv
  <2> SUFFICES ASSUME Init
               PROVE  NoteInv
    OBVIOUS
  <2>1. LogNotes = {} /\ Carrying = {}
    BY ProducerFacts DEF Init, LogNotes, Carrying
  <2>2. HeldNotes = {}
    BY <2>1 DEF HeldNotes
  <2> QED
    BY <2>1, <2>2, ProducerFacts DEF Init, NoteInv, Terminator, AfterSnapshot, AfterAppend, AfterPush
<1>2. TypeOK /\ JoinInv /\ NoteInv => ResultMatchesStream
  <2> SUFFICES ASSUME TypeOK, JoinInv, NoteInv, Finished
               PROVE  result = LogNotes
    BY DEF ResultMatchesStream, LogNotes
  <2>1. pc[Main] = "returned" /\ result = noted
    BY DEF Finished, NoteInv, AfterSnapshot, AfterAppend, AfterPush
  <2>2. ASSUME NEW s \in Carrying
        PROVE  FALSE
    <3>1. s \in Sources /\ "note" \in KindsOf(s) /\ pc[s] # "exited"
      BY DEF Carrying, NoteInv
    <3> QED
      BY <2>1, <3>1, NotesAreJoined, JoinedAtWork DEF AfterFlush, AfterAppend, AfterPush
  <2>3. HeldNotes = {}
    BY <2>2 DEF HeldNotes
  <2> QED
    BY <2>1, <2>3 DEF NoteInv
<1> QED
  BY <1>1, <1>2, TypeCorrect, JoinInvariant, NoteStep, PTL DEF Spec

-----------------------------------------------------------------------------
(* The pump's wake-up. *)

\* Who appends or closes is at its signal next, and whoever signals wakes.
LEMMA WokenStep == TypeOK /\ PumpWoken /\ [Next]_vars => PumpWoken'
<1> SUFFICES ASSUME TypeOK, PumpWoken, [Next]_vars
             PROVE  PumpWoken'
  OBVIOUS
<1>0. pc \in [Producers -> SourceStates \cup MainStates] /\ Main \in Producers /\ Main \notin Sources
      /\ Sources \subseteq Producers
  BY ProducerFacts, StreamAssumption DEF TypeOK, Producers
<1>1. ASSUME UNCHANGED <<items, closed, pump>>,
             \A p \in Producers : pc[p] = "signal" => pc'[p] = "signal",
             pc[Main] = "broadcast" => pc'[Main] = "broadcast"
      PROVE  PumpWoken'
  BY <1>1 DEF PumpWoken
<1>2. ASSUME WakePump
      PROVE  PumpWoken'
  BY <1>2 DEF WakePump, PumpWoken
<1>3. ASSUME NEW s \in Sources, SourceNext(s)
      PROVE  PumpWoken'
  <2>1. pc[s] = "idle" /\ UNCHANGED <<items, closed, pump>>
    BY <1>3 DEF SourceNext, HandleEvent, Exit, queueVars
  <2>2. \A p \in Producers \ {s} : pc'[p] = pc[p]
    BY <1>0, <1>3 DEF SourceNext, HandleEvent, Exit, Goto
  <2> QED
    BY <1>0, <1>1, <2>1, <2>2
<1>4. ASSUME NEW p \in Producers, StampEvent(p)
      PROVE  PumpWoken'
  BY <1>0, <1>1, <1>4 DEF StampEvent, Goto, queueVars
<1>5. ASSUME NEW p \in Producers, QueuePush(p)
      PROVE  PumpWoken'
  BY <1>0, <1>5 DEF QueuePush, Goto, PumpWoken
<1>6. ASSUME NEW p \in Producers, QueueSignal(p)
      PROVE  PumpWoken'
  BY <1>2, <1>6 DEF QueueSignal
<1>7. CASE MainNext
  <2>1. CASE CloseQueue
    BY <1>0, <2>1 DEF CloseQueue, MainStep, Goto, PumpWoken
  <2>2. CASE Broadcast
    BY <1>2, <2>2 DEF Broadcast
  <2>3. CASE BackendReturns \/ JoinForwarders \/ CloseHost \/ FlushStdout \/ Snapshot \/ CloseDone
    <3>1. /\ UNCHANGED <<items, closed, pump>>
          /\ pc[Main] \in {"backend", "forwarded", "hostClose", "flush", "finish", "done"}
          /\ \A p \in Producers \ {Main} : pc'[p] = pc[p]
      BY <1>0, <2>3 DEF BackendReturns, JoinForwarders, CloseHost, FlushStdout, Snapshot,
                        CloseDone, MainStep, Goto, queueVars
    <3> QED
      BY <1>1, <3>1
  <2> QED
    BY <1>7, <2>1, <2>2, <2>3 DEF MainNext
<1>8. CASE PumpNext
  BY <1>8 DEF PumpNext, PumpTake, PumpWait, PumpExit, PumpWoken, queueVars
<1>9. CASE Receive \/ Abandon \/ UNCHANGED vars
  BY <1>1, <1>9 DEF Receive, Abandon, vars, queueVars
<1> QED
  BY <1>3, <1>4, <1>5, <1>6, <1>7, <1>8, <1>9 DEF Next, PushNext

\* No wake-up of the pump is lost, for any number of sources: while it sleeps
\* with something to do, a goroutine is about to signal (operation.go,
\* eventQueue).
THEOREM NoLostWakeup == Spec => []PumpWoken
<1>1. Init => PumpWoken
  BY DEF Init, PumpWoken
<1> QED
  BY <1>1, TypeCorrect, WokenStep, PTL DEF Spec

=============================================================================
