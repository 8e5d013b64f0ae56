---------------------------- MODULE EventStream ----------------------------
(***************************************************************************)
(* The event path of one Operation (src/engine/operation.go).              *)
(*                                                                         *)
(* Several goroutines call handleEvent: the one that forwards the engine's *)
(* event channel (or the loopback event sink), the plugin host's diag      *)
(* emitters, the stdout pump with the operation's banner, and the tracers  *)
(* that copy a launched language host's output.  The operation's own       *)
(* goroutine (Main) waits for the first three kinds on its way out of      *)
(* execute, and nobody waits for the tracers; it then classifies the       *)
(* error, pushes the terminator, closes the queue and closes done.         *)
(* handleEvent stamps the sequence number under Operation.mu and appends   *)
(* under eventQueue.mu, two separate critical sections, so every critical  *)
(* section is one action here.  A pump goroutine moves the queue into an   *)
(* unbuffered channel, which the caller may or may not read.               *)
(***************************************************************************)
EXTENDS Integers, Sequences

CONSTANTS
    Forwarders,   \* goroutines that end with the backend call (`<-forwarded`, sink.Close)
    HostDiags,    \* diag emitters that end with host.close
    Banners,      \* the pump's delivery of this operation's own banner, awaited by the flush
    Tracers,      \* nobody awaits them: runtrace goroutines of launched language hosts
    Main,         \* the goroutine of Operation.run
    MaxEvents     \* bound: events each source emits

Sources   == Forwarders \cup HostDiags \cup Banners \cup Tracers
Joined    == Forwarders \cup HostDiags \cup Banners
Producers == Sources \cup {Main}

ASSUME StreamAssumption ==
    /\ MaxEvents \in [Sources -> Nat]
    /\ Main \notin Sources
    /\ Forwarders \cap (HostDiags \cup Banners \cup Tracers) = {}
    /\ HostDiags \cap (Banners \cup Tracers) = {}
    /\ Banners \cap Tracers = {}

(***************************************************************************)
(* An event is its source, its number among that source's events, what     *)
(* handleEvent makes of it and its sequence number (0 until it is          *)
(* stamped).  A "note" (summary, resource failure, error diagnostic) is    *)
(* recorded for the result, a "cancel" is a terminator, the rest is        *)
(* "plain".                                                                *)
(***************************************************************************)
Kinds == {"note", "plain", "cancel"}
Event == [src : Producers, n : Nat, kind : Kinds, seq : Nat]

\* Only the engine's own stream has a cancel event; the banner is a stdout
\* event and the tracers log at info severity, so neither is ever recorded.
KindsOf(s) ==
    CASE s \in Forwarders -> Kinds
      [] s \in HostDiags  -> {"note", "plain"}
      [] OTHER            -> {"plain"}

\* The event finish pushes.  It also stands for "no event" in the hand of a
\* source between two calls of handleEvent, where nothing reads it.
Terminator == [src |-> Main, n |-> 1, kind |-> "cancel", seq |-> 0]

SourceStates == {"idle", "stamp", "append", "signal", "exited"}
MainStates   == {"backend", "forwarded", "hostClose", "flush", "finish", "stamp",
                 "append", "signal", "close", "broadcast", "done", "returned"}

VARIABLES
    pc,         \* where each producer is
    held,       \* the event each producer is delivering
    emitted,    \* how many events each source has passed to handleEvent
    sequence,   \* Operation.sequence
    noted,      \* what classification reads: Operation.summary, failures, urnDiags
    result,     \* what finish copied from it into Operation.result
    items,      \* eventQueue.items
    closed,     \* eventQueue.closed
    pump,       \* the pump goroutine: "running", asleep in cond.Wait, or "exited"
    hand,       \* the event the pump is sending, if any
    received,   \* history: what the reader took from the channel
    reading,    \* the caller still reads Events()
    log,        \* history: every event the queue accepted
    late        \* history: every event the queue refused because it was closed

vars == <<pc, held, emitted, sequence, noted, result, items, closed, pump, hand,
          received, reading, log, late>>
queueVars  == <<items, closed, log, late>>
readerVars == <<hand, received, reading>>
noteVars   == <<noted, result>>

Id(e) == <<e.src, e.n>>
Ids   == Producers \X Nat

Init ==
    /\ pc = [p \in Producers |-> IF p = Main THEN "backend" ELSE "idle"]
    /\ held = [p \in Producers |-> Terminator]
    /\ emitted = [s \in Sources |-> 0]
    /\ sequence = 0
    /\ noted = {}
    /\ result = {}
    /\ items = <<>>
    /\ closed = FALSE
    /\ pump = "running"
    /\ hand = <<>>
    /\ received = <<>>
    /\ reading = TRUE
    /\ log = <<>>
    /\ late = {}

Goto(p, state) == pc' = [pc EXCEPT ![p] = state]

\* cond.Signal and cond.Broadcast wake the one goroutine that ever waits.
WakePump == pump' = IF pump = "waiting" THEN "running" ELSE pump

\* A step of Main that leaves the events, the result and the reader alone.
MainStep(from, to) ==
    /\ pc[Main] = from
    /\ Goto(Main, to)
    /\ UNCHANGED <<held, emitted, sequence, noted, readerVars>>

\* The events source s may come by next.
NextEvents(s) == {[src |-> s, n |-> emitted[s] + 1, kind |-> k, seq |-> 0] : k \in KindsOf(s)}

AllExited(S) == \A s \in S : pc[s] = "exited"

-----------------------------------------------------------------------------
(***************************************************************************)
(* Faulty variants of the actions below, one slip each.  They are not part *)
(* of the specification; every property at the end of the module fails     *)
(* when one of them takes the place of the action it is named after.       *)
(***************************************************************************)

\* push without the increment.
StampEventNoIncrement(p) ==
    /\ pc[p] = "stamp"
    /\ held' = [held EXCEPT ![p].seq = sequence]
    /\ Goto(p, "append")
    /\ UNCHANGED <<emitted, sequence, noteVars, queueVars, pump, readerVars>>

\* A queue bounded to one event: push blocks on a reader that is gone.
QueuePushBounded(p) ==
    /\ pc[p] = "append"
    /\ items = <<>>
    /\ items' = Append(items, held[p])
    /\ log' = Append(log, held[p])
    /\ Goto(p, "signal")
    /\ UNCHANGED <<held, emitted, sequence, noteVars, closed, late, pump, readerVars>>

\* close(raw) without `<-forwarded`.
JoinForwardersNoWait ==
    /\ MainStep("forwarded", "hostClose")
    /\ UNCHANGED <<result, queueVars, pump>>

\* finish reads the recorded failures before the plugin host is closed.
CloseHostNoWait ==
    /\ MainStep("hostClose", "flush")
    /\ UNCHANGED <<result, queueVars, pump>>

\* eventQueue.close without its Broadcast.
BroadcastForgotten ==
    /\ MainStep("broadcast", "done")
    /\ UNCHANGED <<result, queueVars, pump>>

\* The pump takes the newest event.
PumpTakeNewest ==
    /\ pump = "running"
    /\ hand = <<>>
    /\ items # <<>>
    /\ hand' = <<items[Len(items)]>>
    /\ items' = SubSeq(items, 1, Len(items) - 1)
    /\ UNCHANGED <<pc, held, emitted, sequence, noteVars, closed, pump, received, reading, log, late>>

\* The pump reads ahead of the channel.
PumpTakeAhead ==
    /\ pump = "running"
    /\ items # <<>>
    /\ hand' = Append(hand, Head(items))
    /\ items' = Tail(items)
    /\ UNCHANGED <<pc, held, emitted, sequence, noteVars, closed, pump, received, reading, log, late>>

-----------------------------------------------------------------------------
(* The sources: one call of handleEvent at a time. *)

\* handleEvent: the engine's own terminator is dropped; any other event is
\* recorded under Operation.mu if the result needs it and goes on to push.
HandleEvent(s) ==
    /\ pc[s] = "idle"
    /\ emitted[s] < MaxEvents[s]
    /\ emitted' = [emitted EXCEPT ![s] = @ + 1]
    /\ \E e \in NextEvents(s) :
          \/ /\ e.kind = "cancel"
             /\ UNCHANGED <<pc, held, noted>>
          \/ /\ e.kind # "cancel"
             /\ held' = [held EXCEPT ![s] = e]
             /\ noted' = IF e.kind = "note" THEN noted \cup {Id(e)} ELSE noted
             /\ Goto(s, "stamp")
    /\ UNCHANGED <<sequence, result, queueVars, pump, readerVars>>

\* The source's loop ends: the engine channel or the sink's stream was closed,
\* the plugin or its pipe is gone, the banner was routed.  A forwarder loops
\* until the backend call has returned and raw is closed.
Exit(s) ==
    /\ pc[s] = "idle"
    /\ s \in Forwarders => pc[Main] # "backend"
    /\ Goto(s, "exited")
    /\ UNCHANGED <<held, emitted, sequence, noteVars, queueVars, pump, readerVars>>

-----------------------------------------------------------------------------
(* Operation.push, shared by the sources and by finish. *)

\* The first half: the sequence number, under Operation.mu.
StampEvent(p) ==
    /\ pc[p] = "stamp"
    /\ held' = [held EXCEPT ![p].seq = sequence]
    /\ sequence' = sequence + 1
    /\ Goto(p, "append")
    /\ UNCHANGED <<emitted, noteVars, queueVars, pump, readerVars>>

\* The second half, eventQueue.push: append under eventQueue.mu unless closed.
QueuePush(p) ==
    /\ pc[p] = "append"
    /\ \/ /\ ~closed
          /\ items' = Append(items, held[p])
          /\ log' = Append(log, held[p])
          /\ UNCHANGED late
       \/ /\ closed
          /\ late' = late \cup {held[p]}
          /\ UNCHANGED <<items, log>>
    /\ Goto(p, "signal")
    /\ UNCHANGED <<held, emitted, sequence, noteVars, closed, pump, readerVars>>

QueueSignal(p) ==
    /\ pc[p] = "signal"
    /\ WakePump
    /\ Goto(p, IF p = Main THEN "close" ELSE "idle")
    /\ held' = [held EXCEPT ![p] = Terminator]
    /\ UNCHANGED <<emitted, sequence, noteVars, queueVars, readerVars>>

-----------------------------------------------------------------------------
(* Main: the way out of execute, then finish. *)

\* The backend call returned: close(raw), or the sink is told to stop.
BackendReturns ==
    /\ MainStep("backend", "forwarded")
    /\ UNCHANGED <<result, queueVars, pump>>

\* `<-forwarded`, or sink.Close.
JoinForwarders ==
    /\ AllExited(Forwarders)
    /\ MainStep("forwarded", "hostClose")
    /\ UNCHANGED <<result, queueVars, pump>>

\* The deferred host.close.
CloseHost ==
    /\ AllExited(HostDiags)
    /\ MainStep("hostClose", "flush")
    /\ UNCHANGED <<result, queueVars, pump>>

\* The deferred flushStdoutCapture and unlistenStdout; execute returns.
FlushStdout ==
    /\ AllExited(Banners)
    /\ MainStep("flush", "finish")
    /\ UNCHANGED <<result, queueVars, pump>>

\* finish: copy what was recorded under Operation.mu and classify the error.
Snapshot ==
    /\ MainStep("finish", "stamp")
    /\ result' = noted
    /\ UNCHANGED <<queueVars, pump>>

\* eventQueue.close: the flag, under eventQueue.mu, ...
CloseQueue ==
    /\ MainStep("close", "broadcast")
    /\ closed' = TRUE
    /\ UNCHANGED <<result, items, log, late, pump>>

\* ... then the broadcast.
Broadcast ==
    /\ MainStep("broadcast", "done")
    /\ WakePump
    /\ UNCHANGED <<result, queueVars>>

\* close(o.done): Wait and Done return from here on.
CloseDone ==
    /\ MainStep("done", "returned")
    /\ UNCHANGED <<result, queueVars, pump>>

Finished == pc[Main] = "returned"

-----------------------------------------------------------------------------
(* eventQueue.pump and the caller. *)

\* Under eventQueue.mu: take the oldest event, ...
PumpTake ==
    /\ pump = "running"
    /\ hand = <<>>
    /\ items # <<>>
    /\ hand' = <<Head(items)>>
    /\ items' = Tail(items)
    /\ UNCHANGED <<pc, held, emitted, sequence, noteVars, closed, pump, received, reading, log, late>>

\* ... or go to sleep on the condition, ...
PumpWait ==
    /\ pump = "running"
    /\ hand = <<>>
    /\ items = <<>>
    /\ ~closed
    /\ pump' = "waiting"
    /\ UNCHANGED <<pc, held, emitted, sequence, noteVars, queueVars, readerVars>>

\* ... or return, which closes the channel.
PumpExit ==
    /\ pump = "running"
    /\ hand = <<>>
    /\ items = <<>>
    /\ closed
    /\ pump' = "exited"
    /\ UNCHANGED <<pc, held, emitted, sequence, noteVars, queueVars, readerVars>>

\* The send on the unbuffered channel meets a receive.
Receive ==
    /\ reading
    /\ hand # <<>>
    /\ received' = Append(received, Head(hand))
    /\ hand' = <<>>
    /\ UNCHANGED <<pc, held, emitted, sequence, noteVars, queueVars, pump, reading>>

\* The caller need not read Events: it may stop at any time.
Abandon ==
    /\ reading
    /\ reading' = FALSE
    /\ UNCHANGED <<pc, held, emitted, sequence, noteVars, queueVars, pump, hand, received>>

ChannelClosed == pump = "exited"

-----------------------------------------------------------------------------
SourceNext(s)   == HandleEvent(s) \/ Exit(s)
PushNext(p)     == StampEvent(p) \/ QueuePush(p) \/ QueueSignal(p)
MainNext        == \/ BackendReturns \/ JoinForwarders \/ CloseHost \/ FlushStdout
                   \/ Snapshot \/ CloseQueue \/ Broadcast \/ CloseDone
PumpNext        == PumpTake \/ PumpWait \/ PumpExit

Next ==
    \/ \E s \in Sources : SourceNext(s)
    \/ \E p \in Producers : PushNext(p)
    \/ MainNext
    \/ PumpNext
    \/ Receive
    \/ Abandon

Spec == Init /\ [][Next]_vars

\* The Go scheduler runs every goroutine that can run; a source's loop ends
\* once what feeds it is closed; a caller that reads keeps reading.  Nothing
\* is assumed of when a caller stops.
Fairness ==
    /\ \A s \in Sources : WF_vars(SourceNext(s))
    /\ \A p \in Producers : WF_vars(PushNext(p))
    /\ WF_vars(MainNext)
    /\ WF_vars(PumpNext)
    /\ WF_vars(Receive)

FairSpec == Spec /\ Fairness

-----------------------------------------------------------------------------
(* Properties. *)

TypeOK ==
    /\ pc \in [Producers -> SourceStates \cup MainStates]
    /\ pc[Main] \in MainStates
    /\ \A s \in Sources : pc[s] \in SourceStates
    /\ held \in [Producers -> Event]
    /\ emitted \in [Sources -> Nat]
    /\ sequence \in Nat
    /\ noted \subseteq Ids
    /\ result \subseteq Ids
    /\ items \in Seq(Event)
    /\ closed \in BOOLEAN
    /\ pump \in {"running", "waiting", "exited"}
    /\ hand \in Seq(Event) /\ Len(hand) <= 1
    /\ received \in Seq(Event)
    /\ reading \in BOOLEAN
    /\ log \in Seq(Event)
    /\ late \subseteq Event

InFlight == {p \in Producers : pc[p] = "append"}

\* Every sequence number handed out under Operation.mu belongs to exactly one
\* event, and that event is in the stream, was refused by the closed queue, or
\* is still between the two halves of push: a gap in the stream is an event
\* on its way (operation.go, push).
SequenceAccountedFor ==
    /\ {log[i].seq : i \in DOMAIN log} \cup {held[p].seq : p \in InFlight}
           \cup {e.seq : e \in late} = 0..(sequence - 1)
    /\ \A i, j \in DOMAIN log : log[i].seq = log[j].seq => i = j
    /\ \A i \in DOMAIN log, p \in InFlight : log[i].seq # held[p].seq
    /\ \A p, q \in InFlight : held[p].seq = held[q].seq => p = q

\* No event of a source that execute waits for comes after the terminator or
\* is refused by the closed queue: only one of a source nothing waits for can
\* be too late (operation.go, execute and finish).  Such are a language host's
\* tracer and, as one more of the model's tracers, the stdout pump when it
\* routes to this operation the header that another operation printed with
\* the same text, after this one's flush and before its unlisten
\* (stdout.go:176-189).  In particular the stream has no cancel event but the
\* terminator: the engine's own never gets through (handleEvent).
JoinedBeforeTerminator ==
    /\ \A e \in late : e.src \in Tracers
    /\ \A i, j \in DOMAIN log : log[i].kind = "cancel" /\ i < j => log[j].src \in Tracers

\* The result of a finished operation accounts for exactly the failures, error
\* diagnostics and summary that its stream carries: none is recorded after
\* finish has copied them (operation.go, handleEvent and finish).
ResultMatchesStream ==
    Finished => result = {Id(log[i]) : i \in {j \in DOMAIN log : log[j].kind = "note"}}

\* The pump never sleeps through its wake-up: whenever it waits although there
\* is an event to send or the queue was closed, somebody is about to signal.
\* push and close leave the mutex before they signal, so the pump may go to
\* sleep, or run, between the two (operation.go, eventQueue).
PumpWoken ==
    pump = "waiting" /\ (items # <<>> \/ closed) =>
        \/ \E p \in Producers : pc[p] = "signal"
        \/ pc[Main] = "broadcast"

\* What the reader sees is the queue's log, in order, without gaps, and the
\* channel closes only when all of it was delivered (operation.go, eventQueue).
Feed == INSTANCE EventFeed WITH ended <- closed, seen <- received, over <- ChannelClosed
ImplementsFeed == Feed!Spec

\* Wait returns even if nobody reads Events (operation.go, Operation).
WaitReturns == <>Finished

\* A caller that keeps reading reaches the end of the channel: no wake-up of
\* the pump is lost (operation.go, eventQueue).
ReaderReachesEnd == []reading => <>ChannelClosed

=============================================================================
