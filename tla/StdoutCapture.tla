--------------------------- MODULE StdoutCapture ---------------------------
(***************************************************************************)
(* The capture of the process's stdout (src/engine/stdout.go).             *)
(*                                                                         *)
(* Pulumi's backends print a header line per operation straight to         *)
(* os.Stdout.  The first operation replaces os.Stdout by a pipe; one pump  *)
(* goroutine reads it line by line, hands a header to a listening          *)
(* operation and forwards everything else.  On its way out an operation    *)
(* sends a sentinel line through the pipe and waits for it, so that its    *)
(* header has been routed before it stops listening.  The Go program that  *)
(* hosts the engine writes to the same os.Stdout, whole lines or not.      *)
(***************************************************************************)
EXTENDS Naturals, Sequences

CONSTANTS
    Ops,             \* operations, each from execute's listenStdout on
    Refs,            \* stack references
    OpKinds,         \* <<kind, dryRun>> of operations
    MaxHostWrites    \* bound: writes of the host program

ASSUME CaptureAssumption ==
    /\ OpKinds \subseteq {"preview", "up", "refresh", "destroy"} \X BOOLEAN
    /\ MaxHostWrites \in Nat

(***************************************************************************)
(* One write to os.Stdout: an operation's header or sentinel, or the n-th  *)
(* write of the host.  Headers and sentinels end their line.               *)
(***************************************************************************)
Header(o)        == [type |-> "header", id |-> o, newline |-> TRUE]
Sentinel(o)      == [type |-> "sentinel", id |-> o, newline |-> TRUE]
HostWrite(n, nl) == [type |-> "host", id |-> n, newline |-> nl]

Writes == {Header(o) : o \in Ops} \cup {Sentinel(o) : o \in Ops}
              \cup {HostWrite(n, nl) : n \in 1..MaxHostWrites, nl \in BOOLEAN}

OpStates == {"new", "listen", "running", "printed", "sentinel", "waiting", "unlisten",
             "closing", "done"}

VARIABLES
    ref,         \* the stack reference of each operation
    kind,        \* Operation.kind and Operation.dryRun
    pc,          \* where each operation is
    enabled,     \* stdoutCapture.enabled
    started,     \* stdoutCapture.started: os.Stdout is the pipe
    listeners,   \* stdoutCapture.listeners
    flushes,     \* stdoutCapture.flushes: the operations whose sentinel is awaited
    pipe,        \* the writes not yet read, oldest first
    hand,        \* the header the pump is delivering and to whom, if any
    piped,       \* history: the operations whose header went into the pipe
    delivered,   \* history: the headers each operation's handleEvent was given
    orig,        \* what reached the original stdout, in order
    hostWrites   \* how often the host has written

vars == <<ref, kind, pc, enabled, started, listeners, flushes, pipe, hand, piped, delivered,
          orig, hostWrites>>
labels   == <<ref, kind, piped>>
pumpVars == <<hand, delivered>>

Init ==
    /\ ref \in [Ops -> Refs]
    /\ kind \in [Ops -> OpKinds]
    /\ pc = [o \in Ops |-> "new"]
    /\ enabled = TRUE
    /\ started = FALSE
    /\ listeners = [r \in Refs |-> <<>>]
    /\ flushes = {}
    /\ pipe = <<>>
    /\ hand = <<>>
    /\ piped = {}
    /\ delivered = [o \in Ops |-> <<>>]
    /\ orig = <<>>
    /\ hostWrites = 0

Goto(o, state) == pc' = [pc EXCEPT ![o] = state]

\* The header the backends print for an operation.
bannerVerb(o) ==
    LET dryRun == kind[o][2]
    IN  CASE kind[o][1] = "preview" -> "Previewing update"
          [] kind[o][1] = "up"      -> "Updating"
          [] kind[o][1] = "refresh" -> IF dryRun THEN "Previewing refresh" ELSE "Refreshing"
          [] kind[o][1] = "destroy" -> IF dryRun THEN "Previewing destroy" ELSE "Destroying"

\* Two operations whose headers read the same.
SameBanner(o, p) == ref[o] = ref[p] /\ bannerVerb(o) = bannerVerb(p)

\* A write to os.Stdout, whichever file that is now.
WriteStdout(w) ==
    \/ /\ started
       /\ pipe' = Append(pipe, w)
       /\ UNCHANGED orig
    \/ /\ ~started
       /\ orig' = Append(orig, w)
       /\ UNCHANGED pipe

\* The listeners a header may go to: routeStdoutLine takes the first of them.
Matching(o) == {i \in DOMAIN listeners[ref[o]] : SameBanner(listeners[ref[o]][i], o)}

\* The next complete line is the first k writes.
LineReady(k) ==
    /\ hand = <<>>
    /\ k \in DOMAIN pipe
    /\ pipe[k].newline
    /\ \A j \in 1..(k - 1) : ~pipe[j].newline

-----------------------------------------------------------------------------
(***************************************************************************)
(* Faulty variants of the actions below, one slip each; every property at  *)
(* the end fails when one of them replaces the action it is named after.   *)
(***************************************************************************)

\* flushStdoutCapture does not wait for the pump.
FlushReturnsEarly(o) ==
    /\ pc[o] = "waiting"
    /\ Goto(o, "unlisten")
    /\ UNCHANGED <<labels, enabled, started, listeners, flushes, pipe, pumpVars, orig, hostWrites>>

\* The waiter of a sentinel is released only while the capture is enabled.
RouteSentinelIfEnabled(k) ==
    /\ LineReady(k)
    /\ k = 1 /\ pipe[1].type = "sentinel"
    /\ flushes' = IF enabled THEN flushes \ {pipe[1].id} ELSE flushes
    /\ pipe' = Tail(pipe)
    /\ UNCHANGED <<labels, pc, enabled, started, listeners, pumpVars, orig, hostWrites>>

\* The first listener on the stack gets the header, whatever its verb.
RouteHeaderAnyVerb(k) ==
    /\ LineReady(k)
    /\ k = 1 /\ pipe[1].type = "header"
    /\ Matching(pipe[1].id) # {}
    /\ hand' = <<[header |-> pipe[1].id, target |-> listeners[ref[pipe[1].id]][1]]>>
    /\ pipe' = Tail(pipe)
    /\ UNCHANGED <<labels, pc, enabled, started, listeners, flushes, delivered, orig, hostWrites>>

\* Only what ReadString returned last is forwarded.
ForwardLastWrite(k) ==
    /\ LineReady(k)
    /\ ~ (k = 1 /\ pipe[1].type = "sentinel")
    /\ ~ (k = 1 /\ pipe[1].type = "header" /\ Matching(pipe[1].id) # {})
    /\ orig' = Append(orig, pipe[k])
    /\ pipe' = SubSeq(pipe, k + 1, Len(pipe))
    /\ UNCHANGED <<labels, pc, enabled, started, listeners, flushes, pumpVars, hostWrites>>

-----------------------------------------------------------------------------
(* Operation: listenStdout, the backend's header, and the deferred flush and *)
(* unlistenStdout.                                                           *)

\* startStdoutCapture: swap os.Stdout once, if enabled and the pipe opens.
StartStdoutCapture(o) ==
    /\ pc[o] = "new"
    /\ started' \in IF enabled /\ ~started THEN BOOLEAN ELSE {started}
    /\ Goto(o, "listen")
    /\ UNCHANGED <<labels, enabled, listeners, flushes, pipe, pumpVars, orig, hostWrites>>

ListenStdout(o) ==
    /\ pc[o] = "listen"
    /\ listeners' = [listeners EXCEPT ![ref[o]] = Append(@, o)]
    /\ Goto(o, "running")
    /\ UNCHANGED <<labels, enabled, started, flushes, pipe, pumpVars, orig, hostWrites>>

\* The backend prints the header (external); an operation that fails early
\* has none.
PrintHeader(o) ==
    /\ pc[o] = "running"
    /\ WriteStdout(Header(o))
    /\ piped' = IF started THEN piped \cup {o} ELSE piped
    /\ Goto(o, "printed")
    /\ UNCHANGED <<ref, kind, enabled, started, listeners, flushes, pumpVars, hostWrites>>

\* flushStdoutCapture: register the sentinel under the lock, ...
FlushStdoutCapture(o) ==
    /\ pc[o] \in {"running", "printed"}
    /\ \/ /\ started
          /\ flushes' = flushes \cup {o}
          /\ Goto(o, "sentinel")
       \/ /\ ~started
          /\ Goto(o, "unlisten")
          /\ UNCHANGED flushes
    /\ UNCHANGED <<labels, enabled, started, listeners, pipe, pumpVars, orig, hostWrites>>

\* ... write it to the pipe, whose error return is left out since nothing
\* closes the pipe, ...
WriteSentinel(o) ==
    /\ pc[o] = "sentinel"
    /\ pipe' = Append(pipe, Sentinel(o))
    /\ Goto(o, "waiting")
    /\ UNCHANGED <<labels, enabled, started, listeners, flushes, pumpVars, orig, hostWrites>>

\* ... and wait until the pump has closed the channel.
FlushReturns(o) ==
    /\ pc[o] = "waiting"
    /\ o \notin flushes
    /\ Goto(o, "unlisten")
    /\ UNCHANGED <<labels, enabled, started, listeners, flushes, pipe, pumpVars, orig, hostWrites>>

UnlistenStdout(o) ==
    /\ pc[o] = "unlisten"
    /\ \E i \in DOMAIN listeners[ref[o]] :
          /\ listeners[ref[o]][i] = o
          /\ listeners' = [listeners EXCEPT ![ref[o]] =
                              SubSeq(@, 1, i - 1) \o SubSeq(@, i + 1, Len(@))]
    /\ Goto(o, "closing")
    /\ UNCHANGED <<labels, enabled, started, flushes, pipe, pumpVars, orig, hostWrites>>

\* finish: the terminator is pushed and the event queue closed.
Finish(o) ==
    /\ pc[o] = "closing"
    /\ Goto(o, "done")
    /\ UNCHANGED <<labels, enabled, started, listeners, flushes, pipe, pumpVars, orig, hostWrites>>

-----------------------------------------------------------------------------
(* The pump.  bufio's ReadString returns at a newline and not before, so    *)
(* what the host writes without one is held back and becomes the beginning  *)
(* of the next line, whoever writes that.                                   *)

\* A line that begins with the sentinel: its waiter is released.
RouteSentinel(k) ==
    /\ LineReady(k)
    /\ k = 1 /\ pipe[1].type = "sentinel"
    /\ flushes' = flushes \ {pipe[1].id}
    /\ pipe' = Tail(pipe)
    /\ UNCHANGED <<labels, pc, enabled, started, listeners, pumpVars, orig, hostWrites>>

\* A line that is a header, whole: the first listener on that stack with that
\* verb is picked under the lock, ...
RouteHeader(k) ==
    /\ LineReady(k)
    /\ k = 1 /\ pipe[1].type = "header"
    /\ LET o == pipe[1].id
       IN  /\ Matching(o) # {}
           /\ \E i \in Matching(o) :
                 /\ \A j \in Matching(o) : i <= j
                 /\ hand' = <<[header |-> o, target |-> listeners[ref[o]][i]]>>
    /\ pipe' = Tail(pipe)
    /\ UNCHANGED <<labels, pc, enabled, started, listeners, flushes, delivered, orig, hostWrites>>

\* ... and its handleEvent is called after the lock is released.
DeliverHeader ==
    /\ hand # <<>>
    /\ delivered' = [delivered EXCEPT ![hand[1].target] = Append(@, hand[1].header)]
    /\ hand' = <<>>
    /\ UNCHANGED <<labels, pc, enabled, started, listeners, flushes, pipe, orig, hostWrites>>

\* Any other line is forwarded.
ForwardLine(k) ==
    /\ LineReady(k)
    /\ ~ (k = 1 /\ pipe[1].type = "sentinel")
    /\ ~ (k = 1 /\ pipe[1].type = "header" /\ Matching(pipe[1].id) # {})
    /\ orig' = orig \o SubSeq(pipe, 1, k)
    /\ pipe' = SubSeq(pipe, k + 1, Len(pipe))
    /\ UNCHANGED <<labels, pc, enabled, started, listeners, flushes, pumpVars, hostWrites>>

-----------------------------------------------------------------------------
(* The host program. *)

HostWrites ==
    /\ hostWrites < MaxHostWrites
    /\ hostWrites' = hostWrites + 1
    /\ \E nl \in BOOLEAN : WriteStdout(HostWrite(hostWrites + 1, nl))
    /\ UNCHANGED <<labels, pc, enabled, started, listeners, flushes, pumpVars>>

SetStdoutCapture ==
    /\ enabled' = ~enabled
    /\ UNCHANGED <<labels, pc, started, listeners, flushes, pipe, pumpVars, orig, hostWrites>>

-----------------------------------------------------------------------------
OpNext(o) ==
    \/ StartStdoutCapture(o) \/ ListenStdout(o) \/ PrintHeader(o) \/ FlushStdoutCapture(o)
    \/ WriteSentinel(o) \/ FlushReturns(o) \/ UnlistenStdout(o) \/ Finish(o)

PumpNext ==
    \/ \E k \in DOMAIN pipe : RouteSentinel(k) \/ RouteHeader(k) \/ ForwardLine(k)
    \/ DeliverHeader

Next == (\E o \in Ops : OpNext(o)) \/ PumpNext \/ HostWrites \/ SetStdoutCapture

Spec == Init /\ [][Next]_vars

\* The operations and the pump are goroutines that run when they can; the host
\* need not write.
Fairness == (\A o \in Ops : WF_vars(OpNext(o))) /\ WF_vars(PumpNext)

FairSpec == Spec /\ Fairness

-----------------------------------------------------------------------------
(* Properties. *)

TypeOK ==
    /\ ref \in [Ops -> Refs]
    /\ kind \in [Ops -> OpKinds]
    /\ pc \in [Ops -> OpStates]
    /\ enabled \in BOOLEAN /\ started \in BOOLEAN
    /\ listeners \in [Refs -> Seq(Ops)]
    /\ flushes \subseteq Ops
    /\ pipe \in Seq(Writes)
    /\ hand \in Seq([header : Ops, target : Ops]) /\ Len(hand) <= 1
    /\ piped \subseteq Ops
    /\ delivered \in [Ops -> Seq(Ops)]
    /\ orig \in Seq(Writes)
    /\ hostWrites \in 0..MaxHostWrites

\* An operation that has left its flush has no header under way: its own is in
\* some stream or on the original stdout before the terminator is pushed
\* (stdout.go, flushStdoutCapture).  This is what EventStream's Banners rest on.
FlushedMeansRouted ==
    \A o \in Ops : pc[o] \in {"unlisten", "closing", "done"} =>
        /\ \A i \in DOMAIN pipe : pipe[i] # Header(o)
        /\ \A i \in DOMAIN hand : hand[i].header # o

\* While nobody else's header reads like its own and the host has written
\* whole lines only, an operation that printed its header into the pipe has it
\* in its own stream, once, before it is done, and in no other
\* (stdout.go, routeStdoutLine and unlistenStdout).
OwnHeaderOnce ==
    \A o \in piped :
        /\ pc[o] = "done"
        /\ \A p \in Ops : SameBanner(o, p) => p = o
        /\ \A i \in DOMAIN orig : orig[i].newline
        => /\ delivered[o] = <<o>>
           /\ \A p \in Ops \ {o} : \A i \in DOMAIN delivered[p] : delivered[p][i] # o

\* The n-th write of the host is at one of the places in idx of the sequence s.
HostAt(s, idx, n) == \E i \in idx : s[i].type = "host" /\ s[i].id = n

\* What the host writes arrives on the original stdout in the order it was
\* written, with nothing missing in between, before and after the swap: what
\* precedes its n-th write there is every earlier write and no other
\* (stdout.go:34, "every other byte is forwarded").
HostOutputInOrder ==
    \A j \in DOMAIN orig : orig[j].type = "host" =>
        \A n \in 1..MaxHostWrites : HostAt(orig, 1..(j - 1), n) <=> n < orig[j].id

\* A flush waits for a sentinel that the pump has still to read, or else for
\* one that was forwarded because the host had left a line unfinished in front
\* of it: this is the only way a flush never returns
\* (stdout.go, flushStdoutCapture and pumpStdout).
SentinelNotLost ==
    \A o \in Ops : pc[o] = "waiting" /\ o \in flushes =>
        \/ \E i \in DOMAIN pipe : pipe[i] = Sentinel(o)
        \/ \E i \in DOMAIN orig : i > 1 /\ orig[i] = Sentinel(o) /\ ~orig[i - 1].newline

\* The host has written whole lines only.
WholeLines == \A s \in {orig, pipe} : \A i \in DOMAIN s : s[i].newline

AllEnd == \A o \in Ops : (pc[o] = "listen") ~> (pc[o] = "done")

\* Every operation gets through its flush, as long as the host writes whole
\* lines: no sentinel is lost and the pump never stops.
EndsIfWholeLines == []WholeLines => AllEnd

=============================================================================
