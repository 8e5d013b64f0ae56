--------------------------- MODULE LanguageServer ---------------------------
(***************************************************************************)
(* The in-process server of a Go program (src/internal/upstream/           *)
(* langserver.go): Run requests of engines and Close calls of owners meet  *)
(* on one state, a mutex and a condition.  The gRPC server behind it       *)
(* (external) stops gracefully: it takes no new request and waits for the  *)
(* ones it has.                                                            *)
(***************************************************************************)
EXTENDS Naturals

CONSTANTS
    Runs,    \* Run requests
    Closers  \* Close calls

VARIABLES
    state,   \* LanguageRuntimeServer.state
    run,     \* each Run: "idle", "active", "leaving", "done" or "refused"
    closer,  \* each Close
    cancel,  \* the cancel channel: "open" or "closed"
    grpc     \* the gRPC server: "serving", "stopping" or "stopped"

vars == <<state, run, closer, cancel, grpc>>

Init ==
    /\ state = "waiting"
    /\ run = [r \in Runs |-> "idle"]
    /\ closer = [c \in Closers |-> "idle"]
    /\ cancel = "open"
    /\ grpc = "serving"

\* Requests the gRPC server is still handling.
Handling == {r \in Runs : run[r] \in {"active", "leaving"}}

-----------------------------------------------------------------------------
(* Faulty variants, one slip each. *)

\* Close returns without waiting for the server to stop.
CloseReturnsAtOnce(c) ==
    /\ closer[c] = "stopping"
    /\ closer' = [closer EXCEPT ![c] = "returned"]
    /\ UNCHANGED <<state, run, cancel, grpc>>

\* The end of a Run wakes nobody.
BroadcastMissing(r) ==
    /\ run[r] = "leaving"
    /\ run' = [run EXCEPT ![r] = "done"]
    /\ UNCHANGED <<state, closer, cancel, grpc>>

-----------------------------------------------------------------------------
(* Run. *)

Run(r) ==
    /\ run[r] = "idle"
    /\ grpc = "serving"
    /\ \/ /\ state = "canceled"
          /\ run' = [run EXCEPT ![r] = "refused"]
          /\ UNCHANGED state
       \/ /\ state # "canceled"
          /\ run' = [run EXCEPT ![r] = "active"]
          /\ state' = "running"
    /\ UNCHANGED <<closer, cancel, grpc>>

\* The program returned, failed or panicked: the deferred function sets the
\* state, whatever it is by then, ...
RunFinished(r) ==
    /\ run[r] = "active"
    /\ run' = [run EXCEPT ![r] = "leaving"]
    /\ state' = "finished"
    /\ UNCHANGED <<closer, cancel, grpc>>

\* ... and wakes the Close calls.
Broadcast(r) ==
    /\ run[r] = "leaving"
    /\ run' = [run EXCEPT ![r] = "done"]
    /\ closer' = [c \in Closers |-> IF closer[c] = "asleep" THEN "awake" ELSE closer[c]]
    /\ UNCHANGED <<state, cancel, grpc>>

-----------------------------------------------------------------------------
(* Close. *)

\* Under the mutex: nothing to do, go on, or sleep until a Run has finished.
Close(c) ==
    /\ closer[c] = "idle"
    /\ \/ /\ state = "canceled"
          /\ closer' = [closer EXCEPT ![c] = "nothing"]
          /\ UNCHANGED state
       \/ /\ state \in {"waiting", "finished"}
          /\ closer' = [closer EXCEPT ![c] = "send"]
          /\ state' = "canceled"
       \/ /\ state = "running"
          /\ closer' = [closer EXCEPT ![c] = "asleep"]
          /\ UNCHANGED state
    /\ UNCHANGED <<run, cancel, grpc>>

\* The loop around the condition only looks for "finished": a Close that
\* finds the server canceled by another sleeps again.
Wake(c) ==
    /\ closer[c] = "awake"
    /\ \/ /\ state = "finished"
          /\ closer' = [closer EXCEPT ![c] = "send"]
          /\ state' = "canceled"
       \/ /\ state # "finished"
          /\ closer' = [closer EXCEPT ![c] = "asleep"]
          /\ UNCHANGED state
    /\ UNCHANGED <<run, cancel, grpc>>

\* cancel <- true; close(cancel): the gRPC server begins to stop.  A second
\* Close on this path sends on a closed channel and panics.
SendCancel(c) ==
    /\ closer[c] = "send"
    /\ \/ /\ cancel = "open"
          /\ cancel' = "closed"
          /\ grpc' = "stopping"
          /\ closer' = [closer EXCEPT ![c] = "stopping"]
       \/ /\ cancel = "closed"
          /\ closer' = [closer EXCEPT ![c] = "panicked"]
          /\ UNCHANGED <<cancel, grpc>>
    /\ UNCHANGED <<state, run>>

\* GracefulStop (external).
Stopped ==
    /\ grpc = "stopping"
    /\ Handling = {}
    /\ grpc' = "stopped"
    /\ UNCHANGED <<state, run, closer, cancel>>

\* <-s.done
CloseReturns(c) ==
    /\ closer[c] = "stopping"
    /\ grpc = "stopped"
    /\ closer' = [closer EXCEPT ![c] = "returned"]
    /\ UNCHANGED <<state, run, cancel, grpc>>

-----------------------------------------------------------------------------

\* What a Run that has begun and a Close that has begun do.
RunStep(r)    == RunFinished(r) \/ Broadcast(r)
CloserStep(c) == Wake(c) \/ SendCancel(c) \/ CloseReturns(c)

\* A Close that waited for the server has left no program running in it, also
\* when several engines run the program at once and the first of them to
\* finish lets Close go on (program.go:107, "waiting for a running program to
\* finish").
ClosedMeansIdle == (\E c \in Closers : closer[c] = "returned") => Handling = {}

\* When Close is called, one of the calls returns, unless a program goes on
\* for ever.  The others need not: two that sleep through one Run are woken
\* together, and the second finds "canceled" and sleeps for ever.
SomeCloseReturns ==
    (\E c \in Closers : closer[c] # "idle") ~>
        \/ \E c \in Closers : closer[c] = "returned"
        \/ [](\E r \in Runs : run[r] = "active")

=============================================================================
