----------------------------- MODULE EventFeed -----------------------------
(***************************************************************************)
(* What Operation.Events() promises its reader, with no goroutine, queue   *)
(* or channel in sight: events are published one at a time into a log, the *)
(* log is ended once, and the reader is shown the log from its first event *)
(* on, without gaps, until it has seen all of it.                          *)
(***************************************************************************)
EXTENDS Naturals, Sequences

CONSTANT Event   \* what may be published

VARIABLES
    log,      \* the events published so far, in order
    ended,    \* nothing may be published any more
    seen,     \* the events the reader was given
    over      \* the reader was told that there are no more

feedVars == <<log, ended, seen, over>>

Init ==
    /\ log = <<>>
    /\ ended = FALSE
    /\ seen = <<>>
    /\ over = FALSE

Publish ==
    /\ ~ended
    /\ log' \in Seq(Event)
    /\ Len(log') = Len(log) + 1
    /\ \A i \in 1..Len(log) : log'[i] = log[i]
    /\ UNCHANGED <<ended, seen, over>>

End ==
    /\ ~ended
    /\ ended' = TRUE
    /\ UNCHANGED <<log, seen, over>>

Show ==
    /\ Len(seen) < Len(log)
    /\ seen' = Append(seen, log[Len(seen) + 1])
    /\ UNCHANGED <<log, ended, over>>

Finish ==
    /\ ended
    /\ Len(seen) = Len(log)
    /\ ~over
    /\ over' = TRUE
    /\ UNCHANGED <<log, ended, seen>>

Next == Publish \/ End \/ Show \/ Finish

Spec == Init /\ [][Next]_feedVars

=============================================================================
