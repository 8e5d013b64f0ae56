--------------------------- MODULE MCEventStream ---------------------------
(* EventStream for TLC: every source has one event. *)
EXTENDS EventStream

MCMaxEvents == [s \in Sources |-> 1]
=============================================================================
