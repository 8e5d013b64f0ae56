---------------------------- MODULE MCExecution ----------------------------
(* Execution for TLC: all calls are for one runtime. *)
EXTENDS Execution

CONSTANT nodejs

MCRuntimeOf == [c \in Callers |-> nodejs]
=============================================================================
