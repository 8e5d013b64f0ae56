--------------------------- MODULE MCProgramHost ---------------------------
(* ProgramHost for TLC: two calls for one runtime and one for another. *)
EXTENDS ProgramHost

CONSTANTS a, b, c, nodejs, python

MCRuntimeOf == [x \in Callers |-> IF x = c THEN python ELSE nodejs]
=============================================================================
