--------------------------- MODULE MCStackLocking ---------------------------
(* StackLocking for TLC: which handle each call belongs to. *)
EXTENDS StackLocking

CONSTANTS h1, h2, up1, up2, up3, imp, pre, rem

\* Two updates and an Import of one handle; an update, a preview and a Remove
\* of another.
MCOn == [c \in Calls |-> IF c \in {up1, up2, imp} THEN h1 ELSE h2]
=============================================================================
