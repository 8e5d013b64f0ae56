--------------------------- MODULE MCCredentials ---------------------------
(* Credentials for TLC: two specs with different tokens for one URL and one *)
(* spec without a token; a login may have an account at a second URL too.  *)
EXTENDS Credentials

CONSTANTS a, b, plain, u1, u2, ta, tb

MCURLOf   == [c \in Clients |-> u1]
MCTokenOf == [c \in Clients |-> IF c = a THEN ta ELSE IF c = b THEN tb ELSE NoToken]
=============================================================================
