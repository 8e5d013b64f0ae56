-------------------------- MODULE MCStdoutCapture --------------------------
(* StdoutCapture for TLC: operations whose headers may or may not agree. *)
EXTENDS StdoutCapture

MCOpKinds == {<<"preview", FALSE>>, <<"refresh", TRUE>>}
=============================================================================
