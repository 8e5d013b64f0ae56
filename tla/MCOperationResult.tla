------------------------- MODULE MCOperationResult -------------------------
(* OperationResult for TLC: every kind, with the options that matter to it. *)
EXTENDS OperationResult

MCRequests ==
    [kind : {"preview", "up", "refresh", "destroy"}, dryRun : BOOLEAN, program : BOOLEAN,
     savePlan : {"none", "path", "result"}, plan : {"none", "path", "both"}]
=============================================================================
