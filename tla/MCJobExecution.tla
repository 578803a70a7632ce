--------------------------- MODULE MCJobExecution ---------------------------
(* JobExecution with one job of each kind.                                 *)
EXTENDS JobExecution, TLC

CONSTANTS j1, j2

OneOfEach == (j1 :> "weekly_safe") @@ (j2 :> "btts")

=============================================================================
