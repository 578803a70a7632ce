----------------------------- MODULE MCJobQueue -----------------------------
(* JobQueue on small sets of jobs and workers.                             *)
EXTENDS JobQueue, TLC

\* Jobs and workers are interchangeable; used by the runs that check no
\* liveness.
Symmetry == Permutations(Jobs) \cup Permutations(Workers)

=============================================================================
