----------------------------- MODULE MCUtilQueue -----------------------------
(***************************************************************************)
(* Instances of UtilQueue for TLC.                                         *)
(***************************************************************************)
EXTENDS UtilQueue, TLC

\* Workers, users and jobs are interchangeable when every job, or none, has a
\* cleanup callback.  Only runs without liveness properties use this.
Symmetry == Permutations(Workers) \cup Permutations(Users) \cup Permutations(Jobs)

\* The ring is enlarged once.
GrowsOnce == max_jobs <= MaxJobs + Growth

=============================================================================
