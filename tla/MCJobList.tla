----------------------------- MODULE MCJobList -----------------------------
(***************************************************************************)
(* Limits for checking JobList with TLC: none, negative, too small for the *)
(* queue, larger than all jobs.                                            *)
(***************************************************************************)
EXTENDS JobList

MCLimits == {-1, 0, 1, 2, 3, 2 * MaxJobs}

\* At most one job is left with states that GetOldJobs does not list.
OneUnlisted == Cardinality(unlisted) <= 1

\* Bound: a list is followed until it is answered.  Later steps of others change
\* nothing the properties read but unlisted, which only grows.
UntilAnswered == \A l \in Lists : lpc[l] \notin {"done", "aborted", "failed"}
=============================================================================
