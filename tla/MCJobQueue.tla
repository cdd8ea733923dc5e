----------------------------- MODULE MCJobQueue -----------------------------
(***************************************************************************)
(* Model values, symmetry and bounds for checking JobQueue with TLC.       *)
(***************************************************************************)
EXTENDS JobQueue, TLC

\* append doubles the capacity of a slice that is full.
Doubling == [n \in 0..MaxJobs |-> IF n = 3 THEN 4 ELSE n]

AdderSymmetry == Permutations(Adders)

\* Bound: no cancel request arrives after a restart.
CancelsBeforeRestart ==
    crashes > 0 => \A c \in Cancellers : cpc[c] \in {"idle", "done"}

\* Bound: one job at most is dropped because Load fails, and
\* not together with a restart or a disorder.
OneDropped ==
    Cardinality({j \in added \ (Queued \cup cancelled) : runs[j] = 0})
        <= IF crashes = 0 /\ ~disorder THEN 1 ELSE 0

\* Bound: a disorder, after which little is promised, is not combined with cancel
\* requests or a restart.
DisorderAlone ==
    disorder => crashes = 0 /\ \A c \in Cancellers : cpc[c] = "idle"

\* Bound: a shutdown is not combined with cancel requests, nor comes after a restart.
StopsAlone ==
    spc # "up" => crashes = 0 /\ \A c \in Cancellers : cpc[c] = "idle"
=============================================================================
