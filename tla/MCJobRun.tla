------------------------------ MODULE MCJobRun ------------------------------
(***************************************************************************)
(* A bound for checking JobRun with TLC; the sizes are in the              *)
(* configurations.  No symmetry: jobs are numbers, because the queue       *)
(* orders them, and most runs check temporal properties.                   *)
(***************************************************************************)
EXTENDS JobRun

\* Bound of the run with two jobs: requests go to the first job, and the run
\* of the second is followed until its container is there to meet an orphan.
SecondJobStarts ==
    /\ \A c \in Cancellers : cjob[c] # 2
    /\ cur = 2 => wpc \in {"begin", "init", "await"}

\* Bound of the run that shows what a cancel leaves behind: no wait for a
\* container fails, and the two calls of Stop, by the worker and by the handler,
\* come before the job has a container ID and before the next job begins.
StopComesEarly ==
    /\ \A j \in Jobs : buildRes[j] # "waitErr"
    /\ wpc = "setCancelled" => ~containerId[cur]
    /\ \A c \in Cancellers : cpc[c] = "setBuild" => ~containerId[cjob[c]]
    /\ cur = 2 => \A c \in Cancellers : cpc[c] # "stop"
=============================================================================
