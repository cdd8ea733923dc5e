---------------------------- MODULE JobLifecycle ----------------------------
(***************************************************************************)
(* What the job queue promises its clients, without the worker, the        *)
(* handlers and the database: a job waits, is the active job once, and     *)
(* ends; jobs start in the order of their numbers among those that wait;   *)
(* at most one is active; only the active job is uploaded, and no job is   *)
(* uploaded twice.  A restart may drop jobs, start one again, and bring in  *)
(* a job whose submission the crash cut short.                             *)
(***************************************************************************)
EXTENDS Naturals

CONSTANTS
    Jobs,  \* jobs, numbered in the order of their positions
    None   \* no job

VARIABLES
    waiting,  \* accepted, not started
    active,   \* the job the worker holds, or None
    ended,    \* jobs the queue has let go
    uploads,  \* completed uploads of each job
    restarts  \* how often the server was started again

lvars == <<waiting, active, ended, uploads, restarts>>

Init ==
    /\ waiting \in SUBSET Jobs
    /\ active = None
    /\ ended = {}
    /\ uploads = [j \in Jobs |-> 0]
    /\ restarts = 0

Submit ==
    /\ \E j \in Jobs \ (waiting \cup ended \cup {active}) : waiting' = waiting \cup {j}
    /\ UNCHANGED <<active, ended, uploads, restarts>>

Start ==
    /\ active = None
    /\ \E j \in waiting :
        /\ \A k \in waiting : j <= k
        /\ active' = j
        /\ waiting' = waiting \ {j}
    /\ UNCHANGED <<ended, uploads, restarts>>

Upload ==
    /\ active \in Jobs
    /\ uploads[active] = 0
    /\ uploads' = [uploads EXCEPT ![active] = 1]
    /\ UNCHANGED <<waiting, active, ended, restarts>>

End ==
    /\ active \in Jobs
    /\ active' = None
    /\ ended' = ended \cup {active}
    /\ UNCHANGED <<waiting, uploads, restarts>>

Restart ==
    /\ restarts' = restarts + 1
    /\ waiting' \in SUBSET (Jobs \ ended)
    /\ active' = None
    /\ ended' = ended \cup ((waiting \cup ({active} \ {None})) \ waiting')
    /\ UNCHANGED uploads

Next == Submit \/ Start \/ Upload \/ End \/ Restart

Spec == Init /\ [][Next]_lvars
=============================================================================
