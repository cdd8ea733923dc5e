------------------------------ MODULE JobQueue ------------------------------
(***************************************************************************)
(* The queue of jobs as the code keeps it: a Go slice of JobQueueItem      *)
(* values over backing arrays, pointers into those arrays, the rows of     *)
(* table job_queue, and the goroutines that use them: HTTP handlers that   *)
(* add and cancel jobs, the worker that takes the front item, runs its job *)
(* and removes it, and the main goroutine, which stops the queue when the  *)
(* server is told to shut down.                                            *)
(*                                                                         *)
(* append writes in place while there is capacity and moves to a new array *)
(* otherwise; sorting and removal move items between the slots of one      *)
(* array; a pointer stays on its slot.  Only append and the swap of        *)
(* RemoveJob hold the lock, so each is one step; the searches and the sort *)
(* run without it.  What a run does to its job is module JobRun.           *)
(***************************************************************************)
EXTENDS Naturals, Sequences, FiniteSets

CONSTANTS
    Adders,      \* handlers that add jobs, each one job after the other
    Cancellers,  \* requests to the cancel endpoint
    None,        \* no pointer, no job
    MaxJobs,     \* bound: jobs created in a behaviour
    Capacity,    \* capacity that n appends to nil lead to (Go runtime)
    FirstCap,    \* capacity the slice kept from jobs that came and went
    DbMayFail,   \* whether inserting, saving or loading a queue item may fail
    MaxCrashes,  \* bound: restarts in a behaviour
    MayStop      \* whether the server may be told to shut down

ASSUME MaxJobsAssumption == MaxJobs \in Nat
ASSUME NoneAssumption == None \notin Nat \cup [arr : Nat, idx : Nat]
ASSUME CapacityAssumption ==
    \A n \in 0..MaxJobs : Capacity[n] \in Nat /\ n <= Capacity[n]
ASSUME FirstCapAssumption == FirstCap \in Nat
ASSUME QueueDbAssumption == DbMayFail \in BOOLEAN
ASSUME QueueCrashAssumption == MaxCrashes \in Nat
ASSUME MayStopAssumption == MayStop \in BOOLEAN

VARIABLES
    arrays,            \* backing arrays: a sequence of sequences of slots
    jobs,              \* the slice: its array and its length
    rows,              \* job_queue: records [id, job, pos]
    nextJob, nextItem, \* next primary keys of jobs and job_queue
    apc, aitem,        \* adders: program counter, the item being added
    wpc, ptr, item,    \* worker: program counter, jqi, and what jqi was at first
    found,             \* the index RemoveJob found, 0 if none
    running,           \* the job Job.Run is running
    runs, over,        \* how often each job was run; jobs whose run returned
    cpc, cid, cptr,    \* cancels: program counter, requested ID, FindJob's pointer
    cancelled,         \* jobs on which Job.Cancel was called
    currJob,           \* the pointer jobQueue.currJob
    token,             \* whether the channel stopped holds a token
    spc, sptr,         \* shutdown: program counter, currJob as stop tested it
    lateRuns,          \* runs started since stop sent its token
    shifted,           \* cancels whose pointer a removal may have left behind
    strays,            \* jobs whose items such a cancel marked
    ignored,           \* jobs of rows the last restart left out of the slice
    added,             \* jobs that were in the slice at some time
    disorder,          \* an item overtook another, or its IDs or position differ
    crashes

tableVars == <<rows, nextJob, nextItem>>
addVars   == <<apc, aitem>>
workVars  == <<wpc, ptr, item, found, running, runs, over>>
cancVars  == <<cpc, cid, cptr, cancelled, shifted, strays>>
stopVars  == <<currJob, token, spc, sptr, lateRuns>>
noteVars  == <<ignored, added, disorder, crashes>>
vars == <<arrays, jobs, tableVars, addVars, workVars, cancVars, stopVars, noteVars>>

(***************************************************************************)
(* Slices and pointers                                                     *)
(***************************************************************************)
JobIds == 1..MaxJobs
Empty == [id |-> 0, job |-> 0, pos |-> 0, deleted |-> FALSE]
Items == [id : 0..MaxJobs, job : 0..MaxJobs, pos : 0..MaxJobs, deleted : BOOLEAN]

At(p) == arrays[p.arr][p.idx]                                 \* *p
Slots(s) == SubSeq(arrays[s.arr], 1, s.len)                   \* the items of slice s
Queued == {Slots(jobs)[i].job : i \in 1..jobs.len}
Mark(p) == arrays' = [arrays EXCEPT ![p.arr][p.idx].deleted = TRUE]

\* A new array of capacity n.
Fresh(n) == [i \in 1..n |-> Empty]

\* sort.Sort by Position arranges the items in the order of their positions; it
\* is not stable, so items of equal positions may change places.
InOrder(s) == \A i, k \in 1..Len(s) : i < k => s[i].pos <= s[k].pos
Arrangements(s) ==
    LET n == Len(s)
        Permutations == {p \in [1..n -> 1..n] : \A i, k \in 1..n : p[i] = p[k] => i = k}
    IN  {[i \in 1..n |-> s[p[i]]] : p \in Permutations}

\* sortPosition sorts in place: the slots beyond the length keep their items.
WithItems(t) ==
    [i \in 1..Len(arrays[jobs.arr]) |-> IF i <= jobs.len THEN t[i] ELSE arrays[jobs.arr][i]]
SortPosition ==
    \E t \in Arrangements(Slots(jobs)) :
        InOrder(t) /\ arrays' = [arrays EXCEPT ![jobs.arr] = WithItems(t)]

\* The slot whose item has that JobID, the first one; 0 if there is none.
IndexOf_WholeArray(id) ==  \* mutant: searches beyond the length
    LET S == {i \in 1..Len(arrays[jobs.arr]) : arrays[jobs.arr][i].job = id} IN
    IF S = {} THEN 0 ELSE CHOOSE i \in S : \A k \in S : i <= k
IndexOf_OffByOne(id) ==  \* mutant: an index that counts from 0
    LET S == {i \in 1..jobs.len : Slots(jobs)[i].job = id} IN
    IF S = {} THEN 0 ELSE (CHOOSE i \in S : \A k \in S : i <= k) - 1
IndexOf(id) ==
    LET S == {i \in 1..jobs.len : Slots(jobs)[i].job = id} IN
    IF S = {} THEN 0 ELSE CHOOSE i \in S : \A k \in S : i <= k

(***************************************************************************)
(* Initial state: an empty queue                                           *)
(***************************************************************************)
Init ==
    /\ arrays = <<Fresh(FirstCap)>>
    /\ jobs = [arr |-> 1, len |-> 0]
    /\ rows = {}
    /\ nextJob = 1
    /\ nextItem = 1
    /\ apc = [a \in Adders |-> "idle"]
    /\ aitem = [a \in Adders |-> Empty]
    /\ wpc = "idle"
    /\ ptr = None
    /\ item = Empty
    /\ found = 0
    /\ running = None
    /\ runs = [j \in JobIds |-> 0]
    /\ over = {}
    /\ cpc = [c \in Cancellers |-> "idle"]
    /\ cid = [c \in Cancellers |-> 0]
    /\ cptr = [c \in Cancellers |-> None]
    /\ cancelled = {}
    /\ currJob = None
    /\ token = FALSE
    /\ spc = "up"
    /\ sptr = None
    /\ lateRuns = 0
    /\ shifted = {}
    /\ strays = {}
    /\ ignored = {}
    /\ added = {}
    /\ disorder = FALSE
    /\ crashes = 0

(***************************************************************************)
(* addJob                                                                  *)
(***************************************************************************)

\* A panic of the worker's or the main goroutine ends the process, handlers
\* included, as os.Exit does after a shutdown.
Alive == wpc # "panicked" /\ spc \notin {"panicked", "down"}

\* models.NewJob inserts the job and gets its primary key.
CreateJob(a) ==
    /\ Alive /\ apc[a] = "idle"
    /\ nextJob <= MaxJobs
    /\ aitem' = [aitem EXCEPT ![a] = [Empty EXCEPT !.job = nextJob]]
    /\ nextJob' = nextJob + 1
    /\ apc' = [apc EXCEPT ![a] = "insert"]
    /\ UNCHANGED <<arrays, jobs, rows, nextItem, workVars, cancVars, stopVars, noteVars>>

\* AddJob inserts the queue item, still without a position.
InsertItem(a) ==
    /\ Alive /\ apc[a] = "insert"
    /\ \/ /\ aitem' = [aitem EXCEPT ![a].id = nextItem]
          /\ rows' = rows \cup {[id |-> nextItem, job |-> aitem[a].job, pos |-> 0]}
          /\ nextItem' = nextItem + 1
          /\ apc' = [apc EXCEPT ![a] = "position"]
       \/ /\ DbMayFail
          /\ apc' = [apc EXCEPT ![a] = "idle"]
          /\ UNCHANGED <<aitem, rows, nextItem>>
    /\ UNCHANGED <<arrays, jobs, nextJob, workVars, cancVars, stopVars, noteVars>>

\* The ID becomes the position; on an error the row stays as it is.
SavePosition(a) ==
    /\ Alive /\ apc[a] = "position"
    /\ LET it == [aitem[a] EXCEPT !.pos = aitem[a].id] IN
       \/ /\ aitem' = [aitem EXCEPT ![a] = it]
          /\ rows' = {IF r.id = it.id THEN [r EXCEPT !.pos = it.id] ELSE r : r \in rows}
          /\ apc' = [apc EXCEPT ![a] = "append"]
       \/ /\ DbMayFail
          /\ apc' = [apc EXCEPT ![a] = "idle"]
          /\ UNCHANGED <<aitem, rows>>
    /\ UNCHANGED <<arrays, jobs, nextJob, nextItem, workVars, cancVars, stopVars, noteVars>>

\* append under the lock: in place if the array has room, else in a new array,
\* the old one living on behind the pointers into it.
AppendItem(a) ==
    /\ Alive /\ apc[a] = "append"
    /\ LET n == jobs.len + 1
           old == arrays[jobs.arr]
       IN  IF n <= Len(old)
           THEN /\ arrays' = [arrays EXCEPT ![jobs.arr][n] = aitem[a]]
                /\ jobs' = [jobs EXCEPT !.len = n]
           ELSE /\ arrays' = Append(arrays, [i \in 1..Capacity[n] |->
                                    IF i < n THEN old[i] ELSE IF i = n THEN aitem[a] ELSE Empty])
                /\ jobs' = [arr |-> Len(arrays) + 1, len |-> n]
    /\ added' = added \cup {aitem[a].job}
    /\ disorder' = (disorder \/ aitem[a].id # aitem[a].job
                    \/ \E i \in 1..jobs.len : Slots(jobs)[i].pos > aitem[a].pos)
    /\ apc' = [apc EXCEPT ![a] = "reply"]
    /\ UNCHANGED <<tableVars, aitem, workVars, cancVars, stopVars, ignored, crashes>>

\* The response carries GetJobQueuePos, which sorts the slice.
ReplyPosition(a) ==
    /\ Alive /\ apc[a] = "reply"
    /\ SortPosition
    /\ apc' = [apc EXCEPT ![a] = "idle"]
    /\ aitem' = [aitem EXCEPT ![a] = Empty]
    /\ UNCHANGED <<jobs, tableVars, workVars, cancVars, stopVars, noteVars>>

Add(a) == CreateJob(a) \/ InsertItem(a) \/ SavePosition(a) \/ AppendItem(a) \/ ReplyPosition(a)

(***************************************************************************)
(* The worker: JobQueue.Run and JobQueue.run                               *)
(***************************************************************************)

\* The cancels that hold a pointer.
Holders == {c \in Cancellers : cpc[c] \in {"cancel", "mark"}}

\* getNextJob sorts and returns a pointer to the first slot.
SortFirst_Not == arrays' = arrays  \* mutant: takes the first slot as it is
SortFirst == SortPosition

TakeFirst ==
    /\ Alive /\ wpc = "idle"
    /\ jobs.len > 0
    /\ SortFirst
    /\ ptr' = [arr |-> jobs.arr, idx |-> 1]
    /\ item' = arrays'[jobs.arr][1]
    /\ wpc' = "load"
    /\ UNCHANGED <<jobs, tableVars, addVars, found, running, runs, over, cancVars,
                   stopVars, noteVars>>

\* Load looks for the row; without it, or on an error, the job is not run.
LoadItem ==
    /\ Alive /\ wpc = "load"
    /\ \/ \E r \in rows : r.id = At(ptr).id /\ wpc' = "start"
       \/ (DbMayFail \/ \A r \in rows : r.id # At(ptr).id) /\ wpc' = "delete"
    /\ UNCHANGED <<arrays, jobs, tableVars, addVars, ptr, item, found, running, runs, over,
                   cancVars,
                   stopVars, noteVars>>

StartRun ==
    /\ Alive /\ wpc = "start"
    /\ running' = At(ptr).job
    /\ runs' = [runs EXCEPT ![At(ptr).job] = @ + 1]
    /\ currJob' = ptr
    /\ lateRuns' = IF spc = "up" THEN 0 ELSE lateRuns + 1
    /\ wpc' = "running"
    /\ UNCHANGED <<arrays, jobs, tableVars, addVars, ptr, item, found, over, cancVars, token,
                   spc, sptr, noteVars>>

RunReturns ==
    /\ Alive /\ wpc = "running"
    /\ over' = over \cup {running}
    /\ running' = None
    /\ wpc' = "delete"
    /\ UNCHANGED <<arrays, jobs, tableVars, addVars, ptr, item, found, runs, cancVars,
                   stopVars, noteVars>>

\* The deferred function reads jqi again: first to delete its row ...
DeleteRow ==
    /\ Alive /\ wpc = "delete"
    /\ rows' = {r \in rows : r.id # At(ptr).id}
    /\ wpc' = "find"
    /\ UNCHANGED <<arrays, jobs, nextJob, nextItem, addVars, ptr, item, found, running, runs,
                   over, cancVars,
                   stopVars, noteVars>>

\* ... then to mark it and to look it up, its ID compared with JobIDs ...
RemovalKey == At(ptr).id
ClearedCurrent(key) == IF currJob # None /\ At(currJob).job = key THEN None ELSE currJob

FindRemoved ==
    /\ Alive /\ wpc = "find"
    /\ Mark(ptr)
    /\ currJob' = ClearedCurrent(RemovalKey)
    /\ found' = IndexOf(RemovalKey)
    /\ wpc' = "remove"
    /\ UNCHANGED <<jobs, tableVars, addVars, ptr, item, running, runs, over, cancVars, token,
                   spc, sptr, lateRuns, noteVars>>

CutLast_Kept == UNCHANGED jobs  \* mutant: the slice keeps its length
CutLast == jobs' = [jobs EXCEPT !.len = @ - 1]

\* ... and, under the lock, to swap the found item with the last and cut it
\* off.  Without a found index the slice is indexed with -1: a panic.
RemoveFound ==
    /\ Alive /\ wpc = "remove"
    /\ IF found = 0
       THEN wpc' = "panicked" /\ UNCHANGED <<arrays, jobs, ptr, item>>
       ELSE /\ arrays' = [arrays EXCEPT ![jobs.arr][jobs.len] = arrays[jobs.arr][found],
                                        ![jobs.arr][found] = arrays[jobs.arr][jobs.len]]
            /\ CutLast
            /\ wpc' = "again"
            /\ ptr' = None
            /\ item' = Empty
    /\ found' = 0
    /\ shifted' = shifted \cup Holders
    /\ UNCHANGED <<tableVars, addVars, running, runs, over, cpc, cid, cptr, cancelled, strays,
                   stopVars, noteVars>>

\* After each run, and only then, the worker looks for the token of stop.
TokenSeen_Never == FALSE  \* mutant: the queue does not look at stopped
TokenSeen == token

RunAgain ==
    /\ Alive /\ wpc = "again"
    /\ currJob' = None
    /\ token' = (token /\ ~TokenSeen)
    /\ wpc' = IF TokenSeen THEN "stopped" ELSE "idle"
    /\ UNCHANGED <<arrays, jobs, tableVars, addVars, ptr, item, found, running, runs, over,
                   cancVars, spc, sptr, lateRuns, noteVars>>

Worker == \/ TakeFirst \/ LoadItem \/ StartRun \/ RunReturns \/ DeleteRow \/ FindRemoved
          \/ RemoveFound \/ RunAgain

(***************************************************************************)
(* Shutdown: awaitExit calls stop, then closes the listeners and exits.    *)
(* The race of stop with the worker on currJob has two outcomes, the       *)
(* pointer that was tested and the one stored meanwhile.                   *)
(***************************************************************************)
SendToken ==
    /\ Alive /\ spc = "up" /\ MayStop
    /\ token' = TRUE
    /\ spc' = "test"
    /\ UNCHANGED <<arrays, jobs, tableVars, addVars, workVars, cancVars, currJob, sptr, lateRuns,
                   noteVars>>

TestCurrent ==
    /\ Alive /\ spc = "test"
    /\ sptr' = currJob
    /\ spc' = IF currJob = None THEN "exit" ELSE "use"
    /\ UNCHANGED <<arrays, jobs, tableVars, addVars, workVars, cancVars, currJob, token, lateRuns,
                   noteVars>>

CancelCurrent_Skipped(p) == UNCHANGED cancelled  \* mutant: only the token stops the queue
CancelCurrent(p) == cancelled' = cancelled \cup {At(p).job}

UseCurrent ==
    /\ Alive /\ spc = "use"
    /\ \E p \in {sptr, currJob} :
        IF p = None
        THEN spc' = "panicked" /\ UNCHANGED cancelled
        ELSE spc' = "exit" /\ CancelCurrent(p)
    /\ sptr' = None
    /\ UNCHANGED <<arrays, jobs, tableVars, addVars, workVars, cpc, cid, cptr, shifted, strays,
                   currJob, token, lateRuns, noteVars>>

Exit ==
    /\ Alive /\ spc = "exit"
    /\ spc' = "down"
    /\ UNCHANGED <<arrays, jobs, tableVars, addVars, workVars, cancVars, currJob, token, sptr,
                   lateRuns, noteVars>>

Shutdown == SendToken \/ TestCurrent \/ UseCurrent \/ Exit

(***************************************************************************)
(* cancelJob: FindJob's pointer is used after the search                   *)
(***************************************************************************)
FindJob(c) ==
    /\ Alive /\ cpc[c] = "idle"
    /\ \E id \in JobIds :
        /\ IndexOf(id) # 0
        /\ cid' = [cid EXCEPT ![c] = id]
        /\ cptr' = [cptr EXCEPT ![c] = [arr |-> jobs.arr, idx |-> IndexOf(id)]]
    /\ shifted' = IF InOrder(Slots(jobs)) THEN shifted ELSE shifted \cup {c}
    /\ cpc' = [cpc EXCEPT ![c] = "cancel"]
    /\ UNCHANGED <<arrays, jobs, tableVars, addVars, workVars, stopVars, cancelled, strays,
                   noteVars>>

CancelFound(c) ==
    /\ Alive /\ cpc[c] = "cancel"
    /\ cancelled' = cancelled \cup {At(cptr[c]).job}
    /\ cpc' = [cpc EXCEPT ![c] = "mark"]
    /\ UNCHANGED <<arrays, jobs, tableVars, addVars, workVars, stopVars, cid, cptr, shifted, strays,
                   noteVars>>

MarkDeleted(c) ==
    /\ Alive /\ cpc[c] = "mark"
    /\ Mark(cptr[c])
    /\ cpc' = [cpc EXCEPT ![c] = "row"]
    /\ shifted' = shifted \ {c}
    /\ strays' = IF c \in shifted THEN strays \cup {At(cptr[c]).job} ELSE strays
    /\ UNCHANGED <<jobs, tableVars, addVars, workVars, stopVars, cid, cptr, cancelled, noteVars>>

DeleteCancelledRow(c) ==
    /\ Alive /\ cpc[c] = "row"
    /\ rows' = {r \in rows : r.job # cid[c]}
    /\ cpc' = [cpc EXCEPT ![c] = "done"]
    /\ cid' = [cid EXCEPT ![c] = 0]
    /\ cptr' = [cptr EXCEPT ![c] = None]
    /\ UNCHANGED <<arrays, jobs, nextJob, nextItem, addVars, workVars, stopVars, cancelled,
                   shifted, strays, noteVars>>

Cancel(c) == FindJob(c) \/ CancelFound(c) \/ MarkDeleted(c) \/ DeleteCancelledRow(c)

(***************************************************************************)
(* A restart, after a crash, a panic or an exit: Load builds the slice     *)
(* from the rows, in no particular order.  A job that was cancelled or run *)
(* is left out when the states it had saved say so (JobRun has the states);*)
(* nobody changes them after that, so the next restart leaves it out too.  *)
(***************************************************************************)
Ended(r) == r.job \in over \cup cancelled

Restart ==
    /\ crashes < MaxCrashes
    /\ crashes' = crashes + 1
    /\ \E leftOut \in SUBSET {r \in rows : Ended(r)} :
       LET reloaded == rows \ leftOut
           n == Cardinality(reloaded)
           Loaded(r) == [id |-> r.id, job |-> r.job, pos |-> r.pos, deleted |-> FALSE]
       IN  /\ \A r \in reloaded : r.job \notin ignored
           /\ ignored' = {r.job : r \in leftOut}
           /\ \E f \in [1..n -> reloaded] :
                /\ \A r \in reloaded : \E i \in 1..n : f[i] = r
                /\ arrays' = << [i \in 1..Capacity[n] |-> IF i <= n THEN Loaded(f[i]) ELSE Empty] >>
           /\ jobs' = [arr |-> 1, len |-> n]
           /\ added' = added \cup {r.job : r \in reloaded}
           /\ disorder' = (disorder \/ \E r \in reloaded : r.id # r.job \/ r.pos # r.id)
    /\ apc' = [a \in Adders |-> "idle"]
    /\ aitem' = [a \in Adders |-> Empty]
    /\ wpc' = "idle"
    /\ ptr' = None
    /\ item' = Empty
    /\ found' = 0
    /\ running' = None
    /\ cpc' = [c \in Cancellers |-> IF cpc[c] = "idle" THEN "idle" ELSE "done"]
    /\ currJob' = None
    /\ token' = FALSE
    /\ spc' = "up"
    /\ sptr' = None
    /\ lateRuns' = 0
    /\ cid' = [c \in Cancellers |-> 0]
    /\ cptr' = [c \in Cancellers |-> None]
    /\ shifted' = {}
    /\ strays' = {}
    /\ UNCHANGED <<tableVars, runs, over, cancelled>>

Next ==
    \/ Worker
    \/ Shutdown
    \/ \E a \in Adders : Add(a)
    \/ \E c \in Cancellers : Cancel(c)
    \/ Restart

Spec == Init /\ [][Next]_vars

(***************************************************************************)
(* Properties                                                              *)
(***************************************************************************)
Pointers == [arr : 1..Len(arrays), idx : 1..MaxJobs]

\* Every variable stays in its range, and a pointer in use lies in its array.
TypeOK ==
    /\ \A n \in 1..Len(arrays) : \A i \in 1..Len(arrays[n]) : arrays[n][i] \in Items
    /\ jobs.arr \in 1..Len(arrays) /\ jobs.len \in 0..Len(arrays[jobs.arr])
    /\ rows \subseteq [id : JobIds, job : JobIds, pos : 0..MaxJobs]
    /\ nextJob \in 1..MaxJobs + 1 /\ nextItem \in 1..nextJob
    /\ apc \in [Adders -> {"idle", "insert", "position", "append", "reply"}]
    /\ aitem \in [Adders -> Items]
    /\ wpc \in {"idle", "load", "start", "running", "delete", "find", "remove", "again",
                "stopped", "panicked"}
    /\ ptr # None => ptr \in Pointers /\ ptr.idx <= Len(arrays[ptr.arr])
    /\ ptr = None <=> wpc \in {"idle", "again", "stopped"}
    /\ item \in Items
    /\ found \in 0..jobs.len
    /\ running \in JobIds \cup {None} /\ (running # None <=> wpc = "running")
    /\ runs \in [JobIds -> Nat] /\ over \subseteq JobIds
    /\ cpc \in [Cancellers -> {"idle", "cancel", "mark", "row", "done"}]
    /\ cid \in [Cancellers -> 0..MaxJobs]
    /\ \A c \in Cancellers : cpc[c] \in {"cancel", "mark", "row"} => cptr[c] \in Pointers
    /\ currJob \in Pointers \cup {None} /\ sptr \in Pointers \cup {None}
    /\ currJob # None => wpc \in {"running", "delete", "find", "remove", "again", "panicked"}
    /\ token \in BOOLEAN /\ spc \in {"up", "test", "use", "exit", "down", "panicked"}
    /\ lateRuns \in Nat /\ shifted \subseteq Holders
    /\ strays \subseteq JobIds /\ cancelled \subseteq JobIds
    /\ added \subseteq JobIds /\ ignored \subseteq JobIds
    /\ disorder \in BOOLEAN /\ crashes \in 0..MaxCrashes

\* The worker's pointer into the slice stays on the item it took, through
\* appends that move the slice and sorts of other handlers, as long as no item
\* was appended behind a later one.
PointerStaysOnItem ==
    ~disorder /\ ptr # None => At(ptr).id = item.id /\ At(ptr).job = item.job

\* What the worker removes is the item it took; RemoveJob finds it (no panic),
\* and no job is run a second time in the same process.
RemovesWhatItRan ==
    ~disorder =>
        /\ wpc = "remove" => found # 0 /\ Slots(jobs)[found].id = item.id
        /\ wpc # "panicked"
        /\ crashes = 0 => \A j \in JobIds : runs[j] <= 1

\* GetJobs hides an item (JobQueue.go:265) only when its row is gone, so that no
\* restart runs the job after all, or when the cancel of that very job is about to
\* delete the row.  A cancel may hide another job's item only when a removal came
\* between its search and its mark (JobHandler.go:142-150).
HiddenOnlyAtEnd ==
    ~disorder => \A i \in 1..jobs.len :
        Slots(jobs)[i].deleted =>
            \/ \A r \in rows : r.job # Slots(jobs)[i].job
            \/ \E c \in Cancellers : cpc[c] = "row" /\ cid[c] = Slots(jobs)[i].job
            \/ Slots(jobs)[i].job \in strays

\* JobHandler.go:148, "Cancel job": the slot FindJob's pointer names still holds
\* the requested job when cancelJob uses it, unless the worker removed an item in
\* between or the slice was still unsorted from a removal.  Appends, growth and the
\* sorts of other handlers do no harm.
CancelsRequestedJob ==
    ~disorder => \A c \in Holders \ shifted : At(cptr[c]).job = cid[c]

\* StartServices.go:62, "Stop all jobs": after stop has sent its token at most one
\* more run is started, and when stop is through, a job that runs has been
\* cancelled or is that one.
ShutdownStopsQueue ==
    /\ lateRuns <= 1
    /\ ~disorder /\ spc = "exit" /\ running # None => running \in cancelled \/ lateRuns = 1

\* The queue keeps what JobLifecycle promises until an item overtakes another,
\* its two IDs differ, or its position was lost.
Active == IF wpc \in {"idle", "again", "stopped"} THEN None ELSE item.job
Lifecycle == INSTANCE JobLifecycle WITH
    Jobs <- JobIds, waiting <- Queued \ {Active}, active <- Active,
    ended <- added \ (Queued \cup {Active}), uploads <- [j \in JobIds |-> 0],
    restarts <- crashes
KeepsLifecycle == Lifecycle!Init /\ [][disorder' \/ Lifecycle!Next]_(Lifecycle!lvars)

\* JobQueue.go:222: "RemoveJob remove item from jobQueue": the item removed is
\* the one whose run ended.
RemovesItsItem == wpc = "remove" => found # 0 /\ Slots(jobs)[found].id = item.id

=============================================================================
