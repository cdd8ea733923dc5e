------------------------------- MODULE JobList -------------------------------
(***************************************************************************)
(* The list of jobs: GetJobs walks over the queue's slice while handlers   *)
(* append to it and sort it and the worker removes from it, without the    *)
(* lock; then the answer is cut to the requested limit and filled up with  *)
(* old jobs from the database.                                             *)
(*                                                                         *)
(* The slice is the sequence of its items here (JobQueue has its arrays);  *)
(* an item is its job, whose number is also its position.  Each access to  *)
(* the slice is a step.                                                    *)
(***************************************************************************)
EXTENDS Integers, Sequences, FiniteSets, SequencesExt

CONSTANTS
    Lists,         \* requests to the list endpoint
    Limits,        \* limits they may ask for
    DefaultLimit,  \* old jobs listed without a limit: 10
    MaxJobs,       \* bound: jobs created in a behaviour
    DbMayFail      \* whether a query may fail

ASSUME LimitsAssumption == Limits \subseteq Int /\ DefaultLimit \in Nat \ {0}
ASSUME MaxListedJobs == MaxJobs \in Nat /\ DbMayFail \in BOOLEAN

VARIABLES
    queue,         \* JobQueue.jobs
    deleted,       \* jobs whose item has Deleted set
    ended,         \* jobs whose rows GetOldJobs lists
    next,          \* the next job
    apc,           \* addJob: appended, but the queue not sorted yet
    wpc, cur,      \* worker: step, the job it took
    cpc, cjob,     \* cancelJob: step, the job found
    lpc, limit,    \* lists: step, requested limit
    len, idx, got, \* lists: the range of GetJobs, its index, validJobs
    answer,        \* lists: the jobs answered
    \* What the properties look back at:
    unlisted,      \* jobs that a save once left with states GetOldJobs does not list
    known,         \* lists: jobs that were queued or ended when it began
    moved          \* lists: items were removed or changed places while it walked

queueVars == <<queue, deleted, ended, unlisted, next, apc, wpc, cur, cpc, cjob>>
listVars  == <<lpc, limit, len, idx, got, answer, known, moved>>
vars == <<queue, deleted, ended, unlisted, next, apc, wpc, cur, cpc, cjob, lpc, limit, len, idx,
          got, answer, known, moved>>
walkVars  == <<lpc, limit, len, idx, got, answer, known>>

JobIds == 1..MaxJobs

\* sort.Sort by Position, as in JobQueue: an entry goes to its rank.
ByPosition(s) ==
    LET Before(i, k) == s[i] < s[k] \/ (s[i] = s[k] /\ i < k)
        Rank(i) == 1 + Cardinality({k \in 1..Len(s) : Before(k, i)})
    IN  [r \in 1..Len(s) |-> s[CHOOSE i \in 1..Len(s) : Rank(i) = r]]

Init ==
    /\ queue = <<>> /\ deleted = {} /\ ended = {} /\ unlisted = {}
    /\ next = 1
    /\ apc = "idle"
    /\ wpc = "idle" /\ cur = 0
    /\ cpc = "idle" /\ cjob = 0
    /\ lpc = [l \in Lists |-> "idle"]
    /\ limit = [l \in Lists |-> 0]
    /\ len = [l \in Lists |-> 0]
    /\ idx = [l \in Lists |-> 1]
    /\ got = [l \in Lists |-> <<>>]
    /\ answer = [l \in Lists |-> <<>>]
    /\ known = [l \in Lists |-> {}]
    /\ moved = [l \in Lists |-> FALSE]

\* A change of the slice that a walk over it can notice.
Rearrange(s) ==
    /\ queue' = s
    /\ moved' = [l \in Lists |->
                    moved[l] \/ (lpc[l] \in {"test", "copy"} /\ ~IsPrefix(queue, s))]

(***************************************************************************)
(* The others: addJob, the worker, cancelJob                               *)
(***************************************************************************)
AddJob ==
    /\ apc = "idle" /\ next <= MaxJobs
    /\ Rearrange(Append(queue, next))
    /\ next' = next + 1
    /\ apc' = "reply"
    /\ UNCHANGED <<deleted, ended, unlisted, wpc, cur, cpc, cjob, walkVars>>

\* GetJobQueuePos
ReplyPosition ==
    /\ apc = "reply"
    /\ Rearrange(ByPosition(queue))
    /\ apc' = "idle"
    /\ UNCHANGED <<deleted, ended, unlisted, next, wpc, cur, cpc, cjob, walkVars>>

TakeFirst ==
    /\ wpc = "idle" /\ queue # <<>>
    /\ Rearrange(ByPosition(queue))
    /\ cur' = queue'[1]
    /\ wpc' = "running"
    /\ UNCHANGED <<deleted, ended, unlisted, next, apc, cpc, cjob, walkVars>>

\* A save stores states that GetOldJobs lists, or it does not: it failed, or it
\* found the build or the upload set to Running again (UnlistedHasACause of
\* JobRun).
StoresListed(j)   == ended' = ended \cup {j} /\ UNCHANGED unlisted
StoresUnlisted(j) == ended' = ended \ {j} /\ unlisted' = unlisted \cup {j}

\* The save before the upload, of a job that was cancelled in its build.
SaveBuilt ==
    /\ wpc = "running" /\ cur \in ended
    /\ StoresUnlisted(cur)
    /\ UNCHANGED <<queue, deleted, next, apc, wpc, cur, cpc, cjob, listVars>>

\* Job.Run saves the end state of its job before the item is marked; without a
\* run, when Load fails, the job keeps the states it has.
RunEnds ==
    /\ wpc = "running"
    /\ StoresListed(cur) \/ StoresUnlisted(cur)
    /\ wpc' = "mark"
    /\ UNCHANGED <<queue, deleted, next, apc, cur, cpc, cjob, listVars>>

MarkRun ==
    /\ wpc = "mark"
    /\ deleted' = deleted \cup {cur}
    /\ wpc' = "remove"
    /\ UNCHANGED <<queue, ended, unlisted, next, apc, cur, cpc, cjob, listVars>>

\* RemoveJob swaps the item with the last and cuts it off.
Removed_NotCut ==  \* mutant: the last item stays
    [queue EXCEPT ![CHOOSE k \in 1..Len(queue) : queue[k] = cur] = queue[Len(queue)]]
Removed ==
    LET i == CHOOSE k \in 1..Len(queue) : queue[k] = cur
        n == Len(queue)
    IN  SubSeq([queue EXCEPT ![i] = queue[n]], 1, n - 1)

RemoveJob ==
    /\ wpc = "remove"
    /\ Rearrange(Removed)
    /\ wpc' = "idle" /\ cur' = 0
    /\ UNCHANGED <<deleted, ended, unlisted, next, apc, cpc, cjob, walkVars>>

\* Job.Cancel saves the job as cancelled ...
CancelSave(j) == \/ StoresListed(j)
                 \/ (DbMayFail \/ cur = j) /\ StoresUnlisted(j)

CancelJob_NotSaved ==  \* mutant: marks the item, saves nothing
    /\ cpc = "idle"
    /\ \E j \in {queue[i] : i \in 1..Len(queue)} : cjob' = j /\ deleted' = deleted \cup {j}
    /\ cpc' = "mark"
    /\ UNCHANGED <<queue, ended, unlisted, next, apc, wpc, cur, listVars>>
CancelJob ==
    /\ cpc = "idle"
    /\ \E j \in {queue[i] : i \in 1..Len(queue)} : cjob' = j /\ CancelSave(j)
    /\ cpc' = "mark"
    /\ UNCHANGED <<queue, deleted, next, apc, wpc, cur, listVars>>

\* ... then cancelJob marks its item ...
MarkCancelled ==
    /\ cpc = "mark"
    /\ deleted' = deleted \cup {cjob}
    /\ cpc' = "save"
    /\ UNCHANGED <<queue, ended, unlisted, next, apc, wpc, cur, cjob, listVars>>

\* ... and saves the job once more.
SaveCancelled ==
    /\ cpc = "save"
    /\ CancelSave(cjob)
    /\ cpc' = "idle" /\ cjob' = 0
    /\ UNCHANGED <<queue, deleted, next, apc, wpc, cur, listVars>>

Others == \/ AddJob \/ ReplyPosition
          \/ TakeFirst \/ SaveBuilt \/ RunEnds \/ MarkRun \/ RemoveJob
          \/ CancelJob \/ MarkCancelled \/ SaveCancelled

(***************************************************************************)
(* listJobs                                                                *)
(***************************************************************************)

\* GetJobs: the range is fixed when the loop begins ...
RangeEnd_OffByOne == Len(queue) + 1  \* mutant: one index too many
RangeEnd == Len(queue)

ListJobs(l) ==
    /\ lpc[l] = "idle"
    /\ \E r \in Limits : limit' = [limit EXCEPT ![l] = r]
    /\ len' = [len EXCEPT ![l] = RangeEnd]
    /\ known' = [known EXCEPT ![l] = {queue[i] : i \in 1..Len(queue)} \cup ended]
    /\ lpc' = [lpc EXCEPT ![l] = "test"]
    /\ UNCHANGED <<queueVars, idx, got, answer, moved>>

\* ... but the slice is indexed anew each time, for Deleted and for the copy:
\* an index that is gone is a panic, which aborts the request.
TestDeleted(l) ==
    /\ lpc[l] = "test" /\ idx[l] <= len[l]
    /\ IF idx[l] > Len(queue) THEN lpc' = [lpc EXCEPT ![l] = "aborted"] /\ UNCHANGED idx
       ELSE IF queue[idx[l]] \in deleted
            THEN idx' = [idx EXCEPT ![l] = @ + 1] /\ UNCHANGED lpc
            ELSE lpc' = [lpc EXCEPT ![l] = "copy"] /\ UNCHANGED idx
    /\ UNCHANGED <<queueVars, limit, len, got, answer, known, moved>>

CopyItem(l) ==
    /\ lpc[l] = "copy"
    /\ \/ /\ idx[l] > Len(queue)
          /\ lpc' = [lpc EXCEPT ![l] = "aborted"]
          /\ UNCHANGED <<idx, got>>
       \/ /\ idx[l] <= Len(queue)
          /\ got' = [got EXCEPT ![l] = Append(@, queue[idx[l]])]
          /\ idx' = [idx EXCEPT ![l] = @ + 1]
          /\ lpc' = [lpc EXCEPT ![l] = "test"]
    /\ UNCHANGED <<queueVars, limit, len, answer, known, moved>>

\* The limit: a smaller one cuts off the front of the queue and leaves nothing
\* for old jobs, a larger one leaves the rest to them.
Cut(s, r) == IF r \in 1..Len(s) THEN SubSeq(s, Len(s) - r + 1, Len(s)) ELSE s
OldLimit_Whole(s, r) ==  \* mutant: the queued jobs are not counted
    IF r <= 0 THEN DefaultLimit ELSE IF r <= Len(s) THEN 0 ELSE r
OldLimit(s, r) ==
    IF r <= 0 THEN DefaultLimit ELSE (IF r <= Len(s) THEN 0 ELSE r) - Len(Cut(s, r))

\* Each item's job is loaded, and a job whose load fails has no BuildJob: the
\* request panics, or the item's row was still there.
CutToLimit(l) ==
    /\ lpc[l] = "test" /\ idx[l] > len[l]
    /\ \/ /\ answer' = [answer EXCEPT ![l] = Cut(ByPosition(got[l]), limit[l])]
          /\ lpc' = [lpc EXCEPT ![l] = IF OldLimit(got[l], limit[l]) > 0 THEN "old" ELSE "done"]
       \/ /\ DbMayFail /\ got[l] # <<>>
          /\ lpc' = [lpc EXCEPT ![l] = "failed"]
          /\ UNCHANGED answer
    /\ UNCHANGED <<queueVars, limit, len, idx, got, known, moved>>

\* GetOldJobs: the latest first.
LatestFirst ==
    [r \in 1..Cardinality(ended) |->
        CHOOSE j \in ended : 1 + Cardinality({k \in ended : k > j}) = r]
OldJobs(n) == SubSeq(LatestFirst, 1, IF n < Len(LatestFirst) THEN n ELSE Len(LatestFirst))

AppendOld(l) ==
    /\ lpc[l] = "old"
    /\ \/ /\ answer' = [answer EXCEPT ![l] = @ \o OldJobs(OldLimit(got[l], limit[l]))]
          /\ lpc' = [lpc EXCEPT ![l] = "done"]
       \/ /\ DbMayFail
          /\ lpc' = [lpc EXCEPT ![l] = "failed"]
          /\ UNCHANGED answer
    /\ UNCHANGED <<queueVars, limit, len, idx, got, known, moved>>

List(l) == ListJobs(l) \/ TestDeleted(l) \/ CopyItem(l) \/ CutToLimit(l) \/ AppendOld(l)

Next == Others \/ \E l \in Lists : List(l)

Spec == Init /\ [][Next]_vars

(***************************************************************************)
(* Properties                                                              *)
(***************************************************************************)
Answered(l) == {answer[l][i] : i \in 1..Len(answer[l])}

\* Every variable stays in its range; each job is in the queue at most once.
TypeOK ==
    /\ queue \in Seq(JobIds) /\ IsInjective(queue)
    /\ deleted \subseteq JobIds /\ ended \subseteq JobIds /\ unlisted \subseteq JobIds
    /\ next \in 1..MaxJobs + 1
    /\ apc \in {"idle", "reply"}
    /\ wpc \in {"idle", "running", "mark", "remove"}
    /\ IF wpc = "idle" THEN cur = 0 ELSE \E i \in 1..Len(queue) : queue[i] = cur
    /\ cpc \in {"idle", "mark", "save"} /\ cjob \in 0..MaxJobs
    /\ lpc \in [Lists -> {"idle", "test", "copy", "old", "done", "aborted", "failed"}]
    /\ limit \in [Lists -> Limits \cup {0}]
    /\ len \in [Lists -> 0..MaxJobs] /\ idx \in [Lists -> 1..MaxJobs + 1]
    /\ got \in [Lists -> Seq(JobIds)] /\ answer \in [Lists -> Seq(JobIds)]
    /\ known \in [Lists -> SUBSET JobIds] /\ moved \in [Lists -> BOOLEAN]

\* A list that is not cut by its limit holds every job there was when it began,
\* also those that end or are cancelled meanwhile: a job's rows are saved
\* before its item is hidden, and the old jobs are read last.  It misses only
\* jobs that a run or a cancel left with states GetOldJobs does not list, and,
\* if items are removed or moved while GetJobs walks over the slice, those that
\* the walk passes over.
ListsEveryJob ==
    \A l \in Lists :
        /\ lpc[l] = "done" /\ ~moved[l]
        /\ IF limit[l] <= 0 THEN Cardinality(ended \cup unlisted) <= DefaultLimit
                            ELSE limit[l] >= 2 * MaxJobs
        => known[l] \subseteq Answered(l) \cup unlisted

\* A limited list is never longer than asked for, and not shorter while there
\* are enough jobs that can be listed; old jobs appear in it only after the whole
\* queue.
LimitKept ==
    \A l \in Lists : lpc[l] = "done" /\ limit[l] > 0 =>
        /\ Len(answer[l]) <= limit[l]
        /\ ~moved[l] /\ Cardinality(known[l] \ unlisted) >= limit[l] => Len(answer[l]) = limit[l]
        /\ Len(answer[l]) > Len(got[l]) => ByPosition(got[l]) = SubSeq(answer[l], 1, Len(got[l]))

\* The walk panics only if an item was removed meanwhile, and without such a
\* change it reads no item twice.
WalkIsExact ==
    \A l \in Lists : ~moved[l] => lpc[l] # "aborted" /\ IsInjective(got[l])
=============================================================================
