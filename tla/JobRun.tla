------------------------------- MODULE JobRun -------------------------------
(***************************************************************************)
(* The life of a queued job: the queue worker that runs it, the goroutines *)
(* the run spawns (the build and the log updater), the HTTP handlers that  *)
(* cancel, pause and resume it, the docker daemon, and the rows that a     *)
(* crash of the server leaves behind.                                      *)
(*                                                                         *)
(* Every read or write of state two of these can see is a step of its own, *)
(* except where the README ("Granularity") says that two neighbours are    *)
(* one step.  A goroutine is a program counter; a send on a full channel   *)
(* is a disabled guard.                                                    *)
(***************************************************************************)
EXTENDS Naturals

CONSTANTS
    Jobs,            \* jobs, numbered by their position in the queue
    Cancellers,      \* requests to the cancel endpoint, each sent at most once
    Pausers,         \* clients of the pause/resume endpoint
    None,            \* no job
    KeepBuildFiles,  \* config.Server.KeepBuildFiles
    DbMayFail,       \* whether a job's load and its saves may fail
    MaxCrashes       \* bound: crashes of the server in a behaviour

ASSUME JobsAssumption == Jobs \subseteq Nat /\ None \notin Jobs
ASSUME KeepBuildFilesAssumption == KeepBuildFiles \in BOOLEAN
ASSUME DbMayFailAssumption == DbMayFail \in BOOLEAN
ASSUME MaxCrashesAssumption == MaxCrashes \in Nat

VARIABLES
    queue, row,               \* jobs in memory; rows of table job_queue
    wpc, cur,                 \* the worker and the job it runs
    loaded,                   \* Job.BuildJob and Job.UploadJob are not nil
    bState, uState,           \* BuildJob.State, UploadJob.State
    stopLog, bCancel, uCancel,\* the three channels of capacity 1
    cancelled, hasArgs,       \* Job.Cancelled, Job.Args is not nil
    gpc, buildRes, containerId, \* build goroutine, its result, ContainerID # ""
    lpc, lwas,                \* log updater, its wasJobRunning
    cont,                     \* the job's container in the docker daemon
    dataDir, published,       \* DataDir exists; completed uploads
    db,                       \* rows of build_jobs and upload_jobs
    dbErrs,                   \* history: database calls that failed for a job
    cpc, cjob,                \* cancel requests
    ppc, pjob, pop,           \* pause/resume requests
    crashes

queueVars == <<queue, row>>
workVars  == <<wpc, cur>>
jobVars   == <<loaded, bState, uState, cancelled, hasArgs>>
chanVars  == <<stopLog, bCancel, uCancel>>
buildVars == <<gpc, buildRes, containerId>>
updVars   == <<lpc, lwas>>
extVars   == <<cont, dataDir, published>>
dbVars    == <<db, dbErrs>>
cancVars  == <<cpc, cjob>>
pauseVars == <<ppc, pjob, pop>>

vars == <<queue, row, wpc, cur, loaded, bState, uState, cancelled, hasArgs,
          stopLog, bCancel, uCancel, gpc, buildRes, containerId, lpc, lwas,
          cont, dataDir, published, db, dbErrs, cpc, cjob, ppc, pjob, pop, crashes>>

\* What the steps of each goroutine or handler leave alone.
workerKeeps  == <<queueVars, cancVars, pauseVars, crashes>>
runKeeps     == <<workerKeeps, cur, loaded, cancelled, hasArgs, buildRes, containerId, updVars>>
buildKeeps   == <<workerKeeps, workVars, dbVars, loaded, uState, cancelled, hasArgs, chanVars,
                  updVars, dataDir, published>>
updaterKeeps == <<workerKeeps, workVars, dbVars, jobVars, bCancel, uCancel, buildVars, extVars>>
cancelKeeps  == <<queue, workVars, loaded, hasArgs, buildVars, updVars, published, pauseVars,
                  crashes>>
pauseKeeps   == <<queueVars, workVars, loaded, uState, cancelled, hasArgs, chanVars, buildVars,
                  updVars, dataDir, published, dbVars, cancVars, crashes>>

States == {"Waiting", "Running", "Paused", "Cancelled", "Failed", "Done"}

(***************************************************************************)
(* Operators                                                               *)
(***************************************************************************)

\* Job.GetState: the build's state until it is Done, then the upload's.
GetState(b, u) == IF b # "Done" THEN b ELSE u

\* JobQueue.Load turns a job found Running back into Waiting ...
ReloadState(r, s) == IF GetState(r.build, r.upload) = "Running" THEN "Waiting" ELSE s

\* ... and keeps only jobs that wait (or run) after that.
Requeued_BuildOnly(r) == r.build \in {"Waiting", "Running"}  \* mutant: ignores the upload
Requeued(r) == GetState(r.build, r.upload) \in {"Waiting", "Running"}

\* The filter of GetOldJobs.
Listed(r) == /\ r.build \notin {"Waiting", "Running"}
             /\ r.upload \notin {"Waiting", "Running"}

\* Job.SetState sets both halves.
SetState_BuildOnly(j, s) == bState' = [bState EXCEPT ![j] = s] /\ UNCHANGED uState  \* mutant
SetState(j, s) == /\ bState' = [bState EXCEPT ![j] = s]
                  /\ uState' = [uState EXCEPT ![j] = s]

\* JobQueueItem.Load finds the row.
ItemExists_Unchecked(j) == TRUE  \* mutant: the error of Load is ignored
ItemExists(j) == row[j]

\* The value JobQueue.Load leaves in Job.Args: Init does not read Argdata.
ReloadedArgs_Restored == TRUE  \* mutant: Init reads Argdata back
ReloadedArgs == FALSE

Live(c) == c \in {"running", "paused"}
Exited(c) == c \in {"exit0", "exit1"}

\* What docker may leave after BuildJob.Stop: nothing happens without a
\* container ID, when the call fails, or when the container does not run yet.
StopOutcomes(j) ==
    {cont[j]} \cup (IF containerId[j] /\ Live(cont[j]) THEN {"exit0", "exit1"} ELSE {})

SaveBuild(j)  == db' = [db EXCEPT ![j].build = bState[j]]
SaveUpload(j) == db' = [db EXCEPT ![j].upload = uState[j]]

\* A call of the database fails for job j: its Load, the save after its build
\* ("built"), or the last save of its run or of a cancel ("final").
DbFails(j, call) == DbMayFail /\ dbErrs' = [dbErrs EXCEPT ![j] = @ \cup {call}]

\* Job.cleanup removes the data directory unless the config keeps it.
RemoveDataDir(j) == dataDir' = [dataDir EXCEPT ![j] = KeepBuildFiles /\ @]

(***************************************************************************)
(* Initial state: jobs accepted by AddNewJob, none of them started.        *)
(***************************************************************************)
Init ==
    /\ queue = Jobs
    /\ row = [j \in Jobs |-> TRUE]
    /\ wpc = "idle"
    /\ cur = None
    /\ loaded = [j \in Jobs |-> FALSE]
    /\ bState = [j \in Jobs |-> "Waiting"]
    /\ uState = [j \in Jobs |-> "Waiting"]
    /\ cancelled = [j \in Jobs |-> FALSE]
    /\ hasArgs = [j \in Jobs |-> TRUE]
    /\ stopLog = [j \in Jobs |-> FALSE]
    /\ bCancel = [j \in Jobs |-> FALSE]
    /\ uCancel = [j \in Jobs |-> FALSE]
    /\ gpc = [j \in Jobs |-> "none"]
    /\ buildRes = [j \in Jobs |-> "none"]
    /\ containerId = [j \in Jobs |-> FALSE]
    /\ lpc = [j \in Jobs |-> "none"]
    /\ lwas = [j \in Jobs |-> FALSE]
    /\ cont = [j \in Jobs |-> "none"]
    /\ dataDir = [j \in Jobs |-> TRUE]
    /\ published = [j \in Jobs |-> 0]
    /\ db = [j \in Jobs |-> [build |-> "Waiting", upload |-> "Waiting"]]
    /\ dbErrs = [j \in Jobs |-> {}]
    /\ cpc = [c \in Cancellers |-> "idle"]
    /\ cjob = [c \in Cancellers |-> None]
    /\ ppc = [p \in Pausers |-> "idle"]
    /\ pjob = [p \in Pausers |-> None]
    /\ pop = [p \in Pausers |-> "pause"]
    /\ crashes = 0

(***************************************************************************)
(* The worker: JobQueue.run and, inside it, Job.Run                        *)
(***************************************************************************)

\* The front of the queue sorted by position.
IsFirst_Unsorted(j) == TRUE  \* mutant: the queue is not sorted
IsFirst(j) == \A k \in queue : j <= k

\* The worker takes the front of the sorted queue and loads it.  When the row
\* is gone (a cancel deleted it), or the query fails, only the deferred removal
\* runs.
PickJob ==
    /\ wpc = "idle"
    /\ \E j \in queue :
        /\ IsFirst(j)
        /\ cur' = j
        /\ \/ /\ ItemExists(j)
              /\ loaded' = [loaded EXCEPT ![j] = TRUE]
              /\ wpc' = "begin"
              /\ UNCHANGED dbErrs
           \/ /\ (~ItemExists(j) /\ UNCHANGED dbErrs) \/ DbFails(j, "load")
              /\ wpc' = "finish"
              /\ UNCHANGED loaded
    /\ UNCHANGED <<workerKeeps, chanVars, buildVars, updVars, extVars, bState, uState,
                   cancelled, hasArgs, db>>

\* Job.Run saves the job, whatever comes of it, arms the deferred cleanup and
\* spawns the log updater.
BeginRun ==
    /\ wpc = "begin"
    /\ \/ db' = [db EXCEPT ![cur] = [build |-> bState[cur], upload |-> uState[cur]]]
       \/ DbMayFail /\ (SaveBuild(cur) \/ UNCHANGED db)
    /\ lpc' = [lpc EXCEPT ![cur] = "top"]
    /\ wpc' = "init"
    /\ UNCHANGED <<workerKeeps, jobVars, chanVars, buildVars, extVars, cur, lwas, dbErrs>>

\* BuildJob.Run: connect to docker, become Running, spawn the build.
InitBuild ==
    /\ wpc = "init"
    /\ \/ /\ bState' = [bState EXCEPT ![cur] = "Failed"]
          /\ wpc' = "fail"
          /\ UNCHANGED gpc
       \/ /\ bState' = [bState EXCEPT ![cur] = "Running"]
          /\ gpc' = [gpc EXCEPT ![cur] = "prepare"]
          /\ wpc' = "await"
    /\ UNCHANGED <<runKeeps, chanVars, extVars, uState, dbVars>>

\* The build goroutine sent on buildDone.
BuildDone_NotAwaited(j) == TRUE  \* mutant: the run does not await the build
BuildDone(j) == buildRes[j] # "none"

\* The select of BuildJob.Run, first case: the build returned.
AwaitBuild ==
    /\ wpc = "await"
    /\ BuildDone(cur)
    /\ wpc' = IF buildRes[cur] = "ok" THEN "saveBuild" ELSE "fail"
    /\ UNCHANGED <<runKeeps, chanVars, extVars, bState, uState, gpc, dbVars>>

\* The select of BuildJob.Run, second case: a cancel arrived.
AwaitCancel ==
    /\ wpc = "await"
    /\ bCancel[cur]
    /\ bCancel' = [bCancel EXCEPT ![cur] = FALSE]
    /\ wpc' = "stop"
    /\ UNCHANGED <<runKeeps, extVars, bState, uState, stopLog, uCancel, gpc, dbVars>>

StopCancelledBuild ==
    /\ wpc = "stop"
    /\ \E o \in StopOutcomes(cur) : cont' = [cont EXCEPT ![cur] = o]
    /\ wpc' = "setCancelled"
    /\ UNCHANGED <<runKeeps, chanVars, bState, uState, gpc, dataDir, published, dbVars>>

\* The build goroutine is left behind: BuildJob.Run returns without it.
ReturnCancelled ==
    /\ wpc = "setCancelled"
    /\ bState' = [bState EXCEPT ![cur] = "Cancelled"]
    /\ wpc' = "sendStop"
    /\ UNCHANGED <<runKeeps, chanVars, extVars, uState, gpc, dbVars>>

\* SetState(JobFailed) after a build or an upload error.
FailJob_SendsStop ==  \* mutant: the error path stops the updater too, as the defer does
    /\ wpc = "fail"
    /\ ~stopLog[cur]
    /\ stopLog' = [stopLog EXCEPT ![cur] = TRUE]
    /\ SetState(cur, "Failed")
    /\ wpc' = "sendStop"
    /\ UNCHANGED <<runKeeps, extVars, bCancel, uCancel, gpc, dbVars>>

FailJob ==
    /\ wpc = "fail"
    /\ SetState(cur, "Failed")
    /\ wpc' = "sendStop"
    /\ UNCHANGED <<runKeeps, chanVars, extVars, gpc, dbVars>>

\* The save between build and upload; an error, that of the job's own row
\* included, ends the run as it is.
SaveBuilt ==
    /\ \/ /\ \/ wpc = "saveBuild" /\ SaveBuild(cur) /\ wpc' = "saveUpload"
             \/ wpc = "saveUpload" /\ SaveUpload(cur) /\ wpc' = "check"
          /\ UNCHANGED dbErrs
       \/ /\ wpc \in {"saveBuild", "saveUpload"}
          /\ DbFails(cur, "built")
          /\ UNCHANGED db \/ (wpc = "saveUpload" /\ SaveUpload(cur))
          /\ wpc' = "sendStop"
    /\ UNCHANGED <<runKeeps, chanVars, extVars, bState, uState, gpc>>

\* Between build and upload the run looks at Job.Cancelled, not at the states.
IsCancelled_Never(j) == FALSE  \* mutant: the flag is not looked at
IsCancelled(j) == cancelled[j]

CheckCancelled ==
    /\ wpc = "check"
    /\ wpc' = IF IsCancelled(cur) THEN "sendStop" ELSE "upload"
    /\ UNCHANGED <<runKeeps, chanVars, extVars, bState, uState, gpc, dbVars>>

\* UploadJob.Run: become Running; without data for the upload, or without a
\* valid method, the job fails.
BeginUpload ==
    /\ wpc = "upload"
    /\ uState' = [uState EXCEPT ![cur] = "Running"]
    /\ wpc' \in {"open", "fail"}
    /\ UNCHANGED <<runKeeps, chanVars, extVars, bState, gpc, dbVars>>

\* An error: uploadDmanager sets Failed, saveToLocalStorage leaves Running.
UploadFails ==
    /\ uState' \in {uState, [uState EXCEPT ![cur] = "Failed"]}
    /\ wpc' = "fail"

\* Opening the built file fails when the data directory is gone.
OpenFile ==
    /\ wpc = "open"
    /\ \/ dataDir[cur] /\ wpc' = "send" /\ UNCHANGED uState
       \/ UploadFails
    /\ UNCHANGED <<runKeeps, chanVars, extVars, bState, gpc, dbVars>>

\* The transfer ends well, fails, or is aborted by a token in cancelChan.
SendFile ==
    /\ wpc = "send"
    /\ \/ /\ published' = [published EXCEPT ![cur] = @ + 1]
          /\ uState' = [uState EXCEPT ![cur] = "Done"]
          /\ wpc' = "sendStop"
          /\ UNCHANGED uCancel
       \/ /\ UploadFails
          /\ uCancel' \in {uCancel, [uCancel EXCEPT ![cur] = FALSE]}
          /\ UNCHANGED published
    /\ UNCHANGED <<runKeeps, bState, stopLog, bCancel, gpc, cont, dataDir, dbVars>>

\* The deferred function of Job.Run: first the send that stops the updater.
SendStop ==
    /\ wpc = "sendStop"
    /\ ~stopLog[cur]
    /\ stopLog' = [stopLog EXCEPT ![cur] = TRUE]
    /\ wpc' = "clean"
    /\ UNCHANGED <<runKeeps, extVars, bState, uState, bCancel, uCancel, gpc, dbVars>>

\* ... then Job.cleanup, which ends at the first save that fails.
CleanJob ==
    /\ \/ wpc = "clean" /\ RemoveDataDir(cur) /\ UNCHANGED dbVars /\ wpc' = "endBuild"
       \/ /\ \/ wpc = "endBuild" /\ SaveBuild(cur) /\ wpc' = "endUpload"
             \/ wpc = "endUpload" /\ SaveUpload(cur) /\ wpc' = "finish"
          /\ UNCHANGED <<dataDir, dbErrs>>
       \/ /\ wpc \in {"endBuild", "endUpload"} /\ wpc' = "finish"
          /\ DbFails(cur, "final") /\ UNCHANGED <<dataDir, db>>
    /\ UNCHANGED <<runKeeps, chanVars, bState, uState, gpc, cont, published>>

\* The loop of JobQueue.Run forgets the job before it takes the next one.
WorkerFree_KeepsJob == wpc' = "idle" /\ UNCHANGED cur  \* mutant: currJob is not reset
WorkerFree == wpc' = "idle" /\ cur' = None

\* The deferred function of JobQueue.run: delete the row, leave the queue.
FinishJob ==
    /\ wpc = "finish"
    /\ row' = [row EXCEPT ![cur] = FALSE]
    /\ queue' = queue \ {cur}
    /\ WorkerFree
    /\ UNCHANGED <<jobVars, chanVars, buildVars, updVars, extVars, cancVars, pauseVars, dbVars,
                   crashes>>

Worker ==
    \/ PickJob \/ BeginRun \/ InitBuild \/ AwaitBuild \/ AwaitCancel
    \/ StopCancelledBuild \/ ReturnCancelled \/ FailJob \/ SaveBuilt
    \/ CheckCancelled \/ BeginUpload \/ OpenFile \/ SendFile \/ SendStop
    \/ CleanJob \/ FinishJob

(***************************************************************************)
(* The build goroutine of job j: BuildJob.build                            *)
(***************************************************************************)

BuildReturns(j, res) ==
    /\ gpc' = [gpc EXCEPT ![j] = "none"]
    /\ buildRes' = [buildRes EXCEPT ![j] = res]

\* ParseEnvars needs the job's arguments; pulling the image may fail.
PrepareBuild(j) ==
    /\ gpc[j] = "prepare"
    /\ \/ /\ hasArgs[j]
          /\ gpc' = [gpc EXCEPT ![j] = "create"]
          /\ UNCHANGED buildRes
       \/ BuildReturns(j, "err")
    /\ UNCHANGED <<buildKeeps, bState, containerId, cont>>

\* The bind mount needs the data directory on the host.
CreateContainer(j) ==
    /\ gpc[j] = "create"
    /\ \/ /\ dataDir[j]
          /\ cont' = [cont EXCEPT ![j] = "created"]
          /\ containerId' = [containerId EXCEPT ![j] = TRUE]
          /\ gpc' = [gpc EXCEPT ![j] = "start"]
          /\ UNCHANGED buildRes
       \/ /\ BuildReturns(j, "err")
          /\ UNCHANGED <<cont, containerId>>
    /\ UNCHANGED <<buildKeeps, bState>>

StartContainer(j) ==
    /\ gpc[j] = "start"
    /\ \/ /\ cont' = [cont EXCEPT ![j] = "running"]
          /\ gpc' = [gpc EXCEPT ![j] = "wait"]
          /\ UNCHANGED buildRes
       \/ /\ BuildReturns(j, "err")
          /\ UNCHANGED cont
    /\ UNCHANGED <<buildKeeps, bState, containerId>>

\* WaitContainer returns the exit code of the container ...
WaitContainer(j) ==
    /\ gpc[j] = "wait"
    /\ Exited(cont[j])
    /\ containerId' = [containerId EXCEPT ![j] = FALSE]
    /\ IF cont[j] = "exit0"
       THEN gpc' = [gpc EXCEPT ![j] = "parse"] /\ UNCHANGED buildRes
       ELSE BuildReturns(j, "err")
    /\ UNCHANGED <<buildKeeps, bState, cont>>

\* ... or an API error at any time: the container goes on, ContainerID stays.
WaitFails(j) ==
    /\ gpc[j] = "wait"
    /\ BuildReturns(j, "waitErr")
    /\ UNCHANGED <<buildKeeps, bState, containerId, cont>>

\* The result file lies in the data directory; with it the build is Done.
ParseResult(j) ==
    /\ gpc[j] = "parse"
    /\ \/ /\ dataDir[j]
          /\ bState' = [bState EXCEPT ![j] = "Done"]
          /\ BuildReturns(j, "ok")
       \/ /\ BuildReturns(j, "err")
          /\ UNCHANGED bState
    /\ UNCHANGED <<buildKeeps, containerId, cont>>

Build(j) == \/ PrepareBuild(j) \/ CreateContainer(j) \/ StartContainer(j)
            \/ WaitContainer(j) \/ ParseResult(j)

\* The docker daemon: a running container exits by itself.
ContainerExits(j) ==
    /\ cont[j] = "running"
    /\ \E code \in {"exit0", "exit1"} : cont' = [cont EXCEPT ![j] = code]
    /\ UNCHANGED <<buildKeeps, buildVars, bState>>

(***************************************************************************)
(* The log updater of job j: Job.runLogUpdater                             *)
(***************************************************************************)

\* The select with a default case: a waiting token ends the updater.
UpdaterTop(j) ==
    /\ lpc[j] = "top"
    /\ lpc' = [lpc EXCEPT ![j] = IF stopLog[j] THEN "none" ELSE "first"]
    /\ stopLog' = [stopLog EXCEPT ![j] = FALSE]
    /\ UNCHANGED <<updaterKeeps, lwas>>

\* The condition reads BuildJob.State twice: != Running, then != Waiting.
UpdaterReadsState(j) ==
    /\ \/ /\ lpc[j] = "first"
          /\ lpc' = [lpc EXCEPT ![j] = IF bState[j] = "Running" THEN "get" ELSE "second"]
       \/ /\ lpc[j] = "second"
          /\ lpc' = [lpc EXCEPT ![j] = IF bState[j] = "Waiting" THEN "get" ELSE "none"]
    /\ UNCHANGED <<updaterKeeps, stopLog, lwas>>

\* BuildJob.GetLogs: not running is tolerated until logs were read once; any
\* other error ends the updater, leaving the stop channel unread.
UpdaterGetsLogs(j) ==
    /\ lpc[j] = "get"
    /\ IF bState[j] = "Running" /\ containerId[j]
       THEN \/ lwas' = [lwas EXCEPT ![j] = TRUE] /\ lpc' = [lpc EXCEPT ![j] = "top"]
            \/ lpc' = [lpc EXCEPT ![j] = "none"] /\ UNCHANGED lwas
       ELSE /\ lpc' = [lpc EXCEPT ![j] = IF lwas[j] THEN "none" ELSE "top"]
            /\ UNCHANGED lwas
    /\ UNCHANGED <<updaterKeeps, stopLog>>

Updater(j) == UpdaterTop(j) \/ UpdaterReadsState(j) \/ UpdaterGetsLogs(j)

(***************************************************************************)
(* HTTP handlers                                                           *)
(***************************************************************************)

\* listJobs loads every queued item, which is also what fills the nil
\* BuildJob and UploadJob of a job that was just added.
ListJobs(j) ==
    /\ j \in queue
    /\ row[j]
    /\ ~loaded[j]
    /\ loaded' = [loaded EXCEPT ![j] = TRUE]
    /\ UNCHANGED <<workerKeeps, workVars, chanVars, buildVars, updVars, extVars, bState,
                   uState, cancelled, hasArgs, dbVars>>

CancelGoes(c, pc) == cpc' = [cpc EXCEPT ![c] = pc]

\* cancelJob finds the job in the queue (404 otherwise: nothing happens).
CancelFindJob(c) ==
    /\ cpc[c] = "idle"
    /\ \E j \in queue : cjob' = [cjob EXCEPT ![c] = j]
    /\ CancelGoes(c, "sendStop")
    /\ UNCHANGED <<cancelKeeps, chanVars, row, bState, uState, cancelled, cont, dataDir, dbVars>>

\* Job.Cancel first stops the updater: the send blocks while a token waits.
CancelSendStop(c) ==
    /\ cpc[c] = "sendStop"
    /\ ~stopLog[cjob[c]]
    /\ stopLog' = [stopLog EXCEPT ![cjob[c]] = TRUE]
    /\ CancelGoes(c, "readBuild")
    /\ UNCHANGED <<cancelKeeps, row, bState, uState, cancelled, bCancel, uCancel, cont,
                   dataDir, cjob, dbVars>>

\* BuildJob.cancel: a nil BuildJob panics and ends the handler.
CancelReadBuild(c) ==
    /\ cpc[c] = "readBuild"
    /\ CancelGoes(c, IF ~loaded[cjob[c]] THEN "panicked"
                     ELSE IF bState[cjob[c]] = "Running" THEN "sendBuild" ELSE "setBuild")
    /\ UNCHANGED <<cancelKeeps, chanVars, row, bState, uState, cancelled, cont, dataDir,
                   cjob, dbVars>>

CancelSendBuild(c) ==
    /\ cpc[c] = "sendBuild"
    /\ ~bCancel[cjob[c]]
    /\ bCancel' = [bCancel EXCEPT ![cjob[c]] = TRUE]
    /\ CancelGoes(c, "stop")
    /\ UNCHANGED <<cancelKeeps, row, bState, uState, cancelled, stopLog, uCancel, cont,
                   dataDir, cjob, dbVars>>

CancelStop(c) ==
    /\ cpc[c] = "stop"
    /\ \E o \in StopOutcomes(cjob[c]) : cont' = [cont EXCEPT ![cjob[c]] = o]
    /\ CancelGoes(c, "setBuild")
    /\ UNCHANGED <<cancelKeeps, chanVars, row, bState, uState, cancelled, dataDir, cjob, dbVars>>

CancelSetBuild(c) ==
    /\ cpc[c] = "setBuild"
    /\ bState' = [bState EXCEPT ![cjob[c]] = "Cancelled"]
    /\ CancelGoes(c, "readUpload")
    /\ UNCHANGED <<cancelKeeps, chanVars, row, uState, cancelled, cont, dataDir, cjob, dbVars>>

\* UploadJob.cancel
CancelReadUpload(c) ==
    /\ cpc[c] = "readUpload"
    /\ CancelGoes(c, IF uState[cjob[c]] = "Running" THEN "sendUpload" ELSE "setUpload")
    /\ UNCHANGED <<cancelKeeps, chanVars, row, bState, uState, cancelled, cont, dataDir,
                   cjob, dbVars>>

CancelSendUpload(c) ==
    /\ cpc[c] = "sendUpload"
    /\ ~uCancel[cjob[c]]
    /\ uCancel' = [uCancel EXCEPT ![cjob[c]] = TRUE]
    /\ CancelGoes(c, "setUpload")
    /\ UNCHANGED <<cancelKeeps, row, bState, uState, cancelled, stopLog, bCancel, cont,
                   dataDir, cjob, dbVars>>

CancelSetUpload(c) ==
    /\ cpc[c] = "setUpload"
    /\ uState' = [uState EXCEPT ![cjob[c]] = "Cancelled"]
    /\ CancelGoes(c, "flag")
    /\ UNCHANGED <<cancelKeeps, chanVars, row, bState, cancelled, cont, dataDir, cjob, dbVars>>

CancelFlag(c) ==
    /\ cpc[c] = "flag"
    /\ cancelled' = [cancelled EXCEPT ![cjob[c]] = TRUE]
    /\ CancelGoes(c, "clean")
    /\ UNCHANGED <<cancelKeeps, chanVars, row, bState, uState, cont, dataDir, cjob, dbVars>>

\* Job.cleanup, then the handler's own Save: both rows are written twice.  A
\* save that fails ends the Save it belongs to, and the handler goes on; what the
\* first leaves out the second makes good.
CancelClean(c) ==
    /\ LET j == cjob[c] IN
       \/ /\ cpc[c] = "clean" /\ RemoveDataDir(j) /\ CancelGoes(c, "saveBuild")
          /\ UNCHANGED dbVars
       \/ /\ \/ cpc[c] = "saveBuild" /\ SaveBuild(j) /\ CancelGoes(c, "saveUpload")
             \/ cpc[c] = "saveUpload" /\ SaveUpload(j) /\ CancelGoes(c, "saveBuild2")
             \/ /\ cpc[c] \in {"saveBuild", "saveUpload"} /\ CancelGoes(c, "saveBuild2")
                /\ DbMayFail /\ UNCHANGED db
             \/ cpc[c] = "saveBuild2" /\ SaveBuild(j) /\ CancelGoes(c, "saveUpload2")
             \/ cpc[c] = "saveUpload2" /\ SaveUpload(j) /\ CancelGoes(c, "respond")
          /\ UNCHANGED <<dataDir, dbErrs>>
       \/ /\ cpc[c] \in {"saveBuild2", "saveUpload2"} /\ CancelGoes(c, "respond")
          /\ DbFails(j, "final") /\ UNCHANGED <<dataDir, db>>
    /\ UNCHANGED <<cancelKeeps, chanVars, row, bState, uState, cancelled, cont, cjob>>

\* "cancel successful" goes out before the row of the queue item is deleted.
CancelRespond(c) ==
    /\ cpc[c] = "respond"
    /\ CancelGoes(c, "deleteRow")
    /\ UNCHANGED <<cancelKeeps, chanVars, row, bState, uState, cancelled, cont, dataDir,
                   cjob, dbVars>>

CancelDeleteRow(c) ==
    /\ cpc[c] = "deleteRow"
    /\ row' = [row EXCEPT ![cjob[c]] = FALSE]
    /\ CancelGoes(c, "done")
    /\ UNCHANGED <<cancelKeeps, chanVars, bState, uState, cancelled, cont, dataDir, cjob,
                   dbVars>>

CancelStep(c) ==
    \/ CancelSendStop(c) \/ CancelReadBuild(c) \/ CancelSendBuild(c) \/ CancelStop(c)
    \/ CancelSetBuild(c) \/ CancelReadUpload(c) \/ CancelSendUpload(c)
    \/ CancelSetUpload(c) \/ CancelFlag(c) \/ CancelClean(c) \/ CancelRespond(c)
    \/ CancelDeleteRow(c)

\* setState: the checks of the handler and of BuildJob.Pause or Resume.  A
\* request that fails one of them changes nothing.
PauseCheck(p) ==
    /\ ppc[p] = "idle"
    /\ \E j \in queue, op \in {"pause", "resume"} :
        /\ loaded[j] /\ containerId[j]
        /\ IF op = "pause" THEN bState[j] # "Paused" ELSE bState[j] = "Paused"
        /\ pjob' = [pjob EXCEPT ![p] = j]
        /\ pop' = [pop EXCEPT ![p] = op]
    /\ ppc' = [ppc EXCEPT ![p] = "docker"]
    /\ UNCHANGED <<pauseKeeps, bState, cont>>

\* An error of the docker call leaves the state as it is.
PauseFails_Ignored(p) == ppc' = [ppc EXCEPT ![p] = "set"]  \* mutant: the error is ignored
PauseFails(p) == ppc' = [ppc EXCEPT ![p] = "idle"]

\* Docker pauses only a running container and resumes only a paused one.
PauseDocker(p) ==
    /\ ppc[p] = "docker"
    /\ \/ /\ cont[pjob[p]] = IF pop[p] = "pause" THEN "running" ELSE "paused"
          /\ cont' = [cont EXCEPT ![pjob[p]] = IF pop[p] = "pause" THEN "paused" ELSE "running"]
          /\ ppc' = [ppc EXCEPT ![p] = "set"]
       \/ /\ PauseFails(p)
          /\ UNCHANGED cont
    /\ UNCHANGED <<pauseKeeps, bState, pjob, pop>>

PauseSet(p) ==
    /\ ppc[p] = "set"
    /\ bState' = [bState EXCEPT ![pjob[p]] = IF pop[p] = "pause" THEN "Paused" ELSE "Running"]
    /\ ppc' = [ppc EXCEPT ![p] = "idle"]
    /\ UNCHANGED <<pauseKeeps, cont, pjob, pop>>

PauseStep(p) == PauseDocker(p) \/ PauseSet(p)

(***************************************************************************)
(* Crash and restart: containers, data directories and rows survive, the   *)
(* memory does not.  JobQueue.Load rebuilds the queue from the rows.       *)
(***************************************************************************)
Crash ==
    /\ crashes < MaxCrashes
    /\ crashes' = crashes + 1
    /\ queue' = {j \in Jobs : row[j] /\ Requeued(db[j])}
    /\ bState' = [j \in Jobs |-> ReloadState(db[j], db[j].build)]
    /\ uState' = [j \in Jobs |-> ReloadState(db[j], db[j].upload)]
    /\ loaded' = [j \in Jobs |-> TRUE]
    /\ hasArgs' = [j \in Jobs |-> ReloadedArgs]
    /\ cancelled' = [j \in Jobs |-> FALSE]
    /\ stopLog' = [j \in Jobs |-> FALSE]
    /\ bCancel' = [j \in Jobs |-> FALSE]
    /\ uCancel' = [j \in Jobs |-> FALSE]
    /\ gpc' = [j \in Jobs |-> "none"]
    /\ buildRes' = [j \in Jobs |-> "none"]
    /\ containerId' = [j \in Jobs |-> FALSE]
    /\ lpc' = [j \in Jobs |-> "none"]
    /\ lwas' = [j \in Jobs |-> FALSE]
    /\ wpc' = "idle"
    /\ cur' = None
    /\ cpc' = [c \in Cancellers |->
                 CASE cpc[c] \in {"idle", "done", "panicked", "answered"} -> cpc[c]
                   [] cpc[c] = "deleteRow" -> "answered"
                   [] OTHER -> "lost"]
    /\ ppc' = [p \in Pausers |-> "idle"]
    /\ UNCHANGED <<extVars, row, cjob, pjob, pop, dbVars>>

Next ==
    \/ Worker
    \/ \E j \in Jobs : Build(j) \/ WaitFails(j) \/ Updater(j) \/ ContainerExits(j) \/ ListJobs(j)
    \/ \E c \in Cancellers : CancelFindJob(c) \/ CancelStep(c)
    \/ \E p \in Pausers : PauseCheck(p) \/ PauseStep(p)
    \/ Crash

Spec == Init /\ [][Next]_vars

(***************************************************************************)
(* Fairness: the Go scheduler runs every goroutine that can go on, a       *)
(* started handler included; a running container exits eventually, because *)
(* a build ends.  Nothing forces a client to send a request, and nothing   *)
(* forces the docker API to fail while a build is awaited.                 *)
(***************************************************************************)
Fairness ==
    /\ WF_vars(Worker)
    /\ \A j \in Jobs : WF_vars(Build(j)) /\ WF_vars(Updater(j)) /\ WF_vars(ContainerExits(j))
    /\ \A c \in Cancellers : WF_vars(CancelStep(c))
    /\ \A p \in Pausers : WF_vars(PauseStep(p))

FairSpec == Spec /\ Fairness

(***************************************************************************)
(* Properties                                                              *)
(***************************************************************************)

WorkerPCs == {"idle", "begin", "init", "await", "stop", "setCancelled", "fail",
              "saveBuild", "saveUpload", "check", "upload", "open", "send", "sendStop",
              "clean", "endBuild", "endUpload", "finish"}
CancelPCs == {"idle", "sendStop", "readBuild", "sendBuild", "stop", "setBuild",
              "readUpload", "sendUpload", "setUpload", "flag", "clean", "saveBuild",
              "saveUpload", "saveBuild2", "saveUpload2", "respond", "deleteRow", "done",
              "panicked", "answered", "lost"}

WorkerTypeOK ==
    /\ queue \subseteq Jobs
    /\ row \in [Jobs -> BOOLEAN]
    /\ wpc \in WorkerPCs
    /\ cur \in Jobs \cup {None}
    /\ (wpc = "idle") <=> (cur = None)

JobTypeOK ==
    /\ loaded \in [Jobs -> BOOLEAN]
    /\ bState \in [Jobs -> States]
    /\ uState \in [Jobs -> States]
    /\ cancelled \in [Jobs -> BOOLEAN]
    /\ hasArgs \in [Jobs -> BOOLEAN]
    /\ stopLog \in [Jobs -> BOOLEAN]
    /\ bCancel \in [Jobs -> BOOLEAN]
    /\ uCancel \in [Jobs -> BOOLEAN]

BuildTypeOK ==
    /\ gpc \in [Jobs -> {"none", "prepare", "create", "start", "wait", "parse"}]
    /\ buildRes \in [Jobs -> {"none", "ok", "err", "waitErr"}]
    /\ containerId \in [Jobs -> BOOLEAN]
    /\ lpc \in [Jobs -> {"none", "top", "first", "second", "get"}]
    /\ lwas \in [Jobs -> BOOLEAN]

OutsideTypeOK ==
    /\ cont \in [Jobs -> {"none", "created", "running", "paused", "exit0", "exit1"}]
    /\ dataDir \in [Jobs -> BOOLEAN]
    /\ published \in [Jobs -> Nat]
    /\ db \in [Jobs -> [build : States, upload : States]]
    /\ dbErrs \in [Jobs -> SUBSET {"load", "built", "final"}]

RequestTypeOK ==
    /\ cpc \in [Cancellers -> CancelPCs]
    /\ cjob \in [Cancellers -> Jobs \cup {None}]
    /\ \A c \in Cancellers : (cpc[c] = "idle") <=> (cjob[c] = None)
    /\ ppc \in [Pausers -> {"idle", "docker", "set"}]
    /\ pjob \in [Pausers -> Jobs \cup {None}]
    /\ \A p \in Pausers : ppc[p] # "idle" => pjob[p] \in Jobs
    /\ pop \in [Pausers -> {"pause", "resume"}]
    /\ crashes \in 0..MaxCrashes

\* Every variable stays in its range; the worker holds a job exactly when it
\* is not idle, and a cancel request has a job exactly when it was found.
TypeOK == WorkerTypeOK /\ JobTypeOK /\ BuildTypeOK /\ OutsideTypeOK /\ RequestTypeOK

\* A cancel request for j got past the send to the log updater.
CancelBegan(c, j) == cjob[c] = j /\ cpc[c] # "sendStop"

\* A container lives while the worker is not on its job only because that job
\* was cancelled (Stop found no container ID, or failed), because waiting for
\* the container failed, or because the server crashed.  This is what is left
\* of "Only one job can be run at the same time" (README.md:20).
OrphansWereCancelled ==
    \A j \in Jobs :
        Live(cont[j]) /\ cur # j =>
            \/ \E c \in Cancellers : CancelBegan(c, j)
            \/ buildRes[j] = "waitErr"
            \/ crashes > 0

\* The worker can only be stuck in the deferred send of Job.Run when a cancel
\* request put the token there: no other path fills stopLogUpdater.  (Here and in
\* FirstCancelNeverBlocks: JobQueue.stop calls Job.Cancel too, JobQueue.go:282,
\* when the server shuts down; that cancel is in JobQueue, not here.)
WorkerBlocksOnlyAfterCancel ==
    wpc = "sendStop" /\ stopLog[cur] => \E c \in Cancellers : CancelBegan(c, cur)

\* The first cancel request of a job whose run has not ended is never blocked
\* on one of the three channels: a full channel means another request for the
\* job, or the deferred send of its run.
FirstCancelNeverBlocks ==
    \A c \in Cancellers :
        LET j == cjob[c] IN
        \/ cpc[c] = "sendStop" /\ stopLog[j]
        \/ cpc[c] = "sendBuild" /\ bCancel[j]
        \/ cpc[c] = "sendUpload" /\ uCancel[j]
        =>
        \/ \E d \in Cancellers \ {c} : CancelBegan(d, j)
        \/ cur = j /\ wpc \in {"clean", "endBuild", "endUpload", "finish"}
        \/ j \notin queue

\* While the build goroutine or the upload of a job works on the data
\* directory it exists, unless a cancel request removed it.
DataDirOutlivesUse ==
    \A j \in Jobs :
        /\ gpc[j] # "none" \/ (cur = j /\ wpc \in {"await", "saveBuild", "saveUpload",
                                                   "check", "upload", "open", "send"})
        /\ ~dataDir[j]
        => \/ \E c \in Cancellers : CancelBegan(c, j)
           \/ ~hasArgs[j]

\* No job is uploaded twice, crashes and restarts between the upload and the
\* deletion of the queue row included.
PublishedOnce == \A j \in Jobs : published[j] <= 1

\* No request of any kind is at work on job j.
Quiet(j) == /\ \A c \in Cancellers : cjob[c] = j => cpc[c] \in {"done", "panicked"}
            /\ \A p \in Pausers : pjob[p] = j => ppc[p] = "idle"

\* A client has asked to pause or resume a job.
PauseAsked == \E p \in Pausers : pjob[p] # None

\* A job that left the queue is found by GetOldJobs once its handlers are through
\* and without a crash: neither row says Waiting or Running.  There are four
\* exceptions: its Load failed, and it was dropped before its run, still Waiting;
\* it was built and the save before its upload failed, which ends the run with
\* the states Done and Waiting (or Paused, by a late pause); the last save of its
\* run or of its cancel failed, which leaves older states in the rows; or a resume
\* set the build's state to Running after the end of the run had set it.
UnlistedHasACause ==
    crashes = 0 => \A j \in Jobs : j \notin queue /\ Quiet(j) =>
        \/ Listed(db[j])
        \/ "load" \in dbErrs[j] /\ db[j] = [build |-> "Waiting", upload |-> "Waiting"]
        \/ /\ "built" \in dbErrs[j] /\ db[j].upload = "Waiting"
           /\ db[j].build = "Done" \/ (db[j].build = "Paused" /\ PauseAsked)
        \/ "final" \in dbErrs[j]
        \/ db[j].build = "Running" /\ PauseAsked

\* Without a crash, with one pause/resume client and before any cancel,
\* BuildJob.State says Paused exactly while docker holds the container paused, as
\* long as the job runs.
PauseStateMatchesContainer ==
    /\ crashes = 0 /\ \A c \in Cancellers : cpc[c] = "idle"
    /\ \A p, q \in Pausers : pjob[p] # None /\ pjob[q] # None => p = q
    => \A j \in Jobs :
        (\A p \in Pausers : ppc[p] = "idle") /\ cur = j /\ wpc = "await"
        /\ buildRes[j] = "none"
        => (bState[j] = "Paused" <=> cont[j] = "paused")

\* A job whose cancel set Job.Cancelled before its upload began is never
\* uploaded: not by the run in progress, not by the run of a job cancelled while
\* it waited, not after a restart that brings it back.
CancelledNeverPublished ==
    \A j \in Jobs :
        []( /\ cancelled[j]
            /\ ~(cur = j /\ wpc \in {"upload", "open", "send"})
            /\ published[j] = 0
            => [](published[j] = 0))

\* A job whose queue row is deleted while it waits is never built after that:
\* not when the worker comes to it, not after a restart.
DeletedRowNeverBuilt ==
    \A j \in Jobs :
        [](~row[j] /\ cur # j /\ gpc[j] = "none" => [](gpc[j] = "none"))

\* A restart puts every job back into the queue that nobody cancelled and
\* whose run had not yet begun to record its end, unless a pause or resume
\* overwrote its state; and "Ignore cancelled/failed/finished jobs"
\* (JobQueue.go:76): it brings back no job whose cancel was answered, unless its
\* run was still in progress and may have stored its own states over those of
\* the cancel, or the last save of the run or the cancel failed.
CrashKeepsUnfinished ==
    [][crashes' > crashes =>
          /\ \A j \in queue :
                 \/ j \in queue'
                 \/ \E c \in Cancellers : cjob[c] = j
                 \/ PauseAsked
                 \/ cur = j /\ wpc \in {"endUpload", "finish"}
          /\ \A c \in Cancellers :
                 cpc[c] \in {"deleteRow", "done"} /\ cjob[c] \in queue'
                 => cur = cjob[c] \/ "final" \in dbErrs[cjob[c]]]_vars

\* Every job leaves the queue, whatever fails ("Job is done after run, whatever
\* state it exited", JobQueue.go:166), unless a container is left paused.
EveryJobEnds ==
    <>[](\A j \in Jobs : cont[j] # "paused") => \A j \in Jobs : <>(j \notin queue)

\* What the server promises of its queue, as JobLifecycle states it.
Lifecycle == INSTANCE JobLifecycle WITH
    waiting <- queue \ {cur}, active <- cur, ended <- Jobs \ queue, uploads <- published,
    restarts <- crashes
LifecycleSpec == Lifecycle!Spec

(***************************************************************************)
(* Statements of the repository that the code does not keep: each is a run *)
(* that ends in a counterexample.                                          *)
(***************************************************************************)

\* README.md:20: "Only one job can be run at the same time".
OneJobAtATime ==
    \A j, k \in Jobs : Live(cont[j]) /\ Live(cont[k]) => j = k

\* BuildJob.go:90: "Await build or cancel": a cancel that reaches a build while
\* it is paused ends the wait of the worker (pause requests come to an end).
CancelEndsAwait ==
    \A j \in Jobs :
        <>[](\A p \in Pausers : ppc[p] = "idle") =>
        ( /\ \E c \in Cancellers : cjob[c] = j /\ cpc[c] = "readBuild"
          /\ bState[j] = "Paused" /\ cur = j /\ wpc = "await"
          ~> ~(cur = j /\ wpc = "await") )
=============================================================================
