# Formal verification of Remotebuild

TLA+ models of the build server in this repository, TLC configurations that
check them on small instances, and TLAPS proofs, for every instance, of all
safety properties that hold.

Remotebuild accepts jobs over HTTP, keeps them in a queue, runs them one after
the other in a docker container, uploads what was built, and lets clients
cancel, pause, list and follow the jobs. Users register and log in; a session
token opens the other endpoints. Everything runs in one process; the difficulty
is in the goroutines that share a job or a table without locks, in the files an
upload may lose half-way, and in what a crash leaves in the database.

| File | What it is |
| --- | --- |
| `JobRun.tla` | the life of queued jobs: worker, build goroutine, log updater, cancel, pause and resume, list, docker, crash and reload |
| `JobQueue.tla` | the queue as a Go slice with pointers into it: add, take, remove, cancel, reload, shutdown |
| `JobLifecycle.tla` | what the queue promises; both modules above are shown to implement it |
| `JobList.tla` | the list of jobs: a walk over the slice without its lock, the limit, the old jobs |
| `Results.tla` | what becomes of a build's files: result file, upload, local copy, cancel |
| `Sessions.tla` | users and login sessions: register, login, the check of a token, the cleanup service |
| `JobRun_proofs.tla` | theorems about `JobRun`: containers, channels, data directories, publication, the life cycle |
| `JobRunStates_proofs.tla` | theorems about the states `JobRun` keeps in memory and in the rows |
| `JobQueue_proofs.tla`, `JobList_proofs.tla`, `Results_proofs.tla`, `Sessions_proofs.tla` | theorems about the module each is named for |
| `Counting.tla` | lemmas about numbers, finite sets and rankings that these proofs share |
| `MC*.tla`, `*.cfg` | the instances TLC checks |
| `PROJECT.json` | components, runs, mutants, the map from definitions to source lines, findings, hazards, theorems |

    tlc -workers 2 -config jobrun_orphans.cfg MCJobRun.tla
    tlapm JobQueue_proofs.tla

## 1. Inventory

| Component | Source | State it keeps | Operations | Module |
| --- | --- | --- | --- | --- |
| Job | `models/Job.go` | build and upload halves, `Cancelled`, `Args`, `DataDir`, `LastSince`, `stopLogUpdater` (capacity 1); row | `Run`, `Cancel`, `Save`, `SetState`, `GetState`, `cleanup`, `GetLogs`, `runLogUpdater` | `JobRun`, without `GetLogs` |
| Build job | `models/BuildJob.go` | `State`, `ContainerID`, `cancelChan` (capacity 1); row | `Run`, `build`, `cancel`, `Stop`, `Pause`, `Resume`, `GetLogs` | `JobRun` |
| Upload job | `models/UploadJob.go`, `Utils.go` | `State`, `cancelChan` (capacity 1); row; files at the target | `Run`, `uploadDmanager`, `saveToLocalStorage`, `Copy`, `cancel` | `Results`; with one file in `JobRun` |
| Result file, arguments | `models/resInfo.go`, `ArgParser.go` | none | `ParseResInfo`, `HasDataManagerArgs` | `Results` |
| Job queue | `services/JobQueue.go`, `JobQueueItem.go` | slice of items, `currJob`, mutex, `stopped`; table `job_queue` | `AddNewJob`, `AddJob`, `Run`, `run`, `getNextJob`, `FindJob`, `RemoveJob`, `GetJobs`, `Load`, `stop` | `JobQueue`; `GetJobs` in `JobList`; worker loop in `JobRun` |
| Job handlers | `handlers/JobHandler.go` | none of their own; each request is a goroutine | `addJob`, `cancelJob`, `setState`, `listJobs`, `jobInfo`, `getLogs` | `JobQueue`, `JobRun`, `JobList`; not `jobInfo`, `getLogs` |
| Docker daemon | external, used by `BuildJob.go` | one container per job | create, start, wait, stop, pause, unpause, exit | `JobRun` |
| Crash, restart | `main.go`, `JobQueue.Load` | rows, containers and data directories survive | `Load` | `JobRun`, `JobQueue` |
| Shutdown | `StartServices.go`, `JobQueue.stop` | `stopped`, `currJob` | `awaitExit`, `stop` | `JobQueue` |
| Users, sessions | `models/User.go`, `LoginSessions.go`, `handlers/UserHandler.go`, `Router.go` | tables `users`, `login_sessions` | `Register`, `Login`, `Has`, `cleanOldSessions`, `GetUserFromSession`, `validate` | `Sessions` |
| Cleanup service | `services/CleanupService.go` | none | hourly deletion of unused sessions | `Sessions` |
| Log streaming | `JobHandler.getLogs`, `Job.GetLogs` | `LastSince` | `getLogs` | none |
| API service, configuration, database, ping, ccache, container service, command line | see `PROJECT.json` | none that changes | I/O | none: no behaviour of their own |

How they interact. A handler's `AddNewJob` creates the job and a queue item,
appends the item to the slice and leaves. The only worker polls the slice,
takes the first item by position and calls `Job.Run`, which spawns the log
updater; `BuildJob.Run` spawns the build goroutine and waits in a `select` for
its answer or a cancel. The cancel handler finds the item by a pointer into the
slice and calls `Job.Cancel` while all of these go on; it writes the states the
worker writes, sends on the channels the worker reads *and writes*, and deletes
the row the worker deletes. Pause and resume talk to docker and then set the
state the build and the cancel set. A crash ends all of it between any two
steps; `Load` interprets the rows that are left. A shutdown sends a token to the
worker's loop, cancels the job `currJob` points to, which the worker sets and
clears meanwhile, and ends the process. What a build made is described by its
result file; the upload opens the listed files one by one in a directory that a
cancel may remove. Every request but ping, login and register reads the row of
its token and saves it back with a higher count, while logins of the same
machine and the cleanup service delete rows.

Behaviours that are hard to get right (each is a hazard, with its line, in
`PROJECT.json`):

* the worker leaves a build goroutine behind when a cancel comes, and nobody
  joins it;
* sends on channels of capacity 1 whose reader may be gone;
* decisions made from `State`, which four goroutines write without a lock;
* pointers into a slice that others sort, append to and cut;
* two numbers, the ID of an item and the ID of its job, that agree in a quiet
  system;
* rows written one after the other, and a row deleted after the answer;
* a slice that is indexed again at each use while others cut it;
* a pointer that is tested and read again after the test;
* loops over files that fail half-way, and error paths that set no state;
* rows that are looked for, then written, without a transaction or an index.

What makes the components correct: one job at a time is built, in order; every
job ends and leaves the queue, and is listed then; a cancelled job is not
uploaded; no job is uploaded twice; a restart loses no unfinished job and
revives no finished one; a request is served and concerns the job it names; a
list holds every job; an upload that is done published what the build made; a
token works until it is replaced or expires unused, and only a registered user
gets one.
Section 4 says which of these hold, and section 5 which do not.

## 2. The modules and the code

### JobRun

One variable per field that more than one goroutine sees, and one program
counter per goroutine.

| Variables | Code |
| --- | --- |
| `queue`, `row` | the jobs in `JobQueue.jobs`; rows of table `job_queue` |
| `wpc`, `cur` | the goroutine of `JobQueue.Run` and `currJob` |
| `loaded` | `Job.BuildJob` and `Job.UploadJob` are not nil |
| `bState`, `uState` | `BuildJob.State`, `UploadJob.State` |
| `stopLog`, `bCancel`, `uCancel` | a token lies in `Job.stopLogUpdater`, `BuildJob.cancelChan`, `UploadJob.cancelChan` |
| `cancelled`, `hasArgs` | `Job.Cancelled`; `Job.Args` is not nil |
| `gpc`, `buildRes`, `containerId` | the goroutine of `BuildJob.build`, what it sent on `buildDone`, `ContainerID` is not empty |
| `lpc`, `lwas` | the goroutine of `runLogUpdater` and its `wasJobRunning` |
| `cont` | docker's container of the job |
| `dataDir`, `published` | `DataDir` exists; completed uploads |
| `db` | states in the rows of `build_jobs` and `upload_jobs` |
| `dbErrs` | history: which database calls failed for the job: its load, the save after its build, the last saves of its run or cancel |
| `cpc`, `cjob` | cancel requests and the job found |
| `ppc`, `pjob`, `pop` | pause/resume requests |
| `crashes` | a counter, for the bound only |

| Actions | Code |
| --- | --- |
| `PickJob`, `FinishJob` | `JobQueue.run` with its deferred function; `getNextJob`, `JobQueueItem.Load` |
| `BeginRun`, `FailJob`, `SaveBuilt`, `CheckCancelled`, `SendStop`, `CleanJob` | `Job.Run`, its deferred function, `cleanup`, `Save` |
| `InitBuild`, `AwaitBuild`, `AwaitCancel`, `StopCancelledBuild`, `ReturnCancelled` | `BuildJob.Run` |
| `BeginUpload`, `OpenFile`, `SendFile` | `UploadJob.Run` and the two upload methods |
| `PrepareBuild` ... `ParseResult`, `WaitFails` | `BuildJob.build` |
| `UpdaterTop`, `UpdaterReadsState`, `UpdaterGetsLogs` | `Job.runLogUpdater`, `BuildJob.GetLogs` |
| `ListJobs` | the `Load` in `listJobs` |
| `CancelFindJob` ... `CancelDeleteRow` | `cancelJob`, `Job.Cancel`, `BuildJob.cancel`, `UploadJob.cancel` |
| `PauseCheck`, `PauseDocker`, `PauseSet` | `setState`, `BuildJob.Pause`, `BuildJob.Resume` |
| `ContainerExits` | docker (external) |
| `Crash` | a crash and `JobQueue.Load` |

`JobQueue.stop` calls `Job.Cancel` as well (JobQueue.go:282), once, when the server
goes down. That cancel is in `JobQueue`, not here: what `JobRun` says of full
channels is said of a server that is not being stopped.

### JobQueue

`arrays` are the backing arrays, `jobs` the slice (array and length). A pointer
is an array and an index: `append` within the capacity writes into the array it
points to, beyond the capacity it leaves the old array behind; `sort.Sort` and
the swap of `RemoveJob` change what the slot holds. `wpc`, `ptr`, `found` are
the worker's goroutine, its `jqi` and the index found; `item` remembers what
`jqi` was when it was taken, for the properties. `apc`, `aitem` are adders,
`cpc`, `cid`, `cptr` cancels. `runs`, `over`, `added`, `cancelled`, `disorder`
record history for the properties, `over` and `cancelled` also say which rows
a restart may leave out (their states are `JobRun`'s).

`SortPosition` may arrange items of equal positions in any order (`Arrangements`,
`InOrder`): `sort.Sort` is not stable. `Capacity` is what Go's `append` allocates
for a slice of each length, of which only that the items fit is assumed.
`ignored` are the jobs whose rows the last restart left out of the slice
(JobQueue.go:61-83): nothing rewrites the saved states that made `Load` pass over
them, so the next restart passes over them too. Without it a job could be left
out by one restart and come back with the next, which the proof of `KeepsLifecycle`
met: `JobLifecycle` lets no ended job return.

`currJob` is the field of that name, set and cleared by the worker around a run
(`StartRun`, `ClearedCurrent`), `token` a token in the channel `stopped`, which
the worker looks for between two jobs (`TokenSeen`, `RunAgain`). `spc`, `sptr`
are the main goroutine in `awaitExit` and `stop`: `SendToken`, `TestCurrent`,
`UseCurrent`, `CancelCurrent`, `Exit`. `stop` tests `currJob` and reads it again
to call `Cancel`, without a lock: `UseCurrent` may see the pointer it tested, or
what the field holds now. If that is nil, the process panics. `lateRuns`,
`shifted` and `strays` record which runs began after the token, which cancels a
removal may have passed, and the jobs whose items such a cancel marked instead
of its own. `LoadItem` may fail, and then the worker drops the job without a run
(JobQueue.go:179-182).

### JobLifecycle

Jobs wait, become active in the order of their numbers, are uploaded at most
once while active, and end; a restart may drop jobs or start the active one
again, but never an ended one. `JobRun!Lifecycle` maps `waiting` to
`queue \ {cur}`, `active` to `cur`, `ended` to the jobs outside the queue and
`uploads` to `published`. `JobQueue!Lifecycle` maps the contents of the slice
in the same way.

### JobList

The slice is a sequence here (its arrays are `JobQueue`'s), an item is its job.
`queue`, `deleted`, `ended` are the slice, the items marked `Deleted`, and the
jobs `GetOldJobs` selects. Adders, the worker and a cancel change them in the
order of the code: a run saves its end state, marks the item, then removes it; a
cancel saves, marks the item, then saves again. Each such save stores a state
that `GetOldJobs` lists or one it does not (`StoresListed`, `StoresUnlisted`):
which, and why, is `UnlistedHasACause` of `JobRun`. `unlisted` remembers the
jobs of the latter. `lpc`, `len`, `idx`, `got`, `limit`, `answer` are the list
requests: Go's `range` fixes the length at first (`ListJobs`), and the body
indexes the slice twice per item, for `Deleted` and for the copy (`TestDeleted`,
`CopyItem`); `CutToLimit` and `AppendOld` are the arithmetic of the limit and
the query. `ByPosition` and `OldJobs` say of each place which job is sorted
there, by its rank. `known` and `moved` record what was there when the list
began and whether the slice was rearranged under it.

### Results

One job from the end of its build. `files`, `at` are the parsed list and the
loop over it; `sent` is what the DataManager got, `stored` what lies at the
target path: nothing, something old, something `os.Stat` fails on for another
reason than absence, so that it is not cleared (UploadJob.go:99), or a file that
is whole or not. `ParseResInfo` runs over every result file of a few lines, each
a file name, empty or blank; `OutFiles` follows its loop over the lines after
the second (resInfo.go:65-72). `ChooseMethod` is the dispatch of
`UploadJob.Run`, `OpenFile`, `UploadFile`, `UploadCancelled` the DataManager,
`ClearTarget`, `CreateTarget`, `WriteTarget` the local storage with `Copy`;
`CancelBuild` ... `CancelCleansUp` are `Job.Cancel` as far as the upload sees
it, `RunFails` and `RunCleansUp` the rest of `Job.Run`.

### Sessions

`users` and `sessions` are the two tables; a login is also the token it gets.
Each handler has one step per database statement: `RegisterHas`,
`RegisterCreate`; `LoginHas`, `CleanOldSessions`, `CreateSession`; `ReadSession`,
`SaveSession`. Any statement may fail (`DbMayFail`), with what the code makes of
the error: a failed look-up lets a registration go on, a failed deletion lets a
login go on, a failed save lets a request go on. `Lower` is `strings.ToLower`,
constrained only to be idempotent. `GetOld` is time passing the age at which the
cleanup service deletes (`DeleteUnusedSessions`). `rsaw`, `lsaw`, `used`, `revived`,
`expired` record history for the properties.

### Granularity

A step is what one goroutine does between two points at which another can see
or change what it uses. Neighbouring steps are merged where the second reads
and writes nothing the others can change, or where the detail is another
module's:

* `PickJob` is `getNextJob` and `JobQueueItem.Load` together, `FinishJob` is the
  deletion of the row and `RemoveJob` together. `JobQueue` has them apart.
* `BeginRun` saves both rows and spawns the log updater; `InitBuild` sets the
  state and spawns the build.
* `SetState` assigns both halves in one step.
* In `JobRun` all files of an upload are one file, and a transfer that ends well
  and the assignment of `Done` are one step; `Results` has the files one by one.
* `setState`'s check of `ContainerID` and the check of `Pause` or `Resume` are
  one step.
* `Load` in `listJobs` is one step. In `JobList` a failed load of an item's job
  ends the list, as a failed query does.
* A sort, and the copy of an item in `GetJobs`, are one step. Go's sort moves one
  item at a time without a lock, so a reader could see an item twice; that is
  not modelled.
* Data races on strings and slices (torn reads) are not modelled: a read of a
  field returns some value that was written.
* A crash in `Sessions` is a handler that is never continued: nothing but the
  tables survives, and nothing else is shared. A token that has no row is
  refused: the session found is empty and its user does not exist. The save that
  follows inserts a row with an empty token; no login answers one, so `Sessions`
  leaves that row out. The pointer to the user that concurrent requests
  of one session share is written but never read.
* In `Results` what lies at the target path at the start is `stored = Old`, or
  `Unread` if `os.Stat` fails on it.
* With `DbMayFail` the database calls of `JobRun` may fail: the load of a job before
  its run, the saves at the start of the run, after the build and in the cleanup of
  the run and of a cancel. `Save` stops at its first error, so one row may be
  stored and the other not. Deletions of queue rows succeed: a job whose deletion
  and last saves both failed, and which a restart would take in again, is not
  modelled.
* `Result`, `Info`, `Duration`, `LastLogs` and the texts are left out; nothing
  branches on them.
* In `JobRun` all jobs are in the queue at the start: arrivals are `JobQueue`'s.
  A job that arrives later is, until it is taken, like one that waits behind
  the others.

## 3. The runs

Sizes and bounds are in the configurations. The bounds are `MaxCrashes`, `MaxJobs`,
`MaxLines` and the `CONSTRAINT`s `SecondJobStarts`, `CancelsBeforeRestart`,
`StopsAlone`, `OneDropped`, `DisorderAlone`, `OneUnlisted`, `UntilAnswered` and, in
`jobrun_orphan_violation` only, `StopComesEarly`. Five more runs end in a counterexample (section 5).

| Run | Instance | Distinct states | What it shows |
| --- | --- | --- | --- |
| `jobrun_orphans` | 2 jobs, 1 cancel of the first, failing loads and saves | 1,528,232 | types; which containers outlive the worker; data directories; `JobRun` implements `JobLifecycle` |
| `jobrun_crash` | 1 job, 2 cancels, 1 crash | 759,393 | full channels; what a restart brings back; publication; which ended jobs are not listed |
| `jobrun_pause` | 1 job, 1 pause/resume client, failing loads and saves, fair | 12,199 | the state follows the container; the job leaves the queue; which ended jobs are not listed |
| `jobqueue_order` | 2 adders, 3 jobs, 1 cancel, 1 restart, 1 shutdown, failing inserts and loads | 534,988 | pointers stay on their items; cancels reach the job they name; a shutdown ends the queue; the slice implements `JobLifecycle` until its order is disturbed |
| `joblist` | 1 list, 3 jobs, cancels, six limits, failing queries and saves | 1,682,048 | lists are complete and keep their limit; when the walk panics |
| `results` | result files of up to 5 lines, all arguments, 1 cancel | 138,226 | what a finished upload published; in which state it ends |
| `sessions` | 2 registrations, 2 logins, 2 requests, failing statements | 359,435 | who is let in; how long a token works |

Why these bounds are enough. The worker runs one job at a time, so two jobs
show everything one run does to another: the orphan of the first meets the
container of the second (`SecondJobStarts` follows the second no further, since
from there on it repeats the first, and keeps requests to the first). One job
shows everything about rows and channels, which belong to a job; two cancels are
what fills a channel of capacity 1 twice. One crash is enough for what the rows
say, because a restart forgets everything else.
One job is also what `jobrun_pause` needs, since a client pauses the container of
the job that runs; with two jobs the fair run has over 4 million states.

In `jobqueue_order` three jobs give a front, a middle and a last item; a capacity
of two makes the third append leave the old array while the worker holds a
pointer into it; two adders disturb the order. `CancelsBeforeRestart` leaves out
cancels after a restart: the slice built by `Load` is like one built by appends.
`StopsAlone` keeps a shutdown apart from cancel requests and restarts: `stop`
shares only `currJob`, the token and the slots with the worker, and a cancel of
its own is the one it makes. `OneDropped` has one load fail at most, and none in a
behaviour that has a restart or a disorder: a dropped job leaves the slice as one
that ran. `DisorderAlone` follows a disorder without cancel requests and restarts,
since the properties say little after one; the types after both are proved.

In `joblist` three jobs leave a walk an item that was removed, one that took its
place or stays, and one that was appended; `OneUnlisted` leaves one of them in
states that are not listed, and `UntilAnswered` follows a list no further than its
answer. The limits are none, below, at
and above the number of jobs. Lists only read, so one is enough. Five lines are
a name, a version and three that may be a file, the same or another one, empty
or blank. In `sessions` two of each are what a race takes; names with and without
upper-case letters and two passwords are what the look-ups tell apart.

The theorems of section 6 cover any numbers, for every safety property of these
runs. What the bounds still limit is liveness, and how far the runs test the
models.

Every property is broken by a mutant of the code: `PROJECT.json` lists which
definition is replaced by which. They are the bugs a change might bring: a
select that does not wait, an unsorted queue, an index that counts from 0, a
flag that is not looked at, an error that is ignored, a deletion after the
insert, a limit that forgets the queue.

### Fairness

`FairSpec` lets the Go scheduler run every goroutine that can go on: the worker,
the build, the updater and a handler that has started (weak fairness; a
goroutine blocked on a channel is not enabled). Docker's container exits by
itself as long as it is not paused: package builds end. There is no fairness for
the arrival of requests, the failure of `WaitContainer`, or crashes. Nobody is
obliged to resume a paused build, so `EveryJobEnds` supposes that no container
stays paused for good. Only `JobRun` states fairness; the properties of the other
modules are safety. No run checks deadlock: a server with an empty queue waits,
handlers end, and the server can wedge (section 5).

## 4. What holds

In `JobRun`:

* `OrphansWereCancelled`: a container lives while the worker is not on its job
  only after a cancel of the job, a failed wait for the container, or a crash.
* `DataDirOutlivesUse`: a build or upload in progress loses its data directory
  only to a cancel.
* `WorkerBlocksOnlyAfterCancel`, `FirstCancelNeverBlocks`: who can have put the
  token into a full channel; the first cancel of a job never waits for one.
* `PublishedOnce`: no job is uploaded twice. Across a restart this holds because
  the restart loses the arguments (`Job.Init` does not read `Argdata`), so that
  every reloaded build fails: the mutant that restores them breaks it.
* `CancelledNeverPublished`: once `Cancelled` is set before the upload begins,
  the job is never uploaded, not even after a restart.
* `DeletedRowNeverBuilt`, `CrashKeepsUnfinished`: what the rows decide. A restart
  brings back every job nobody cancelled whose run had not begun to record its
  end, and no job whose cancel was answered, unless its run was in progress and
  may have stored its own states over those of the cancel, or a last save failed.
  A pause request that stores its state late can hide a job from `Load`, so the
  first is said of a server that nobody asked to pause.
* `UnlistedHasACause`: without a crash, a job that left the queue is found by
  `GetOldJobs`, with four exceptions; such a job is in neither list. Its load
  failed, and it was dropped before its run, still Waiting
  (JobQueue.go:179-182); the save between build and upload failed, which leaves
  Done and Waiting (or, by a late pause of another client, Paused and Waiting);
  a last save of its run or cancel failed, which leaves older states in the rows
  (Job.go:181-195); or a resume set the state to Running after the end of the
  run (BuildJob.go:304).
* `PauseStateMatchesContainer`: without a crash, with one client and before any
  cancel; the property says so itself.
* `EveryJobEnds`: without cancel requests, and if no container is left paused.
* `LifecycleSpec`: one active job, in order, one upload, no return after the end.

In `JobQueue`, until an item is appended behind a later one, its ID differs from
its job's, or its position was lost (`disorder`):

* `PointerStaysOnItem`: the worker's pointer names the item it took, through
  moves of the slice and sorts by other handlers.
* `RemovesWhatItRan`: it removes that item, without a panic, and no job is run
  twice by one process.
* `HiddenOnlyAtEnd`: an item is hidden from `GetJobs` only when its row is gone,
  when the cancel of that very job is about to delete the row, or when a cancel
  marked it that a removal had led astray between its search and its mark. The
  last is what goes wrong at JobHandler.go:142-150, and the property has it
  happen in no other way.
* `CancelsRequestedJob`: when `cancelJob` uses its pointer the slot still holds the
  requested job, unless the worker removed an item in between or the slice was
  still unsorted from a removal; then another job is cancelled.
* `ShutdownStopsQueue`: after `stop` sent its token at most one more run starts, and
  a job that still runs when `stop` is through was cancelled or is that one. (The
  one that started after the test of `currJob` is what the exit interrupts.)
* `KeepsLifecycle`: the contents of the slice follow `JobLifecycle`.

Two adders are enough for `disorder`, so these say what the code relies on, not
what a busy server guarantees; section 5 has the other side.

In `JobList`:

* `ListsEveryJob`: a list that is not cut holds every job there was when it began,
  also one that ends meanwhile, because rows are saved before items are hidden
  and the old jobs are read last. It misses the jobs that a run or a cancel left
  with states `GetOldJobs` does not list (their causes are `UnlistedHasACause`), and
  may miss more if an item was removed or moved while `GetJobs` walked.
* `LimitKept`: never more than the limit, not fewer while there are enough jobs
  that can be listed, old jobs only after the queue; the limit of 0 or below
  that the arithmetic goes through does no harm.
* `WalkIsExact`: without such a change the walk does not panic and reads no item
  twice.

In `Results`:

* `DManagerDoneIsComplete`: the files arrive once and in order, and an upload is
  Done only with all of them, whatever a cancel removes or sets.
* `LocalDoneIsWhole`: a local upload is Done only with a whole file of this build
  (the last one: section 5), or, when no file was listed, with nothing but what
  `os.Stat` could not read. A result
  file of blank lines is such a case: the test for "no files" comes before blank
  lines are dropped.
* `EndsInFinalState`: some error paths leave the upload Running, but no run ends so.

In `Sessions`:

* `NameTakenOnce`: two rows carry one name only if their registrations overlapped,
  a look-up failed, or the name was typed with upper-case letters, which `Has`
  compares with the stored lower-case name.
* `LoginMatchesRegistration`: a login succeeds exactly with the password of a
  completed registration and its name in lower case.
* `AnsweredTokenWorks`: a token that was answered works until another login of that
  user on that machine replaces it or it expires unused. A login that deletes the
  old session and then fails to insert its own counts as a replacement.
* `UsedSessionStays`: the cleanup never takes a session whose counter was saved for
  some request, not even when it deletes the row between a request's read and its
  save, which inserts it again, and although concurrent requests lose counts. A
  failed save is only logged and the request is served (LoginSessions.go:35-38): a
  session that served requests, but for none of which the save succeeded, still
  has the count 0 and the cleanup may take it.
* `OneSessionPerMachine`: a replaced session is in the table beside its replacement
  only because a request saved it back.

## 5. What does not hold

Each is a run whose counterexample is a behaviour of the code against a
statement in the repository.

| Run | Statement | What happens |
| --- | --- | --- |
| `jobrun_orphan_violation` | README.md:20 "Only one job can be run at the same time" | a cancel before the container is created finds nothing to stop (`ContainerID` is empty, BuildJob.go:97, 312); the goroutine left behind starts it beside the next job's. `StopComesEarly` leaves out the failed wait for a container (BuildJob.go:147-151), which ends in the same way |
| `jobrun_wedge_violation` | JobQueue.go:166 "Job is done after run, whatever state it exited" | a cancel after the log updater has ended leaves its token; the deferred send of `Job.Run` blocks the only worker for good |
| `jobrun_paused_violation` | BuildJob.go:90 "Await build or cancel" | the cancel of a paused build only relabels it; the worker waits on |
| `jobqueue_remove_violation` | JobQueue.go:222 "RemoveJob remove item from jobQueue" | called with an item's ID, it compares job IDs; after two interleaved adds it finds the wrong item or none |
| `results_local_violation` | UploadJob.go:110 "Copy all files to the LocalStoragePath" | every file is copied to one path, which no step makes a directory: the last one remains |

## 6. What is proved

Every safety property that a passing run checks is the statement of a theorem,
and so are both refinements of `JobLifecycle`. All proofs have one form: an
inductive invariant that TLC checked first on an instance of a run, a lemma for
each of its parts with one step per action that disturbs the part, and theorems
that follow from the invariant. Nothing is assumed but the named `ASSUME`s of the
modules, which TLC evaluates in every run.

### JobRun: containers, channels, publication

`JobRun_proofs.tla`, for any sets of jobs and requests, any number of crashes
and both settings of the constants. The assumptions are those of `JobRun`:
jobs are natural numbers, `None` is not one of them, the two switches are
Booleans, `MaxCrashes` is a natural number. Nothing is assumed to be finite.

| Theorem | Property |
| --- | --- |
| `TypeCorrect` | `TypeOK` |
| `OrphansOnlyAfterCancel` | `OrphansWereCancelled` |
| `WedgeOnlyAfterCancel` | `WorkerBlocksOnlyAfterCancel` |
| `FirstCancelGoesThrough` | `FirstCancelNeverBlocks` |
| `DataDirKept` | `DataDirOutlivesUse` |
| `PublishedAtMostOnce` | `PublishedOnce` |
| `DeletedRowsNeverBuilt` | `DeletedRowNeverBuilt` |
| `CancelledNeverUploaded` | `CancelledNeverPublished` |
| `ImplementsLifecycle` | `LifecycleSpec` |

None of the properties is inductive. The inductive invariant `IInv` adds to
`TypeOK`:

* `QueueInv`: the worker's job is queued, and a queued job that is not the
  worker's has no build and no result. Without it, taking a job could meet an
  old goroutine of it.
* `BuildInv`: a build goroutine runs under an awaiting worker or after a cancel,
  and a container lives under a goroutine that waits for it. It connects the
  container, which docker ends, with the cancel that explains it.
* `TokenInv`: which request, past which point, put the token into a channel.
* `DataInv`: who removed a data directory.
* `UploadInv`: only a job with arguments gets beyond the first step of its
  build, and a job that was uploaded is past its upload, out of the queue, or
  without arguments. This is why a restart cannot upload again.
* `OutOfQueueInv`: a job outside the queue has no row, or rows that `Load`
  passes over and that no request is about to change. This is why a restart
  revives no ended job.

Each part has a lemma for `[Next]_vars`, with one step per action that disturbs
it; `Invariance` puts them together and the theorems follow from it.
`LifecycleStep` maps `PickJob` to `Start`, the end of a transfer to `Upload`,
`FinishJob` to `End`, `Crash` to `Restart` and every other step to a stutter;
`Upload` needs `UploadInv` and `Restart` needs `OutOfQueueInv`.

The two last properties say that something stays so for good. Each has a
predicate of one job that a step preserves: `RowGone` (no row, no build, and if
the worker holds the job, only its removal is left) and `UploadBarred` (nothing
uploaded, no upload in progress, and a flag that the run will see or no
arguments; `UploadInv` shows that without arguments it never comes to the check).

### JobRun: states

`JobRunStates_proofs.tla`, from the same assumptions and on top of `IInv`.

| Theorem | Property |
| --- | --- |
| `UnlistedCorrect` | `UnlistedHasACause` |
| `PauseStateCorrect` | `PauseStateMatchesContainer` |
| `CrashKeepsCorrect` | `CrashKeepsUnfinished` |

The state of a job is in memory and in two rows, and the run, cancels and pauses
write all of them. `EndInv`, for a server that has not crashed, says of each job
how far a cancel request must have come for a state or row to be what it is
(`CancelFor`, `CancelledBy`), what the rows are of a job that was not run or was
dropped (`UnrunFor`), how long a build can still be Waiting or Running
(`WaitingFor`, `RunningFor`), and what explains an upload that waits behind a
finished build (`UnsavedFor`). It says so of the jobs whose last saves went well
(`FinalSaved`); of the others nothing is promised. `BeginSaves` and `CleanSaves`
are what the saves of a run's start and of a cancel leave when one of them
fails. The second exception of `UnlistedHasACause` came out of `UnsavedFor`:
with three clients that pause and resume and a failing save, a late pause
overwrites Done by Paused. `PauseInv` follows a single client between its look
at the state, docker's answer and the write of the state. `RestartInv` is what
survives a crash: a job whose run has not begun, or not begun to record its end,
has rows that `Load` takes back (`FreshFor`, `UnfinishedFor`); an answered
cancel has left rows it does not, unless the job's run is in progress
(`AnsweredFor`).

### JobQueue

`JobQueue_proofs.tla`, for any sets of adders and cancels, any number of jobs and
restarts, any capacities that hold their items, with or without failing
statements and a shutdown.

| Theorem | Property |
| --- | --- |
| `InvariantCorrect` | `IInv`, the inductive invariant |
| `TypeCorrect` | `TypeOK` |
| `PointerCorrect` | `PointerStaysOnItem` |
| `RemovesCorrect` | `RemovesWhatItRan` |
| `HiddenCorrect` | `HiddenOnlyAtEnd` |
| `CancelCorrect` | `CancelsRequestedJob` |
| `ShutdownCorrect` | `ShutdownStopsQueue` |
| `LifecycleImplemented` | `KeepsLifecycle` |

`IInv` has four parts:

* `StorageInv` holds whatever the order. Besides types it says that a pointer in
  use names a slot that holds an item (`PointerInv`), that no two items, in the
  slice or with an adder, are of one job (`NumberInv`), that there are at most as
  many queue items as jobs (`TicketInv`), and which row is whose (`RowInv`).
* `AddedInv`: what the slice has had and what a restart left out.
* `OrderInv`, until `disorder`: every item's two IDs and its position are the
  same number and, while the worker is busy, the slice is sorted with its item
  first (`FrontInv`); with `RunsInv`, `HiddenInv`, `HolderInv` and `ListedInv`
  for the properties. `HiddenInv` gives each hidden item its own reason
  (`Hideable`), and `HolderInv` is why a cancel that no removal passed marks the
  item of its own job. The worker's pointer may lie in an array that the slice
  has left, so `FrontInv` says of the slot and of the slice that they hold the
  item.
* `StopInv`: the token, the pointer `stop` tested and the runs since.

`SortEffect` says what a sort does: the slots of the slice are permuted into the
order of their positions, nothing else changes, and if the positions ascend
strictly nothing changes at all. The last is why handlers may sort under the
worker: a sorted slice of different positions admits only the identity
(`GrowingIsIdentity`), although the sort is not stable. `AppendEffect`,
`SwapEffect`, `MarkEffect` and `RestartEffect` do the same for the other writes,
`SliceStep` sums them up, and `SortedStays` concludes that as long as nothing is
removed a sorted slice and the pointers into it keep their items.
`LifecycleImplemented` maps `TakeFirst` to `Start`, `AppendItem` to `Submit`,
`RemoveFound` to `End`, `Restart` to `Restart` and every other step to a stutter.

### JobList

`JobList_proofs.tla`, for any number of lists and jobs and any limits.

| Theorem | Property |
| --- | --- |
| `InvariantCorrect` | `IInv`, the inductive invariant |
| `TypeCorrect` | `TypeOK` |
| `CompleteCorrect` | `ListsEveryJob` |
| `LimitCorrect` | `LimitKept` |
| `WalkCorrect` | `WalkIsExact` |

`SliceInv` is about the slice: each job once, and an item hidden only after the
last save of a run or a cancel of its job, listed or not. `WalkFor` is about one
walk that nobody disturbed: what it copied lies below its index, each job once,
and whatever it knew at the start is copied, still before it, or was saved at
its end. `SavesKeep` says that a job once saved so is from then on in `ended` or
`unlisted`, whatever is saved later. `OldFor` says that old jobs are asked for
only with the whole queue in the answer. `SortArranges`, `SortKeepsJobs` and
`OldJobsListed` are what the sorts and the query's limit return; they rest on
`RankedArranges` of `Counting`, which shows that ranks place every element once.

### Results

`Results_proofs.tla`, for any files, any set of result files of any length, any
arguments, with or without a cancel.

| Theorem | Property |
| --- | --- |
| `InvariantCorrect` | `IInv`, the inductive invariant |
| `TypeCorrect` | `TypeOK` |
| `DManagerCorrect` | `DManagerDoneIsComplete` |
| `LocalCorrect` | `LocalDoneIsWhole` |
| `FinalStateCorrect` | `EndsInFinalState` |

`SendInv` says that what was sent is the part of the list before the loop's index,
`CopyInv` what lies at the target before and between the copies, `StateInv` where
the run can be when the upload has a state. `OutFilesAreFiles` shows that only
names of files are left of a result file.

### Sessions

`Sessions_proofs.tla`, for any sets of names, passwords, machines and requests,
any idempotent `Lower`, with or without failing statements.

| Theorem | Property |
| --- | --- |
| `TypeCorrect` | `TypeOK` |
| `AnsweredTokensWork` | `AnsweredTokenWorks` |
| `UsedSessionsStay` | `UsedSessionStays` |
| `OneSessionPerMachineHolds` | `OneSessionPerMachine` |
| `NamesTakenOnce` | `NameTakenOnce` |
| `LoginsMatchRegistrations` | `LoginMatchesRegistration` |

Already the types need `RowsRefer`: a row in the table or in the hands of a
request is that of the login answered with its token, logins past `Has` know an
existing user, and what was used is counted. `TypeInv` is both together. From it:

* `ReplacedForGood`, `ReplacedIsDeleted`: a replacement never ceases to be one, and
  the step that makes it deletes the old row.
* `DeletedForAReason`: only a replacement or the expiry of a session no request was
  counted for takes a row out of the table. `UsedAreCounted`, the sessions whose
  counter was saved, is what keeps those from expiring.
* `GoneStaysGone`, `InsertedOrRevived`: how a row can come back, which is by the
  login itself or by a request that had read it.
* `UsersInv`: every row of `users` was made by one answered registration, whose
  look-up found none of the rows it saw to carry the name. This gives
  `NamesTakenOnce` and, with the form of the hash, `LoginsMatchRegistrations`.

### Induction

The prover cannot instantiate the library's induction theorems, which take an
operator. Where a proof needs induction it takes a least counterexample instead:
`LeastNumber` (a set of numbers that is not empty has a least one, from the
well-foundedness of `<`) shows that `IndexOf` finds the first item, that a
permutation that never falls is the identity, that the recursive function in
`OutFiles` exists (`KeptExists`) and what it returns.

### Only model-checked

`EveryJobEnds`: liveness under fairness, which is beyond this prover. The five
counterexamples of section 5 are TLC's. That the interesting states occur, and
that no property is empty, is shown by the mutants and not by the proofs.

## 7. Not modelled, and the plan

Out of scope: HTTP, request parsing and formatting of answers, configuration,
database connection and migrations, docker's options (images, environment,
mounts), the ccache and ping handlers, the container service, flags.

Left out although they have a behaviour:

* Log streaming. `LastSince` belongs to the job, so one client's request moves
  another's on (Job.go:262). How often a client asks, and with which `since`, is
  decided in another repository: what it should get cannot be stated from here.
* `listJobs` and the worker loading one item at the same time
  (JobQueueItem.go:47): the later assignment replaces the `BuildJob` the run uses.
  Two copies of a build's state per job would multiply the states of `JobRun`.
* The cancel of a job that was never loaded, which follows a nil `BuildJob`
  (Job.go:119): `CancelReadBuild` has the panic, and no property is about it. The
  queue item of such a job keeps its place and is run.
* `jobInfo` (JobService.go:98): one query, without a step in between.

Next, in this order:

1. What the components promise each other, as abstract specifications like
   `JobLifecycle`: the sessions a client may rely on, the answer of a list, the
   outcome of an upload; each shown to be implemented by its module.
2. Theorems for the properties of section 4 under weaker hypotheses, where the
   inductive invariants already carry more: `HiddenOnlyAtEnd` and
   `CancelsRequestedJob` after a disturbance that has passed.
3. A `LogStream` module, once the client's side of the protocol is at hand.
