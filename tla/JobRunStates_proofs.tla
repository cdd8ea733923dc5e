------------------------- MODULE JobRunStates_proofs -------------------------
(***************************************************************************)
(* Proofs about the states that JobRun keeps of a job in memory and in its *)
(* rows: what is left of a job that has ended, what a restart finds of one *)
(* that has not, and when BuildJob.State agrees with the container.  For   *)
(* any numbers of jobs, cancel requests, pause/resume clients and crashes. *)
(***************************************************************************)
EXTENDS JobRun_proofs

USE JobsAssumption, KeepBuildFilesAssumption, MaxCrashesAssumption
USE DEF queueVars, workVars, jobVars, chanVars, buildVars, updVars, extVars, dbVars, cancVars,
        pauseVars, workerKeeps, runKeeps, buildKeeps, updaterKeeps, cancelKeeps, pauseKeeps

(***************************************************************************)
(* How far the cancel requests are                                         *)
(***************************************************************************)
UploadSaved == {"respond", "deleteRow", "done"}
BuildSaved == UploadSaved \cup {"saveUpload2"}
Flagged == BuildSaved \cup {"clean", "saveBuild", "saveUpload", "saveBuild2"}
UploadSet == Flagged \cup {"flag"}
BuildSet == UploadSet \cup {"readUpload", "sendUpload", "setUpload"}
TokenSent == BuildSet \cup {"stop", "setBuild"}

\* A cancel request for job j got to step set or beyond.
Reached(j, set) == \E c \in Cancellers : cjob[c] = j /\ cpc[c] \in set

(***************************************************************************)
(* The inductive invariant of a job's end, as long as the server stays up  *)
(***************************************************************************)

\* What a cancel request has done stays done: no step sets a state back to Waiting.
CancelFor(j) ==
    /\ Reached(j, BuildSet) => bState[j] # "Waiting"
    /\ Reached(j, UploadSet) => uState[j] # "Waiting"
    /\ Reached(j, BuildSaved) => db[j].build # "Waiting"
    /\ Reached(j, UploadSaved) => db[j].upload # "Waiting"

\* ... and what only a cancel does was done by one.
CancelledBy(j) ==
    /\ cancelled[j] => Reached(j, Flagged)
    /\ j \in queue /\ ~row[j] => Reached(j, {"done"})
    /\ bCancel[j] => Reached(j, TokenSent)
    /\ cur = j /\ wpc \in {"stop", "setCancelled"} => Reached(j, TokenSent)

\* Nothing but a cancel writes to the rows of a job before its run, or of one that was
\* dropped because its Load failed.
Unrun(j) == (j \in queue /\ (cur = j => wpc = "begin")) \/ "load" \in dbErrs[j]
UnrunFor(j) ==
    /\ "load" \in dbErrs[j] => j \notin queue \/ (cur = j /\ wpc = "finish")
    /\ Unrun(j) /\ ~Reached(j, TokenSent) => db[j] = [build |-> "Waiting", upload |-> "Waiting"]

\* A build waits, in memory and in its row, only until its run has begun.
WaitingFor(j) ==
    /\ bState[j] = "Waiting" =>
        "load" \in dbErrs[j] \/ (j \in queue /\ (cur = j => wpc \in {"begin", "init"}))
    /\ db[j].build = "Waiting" =>
        "load" \in dbErrs[j] \/ (j \in queue /\ (cur = j => wpc \notin {"endUpload", "finish"}))

\* Only a job in its run is Running, save that a resume may set it so.
RunningFor(j) ==
    /\ uState[j] = "Running" => cur = j /\ wpc \in {"open", "send", "fail"}
    /\ db[j].upload = "Running" =>
        cur = j /\ wpc \in {"open", "send", "fail", "sendStop", "clean", "endBuild", "endUpload"}
    /\ bState[j] = "Running" /\ ~PauseAsked =>
        /\ cur = j /\ wpc \in {"await", "stop", "setCancelled", "fail"}
        /\ wpc = "await" => buildRes[j] # "ok"
    /\ db[j].build = "Running" /\ ~PauseAsked =>
        cur = j /\ wpc \in WorkerPCs \ {"idle", "begin", "init", "endUpload", "finish"}

\* The upload of a job that ends may still wait: the save before it failed after
\* a build, or a cancel request has yet to set it.
Built(j, b) == b = "Done" \/ (PauseAsked /\ b \in {"Running", "Paused"}) \/ Reached(j, TokenSent)
HalfBuilt(j, b) == Built(j, b) /\ ("built" \in dbErrs[j] \/ Reached(j, TokenSent))

UnsavedFor(j) ==
    /\ cur = j /\ wpc \in {"saveBuild", "saveUpload"} => Built(j, bState[j])
    /\ cur = j /\ wpc = "await" /\ buildRes[j] = "ok" => Built(j, bState[j])
    /\ cur = j /\ wpc \in {"sendStop", "clean", "endBuild"} /\ uState[j] = "Waiting" =>
        HalfBuilt(j, bState[j])
    /\ cur = j /\ wpc = "endUpload" /\ uState[j] = "Waiting" => HalfBuilt(j, db[j].build)
    /\ j \notin queue \/ (cur = j /\ wpc = "finish") =>
        (db[j].upload = "Waiting" => "load" \in dbErrs[j] \/ HalfBuilt(j, db[j].build))

EndFor(j) ==
    CancelFor(j) /\ CancelledBy(j) /\ UnrunFor(j) /\ WaitingFor(j) /\ RunningFor(j) /\ UnsavedFor(j)

\* The last saves of a job's run and of its cancels went well.
FinalSaved(j) == "final" \notin dbErrs[j]
EndInv == crashes = 0 => \A j \in Jobs : FinalSaved(j) => EndFor(j)

\* A cancel request goes on from step to step, and no client forgets its job.
LEMMA ReachedStays ==
    ASSUME TypeOK, [Next]_vars, crashes' = 0, NEW j \in Jobs
    PROVE  /\ Reached(j, BuildSet) => Reached(j, BuildSet)'
           /\ Reached(j, UploadSet) => Reached(j, UploadSet)'
           /\ Reached(j, Flagged) => Reached(j, Flagged)'
           /\ Reached(j, TokenSent) => Reached(j, TokenSent)'
           /\ Reached(j, {"done"}) => Reached(j, {"done"})'
           /\ PauseAsked => PauseAsked'
<1> DEFINE On(c) == /\ cjob[c] = j /\ cpc[c] # "idle" => cjob'[c] = j
                    /\ cpc[c] \in BuildSet => cpc'[c] \in BuildSet
                    /\ cpc[c] \in UploadSet => cpc'[c] \in UploadSet
                    /\ cpc[c] \in Flagged => cpc'[c] \in Flagged
                    /\ cpc[c] \in TokenSent => cpc'[c] \in TokenSent
                    /\ cpc[c] = "done" => cpc'[c] = "done"
           Goal == (\A c \in Cancellers : On(c)) /\ (PauseAsked => PauseAsked')
<1> USE DEF BuildSet, UploadSet, Flagged, TokenSent, BuildSaved, UploadSaved
<1>0. /\ cpc \in [Cancellers -> CancelPCs] /\ cjob \in [Cancellers -> Jobs \cup {None}]
      /\ pjob \in [Pausers -> Jobs \cup {None}] /\ crashes \in Nat
  BY DEF TypeOK, RequestTypeOK
<1>a. SUFFICES Goal
  <2>1. \A c \in Cancellers : cjob[c] = j => cpc[c] # "idle" BY DEF TypeOK, RequestTypeOK
  <2> QED BY <2>1 DEF Reached
<1> HIDE DEF On, Goal
<1>1. UNCHANGED <<cpc, cjob, pjob>> => Goal
  <2> SUFFICES ASSUME UNCHANGED <<cpc, cjob, pjob>> PROVE Goal OBVIOUS
  <2> USE DEF On, Goal
  <2>1. PauseAsked => PauseAsked' BY DEF PauseAsked
  <2>2. \A c \in Cancellers : On(c) OBVIOUS
  <2> QED BY <2>1, <2>2
<1>2. CASE Worker
  BY <1>1, <1>2 DEF Worker, PickJob, IsFirst, ItemExists, BeginRun, InitBuild, AwaitBuild,
      BuildDone, AwaitCancel, StopCancelledBuild, StopOutcomes, Live, ReturnCancelled, FailJob,
      SetState, SaveBuilt, SaveBuild, SaveUpload, CheckCancelled, IsCancelled, BeginUpload,
      OpenFile, UploadFails, SendFile, SendStop, CleanJob, RemoveDataDir, FinishJob, WorkerFree
<1>3. ASSUME NEW i \in Jobs, Build(i)
      PROVE  Goal
  BY <1>1, <1>3 DEF Build, PrepareBuild, BuildReturns, CreateContainer, StartContainer,
      WaitContainer, Exited, ParseResult
<1>4. ASSUME NEW i \in Jobs, WaitFails(i) \/ Updater(i) \/ ContainerExits(i) \/ ListJobs(i)
      PROVE  Goal
  BY <1>1, <1>4 DEF Updater, WaitFails, BuildReturns, ContainerExits, ListJobs, UpdaterTop,
      UpdaterReadsState, UpdaterGetsLogs
<1>5. ASSUME NEW d \in Cancellers, CancelFindJob(d) \/ CancelStep(d)
      PROVE  Goal
  <2>1. CASE CancelFindJob(d)
    BY <1>0, <2>1 DEF CancelFindJob, CancelGoes, On, Goal, PauseAsked, TypeOK, WorkerTypeOK
  <2>2. CASE CancelSendStop(d)
    BY <1>0, <2>2 DEF CancelSendStop, CancelGoes, On, Goal, PauseAsked, TypeOK, WorkerTypeOK
  <2>3. CASE CancelReadBuild(d)
    BY <1>0, <2>3 DEF CancelReadBuild, CancelGoes, On, Goal, PauseAsked, TypeOK, WorkerTypeOK
  <2>4. CASE CancelSendBuild(d)
    BY <1>0, <2>4 DEF CancelSendBuild, CancelGoes, On, Goal, PauseAsked, TypeOK, WorkerTypeOK
  <2>5. CASE CancelStop(d)
    BY <1>0, <2>5 DEF CancelStop, CancelGoes, StopOutcomes, Live, On, Goal, PauseAsked, TypeOK,
        WorkerTypeOK
  <2>6. CASE CancelSetBuild(d)
    BY <1>0, <2>6 DEF CancelSetBuild, CancelGoes, On, Goal, PauseAsked, TypeOK, WorkerTypeOK
  <2>7. CASE CancelReadUpload(d)
    BY <1>0, <2>7 DEF CancelReadUpload, CancelGoes, On, Goal, PauseAsked, TypeOK, WorkerTypeOK
  <2>8. CASE CancelSendUpload(d)
    BY <1>0, <2>8 DEF CancelSendUpload, CancelGoes, On, Goal, PauseAsked, TypeOK, WorkerTypeOK
  <2>9. CASE CancelSetUpload(d)
    BY <1>0, <2>9 DEF CancelSetUpload, CancelGoes, On, Goal, PauseAsked, TypeOK, WorkerTypeOK
  <2>10. CASE CancelFlag(d)
    BY <1>0, <2>10 DEF CancelFlag, CancelGoes, On, Goal, PauseAsked, TypeOK, WorkerTypeOK
  <2>11. CASE CancelClean(d)
    BY <1>0, <2>11, SMTT(30) DEF CancelClean, CancelGoes, RemoveDataDir, SaveBuild, SaveUpload,
        On, Goal, PauseAsked, TypeOK, WorkerTypeOK
  <2>12. CASE CancelRespond(d)
    BY <1>0, <2>12 DEF CancelRespond, CancelGoes, On, Goal, PauseAsked, TypeOK, WorkerTypeOK
  <2>13. CASE CancelDeleteRow(d)
    BY <1>0, <2>13 DEF CancelDeleteRow, CancelGoes, On, Goal, PauseAsked, TypeOK, WorkerTypeOK
  <2> QED BY <1>5, <2>1, <2>2, <2>3, <2>4, <2>5, <2>6, <2>7, <2>8, <2>9, <2>10, <2>11, <2>12,
      <2>13 DEF CancelStep
<1>6. ASSUME NEW p \in Pausers, PauseCheck(p) \/ PauseStep(p)
      PROVE  Goal
  <2>1. CASE PauseCheck(p)
    <3>1. PICK i \in queue : pjob' = [pjob EXCEPT ![p] = i] BY <2>1 DEF PauseCheck
    <3>2. pjob'[p] # None BY <1>0, <3>1 DEF TypeOK, WorkerTypeOK
    <3>3. cpc' = cpc /\ cjob' = cjob BY <2>1 DEF PauseCheck
    <3>4. \A c \in Cancellers : On(c) BY <3>3 DEF On
    <3> QED BY <3>2, <3>4 DEF PauseAsked, Goal
  <2>2. CASE PauseDocker(p) \/ PauseSet(p)
    BY <1>1, <2>2 DEF PauseDocker, PauseFails, PauseSet
  <2> QED BY <1>6, <2>1, <2>2 DEF PauseStep
<1>7. CASE Crash
  BY <1>7, <1>0 DEF Crash
<1> QED BY <1>1, <1>2, <1>3, <1>4, <1>5, <1>6, <1>7 DEF Next, vars

\* The history forgets nothing.
LEMMA ErrsGrow ==
    ASSUME TypeOK, [Next]_vars, NEW j \in Jobs PROVE dbErrs[j] \subseteq dbErrs'[j]
<1> DEFINE Goal == dbErrs[j] \subseteq dbErrs'[j]
<1>0. dbErrs \in [Jobs -> SUBSET {"load", "built", "final"}] BY DEF TypeOK, OutsideTypeOK
<1>1. UNCHANGED dbErrs => Goal OBVIOUS
<1> HIDE DEF Goal
<1>2. CASE Worker
  <2>1. CASE PickJob
    <3>1. UNCHANGED dbErrs \/ \E i \in queue : DbFails(i, "load") BY <2>1 DEF PickJob
    <3> QED BY <1>0, <3>1 DEF DbFails, Goal
  <2>2. CASE SaveBuilt
    <3>1. UNCHANGED dbErrs \/ DbFails(cur, "built") BY <2>2 DEF SaveBuilt
    <3> QED BY <1>0, <3>1 DEF DbFails, Goal
  <2>3. CASE CleanJob
    <3>1. UNCHANGED dbErrs \/ DbFails(cur, "final") BY <2>3 DEF CleanJob
    <3> QED BY <1>0, <3>1 DEF DbFails, Goal
  <2>4. CASE BeginRun \/ InitBuild \/ AwaitBuild \/ AwaitCancel \/ StopCancelledBuild \/
          ReturnCancelled \/ FailJob \/ CheckCancelled \/ BeginUpload \/ OpenFile \/ SendFile \/
          SendStop \/ FinishJob
    BY <1>1, <2>4 DEF BeginRun, InitBuild, AwaitBuild, AwaitCancel, StopCancelledBuild,
        ReturnCancelled, FailJob, CheckCancelled, BeginUpload, OpenFile, SendFile, SendStop,
        FinishJob
  <2> QED BY <1>2, <2>1, <2>2, <2>3, <2>4 DEF Worker
<1>3. ASSUME NEW i \in Jobs, Build(i) \/ WaitFails(i) \/ Updater(i) \/ ContainerExits(i)
          \/ ListJobs(i)
      PROVE  Goal
  BY <1>1, <1>3 DEF Build, PrepareBuild, CreateContainer, StartContainer, WaitContainer,
      ParseResult, WaitFails, Updater, UpdaterTop, UpdaterReadsState, UpdaterGetsLogs,
      ContainerExits, ListJobs
<1>4. ASSUME NEW d \in Cancellers, CancelFindJob(d) \/ CancelStep(d)
      PROVE  Goal
  <2>1. CASE CancelClean(d)
    <3>1. UNCHANGED dbErrs \/ DbFails(cjob[d], "final") BY <2>1 DEF CancelClean
    <3> QED BY <1>0, <3>1 DEF DbFails, Goal
  <2>2. CASE CancelStep(d) /\ ~CancelClean(d)
    BY <1>1, <2>2 DEF CancelStep, CancelSendStop, CancelReadBuild,
        CancelSendBuild, CancelStop, CancelSetBuild, CancelReadUpload, CancelSendUpload,
        CancelSetUpload, CancelFlag, CancelRespond, CancelDeleteRow
  <2>3. CASE CancelFindJob(d) BY <1>1, <2>3 DEF CancelFindJob
  <2> QED BY <1>4, <2>1, <2>2, <2>3
<1>5. ASSUME NEW p \in Pausers, PauseCheck(p) \/ PauseStep(p)
      PROVE  Goal
  BY <1>1, <1>5 DEF PauseStep, PauseCheck, PauseDocker, PauseSet
<1>6. CASE Crash
  BY <1>1, <1>6 DEF Crash
<1> QED BY <1>1, <1>2, <1>3, <1>4, <1>5, <1>6 DEF Next, vars, Goal

\* After the saves with which Job.Run begins, each of the job's rows holds what it
\* held or what the job is in memory, whichever save failed.
LEMMA BeginSaves ==
    ASSUME TypeOK, BeginRun
    PROVE  /\ \A i \in Jobs : i # cur => db'[i] = db[i]
           /\ db'[cur].build \in {db[cur].build, bState[cur]}
           /\ db'[cur].upload \in {db[cur].upload, uState[cur]}
<1>1. cur \in Jobs BY DEF BeginRun, TypeOK, WorkerTypeOK
<1>2. db \in [Jobs -> [build : States, upload : States]] BY DEF TypeOK, OutsideTypeOK
<1>3. CASE db' = [db EXCEPT ![cur] = [build |-> bState[cur], upload |-> uState[cur]]]
  BY <1>1, <1>2, <1>3
<1>4. CASE SaveBuild(cur) BY <1>1, <1>2, <1>4 DEF SaveBuild
<1>5. CASE UNCHANGED db BY <1>5
<1> QED BY <1>3, <1>4, <1>5 DEF BeginRun

\* A step of a cancel's cleanup writes one row, with what the job is in memory, or
\* is noted as a failed save; it touches nothing the worker has.
LEMMA CleanSaves ==
    ASSUME TypeOK, NEW c \in Cancellers, CancelClean(c)
    PROVE  /\ \A i \in Jobs : i # cjob[c] => db'[i] = db[i]
           /\ \/ UNCHANGED db
              \/ /\ cpc[c] \in {"saveBuild", "saveBuild2"}
                 /\ db'[cjob[c]].build = bState[cjob[c]]
                 /\ db'[cjob[c]].upload = db[cjob[c]].upload
              \/ /\ cpc[c] \in {"saveUpload", "saveUpload2"}
                 /\ db'[cjob[c]].upload = uState[cjob[c]]
                 /\ db'[cjob[c]].build = db[cjob[c]].build
           /\ UNCHANGED dbErrs \/ DbFails(cjob[c], "final")
           /\ UNCHANGED <<queue, cur, wpc, bState, uState, buildRes>>
<1>1. cjob[c] \in Jobs BY DEF CancelClean, TypeOK, RequestTypeOK
<1>2. db \in [Jobs -> [build : States, upload : States]] BY DEF TypeOK, OutsideTypeOK
<1>3. /\ UNCHANGED dbErrs \/ DbFails(cjob[c], "final")
      /\ UNCHANGED <<queue, cur, wpc, bState, uState, buildRes>>
  BY DEF CancelClean
<1>4. CASE UNCHANGED db BY <1>3, <1>4
<1>5. CASE cpc[c] \in {"saveBuild", "saveBuild2"} /\ SaveBuild(cjob[c])
  BY <1>1, <1>2, <1>3, <1>5 DEF SaveBuild
<1>6. CASE cpc[c] \in {"saveUpload", "saveUpload2"} /\ SaveUpload(cjob[c])
  BY <1>1, <1>2, <1>3, <1>6 DEF SaveUpload
<1> QED BY <1>4, <1>5, <1>6 DEF CancelClean

\* A later step lies beyond an earlier one.
LEMMA ReachedEarlier ==
    ASSUME NEW j
    PROVE  /\ Reached(j, UploadSaved) => Reached(j, UploadSet)
           /\ Reached(j, BuildSaved) => Reached(j, BuildSet)
           /\ Reached(j, Flagged) => Reached(j, UploadSet)
           /\ Reached(j, {"done"}) => Reached(j, UploadSaved) /\ Reached(j, BuildSaved)
           /\ Reached(j, {"done"}) => Reached(j, UploadSet) /\ Reached(j, BuildSet)
    BY DEF Reached, BuildSet, UploadSet, Flagged, BuildSaved, UploadSaved

\* A cancel sets both halves to Cancelled before it saves them, and no other step
\* sets one to Waiting.
LEMMA CancelForStep ==
    ASSUME IInv, [Next]_vars, crashes' = 0, NEW j \in Jobs, EndFor(j), FinalSaved(j)'
    PROVE  CancelFor(j)'
<1>0. /\ queue \subseteq Jobs /\ (wpc # "idle" => cur \in queue) /\ crashes \in Nat
      /\ bState \in [Jobs -> States] /\ uState \in [Jobs -> States]
      /\ db \in [Jobs -> [build : States, upload : States]]
      /\ cpc \in [Cancellers -> CancelPCs] /\ cjob \in [Cancellers -> Jobs \cup {None}]
      /\ CancelFor(j) /\ dbErrs \in [Jobs -> SUBSET {"load", "built", "final"}]
      /\ Reached(j, UploadSaved) => Reached(j, UploadSet)
      /\ Reached(j, BuildSaved) => Reached(j, BuildSet)
  BY ReachedEarlier DEF IInv, QueueInv, TypeOK, WorkerTypeOK, JobTypeOK, OutsideTypeOK,
      RequestTypeOK, EndFor
<1>a. \A S : UNCHANGED <<cpc, cjob>> => Reached(j, S)' = Reached(j, S) BY DEF Reached
<1> HIDE DEF Reached
<1>1. UNCHANGED <<cpc, cjob, bState, uState, db>> => CancelFor(j)' BY <1>0, <1>a DEF CancelFor
<1>2. CASE Worker
  <2>1. CASE BeginRun
    <3>1. /\ \A i \in Jobs : i # cur => db'[i] = db[i]
          /\ db'[cur].build \in {db[cur].build, bState[cur]}
          /\ db'[cur].upload \in {db[cur].upload, uState[cur]}
      BY <2>1, BeginSaves DEF IInv
    <3>2. /\ wpc = "begin" /\ wpc' = "init"
          /\ UNCHANGED <<queue, cur, row, bState, uState, dbErrs, buildRes, cjob, cpc>>
      BY <2>1 DEF BeginRun
    <3>3. /\ db'[j].build \in {db[j].build, bState[j]}
          /\ db'[j].upload \in {db[j].upload, uState[j]}
          /\ bState' = bState /\ uState' = uState
      BY <3>1, <3>2
    <3>4. /\ Reached(j, BuildSet)' = Reached(j, BuildSet)
          /\ Reached(j, UploadSet)' = Reached(j, UploadSet)
          /\ Reached(j, BuildSaved)' = Reached(j, BuildSaved)
          /\ Reached(j, UploadSaved)' = Reached(j, UploadSaved)
      BY <3>2 DEF Reached
    <3> QED BY <1>0, <3>3, <3>4 DEF CancelFor
  <2>2. CASE InitBuild
    BY <1>0, <1>a, <2>2 DEF InitBuild, CancelFor
  <2>3. CASE ReturnCancelled
    BY <1>0, <1>a, <2>3 DEF ReturnCancelled, CancelFor
  <2>4. CASE FailJob
    BY <1>0, <1>a, <2>4 DEF FailJob, SetState, CancelFor
  <2>5. CASE SaveBuilt
    BY <1>0, <1>a, <2>5, SMTT(30) DEF SaveBuilt, SaveBuild, SaveUpload, CancelFor
  <2>6. CASE BeginUpload
    BY <1>0, <1>a, <2>6 DEF BeginUpload, CancelFor
  <2>7. CASE OpenFile
    BY <1>0, <1>a, <2>7 DEF OpenFile, UploadFails, CancelFor
  <2>8. CASE SendFile
    BY <1>0, <1>a, <2>8 DEF SendFile, UploadFails, CancelFor
  <2>9. CASE CleanJob
    BY <1>0, <1>a, <2>9, SMTT(30) DEF CleanJob, RemoveDataDir, SaveBuild, SaveUpload, CancelFor
  <2>10. CASE PickJob \/ AwaitBuild \/ AwaitCancel \/ StopCancelledBuild \/ CheckCancelled \/
          SendStop \/ FinishJob
    BY <1>1, <2>10 DEF PickJob, IsFirst, ItemExists, AwaitBuild, BuildDone, AwaitCancel,
        StopCancelledBuild, StopOutcomes, Live, CheckCancelled, IsCancelled, SendStop,
        FinishJob, WorkerFree
  <2> QED BY <1>2, <2>1, <2>2, <2>3, <2>4, <2>5, <2>6, <2>7, <2>8, <2>9, <2>10 DEF Worker
<1>3. ASSUME NEW i \in Jobs, Build(i)
      PROVE  CancelFor(j)'
  <2>1. CASE ParseResult(i)
    BY <1>0, <1>a, <2>1 DEF ParseResult, BuildReturns, CancelFor
  <2>2. CASE PrepareBuild(i) \/ CreateContainer(i) \/ StartContainer(i) \/ WaitContainer(i)
    BY <1>1, <2>2 DEF PrepareBuild, BuildReturns, CreateContainer, StartContainer,
        WaitContainer, Exited
  <2> QED BY <1>3, <2>1, <2>2 DEF Build
<1>4. ASSUME NEW i \in Jobs, WaitFails(i) \/ Updater(i) \/ ContainerExits(i) \/ ListJobs(i)
      PROVE  CancelFor(j)'
  BY <1>1, <1>4 DEF Updater, WaitFails, BuildReturns, ContainerExits, ListJobs, UpdaterTop,
      UpdaterReadsState, UpdaterGetsLogs
<1>5. ASSUME NEW d \in Cancellers, CancelFindJob(d) \/ CancelStep(d)
      PROVE  CancelFor(j)'
  <2>1. CASE CancelFindJob(d)
    BY <1>0, <2>1 DEF CancelFindJob, CancelGoes, CancelFor, Reached, BuildSet, UploadSet, Flagged,
        BuildSaved, UploadSaved
  <2>2. CASE CancelSendStop(d)
    BY <1>0, <2>2 DEF CancelSendStop, CancelGoes, CancelFor, Reached, BuildSet, UploadSet, Flagged,
        BuildSaved, UploadSaved
  <2>3. CASE CancelReadBuild(d)
    BY <1>0, <2>3 DEF CancelReadBuild, CancelGoes, CancelFor, Reached, BuildSet, UploadSet,
        Flagged, BuildSaved, UploadSaved
  <2>4. CASE CancelSendBuild(d)
    BY <1>0, <2>4 DEF CancelSendBuild, CancelGoes, CancelFor, Reached, BuildSet, UploadSet,
        Flagged, BuildSaved, UploadSaved
  <2>5. CASE CancelStop(d)
    BY <1>0, <2>5 DEF CancelStop, CancelGoes, StopOutcomes, Live, CancelFor, Reached, BuildSet,
        UploadSet, Flagged, BuildSaved, UploadSaved
  <2>6. CASE CancelSetBuild(d)
    BY <1>0, <2>6 DEF CancelSetBuild, CancelGoes, CancelFor, Reached, BuildSet, UploadSet, Flagged,
        BuildSaved, UploadSaved
  <2>7. CASE CancelReadUpload(d)
    BY <1>0, <2>7 DEF CancelReadUpload, CancelGoes, CancelFor, Reached, BuildSet, UploadSet,
        Flagged, BuildSaved, UploadSaved
  <2>8. CASE CancelSendUpload(d)
    BY <1>0, <2>8 DEF CancelSendUpload, CancelGoes, CancelFor, Reached, BuildSet, UploadSet,
        Flagged, BuildSaved, UploadSaved
  <2>9. CASE CancelSetUpload(d)
    BY <1>0, <2>9 DEF CancelSetUpload, CancelGoes, CancelFor, Reached, BuildSet, UploadSet,
        Flagged, BuildSaved, UploadSaved
  <2>10. CASE CancelFlag(d)
    BY <1>0, <2>10 DEF CancelFlag, CancelGoes, CancelFor, Reached, BuildSet, UploadSet, Flagged,
        BuildSaved, UploadSaved
  <2>11. CASE CancelClean(d)
    BY <1>0, <2>11, SMTT(30)
      DEF CancelClean, DbFails, FinalSaved, CancelGoes, RemoveDataDir, SaveBuild, SaveUpload,
        CancelFor, Reached, BuildSet, UploadSet, Flagged, BuildSaved, UploadSaved
  <2>12. CASE CancelRespond(d)
    BY <1>0, <2>12 DEF CancelRespond, CancelGoes, CancelFor, Reached, BuildSet, UploadSet, Flagged,
        BuildSaved, UploadSaved
  <2>13. CASE CancelDeleteRow(d)
    BY <1>0, <2>13 DEF CancelDeleteRow, CancelGoes, CancelFor, Reached, BuildSet, UploadSet,
        Flagged, BuildSaved, UploadSaved
  <2> QED BY <1>5, <2>1, <2>2, <2>3, <2>4, <2>5, <2>6, <2>7, <2>8, <2>9, <2>10, <2>11, <2>12,
      <2>13 DEF CancelStep
<1>6. ASSUME NEW p \in Pausers, PauseCheck(p) \/ PauseStep(p)
      PROVE  CancelFor(j)'
  <2>1. CASE PauseSet(p)
    BY <1>0, <1>a, <2>1 DEF PauseSet, CancelFor
  <2>2. CASE PauseCheck(p) \/ PauseDocker(p)
    BY <1>1, <2>2 DEF PauseCheck, PauseDocker, PauseFails
  <2> QED BY <1>6, <2>1, <2>2 DEF PauseStep
<1>7. CASE Crash
  BY <1>7, <1>0 DEF Crash
<1> QED BY <1>1, <1>2, <1>3, <1>4, <1>5, <1>6, <1>7 DEF Next, vars

\* Only a cancel sets Cancelled, deletes a row and fills the cancel channel of a job
\* that is still queued.
LEMMA CancelledByStep ==
    ASSUME IInv, [Next]_vars, crashes' = 0, NEW j \in Jobs, EndFor(j), FinalSaved(j)'
    PROVE  CancelledBy(j)'
<1>0. /\ queue \subseteq Jobs /\ row \in [Jobs -> BOOLEAN] /\ crashes \in Nat
      /\ (wpc # "idle" => cur \in queue) /\ (wpc = "idle" <=> cur = None)
      /\ bState \in [Jobs -> States] /\ uState \in [Jobs -> States]
      /\ db \in [Jobs -> [build : States, upload : States]]
      /\ cancelled \in [Jobs -> BOOLEAN] /\ bCancel \in [Jobs -> BOOLEAN]
      /\ cpc \in [Cancellers -> CancelPCs] /\ cjob \in [Cancellers -> Jobs \cup {None}]
      /\ EndFor(j)
  BY DEF IInv, QueueInv, TypeOK, WorkerTypeOK, JobTypeOK, OutsideTypeOK, RequestTypeOK
<1>b. /\ Reached(j, Flagged) => Reached(j, Flagged)'
      /\ Reached(j, {"done"}) => Reached(j, {"done"})'
      /\ Reached(j, TokenSent) => Reached(j, TokenSent)'
  BY ReachedStays DEF IInv
<1>c. CancelledBy(j) BY <1>0 DEF EndFor
<1> HIDE DEF Reached
<1>1. UNCHANGED <<cancelled, queue, row, bCancel, cur, wpc>> => CancelledBy(j)'
  BY <1>b, <1>c DEF CancelledBy
<1>2. CASE Worker
  <2>1. CASE PickJob
    BY <1>0, <1>b, <1>c, <2>1 DEF PickJob, IsFirst, ItemExists, CancelledBy
  <2>2. CASE BeginRun
    BY <1>0, <1>b, <1>c, <2>2 DEF BeginRun, CancelledBy
  <2>3. CASE InitBuild
    BY <1>0, <1>b, <1>c, <2>3 DEF InitBuild, CancelledBy
  <2>4. CASE AwaitBuild
    BY <1>0, <1>b, <1>c, <2>4 DEF AwaitBuild, BuildDone, CancelledBy
  <2>5. CASE AwaitCancel
    BY <1>0, <1>b, <1>c, <2>5 DEF AwaitCancel, CancelledBy
  <2>6. CASE StopCancelledBuild
    BY <1>0, <1>b, <1>c, <2>6 DEF StopCancelledBuild, StopOutcomes, Live, CancelledBy
  <2>7. CASE ReturnCancelled
    BY <1>0, <1>b, <1>c, <2>7 DEF ReturnCancelled, CancelledBy
  <2>8. CASE FailJob
    BY <1>0, <1>b, <1>c, <2>8 DEF FailJob, SetState, CancelledBy
  <2>9. CASE SaveBuilt
    BY <1>0, <1>b, <1>c, <2>9, SMTT(30) DEF SaveBuilt, SaveBuild, SaveUpload, CancelledBy
  <2>10. CASE CheckCancelled
    BY <1>0, <1>b, <1>c, <2>10 DEF CheckCancelled, IsCancelled, CancelledBy
  <2>11. CASE BeginUpload
    BY <1>0, <1>b, <1>c, <2>11 DEF BeginUpload, CancelledBy
  <2>12. CASE OpenFile
    BY <1>0, <1>b, <1>c, <2>12 DEF OpenFile, UploadFails, CancelledBy
  <2>13. CASE SendFile
    BY <1>0, <1>b, <1>c, <2>13 DEF SendFile, UploadFails, CancelledBy
  <2>14. CASE SendStop
    BY <1>0, <1>b, <1>c, <2>14 DEF SendStop, CancelledBy
  <2>15. CASE CleanJob
    BY <1>0, <1>b, <1>c, <2>15, SMTT(30) DEF CleanJob, RemoveDataDir, SaveBuild, SaveUpload,
        CancelledBy
  <2>16. CASE FinishJob
    BY <1>0, <1>b, <1>c, <2>16 DEF FinishJob, WorkerFree, CancelledBy
  <2> QED BY <1>2, <2>1, <2>2, <2>3, <2>4, <2>5, <2>6, <2>7, <2>8, <2>9, <2>10, <2>11, <2>12,
      <2>13, <2>14, <2>15, <2>16 DEF Worker
<1>3. ASSUME NEW i \in Jobs, Build(i)
      PROVE  CancelledBy(j)'
  BY <1>1, <1>3 DEF Build, PrepareBuild, BuildReturns, CreateContainer, StartContainer,
      WaitContainer, Exited, ParseResult
<1>4. ASSUME NEW i \in Jobs, WaitFails(i) \/ Updater(i) \/ ContainerExits(i) \/ ListJobs(i)
      PROVE  CancelledBy(j)'
  BY <1>1, <1>4 DEF Updater, WaitFails, BuildReturns, ContainerExits, ListJobs, UpdaterTop,
      UpdaterReadsState, UpdaterGetsLogs
<1>5. ASSUME NEW d \in Cancellers, CancelFindJob(d) \/ CancelStep(d)
      PROVE  CancelledBy(j)'
  <2>1. CASE CancelSendBuild(d)
    BY <1>0, <1>b, <1>c, <2>1 DEF CancelSendBuild, CancelGoes, CancelledBy, Reached, BuildSet,
        UploadSet, Flagged, BuildSaved, UploadSaved, TokenSent
  <2>2. CASE CancelFlag(d)
    BY <1>0, <1>b, <1>c, <2>2 DEF CancelFlag, CancelGoes, CancelledBy, Reached, BuildSet,
        UploadSet, Flagged, BuildSaved, UploadSaved, TokenSent
  <2>3. CASE CancelDeleteRow(d)
    BY <1>0, <1>b, <1>c, <2>3 DEF CancelDeleteRow, CancelGoes, CancelledBy, Reached, BuildSet,
        UploadSet, Flagged, BuildSaved, UploadSaved, TokenSent
  <2>4. CASE CancelFindJob(d) \/ CancelSendStop(d) \/ CancelReadBuild(d) \/ CancelStop(d) \/
          CancelSetBuild(d) \/ CancelReadUpload(d) \/ CancelSendUpload(d) \/ CancelSetUpload(d)
          \/ CancelClean(d) \/ CancelRespond(d)
    BY <1>1, <2>4 DEF CancelFindJob, CancelGoes, CancelSendStop, CancelReadBuild, CancelStop,
        StopOutcomes, Live, CancelSetBuild, CancelReadUpload, CancelSendUpload, CancelSetUpload,
        CancelClean, RemoveDataDir, SaveBuild, SaveUpload, CancelRespond
  <2> QED BY <1>5, <2>1, <2>2, <2>3, <2>4 DEF CancelStep
<1>6. ASSUME NEW p \in Pausers, PauseCheck(p) \/ PauseStep(p)
      PROVE  CancelledBy(j)'
  BY <1>1, <1>6 DEF PauseStep, PauseCheck, PauseDocker, PauseFails, PauseSet
<1>7. CASE Crash
  BY <1>7, <1>0 DEF Crash
<1> QED BY <1>1, <1>2, <1>3, <1>4, <1>5, <1>6, <1>7 DEF Next, vars

\* Before its run, and after a failed Load, the worker writes nothing of a job; a
\* cancel that does has sent its token, or found that none was needed.
LEMMA UnrunForStep ==
    ASSUME IInv, [Next]_vars, crashes' = 0, NEW j \in Jobs, EndFor(j), FinalSaved(j)'
    PROVE  UnrunFor(j)'
<1>0. /\ queue \subseteq Jobs /\ crashes \in Nat /\ None \notin Jobs
      /\ (wpc # "idle" => cur \in queue) /\ (wpc = "idle" <=> cur = None)
      /\ db \in [Jobs -> [build : States, upload : States]]
      /\ dbErrs \in [Jobs -> SUBSET {"load", "built", "final"}]
      /\ UnrunFor(j)
      /\ Reached(j, TokenSent) => Reached(j, TokenSent)'
      /\ \A d \in Cancellers : cjob[d] = j /\ cpc[d] \in TokenSent => Reached(j, TokenSent)
  BY ReachedStays DEF IInv, QueueInv, TypeOK, WorkerTypeOK, OutsideTypeOK, RequestTypeOK, EndFor,
      Reached
<1> HIDE DEF Reached
<1> USE DEF UnrunFor, Unrun
<1>1. UNCHANGED <<db, dbErrs, queue, cur, wpc>> => UnrunFor(j)' BY <1>0
<1>2. CASE Worker
  <2>1. CASE PickJob
    <3>1. PICK i \in queue : /\ cur' = i /\ wpc' \in {"begin", "finish"}
                             /\ UNCHANGED dbErrs \/ (DbFails(i, "load") /\ wpc' = "finish")
      BY <2>1 DEF PickJob
    <3>2. wpc = "idle" /\ queue' = queue /\ db' = db BY <2>1 DEF PickJob
    <3>3. "load" \in dbErrs'[j] => "load" \in dbErrs[j] \/ (cur' = j /\ wpc' = "finish")
      BY <1>0, <3>1 DEF DbFails
    <3> QED BY <1>0, <3>1, <3>2, <3>3
  <2>2. CASE BeginRun
    <3>1. \A i \in Jobs : i # cur => db'[i] = db[i]
      BY <1>0, <2>2 DEF BeginRun, SaveBuild
    <3>2. wpc = "begin" /\ wpc' = "init" /\ UNCHANGED <<dbErrs, queue, cur>>
      BY <2>2 DEF BeginRun
    <3> QED BY <1>0, <3>1, <3>2
  <2>3. CASE SaveBuilt
    <3>1. \A i \in Jobs : i # cur => db'[i] = db[i]
      BY <1>0, <2>3 DEF SaveBuilt, SaveBuild, SaveUpload
    <3>2. /\ wpc \in {"saveBuild", "saveUpload"} /\ UNCHANGED <<queue, cur>>
          /\ wpc' \in {"saveUpload", "check", "sendStop"}
      BY <2>3 DEF SaveBuilt
    <3>3. UNCHANGED dbErrs \/ DbFails(cur, "built") BY <2>3 DEF SaveBuilt
    <3>4. "load" \in dbErrs'[j] => "load" \in dbErrs[j] BY <1>0, <3>3 DEF DbFails
    <3> QED BY <1>0, <3>1, <3>2, <3>4
  <2>4. CASE CleanJob
    <3>1. \A i \in Jobs : i # cur => db'[i] = db[i]
      BY <1>0, <2>4 DEF CleanJob, SaveBuild, SaveUpload
    <3>2. /\ wpc \in {"clean", "endBuild", "endUpload"} /\ UNCHANGED <<queue, cur>>
          /\ wpc' \in {"endBuild", "endUpload", "finish"}
      BY <2>4 DEF CleanJob
    <3>3. UNCHANGED dbErrs \/ DbFails(cur, "final") BY <2>4 DEF CleanJob
    <3>4. "load" \in dbErrs'[j] => "load" \in dbErrs[j] BY <1>0, <3>3 DEF DbFails
    <3> QED BY <1>0, <3>1, <3>2, <3>4
  <2>5. CASE FinishJob
    BY <1>0, <2>5 DEF FinishJob, WorkerFree
  <2>6. CASE InitBuild \/ AwaitBuild \/ AwaitCancel \/ StopCancelledBuild \/ ReturnCancelled
          \/ FailJob \/ CheckCancelled \/ BeginUpload \/ OpenFile \/ SendFile \/ SendStop
    <3>1. /\ wpc \notin {"idle", "begin", "finish"} /\ wpc' \notin {"begin", "finish"}
          /\ UNCHANGED <<db, dbErrs, queue, cur>>
      BY <2>6 DEF InitBuild, AwaitBuild, AwaitCancel, StopCancelledBuild, ReturnCancelled,
          FailJob, CheckCancelled, BeginUpload, OpenFile, UploadFails, SendFile, SendStop
    <3> QED BY <1>0, <3>1
  <2> QED BY <1>2, <2>1, <2>2, <2>3, <2>4, <2>5, <2>6 DEF Worker
<1>3. ASSUME NEW i \in Jobs, Build(i) \/ WaitFails(i) \/ Updater(i) \/ ContainerExits(i)
          \/ ListJobs(i)
      PROVE  UnrunFor(j)'
  BY <1>1, <1>3 DEF Build, PrepareBuild, CreateContainer, StartContainer, WaitContainer,
      ParseResult, WaitFails, Updater, UpdaterTop, UpdaterReadsState, UpdaterGetsLogs,
      ContainerExits, ListJobs
<1>4. ASSUME NEW d \in Cancellers, CancelFindJob(d) \/ CancelStep(d)
      PROVE  UnrunFor(j)'
  <2>1. CASE CancelClean(d)
    <3>1. cpc[d] \in TokenSent
      BY <2>1 DEF CancelClean, TokenSent, BuildSet, UploadSet, Flagged, BuildSaved, UploadSaved
    <3>2. cjob[d] # j => db'[j] = db[j]
      BY <1>0, <2>1 DEF CancelClean, SaveBuild, SaveUpload
    <3>3. UNCHANGED dbErrs \/ DbFails(cjob[d], "final") BY <2>1 DEF CancelClean
    <3>4. "load" \in dbErrs'[j] => "load" \in dbErrs[j] BY <1>0, <3>3 DEF DbFails
    <3>5. UNCHANGED <<queue, cur, wpc>> BY <2>1 DEF CancelClean
    <3> QED BY <1>0, <3>1, <3>2, <3>4, <3>5
  <2>2. CASE CancelFindJob(d) \/ CancelSendStop(d) \/ CancelReadBuild(d) \/ CancelSendBuild(d)
          \/ CancelStop(d) \/ CancelSetBuild(d) \/ CancelReadUpload(d) \/ CancelSendUpload(d)
          \/ CancelSetUpload(d) \/ CancelFlag(d) \/ CancelRespond(d) \/ CancelDeleteRow(d)
    BY <1>1, <2>2 DEF CancelFindJob, CancelSendStop, CancelReadBuild, CancelSendBuild,
        CancelStop, CancelSetBuild, CancelReadUpload, CancelSendUpload, CancelSetUpload,
        CancelFlag, CancelRespond, CancelDeleteRow
  <2> QED BY <1>4, <2>1, <2>2 DEF CancelStep
<1>5. ASSUME NEW p \in Pausers, PauseCheck(p) \/ PauseStep(p)
      PROVE  UnrunFor(j)'
  BY <1>1, <1>5 DEF PauseStep, PauseCheck, PauseDocker, PauseSet
<1>6. CASE Crash
  BY <1>6, <1>0 DEF Crash
<1> QED BY <1>1, <1>2, <1>3, <1>4, <1>5, <1>6 DEF Next, vars

\* A run leaves no half of a job Waiting behind but the upload's.
LEMMA WaitingForStep ==
    ASSUME IInv, [Next]_vars, crashes' = 0, NEW j \in Jobs, EndFor(j), FinalSaved(j)'
    PROVE  WaitingFor(j)'
<1>0. /\ queue \subseteq Jobs /\ row \in [Jobs -> BOOLEAN] /\ crashes \in Nat
      /\ (wpc # "idle" => cur \in queue) /\ (wpc = "idle" <=> cur = None)
      /\ bState \in [Jobs -> States] /\ uState \in [Jobs -> States]
      /\ db \in [Jobs -> [build : States, upload : States]]
      /\ cancelled \in [Jobs -> BOOLEAN] /\ bCancel \in [Jobs -> BOOLEAN]
      /\ cpc \in [Cancellers -> CancelPCs] /\ cjob \in [Cancellers -> Jobs \cup {None}]
      /\ dbErrs \in [Jobs -> SUBSET {"load", "built", "final"}]
      /\ EndFor(j)
  BY DEF IInv, QueueInv, TypeOK, WorkerTypeOK, JobTypeOK, OutsideTypeOK, RequestTypeOK
<1>b. CancelFor(j) /\ CancelledBy(j) /\ UnrunFor(j) /\ WaitingFor(j) BY <1>0 DEF EndFor
<1>c. /\ Reached(j, {"done"}) => bState[j] # "Waiting" /\ db[j].build # "Waiting"
      /\ \A d \in Cancellers :
            cjob[d] = j /\ cpc[d] \in {"saveBuild", "saveBuild2"} => bState[j] # "Waiting"
  BY <1>b, ReachedEarlier
     DEF CancelFor, Reached, BuildSet, UploadSet, Flagged, BuildSaved, UploadSaved
<1>d. dbErrs[j] \subseteq dbErrs'[j] BY ErrsGrow DEF IInv
<1> HIDE DEF Reached
<1>1. UNCHANGED <<bState, db, dbErrs, queue, cur, wpc>> => WaitingFor(j)'
  BY <1>b DEF WaitingFor
<1>2. CASE Worker
  <2>1. CASE PickJob
    BY <1>0, <1>b, <1>c, <1>d, <2>1
      DEF PickJob, DbFails, FinalSaved, ItemExists, WaitingFor, UnrunFor, CancelledBy
  <2>2. CASE BeginRun
    <3>1. /\ \A i \in Jobs : i # cur => db'[i] = db[i]
          /\ db'[cur].build \in {db[cur].build, bState[cur]}
          /\ db'[cur].upload \in {db[cur].upload, uState[cur]}
      BY <2>2, BeginSaves DEF IInv
    <3>2. /\ wpc = "begin" /\ wpc' = "init"
          /\ UNCHANGED <<queue, cur, row, bState, uState, dbErrs, buildRes, cjob, cpc>>
      BY <2>2 DEF BeginRun
    <3>3. CASE j = cur
      <4>1. cur \in queue BY <1>0, <3>2
      <4> QED BY <1>0, <1>b, <1>c, <1>d, <3>1, <3>2, <3>3, <4>1, SMTT(30) DEF WaitingFor
    <3>4. CASE j # cur
      <4>1. db'[j] = db[j] BY <3>1, <3>4
      <4> QED BY <1>0, <1>b, <1>c, <1>d, <3>2, <3>4, <4>1, SMTT(30) DEF WaitingFor
    <3> QED BY <3>3, <3>4
  <2>3. CASE InitBuild
    BY <1>0, <1>b, <1>c, <1>d, <2>3 DEF InitBuild, WaitingFor, UnrunFor
  <2>4. CASE AwaitBuild
    BY <1>0, <1>b, <1>c, <1>d, <2>4 DEF AwaitBuild, BuildDone, WaitingFor, UnrunFor
  <2>5. CASE AwaitCancel
    BY <1>0, <1>b, <1>c, <1>d, <2>5 DEF AwaitCancel, WaitingFor, UnrunFor
  <2>6. CASE StopCancelledBuild
    BY <1>0, <1>b, <1>c, <1>d, <2>6 DEF StopCancelledBuild, StopOutcomes, Live, WaitingFor, UnrunFor
  <2>7. CASE ReturnCancelled
    BY <1>0, <1>b, <1>c, <1>d, <2>7 DEF ReturnCancelled, WaitingFor, UnrunFor
  <2>8. CASE FailJob
    BY <1>0, <1>b, <1>c, <1>d, <2>8 DEF FailJob, SetState, WaitingFor, UnrunFor
  <2>9. CASE SaveBuilt
    BY <1>0, <1>b, <1>c, <1>d, <2>9, SMTT(30)
      DEF SaveBuilt, DbFails, FinalSaved, SaveBuild, SaveUpload, WaitingFor, UnrunFor
  <2>10. CASE CheckCancelled
    BY <1>0, <1>b, <1>c, <1>d, <2>10 DEF CheckCancelled, IsCancelled, WaitingFor, UnrunFor
  <2>11. CASE BeginUpload
    BY <1>0, <1>b, <1>c, <1>d, <2>11 DEF BeginUpload, WaitingFor, UnrunFor
  <2>12. CASE OpenFile
    BY <1>0, <1>b, <1>c, <1>d, <2>12 DEF OpenFile, UploadFails, WaitingFor, UnrunFor
  <2>13. CASE SendFile
    BY <1>0, <1>b, <1>c, <1>d, <2>13 DEF SendFile, UploadFails, WaitingFor, UnrunFor
  <2>14. CASE SendStop
    BY <1>0, <1>b, <1>c, <1>d, <2>14 DEF SendStop, WaitingFor, UnrunFor
  <2>15. CASE CleanJob
    BY <1>0, <1>b, <1>c, <1>d, <2>15, SMTT(30)
      DEF CleanJob, DbFails, FinalSaved, RemoveDataDir, SaveBuild, SaveUpload,
        WaitingFor
  <2>16. CASE FinishJob
    BY <1>0, <1>b, <1>c, <1>d, <2>16 DEF FinishJob, WorkerFree, WaitingFor, UnrunFor
  <2> QED BY <1>2, <2>1, <2>2, <2>3, <2>4, <2>5, <2>6, <2>7, <2>8, <2>9, <2>10, <2>11, <2>12,
      <2>13, <2>14, <2>15, <2>16 DEF Worker
<1>3. ASSUME NEW i \in Jobs, Build(i)
      PROVE  WaitingFor(j)'
  <2>1. CASE ParseResult(i)
    BY <1>0, <1>b, <1>c, <1>d, <2>1 DEF ParseResult, BuildReturns, WaitingFor, UnrunFor
  <2>2. CASE PrepareBuild(i) \/ CreateContainer(i) \/ StartContainer(i) \/ WaitContainer(i)
    BY <1>1, <2>2 DEF PrepareBuild, BuildReturns, CreateContainer, StartContainer,
        WaitContainer, Exited
  <2> QED BY <1>3, <2>1, <2>2 DEF Build
<1>4. ASSUME NEW i \in Jobs, WaitFails(i) \/ Updater(i) \/ ContainerExits(i) \/ ListJobs(i)
      PROVE  WaitingFor(j)'
  BY <1>1, <1>4 DEF Updater, WaitFails, BuildReturns, ContainerExits, ListJobs, UpdaterTop,
      UpdaterReadsState, UpdaterGetsLogs
<1>5. ASSUME NEW d \in Cancellers, CancelFindJob(d) \/ CancelStep(d)
      PROVE  WaitingFor(j)'
  <2>1. CASE CancelSetBuild(d)
    BY <1>0, <1>b, <1>c, <1>d, <2>1 DEF CancelSetBuild, CancelGoes, WaitingFor, UnrunFor
  <2>2. CASE CancelClean(d)
    <3>1. /\ \A i \in Jobs : i # cjob[d] => db'[i] = db[i]
          /\ \/ UNCHANGED db
             \/ /\ cpc[d] \in {"saveBuild", "saveBuild2"}
                /\ db'[cjob[d]].build = bState[cjob[d]]
                /\ db'[cjob[d]].upload = db[cjob[d]].upload
             \/ /\ cpc[d] \in {"saveUpload", "saveUpload2"}
                /\ db'[cjob[d]].upload = uState[cjob[d]]
                /\ db'[cjob[d]].build = db[cjob[d]].build
          /\ UNCHANGED <<queue, cur, wpc, bState, uState, buildRes>>
      BY <2>2, CleanSaves DEF IInv
    <3>2. UNCHANGED <<queue, cur, wpc, bState>> /\ dbErrs[j] \subseteq dbErrs'[j] BY <1>d, <3>1
    <3>3. db'[j].build = db[j].build \/ (db'[j].build = bState[j] /\ bState[j] # "Waiting")
      BY <1>0, <1>c, <3>1
    <3> QED BY <1>b, <3>2, <3>3 DEF WaitingFor
  <2>3. CASE CancelFindJob(d) \/ CancelSendStop(d) \/ CancelReadBuild(d) \/ CancelSendBuild(d)
          \/ CancelStop(d) \/ CancelReadUpload(d) \/ CancelSendUpload(d) \/ CancelSetUpload(d)
          \/ CancelFlag(d) \/ CancelRespond(d) \/ CancelDeleteRow(d)
    BY <1>1, <2>3 DEF CancelFindJob, CancelGoes, CancelSendStop, CancelReadBuild,
        CancelSendBuild, CancelStop, StopOutcomes, Live, CancelReadUpload, CancelSendUpload,
        CancelSetUpload, CancelFlag, CancelRespond, CancelDeleteRow
  <2> QED BY <1>5, <2>1, <2>2, <2>3 DEF CancelStep
<1>6. ASSUME NEW p \in Pausers, PauseCheck(p) \/ PauseStep(p)
      PROVE  WaitingFor(j)'
  <2>1. CASE PauseSet(p)
    BY <1>0, <1>b, <1>c, <1>d, <2>1 DEF PauseSet, WaitingFor, UnrunFor
  <2>2. CASE PauseCheck(p) \/ PauseDocker(p)
    BY <1>1, <2>2 DEF PauseCheck, PauseDocker, PauseFails
  <2> QED BY <1>6, <2>1, <2>2 DEF PauseStep
<1>7. CASE Crash
  BY <1>7, <1>0 DEF Crash
<1> QED BY <1>1, <1>2, <1>3, <1>4, <1>5, <1>6, <1>7 DEF Next, vars

\* Who sets a half of a job Running is the run, which does not end before it has
\* set another state, or a resume.
LEMMA RunningForStep ==
    ASSUME IInv, [Next]_vars, crashes' = 0, NEW j \in Jobs, EndFor(j), FinalSaved(j)'
    PROVE  RunningFor(j)'
<1>0. /\ queue \subseteq Jobs /\ row \in [Jobs -> BOOLEAN] /\ crashes \in Nat
      /\ (wpc # "idle" => cur \in queue) /\ (wpc = "idle" <=> cur = None)
      /\ bState \in [Jobs -> States] /\ uState \in [Jobs -> States]
      /\ db \in [Jobs -> [build : States, upload : States]]
      /\ cancelled \in [Jobs -> BOOLEAN] /\ bCancel \in [Jobs -> BOOLEAN]
      /\ cpc \in [Cancellers -> CancelPCs] /\ cjob \in [Cancellers -> Jobs \cup {None}]
      /\ dbErrs \in [Jobs -> SUBSET {"load", "built", "final"}]
      /\ EndFor(j)
  BY DEF IInv, QueueInv, TypeOK, WorkerTypeOK, JobTypeOK, OutsideTypeOK, RequestTypeOK
<1>b. RunningFor(j) /\ (PauseAsked => PauseAsked') BY <1>0, ReachedStays DEF EndFor, IInv
<1>c. \A p \in Pausers : ppc[p] # "idle" => PauseAsked
  BY DEF IInv, TypeOK, RequestTypeOK, PauseAsked
<1>d. buildRes \in [Jobs -> {"none", "ok", "err", "waitErr"}]
      /\ (wpc \in {"begin", "init"} => buildRes[cur] = "none")
      /\ \A k \in Jobs : gpc[k] # "none" => buildRes[k] = "none"
  BY DEF IInv, TypeOK, BuildTypeOK, BuildInv
<1> HIDE DEF PauseAsked
<1>1. UNCHANGED <<uState, db, bState, cur, wpc, buildRes>> => RunningFor(j)'
  BY <1>b DEF RunningFor
<1>2. CASE Worker
  <2>1. CASE PickJob
    BY <1>0, <1>b, <1>c, <1>d, <2>1 DEF PickJob, IsFirst, ItemExists, RunningFor, WorkerPCs
  <2>2. CASE BeginRun
    <3>1. /\ \A i \in Jobs : i # cur => db'[i] = db[i]
          /\ db'[cur].build \in {db[cur].build, bState[cur]}
          /\ db'[cur].upload \in {db[cur].upload, uState[cur]}
      BY <2>2, BeginSaves DEF IInv
    <3>2. /\ wpc = "begin" /\ wpc' = "init"
          /\ UNCHANGED <<queue, cur, row, bState, uState, dbErrs, buildRes, cjob, cpc>>
      BY <2>2 DEF BeginRun
    <3> QED BY <1>0, <1>b, <1>c, <1>d, <3>1, <3>2, SMTT(30) DEF RunningFor, WorkerPCs
  <2>3. CASE InitBuild
    BY <1>0, <1>b, <1>c, <1>d, <2>3 DEF InitBuild, RunningFor, WorkerPCs
  <2>4. CASE AwaitBuild
    BY <1>0, <1>b, <1>c, <1>d, <2>4 DEF AwaitBuild, BuildDone, RunningFor, WorkerPCs
  <2>5. CASE AwaitCancel
    BY <1>0, <1>b, <1>c, <1>d, <2>5 DEF AwaitCancel, RunningFor, WorkerPCs
  <2>6. CASE StopCancelledBuild
    BY <1>0, <1>b, <1>c, <1>d, <2>6 DEF StopCancelledBuild, StopOutcomes, Live, RunningFor,
        WorkerPCs
  <2>7. CASE ReturnCancelled
    BY <1>0, <1>b, <1>c, <1>d, <2>7 DEF ReturnCancelled, RunningFor, WorkerPCs
  <2>8. CASE FailJob
    BY <1>0, <1>b, <1>c, <1>d, <2>8 DEF FailJob, SetState, RunningFor, WorkerPCs
  <2>9. CASE SaveBuilt
    BY <1>0, <1>b, <1>c, <1>d, <2>9, SMTT(30) DEF SaveBuilt, SaveBuild, SaveUpload, RunningFor,
        WorkerPCs
  <2>10. CASE CheckCancelled
    BY <1>0, <1>b, <1>c, <1>d, <2>10 DEF CheckCancelled, IsCancelled, RunningFor, WorkerPCs
  <2>11. CASE BeginUpload
    BY <1>0, <1>b, <1>c, <1>d, <2>11 DEF BeginUpload, RunningFor, WorkerPCs
  <2>12. CASE OpenFile
    BY <1>0, <1>b, <1>c, <1>d, <2>12 DEF OpenFile, UploadFails, RunningFor, WorkerPCs
  <2>13. CASE SendFile
    BY <1>0, <1>b, <1>c, <1>d, <2>13 DEF SendFile, UploadFails, RunningFor, WorkerPCs
  <2>14. CASE SendStop
    BY <1>0, <1>b, <1>c, <1>d, <2>14 DEF SendStop, RunningFor, WorkerPCs
  <2>15. CASE CleanJob
    BY <1>0, <1>b, <1>c, <1>d, <2>15, SMTT(30)
      DEF CleanJob, DbFails, FinalSaved, RemoveDataDir, SaveBuild,
        SaveUpload, RunningFor, WorkerPCs
  <2>16. CASE FinishJob
    BY <1>0, <1>b, <1>c, <1>d, <2>16 DEF FinishJob, WorkerFree, RunningFor, WorkerPCs
  <2> QED BY <1>2, <2>1, <2>2, <2>3, <2>4, <2>5, <2>6, <2>7, <2>8, <2>9, <2>10, <2>11, <2>12,
      <2>13, <2>14, <2>15, <2>16 DEF Worker
<1>3. ASSUME NEW i \in Jobs, Build(i)
      PROVE  RunningFor(j)'
  <2>1. CASE PrepareBuild(i)
    BY <1>0, <1>b, <1>c, <1>d, <2>1 DEF PrepareBuild, BuildReturns, RunningFor, WorkerPCs
  <2>2. CASE CreateContainer(i)
    BY <1>0, <1>b, <1>c, <1>d, <2>2 DEF CreateContainer, BuildReturns, RunningFor, WorkerPCs
  <2>3. CASE StartContainer(i)
    BY <1>0, <1>b, <1>c, <1>d, <2>3 DEF StartContainer, BuildReturns, RunningFor, WorkerPCs
  <2>4. CASE WaitContainer(i)
    BY <1>0, <1>b, <1>c, <1>d, <2>4 DEF WaitContainer, BuildReturns, Exited, RunningFor,
        WorkerPCs
  <2>5. CASE ParseResult(i)
    BY <1>0, <1>b, <1>c, <1>d, <2>5 DEF ParseResult, BuildReturns, RunningFor, WorkerPCs
  <2> QED BY <1>3, <2>1, <2>2, <2>3, <2>4, <2>5 DEF Build
<1>4. ASSUME NEW i \in Jobs, WaitFails(i) \/ Updater(i) \/ ContainerExits(i) \/ ListJobs(i)
      PROVE  RunningFor(j)'
  <2>1. CASE WaitFails(i)
    BY <1>0, <1>b, <1>c, <1>d, <2>1 DEF WaitFails, BuildReturns, RunningFor, WorkerPCs
  <2>2. CASE ContainerExits(i) \/ ListJobs(i) \/ UpdaterTop(i) \/ UpdaterReadsState(i) \/
          UpdaterGetsLogs(i)
    BY <1>1, <2>2 DEF ContainerExits, ListJobs, UpdaterTop, UpdaterReadsState, UpdaterGetsLogs
  <2> QED BY <1>4, <2>1, <2>2 DEF Updater
<1>5. ASSUME NEW d \in Cancellers, CancelFindJob(d) \/ CancelStep(d)
      PROVE  RunningFor(j)'
  <2>1. CASE CancelSetBuild(d)
    BY <1>0, <1>b, <1>c, <1>d, <2>1 DEF CancelSetBuild, CancelGoes, RunningFor, WorkerPCs
  <2>2. CASE CancelSetUpload(d)
    BY <1>0, <1>b, <1>c, <1>d, <2>2 DEF CancelSetUpload, CancelGoes, RunningFor, WorkerPCs
  <2>3. CASE CancelClean(d)
    <3>1. /\ \A i \in Jobs : i # cjob[d] => db'[i] = db[i]
          /\ \/ UNCHANGED db
             \/ /\ cpc[d] \in {"saveBuild", "saveBuild2"}
                /\ db'[cjob[d]].build = bState[cjob[d]]
                /\ db'[cjob[d]].upload = db[cjob[d]].upload
             \/ /\ cpc[d] \in {"saveUpload", "saveUpload2"}
                /\ db'[cjob[d]].upload = uState[cjob[d]]
                /\ db'[cjob[d]].build = db[cjob[d]].build
          /\ UNCHANGED <<queue, cur, wpc, bState, uState, buildRes>>
      BY <2>3, CleanSaves DEF IInv
    <3> QED BY <1>0, <1>b, <1>c, <1>d, <3>1, SMTT(30) DEF RunningFor, WorkerPCs
  <2>4. CASE CancelFindJob(d) \/ CancelSendStop(d) \/ CancelReadBuild(d) \/ CancelSendBuild(d)
          \/ CancelStop(d) \/ CancelReadUpload(d) \/ CancelSendUpload(d) \/ CancelFlag(d) \/
          CancelRespond(d) \/ CancelDeleteRow(d)
    BY <1>1, <2>4 DEF CancelFindJob, CancelGoes, CancelSendStop, CancelReadBuild,
        CancelSendBuild, CancelStop, StopOutcomes, Live, CancelReadUpload, CancelSendUpload,
        CancelFlag, CancelRespond, CancelDeleteRow
  <2> QED BY <1>5, <2>1, <2>2, <2>3, <2>4 DEF CancelStep
<1>6. ASSUME NEW p \in Pausers, PauseCheck(p) \/ PauseStep(p)
      PROVE  RunningFor(j)'
  <2>1. CASE PauseSet(p)
    BY <1>0, <1>b, <1>c, <1>d, <2>1 DEF PauseSet, RunningFor, WorkerPCs
  <2>2. CASE PauseCheck(p) \/ PauseDocker(p)
    BY <1>1, <2>2 DEF PauseCheck, PauseDocker, PauseFails
  <2> QED BY <1>6, <2>1, <2>2 DEF PauseStep
<1>7. CASE Crash
  BY <1>7, <1>0 DEF Crash
<1> QED BY <1>1, <1>2, <1>3, <1>4, <1>5, <1>6, <1>7 DEF Next, vars

\* The upload of a job that is at its end waits only for a cancel, or because the
\* save between build and upload failed.
LEMMA UnsavedForStep ==
    ASSUME IInv, [Next]_vars, crashes' = 0, NEW j \in Jobs, EndFor(j), FinalSaved(j)'
    PROVE  UnsavedFor(j)'
<1>0. /\ queue \subseteq Jobs /\ row \in [Jobs -> BOOLEAN] /\ crashes \in Nat
      /\ (wpc # "idle" => cur \in queue) /\ (wpc = "idle" <=> cur = None)
      /\ bState \in [Jobs -> States] /\ uState \in [Jobs -> States]
      /\ db \in [Jobs -> [build : States, upload : States]]
      /\ cancelled \in [Jobs -> BOOLEAN] /\ bCancel \in [Jobs -> BOOLEAN]
      /\ cpc \in [Cancellers -> CancelPCs] /\ cjob \in [Cancellers -> Jobs \cup {None}]
      /\ dbErrs \in [Jobs -> SUBSET {"load", "built", "final"}]
      /\ EndFor(j)
  BY DEF IInv, QueueInv, TypeOK, WorkerTypeOK, JobTypeOK, OutsideTypeOK, RequestTypeOK
<1>b. /\ UnsavedFor(j) /\ CancelFor(j) /\ CancelledBy(j) /\ UnrunFor(j)
      /\ dbErrs[j] \subseteq dbErrs'[j]
      /\ PauseAsked => PauseAsked'
      /\ Reached(j, TokenSent) => Reached(j, TokenSent)'
  BY <1>0, ReachedStays, ErrsGrow DEF EndFor, IInv
<1>c. /\ \A p \in Pausers : ppc[p] # "idle" => PauseAsked
      /\ \A d \in Cancellers : cjob[d] = j /\ cpc[d] \in TokenSent => Reached(j, TokenSent)
  BY DEF IInv, TypeOK, RequestTypeOK, PauseAsked, Reached
<1>d. buildRes \in [Jobs -> {"none", "ok", "err", "waitErr"}]
      /\ (wpc \in {"begin", "init"} => buildRes[cur] = "none")
      /\ \A k \in Jobs : gpc[k] # "none" => buildRes[k] = "none"
  BY DEF IInv, TypeOK, BuildTypeOK, BuildInv
<1>e. /\ cancelled[j] => uState[j] # "Waiting"
      /\ Reached(j, {"done"}) => db[j].upload # "Waiting"
  BY <1>b, ReachedEarlier DEF CancelFor, CancelledBy
<1> HIDE DEF PauseAsked, Reached
<1>1. UNCHANGED <<uState, db, dbErrs, bState, cur, wpc, buildRes, queue>> => UnsavedFor(j)'
  BY <1>b DEF UnsavedFor, Built, HalfBuilt
<1>2. CASE Worker
  <2>1. CASE PickJob
    BY <1>0, <1>b, <1>e, <2>1
      DEF PickJob, DbFails, FinalSaved, ItemExists, CancelledBy, UnsavedFor, Built, HalfBuilt
  <2>2. CASE BeginRun
    <3>1. /\ \A i \in Jobs : i # cur => db'[i] = db[i]
          /\ db'[cur].build \in {db[cur].build, bState[cur]}
          /\ db'[cur].upload \in {db[cur].upload, uState[cur]}
      BY <2>2, BeginSaves DEF IInv
    <3>2. /\ wpc = "begin" /\ wpc' = "init"
          /\ UNCHANGED <<queue, cur, row, bState, uState, dbErrs, buildRes, cjob, cpc>>
      BY <2>2 DEF BeginRun
    <3>3. CASE j = cur
      <4>1. cur \in queue BY <1>0, <3>2
      <4> QED BY <1>0, <1>b, <1>c, <1>d, <1>e, <3>1, <3>2, <3>3, <4>1, SMTT(30)
                DEF UnsavedFor, Built, HalfBuilt
    <3>4. CASE j # cur
      <4>1. db'[j] = db[j] BY <3>1, <3>4
      <4> QED BY <1>0, <1>b, <1>c, <1>d, <1>e, <3>2, <3>4, <4>1, SMTT(30)
                DEF UnsavedFor, Built, HalfBuilt
    <3> QED BY <3>3, <3>4
  <2>3. CASE InitBuild
    BY <1>0, <1>b, <1>c, <1>d, <1>e, <2>3 DEF InitBuild, UnsavedFor, Built, HalfBuilt
  <2>4. CASE AwaitBuild
    BY <1>0, <1>b, <1>c, <1>d, <1>e, <2>4 DEF AwaitBuild, BuildDone, UnsavedFor, Built,
        HalfBuilt
  <2>5. CASE AwaitCancel
    BY <1>0, <1>b, <2>5 DEF AwaitCancel, UnsavedFor, Built, HalfBuilt, CancelledBy
  <2>6. CASE StopCancelledBuild
    BY <1>0, <1>b, <1>c, <1>d, <1>e, <2>6 DEF StopCancelledBuild, StopOutcomes, Live,
        UnsavedFor, Built, HalfBuilt
  <2>7. CASE ReturnCancelled
    BY <1>0, <1>b, <2>7 DEF ReturnCancelled, UnsavedFor, Built, HalfBuilt, CancelledBy
  <2>8. CASE FailJob
    BY <1>0, <1>b, <1>c, <1>d, <1>e, <2>8 DEF FailJob, SetState, UnsavedFor, Built, HalfBuilt
  <2>9. CASE SaveBuilt
    BY <1>0, <1>b, <1>c, <1>d, <1>e, <2>9, SMTT(30)
      DEF SaveBuilt, DbFails, FinalSaved, SaveBuild, SaveUpload,
        UnsavedFor, Built, HalfBuilt
  <2>10. CASE CheckCancelled
    BY <1>0, <1>b, <1>c, <1>d, <1>e, <2>10 DEF CheckCancelled, IsCancelled, UnsavedFor, Built,
        HalfBuilt
  <2>11. CASE BeginUpload
    BY <1>0, <1>b, <1>c, <1>d, <1>e, <2>11 DEF BeginUpload, UnsavedFor, Built, HalfBuilt
  <2>12. CASE OpenFile
    BY <1>0, <1>b, <1>c, <1>d, <1>e, <2>12 DEF OpenFile, UploadFails, UnsavedFor, Built,
        HalfBuilt
  <2>13. CASE SendFile
    BY <1>0, <1>b, <1>c, <1>d, <1>e, <2>13 DEF SendFile, UploadFails, UnsavedFor, Built,
        HalfBuilt
  <2>14. CASE SendStop
    BY <1>0, <1>b, <1>c, <1>d, <1>e, <2>14 DEF SendStop, UnsavedFor, Built, HalfBuilt
  <2>15. CASE CleanJob
    BY <1>0, <1>b, <1>c, <1>d, <1>e, <2>15, SMTT(30)
      DEF CleanJob, DbFails, FinalSaved, RemoveDataDir, SaveBuild,
        SaveUpload, UnsavedFor, Built, HalfBuilt
  <2>16. CASE FinishJob
    BY <1>0, <1>b, <1>c, <1>d, <1>e, <2>16 DEF FinishJob, WorkerFree, UnsavedFor, Built,
        HalfBuilt
  <2> QED BY <1>2, <2>1, <2>2, <2>3, <2>4, <2>5, <2>6, <2>7, <2>8, <2>9, <2>10, <2>11, <2>12,
      <2>13, <2>14, <2>15, <2>16 DEF Worker
<1>3. ASSUME NEW i \in Jobs, Build(i)
      PROVE  UnsavedFor(j)'
  <2>1. CASE PrepareBuild(i)
    BY <1>0, <1>b, <1>c, <1>d, <1>e, <2>1 DEF PrepareBuild, BuildReturns, UnsavedFor, Built,
        HalfBuilt
  <2>2. CASE CreateContainer(i)
    BY <1>0, <1>b, <1>c, <1>d, <1>e, <2>2 DEF CreateContainer, BuildReturns, UnsavedFor, Built,
        HalfBuilt
  <2>3. CASE StartContainer(i)
    BY <1>0, <1>b, <1>c, <1>d, <1>e, <2>3 DEF StartContainer, BuildReturns, UnsavedFor, Built,
        HalfBuilt
  <2>4. CASE WaitContainer(i)
    BY <1>0, <1>b, <1>c, <1>d, <1>e, <2>4 DEF WaitContainer, BuildReturns, Exited, UnsavedFor,
        Built, HalfBuilt
  <2>5. CASE ParseResult(i)
    BY <1>0, <1>b, <1>c, <1>d, <1>e, <2>5 DEF ParseResult, BuildReturns, UnsavedFor, Built,
        HalfBuilt
  <2> QED BY <1>3, <2>1, <2>2, <2>3, <2>4, <2>5 DEF Build
<1>4. ASSUME NEW i \in Jobs, WaitFails(i) \/ Updater(i) \/ ContainerExits(i) \/ ListJobs(i)
      PROVE  UnsavedFor(j)'
  <2>1. CASE WaitFails(i)
    BY <1>0, <1>b, <1>c, <1>d, <1>e, <2>1 DEF WaitFails, BuildReturns, UnsavedFor, Built,
        HalfBuilt
  <2>2. CASE ContainerExits(i) \/ ListJobs(i) \/ UpdaterTop(i) \/ UpdaterReadsState(i) \/
          UpdaterGetsLogs(i)
    BY <1>1, <2>2 DEF ContainerExits, ListJobs, UpdaterTop, UpdaterReadsState, UpdaterGetsLogs
  <2> QED BY <1>4, <2>1, <2>2 DEF Updater
<1>5. ASSUME NEW d \in Cancellers, CancelFindJob(d) \/ CancelStep(d)
      PROVE  UnsavedFor(j)'
  <2>1. CASE CancelSetBuild(d)
    BY <1>0, <1>b, <1>c, <2>1 DEF CancelSetBuild, CancelGoes, UnsavedFor, Built, HalfBuilt,
        TokenSent, BuildSet, UploadSet, Flagged, BuildSaved, UploadSaved
  <2>2. CASE CancelSetUpload(d)
    BY <1>0, <1>b, <1>c, <1>d, <1>e, <2>2 DEF CancelSetUpload, CancelGoes, UnsavedFor, Built,
        HalfBuilt
  <2>3. CASE CancelClean(d)
    BY <1>0, <1>b, <1>c, <2>3
      DEF CancelClean, DbFails, FinalSaved, CancelGoes, RemoveDataDir, SaveBuild, SaveUpload,
        UnsavedFor, Built, HalfBuilt, TokenSent, BuildSet, UploadSet, Flagged, BuildSaved,
        UploadSaved
  <2>4. CASE CancelFindJob(d) \/ CancelSendStop(d) \/ CancelReadBuild(d) \/ CancelSendBuild(d)
          \/ CancelStop(d) \/ CancelReadUpload(d) \/ CancelSendUpload(d) \/ CancelFlag(d) \/
          CancelRespond(d) \/ CancelDeleteRow(d)
    BY <1>1, <2>4 DEF CancelFindJob, CancelGoes, CancelSendStop, CancelReadBuild,
        CancelSendBuild, CancelStop, StopOutcomes, Live, CancelReadUpload, CancelSendUpload,
        CancelFlag, CancelRespond, CancelDeleteRow
  <2> QED BY <1>5, <2>1, <2>2, <2>3, <2>4 DEF CancelStep
<1>6. ASSUME NEW p \in Pausers, PauseCheck(p) \/ PauseStep(p)
      PROVE  UnsavedFor(j)'
  <2>1. CASE PauseSet(p)
    BY <1>0, <1>b, <1>c, <1>d, <1>e, <2>1 DEF PauseSet, UnsavedFor, Built, HalfBuilt
  <2>2. CASE PauseCheck(p) \/ PauseDocker(p)
    BY <1>1, <2>2 DEF PauseCheck, PauseDocker, PauseFails
  <2> QED BY <1>6, <2>1, <2>2 DEF PauseStep
<1>7. CASE Crash
  BY <1>7, <1>0 DEF Crash
<1> QED BY <1>1, <1>2, <1>3, <1>4, <1>5, <1>6, <1>7 DEF Next, vars

\* A step counts a crash only when it is one.
OnlyCrashes == UNCHANGED crashes \/ (Crash /\ crashes' = crashes + 1)

\* No other step writes the counter.
LEMMA CrashesGrow == ASSUME IInv, [Next]_vars PROVE OnlyCrashes
<1>0. crashes \in Nat BY DEF IInv, TypeOK, RequestTypeOK
<1>1. UNCHANGED crashes => OnlyCrashes BY DEF OnlyCrashes
<1>2. CASE Worker
  BY <1>1, <1>2 DEF Worker, PickJob, IsFirst, ItemExists, BeginRun, InitBuild, AwaitBuild,
      BuildDone, AwaitCancel, StopCancelledBuild, StopOutcomes, Live, ReturnCancelled, FailJob,
      SetState, SaveBuilt, SaveBuild, SaveUpload, CheckCancelled, IsCancelled, BeginUpload,
      OpenFile, UploadFails, SendFile, SendStop, CleanJob, RemoveDataDir, FinishJob, WorkerFree
<1>3. ASSUME NEW i \in Jobs, Build(i)
      PROVE  OnlyCrashes
  BY <1>1, <1>3 DEF Build, PrepareBuild, BuildReturns, CreateContainer, StartContainer,
      WaitContainer, Exited, ParseResult
<1>4. ASSUME NEW i \in Jobs, WaitFails(i) \/ Updater(i) \/ ContainerExits(i) \/ ListJobs(i)
      PROVE  OnlyCrashes
  BY <1>1, <1>4 DEF Updater, WaitFails, BuildReturns, ContainerExits, ListJobs, UpdaterTop,
      UpdaterReadsState, UpdaterGetsLogs
<1>5. ASSUME NEW d \in Cancellers, CancelFindJob(d) \/ CancelStep(d)
      PROVE  OnlyCrashes
  BY <1>1, <1>5 DEF CancelStep, CancelFindJob, CancelGoes, CancelSendStop, CancelReadBuild,
      CancelSendBuild, CancelStop, StopOutcomes, Live, CancelSetBuild, CancelReadUpload,
      CancelSendUpload, CancelSetUpload, CancelFlag, CancelClean, RemoveDataDir, SaveBuild,
      SaveUpload, CancelRespond, CancelDeleteRow
<1>6. ASSUME NEW p \in Pausers, PauseCheck(p) \/ PauseStep(p)
      PROVE  OnlyCrashes
  BY <1>1, <1>6 DEF PauseStep, PauseCheck, PauseDocker, PauseFails, PauseSet
<1>7. CASE Crash
  BY <1>7 DEF Crash, OnlyCrashes
<1> QED BY <1>1, <1>2, <1>3, <1>4, <1>5, <1>6, <1>7 DEF Next, vars

\* At the start every job waits, and there is no request.
LEMMA EndInit == Init => EndInv
<1> SUFFICES ASSUME Init, NEW j \in Jobs PROVE EndFor(j) BY DEF EndInv
<1> USE DEF Init
<1>1. \A S : "idle" \notin S => ~Reached(j, S) BY DEF Reached
<1>2. CancelFor(j) /\ CancelledBy(j)
  BY <1>1 DEF CancelFor, CancelledBy, BuildSet, UploadSet, Flagged, BuildSaved, UploadSaved,
      TokenSent
<1>3. UnrunFor(j) /\ WaitingFor(j) /\ RunningFor(j) /\ UnsavedFor(j)
  BY DEF UnrunFor, WaitingFor, RunningFor, UnsavedFor
<1> QED BY <1>2, <1>3 DEF EndFor

\* Where a job that has left the queue got its rows' states from.
LEMMA EndInvariance == Spec => [](IInv /\ EndInv)
<1>1. IInv /\ EndInv /\ [Next]_vars => EndInv'
  <2> SUFFICES ASSUME IInv, EndInv, [Next]_vars, crashes' = 0, NEW j \in Jobs, FinalSaved(j)'
               PROVE  EndFor(j)'
    BY DEF EndInv
  <2>1. crashes = 0 BY CrashesGrow DEF OnlyCrashes, IInv, TypeOK, RequestTypeOK
  <2>2. FinalSaved(j) BY ErrsGrow DEF IInv, FinalSaved
  <2>3. EndFor(j) BY <2>1, <2>2 DEF EndInv
  <2> QED BY <2>3, CancelForStep, CancelledByStep, UnrunForStep, WaitingForStep, RunningForStep,
             UnsavedForStep
          DEF EndFor
<1> QED BY <1>1, EndInit, Invariance, PTL DEF Spec

(***************************************************************************)
(* The jobs that have ended                                                *)
(***************************************************************************)

\* The end of Job.Run and the handler of a cancel (JobHandler.go, cancelJob) save
\* states with which GetOldJobs (JobService.go) lists the job: however they and
\* the pause requests interleave, the exceptions are those of UnlistedHasACause.
THEOREM UnlistedCorrect == Spec => []UnlistedHasACause
<1>1. IInv /\ EndInv => UnlistedHasACause
  <2> SUFFICES ASSUME IInv, EndInv, crashes = 0, NEW j \in Jobs, j \notin queue, Quiet(j),
                      ~Listed(db[j]), "final" \notin dbErrs[j],
                      ~(db[j].build = "Running" /\ PauseAsked)
               PROVE  \/ /\ "load" \in dbErrs[j]
                         /\ db[j] = [build |-> "Waiting", upload |-> "Waiting"]
                      \/ /\ "built" \in dbErrs[j] /\ db[j].upload = "Waiting"
                         /\ db[j].build = "Done" \/ (db[j].build = "Paused" /\ PauseAsked)
    BY Zenon DEF UnlistedHasACause
  <2>1. EndFor(j) BY DEF EndInv, FinalSaved
  <2>2. wpc # "idle" => cur \in queue BY DEF IInv, QueueInv
  <2>3. db[j].build # "Running" /\ db[j].upload # "Running"
    BY <2>1, <2>2 DEF EndFor, RunningFor, WorkerPCs
  <2>4. ~Reached(j, TokenSent)
    <3> SUFFICES ASSUME Reached(j, TokenSent) PROVE Listed(db[j]) OBVIOUS
    <3>1. Reached(j, {"done"})
      BY DEF Reached, Quiet, TokenSent, BuildSet, UploadSet, Flagged, BuildSaved, UploadSaved
    <3>2. db[j].build # "Waiting" /\ db[j].upload # "Waiting"
      BY <3>1, <2>1, ReachedEarlier DEF EndFor, CancelFor
    <3> QED BY <3>2, <2>3 DEF Listed
  <2>5. CASE "load" \in dbErrs[j]
    BY <2>1, <2>4, <2>5 DEF EndFor, UnrunFor, Unrun
  <2>6. CASE "load" \notin dbErrs[j]
    <3>1. db[j].build # "Waiting" BY <2>1, <2>2, <2>6 DEF EndFor, WaitingFor
    <3>2. db[j].upload = "Waiting" BY <3>1, <2>3 DEF Listed
    <3> QED BY <2>1, <2>4, <2>6, <2>3, <3>1, <3>2 DEF EndFor, UnsavedFor, HalfBuilt, Built
  <2> QED BY <2>5, <2>6
<1> QED BY <1>1, EndInvariance, PTL

(***************************************************************************)
(* Pause and resume                                                        *)
(***************************************************************************)

\* A queued job whose build has not been spawned by this process.
Fresh(j) == j \in queue /\ (cur = j => wpc \in {"begin", "init"})

\* It has no container ID, so that no pause or resume of it is under way.
FreshFor(j) ==
    Fresh(j) =>
        /\ ~containerId[j]
        /\ \A p \in Pausers : pjob[p] = j => ppc[p] = "idle"
        /\ crashes = 0 => cont[j] = "none"

\* Only the build goroutine sets the container ID.
LEMMA FreshForStep ==
    ASSUME IInv, [Next]_vars, NEW j \in Jobs, FreshFor(j) PROVE FreshFor(j)'
<1>0. /\ queue \subseteq Jobs /\ (wpc # "idle" => cur \in queue) /\ (wpc = "idle" <=> cur = None)
      /\ (wpc \in {"begin", "init"} => gpc[cur] = "none")
      /\ \A i \in queue : i # cur => gpc[i] = "none"
      /\ crashes \in Nat /\ cpc \in [Cancellers -> CancelPCs]
      /\ containerId \in [Jobs -> BOOLEAN]
      /\ gpc \in [Jobs -> {"none", "prepare", "create", "start", "wait", "parse"}]
      /\ cont \in [Jobs -> {"none", "created", "running", "paused", "exit0", "exit1"}]
      /\ ppc \in [Pausers -> {"idle", "docker", "set"}] /\ pjob \in [Pausers -> Jobs \cup {None}]
      /\ \A c \in Cancellers : cpc[c] # "idle" => cjob[c] \in Jobs
      /\ \A p \in Pausers : ppc[p] # "idle" => pjob[p] \in Jobs
      /\ FreshFor(j)
  BY DEF IInv, QueueInv, BuildInv, TypeOK, WorkerTypeOK, BuildTypeOK, OutsideTypeOK, RequestTypeOK
<1>1. UNCHANGED <<queue, cur, wpc, containerId, pjob, ppc, cont, crashes>> => FreshFor(j)'
  BY <1>0 DEF FreshFor, Fresh
<1>2. CASE Worker
  <2>1. CASE PickJob
    BY <1>0, <2>1 DEF PickJob, IsFirst, ItemExists, FreshFor, Fresh
  <2>2. CASE BeginRun
    BY <1>0, <2>2 DEF BeginRun, FreshFor, Fresh
  <2>3. CASE InitBuild
    BY <1>0, <2>3 DEF InitBuild, FreshFor, Fresh
  <2>4. CASE AwaitBuild
    BY <1>0, <2>4 DEF AwaitBuild, BuildDone, FreshFor, Fresh
  <2>5. CASE AwaitCancel
    BY <1>0, <2>5 DEF AwaitCancel, FreshFor, Fresh
  <2>6. CASE StopCancelledBuild
    BY <1>0, <2>6 DEF StopCancelledBuild, StopOutcomes, Live, FreshFor, Fresh
  <2>7. CASE ReturnCancelled
    BY <1>0, <2>7 DEF ReturnCancelled, FreshFor, Fresh
  <2>8. CASE FailJob
    BY <1>0, <2>8 DEF FailJob, SetState, FreshFor, Fresh
  <2>9. CASE SaveBuilt
    BY <1>0, <2>9, SMTT(30) DEF SaveBuilt, SaveBuild, SaveUpload, FreshFor, Fresh
  <2>10. CASE CheckCancelled
    BY <1>0, <2>10 DEF CheckCancelled, IsCancelled, FreshFor, Fresh
  <2>11. CASE BeginUpload
    BY <1>0, <2>11 DEF BeginUpload, FreshFor, Fresh
  <2>12. CASE OpenFile
    BY <1>0, <2>12 DEF OpenFile, UploadFails, FreshFor, Fresh
  <2>13. CASE SendFile
    BY <1>0, <2>13 DEF SendFile, UploadFails, FreshFor, Fresh
  <2>14. CASE SendStop
    BY <1>0, <2>14 DEF SendStop, FreshFor, Fresh
  <2>15. CASE CleanJob
    BY <1>0, <2>15, SMTT(30) DEF CleanJob, RemoveDataDir, SaveBuild, SaveUpload, FreshFor, Fresh
  <2>16. CASE FinishJob
    BY <1>0, <2>16 DEF FinishJob, WorkerFree, FreshFor, Fresh
  <2> QED BY <1>2, <2>1, <2>2, <2>3, <2>4, <2>5, <2>6, <2>7, <2>8, <2>9, <2>10, <2>11, <2>12,
      <2>13, <2>14, <2>15, <2>16 DEF Worker
<1>3. ASSUME NEW i \in Jobs, Build(i)
      PROVE  FreshFor(j)'
  <2>1. CASE CreateContainer(i)
    BY <1>0, <2>1 DEF CreateContainer, BuildReturns, FreshFor, Fresh
  <2>2. CASE StartContainer(i)
    BY <1>0, <2>2 DEF StartContainer, BuildReturns, FreshFor, Fresh
  <2>3. CASE WaitContainer(i)
    BY <1>0, <2>3 DEF WaitContainer, BuildReturns, Exited, FreshFor, Fresh
  <2>4. CASE PrepareBuild(i) \/ ParseResult(i)
    BY <1>1, <2>4 DEF PrepareBuild, BuildReturns, ParseResult
  <2> QED BY <1>3, <2>1, <2>2, <2>3, <2>4 DEF Build
<1>4. ASSUME NEW i \in Jobs, WaitFails(i) \/ Updater(i) \/ ContainerExits(i) \/ ListJobs(i)
      PROVE  FreshFor(j)'
  <2>1. CASE ContainerExits(i)
    BY <1>0, <2>1 DEF ContainerExits, FreshFor, Fresh
  <2>2. CASE WaitFails(i) \/ ListJobs(i) \/ UpdaterTop(i) \/ UpdaterReadsState(i) \/
          UpdaterGetsLogs(i)
    BY <1>1, <2>2 DEF WaitFails, BuildReturns, ListJobs, UpdaterTop, UpdaterReadsState,
        UpdaterGetsLogs
  <2> QED BY <1>4, <2>1, <2>2 DEF Updater
<1>5. ASSUME NEW d \in Cancellers, CancelFindJob(d) \/ CancelStep(d)
      PROVE  FreshFor(j)'
  <2>1. CASE CancelStop(d)
    BY <1>0, <2>1 DEF CancelStop, CancelGoes, StopOutcomes, Live, FreshFor, Fresh
  <2>2. CASE CancelFindJob(d) \/ CancelSendStop(d) \/ CancelReadBuild(d) \/ CancelSendBuild(d)
          \/ CancelSetBuild(d) \/ CancelReadUpload(d) \/ CancelSendUpload(d) \/
          CancelSetUpload(d) \/ CancelFlag(d) \/ CancelClean(d) \/ CancelRespond(d) \/
          CancelDeleteRow(d)
    BY <1>1, <2>2 DEF CancelFindJob, CancelGoes, CancelSendStop, CancelReadBuild,
        CancelSendBuild, CancelSetBuild, CancelReadUpload, CancelSendUpload, CancelSetUpload,
        CancelFlag, CancelClean, RemoveDataDir, SaveBuild, SaveUpload, CancelRespond,
        CancelDeleteRow
  <2> QED BY <1>5, <2>1, <2>2 DEF CancelStep
<1>6. ASSUME NEW p \in Pausers, PauseCheck(p) \/ PauseStep(p)
      PROVE  FreshFor(j)'
  <2>1. CASE PauseCheck(p)
    BY <1>0, <2>1 DEF PauseCheck, FreshFor, Fresh
  <2>2. CASE PauseDocker(p)
    BY <1>0, <2>2 DEF PauseDocker, PauseFails, FreshFor, Fresh
  <2>3. CASE PauseSet(p)
    BY <1>0, <2>3 DEF PauseSet, FreshFor, Fresh
  <2> QED BY <1>6, <2>1, <2>2, <2>3 DEF PauseStep
<1>7. CASE Crash
  BY <1>0, <1>7 DEF Crash, FreshFor, Fresh
<1> QED BY <1>1, <1>2, <1>3, <1>4, <1>5, <1>6, <1>7 DEF Next, vars

\* The server stays up, no job was cancelled, and one client at most pauses.
Alone ==
    /\ crashes = 0 /\ \A c \in Cancellers : cpc[c] = "idle"
    /\ \A p, q \in Pausers : pjob[p] # None /\ pjob[q] # None => p = q

Asks(p, j) == pjob[p] = j /\ ppc[p] # "idle"

\* While a build is awaited, the state follows the container: a request has checked
\* the state, then docker has changed the container, then it sets the state.
PauseFor(j) ==
    cur = j /\ wpc = "await" /\ buildRes[j] = "none" =>
        /\ bState[j] \in {"Running", "Paused"}
        /\ gpc[j] \in {"prepare", "create"} =>
            bState[j] = "Running" /\ ~containerId[j] /\ cont[j] = "none"
            /\ \A p \in Pausers : ~Asks(p, j)
        /\ gpc[j] = "start" =>
            bState[j] = "Running" /\ cont[j] = "created"
            /\ \A p \in Pausers : Asks(p, j) => ppc[p] = "docker"
        /\ \A p \in Pausers : Asks(p, j) => (bState[j] = "Paused" <=> pop[p] = "resume")
        /\ \A p \in Pausers : Asks(p, j) /\ ppc[p] = "set" =>
            (cont[j] = "paused" <=> pop[p] = "pause")
        /\ (\A p \in Pausers : Asks(p, j) => ppc[p] # "set") =>
            (bState[j] = "Paused" <=> cont[j] = "paused")

PauseInv == (\A j \in Jobs : FreshFor(j)) /\ (Alone => \A j \in Jobs : PauseFor(j))

\* No request is forgotten, not even by a crash.
LEMMA AloneBefore == ASSUME IInv, [Next]_vars, Alone' PROVE Alone
<1>0. /\ crashes \in Nat /\ cpc \in [Cancellers -> CancelPCs]
      /\ cjob \in [Cancellers -> Jobs \cup {None}]
      /\ pjob \in [Pausers -> Jobs \cup {None}] /\ queue \subseteq Jobs /\ None \notin Jobs
      /\ crashes' = 0 /\ \A c \in Cancellers : cpc'[c] = "idle"
      /\ \A p, q \in Pausers : pjob'[p] # None /\ pjob'[q] # None => p = q
  BY DEF IInv, TypeOK, WorkerTypeOK, RequestTypeOK, Alone
<1>1. UNCHANGED <<crashes, cpc, pjob>> => Alone BY <1>0 DEF Alone
<1>2. CASE Worker
  BY <1>1, <1>2 DEF Worker, PickJob, IsFirst, ItemExists, BeginRun, InitBuild, AwaitBuild,
      BuildDone, AwaitCancel, StopCancelledBuild, StopOutcomes, Live, ReturnCancelled, FailJob,
      SetState, SaveBuilt, SaveBuild, SaveUpload, CheckCancelled, IsCancelled, BeginUpload,
      OpenFile, UploadFails, SendFile, SendStop, CleanJob, RemoveDataDir, FinishJob, WorkerFree
<1>3. ASSUME NEW i \in Jobs, Build(i)
      PROVE  Alone
  BY <1>1, <1>3 DEF Build, PrepareBuild, BuildReturns, CreateContainer, StartContainer,
      WaitContainer, Exited, ParseResult
<1>4. ASSUME NEW i \in Jobs, WaitFails(i) \/ Updater(i) \/ ContainerExits(i) \/ ListJobs(i)
      PROVE  Alone
  BY <1>1, <1>4 DEF Updater, WaitFails, BuildReturns, ContainerExits, ListJobs, UpdaterTop,
      UpdaterReadsState, UpdaterGetsLogs
<1>5. ASSUME NEW d \in Cancellers, CancelFindJob(d) \/ CancelStep(d)
      PROVE  Alone
  <2>1. CASE CancelFindJob(d)
    BY <1>0, <2>1 DEF CancelFindJob, CancelGoes, Alone, CancelPCs
  <2>2. CASE CancelSendStop(d)
    BY <1>0, <2>2 DEF CancelSendStop, CancelGoes, Alone, CancelPCs
  <2>3. CASE CancelReadBuild(d)
    BY <1>0, <2>3 DEF CancelReadBuild, CancelGoes, Alone, CancelPCs
  <2>4. CASE CancelSendBuild(d)
    BY <1>0, <2>4 DEF CancelSendBuild, CancelGoes, Alone, CancelPCs
  <2>5. CASE CancelStop(d)
    BY <1>0, <2>5 DEF CancelStop, CancelGoes, StopOutcomes, Live, Alone, CancelPCs
  <2>6. CASE CancelSetBuild(d)
    BY <1>0, <2>6 DEF CancelSetBuild, CancelGoes, Alone, CancelPCs
  <2>7. CASE CancelReadUpload(d)
    BY <1>0, <2>7 DEF CancelReadUpload, CancelGoes, Alone, CancelPCs
  <2>8. CASE CancelSendUpload(d)
    BY <1>0, <2>8 DEF CancelSendUpload, CancelGoes, Alone, CancelPCs
  <2>9. CASE CancelSetUpload(d)
    BY <1>0, <2>9 DEF CancelSetUpload, CancelGoes, Alone, CancelPCs
  <2>10. CASE CancelFlag(d)
    BY <1>0, <2>10 DEF CancelFlag, CancelGoes, Alone, CancelPCs
  <2>11. CASE CancelClean(d)
    BY <1>0, <2>11, SMTT(30) DEF CancelClean, CancelGoes, RemoveDataDir, SaveBuild, SaveUpload,
        Alone, CancelPCs
  <2>12. CASE CancelRespond(d)
    BY <1>0, <2>12 DEF CancelRespond, CancelGoes, Alone, CancelPCs
  <2>13. CASE CancelDeleteRow(d)
    BY <1>0, <2>13 DEF CancelDeleteRow, CancelGoes, Alone, CancelPCs
  <2> QED BY <1>5, <2>1, <2>2, <2>3, <2>4, <2>5, <2>6, <2>7, <2>8, <2>9, <2>10, <2>11, <2>12,
      <2>13 DEF CancelStep
<1>6. ASSUME NEW p \in Pausers, PauseCheck(p) \/ PauseStep(p)
      PROVE  Alone
  <2>1. CASE PauseCheck(p)
    BY <1>0, <2>1 DEF PauseCheck, Alone, CancelPCs
  <2>2. CASE PauseDocker(p) \/ PauseSet(p)
    BY <1>1, <2>2 DEF PauseDocker, PauseFails, PauseSet
  <2> QED BY <1>6, <2>1, <2>2 DEF PauseStep
<1>7. CASE Crash
  BY <1>7, <1>0 DEF Crash
<1> QED BY <1>1, <1>2, <1>3, <1>4, <1>5, <1>6, <1>7 DEF Next, vars

\* The build goroutine, docker and the client keep state and container together.
LEMMA PauseForStep ==
    ASSUME IInv, [Next]_vars, Alone, Alone', NEW j \in Jobs, FreshFor(j), PauseFor(j)
    PROVE  PauseFor(j)'
<1>0. /\ queue \subseteq Jobs /\ (wpc # "idle" => cur \in queue) /\ (wpc = "idle" <=> cur = None)
      /\ crashes \in Nat /\ crashes' = 0
      /\ \A c \in Cancellers : cpc[c] = "idle" /\ cpc'[c] = "idle"
      /\ cpc \in [Cancellers -> CancelPCs]
      /\ bState \in [Jobs -> States] /\ containerId \in [Jobs -> BOOLEAN]
      /\ buildRes \in [Jobs -> {"none", "ok", "err", "waitErr"}]
      /\ gpc \in [Jobs -> {"none", "prepare", "create", "start", "wait", "parse"}]
      /\ cont \in [Jobs -> {"none", "created", "running", "paused", "exit0", "exit1"}]
      /\ ppc \in [Pausers -> {"idle", "docker", "set"}] /\ pjob \in [Pausers -> Jobs \cup {None}]
      /\ pop \in [Pausers -> {"pause", "resume"}]
      /\ \A p \in Pausers : ppc[p] # "idle" => pjob[p] \in Jobs
      /\ None \notin Jobs
      /\ FreshFor(j) /\ PauseFor(j)
  BY DEF IInv, QueueInv, TypeOK, WorkerTypeOK, JobTypeOK, BuildTypeOK, OutsideTypeOK,
      RequestTypeOK, Alone
<1>a. \A p, q \in Pausers : pjob[p] # None /\ pjob[q] # None => p = q BY DEF Alone
<1>b. \A p, q \in Pausers : pjob'[p] # None /\ pjob'[q] # None => p = q BY DEF Alone
<1>1. UNCHANGED <<cur, wpc, buildRes, gpc, containerId, cont, bState, ppc, pjob, pop>>
        => PauseFor(j)'
  BY <1>0 DEF PauseFor, Asks
<1>2. CASE Worker
  <2>1. CASE PickJob
    BY <1>0, <1>a, <1>b, <2>1 DEF PickJob, IsFirst, ItemExists, PauseFor, Asks
  <2>2. CASE BeginRun
    BY <1>0, <1>a, <1>b, <2>2 DEF BeginRun, PauseFor, Asks
  <2>3. CASE InitBuild
    BY <1>0, <2>3 DEF InitBuild, PauseFor, Asks, FreshFor, Fresh
  <2>4. CASE AwaitBuild
    BY <1>0, <1>a, <1>b, <2>4 DEF AwaitBuild, BuildDone, PauseFor, Asks
  <2>5. CASE AwaitCancel
    BY <1>0, <1>a, <1>b, <2>5 DEF AwaitCancel, PauseFor, Asks
  <2>6. CASE StopCancelledBuild
    BY <1>0, <1>a, <1>b, <2>6 DEF StopCancelledBuild, StopOutcomes, Live, PauseFor, Asks
  <2>7. CASE ReturnCancelled
    BY <1>0, <1>a, <1>b, <2>7 DEF ReturnCancelled, PauseFor, Asks
  <2>8. CASE FailJob
    BY <1>0, <1>a, <1>b, <2>8 DEF FailJob, SetState, PauseFor, Asks
  <2>9. CASE SaveBuilt
    BY <1>0, <1>a, <1>b, <2>9, SMTT(30) DEF SaveBuilt, SaveBuild, SaveUpload, PauseFor, Asks
  <2>10. CASE CheckCancelled
    BY <1>0, <1>a, <1>b, <2>10 DEF CheckCancelled, IsCancelled, PauseFor, Asks
  <2>11. CASE BeginUpload
    BY <1>0, <1>a, <1>b, <2>11 DEF BeginUpload, PauseFor, Asks
  <2>12. CASE OpenFile
    BY <1>0, <1>a, <1>b, <2>12 DEF OpenFile, UploadFails, PauseFor, Asks
  <2>13. CASE SendFile
    BY <1>0, <1>a, <1>b, <2>13 DEF SendFile, UploadFails, PauseFor, Asks
  <2>14. CASE SendStop
    BY <1>0, <1>a, <1>b, <2>14 DEF SendStop, PauseFor, Asks
  <2>15. CASE CleanJob
    BY <1>0, <1>a, <1>b, <2>15, SMTT(30) DEF CleanJob, RemoveDataDir, SaveBuild, SaveUpload,
        PauseFor, Asks
  <2>16. CASE FinishJob
    BY <1>0, <1>a, <1>b, <2>16 DEF FinishJob, WorkerFree, PauseFor, Asks
  <2> QED BY <1>2, <2>1, <2>2, <2>3, <2>4, <2>5, <2>6, <2>7, <2>8, <2>9, <2>10, <2>11, <2>12,
      <2>13, <2>14, <2>15, <2>16 DEF Worker
<1>3. ASSUME NEW i \in Jobs, Build(i)
      PROVE  PauseFor(j)'
  <2>1. CASE PrepareBuild(i)
    BY <1>0, <1>a, <1>b, <2>1 DEF PrepareBuild, BuildReturns, PauseFor, Asks
  <2>2. CASE CreateContainer(i)
    BY <1>0, <1>a, <1>b, <2>2 DEF CreateContainer, BuildReturns, PauseFor, Asks
  <2>3. CASE StartContainer(i)
    BY <1>0, <1>a, <1>b, <2>3 DEF StartContainer, BuildReturns, PauseFor, Asks
  <2>4. CASE WaitContainer(i)
    BY <1>0, <1>a, <1>b, <2>4 DEF WaitContainer, BuildReturns, Exited, PauseFor, Asks
  <2>5. CASE ParseResult(i)
    BY <1>0, <1>a, <1>b, <2>5 DEF ParseResult, BuildReturns, PauseFor, Asks
  <2> QED BY <1>3, <2>1, <2>2, <2>3, <2>4, <2>5 DEF Build
<1>4. ASSUME NEW i \in Jobs, WaitFails(i) \/ Updater(i) \/ ContainerExits(i) \/ ListJobs(i)
      PROVE  PauseFor(j)'
  <2>1. CASE WaitFails(i)
    BY <1>0, <1>a, <1>b, <2>1 DEF WaitFails, BuildReturns, PauseFor, Asks
  <2>2. CASE ContainerExits(i)
    BY <1>0, <1>a, <1>b, <2>2 DEF ContainerExits, PauseFor, Asks
  <2>3. CASE ListJobs(i) \/ UpdaterTop(i) \/ UpdaterReadsState(i) \/ UpdaterGetsLogs(i)
    BY <1>1, <2>3 DEF ListJobs, UpdaterTop, UpdaterReadsState, UpdaterGetsLogs
  <2> QED BY <1>4, <2>1, <2>2, <2>3 DEF Updater
<1>5. ASSUME NEW d \in Cancellers, CancelFindJob(d) \/ CancelStep(d)
      PROVE  PauseFor(j)'
  <2>1. CASE CancelFindJob(d)
    BY <1>0, <1>a, <1>b, <2>1 DEF CancelFindJob, CancelGoes, PauseFor, Asks
  <2>2. CASE CancelSendStop(d)
    BY <1>0, <1>a, <1>b, <2>2 DEF CancelSendStop, CancelGoes, PauseFor, Asks
  <2>3. CASE CancelReadBuild(d)
    BY <1>0, <1>a, <1>b, <2>3 DEF CancelReadBuild, CancelGoes, PauseFor, Asks
  <2>4. CASE CancelSendBuild(d)
    BY <1>0, <1>a, <1>b, <2>4 DEF CancelSendBuild, CancelGoes, PauseFor, Asks
  <2>5. CASE CancelStop(d)
    BY <1>0, <1>a, <1>b, <2>5 DEF CancelStop, CancelGoes, StopOutcomes, Live, PauseFor, Asks
  <2>6. CASE CancelSetBuild(d)
    BY <1>0, <1>a, <1>b, <2>6 DEF CancelSetBuild, CancelGoes, PauseFor, Asks
  <2>7. CASE CancelReadUpload(d)
    BY <1>0, <1>a, <1>b, <2>7 DEF CancelReadUpload, CancelGoes, PauseFor, Asks
  <2>8. CASE CancelSendUpload(d)
    BY <1>0, <1>a, <1>b, <2>8 DEF CancelSendUpload, CancelGoes, PauseFor, Asks
  <2>9. CASE CancelSetUpload(d)
    BY <1>0, <1>a, <1>b, <2>9 DEF CancelSetUpload, CancelGoes, PauseFor, Asks
  <2>10. CASE CancelFlag(d)
    BY <1>0, <1>a, <1>b, <2>10 DEF CancelFlag, CancelGoes, PauseFor, Asks
  <2>11. CASE CancelClean(d)
    BY <1>0, <1>a, <1>b, <2>11, SMTT(30) DEF CancelClean, CancelGoes, RemoveDataDir, SaveBuild,
        SaveUpload, PauseFor, Asks
  <2>12. CASE CancelRespond(d)
    BY <1>0, <1>a, <1>b, <2>12 DEF CancelRespond, CancelGoes, PauseFor, Asks
  <2>13. CASE CancelDeleteRow(d)
    BY <1>0, <1>a, <1>b, <2>13 DEF CancelDeleteRow, CancelGoes, PauseFor, Asks
  <2> QED BY <1>5, <2>1, <2>2, <2>3, <2>4, <2>5, <2>6, <2>7, <2>8, <2>9, <2>10, <2>11, <2>12,
      <2>13 DEF CancelStep
<1>6. ASSUME NEW p \in Pausers, PauseCheck(p) \/ PauseStep(p)
      PROVE  PauseFor(j)'
  <2>1. CASE PauseCheck(p)
    BY <1>0, <1>a, <1>b, <2>1 DEF PauseCheck, PauseFor, Asks
  <2>2. CASE PauseDocker(p)
    BY <1>0, <1>a, <1>b, <2>2 DEF PauseDocker, PauseFails, PauseFor, Asks
  <2>3. CASE PauseSet(p)
    BY <1>0, <1>a, <1>b, <2>3 DEF PauseSet, PauseFor, Asks
  <2> QED BY <1>6, <2>1, <2>2, <2>3 DEF PauseStep
<1>7. CASE Crash
  BY <1>7, <1>0 DEF Crash
<1> QED BY <1>1, <1>2, <1>3, <1>4, <1>5, <1>6, <1>7 DEF Next, vars

\* The invariant holds before the server takes a job, and every step keeps it.
LEMMA PauseInvariance == Spec => [](IInv /\ PauseInv)
<1>1. Init => PauseInv BY DEF Init, PauseInv, FreshFor, PauseFor
<1>2. IInv /\ PauseInv /\ [Next]_vars => PauseInv'
  <2> SUFFICES ASSUME IInv, PauseInv, [Next]_vars PROVE PauseInv' OBVIOUS
  <2>1. \A j \in Jobs : FreshFor(j)' BY FreshForStep DEF PauseInv
  <2>2. ASSUME Alone', NEW j \in Jobs PROVE PauseFor(j)'
    <3>1. Alone BY <2>2, AloneBefore
    <3>2. FreshFor(j) /\ PauseFor(j) BY <3>1 DEF PauseInv
    <3> QED BY <2>2, <3>1, <3>2, PauseForStep
  <2> QED BY <2>1, <2>2 DEF PauseInv
<1> QED BY <1>1, <1>2, Invariance, PTL DEF Spec

\* BuildJob.Pause and Resume (BuildJob.go) set the state after docker has changed
\* the container: for a single client that leaves them in agreement whenever no
\* request is under way, whatever the container and the build do meanwhile.
THEOREM PauseStateCorrect == Spec => []PauseStateMatchesContainer
<1>1. IInv /\ PauseInv => PauseStateMatchesContainer
  <2> SUFFICES ASSUME PauseInv, Alone, NEW j \in Jobs, \A p \in Pausers : ppc[p] = "idle",
                      cur = j, wpc = "await", buildRes[j] = "none"
               PROVE  bState[j] = "Paused" <=> cont[j] = "paused"
    BY Zenon DEF PauseStateMatchesContainer, Alone
  <2>1. PauseFor(j) BY DEF PauseInv
  <2> QED BY <2>1 DEF PauseFor, Asks
<1> QED BY <1>1, PauseInvariance, PTL

(***************************************************************************)
(* What a restart finds                                                    *)
(***************************************************************************)

\* Nobody cancelled job j, or paused or resumed a job.
Untouched(j) == ~PauseAsked /\ \A c \in Cancellers : cjob[c] # j

\* Up to the end of its run the rows of such a job say Waiting, or Done and Waiting
\* once it was built: JobQueue.Load takes it back.
UnfinishedFor(j) ==
    j \in queue /\ Untouched(j) =>
        /\ row[j]
        /\ ~(cur = j /\ wpc \in {"endUpload", "finish"}) =>
            db[j].upload = "Waiting" /\ db[j].build \in {"Waiting", "Done"}
        /\ cur = j /\ wpc = "endUpload" =>
            db[j].upload = "Waiting" /\ db[j].build \in {"Done", "Failed"}
        /\ cur = j /\ wpc = "finish" =>
            /\ db[j].upload # "Running" /\ db[j].build \in {"Waiting", "Done", "Failed"}
            /\ db[j].build = "Waiting" => db[j].upload = "Waiting"
        /\ Fresh(j) => uState[j] = "Waiting" /\ bState[j] \in {"Waiting", "Done"}
        /\ cur = j =>
            /\ wpc \notin {"stop", "setCancelled"}
            /\ wpc \in {"await", "saveBuild", "saveUpload", "check", "upload"} =>
                uState[j] = "Waiting"
            /\ wpc \in {"saveBuild", "saveUpload", "check", "upload", "open", "send"} =>
                bState[j] = "Done"
            /\ wpc = "await" /\ buildRes[j] = "ok" => bState[j] = "Done"
            /\ wpc \in {"sendStop", "clean", "endBuild"} => bState[j] \in {"Done", "Failed"}
            /\ wpc \in {"sendStop", "clean", "endBuild", "endUpload"} => uState[j] # "Running"

\* No step gives a cancel request another job.
LEMMA CancelKeepsJob ==
    ASSUME IInv, [Next]_vars, NEW c \in Cancellers, NEW j \in Jobs, cjob[c] = j PROVE cjob'[c] = j
<1>0. cpc[c] # "idle" /\ cjob \in [Cancellers -> Jobs \cup {None}]
  BY DEF IInv, TypeOK, RequestTypeOK
<1>1. UNCHANGED cjob => cjob'[c] = j OBVIOUS
<1>2. CASE Worker
  BY <1>1, <1>2 DEF Worker, PickJob, IsFirst, ItemExists, BeginRun, InitBuild, AwaitBuild,
      BuildDone, AwaitCancel, StopCancelledBuild, StopOutcomes, Live, ReturnCancelled, FailJob,
      SetState, SaveBuilt, SaveBuild, SaveUpload, CheckCancelled, IsCancelled, BeginUpload,
      OpenFile, UploadFails, SendFile, SendStop, CleanJob, RemoveDataDir, FinishJob, WorkerFree
<1>3. ASSUME NEW i \in Jobs, Build(i)
      PROVE  cjob'[c] = j
  BY <1>1, <1>3 DEF Build, PrepareBuild, BuildReturns, CreateContainer, StartContainer,
      WaitContainer, Exited, ParseResult
<1>4. ASSUME NEW i \in Jobs, WaitFails(i) \/ Updater(i) \/ ContainerExits(i) \/ ListJobs(i)
      PROVE  cjob'[c] = j
  BY <1>1, <1>4 DEF Updater, WaitFails, BuildReturns, ContainerExits, ListJobs, UpdaterTop,
      UpdaterReadsState, UpdaterGetsLogs
<1>5. ASSUME NEW d \in Cancellers, CancelFindJob(d) \/ CancelStep(d)
      PROVE  cjob'[c] = j
  <2>1. CASE CancelFindJob(d)
    BY <1>0, <2>1 DEF CancelFindJob, CancelGoes
  <2>2. CASE CancelSendStop(d) \/ CancelReadBuild(d) \/ CancelSendBuild(d) \/ CancelStop(d) \/
          CancelSetBuild(d) \/ CancelReadUpload(d) \/ CancelSendUpload(d) \/ CancelSetUpload(d)
          \/ CancelFlag(d) \/ CancelClean(d) \/ CancelRespond(d) \/ CancelDeleteRow(d)
    BY <1>1, <2>2 DEF CancelSendStop, CancelGoes, CancelReadBuild, CancelSendBuild, CancelStop,
        StopOutcomes, Live, CancelSetBuild, CancelReadUpload, CancelSendUpload, CancelSetUpload,
        CancelFlag, CancelClean, RemoveDataDir, SaveBuild, SaveUpload, CancelRespond,
        CancelDeleteRow
  <2> QED BY <1>5, <2>1, <2>2 DEF CancelStep
<1>6. ASSUME NEW p \in Pausers, PauseCheck(p) \/ PauseStep(p)
      PROVE  cjob'[c] = j
  BY <1>1, <1>6 DEF PauseStep, PauseCheck, PauseDocker, PauseFails, PauseSet
<1>7. CASE Crash
  BY <1>7 DEF Crash
<1> QED BY <1>1, <1>2, <1>3, <1>4, <1>5, <1>6, <1>7 DEF Next, vars

\* A client that asked for a pause or a resume stays one that did.
LEMMA PauseStays == ASSUME IInv, [Next]_vars, PauseAsked PROVE PauseAsked'
<1>0. pjob \in [Pausers -> Jobs \cup {None}] /\ None \notin Jobs /\ queue \subseteq Jobs
  BY DEF IInv, TypeOK, WorkerTypeOK, RequestTypeOK
<1>1. UNCHANGED pjob => PauseAsked' BY DEF PauseAsked
<1>2. CASE Worker
  BY <1>1, <1>2 DEF Worker, PickJob, IsFirst, ItemExists, BeginRun, InitBuild, AwaitBuild,
      BuildDone, AwaitCancel, StopCancelledBuild, StopOutcomes, Live, ReturnCancelled, FailJob,
      SetState, SaveBuilt, SaveBuild, SaveUpload, CheckCancelled, IsCancelled, BeginUpload,
      OpenFile, UploadFails, SendFile, SendStop, CleanJob, RemoveDataDir, FinishJob, WorkerFree
<1>3. ASSUME NEW i \in Jobs, Build(i)
      PROVE  PauseAsked'
  BY <1>1, <1>3 DEF Build, PrepareBuild, BuildReturns, CreateContainer, StartContainer,
      WaitContainer, Exited, ParseResult
<1>4. ASSUME NEW i \in Jobs, WaitFails(i) \/ Updater(i) \/ ContainerExits(i) \/ ListJobs(i)
      PROVE  PauseAsked'
  BY <1>1, <1>4 DEF Updater, WaitFails, BuildReturns, ContainerExits, ListJobs, UpdaterTop,
      UpdaterReadsState, UpdaterGetsLogs
<1>5. ASSUME NEW d \in Cancellers, CancelFindJob(d) \/ CancelStep(d)
      PROVE  PauseAsked'
  BY <1>1, <1>5 DEF CancelStep, CancelFindJob, CancelGoes, CancelSendStop, CancelReadBuild,
      CancelSendBuild, CancelStop, StopOutcomes, Live, CancelSetBuild, CancelReadUpload,
      CancelSendUpload, CancelSetUpload, CancelFlag, CancelClean, RemoveDataDir, SaveBuild,
      SaveUpload, CancelRespond, CancelDeleteRow
<1>6. ASSUME NEW p \in Pausers, PauseCheck(p) \/ PauseStep(p)
      PROVE  PauseAsked'
  <2>1. CASE PauseCheck(p)
    BY <1>0, <2>1 DEF PauseCheck, PauseAsked
  <2>2. CASE PauseDocker(p) \/ PauseSet(p)
    BY <1>1, <2>2 DEF PauseDocker, PauseFails, PauseSet
  <2> QED BY <1>6, <2>1, <2>2 DEF PauseStep
<1>7. CASE Crash
  BY <1>1, <1>7 DEF Crash
<1> QED BY <1>1, <1>2, <1>3, <1>4, <1>5, <1>6, <1>7 DEF Next, vars

\* The saves of Job.Run that lie before its end write no other states.
LEMMA UnfinishedForStep ==
    ASSUME IInv, [Next]_vars, NEW j \in Jobs, UnfinishedFor(j) PROVE UnfinishedFor(j)'
<1>0. /\ queue \subseteq Jobs /\ row \in [Jobs -> BOOLEAN] /\ crashes \in Nat /\ None \notin Jobs
      /\ (wpc # "idle" => cur \in queue) /\ (wpc = "idle" <=> cur = None)
      /\ bState \in [Jobs -> States] /\ uState \in [Jobs -> States]
      /\ db \in [Jobs -> [build : States, upload : States]]
      /\ cpc \in [Cancellers -> CancelPCs] /\ cjob \in [Cancellers -> Jobs \cup {None}]
      /\ \A c \in Cancellers : (cpc[c] = "idle") <=> (cjob[c] = None)
      /\ pjob \in [Pausers -> Jobs \cup {None}]
      /\ \A p \in Pausers : ppc[p] # "idle" => pjob[p] \in Jobs
      /\ UnfinishedFor(j)
  BY DEF IInv, QueueInv, TypeOK, WorkerTypeOK, JobTypeOK, OutsideTypeOK, RequestTypeOK
<1>a. /\ buildRes \in [Jobs -> {"none", "ok", "err", "waitErr"}]
      /\ bCancel \in [Jobs -> BOOLEAN] /\ cancelled \in [Jobs -> BOOLEAN]
      /\ (wpc \in {"begin", "init"} => buildRes[cur] = "none" /\ gpc[cur] = "none")
      /\ \A i \in queue : i # cur => gpc[i] = "none" /\ buildRes[i] = "none"
      /\ \A i \in Jobs : gpc[i] # "none" => buildRes[i] = "none"
      /\ \A i \in Jobs : bCancel[i] => \E c \in Cancellers : cjob[c] = i
  BY DEF IInv, QueueInv, TypeOK, BuildTypeOK, JobTypeOK, BuildInv, TokenInv, PastSendBuild
<1>b. Untouched(j)' => Untouched(j)
  <2> SUFFICES ASSUME Untouched(j)' PROVE Untouched(j) OBVIOUS
  <2>1. \A c \in Cancellers : cjob[c] = j => cjob'[c] = j BY CancelKeepsJob
  <2>2. PauseAsked => PauseAsked' BY PauseStays
  <2> QED BY <2>1, <2>2 DEF Untouched
<1>c. \A c \in Cancellers : cjob[c] = j => ~Untouched(j) BY DEF Untouched
<1>d. \A p \in Pausers : ppc[p] # "idle" => ~Untouched(j) BY <1>0 DEF Untouched, PauseAsked
<1>e. bCancel[j] => ~Untouched(j) BY <1>a DEF Untouched
<1> HIDE DEF Untouched
<1>1. UNCHANGED <<queue, row, cur, wpc, db, bState, uState, buildRes>> => UnfinishedFor(j)'
  BY <1>0, <1>b DEF UnfinishedFor, Fresh
<1>2. CASE Worker
  <2>1. CASE PickJob
    BY <1>0, <1>a, <1>b, <1>c, <1>d, <1>e, <2>1 DEF PickJob, IsFirst, ItemExists, UnfinishedFor,
        Fresh
  <2>2. CASE BeginRun
    <3>1. /\ \A i \in Jobs : i # cur => db'[i] = db[i]
          /\ db'[cur].build \in {db[cur].build, bState[cur]}
          /\ db'[cur].upload \in {db[cur].upload, uState[cur]}
      BY <2>2, BeginSaves DEF IInv
    <3>2. /\ wpc = "begin" /\ wpc' = "init"
          /\ UNCHANGED <<queue, cur, row, bState, uState, dbErrs, buildRes, cjob, cpc>>
      BY <2>2 DEF BeginRun
    <3>3. CASE j = cur
      <4>1. cur \in queue BY <1>0, <3>2
      <4> QED BY <1>0, <1>a, <1>b, <1>c, <1>d, <1>e, <3>1, <3>2, <3>3, <4>1, SMTT(30)
                DEF UnfinishedFor, Fresh
    <3>4. CASE j # cur
      <4>1. db'[j] = db[j] BY <3>1, <3>4
      <4> QED BY <1>0, <1>a, <1>b, <1>c, <1>d, <1>e, <3>2, <3>4, <4>1, SMTT(30)
                DEF UnfinishedFor, Fresh
    <3> QED BY <3>3, <3>4
  <2>3. CASE InitBuild
    BY <1>0, <1>a, <1>b, <1>c, <1>d, <1>e, <2>3 DEF InitBuild, UnfinishedFor, Fresh
  <2>4. CASE AwaitBuild
    BY <1>0, <1>a, <1>b, <1>c, <1>d, <1>e, <2>4 DEF AwaitBuild, BuildDone, UnfinishedFor, Fresh
  <2>5. CASE AwaitCancel
    BY <1>0, <1>a, <1>b, <1>c, <1>d, <1>e, <2>5 DEF AwaitCancel, UnfinishedFor, Fresh
  <2>6. CASE StopCancelledBuild
    BY <1>0, <1>a, <1>b, <1>c, <1>d, <1>e, <2>6 DEF StopCancelledBuild, StopOutcomes, Live,
        UnfinishedFor, Fresh
  <2>7. CASE ReturnCancelled
    BY <1>0, <1>a, <1>b, <1>c, <1>d, <1>e, <2>7 DEF ReturnCancelled, UnfinishedFor, Fresh
  <2>8. CASE FailJob
    BY <1>0, <1>a, <1>b, <1>c, <1>d, <1>e, <2>8 DEF FailJob, SetState, UnfinishedFor, Fresh
  <2>9. CASE SaveBuilt
    BY <1>0, <1>a, <1>b, <1>c, <1>d, <1>e, <2>9, SMTT(30) DEF SaveBuilt, SaveBuild, SaveUpload,
        UnfinishedFor, Fresh
  <2>10. CASE CheckCancelled
    BY <1>0, <1>a, <1>b, <1>c, <1>d, <1>e, <2>10 DEF CheckCancelled, IsCancelled, UnfinishedFor,
        Fresh
  <2>11. CASE BeginUpload
    BY <1>0, <1>a, <1>b, <1>c, <1>d, <1>e, <2>11 DEF BeginUpload, UnfinishedFor, Fresh
  <2>12. CASE OpenFile
    BY <1>0, <1>a, <1>b, <1>c, <1>d, <1>e, <2>12 DEF OpenFile, UploadFails, UnfinishedFor, Fresh
  <2>13. CASE SendFile
    BY <1>0, <1>a, <1>b, <1>c, <1>d, <1>e, <2>13 DEF SendFile, UploadFails, UnfinishedFor, Fresh
  <2>14. CASE SendStop
    BY <1>0, <1>a, <1>b, <1>c, <1>d, <1>e, <2>14 DEF SendStop, UnfinishedFor, Fresh
  <2>15. CASE CleanJob
    BY <1>0, <1>a, <1>b, <1>c, <1>d, <1>e, <2>15, SMTT(30) DEF CleanJob, RemoveDataDir,
        SaveBuild, SaveUpload, UnfinishedFor, Fresh
  <2>16. CASE FinishJob
    BY <1>0, <1>a, <1>b, <1>c, <1>d, <1>e, <2>16 DEF FinishJob, WorkerFree, UnfinishedFor, Fresh
  <2> QED BY <1>2, <2>1, <2>2, <2>3, <2>4, <2>5, <2>6, <2>7, <2>8, <2>9, <2>10, <2>11, <2>12,
      <2>13, <2>14, <2>15, <2>16 DEF Worker
<1>3. ASSUME NEW i \in Jobs, Build(i)
      PROVE  UnfinishedFor(j)'
  <2>1. CASE PrepareBuild(i)
    BY <1>0, <1>a, <1>b, <1>c, <1>d, <1>e, <2>1 DEF PrepareBuild, BuildReturns, UnfinishedFor,
        Fresh
  <2>2. CASE CreateContainer(i)
    BY <1>0, <1>a, <1>b, <1>c, <1>d, <1>e, <2>2 DEF CreateContainer, BuildReturns,
        UnfinishedFor, Fresh
  <2>3. CASE StartContainer(i)
    BY <1>0, <1>a, <1>b, <1>c, <1>d, <1>e, <2>3 DEF StartContainer, BuildReturns, UnfinishedFor,
        Fresh
  <2>4. CASE WaitContainer(i)
    BY <1>0, <1>a, <1>b, <1>c, <1>d, <1>e, <2>4 DEF WaitContainer, BuildReturns, Exited,
        UnfinishedFor, Fresh
  <2>5. CASE ParseResult(i)
    BY <1>0, <1>a, <1>b, <1>c, <1>d, <1>e, <2>5 DEF ParseResult, BuildReturns, UnfinishedFor,
        Fresh
  <2> QED BY <1>3, <2>1, <2>2, <2>3, <2>4, <2>5 DEF Build
<1>4. ASSUME NEW i \in Jobs, WaitFails(i) \/ Updater(i) \/ ContainerExits(i) \/ ListJobs(i)
      PROVE  UnfinishedFor(j)'
  <2>1. CASE WaitFails(i)
    BY <1>0, <1>a, <1>b, <1>c, <1>d, <1>e, <2>1 DEF WaitFails, BuildReturns, UnfinishedFor,
        Fresh
  <2>2. CASE ContainerExits(i) \/ ListJobs(i) \/ UpdaterTop(i) \/ UpdaterReadsState(i) \/
          UpdaterGetsLogs(i)
    BY <1>1, <2>2 DEF ContainerExits, ListJobs, UpdaterTop, UpdaterReadsState, UpdaterGetsLogs
  <2> QED BY <1>4, <2>1, <2>2 DEF Updater
<1>5. ASSUME NEW d \in Cancellers, CancelFindJob(d) \/ CancelStep(d)
      PROVE  UnfinishedFor(j)'
  <2>1. CASE CancelSetBuild(d)
    BY <1>0, <1>a, <1>b, <1>c, <1>d, <1>e, <2>1 DEF CancelSetBuild, CancelGoes, UnfinishedFor,
        Fresh
  <2>2. CASE CancelSetUpload(d)
    BY <1>0, <1>a, <1>b, <1>c, <1>d, <1>e, <2>2 DEF CancelSetUpload, CancelGoes, UnfinishedFor,
        Fresh
  <2>3. CASE CancelClean(d)
    BY <1>0, <1>a, <1>b, <1>c, <1>d, <1>e, <2>3, SMTT(30) DEF CancelClean, CancelGoes,
        RemoveDataDir, SaveBuild, SaveUpload, UnfinishedFor, Fresh
  <2>4. CASE CancelDeleteRow(d)
    BY <1>0, <1>a, <1>b, <1>c, <1>d, <1>e, <2>4 DEF CancelDeleteRow, CancelGoes, UnfinishedFor,
        Fresh
  <2>5. CASE CancelFindJob(d) \/ CancelSendStop(d) \/ CancelReadBuild(d) \/ CancelSendBuild(d)
          \/ CancelStop(d) \/ CancelReadUpload(d) \/ CancelSendUpload(d) \/ CancelFlag(d) \/
          CancelRespond(d)
    BY <1>1, <2>5 DEF CancelFindJob, CancelGoes, CancelSendStop, CancelReadBuild,
        CancelSendBuild, CancelStop, StopOutcomes, Live, CancelReadUpload, CancelSendUpload,
        CancelFlag, CancelRespond
  <2> QED BY <1>5, <2>1, <2>2, <2>3, <2>4, <2>5 DEF CancelStep
<1>6. ASSUME NEW p \in Pausers, PauseCheck(p) \/ PauseStep(p)
      PROVE  UnfinishedFor(j)'
  <2>1. CASE PauseSet(p)
    BY <1>0, <1>a, <1>b, <1>c, <1>d, <1>e, <2>1 DEF PauseSet, UnfinishedFor, Fresh
  <2>2. CASE PauseCheck(p) \/ PauseDocker(p)
    BY <1>1, <2>2 DEF PauseCheck, PauseDocker, PauseFails
  <2> QED BY <1>6, <2>1, <2>2 DEF PauseStep
<1>7. CASE Crash
  <2>1. SUFFICES ASSUME j \in queue', Untouched(j)' PROVE UnfinishedFor(j)'
    BY DEF UnfinishedFor
  <2>2. row[j] /\ Requeued(db[j]) BY <1>7, <2>1 DEF Crash
  <2>3. j \in queue BY <2>2 DEF IInv, OutOfQueueInv
  <2>4. db[j].upload = "Waiting" /\ db[j].build \in {"Waiting", "Done"}
    BY <1>0, <1>b, <2>1, <2>2, <2>3 DEF UnfinishedFor, Requeued, GetState
  <2>5. /\ row' = row /\ db' = db /\ cur' = None /\ wpc' = "idle"
        /\ bState'[j] = ReloadState(db[j], db[j].build)
        /\ uState'[j] = ReloadState(db[j], db[j].upload)
    BY <1>7 DEF Crash
  <2> QED BY <1>0, <2>2, <2>4, <2>5 DEF UnfinishedFor, Fresh, ReloadState, GetState
<1> QED BY <1>1, <1>2, <1>3, <1>4, <1>5, <1>6, <1>7 DEF Next, vars

\* What a cancel request c did to a job that is not in its run stays as it is: it
\* set the states to Cancelled, then the rows; an ended request has deleted the
\* row of the queue item.
AnsweredFor(c) ==
    /\ cpc[c] = "done" => ~row[cjob[c]]
    /\ cjob[c] \in queue /\ cjob[c] # cur /\ FinalSaved(cjob[c]) =>
        /\ cpc[c] \in BuildSet \ {"done"} => bState[cjob[c]] = "Cancelled"
        /\ cpc[c] \in UploadSet \ {"done"} => uState[cjob[c]] = "Cancelled"
        /\ cpc[c] \in BuildSaved \ {"done"} => db[cjob[c]].build = "Cancelled"
        /\ cpc[c] \in UploadSaved \ {"done"} => db[cjob[c]].upload = "Cancelled"

\* The worker writes only to the job in its run, a build only to one that was in
\* its run, and no pause or resume of a job that was not is under way.
LEMMA AnsweredForStep ==
    ASSUME IInv, [Next]_vars, \A j \in Jobs : FreshFor(j), NEW c \in Cancellers, AnsweredFor(c)
    PROVE  AnsweredFor(c)'
<1>0. /\ queue \subseteq Jobs /\ row \in [Jobs -> BOOLEAN] /\ None \notin Jobs
      /\ (wpc # "idle" => cur \in queue) /\ (wpc = "idle" <=> cur = None)
      /\ \A i \in queue : i # cur => gpc[i] = "none"
      /\ bState \in [Jobs -> States] /\ uState \in [Jobs -> States]
      /\ db \in [Jobs -> [build : States, upload : States]]
      /\ cpc \in [Cancellers -> CancelPCs] /\ cjob \in [Cancellers -> Jobs \cup {None}]
      /\ \A d \in Cancellers : (cpc[d] = "idle") <=> (cjob[d] = None)
      /\ \A p \in Pausers : ppc[p] # "idle" => pjob[p] \in Jobs
      /\ \A p \in Pausers, i \in queue : ppc[p] # "idle" /\ pjob[p] = i => cur = i
      /\ dbErrs \in [Jobs -> SUBSET {"load", "built", "final"}]
      /\ \A i \in Jobs : FinalSaved(i)' => FinalSaved(i)
      /\ AnsweredFor(c)
  BY ErrsGrow
    DEF FinalSaved, IInv, QueueInv, TypeOK, WorkerTypeOK, JobTypeOK, OutsideTypeOK, RequestTypeOK,
      FreshFor, Fresh
<1> USE DEF BuildSet, UploadSet, Flagged, BuildSaved, UploadSaved
<1>1. UNCHANGED <<queue, cur, row, bState, uState, db, dbErrs, cjob, cpc>> => AnsweredFor(c)'
  BY <1>0 DEF AnsweredFor, FinalSaved
<1>2. CASE Worker
  <2>1. CASE PickJob
    BY <1>0, <2>1 DEF PickJob, IsFirst, ItemExists, AnsweredFor
  <2>2. CASE BeginRun
    <3>1. \A i \in Jobs : i # cur => db'[i] = db[i] BY <2>2, BeginSaves DEF IInv
    <3>2. UNCHANGED <<queue, cur, row, bState, uState, dbErrs, cjob, cpc>> BY <2>2 DEF BeginRun
    <3> QED BY <1>0, <3>1, <3>2 DEF AnsweredFor, FinalSaved
  <2>3. CASE InitBuild
    BY <1>0, <2>3 DEF InitBuild, AnsweredFor
  <2>4. CASE ReturnCancelled
    BY <1>0, <2>4 DEF ReturnCancelled, AnsweredFor
  <2>5. CASE FailJob
    BY <1>0, <2>5 DEF FailJob, SetState, AnsweredFor
  <2>6. CASE SaveBuilt
    BY <1>0, <2>6, SMTT(30) DEF SaveBuilt, SaveBuild, SaveUpload, AnsweredFor
  <2>7. CASE BeginUpload
    BY <1>0, <2>7 DEF BeginUpload, AnsweredFor
  <2>8. CASE OpenFile
    BY <1>0, <2>8 DEF OpenFile, UploadFails, AnsweredFor
  <2>9. CASE SendFile
    BY <1>0, <2>9 DEF SendFile, UploadFails, AnsweredFor
  <2>10. CASE CleanJob
    BY <1>0, <2>10, SMTT(30) DEF CleanJob, RemoveDataDir, SaveBuild, SaveUpload, AnsweredFor
  <2>11. CASE FinishJob
    BY <1>0, <2>11 DEF FinishJob, WorkerFree, AnsweredFor
  <2>12. CASE AwaitBuild \/ AwaitCancel \/ StopCancelledBuild \/ CheckCancelled \/ SendStop
    BY <1>1, <2>12 DEF AwaitBuild, BuildDone, AwaitCancel, StopCancelledBuild, StopOutcomes,
        Live, CheckCancelled, IsCancelled, SendStop
  <2> QED BY <1>2, <2>1, <2>2, <2>3, <2>4, <2>5, <2>6, <2>7, <2>8, <2>9, <2>10, <2>11, <2>12 DEF
      Worker
<1>3. ASSUME NEW i \in Jobs, Build(i)
      PROVE  AnsweredFor(c)'
  <2>1. CASE ParseResult(i)
    BY <1>0, <2>1 DEF ParseResult, BuildReturns, AnsweredFor
  <2>2. CASE PrepareBuild(i) \/ CreateContainer(i) \/ StartContainer(i) \/ WaitContainer(i)
    BY <1>1, <2>2 DEF PrepareBuild, BuildReturns, CreateContainer, StartContainer,
        WaitContainer, Exited
  <2> QED BY <1>3, <2>1, <2>2 DEF Build
<1>4. ASSUME NEW i \in Jobs, WaitFails(i) \/ Updater(i) \/ ContainerExits(i) \/ ListJobs(i)
      PROVE  AnsweredFor(c)'
  BY <1>1, <1>4 DEF Updater, WaitFails, BuildReturns, ContainerExits, ListJobs, UpdaterTop,
      UpdaterReadsState, UpdaterGetsLogs
<1>5. ASSUME NEW d \in Cancellers, CancelFindJob(d) \/ CancelStep(d)
      PROVE  AnsweredFor(c)'
  <2>1. CASE CancelFindJob(d)
    BY <1>0, <2>1 DEF CancelFindJob, CancelGoes, AnsweredFor
  <2>2. CASE CancelSendStop(d)
    BY <1>0, <2>2 DEF CancelSendStop, CancelGoes, AnsweredFor
  <2>3. CASE CancelReadBuild(d)
    BY <1>0, <2>3 DEF CancelReadBuild, CancelGoes, AnsweredFor
  <2>4. CASE CancelSendBuild(d)
    BY <1>0, <2>4 DEF CancelSendBuild, CancelGoes, AnsweredFor
  <2>5. CASE CancelStop(d)
    BY <1>0, <2>5 DEF CancelStop, CancelGoes, StopOutcomes, Live, AnsweredFor
  <2>6. CASE CancelSetBuild(d)
    BY <1>0, <2>6 DEF CancelSetBuild, CancelGoes, AnsweredFor
  <2>7. CASE CancelReadUpload(d)
    BY <1>0, <2>7 DEF CancelReadUpload, CancelGoes, AnsweredFor
  <2>8. CASE CancelSendUpload(d)
    BY <1>0, <2>8 DEF CancelSendUpload, CancelGoes, AnsweredFor
  <2>9. CASE CancelSetUpload(d)
    BY <1>0, <2>9 DEF CancelSetUpload, CancelGoes, AnsweredFor
  <2>10. CASE CancelFlag(d)
    BY <1>0, <2>10 DEF CancelFlag, CancelGoes, AnsweredFor
  <2>11. CASE CancelClean(d)
    BY <1>0, <2>11, SMTT(30)
      DEF CancelClean, DbFails, FinalSaved, CancelGoes, RemoveDataDir, SaveBuild, SaveUpload,
        AnsweredFor
  <2>12. CASE CancelRespond(d)
    BY <1>0, <2>12 DEF CancelRespond, CancelGoes, AnsweredFor
  <2>13. CASE CancelDeleteRow(d)
    BY <1>0, <2>13 DEF CancelDeleteRow, CancelGoes, AnsweredFor
  <2> QED BY <1>5, <2>1, <2>2, <2>3, <2>4, <2>5, <2>6, <2>7, <2>8, <2>9, <2>10, <2>11, <2>12,
      <2>13 DEF CancelStep
<1>6. ASSUME NEW p \in Pausers, PauseCheck(p) \/ PauseStep(p)
      PROVE  AnsweredFor(c)'
  <2>1. CASE PauseSet(p)
    BY <1>0, <2>1 DEF PauseSet, AnsweredFor
  <2>2. CASE PauseCheck(p) \/ PauseDocker(p)
    BY <1>1, <2>2 DEF PauseCheck, PauseDocker, PauseFails
  <2> QED BY <1>6, <2>1, <2>2 DEF PauseStep
<1>7. CASE Crash
  BY <1>0, <1>7 DEF Crash, AnsweredFor
<1> QED BY <1>1, <1>2, <1>3, <1>4, <1>5, <1>6, <1>7 DEF Next, vars

\* What a restart finds, for all jobs and requests.
RestartInv ==
    /\ \A j \in Jobs : FreshFor(j)
    /\ \A j \in Jobs : UnfinishedFor(j)
    /\ \A c \in Cancellers : AnsweredFor(c)

\* The invariant holds before the server takes a job, and every step keeps it.
LEMMA RestartInvariance == Spec => [](IInv /\ RestartInv)
<1>1. Init => RestartInv
  BY DEF Init, RestartInv, FreshFor, UnfinishedFor, AnsweredFor, Fresh, Untouched, BuildSet,
      UploadSet, Flagged, BuildSaved, UploadSaved
<1>2. IInv /\ RestartInv /\ [Next]_vars => RestartInv'
  <2> SUFFICES ASSUME IInv, RestartInv, [Next]_vars PROVE RestartInv' OBVIOUS
  <2>1. /\ \A j \in Jobs : FreshFor(j)
        /\ \A j \in Jobs : UnfinishedFor(j)
        /\ \A c \in Cancellers : AnsweredFor(c)
    BY DEF RestartInv
  <2>2. ASSUME NEW j \in Jobs PROVE FreshFor(j)' BY <2>1, FreshForStep
  <2>3. ASSUME NEW j \in Jobs PROVE UnfinishedFor(j)' BY <2>1, UnfinishedForStep
  <2>4. ASSUME NEW c \in Cancellers PROVE AnsweredFor(c)' BY <2>1, AnsweredForStep
  <2> QED BY <2>2, <2>3, <2>4 DEF RestartInv
<1> QED BY <1>1, <1>2, Invariance, PTL DEF Spec

\* JobQueue.Load takes back every job whose run did not reach its end, and none
\* whose cancel was answered before its run (JobQueue.go:61-83), unless a last save
\* of the job failed.
THEOREM CrashKeepsCorrect == Spec => CrashKeepsUnfinished
<1> DEFINE Kept ==
        crashes' > crashes =>
          /\ \A j \in queue :
                 \/ j \in queue'
                 \/ \E c \in Cancellers : cjob[c] = j
                 \/ PauseAsked
                 \/ cur = j /\ wpc \in {"endUpload", "finish"}
          /\ \A c \in Cancellers :
                 cpc[c] \in {"deleteRow", "done"} /\ cjob[c] \in queue'
                 => cur = cjob[c] \/ "final" \in dbErrs[cjob[c]]
<1>1. IInv /\ RestartInv /\ [Next]_vars => [Kept]_vars
  <2> SUFFICES ASSUME IInv, RestartInv, [Next]_vars, crashes' > crashes PROVE Kept
    OBVIOUS
  <2>1. Crash BY CrashesGrow DEF OnlyCrashes, IInv, TypeOK, RequestTypeOK
  <2>2. /\ queue \subseteq Jobs /\ cjob \in [Cancellers -> Jobs \cup {None}] /\ None \notin Jobs
        /\ queue' = {j \in Jobs : row[j] /\ Requeued(db[j])}
    BY <2>1 DEF Crash, IInv, TypeOK, WorkerTypeOK, RequestTypeOK
  <2>3. ASSUME NEW j \in queue, \A c \in Cancellers : cjob[c] # j, ~PauseAsked,
               ~(cur = j /\ wpc \in {"endUpload", "finish"})
        PROVE  j \in queue'
    <3>1. row[j] /\ db[j].upload = "Waiting" /\ db[j].build \in {"Waiting", "Done"}
      BY <2>2, <2>3 DEF RestartInv, UnfinishedFor, Untouched
    <3> QED BY <3>1, <2>2 DEF Requeued, GetState
  <2>4. ASSUME NEW c \in Cancellers, cpc[c] \in {"deleteRow", "done"}, cjob[c] \in queue',
               cur # cjob[c], "final" \notin dbErrs[cjob[c]]
        PROVE  FALSE
    <3>1. AnsweredFor(c) BY DEF RestartInv
    <3>2. cjob[c] \in Jobs /\ row[cjob[c]] /\ Requeued(db[cjob[c]]) BY <2>2, <2>4
    <3>3. cpc[c] = "deleteRow" BY <3>1, <3>2, <2>4 DEF AnsweredFor
    <3>4. cjob[c] \in queue BY <3>2, <3>3 DEF IInv, OutOfQueueInv
    <3>5. db[cjob[c]].build = "Cancelled"
      BY <3>1, <3>3, <3>4, <2>4 DEF AnsweredFor, FinalSaved, BuildSaved, UploadSaved
    <3> QED BY <3>2, <3>5 DEF Requeued, GetState
  <2> QED BY <2>3, <2>4
<1> QED BY <1>1, RestartInvariance, PTL DEF CrashKeepsUnfinished, Spec
=============================================================================
