---------------------------- MODULE JobRun_proofs ----------------------------
(***************************************************************************)
(* Proofs about JobRun, for any numbers of jobs, requests and crashes: the *)
(* type invariant, the safety properties that the runs jobrun_orphans and  *)
(* jobrun_crash check, and that JobRun implements JobLifecycle.            *)
(***************************************************************************)
EXTENDS JobRun, TLAPS

\* The tuples of variables are only abbreviations.
USE JobsAssumption, KeepBuildFilesAssumption, MaxCrashesAssumption
USE DEF queueVars, workVars, jobVars, chanVars, buildVars, updVars, extVars, dbVars, cancVars,
        pauseVars, workerKeeps, runKeeps, buildKeeps, updaterKeeps, cancelKeeps, pauseKeeps

(***************************************************************************)
(* Type correctness                                                        *)
(***************************************************************************)

\* What the code writes into the rows is a state.
LEMMA SaveType ==
    ASSUME TypeOK, NEW j \in Jobs
    PROVE  /\ SaveBuild(j) => db' \in [Jobs -> [build : States, upload : States]]
           /\ SaveUpload(j) => db' \in [Jobs -> [build : States, upload : States]]
           /\ [db EXCEPT ![j] = [build |-> bState[j], upload |-> uState[j]]]
                 \in [Jobs -> [build : States, upload : States]]
<1>1. bState[j] \in States /\ uState[j] \in States BY DEF TypeOK, JobTypeOK
<1>2. db \in [Jobs -> [build : States, upload : States]] BY DEF TypeOK, OutsideTypeOK
<1> QED BY <1>1, <1>2 DEF SaveBuild, SaveUpload

\* The history of failed calls grows by calls it knows.
LEMMA ErrsType ==
    ASSUME TypeOK, NEW j \in Jobs, NEW call \in {"load", "built", "final"}, DbFails(j, call)
    PROVE  dbErrs' \in [Jobs -> SUBSET {"load", "built", "final"}]
<1>1. dbErrs \in [Jobs -> SUBSET {"load", "built", "final"}] BY DEF TypeOK, OutsideTypeOK
<1>2. dbErrs[j] \cup {call} \in SUBSET {"load", "built", "final"} BY <1>1
<1> QED BY <1>1, <1>2 DEF DbFails

LEMMA TypeInit == Init => TypeOK
<1> SUFFICES ASSUME Init PROVE TypeOK OBVIOUS
<1>1. WorkerTypeOK BY DEF Init, WorkerTypeOK, WorkerPCs
<1>2. JobTypeOK BY DEF Init, JobTypeOK, States
<1>3. BuildTypeOK BY DEF Init, BuildTypeOK
<1>4. OutsideTypeOK BY DEF Init, OutsideTypeOK, States
<1>5. RequestTypeOK BY DEF Init, RequestTypeOK, CancelPCs
<1> QED BY <1>1, <1>2, <1>3, <1>4, <1>5 DEF TypeOK

\* The worker.
LEMMA WorkerType ==
    ASSUME TypeOK, Worker
    PROVE  TypeOK'
<1>0. wpc # "idle" => cur \in Jobs BY DEF TypeOK, WorkerTypeOK
<1>1. CASE PickJob
  <2>1. WorkerTypeOK' BY <1>1 DEF TypeOK, WorkerTypeOK, PickJob, IsFirst, ItemExists,
      WorkerPCs
  <2>2. JobTypeOK' BY <1>1 DEF TypeOK, JobTypeOK, WorkerTypeOK, PickJob, IsFirst, ItemExists,
      States
  <2>3. dbErrs' \in [Jobs -> SUBSET {"load", "built", "final"}]
    <3>1. PICK j \in queue : UNCHANGED dbErrs \/ DbFails(j, "load") BY <1>1 DEF PickJob
    <3>2. j \in Jobs BY DEF TypeOK, WorkerTypeOK
    <3> QED BY <3>1, <3>2, ErrsType DEF TypeOK, OutsideTypeOK
  <2>4. OutsideTypeOK' BY <1>1, <2>3 DEF TypeOK, OutsideTypeOK, PickJob
  <2> QED BY <1>1, <2>1, <2>2, <2>4 DEF TypeOK, BuildTypeOK, RequestTypeOK, PickJob
<1>2. CASE BeginRun
  <2>1. WorkerTypeOK' BY <1>2 DEF TypeOK, WorkerTypeOK, BeginRun, WorkerPCs
  <2>2. BuildTypeOK' BY <1>2 DEF TypeOK, BuildTypeOK, WorkerTypeOK, BeginRun
  <2>3. OutsideTypeOK' BY <1>2, <1>0, SaveType DEF TypeOK, OutsideTypeOK, BeginRun
  <2> QED BY <1>2, <2>1, <2>2, <2>3 DEF TypeOK, JobTypeOK, RequestTypeOK, BeginRun
<1>3. CASE InitBuild
  <2>1. WorkerTypeOK' BY <1>3 DEF TypeOK, WorkerTypeOK, InitBuild, WorkerPCs
  <2>2. JobTypeOK' BY <1>3 DEF TypeOK, JobTypeOK, WorkerTypeOK, InitBuild, States
  <2>3. BuildTypeOK' BY <1>3 DEF TypeOK, BuildTypeOK, WorkerTypeOK, InitBuild
  <2> QED BY <1>3, <2>1, <2>2, <2>3 DEF TypeOK, OutsideTypeOK, RequestTypeOK, InitBuild
<1>4. CASE AwaitBuild
  <2>1. WorkerTypeOK' BY <1>4 DEF TypeOK, WorkerTypeOK, AwaitBuild, BuildDone, WorkerPCs
  <2> QED BY <1>4, <2>1 DEF TypeOK, JobTypeOK, BuildTypeOK, OutsideTypeOK, RequestTypeOK,
      AwaitBuild, BuildDone
<1>5. CASE AwaitCancel
  <2>1. WorkerTypeOK' BY <1>5 DEF TypeOK, WorkerTypeOK, AwaitCancel, WorkerPCs
  <2>2. JobTypeOK' BY <1>5 DEF TypeOK, JobTypeOK, WorkerTypeOK, AwaitCancel, States
  <2> QED BY <1>5, <2>1, <2>2 DEF TypeOK, BuildTypeOK, OutsideTypeOK, RequestTypeOK,
      AwaitCancel
<1>6. CASE StopCancelledBuild
  <2>1. WorkerTypeOK' BY <1>6 DEF TypeOK, WorkerTypeOK, StopCancelledBuild, StopOutcomes,
      WorkerPCs
  <2>2. OutsideTypeOK' BY <1>6 DEF TypeOK, OutsideTypeOK, WorkerTypeOK, StopCancelledBuild,
      StopOutcomes
  <2> QED BY <1>6, <2>1, <2>2 DEF TypeOK, JobTypeOK, BuildTypeOK, RequestTypeOK,
      StopCancelledBuild, StopOutcomes
<1>7. CASE ReturnCancelled
  <2>1. WorkerTypeOK' BY <1>7 DEF TypeOK, WorkerTypeOK, ReturnCancelled, WorkerPCs
  <2>2. JobTypeOK' BY <1>7 DEF TypeOK, JobTypeOK, WorkerTypeOK, ReturnCancelled, States
  <2> QED BY <1>7, <2>1, <2>2 DEF TypeOK, BuildTypeOK, OutsideTypeOK, RequestTypeOK,
      ReturnCancelled
<1>8. CASE FailJob
  <2>1. WorkerTypeOK' BY <1>8 DEF TypeOK, WorkerTypeOK, FailJob, SetState, WorkerPCs
  <2>2. JobTypeOK' BY <1>8 DEF TypeOK, JobTypeOK, WorkerTypeOK, FailJob, SetState, States
  <2> QED BY <1>8, <2>1, <2>2 DEF TypeOK, BuildTypeOK, OutsideTypeOK, RequestTypeOK, FailJob,
      SetState
<1>9. CASE SaveBuilt
  <2>1. WorkerTypeOK' BY <1>9 DEF TypeOK, WorkerTypeOK, SaveBuilt, SaveBuild, SaveUpload,
      WorkerPCs
  <2>2. OutsideTypeOK'
    <3>1. db' \in [Jobs -> [build : States, upload : States]]
      BY <1>9, <1>0, SaveType DEF TypeOK, OutsideTypeOK, SaveBuilt
    <3>2. UNCHANGED dbErrs \/ DbFails(cur, "built") BY <1>9 DEF SaveBuilt
    <3>3. dbErrs' \in [Jobs -> SUBSET {"load", "built", "final"}]
      BY <1>9, <1>0, <3>2, ErrsType DEF TypeOK, OutsideTypeOK, SaveBuilt
    <3> QED BY <1>9, <3>1, <3>3 DEF TypeOK, OutsideTypeOK, SaveBuilt
  <2> QED BY <1>9, <2>1, <2>2 DEF TypeOK, JobTypeOK, BuildTypeOK, RequestTypeOK, SaveBuilt,
      SaveBuild, SaveUpload
<1>10. CASE CheckCancelled
  <2>1. WorkerTypeOK' BY <1>10 DEF TypeOK, WorkerTypeOK, CheckCancelled, IsCancelled,
      WorkerPCs
  <2> QED BY <1>10, <2>1 DEF TypeOK, JobTypeOK, BuildTypeOK, OutsideTypeOK, RequestTypeOK,
      CheckCancelled, IsCancelled
<1>11. CASE BeginUpload
  <2>1. WorkerTypeOK' BY <1>11 DEF TypeOK, WorkerTypeOK, BeginUpload, WorkerPCs
  <2>2. JobTypeOK' BY <1>11 DEF TypeOK, JobTypeOK, WorkerTypeOK, BeginUpload, States
  <2> QED BY <1>11, <2>1, <2>2 DEF TypeOK, BuildTypeOK, OutsideTypeOK, RequestTypeOK,
      BeginUpload
<1>12. CASE OpenFile
  <2>1. WorkerTypeOK' BY <1>12 DEF TypeOK, WorkerTypeOK, OpenFile, UploadFails, WorkerPCs
  <2>2. JobTypeOK' BY <1>12 DEF TypeOK, JobTypeOK, WorkerTypeOK, OpenFile, UploadFails,
      States
  <2> QED BY <1>12, <2>1, <2>2 DEF TypeOK, BuildTypeOK, OutsideTypeOK, RequestTypeOK,
      OpenFile, UploadFails
<1>13. CASE SendFile
  <2>1. WorkerTypeOK' BY <1>13 DEF TypeOK, WorkerTypeOK, SendFile, UploadFails, WorkerPCs
  <2>2. JobTypeOK' BY <1>13 DEF TypeOK, JobTypeOK, WorkerTypeOK, SendFile, UploadFails,
      States
  <2>3. OutsideTypeOK' BY <1>13 DEF TypeOK, OutsideTypeOK, WorkerTypeOK, SendFile,
      UploadFails
  <2> QED BY <1>13, <2>1, <2>2, <2>3 DEF TypeOK, BuildTypeOK, RequestTypeOK, SendFile,
      UploadFails
<1>14. CASE SendStop
  <2>1. WorkerTypeOK' BY <1>14 DEF TypeOK, WorkerTypeOK, SendStop, WorkerPCs
  <2>2. JobTypeOK' BY <1>14 DEF TypeOK, JobTypeOK, WorkerTypeOK, SendStop, States
  <2> QED BY <1>14, <2>1, <2>2 DEF TypeOK, BuildTypeOK, OutsideTypeOK, RequestTypeOK,
      SendStop
<1>15. CASE CleanJob
  <2>1. WorkerTypeOK' BY <1>15 DEF TypeOK, WorkerTypeOK, CleanJob, RemoveDataDir, SaveBuild,
      SaveUpload, WorkerPCs
  <2>2. OutsideTypeOK'
    <3>1. db' \in [Jobs -> [build : States, upload : States]]
      BY <1>15, <1>0, SaveType DEF TypeOK, OutsideTypeOK, CleanJob
    <3>2. dataDir' \in [Jobs -> BOOLEAN]
      BY <1>15 DEF TypeOK, OutsideTypeOK, CleanJob, RemoveDataDir
    <3>3. UNCHANGED dbErrs \/ DbFails(cur, "final") BY <1>15 DEF CleanJob
    <3>4. dbErrs' \in [Jobs -> SUBSET {"load", "built", "final"}]
      BY <1>15, <1>0, <3>3, ErrsType DEF TypeOK, OutsideTypeOK, CleanJob
    <3> QED BY <1>15, <3>1, <3>2, <3>4 DEF TypeOK, OutsideTypeOK, CleanJob
  <2> QED BY <1>15, <2>1, <2>2 DEF TypeOK, JobTypeOK, BuildTypeOK, RequestTypeOK, CleanJob
<1>16. CASE FinishJob
  <2>1. WorkerTypeOK' BY <1>16 DEF TypeOK, WorkerTypeOK, FinishJob, WorkerFree, WorkerPCs
  <2> QED BY <1>16, <2>1 DEF TypeOK, JobTypeOK, BuildTypeOK, OutsideTypeOK, RequestTypeOK,
      FinishJob, WorkerFree
<1> QED BY <1>1, <1>2, <1>3, <1>4, <1>5, <1>6, <1>7, <1>8, <1>9, <1>10, <1>11, <1>12, <1>13,
    <1>14, <1>15, <1>16 DEF Worker

\* The build goroutine.
LEMMA BuildType ==
    ASSUME TypeOK, NEW j \in Jobs, Build(j)
    PROVE  TypeOK'
<1>1. CASE PrepareBuild(j)
  <2>1. BuildTypeOK' BY <1>1 DEF TypeOK, BuildTypeOK, PrepareBuild, BuildReturns
  <2> QED BY <1>1, <2>1 DEF TypeOK, WorkerTypeOK, JobTypeOK, OutsideTypeOK, RequestTypeOK,
      PrepareBuild, BuildReturns
<1>2. CASE CreateContainer(j)
  <2>1. BuildTypeOK' BY <1>2 DEF TypeOK, BuildTypeOK, CreateContainer, BuildReturns
  <2>2. OutsideTypeOK'
    <3>1. cont' \in [Jobs -> {"none", "created", "running", "paused", "exit0", "exit1"}]
      BY <1>2 DEF TypeOK, OutsideTypeOK, CreateContainer
    <3> QED BY <1>2, <3>1 DEF TypeOK, OutsideTypeOK, CreateContainer
  <2> QED BY <1>2, <2>1, <2>2 DEF TypeOK, WorkerTypeOK, JobTypeOK, RequestTypeOK,
      CreateContainer
<1>3. CASE StartContainer(j)
  <2>1. BuildTypeOK' BY <1>3 DEF TypeOK, BuildTypeOK, StartContainer, BuildReturns
  <2>2. OutsideTypeOK' BY <1>3 DEF TypeOK, OutsideTypeOK, StartContainer, BuildReturns
  <2> QED BY <1>3, <2>1, <2>2 DEF TypeOK, WorkerTypeOK, JobTypeOK, RequestTypeOK,
      StartContainer, BuildReturns
<1>4. CASE WaitContainer(j)
  <2>1. BuildTypeOK' BY <1>4 DEF TypeOK, BuildTypeOK, WaitContainer, BuildReturns
  <2> QED BY <1>4, <2>1 DEF TypeOK, WorkerTypeOK, JobTypeOK, OutsideTypeOK, RequestTypeOK,
      WaitContainer, BuildReturns
<1>5. CASE ParseResult(j)
  <2>1. JobTypeOK' BY <1>5 DEF TypeOK, JobTypeOK, ParseResult, BuildReturns, States
  <2>2. BuildTypeOK' BY <1>5 DEF TypeOK, BuildTypeOK, ParseResult, BuildReturns
  <2> QED BY <1>5, <2>1, <2>2 DEF TypeOK, WorkerTypeOK, OutsideTypeOK, RequestTypeOK,
      ParseResult, BuildReturns
<1> QED BY <1>1, <1>2, <1>3, <1>4, <1>5 DEF Build

\* The docker daemon and the list handler.
LEMMA OutsideType ==
    ASSUME TypeOK, NEW j \in Jobs, WaitFails(j) \/ ContainerExits(j) \/ ListJobs(j)
    PROVE  TypeOK'
<1>1. CASE WaitFails(j)
  <2>1. BuildTypeOK' BY <1>1 DEF TypeOK, BuildTypeOK, WaitFails, BuildReturns
  <2> QED BY <1>1, <2>1 DEF TypeOK, WorkerTypeOK, JobTypeOK, OutsideTypeOK, RequestTypeOK,
      WaitFails, BuildReturns
<1>2. CASE ContainerExits(j)
  <2>1. OutsideTypeOK' BY <1>2 DEF TypeOK, OutsideTypeOK, ContainerExits
  <2> QED BY <1>2, <2>1 DEF TypeOK, WorkerTypeOK, JobTypeOK, BuildTypeOK, RequestTypeOK,
      ContainerExits
<1>3. CASE ListJobs(j)
  <2>1. JobTypeOK' BY <1>3 DEF TypeOK, JobTypeOK, ListJobs, States
  <2> QED BY <1>3, <2>1 DEF TypeOK, WorkerTypeOK, BuildTypeOK, OutsideTypeOK, RequestTypeOK,
      ListJobs
<1> QED BY <1>1, <1>2, <1>3

\* The log updater.
LEMMA UpdaterType ==
    ASSUME TypeOK, NEW j \in Jobs, Updater(j)
    PROVE  TypeOK'
<1>1. CASE UpdaterTop(j)
  <2>1. JobTypeOK' BY <1>1 DEF TypeOK, JobTypeOK, UpdaterTop, States
  <2>2. BuildTypeOK' BY <1>1 DEF TypeOK, BuildTypeOK, UpdaterTop
  <2> QED BY <1>1, <2>1, <2>2 DEF TypeOK, WorkerTypeOK, OutsideTypeOK, RequestTypeOK,
      UpdaterTop
<1>2. CASE UpdaterReadsState(j)
  <2>1. BuildTypeOK' BY <1>2 DEF TypeOK, BuildTypeOK, UpdaterReadsState
  <2> QED BY <1>2, <2>1 DEF TypeOK, WorkerTypeOK, JobTypeOK, OutsideTypeOK, RequestTypeOK,
      UpdaterReadsState
<1>3. CASE UpdaterGetsLogs(j)
  <2>1. BuildTypeOK' BY <1>3 DEF TypeOK, BuildTypeOK, UpdaterGetsLogs
  <2> QED BY <1>3, <2>1 DEF TypeOK, WorkerTypeOK, JobTypeOK, OutsideTypeOK, RequestTypeOK,
      UpdaterGetsLogs
<1> QED BY <1>1, <1>2, <1>3 DEF Updater

\* A cancel request.
LEMMA CancelType ==
    ASSUME TypeOK, NEW c \in Cancellers, CancelFindJob(c) \/ CancelStep(c)
    PROVE  TypeOK'
<1>0. cpc[c] # "idle" => cjob[c] \in Jobs BY DEF TypeOK, RequestTypeOK
<1>1. CASE CancelFindJob(c)
  <2>1. RequestTypeOK' BY <1>1 DEF TypeOK, RequestTypeOK, WorkerTypeOK, CancelFindJob,
      CancelGoes, CancelPCs
  <2> QED BY <1>1, <2>1 DEF TypeOK, WorkerTypeOK, JobTypeOK, BuildTypeOK, OutsideTypeOK,
      CancelFindJob, CancelGoes
<1>2. CASE CancelSendStop(c)
  <2>1. JobTypeOK' BY <1>2 DEF TypeOK, JobTypeOK, RequestTypeOK, CancelSendStop, CancelGoes,
      States
  <2>2. RequestTypeOK' BY <1>2 DEF TypeOK, RequestTypeOK, CancelSendStop, CancelGoes,
      CancelPCs
  <2> QED BY <1>2, <2>1, <2>2 DEF TypeOK, WorkerTypeOK, BuildTypeOK, OutsideTypeOK,
      CancelSendStop, CancelGoes
<1>3. CASE CancelReadBuild(c)
  <2>1. RequestTypeOK' BY <1>3 DEF TypeOK, RequestTypeOK, CancelReadBuild, CancelGoes,
      CancelPCs
  <2> QED BY <1>3, <2>1 DEF TypeOK, WorkerTypeOK, JobTypeOK, BuildTypeOK, OutsideTypeOK,
      CancelReadBuild, CancelGoes
<1>4. CASE CancelSendBuild(c)
  <2>1. JobTypeOK' BY <1>4 DEF TypeOK, JobTypeOK, RequestTypeOK, CancelSendBuild, CancelGoes,
      States
  <2>2. RequestTypeOK' BY <1>4 DEF TypeOK, RequestTypeOK, CancelSendBuild, CancelGoes,
      CancelPCs
  <2> QED BY <1>4, <2>1, <2>2 DEF TypeOK, WorkerTypeOK, BuildTypeOK, OutsideTypeOK,
      CancelSendBuild, CancelGoes
<1>5. CASE CancelStop(c)
  <2>1. OutsideTypeOK'
    <3>1. cjob[c] \in Jobs BY <1>5, <1>0 DEF CancelStop
    <3>2. cont[cjob[c]] \in {"none", "created", "running", "paused", "exit0", "exit1"}
      BY <1>5, <3>1 DEF TypeOK, OutsideTypeOK
    <3>3. cont' \in [Jobs -> {"none", "created", "running", "paused", "exit0", "exit1"}]
      BY <1>5, <3>2 DEF TypeOK, OutsideTypeOK, CancelStop, StopOutcomes
    <3> QED BY <1>5, <3>3 DEF TypeOK, OutsideTypeOK, CancelStop
  <2>2. RequestTypeOK' BY <1>5 DEF TypeOK, RequestTypeOK, CancelStop, CancelGoes, CancelPCs
  <2> QED BY <1>5, <2>1, <2>2 DEF TypeOK, WorkerTypeOK, JobTypeOK, BuildTypeOK, CancelStop
<1>6. CASE CancelSetBuild(c)
  <2>1. JobTypeOK' BY <1>6 DEF TypeOK, JobTypeOK, RequestTypeOK, CancelSetBuild, CancelGoes,
      States
  <2>2. RequestTypeOK' BY <1>6 DEF TypeOK, RequestTypeOK, CancelSetBuild, CancelGoes,
      CancelPCs
  <2> QED BY <1>6, <2>1, <2>2 DEF TypeOK, WorkerTypeOK, BuildTypeOK, OutsideTypeOK,
      CancelSetBuild, CancelGoes
<1>7. CASE CancelReadUpload(c)
  <2>1. RequestTypeOK' BY <1>7 DEF TypeOK, RequestTypeOK, CancelReadUpload, CancelGoes,
      CancelPCs
  <2> QED BY <1>7, <2>1 DEF TypeOK, WorkerTypeOK, JobTypeOK, BuildTypeOK, OutsideTypeOK,
      CancelReadUpload, CancelGoes
<1>8. CASE CancelSendUpload(c)
  <2>1. JobTypeOK' BY <1>8 DEF TypeOK, JobTypeOK, RequestTypeOK, CancelSendUpload,
      CancelGoes, States
  <2>2. RequestTypeOK' BY <1>8 DEF TypeOK, RequestTypeOK, CancelSendUpload, CancelGoes,
      CancelPCs
  <2> QED BY <1>8, <2>1, <2>2 DEF TypeOK, WorkerTypeOK, BuildTypeOK, OutsideTypeOK,
      CancelSendUpload, CancelGoes
<1>9. CASE CancelSetUpload(c)
  <2>1. JobTypeOK' BY <1>9 DEF TypeOK, JobTypeOK, RequestTypeOK, CancelSetUpload, CancelGoes,
      States
  <2>2. RequestTypeOK' BY <1>9 DEF TypeOK, RequestTypeOK, CancelSetUpload, CancelGoes,
      CancelPCs
  <2> QED BY <1>9, <2>1, <2>2 DEF TypeOK, WorkerTypeOK, BuildTypeOK, OutsideTypeOK,
      CancelSetUpload, CancelGoes
<1>10. CASE CancelFlag(c)
  <2>1. JobTypeOK' BY <1>10 DEF TypeOK, JobTypeOK, RequestTypeOK, CancelFlag, CancelGoes,
      States
  <2>2. RequestTypeOK' BY <1>10 DEF TypeOK, RequestTypeOK, CancelFlag, CancelGoes, CancelPCs
  <2> QED BY <1>10, <2>1, <2>2 DEF TypeOK, WorkerTypeOK, BuildTypeOK, OutsideTypeOK,
      CancelFlag, CancelGoes
<1>11. CASE CancelClean(c)
  <2>1. OutsideTypeOK'
    <3>1. db' \in [Jobs -> [build : States, upload : States]]
      BY <1>11, <1>0, SaveType DEF TypeOK, OutsideTypeOK, CancelClean
    <3>2. dataDir' \in [Jobs -> BOOLEAN]
      BY <1>11, <1>0 DEF TypeOK, OutsideTypeOK, CancelClean, RemoveDataDir
    <3>3. cjob[c] \in Jobs BY <1>11, <1>0 DEF CancelClean
    <3>4. UNCHANGED dbErrs \/ DbFails(cjob[c], "final") BY <1>11 DEF CancelClean
    <3>5. dbErrs' \in [Jobs -> SUBSET {"load", "built", "final"}]
      BY <3>3, <3>4, ErrsType DEF TypeOK, OutsideTypeOK
    <3> QED BY <1>11, <3>1, <3>2, <3>5 DEF TypeOK, OutsideTypeOK, CancelClean
  <2>2. RequestTypeOK' BY <1>11 DEF TypeOK, RequestTypeOK, CancelClean, CancelGoes, CancelPCs
  <2> QED BY <1>11, <2>1, <2>2 DEF TypeOK, WorkerTypeOK, JobTypeOK, BuildTypeOK, CancelClean
<1>12. CASE CancelRespond(c)
  <2>1. RequestTypeOK' BY <1>12 DEF TypeOK, RequestTypeOK, CancelRespond, CancelGoes,
      CancelPCs
  <2> QED BY <1>12, <2>1 DEF TypeOK, WorkerTypeOK, JobTypeOK, BuildTypeOK, OutsideTypeOK,
      CancelRespond, CancelGoes
<1>13. CASE CancelDeleteRow(c)
  <2>1. WorkerTypeOK' BY <1>13 DEF TypeOK, WorkerTypeOK, RequestTypeOK, CancelDeleteRow,
      CancelGoes, WorkerPCs
  <2>2. RequestTypeOK' BY <1>13 DEF TypeOK, RequestTypeOK, CancelDeleteRow, CancelGoes,
      CancelPCs
  <2> QED BY <1>13, <2>1, <2>2 DEF TypeOK, JobTypeOK, BuildTypeOK, OutsideTypeOK,
      CancelDeleteRow, CancelGoes
<1> QED BY <1>1, <1>2, <1>3, <1>4, <1>5, <1>6, <1>7, <1>8, <1>9, <1>10, <1>11, <1>12, <1>13
    DEF CancelStep

\* A pause or resume request.
LEMMA PauseType ==
    ASSUME TypeOK, NEW p \in Pausers, PauseCheck(p) \/ PauseStep(p)
    PROVE  TypeOK'
<1>1. CASE PauseCheck(p)
  <2>1. RequestTypeOK' BY <1>1 DEF TypeOK, RequestTypeOK, WorkerTypeOK, PauseCheck
  <2> QED BY <1>1, <2>1 DEF TypeOK, WorkerTypeOK, JobTypeOK, BuildTypeOK, OutsideTypeOK,
      PauseCheck
<1>2. CASE PauseDocker(p)
  <2>1. OutsideTypeOK'
    <3>1. cont' \in [Jobs -> {"none", "created", "running", "paused", "exit0", "exit1"}]
      BY <1>2 DEF TypeOK, OutsideTypeOK, PauseDocker
    <3> QED BY <1>2, <3>1 DEF TypeOK, OutsideTypeOK, PauseDocker
  <2>2. RequestTypeOK' BY <1>2 DEF TypeOK, RequestTypeOK, PauseDocker, PauseFails
  <2> QED BY <1>2, <2>1, <2>2 DEF TypeOK, WorkerTypeOK, JobTypeOK, BuildTypeOK, PauseDocker
<1>3. CASE PauseSet(p)
  <2>1. JobTypeOK' BY <1>3 DEF TypeOK, JobTypeOK, RequestTypeOK, PauseSet, States
  <2>2. RequestTypeOK' BY <1>3 DEF TypeOK, RequestTypeOK, PauseSet
  <2> QED BY <1>3, <2>1, <2>2 DEF TypeOK, WorkerTypeOK, BuildTypeOK, OutsideTypeOK, PauseSet
<1> QED BY <1>1, <1>2, <1>3 DEF PauseStep
\* A crash: ReloadState yields a state, and no request forgets its job.
LEMMA CrashType ==
    ASSUME TypeOK, Crash
    PROVE  TypeOK'
<1>1. WorkerTypeOK' BY DEF TypeOK, WorkerTypeOK, Crash, WorkerPCs
<1>2. JobTypeOK'
  <2>1. \A j \in Jobs : db[j].build \in States /\ db[j].upload \in States
    BY DEF TypeOK, OutsideTypeOK
  <2>2. \A j \in Jobs : /\ ReloadState(db[j], db[j].build) \in States
                        /\ ReloadState(db[j], db[j].upload) \in States
    BY <2>1 DEF ReloadState, States
  <2>3. bState' \in [Jobs -> States] /\ uState' \in [Jobs -> States]
    BY <2>2 DEF Crash
  <2> QED BY <2>3 DEF JobTypeOK, Crash, ReloadedArgs
<1>3. BuildTypeOK' BY DEF BuildTypeOK, Crash
<1>4. OutsideTypeOK' BY DEF TypeOK, OutsideTypeOK, Crash
<1>5. RequestTypeOK'
  <2>1. cpc' \in [Cancellers -> CancelPCs] BY DEF TypeOK, RequestTypeOK, Crash, CancelPCs
  <2>2. \A c \in Cancellers : (cpc'[c] = "idle") <=> (cpc[c] = "idle")
    BY DEF Crash
  <2>3. crashes' \in 0..MaxCrashes BY DEF TypeOK, RequestTypeOK, Crash
  <2> QED BY <2>1, <2>2, <2>3 DEF TypeOK, RequestTypeOK, Crash
<1> QED BY <1>1, <1>2, <1>3, <1>4, <1>5 DEF TypeOK

LEMMA TypeStep == TypeOK /\ [Next]_vars => TypeOK'
<1> SUFFICES ASSUME TypeOK, [Next]_vars PROVE TypeOK' OBVIOUS
<1>1. CASE Worker BY <1>1, WorkerType
<1>2. CASE \E j \in Jobs :
            Build(j) \/ WaitFails(j) \/ Updater(j) \/ ContainerExits(j) \/ ListJobs(j)
  BY <1>2, BuildType, OutsideType, UpdaterType
<1>3. CASE \E c \in Cancellers : CancelFindJob(c) \/ CancelStep(c) BY <1>3, CancelType
<1>4. CASE \E p \in Pausers : PauseCheck(p) \/ PauseStep(p) BY <1>4, PauseType
<1>5. CASE Crash BY <1>5, CrashType
<1>6. CASE UNCHANGED vars
  BY <1>6 DEF vars, TypeOK, WorkerTypeOK, JobTypeOK, BuildTypeOK, OutsideTypeOK, RequestTypeOK
<1> QED BY <1>1, <1>2, <1>3, <1>4, <1>5, <1>6 DEF Next

\* Every variable stays in its range: the worker has a job exactly when it is
\* not idle (JobQueue.Run), a request has one exactly when it found it.
THEOREM TypeCorrect == Spec => []TypeOK
BY TypeInit, TypeStep, PTL DEF Spec

(***************************************************************************)
(* The inductive invariant                                                 *)
(***************************************************************************)

Began(j) == \E c \in Cancellers : CancelBegan(c, j)

\* The worker's job is in the queue; the other queued jobs have not been
\* started by this process.
QueueInv ==
    /\ wpc # "idle" => cur \in queue
    /\ \A j \in queue : j # cur => gpc[j] = "none" /\ buildRes[j] = "none"

\* A build goroutine runs while the worker awaits it or after a cancel left it
\* behind; a container lives while its build waits for it, or is an orphan.
BuildInv ==
    /\ wpc \in {"begin", "init"} => gpc[cur] = "none" /\ buildRes[cur] = "none"
    /\ \A j \in Jobs : gpc[j] # "none" => buildRes[j] = "none"
    /\ \A j \in Jobs : gpc[j] # "none" => (cur = j /\ wpc = "await") \/ Began(j)
    /\ \A j \in Jobs :
          Live(cont[j]) => gpc[j] = "wait" \/ buildRes[j] = "waitErr" \/ crashes > 0

PastSendBuild(c, j) ==
    cjob[c] = j /\ cpc[c] \notin {"sendStop", "readBuild", "sendBuild"}
PastSendUpload(c, j) ==
    /\ cjob[c] = j
    /\ cpc[c] \notin {"sendStop", "readBuild", "sendBuild", "stop", "setBuild", "readUpload",
                      "sendUpload"}

\* Who put the token into a full channel.
TokenInv ==
    /\ \A j \in Jobs : stopLog[j] =>
          \/ Began(j)
          \/ cur = j /\ wpc \in {"clean", "endBuild", "endUpload", "finish"}
          \/ j \notin queue
    /\ \A j \in Jobs : bCancel[j] => \E c \in Cancellers : PastSendBuild(c, j)
    /\ \A j \in Jobs : uCancel[j] => \E c \in Cancellers : PastSendUpload(c, j)

\* Who removed a data directory.  After a restart no job has arguments.
DataInv ==
    \A j \in Jobs : ~dataDir[j] =>
        \/ Began(j)
        \/ cur = j /\ wpc \in {"endBuild", "endUpload", "finish"}
        \/ j \notin queue
        \/ ~hasArgs[j]

\* Only a job with arguments gets beyond the first step of its build.  A job that
\* was uploaded cannot come to its upload again: its run is over, or it was
\* reloaded without arguments.
UploadInv ==
    /\ \A j \in Jobs : gpc[j] \in {"create", "start", "wait", "parse"} => hasArgs[j]
    /\ \A j \in Jobs : buildRes[j] = "ok" => hasArgs[j]
    /\ wpc \in {"saveBuild", "saveUpload", "check", "upload", "open", "send"} => hasArgs[cur]
    /\ \A j \in Jobs : published[j] > 0 =>
          \/ cur = j /\ wpc \in {"sendStop", "clean", "endBuild", "endUpload", "finish"}
          \/ j \notin queue
          \/ ~hasArgs[j]
    /\ PublishedOnce

\* A job outside the queue does not come back: its row is gone, or its states
\* ended and nobody is about to change them.
OutOfQueueInv ==
    \A j \in Jobs \ queue :
        \/ ~row[j]
        \/ /\ ~Requeued(db[j])
           /\ \A c \in Cancellers :
                 cjob[c] = j => cpc[c] \in {"done", "panicked", "answered", "lost"}

IInv == /\ TypeOK /\ QueueInv /\ BuildInv /\ TokenInv
        /\ DataInv /\ UploadInv /\ OutOfQueueInv

\* A cancel request never goes back to an earlier step, not even by a crash.
LEMMA GoesOn ==
    ASSUME TypeOK, [Next]_vars, NEW c \in Cancellers, NEW j \in Jobs
    PROVE  /\ CancelBegan(c, j) => CancelBegan(c, j)'
           /\ PastSendBuild(c, j) => PastSendBuild(c, j)'
           /\ PastSendUpload(c, j) => PastSendUpload(c, j)'
<1> USE DEF CancelBegan, PastSendBuild, PastSendUpload
<1>0. cjob[c] = j => cpc[c] # "idle" BY DEF TypeOK, RequestTypeOK
<1>1. CASE UNCHANGED <<cpc, cjob>> BY <1>1
<1>2. Worker => UNCHANGED <<cpc, cjob>>
  BY DEF Worker, PickJob, BeginRun, InitBuild, AwaitBuild, AwaitCancel, StopCancelledBuild,
      ReturnCancelled, FailJob, SaveBuilt, CheckCancelled, BeginUpload, OpenFile, SendFile,
      SendStop, CleanJob, FinishJob, WorkerFree
<1>3. ASSUME NEW i \in Jobs,
             Build(i) \/ WaitFails(i) \/ Updater(i) \/ ContainerExits(i) \/ ListJobs(i)
      PROVE  UNCHANGED <<cpc, cjob>>
  BY <1>3 DEF Build, PrepareBuild, CreateContainer, StartContainer, WaitContainer, ParseResult,
      WaitFails, Updater, UpdaterTop, UpdaterReadsState, UpdaterGetsLogs, ContainerExits,
      ListJobs
<1>4. ASSUME NEW p \in Pausers, PauseCheck(p) \/ PauseStep(p)
      PROVE  UNCHANGED <<cpc, cjob>>
  BY <1>4 DEF PauseCheck, PauseStep, PauseDocker, PauseSet
<1>5. ASSUME NEW d \in Cancellers, CancelFindJob(d) \/ CancelStep(d)
      PROVE  /\ CancelBegan(c, j) => CancelBegan(c, j)'
             /\ PastSendBuild(c, j) => PastSendBuild(c, j)'
             /\ PastSendUpload(c, j) => PastSendUpload(c, j)'
  <2> USE DEF CancelGoes, TypeOK, RequestTypeOK
  <2>1. CASE CancelFindJob(d) BY <1>0, <2>1 DEF CancelFindJob
  <2>2. CASE CancelSendStop(d) BY <1>0, <2>2 DEF CancelSendStop
  <2>3. CASE CancelReadBuild(d) BY <1>0, <2>3 DEF CancelReadBuild
  <2>4. CASE CancelSendBuild(d) BY <1>0, <2>4 DEF CancelSendBuild
  <2>5. CASE CancelStop(d) BY <1>0, <2>5 DEF CancelStop
  <2>6. CASE CancelSetBuild(d) BY <1>0, <2>6 DEF CancelSetBuild
  <2>7. CASE CancelReadUpload(d) BY <1>0, <2>7 DEF CancelReadUpload
  <2>8. CASE CancelSendUpload(d) BY <1>0, <2>8 DEF CancelSendUpload
  <2>9. CASE CancelSetUpload(d) BY <1>0, <2>9 DEF CancelSetUpload
  <2>10. CASE CancelFlag(d) BY <1>0, <2>10 DEF CancelFlag
  <2>11. CASE CancelClean(d) BY <1>0, <2>11 DEF CancelClean
  <2>12. CASE CancelRespond(d) BY <1>0, <2>12 DEF CancelRespond
  <2>13. CASE CancelDeleteRow(d) BY <1>0, <2>13 DEF CancelDeleteRow
  <2> QED BY <1>5, <2>1, <2>2, <2>3, <2>4, <2>5, <2>6, <2>7, <2>8, <2>9, <2>10, <2>11, <2>12,
      <2>13 DEF CancelStep
<1>6. CASE Crash BY <1>0, <1>6 DEF Crash, TypeOK, RequestTypeOK
<1> QED BY <1>1, <1>2, <1>3, <1>4, <1>5, <1>6 DEF Next, vars

LEMMA BeganStays ==
    ASSUME TypeOK, [Next]_vars, NEW j \in Jobs
    PROVE  /\ Began(j) => Began(j)'
           /\ (\E c \in Cancellers : PastSendBuild(c, j))
                => (\E c \in Cancellers : PastSendBuild(c, j))'
           /\ (\E c \in Cancellers : PastSendUpload(c, j))
                => (\E c \in Cancellers : PastSendUpload(c, j))'
BY GoesOn DEF Began

LEMMA InvInit == Init => IInv
<1> SUFFICES ASSUME Init PROVE IInv OBVIOUS
<1>1. TypeOK BY TypeInit
<1>2. QueueInv /\ BuildInv BY DEF Init, QueueInv, BuildInv, Live
<1>3. TokenInv /\ DataInv BY DEF Init, TokenInv, DataInv
<1>4. UploadInv /\ OutOfQueueInv BY DEF Init, UploadInv, PublishedOnce, OutOfQueueInv
<1> QED BY <1>1, <1>2, <1>3, <1>4 DEF IInv

\* A build goroutine only goes on with a job that the worker took.
LEMMA QueueStep == ASSUME IInv, [Next]_vars PROVE QueueInv'
<1>0. TypeOK /\ TypeOK' BY TypeStep DEF IInv
<1> USE DEF IInv, QueueInv, TypeOK, WorkerTypeOK, BuildTypeOK
<1>1. UNCHANGED <<wpc, cur, queue, gpc, buildRes>> => QueueInv'
  BY <1>0
<1>2. CASE Worker
  <2>1. CASE PickJob
    BY <1>0, <2>1 DEF PickJob
  <2>2. CASE BeginRun
    BY <1>0, <2>2 DEF BeginRun
  <2>3. CASE InitBuild
    BY <1>0, <2>3 DEF InitBuild
  <2>4. CASE AwaitBuild
    BY <1>0, <2>4 DEF AwaitBuild
  <2>5. CASE AwaitCancel
    BY <1>0, <2>5 DEF AwaitCancel
  <2>6. CASE StopCancelledBuild
    BY <1>0, <2>6 DEF StopCancelledBuild
  <2>7. CASE ReturnCancelled
    BY <1>0, <2>7 DEF ReturnCancelled
  <2>8. CASE FailJob
    BY <1>0, <2>8 DEF FailJob
  <2>9. CASE SaveBuilt
    BY <1>0, <2>9 DEF SaveBuilt
  <2>10. CASE CheckCancelled
    BY <1>0, <2>10 DEF CheckCancelled
  <2>11. CASE BeginUpload
    BY <1>0, <2>11 DEF BeginUpload
  <2>12. CASE OpenFile
    BY <1>0, <2>12 DEF OpenFile, UploadFails
  <2>13. CASE SendFile
    BY <1>0, <2>13 DEF SendFile, UploadFails
  <2>14. CASE SendStop
    BY <1>0, <2>14 DEF SendStop
  <2>15. CASE CleanJob
    BY <1>0, <2>15 DEF CleanJob
  <2>16. CASE FinishJob
    BY <1>0, <2>16 DEF FinishJob, WorkerFree
  <2> QED BY <1>2, <2>1, <2>2, <2>3, <2>4, <2>5, <2>6, <2>7, <2>8, <2>9, <2>10, <2>11, <2>12,
      <2>13, <2>14, <2>15, <2>16 DEF Worker
<1>3. ASSUME NEW j \in Jobs, Build(j) PROVE QueueInv'
  <2>1. CASE PrepareBuild(j)
    BY <1>0, <2>1 DEF PrepareBuild, BuildReturns
  <2>2. CASE CreateContainer(j)
    BY <1>0, <2>2 DEF CreateContainer, BuildReturns
  <2>3. CASE StartContainer(j)
    BY <1>0, <2>3 DEF StartContainer, BuildReturns
  <2>4. CASE WaitContainer(j)
    BY <1>0, <2>4 DEF WaitContainer, BuildReturns
  <2>5. CASE ParseResult(j)
    BY <1>0, <2>5 DEF ParseResult, BuildReturns
  <2> QED BY <1>3, <2>1, <2>2, <2>3, <2>4, <2>5 DEF Build
<1>4. ASSUME NEW j \in Jobs, WaitFails(j) PROVE QueueInv'
  BY <1>0, <1>4 DEF WaitFails, BuildReturns
<1>5. CASE Crash
  BY <1>0, <1>5 DEF Crash
<1>6. ASSUME NEW j \in Jobs, Updater(j) \/ ContainerExits(j) \/ ListJobs(j)
      PROVE  QueueInv'
  BY <1>1, <1>6 DEF Updater, UpdaterTop, UpdaterReadsState, UpdaterGetsLogs, ContainerExits,
      ListJobs
<1>7. ASSUME NEW c \in Cancellers, CancelFindJob(c) \/ CancelStep(c)
      PROVE  QueueInv'
  BY <1>1, <1>7 DEF CancelStep, CancelFindJob, CancelSendStop, CancelReadBuild,
      CancelSendBuild, CancelStop, CancelSetBuild, CancelReadUpload, CancelSendUpload,
      CancelSetUpload, CancelFlag, CancelClean, CancelRespond, CancelDeleteRow
<1>8. ASSUME NEW p \in Pausers, PauseCheck(p) \/ PauseStep(p)
      PROVE  QueueInv'
  BY <1>1, <1>8 DEF PauseStep, PauseCheck, PauseDocker, PauseSet
<1> QED BY <1>1, <1>2, <1>3, <1>4, <1>5, <1>6, <1>7, <1>8 DEF Next, vars

\* Only the worker starts builds; only the build, the daemon and docker calls touch
\* the container.
LEMMA BuildStep == ASSUME IInv, [Next]_vars PROVE BuildInv'
<1>0. TypeOK /\ TypeOK' BY TypeStep DEF IInv
<1> USE DEF IInv, BuildInv, QueueInv, TypeOK, WorkerTypeOK, BuildTypeOK, OutsideTypeOK, Live,
    Exited
<1>1. UNCHANGED <<wpc, cur, gpc, buildRes, cont, crashes>> => BuildInv'
  BY <1>0, BeganStays
<1>2. CASE Worker
  <2>1. CASE PickJob
    BY <1>0, <2>1, BeganStays DEF PickJob
  <2>2. CASE BeginRun
    BY <1>0, <2>2, BeganStays DEF BeginRun
  <2>3. CASE InitBuild
    BY <1>0, <2>3, BeganStays DEF InitBuild
  <2>4. CASE AwaitBuild
    BY <1>0, <2>4, BeganStays DEF AwaitBuild, BuildDone
  <2>5. CASE AwaitCancel
    BY <1>0, <2>5, BeganStays DEF AwaitCancel, TokenInv, PastSendBuild, Began, CancelBegan
  <2>6. CASE StopCancelledBuild
    BY <1>0, <2>6, BeganStays DEF StopCancelledBuild, StopOutcomes
  <2>7. CASE ReturnCancelled
    BY <1>0, <2>7, BeganStays DEF ReturnCancelled
  <2>8. CASE FailJob
    BY <1>0, <2>8, BeganStays DEF FailJob
  <2>9. CASE SaveBuilt
    BY <1>0, <2>9, BeganStays DEF SaveBuilt
  <2>10. CASE CheckCancelled
    BY <1>0, <2>10, BeganStays DEF CheckCancelled
  <2>11. CASE BeginUpload
    BY <1>0, <2>11, BeganStays DEF BeginUpload
  <2>12. CASE OpenFile
    BY <1>0, <2>12, BeganStays DEF OpenFile, UploadFails
  <2>13. CASE SendFile
    BY <1>0, <2>13, BeganStays DEF SendFile, UploadFails
  <2>14. CASE SendStop
    BY <1>0, <2>14, BeganStays DEF SendStop
  <2>15. CASE CleanJob
    BY <1>0, <2>15, BeganStays DEF CleanJob
  <2>16. CASE FinishJob
    BY <1>0, <2>16, BeganStays DEF FinishJob, WorkerFree
  <2> QED BY <1>2, <2>1, <2>2, <2>3, <2>4, <2>5, <2>6, <2>7, <2>8, <2>9, <2>10, <2>11, <2>12,
      <2>13, <2>14, <2>15, <2>16 DEF Worker
<1>3. ASSUME NEW j \in Jobs, Build(j) PROVE BuildInv'
  <2>1. CASE PrepareBuild(j)
    BY <1>0, <2>1, BeganStays DEF PrepareBuild, BuildReturns
  <2>2. CASE CreateContainer(j)
    BY <1>0, <2>2, BeganStays DEF CreateContainer, BuildReturns
  <2>3. CASE StartContainer(j)
    BY <1>0, <2>3, BeganStays DEF StartContainer, BuildReturns
  <2>4. CASE WaitContainer(j)
    BY <1>0, <2>4, BeganStays DEF WaitContainer, BuildReturns
  <2>5. CASE ParseResult(j)
    BY <1>0, <2>5, BeganStays DEF ParseResult, BuildReturns
  <2> QED BY <1>3, <2>1, <2>2, <2>3, <2>4, <2>5 DEF Build
<1>4. ASSUME NEW j \in Jobs, WaitFails(j) PROVE BuildInv'
  BY <1>0, <1>4, BeganStays DEF WaitFails, BuildReturns
<1>5. ASSUME NEW j \in Jobs, ContainerExits(j) PROVE BuildInv'
  BY <1>0, <1>5, BeganStays DEF ContainerExits
<1>6. ASSUME NEW c \in Cancellers, CancelFindJob(c) \/ CancelStep(c) PROVE BuildInv'
  <2>1. CASE CancelStop(c)
    BY <1>0, <2>1, BeganStays DEF CancelStop, StopOutcomes
  <2>2. CASE CancelFindJob(c) \/ CancelSendStop(c) \/ CancelReadBuild(c) \/
      CancelSendBuild(c) \/ CancelSetBuild(c) \/ CancelReadUpload(c) \/ CancelSendUpload(c)
      \/ CancelSetUpload(c) \/ CancelFlag(c) \/ CancelClean(c) \/ CancelRespond(c) \/
      CancelDeleteRow(c)
    BY <1>1, <2>2 DEF CancelFindJob, CancelSendStop, CancelReadBuild, CancelSendBuild,
        CancelSetBuild, CancelReadUpload, CancelSendUpload, CancelSetUpload, CancelFlag,
        CancelClean, CancelRespond, CancelDeleteRow
  <2> QED BY <1>6, <2>1, <2>2 DEF CancelStep
<1>7. ASSUME NEW p \in Pausers, PauseCheck(p) \/ PauseStep(p) PROVE BuildInv'
  <2>1. CASE PauseDocker(p)
    BY <1>0, <2>1, BeganStays DEF PauseDocker, PauseFails
  <2>2. CASE PauseCheck(p) \/ PauseSet(p)
    BY <1>1, <2>2 DEF PauseCheck, PauseSet
  <2> QED BY <1>7, <2>1, <2>2 DEF PauseStep
<1>8. CASE Crash
  BY <1>0, <1>8 DEF RequestTypeOK, Crash
<1>9. ASSUME NEW j \in Jobs, Updater(j) \/ ListJobs(j)
      PROVE  BuildInv'
  BY <1>1, <1>9 DEF Updater, UpdaterTop, UpdaterReadsState, UpdaterGetsLogs, ListJobs
<1> QED BY <1>1, <1>2, <1>3, <1>4, <1>5, <1>6, <1>7, <1>8, <1>9 DEF Next, vars

\* Tokens come from the sends of Job.Run, Job.Cancel, BuildJob.cancel and
\* UploadJob.cancel.
LEMMA TokenStep == ASSUME IInv, [Next]_vars PROVE TokenInv'
<1>0. TypeOK /\ TypeOK' BY TypeStep DEF IInv
<1> USE DEF IInv, TokenInv, QueueInv, TypeOK, WorkerTypeOK, JobTypeOK, RequestTypeOK
<1>1. UNCHANGED <<wpc, cur, queue, stopLog, bCancel, uCancel>> => TokenInv'
  BY <1>0, BeganStays
<1>2. CASE Worker
  <2>1. CASE PickJob
    BY <1>0, <2>1, BeganStays DEF PickJob
  <2>2. CASE BeginRun
    BY <1>0, <2>2, BeganStays DEF BeginRun
  <2>3. CASE InitBuild
    BY <1>0, <2>3, BeganStays DEF InitBuild
  <2>4. CASE AwaitBuild
    BY <1>0, <2>4, BeganStays DEF AwaitBuild
  <2>5. CASE AwaitCancel
    BY <1>0, <2>5, BeganStays DEF AwaitCancel
  <2>6. CASE StopCancelledBuild
    BY <1>0, <2>6, BeganStays DEF StopCancelledBuild
  <2>7. CASE ReturnCancelled
    BY <1>0, <2>7, BeganStays DEF ReturnCancelled
  <2>8. CASE FailJob
    BY <1>0, <2>8, BeganStays DEF FailJob
  <2>9. CASE SaveBuilt
    BY <1>0, <2>9, BeganStays DEF SaveBuilt
  <2>10. CASE CheckCancelled
    BY <1>0, <2>10, BeganStays DEF CheckCancelled
  <2>11. CASE BeginUpload
    BY <1>0, <2>11, BeganStays DEF BeginUpload
  <2>12. CASE OpenFile
    BY <1>0, <2>12, BeganStays DEF OpenFile, UploadFails
  <2>13. CASE SendFile
    BY <1>0, <2>13, BeganStays DEF SendFile, UploadFails
  <2>14. CASE SendStop
    BY <1>0, <2>14, BeganStays DEF SendStop
  <2>15. CASE CleanJob
    BY <1>0, <2>15, BeganStays DEF CleanJob
  <2>16. CASE FinishJob
    BY <1>0, <2>16, BeganStays DEF FinishJob, WorkerFree
  <2> QED BY <1>2, <2>1, <2>2, <2>3, <2>4, <2>5, <2>6, <2>7, <2>8, <2>9, <2>10, <2>11, <2>12,
      <2>13, <2>14, <2>15, <2>16 DEF Worker
<1>3. ASSUME NEW j \in Jobs, Updater(j) PROVE TokenInv'
  <2>1. CASE UpdaterTop(j)
    BY <1>0, <2>1, BeganStays DEF UpdaterTop
  <2>2. CASE UpdaterReadsState(j) \/ UpdaterGetsLogs(j)
    BY <1>1, <2>2 DEF UpdaterReadsState, UpdaterGetsLogs
  <2> QED BY <1>3, <2>1, <2>2 DEF Updater
<1>4. ASSUME NEW c \in Cancellers, CancelFindJob(c) \/ CancelStep(c) PROVE TokenInv'
  <2>1. CASE CancelSendStop(c)
    BY <1>0, <2>1, BeganStays DEF CancelSendStop, CancelGoes, Began, CancelBegan,
        PastSendBuild, PastSendUpload
  <2>2. CASE CancelSendBuild(c)
    BY <1>0, <2>2, BeganStays DEF CancelSendBuild, CancelGoes, Began, CancelBegan,
        PastSendBuild, PastSendUpload
  <2>3. CASE CancelSendUpload(c)
    BY <1>0, <2>3, BeganStays DEF CancelSendUpload, CancelGoes, Began, CancelBegan,
        PastSendBuild, PastSendUpload
  <2>4. CASE CancelFindJob(c) \/ CancelReadBuild(c) \/ CancelStop(c) \/ CancelSetBuild(c) \/
      CancelReadUpload(c) \/ CancelSetUpload(c) \/ CancelFlag(c) \/ CancelClean(c) \/
      CancelRespond(c) \/ CancelDeleteRow(c)
    BY <1>1, <2>4 DEF CancelFindJob, CancelReadBuild, CancelStop, CancelSetBuild,
        CancelReadUpload, CancelSetUpload, CancelFlag, CancelClean, CancelRespond,
        CancelDeleteRow
  <2> QED BY <1>4, <2>1, <2>2, <2>3, <2>4 DEF CancelStep
<1>5. CASE Crash
  BY <1>0, <1>5, BeganStays DEF Crash
<1>6. ASSUME NEW j \in Jobs, Build(j) \/ WaitFails(j) \/ ContainerExits(j) \/ ListJobs(j)
      PROVE  TokenInv'
  BY <1>1, <1>6 DEF Build, PrepareBuild, CreateContainer, StartContainer, WaitContainer,
      ParseResult, WaitFails, ContainerExits, ListJobs
<1>7. ASSUME NEW p \in Pausers, PauseCheck(p) \/ PauseStep(p)
      PROVE  TokenInv'
  BY <1>1, <1>7 DEF PauseStep, PauseCheck, PauseDocker, PauseSet
<1> QED BY <1>1, <1>2, <1>3, <1>4, <1>5, <1>6, <1>7 DEF Next, vars

\* Data directories go in the two calls of Job.cleanup.
LEMMA DataStep == ASSUME IInv, [Next]_vars PROVE DataInv'
<1>0. TypeOK /\ TypeOK' BY TypeStep DEF IInv
<1> USE DEF IInv, DataInv, TypeOK, WorkerTypeOK, OutsideTypeOK, RequestTypeOK
<1>1. UNCHANGED <<wpc, cur, queue, dataDir, hasArgs>> => DataInv'
  BY <1>0, BeganStays
<1>2. CASE Worker
  <2>1. CASE PickJob
    BY <1>0, <2>1, BeganStays DEF PickJob
  <2>2. CASE BeginRun
    BY <1>0, <2>2, BeganStays DEF BeginRun
  <2>3. CASE InitBuild
    BY <1>0, <2>3, BeganStays DEF InitBuild
  <2>4. CASE AwaitBuild
    BY <1>0, <2>4, BeganStays DEF AwaitBuild
  <2>5. CASE AwaitCancel
    BY <1>0, <2>5, BeganStays DEF AwaitCancel
  <2>6. CASE StopCancelledBuild
    BY <1>0, <2>6, BeganStays DEF StopCancelledBuild
  <2>7. CASE ReturnCancelled
    BY <1>0, <2>7, BeganStays DEF ReturnCancelled
  <2>8. CASE FailJob
    BY <1>0, <2>8, BeganStays DEF FailJob
  <2>9. CASE SaveBuilt
    BY <1>0, <2>9, BeganStays DEF SaveBuilt
  <2>10. CASE CheckCancelled
    BY <1>0, <2>10, BeganStays DEF CheckCancelled
  <2>11. CASE BeginUpload
    BY <1>0, <2>11, BeganStays DEF BeginUpload
  <2>12. CASE OpenFile
    BY <1>0, <2>12, BeganStays DEF OpenFile, UploadFails
  <2>13. CASE SendFile
    BY <1>0, <2>13, BeganStays DEF SendFile, UploadFails
  <2>14. CASE SendStop
    BY <1>0, <2>14, BeganStays DEF SendStop
  <2>15. CASE CleanJob
    BY <1>0, <2>15, BeganStays DEF CleanJob, RemoveDataDir
  <2>16. CASE FinishJob
    BY <1>0, <2>16, BeganStays DEF FinishJob, WorkerFree
  <2> QED BY <1>2, <2>1, <2>2, <2>3, <2>4, <2>5, <2>6, <2>7, <2>8, <2>9, <2>10, <2>11, <2>12,
      <2>13, <2>14, <2>15, <2>16 DEF Worker
<1>3. ASSUME NEW c \in Cancellers, CancelFindJob(c) \/ CancelStep(c) PROVE DataInv'
  <2>1. CASE CancelClean(c)
    BY <1>0, <2>1, BeganStays DEF CancelClean, RemoveDataDir, CancelGoes, Began, CancelBegan
  <2>2. CASE CancelFindJob(c) \/ CancelSendStop(c) \/ CancelReadBuild(c) \/
      CancelSendBuild(c) \/ CancelStop(c) \/ CancelSetBuild(c) \/ CancelReadUpload(c) \/
      CancelSendUpload(c) \/ CancelSetUpload(c) \/ CancelFlag(c) \/ CancelRespond(c) \/
      CancelDeleteRow(c)
    BY <1>1, <2>2 DEF CancelFindJob, CancelSendStop, CancelReadBuild, CancelSendBuild,
        CancelStop, CancelSetBuild, CancelReadUpload, CancelSendUpload, CancelSetUpload,
        CancelFlag, CancelRespond, CancelDeleteRow
  <2> QED BY <1>3, <2>1, <2>2 DEF CancelStep
<1>4. CASE Crash
  BY <1>0, <1>4, BeganStays DEF Crash, ReloadedArgs
<1>5. ASSUME NEW j \in Jobs, Build(j) \/ WaitFails(j) \/ Updater(j) \/ ContainerExits(j) \/
    ListJobs(j)
      PROVE  DataInv'
  BY <1>1, <1>5 DEF Build, PrepareBuild, CreateContainer, StartContainer, WaitContainer,
      ParseResult, WaitFails, Updater, UpdaterTop, UpdaterReadsState, UpdaterGetsLogs,
      ContainerExits, ListJobs
<1>6. ASSUME NEW p \in Pausers, PauseCheck(p) \/ PauseStep(p)
      PROVE  DataInv'
  BY <1>1, <1>6 DEF PauseStep, PauseCheck, PauseDocker, PauseSet
<1> QED BY <1>1, <1>2, <1>3, <1>4, <1>5, <1>6 DEF Next, vars

\* Only SendFile uploads, and only the build of a job with arguments leads there.
LEMMA UploadStep == ASSUME IInv, [Next]_vars PROVE UploadInv'
<1>0. TypeOK /\ TypeOK' BY TypeStep DEF IInv
<1> USE DEF IInv, UploadInv, QueueInv, PublishedOnce, TypeOK, WorkerTypeOK, BuildTypeOK,
    OutsideTypeOK
<1>1. UNCHANGED <<wpc, cur, queue, gpc, buildRes, published, hasArgs>> => UploadInv'
  BY <1>0
<1>2. CASE Worker
  <2>1. CASE PickJob
    BY <1>0, <2>1 DEF PickJob
  <2>2. CASE BeginRun
    BY <1>0, <2>2 DEF BeginRun
  <2>3. CASE InitBuild
    BY <1>0, <2>3 DEF InitBuild
  <2>4. CASE AwaitBuild
    BY <1>0, <2>4 DEF AwaitBuild, BuildDone
  <2>5. CASE AwaitCancel
    BY <1>0, <2>5 DEF AwaitCancel
  <2>6. CASE StopCancelledBuild
    BY <1>0, <2>6 DEF StopCancelledBuild
  <2>7. CASE ReturnCancelled
    BY <1>0, <2>7 DEF ReturnCancelled
  <2>8. CASE FailJob
    BY <1>0, <2>8 DEF FailJob
  <2>9. CASE SaveBuilt
    BY <1>0, <2>9 DEF SaveBuilt
  <2>10. CASE CheckCancelled
    BY <1>0, <2>10 DEF CheckCancelled
  <2>11. CASE BeginUpload
    BY <1>0, <2>11 DEF BeginUpload
  <2>12. CASE OpenFile
    BY <1>0, <2>12 DEF OpenFile, UploadFails
  <2>13. CASE SendFile
    BY <1>0, <2>13 DEF SendFile, UploadFails
  <2>14. CASE SendStop
    BY <1>0, <2>14 DEF SendStop
  <2>15. CASE CleanJob
    BY <1>0, <2>15 DEF CleanJob
  <2>16. CASE FinishJob
    BY <1>0, <2>16 DEF FinishJob, WorkerFree
  <2> QED BY <1>2, <2>1, <2>2, <2>3, <2>4, <2>5, <2>6, <2>7, <2>8, <2>9, <2>10, <2>11, <2>12,
      <2>13, <2>14, <2>15, <2>16 DEF Worker
<1>3. ASSUME NEW j \in Jobs, Build(j) PROVE UploadInv'
  <2>1. CASE PrepareBuild(j)
    BY <1>0, <2>1 DEF PrepareBuild, BuildReturns
  <2>2. CASE CreateContainer(j)
    BY <1>0, <2>2 DEF CreateContainer, BuildReturns
  <2>3. CASE StartContainer(j)
    BY <1>0, <2>3 DEF StartContainer, BuildReturns
  <2>4. CASE WaitContainer(j)
    BY <1>0, <2>4 DEF WaitContainer, BuildReturns
  <2>5. CASE ParseResult(j)
    BY <1>0, <2>5 DEF ParseResult, BuildReturns
  <2> QED BY <1>3, <2>1, <2>2, <2>3, <2>4, <2>5 DEF Build
<1>4. ASSUME NEW j \in Jobs, WaitFails(j) PROVE UploadInv'
  BY <1>0, <1>4 DEF WaitFails, BuildReturns
<1>5. CASE Crash
  BY <1>0, <1>5 DEF Crash, ReloadedArgs
<1>6. ASSUME NEW j \in Jobs, Updater(j) \/ ContainerExits(j) \/ ListJobs(j)
      PROVE  UploadInv'
  BY <1>1, <1>6 DEF Updater, UpdaterTop, UpdaterReadsState, UpdaterGetsLogs, ContainerExits,
      ListJobs
<1>7. ASSUME NEW c \in Cancellers, CancelFindJob(c) \/ CancelStep(c)
      PROVE  UploadInv'
  BY <1>1, <1>7 DEF CancelStep, CancelFindJob, CancelSendStop, CancelReadBuild,
      CancelSendBuild, CancelStop, CancelSetBuild, CancelReadUpload, CancelSendUpload,
      CancelSetUpload, CancelFlag, CancelClean, CancelRespond, CancelDeleteRow
<1>8. ASSUME NEW p \in Pausers, PauseCheck(p) \/ PauseStep(p)
      PROVE  UploadInv'
  BY <1>1, <1>8 DEF PauseStep, PauseCheck, PauseDocker, PauseSet
<1> QED BY <1>1, <1>2, <1>3, <1>4, <1>5, <1>6, <1>7, <1>8 DEF Next, vars

\* Jobs leave the queue with their row, or at a restart that finds them ended.
LEMMA OutOfQueueStep == ASSUME IInv, [Next]_vars PROVE OutOfQueueInv'
<1>0. TypeOK /\ TypeOK' BY TypeStep DEF IInv
<1> USE DEF IInv, OutOfQueueInv, QueueInv, TypeOK, WorkerTypeOK, OutsideTypeOK, RequestTypeOK
<1>1. UNCHANGED <<queue, row, db, cpc, cjob>> => OutOfQueueInv'
  BY <1>0
<1>2. CASE Worker
  <2>1. CASE BeginRun
    <3>1. \A j \in Jobs : j # cur => db'[j] = db[j]
      BY <1>0, <2>1 DEF BeginRun, SaveBuild
    <3>2. cur \in queue BY <2>1 DEF BeginRun
    <3> QED BY <1>0, <3>1, <3>2, <2>1 DEF BeginRun
  <2>2. CASE SaveBuilt
    <3>1. \A j \in Jobs : j # cur => db'[j] = db[j]
      BY <1>0, <2>2 DEF SaveBuilt, SaveBuild, SaveUpload
    <3>2. cur \in queue BY <2>2 DEF SaveBuilt
    <3> QED BY <1>0, <3>1, <3>2, <2>2 DEF SaveBuilt
  <2>3. CASE CleanJob
    BY <1>0, <2>3 DEF CleanJob, SaveBuild, SaveUpload
  <2>4. CASE FinishJob
    BY <1>0, <2>4 DEF FinishJob, WorkerFree
  <2>5. CASE PickJob \/ InitBuild \/ AwaitBuild \/ AwaitCancel \/ StopCancelledBuild \/
      ReturnCancelled \/ FailJob \/ CheckCancelled \/ BeginUpload \/ OpenFile \/ SendFile \/
      SendStop
    BY <1>1, <2>5 DEF PickJob, InitBuild, AwaitBuild, AwaitCancel, StopCancelledBuild,
        ReturnCancelled, FailJob, CheckCancelled, BeginUpload, OpenFile, SendFile, SendStop
  <2> QED BY <1>2, <2>1, <2>2, <2>3, <2>4, <2>5 DEF Worker
<1>3. ASSUME NEW c \in Cancellers, CancelFindJob(c) \/ CancelStep(c) PROVE OutOfQueueInv'
  <2>1. CASE CancelFindJob(c)
    <3>1. PICK i \in queue : cjob' = [cjob EXCEPT ![c] = i] BY <2>1 DEF CancelFindJob
    <3>2. \A d \in Cancellers : d # c => cpc'[d] = cpc[d] /\ cjob'[d] = cjob[d]
      BY <3>1, <2>1 DEF CancelFindJob, CancelGoes
    <3>3. cjob'[c] = i BY <1>0, <3>1
    <3>4. queue' = queue /\ row' = row /\ db' = db BY <2>1 DEF CancelFindJob
    <3>5. SUFFICES ASSUME NEW k \in Jobs \ queue, row[k], NEW d \in Cancellers, cjob'[d] = k
                   PROVE  cpc'[d] \in {"done", "panicked", "answered", "lost"}
      BY <3>4
    <3>6. d # c BY <3>3, <3>5
    <3> QED BY <3>2, <3>5, <3>6
  <2>2. CASE CancelSendStop(c)
    BY <1>0, <2>2 DEF CancelSendStop, CancelGoes
  <2>3. CASE CancelReadBuild(c)
    BY <1>0, <2>3 DEF CancelReadBuild, CancelGoes
  <2>4. CASE CancelSendBuild(c)
    BY <1>0, <2>4 DEF CancelSendBuild, CancelGoes
  <2>5. CASE CancelStop(c)
    BY <1>0, <2>5 DEF CancelStop, CancelGoes
  <2>6. CASE CancelSetBuild(c)
    BY <1>0, <2>6 DEF CancelSetBuild, CancelGoes
  <2>7. CASE CancelReadUpload(c)
    BY <1>0, <2>7 DEF CancelReadUpload, CancelGoes
  <2>8. CASE CancelSendUpload(c)
    BY <1>0, <2>8 DEF CancelSendUpload, CancelGoes
  <2>9. CASE CancelSetUpload(c)
    BY <1>0, <2>9 DEF CancelSetUpload, CancelGoes
  <2>10. CASE CancelFlag(c)
    BY <1>0, <2>10 DEF CancelFlag, CancelGoes
  <2>11. CASE CancelClean(c)
    <3>1. \A j \in Jobs : j # cjob[c] => db'[j] = db[j]
      BY <1>0, <2>11 DEF CancelClean, SaveBuild, SaveUpload
    <3>2. \A j \in Jobs : cjob[c] = j => j \in queue \/ ~row[j]
      BY <1>0, <2>11 DEF CancelClean
    <3>3. \A d \in Cancellers : d # c => cpc'[d] = cpc[d]
      BY <1>0, <2>11 DEF CancelClean, CancelGoes
    <3>4. queue' = queue /\ row' = row /\ cjob' = cjob BY <2>11 DEF CancelClean
    <3> QED BY <1>0, <3>1, <3>2, <3>3, <3>4
  <2>12. CASE CancelRespond(c)
    BY <1>0, <2>12 DEF CancelRespond, CancelGoes
  <2>13. CASE CancelDeleteRow(c)
    BY <1>0, <2>13 DEF CancelDeleteRow, CancelGoes
  <2> QED BY <1>3, <2>1, <2>2, <2>3, <2>4, <2>5, <2>6, <2>7, <2>8, <2>9, <2>10, <2>11, <2>12,
      <2>13 DEF CancelStep
<1>4. CASE Crash
  BY <1>0, <1>4 DEF Crash
<1>5. ASSUME NEW j \in Jobs, Build(j) \/ WaitFails(j) \/ Updater(j) \/ ContainerExits(j) \/
    ListJobs(j)
      PROVE  OutOfQueueInv'
  BY <1>1, <1>5 DEF Build, PrepareBuild, CreateContainer, StartContainer, WaitContainer,
      ParseResult, WaitFails, Updater, UpdaterTop, UpdaterReadsState, UpdaterGetsLogs,
      ContainerExits, ListJobs
<1>6. ASSUME NEW p \in Pausers, PauseCheck(p) \/ PauseStep(p)
      PROVE  OutOfQueueInv'
  BY <1>1, <1>6 DEF PauseStep, PauseCheck, PauseDocker, PauseSet
<1> QED BY <1>1, <1>2, <1>3, <1>4, <1>5, <1>6 DEF Next, vars

LEMMA InvStep == IInv /\ [Next]_vars => IInv'
<1> SUFFICES ASSUME IInv, [Next]_vars PROVE IInv' OBVIOUS
<1>1. TypeOK' BY TypeStep DEF IInv
<1> QED
  BY <1>1, QueueStep, BuildStep, TokenStep, DataStep, UploadStep, OutOfQueueStep DEF IInv

LEMMA Invariance == Spec => []IInv
BY InvInit, InvStep, PTL DEF Spec

(***************************************************************************)
(* The safety properties of the runs                                       *)
(***************************************************************************)

\* "Only one job can be run at the same time" (README.md:20) holds as long as
\* no job is cancelled, no wait for a container fails and the server stays up:
\* whatever container lives while the worker is not on its job is an orphan.
THEOREM OrphansOnlyAfterCancel == Spec => []OrphansWereCancelled
<1>1. IInv => OrphansWereCancelled
  BY DEF IInv, BuildInv, OrphansWereCancelled, Began
<1> QED BY <1>1, Invariance, PTL

\* The deferred send of Job.Run (Job.go:211) blocks only after a cancel of the job.
THEOREM WedgeOnlyAfterCancel == Spec => []WorkerBlocksOnlyAfterCancel
<1>1. IInv => WorkerBlocksOnlyAfterCancel
  BY DEF IInv, TypeOK, WorkerTypeOK, QueueInv, TokenInv, WorkerBlocksOnlyAfterCancel, Began
<1> QED BY <1>1, Invariance, PTL

\* The first cancel of a job whose run goes on finds room in the three channels
\* (Job.go:118, BuildJob.go:322, UploadJob.go:183).
THEOREM FirstCancelGoesThrough == Spec => []FirstCancelNeverBlocks
<1>1. ASSUME IInv, NEW c \in Cancellers, NEW j, j = cjob[c],
             \/ cpc[c] = "sendStop" /\ stopLog[j]
             \/ cpc[c] = "sendBuild" /\ bCancel[j]
             \/ cpc[c] = "sendUpload" /\ uCancel[j]
      PROVE  \/ \E d \in Cancellers \ {c} : CancelBegan(d, j)
             \/ cur = j /\ wpc \in {"clean", "endBuild", "endUpload", "finish"}
             \/ j \notin queue
  <2>1. j \in Jobs BY <1>1 DEF IInv, TypeOK, RequestTypeOK
  <2>2. CASE cpc[c] = "sendStop" /\ stopLog[j]
    BY <1>1, <2>1, <2>2 DEF IInv, TokenInv, Began, CancelBegan
  <2>3. CASE cpc[c] = "sendBuild" /\ bCancel[j]
    BY <1>1, <2>1, <2>3 DEF IInv, TokenInv, PastSendBuild, CancelBegan
  <2>4. CASE cpc[c] = "sendUpload" /\ uCancel[j]
    BY <1>1, <2>1, <2>4 DEF IInv, TokenInv, PastSendUpload, CancelBegan
  <2> QED BY <1>1, <2>2, <2>3, <2>4
<1>2. IInv => FirstCancelNeverBlocks BY <1>1 DEF FirstCancelNeverBlocks
<1> QED BY <1>2, Invariance, PTL

\* Job.cleanup takes the data directory from a build or an upload in progress
\* only when a cancel request calls it (Job.go:124).
THEOREM DataDirKept == Spec => []DataDirOutlivesUse
<1>1. IInv => DataDirOutlivesUse
  BY DEF IInv, TypeOK, WorkerTypeOK, QueueInv, BuildInv, DataInv, DataDirOutlivesUse, Began
<1> QED BY <1>1, Invariance, PTL

\* No job is uploaded twice, whenever the server crashes and however often.
THEOREM PublishedAtMostOnce == Spec => []PublishedOnce
<1>1. IInv => PublishedOnce BY DEF IInv, UploadInv
<1> QED BY <1>1, Invariance, PTL

(***************************************************************************)
(* What a cancel prevents for good                                         *)
(***************************************************************************)

\* Neither the worker's run nor a build goroutine is at work on a job without row.
RowGone(j) == ~row[j] /\ gpc[j] = "none" /\ (cur = j => wpc = "finish")

LEMMA RowGoneStays ==
    ASSUME TypeOK, [Next]_vars, NEW j \in Jobs, RowGone(j)
    PROVE  RowGone(j)'
<1> USE DEF RowGone, TypeOK, WorkerTypeOK, BuildTypeOK
<1>1. CASE UNCHANGED <<row, gpc, cur, wpc>> BY <1>1
<1>2. CASE Worker
  <2>1. CASE PickJob BY <2>1 DEF PickJob, ItemExists
  <2>2. CASE InitBuild BY <2>2 DEF InitBuild
  <2>3. CASE FinishJob BY <2>3 DEF FinishJob, WorkerFree
  <2>4. CASE /\ ~PickJob /\ ~InitBuild /\ ~FinishJob
             /\ cur' = cur /\ UNCHANGED <<row, gpc>> /\ wpc # "finish"
    BY <2>4
  <2> QED BY <1>2, <2>1, <2>2, <2>3, <2>4 DEF Worker, BeginRun, AwaitBuild, AwaitCancel,
        StopCancelledBuild, ReturnCancelled, FailJob, SaveBuilt, CheckCancelled, BeginUpload,
        OpenFile, SendFile, SendStop, CleanJob
<1>3. ASSUME NEW i \in Jobs, Build(i) \/ WaitFails(i) PROVE RowGone(j)'
  <2>1. UNCHANGED <<row, cur, wpc>> /\ gpc[i] # "none"
    BY <1>3 DEF Build, PrepareBuild, CreateContainer, StartContainer, WaitContainer, ParseResult,
        WaitFails
  <2>2. i # j BY <2>1
  <2>3. gpc'[j] = gpc[j]
    BY <1>3, <2>2 DEF Build, PrepareBuild, CreateContainer, StartContainer, WaitContainer,
        ParseResult, WaitFails, BuildReturns
  <2> QED BY <2>1, <2>3
<1>4. ASSUME NEW i \in Jobs, Updater(i) \/ ContainerExits(i) \/ ListJobs(i)
      PROVE  RowGone(j)'
  BY <1>1, <1>4 DEF Updater, UpdaterTop, UpdaterReadsState, UpdaterGetsLogs, ContainerExits,
      ListJobs
<1>5. ASSUME NEW c \in Cancellers, CancelFindJob(c) \/ CancelStep(c)
      PROVE  RowGone(j)'
  <2>1. CASE CancelDeleteRow(c) BY <2>1 DEF CancelDeleteRow
  <2> QED BY <1>1, <1>5, <2>1 DEF CancelStep, CancelFindJob, CancelSendStop, CancelReadBuild,
      CancelSendBuild, CancelStop, CancelSetBuild, CancelReadUpload, CancelSendUpload,
      CancelSetUpload, CancelFlag, CancelClean, CancelRespond
<1>6. ASSUME NEW p \in Pausers, PauseCheck(p) \/ PauseStep(p) PROVE RowGone(j)'
  BY <1>1, <1>6 DEF PauseStep, PauseCheck, PauseDocker, PauseSet
<1>7. CASE Crash BY <1>7 DEF Crash
<1> QED BY <1>1, <1>2, <1>3, <1>4, <1>5, <1>6, <1>7 DEF Next, vars

\* A job whose row a cancel deletes while it waits is never built, whether the worker
\* comes to it or a restart reads the rows.
THEOREM DeletedRowsNeverBuilt == Spec => DeletedRowNeverBuilt
<1>1. ASSUME NEW j \in Jobs
      PROVE  Spec => [](~row[j] /\ cur # j /\ gpc[j] = "none" => [](gpc[j] = "none"))
  <2>1. ~row[j] /\ cur # j /\ gpc[j] = "none" => RowGone(j) BY DEF RowGone
  <2>2. TypeOK /\ RowGone(j) /\ [Next]_vars => RowGone(j)' BY RowGoneStays
  <2>3. RowGone(j) => gpc[j] = "none" BY DEF RowGone
  <2> QED BY <2>1, <2>2, <2>3, TypeCorrect, PTL DEF Spec
<1> QED BY <1>1 DEF DeletedRowNeverBuilt

\* A job that is not being uploaded, and cannot come to its upload: the worker will
\* find it cancelled, or it was reloaded without arguments.
UploadBarred(j) ==
    /\ published[j] = 0
    /\ cur = j => wpc \notin {"upload", "open", "send"}
    /\ cancelled[j] \/ ~hasArgs[j]

LEMMA UploadBarredStays ==
    ASSUME IInv, [Next]_vars, NEW j \in Jobs, UploadBarred(j)
    PROVE  UploadBarred(j)'
<1> USE DEF UploadBarred, IInv, TypeOK, WorkerTypeOK, JobTypeOK, OutsideTypeOK
<1>1. CASE UNCHANGED <<published, cur, wpc, cancelled, hasArgs>> BY <1>1
<1>2. CASE Worker
  <2>1. CASE PickJob BY <2>1 DEF PickJob
  <2>2. CASE CheckCancelled BY <2>2 DEF CheckCancelled, IsCancelled, UploadInv
  <2>3. CASE BeginUpload BY <2>3 DEF BeginUpload
  <2>4. CASE OpenFile BY <2>4 DEF OpenFile, UploadFails
  <2>5. CASE SendFile BY <2>5 DEF SendFile, UploadFails
  <2>6. CASE FinishJob BY <2>6 DEF FinishJob, WorkerFree
  <2>7. CASE /\ UNCHANGED <<published, cur, cancelled, hasArgs>>
             /\ wpc' \notin {"upload", "open", "send"}
    BY <2>7
  <2> QED BY <1>2, <2>1, <2>2, <2>3, <2>4, <2>5, <2>6, <2>7 DEF Worker, BeginRun, InitBuild,
        AwaitBuild, AwaitCancel, StopCancelledBuild, ReturnCancelled, FailJob, SaveBuilt,
        SendStop, CleanJob
<1>3. ASSUME NEW i \in Jobs, Build(i) \/ WaitFails(i) PROVE UploadBarred(j)'
  BY <1>1, <1>3 DEF Build, PrepareBuild, CreateContainer, StartContainer, WaitContainer,
      ParseResult, WaitFails
<1>4. ASSUME NEW i \in Jobs, Updater(i) \/ ContainerExits(i) \/ ListJobs(i)
      PROVE  UploadBarred(j)'
  BY <1>1, <1>4 DEF Updater, UpdaterTop, UpdaterReadsState, UpdaterGetsLogs, ContainerExits,
      ListJobs
<1>5. ASSUME NEW c \in Cancellers, CancelFindJob(c) \/ CancelStep(c)
      PROVE  UploadBarred(j)'
  <2>1. CASE CancelFlag(c) BY <2>1 DEF CancelFlag
  <2> QED BY <1>1, <1>5, <2>1 DEF CancelStep, CancelFindJob, CancelSendStop, CancelReadBuild,
      CancelSendBuild, CancelStop, CancelSetBuild, CancelReadUpload, CancelSendUpload,
      CancelSetUpload, CancelClean, CancelRespond, CancelDeleteRow
<1>6. ASSUME NEW p \in Pausers, PauseCheck(p) \/ PauseStep(p) PROVE UploadBarred(j)'
  BY <1>1, <1>6 DEF PauseStep, PauseCheck, PauseDocker, PauseSet
<1>7. CASE Crash BY <1>7 DEF Crash, ReloadedArgs
<1> QED BY <1>1, <1>2, <1>3, <1>4, <1>5, <1>6, <1>7 DEF Next, vars

\* A job whose cancel set its flag before the upload began is never uploaded: the run
\* checks the flag (Job.go:239), and a restart that forgets it forgets the arguments.
THEOREM CancelledNeverUploaded == Spec => CancelledNeverPublished
<1>1. ASSUME NEW j \in Jobs
      PROVE  Spec => []( /\ cancelled[j]
                         /\ ~(cur = j /\ wpc \in {"upload", "open", "send"})
                         /\ published[j] = 0
                         => [](published[j] = 0))
  <2>1. /\ cancelled[j]
        /\ ~(cur = j /\ wpc \in {"upload", "open", "send"})
        /\ published[j] = 0
        => UploadBarred(j)
    BY DEF UploadBarred
  <2>2. IInv /\ UploadBarred(j) /\ [Next]_vars => UploadBarred(j)' BY UploadBarredStays
  <2>3. UploadBarred(j) => published[j] = 0 BY DEF UploadBarred
  <2> QED BY <2>1, <2>2, <2>3, Invariance, PTL DEF Spec
<1> QED BY <1>1 DEF CancelledNeverPublished

(***************************************************************************)
(* JobRun implements JobLifecycle                                          *)
(***************************************************************************)

LEMMA LifecycleInit == Init => Lifecycle!Init
BY DEF Init, Lifecycle!Init

LEMMA LifecycleStep == IInv /\ [Next]_vars => [Lifecycle!Next]_(Lifecycle!lvars)
<1> SUFFICES ASSUME IInv, [Next]_vars
             PROVE  [Lifecycle!Next]_(Lifecycle!lvars)
  OBVIOUS
<1> USE DEF IInv, TypeOK, WorkerTypeOK
<1>0. UNCHANGED <<queue, cur, published, crashes>> => UNCHANGED Lifecycle!lvars
  BY DEF Lifecycle!lvars
<1>1. CASE PickJob
  <2>1. PICK j \in queue : IsFirst(j) /\ cur' = j BY <1>1 DEF PickJob
  <2>2. cur = None /\ UNCHANGED <<queue, published, crashes>> BY <1>1 DEF PickJob
  <2>3. Lifecycle!Start
    BY <2>1, <2>2 DEF IsFirst, Lifecycle!Start
  <2> QED BY <2>3 DEF Lifecycle!Next
<1>2. CASE SendFile
  <2>1. cur \in Jobs /\ UNCHANGED <<queue, cur, crashes>> BY <1>2 DEF SendFile
  <2>2. published[cur] = 0
    BY <1>2, <2>1 DEF SendFile, QueueInv, UploadInv, OutsideTypeOK
  <2>3. CASE published' = [published EXCEPT ![cur] = @ + 1]
    <3>1. published' = [published EXCEPT ![cur] = 1]
      BY <2>1, <2>2, <2>3 DEF OutsideTypeOK
    <3>2. Lifecycle!Upload BY <2>1, <2>2, <3>1 DEF Lifecycle!Upload
    <3> QED BY <3>2 DEF Lifecycle!Next
  <2>4. CASE published' = published BY <1>0, <2>1, <2>4
  <2> QED BY <1>2, <2>3, <2>4 DEF SendFile
<1>3. CASE FinishJob
  <2>1. cur \in queue BY <1>3 DEF FinishJob, QueueInv
  <2>2. cur' = None /\ queue' = queue \ {cur} /\ UNCHANGED <<published, crashes>>
    BY <1>3 DEF FinishJob, WorkerFree
  <2>3. Lifecycle!End BY <2>1, <2>2 DEF Lifecycle!End
  <2> QED BY <2>3 DEF Lifecycle!Next
<1>4. CASE Crash
  <2>1. cur' = None /\ published' = published /\ crashes' = crashes + 1 BY <1>4 DEF Crash
  <2>2. queue' \subseteq queue BY <1>4 DEF Crash, OutOfQueueInv
  <2>3. cur = None \/ cur \in queue BY DEF QueueInv
  <2>4. Lifecycle!Restart BY <2>1, <2>2, <2>3 DEF Lifecycle!Restart
  <2> QED BY <2>4 DEF Lifecycle!Next
<1>5. CASE \/ BeginRun \/ InitBuild \/ AwaitBuild \/ AwaitCancel \/ StopCancelledBuild
           \/ ReturnCancelled \/ FailJob \/ SaveBuilt \/ CheckCancelled \/ BeginUpload
           \/ OpenFile \/ SendStop \/ CleanJob
  BY <1>0, <1>5 DEF BeginRun, InitBuild, AwaitBuild, AwaitCancel, StopCancelledBuild,
      ReturnCancelled, FailJob, SaveBuilt, CheckCancelled, BeginUpload, OpenFile,
      UploadFails, SendStop, CleanJob
<1>6. ASSUME NEW j \in Jobs,
             Build(j) \/ WaitFails(j) \/ Updater(j) \/ ContainerExits(j) \/ ListJobs(j)
      PROVE  UNCHANGED Lifecycle!lvars
  BY <1>0, <1>6 DEF Build, PrepareBuild, CreateContainer, StartContainer, WaitContainer,
      ParseResult, WaitFails, Updater, UpdaterTop, UpdaterReadsState, UpdaterGetsLogs,
      ContainerExits, ListJobs
<1>7. ASSUME NEW c \in Cancellers, CancelFindJob(c) \/ CancelStep(c)
      PROVE  UNCHANGED Lifecycle!lvars
  BY <1>0, <1>7 DEF CancelStep, CancelFindJob, CancelSendStop, CancelReadBuild,
      CancelSendBuild, CancelStop, CancelSetBuild, CancelReadUpload, CancelSendUpload,
      CancelSetUpload, CancelFlag, CancelClean, CancelRespond, CancelDeleteRow
<1>8. ASSUME NEW p \in Pausers, PauseCheck(p) \/ PauseStep(p)
      PROVE  UNCHANGED Lifecycle!lvars
  BY <1>0, <1>8 DEF PauseStep, PauseCheck, PauseDocker, PauseSet
<1>9. CASE UNCHANGED vars BY <1>0, <1>9 DEF vars
<1> QED BY <1>1, <1>2, <1>3, <1>4, <1>5, <1>6, <1>7, <1>8, <1>9 DEF Next, Worker

\* What the server promises of its queue: jobs start in the order of their
\* numbers, one at a time, only the active job is uploaded and only once, and
\* a job that ended never returns, not even after a restart.
THEOREM ImplementsLifecycle == Spec => LifecycleSpec
BY LifecycleInit, LifecycleStep, Invariance, PTL DEF Spec, LifecycleSpec, Lifecycle!Spec

=============================================================================
