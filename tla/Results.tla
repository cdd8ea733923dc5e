------------------------------- MODULE Results -------------------------------
(***************************************************************************)
(* What becomes of the files a build made: the build's result file is      *)
(* parsed, and each file it lists is uploaded to the DataManager or copied *)
(* into the local storage, while a cancel may set the upload's state, send *)
(* to its cancel channel and remove the data directory.                    *)
(*                                                                         *)
(* Modelled for one job from the end of its build to the end of Job.Run;   *)
(* JobRun models the rest of the run with an upload of one file.  A step   *)
(* is one access to the file system, the DataManager or a shared field.    *)
(***************************************************************************)
EXTENDS Naturals, Sequences, SequencesExt

CONSTANTS
    Files,           \* names of files a build may make
    Empty, Spaces,   \* a line without characters, a line of blanks
    Contents,        \* result files: sequences of lines
    Given,           \* sets of arguments an upload may come with
    None, Old,       \* nothing; what was at the target path before
    Unread,          \* the same, where os.Stat fails though something is there
    KeepBuildFiles,  \* config: Server.KeepBuildFiles
    MayCancel        \* whether the job may be cancelled

Lines == Files \cup {Empty, Spaces}
ArgNames == {"DMUser", "DMToken", "DMHost"}

ASSUME LinesAssumption ==
    /\ Empty # Spaces /\ {Empty, Spaces, None, Old, Unread} \cap Files = {}
    /\ None # Old /\ None # Unread /\ Old # Unread
ASSUME ContentsAssumption == \A c \in Contents : c \in Seq(Lines) /\ c # <<>>
ASSUME GivenAssumption == Given \subseteq SUBSET ArgNames
ASSUME ResultConfigAssumption == KeepBuildFiles \in BOOLEAN /\ MayCancel \in BOOLEAN

VARIABLES
    type, args,  \* UploadJob.Type, the arguments that were given
    pc,          \* the worker in build, Job.Run and UploadJob.Run
    files, at,   \* ResInfo.Files, the file the loop is at
    uState,      \* UploadJob.State
    cancelChan,  \* UploadJob.cancelChan holds a value
    cpc,         \* Job.Cancel
    cancelled,   \* Job.Cancelled
    dataDir,     \* the data directory exists
    sent,        \* files the DataManager got, in order
    stored       \* what is at the target path

runVars    == <<pc, files, at>>
cancelVars == <<cpc, cancelled>>
vars == <<type, args, pc, files, at, uState, cancelChan, cpc, cancelled, dataDir, sent, stored>>

Types == {"DataManager", "LocalStorage", "NoUpload"}
Before == {None, Old, Unread}

Init ==
    /\ type \in Types /\ args \in Given
    /\ pc = "parse"
    /\ files = <<>> /\ at = 1
    /\ uState = "Waiting"
    /\ cancelChan = FALSE
    /\ cpc = "idle"
    /\ cancelled = FALSE
    /\ dataDir = TRUE
    /\ sent = <<>>
    /\ stored \in Before

(***************************************************************************)
(* ParseResInfo                                                            *)
(***************************************************************************)

\* Name, version and at least one more line; only the list of files is
\* trimmed, and what is left of it is not looked at again.
ValidResInfo(content) == Len(content) >= 3 /\ content[1] # Empty /\ content[2] # Empty

OutFiles_Untrimmed(content) ==  \* mutant: drops empty lines, but keeps blank ones
    LET kept[n \in 0..Len(content)] ==
            IF n <= 2 THEN <<>>
            ELSE IF content[n] = Empty THEN kept[n - 1] ELSE Append(kept[n - 1], content[n])
    IN  kept[Len(content)]
OutFiles(content) ==
    LET kept[n \in 0..Len(content)] ==
            IF n <= 2 THEN <<>>
            ELSE IF content[n] \in {Empty, Spaces} THEN kept[n - 1]
                 ELSE Append(kept[n - 1], content[n])
    IN  kept[Len(content)]

ParseResInfo ==
    /\ pc = "parse"
    /\ \/ \E content \in Contents :
            /\ dataDir /\ ValidResInfo(content)
            /\ files' = OutFiles(content)
            /\ pc' = "check"
       \/ /\ ~dataDir \/ \E content \in Contents : ~ValidResInfo(content)
          /\ pc' = "error"
          /\ UNCHANGED files
    /\ UNCHANGED <<type, args, at, uState, cancelChan, cancelVars, dataDir, sent, stored>>

\* BuildJob.Run takes the cancel instead of the result.
BuildCancelled ==
    /\ pc = "parse" /\ cpc # "idle"
    /\ pc' = "end"
    /\ UNCHANGED <<type, args, files, at, uState, cancelChan, cancelVars, dataDir, sent, stored>>

(***************************************************************************)
(* UploadJob.Run                                                           *)
(***************************************************************************)
\* Job.Run saves the job before the upload: an error ends the run.
CheckCancelled ==
    /\ pc = "check"
    /\ pc' \in {"end"} \cup (IF cancelled THEN {} ELSE {"begin"})
    /\ UNCHANGED <<type, args, files, at, uState, cancelChan, cancelVars, dataDir, sent, stored>>

BeginUpload ==
    /\ pc = "begin"
    /\ uState' = "Running"
    /\ pc' = "method"
    /\ UNCHANGED <<type, args, files, at, cancelChan, cancelVars, dataDir, sent, stored>>

\* The token is not asked for: the user name is looked up twice.
HasDataManagerArgs_HostOnly == "DMHost" \in args  \* mutant: forgets the user
HasDataManagerArgs == {"DMUser", "DMHost"} \subseteq args

\* Without arguments for the DataManager the state stays Running; a token that
\* is not base64, or no method, sets Failed.
ChooseMethod ==
    /\ pc = "method"
    /\ \/ /\ type = "DataManager" /\ HasDataManagerArgs
          /\ pc' = "open" /\ UNCHANGED uState
       \/ /\ type = "DataManager" /\ HasDataManagerArgs /\ "DMToken" \in args
          /\ uState' = "Failed" /\ pc' = "error"
       \/ /\ type = "DataManager" /\ ~HasDataManagerArgs
          /\ pc' = "error" /\ UNCHANGED uState
       \/ /\ type = "LocalStorage"
          /\ pc' = "stat" /\ UNCHANGED uState
       \/ /\ type = "NoUpload"
          /\ uState' = "Failed" /\ pc' = "error"
    /\ UNCHANGED <<type, args, files, at, cancelChan, cancelVars, dataDir, sent, stored>>

\* Job.Run on an error of the build or the upload: SetState(JobFailed).
SetFailed_Not == UNCHANGED uState  \* mutant: leaves the state to the upload job
SetFailed == uState' = "Failed"

RunFails ==
    /\ pc = "error"
    /\ SetFailed
    /\ pc' = "end"
    /\ UNCHANGED <<type, args, files, at, cancelChan, cancelVars, dataDir, sent, stored>>

\* After the last file the upload is done.
UploadDone(loop) ==
    /\ pc = loop /\ at > Len(files)
    /\ uState' = "Done"
    /\ pc' = "end"
    /\ UNCHANGED <<type, args, files, at, cancelChan, cancelVars, dataDir, sent, stored>>

(***************************************************************************)
(* uploadDmanager                                                          *)
(***************************************************************************)

\* os.Open fails when the file was not built or the data directory is gone.
OpenFile_Skips ==  \* mutant: goes on with the next file
    /\ pc = "open" /\ at <= Len(files)
    /\ \/ dataDir /\ pc' = "send" /\ UNCHANGED at
       \/ at' = at + 1 /\ UNCHANGED pc
    /\ UNCHANGED <<type, args, files, uState, cancelChan, cancelVars, dataDir, sent, stored>>
OpenFile ==
    /\ pc = "open" /\ at <= Len(files)
    /\ \/ dataDir /\ pc' = "send" /\ UNCHANGED uState
       \/ uState' = "Failed" /\ pc' = "error"
    /\ UNCHANGED <<type, args, files, at, cancelChan, cancelVars, dataDir, sent, stored>>

\* External: the DataManager takes the file, given a token, or refuses it.
UploadFile ==
    /\ pc = "send"
    /\ \/ /\ "DMToken" \in args
          /\ sent' = Append(sent, files[at])
          /\ at' = at + 1
          /\ pc' = "open"
          /\ UNCHANGED uState
       \/ /\ uState' = "Failed" /\ pc' = "error"
          /\ UNCHANGED <<sent, at>>
    /\ UNCHANGED <<type, args, files, cancelChan, cancelVars, dataDir, stored>>

\* External: UploadFile stops at a value in the cancel channel.
UploadCancelled ==
    /\ pc = "send" /\ cancelChan
    /\ cancelChan' = FALSE
    /\ uState' = "Failed"
    /\ pc' = "error"
    /\ UNCHANGED <<type, args, files, at, cancelVars, dataDir, sent, stored>>

DManagerUpload == OpenFile \/ UploadFile \/ UploadCancelled \/ UploadDone("open")

(***************************************************************************)
(* saveToLocalStorage and Copy                                             *)
(***************************************************************************)
ClearOld_Never == UNCHANGED stored  \* mutant: leaves what is there
ClearOld == stored' = None

ClearTarget ==
    /\ pc = "stat"
    /\ \/ stored # Unread /\ ClearOld /\ pc' = "copy"
       \/ stored = Old /\ pc' = "error" /\ UNCHANGED stored
       \/ stored = Unread /\ pc' = "copy" /\ UNCHANGED stored
    /\ UNCHANGED <<type, args, files, at, uState, cancelChan, cancelVars, dataDir, sent>>

\* Copy opens the file and creates the target, which is the path itself: no
\* step makes it a directory, into which getCopyDestFile would put the file.
CreateTarget ==
    /\ pc = "copy" /\ at <= Len(files)
    /\ \/ /\ dataDir
          /\ stored' = [file |-> files[at], whole |-> FALSE]
          /\ pc' = "write"
       \/ pc' = "error" /\ UNCHANGED stored
    /\ UNCHANGED <<type, args, files, at, uState, cancelChan, cancelVars, dataDir, sent>>

CopyBuffer_Ignored ==  \* mutant: an error while writing is not returned
    \/ stored' = [stored EXCEPT !.whole = TRUE] /\ at' = at + 1 /\ pc' = "copy"
    \/ at' = at + 1 /\ pc' = "copy" /\ UNCHANGED stored
CopyBuffer ==
    \/ stored' = [stored EXCEPT !.whole = TRUE] /\ at' = at + 1 /\ pc' = "copy"
    \/ pc' = "error" /\ UNCHANGED <<stored, at>>

WriteTarget ==
    /\ pc = "write"
    /\ CopyBuffer
    /\ UNCHANGED <<type, args, files, uState, cancelChan, cancelVars, dataDir, sent>>

LocalUpload == ClearTarget \/ CreateTarget \/ WriteTarget \/ UploadDone("copy")

(***************************************************************************)
(* The end of Job.Run and Job.Cancel                                       *)
(***************************************************************************)
Cleanup == dataDir' = KeepBuildFiles

RunCleansUp ==
    /\ pc = "end"
    /\ Cleanup
    /\ pc' = "over"
    /\ UNCHANGED <<type, args, files, at, uState, cancelChan, cancelVars, sent, stored>>

\* Job.Cancel cancels the build first ...
CancelBuild ==
    /\ cpc = "idle" /\ MayCancel
    /\ cpc' = "read"
    /\ UNCHANGED <<type, args, runVars, uState, cancelChan, cancelled, dataDir, sent, stored>>

\* ... UploadJob.cancel reads the state, may send, and sets the state ...
CancelReads ==
    /\ cpc = "read"
    /\ cpc' = IF uState = "Running" THEN "send" ELSE "set"
    /\ UNCHANGED <<type, args, runVars, uState, cancelChan, cancelled, dataDir, sent, stored>>

CancelSends ==
    /\ cpc = "send" /\ ~cancelChan
    /\ cancelChan' = TRUE
    /\ cpc' = "set"
    /\ UNCHANGED <<type, args, runVars, uState, cancelled, dataDir, sent, stored>>

CancelSets ==
    /\ cpc = "set"
    /\ uState' = "Cancelled"
    /\ cpc' = "flag"
    /\ UNCHANGED <<type, args, runVars, cancelChan, cancelled, dataDir, sent, stored>>

\* ... then Job.Cancel sets its flag and cleans up.
CancelFlags ==
    /\ cpc = "flag"
    /\ cancelled' = TRUE
    /\ cpc' = "clean"
    /\ UNCHANGED <<type, args, runVars, uState, cancelChan, dataDir, sent, stored>>

CancelCleansUp ==
    /\ cpc = "clean"
    /\ Cleanup
    /\ cpc' = "done"
    /\ UNCHANGED <<type, args, runVars, uState, cancelChan, cancelled, sent, stored>>

Run == \/ ParseResInfo \/ BuildCancelled \/ CheckCancelled \/ BeginUpload \/ ChooseMethod
       \/ DManagerUpload \/ LocalUpload \/ RunFails \/ RunCleansUp
Cancel == CancelBuild \/ CancelReads \/ CancelSends \/ CancelSets \/ CancelFlags \/ CancelCleansUp

Next == Run \/ Cancel
Spec == Init /\ [][Next]_vars

(***************************************************************************)
(* Properties                                                              *)
(***************************************************************************)
Whole(f) == [file |-> f, whole |-> TRUE]

\* Every variable stays in its range, the loop in its list, and only file names
\* are left of the list.
TypeOK ==
    /\ type \in Types /\ args \subseteq ArgNames
    /\ pc \in {"parse", "check", "begin", "method", "error", "open", "send", "stat", "copy",
               "write", "end", "over"}
    /\ files \in Seq(Files) /\ at \in 1..Len(files) + 1
    /\ pc \in {"send", "write"} => at <= Len(files)
    /\ uState \in {"Waiting", "Running", "Done", "Failed", "Cancelled"}
    /\ cpc \in {"idle", "read", "send", "set", "flag", "clean", "done"}
    /\ cancelChan \in BOOLEAN /\ cancelled \in BOOLEAN /\ dataDir \in BOOLEAN
    /\ sent \in Seq(Files)
    /\ stored \in Before \cup [file : Files, whole : BOOLEAN]
    /\ pc = "write" => stored = [file |-> files[at], whole |-> FALSE]

\* The DataManager gets the files one after the other, each once; an upload is
\* Done only when it got them all, whatever a cancel removes or sets meanwhile,
\* and with at least one file only if user, host and token were given.
DManagerDoneIsComplete ==
    /\ IsPrefix(sent, files)
    /\ type = "DataManager" /\ uState = "Done" =>
        sent = files /\ (files # <<>> => args = ArgNames)

\* A local upload is Done only with a whole file of this build at its target:
\* nothing older, nothing half-written; if no file was listed, with nothing but
\* what os.Stat could not read.
LocalDoneIsWhole ==
    type = "LocalStorage" /\ uState = "Done" =>
        IF files = <<>> THEN stored \in {None, Unread} ELSE stored = Whole(files[Len(files)])

\* When the run and the cancel are over, no error path or early return has left
\* the upload Running, and one that still waits has published nothing.
EndsInFinalState ==
    pc = "over" /\ cpc \in {"idle", "done"} =>
        \/ uState \in {"Done", "Failed", "Cancelled"}
        \/ uState = "Waiting" /\ sent = <<>> /\ stored \in Before

\* UploadJob.go:110: "Copy all files to the LocalStoragePath".
CopiesAllFiles ==
    type = "LocalStorage" /\ uState = "Done" =>
        \A i \in 1..Len(files) : stored = Whole(files[i])
=============================================================================
