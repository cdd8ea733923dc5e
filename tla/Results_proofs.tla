---------------------------- MODULE Results_proofs ----------------------------
(***************************************************************************)
(* What Results promises for every result file, any set of arguments, with *)
(* or without a cancel: its type invariant and the properties its runs     *)
(* check.                                                                  *)
(***************************************************************************)
EXTENDS Results, Counting

(***************************************************************************)
(* The inductive invariant                                                 *)
(***************************************************************************)

\* What was sent is the part of the list the loop has passed; the DataManager
\* gets it only with all arguments.
SendInv ==
    /\ Len(sent) <= Len(files) /\ \A i \in 1..Len(sent) : sent[i] = files[i]
    /\ type = "DataManager" => at = Len(sent) + 1
    /\ type # "DataManager" => sent = <<>>
    /\ sent # <<>> => args = ArgNames
    /\ pc \in {"open", "send"} => type = "DataManager" /\ {"DMUser", "DMHost"} \subseteq args

\* The target holds what was there, until it is cleared, if it can be read; then
\* the file the loop was last at.
CopyInv ==
    /\ type # "LocalStorage" => stored \in Before
    /\ pc \in {"stat", "copy", "write"} => type = "LocalStorage"
    /\ pc \in {"parse", "check", "begin", "method", "stat"} =>
        at = 1 /\ sent = <<>> /\ stored \in Before
    /\ pc = "copy" => IF at = 1 THEN stored \in {None, Unread} ELSE stored = Whole(files[at - 1])

\* Where the run is when the upload has a state.
StateInv ==
    /\ uState = "Done" =>
        /\ pc \in {"end", "over"} /\ at = Len(files) + 1
        /\ type = "LocalStorage" =>
            IF files = <<>> THEN stored \in {None, Unread} ELSE stored = Whole(files[Len(files)])
    /\ uState = "Running" => pc \notin {"parse", "check", "begin", "end", "over"}
    /\ uState = "Waiting" =>
        /\ pc \in {"parse", "check", "begin", "error", "end", "over"}
        /\ sent = <<>> /\ stored \in Before

IInv == TypeOK /\ SendInv /\ CopyInv /\ StateInv

(***************************************************************************)
(* The loop of ParseResInfo                                                *)
(***************************************************************************)

\* One turn of the loop, and a function that has made the turns up to line m.
KeptUpTo(content, f, n) ==
    IF n <= 2 THEN <<>>
    ELSE IF content[n] \in {Empty, Spaces} THEN f[n - 1] ELSE Append(f[n - 1], content[n])
IsKept(content, f, m) == f = [n \in 0..m |-> KeptUpTo(content, f, n)]

\* The function that OutFiles defines by recursion exists: the least number of
\* turns for which there were none would have a predecessor to extend.
LEMMA KeptExists ==
    ASSUME NEW content, NEW m \in Nat
    PROVE  \E f : IsKept(content, f, m)
<1> DEFINE S == {k \in Nat : ~\E f : IsKept(content, f, k)}
<1>1. SUFFICES ASSUME S # {} PROVE FALSE
    OBVIOUS
<1>2. PICK k \in S : \A l \in S : k <= l
    BY <1>1, LeastNumber
<1>3. CASE k = 0
  <2> DEFINE f == [n \in 0..0 |-> <<>>]
  <2>1. f = [n \in 0..0 |-> KeptUpTo(content, f, n)]
    BY DEF KeptUpTo
  <2> QED
    BY <1>2, <1>3, <2>1 DEF IsKept
<1>4. CASE k # 0
  <2>0. k \in Nat /\ k - 1 \in Nat /\ k - 1 \notin S
    BY <1>2, <1>4
  <2>1. PICK g : IsKept(content, g, k - 1)
    BY <2>0
  <2>2. g = [n \in 0..k - 1 |-> KeptUpTo(content, g, n)]
    BY <2>1, Zenon DEF IsKept
  <2> DEFINE f == [n \in 0..k |-> IF n = k THEN KeptUpTo(content, g, n) ELSE g[n]]
  <2>3. \A n \in 0..k - 1 : f[n] = g[n]
    BY <2>0
  <2>4. \A n \in 0..k : n > 2 => f[n - 1] = g[n - 1]
    BY <2>0, <2>3
  <2>5. \A n \in 0..k : KeptUpTo(content, f, n) = KeptUpTo(content, g, n)
    BY <2>0, <2>4 DEF KeptUpTo
  <2>6. \A n \in 0..k : f[n] = KeptUpTo(content, g, n)
    BY <2>0, <2>2
  <2>7. f = [n \in 0..k |-> KeptUpTo(content, f, n)]
    BY <2>0, <2>5, <2>6
  <2> QED
    BY <1>2, <2>7 DEF IsKept
<1> QED
    BY <1>3, <1>4

\* What is left of a result file are names of files only: no line that trims to
\* nothing is uploaded.
LEMMA OutFilesAreFiles ==
    ASSUME NEW content \in Seq(Lines)
    PROVE  OutFiles(content) \in Seq(Files)
<1> DEFINE f == CHOOSE f : IsKept(content, f, Len(content))
<1>1. Len(content) \in Nat
    OBVIOUS
<1>2. OutFiles(content) = f[Len(content)]
    BY DEF OutFiles, IsKept, KeptUpTo
<1>3. IsKept(content, f, Len(content))
    BY <1>1, KeptExists, Zenon
<1> HIDE DEF f
<1> DEFINE S == {k \in 0..Len(content) : f[k] \notin Seq(Files)}
<1>4. SUFFICES ASSUME S # {} PROVE FALSE
    BY <1>1, <1>2
<1>5. S \in SUBSET Nat
    BY <1>1
<1> HIDE DEF S
<1>6. PICK k \in S : \A l \in S : k <= l
    BY <1>4, <1>5, LeastNumber
<1>7. k \in 0..Len(content) /\ f[k] \notin Seq(Files)
    BY DEF S
<1>8. f[k] = KeptUpTo(content, f, k)
    BY <1>3, <1>7 DEF IsKept
<1>9. CASE k <= 2
    BY <1>7, <1>8, <1>9 DEF KeptUpTo
<1>10. CASE k > 2
  <2>1. k - 1 \in 0..Len(content) /\ k - 1 \notin S
    BY <1>1, <1>5, <1>6, <1>7, <1>10
  <2>2. f[k - 1] \in Seq(Files)
    BY <2>1 DEF S
  <2>3. CASE content[k] \in {Empty, Spaces}
    BY <1>7, <1>8, <1>10, <2>2, <2>3 DEF KeptUpTo
  <2>4. CASE content[k] \notin {Empty, Spaces}
    <3>1. content[k] \in Files
      BY <1>1, <1>7, <1>10, <2>4 DEF Lines
    <3>2. f[k] = Append(f[k - 1], content[k])
      BY <1>7, <1>8, <1>10, <2>4 DEF KeptUpTo
    <3> QED
      BY <1>7, <2>2, <3>1, <3>2
  <2> QED
    BY <2>3, <2>4
<1> QED
    BY <1>1, <1>7, <1>9, <1>10

(***************************************************************************)
(* The invariant is inductive                                              *)
(***************************************************************************)

\* At the start nothing is parsed, sent or copied.
LEMMA InitInvariant == Init => IInv
<1> SUFFICES ASSUME Init PROVE IInv
    OBVIOUS
<1> USE DEF Init, Types, Before
<1>1. TypeOK
  <2>1. args \subseteq ArgNames
    BY GivenAssumption
  <2>2. files \in Seq(Files) /\ sent \in Seq(Files) /\ at \in 1..Len(files) + 1
    OBVIOUS
  <2> QED
    BY <2>1, <2>2 DEF TypeOK
<1>2. SendInv
    BY DEF SendInv
<1>3. CopyInv
    BY DEF CopyInv
<1>4. StateInv
    BY DEF StateInv
<1> QED
    BY <1>1, <1>2, <1>3, <1>4 DEF IInv

\* The list comes from the result file, and the loop has not begun.
LEMMA ParseKeeps == ASSUME IInv, ParseResInfo PROVE IInv'
<1> USE DEF IInv, ParseResInfo, runVars, cancelVars
<1>1. files' \in Seq(Files)
    BY ContentsAssumption, OutFilesAreFiles DEF TypeOK
<1>2. TypeOK'
    BY <1>1 DEF TypeOK, CopyInv
<1>3. SendInv'
    BY DEF TypeOK, SendInv, CopyInv
<1>4. CopyInv' /\ StateInv'
    BY DEF TypeOK, CopyInv, StateInv
<1> QED
    BY <1>2, <1>3, <1>4

\* The file the loop is at is appended to what was sent, and the loop goes on.
LEMMA UploadFileKeeps == ASSUME IInv, UploadFile PROVE IInv'
<1> USE DEF IInv, UploadFile, cancelVars
<1>1. pc = "send" /\ type = "DataManager" /\ at \in 1..Len(files) /\ at = Len(sent) + 1
    BY DEF TypeOK, SendInv
<1>2. files \in Seq(Files) /\ sent \in Seq(Files) /\ files[at] \in Files
    BY <1>1 DEF TypeOK
<1>3. CASE UNCHANGED <<sent, at>>
    BY <1>1, <1>3 DEF TypeOK, SendInv, CopyInv, StateInv
<1>4. CASE /\ "DMToken" \in args /\ sent' = Append(sent, files[at]) /\ at' = at + 1
           /\ pc' = "open" /\ uState' = uState
  <2>1. /\ sent' \in Seq(Files) /\ Len(sent') = Len(sent) + 1
        /\ \A i \in 1..Len(sent) : sent'[i] = sent[i]
        /\ sent'[Len(sent) + 1] = files[at]
    BY <1>2, <1>4
  <2>2. args = ArgNames
    BY <1>1, <1>4 DEF TypeOK, SendInv, ArgNames
  <2>3. TypeOK'
    BY <1>1, <1>2, <1>4, <2>1 DEF TypeOK
  <2>4. \A i \in 1..Len(sent') : sent'[i] = files[i]
    BY <1>1, <1>2, <2>1 DEF SendInv
  <2>5. SendInv'
    BY <1>1, <1>2, <1>4, <2>1, <2>2, <2>4 DEF SendInv, ArgNames
  <2>6. CopyInv'
    BY <1>1, <1>4 DEF TypeOK, CopyInv
  <2>7. StateInv'
    BY <1>1, <1>4 DEF TypeOK, StateInv
  <2> QED
    BY <2>3, <2>5, <2>6, <2>7
<1> QED
    BY <1>3, <1>4

\* The target is truncated for the file the loop is at.
LEMMA CreateTargetKeeps == ASSUME IInv, CreateTarget PROVE IInv'
<1> USE DEF IInv, CreateTarget, cancelVars
<1>1. pc = "copy" /\ type = "LocalStorage" /\ at \in 1..Len(files) /\ files[at] \in Files
    BY DEF TypeOK, CopyInv
<1>2. TypeOK'
  <2>1. CASE pc' = "error" /\ UNCHANGED stored
    BY <1>1, <2>1 DEF TypeOK
  <2>2. CASE stored' = [file |-> files[at], whole |-> FALSE] /\ pc' = "write"
    <3>1. stored' \in [file : Files, whole : BOOLEAN]
      BY <1>1, <2>2
    <3> QED
      BY <1>1, <2>2, <3>1 DEF TypeOK
  <2> QED
    BY <2>1, <2>2
<1>3. SendInv' /\ CopyInv'
    BY <1>1 DEF SendInv, CopyInv
<1>4. StateInv'
    BY <1>1 DEF TypeOK, StateInv
<1> QED
    BY <1>2, <1>3, <1>4

\* The target holds the whole file the loop has just passed.
LEMMA WriteTargetKeeps == ASSUME IInv, WriteTarget PROVE IInv'
<1> USE DEF IInv, WriteTarget, CopyBuffer, cancelVars
<1>1. pc = "write" /\ type = "LocalStorage" /\ at \in 1..Len(files) /\ files[at] \in Files
    BY DEF TypeOK, CopyInv
<1>2. stored = [file |-> files[at], whole |-> FALSE]
    BY <1>1 DEF TypeOK
<1>3. CASE UNCHANGED <<stored, at>>
    BY <1>1, <1>3 DEF TypeOK, SendInv, CopyInv, StateInv
<1>4. CASE stored' = [stored EXCEPT !.whole = TRUE] /\ at' = at + 1 /\ pc' = "copy"
  <2>1. stored' = Whole(files[at]) /\ Whole(files[at]) \in [file : Files, whole : BOOLEAN]
    BY <1>1, <1>2, <1>4 DEF Whole
  <2>2. /\ stored' \in [file : Files, whole : BOOLEAN]
        /\ at' \in 1..Len(files) + 1 /\ at' - 1 = at /\ at' # 1 /\ files' = files
    <3>1. stored' \in [file : Files, whole : BOOLEAN]
      BY <2>1
    <3>2. at \in Nat /\ Len(files) \in Nat /\ files' = files
      BY <1>1 DEF TypeOK
    <3> QED
      BY <1>1, <1>4, <3>1, <3>2
  <2>3. TypeOK'
    BY <1>4, <2>2 DEF TypeOK
  <2>4. SendInv'
    BY <1>1, <1>4 DEF SendInv
  <2>5. CopyInv'
    <3>1. stored' = IF at' = 1 THEN None ELSE Whole(files'[at' - 1])
      BY <2>1, <2>2 DEF Whole
    <3> QED
      BY <1>1, <1>4, <3>1 DEF CopyInv
  <2>6. StateInv'
    BY <1>1, <1>4 DEF TypeOK, StateInv
  <2> QED
    BY <2>3, <2>4, <2>5, <2>6
<1> QED
    BY <1>3, <1>4

\* After the last file the upload is Done with all of the list.
LEMMA UploadDoneKeeps == ASSUME NEW loop \in {"open", "copy"}, IInv, UploadDone(loop) PROVE IInv'
<1> USE DEF IInv, UploadDone, cancelVars
<1>1. pc = loop /\ at = Len(files) + 1 /\ files \in Seq(Files)
    BY DEF TypeOK
<1>2. TypeOK' /\ SendInv' /\ CopyInv'
    BY <1>1 DEF TypeOK, SendInv, CopyInv
<1>3. type = "LocalStorage" =>
        IF files = <<>> THEN stored \in {None, Unread} ELSE stored = Whole(files[Len(files)])
    BY <1>1 DEF SendInv, CopyInv
<1>4. StateInv'
    BY <1>1, <1>3 DEF StateInv, Whole
<1> QED
    BY <1>2, <1>4

\* The steps that leave the list and what was published alone.
LEMMA RunKeeps == ASSUME IInv, Run PROVE IInv'
<1> USE DEF IInv, runVars, cancelVars
<1>1. CASE BuildCancelled
    BY <1>1 DEF BuildCancelled, TypeOK, SendInv, CopyInv, StateInv
<1>2. CASE CheckCancelled
    BY <1>2 DEF CheckCancelled, TypeOK, SendInv, CopyInv, StateInv
<1>3. CASE BeginUpload
    BY <1>3 DEF BeginUpload, TypeOK, SendInv, CopyInv, StateInv
<1>4. CASE ChooseMethod
  <2>1. TypeOK' /\ SendInv'
    BY <1>4 DEF ChooseMethod, HasDataManagerArgs, TypeOK, SendInv, CopyInv
  <2>2. CopyInv' /\ StateInv'
    BY <1>4 DEF ChooseMethod, TypeOK, CopyInv, StateInv
  <2> QED
    BY <2>1, <2>2
<1>5. CASE OpenFile
    BY <1>5 DEF OpenFile, TypeOK, SendInv, CopyInv, StateInv
<1>6. CASE UploadCancelled
    BY <1>6 DEF UploadCancelled, TypeOK, SendInv, CopyInv, StateInv
<1>7. CASE ClearTarget
  <2>1. TypeOK' /\ SendInv'
    BY <1>7 DEF ClearTarget, ClearOld, TypeOK, SendInv, Before
  <2>2. CopyInv' /\ StateInv'
    BY <1>7 DEF ClearTarget, ClearOld, TypeOK, CopyInv, StateInv, Before
  <2> QED
    BY <2>1, <2>2
<1>8. CASE RunFails
    BY <1>8 DEF RunFails, SetFailed, TypeOK, SendInv, CopyInv, StateInv
<1>9. CASE RunCleansUp
    BY <1>9, ResultConfigAssumption DEF RunCleansUp, Cleanup, TypeOK, SendInv, CopyInv, StateInv
<1> QED
    BY ParseKeeps, UploadFileKeeps, CreateTargetKeeps, WriteTargetKeeps, UploadDoneKeeps,
       <1>1, <1>2, <1>3, <1>4, <1>5, <1>6, <1>7, <1>8, <1>9
       DEF Run, DManagerUpload, LocalUpload

\* A cancel overwrites the state and may remove the data, not what was published.
LEMMA CancelKeeps == ASSUME IInv, Cancel PROVE IInv'
<1> USE DEF IInv, runVars
<1>1. CASE CancelBuild
    BY <1>1 DEF CancelBuild, TypeOK, SendInv, CopyInv, StateInv
<1>2. CASE CancelReads
    BY <1>2 DEF CancelReads, TypeOK, SendInv, CopyInv, StateInv
<1>3. CASE CancelSends
    BY <1>3 DEF CancelSends, TypeOK, SendInv, CopyInv, StateInv
<1>4. CASE CancelSets
    BY <1>4 DEF CancelSets, TypeOK, SendInv, CopyInv, StateInv
<1>5. CASE CancelFlags
    BY <1>5 DEF CancelFlags, TypeOK, SendInv, CopyInv, StateInv
<1>6. CASE CancelCleansUp
    BY <1>6, ResultConfigAssumption DEF CancelCleansUp, Cleanup, TypeOK, SendInv, CopyInv, StateInv
<1> QED
    BY <1>1, <1>2, <1>3, <1>4, <1>5, <1>6 DEF Cancel

\* The invariant holds in every reachable state.
THEOREM InvariantCorrect == Spec => []IInv
<1>1. IInv /\ [Next]_vars => IInv'
  <2> SUFFICES ASSUME IInv, [Next]_vars PROVE IInv'
    OBVIOUS
  <2>1. CASE UNCHANGED vars
    BY <2>1 DEF vars, IInv, TypeOK, SendInv, CopyInv, StateInv
  <2> QED
    BY <2>1, RunKeeps, CancelKeeps DEF Next
<1> QED
    BY <1>1, InitInvariant, PTL DEF Spec

(***************************************************************************)
(* What the runs check                                                     *)
(***************************************************************************)

\* Every variable stays in its range: the loops of uploadDmanager and
\* saveToLocalStorage (src/models/UploadJob.go) never leave the list, which has
\* names of files only, and an open target is the one of the file the loop is at.
THEOREM TypeCorrect == Spec => []TypeOK
    BY InvariantCorrect, PTL DEF IInv

\* uploadDmanager sends the files of the list in order, each once, and Run sets
\* the upload Done only after the last of them, for every list and whatever a
\* cancel sets or removes meanwhile.
THEOREM DManagerCorrect == Spec => []DManagerDoneIsComplete
<1>1. IInv => DManagerDoneIsComplete
  <2> SUFFICES ASSUME IInv PROVE DManagerDoneIsComplete
    OBVIOUS
  <2> USE DEF IInv
  <2>1. sent \in Seq(Files) /\ files \in Seq(Files) /\ at \in 1..Len(files) + 1
    BY DEF TypeOK
  <2>2. SubSeq(sent, 1, Len(sent)) = SubSeq(files, 1, Len(sent))
    BY <2>1 DEF SendInv
  <2>3. IsPrefix(sent, files)
    BY <2>1, <2>2 DEF SendInv, IsPrefix
  <2>4. ASSUME type = "DataManager", uState = "Done"
        PROVE  sent = files /\ (files # <<>> => args = ArgNames)
    <3>1. Len(sent) = Len(files)
      BY <2>1, <2>4 DEF SendInv, StateInv
    <3>2. sent = files
      BY <2>1, <3>1 DEF SendInv
    <3> QED
      BY <3>2 DEF SendInv
  <2> QED
    BY <2>3, <2>4 DEF DManagerDoneIsComplete
<1> QED
    BY <1>1, InvariantCorrect, PTL

\* saveToLocalStorage sets no upload Done with an older or a half-written file
\* at its target: it is the last one of the list, whole.
THEOREM LocalCorrect == Spec => []LocalDoneIsWhole
<1>1. IInv => LocalDoneIsWhole
    BY DEF IInv, StateInv, LocalDoneIsWhole
<1> QED
    BY <1>1, InvariantCorrect, PTL

\* Whichever error path or early return ends Job.Run (src/models/Job.go), the
\* upload is not left Running, and one that waits has published nothing.
THEOREM FinalStateCorrect == Spec => []EndsInFinalState
<1>1. IInv => EndsInFinalState
    BY DEF IInv, TypeOK, StateInv, EndsInFinalState
<1> QED
    BY <1>1, InvariantCorrect, PTL
=============================================================================
