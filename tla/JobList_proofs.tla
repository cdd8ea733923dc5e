---------------------------- MODULE JobList_proofs ----------------------------
(***************************************************************************)
(* What a list of jobs holds, for any number of requests, jobs and limits, *)
(* however the others change the slice while GetJobs walks over it.        *)
(***************************************************************************)
EXTENDS JobList, Counting

USE LimitsAssumption, MaxListedJobs

(***************************************************************************)
(* The inductive invariant                                                 *)
(***************************************************************************)

\* The jobs at positions of the slice, and those a walk has copied.
Queued(from, to) == {queue[i] : i \in from..to}
Copied(l) == {got[l][i] : i \in 1..Len(got[l])}

\* The slice holds each job once; an item is hidden only after the last save of
\* a run or a cancel of its job.
SliceInv ==
    /\ queue \in Seq(JobIds) /\ \A i, k \in 1..Len(queue) : queue[i] = queue[k] => i = k
    /\ next \in 1..MaxJobs + 1 /\ \A i \in 1..Len(queue) : queue[i] < next
    /\ deleted \subseteq ended \cup unlisted
    /\ ended \subseteq JobIds /\ unlisted \subseteq JobIds
    /\ apc \in {"idle", "reply"}
    /\ wpc \in {"idle", "running", "mark", "remove"}
    /\ wpc = "idle" => cur = 0
    /\ wpc # "idle" => \E i \in 1..Len(queue) : queue[i] = cur
    /\ wpc \in {"mark", "remove"} => cur \in ended \cup unlisted
    /\ cpc \in {"idle", "mark", "save"}
    /\ cpc = "idle" => cjob = 0
    /\ cpc # "idle" => cjob \in ended \cup unlisted

ListType ==
    /\ lpc \in [Lists -> {"idle", "test", "copy", "old", "done", "aborted", "failed"}]
    /\ limit \in [Lists -> Limits \cup {0}]
    /\ len \in [Lists -> 0..MaxJobs] /\ idx \in [Lists -> 1..MaxJobs + 1]
    /\ got \in [Lists -> Seq(JobIds)] /\ answer \in [Lists -> Seq(JobIds)]
    /\ known \in [Lists -> SUBSET JobIds] /\ moved \in [Lists -> BOOLEAN]

\* A walk over a slice that nobody disturbs has copied jobs at indexes below its
\* own, and what it has not met yet lies before it or was saved at its end.
WalkFor(l) ==
    /\ lpc[l] = "idle" => idx[l] = 1 /\ got[l] = <<>>
    /\ lpc[l] \in {"test", "copy"} => idx[l] <= len[l] + 1
    /\ lpc[l] = "copy" => idx[l] <= len[l]
    /\ ~moved[l] =>
        /\ lpc[l] # "aborted"
        /\ \A i, k \in 1..Len(got[l]) : got[l][i] = got[l][k] => i = k
        /\ lpc[l] \in {"test", "copy"} =>
            /\ len[l] <= Len(queue)
            /\ Copied(l) \subseteq Queued(1, idx[l] - 1)
            /\ known[l] \subseteq ended \cup unlisted \cup Copied(l) \cup Queued(idx[l], len[l])
        /\ lpc[l] = "old" => known[l] \subseteq ended \cup unlisted \cup Copied(l)

\* Old jobs are added to a whole queue only, which leaves room for them.
OldFor(l) ==
    lpc[l] = "old" =>
        answer[l] = ByPosition(got[l]) /\ (limit[l] <= 0 \/ Len(got[l]) < limit[l])

\* The properties, for one list.
CompleteFor(l) ==
    /\ lpc[l] = "done" /\ ~moved[l]
    /\ IF limit[l] <= 0 THEN Cardinality(ended \cup unlisted) <= DefaultLimit
                        ELSE limit[l] >= 2 * MaxJobs
    => known[l] \subseteq Answered(l) \cup unlisted

LimitFor(l) ==
    lpc[l] = "done" /\ limit[l] > 0 =>
        /\ Len(answer[l]) <= limit[l]
        /\ ~moved[l] /\ Cardinality(known[l] \ unlisted) >= limit[l] => Len(answer[l]) = limit[l]
        /\ Len(answer[l]) > Len(got[l]) => ByPosition(got[l]) = SubSeq(answer[l], 1, Len(got[l]))

ListFor(l) == WalkFor(l) /\ OldFor(l) /\ CompleteFor(l) /\ LimitFor(l)

IInv == SliceInv /\ ListType /\ \A l \in Lists : ListFor(l)

(***************************************************************************)
(* What the operators return                                               *)
(***************************************************************************)

\* sort.Sort by Position arranges the entries: it loses none and adds none.
LEMMA SortArranges ==
    ASSUME NEW s \in Seq(JobIds)
    PROVE  \E p \in [1..Len(s) -> 1..Len(s)] :
            /\ \A i, k \in 1..Len(s) : p[i] = p[k] => i = k
            /\ \A k \in 1..Len(s) : \E i \in 1..Len(s) : p[i] = k
            /\ ByPosition(s) = [i \in 1..Len(s) |-> s[p[i]]]
<1> DEFINE D == 1..Len(s)
           R == {e \in D \X D : s[e[1]] < s[e[2]] \/ (s[e[1]] = s[e[2]] /\ e[1] < e[2])}
           p == Ranked(R, D)
<1>1. Len(s) \in Nat /\ \A i \in D : s[i] \in Nat
    BY DEF JobIds
<1>2. \A i, k \in D : <<i, k>> \in R <=> s[i] < s[k] \/ (s[i] = s[k] /\ i < k)
    OBVIOUS
<1>3. IsFiniteSet(D) /\ Cardinality(D) = Len(s)
    BY <1>1, CountUpTo
<1>4. Orders(R, D)
  <2> HIDE DEF R
  <2> QED
    BY <1>1, <1>2, SMTT(30) DEF Orders
<1>5. \A i \in D :
        Place(R, D, i) =
            1 + Cardinality({k \in D : s[k] < s[i] \/ (s[k] = s[i] /\ k < i)})
  <2> TAKE i \in D
  <2> HIDE DEF R, D
  <2>1. {k \in D : <<k, i>> \in R} = {k \in D : s[k] < s[i] \/ (s[k] = s[i] /\ k < i)}
    BY <1>2
  <2> QED
    BY <2>1 DEF Place
<1>6. ByPosition(s) = [r \in D |-> s[p[r]]]
  <2> DEFINE Sorted(r) == CHOOSE i \in D :
                1 + Cardinality({k \in D : s[k] < s[i] \/ (s[k] = s[i] /\ k < i)}) = r
             Placed(r) == CHOOSE i \in D : Place(R, D, i) = r
  <2>1. ByPosition(s) = [r \in D |-> s[Sorted(r)]]
    BY DEF ByPosition
  <2> HIDE DEF R, D
  <2>2. \A r \in D : p[r] = Placed(r)
    BY <1>3 DEF Ranked, D
  <2>3. \A r : Placed(r) = Sorted(r)
    BY <1>5
  <2> HIDE DEF p, Sorted, Placed
  <2> QED
    BY <2>1, <2>2, <2>3
<1> HIDE DEF R
<1>7. /\ p \in [1..Cardinality(D) -> D]
      /\ \A i, k \in 1..Cardinality(D) : p[i] = p[k] => i = k
      /\ \A d \in D : \E i \in 1..Cardinality(D) : p[i] = d
    BY <1>3, <1>4, RankedArranges, Zenon
<1> HIDE DEF p
<1>8. /\ p \in [1..Len(s) -> 1..Len(s)]
      /\ \A i, k \in 1..Len(s) : p[i] = p[k] => i = k
      /\ \A k \in 1..Len(s) : \E i \in 1..Len(s) : p[i] = k
    BY <1>3, <1>7
<1>9. ByPosition(s) = [i \in 1..Len(s) |-> s[p[i]]]
    BY <1>6
<1> QED
    BY <1>8, <1>9, Zenon

\* ... so that the sorted queue holds the same jobs, each once.
LEMMA SortKeepsJobs ==
    ASSUME NEW s \in Seq(JobIds)
    PROVE  /\ ByPosition(s) \in Seq(JobIds) /\ Len(ByPosition(s)) = Len(s)
           /\ \A i \in 1..Len(s) : \E k \in 1..Len(s) : ByPosition(s)[i] = s[k]
           /\ \A k \in 1..Len(s) : \E i \in 1..Len(s) : ByPosition(s)[i] = s[k]
           /\ (\A i, k \in 1..Len(s) : s[i] = s[k] => i = k) =>
                \A i, k \in 1..Len(s) : ByPosition(s)[i] = ByPosition(s)[k] => i = k
<1>1. PICK p \in [1..Len(s) -> 1..Len(s)] :
            /\ \A i, k \in 1..Len(s) : p[i] = p[k] => i = k
            /\ \A k \in 1..Len(s) : \E i \in 1..Len(s) : p[i] = k
            /\ ByPosition(s) = [i \in 1..Len(s) |-> s[p[i]]]
    BY SortArranges
<1>2. \A i \in 1..Len(s) : ByPosition(s)[i] = s[p[i]] /\ p[i] \in 1..Len(s)
    BY <1>1
<1>3. ByPosition(s) \in Seq(JobIds) /\ Len(ByPosition(s)) = Len(s)
    BY <1>1
<1>4. \A i \in 1..Len(s) : \E k \in 1..Len(s) : ByPosition(s)[i] = s[k]
    BY <1>2
<1>5. ASSUME NEW k \in 1..Len(s) PROVE \E i \in 1..Len(s) : ByPosition(s)[i] = s[k]
  <2>1. PICK i \in 1..Len(s) : p[i] = k
    BY <1>1
  <2>2. ByPosition(s)[i] = s[k]
    BY <1>2, <2>1
  <2> QED
    BY <2>2
<1>6. ASSUME \A i, k \in 1..Len(s) : s[i] = s[k] => i = k,
             NEW i \in 1..Len(s), NEW k \in 1..Len(s), ByPosition(s)[i] = ByPosition(s)[k]
      PROVE  i = k
  <2>1. s[p[i]] = s[p[k]]
    BY <1>2, <1>6
  <2>2. p[i] = p[k]
    BY <1>2, <1>6, <2>1
  <2> QED
    BY <1>1, <2>2
<1> QED
    BY <1>3, <1>4, <1>5, <1>6

\* The old jobs: n of those that have ended, or all of them.
LEMMA OldJobsListed ==
    ASSUME ended \subseteq JobIds, NEW n \in Nat
    PROVE  /\ IsFiniteSet(ended) /\ Cardinality(ended) \in Nat
           /\ OldJobs(n) \in Seq(JobIds)
           /\ Len(OldJobs(n)) = IF n < Cardinality(ended) THEN n ELSE Cardinality(ended)
           /\ n >= Cardinality(ended) =>
                \A j \in ended : \E i \in 1..Len(OldJobs(n)) : OldJobs(n)[i] = j
<1> DEFINE R == {e \in ended \X ended : e[1] > e[2]}
<1>1. IsFiniteSet(ended) /\ Cardinality(ended) \in Nat
  <2>1. IsFiniteSet(JobIds)
    BY CountUpTo DEF JobIds
  <2> QED
    BY <2>1, FS_Subset, FS_CardinalityType
<1>2. \A i, k \in ended : <<i, k>> \in R <=> i > k
    OBVIOUS
<1>3. \A i \in ended : i \in Nat
    BY DEF JobIds
<1> HIDE DEF R
<1>4. Orders(R, ended)
    BY <1>2, <1>3 DEF Orders
<1>5. \A i \in ended : Place(R, ended, i) = 1 + Cardinality({k \in ended : k > i})
  <2> TAKE i \in ended
  <2>1. {k \in ended : <<k, i>> \in R} = {k \in ended : k > i}
    BY <1>2
  <2> QED
    BY <2>1 DEF Place
<1> DEFINE Latest(r) == CHOOSE i \in ended : 1 + Cardinality({k \in ended : k > i}) = r
           Placed(r) == CHOOSE i \in ended : Place(R, ended, i) = r
<1>6. \A r : Latest(r) = Placed(r)
    BY <1>5
<1>7. LatestFirst = Ranked(R, ended)
  <2>1. LatestFirst = [r \in 1..Cardinality(ended) |-> Latest(r)]
    BY DEF LatestFirst
  <2>2. Ranked(R, ended) = [r \in 1..Cardinality(ended) |-> Placed(r)]
    BY DEF Ranked
  <2> HIDE DEF Latest, Placed
  <2> QED
    BY <1>6, <2>1, <2>2
<1> HIDE DEF Latest, Placed
<1>8. /\ LatestFirst \in [1..Cardinality(ended) -> ended]
      /\ \A d \in ended : \E i \in 1..Cardinality(ended) : LatestFirst[i] = d
  <2>1. /\ Ranked(R, ended) \in [1..Cardinality(ended) -> ended]
        /\ \A d \in ended : \E i \in 1..Cardinality(ended) : Ranked(R, ended)[i] = d
    BY <1>1, <1>4, RankedArranges, Zenon
  <2> QED
    BY <1>7, <2>1, Zenon
<1>9. LatestFirst \in Seq(JobIds) /\ Len(LatestFirst) = Cardinality(ended)
    BY <1>1, <1>8
<1> DEFINE m == IF n < Len(LatestFirst) THEN n ELSE Len(LatestFirst)
<1>10. m \in 0..Len(LatestFirst)
    BY <1>1, <1>9
<1>11. OldJobs(n) = SubSeq(LatestFirst, 1, m)
    BY DEF OldJobs
<1>12. m = IF n < Cardinality(ended) THEN n ELSE Cardinality(ended)
    BY <1>9
<1> HIDE DEF m
<1>13. /\ OldJobs(n) \in Seq(JobIds) /\ Len(OldJobs(n)) = m
       /\ \A i \in 1..m : OldJobs(n)[i] = LatestFirst[i]
    BY <1>9, <1>10, <1>11
<1> QED
    BY <1>1, <1>8, <1>12, <1>13

\* A limit within the queue cuts its front off, any other one leaves it whole;
\* old jobs are asked for only when it is whole and leaves room for them.
LEMMA CutLength ==
    ASSUME NEW s \in Seq(JobIds), NEW r \in Int
    PROVE  /\ Cut(s, r) \in Seq(JobIds)
           /\ Len(Cut(s, r)) = IF r \in 1..Len(s) THEN r ELSE Len(s)
           /\ r \notin 1..Len(s) => Cut(s, r) = s
<1>1. CASE r \in 1..Len(s)
  <2>1. Cut(s, r) = SubSeq(s, Len(s) - r + 1, Len(s))
    BY <1>1 DEF Cut
  <2>2. Len(s) - r + 1 \in 1..Len(s) /\ Len(s) \in Nat
    BY <1>1
  <2>3. Cut(s, r) \in Seq(JobIds)
    BY <2>1, <2>2
  <2>4. Len(Cut(s, r)) = Len(s) - (Len(s) - r + 1) + 1
    BY <2>1, <2>2
  <2> QED
    BY <1>1, <2>2, <2>3, <2>4
<1>2. CASE r \notin 1..Len(s)
    BY <1>2 DEF Cut
<1> QED
    BY <1>1, <1>2

\* Old jobs are fetched for a limit that is left, a positive number of them.
LEMMA OldLimitLeft ==
    ASSUME NEW s \in Seq(JobIds), NEW r \in Int
    PROVE  /\ OldLimit(s, r) \in Int
           /\ OldLimit(s, r) > 0 <=> r <= 0 \/ Len(s) < r
           /\ r <= 0 => OldLimit(s, r) = DefaultLimit
           /\ r > 0 /\ Len(s) < r => OldLimit(s, r) = r - Len(s)
<1>1. Len(Cut(s, r)) = IF r \in 1..Len(s) THEN r ELSE Len(s)
    BY CutLength
<1>2. Len(s) \in Nat /\ DefaultLimit \in Nat /\ DefaultLimit > 0
    OBVIOUS
<1>3. CASE r <= 0
    BY <1>2, <1>3 DEF OldLimit
<1>4. CASE r > 0 /\ r <= Len(s)
  <2>1. OldLimit(s, r) = 0 - r
    BY <1>1, <1>2, <1>4 DEF OldLimit
  <2> QED
    BY <1>2, <1>4, <2>1
<1>5. CASE r > 0 /\ Len(s) < r
  <2>1. OldLimit(s, r) = r - Len(s)
    BY <1>1, <1>2, <1>5 DEF OldLimit
  <2> QED
    BY <1>2, <1>5, <2>1
<1> QED
    BY <1>2, <1>3, <1>4, <1>5

\* RemoveJob leaves out the worker's job: the others stay, each once.
LEMMA RemoveCuts ==
    ASSUME SliceInv, wpc # "idle"
    PROVE  /\ Removed \in Seq(JobIds) /\ Len(Removed) = Len(queue) - 1
           /\ \A i \in 1..Len(Removed) : Removed[i] < next
           /\ \A i, k \in 1..Len(Removed) : Removed[i] = Removed[k] => i = k
<1> DEFINE n == Len(queue)
           i == CHOOSE k \in 1..n : queue[k] = cur
           s == [queue EXCEPT ![i] = queue[n]]
<1>1. queue \in Seq(JobIds) /\ n \in Nat /\ \A k \in 1..n : queue[k] \in JobIds
    BY DEF SliceInv
<1>2. \E k \in 1..n : queue[k] = cur
    BY DEF SliceInv
<1>3. i \in 1..n /\ queue[i] = cur
    BY <1>2, Zenon
<1>4. Removed = SubSeq(s, 1, n - 1)
    BY DEF Removed
<1> HIDE DEF i
<1>5. n \in 1..n
    BY <1>1, <1>3
<1>6. s \in [1..n -> JobIds] /\ \A k \in 1..n : s[k] = IF k = i THEN queue[n] ELSE queue[k]
    BY <1>1, <1>3, <1>5
<1> HIDE DEF s
<1>7. s \in Seq(JobIds) /\ Len(s) = n
    BY <1>1, <1>6
<1>8. /\ Removed \in Seq(JobIds) /\ Len(Removed) = n - 1
      /\ \A k \in 1..n - 1 : Removed[k] = s[k]
  <2> HIDE DEF n
  <2> QED
    BY <1>1, <1>4, <1>5, <1>7
<1>9. ASSUME NEW k \in 1..n - 1
      PROVE  k \in 1..n /\ k # n /\ Removed[k] = IF k = i THEN queue[n] ELSE queue[k]
    BY <1>1, <1>6, <1>8
<1>10. ASSUME NEW k \in 1..n - 1
       PROVE  Removed[k] < next
    BY <1>5, <1>9 DEF SliceInv
<1>11. ASSUME NEW k \in 1..n - 1, NEW m \in 1..n - 1, Removed[k] = Removed[m]
       PROVE  k = m
    BY <1>5, <1>9, <1>11 DEF SliceInv
<1> QED
    BY <1>8, <1>10, <1>11

\* A walk that nobody disturbs finds every job where it was.
LEMMA PrefixKept ==
    ASSUME NEW s \in Seq(JobIds), NEW t \in Seq(JobIds), IsPrefix(s, t)
    PROVE  Len(s) <= Len(t) /\ \A i \in 1..Len(s) : t[i] = s[i]
<1>1. Len(s) <= Len(t) /\ SubSeq(s, 1, Len(s)) = SubSeq(t, 1, Len(s))
    BY DEF IsPrefix
<1>2. ASSUME NEW i \in 1..Len(s) PROVE t[i] = s[i]
  <2>1. SubSeq(s, 1, Len(s))[i] = s[i]
    OBVIOUS
  <2>2. SubSeq(t, 1, Len(s))[i] = t[i]
    BY <1>1
  <2> QED
    BY <1>1, <2>1, <2>2
<1> QED
    BY <1>1, <1>2

\* A sequence has at most as many entries as its length.
LEMMA EntriesBound ==
    ASSUME NEW S, NEW s \in Seq(S)
    PROVE  /\ IsFiniteSet({s[i] : i \in 1..Len(s)})
           /\ Cardinality({s[i] : i \in 1..Len(s)}) <= Len(s)
<1> DEFINE T == {s[i] : i \in 1..Len(s)}
<1>1. IsFiniteSet(1..Len(s)) /\ Cardinality(1..Len(s)) = Len(s)
    BY CountUpTo
<1>2. [i \in 1..Len(s) |-> s[i]] \in Surjection(1..Len(s), T)
    BY DEF Surjection
<1> HIDE DEF T
<1>3. IsFiniteSet(T) /\ Cardinality(T) <= Cardinality(1..Len(s))
    BY <1>1, <1>2, FS_Surjection
<1> QED
    BY <1>1, <1>3 DEF T

(***************************************************************************)
(* The slice                                                               *)
(***************************************************************************)

\* A sort of the slice keeps its invariant, whatever else holds.
LEMMA SortedSlice ==
    ASSUME SliceInv, queue' = ByPosition(queue)
    PROVE  /\ queue' \in Seq(JobIds) /\ Len(queue') = Len(queue)
           /\ \A i, k \in 1..Len(queue') : queue'[i] = queue'[k] => i = k
           /\ \A i \in 1..Len(queue') : queue'[i] < next
           /\ \A j : (\E i \in 1..Len(queue) : queue[i] = j) =>
                \E i \in 1..Len(queue') : queue'[i] = j
<1>1. queue \in Seq(JobIds) /\ \A i \in 1..Len(queue) : queue[i] < next
    BY DEF SliceInv
<1> DEFINE t == ByPosition(queue)
<1>2. /\ t \in Seq(JobIds) /\ Len(t) = Len(queue)
      /\ \A i \in 1..Len(queue) : \E k \in 1..Len(queue) : t[i] = queue[k]
      /\ \A k \in 1..Len(queue) : \E i \in 1..Len(queue) : t[i] = queue[k]
    BY <1>1, SortKeepsJobs, Zenon
<1>3. \A i, k \in 1..Len(queue) : t[i] = t[k] => i = k
    BY <1>1, SortKeepsJobs, Zenon DEF SliceInv
<1>4. queue' = t
    OBVIOUS
<1> HIDE DEF t
<1>5. \A i \in 1..Len(t) : t[i] < next
    BY <1>1, <1>2
<1>6. \A j : (\E i \in 1..Len(queue) : queue[i] = j) => \E i \in 1..Len(t) : t[i] = j
    BY <1>2, Zenon
<1> QED
    BY <1>2, <1>3, <1>4, <1>5, <1>6, Zenon

\* A save of a job leaves it among those saved, and leaves the others alone.
LEMMA SavesKeep ==
    ASSUME NEW j \in JobIds, StoresListed(j) \/ StoresUnlisted(j)
    PROVE  /\ ended \subseteq JobIds => ended' \subseteq JobIds
           /\ unlisted \subseteq JobIds => unlisted' \subseteq JobIds
           /\ j \in ended' \cup unlisted'
           /\ ended \cup unlisted \subseteq ended' \cup unlisted'
           /\ unlisted \subseteq unlisted'
<1>1. CASE StoresListed(j)
    BY <1>1 DEF StoresListed
<1>2. CASE StoresUnlisted(j)
    BY <1>2 DEF StoresUnlisted
<1> QED
    BY <1>1, <1>2

\* The others keep it: a new job is larger than all before, a job is hidden or
\* removed only after a save at its end.
LEMMA SliceStep == ASSUME SliceInv, [Next]_vars PROVE SliceInv'
<1>0. /\ queue \in Seq(JobIds) /\ Len(queue) \in Nat
      /\ \A i \in 1..Len(queue) : queue[i] \in JobIds
      /\ JobIds = 1..MaxJobs /\ MaxJobs \in Nat
    BY DEF SliceInv, JobIds
<1>1. CASE UNCHANGED queueVars
    BY <1>1 DEF SliceInv, queueVars
<1>2. CASE AddJob
  <2>1. queue' = Append(queue, next) /\ next' = next + 1 /\ apc' = "reply" /\ next <= MaxJobs
        /\ UNCHANGED <<deleted, ended, unlisted, wpc, cur, cpc, cjob>>
    BY <1>2 DEF AddJob, Rearrange
  <2>2. next \in JobIds /\ next \in Nat
    BY <1>0, <2>1 DEF SliceInv
  <2>3. /\ queue' \in Seq(JobIds) /\ Len(queue') = Len(queue) + 1
        /\ queue'[Len(queue) + 1] = next
        /\ \A i \in 1..Len(queue) : queue'[i] = queue[i] /\ queue'[i] < next
    BY <1>0, <2>1, <2>2 DEF SliceInv
  <2>4. ASSUME NEW i \in 1..Len(queue'), NEW k \in 1..Len(queue'), queue'[i] = queue'[k]
        PROVE  i = k
    <3>1. \A m \in 1..Len(queue') : m \in 1..Len(queue) \/ m = Len(queue) + 1
      BY <1>0, <2>3
    <3>2. \A m \in 1..Len(queue) : queue'[m] # next
      BY <1>0, <2>2, <2>3
    <3>3. CASE i \in 1..Len(queue) /\ k \in 1..Len(queue)
      BY <2>3, <2>4, <3>3 DEF SliceInv
    <3> QED
      BY <2>3, <2>4, <3>1, <3>2, <3>3
  <2>5. \A i \in 1..Len(queue') : queue'[i] < next'
    BY <1>0, <2>1, <2>2, <2>3
  <2>6. ASSUME wpc # "idle" PROVE \E i \in 1..Len(queue') : queue'[i] = cur
    BY <1>0, <2>3, <2>6 DEF SliceInv
  <2>7. next' \in 1..MaxJobs + 1
    BY <1>0, <2>1, <2>2
  <2> QED
    BY <2>1, <2>3, <2>4, <2>5, <2>6, <2>7 DEF SliceInv
<1>3. CASE ReplyPosition
  <2>1. queue' = ByPosition(queue) /\ apc' = "idle"
        /\ UNCHANGED <<deleted, ended, unlisted, next, wpc, cur, cpc, cjob>>
    BY <1>3 DEF ReplyPosition, Rearrange
  <2> QED
    BY <2>1, SortedSlice DEF SliceInv
<1>4. CASE TakeFirst
  <2>1. queue' = ByPosition(queue) /\ cur' = queue'[1] /\ wpc' = "running" /\ queue # <<>>
        /\ UNCHANGED <<deleted, ended, unlisted, next, apc, cpc, cjob>>
    BY <1>4 DEF TakeFirst, Rearrange
  <2>2. 1 \in 1..Len(queue')
    BY <1>0, <2>1, SortedSlice
  <2> QED
    BY <2>1, <2>2, SortedSlice DEF SliceInv
<1>5. CASE RemoveJob
  <2>1. queue' = Removed /\ wpc' = "idle" /\ cur' = 0 /\ wpc = "remove"
        /\ UNCHANGED <<deleted, ended, unlisted, next, apc, cpc, cjob>>
    BY <1>5 DEF RemoveJob, Rearrange
  <2> QED
    BY <2>1, RemoveCuts DEF SliceInv
<1>6. CASE SaveBuilt \/ RunEnds
  <2>1. cur \in JobIds /\ wpc = "running" /\ wpc' \in {"running", "mark"}
    BY <1>0, <1>6 DEF SliceInv, SaveBuilt, RunEnds
  <2>2. /\ UNCHANGED <<queue, deleted, next, apc, cur, cpc, cjob>>
        /\ StoresListed(cur) \/ StoresUnlisted(cur)
    BY <1>6 DEF SaveBuilt, RunEnds
  <2>3. /\ ended' \subseteq JobIds /\ unlisted' \subseteq JobIds /\ cur \in ended' \cup unlisted'
        /\ ended \cup unlisted \subseteq ended' \cup unlisted'
    BY <2>1, <2>2, SavesKeep DEF SliceInv
  <2> QED
    BY <2>1, <2>2, <2>3 DEF SliceInv
<1>7. CASE MarkRun
    BY <1>7 DEF SliceInv, MarkRun
<1>8. CASE CancelJob \/ SaveCancelled
  <2>1. PICK j \in JobIds :
            /\ StoresListed(j) \/ StoresUnlisted(j)
            /\ \/ cpc' = "idle" /\ cjob' = 0
               \/ cpc' = "mark" /\ cjob' = j
            /\ UNCHANGED <<queue, deleted, next, apc, wpc, cur>>
    <3>1. CASE CancelJob
      BY <1>0, <3>1 DEF CancelJob, CancelSave
    <3>2. CASE SaveCancelled
      <4>1. cjob \in JobIds
        BY <3>2 DEF SliceInv, SaveCancelled
      <4> QED
        BY <3>2, <4>1 DEF SaveCancelled, CancelSave
    <3> QED
      BY <1>8, <3>1, <3>2
  <2>2. /\ ended' \subseteq JobIds /\ unlisted' \subseteq JobIds /\ j \in ended' \cup unlisted'
        /\ ended \cup unlisted \subseteq ended' \cup unlisted'
    BY <2>1, SavesKeep DEF SliceInv
  <2> QED
    BY <2>1, <2>2 DEF SliceInv
<1>10. CASE MarkCancelled
    BY <1>10 DEF SliceInv, MarkCancelled
<1>9. ASSUME NEW l \in Lists, List(l) PROVE SliceInv'
    BY <1>1, <1>9 DEF List, ListJobs, TestDeleted, CopyItem, CutToLimit, AppendOld
<1> QED
    BY <1>1, <1>2, <1>3, <1>4, <1>5, <1>6, <1>7, <1>8, <1>9, <1>10
    DEF Next, Others, vars, queueVars

\* The part of the slice a walk may still read is as it was.
Undisturbed ==
    /\ Len(queue) <= Len(queue')
    /\ \A i \in 1..Len(queue) : queue'[i] = queue[i]

\* The others leave a request's own variables alone, no save is undone,
\* and a walk they did not disturb sees the slice as it was.
LEMMA OthersKeep ==
    ASSUME SliceInv, ListType, Others
    PROVE  /\ UNCHANGED <<lpc, limit, len, idx, got, answer, known>>
           /\ moved' \in [Lists -> BOOLEAN]
           /\ ended \cup unlisted \subseteq ended' \cup unlisted' /\ unlisted \subseteq unlisted'
           /\ \A l \in Lists :
                /\ ~moved'[l] => ~moved[l]
                /\ ~moved'[l] /\ lpc[l] \in {"test", "copy"} => Undisturbed
                /\ lpc[l] \notin {"test", "copy"} => moved'[l] = moved[l]
<1>1. queue \in Seq(JobIds) /\ queue' \in Seq(JobIds)
  <2>1. SliceInv'
    BY SliceStep DEF Next
  <2> QED
    BY <2>1 DEF SliceInv
<1>2. ASSUME NEW s, Rearrange(s)
      PROVE  /\ moved' \in [Lists -> BOOLEAN]
             /\ \A l \in Lists :
                /\ ~moved'[l] => ~moved[l]
                /\ ~moved'[l] /\ lpc[l] \in {"test", "copy"} => Undisturbed
                /\ lpc[l] \notin {"test", "copy"} => moved'[l] = moved[l]
  <2>1. queue' = s
        /\ moved' = [l \in Lists |->
                    moved[l] \/ (lpc[l] \in {"test", "copy"} /\ ~IsPrefix(queue, s))]
    BY <1>2 DEF Rearrange
  <2>2. IsPrefix(queue, s) => Undisturbed
    BY <1>1, <2>1, PrefixKept DEF Undisturbed
  <2>3. moved \in [Lists -> BOOLEAN]
    BY DEF ListType
  <2> HIDE DEF Undisturbed
  <2> QED
    BY <2>1, <2>2, <2>3
<1>3. CASE AddJob
    BY <1>2, <1>3 DEF AddJob, walkVars
<1>4. CASE ReplyPosition
    BY <1>2, <1>4 DEF ReplyPosition, walkVars
<1>5. CASE TakeFirst
    BY <1>2, <1>5 DEF TakeFirst, walkVars
<1>6. CASE RemoveJob
    BY <1>2, <1>6 DEF RemoveJob, walkVars
<1>7. CASE SaveBuilt \/ RunEnds \/ MarkRun \/ CancelJob \/ MarkCancelled \/ SaveCancelled
  <2>1. UNCHANGED <<queue, lpc, limit, len, idx, got, answer, known, moved>>
    BY <1>7 DEF SaveBuilt, RunEnds, MarkRun, CancelJob, MarkCancelled, SaveCancelled, listVars
  <2>2. \/ UNCHANGED <<ended, unlisted>>
        \/ \E j \in JobIds : StoresListed(j) \/ StoresUnlisted(j)
    <3>1. CASE SaveBuilt \/ RunEnds
      <4>1. cur \in JobIds
        BY <1>1, <3>1 DEF SliceInv, SaveBuilt, RunEnds
      <4> QED
        BY <3>1, <4>1 DEF SaveBuilt, RunEnds
    <3>2. CASE CancelJob
      <4>1. \A i \in 1..Len(queue) : queue[i] \in JobIds
        BY <1>1
      <4> QED
        BY <3>2, <4>1 DEF CancelJob, CancelSave
    <3>3. CASE SaveCancelled
      <4>1. cjob \in JobIds
        BY <3>3 DEF SliceInv, SaveCancelled
      <4> QED
        BY <3>3, <4>1 DEF SaveCancelled, CancelSave
    <3>4. CASE MarkRun \/ MarkCancelled
      BY <3>4 DEF MarkRun, MarkCancelled
    <3> QED
      BY <1>7, <3>1, <3>2, <3>3, <3>4
  <2>3. ended \cup unlisted \subseteq ended' \cup unlisted' /\ unlisted \subseteq unlisted'
    BY <2>2, SavesKeep
  <2>4. Undisturbed
    BY <1>1, <2>1 DEF Undisturbed
  <2> QED
    BY <2>1, <2>3, <2>4 DEF ListType
<1> QED
    BY <1>3, <1>4, <1>5, <1>6, <1>7 DEF Others

(***************************************************************************)
(* The lists                                                               *)
(***************************************************************************)

\* Limits are numbers, and there are at most as many queued jobs as numbers.
LEMMA Numbers ==
    ASSUME SliceInv, ListType
    PROVE  /\ Len(queue) \in 0..MaxJobs
           /\ \A l \in Lists : limit[l] \in Int
<1>1. queue \in [1..Len(queue) -> 1..MaxJobs] /\ Len(queue) \in Nat
    BY DEF SliceInv, JobIds
<1>2. Len(queue) <= MaxJobs
    BY <1>1, DistinctBound, Zenon DEF SliceInv
<1>3. ASSUME NEW l \in Lists PROVE limit[l] \in Int
  <2>1. limit[l] \in Limits \cup {0}
    BY DEF ListType
  <2>2. limit[l] \in Limits => limit[l] \in Int
    BY Zenon
  <2>3. limit[l] \in Limits \/ limit[l] = 0
    BY <2>1, Zenon
  <2> QED
    BY <2>2, <2>3
<1>4. Len(queue) \in 0..MaxJobs
    BY <1>1, <1>2
<1> QED
    BY <1>3, <1>4

\* An undisturbed walk copies each job once: no more than there are.
LEMMA CopiedBound ==
    ASSUME ListType, NEW l \in Lists, \A i, k \in 1..Len(got[l]) : got[l][i] = got[l][k] => i = k
    PROVE  Len(got[l]) \in 0..MaxJobs
<1>1. got[l] \in [1..Len(got[l]) -> 1..MaxJobs] /\ Len(got[l]) \in Nat
  <2>1. got[l] \in Seq(JobIds)
    BY DEF ListType
  <2> QED
    BY <2>1 DEF JobIds
<1>2. Len(got[l]) <= MaxJobs
    BY <1>1, DistinctBound, Zenon
<1> QED
    BY <1>1, <1>2

\* Every variable of a request stays in its range.
LEMMA ListTypeStep ==
    ASSUME SliceInv, ListType, \A l \in Lists : WalkFor(l) /\ OldFor(l), [Next]_vars
    PROVE  ListType'
<1>1. CASE UNCHANGED vars
    BY <1>1 DEF vars, ListType
<1>2. CASE Others
    BY <1>2, OthersKeep DEF ListType
<1>3. ASSUME NEW l \in Lists, List(l)
      PROVE  ListType'
  <2>0. /\ Len(queue) \in 0..MaxJobs /\ limit[l] \in Int /\ got[l] \in Seq(JobIds)
        /\ answer[l] \in Seq(JobIds) /\ idx[l] \in 1..MaxJobs + 1 /\ len[l] \in 0..MaxJobs
        /\ queue \in Seq(JobIds) /\ ended \subseteq JobIds
    BY Numbers DEF ListType, SliceInv
  <2>1. CASE ListJobs(l)
    <3>1. {queue[i] : i \in 1..Len(queue)} \cup ended \in SUBSET JobIds
      BY <2>0
    <3> QED
      BY <2>0, <2>1, <3>1 DEF ListJobs, ListType, RangeEnd
  <2>2. CASE TestDeleted(l)
    <3>1. idx[l] <= len[l] /\ idx[l] + 1 \in 1..MaxJobs + 1
      BY <2>0, <2>2 DEF TestDeleted
    <3>2. /\ idx' = idx \/ idx' = [idx EXCEPT ![l] = idx[l] + 1]
          /\ \/ lpc' = lpc
             \/ lpc' = [lpc EXCEPT ![l] = "copy"]
             \/ lpc' = [lpc EXCEPT ![l] = "aborted"]
          /\ UNCHANGED <<limit, len, got, answer, known, moved>>
      BY <2>2 DEF TestDeleted
    <3>3. idx' \in [Lists -> 1..MaxJobs + 1]
      BY <3>1, <3>2 DEF ListType
    <3>4. lpc' \in [Lists -> {"idle", "test", "copy", "old", "done", "aborted", "failed"}]
      BY <3>2 DEF ListType
    <3> QED
      BY <3>2, <3>3, <3>4 DEF ListType
  <2>3. CASE CopyItem(l)
    <3>1. idx[l] <= len[l]
      BY <2>3 DEF CopyItem, WalkFor
    <3>2. idx[l] + 1 \in 1..MaxJobs + 1
      BY <2>0, <3>1
    <3>3. idx[l] <= Len(queue) => Append(got[l], queue[idx[l]]) \in Seq(JobIds)
      BY <2>0
    <3>4. /\ idx' = idx \/ idx' = [idx EXCEPT ![l] = idx[l] + 1]
          /\ \/ got' = got
             \/ idx[l] <= Len(queue) /\ got' = [got EXCEPT ![l] = Append(got[l], queue[idx[l]])]
          /\ lpc' = [lpc EXCEPT ![l] = "test"] \/ lpc' = [lpc EXCEPT ![l] = "aborted"]
          /\ UNCHANGED <<limit, len, answer, known, moved>>
      BY <2>3 DEF CopyItem
    <3>5. idx' \in [Lists -> 1..MaxJobs + 1]
      BY <3>2, <3>4 DEF ListType
    <3>6. got' \in [Lists -> Seq(JobIds)]
      BY <3>3, <3>4 DEF ListType
    <3>7. lpc' \in [Lists -> {"idle", "test", "copy", "old", "done", "aborted", "failed"}]
      BY <3>4 DEF ListType
    <3> QED
      BY <3>4, <3>5, <3>6, <3>7 DEF ListType
  <2>4. CASE CutToLimit(l)
    <3>1. Cut(ByPosition(got[l]), limit[l]) \in Seq(JobIds)
      BY <2>0, SortKeepsJobs, CutLength
    <3> QED
      BY <2>4, <3>1, ZenonT(30) DEF CutToLimit, ListType
  <2>5. CASE AppendOld(l)
    <3>1. OldLimit(got[l], limit[l]) \in Nat
      <4>1. limit[l] <= 0 \/ Len(got[l]) < limit[l]
        BY <2>5 DEF AppendOld, OldFor
      <4>2. OldLimit(got[l], limit[l]) \in Int /\ OldLimit(got[l], limit[l]) > 0
        BY <2>0, <4>1, OldLimitLeft
      <4> QED
        BY <4>2
    <3>2. answer[l] \o OldJobs(OldLimit(got[l], limit[l])) \in Seq(JobIds)
      BY <2>0, <3>1, OldJobsListed
    <3> QED
      BY <2>5, <3>2, ZenonT(30) DEF AppendOld, ListType
  <2> QED
    BY <1>3, <2>1, <2>2, <2>3, <2>4, <2>5 DEF List
<1> QED
    BY <1>1, <1>2, <1>3 DEF Next

\* A step that leaves a request and the slice alone keeps the request's invariant.
LEMMA ListFrame ==
    ASSUME NEW m \in Lists, ListFor(m), UNCHANGED <<queue, ended, unlisted>>,
           lpc'[m] = lpc[m], limit'[m] = limit[m], len'[m] = len[m], idx'[m] = idx[m],
           got'[m] = got[m], answer'[m] = answer[m], known'[m] = known[m], moved'[m] = moved[m]
    PROVE  ListFor(m)'
<1>1. Copied(m)' = Copied(m) /\ Answered(m)' = Answered(m)
    BY DEF Copied, Answered
<1>2. WalkFor(m)'
    BY <1>1 DEF ListFor, WalkFor, Queued
<1>3. OldFor(m)' /\ LimitFor(m)'
    BY DEF ListFor, OldFor, LimitFor
<1>4. CompleteFor(m)'
    BY <1>1 DEF ListFor, CompleteFor
<1> QED
    BY <1>2, <1>3, <1>4 DEF ListFor

\* What the others do while a request is under way.
LEMMA ListDuring ==
    ASSUME SliceInv, ListType, Others, NEW m \in Lists, ListFor(m)
    PROVE  ListFor(m)'
<1>0. /\ UNCHANGED <<lpc, limit, len, idx, got, answer, known>>
      /\ ended \cup unlisted \subseteq ended' \cup unlisted' /\ unlisted \subseteq unlisted'
      /\ (~moved'[m] => ~moved[m])
      /\ (~moved'[m] /\ lpc[m] \in {"test", "copy"} => Undisturbed)
      /\ (lpc[m] \notin {"test", "copy"} => moved'[m] = moved[m])
    BY OthersKeep
<1>1. /\ Len(queue) \in Nat /\ idx[m] \in Nat \ {0} /\ len[m] \in Nat /\ queue' \in Seq(JobIds)
      /\ ended' \cup unlisted' \subseteq JobIds /\ known[m] \subseteq JobIds
  <2>1. SliceInv'
    BY SliceStep DEF Next
  <2> QED
    BY <2>1 DEF SliceInv, ListType
<1>2. ASSUME ~moved'[m], lpc[m] \in {"test", "copy"}
      PROVE  /\ len[m] <= Len(queue')
             /\ Copied(m) \subseteq Queued(1, idx[m] - 1)'
             /\ known[m] \subseteq ended' \cup unlisted' \cup Copied(m) \cup Queued(idx[m], len[m])'
  <2>1. /\ len[m] <= Len(queue)
        /\ Copied(m) \subseteq Queued(1, idx[m] - 1)
        /\ known[m] \subseteq ended \cup unlisted \cup Copied(m) \cup Queued(idx[m], len[m])
        /\ idx[m] <= len[m] + 1
    BY <1>0, <1>2 DEF ListFor, WalkFor
  <2>2. Len(queue) <= Len(queue') /\ \A i \in 1..Len(queue) : queue'[i] = queue[i]
    BY <1>0, <1>2 DEF Undisturbed
  <2>3. Queued(1, idx[m] - 1)' = Queued(1, idx[m] - 1)
    <3>1. \A i \in 1..idx[m] - 1 : i \in 1..Len(queue)
      BY <1>1, <2>1
    <3> QED
      BY <1>0, <2>2, <3>1 DEF Queued
  <2>4. Queued(idx[m], len[m])' = Queued(idx[m], len[m])
    <3>1. \A i \in idx[m]..len[m] : i \in 1..Len(queue)
      BY <1>1, <2>1
    <3> QED
      BY <1>0, <2>2, <3>1 DEF Queued
  <2>5. len[m] <= Len(queue')
    BY <1>1, <2>1, <2>2
  <2> QED
    BY <1>0, <2>1, <2>3, <2>4, <2>5
<1>3. Copied(m)' = Copied(m)
    BY <1>0 DEF Copied
<1>4. WalkFor(m)'
    BY <1>0, <1>2, <1>3 DEF ListFor, WalkFor, Queued
<1>5. OldFor(m)' /\ LimitFor(m)'
  <2>1. IsFiniteSet(known[m] \ unlisted)
    BY <1>1, CountUpTo, FS_Subset DEF JobIds
  <2>2. known[m] \ unlisted' \subseteq known[m] \ unlisted
    BY <1>0
  <2>3. /\ IsFiniteSet(known[m] \ unlisted')
        /\ Cardinality(known[m] \ unlisted') <= Cardinality(known[m] \ unlisted)
    BY <2>1, <2>2, FS_Subset
  <2>4. Cardinality(known[m] \ unlisted) \in Nat /\ Cardinality(known[m] \ unlisted') \in Nat
    BY <2>1, <2>3, FS_CardinalityType
  <2>5. limit[m] \in Int
    BY Numbers
  <2> QED
    BY <1>0, <2>3, <2>4, <2>5 DEF ListFor, OldFor, LimitFor
<1>6. CompleteFor(m)'
  <2>1. IsFiniteSet(ended' \cup unlisted')
    BY <1>1, CountUpTo, FS_Subset DEF JobIds
  <2>2. /\ IsFiniteSet(ended \cup unlisted)
        /\ Cardinality(ended \cup unlisted) <= Cardinality(ended' \cup unlisted')
    BY <1>0, <2>1, FS_Subset
  <2>3. /\ Cardinality(ended \cup unlisted) \in Nat
        /\ Cardinality(ended' \cup unlisted') \in Nat
    BY <2>1, <2>2, FS_CardinalityType
  <2>4. DefaultLimit \in Nat /\ limit[m] \in Int
    BY Numbers
  <2> QED
    BY <1>0, <2>2, <2>3, <2>4 DEF ListFor, CompleteFor, Answered
<1> QED
    BY <1>4, <1>5, <1>6 DEF ListFor

\* The request's own steps, one by one.  First: the range of the walk is fixed.
LEMMA BeginsWalk ==
    ASSUME SliceInv, ListType, NEW l \in Lists, ListFor(l), ListJobs(l)
    PROVE  ListFor(l)'
<1>1. /\ lpc[l] = "idle" /\ lpc'[l] = "test" /\ len'[l] = Len(queue)
      /\ known'[l] = {queue[i] : i \in 1..Len(queue)} \cup ended
      /\ idx'[l] = idx[l] /\ got'[l] = got[l]
      /\ UNCHANGED <<queue, ended, unlisted>>
    BY DEF ListJobs, ListType, RangeEnd, queueVars
<1>2. idx[l] = 1 /\ got[l] = <<>> /\ Len(queue) \in Nat
    BY <1>1 DEF ListFor, WalkFor, SliceInv
<1>3. Copied(l)' = {}
    BY <1>1, <1>2 DEF Copied
<1>4. known'[l] \subseteq ended' \cup unlisted' \cup Copied(l)' \cup Queued(idx[l], len[l])'
    BY <1>1, <1>2, <1>3 DEF Queued
<1>5. \A i, k \in 1..Len(got'[l]) : got'[l][i] = got'[l][k] => i = k
    BY <1>1, <1>2
<1>6. WalkFor(l)'
    BY <1>1, <1>2, <1>3, <1>4, <1>5 DEF WalkFor
<1> QED
    BY <1>1, <1>6 DEF ListFor, OldFor, CompleteFor, LimitFor

\* A hidden item is passed over: a save at its job's end precedes the mark.
LEMMA PassesItem ==
    ASSUME SliceInv, ListType, NEW l \in Lists, ListFor(l), TestDeleted(l)
    PROVE  ListFor(l)'
<1>0. /\ idx[l] \in Nat \ {0} /\ len[l] \in Nat /\ queue \in Seq(JobIds)
      /\ Len(queue) \in Nat /\ WalkFor(l) /\ idx[l] <= len[l] /\ lpc[l] = "test"
      /\ got'[l] = got[l] /\ len'[l] = len[l] /\ known'[l] = known[l] /\ moved'[l] = moved[l]
      /\ UNCHANGED <<queue, ended, unlisted>>
    BY DEF TestDeleted, ListType, SliceInv, ListFor, queueVars
<1>1. Copied(l)' = Copied(l)
    BY <1>0 DEF Copied
<1>2. \A a, b : Queued(a, b)' = Queued(a, b)
    BY <1>0 DEF Queued
<1>3. CASE idx[l] > Len(queue)
  <2>1. lpc'[l] = "aborted" /\ idx'[l] = idx[l]
    BY <1>3 DEF TestDeleted, ListType
  <2>2. moved[l]
    BY <1>0, <1>3 DEF WalkFor
  <2> QED
    BY <1>0, <2>1, <2>2 DEF ListFor, WalkFor, OldFor, CompleteFor, LimitFor
<1>4. CASE idx[l] <= Len(queue) /\ queue[idx[l]] \in deleted
  <2>1. lpc'[l] = "test" /\ idx'[l] = idx[l] + 1
    BY <1>0, <1>4 DEF TestDeleted, ListType
  <2>2. queue[idx[l]] \in ended \cup unlisted
    BY <1>4 DEF SliceInv
  <2>3. /\ Queued(idx[l], len[l]) \subseteq ended \cup unlisted \cup Queued(idx[l] + 1, len[l])
        /\ Queued(1, idx[l] - 1) \subseteq Queued(1, idx[l] + 1 - 1)
    BY <1>0, <2>2 DEF Queued
  <2>4. idx[l] + 1 <= len[l] + 1
    BY <1>0
  <2>5. ASSUME ~moved[l]
        PROVE  /\ Copied(l) \subseteq Queued(1, idx[l] + 1 - 1)
               /\ known[l]
                    \subseteq ended \cup unlisted \cup Copied(l) \cup Queued(idx[l] + 1, len[l])
    BY <1>0, <2>3, <2>5 DEF WalkFor
  <2>6. WalkFor(l)'
    BY <1>0, <1>1, <1>2, <2>1, <2>4, <2>5 DEF WalkFor
  <2> QED
    BY <2>1, <2>6 DEF ListFor, OldFor, CompleteFor, LimitFor
<1>5. CASE idx[l] <= Len(queue) /\ queue[idx[l]] \notin deleted
  <2>1. lpc'[l] = "copy" /\ idx'[l] = idx[l]
    BY <1>0, <1>5 DEF TestDeleted, ListType
  <2>2. WalkFor(l)'
    BY <1>0, <1>1, <1>2, <2>1 DEF WalkFor
  <2> QED
    BY <2>1, <2>2 DEF ListFor, OldFor, CompleteFor, LimitFor
<1> QED
    BY <1>0, <1>3, <1>4, <1>5

\* The copied job is not among those copied before: it lies behind them.
LEMMA CopiesItem ==
    ASSUME SliceInv, ListType, NEW l \in Lists, ListFor(l), CopyItem(l)
    PROVE  ListFor(l)'
<1>0. /\ idx[l] \in Nat \ {0} /\ len[l] \in Nat /\ queue \in Seq(JobIds) /\ Len(queue) \in Nat
      /\ got[l] \in Seq(JobIds) /\ Len(got[l]) \in Nat /\ WalkFor(l) /\ lpc[l] = "copy"
      /\ idx[l] <= len[l]
      /\ len'[l] = len[l] /\ known'[l] = known[l] /\ moved'[l] = moved[l]
      /\ UNCHANGED <<queue, ended, unlisted>>
    BY DEF CopyItem, ListType, SliceInv, ListFor, WalkFor, queueVars
<1>2. \A a, b : Queued(a, b)' = Queued(a, b)
    BY <1>0 DEF Queued
<1>3. CASE idx[l] > Len(queue)
  <2>1. lpc'[l] = "aborted" /\ idx'[l] = idx[l] /\ got'[l] = got[l]
    BY <1>3 DEF CopyItem, ListType
  <2>2. moved[l]
    BY <1>0, <1>3 DEF WalkFor
  <2> QED
    BY <1>0, <2>1, <2>2 DEF ListFor, WalkFor, OldFor, CompleteFor, LimitFor
<1>4. CASE idx[l] <= Len(queue)
  <2> DEFINE j == queue[idx[l]]
             n == Len(got[l])
  <2>1. lpc'[l] = "test" /\ idx'[l] = idx[l] + 1 /\ got'[l] = Append(got[l], j)
    BY <1>0, <1>4 DEF CopyItem, ListType
  <2>2. /\ j \in JobIds
        /\ Len(got'[l]) = n + 1 /\ got'[l][n + 1] = j
        /\ \A i \in 1..n : got'[l][i] = got[l][i]
    BY <1>0, <1>4, <2>1
  <2>3. Copied(l)' = Copied(l) \cup {j}
    <3>1. 1..(n + 1) = 1..n \cup {n + 1}
      BY <1>0
    <3> HIDE DEF n, j
    <3> QED
      BY <2>2, <3>1, SMTT(30) DEF Copied, n
  <2>4. /\ Queued(idx[l], len[l]) = {j} \cup Queued(idx[l] + 1, len[l])
        /\ Queued(1, idx[l] + 1 - 1) = Queued(1, idx[l] - 1) \cup {j}
    <3>1. idx[l]..len[l] = {idx[l]} \cup (idx[l] + 1)..len[l]
      BY <1>0
    <3>2. 1..(idx[l] + 1 - 1) = 1..(idx[l] - 1) \cup {idx[l]}
      BY <1>0
    <3> QED
      BY <3>1, <3>2 DEF Queued
  <2>5. ASSUME ~moved[l]
        PROVE  \A i, k \in 1..Len(got'[l]) : got'[l][i] = got'[l][k] => i = k
    <3>1. j \notin Queued(1, idx[l] - 1)
      BY <1>0, <1>4 DEF SliceInv, Queued
    <3>2. j \notin Copied(l) /\ \A i, k \in 1..n : got[l][i] = got[l][k] => i = k
      BY <1>0, <2>5, <3>1 DEF WalkFor
    <3>3. \A i \in 1..n : got[l][i] # j
      BY <3>2 DEF Copied
    <3>4. \A i \in 1..Len(got'[l]) : i \in 1..n \/ i = n + 1
      BY <1>0, <2>2
    <3> HIDE DEF n, j
    <3> QED
      BY <2>2, <3>2, <3>3, <3>4
  <2>6. ASSUME ~moved[l]
        PROVE  /\ Copied(l)' \subseteq Queued(1, idx[l] + 1 - 1)
               /\ known[l]
                    \subseteq ended \cup unlisted \cup Copied(l)' \cup Queued(idx[l] + 1, len[l])
    BY <1>0, <2>3, <2>4, <2>6 DEF WalkFor
  <2>7. /\ idx[l] + 1 <= len[l] + 1
        /\ ~moved[l] => len[l] <= Len(queue)
    BY <1>0 DEF WalkFor
  <2>8. WalkFor(l)'
    <3> HIDE DEF j, n
    <3> QED
      BY <1>0, <1>2, <2>1, <2>5, <2>6, <2>7, SMTT(30) DEF WalkFor
  <2> QED
    BY <2>1, <2>8 DEF ListFor, OldFor, CompleteFor, LimitFor
<1> QED
    BY <1>0, <1>3, <1>4

\* The queue is sorted and cut: what the walk copied is the answer, or the last
\* of it, and only a whole queue with room behind it asks for old jobs.
LEMMA CutsQueue ==
    ASSUME SliceInv, ListType, NEW l \in Lists, ListFor(l), CutToLimit(l)
    PROVE  ListFor(l)'
<1> DEFINE s == got[l]
           r == limit[l]
<1>0. /\ lpc[l] = "test" /\ idx[l] > len[l] /\ idx[l] \in Nat /\ len[l] \in Nat
      /\ s \in Seq(JobIds) /\ r \in Int /\ Len(s) \in Nat
      /\ limit'[l] = r /\ got'[l] = s /\ known'[l] = known[l] /\ moved'[l] = moved[l]
      /\ UNCHANGED <<queue, ended, unlisted>>
    BY Numbers DEF CutToLimit, ListType, queueVars
<1>1. ByPosition(s) \in Seq(JobIds) /\ Len(ByPosition(s)) = Len(s)
    BY <1>0, SortKeepsJobs
<1>2. Copied(l)' = Copied(l)
    BY <1>0 DEF Copied
<1>3. ~moved[l] => /\ known[l] \subseteq ended \cup unlisted \cup Copied(l)
                   /\ \A i, k \in 1..Len(s) : s[i] = s[k] => i = k
  <2>1. Queued(idx[l], len[l]) = {}
    BY <1>0 DEF Queued
  <2> QED
    BY <1>0, <2>1 DEF ListFor, WalkFor
<1>4. \/ lpc'[l] = "failed"
      \/ /\ answer'[l] = Cut(ByPosition(s), r)
         /\ lpc'[l] = IF OldLimit(s, r) > 0 THEN "old" ELSE "done"
    BY DEF CutToLimit, ListType
<1> HIDE DEF s, r
<1>5. lpc'[l] \in {"old", "done", "failed"} => WalkFor(l)'
    BY <1>0, <1>2, <1>3 DEF WalkFor, s
<1>6. CASE lpc'[l] = "failed"
    BY <1>5, <1>6 DEF ListFor, OldFor, CompleteFor, LimitFor
<1>7. CASE lpc'[l] = "old" /\ answer'[l] = Cut(ByPosition(s), r) /\ OldLimit(s, r) > 0
  <2>1. r <= 0 \/ Len(s) < r
    <3>1. OldLimit(s, r) > 0 <=> r <= 0 \/ Len(s) < r
      BY <1>0, OldLimitLeft
    <3> QED
      BY <1>7, <3>1
  <2>2. r \notin 1..Len(ByPosition(s))
    BY <1>0, <1>1, <2>1
  <2>3. answer'[l] = ByPosition(s)
    BY <1>0, <1>1, <1>7, <2>2, CutLength
  <2>4. OldFor(l)'
    BY <1>0, <2>1, <2>3 DEF OldFor, s, r
  <2> QED
    BY <1>5, <1>7, <2>4 DEF ListFor, CompleteFor, LimitFor
<1>8. CASE lpc'[l] = "done" /\ answer'[l] = Cut(ByPosition(s), r) /\ ~(OldLimit(s, r) > 0)
  <2>1. r > 0 /\ r <= Len(s)
    <3>1. OldLimit(s, r) > 0 <=> r <= 0 \/ Len(s) < r
      BY <1>0, OldLimitLeft
    <3>2. r \in Int /\ Len(s) \in Nat /\ ~(r <= 0 \/ Len(s) < r)
      BY <1>0, <1>8, <3>1
    <3> QED
      BY <3>2
  <2>2. Len(answer'[l]) = r
    BY <1>0, <1>1, <1>8, <2>1, CutLength
  <2>3. LimitFor(l)'
    BY <1>0, <2>1, <2>2 DEF LimitFor, s, r
  <2>4. ~moved[l] => Len(s) \in 0..MaxJobs
    BY <1>3, CopiedBound DEF s
  <2>5. ~moved[l] => ~(r >= 2 * MaxJobs)
    BY <1>0, <2>1, <2>4
  <2>6. CompleteFor(l)'
    BY <1>0, <2>1, <2>5 DEF CompleteFor, r
  <2> QED
    BY <1>5, <1>8, <2>3, <2>6 DEF ListFor, OldFor
<1> QED
    BY <1>4, <1>6, <1>7, <1>8

\* The old jobs: all of them if there is room, and never more than there is.
LEMMA AddsOld ==
    ASSUME SliceInv, ListType, NEW l \in Lists, ListFor(l), AppendOld(l)
    PROVE  ListFor(l)'
<1> DEFINE s == got[l]
           t == ByPosition(got[l])
           r == limit[l]
           n == OldLimit(got[l], limit[l])
           old == OldJobs(n)
<1>0. /\ lpc[l] = "old" /\ s \in Seq(JobIds) /\ r \in Int /\ Len(s) \in Nat
      /\ limit'[l] = r /\ got'[l] = s /\ known'[l] = known[l] /\ moved'[l] = moved[l]
      /\ UNCHANGED <<queue, ended, unlisted>>
      /\ ended \subseteq JobIds /\ unlisted \subseteq JobIds
  <2>1. /\ lpc[l] = "old" /\ s \in Seq(JobIds) /\ Len(s) \in Nat
        /\ ended \subseteq JobIds /\ unlisted \subseteq JobIds
    BY DEF AppendOld, ListType, SliceInv
  <2>2. r \in Int
    BY Numbers
  <2>3. /\ limit'[l] = r /\ got'[l] = s /\ known'[l] = known[l] /\ moved'[l] = moved[l]
        /\ UNCHANGED <<queue, ended, unlisted>>
    BY DEF AppendOld, queueVars
  <2> QED
    BY <2>1, <2>2, <2>3
<1>1. /\ t \in Seq(JobIds) /\ Len(t) = Len(s)
      /\ \A k \in 1..Len(s) : \E i \in 1..Len(s) : t[i] = s[k]
    BY <1>0, SortKeepsJobs, Zenon
<1>2. answer[l] = t /\ (r <= 0 \/ Len(s) < r)
    BY <1>0 DEF ListFor, OldFor
<1>3. /\ n \in Nat /\ n > 0
      /\ r <= 0 => n = DefaultLimit
      /\ r > 0 => n = r - Len(s)
  <2>1. /\ n \in Int
        /\ n > 0 <=> r <= 0 \/ Len(s) < r
        /\ r <= 0 => n = DefaultLimit
        /\ r > 0 /\ Len(s) < r => n = r - Len(s)
    BY <1>0, OldLimitLeft, Zenon
  <2> HIDE DEF n, r, s
  <2> QED
    BY <1>0, <1>2, <2>1
<1>4. /\ IsFiniteSet(ended) /\ Cardinality(ended) \in Nat
      /\ old \in Seq(JobIds)
      /\ Len(old) = IF n < Cardinality(ended) THEN n ELSE Cardinality(ended)
      /\ n >= Cardinality(ended) => \A j \in ended : \E i \in 1..Len(old) : old[i] = j
    BY <1>0, <1>3, OldJobsListed, Zenon
<1>5. \/ lpc'[l] = "failed"
      \/ lpc'[l] = "done" /\ answer'[l] = t \o old
  <2>1. \/ lpc'[l] = "failed"
        \/ lpc'[l] = "done" /\ answer'[l] = answer[l] \o old
    BY DEF AppendOld, ListType
  <2> QED
    BY <1>2, <2>1
<1>6. Copied(l)' = Copied(l)
    BY <1>0 DEF Copied
<1>7. ~moved[l] => /\ known[l] \subseteq ended \cup unlisted \cup Copied(l)
                   /\ \A i, k \in 1..Len(s) : s[i] = s[k] => i = k
    BY <1>0 DEF ListFor, WalkFor
<1>8. Copied(l) = {s[i] : i \in 1..Len(s)}
    BY DEF Copied
<1> HIDE DEF s, t, r, n, old
<1>9. lpc'[l] \in {"done", "failed"} => WalkFor(l)'
    BY <1>0, <1>6, <1>7 DEF WalkFor, s
<1>10. CASE lpc'[l] = "failed"
    BY <1>9, <1>10 DEF ListFor, OldFor, CompleteFor, LimitFor
<1>11. CASE lpc'[l] = "done" /\ answer'[l] = t \o old
  <2> DEFINE a == t \o old
  <2>1. /\ a \in Seq(JobIds) /\ Len(a) = Len(s) + Len(old)
        /\ \A i \in 1..Len(s) : a[i] = t[i]
        /\ \A i \in 1..Len(old) : a[Len(s) + i] = old[i]
    <3>1. t \in Seq(JobIds) /\ old \in Seq(JobIds)
      BY <1>1, <1>4
    <3>2. /\ a \in Seq(JobIds) /\ Len(a) = Len(t) + Len(old)
          /\ \A i \in 1..Len(t) : a[i] = t[i]
      BY <3>1
    <3>3. \A i \in 1..Len(old) : a[Len(t) + i] = old[i]
      BY <3>1
    <3> HIDE DEF a
    <3> QED
      BY <1>1, <3>2, <3>3
  <2>2. SubSeq(a, 1, Len(s)) = t
    <3> HIDE DEF a
    <3>1. Len(s) \in 0..Len(a)
      BY <1>0, <1>4, <2>1
    <3>2. SubSeq(a, 1, Len(s)) = [i \in 1..Len(s) |-> a[i]]
      BY <1>0, <2>1, <3>1
    <3>3. t = [i \in 1..Len(s) |-> t[i]]
      BY <1>1
    <3> QED
      BY <2>1, <3>2, <3>3
  <2> HIDE DEF a
  <2>3. answer'[l] = a
    BY <1>11 DEF a
  <2>4. CompleteFor(l)'
    <3>1. SUFFICES ASSUME ~moved[l],
                          IF r <= 0 THEN Cardinality(ended \cup unlisted) <= DefaultLimit
                                    ELSE r >= 2 * MaxJobs,
                          NEW j \in known[l] \ unlisted
                   PROVE  \E i \in 1..Len(a) : a[i] = j
      BY <1>0, <2>3 DEF CompleteFor, Answered, r
    <3>2. Len(s) \in 0..MaxJobs
      BY <1>7, <3>1, CopiedBound DEF s
    <3>3. /\ Cardinality(ended) <= MaxJobs
          /\ Cardinality(ended) <= Cardinality(ended \cup unlisted)
          /\ Cardinality(ended \cup unlisted) \in Nat
      <4>1. IsFiniteSet(JobIds) /\ Cardinality(JobIds) = MaxJobs
        BY CountUpTo DEF JobIds
      <4>2. IsFiniteSet(ended \cup unlisted) /\ ended \subseteq ended \cup unlisted
        BY <1>0, <4>1, FS_Subset
      <4> QED
        BY <1>0, <4>1, <4>2, FS_Subset, FS_CardinalityType
    <3>4. n >= Cardinality(ended)
      <4>1. DefaultLimit \in Nat /\ MaxJobs \in Nat
        OBVIOUS
      <4> QED
        BY <1>0, <1>3, <1>4, <3>1, <3>2, <3>3, <4>1
    <3>5. CASE j \in ended
      <4>1. PICK i \in 1..Len(old) : old[i] = j
        BY <1>4, <3>4, <3>5
      <4>2. Len(s) + i \in 1..Len(a) /\ a[Len(s) + i] = j
        <5>1. Len(s) \in Nat /\ Len(old) \in Nat
          BY <1>4, <3>2
        <5>2. a[Len(s) + i] = old[i]
          BY <2>1, <4>1
        <5> QED
          BY <2>1, <4>1, <5>1, <5>2
      <4> QED
        BY <4>2
    <3>6. CASE j \in Copied(l)
      <4>1. PICK k \in 1..Len(s) : s[k] = j
        BY <1>8, <3>6
      <4>2. PICK i \in 1..Len(s) : t[i] = s[k]
        BY <1>1
      <4>3. i \in 1..Len(a) /\ a[i] = j
        BY <1>0, <1>4, <2>1, <4>1, <4>2
      <4> QED
        BY <4>3
    <3> QED
      BY <1>7, <3>1, <3>5, <3>6
  <2>5. LimitFor(l)'
    <3>1. r > 0 => Len(a) <= r
      BY <1>0, <1>3, <1>4, <2>1
    <3>2. ASSUME r > 0, ~moved[l], Cardinality(known[l] \ unlisted) >= r PROVE Len(a) = r
      <4>1. /\ IsFiniteSet(Copied(l)) /\ Cardinality(Copied(l)) <= Len(s)
            /\ Cardinality(Copied(l)) \in Nat
        <5>1. /\ IsFiniteSet({s[i] : i \in 1..Len(s)})
              /\ Cardinality({s[i] : i \in 1..Len(s)}) <= Len(s)
          BY <1>0, EntriesBound, Zenon
        <5> QED
          BY <1>8, <5>1, FS_CardinalityType
      <4>2. /\ IsFiniteSet(ended \cup Copied(l))
            /\ Cardinality(ended \cup Copied(l))
                 = Cardinality(ended) + Cardinality(Copied(l)) - Cardinality(ended \cap Copied(l))
        BY <1>4, <4>1, FS_Union
      <4>3. IsFiniteSet(ended \cap Copied(l)) /\ Cardinality(ended \cap Copied(l)) \in Nat
        BY <4>1, FS_Intersection, FS_CardinalityType
      <4>4. /\ IsFiniteSet(known[l] \ unlisted)
            /\ Cardinality(known[l] \ unlisted) <= Cardinality(ended \cup Copied(l))
        <5>1. known[l] \ unlisted \subseteq ended \cup Copied(l)
          BY <1>7, <3>2
        <5> QED
          BY <4>2, <5>1, FS_Subset
      <4>5. Cardinality(known[l] \ unlisted) \in Nat
        BY <4>4, FS_CardinalityType
      <4>6. Cardinality(ended) + Len(s) >= r
        BY <1>0, <1>4, <3>2, <4>1, <4>2, <4>3, <4>4, <4>5
      <4> QED
        BY <1>0, <1>3, <1>4, <2>1, <3>2, <4>6
    <3> QED
      BY <1>0, <2>2, <2>3, <3>1, <3>2 DEF LimitFor, s, t, r
  <2> QED
    BY <1>9, <1>11, <2>4, <2>5 DEF ListFor, OldFor
<1> QED
    BY <1>5, <1>10, <1>11

(***************************************************************************)
(* The invariant and the properties                                        *)
(***************************************************************************)

\* Nothing is queued or asked for at the start.
LEMMA InvInit == Init => IInv
<1> SUFFICES ASSUME Init PROVE IInv OBVIOUS
<1>1. SliceInv
    BY DEF Init, SliceInv, JobIds
<1>2. ListType
    BY DEF Init, ListType
<1>3. ASSUME NEW l \in Lists PROVE ListFor(l)
    BY DEF Init, ListFor, WalkFor, OldFor, CompleteFor, LimitFor
<1> QED
    BY <1>1, <1>2, <1>3 DEF IInv

\* One request's step changes no other request.
LEMMA InvStep == IInv /\ [Next]_vars => IInv'
<1> SUFFICES ASSUME IInv, [Next]_vars PROVE IInv' OBVIOUS
<1>0. SliceInv /\ ListType /\ \A l \in Lists : ListFor(l)
    BY DEF IInv
<1>1. SliceInv'
    BY <1>0, SliceStep
<1>2. ListType'
    BY <1>0, ListTypeStep DEF ListFor
<1>3. ASSUME NEW m \in Lists PROVE ListFor(m)'
  <2>1. CASE UNCHANGED vars
    BY <1>0, <2>1, ListFrame DEF vars
  <2>2. CASE Others
    BY <1>0, <2>2, ListDuring
  <2>3. ASSUME NEW l \in Lists, List(l), l # m
        PROVE  ListFor(m)'
    <3>1. UNCHANGED <<queue, ended, unlisted>>
      BY <2>3 DEF List, ListJobs, TestDeleted, CopyItem, CutToLimit, AppendOld, queueVars
    <3>2. /\ lpc'[m] = lpc[m] /\ limit'[m] = limit[m] /\ len'[m] = len[m] /\ idx'[m] = idx[m]
          /\ got'[m] = got[m] /\ answer'[m] = answer[m] /\ known'[m] = known[m]
          /\ moved'[m] = moved[m]
      BY <1>0, <2>3 DEF List, ListJobs, TestDeleted, CopyItem, CutToLimit, AppendOld, ListType
    <3> QED
      BY <1>0, <3>1, <3>2, ListFrame
  <2>4. CASE List(m)
    BY <1>0, <2>4, BeginsWalk, PassesItem, CopiesItem, CutsQueue, AddsOld DEF List
  <2> QED
    BY <2>1, <2>2, <2>3, <2>4 DEF Next
<1> QED
    BY <1>1, <1>2, <1>3 DEF IInv

\* The invariant holds in every state of the system.
THEOREM InvariantCorrect == Spec => []IInv
<1> QED BY InvInit, InvStep, PTL DEF Spec

\* Every variable stays in its range, and no job is in the slice twice: RemoveJob
\* finds the worker's item though handlers sort the slice meanwhile.
THEOREM TypeCorrect == Spec => []TypeOK
<1>1. IInv => TypeOK
  <2> SUFFICES ASSUME IInv PROVE TypeOK OBVIOUS
  <2>1. queue \in Seq(JobIds) /\ IsInjective(queue)
    BY DEF IInv, SliceInv, IsInjective
  <2>2. /\ deleted \subseteq JobIds /\ ended \subseteq JobIds /\ unlisted \subseteq JobIds
        /\ cjob \in 0..MaxJobs
    <3>1. /\ deleted \subseteq JobIds /\ ended \subseteq JobIds /\ unlisted \subseteq JobIds
          /\ cjob = 0 \/ cjob \in JobIds
      BY DEF IInv, SliceInv
    <3>2. 0 \in 0..MaxJobs /\ JobIds \subseteq 0..MaxJobs
      BY DEF JobIds
    <3> QED
      BY <3>1, <3>2
  <2>3. IF wpc = "idle" THEN cur = 0 ELSE \E i \in 1..Len(queue) : queue[i] = cur
    BY DEF IInv, SliceInv
  <2> QED
    BY <2>1, <2>2, <2>3 DEF IInv, SliceInv, ListType, TypeOK
<1> QED BY <1>1, InvariantCorrect, PTL

\* listJobs answers every job there was when the walk began, however the jobs
\* end meanwhile, but for those whose saves left states that GetOldJobs does not
\* list, if no item moved under the walk and the limit leaves room.
THEOREM CompleteCorrect == Spec => []ListsEveryJob
<1>1. IInv => ListsEveryJob
    BY DEF IInv, ListFor, CompleteFor, ListsEveryJob
<1> QED BY <1>1, InvariantCorrect, PTL

\* The arithmetic of the limit in listJobs: never more jobs than asked for, as
\* many as can be listed, and old ones only behind the whole queue.
THEOREM LimitCorrect == Spec => []LimitKept
<1>1. IInv => LimitKept
    BY DEF IInv, ListFor, LimitFor, LimitKept
<1> QED BY <1>1, InvariantCorrect, PTL

\* GetJobs' walk without the lock goes wrong only if an item moved meanwhile.
THEOREM WalkCorrect == Spec => []WalkIsExact
<1>1. IInv => WalkIsExact
  <2> SUFFICES ASSUME IInv, NEW l \in Lists, ~moved[l]
               PROVE  lpc[l] # "aborted" /\ IsInjective(got[l])
    BY DEF WalkIsExact
  <2>1. /\ lpc[l] # "aborted" /\ got[l] \in Seq(JobIds)
        /\ \A i, k \in 1..Len(got[l]) : got[l][i] = got[l][k] => i = k
    BY DEF IInv, ListFor, WalkFor, ListType
  <2> QED
    BY <2>1 DEF IsInjective
<1> QED BY <1>1, InvariantCorrect, PTL
===============================================================================
