--------------------------- MODULE JobQueue_proofs ---------------------------
(***************************************************************************)
(* What JobQueue promises for every number of handlers, jobs, restarts and *)
(* any capacity of the slice: its type invariant, the properties its runs  *)
(* check, and that it implements JobLifecycle.                             *)
(***************************************************************************)
EXTENDS JobQueue, Counting

(***************************************************************************)
(* The inductive invariant, in parts                                       *)
(***************************************************************************)
Slot(i) == arrays[jobs.arr][i]
Pending == {a \in Adders : apc[a] \in {"insert", "position", "append"}}
Inserting == {a \in Adders : apc[a] = "insert"}
Busy == wpc \notin {"idle", "again", "stopped"}
HasRun == wpc \in {"running", "delete", "find", "remove"}

ArrayType ==
    /\ arrays \in Seq(Seq(Items)) /\ jobs \in [arr : Nat, len : Nat]
    /\ jobs.arr \in 1..Len(arrays) /\ jobs.len \in 0..Len(arrays[jobs.arr])

TableType ==
    /\ rows \subseteq [id : JobIds, job : JobIds, pos : 0..MaxJobs]
    /\ nextJob \in 1..MaxJobs + 1 /\ nextItem \in 1..nextJob

AdderType ==
    /\ apc \in [Adders -> {"idle", "insert", "position", "append", "reply"}]
    /\ aitem \in [Adders -> Items]

WorkerType ==
    /\ wpc \in {"idle", "load", "start", "running", "delete", "find", "remove", "again",
                "stopped", "panicked"}
    /\ item \in Items
    /\ found \in 0..jobs.len
    /\ running \in JobIds \cup {None} /\ (running # None <=> wpc = "running")
    /\ runs \in [JobIds -> Nat] /\ over \subseteq JobIds

CancelType ==
    /\ cpc \in [Cancellers -> {"idle", "cancel", "mark", "row", "done"}]
    /\ cid \in [Cancellers -> 0..MaxJobs]
    /\ cptr \in [Cancellers -> [arr : Nat, idx : Nat] \cup {None}]
    /\ cancelled \subseteq JobIds /\ shifted \subseteq Holders /\ strays \subseteq JobIds

StopType ==
    /\ token \in BOOLEAN /\ spc \in {"up", "test", "use", "exit", "down", "panicked"}
    /\ lateRuns \in Nat

NoteType ==
    /\ added \subseteq JobIds /\ ignored \subseteq JobIds
    /\ disorder \in BOOLEAN /\ crashes \in 0..MaxCrashes

\* A pointer in use names a slot that once was in the slice: it holds an item.
Names(p) == p \in Pointers /\ p.idx <= Len(arrays[p.arr]) /\ At(p).job \in JobIds

PointerInv ==
    /\ ptr = None <=> wpc \in {"idle", "again", "stopped"}
    /\ currJob # None => wpc \in {"running", "delete", "find", "remove", "again", "panicked"}
    /\ \A i \in 1..jobs.len : Slot(i).job \in JobIds
    /\ \A p \in {ptr, currJob, sptr} : p # None => Names(p)
    /\ \A c \in Cancellers : cpc[c] \in {"cancel", "mark", "row"} => Names(cptr[c])

\* There are at most as many items as jobs: the next item's key is in range.
TicketInv == IsFiniteSet(Inserting) /\ nextItem + Cardinality(Inserting) <= nextJob

\* Every job has one item at most: in the slice or still with its adder.
NumberInv ==
    /\ \A i, k \in 1..jobs.len : Slot(i).job = Slot(k).job => i = k
    /\ \A i \in 1..jobs.len : Slot(i).job < nextJob
    /\ \A a \in Pending : aitem[a].job \in 1..nextJob - 1
    /\ \A a \in Pending : \A i \in 1..jobs.len : Slot(i).job # aitem[a].job
    /\ \A a, b \in Pending : aitem[a].job = aitem[b].job => a = b
    /\ \A a \in Adders : ~aitem[a].deleted

\* The keys of an item and of its row, and their position.
RowInv ==
    /\ \A r \in rows : r.job < nextJob
    /\ \A r, q \in rows : r.job = q.job => r = q
    /\ \A a \in Inserting : \A r \in rows : r.job # aitem[a].job
    /\ \A a \in Pending \ Inserting :
        /\ aitem[a].id \in JobIds
        /\ apc[a] = "append" => aitem[a].pos = aitem[a].id
        /\ \A r \in rows : r.job = aitem[a].job => r.id = aitem[a].id

StorageInv ==
    /\ ArrayType /\ TableType /\ AdderType /\ WorkerType /\ CancelType /\ StopType /\ NoteType
    /\ PointerInv /\ TicketInv /\ NumberInv /\ RowInv

\* The jobs the slice has had, and those a restart left out.
AddedInv ==
    /\ \A j \in added \cup ignored : j < nextJob
    /\ \A i \in 1..jobs.len : Slot(i).job \in added /\ Slot(i).job \notin ignored
    /\ \A a \in Pending : aitem[a].job \notin added \cup ignored

Ascending == \A i, k \in 1..jobs.len : i < k => Slot(i).pos <= Slot(k).pos

KeysInv == \A i \in 1..jobs.len : Slot(i).id = Slot(i).job /\ Slot(i).pos = Slot(i).job

AtFront ==
    /\ Ascending /\ jobs.len >= 1
    /\ ptr.idx = 1
    /\ item.job \in JobIds /\ item.id = item.job
    /\ Slot(1).job = item.job
    /\ At(ptr).job = item.job /\ At(ptr).id = item.job

\* While the worker is busy the slice stays sorted, so that its item stays first.
FrontInv ==
    /\ KeysInv
    /\ Busy => AtFront
    /\ wpc = "running" => running = item.job
    /\ wpc = "remove" => found = 1
    /\ wpc # "panicked"

RunsInv ==
    crashes = 0 =>
        /\ \A j \in JobIds : runs[j] <= 1 /\ (j >= nextJob => runs[j] = 0)
        /\ \A a \in Pending : runs[aitem[a].job] = 0
        /\ \A i \in 1..jobs.len :
            runs[Slot(i).job] = 0 \/ (HasRun /\ Slot(i).job = item.job)

\* Why job j's item may be hidden: its row is gone or about to be deleted by the
\* cancel of j, or a cancel that a removal led astray marked it.
Hideable(j) ==
    \/ \A r \in rows : r.job # j
    \/ \E c \in Cancellers : cpc[c] = "row" /\ cid[c] = j
    \/ j \in strays

HiddenInv == \A i \in 1..jobs.len : Slot(i).deleted => Hideable(Slot(i).job)

\* As long as no removal came between, a cancel's slot keeps its job.
HolderInv ==
    \A c \in Holders \ shifted :
        /\ Ascending
        /\ At(cptr[c]).job = cid[c]
        /\ cptr[c].arr = jobs.arr => cptr[c].idx <= jobs.len

\* A row of a job that was added is that of an item in the slice, unless the
\* last restart ignored it; the worker deletes it before the item is removed.
ListedInv ==
    /\ \A r \in rows : r.job \in added \ ignored =>
        r.id = r.job /\ \E i \in 1..jobs.len : Slot(i).job = r.job
    /\ wpc \in {"find", "remove"} => \A r \in rows : r.job # item.job

OrderInv ==
    ~disorder => FrontInv /\ RunsInv /\ HiddenInv /\ HolderInv /\ ListedInv

\* stop's token, and the pointer it tested.
StopInv ==
    /\ lateRuns <= 1
    /\ spc = "up" \/ wpc \in {"idle", "load", "start"} => lateRuns = 0
    /\ spc # "up" /\ wpc # "stopped" => token
    /\ wpc = "running" => currJob = ptr
    /\ spc = "use" /\ wpc = "running" /\ lateRuns = 0 => sptr = currJob
    /\ ~disorder /\ spc = "exit" /\ running # None => running \in cancelled \/ lateRuns = 1

IInv == StorageInv /\ AddedInv /\ OrderInv /\ StopInv

(***************************************************************************)
(* What the steps do to the arrays, slot by slot                           *)
(***************************************************************************)

\* Positions are numbers.
LEMMA PositionType ==
    ASSUME NEW s \in Seq(Items)
    PROVE  Len(s) \in Nat /\ \A x \in 1..Len(s) : s[x].pos \in Nat
<1>1. \A x \in 1..Len(s) : s[x] \in Items
    OBVIOUS
<1> QED
    BY <1>1, MaxJobsAssumption DEF Items

\* The items of the slice, seen as a sequence.
LEMMA SlotsAreItems ==
    ASSUME ArrayType
    PROVE  /\ Slots(jobs) \in Seq(Items) /\ Len(Slots(jobs)) = jobs.len
           /\ \A i \in 1..jobs.len : Slots(jobs)[i] = Slot(i)
<1>1. arrays[jobs.arr] \in Seq(Items) /\ jobs.len \in 0..Len(arrays[jobs.arr])
    BY DEF ArrayType
<1> QED
    BY <1>1 DEF Slots, Slot

\* A new item in one array leaves the others, and every length, as they were.
LEMMA ArrayReplaced ==
    ASSUME ArrayType, NEW n \in 1..Len(arrays), NEW t \in Seq(Items), Len(t) = Len(arrays[n]),
           arrays' = [arrays EXCEPT ![n] = t]
    PROVE  /\ arrays' \in Seq(Seq(Items)) /\ Len(arrays') = Len(arrays)
           /\ \A m \in 1..Len(arrays) : Len(arrays'[m]) = Len(arrays[m])
           /\ arrays'[n] = t
           /\ \A m \in 1..Len(arrays) : m # n => arrays'[m] = arrays[m]
BY DEF ArrayType

StrictlyAscending == \A i, k \in 1..jobs.len : i < k => Slot(i).pos < Slot(k).pos

\* An injection of 1..n into itself that never falls leaves every number in its
\* place: below the least one that it moves all places are taken.
LEMMA GrowingIsIdentity ==
    ASSUME NEW n \in Nat, NEW p \in [1..n -> 1..n],
           \A i, k \in 1..n : p[i] = p[k] => i = k,
           \A i, k \in 1..n : i < k => p[i] <= p[k]
    PROVE  \A i \in 1..n : p[i] = i
<1> DEFINE Moved == {i \in 1..n : p[i] # i}
<1> SUFFICES ASSUME Moved # {} PROVE FALSE
    OBVIOUS
<1>1. Moved \in SUBSET Nat
    OBVIOUS
<1>2. PICK i \in Moved : \A k \in Moved : i <= k
    BY <1>1, LeastNumber
<1>3. i \in 1..n /\ p[i] \in 1..n /\ p[i] # i
    BY <1>2
<1>4. \A k \in 1..n : k < i => p[k] = k
    BY <1>2
<1>5. p[i] > i
    BY <1>3, <1>4
<1>6. PICK k \in 1..n : p[k] = i
  <2>1. \A r \in 1..n : \E k \in 1..n : p[k] = r
    BY InjectionOnto
  <2> QED
    BY <1>3, <2>1
<1>7. CASE k < i
    BY <1>4, <1>6, <1>7
<1>8. CASE k > i
    BY <1>3, <1>5, <1>6, <1>8
<1>9. CASE k = i
    BY <1>3, <1>6, <1>9
<1> QED
    BY <1>3, <1>6, <1>7, <1>8, <1>9

\* sortPosition permutes the slots of the slice into the order of the positions
\* and touches nothing else; a slice in that order, no two positions equal, it
\* leaves alone.
LEMMA SortEffect ==
    ASSUME ArrayType, SortPosition
    PROVE  /\ arrays' \in Seq(Seq(Items)) /\ Len(arrays') = Len(arrays)
           /\ \A n \in 1..Len(arrays) : Len(arrays'[n]) = Len(arrays[n])
           /\ \A n \in 1..Len(arrays) : \A i \in 1..Len(arrays[n]) :
                n # jobs.arr \/ i > jobs.len => arrays'[n][i] = arrays[n][i]
           /\ \E p \in [1..jobs.len -> 1..jobs.len] :
                /\ \A i, k \in 1..jobs.len : p[i] = p[k] => i = k
                /\ \A k \in 1..jobs.len : \E i \in 1..jobs.len : p[i] = k
                /\ \A i \in 1..jobs.len : arrays'[jobs.arr][i] = Slot(p[i])
                /\ \A i, k \in 1..jobs.len : i < k => Slot(p[i]).pos <= Slot(p[k]).pos
           /\ StrictlyAscending => arrays' = arrays
<1> DEFINE s == Slots(jobs)
<1>0. /\ arrays[jobs.arr] \in Seq(Items) /\ jobs.len \in 0..Len(arrays[jobs.arr])
      /\ jobs.arr \in 1..Len(arrays) /\ jobs.len \in Nat
    BY DEF ArrayType
<1>1. s \in Seq(Items) /\ Len(s) = jobs.len /\ \A i \in 1..jobs.len : s[i] = Slot(i)
    BY SlotsAreItems
<1>2. PICK t \in Arrangements(s) :
        InOrder(t) /\ arrays' = [arrays EXCEPT ![jobs.arr] = WithItems(t)]
    BY Zenon DEF SortPosition
<1> HIDE DEF s
<1>3. PICK p \in [1..jobs.len -> 1..jobs.len] :
        /\ \A i, k \in 1..jobs.len : p[i] = p[k] => i = k
        /\ t = [i \in 1..jobs.len |-> s[p[i]]]
  <2>1. PICK p \in [1..Len(s) -> 1..Len(s)] :
            /\ \A i, k \in 1..Len(s) : p[i] = p[k] => i = k
            /\ t = [i \in 1..Len(s) |-> s[p[i]]]
    BY <1>2, Zenon DEF Arrangements
  <2>2. Len(s) = jobs.len
    BY <1>1
  <2>3. /\ p \in [1..jobs.len -> 1..jobs.len] /\ t = [i \in 1..jobs.len |-> s[p[i]]]
        /\ \A i, k \in 1..jobs.len : p[i] = p[k] => i = k
    BY <2>1, <2>2
  <2> QED
    BY <2>3
<1>4. \A k \in 1..jobs.len : \E i \in 1..jobs.len : p[i] = k
  <2>1. jobs.len \in Nat /\ \A i, k \in 1..jobs.len : p[i] = p[k] => i = k
    BY <1>0, <1>3
  <2> QED
    BY <2>1, InjectionOnto, Zenon
<1>5. Len(t) = jobs.len /\ \A i \in 1..jobs.len : t[i] = Slot(p[i])
  <2>1. \A i \in 1..jobs.len : t[i] = Slot(p[i])
    BY <1>1, <1>3
  <2>2. \A i \in 1..jobs.len : s[p[i]] \in Items
    BY <1>1
  <2>3. t \in [1..jobs.len -> Items]
    BY <1>3, <2>2
  <2>4. Len(t) = jobs.len
    BY <1>0, <2>3
  <2> QED
    BY <2>1, <2>4
<1>6. \A i, k \in 1..jobs.len : i < k => Slot(p[i]).pos <= Slot(p[k]).pos
    BY <1>2, <1>5 DEF InOrder
<1> DEFINE u == WithItems(t)
<1>7. u = [i \in 1..Len(arrays[jobs.arr]) |->
            IF i <= jobs.len THEN Slot(p[i]) ELSE arrays[jobs.arr][i]]
    BY <1>0, <1>5 DEF WithItems
<1> HIDE DEF u
<1>8. u \in Seq(Items) /\ Len(u) = Len(arrays[jobs.arr])
  <2>1. \A i \in 1..Len(arrays[jobs.arr]) : arrays[jobs.arr][i] \in Items
    BY <1>0
  <2>2. ASSUME NEW i \in 1..Len(arrays[jobs.arr])
        PROVE  (IF i <= jobs.len THEN Slot(p[i]) ELSE arrays[jobs.arr][i]) \in Items
    <3>1. i <= jobs.len => p[i] \in 1..Len(arrays[jobs.arr])
      BY <1>0
    <3> QED
      BY <2>1, <3>1 DEF Slot
  <2>3. u \in [1..Len(arrays[jobs.arr]) -> Items]
    BY <1>7, <2>2, Zenon
  <2>4. Len(arrays[jobs.arr]) \in Nat
    BY <1>0
  <2> QED
    BY <2>3, <2>4
<1>9. /\ arrays' \in Seq(Seq(Items)) /\ Len(arrays') = Len(arrays)
      /\ \A n \in 1..Len(arrays) : Len(arrays'[n]) = Len(arrays[n])
      /\ arrays'[jobs.arr] = u
      /\ \A n \in 1..Len(arrays) : n # jobs.arr => arrays'[n] = arrays[n]
    BY <1>0, <1>2, <1>8, ArrayReplaced DEF u
<1>10. \A i \in 1..Len(arrays[jobs.arr]) :
        arrays'[jobs.arr][i] = IF i <= jobs.len THEN Slot(p[i]) ELSE arrays[jobs.arr][i]
    BY <1>7, <1>9
<1>11. \A i \in 1..jobs.len : arrays'[jobs.arr][i] = Slot(p[i])
    BY <1>0, <1>10
<1>12. \A n \in 1..Len(arrays) : \A i \in 1..Len(arrays[n]) :
        n # jobs.arr \/ i > jobs.len => arrays'[n][i] = arrays[n][i]
  <2>1. \A i \in 1..Len(arrays[jobs.arr]) :
            i > jobs.len => arrays'[jobs.arr][i] = arrays[jobs.arr][i]
    BY <1>0, <1>10
  <2> QED
    BY <1>9, <2>1
<1>13. ASSUME StrictlyAscending
       PROVE  arrays' = arrays
  <2>1. ASSUME NEW i \in 1..jobs.len, NEW k \in 1..jobs.len, i < k
        PROVE  p[i] <= p[k]
    <3>1. SUFFICES ASSUME p[k] < p[i] PROVE FALSE
      BY <1>0
    <3>2. \A m \in 1..jobs.len : Slot(m).pos \in Nat
      BY <1>1, PositionType
    <3>3. Slot(p[k]).pos < Slot(p[i]).pos
      BY <1>13, <3>1 DEF StrictlyAscending
    <3>4. Slot(p[i]).pos <= Slot(p[k]).pos
      BY <1>6, <2>1
    <3>5. p[i] \in 1..jobs.len /\ p[k] \in 1..jobs.len
      OBVIOUS
    <3> QED
      BY <3>2, <3>3, <3>4, <3>5
  <2>2. \A i \in 1..jobs.len : p[i] = i
    BY <1>0, <1>3, <2>1, GrowingIsIdentity
  <2>3. u = [i \in 1..Len(arrays[jobs.arr]) |-> arrays[jobs.arr][i]]
    BY <1>0, <1>7, <2>2 DEF Slot
  <2>4. arrays[jobs.arr] \in Seq(Items)
    BY <1>0
  <2>5. u = arrays[jobs.arr]
    BY <2>3, <2>4
  <2> QED
    BY <1>0, <1>2, <2>5 DEF ArrayType, u
<1> QED
    BY <1>3, <1>4, <1>6, <1>9, <1>11, <1>12, <1>13

\* Marking a slot keeps the item in it but for the mark, and every other slot.
LEMMA MarkEffect ==
    ASSUME ArrayType, NEW p, p.arr \in 1..Len(arrays), p.idx \in 1..Len(arrays[p.arr]), Mark(p)
    PROVE  /\ arrays' \in Seq(Seq(Items)) /\ Len(arrays') = Len(arrays)
           /\ \A n \in 1..Len(arrays) : Len(arrays'[n]) = Len(arrays[n])
           /\ \A n \in 1..Len(arrays) : \A i \in 1..Len(arrays[n]) :
                /\ arrays'[n][i].job = arrays[n][i].job /\ arrays'[n][i].id = arrays[n][i].id
                /\ arrays'[n][i].pos = arrays[n][i].pos
                /\ n # p.arr \/ i # p.idx => arrays'[n][i] = arrays[n][i]
<1> DEFINE old == arrays[p.arr]
           marked == [old[p.idx] EXCEPT !.deleted = TRUE]
           t == [old EXCEPT ![p.idx] = marked]
<1>1. old \in Seq(Items)
    BY DEF ArrayType
<1>2. /\ marked \in Items
      /\ marked.job = old[p.idx].job /\ marked.id = old[p.idx].id /\ marked.pos = old[p.idx].pos
  <2>1. old[p.idx] \in Items
    BY <1>1
  <2> QED
    BY <2>1 DEF Items
<1>3. arrays' = [arrays EXCEPT ![p.arr] = t]
    BY Zenon DEF Mark
<1> HIDE DEF marked
<1>4. t \in Seq(Items) /\ Len(t) = Len(old)
    BY <1>1, <1>2
<1>5. t[p.idx] = marked /\ \A i \in 1..Len(old) : i # p.idx => t[i] = old[i]
    BY <1>1
<1> HIDE DEF t
<1>6. /\ arrays' \in Seq(Seq(Items)) /\ Len(arrays') = Len(arrays)
      /\ \A n \in 1..Len(arrays) : Len(arrays'[n]) = Len(arrays[n])
      /\ arrays'[p.arr] = t
      /\ \A n \in 1..Len(arrays) : n # p.arr => arrays'[n] = arrays[n]
    BY <1>3, <1>4, ArrayReplaced
<1> QED
    BY <1>2, <1>5, <1>6

\* RemoveJob's swap exchanges the found item with the last of the slice.
LEMMA SwapEffect ==
    ASSUME ArrayType, found \in 1..jobs.len,
           arrays' = [arrays EXCEPT ![jobs.arr][jobs.len] = arrays[jobs.arr][found],
                                    ![jobs.arr][found] = arrays[jobs.arr][jobs.len]]
    PROVE  /\ arrays' \in Seq(Seq(Items)) /\ Len(arrays') = Len(arrays)
           /\ \A n \in 1..Len(arrays) : Len(arrays'[n]) = Len(arrays[n])
           /\ \A n \in 1..Len(arrays) : \A i \in 1..Len(arrays[n]) :
                arrays'[n][i] =
                    IF n = jobs.arr /\ i = found THEN Slot(jobs.len)
                    ELSE IF n = jobs.arr /\ i = jobs.len THEN Slot(found) ELSE arrays[n][i]
<1> DEFINE old == arrays[jobs.arr]
           u == [old EXCEPT ![jobs.len] = old[found]]
           t == [u EXCEPT ![found] = old[jobs.len]]
<1>0. old \in Seq(Items)
    BY DEF ArrayType
<1>1. old \in Seq(Items) /\ jobs.len \in 1..Len(old) /\ found \in 1..Len(old)
    BY <1>0 DEF ArrayType
<1>2. u \in Seq(Items) /\ Len(u) = Len(old)
    BY <1>1
<1>3. t \in Seq(Items) /\ Len(t) = Len(old)
    BY <1>1, <1>2
<1>4. arrays' = [arrays EXCEPT ![jobs.arr] = t]
    BY DEF ArrayType
<1>5. \A i \in 1..Len(old) : t[i] = IF i = found THEN old[jobs.len]
                                    ELSE IF i = jobs.len THEN old[found] ELSE old[i]
  <2>1. \A i \in 1..Len(old) : u[i] = IF i = jobs.len THEN old[found] ELSE old[i]
    BY <1>1
  <2> HIDE DEF u
  <2> QED
    BY <1>1, <1>2, <2>1
<1> HIDE DEF t
<1>6. /\ arrays' \in Seq(Seq(Items)) /\ Len(arrays') = Len(arrays)
      /\ \A n \in 1..Len(arrays) : Len(arrays'[n]) = Len(arrays[n])
      /\ arrays'[jobs.arr] = t
      /\ \A n \in 1..Len(arrays) : n # jobs.arr => arrays'[n] = arrays[n]
  <2>1. jobs.arr \in 1..Len(arrays) /\ Len(t) = Len(arrays[jobs.arr])
    BY <1>3 DEF ArrayType
  <2> QED
    BY <1>3, <1>4, <2>1, ArrayReplaced, Zenon
<1>7. \A i \in 1..Len(arrays[jobs.arr]) : arrays'[jobs.arr][i] =
        IF i = found THEN Slot(jobs.len) ELSE IF i = jobs.len THEN Slot(found) ELSE Slot(i)
    BY <1>5, <1>6 DEF Slot
<1>8. \A n \in 1..Len(arrays) : \A i \in 1..Len(arrays[n]) :
        arrays'[n][i] = IF n = jobs.arr /\ i = found THEN Slot(jobs.len)
                        ELSE IF n = jobs.arr /\ i = jobs.len THEN Slot(found) ELSE arrays[n][i]
  <2> TAKE n \in 1..Len(arrays)
  <2> TAKE i \in 1..Len(arrays[n])
  <2>1. CASE n = jobs.arr
    BY <1>7, <2>1 DEF Slot
  <2>2. CASE n # jobs.arr
    BY <1>6, <2>2
  <2> QED
    BY <2>1, <2>2
<1> QED
    BY <1>6, <1>8

\* append puts the adder's item behind the slice: into the next slot of the
\* array, or into a new array that starts with the items of the slice.
LEMMA AppendEffect ==
    ASSUME ArrayType, jobs.len < MaxJobs, NEW a \in Adders, aitem[a] \in Items, AppendItem(a)
    PROVE  /\ ArrayType' /\ jobs'.len = jobs.len + 1
           /\ Len(arrays') \in Len(arrays)..Len(arrays) + 1
           /\ \A n \in 1..Len(arrays) : Len(arrays'[n]) = Len(arrays[n])
           /\ \A n \in 1..Len(arrays) : \A i \in 1..Len(arrays[n]) :
                \/ arrays'[n][i] = arrays[n][i]
                \/ n = jobs.arr /\ jobs'.arr = n /\ i = jobs.len + 1 /\ arrays'[n][i] = aitem[a]
           /\ jobs'.arr = jobs.arr \/ jobs'.arr = Len(arrays) + 1
           /\ \A i \in 1..jobs.len : arrays'[jobs'.arr][i] = Slot(i)
           /\ arrays'[jobs'.arr][jobs.len + 1] = aitem[a]
<1> DEFINE n == jobs.len + 1
           old == arrays[jobs.arr]
<1>0. old \in Seq(Items) /\ jobs.len \in 0..Len(old)
    BY DEF ArrayType
<1>1. old \in Seq(Items) /\ jobs.len \in 0..Len(old) /\ n \in 1..MaxJobs
    BY <1>0, MaxJobsAssumption
<1>2. CASE n <= Len(old)
  <2> DEFINE t == [old EXCEPT ![n] = aitem[a]]
  <2>1. t \in Seq(Items) /\ Len(t) = Len(old) /\ t[n] = aitem[a]
        /\ \A i \in 1..Len(old) : i # n => t[i] = old[i]
    BY <1>1, <1>2
  <2>2. arrays' = [arrays EXCEPT ![jobs.arr] = t] /\ jobs' = [jobs EXCEPT !.len = n]
    BY <1>2 DEF AppendItem
  <2>3. jobs' \in [arr : Nat, len : Nat] /\ jobs'.arr = jobs.arr /\ jobs'.len = n
    <3>1. jobs \in [arr : Nat, len : Nat] /\ n \in Nat
      BY <1>1 DEF ArrayType
    <3> HIDE DEF n
    <3> QED
      BY <2>2, <3>1
  <2> HIDE DEF t
  <2>4. /\ arrays' \in Seq(Seq(Items)) /\ Len(arrays') = Len(arrays)
        /\ \A m \in 1..Len(arrays) : Len(arrays'[m]) = Len(arrays[m])
        /\ arrays'[jobs.arr] = t
        /\ \A m \in 1..Len(arrays) : m # jobs.arr => arrays'[m] = arrays[m]
    BY <2>1, <2>2, ArrayReplaced DEF ArrayType
  <2>5. ArrayType'
    BY <1>1, <1>2, <2>1, <2>3, <2>4 DEF ArrayType
  <2>6. \A m \in 1..Len(arrays) : \A i \in 1..Len(arrays[m]) :
            \/ arrays'[m][i] = arrays[m][i]
            \/ m = jobs.arr /\ jobs'.arr = m /\ i = n /\ arrays'[m][i] = aitem[a]
    BY <2>1, <2>3, <2>4
  <2>7. (\A i \in 1..jobs.len : arrays'[jobs'.arr][i] = Slot(i)) /\ arrays'[jobs'.arr][n] = aitem[a]
    <3>1. arrays'[jobs'.arr] = t
      BY <2>3, <2>4
    <3>2. \A i \in 1..jobs.len : i \in 1..Len(old) /\ i # n
      BY <1>1
    <3> QED
      BY <2>1, <3>1, <3>2 DEF Slot
  <2>8. Len(arrays') \in Len(arrays)..Len(arrays) + 1
    BY <2>4 DEF ArrayType
  <2>9. jobs'.len = jobs.len + 1 /\ jobs'.arr = jobs.arr
    BY <2>3
  <2> QED
    BY <2>4, <2>5, <2>6, <2>7, <2>8, <2>9
<1>3. CASE ~(n <= Len(old))
  <2> DEFINE t == [i \in 1..Capacity[n] |-> IF i < n THEN old[i] ELSE IF i = n THEN aitem[a] ELSE Empty]
  <2>1. Capacity[n] \in Nat /\ n <= Capacity[n]
    BY <1>1, CapacityAssumption, MaxJobsAssumption
  <2>2. Empty \in Items
    BY MaxJobsAssumption DEF Empty, Items
  <2>3. \A i \in 1..n - 1 : old[i] \in Items
    BY <1>1
  <2>4. t \in [1..Capacity[n] -> Items]
    BY <1>1, <2>1, <2>2, <2>3
  <2>5. t \in Seq(Items) /\ Len(t) = Capacity[n]
    BY <2>1, <2>4
  <2>6. \A i \in 1..jobs.len : t[i] = old[i]
    BY <1>1, <2>1
  <2>7. t[n] = aitem[a]
    BY <1>1, <2>1
  <2>8. arrays' = Append(arrays, t) /\ jobs' = [arr |-> Len(arrays) + 1, len |-> n]
    BY <1>3 DEF AppendItem
  <2> HIDE DEF t
  <2>9. /\ arrays' \in Seq(Seq(Items)) /\ Len(arrays') = Len(arrays) + 1
        /\ \A m \in 1..Len(arrays) : arrays'[m] = arrays[m]
        /\ arrays'[Len(arrays) + 1] = t
    BY <2>5, <2>8 DEF ArrayType
  <2> QED
    BY <1>1, <2>1, <2>5, <2>6, <2>7, <2>8, <2>9 DEF ArrayType, Slot
<1> QED
    BY <1>2, <1>3

(***************************************************************************)
(* IndexOf, the rows, and what a restart loads                             *)
(***************************************************************************)

\* The search of FindJob and RemoveJob finds the first item with that JobID.
LEMMA IndexOfFirst ==
    ASSUME ArrayType, NEW id
    PROVE  /\ IndexOf(id) \in 0..jobs.len
           /\ IndexOf(id) # 0 => Slot(IndexOf(id)).job = id
           /\ \A k \in 1..jobs.len : Slot(k).job = id => IndexOf(id) \in 1..k
<1> DEFINE S == {i \in 1..jobs.len : Slots(jobs)[i].job = id}
<1>0. jobs.len \in Nat /\ S = {i \in 1..jobs.len : Slot(i).job = id}
    BY SlotsAreItems DEF ArrayType
<1>1. IndexOf(id) = IF S = {} THEN 0 ELSE CHOOSE i \in S : \A k \in S : i <= k
    BY Zenon DEF IndexOf
<1> HIDE DEF S
<1>2. CASE S = {}
    BY <1>0, <1>1, <1>2
<1>3. CASE S # {}
  <2>1. S \in SUBSET Nat
    BY <1>0
  <2>2. IndexOf(id) \in S /\ \A k \in S : IndexOf(id) <= k
    BY <1>1, <1>3, <2>1, LeastNumber
  <2> QED
    BY <1>0, <2>2
<1> QED
    BY <1>2, <1>3

\* The table has at most one row for each job, so it is finite.
LEMMA RowsFinite ==
    ASSUME TableType, RowInv
    PROVE  IsFiniteSet(rows)
<1> DEFINE f == [r \in rows |-> r.job]
<1>1. f \in [rows -> JobIds]
    BY DEF TableType
<1>2. \A r, q \in rows : f[r] = f[q] => r = q
    BY DEF RowInv
<1>3. f \in Injection(rows, JobIds)
    BY <1>1, <1>2, Zenon DEF Injection, IsInjective
<1>4. IsFiniteSet(JobIds)
    BY CountUpTo, MaxJobsAssumption DEF JobIds
<1> QED
    BY <1>3, <1>4, FS_Injection

\* Load makes one item, not deleted, of each row that it does not leave out.
LEMMA RestartEffect ==
    ASSUME StorageInv, Restart
    PROVE  /\ ArrayType' /\ jobs'.arr = 1 /\ jobs'.len <= MaxJobs
           /\ \E leftOut \in SUBSET {r \in rows : Ended(r)} :
                /\ \A r \in rows \ leftOut : r.job \notin ignored
                /\ ignored' = {r.job : r \in leftOut}
                /\ added' = added \cup {r.job : r \in rows \ leftOut}
                /\ disorder' = (disorder \/ \E r \in rows \ leftOut : r.id # r.job \/ r.pos # r.id)
                /\ \E f \in [1..jobs'.len -> rows \ leftOut] :
                    /\ \A i, k \in 1..jobs'.len : f[i] = f[k] => i = k
                    /\ \A r \in rows \ leftOut : \E i \in 1..jobs'.len : f[i] = r
                    /\ \A i \in 1..jobs'.len :
                        arrays'[1][i] = [id |-> f[i].id, job |-> f[i].job, pos |-> f[i].pos,
                                         deleted |-> FALSE]
<1> DEFINE Loaded(r) == [id |-> r.id, job |-> r.job, pos |-> r.pos, deleted |-> FALSE]
<1>1. PICK leftOut \in SUBSET {r \in rows : Ended(r)} :
        /\ \A r \in rows \ leftOut : r.job \notin ignored
        /\ ignored' = {r.job : r \in leftOut}
        /\ \E f \in [1..Cardinality(rows \ leftOut) -> rows \ leftOut] :
            /\ \A r \in rows \ leftOut : \E i \in 1..Cardinality(rows \ leftOut) : f[i] = r
            /\ arrays' = << [i \in 1..Capacity[Cardinality(rows \ leftOut)] |->
                    IF i <= Cardinality(rows \ leftOut) THEN Loaded(f[i]) ELSE Empty] >>
        /\ jobs' = [arr |-> 1, len |-> Cardinality(rows \ leftOut)]
        /\ added' = added \cup {r.job : r \in rows \ leftOut}
        /\ disorder' = (disorder \/ \E r \in rows \ leftOut : r.id # r.job \/ r.pos # r.id)
    BY Zenon DEF Restart
<1> DEFINE reloaded == rows \ leftOut
           n == Cardinality(reloaded)
<1>2. PICK f \in [1..n -> reloaded] :
            /\ \A r \in reloaded : \E i \in 1..n : f[i] = r
            /\ arrays' = << [i \in 1..Capacity[n] |-> IF i <= n THEN Loaded(f[i]) ELSE Empty] >>
    BY <1>1
<1>3. IsFiniteSet(reloaded)
    BY RowsFinite, FS_Subset DEF StorageInv
<1>4. n \in Nat
    BY <1>3, FS_CardinalityType
<1>5. \A i, k \in 1..n : f[i] = f[k] => i = k
  <2> HIDE DEF reloaded, n
  <2>1. f \in Surjection(1..n, reloaded)
    BY <1>2, Zenon DEF Surjection
  <2>2. IsFiniteSet(1..n) /\ Cardinality(1..n) = Cardinality(reloaded)
    BY <1>4, CountUpTo DEF n
  <2>3. f \in Injection(1..n, reloaded)
    BY <2>1, <2>2, FS_SurjSameCardinalityImpliesInj, Zenon
  <2> QED
    BY <2>3, Zenon DEF Injection, IsInjective
<1> HIDE DEF n
<1>6. \A i \in 1..n : f[i] \in rows /\ f[i].job \in 1..MaxJobs /\ Loaded(f[i]) \in Items
    BY <1>2, MaxJobsAssumption DEF StorageInv, TableType, Items, JobIds
<1>7. n <= MaxJobs
  <2> DEFINE g == [i \in 1..n |-> f[i].job]
  <2>1. g \in [1..n -> 1..MaxJobs]
    BY <1>6
  <2>2. \A i, k \in 1..n : g[i] = g[k] => i = k
    BY <1>5, <1>6 DEF StorageInv, RowInv
  <2>3. MaxJobs \in Nat
    BY MaxJobsAssumption
  <2> HIDE DEF g
  <2> QED
    BY <1>4, <2>1, <2>2, <2>3, DistinctBound, Zenon
<1>8. Capacity[n] \in Nat /\ n <= Capacity[n]
    BY <1>4, <1>7, CapacityAssumption, MaxJobsAssumption
<1> DEFINE t == [i \in 1..Capacity[n] |-> IF i <= n THEN Loaded(f[i]) ELSE Empty]
<1>9. t \in Seq(Items) /\ Len(t) = Capacity[n] /\ \A i \in 1..n : t[i] = Loaded(f[i])
  <2>1. Empty \in Items
    BY MaxJobsAssumption DEF Empty, Items
  <2>2. t \in [1..Capacity[n] -> Items]
    BY <1>4, <1>6, <2>1
  <2>3. \A i \in 1..n : i \in 1..Capacity[n]
    BY <1>4, <1>8
  <2>4. t \in Seq(Items) /\ Len(t) = Capacity[n]
    <3> HIDE DEF t
    <3> QED
      BY <1>8, <2>2
  <2>5. \A i \in 1..n : t[i] = Loaded(f[i])
    BY <1>4, <2>3
  <2> QED
    BY <2>4, <2>5
<1>10. jobs' = [arr |-> 1, len |-> n] /\ arrays' = <<t>>
    BY <1>1, <1>2 DEF n
<1> HIDE DEF t
<1>11. ArrayType'
    BY <1>4, <1>8, <1>9, <1>10 DEF ArrayType
<1>12. arrays'[1] = t /\ jobs'.len = n /\ jobs'.arr = 1
    BY <1>10
<1>13. \A i \in 1..n : arrays'[1][i] = Loaded(f[i])
    BY <1>9, <1>12
<1>14. \E g \in [1..jobs'.len -> rows \ leftOut] :
        /\ \A i, k \in 1..jobs'.len : g[i] = g[k] => i = k
        /\ \A r \in rows \ leftOut : \E i \in 1..jobs'.len : g[i] = r
        /\ \A i \in 1..jobs'.len : arrays'[1][i] = Loaded(g[i])
  <2>1. /\ f \in [1..n -> rows \ leftOut]
        /\ \A i, k \in 1..n : f[i] = f[k] => i = k
        /\ \A r \in rows \ leftOut : \E i \in 1..n : f[i] = r
        /\ \A i \in 1..n : arrays'[1][i] = Loaded(f[i])
    BY <1>2, <1>5, <1>13
  <2> HIDE DEF Loaded
  <2> QED
    BY <1>12, <2>1
<1>15. jobs'.arr = 1 /\ jobs'.len <= MaxJobs
    BY <1>7, <1>12
<1> QED
    BY <1>1, <1>11, <1>14, <1>15, Zenon

(***************************************************************************)
(* Which actions change which variables                                    *)
(***************************************************************************)
AddStep == \E a \in Adders : Add(a)
CancelStep == \E c \in Cancellers : Cancel(c)

LEMMA ChangesSlice ==
    ASSUME [Next]_vars
    PROVE  \/ UNCHANGED <<arrays, jobs>>
           \/ \E a \in Adders : AppendItem(a) \/ ReplyPosition(a)
           \/ TakeFirst \/ FindRemoved \/ RemoveFound
           \/ \E c \in Cancellers : MarkDeleted(c)
           \/ Restart
BY DEF Next, vars, Worker, Shutdown, Add, Cancel, CreateJob, InsertItem, SavePosition, LoadItem,
   StartRun, RunReturns, DeleteRow, RunAgain, SendToken, TestCurrent, UseCurrent, Exit, FindJob,
   CancelFound, DeleteCancelledRow

LEMMA ChangesAdders ==
    ASSUME [Next]_vars
    PROVE  UNCHANGED addVars \/ AddStep \/ Restart
BY DEF Next, vars, addVars, Worker, Shutdown, Cancel, TakeFirst, LoadItem,
   StartRun, RunReturns, DeleteRow, FindRemoved, RemoveFound, RunAgain, SendToken, TestCurrent,
   UseCurrent, Exit, FindJob, CancelFound, MarkDeleted, DeleteCancelledRow, AddStep

LEMMA ChangesTable ==
    ASSUME [Next]_vars
    PROVE  \/ UNCHANGED tableVars
           \/ \E a \in Adders : CreateJob(a) \/ InsertItem(a) \/ SavePosition(a)
           \/ DeleteRow
           \/ \E c \in Cancellers : DeleteCancelledRow(c)
BY DEF Next, vars, tableVars, Worker, Shutdown, Add, Cancel, AppendItem, ReplyPosition, TakeFirst,
   LoadItem, StartRun, RunReturns, FindRemoved, RemoveFound, RunAgain, SendToken, TestCurrent,
   UseCurrent, Exit, FindJob, CancelFound, MarkDeleted, Restart

LEMMA ChangesWorker ==
    ASSUME [Next]_vars
    PROVE  UNCHANGED workVars \/ Worker \/ Restart
<1>1. Shutdown => UNCHANGED workVars
    BY DEF Shutdown, SendToken, TestCurrent, UseCurrent, Exit
<1>2. \A a \in Adders : Add(a) => UNCHANGED workVars
    BY DEF Add, CreateJob, InsertItem, SavePosition, AppendItem, ReplyPosition
<1>3. \A c \in Cancellers : Cancel(c) => UNCHANGED workVars
    BY DEF Cancel, FindJob, CancelFound, MarkDeleted, DeleteCancelledRow
<1>4. UNCHANGED vars => UNCHANGED workVars
    BY DEF vars
<1> QED
    BY <1>1, <1>2, <1>3, <1>4 DEF Next

LEMMA ChangesCancels ==
    ASSUME [Next]_vars
    PROVE  UNCHANGED cancVars \/ CancelStep \/ UseCurrent \/ RemoveFound \/ Restart
<1>1. Shutdown => UNCHANGED cancVars \/ UseCurrent
    BY DEF Shutdown, cancVars, SendToken, TestCurrent, Exit
<1>2. \A a \in Adders : Add(a) => UNCHANGED cancVars
    BY DEF Add, CreateJob, InsertItem, SavePosition, AppendItem, ReplyPosition
<1>3. Worker => UNCHANGED cancVars \/ RemoveFound
    BY DEF Worker, TakeFirst, LoadItem, StartRun, RunReturns, DeleteRow, FindRemoved, RunAgain
<1>4. UNCHANGED vars => UNCHANGED cancVars
    BY DEF vars
<1> QED
    BY <1>1, <1>2, <1>3, <1>4 DEF Next, CancelStep

LEMMA ChangesStop ==
    ASSUME [Next]_vars
    PROVE  UNCHANGED stopVars \/ Shutdown \/ StartRun \/ FindRemoved \/ RunAgain \/ Restart
<1>1. \A c \in Cancellers : Cancel(c) => UNCHANGED stopVars
    BY DEF Cancel, FindJob, CancelFound, MarkDeleted, DeleteCancelledRow
<1>2. \A a \in Adders : Add(a) => UNCHANGED stopVars
    BY DEF Add, CreateJob, InsertItem, SavePosition, AppendItem, ReplyPosition
<1>3. Worker => UNCHANGED stopVars \/ StartRun \/ FindRemoved \/ RunAgain
    BY DEF Worker, TakeFirst, LoadItem, RunReturns, DeleteRow, RemoveFound
<1>4. UNCHANGED vars => UNCHANGED stopVars
    BY DEF vars
<1> QED
    BY <1>1, <1>2, <1>3, <1>4 DEF Next

LEMMA ChangesNotes ==
    ASSUME [Next]_vars
    PROVE  UNCHANGED noteVars \/ (\E a \in Adders : AppendItem(a)) \/ Restart
BY DEF Next, vars, noteVars, Worker, Shutdown, Add, Cancel, CreateJob, InsertItem, SavePosition,
   ReplyPosition, TakeFirst, LoadItem, StartRun, RunReturns, DeleteRow, FindRemoved, RemoveFound,
   RunAgain, SendToken, TestCurrent, UseCurrent, Exit, FindJob, CancelFound, MarkDeleted,
   DeleteCancelledRow

(***************************************************************************)
(* What a step does to the slice                                           *)
(***************************************************************************)

\* The slice has the same items as before, in some order, marks aside.
Permuted ==
    /\ jobs' = jobs
    /\ \E p \in [1..jobs.len -> 1..jobs.len] :
        /\ \A i, k \in 1..jobs.len : p[i] = p[k] => i = k
        /\ \A k \in 1..jobs.len : \E i \in 1..jobs.len : p[i] = k
        /\ \A i \in 1..jobs.len :
            /\ arrays'[jobs.arr][i].job = Slot(p[i]).job
            /\ arrays'[jobs.arr][i].id = Slot(p[i]).id
            /\ arrays'[jobs.arr][i].pos = Slot(p[i]).pos

\* Every slot but those of the slice keeps its item, marks aside.
RestKept ==
    /\ Len(arrays') = Len(arrays)
    /\ \A n \in 1..Len(arrays) : Len(arrays'[n]) = Len(arrays[n])
    /\ \A n \in 1..Len(arrays) : \A i \in 1..Len(arrays[n]) :
        n # jobs.arr \/ i > jobs.len =>
            arrays'[n][i].job = arrays[n][i].job /\ arrays'[n][i].id = arrays[n][i].id

LEMMA SamePermuted ==
    ASSUME ArrayType, jobs' = jobs,
           \A i \in 1..jobs.len :
            /\ arrays'[jobs.arr][i].job = Slot(i).job
            /\ arrays'[jobs.arr][i].id = Slot(i).id
            /\ arrays'[jobs.arr][i].pos = Slot(i).pos
    PROVE  Permuted
<1> DEFINE p == [i \in 1..jobs.len |-> i]
<1>1. /\ p \in [1..jobs.len -> 1..jobs.len]
      /\ \A i \in 1..jobs.len : p[i] = i
    OBVIOUS
<1> HIDE DEF p
<1>2. /\ \A i, k \in 1..jobs.len : p[i] = p[k] => i = k
      /\ \A k \in 1..jobs.len : \E i \in 1..jobs.len : p[i] = k
      /\ \A i \in 1..jobs.len :
            /\ arrays'[jobs.arr][i].job = Slot(p[i]).job
            /\ arrays'[jobs.arr][i].id = Slot(p[i]).id
            /\ arrays'[jobs.arr][i].pos = Slot(p[i]).pos
    BY <1>1
<1> QED
    BY <1>1, <1>2, Zenon DEF Permuted

LEMMA SortPermutes ==
    ASSUME ArrayType, SortPosition, UNCHANGED jobs
    PROVE  ArrayType' /\ Permuted /\ RestKept
<1>1. /\ arrays' \in Seq(Seq(Items)) /\ Len(arrays') = Len(arrays)
      /\ \A n \in 1..Len(arrays) : Len(arrays'[n]) = Len(arrays[n])
      /\ \A n \in 1..Len(arrays) : \A i \in 1..Len(arrays[n]) :
                n # jobs.arr \/ i > jobs.len => arrays'[n][i] = arrays[n][i]
    BY SortEffect
<1>2. PICK p \in [1..jobs.len -> 1..jobs.len] :
        /\ \A i, k \in 1..jobs.len : p[i] = p[k] => i = k
        /\ \A k \in 1..jobs.len : \E i \in 1..jobs.len : p[i] = k
        /\ \A i \in 1..jobs.len : arrays'[jobs.arr][i] = Slot(p[i])
    BY SortEffect
<1>3. Permuted
  <2>1. jobs' = jobs
    OBVIOUS
  <2> QED
    BY <1>2, <2>1, Zenon DEF Permuted
<1>4. ArrayType'
    BY <1>1 DEF ArrayType
<1> QED
    BY <1>1, <1>3, <1>4 DEF RestKept

LEMMA MarkPermutes ==
    ASSUME ArrayType, NEW p, Names(p), Mark(p), UNCHANGED jobs
    PROVE  ArrayType' /\ Permuted /\ RestKept
<1>1. /\ arrays' \in Seq(Seq(Items)) /\ Len(arrays') = Len(arrays)
      /\ \A n \in 1..Len(arrays) : Len(arrays'[n]) = Len(arrays[n])
      /\ \A n \in 1..Len(arrays) : \A i \in 1..Len(arrays[n]) :
            /\ arrays'[n][i].job = arrays[n][i].job /\ arrays'[n][i].id = arrays[n][i].id
            /\ arrays'[n][i].pos = arrays[n][i].pos
  <2>1. p.arr \in 1..Len(arrays) /\ p.idx \in 1..Len(arrays[p.arr])
    BY DEF Names, Pointers
  <2> QED
    BY <2>1, MarkEffect, Zenon
<1>2. ArrayType'
    BY <1>1 DEF ArrayType
<1>3. \A i \in 1..jobs.len :
        /\ arrays'[jobs.arr][i].job = Slot(i).job
        /\ arrays'[jobs.arr][i].id = Slot(i).id
        /\ arrays'[jobs.arr][i].pos = Slot(i).pos
    BY <1>1 DEF ArrayType, Slot
<1>4. Permuted
    BY <1>3, SamePermuted
<1> QED
    BY <1>1, <1>2, <1>4 DEF RestKept

\* RemoveFound cuts the found item out of the slice.
Cut ==
    /\ wpc = "remove" /\ found \in 1..jobs.len
    /\ jobs'.arr = jobs.arr /\ jobs'.len = jobs.len - 1
    /\ \A i \in 1..jobs.len - 1 :
        arrays'[jobs.arr][i] = IF i = found THEN Slot(jobs.len) ELSE Slot(i)

LEMMA RemoveCuts ==
    ASSUME ArrayType, found \in 0..jobs.len, RemoveFound
    PROVE  /\ ArrayType' /\ RestKept
           /\ \/ found = 0 /\ wpc' = "panicked" /\ Permuted
              \/ found # 0 /\ wpc' = "again" /\ Cut
           /\ found = 0 => arrays' = arrays
           /\ found # 0 =>
                \A n \in 1..Len(arrays) : \A i \in 1..Len(arrays[n]) :
                arrays'[n][i] =
                    IF n = jobs.arr /\ i = found THEN Slot(jobs.len)
                    ELSE IF n = jobs.arr /\ i = jobs.len THEN Slot(found) ELSE arrays[n][i]
<1>0. jobs \in [arr : Nat, len : Nat] /\ jobs.len \in 0..Len(arrays[jobs.arr])
      /\ jobs.arr \in 1..Len(arrays)
    BY DEF ArrayType
<1>1. CASE found = 0
  <2>1. arrays' = arrays /\ jobs' = jobs /\ wpc' = "panicked"
    BY <1>1 DEF RemoveFound
  <2>2. Permuted
    BY <2>1, SamePermuted DEF Slot
  <2> QED
    BY <1>1, <2>1, <2>2 DEF ArrayType, RestKept
<1>2. CASE found # 0
  <2>1. found \in 1..jobs.len
    BY <1>0, <1>2
  <2>2. /\ arrays' = [arrays EXCEPT ![jobs.arr][jobs.len] = arrays[jobs.arr][found],
                                    ![jobs.arr][found] = arrays[jobs.arr][jobs.len]]
        /\ jobs' = [jobs EXCEPT !.len = @ - 1] /\ wpc' = "again" /\ wpc = "remove"
    BY <1>2 DEF RemoveFound, CutLast
  <2>3. jobs' \in [arr : Nat, len : Nat] /\ jobs'.arr = jobs.arr /\ jobs'.len = jobs.len - 1
    <3> DEFINE m == jobs.len - 1
    <3>1. m \in Nat /\ jobs' = [jobs EXCEPT !.len = m]
      BY <1>0, <2>1, <2>2
    <3> HIDE DEF m
    <3>2. jobs' \in [arr : Nat, len : Nat] /\ jobs'.arr = jobs.arr /\ jobs'.len = m
      BY <1>0, <3>1
    <3> QED
      BY <3>2 DEF m
  <2>4. /\ arrays' \in Seq(Seq(Items)) /\ Len(arrays') = Len(arrays)
        /\ \A n \in 1..Len(arrays) : Len(arrays'[n]) = Len(arrays[n])
        /\ \A n \in 1..Len(arrays) : \A i \in 1..Len(arrays[n]) :
                arrays'[n][i] =
                    IF n = jobs.arr /\ i = found THEN Slot(jobs.len)
                    ELSE IF n = jobs.arr /\ i = jobs.len THEN Slot(found) ELSE arrays[n][i]
    BY <2>1, <2>2, SwapEffect
  <2>5. ArrayType'
    BY <1>0, <2>1, <2>3, <2>4 DEF ArrayType
  <2>6. \A i \in 1..jobs.len - 1 :
            arrays'[jobs.arr][i] = IF i = found THEN Slot(jobs.len) ELSE Slot(i)
    <3> TAKE i \in 1..jobs.len - 1
    <3>1. i \in 1..Len(arrays[jobs.arr]) /\ i # jobs.len
      BY <1>0, <2>1
    <3>2. arrays'[jobs.arr][i] = IF i = found THEN Slot(jobs.len)
                                 ELSE IF i = jobs.len THEN Slot(found) ELSE arrays[jobs.arr][i]
      BY <1>0, <2>4, <3>1
    <3> QED
      BY <3>1, <3>2 DEF Slot
  <2>7. RestKept
    <3>1. ASSUME NEW n \in 1..Len(arrays), NEW i \in 1..Len(arrays[n]),
                 n # jobs.arr \/ i > jobs.len
          PROVE  arrays'[n][i] = arrays[n][i]
      <4>1. n # jobs.arr \/ (i # found /\ i # jobs.len)
        BY <1>0, <2>1, <3>1
      <4> QED
        BY <2>4, <4>1
    <3> QED
      BY <2>4, <3>1 DEF RestKept
  <2> QED
    BY <1>2, <2>1, <2>2, <2>3, <2>4, <2>5, <2>6, <2>7 DEF Cut
<1> QED
    BY <1>1, <1>2

\* There is room for the item of an adder that is about to append it: the items
\* in the slice have different jobs, none of them its job.
LEMMA RoomForItem ==
    ASSUME StorageInv, NEW a \in Adders, apc[a] = "append"
    PROVE  jobs.len < MaxJobs
<1> DEFINE n == jobs.len + 1
           f == [i \in 1..n |-> IF i = n THEN aitem[a].job ELSE Slot(i).job]
<1>0. jobs.len \in Nat /\ MaxJobs \in Nat
    BY MaxJobsAssumption DEF StorageInv, ArrayType
<1>1. a \in Pending
    BY DEF Pending
<1>2. aitem[a].job \in 1..MaxJobs
    BY <1>0, <1>1 DEF StorageInv, NumberInv, TableType
<1>3. \A i \in 1..jobs.len : Slot(i).job \in 1..MaxJobs
    BY DEF StorageInv, PointerInv, JobIds
<1>4. f \in [1..n -> 1..MaxJobs]
    BY <1>0, <1>2, <1>3
<1>5. ASSUME NEW i \in 1..n, NEW k \in 1..n, f[i] = f[k]
      PROVE  i = k
  <2>1. \A m \in 1..jobs.len : Slot(m).job # aitem[a].job
    BY <1>1 DEF StorageInv, NumberInv
  <2>2. CASE i = n \/ k = n
    BY <1>0, <1>5, <2>1, <2>2
  <2>3. CASE i # n /\ k # n
    <3>1. i \in 1..jobs.len /\ k \in 1..jobs.len /\ Slot(i).job = Slot(k).job
      BY <1>0, <1>5, <2>3
    <3> QED
      BY <3>1 DEF StorageInv, NumberInv
  <2> QED
    BY <2>2, <2>3
<1>6. n \in Nat
    BY <1>0
<1> HIDE DEF f, n
<1>7. n <= MaxJobs
    BY <1>0, <1>4, <1>5, <1>6, DistinctBound
<1> QED
    BY <1>0, <1>7 DEF n

\* Every step permutes the slice, cuts out the item the worker found, appends an
\* adder's item, or loads the slice anew.
LEMMA SliceStep ==
    ASSUME StorageInv, [Next]_vars
    PROVE  /\ ArrayType'
           /\ \/ Permuted /\ RestKept
              \/ Cut /\ RestKept /\ RemoveFound
              \/ \E a \in Adders : AppendItem(a)
              \/ Restart
<1>0. ArrayType
    BY DEF StorageInv
<1>1. CASE UNCHANGED <<arrays, jobs>>
  <2>1. Permuted
    BY <1>0, <1>1, SamePermuted DEF Slot
  <2>2. RestKept /\ ArrayType'
    BY <1>0, <1>1 DEF RestKept, ArrayType
  <2> QED
    BY <2>1, <2>2
<1>2. ASSUME NEW a \in Adders, AppendItem(a)
      PROVE  ArrayType'
  <2>1. apc[a] = "append" /\ aitem[a] \in Items
    BY <1>2 DEF AppendItem, StorageInv, AdderType
  <2>2. jobs.len < MaxJobs
    BY <2>1, RoomForItem, MaxJobsAssumption DEF StorageInv, ArrayType
  <2> QED
    BY <1>0, <1>2, <2>1, <2>2, AppendEffect
<1>3. CASE TakeFirst \/ \E a \in Adders : ReplyPosition(a)
  <2>1. SortPosition /\ UNCHANGED jobs
    BY <1>3 DEF TakeFirst, SortFirst, ReplyPosition
  <2> QED
    BY <1>0, <2>1, SortPermutes
<1>4. CASE FindRemoved
  <2>1. Names(ptr)
    BY <1>4 DEF FindRemoved, StorageInv, PointerInv
  <2> QED
    BY <1>0, <1>4, <2>1, MarkPermutes DEF FindRemoved
<1>5. ASSUME NEW c \in Cancellers, MarkDeleted(c)
      PROVE  ArrayType' /\ Permuted /\ RestKept
  <2>1. Names(cptr[c])
    BY <1>5 DEF MarkDeleted, StorageInv, PointerInv
  <2> QED
    BY <1>0, <1>5, <2>1, MarkPermutes DEF MarkDeleted
<1>6. CASE RemoveFound
    BY <1>0, <1>6, RemoveCuts DEF StorageInv, WorkerType
<1>7. CASE Restart
    BY <1>7, RestartEffect
<1> QED
    BY <1>1, <1>2, <1>3, <1>4, <1>5, <1>6, <1>7, ChangesSlice

\* A step other than a restart leaves an item in every slot that holds one.
LEMMA NamesKept ==
    ASSUME StorageInv, [Next]_vars, ~Restart, NEW p, Names(p)
    PROVE  Names(p)'
<1>0. p.arr \in 1..Len(arrays) /\ p.idx \in 1..Len(arrays[p.arr]) /\ p \in Pointers
      /\ arrays[p.arr][p.idx].job \in JobIds
    BY DEF Names, Pointers, At
<1>00. jobs.arr \in 1..Len(arrays) /\ jobs.len \in 0..Len(arrays[jobs.arr]) /\ Len(arrays) \in Nat
    BY DEF StorageInv, ArrayType
<1>1. SUFFICES /\ Len(arrays) <= Len(arrays') /\ Len(arrays'[p.arr]) = Len(arrays[p.arr])
               /\ arrays'[p.arr][p.idx].job \in JobIds
  <2>1. Len(arrays') \in Nat
    BY SliceStep DEF ArrayType
  <2> QED
    BY <1>0, <1>00, <1>1, <2>1 DEF Names, Pointers, At
<1>2. CASE Permuted /\ RestKept
  <2>1. CASE p.arr = jobs.arr /\ p.idx <= jobs.len
    <3>1. PICK q \in [1..jobs.len -> 1..jobs.len] :
            \A i \in 1..jobs.len : arrays'[jobs.arr][i].job = Slot(q[i]).job
      BY <1>2 DEF Permuted
    <3>2. p.idx \in 1..jobs.len
      BY <1>0, <1>00, <2>1
    <3>3. arrays'[jobs.arr][p.idx].job = Slot(q[p.idx]).job /\ q[p.idx] \in 1..jobs.len
      BY <3>1, <3>2
    <3>4. arrays'[jobs.arr][p.idx].job \in JobIds
      BY <3>3 DEF StorageInv, PointerInv
    <3>5. Len(arrays') = Len(arrays) /\ Len(arrays'[p.arr]) = Len(arrays[p.arr])
      BY <1>0, <1>2 DEF RestKept
    <3> QED
      BY <1>00, <2>1, <3>4, <3>5
  <2>2. CASE ~(p.arr = jobs.arr /\ p.idx <= jobs.len)
    <3>1. p.arr # jobs.arr \/ p.idx > jobs.len
      BY <1>0, <1>00, <2>2
    <3>2. arrays'[p.arr][p.idx].job = arrays[p.arr][p.idx].job
      BY <1>0, <1>2, <3>1 DEF RestKept
    <3>3. Len(arrays') = Len(arrays) /\ Len(arrays'[p.arr]) = Len(arrays[p.arr])
      BY <1>0, <1>2 DEF RestKept
    <3> QED
      BY <1>0, <1>00, <3>2, <3>3
  <2> QED
    BY <2>1, <2>2
<1>3. CASE Cut /\ RestKept /\ RemoveFound
  <2>1. found \in 1..jobs.len
    BY <1>3 DEF Cut
  <2>2. \A n \in 1..Len(arrays) : \A i \in 1..Len(arrays[n]) :
                arrays'[n][i] =
                    IF n = jobs.arr /\ i = found THEN Slot(jobs.len)
                    ELSE IF n = jobs.arr /\ i = jobs.len THEN Slot(found) ELSE arrays[n][i]
    <3>1. ArrayType /\ found \in 0..jobs.len /\ found # 0
      BY <1>00, <2>1 DEF StorageInv
    <3> QED
      BY <1>3, <3>1, RemoveCuts, Zenon
  <2>3. Slot(jobs.len).job \in JobIds /\ Slot(found).job \in JobIds
    BY <1>00, <2>1 DEF StorageInv, PointerInv
  <2>4. arrays'[p.arr][p.idx] \in {Slot(jobs.len), Slot(found), arrays[p.arr][p.idx]}
    BY <1>0, <2>2
  <2>5. arrays'[p.arr][p.idx].job \in JobIds
    BY <1>0, <2>3, <2>4
  <2> QED
    BY <1>0, <1>00, <1>3, <2>5 DEF RestKept
<1>4. ASSUME NEW a \in Adders, AppendItem(a)
      PROVE  /\ Len(arrays) <= Len(arrays') /\ Len(arrays'[p.arr]) = Len(arrays[p.arr])
             /\ arrays'[p.arr][p.idx].job \in JobIds
  <2>1. apc[a] = "append" /\ aitem[a] \in Items
    BY <1>4 DEF AppendItem, StorageInv, AdderType
  <2>2. jobs.len < MaxJobs /\ ArrayType
    BY <2>1, RoomForItem, MaxJobsAssumption DEF StorageInv, ArrayType
  <2>3. aitem[a].job \in JobIds
    BY <2>1, MaxJobsAssumption DEF StorageInv, NumberInv, Pending, TableType, JobIds
  <2>4. /\ Len(arrays') \in Len(arrays)..Len(arrays) + 1
        /\ Len(arrays'[p.arr]) = Len(arrays[p.arr])
        /\ arrays'[p.arr][p.idx] \in {arrays[p.arr][p.idx], aitem[a]}
    BY <1>0, <1>4, <2>1, <2>2, AppendEffect
  <2> QED
    BY <1>0, <1>00, <2>3, <2>4
<1> QED
    BY <1>2, <1>3, <1>4, SliceStep

(***************************************************************************)
(* The storage invariant                                                   *)
(***************************************************************************)

LEMMA StorageInit == Init => StorageInv
<1> SUFFICES ASSUME Init PROVE StorageInv
    OBVIOUS
<1>0. MaxJobs \in Nat /\ FirstCap \in Nat
    BY MaxJobsAssumption, FirstCapAssumption
<1>1. Empty \in Items /\ Empty.deleted = FALSE
    BY <1>0 DEF Empty, Items
<1>2. ArrayType
  <2>1. Fresh(FirstCap) \in Seq(Items) /\ Len(Fresh(FirstCap)) = FirstCap
    BY <1>0, <1>1 DEF Fresh
  <2> QED
    BY <1>0, <2>1 DEF Init, ArrayType
<1>3. TableType
    BY <1>0 DEF Init, TableType
<1>8. StopType
    BY DEF Init, StopType
<1>9. NoteType
  <2>1. added = {} /\ ignored = {} /\ crashes = 0
    BY DEF Init
  <2>2. disorder \in BOOLEAN
    BY Zenon DEF Init
  <2> QED
    BY <2>1, <2>2, QueueCrashAssumption DEF NoteType
<1>4. AdderType /\ WorkerType /\ CancelType
    BY <1>0, <1>1 DEF Init, AdderType, WorkerType, CancelType, JobIds, Holders
<1>5. PointerInv
    BY DEF Init, PointerInv
<1>6. TicketInv
  <2>1. Inserting = {}
    BY DEF Init, Inserting
  <2> QED
    BY <2>1, FS_EmptySet DEF Init, TicketInv
<1>7. NumberInv /\ RowInv
    BY <1>1 DEF Init, NumberInv, RowInv, Pending, Inserting
<1> QED
    BY <1>2, <1>3, <1>4, <1>5, <1>6, <1>7, <1>8, <1>9 DEF StorageInv

\* An adder that has no item yet has a key left for it, and a job that is in the
\* table.
LEMMA TicketLeft ==
    ASSUME StorageInv, NEW a \in Adders, apc[a] = "insert"
    PROVE  nextItem < nextJob /\ nextItem \in JobIds
<1>1. a \in Inserting /\ IsFiniteSet(Inserting)
    BY DEF Inserting, StorageInv, TicketInv
<1>2. Cardinality(Inserting) \in Nat /\ Cardinality(Inserting) # 0
    BY <1>1, FS_CardinalityType, FS_EmptySet
<1> QED
    BY <1>2, MaxJobsAssumption DEF StorageInv, TicketInv, TableType, JobIds

LEMMA PendingJob ==
    ASSUME StorageInv, NEW a \in Pending
    PROVE  aitem[a].job \in JobIds /\ aitem[a].job < nextJob
BY MaxJobsAssumption DEF StorageInv, NumberInv, TableType, JobIds

LEMMA TableStep == ASSUME StorageInv, [Next]_vars PROVE TableType'
<1>0. TableType /\ AdderType /\ MaxJobs \in Nat
    BY MaxJobsAssumption DEF StorageInv
<1>1. CASE UNCHANGED tableVars
    BY <1>0, <1>1 DEF TableType, tableVars
<1>2. ASSUME NEW a \in Adders, CreateJob(a)
      PROVE  TableType'
    BY <1>0, <1>2 DEF CreateJob, TableType
<1>3. ASSUME NEW a \in Adders, InsertItem(a)
      PROVE  TableType'
  <2>1. nextItem < nextJob /\ nextItem \in JobIds /\ aitem[a].job \in JobIds
    BY <1>3, TicketLeft, PendingJob DEF InsertItem, Pending
  <2> QED
    BY <1>0, <1>3, <2>1 DEF InsertItem, TableType
<1>4. ASSUME NEW a \in Adders, SavePosition(a)
      PROVE  TableType'
  <2>1. aitem[a].id \in 0..MaxJobs
    BY <1>0 DEF AdderType, Items
  <2>2. \A r \in rows : [r EXCEPT !.pos = aitem[a].id] \in [id : JobIds, job : JobIds, pos : 0..MaxJobs]
    BY <1>0, <2>1 DEF TableType
  <2>3. [aitem[a] EXCEPT !.pos = aitem[a].id].id = aitem[a].id
    BY <1>0 DEF AdderType, Items
  <2> QED
    BY <1>0, <1>4, <2>2, <2>3 DEF SavePosition, TableType
<1>5. CASE DeleteRow \/ \E c \in Cancellers : DeleteCancelledRow(c)
    BY <1>0, <1>5 DEF DeleteRow, DeleteCancelledRow, TableType
<1> QED
    BY <1>1, <1>2, <1>3, <1>4, <1>5, ChangesTable

LEMMA AdderStep == ASSUME StorageInv, [Next]_vars PROVE AdderType'
<1>0. TableType /\ AdderType /\ MaxJobs \in Nat
    BY MaxJobsAssumption DEF StorageInv
<1>1. CASE UNCHANGED addVars
    BY <1>0, <1>1 DEF AdderType, addVars
<1>2. CASE Restart
  <2>1. Empty \in Items
    BY <1>0 DEF Empty, Items
  <2> QED
    BY <1>2, <2>1 DEF Restart, AdderType
<1>3. ASSUME NEW a \in Adders, Add(a)
      PROVE  AdderType'
  <2>1. CASE CreateJob(a)
    <3>1. [Empty EXCEPT !.job = nextJob] \in Items
      <4>1. nextJob \in 0..MaxJobs
        BY <1>0, <2>1 DEF CreateJob, TableType
      <4>2. Empty \in Items
        BY <1>0 DEF Empty, Items
      <4> QED
        BY <4>1, <4>2 DEF Items
    <3> QED
      BY <1>0, <2>1, <3>1 DEF CreateJob, AdderType
  <2>2. CASE InsertItem(a)
    <3>1. nextItem \in 0..MaxJobs /\ aitem[a] \in Items
      BY <1>0, <2>2, TicketLeft DEF InsertItem, JobIds, AdderType
    <3>2. [aitem[a] EXCEPT !.id = nextItem] \in Items
      BY <3>1 DEF Items
    <3> QED
      BY <1>0, <2>2, <3>2 DEF InsertItem, AdderType
  <2>3. CASE SavePosition(a)
    <3>1. [aitem[a] EXCEPT !.pos = aitem[a].id] \in Items
      BY <1>0 DEF Items, AdderType
    <3> QED
      BY <1>0, <2>3, <3>1 DEF SavePosition, AdderType
  <2>4. CASE AppendItem(a)
    BY <1>0, <2>4 DEF AppendItem, AdderType
  <2>5. CASE ReplyPosition(a)
    <3>1. Empty \in Items
      BY <1>0 DEF Empty, Items
    <3> QED
      BY <1>0, <2>5, <3>1 DEF ReplyPosition, AdderType
  <2> QED
    BY <1>3, <2>1, <2>2, <2>3, <2>4, <2>5 DEF Add
<1> QED
    BY <1>1, <1>2, <1>3, ChangesAdders DEF AddStep

\* The slice shrinks only when the worker removes an item.
LEMMA LengthStep ==
    ASSUME StorageInv, [Next]_vars
    PROVE  jobs.len <= jobs'.len \/ found' = 0
<1>0. jobs.len \in Nat
    BY DEF StorageInv, ArrayType
<1>1. ASSUME NEW a \in Adders, AppendItem(a)
      PROVE  jobs'.len = jobs.len + 1
  <2>1. apc[a] = "append" /\ aitem[a] \in Items
    BY <1>1 DEF AppendItem, StorageInv, AdderType
  <2>2. jobs.len < MaxJobs /\ ArrayType
    BY <2>1, RoomForItem, MaxJobsAssumption DEF StorageInv, ArrayType
  <2> QED
    BY <1>1, <2>1, <2>2, AppendEffect
<1>2. RemoveFound \/ Restart => found' = 0
    BY DEF RemoveFound, Restart
<1> QED
    BY <1>0, <1>1, <1>2, SliceStep DEF Permuted

LEMMA WorkerStep == ASSUME StorageInv, [Next]_vars PROVE WorkerType'
<1>0. WorkerType /\ ArrayType /\ ArrayType' /\ MaxJobs \in Nat
    BY SliceStep, MaxJobsAssumption DEF StorageInv
<1>1. Empty \in Items
    BY <1>0 DEF Empty, Items
<1>2. jobs.len \in Nat /\ jobs'.len \in Nat /\ (jobs.len <= jobs'.len \/ found' = 0)
    BY <1>0, LengthStep DEF ArrayType
<1>3. None \notin JobIds
    BY NoneAssumption, MaxJobsAssumption DEF JobIds
<1>4. CASE UNCHANGED workVars
    BY <1>0, <1>2, <1>4 DEF WorkerType, workVars
<1>5. CASE Restart
    BY <1>0, <1>1, <1>2, <1>3, <1>5 DEF WorkerType, Restart
<1>6. CASE TakeFirst
  <2>1. item' = arrays'[jobs'.arr][1] /\ jobs'.len > 0
    BY <1>0, <1>6 DEF TakeFirst, ArrayType
  <2>2. item' \in Items
    BY <1>0, <2>1 DEF ArrayType
  <2> QED
    BY <1>0, <1>2, <1>6, <2>2 DEF WorkerType, TakeFirst
<1>7. CASE LoadItem
    BY <1>0, <1>7 DEF WorkerType, LoadItem
<1>8. CASE StartRun
  <2>1. At(ptr).job \in JobIds
    BY <1>8 DEF StartRun, StorageInv, PointerInv, Names
  <2> QED
    BY <1>0, <1>3, <1>8, <2>1 DEF WorkerType, StartRun
<1>9. CASE RunReturns
    BY <1>0, <1>3, <1>9 DEF WorkerType, RunReturns
<1>10. CASE DeleteRow
    BY <1>0, <1>10 DEF WorkerType, DeleteRow
<1>11. CASE FindRemoved
  <2>1. IndexOf(RemovalKey) \in 0..jobs.len
    BY <1>0, IndexOfFirst
  <2> QED
    BY <1>0, <1>11, <2>1 DEF WorkerType, FindRemoved
<1>12. CASE RemoveFound
  <2>1. item' \in Items /\ wpc' \in {"again", "panicked"} /\ wpc = "remove" /\ found' = 0
        /\ UNCHANGED <<running, runs, over>>
    BY <1>0, <1>1, <1>12 DEF WorkerType, RemoveFound
  <2> QED
    BY <1>0, <1>2, <2>1 DEF WorkerType
<1>13. CASE RunAgain
    BY <1>0, <1>13 DEF WorkerType, RunAgain
<1> QED
    BY <1>4, <1>5, <1>6, <1>7, <1>8, <1>9, <1>10, <1>11, <1>12, <1>13, ChangesWorker DEF Worker

LEMMA CancelStepType == ASSUME StorageInv, [Next]_vars PROVE CancelType'
<1>0. CancelType /\ ArrayType
    BY DEF StorageInv
<1>1. CASE UNCHANGED cancVars
    BY <1>0, <1>1 DEF CancelType, cancVars, Holders
<1>2. ASSUME NEW c \in Cancellers, Cancel(c)
      PROVE  CancelType'
  <2>1. CASE FindJob(c)
    <3>1. PICK id \in JobIds :
            /\ cid' = [cid EXCEPT ![c] = id]
            /\ cptr' = [cptr EXCEPT ![c] = [arr |-> jobs.arr, idx |-> IndexOf(id)]]
      BY <2>1 DEF FindJob
    <3>2. [arr |-> jobs.arr, idx |-> IndexOf(id)] \in [arr : Nat, idx : Nat]
      BY <1>0, IndexOfFirst DEF ArrayType
    <3>3. cptr' \in [Cancellers -> [arr : Nat, idx : Nat] \cup {None}]
      BY <1>0, <3>1, <3>2 DEF CancelType
    <3>4. cid' \in [Cancellers -> 0..MaxJobs]
      BY <1>0, <3>1, MaxJobsAssumption DEF CancelType, JobIds
    <3>5. /\ cpc' = [cpc EXCEPT ![c] = "cancel"] /\ cancelled' = cancelled
          /\ shifted' \subseteq shifted \cup {c} /\ strays' = strays
      BY <2>1 DEF FindJob
    <3> QED
      BY <1>0, <3>3, <3>4, <3>5 DEF CancelType, Holders
  <2>2. CASE CancelFound(c)
    <3>1. At(cptr[c]).job \in JobIds
      BY <2>2 DEF CancelFound, StorageInv, PointerInv, Names
    <3> QED
      BY <1>0, <2>2, <3>1 DEF CancelType, CancelFound, Holders
  <2>3. CASE MarkDeleted(c)
    <3>1. strays' \subseteq JobIds
      <4>1. At(cptr[c]).job \in JobIds
        BY <2>3 DEF MarkDeleted, StorageInv, PointerInv, Names
      <4> QED
        BY <1>0, <2>3, <4>1 DEF CancelType, MarkDeleted
    <3> QED
      BY <1>0, <2>3, <3>1 DEF CancelType, MarkDeleted, Holders
  <2>4. CASE DeleteCancelledRow(c)
    BY <1>0, <2>4, MaxJobsAssumption DEF CancelType, DeleteCancelledRow, Holders
  <2> QED
    BY <1>2, <2>1, <2>2, <2>3, <2>4 DEF Cancel
<1>3. CASE UseCurrent
  <2>1. \A p \in {sptr, currJob} : p # None => At(p).job \in JobIds
    BY DEF StorageInv, PointerInv, Names
  <2> QED
    BY <1>0, <1>3, <2>1 DEF CancelType, UseCurrent, CancelCurrent, Holders
<1>4. CASE RemoveFound
    BY <1>0, <1>4 DEF CancelType, RemoveFound, Holders
<1>5. CASE Restart
    BY <1>0, <1>5, MaxJobsAssumption DEF CancelType, Restart, Holders
<1> QED
    BY <1>1, <1>2, <1>3, <1>4, <1>5, ChangesCancels DEF CancelStep

LEMMA StopTypeStep == ASSUME StorageInv, [Next]_vars PROVE StopType'
<1>0. StopType
    BY DEF StorageInv
<1>1. token' \in BOOLEAN
  <2>1. RunAgain => token' \in BOOLEAN
    BY Zenon DEF RunAgain
  <2> QED
    BY <1>0, <2>1, ChangesStop DEF StopType, stopVars, Shutdown, SendToken, TestCurrent,
       UseCurrent, Exit, StartRun, FindRemoved, Restart
<1>2. spc' \in {"up", "test", "use", "exit", "down", "panicked"}
    BY <1>0, ChangesStop DEF StopType, stopVars, Shutdown, SendToken, TestCurrent, UseCurrent,
       Exit, StartRun, FindRemoved, RunAgain, Restart
<1>3. lateRuns' \in Nat
  <2>1. StartRun => lateRuns' \in Nat
    BY <1>0 DEF StartRun, StopType
  <2>2. FindRemoved \/ RunAgain => lateRuns' = lateRuns
    BY DEF FindRemoved, RunAgain
  <2>3. Restart => lateRuns' = 0
    BY DEF Restart
  <2>4. Shutdown => lateRuns' = lateRuns
    BY DEF Shutdown, SendToken, TestCurrent, UseCurrent, Exit
  <2> QED
    BY <1>0, <2>1, <2>2, <2>3, <2>4, ChangesStop DEF StopType, stopVars
<1> QED
    BY <1>1, <1>2, <1>3 DEF StopType

LEMMA NoteStep == ASSUME StorageInv, [Next]_vars PROVE NoteType'
<1>0. NoteType
    BY DEF StorageInv
<1>1. CASE UNCHANGED noteVars
    BY <1>0, <1>1 DEF NoteType, noteVars
<1>2. ASSUME NEW a \in Adders, AppendItem(a)
      PROVE  NoteType'
  <2>1. aitem[a].job \in JobIds
    BY <1>2, PendingJob DEF AppendItem, Pending
  <2>2. disorder' \in BOOLEAN
    BY <1>0, <1>2, Zenon DEF NoteType, AppendItem
  <2> QED
    BY <1>0, <1>2, <2>1, <2>2 DEF NoteType, AppendItem
<1>3. CASE Restart
  <2>1. PICK leftOut \in SUBSET {r \in rows : Ended(r)} :
            /\ ignored' = {r.job : r \in leftOut}
            /\ added' = added \cup {r.job : r \in rows \ leftOut}
            /\ disorder' = (disorder \/ \E r \in rows \ leftOut : r.id # r.job \/ r.pos # r.id)
    BY <1>3, RestartEffect
  <2>2. \A r \in rows : r.job \in JobIds
    BY DEF StorageInv, TableType
  <2>3. disorder' \in BOOLEAN
    BY <1>0, <2>1, Zenon DEF NoteType
  <2>4. crashes' \in 0..MaxCrashes
    BY <1>0, <1>3, QueueCrashAssumption DEF NoteType, Restart
  <2> QED
    BY <1>0, <2>1, <2>2, <2>3, <2>4 DEF NoteType
<1> QED
    BY <1>1, <1>2, <1>3, ChangesNotes

\* The slice of a restarted server holds the rows that were not left out, each
\* in one slot.
Loads(f) ==
    /\ f \in [1..jobs'.len -> rows]
    /\ \A i, k \in 1..jobs'.len : f[i] = f[k] => i = k
    /\ \A i \in 1..jobs'.len :
        /\ Slot(i)'.job = f[i].job /\ Slot(i)'.id = f[i].id /\ Slot(i)'.pos = f[i].pos
        /\ Slot(i)'.deleted = FALSE
        /\ f[i].job \notin ignored /\ f[i].job \notin ignored'
        /\ ~disorder' => f[i].id = f[i].job /\ f[i].pos = f[i].job
    /\ \A r \in rows : r.job \in ignored' \/ \E i \in 1..jobs'.len : f[i] = r
    /\ added' = added \cup {f[i].job : i \in 1..jobs'.len}

\* A restart loads its rows so; the jobs it ignores have rows.
LEMMA RestartSlots ==
    ASSUME StorageInv, Restart
    PROVE  /\ \E f : Loads(f)
           /\ \A j \in ignored' : \E r \in rows : r.job = j
<1>1. PICK leftOut \in SUBSET {r \in rows : Ended(r)} :
        /\ \A r \in rows \ leftOut : r.job \notin ignored
        /\ ignored' = {r.job : r \in leftOut}
        /\ added' = added \cup {r.job : r \in rows \ leftOut}
        /\ disorder' = (disorder \/ \E r \in rows \ leftOut : r.id # r.job \/ r.pos # r.id)
        /\ \E f \in [1..jobs'.len -> rows \ leftOut] :
            /\ \A i, k \in 1..jobs'.len : f[i] = f[k] => i = k
            /\ \A r \in rows \ leftOut : \E i \in 1..jobs'.len : f[i] = r
            /\ \A i \in 1..jobs'.len :
                arrays'[1][i] = [id |-> f[i].id, job |-> f[i].job, pos |-> f[i].pos, deleted |-> FALSE]
    BY RestartEffect, Zenon
<1>2. PICK f \in [1..jobs'.len -> rows \ leftOut] :
            /\ \A i, k \in 1..jobs'.len : f[i] = f[k] => i = k
            /\ \A r \in rows \ leftOut : \E i \in 1..jobs'.len : f[i] = r
            /\ \A i \in 1..jobs'.len :
                arrays'[1][i] = [id |-> f[i].id, job |-> f[i].job, pos |-> f[i].pos, deleted |-> FALSE]
    BY <1>1
<1>3. jobs'.arr = 1
    BY RestartEffect
<1>4. f \in [1..jobs'.len -> rows] /\ \A i \in 1..jobs'.len : f[i] \in rows \ leftOut
    OBVIOUS
<1>5. ASSUME NEW i \in 1..jobs'.len
      PROVE  /\ Slot(i)'.job = f[i].job /\ Slot(i)'.id = f[i].id /\ Slot(i)'.pos = f[i].pos
             /\ Slot(i)'.deleted = FALSE
             /\ f[i].job \notin ignored /\ f[i].job \notin ignored'
             /\ ~disorder' => f[i].id = f[i].job /\ f[i].pos = f[i].job
  <2>1. Slot(i)' = [id |-> f[i].id, job |-> f[i].job, pos |-> f[i].pos, deleted |-> FALSE]
    BY <1>2, <1>3, Zenon DEF Slot
  <2>2. f[i].job \notin ignored
    BY <1>1, <1>4
  <2>3. f[i].job \notin ignored'
    BY <1>1, <1>4 DEF StorageInv, RowInv
  <2>4. ~disorder' => f[i].id = f[i].job /\ f[i].pos = f[i].id
    BY <1>1, <1>4, Zenon
  <2> QED
    BY <2>1, <2>2, <2>3, <2>4
<1>6. \A r \in rows : r.job \in ignored' \/ \E i \in 1..jobs'.len : f[i] = r
    BY <1>1, <1>2
<1>7. added' = added \cup {f[i].job : i \in 1..jobs'.len}
  <2>1. {r.job : r \in rows \ leftOut} = {f[i].job : i \in 1..jobs'.len}
    BY <1>2, <1>4
  <2> QED
    BY <1>1, <2>1
<1>8. \A j \in ignored' : \E r \in rows : r.job = j
    BY <1>1
<1>9. Loads(f)
    BY <1>2, <1>4, <1>5, <1>6, <1>7, Zenon DEF Loads
<1> QED
    BY <1>8, <1>9, Zenon

\* A slot of the slice is one a pointer may name.
LEMMA SlotNames ==
    ASSUME StorageInv, NEW i \in 1..jobs.len
    PROVE  /\ Names([arr |-> jobs.arr, idx |-> i])
           /\ [arr |-> jobs.arr, idx |-> i] # None
<1>1. jobs.len <= MaxJobs
  <2> DEFINE f == [k \in 1..jobs.len |-> Slot(k).job]
  <2>1. f \in [1..jobs.len -> 1..MaxJobs]
    BY DEF StorageInv, PointerInv, JobIds
  <2>2. \A k, l \in 1..jobs.len : f[k] = f[l] => k = l
    BY DEF StorageInv, NumberInv
  <2>3. jobs.len \in Nat /\ MaxJobs \in Nat
    BY MaxJobsAssumption DEF StorageInv, ArrayType
  <2> HIDE DEF f
  <2> QED
    BY <2>1, <2>2, <2>3, DistinctBound
<1>2. /\ jobs.arr \in 1..Len(arrays) /\ jobs.len \in 0..Len(arrays[jobs.arr])
      /\ jobs \in [arr : Nat, len : Nat]
    BY DEF StorageInv, ArrayType
<1>3. i \in 1..MaxJobs /\ i <= Len(arrays[jobs.arr])
    BY <1>1, <1>2, MaxJobsAssumption
<1>4. Slot(i).job \in JobIds
    BY DEF StorageInv, PointerInv
<1>5. Names([arr |-> jobs.arr, idx |-> i])
    BY <1>2, <1>3, <1>4 DEF Names, Pointers, At, Slot
<1>6. [arr |-> jobs.arr, idx |-> i] \in [arr : Nat, idx : Nat]
    BY <1>2
<1> QED
    BY <1>5, <1>6, NoneAssumption

\* The jobs of the slice after a step other than a restart.
LEMMA SliceJobs ==
    ASSUME StorageInv, [Next]_vars, ~Restart, NEW i \in 1..jobs'.len
    PROVE  \/ \E k \in 1..jobs.len : Slot(i)'.job = Slot(k).job
           \/ \E a \in Adders : AppendItem(a) /\ Slot(i)' = aitem[a]
<1>0. ArrayType /\ jobs.len \in Nat /\ jobs'.len \in Nat
    BY SliceStep DEF StorageInv, ArrayType
<1>1. CASE Permuted
  <2>1. PICK p \in [1..jobs.len -> 1..jobs.len] :
            \A k \in 1..jobs.len : arrays'[jobs.arr][k].job = Slot(p[k]).job
    BY <1>1 DEF Permuted
  <2>2. jobs' = jobs
    BY <1>1 DEF Permuted
  <2>3. p[i] \in 1..jobs.len /\ Slot(i)'.job = Slot(p[i]).job
    BY <2>1, <2>2 DEF Slot
  <2> QED
    BY <2>3
<1>2. CASE Cut
  <2>1. i \in 1..jobs.len - 1 /\ jobs'.arr = jobs.arr
    BY <1>0, <1>2 DEF Cut
  <2>2. Slot(i)' = Slot(IF i = found THEN jobs.len ELSE i)
    BY <1>2, <2>1 DEF Cut, Slot
  <2> QED
    BY <1>0, <2>1, <2>2
<1>3. ASSUME NEW a \in Adders, AppendItem(a)
      PROVE  \/ \E k \in 1..jobs.len : Slot(i)'.job = Slot(k).job
             \/ Slot(i)' = aitem[a]
  <2>1. apc[a] = "append" /\ aitem[a] \in Items
    BY <1>3 DEF AppendItem, StorageInv, AdderType
  <2>2. jobs.len < MaxJobs
    BY <1>0, <2>1, RoomForItem, MaxJobsAssumption
  <2>3. /\ jobs'.len = jobs.len + 1
        /\ \A k \in 1..jobs.len : arrays'[jobs'.arr][k] = Slot(k)
        /\ arrays'[jobs'.arr][jobs.len + 1] = aitem[a]
    BY <1>0, <1>3, <2>1, <2>2, AppendEffect
  <2> QED
    BY <1>0, <2>3 DEF Slot
<1> QED
    BY <1>1, <1>2, <1>3, SliceStep

LEMMA PointerStep == ASSUME StorageInv, [Next]_vars PROVE PointerInv'
<1>1. CASE Restart
  <2>4. \A i \in 1..jobs'.len : Slot(i)'.job \in JobIds
    <3>1. \A r \in rows : r.job \in JobIds
      BY DEF StorageInv, TableType
    <3>2. PICK f : Loads(f)
      BY <1>1, RestartSlots
    <3> QED
      BY <3>1, <3>2 DEF Loads
  <2>5. /\ ptr' = None /\ currJob' = None /\ sptr' = None /\ wpc' = "idle"
        /\ \A c \in Cancellers : cpc'[c] \in {"idle", "done"}
    BY <1>1 DEF Restart
  <2> QED
    BY <2>4, <2>5 DEF PointerInv
<1>2. CASE ~Restart
  <2>0. PointerInv /\ StorageInv
    BY DEF StorageInv
  <2>1. ptr' = None <=> wpc' \in {"idle", "again", "stopped"}
    <3>1. TakeFirst => ptr' # None /\ wpc' = "load"
      <4>1. jobs.len > 0 => 1 \in 1..jobs.len
        BY DEF StorageInv, ArrayType
      <4> QED
        BY <4>1, SlotNames DEF TakeFirst
    <3>2. RemoveFound => wpc = "remove" /\ (\/ ptr' = None /\ wpc' = "again"
                                            \/ ptr' = ptr /\ wpc' = "panicked")
      BY DEF RemoveFound
    <3>3. CASE UNCHANGED workVars
      BY <2>0, <3>3 DEF workVars, PointerInv
    <3>4. LoadItem \/ StartRun \/ RunReturns \/ DeleteRow \/ FindRemoved
            => wpc \notin {"idle", "again", "stopped"} /\ wpc' \notin {"idle", "again", "stopped"}
               /\ ptr' = ptr
      BY DEF LoadItem, StartRun, RunReturns, DeleteRow, FindRemoved
    <3>5. RunAgain => wpc = "again" /\ wpc' \in {"idle", "stopped"} /\ ptr' = ptr
      BY DEF RunAgain
    <3> QED
      BY <1>2, <2>0, <3>1, <3>2, <3>3, <3>4, <3>5, ChangesWorker DEF Worker, PointerInv
  <2>2. currJob' # None => wpc' \in {"running", "delete", "find", "remove", "again", "panicked"}
    <3>1. CASE UNCHANGED workVars
      <4>1. currJob' = currJob
        BY <1>2, <2>0, <3>1, ChangesStop DEF workVars, stopVars, Shutdown, SendToken, TestCurrent,
           UseCurrent, Exit, StartRun, FindRemoved, RunAgain
      <4> QED
        BY <2>0, <3>1, <4>1 DEF workVars, PointerInv
    <3>2. CASE Worker
      <4>1. TakeFirst \/ LoadItem => currJob' = currJob /\ wpc \in {"idle", "load"}
        BY DEF TakeFirst, LoadItem, stopVars
      <4>2. StartRun => wpc' = "running"
        BY DEF StartRun
      <4>3. RunReturns \/ DeleteRow \/ FindRemoved \/ RemoveFound
                => wpc' \in {"delete", "find", "remove", "again", "panicked"}
        BY DEF RunReturns, DeleteRow, FindRemoved, RemoveFound
      <4>4. RunAgain => currJob' = None
        BY DEF RunAgain
      <4> QED
        BY <2>0, <3>2, <4>1, <4>2, <4>3, <4>4 DEF Worker, PointerInv
    <3> QED
      BY <1>2, <3>1, <3>2, ChangesWorker
  <2>3. ASSUME NEW i \in 1..jobs'.len
        PROVE  Slot(i)'.job \in JobIds
    <3>1. \A k \in 1..jobs.len : Slot(k).job \in JobIds
      BY <2>0 DEF PointerInv
    <3>2. \A a \in Adders : AppendItem(a) => aitem[a].job \in JobIds
      BY PendingJob DEF AppendItem, Pending
    <3> QED
      BY <1>2, <3>1, <3>2, SliceJobs
  <2>4. \A p \in {ptr', currJob', sptr'} : p # None => Names(p)
    <3>1. ptr' # None => Names(ptr')
      <4>1. TakeFirst => Names(ptr')
        <5>1. jobs.len > 0 => 1 \in 1..jobs.len
          BY DEF StorageInv, ArrayType
        <5> QED
          BY <5>1, SlotNames DEF TakeFirst
      <4>2. ptr' \in {ptr, None} \/ TakeFirst
        BY <1>2, ChangesWorker DEF workVars, Worker, LoadItem, StartRun, RunReturns, DeleteRow,
           FindRemoved, RemoveFound, RunAgain
      <4> QED
        BY <2>0, <4>1, <4>2 DEF PointerInv
    <3>2. currJob' \in {currJob, ptr, None}
      BY <1>2, ChangesStop DEF stopVars, Shutdown, SendToken, TestCurrent, UseCurrent, Exit,
         StartRun, FindRemoved, ClearedCurrent, RunAgain
    <3>3. sptr' \in {sptr, currJob, None}
      BY <1>2, ChangesStop DEF stopVars, Shutdown, SendToken, TestCurrent, UseCurrent, Exit,
         StartRun, FindRemoved, RunAgain
    <3> QED
      BY <2>0, <3>1, <3>2, <3>3 DEF PointerInv
  <2>5. ASSUME NEW c \in Cancellers, cpc'[c] \in {"cancel", "mark", "row"}
        PROVE  Names(cptr'[c])
    <3>0. cpc \in [Cancellers -> {"idle", "cancel", "mark", "row", "done"}]
          /\ cptr \in [Cancellers -> [arr : Nat, idx : Nat] \cup {None}]
      BY DEF StorageInv, CancelType
    <3>1. CASE cptr'[c] = cptr[c] /\ cpc[c] \in {"cancel", "mark", "row"}
      BY <2>0, <3>1 DEF PointerInv
    <3>2. CASE FindJob(c)
      <4>1. PICK id \in JobIds : IndexOf(id) # 0
                /\ cptr' = [cptr EXCEPT ![c] = [arr |-> jobs.arr, idx |-> IndexOf(id)]]
        BY <3>2 DEF FindJob
      <4>2. IndexOf(id) \in 1..jobs.len
        BY <4>1, IndexOfFirst DEF StorageInv, ArrayType
      <4> QED
        BY <3>0, <4>1, <4>2, SlotNames
    <3>3. \A d \in Cancellers : Cancel(d) =>
            FindJob(c) \/ (cptr'[c] = cptr[c] /\ cpc[c] \in {"cancel", "mark", "row"})
      <4> TAKE d \in Cancellers
      <4> HAVE Cancel(d)
      <4>1. CASE FindJob(d)
        BY <2>5, <3>0, <4>1 DEF FindJob
      <4>2. CASE CancelFound(d)
        BY <2>5, <3>0, <4>2 DEF CancelFound
      <4>3. CASE MarkDeleted(d)
        BY <2>5, <3>0, <4>3 DEF MarkDeleted
      <4>4. CASE DeleteCancelledRow(d)
        BY <2>5, <3>0, <4>4 DEF DeleteCancelledRow
      <4> QED
        BY <4>1, <4>2, <4>3, <4>4 DEF Cancel
    <3>4. UNCHANGED cancVars \/ UseCurrent \/ RemoveFound => cptr' = cptr /\ cpc' = cpc
      BY DEF cancVars, UseCurrent, RemoveFound
    <3> QED
      BY <1>2, <2>5, <3>1, <3>2, <3>3, <3>4, ChangesCancels DEF CancelStep
  <2>6. \A p \in {ptr', currJob', sptr'} : p # None => Names(p)'
    BY <1>2, <2>4, NamesKept
  <2>7. \A c \in Cancellers : cpc'[c] \in {"cancel", "mark", "row"} => Names(cptr[c])'
    BY <1>2, <2>5, NamesKept
  <2> QED
    BY <2>1, <2>2, <2>3, <2>6, <2>7 DEF PointerInv
<1> QED
    BY <1>1, <1>2

\* Only CreateJob adds to the adders whose item has no row yet.
LEMMA TicketStep == ASSUME StorageInv, [Next]_vars PROVE TicketInv'
<1>0. /\ IsFiniteSet(Inserting) /\ Cardinality(Inserting) \in Nat
      /\ nextItem + Cardinality(Inserting) <= nextJob
      /\ nextItem \in Nat /\ nextJob \in Nat
    BY FS_CardinalityType, MaxJobsAssumption DEF StorageInv, TicketInv, TableType
<1>00. apc \in [Adders -> {"idle", "insert", "position", "append", "reply"}]
    BY DEF StorageInv, AdderType
<1>1. CASE Restart
  <2>1. Inserting' = {} /\ nextItem' = nextItem /\ nextJob' = nextJob
    BY <1>1 DEF Restart, Inserting, tableVars
  <2> QED
    BY <1>0, <2>1, FS_EmptySet DEF TicketInv
<1>2. CASE UNCHANGED addVars
  <2>1. Inserting' = Inserting
    BY <1>2 DEF addVars, Inserting
  <2>2. nextItem' = nextItem /\ nextJob' = nextJob
    <3>1. \A a \in Adders : ~CreateJob(a) /\ ~InsertItem(a) /\ ~SavePosition(a)
      BY <1>2, <1>00 DEF addVars, CreateJob, InsertItem, SavePosition
    <3> QED
      BY <3>1, ChangesTable DEF tableVars, DeleteRow, DeleteCancelledRow
  <2> QED
    BY <1>0, <2>1, <2>2 DEF TicketInv
<1>3. ASSUME NEW a \in Adders, Add(a)
      PROVE  TicketInv'
  <2>1. CASE CreateJob(a)
    <3>1. Inserting' = Inserting \cup {a} /\ a \notin Inserting
      BY <1>00, <2>1 DEF CreateJob, Inserting
    <3>2. nextItem' = nextItem /\ nextJob' = nextJob + 1
      BY <2>1 DEF CreateJob
    <3>3. IsFiniteSet(Inserting') /\ Cardinality(Inserting') = Cardinality(Inserting) + 1
      BY <1>0, <3>1, FS_AddElement
    <3> QED
      BY <1>0, <3>2, <3>3 DEF TicketInv
  <2>2. CASE InsertItem(a)
    <3>1. Inserting' = Inserting \ {a} /\ a \in Inserting
      BY <1>00, <2>2 DEF InsertItem, Inserting
    <3>2. nextItem' \in {nextItem, nextItem + 1} /\ nextJob' = nextJob
      BY <2>2 DEF InsertItem
    <3>3. IsFiniteSet(Inserting') /\ Cardinality(Inserting') = Cardinality(Inserting) - 1
      BY <1>0, <3>1, FS_RemoveElement
    <3> QED
      BY <1>0, <3>2, <3>3 DEF TicketInv
  <2>3. CASE SavePosition(a) \/ AppendItem(a) \/ ReplyPosition(a)
    <3>1. Inserting' = Inserting /\ nextItem' = nextItem /\ nextJob' = nextJob
      BY <1>00, <2>3 DEF SavePosition, AppendItem, ReplyPosition, Inserting, tableVars
    <3> QED
      BY <1>0, <3>1 DEF TicketInv
  <2> QED
    BY <1>3, <2>1, <2>2, <2>3 DEF Add
<1> QED
    BY <1>1, <1>2, <1>3, ChangesAdders DEF AddStep

\* The adders that still hold an item after a step held it before, but for the
\* one that creates a job.
LEMMA PendingKept ==
    ASSUME StorageInv, [Next]_vars, NEW a \in Pending'
    PROVE  \/ a \in Pending /\ aitem'[a].job = aitem[a].job /\ ~AppendItem(a)
           \/ CreateJob(a) /\ a \notin Pending /\ aitem'[a].job = nextJob
<1>0. /\ apc \in [Adders -> {"idle", "insert", "position", "append", "reply"}]
      /\ aitem \in [Adders -> Items]
    BY DEF StorageInv, AdderType
<1>1. a \in Adders /\ apc'[a] \in {"insert", "position", "append"}
    BY DEF Pending
<1>2. ASSUME NEW b \in Adders, Add(b)
      PROVE  \/ a \in Pending /\ aitem'[a].job = aitem[a].job /\ ~AppendItem(a)
             \/ CreateJob(a) /\ a \notin Pending /\ aitem'[a].job = nextJob
  <2>1. CASE CreateJob(b)
    <3>1. [Empty EXCEPT !.job = nextJob].job = nextJob
      BY DEF Empty
    <3> QED
      BY <1>0, <1>1, <2>1, <3>1 DEF CreateJob, Pending, AppendItem
  <2>2. CASE InsertItem(b)
    <3>1. [aitem[b] EXCEPT !.id = nextItem].job = aitem[b].job
      BY <1>0 DEF Items
    <3> QED
      BY <1>0, <1>1, <2>2, <3>1 DEF InsertItem, Pending, AppendItem
  <2>3. CASE SavePosition(b)
    <3>1. [aitem[b] EXCEPT !.pos = aitem[b].id].job = aitem[b].job
      BY <1>0 DEF Items
    <3> QED
      BY <1>0, <1>1, <2>3, <3>1 DEF SavePosition, Pending, AppendItem
  <2>4. CASE AppendItem(b)
    BY <1>0, <1>1, <2>4 DEF AppendItem, Pending
  <2>5. CASE ReplyPosition(b)
    BY <1>0, <1>1, <2>5 DEF ReplyPosition, Pending, AppendItem
  <2> QED
    BY <1>2, <2>1, <2>2, <2>3, <2>4, <2>5 DEF Add
<1>3. CASE UNCHANGED addVars
  <2>1. ~AppendItem(a)
    BY <1>0, <1>1, <1>3 DEF AppendItem, addVars
  <2> QED
    BY <1>1, <1>3, <2>1 DEF addVars, Pending
<1>4. CASE Restart
    BY <1>1, <1>4 DEF Restart
<1> QED
    BY <1>2, <1>3, <1>4, ChangesAdders DEF AddStep

\* Job numbers only grow.
LEMMA NumbersGrow ==
    ASSUME StorageInv, [Next]_vars
    PROVE  /\ nextJob \in Nat /\ nextJob' \in Nat /\ nextJob <= nextJob'
           /\ \A a \in Adders : CreateJob(a) => nextJob' = nextJob + 1
<1>1. nextJob \in Nat /\ nextJob' \in Nat
    BY TableStep, MaxJobsAssumption DEF StorageInv, TableType
<1>2. \A a \in Adders : CreateJob(a) => nextJob' = nextJob + 1
    BY DEF CreateJob
<1>3. nextJob' = nextJob \/ \E a \in Adders : CreateJob(a)
    BY ChangesTable DEF tableVars, InsertItem, SavePosition, DeleteRow, DeleteCancelledRow
<1> QED
    BY <1>1, <1>2, <1>3

LEMMA NumberStep == ASSUME StorageInv, [Next]_vars PROVE NumberInv'
<1>0. NumberInv /\ ArrayType /\ ArrayType' /\ nextJob \in Nat /\ nextJob' \in Nat
      /\ jobs.len \in Nat /\ jobs'.len \in Nat
      /\ PointerInv /\ PointerInv' /\ nextJob <= nextJob'
    BY SliceStep, NumbersGrow, PointerStep DEF StorageInv, ArrayType
<1>1. \A i \in 1..jobs.len : Slot(i).job \in Nat
    BY <1>0, MaxJobsAssumption DEF PointerInv, JobIds
<1>2. \A a \in Pending' : aitem'[a].job \in 1..nextJob' - 1
  <2> TAKE a \in Pending'
  <2>1. CASE a \in Pending /\ aitem'[a].job = aitem[a].job
    BY <1>0, <2>1 DEF NumberInv
  <2>2. CASE CreateJob(a) /\ aitem'[a].job = nextJob
    <3>1. nextJob \in 1..nextJob' - 1
      <4>1. nextJob' = nextJob + 1 /\ nextJob >= 1
        BY <2>2, MaxJobsAssumption DEF CreateJob, StorageInv, TableType
      <4> QED
        BY <1>0, <4>1
    <3> QED
      BY <2>2, <3>1
  <2> QED
    BY <2>1, <2>2, PendingKept
<1>3. \A a, b \in Pending' : aitem'[a].job = aitem'[b].job => a = b
  <2> TAKE a, b \in Pending'
  <2> HAVE aitem'[a].job = aitem'[b].job
  <2>1. \A d \in Pending : aitem[d].job \in Nat /\ aitem[d].job # nextJob
    BY <1>0 DEF NumberInv
  <2>2. CASE a \in Pending /\ b \in Pending
    BY <1>0, <2>2, PendingKept DEF NumberInv
  <2>3. CASE CreateJob(a) /\ CreateJob(b)
    <3>1. apc \in [Adders -> {"idle", "insert", "position", "append", "reply"}]
      BY DEF StorageInv, AdderType
    <3>2. a \in Adders /\ b \in Adders /\ apc[b] = "idle" /\ apc'[b] = "insert"
      BY <2>3 DEF CreateJob, Pending
    <3> QED
      BY <2>3, <3>1, <3>2 DEF CreateJob
  <2> QED
    BY <2>1, <2>2, <2>3, PendingKept
<1>4. \A a \in Adders : ~aitem'[a].deleted
  <2> TAKE a \in Adders
  <2>0. /\ apc \in [Adders -> {"idle", "insert", "position", "append", "reply"}]
        /\ aitem \in [Adders -> Items] /\ ~aitem[a].deleted
    BY <1>0 DEF StorageInv, AdderType, NumberInv
  <2>1. Empty.deleted = FALSE /\ \A j : [Empty EXCEPT !.job = j].deleted = FALSE
    BY DEF Empty
  <2>2. aitem'[a].deleted = aitem[a].deleted \/ aitem'[a].deleted = FALSE
    <3>1. CASE UNCHANGED addVars
      BY <3>1 DEF addVars
    <3>2. CASE Restart
      BY <2>1, <3>2 DEF Restart
    <3>3. ASSUME NEW b \in Adders, Add(b)
          PROVE  aitem'[a].deleted = aitem[a].deleted \/ aitem'[a].deleted = FALSE
      <4>1. CASE CreateJob(b)
        BY <2>0, <2>1, <4>1 DEF CreateJob
      <4>2. CASE InsertItem(b)
        <5>1. [aitem[b] EXCEPT !.id = nextItem].deleted = aitem[b].deleted
          BY <2>0 DEF Items
        <5> QED
          BY <2>0, <4>2, <5>1 DEF InsertItem
      <4>3. CASE SavePosition(b)
        <5>1. [aitem[b] EXCEPT !.pos = aitem[b].id].deleted = aitem[b].deleted
          BY <2>0 DEF Items
        <5> QED
          BY <2>0, <4>3, <5>1 DEF SavePosition
      <4>4. CASE AppendItem(b)
        BY <4>4 DEF AppendItem
      <4>5. CASE ReplyPosition(b)
        BY <2>0, <2>1, <4>5 DEF ReplyPosition
      <4> QED
        BY <3>3, <4>1, <4>2, <4>3, <4>4, <4>5 DEF Add
    <3> QED
      BY <3>1, <3>2, <3>3, ChangesAdders DEF AddStep
  <2> QED
    BY <2>0, <2>2, Zenon
<1>5. \A i \in 1..jobs'.len : Slot(i)'.job < nextJob'
  <2>1. CASE Restart
    <3>1. nextJob' = nextJob /\ \A r \in rows : r.job < nextJob
      BY <2>1 DEF Restart, tableVars, StorageInv, RowInv
    <3>2. PICK f : Loads(f)
      BY <2>1, RestartSlots
    <3> QED
      BY <3>1, <3>2 DEF Loads
  <2>2. CASE ~Restart
    <3> TAKE i \in 1..jobs'.len
    <3>1. \A a \in Adders : AppendItem(a) => aitem[a].job < nextJob
      BY PendingJob DEF AppendItem, Pending
    <3>2. \A a \in Adders : AppendItem(a) => aitem[a].job \in Nat
      BY PendingJob, MaxJobsAssumption DEF AppendItem, Pending, JobIds
    <3>3. Slot(i)'.job < nextJob /\ Slot(i)'.job \in Nat
      BY <1>0, <1>1, <2>2, <3>1, <3>2, SliceJobs DEF NumberInv
    <3> QED
      BY <1>0, <3>3
  <2> QED
    BY <2>1, <2>2
<1>6. \A i, k \in 1..jobs'.len : Slot(i)'.job = Slot(k)'.job => i = k
  <2> TAKE i, k \in 1..jobs'.len
  <2>0. \A m, l \in 1..jobs.len : Slot(m).job = Slot(l).job => m = l
    BY <1>0 DEF NumberInv
  <2>1. CASE Permuted
    <3>1. PICK p \in [1..jobs.len -> 1..jobs.len] :
            /\ \A m, l \in 1..jobs.len : p[m] = p[l] => m = l
            /\ \A m \in 1..jobs.len : arrays'[jobs.arr][m].job = Slot(p[m]).job
      BY <2>1 DEF Permuted
    <3>2. jobs' = jobs
      BY <2>1 DEF Permuted
    <3>3. /\ p[i] \in 1..jobs.len /\ p[k] \in 1..jobs.len
          /\ Slot(i)'.job = Slot(p[i]).job /\ Slot(k)'.job = Slot(p[k]).job
          /\ p[i] = p[k] => i = k
      BY <3>1, <3>2 DEF Slot
    <3> QED
      BY <2>0, <3>3
  <2>2. CASE Cut
    <3> DEFINE g(m) == IF m = found THEN jobs.len ELSE m
    <3>1. i \in 1..jobs.len - 1 /\ k \in 1..jobs.len - 1 /\ jobs'.arr = jobs.arr
      BY <1>0, <2>2 DEF Cut
    <3>2. Slot(i)' = Slot(g(i)) /\ Slot(k)' = Slot(g(k))
      BY <2>2, <3>1 DEF Cut, Slot
    <3>3. g(i) \in 1..jobs.len /\ g(k) \in 1..jobs.len /\ (g(i) = g(k) => i = k)
      BY <1>0, <3>1
    <3> HIDE DEF g
    <3> QED
      BY <2>0, <3>2, <3>3
  <2>3. ASSUME NEW a \in Adders, AppendItem(a)
        PROVE  Slot(i)'.job = Slot(k)'.job => i = k
    <3>1. apc[a] = "append" /\ aitem[a] \in Items /\ a \in Pending
      BY <2>3 DEF AppendItem, StorageInv, AdderType, Pending
    <3>2. jobs.len < MaxJobs
      BY <1>0, <3>1, RoomForItem, MaxJobsAssumption
    <3>3. /\ jobs'.len = jobs.len + 1
          /\ \A m \in 1..jobs.len : arrays'[jobs'.arr][m] = Slot(m)
          /\ arrays'[jobs'.arr][jobs.len + 1] = aitem[a]
      BY <1>0, <2>3, <3>1, <3>2, AppendEffect
    <3>4. \A m \in 1..jobs.len : Slot(m).job # aitem[a].job
      BY <1>0, <3>1 DEF NumberInv
    <3>5. Slot(i)' = (IF i = jobs.len + 1 THEN aitem[a] ELSE Slot(i))
          /\ Slot(k)' = (IF k = jobs.len + 1 THEN aitem[a] ELSE Slot(k))
      BY <1>0, <3>3 DEF Slot
    <3> QED
      BY <1>0, <2>0, <3>3, <3>4, <3>5
  <2>4. CASE Restart
    <3>1. PICK f : Loads(f)
      BY <2>4, RestartSlots
    <3>2. Slot(i)'.job = f[i].job /\ Slot(k)'.job = f[k].job /\ f[i] \in rows /\ f[k] \in rows
          /\ (f[i] = f[k] => i = k)
      BY <3>1 DEF Loads
    <3> QED
      BY <3>2 DEF StorageInv, RowInv
  <2> QED
    BY <2>1, <2>2, <2>3, <2>4, SliceStep
<1>7. \A a \in Pending' : \A i \in 1..jobs'.len : Slot(i)'.job # aitem'[a].job
  <2>1. CASE Restart
    <3>1. Pending' = {}
      BY <2>1 DEF Restart, Pending
    <3> QED
      BY <3>1
  <2>2. CASE ~Restart
    <3> TAKE a \in Pending'
    <3> TAKE i \in 1..jobs'.len
    <3>1. CASE CreateJob(a) /\ aitem'[a].job = nextJob
      <4>1. \A b \in Adders : AppendItem(b) => aitem[b].job < nextJob /\ aitem[b].job \in Nat
        BY PendingJob, MaxJobsAssumption DEF AppendItem, Pending, JobIds
      <4>2. Slot(i)'.job < nextJob /\ Slot(i)'.job \in Nat
        BY <1>0, <1>1, <2>2, <4>1, SliceJobs DEF NumberInv
      <4> QED
        BY <1>0, <3>1, <4>2
    <3>2. CASE a \in Pending /\ aitem'[a].job = aitem[a].job /\ ~AppendItem(a)
      <4>1. \A b \in Adders : AppendItem(b) => b \in Pending /\ b # a
        BY <3>2 DEF AppendItem, Pending
      <4> QED
        BY <1>0, <2>2, <3>2, <4>1, SliceJobs DEF NumberInv
    <3> QED
      BY <3>1, <3>2, PendingKept
  <2> QED
    BY <2>1, <2>2
<1> QED
    BY <1>2, <1>3, <1>4, <1>5, <1>6, <1>7 DEF NumberInv

\* A row is an old one, its position perhaps saved, or that of an item just inserted.
LEMMA RowOrigin ==
    ASSUME StorageInv, [Next]_vars, NEW r \in rows'
    PROVE  \/ \E q \in rows : r.job = q.job /\ r.id = q.id
           \/ \E a \in Adders : /\ InsertItem(a) /\ r.job = aitem[a].job /\ r.id = nextItem
                                /\ aitem'[a].id = nextItem /\ apc'[a] = "position"
<1>0. TableType
    BY DEF StorageInv
<1>00. /\ apc \in [Adders -> {"idle", "insert", "position", "append", "reply"}]
       /\ aitem \in [Adders -> Items]
    BY DEF StorageInv, AdderType
<1>1. CASE UNCHANGED tableVars
  BY <1>1 DEF tableVars
<1>2. ASSUME NEW a \in Adders, CreateJob(a)
      PROVE  r \in rows
  BY <1>2 DEF CreateJob
<1>3. ASSUME NEW a \in Adders, InsertItem(a)
      PROVE  \/ r \in rows
             \/ r.job = aitem[a].job /\ r.id = nextItem /\ aitem'[a].id = nextItem
                /\ apc'[a] = "position"
  <2>1. CASE rows' = rows
    BY <2>1
  <2>2. CASE rows' # rows
    <3>1. /\ aitem' = [aitem EXCEPT ![a] = [aitem[a] EXCEPT !.id = nextItem]]
          /\ rows' = rows \cup {[id |-> nextItem, job |-> aitem[a].job, pos |-> 0]}
          /\ apc' = [apc EXCEPT ![a] = "position"]
      BY <1>3, <2>2 DEF InsertItem
    <3>2. aitem'[a].id = nextItem /\ apc'[a] = "position"
      BY <1>00, <3>1 DEF Items
    <3> QED
      BY <3>1, <3>2
  <2> QED
    BY <2>1, <2>2
<1>4. ASSUME NEW a \in Adders, SavePosition(a)
      PROVE  \E q \in rows : r.job = q.job /\ r.id = q.id
  <2>1. r \in rows \/ \E q \in rows : \E v : r = [q EXCEPT !.pos = v]
    BY <1>4 DEF SavePosition
  <2>2. \A q \in rows : \A v : [q EXCEPT !.pos = v].job = q.job /\ [q EXCEPT !.pos = v].id = q.id
    BY <1>0 DEF TableType
  <2>3. CASE r \in rows
    BY <2>3
  <2>4. CASE r \notin rows
    <3>1. PICK q \in rows : \E v : r = [q EXCEPT !.pos = v]
      BY <2>1, <2>4
    <3> QED
      BY <2>2, <3>1
  <2> QED
    BY <2>3, <2>4
<1>5. DeleteRow \/ (\E c \in Cancellers : DeleteCancelledRow(c)) => r \in rows
  BY DEF DeleteRow, DeleteCancelledRow
<1> QED
  BY <1>1, <1>2, <1>3, <1>4, <1>5, ChangesTable

LEMMA RowStep == ASSUME StorageInv, [Next]_vars PROVE RowInv'
<1>0. RowInv /\ TableType /\ NumberInv /\ nextJob \in Nat /\ nextJob' \in Nat /\ nextJob <= nextJob'
    BY NumbersGrow DEF StorageInv
<1>00. /\ apc \in [Adders -> {"idle", "insert", "position", "append", "reply"}]
       /\ aitem \in [Adders -> Items]
    BY DEF StorageInv, AdderType
<1>1. \A r \in rows' :
        \/ \E q \in rows : r.job = q.job /\ r.id = q.id
        \/ \E a \in Adders : InsertItem(a) /\ r.job = aitem[a].job
    BY RowOrigin
<1>2. \A a \in Adders : InsertItem(a) =>
        /\ a \in Inserting /\ aitem[a].job < nextJob /\ aitem[a].job \in Nat
        /\ \A r \in rows : r.job # aitem[a].job
    BY <1>0, PendingJob, MaxJobsAssumption DEF InsertItem, Inserting, Pending, RowInv, JobIds
<1>3. \A r \in rows : r.job \in Nat /\ r.job < nextJob
    BY <1>0, MaxJobsAssumption DEF TableType, RowInv, JobIds
<1>4. \A r \in rows' : r.job < nextJob'
    BY <1>0, <1>1, <1>2, <1>3
<1>5. \A r, q \in rows' : r.job = q.job => r = q
  <2> TAKE r, q \in rows'
  <2> HAVE r.job = q.job
  <2>0. \A x, y \in rows : x.job = y.job => x = y
    BY <1>0 DEF RowInv
  <2>1. CASE rows' \subseteq rows
    BY <2>0, <2>1
  <2>2. ASSUME NEW a \in Adders, InsertItem(a)
        PROVE  r = q
    <3>1. rows' = rows \/ rows' = rows \cup {[id |-> nextItem, job |-> aitem[a].job, pos |-> 0]}
      BY <2>2 DEF InsertItem
    <3> QED
      BY <1>2, <2>0, <2>2, <3>1
  <2>3. ASSUME NEW a \in Adders, SavePosition(a)
        PROVE  r = q
    <3>1. CASE rows' = rows
      BY <2>0, <3>1
    <3>2. CASE rows' # rows
      <4> DEFINE id == [aitem[a] EXCEPT !.pos = aitem[a].id].id
                 New(x) == IF x.id = id THEN [x EXCEPT !.pos = id] ELSE x
      <4>1. rows' = {New(x) : x \in rows}
        BY <2>3, <3>2 DEF SavePosition
      <4>2. \A x \in rows : New(x).job = x.job
        BY <1>0 DEF TableType
      <4> HIDE DEF New
      <4>3. PICK x \in rows, y \in rows : r = New(x) /\ q = New(y)
        BY <4>1
      <4> QED
        BY <2>0, <4>2, <4>3
    <3> QED
      BY <3>1, <3>2
  <2>4. UNCHANGED tableVars \/ DeleteRow \/ (\E c \in Cancellers : DeleteCancelledRow(c))
            \/ (\E a \in Adders : CreateJob(a)) => rows' \subseteq rows
    BY DEF tableVars, DeleteRow, DeleteCancelledRow, CreateJob
  <2> QED
    BY <2>1, <2>2, <2>3, <2>4, ChangesTable
<1>6. \A a \in Inserting' : \A r \in rows' : r.job # aitem'[a].job
  <2> TAKE a \in Inserting'
  <2> TAKE r \in rows'
  <2>0. a \in Adders /\ a \in Pending' /\ apc'[a] = "insert"
    BY DEF Inserting, Pending
  <2>1. CASE CreateJob(a) /\ aitem'[a].job = nextJob
    BY <1>1, <1>2, <1>3, <2>1
  <2>2. CASE a \in Pending /\ aitem'[a].job = aitem[a].job /\ ~CreateJob(a)
    <3>1. a \in Inserting
      <4>1. \A b \in Adders : Add(b) => apc'[a] = apc[a] \/ CreateJob(a)
        BY <1>00, <2>0 DEF Add, CreateJob, InsertItem, SavePosition, AppendItem, ReplyPosition
      <4> QED
        BY <2>0, <2>2, <4>1, ChangesAdders DEF AddStep, addVars, Restart, Inserting
    <3>2. \A b \in Adders : InsertItem(b) => b \in Pending /\ b # a
      BY <1>00, <2>0 DEF InsertItem, Pending
    <3>3. \A b \in Adders : InsertItem(b) => aitem[b].job # aitem[a].job
      BY <1>0, <2>2, <3>2 DEF NumberInv
    <3> QED
      BY <1>0, <1>1, <2>2, <3>1, <3>3 DEF RowInv
  <2>3. a \in Pending => ~CreateJob(a)
    BY DEF Pending, CreateJob
  <2> QED
    BY <2>0, <2>1, <2>2, <2>3, PendingKept
<1>7. ASSUME NEW a \in Pending', a \notin Inserting'
      PROVE  /\ aitem'[a].id \in JobIds
             /\ apc'[a] = "append" => aitem'[a].pos = aitem'[a].id
             /\ \A r \in rows' : r.job = aitem'[a].job => r.id = aitem'[a].id
  <2>0. a \in Adders /\ apc'[a] \in {"position", "append"} /\ ~CreateJob(a)
    BY <1>00, <1>7 DEF Pending, Inserting, CreateJob
  <2>1. a \in Pending /\ aitem'[a].job = aitem[a].job
    BY <2>0, PendingKept
  <2>2. CASE InsertItem(a)
    <3>1. /\ aitem' = [aitem EXCEPT ![a].id = nextItem]
          /\ rows' = rows \cup {[id |-> nextItem, job |-> aitem[a].job, pos |-> 0]}
          /\ apc' = [apc EXCEPT ![a] = "position"]
      BY <1>00, <2>0, <2>2 DEF InsertItem
    <3>2. aitem'[a].id = nextItem /\ apc'[a] = "position"
      <4>1. [aitem[a] EXCEPT !.id = nextItem].id = nextItem
        BY <1>00, <2>0 DEF Items
      <4> QED
        BY <1>00, <2>0, <3>1, <4>1
    <3>3. nextItem \in JobIds
      BY <2>0, <2>2, TicketLeft DEF InsertItem
    <3>4. \A r \in rows' : r.job = aitem[a].job => r.id = nextItem
      BY <1>2, <2>0, <2>2, <3>1
    <3> QED
      BY <2>1, <3>2, <3>3, <3>4
  <2>3. CASE SavePosition(a)
    <3>1. aitem' = [aitem EXCEPT ![a] = [aitem[a] EXCEPT !.pos = aitem[a].id]] /\ apc[a] = "position"
      BY <1>00, <2>0, <2>3 DEF SavePosition
    <3>2. aitem'[a].id = aitem[a].id /\ aitem'[a].pos = aitem[a].id
      BY <1>00, <2>0, <3>1 DEF Items
    <3>3. /\ aitem[a].id \in JobIds
          /\ \A r \in rows : r.job = aitem[a].job => r.id = aitem[a].id
      BY <1>0, <2>1, <3>1 DEF RowInv, Inserting
    <3>4. \A b \in Adders : InsertItem(b) => aitem[b].job # aitem[a].job
      <4>1. \A b \in Adders : InsertItem(b) => b \in Pending /\ b # a
        BY <3>1 DEF InsertItem, Pending
      <4> QED
        BY <1>0, <2>1, <4>1 DEF NumberInv
    <3> QED
      BY <1>1, <2>1, <3>2, <3>3, <3>4
  <2>4. CASE ~InsertItem(a) /\ ~SavePosition(a)
    <3>1. apc'[a] = apc[a] /\ aitem'[a] = aitem[a]
      <4>1. \A b \in Adders : Add(b) => apc'[a] = apc[a] /\ aitem'[a] = aitem[a]
        BY <1>00, <2>0, <2>4 DEF Add, CreateJob, InsertItem, SavePosition, AppendItem,
           ReplyPosition
      <4> QED
        BY <2>0, <4>1, ChangesAdders DEF AddStep, addVars, Restart
    <3>2. a \in Pending \ Inserting
      BY <2>0, <2>1, <3>1 DEF Inserting
    <3>3. \A b \in Adders : InsertItem(b) => aitem[b].job # aitem[a].job
      <4>1. \A b \in Adders : InsertItem(b) => b \in Pending /\ b # a
        BY <2>4 DEF InsertItem, Pending
      <4> QED
        BY <1>0, <2>1, <4>1 DEF NumberInv
    <3> QED
      BY <1>0, <1>1, <3>1, <3>2, <3>3 DEF RowInv
  <2> QED
    BY <2>2, <2>3, <2>4
<1> QED
  <2>1. \A a \in Pending' \ Inserting' :
            /\ aitem'[a].id \in JobIds
            /\ apc'[a] = "append" => aitem'[a].pos = aitem'[a].id
            /\ \A r \in rows' : r.job = aitem'[a].job => r.id = aitem'[a].id
    BY <1>7
  <2> QED
    BY <1>4, <1>5, <1>6, <2>1 DEF RowInv

LEMMA StorageStep == ASSUME StorageInv, [Next]_vars PROVE StorageInv'
<1>1. ArrayType'
    BY SliceStep
<1> QED
    BY <1>1, TableStep, AdderStep, WorkerStep, CancelStepType, StopTypeStep, NoteStep, PointerStep,
       TicketStep, NumberStep, RowStep DEF StorageInv

LEMMA StorageCorrect == Spec => []StorageInv
<1>1. Init => StorageInv
    BY StorageInit
<1>2. StorageInv /\ [Next]_vars => StorageInv'
    BY StorageStep
<1> QED
    BY <1>1, <1>2, PTL DEF Spec

\* TypeOK: every variable stays in its range; the slice always fits its array,
\* and a pointer a worker, a cancel or stop holds lies in an array that exists.
THEOREM TypeCorrect == Spec => []TypeOK
<1>1. ASSUME StorageInv
      PROVE  TypeOK
  <2>1. \A n \in 1..Len(arrays) : \A i \in 1..Len(arrays[n]) : arrays[n][i] \in Items
    <3>1. \A n \in 1..Len(arrays) : arrays[n] \in Seq(Items)
      BY <1>1 DEF StorageInv, ArrayType
    <3> QED
      BY <3>1
  <2>2. ptr # None => ptr \in Pointers /\ ptr.idx <= Len(arrays[ptr.arr])
    BY <1>1 DEF StorageInv, PointerInv, Names
  <2>3. currJob \in Pointers \cup {None} /\ sptr \in Pointers \cup {None}
    BY <1>1 DEF StorageInv, PointerInv, Names
  <2>4. \A c \in Cancellers : cpc[c] \in {"cancel", "mark", "row"} => cptr[c] \in Pointers
    BY <1>1 DEF StorageInv, PointerInv, Names
  <2> QED
    BY <1>1, <2>1, <2>2, <2>3, <2>4 DEF TypeOK, StorageInv, ArrayType, TableType, AdderType,
       WorkerType, CancelType, StopType, NoteType, PointerInv
<1> QED
    BY <1>1, StorageCorrect, PTL

(***************************************************************************)
(* The order of the queue                                                  *)
(***************************************************************************)

LEMMA AddedInit == Init => AddedInv
BY DEF Init, AddedInv, Pending

\* What a step adds to the jobs the slice has had.
LEMMA AddedGrows ==
    ASSUME StorageInv, [Next]_vars
    PROVE  /\ disorder => disorder'
           /\ \A a \in Adders : AppendItem(a) =>
                ignored' = ignored /\ added' = added \cup {aitem[a].job}
           /\ ~Restart /\ (\A a \in Adders : ~AppendItem(a)) =>
                ignored' = ignored /\ added' = added
<1>1. disorder => disorder'
  <2>1. Restart => (disorder => disorder')
    BY RestartEffect, Zenon
  <2>2. \A a \in Adders : AppendItem(a) => (disorder => disorder')
    BY Zenon DEF AppendItem
  <2> QED
    BY <2>1, <2>2, ChangesNotes DEF noteVars
<1>2. \A a \in Adders : AppendItem(a) => ignored' = ignored /\ added' = added \cup {aitem[a].job}
    BY DEF AppendItem
<1> QED
    BY <1>1, <1>2, ChangesNotes DEF noteVars

LEMMA AddedStep == ASSUME StorageInv, AddedInv, [Next]_vars PROVE AddedInv'
<1>0. /\ nextJob \in Nat /\ nextJob' \in Nat /\ nextJob <= nextJob'
      /\ added \subseteq JobIds /\ ignored \subseteq JobIds /\ JobIds \subseteq Nat
    BY NumbersGrow, MaxJobsAssumption DEF StorageInv, NoteType, JobIds
<1>1. CASE Restart
  <2>0. PICK f : Loads(f)
    BY <1>1, RestartSlots
  <2>1. /\ f \in [1..jobs'.len -> rows]
        /\ \A i \in 1..jobs'.len : Slot(i)'.job = f[i].job /\ f[i].job \notin ignored'
        /\ added' = added \cup {f[i].job : i \in 1..jobs'.len}
    BY <2>0 DEF Loads
  <2>2. \A r \in rows : r.job < nextJob' /\ nextJob' = nextJob
    BY <1>1 DEF StorageInv, RowInv, Restart, tableVars
  <2>3. \A j \in added' \cup ignored' : j < nextJob'
    <3>1. \A j \in added : j < nextJob'
      BY <1>0, <2>2, <1>1 DEF AddedInv, Restart, tableVars
    <3>2. \A i \in 1..jobs'.len : f[i].job < nextJob'
      BY <2>1, <2>2
    <3>3. \A j \in ignored' : \E r \in rows : r.job = j
      BY <1>1, RestartSlots
    <3> QED
      BY <2>1, <2>2, <3>1, <3>2, <3>3
  <2>4. \A i \in 1..jobs'.len : Slot(i)'.job \in added' /\ Slot(i)'.job \notin ignored'
    BY <2>1
  <2>5. Pending' = {}
    BY <1>1 DEF Restart, Pending
  <2> QED
    BY <2>3, <2>4, <2>5 DEF AddedInv
<1>2. CASE ~Restart
  <2>0. /\ ignored' = ignored /\ added \subseteq added'
        /\ \A j \in added' \ added : \E a \in Adders : AppendItem(a) /\ j = aitem[a].job
    BY <1>2, AddedGrows
  <2>1. \A a \in Adders : AppendItem(a) =>
            a \in Pending /\ aitem[a].job \in added' /\ aitem[a].job < nextJob
            /\ aitem[a].job \in JobIds
    BY PendingJob, AddedGrows DEF AppendItem, Pending
  <2>2. \A j \in added' \cup ignored' : j < nextJob /\ j \in Nat
    BY <1>0, <2>0, <2>1 DEF AddedInv
  <2>3. \A j \in added' \cup ignored' : j < nextJob'
    BY <1>0, <2>2
  <2>4. \A i \in 1..jobs'.len : Slot(i)'.job \in added' /\ Slot(i)'.job \notin ignored'
    BY <1>2, <2>0, <2>1, SliceJobs DEF AddedInv
  <2>5. ASSUME NEW a \in Pending'
        PROVE  aitem'[a].job \notin added' \cup ignored'
    <3>1. CASE a \in Pending /\ aitem'[a].job = aitem[a].job /\ ~AppendItem(a)
      <4>1. \A b \in Adders : AppendItem(b) => b \in Pending /\ b # a
        BY <2>1, <3>1
      <4>2. \A b \in Adders : AppendItem(b) => aitem[b].job # aitem[a].job
        BY <3>1, <4>1 DEF StorageInv, NumberInv
      <4> QED
        BY <2>0, <3>1, <4>2 DEF AddedInv
    <3>2. CASE CreateJob(a) /\ aitem'[a].job = nextJob
      BY <1>0, <2>2, <3>2
    <3> QED
      BY <3>1, <3>2, PendingKept
  <2> QED
    BY <2>3, <2>4, <2>5 DEF AddedInv
<1> QED
    BY <1>1, <1>2

\* An append that is no disorder puts an item with one number behind the others.
LEMMA AppendInOrder ==
    ASSUME StorageInv, NEW a \in Adders, AppendItem(a), ~disorder'
    PROVE  /\ aitem[a].id = aitem[a].job /\ aitem[a].pos = aitem[a].job
           /\ \A i \in 1..jobs.len : Slot(i).pos <= aitem[a].pos
<1>1. /\ disorder' = (disorder \/ aitem[a].id # aitem[a].job
                        \/ \E i \in 1..jobs.len : Slots(jobs)[i].pos > aitem[a].pos)
      /\ apc[a] = "append"
    BY DEF AppendItem
<1>2. /\ aitem[a].id = aitem[a].job
      /\ \A i \in 1..jobs.len : ~(Slots(jobs)[i].pos > aitem[a].pos)
    BY <1>1, Zenon
<1>3. aitem[a].pos = aitem[a].id
    BY <1>1 DEF StorageInv, RowInv, Pending, Inserting
<1>4. /\ Slots(jobs) \in Seq(Items) /\ Len(Slots(jobs)) = jobs.len
      /\ \A i \in 1..jobs.len : Slots(jobs)[i] = Slot(i)
    BY SlotsAreItems DEF StorageInv
<1>5. \A i \in 1..jobs.len : Slot(i).pos \in Nat
    BY <1>4, PositionType
<1>6. aitem[a].pos \in Nat
    BY MaxJobsAssumption DEF StorageInv, AdderType, Items
<1> QED
    BY <1>2, <1>3, <1>4, <1>5, <1>6

\* The slice after an append.
LEMMA AppendedSlots ==
    ASSUME StorageInv, NEW a \in Adders, AppendItem(a)
    PROVE  /\ jobs'.len = jobs.len + 1
           /\ \A i \in 1..jobs.len : Slot(i)' = Slot(i)
           /\ Slot(jobs.len)' = aitem[a]
           /\ jobs'.arr = jobs.arr \/ jobs'.arr = Len(arrays) + 1
           /\ \A n \in 1..Len(arrays) : \A i \in 1..Len(arrays[n]) :
                n # jobs.arr \/ i <= jobs.len => arrays'[n][i] = arrays[n][i]
<1>1. apc[a] = "append" /\ aitem[a] \in Items
    BY DEF AppendItem, StorageInv, AdderType
<1>2. jobs.len < MaxJobs /\ ArrayType /\ jobs.len \in Nat
    BY <1>1, RoomForItem, MaxJobsAssumption DEF StorageInv, ArrayType
<1>3. /\ jobs'.len = jobs.len + 1
      /\ \A n \in 1..Len(arrays) : \A i \in 1..Len(arrays[n]) :
            \/ arrays'[n][i] = arrays[n][i]
            \/ n = jobs.arr /\ jobs'.arr = n /\ i = jobs.len + 1 /\ arrays'[n][i] = aitem[a]
      /\ jobs'.arr = jobs.arr \/ jobs'.arr = Len(arrays) + 1
      /\ \A i \in 1..jobs.len : arrays'[jobs'.arr][i] = Slot(i)
      /\ arrays'[jobs'.arr][jobs.len + 1] = aitem[a]
    BY <1>1, <1>2, AppendEffect
<1>4. \A n \in 1..Len(arrays) : \A i \in 1..Len(arrays[n]) :
        n # jobs.arr \/ i <= jobs.len => arrays'[n][i] = arrays[n][i]
    BY <1>2, <1>3 DEF ArrayType
<1>5. \A i \in 1..jobs.len : Slot(i)' = Slot(i)
    BY <1>3 DEF Slot
<1>6. Slot(jobs.len)' = aitem[a]
    BY <1>3 DEF Slot
<1> QED
    BY <1>3, <1>4, <1>5, <1>6

\* Two slots hold the same item, marks aside.
SameItem(x, y) == x.job = y.job /\ x.id = y.id /\ x.pos = y.pos

\* A pointer at a slot of the slice, or into an array the slice has left.
Settled(p) == Names(p) /\ (p.arr = jobs.arr => p.idx <= jobs.len)

\* The positions of the items are their jobs, of which no two are the same.
LEMMA DistinctPositions ==
    ASSUME StorageInv, KeysInv, Ascending
    PROVE  StrictlyAscending
<1> SUFFICES ASSUME NEW i \in 1..jobs.len, NEW k \in 1..jobs.len, i < k
             PROVE  Slot(i).pos < Slot(k).pos
    BY DEF StrictlyAscending
<1>1. Slot(i).pos <= Slot(k).pos
    BY DEF Ascending
<1>2. Slot(i).pos = Slot(i).job /\ Slot(k).pos = Slot(k).job
    BY DEF KeysInv
<1>3. Slot(i).job # Slot(k).job
    BY DEF StorageInv, NumberInv, ArrayType
<1>4. Slot(i).job \in 1..MaxJobs /\ Slot(k).job \in 1..MaxJobs
    BY DEF StorageInv, PointerInv, JobIds
<1> QED
    BY <1>1, <1>2, <1>3, <1>4, MaxJobsAssumption

\* While the slice is sorted and nothing is removed, only marks and appends
\* change it: its items, and those behind pointers, stay where they are.
LEMMA SortedStays ==
    ASSUME StorageInv, KeysInv, [Next]_vars, ~Restart, ~RemoveFound, ~disorder', Ascending
    PROVE  /\ Ascending' /\ jobs.len <= jobs'.len
           /\ \A i \in 1..jobs.len : SameItem(Slot(i)', Slot(i))
           /\ \A p : Settled(p) =>
                Settled(p)' /\ SameItem(arrays'[p.arr][p.idx], arrays[p.arr][p.idx])
<1>0. /\ ArrayType /\ jobs.len \in 0..Len(arrays[jobs.arr]) /\ jobs.arr \in 1..Len(arrays)
      /\ Len(arrays) \in Nat
    BY DEF StorageInv, ArrayType
<1>1. \A p : Names(p) => p.arr \in 1..Len(arrays) /\ p.idx \in 1..Len(arrays[p.arr])
    BY DEF Names, Pointers
<1>2. \A p : Names(p) => Names(p)'
    BY NamesKept
\* It is enough to look at the slots.
<1>3. CASE /\ jobs' = jobs
           /\ \A n \in 1..Len(arrays) : \A i \in 1..Len(arrays[n]) :
                SameItem(arrays'[n][i], arrays[n][i])
  <2>1. \A i \in 1..jobs.len : SameItem(Slot(i)', Slot(i))
    BY <1>0, <1>3 DEF Slot
  <2>2. Ascending'
    BY <1>3, <2>1 DEF Ascending, SameItem
  <2> QED
    BY <1>0, <1>1, <1>2, <1>3, <2>1, <2>2 DEF Settled
<1>4. CASE UNCHANGED <<arrays, jobs>>
    BY <1>3, <1>4 DEF SameItem
<1>5. CASE TakeFirst \/ \E a \in Adders : ReplyPosition(a)
  <2>1. SortPosition /\ jobs' = jobs
    BY <1>5 DEF TakeFirst, SortFirst, ReplyPosition
  <2>2. arrays' = arrays
    BY <1>0, <2>1, SortEffect, DistinctPositions
  <2> QED
    BY <1>4, <2>1, <2>2
<1>6. CASE FindRemoved \/ \E c \in Cancellers : MarkDeleted(c)
  <2>1. PICK p : Names(p) /\ Mark(p) /\ jobs' = jobs
    BY <1>6 DEF FindRemoved, MarkDeleted, StorageInv, PointerInv
  <2>2. \A n \in 1..Len(arrays) : \A i \in 1..Len(arrays[n]) :
            SameItem(arrays'[n][i], arrays[n][i])
    BY <1>0, <1>1, <2>1, MarkEffect DEF SameItem
  <2> QED
    BY <1>3, <2>1, <2>2
<1>7. ASSUME NEW a \in Adders, AppendItem(a)
      PROVE  /\ Ascending' /\ jobs.len <= jobs'.len
             /\ \A i \in 1..jobs.len : SameItem(Slot(i)', Slot(i))
             /\ \A p : Settled(p) =>
                    Settled(p)' /\ SameItem(arrays'[p.arr][p.idx], arrays[p.arr][p.idx])
  <2>1. /\ jobs'.len = jobs.len + 1
        /\ \A i \in 1..jobs.len : Slot(i)' = Slot(i)
        /\ Slot(jobs.len)' = aitem[a]
        /\ jobs'.arr = jobs.arr \/ jobs'.arr = Len(arrays) + 1
        /\ \A n \in 1..Len(arrays) : \A i \in 1..Len(arrays[n]) :
                n # jobs.arr \/ i <= jobs.len => arrays'[n][i] = arrays[n][i]
    BY <1>7, AppendedSlots
  <2>2. \A i \in 1..jobs.len : Slot(i).pos <= aitem[a].pos
    BY <1>7, AppendInOrder
  <2>3. Ascending'
    <3>1. ASSUME NEW i \in 1..jobs.len + 1, NEW k \in 1..jobs.len + 1, i < k
          PROVE  Slot(i)'.pos <= Slot(k)'.pos
      <4>1. i \in 1..jobs.len /\ Slot(i)' = Slot(i)
        BY <1>0, <2>1, <3>1
      <4>2. CASE k = jobs.len + 1
        BY <2>1, <2>2, <4>1, <4>2 DEF Slot
      <4>3. CASE k # jobs.len + 1
        <5>1. k \in 1..jobs.len /\ Slot(k)' = Slot(k)
          BY <1>0, <2>1, <4>3
        <5> QED
          BY <3>1, <4>1, <5>1 DEF Ascending
      <4> QED
        BY <4>2, <4>3
    <3> QED
      BY <2>1, <3>1 DEF Ascending
  <2>4. ASSUME NEW p, Settled(p)
        PROVE  Settled(p)' /\ SameItem(arrays'[p.arr][p.idx], arrays[p.arr][p.idx])
    <3>1. /\ p.arr \in 1..Len(arrays) /\ p.idx \in 1..Len(arrays[p.arr]) /\ Names(p)'
          /\ (p.arr = jobs.arr => p.idx <= jobs.len)
      BY <1>1, <1>2, <2>4 DEF Settled
    <3>2. arrays'[p.arr][p.idx] = arrays[p.arr][p.idx]
      BY <2>1, <3>1
    <3>3. p.arr = jobs'.arr => p.idx <= jobs'.len
      BY <1>0, <2>1, <3>1
    <3> QED
      BY <3>1, <3>2, <3>3 DEF Settled, SameItem
  <2>5. \A i \in 1..jobs.len : SameItem(Slot(i)', Slot(i))
    BY <2>1 DEF SameItem
  <2> QED
    BY <1>0, <2>1, <2>3, <2>4, <2>5
<1> QED
    BY <1>4, <1>5, <1>6, <1>7, ChangesSlice


\* Without disorder an item keeps its one number, whatever moves it.
LEMMA KeysStep ==
    ASSUME StorageInv, KeysInv, [Next]_vars, ~disorder'
    PROVE  KeysInv'
<1>0. ArrayType /\ jobs.len \in Nat /\ jobs'.len \in Nat
    BY SliceStep DEF StorageInv, ArrayType
<1>1. CASE Permuted
  <2>1. PICK p \in [1..jobs.len -> 1..jobs.len] :
            \A i \in 1..jobs.len :
                /\ arrays'[jobs.arr][i].job = Slot(p[i]).job
                /\ arrays'[jobs.arr][i].id = Slot(p[i]).id
                /\ arrays'[jobs.arr][i].pos = Slot(p[i]).pos
    BY <1>1 DEF Permuted
  <2>2. jobs' = jobs
    BY <1>1 DEF Permuted
  <2> QED
    BY <2>1, <2>2 DEF KeysInv, Slot
<1>2. CASE Cut
  <2>1. \A i \in 1..jobs'.len : Slot(i)' = Slot(IF i = found THEN jobs.len ELSE i)
    BY <1>0, <1>2 DEF Cut, Slot
  <2>2. \A i \in 1..jobs'.len : (IF i = found THEN jobs.len ELSE i) \in 1..jobs.len
    BY <1>0, <1>2 DEF Cut
  <2> QED
    BY <2>1, <2>2 DEF KeysInv
<1>3. ASSUME NEW a \in Adders, AppendItem(a)
      PROVE  KeysInv'
  <2>1. /\ jobs'.len = jobs.len + 1
        /\ \A i \in 1..jobs.len : Slot(i)' = Slot(i)
        /\ Slot(jobs.len)' = aitem[a]
    BY <1>3, AppendedSlots
  <2>2. aitem[a].id = aitem[a].job /\ aitem[a].pos = aitem[a].job
    BY <1>3, AppendInOrder
  <2>3. ASSUME NEW i \in 1..jobs'.len
        PROVE  Slot(i)'.id = Slot(i)'.job /\ Slot(i)'.pos = Slot(i)'.job
    <3>1. CASE i \in 1..jobs.len
      BY <2>1, <3>1 DEF KeysInv
    <3>2. CASE i = jobs'.len
      BY <2>1, <2>2, <3>2 DEF Slot
    <3> QED
      BY <1>0, <2>1, <3>1, <3>2
  <2> QED
    BY <2>3 DEF KeysInv
<1>4. CASE Restart
  <2>1. PICK f : Loads(f)
    BY <1>4, RestartSlots
  <2>2. \A i \in 1..jobs'.len : Slot(i)'.id = Slot(i)'.job /\ Slot(i)'.pos = Slot(i)'.job
    BY <2>1 DEF Loads
  <2> QED
    BY <2>2 DEF KeysInv
<1> QED
    BY <1>1, <1>2, <1>3, <1>4, SliceStep

\* Between taking an item and removing it the worker keeps its pointer.
LEMMA BusyKept ==
    ASSUME StorageInv, FrontInv, [Next]_vars, Busy', ~TakeFirst
    PROVE  ~Restart /\ ~RemoveFound /\ Busy /\ ptr' = ptr /\ item' = item
<1>1. Restart => wpc' = "idle"
    BY DEF Restart
<1>2. RemoveFound => wpc' = "again"
    BY DEF RemoveFound, FrontInv
<1>3. LoadItem \/ StartRun \/ RunReturns \/ DeleteRow \/ FindRemoved =>
        Busy /\ ptr' = ptr /\ item' = item
    BY DEF LoadItem, StartRun, RunReturns, DeleteRow, FindRemoved, Busy
<1>4. RunAgain => wpc' \in {"idle", "stopped"}
    BY DEF RunAgain
<1>5. UNCHANGED workVars => wpc' = wpc /\ ptr' = ptr /\ item' = item
    BY DEF workVars
<1> QED
    BY <1>1, <1>2, <1>3, <1>4, <1>5, ChangesWorker DEF Worker, Busy

\* The worker's pointer is at the front, in an array of the slice's past or in
\* its present one.
LEMMA WorkerSettled ==
    ASSUME StorageInv, FrontInv, Busy
    PROVE  Settled(ptr) /\ Ascending /\ 1 \in 1..jobs.len
<1>1. ptr # None
    BY DEF Busy, StorageInv, PointerInv
<1>2. Names(ptr) /\ jobs.len \in Nat
    BY <1>1 DEF StorageInv, PointerInv, ArrayType
<1> QED
    BY <1>2 DEF FrontInv, AtFront, Settled

LEMMA FrontBusyStep ==
    ASSUME StorageInv, FrontInv, [Next]_vars, ~disorder', Busy'
    PROVE  AtFront'
<1>0. ArrayType /\ jobs.len \in Nat /\ KeysInv' /\ PointerInv'
    BY KeysStep, StorageStep DEF StorageInv, ArrayType, FrontInv
<1>1. CASE TakeFirst
  <2>1. /\ SortPosition /\ jobs' = jobs /\ jobs.len > 0
        /\ ptr' = [arr |-> jobs.arr, idx |-> 1] /\ item' = arrays'[jobs.arr][1]
    BY <1>1 DEF TakeFirst, SortFirst
  <2>2. PICK p \in [1..jobs.len -> 1..jobs.len] :
            /\ \A i \in 1..jobs.len : arrays'[jobs.arr][i] = Slot(p[i])
            /\ \A i, k \in 1..jobs.len : i < k => Slot(p[i]).pos <= Slot(p[k]).pos
    BY <1>0, <2>1, SortEffect, Zenon
  <2>3. Ascending'
    BY <2>1, <2>2 DEF Ascending, Slot
  <2>4. Slot(1)' = item'
    BY <2>1 DEF Slot
  <2>5. 1 \in 1..jobs'.len
    BY <1>0, <2>1
  <2>6. Slot(1)'.id = Slot(1)'.job /\ Slot(1)'.job \in JobIds
    BY <1>0, <2>5 DEF KeysInv, PointerInv
  <2>7. At(ptr)' = Slot(1)'
    BY <2>1 DEF At, Slot
  <2> QED
    BY <2>1, <2>3, <2>4, <2>5, <2>6, <2>7 DEF AtFront
<1>2. CASE ~TakeFirst
  <2>1. ~Restart /\ ~RemoveFound /\ Busy /\ ptr' = ptr /\ item' = item
    BY <1>2, BusyKept
  <2>2. Settled(ptr) /\ Ascending /\ 1 \in 1..jobs.len /\ AtFront
    BY <2>1, WorkerSettled DEF FrontInv
  <2>3. /\ Ascending' /\ jobs.len <= jobs'.len
        /\ SameItem(Slot(1)', Slot(1))
        /\ SameItem(arrays'[ptr.arr][ptr.idx], arrays[ptr.arr][ptr.idx])
    BY <2>1, <2>2, SortedStays DEF FrontInv
  <2>4. jobs'.len >= 1
    BY <1>0, <2>2, <2>3, SliceStep DEF ArrayType
  <2> QED
    BY <2>1, <2>2, <2>3, <2>4 DEF AtFront, SameItem, At
<1> QED
    BY <1>1, <1>2

LEMMA FrontStep ==
    ASSUME StorageInv, FrontInv, [Next]_vars, ~disorder'
    PROVE  FrontInv'
<1>1. KeysInv'
    BY KeysStep DEF FrontInv
<1>2. Busy' => AtFront'
    BY FrontBusyStep
<1>3. wpc' = "running" => running' = item'.job
  <2>1. StartRun => running' = item'.job
    BY DEF StartRun, FrontInv, AtFront, Busy
  <2>2. wpc' = "running" => StartRun \/ UNCHANGED workVars
    BY ChangesWorker DEF Worker, TakeFirst, LoadItem, RunReturns, DeleteRow, FindRemoved,
       RemoveFound, RunAgain, Restart
  <2> QED
    BY <2>1, <2>2 DEF FrontInv, workVars
<1>4. wpc' = "remove" => found' = 1
  <2>1. CASE FindRemoved
    <3>1. Busy
      BY <2>1 DEF FindRemoved, Busy
    <3>2. 1 \in 1..jobs.len /\ Slot(1).job = item.job /\ RemovalKey = item.job
      BY <3>1, WorkerSettled DEF FrontInv, AtFront, RemovalKey
    <3>3. IndexOf(item.job) \in 1..1
      BY <3>2, IndexOfFirst DEF StorageInv
    <3>4. found' = IndexOf(RemovalKey)
      BY <2>1 DEF FindRemoved
    <3> QED
      BY <3>2, <3>3, <3>4
  <2>2. wpc' = "remove" => FindRemoved \/ UNCHANGED workVars
    <3>1. RemoveFound => wpc' # "remove"
      BY DEF RemoveFound
    <3> QED
      BY <3>1, ChangesWorker DEF Worker, TakeFirst, LoadItem, StartRun, RunReturns, DeleteRow,
         RunAgain, Restart
  <2> QED
    BY <2>1, <2>2 DEF FrontInv, workVars
<1>5. wpc' # "panicked"
  <2>1. RemoveFound => wpc' = "again"
    BY DEF RemoveFound, FrontInv
  <2>2. FindRemoved => wpc' = "remove"
    BY DEF FindRemoved
  <2> QED
    BY <2>1, <2>2, ChangesWorker DEF Worker, TakeFirst, LoadItem, StartRun, RunReturns, DeleteRow,
       RunAgain, Restart, workVars, FrontInv
<1> QED
    BY <1>1, <1>2, <1>3, <1>4, <1>5 DEF FrontInv

\* RemoveJob cuts off the worker's item and no other.
LEMMA RemovesFront ==
    ASSUME StorageInv, FrontInv, RemoveFound
    PROVE  /\ wpc' = "again"
           /\ \A i \in 1..jobs'.len : \E k \in 1..jobs.len :
                Slot(i)' = Slot(k) /\ Slot(k).job # item.job
           /\ \A k \in 1..jobs.len : Slot(k).job # item.job =>
                \E i \in 1..jobs'.len : Slot(i)' = Slot(k)
<1>1. wpc = "remove" /\ found = 1 /\ Busy
    BY DEF RemoveFound, FrontInv, Busy
<1>2. 1 \in 1..jobs.len /\ Slot(1).job = item.job /\ jobs.len \in Nat
    BY <1>1, WorkerSettled DEF FrontInv, AtFront, StorageInv, ArrayType
<1>3. Cut /\ wpc' = "again"
    BY <1>1, RemoveCuts DEF StorageInv, WorkerType
<1>4. jobs'.len = jobs.len - 1 /\ jobs'.arr = jobs.arr
    BY <1>3 DEF Cut
<1>5. \A i \in 1..jobs'.len : Slot(i)' = Slot(IF i = 1 THEN jobs.len ELSE i)
    BY <1>1, <1>3, <1>4 DEF Cut, Slot
<1>6. \A k \in 1..jobs.len : k # 1 => Slot(k).job # item.job
    BY <1>2 DEF StorageInv, NumberInv
<1>7. ASSUME NEW i \in 1..jobs'.len
      PROVE  \E k \in 1..jobs.len : Slot(i)' = Slot(k) /\ Slot(k).job # item.job
  <2> DEFINE k == IF i = 1 THEN jobs.len ELSE i
  <2>1. k \in 1..jobs.len /\ k # 1
    BY <1>2, <1>4
  <2> QED
    BY <1>5, <1>6, <2>1
<1>8. ASSUME NEW k \in 1..jobs.len, Slot(k).job # item.job
      PROVE  \E i \in 1..jobs'.len : Slot(i)' = Slot(k)
  <2> DEFINE i == IF k = jobs.len THEN 1 ELSE k
  <2>1. k # 1
    BY <1>2, <1>8
  <2>2. i \in 1..jobs'.len /\ (IF i = 1 THEN jobs.len ELSE i) = k
    BY <1>2, <1>4, <2>1
  <2> QED
    BY <1>5, <2>2
<1> QED
    BY <1>3, <1>7, <1>8

\* Until it removes the item, the worker keeps it; it starts a run once.
LEMMA RunKept ==
    ASSUME [Next]_vars, ~Restart, ~RemoveFound
    PROVE  /\ HasRun => HasRun' /\ item' = item
           /\ wpc = "remove" => wpc' = "remove"
           /\ runs' = runs \/ StartRun
<1>1. TakeFirst \/ LoadItem \/ RunAgain => ~HasRun /\ runs' = runs /\ wpc # "remove"
    BY DEF TakeFirst, LoadItem, RunAgain, HasRun
<1>2. StartRun => ~HasRun
    BY DEF StartRun, HasRun
<1>3. RunReturns \/ DeleteRow \/ FindRemoved =>
        HasRun' /\ item' = item /\ runs' = runs /\ wpc # "remove"
    BY DEF RunReturns, DeleteRow, FindRemoved, HasRun
<1>4. UNCHANGED workVars => wpc' = wpc /\ item' = item /\ runs' = runs
    BY DEF workVars
<1> QED
    BY <1>1, <1>2, <1>3, <1>4, ChangesWorker DEF Worker, HasRun

LEMMA CrashesKept ==
    ASSUME StorageInv, [Next]_vars, crashes' = 0
    PROVE  ~Restart /\ crashes = 0
<1>1. crashes \in Nat
    BY QueueCrashAssumption DEF StorageInv, NoteType
<1>2. Restart => crashes' = crashes + 1
    BY DEF Restart
<1>3. \A a \in Adders : AppendItem(a) => crashes' = crashes
    BY DEF AppendItem
<1> QED
    BY <1>1, <1>2, <1>3, ChangesNotes DEF noteVars

LEMMA RunsStep ==
    ASSUME StorageInv, FrontInv, RunsInv, [Next]_vars, ~disorder'
    PROVE  RunsInv'
<1> SUFFICES ASSUME crashes' = 0
             PROVE  /\ \A j \in JobIds : runs'[j] <= 1 /\ (j >= nextJob' => runs'[j] = 0)
                    /\ \A a \in Pending' : runs'[aitem'[a].job] = 0
                    /\ \A i \in 1..jobs'.len : runs'[Slot(i)'.job] = 0
                                               \/ (HasRun' /\ Slot(i)'.job = item'.job)
    BY DEF RunsInv
<1>0. /\ ~Restart /\ runs \in [JobIds -> Nat] /\ JobIds \subseteq Nat
      /\ \A j \in JobIds : runs[j] <= 1 /\ (j >= nextJob => runs[j] = 0)
      /\ \A a \in Pending : runs[aitem[a].job] = 0
      /\ \A i \in 1..jobs.len : runs[Slot(i).job] = 0 \/ (HasRun /\ Slot(i).job = item.job)
    BY CrashesKept DEF RunsInv, StorageInv, WorkerType, JobIds
<1>1. nextJob \in Nat /\ nextJob' \in Nat /\ nextJob <= nextJob'
    BY NumbersGrow
<1>2. StartRun => /\ item.job \in JobIds /\ item.job < nextJob /\ runs[item.job] = 0
                  /\ runs' = [runs EXCEPT ![item.job] = @ + 1]
                  /\ HasRun' /\ item' = item
                  /\ \A a \in Pending : aitem[a].job # item.job
  <2> SUFFICES ASSUME StartRun
               PROVE  /\ item.job \in JobIds /\ item.job < nextJob /\ runs[item.job] = 0
                      /\ runs' = [runs EXCEPT ![item.job] = @ + 1]
                      /\ HasRun' /\ item' = item
                      /\ \A a \in Pending : aitem[a].job # item.job
    OBVIOUS
  <2>1. wpc = "start" /\ Busy /\ ~HasRun
    BY DEF StartRun, Busy, HasRun
  <2>2. 1 \in 1..jobs.len /\ AtFront
    BY <2>1, WorkerSettled DEF FrontInv
  <2>3. item.job \in JobIds /\ Slot(1).job = item.job /\ At(ptr).job = item.job
    BY <2>2 DEF AtFront
  <2>4. item.job < nextJob /\ \A a \in Pending : aitem[a].job # item.job
    BY <2>2, <2>3 DEF StorageInv, NumberInv
  <2>5. runs[item.job] = 0
    BY <1>0, <2>1, <2>2, <2>3
  <2> QED
    BY <2>3, <2>4, <2>5 DEF StartRun, HasRun
<1>3. \A j \in JobIds : runs'[j] = runs[j] \/ (StartRun /\ j = item.job /\ runs'[j] = 1)
  <2>1. StartRun \/ runs' = runs
    <3>1. RemoveFound => runs' = runs
      BY DEF RemoveFound
    <3> QED
      BY <1>0, <3>1, RunKept
  <2> QED
    BY <1>0, <1>2, <2>1
<1>4. \A j \in JobIds : runs'[j] <= 1 /\ (j >= nextJob' => runs'[j] = 0)
    BY <1>0, <1>1, <1>2, <1>3
<1>5. ASSUME NEW a \in Pending'
      PROVE  runs'[aitem'[a].job] = 0
  <2>1. CASE a \in Pending /\ aitem'[a].job = aitem[a].job
    BY <1>0, <1>2, <1>3, <2>1, PendingJob
  <2>2. CASE CreateJob(a) /\ aitem'[a].job = nextJob
    <3>1. nextJob \in JobIds
      BY <1>1, <2>2, MaxJobsAssumption DEF CreateJob, JobIds, StorageInv, TableType
    <3>2. ~StartRun \/ item.job # nextJob
      BY <1>0, <1>1, <1>2
    <3> QED
      BY <1>0, <1>1, <1>3, <2>2, <3>1, <3>2
  <2> QED
    BY <2>1, <2>2, PendingKept
<1>6. ASSUME NEW i \in 1..jobs'.len
      PROVE  runs'[Slot(i)'.job] = 0 \/ (HasRun' /\ Slot(i)'.job = item'.job)
  <2>0. \A k \in 1..jobs.len : Slot(k).job \in JobIds
    BY DEF StorageInv, PointerInv
  <2>1. CASE RemoveFound
    <3>1. PICK k \in 1..jobs.len : Slot(i)' = Slot(k) /\ Slot(k).job # item.job
      BY <2>1, RemovesFront
    <3>2. runs[Slot(k).job] = 0
      BY <1>0, <3>1
    <3> QED
      BY <1>3, <2>0, <3>1, <3>2
  <2>2. ASSUME NEW k \in 1..jobs.len, Slot(i)'.job = Slot(k).job, ~RemoveFound
        PROVE  runs'[Slot(i)'.job] = 0 \/ (HasRun' /\ Slot(i)'.job = item'.job)
    <3>1. HasRun => HasRun' /\ item' = item
      BY <1>0, <2>2, RunKept
    <3>2. Slot(k).job \in JobIds
      BY <2>0
    <3>3. CASE StartRun /\ Slot(k).job = item.job
      BY <1>2, <2>2, <3>3
    <3>4. CASE ~(StartRun /\ Slot(k).job = item.job)
      <4>1. runs'[Slot(k).job] = runs[Slot(k).job]
        BY <1>3, <3>2, <3>4
      <4> QED
        BY <1>0, <2>2, <3>1, <4>1
    <3> QED
      BY <3>3, <3>4
  <2>3. ASSUME NEW a \in Adders, AppendItem(a), Slot(i)' = aitem[a]
        PROVE  runs'[Slot(i)'.job] = 0
    <3>1. a \in Pending
      BY <2>3 DEF AppendItem, Pending
    <3> QED
      BY <1>0, <1>2, <1>3, <2>3, <3>1, PendingJob
  <2> QED
    BY <1>0, <2>1, <2>2, <2>3, SliceJobs
<1> QED
    BY <1>4, <1>5, <1>6

\* The job of an item in the slice gets no second row, so that a reason for
\* hiding the item lasts.
LEMMA HideableKept ==
    ASSUME StorageInv, [Next]_vars, ~Restart, NEW j,
           \E k \in 1..jobs.len : Slot(k).job = j, Hideable(j)
    PROVE  \/ \A r \in rows' : r.job # j
           \/ \E c \in Cancellers : cpc'[c] = "row" /\ cid'[c] = j
           \/ j \in strays'
<1>0. /\ cpc \in [Cancellers -> {"idle", "cancel", "mark", "row", "done"}]
      /\ cid \in [Cancellers -> 0..MaxJobs]
    BY DEF StorageInv, CancelType
<1>1. ASSUME \A r \in rows : r.job # j
      PROVE  \A r \in rows' : r.job # j
  <2>1. \A a \in Adders : InsertItem(a) => aitem[a].job # j
    BY DEF InsertItem, Pending, StorageInv, NumberInv
  <2> QED
    BY <1>1, <2>1, RowOrigin
<1>2. strays \subseteq strays'
  <2>1. \A c \in Cancellers : Cancel(c) => strays \subseteq strays'
    BY DEF Cancel, FindJob, CancelFound, MarkDeleted, DeleteCancelledRow
  <2>2. UNCHANGED cancVars \/ UseCurrent \/ RemoveFound => strays' = strays
    BY DEF cancVars, UseCurrent, RemoveFound
  <2> QED
    BY <2>1, <2>2, ChangesCancels DEF CancelStep
<1>3. ASSUME NEW c \in Cancellers, cpc[c] = "row", cid[c] = j
      PROVE  (cpc'[c] = "row" /\ cid'[c] = j) \/ \A r \in rows' : r.job # j
  <2>1. ASSUME NEW d \in Cancellers, Cancel(d)
        PROVE  (cpc'[c] = "row" /\ cid'[c] = j) \/ \A r \in rows' : r.job # j
    <3>1. FindJob(d) \/ CancelFound(d) \/ MarkDeleted(d) => d # c /\ cpc'[c] = cpc[c] /\ cid'[c] = cid[c]
      BY <1>0, <1>3 DEF FindJob, CancelFound, MarkDeleted
    <3>2. DeleteCancelledRow(d) /\ d # c => cpc'[c] = cpc[c] /\ cid'[c] = cid[c]
      BY <1>0, <1>3 DEF DeleteCancelledRow
    <3>3. DeleteCancelledRow(d) /\ d = c => \A r \in rows' : r.job # j
      BY <1>3 DEF DeleteCancelledRow
    <3> QED
      BY <1>3, <2>1, <3>1, <3>2, <3>3 DEF Cancel
  <2>2. UNCHANGED cancVars \/ UseCurrent \/ RemoveFound => cpc' = cpc /\ cid' = cid
    BY DEF cancVars, UseCurrent, RemoveFound
  <2> QED
    BY <1>3, <2>1, <2>2, ChangesCancels DEF CancelStep
<1> QED
    BY <1>1, <1>2, <1>3 DEF Hideable

\* An item is hidden by a cancel of its job, by its removal or by a stray mark.
LEMMA HiddenStep ==
    ASSUME StorageInv, FrontInv, HiddenInv, HolderInv, ListedInv, [Next]_vars, ~disorder'
    PROVE  HiddenInv'
<1> SUFFICES ASSUME NEW i \in 1..jobs'.len, Slot(i)'.deleted
             PROVE  \/ \A r \in rows' : r.job # Slot(i)'.job
                    \/ \E c \in Cancellers : cpc'[c] = "row" /\ cid'[c] = Slot(i)'.job
                    \/ Slot(i)'.job \in strays'
    BY DEF HiddenInv, Hideable
<1>0. /\ ArrayType /\ jobs.len \in Nat /\ jobs.arr \in 1..Len(arrays)
      /\ jobs.len \in 0..Len(arrays[jobs.arr]) /\ Len(arrays[jobs.arr]) \in Nat
      /\ \A k \in 1..jobs.len : Slot(k).deleted => Hideable(Slot(k).job)
    BY DEF StorageInv, ArrayType, HiddenInv
<1> DEFINE Hides(j) == \/ \A r \in rows' : r.job # j
                       \/ \E c \in Cancellers : cpc'[c] = "row" /\ cid'[c] = j
                       \/ j \in strays'
<1> SUFFICES Hides(Slot(i)'.job)
    OBVIOUS
<1>a. ASSUME ~Restart, NEW k \in 1..jobs.len, Slot(k).deleted
      PROVE  Hides(Slot(k).job)
    BY <1>0, <1>a, HideableKept
<1> HIDE DEF Hides
<1>1. CASE Restart
  <2>1. PICK f : Loads(f)
    BY <1>1, RestartSlots
  <2> QED
    BY <2>1 DEF Loads
<1>2. CASE RemoveFound
  <2>1. PICK k \in 1..jobs.len : Slot(i)' = Slot(k) /\ Slot(k).job # item.job
    BY <1>2, RemovesFront
  <2>2. ~Restart
    BY <1>2 DEF RemoveFound, Restart
  <2> QED
    BY <1>a, <2>1, <2>2
<1>3. ASSUME ~Restart, NEW k \in 1..jobs.len, Slot(i)' = Slot(k)
      PROVE  Hides(Slot(i)'.job)
    BY <1>a, <1>3
<1>4. CASE ~Restart /\ ~RemoveFound
  <2>1. CASE UNCHANGED <<arrays, jobs>>
    BY <1>3, <1>4, <2>1 DEF Slot
  <2>2. CASE TakeFirst \/ \E a \in Adders : ReplyPosition(a)
    <3>1. SortPosition /\ jobs' = jobs
      BY <2>2 DEF TakeFirst, SortFirst, ReplyPosition
    <3>2. PICK p \in [1..jobs.len -> 1..jobs.len] :
            \A k \in 1..jobs.len : arrays'[jobs.arr][k] = Slot(p[k])
      BY <1>0, <3>1, SortEffect, Zenon
    <3>3. p[i] \in 1..jobs.len /\ Slot(i)' = Slot(p[i])
      BY <3>1, <3>2 DEF Slot
    <3> QED
      BY <1>3, <1>4, <3>3
  <2>3. ASSUME NEW a \in Adders, AppendItem(a)
        PROVE  Hides(Slot(i)'.job)
    <3>1. /\ jobs'.len = jobs.len + 1
          /\ \A k \in 1..jobs.len : Slot(k)' = Slot(k)
          /\ Slot(jobs.len)' = aitem[a]
      BY <2>3, AppendedSlots
    <3>2. CASE i \in 1..jobs.len
      BY <1>3, <1>4, <3>1, <3>2
    <3>3. CASE i = jobs'.len
      <4>1. Slot(i)' = aitem[a]
        BY <3>1, <3>3 DEF Slot
      <4> QED
        BY <4>1 DEF StorageInv, NumberInv
    <3> QED
      BY <1>0, <3>1, <3>2, <3>3
  <2>4. ASSUME NEW p, p.arr \in 1..Len(arrays), p.idx \in 1..Len(arrays[p.arr]),
               Mark(p), jobs' = jobs, Hides(At(p).job) \/ p.arr # jobs.arr \/ p.idx # i
        PROVE  Hides(Slot(i)'.job)
    <3>1. i \in 1..jobs.len /\ i \in 1..Len(arrays[jobs.arr])
      BY <1>0, <2>4
    <3>2. \A n \in 1..Len(arrays) : \A k \in 1..Len(arrays[n]) :
            /\ arrays'[n][k].job = arrays[n][k].job
            /\ n # p.arr \/ k # p.idx => arrays'[n][k] = arrays[n][k]
      <4>1. ArrayType /\ p.arr \in 1..Len(arrays) /\ p.idx \in 1..Len(arrays[p.arr]) /\ Mark(p)
        BY <1>0, <2>4
      <4> HIDE <1>0, <2>4
      <4> QED
        BY <4>1, MarkEffect
    <3>3. CASE p.arr = jobs.arr /\ p.idx = i
      <4>1. Slot(i)'.job = At(p).job
        BY <1>0, <2>4, <3>1, <3>2, <3>3 DEF At, Slot
      <4> QED
        BY <2>4, <3>3, <4>1
    <3>4. CASE ~(p.arr = jobs.arr /\ p.idx = i)
      <4>1. arrays'[jobs.arr][i] = arrays[jobs.arr][i]
        BY <1>0, <3>1, <3>2, <3>4
      <4>2. Slot(i)' = Slot(i)
        BY <2>4, <4>1 DEF Slot
      <4> QED
        BY <1>3, <1>4, <3>1, <4>2
    <3> QED
      BY <3>3, <3>4
  <2>5. CASE FindRemoved
    <3>1. Mark(ptr) /\ rows' = rows /\ jobs' = jobs /\ wpc = "find"
      BY <2>5 DEF FindRemoved, tableVars
    <3>2. Names(ptr) /\ AtFront
      BY <3>1, WorkerSettled DEF Busy, FrontInv, Settled
    <3>3. ptr.arr \in 1..Len(arrays) /\ ptr.idx \in 1..Len(arrays[ptr.arr])
      BY <3>2 DEF Names, Pointers
    <3>4. Hides(At(ptr).job)
      BY <3>1, <3>2 DEF ListedInv, AtFront, Hides
    <3> QED
      BY <2>4, <3>1, <3>3, <3>4
  <2>6. ASSUME NEW c \in Cancellers, MarkDeleted(c)
        PROVE  Hides(Slot(i)'.job)
    <3>1. /\ Mark(cptr[c]) /\ jobs' = jobs /\ cpc[c] = "mark" /\ cid' = cid
          /\ cpc' = [cpc EXCEPT ![c] = "row"]
          /\ strays' = IF c \in shifted THEN strays \cup {At(cptr[c]).job} ELSE strays
      BY <2>6 DEF MarkDeleted
    <3>2. Names(cptr[c])
      BY <3>1 DEF StorageInv, PointerInv
    <3>3. cptr[c].arr \in 1..Len(arrays) /\ cptr[c].idx \in 1..Len(arrays[cptr[c].arr])
      BY <3>2 DEF Names, Pointers
    <3>4. c \notin shifted => At(cptr[c]).job = cid[c]
      BY <3>1 DEF HolderInv, Holders
    <3>5. cpc'[c] = "row"
      BY <3>1 DEF StorageInv, CancelType
    <3>6. Hides(At(cptr[c]).job)
      BY <3>1, <3>4, <3>5 DEF Hides
    <3> QED
      BY <2>4, <3>1, <3>3, <3>6
  <2> QED
    BY <1>4, <2>1, <2>2, <2>3, <2>5, <2>6, ChangesSlice
<1> QED
    BY <1>1, <1>2, <1>4

\* A cancel that holds a pointer no removal has reached has just found it or
\* has held it before.
LEMMA HolderKept ==
    ASSUME StorageInv, [Next]_vars, ~Restart, ~RemoveFound, NEW c \in Holders' \ shifted'
    PROVE  \/ FindJob(c)
           \/ c \in Holders \ shifted /\ cptr'[c] = cptr[c] /\ cid'[c] = cid[c]
<1>0. /\ c \in Cancellers /\ cpc'[c] \in {"cancel", "mark"} /\ c \notin shifted'
      /\ cpc \in [Cancellers -> {"idle", "cancel", "mark", "row", "done"}]
      /\ cid \in [Cancellers -> 0..MaxJobs]
      /\ cptr \in [Cancellers -> [arr : Nat, idx : Nat] \cup {None}]
    BY DEF Holders, StorageInv, CancelType
<1>1. CASE UNCHANGED cancVars \/ UseCurrent
    BY <1>0, <1>1 DEF cancVars, UseCurrent, Holders
<1>2. ASSUME NEW d \in Cancellers, Cancel(d)
      PROVE  \/ FindJob(c)
             \/ c \in Holders \ shifted /\ cptr'[c] = cptr[c] /\ cid'[c] = cid[c]
  <2>1. CASE FindJob(d)
    BY <1>0, <2>1 DEF FindJob, Holders
  <2>2. CASE CancelFound(d)
    BY <1>0, <2>2 DEF CancelFound, Holders
  <2>3. CASE MarkDeleted(d)
    BY <1>0, <2>3 DEF MarkDeleted, Holders
  <2>4. CASE DeleteCancelledRow(d)
    BY <1>0, <2>4 DEF DeleteCancelledRow, Holders
  <2> QED
    BY <1>2, <2>1, <2>2, <2>3, <2>4 DEF Cancel
<1> QED
    BY <1>1, <1>2, ChangesCancels DEF CancelStep

\* FindJob on a slice that is sorted.
LEMMA FindInOrder ==
    ASSUME StorageInv, NEW c \in Cancellers, FindJob(c), c \notin shifted'
    PROVE  /\ UNCHANGED <<arrays, jobs>> /\ Ascending
           /\ cptr'[c].arr = jobs.arr /\ cptr'[c].idx \in 1..jobs.len
           /\ Slot(cptr'[c].idx).job = cid'[c]
<1>0. ArrayType /\ jobs.len \in Nat
    BY DEF StorageInv, ArrayType
<1>1. PICK id \in JobIds :
        /\ IndexOf(id) # 0
        /\ cid' = [cid EXCEPT ![c] = id]
        /\ cptr' = [cptr EXCEPT ![c] = [arr |-> jobs.arr, idx |-> IndexOf(id)]]
    BY DEF FindJob
<1>2. cid'[c] = id /\ cptr'[c] = [arr |-> jobs.arr, idx |-> IndexOf(id)]
    BY <1>1 DEF StorageInv, CancelType
<1>3. IndexOf(id) \in 1..jobs.len /\ Slot(IndexOf(id)).job = id
    BY <1>0, <1>1, IndexOfFirst
<1>4. InOrder(Slots(jobs)) /\ UNCHANGED <<arrays, jobs>>
    BY Zenon DEF FindJob
<1>5. Ascending
    BY <1>0, <1>4, SlotsAreItems DEF InOrder, Ascending
<1> QED
    BY <1>2, <1>3, <1>4, <1>5

LEMMA HolderStep ==
    ASSUME StorageInv, KeysInv, HolderInv, [Next]_vars, ~disorder'
    PROVE  HolderInv'
<1> SUFFICES ASSUME NEW c \in Holders' \ shifted'
             PROVE  /\ Ascending'
                    /\ arrays'[cptr'[c].arr][cptr'[c].idx].job = cid'[c]
                    /\ cptr'[c].arr = jobs'.arr => cptr'[c].idx <= jobs'.len
    BY DEF HolderInv, At
<1>0. c \in Cancellers /\ cpc'[c] \in {"cancel", "mark"}
    BY DEF Holders
<1>1. ~Restart
  <2>1. Restart => cpc'[c] \in {"idle", "done"}
    BY <1>0 DEF Restart
  <2> QED
    BY <1>0, <2>1
<1>2. ~RemoveFound
    BY DEF RemoveFound, Holders
<1>3. CASE FindJob(c)
    BY <1>0, <1>3, FindInOrder DEF Ascending, Slot, StorageInv, ArrayType
<1>4. CASE c \in Holders \ shifted /\ cptr'[c] = cptr[c] /\ cid'[c] = cid[c]
  <2>1. /\ Ascending /\ At(cptr[c]).job = cid[c]
        /\ cptr[c].arr = jobs.arr => cptr[c].idx <= jobs.len
    BY <1>4 DEF HolderInv
  <2>2. Names(cptr[c])
    BY <1>0, <1>4 DEF StorageInv, PointerInv, Holders
  <2>3. Settled(cptr[c])
    BY <2>1, <2>2 DEF Settled
  <2>4. /\ Ascending' /\ (cptr[c].arr = jobs'.arr => cptr[c].idx <= jobs'.len)
        /\ arrays'[cptr[c].arr][cptr[c].idx].job = At(cptr[c]).job
    <3>1. ASSUME NEW p, Settled(p)
          PROVE  /\ p.arr = jobs'.arr => p.idx <= jobs'.len
                 /\ arrays'[p.arr][p.idx].job = At(p).job
      <4>1. Settled(p)' /\ SameItem(arrays'[p.arr][p.idx], arrays[p.arr][p.idx])
        BY <1>1, <1>2, <2>1, <3>1, SortedStays
      <4> QED
        BY <4>1 DEF Settled, SameItem, At
    <3> QED
      BY <1>1, <1>2, <2>1, <2>3, <3>1, SortedStays
  <2> QED
    BY <1>4, <2>1, <2>4
<1> QED
    BY <1>1, <1>2, <1>3, <1>4, HolderKept

\* Every item but the one that is removed stays in the slice.
LEMMA ItemKept ==
    ASSUME StorageInv, FrontInv, [Next]_vars, ~Restart, NEW k \in 1..jobs.len,
           RemoveFound => Slot(k).job # item.job
    PROVE  \E i \in 1..jobs'.len : Slot(i)'.job = Slot(k).job
<1>1. CASE RemoveFound
    BY <1>1, RemovesFront
<1>2. CASE Permuted
  <2>1. PICK p \in [1..jobs.len -> 1..jobs.len] :
            /\ \A j \in 1..jobs.len : \E i \in 1..jobs.len : p[i] = j
            /\ \A i \in 1..jobs.len : arrays'[jobs.arr][i].job = Slot(p[i]).job
    BY <1>2 DEF Permuted
  <2>2. PICK i \in 1..jobs.len : p[i] = k
    BY <2>1
  <2> QED
    BY <1>2, <2>1, <2>2 DEF Permuted, Slot
<1>3. ASSUME NEW a \in Adders, AppendItem(a)
      PROVE  \E i \in 1..jobs'.len : Slot(i)'.job = Slot(k).job
  <2>1. jobs'.len = jobs.len + 1 /\ Slot(k)' = Slot(k) /\ jobs.len \in Nat
    BY <1>3, AppendedSlots DEF StorageInv, ArrayType
  <2> QED
    BY <2>1
<1> QED
    BY <1>1, <1>2, <1>3, SliceStep

LEMMA ListedStep ==
    ASSUME StorageInv, AddedInv, FrontInv, ListedInv, [Next]_vars, ~disorder'
    PROVE  ListedInv'
<1>1. ASSUME NEW r \in rows', r.job \in added' \ ignored'
      PROVE  r.id = r.job /\ \E i \in 1..jobs'.len : Slot(i)'.job = r.job
  <2>1. CASE Restart
    <3>1. PICK f : Loads(f)
      BY <2>1, RestartSlots
    <3>2. r \in rows
      BY <2>1 DEF Restart, tableVars
    <3>3. PICK i \in 1..jobs'.len : f[i] = r
      BY <1>1, <3>1, <3>2 DEF Loads
    <3> QED
      BY <3>1, <3>3 DEF Loads
  <2>2. CASE ~Restart
    <3>0. ignored' = ignored
      BY <2>2, AddedGrows
    <3>1. ASSUME NEW q \in rows, r.job = q.job, r.id = q.id, r.job \in added
          PROVE  r.id = r.job /\ \E i \in 1..jobs'.len : Slot(i)'.job = r.job
      <4>1. q.id = q.job /\ \E k \in 1..jobs.len : Slot(k).job = q.job
        BY <1>1, <3>0, <3>1 DEF ListedInv
      <4>2. RemoveFound => q.job # item.job
        BY DEF ListedInv, RemoveFound
      <4> QED
        BY <2>2, <3>1, <4>1, <4>2, ItemKept
    <3>2. ASSUME NEW q \in rows, r.job = q.job, r.id = q.id, r.job \notin added
          PROVE  r.id = r.job /\ \E i \in 1..jobs'.len : Slot(i)'.job = r.job
      <4>1. PICK a \in Adders : AppendItem(a) /\ r.job = aitem[a].job
        BY <1>1, <2>2, <3>2, AddedGrows
      <4>2. aitem[a].id = aitem[a].job
        BY <4>1, AppendInOrder
      <4>3. a \in Pending \ Inserting
        BY <4>1 DEF AppendItem, Pending, Inserting
      <4>4. q.id = aitem[a].id
        BY <3>2, <4>1, <4>3 DEF StorageInv, RowInv
      <4>5. jobs'.len = jobs.len + 1 /\ Slot(jobs.len)' = aitem[a] /\ jobs.len \in Nat
        BY <4>1, AppendedSlots DEF StorageInv, ArrayType
      <4>6. jobs'.len \in 1..jobs'.len /\ arrays'[jobs'.arr][jobs'.len].job = r.job
        BY <4>1, <4>5 DEF Slot
      <4> QED
        BY <3>2, <4>1, <4>2, <4>4, <4>6 DEF Slot
    <3>3. ASSUME NEW a \in Adders, InsertItem(a), r.job = aitem[a].job
          PROVE  FALSE
      <4>1. added' = added /\ a \in Pending
        BY <3>3 DEF InsertItem, noteVars, Pending
      <4> QED
        BY <1>1, <3>3, <4>1 DEF AddedInv
    <3> QED
      BY <3>1, <3>2, <3>3, RowOrigin
  <2> QED
    BY <2>1, <2>2
<1>2. ASSUME wpc' \in {"find", "remove"}, NEW r \in rows'
      PROVE  r.job # item'.job
  <2>1. CASE DeleteRow
    <3>1. Busy /\ rows' = {q \in rows : q.id # At(ptr).id} /\ item' = item
      BY <2>1 DEF DeleteRow, Busy
    <3>2. 1 \in 1..jobs.len /\ Slot(1).job = item.job /\ At(ptr).id = item.job
      BY <3>1, WorkerSettled DEF FrontInv, AtFront
    <3>3. item.job \in added \ ignored
      BY <3>2 DEF AddedInv
    <3>4. r \in rows /\ r.id # item.job
      BY <3>1, <3>2
    <3> QED
      BY <3>1, <3>3, <3>4 DEF ListedInv
  <2>2. CASE wpc \in {"find", "remove"} /\ item' = item
    <3>1. \A q \in rows : q.job # item.job
      BY <2>2 DEF ListedInv
    <3>2. Busy
      BY <2>2 DEF Busy
    <3>3. 1 \in 1..jobs.len /\ Slot(1).job = item.job
      BY <3>2, WorkerSettled DEF FrontInv, AtFront
    <3>4. \A a \in Adders : InsertItem(a) => aitem[a].job # item.job
      BY <3>3 DEF InsertItem, Pending, StorageInv, NumberInv
    <3> QED
      BY <2>2, <3>1, <3>4, RowOrigin
  <2>3. DeleteRow \/ (wpc \in {"find", "remove"} /\ item' = item)
    <3>1. RemoveFound => wpc' = "again"
      BY RemovesFront
    <3>2. TakeFirst \/ LoadItem \/ StartRun \/ RunReturns \/ RunAgain \/ Restart =>
            wpc' \notin {"find", "remove"}
      BY DEF TakeFirst, LoadItem, StartRun, RunReturns, RunAgain, Restart
    <3>3. FindRemoved => wpc = "find" /\ item' = item
      BY DEF FindRemoved
    <3>4. UNCHANGED workVars => wpc' = wpc /\ item' = item
      BY DEF workVars
    <3> QED
      BY <1>2, <3>1, <3>2, <3>3, <3>4, ChangesWorker DEF Worker
  <2> QED
    BY <2>1, <2>2, <2>3
<1> QED
    BY <1>1, <1>2 DEF ListedInv

\* Once stop has sent its token the worker starts at most one more run.
LEMMA StopStep ==
    ASSUME StorageInv, ~disorder => FrontInv, StopInv, [Next]_vars
    PROVE  StopInv'
<1>0. /\ lateRuns \in Nat /\ token \in BOOLEAN /\ (running # None <=> wpc = "running")
      /\ (running' # None <=> wpc' = "running") /\ (ptr = None <=> wpc \in {"idle", "again", "stopped"})
      /\ spc \in {"up", "test", "use", "exit", "down", "panicked"}
    BY StorageStep DEF StorageInv, StopType, WorkerType, PointerInv
<1>1. disorder => disorder'
    BY AddedGrows
<1>2. CASE UNCHANGED <<workVars, stopVars>> /\ cancelled \subseteq cancelled'
    BY <1>1, <1>2 DEF StopInv, workVars, stopVars
<1>3. CASE Restart
    BY <1>3 DEF Restart, StopInv
<1>4. CASE TakeFirst
    BY <1>0, <1>4 DEF TakeFirst, stopVars, StopInv
<1>5. CASE LoadItem
    BY <1>0, <1>5 DEF LoadItem, stopVars, StopInv
<1>6. CASE StartRun
    BY <1>0, <1>6 DEF StartRun, StopInv
<1>7. CASE RunReturns
    BY <1>0, <1>7 DEF RunReturns, stopVars, StopInv
<1>8. CASE DeleteRow
    BY <1>0, <1>8 DEF DeleteRow, stopVars, StopInv
<1>9. CASE FindRemoved
    BY <1>0, <1>9 DEF FindRemoved, StopInv
<1>10. CASE RemoveFound
  <2>1. wpc = "remove" /\ wpc' \in {"again", "panicked"} /\ running' = running /\ UNCHANGED stopVars
    BY <1>10 DEF RemoveFound
  <2> QED
    BY <1>0, <2>1 DEF stopVars, StopInv
<1>11. CASE RunAgain
    BY <1>0, <1>11 DEF RunAgain, TokenSeen, StopInv
<1>12. CASE SendToken
    BY <1>0, <1>1, <1>12 DEF SendToken, workVars, noteVars, StopInv
<1>13. CASE TestCurrent
    BY <1>0, <1>1, <1>13 DEF TestCurrent, workVars, noteVars, StopInv
<1>14. CASE UseCurrent
  <2>1. /\ spc = "use" /\ spc' \in {"exit", "panicked"} /\ UNCHANGED <<workVars, noteVars>>
        /\ token' = token /\ lateRuns' = lateRuns /\ currJob' = currJob
    BY <1>14 DEF UseCurrent
  <2>2. ASSUME ~disorder', spc' = "exit", running' # None, lateRuns' # 1
        PROVE  running' \in cancelled'
    <3>1. ~disorder /\ wpc = "running" /\ lateRuns = 0 /\ running' = running
      BY <1>0, <2>1, <2>2 DEF noteVars, workVars, StopInv
    <3>2. sptr = currJob /\ currJob = ptr
      BY <2>1, <3>1 DEF StopInv
    <3>3. cancelled' = cancelled \cup {At(ptr).job}
      BY <1>14, <2>2, <3>2 DEF UseCurrent, CancelCurrent
    <3>4. At(ptr).job = item.job /\ running = item.job
      BY <3>1 DEF FrontInv, AtFront, Busy
    <3> QED
      BY <3>1, <3>3, <3>4
  <2> QED
    BY <1>0, <2>1, <2>2 DEF workVars, StopInv
<1>15. CASE Exit
    BY <1>0, <1>15 DEF Exit, workVars, noteVars, cancVars, StopInv
<1>16. CASE \E a \in Adders : Add(a)
    BY <1>2, <1>16 DEF Add, CreateJob, InsertItem, SavePosition, AppendItem, ReplyPosition, cancVars
<1>17. CASE \E c \in Cancellers : Cancel(c)
    BY <1>2, <1>17 DEF Cancel, FindJob, CancelFound, MarkDeleted, DeleteCancelledRow
<1>18. CASE UNCHANGED vars
    BY <1>2, <1>18 DEF vars, cancVars
<1> QED
    BY <1>3, <1>4, <1>5, <1>6, <1>7, <1>8, <1>9, <1>10, <1>11, <1>12, <1>13, <1>14, <1>15,
       <1>16, <1>17, <1>18 DEF Next, Worker, Shutdown

LEMMA OrderInit == Init => OrderInv /\ StopInv
<1> SUFFICES ASSUME Init PROVE OrderInv /\ StopInv
    OBVIOUS
<1>1. jobs.len = 0 /\ 1..0 = {}
    BY DEF Init
<1>2. Holders = {} /\ Pending = {} /\ ~Busy /\ wpc = "idle" /\ rows = {}
    BY DEF Init, Holders, Pending, Busy
<1>3. \A j \in JobIds : runs[j] = 0
    BY DEF Init
<1>4. FrontInv
    BY <1>1, <1>2 DEF FrontInv, KeysInv
<1>5. RunsInv /\ HiddenInv /\ HolderInv /\ ListedInv
    BY <1>1, <1>2, <1>3 DEF RunsInv, HiddenInv, HolderInv, ListedInv
<1>6. StopInv
    BY DEF Init, StopInv
<1> QED
    BY <1>4, <1>5, <1>6 DEF OrderInv

LEMMA OrderStep ==
    ASSUME StorageInv, AddedInv, OrderInv, [Next]_vars
    PROVE  OrderInv'
<1> SUFFICES ASSUME ~disorder'
             PROVE  FrontInv' /\ RunsInv' /\ HiddenInv' /\ HolderInv' /\ ListedInv'
    BY DEF OrderInv
<1>1. FrontInv /\ RunsInv /\ HiddenInv /\ HolderInv /\ ListedInv
    BY AddedGrows DEF OrderInv
<1> QED
    BY <1>1, FrontStep, RunsStep, HiddenStep, HolderStep, ListedStep DEF FrontInv

LEMMA InvariantStep == IInv /\ [Next]_vars => IInv'
<1> SUFFICES ASSUME IInv, [Next]_vars PROVE IInv'
    OBVIOUS
<1>1. StorageInv /\ AddedInv /\ OrderInv /\ StopInv /\ (~disorder => FrontInv)
    BY DEF IInv, OrderInv
<1> QED
    BY <1>1, StorageStep, AddedStep, OrderStep, StopStep DEF IInv

\* The inductive invariant: storage, the order of the queue and the shutdown.
THEOREM InvariantCorrect == Spec => []IInv
<1>1. Init => IInv
    BY StorageInit, AddedInit, OrderInit DEF IInv
<1> QED
    BY <1>1, InvariantStep, PTL DEF Spec

(***************************************************************************)
(* The safety properties                                                   *)
(***************************************************************************)

\* PointerStaysOnItem: the pointer jqi of the worker, into a slice that appends
\* move and handlers sort meanwhile, stays on the item the worker took.
THEOREM PointerCorrect == Spec => []PointerStaysOnItem
<1>1. IInv => PointerStaysOnItem
  <2> SUFFICES ASSUME IInv, ~disorder, ptr # None
               PROVE  At(ptr).id = item.id /\ At(ptr).job = item.job
    BY DEF PointerStaysOnItem
  <2>1. Busy
    BY DEF IInv, StorageInv, WorkerType, PointerInv, Busy
  <2>2. AtFront
    BY <2>1 DEF IInv, OrderInv, FrontInv
  <2> QED
    BY <2>2 DEF AtFront
<1> QED
    BY <1>1, InvariantCorrect, PTL

\* RemovesWhatItRan: RemoveJob finds the item whose run has ended, never
\* indexes the slice with -1, and no job is run twice in one process.
THEOREM RemovesCorrect == Spec => []RemovesWhatItRan
<1>1. IInv => RemovesWhatItRan
  <2> SUFFICES ASSUME IInv, ~disorder
               PROVE  /\ wpc = "remove" => found # 0 /\ Slots(jobs)[found].id = item.id
                      /\ wpc # "panicked"
                      /\ crashes = 0 => \A j \in JobIds : runs[j] <= 1
    BY DEF RemovesWhatItRan
  <2>1. StorageInv /\ ArrayType /\ FrontInv /\ RunsInv
    BY DEF IInv, OrderInv, StorageInv
  <2>2. ASSUME wpc = "remove"
        PROVE  found # 0 /\ Slots(jobs)[found].id = item.id
    <3>1. AtFront /\ 1 \in 1..jobs.len /\ found = 1
      BY <2>1, <2>2, WorkerSettled DEF Busy, FrontInv
    <3>2. Slots(jobs)[1] = Slot(1)
      BY <2>1, <3>1, SlotsAreItems
    <3>3. Slot(1).id = Slot(1).job
      BY <2>1, <3>1 DEF FrontInv, KeysInv
    <3> QED
      BY <3>1, <3>2, <3>3 DEF AtFront
  <2> QED
    BY <2>1, <2>2 DEF FrontInv, RunsInv
<1> QED
    BY <1>1, InvariantCorrect, PTL

\* HiddenOnlyAtEnd: GetJobs hides an item only when its row is gone or is about
\* to be deleted by the cancel of its job, or after a mark that a removal led astray.
THEOREM HiddenCorrect == Spec => []HiddenOnlyAtEnd
<1>1. IInv => HiddenOnlyAtEnd
  <2> SUFFICES ASSUME IInv, ~disorder, NEW i \in 1..jobs.len, Slots(jobs)[i].deleted
               PROVE  Hideable(Slots(jobs)[i].job)
    BY DEF HiddenOnlyAtEnd, Hideable
  <2>1. ArrayType /\ HiddenInv
    BY DEF IInv, OrderInv, StorageInv
  <2>2. Slots(jobs)[i] = Slot(i)
    BY <2>1, SlotsAreItems
  <2> QED
    BY <2>1, <2>2 DEF HiddenInv
<1> QED
    BY <1>1, InvariantCorrect, PTL

\* CancelsRequestedJob: what FindJob returned to cancelJob still is the item of
\* the requested job when cancelJob uses it, unless a removal came between.
THEOREM CancelCorrect == Spec => []CancelsRequestedJob
<1>1. IInv => CancelsRequestedJob
    BY DEF IInv, OrderInv, HolderInv, CancelsRequestedJob
<1> QED
    BY <1>1, InvariantCorrect, PTL

\* ShutdownStopsQueue: after stop at most one more run starts, and a job that
\* still runs when stop is through has been cancelled or is that one.
THEOREM ShutdownCorrect == Spec => []ShutdownStopsQueue
<1>1. IInv => ShutdownStopsQueue
    BY DEF IInv, StopInv, ShutdownStopsQueue
<1> QED
    BY <1>1, InvariantCorrect, PTL

(***************************************************************************)
(* The queue implements JobLifecycle                                       *)
(***************************************************************************)
LEMMA QueuedJobs ==
    ASSUME StorageInv, [Next]_vars
    PROVE  /\ Queued = {Slot(i).job : i \in 1..jobs.len}
           /\ Queued' = {Slot(i)'.job : i \in 1..jobs'.len}
           /\ Queued \subseteq JobIds /\ Queued' \subseteq JobIds
<1>1. /\ arrays[jobs.arr] \in Seq(Items) /\ jobs.len \in 0..Len(arrays[jobs.arr])
      /\ \A i \in 1..jobs.len : Slot(i).job \in JobIds
    BY DEF StorageInv, ArrayType, PointerInv
<1>2. /\ arrays'[jobs'.arr] \in Seq(Items) /\ jobs'.len \in 0..Len(arrays'[jobs'.arr])
      /\ \A i \in 1..jobs'.len : Slot(i)'.job \in JobIds
    BY StorageStep DEF StorageInv, ArrayType, PointerInv
<1>3. \A i \in 1..jobs.len : Slots(jobs)[i] = Slot(i)
    BY <1>1 DEF Slots, Slot
<1>4. \A i \in 1..jobs'.len : Slots(jobs)'[i] = Slot(i)'
    BY <1>2 DEF Slots, Slot
<1>5. Queued = {Slot(i).job : i \in 1..jobs.len}
    BY <1>3 DEF Queued
<1>6. Queued' = {Slot(i)'.job : i \in 1..jobs'.len}
    BY <1>4 DEF Queued
<1> QED
    BY <1>1, <1>2, <1>5, <1>6

\* The active job is the front one.
LEMMA ActiveQueued ==
    ASSUME StorageInv, FrontInv, AddedInv, [Next]_vars
    PROVE  /\ None \notin JobIds /\ Queued \subseteq added /\ added \subseteq JobIds
           /\ Busy => Active = item.job /\ Active \in Queued
           /\ ~Busy => Active = None
<1>1. None \notin JobIds /\ added \subseteq JobIds
    BY NoneAssumption, MaxJobsAssumption DEF JobIds, StorageInv, NoteType
<1>2. Queued \subseteq added
    BY QueuedJobs DEF AddedInv
<1>3. Busy => Active = item.job /\ Active \in Queued
    BY WorkerSettled, QueuedJobs DEF Active, Busy, FrontInv, AtFront
<1>4. ~Busy => Active = None
    BY DEF Active, Busy
<1> QED
    BY <1>1, <1>2, <1>3, <1>4

LEMMA QueueSubmits ==
    ASSUME StorageInv, FrontInv, AddedInv, [Next]_vars, NEW a \in Adders, AppendItem(a)
    PROVE  Lifecycle!Submit
<1> DEFINE j == aitem[a].job
<1>1. j \in JobIds /\ j \notin added
  <2>1. a \in Pending
    BY DEF AppendItem, Pending
  <2> QED
    BY <2>1, PendingJob DEF AddedInv
<1>2. Queued' = Queued \cup {j}
  <2>1. /\ jobs'.len = jobs.len + 1 /\ jobs.len \in Nat
        /\ \A i \in 1..jobs.len : Slot(i)' = Slot(i)
        /\ arrays'[jobs'.arr][jobs'.len] = aitem[a]
    BY AppendedSlots DEF Slot, StorageInv, ArrayType
  <2>2. Queued' \subseteq Queued \cup {j}
    <3>1. ASSUME NEW i \in 1..jobs'.len
          PROVE  Slot(i)'.job \in {Slot(k).job : k \in 1..jobs.len} \cup {j}
      <4>1. CASE i \in 1..jobs.len
        BY <2>1, <4>1
      <4>2. CASE i = jobs'.len
        BY <2>1, <4>2 DEF Slot
      <4> QED
        BY <2>1, <4>1, <4>2
    <3> QED
      BY <3>1, QueuedJobs
  <2>3. Queued \subseteq Queued'
    BY <2>1, QueuedJobs
  <2>4. j \in Queued'
    <3>1. jobs'.len \in 1..jobs'.len
      BY <2>1
    <3>2. \A i \in 1..jobs'.len : Slot(i)'.job \in Queued'
      BY QueuedJobs
    <3>3. \A i \in 1..jobs'.len : i = jobs'.len => Slot(i)'.job = j
      BY <2>1 DEF Slot
    <3> QED
      BY <3>1, <3>2, <3>3
  <2> QED
    BY <2>2, <2>3, <2>4
<1>3. Active' = Active /\ added' = added \cup {j} /\ crashes' = crashes
    BY DEF AppendItem, workVars, Active
<1>4. j # Active /\ j \notin Queued
    BY <1>1, ActiveQueued
<1> HIDE DEF j
<1>5. Queued' \ {Active'} = (Queued \ {Active}) \cup {j}
    BY <1>2, <1>3, <1>4
<1>6. added' \ (Queued' \cup {Active'}) = added \ (Queued \cup {Active})
    BY <1>1, <1>2, <1>3, <1>4
<1>7. j \in JobIds \ ((Queued \ {Active}) \cup (added \ (Queued \cup {Active})) \cup {Active})
    BY <1>1, <1>4
<1> QED
    BY <1>3, <1>5, <1>6, <1>7 DEF Lifecycle!Submit

LEMMA QueueStarts ==
    ASSUME StorageInv, FrontInv, AddedInv, [Next]_vars, ~disorder', TakeFirst
    PROVE  Lifecycle!Start
<1>0. /\ ~Busy /\ Busy' /\ added' = added /\ crashes' = crashes /\ jobs' = jobs
    BY DEF TakeFirst, Busy, noteVars
<1>1. AtFront' /\ KeysInv'
    BY <1>0, FrontStep DEF FrontInv
<1>2. Queued' = Queued
  <2>1. SortPosition /\ jobs' = jobs
    BY DEF TakeFirst, SortFirst
  <2>2. PICK p \in [1..jobs.len -> 1..jobs.len] :
            /\ \A k \in 1..jobs.len : \E i \in 1..jobs.len : p[i] = k
            /\ \A i \in 1..jobs.len : arrays'[jobs.arr][i] = Slot(p[i])
    BY <2>1, SortEffect, Zenon DEF StorageInv
  <2>3. \A i \in 1..jobs.len : Slot(i)' = Slot(p[i])
    BY <2>1, <2>2 DEF Slot
  <2>4. \A i \in 1..jobs.len : p[i] \in 1..jobs.len /\ Slot(i)'.job = Slot(p[i]).job
    BY <2>2, <2>3
  <2>5. \A k \in 1..jobs.len : \E i \in 1..jobs.len : Slot(i)'.job = Slot(k).job
    <3> TAKE k \in 1..jobs.len
    <3>1. PICK i \in 1..jobs.len : p[i] = k
      BY <2>2
    <3> QED
      BY <2>3, <3>1
  <2>6. Queued' \subseteq Queued
    BY <2>1, <2>4, QueuedJobs
  <2>7. Queued \subseteq Queued'
    BY <2>1, <2>5, QueuedJobs
  <2> QED
    BY <2>6, <2>7
<1>3. Active = None /\ Active' = item'.job
    BY <1>0, ActiveQueued DEF Active, Busy
<1>4. item'.job \in Queued'
  <2>1. 1 \in 1..jobs'.len
    BY <1>1, StorageStep DEF AtFront, StorageInv, ArrayType
  <2> QED
    BY <1>1, <2>1, QueuedJobs DEF AtFront
<1>5. ASSUME NEW k \in Queued'
      PROVE  item'.job <= k
  <2>1. PICK i \in 1..jobs'.len : k = Slot(i)'.job
    BY QueuedJobs
  <2>0. jobs'.len \in Nat /\ jobs'.len >= 1 /\ 1 \in 1..jobs'.len
    BY <1>1, StorageStep DEF AtFront, StorageInv, ArrayType
  <2>5. k \in Nat
    BY QueuedJobs DEF JobIds
  <2>2. Slot(1)'.pos = item'.job /\ Slot(i)'.pos = k
    BY <1>1, <2>0, <2>1 DEF AtFront, KeysInv
  <2>3. CASE i = 1
    BY <2>2, <2>3, <2>5
  <2>4. CASE i # 1
    <3>1. 1 \in 1..jobs'.len /\ 1 < i
      BY <2>0, <2>1, <2>4
    <3> QED
      BY <1>1, <2>1, <2>2, <3>1 DEF AtFront, Ascending
  <2> QED
    BY <2>3, <2>4
<1>6. None \notin JobIds /\ Queued \subseteq added /\ added \subseteq JobIds
    BY ActiveQueued
<1>7. Queued \ {Active} = Queued /\ Queued' \ {Active'} = (Queued \ {Active}) \ {item'.job}
    BY <1>2, <1>3, <1>6
<1>8. added' \ (Queued' \cup {Active'}) = added \ (Queued \cup {Active})
    BY <1>0, <1>2, <1>3, <1>4, <1>6
<1> QED
    BY <1>0, <1>2, <1>3, <1>4, <1>5, <1>7, <1>8 DEF Lifecycle!Start

LEMMA QueueEnds ==
    ASSUME StorageInv, FrontInv, AddedInv, [Next]_vars, RemoveFound
    PROVE  Lifecycle!End
<1>0. Busy /\ ~Busy' /\ added' = added /\ crashes' = crashes /\ wpc' = "again"
    BY RemovesFront DEF RemoveFound, Busy, noteVars
<1>1. /\ None \notin JobIds /\ Queued \subseteq added /\ added \subseteq JobIds
      /\ Active = item.job /\ Active \in Queued
    BY <1>0, ActiveQueued
<1>2. Queued' = Queued \ {item.job}
  <2>1. Queued' \subseteq Queued \ {item.job}
    BY RemovesFront, QueuedJobs
  <2>2. Queued \ {item.job} \subseteq Queued'
    BY RemovesFront, QueuedJobs
  <2> QED
    BY <2>1, <2>2
<1>3. Active' = None
    BY <1>0 DEF Active
<1>4. added' \ (Queued' \cup {Active'}) = (added \ (Queued \cup {Active})) \cup {Active}
    BY <1>0, <1>1, <1>2, <1>3
<1>5. Queued' \ {Active'} = Queued \ {Active}
    BY <1>1, <1>2, <1>3
<1> QED
    BY <1>0, <1>1, <1>3, <1>4, <1>5 DEF Lifecycle!End

LEMMA QueueRestarts ==
    ASSUME StorageInv, FrontInv, AddedInv, ListedInv, [Next]_vars, Restart
    PROVE  Lifecycle!Restart
<1>1. /\ None \notin JobIds /\ Queued \subseteq added /\ added \subseteq JobIds
      /\ Active \in Queued \cup {None}
    BY ActiveQueued
<1>0. PICK f : Loads(f)
    BY RestartSlots
<1>2. /\ f \in [1..jobs'.len -> rows]
      /\ \A i \in 1..jobs'.len : Slot(i)'.job = f[i].job /\ f[i].job \notin ignored
      /\ added' = added \cup {f[i].job : i \in 1..jobs'.len}
    BY <1>0 DEF Loads
<1>3. Queued' = {f[i].job : i \in 1..jobs'.len} /\ Queued' \subseteq JobIds
    BY <1>2, QueuedJobs
<1>4. \A j \in Queued' : j \in added => j \in Queued
    BY <1>2, <1>3, QueuedJobs DEF ListedInv
<1>5. added' = added \cup Queued'
    BY <1>2, <1>3
<1>6. Active' = None /\ crashes' = crashes + 1
    BY DEF Restart, Active
<1> DEFINE gone == added \ (Queued \cup {Active})
<1>7. Queued' \ {Active'} \in SUBSET (JobIds \ gone)
    BY <1>3, <1>4
<1>8. added' \ (Queued' \cup {Active'}) = added \ Queued'
    BY <1>1, <1>3, <1>5, <1>6
<1>9. added \ Queued' =
        gone \cup (((Queued \ {Active}) \cup ({Active} \ {None})) \ (Queued' \ {Active'}))
    BY <1>1, <1>3, <1>4, <1>6
<1> QED
    BY <1>6, <1>7, <1>8, <1>9 DEF Lifecycle!Restart

LEMMA QueueStutters ==
    ASSUME StorageInv, FrontInv, AddedInv, [Next]_vars,
           ~Restart, ~TakeFirst, ~RemoveFound, \A a \in Adders : ~AppendItem(a)
    PROVE  UNCHANGED Lifecycle!lvars
<1>1. added' = added /\ crashes' = crashes
    BY ChangesNotes DEF noteVars
<1>2. Queued' = Queued
  <2>1. Permuted
    BY SliceStep
  <2>2. PICK p \in [1..jobs.len -> 1..jobs.len] :
            /\ \A k \in 1..jobs.len : \E i \in 1..jobs.len : p[i] = k
            /\ \A i \in 1..jobs.len : arrays'[jobs.arr][i].job = Slot(p[i]).job
    BY <2>1 DEF Permuted
  <2>3. jobs' = jobs /\ \A i \in 1..jobs.len : Slot(i)'.job = Slot(p[i]).job
    BY <2>1, <2>2 DEF Permuted, Slot
  <2>4. \A i \in 1..jobs.len : p[i] \in 1..jobs.len /\ Slot(i)'.job = Slot(p[i]).job
    BY <2>2, <2>3
  <2>5. \A k \in 1..jobs.len : \E i \in 1..jobs.len : Slot(i)'.job = Slot(k).job
    <3> TAKE k \in 1..jobs.len
    <3>1. PICK i \in 1..jobs.len : p[i] = k
      BY <2>2
    <3> QED
      BY <2>3, <3>1
  <2>6. Queued' \subseteq Queued
    <3>1. \A i \in 1..jobs'.len : Slot(i)'.job \in {Slot(k).job : k \in 1..jobs.len}
      BY <2>3, <2>4
    <3> QED
      BY <3>1, QueuedJobs
  <2>7. Queued \subseteq Queued'
    <3>1. \A k \in 1..jobs.len : Slot(k).job \in {Slot(i)'.job : i \in 1..jobs'.len}
      BY <2>3, <2>5
    <3> QED
      BY <3>1, QueuedJobs
  <2> QED
    BY <2>6, <2>7
<1>3. Active' = Active
  <2>1. LoadItem \/ StartRun \/ RunReturns \/ DeleteRow \/ FindRemoved => Busy /\ Busy' /\ item' = item
    BY DEF LoadItem, StartRun, RunReturns, DeleteRow, FindRemoved, Busy
  <2>2. RunAgain => ~Busy /\ ~Busy'
    BY DEF RunAgain, Busy
  <2> QED
    BY <2>1, <2>2, ChangesWorker DEF Worker, workVars, Active, Busy
<1> QED
    BY <1>1, <1>2, <1>3 DEF Lifecycle!lvars

\* KeepsLifecycle: until an item overtakes another or loses its number, each
\* step of the queue is a step of JobLifecycle or changes nothing in it.
THEOREM LifecycleImplemented == Spec => KeepsLifecycle
<1>1. Init => Lifecycle!Init
  <2> SUFFICES ASSUME Init PROVE Lifecycle!Init
    OBVIOUS
  <2>1. jobs.len = 0 /\ 1..0 = {}
    BY DEF Init
  <2>2. Queued = {} /\ Active = None /\ added = {} /\ crashes = 0
    BY <2>1 DEF Queued, Active, Init
  <2> QED
    BY <2>2 DEF Lifecycle!Init
<1>2. IInv /\ [Next]_vars => [disorder' \/ Lifecycle!Next]_(Lifecycle!lvars)
  <2> SUFFICES ASSUME IInv, [Next]_vars, ~disorder'
               PROVE  Lifecycle!Next \/ UNCHANGED Lifecycle!lvars
    OBVIOUS
  <2>1. StorageInv /\ AddedInv
    BY DEF IInv
  <2>2. FrontInv /\ ListedInv
    BY <2>1, AddedGrows DEF IInv, OrderInv
  <2>3. CASE Restart
    BY <2>1, <2>2, <2>3, QueueRestarts DEF Lifecycle!Next
  <2>4. CASE TakeFirst
    BY <2>1, <2>2, <2>4, QueueStarts DEF Lifecycle!Next
  <2>5. CASE RemoveFound
    BY <2>1, <2>2, <2>5, QueueEnds DEF Lifecycle!Next
  <2>6. ASSUME NEW a \in Adders, AppendItem(a)
        PROVE  Lifecycle!Next
    BY <2>1, <2>2, <2>6, QueueSubmits DEF Lifecycle!Next
  <2> QED
    BY <2>1, <2>2, <2>3, <2>4, <2>5, <2>6, QueueStutters
<1> QED
    BY <1>1, <1>2, InvariantCorrect, PTL DEF Spec, KeepsLifecycle
=============================================================================
