--------------------------- MODULE KvQueryProofs ----------------------------
(* Proofs about KvQuery, for every value of its constants: it is a database  *)
(* of KvDb, and without empty keys all its files are sorted, an iterator     *)
(* visits every entry once and in order from the beginning or from a key,    *)
(* and get returns the first value that was added.                           *)
EXTENDS KvQuery, KvDbProofs, WellFoundedInduction

-----------------------------------------------------------------------------
(* What is proved of KvDb holds of KvQuery.                                 *)

\* A step of KvQuery is a step of KvDb or leaves KvDb's variables alone.
LEMMA StepOfKvDb == ASSUME [NextQuery]_qvars PROVE [Next]_vars
<1>1. CASE MergeEntry
  BY <1>1 DEF MergeEntry
<1>2. CASE UNCHANGED qvars
  BY <1>2 DEF qvars
<1>3. CASE \E size \in EntrySizes, key \in Keys : AddQuery(size, key)
  BY <1>3 DEF AddQuery, Next
<1>4. CASE \E mode \in OpenModes : OpenQuery(mode)
  BY <1>4 DEF OpenQuery, Next
<1>5. CASE WriteFlushQuery \/ PlanMergeQuery \/ WriteMergeQuery \/ RemoveSourceQuery
  BY <1>5 DEF WriteFlushQuery, PlanMergeQuery, WriteMergeQuery, RemoveSourceQuery, Next, Step
<1>6. CASE OtherQuery
  BY <1>6 DEF OtherQuery, Other, Next, Step
<1> QED BY <1>1, <1>2, <1>3, <1>4, <1>5, <1>6 DEF NextQuery

\* Every behaviour of KvQuery is one of KvDb: the order of entries never decides
\* which files are written, merged or removed.
THEOREM QueryRefines == SpecQuery => Spec
<1>1. InitQuery => Init
  BY DEF InitQuery
<1>2. [NextQuery]_qvars => [Next]_vars
  BY StepOfKvDb
<1> QED BY <1>1, <1>2, PTL DEF SpecQuery, Spec

\* What is proved of KvDb, for use in the steps below.
LEMMA FromKvDb == SpecQuery => []TypeOK /\ []Consistent
<1>1. Spec => []TypeOK /\ []WholeInv
  BY TypeCorrect, AlwaysConsistent, PTL
<1>2. Spec => []Whole
  BY NeverTorn, QueryAssumption
<1>3. WholeInv /\ Whole => Consistent
  BY DEF WholeInv
<1> QED BY <1>1, <1>2, <1>3, QueryRefines, PTL

-----------------------------------------------------------------------------
(* Files are sorted.                                                        *)

Entry == 0..(added - 1)
SortedRun(s) == s \in Seq(Entry) /\ ByKey(s)

\* Every file is sorted; while a merge is under way, what it has written is, and
\* no source has an entry left that belongs before something written.
KeysOf == keyOf \in Seq(Keys) /\ Len(keyOf) = added
RunsSorted ==
  /\ ValidFiles(disk) \subseteq DOMAIN runs
  /\ \A f \in DOMAIN runs : SortedRun(runs[f])
MergeSorted ==
  pc = "merging" =>
    /\ \E n \in Nat : DOMAIN sources = 1..n
    /\ \A i \in DOMAIN sources :
         sources[i] \in DOMAIN runs /\ taken[i] \in 0..Len(runs[sources[i]])
    /\ DOMAIN taken = DOMAIN sources
    /\ SortedRun(out)
    /\ \A i \in DOMAIN sources : taken[i] < Len(runs[sources[i]]) =>
         \A k \in DOMAIN out : Key(out[k]) <= Key(Upcoming(i))

SortedInv == KeysOf /\ RunsSorted /\ MergeSorted

\* Every entry has one of the keys that may be added.
LEMMA KeyType ==
  ASSUME TypeOK, KeysOf, NEW e \in Entry
  PROVE  Key(e) \in Keys /\ Key(e) \in Nat
BY QueryAssumption DEF TypeOK, KeysOf, Entry, Key

\* Without empty keys the merge picks a source with the smallest upcoming key.
LEMMA SmallestIsLeast ==
  ASSUME TypeOK, SortedInv, Empty \notin Keys, pc = "merging", ~MergeOver
  PROVE  /\ Smallest \in DOMAIN sources /\ taken[Smallest] < Len(runs[sources[Smallest]])
         /\ \A j \in DOMAIN sources : taken[j] < Len(runs[sources[j]]) =>
              /\ Key(Upcoming(Smallest)) <= Key(Upcoming(j))
              /\ Key(Upcoming(Smallest)) = Key(Upcoming(j)) => Smallest <= j
<1> DEFINE live == {i \in DOMAIN sources : taken[i] < Len(runs[sources[i]])}
           ok(i) == \A j \in live : \/ Key(Upcoming(i)) < Key(Upcoming(j))
                                    \/ Key(Upcoming(i)) = Key(Upcoming(j)) /\ i <= j
<1>1. live # {} /\ live \subseteq Nat
  BY DEF SortedInv, MergeSorted, MergeOver
<1>2. \A i \in live : Key(Upcoming(i)) \in Keys /\ Key(Upcoming(i)) \in Nat
  <2> SUFFICES ASSUME NEW i \in live PROVE Key(Upcoming(i)) \in Keys /\ Key(Upcoming(i)) \in Nat
    OBVIOUS
  <2>1. runs[sources[i]] \in Seq(Entry) /\ taken[i] + 1 \in 1..Len(runs[sources[i]])
    BY DEF SortedInv, MergeSorted, RunsSorted, SortedRun
  <2>2. Upcoming(i) \in Entry
    BY <2>1 DEF Upcoming
  <2> QED BY <2>2, KeyType DEF SortedInv
<1>3. Smallest = CHOOSE i \in live : ok(i)
  <2>1. live = {i \in live : \A j \in live : Key(Upcoming(j)) = Empty =>
                 j < i \/ (j = i /\ \A k \in live : k <= i)}
    BY <1>2
  <2> QED BY <2>1, Zenon DEF Smallest
<1>4. \E i \in live : ok(i)
  <2> DEFINE keys == {Key(Upcoming(i)) : i \in live}
  <2>1. PICK key \in keys : \A k \in keys : key <= k
    BY <1>1, <1>2, Least
  <2> DEFINE having == {i \in live : Key(Upcoming(i)) = key}
  <2>2. PICK i \in having : \A j \in having : i <= j
    BY <1>1, <2>1, Least
  <2>3. ASSUME NEW j \in live
        PROVE  \/ Key(Upcoming(i)) < Key(Upcoming(j))
               \/ Key(Upcoming(i)) = Key(Upcoming(j)) /\ i <= j
    <3>1. Key(Upcoming(i)) = key /\ key <= Key(Upcoming(j)) /\ key \in Nat /\ Key(Upcoming(j)) \in Nat
      BY <1>2, <2>1, <2>3
    <3>2. CASE Key(Upcoming(j)) = key
      BY <2>2, <2>3, <3>1, <3>2
    <3>3. CASE Key(Upcoming(j)) # key
      BY <3>1, <3>3
    <3> QED BY <3>2, <3>3
  <2> QED BY <2>2, <2>3
<1>5. Smallest \in live /\ ok(Smallest)
  BY <1>3, <1>4
<1> HIDE DEF ok
<1>6. ASSUME NEW j \in live
      PROVE  /\ Key(Upcoming(Smallest)) <= Key(Upcoming(j))
             /\ Key(Upcoming(Smallest)) = Key(Upcoming(j)) => Smallest <= j
  BY <1>2, <1>5 DEF ok
<1> QED BY <1>5, <1>6

\* Appending an entry that does not belong earlier keeps a run sorted.
LEMMA AppendSorted ==
  ASSUME TypeOK, KeysOf, NEW s, SortedRun(s), NEW e \in Entry,
         \A k \in DOMAIN s : Key(s[k]) <= Key(e)
  PROVE  SortedRun(Append(s, e))
<1>1. s \in Seq(Entry) /\ Append(s, e) \in Seq(Entry) /\ Len(Append(s, e)) = Len(s) + 1
  BY DEF SortedRun
<1>2. /\ \A i \in 1..Len(s) : Append(s, e)[i] = s[i]
      /\ Append(s, e)[Len(s) + 1] = e
  BY <1>1
<1>3. Key(e) \in Nat
  BY KeyType
<1>4. ByKey(Append(s, e))
  <2> SUFFICES ASSUME NEW i \in 1..(Len(s) + 1), NEW j \in 1..(Len(s) + 1), i < j
               PROVE  Key(Append(s, e)[i]) <= Key(Append(s, e)[j])
    BY <1>1 DEF ByKey
  <2>1. i \in 1..Len(s) /\ (j \in 1..Len(s) \/ j = Len(s) + 1)
    BY <1>1
  <2>2. CASE j \in 1..Len(s)
    BY <1>1, <1>2, <2>1, <2>2 DEF SortedRun, ByKey
  <2>3. CASE j = Len(s) + 1
    BY <1>1, <1>2, <2>1, <2>3
  <2> QED BY <2>1, <2>2, <2>3
<1> QED BY <1>1, <1>4 DEF SortedRun

\* Taking the next entry of a merge keeps what is written sorted, and before all
\* that the sources still hold.
LEMMA MergeEntrySorted ==
  ASSUME TypeOK, SortedInv, Empty \notin Keys, MergeEntry
  PROVE  SortedInv'
<1> DEFINE m == Smallest
           e == Upcoming(m)
<1>1. /\ pc = "merging" /\ ~MergeOver /\ UNCHANGED <<keyOf, runs, disk, sources, pc, added>>
      /\ out' = Append(out, e) /\ taken' = [taken EXCEPT ![m] = @ + 1]
  BY DEF MergeEntry, vars, ghosts, content
<1>2. /\ m \in DOMAIN sources /\ taken[m] < Len(runs[sources[m]])
      /\ \A j \in DOMAIN sources : taken[j] < Len(runs[sources[j]]) => Key(e) <= Key(Upcoming(j))
  BY <1>1, SmallestIsLeast
<1>3. /\ sources[m] \in DOMAIN runs /\ SortedRun(runs[sources[m]])
      /\ taken[m] \in 0..Len(runs[sources[m]]) /\ DOMAIN taken = DOMAIN sources
  BY <1>1, <1>2 DEF SortedInv, MergeSorted, RunsSorted
<1>4. e \in Entry /\ e = runs[sources[m]][taken[m] + 1]
  BY <1>2, <1>3 DEF Upcoming, SortedRun
<1> HIDE DEF m, e
<1>5. SortedRun(out) /\ \A k \in DOMAIN out : Key(out[k]) <= Key(e)
  <2>1. SortedRun(out) /\ \A k \in DOMAIN out : Key(out[k]) <= Key(Upcoming(m))
    BY <1>1, <1>2 DEF SortedInv, MergeSorted
  <2> QED BY <2>1 DEF e
<1>6. SortedRun(out')
  BY <1>1, <1>4, <1>5, AppendSorted DEF SortedInv
<1>7. ASSUME NEW i \in DOMAIN sources, taken'[i] < Len(runs[sources[i]]), NEW k \in DOMAIN out'
      PROVE  Key(out'[k]) <= Key(runs[sources[i]][taken'[i] + 1])
  <2>1. /\ SortedRun(runs[sources[i]]) /\ taken[i] \in 0..Len(runs[sources[i]])
        /\ taken'[i] = IF i = m THEN taken[i] + 1 ELSE taken[i]
    BY <1>1, <1>3 DEF SortedInv, MergeSorted, RunsSorted
  <2> DEFINE f == runs[sources[i]][taken'[i] + 1]
  <2>2. f \in Entry /\ Key(f) \in Nat /\ Key(e) \in Nat
    BY <1>4, <1>7, <2>1, KeyType DEF SortedRun, SortedInv
  <2>3. Key(e) <= Key(f)
    <3>1. CASE i = m
      <4>1. taken[m] + 1 \in DOMAIN runs[sources[m]] /\ taken[m] + 2 \in DOMAIN runs[sources[m]]
            /\ taken'[m] + 1 = taken[m] + 2 /\ taken[m] + 1 < taken[m] + 2
        BY <1>3, <1>7, <2>1, <3>1 DEF SortedRun
      <4> QED BY <1>3, <1>4, <3>1, <4>1 DEF SortedRun, ByKey
    <3>2. CASE i # m
      BY <1>2, <1>7, <2>1, <3>2 DEF Upcoming
    <3> QED BY <3>1, <3>2
  <2>4. out'[k] = e \/ (k \in DOMAIN out /\ out'[k] = out[k])
    BY <1>1, <1>5 DEF SortedRun
  <2>5. CASE k \in DOMAIN out /\ out'[k] = out[k]
    <3>1. Key(out[k]) <= Key(e) /\ Key(out[k]) \in Nat
      BY <1>5, <2>5, KeyType DEF SortedRun, SortedInv
    <3> QED BY <2>2, <2>3, <2>5, <3>1
  <2> QED BY <2>2, <2>3, <2>4, <2>5
<1>8. \A s : SortedRun(s)' <=> SortedRun(s)
  BY <1>1 DEF SortedRun, ByKey, Entry, Key
<1>9. \A i : taken'[i] \in 0..Len(runs[sources[i]]) \/ i \notin DOMAIN sources
  BY <1>1, <1>2, <1>3 DEF SortedInv, MergeSorted, RunsSorted, SortedRun
<1>10. MergeSorted'
  <2>1. SortedRun(out)'
    BY <1>6, <1>1 DEF SortedRun, ByKey, Entry, Key
  <2>2. \A i \in DOMAIN sources' : taken'[i] < Len(runs'[sources'[i]]) =>
          \A k \in DOMAIN out' : Key(out[k])' <= Key(Upcoming(i))'
    BY <1>1, <1>7 DEF Key, Upcoming
  <2>3. DOMAIN taken' = DOMAIN sources'
    BY <1>1, <1>3
  <2> QED BY <1>1, <1>9, <2>1, <2>2, <2>3 DEF MergeSorted, SortedInv
<1>11. KeysOf' /\ RunsSorted'
  <2>1. KeysOf'
    BY <1>1 DEF KeysOf, SortedInv
  <2>2. RunsSorted'
    BY <1>1, <1>8 DEF RunsSorted, SortedInv, ValidFiles, SortedRun, ByKey, Entry, Key
  <2> QED BY <2>1, <2>2
<1> QED BY <1>10, <1>11 DEF SortedInv

\* A file that is emptied is no longer valid, and the others stay as they were.
LEMMA ZeroedValid ==
  ASSUME NEW d, NEW f PROVE ValidFiles(Put(d, f, Zeroed)) \subseteq ValidFiles(d)
BY DEF Put, Zeroed, ValidFiles

\* A step that ends no merge, writes no file and adds no entry.
LEMMA KeepsSorted ==
  ASSUME SortedInv, UNCHANGED <<keyOf, runs, added>>, pc' # "merging",
         ValidFiles(disk') \subseteq ValidFiles(disk)
  PROVE  SortedInv'
<1>1. KeysOf'
  BY DEF SortedInv, KeysOf
<1>2. RunsSorted'
  <2>1. \A f \in DOMAIN runs : SortedRun(runs[f])
    BY DEF SortedInv, RunsSorted
  <2>2. \A f \in DOMAIN runs' : SortedRun(runs[f])'
    BY <2>1 DEF SortedRun, ByKey, Entry, Key
  <2> QED BY <2>2 DEF SortedInv, RunsSorted, ValidFiles
<1>3. MergeSorted'
  BY DEF MergeSorted
<1> QED BY <1>1, <1>2, <1>3 DEF SortedInv

\* A step after which fewer files are left, with the entries they had.
LEMMA DropsSorted ==
  ASSUME SortedInv, UNCHANGED <<keyOf, added>>, pc' # "merging",
         NEW left, left \subseteq DOMAIN runs, runs' = Kept(left), ValidFiles(disk') \subseteq left
  PROVE  SortedInv'
<1>1. KeysOf' /\ MergeSorted'
  BY DEF SortedInv, KeysOf, MergeSorted
<1>2. DOMAIN runs' = left /\ \A f \in left : runs'[f] = runs[f] /\ SortedRun(runs[f])
  BY DEF Kept, SortedInv, RunsSorted
<1>3. \A f \in DOMAIN runs' : SortedRun(runs[f])'
  BY <1>2 DEF SortedRun, ByKey, Entry, Key
<1> QED BY <1>1, <1>2, <1>3 DEF SortedInv, RunsSorted, ValidFiles

\* An add gives the new entry its key and touches no file.
LEMMA AddSorted ==
  ASSUME TypeOK, SortedInv, NEW size, NEW key \in Keys, AddQuery(size, key)
  PROVE  SortedInv'
<1>1. /\ keyOf' = Append(keyOf, key) /\ added' = added + 1 /\ added \in Nat /\ runs' = runs
      /\ pc' # "merging" /\ ValidFiles(disk') \subseteq ValidFiles(disk)
  BY ZeroedValid DEF AddQuery, Add, StartFlush, TypeOK
<1>2. KeysOf' /\ MergeSorted'
  BY <1>1 DEF SortedInv, KeysOf, MergeSorted
<1>3. \A f \in DOMAIN runs : SortedRun(runs[f])'
  <2> SUFFICES ASSUME NEW f \in DOMAIN runs PROVE SortedRun(runs[f])'
    OBVIOUS
  <2> DEFINE s == runs[f]
  <2>1. s \in Seq(Entry) /\ Entry \subseteq Entry' /\ ByKey(s)
    BY <1>1 DEF SortedInv, RunsSorted, SortedRun, Entry
  <2>2. s \in Seq(Entry')
    BY <2>1
  <2>3. \A i \in DOMAIN s : Key(s[i])' = keyOf[s[i] + 1]
    <3>1. \A e \in Entry : keyOf'[e + 1] = keyOf[e + 1]
      BY <1>1 DEF SortedInv, KeysOf, Entry
    <3>2. \A i \in DOMAIN s : s[i] \in Entry
      BY <2>1
    <3> QED BY <1>1, <3>1, <3>2 DEF Key
  <2> QED BY <1>1, <2>1, <2>2, <2>3 DEF SortedRun, ByKey, Key
<1>4. RunsSorted'
  BY <1>1, <1>3 DEF SortedInv, RunsSorted, ValidFiles
<1> QED BY <1>2, <1>4 DEF SortedInv

\* A step that writes one file, and that one is sorted.
LEMMA FileWritten ==
  ASSUME SortedInv, UNCHANGED <<keyOf, added>>, pc' # "merging",
         NEW f, NEW c, disk' = Put(disk, f, c), NEW run, SortedRun(run),
         DOMAIN runs' = DOMAIN runs \cup {f},
         \A g \in DOMAIN runs' : runs'[g] = IF g = f THEN run ELSE runs[g]
  PROVE  SortedInv'
<1>1. KeysOf' /\ MergeSorted'
  BY DEF SortedInv, KeysOf, MergeSorted
<1>2. \A g \in DOMAIN runs' : SortedRun(runs'[g])
  BY DEF SortedInv, RunsSorted
<1>3. \A g \in DOMAIN runs' : SortedRun(runs[g])'
  BY <1>2 DEF SortedRun, ByKey, Entry, Key
<1>4. ValidFiles(disk') \subseteq ValidFiles(disk) \cup {f}
  BY DEF Put, ValidFiles
<1>5. ValidFiles(disk') \subseteq DOMAIN runs'
  BY <1>4 DEF SortedInv, RunsSorted
<1> QED BY <1>1, <1>3, <1>5 DEF SortedInv, RunsSorted, ValidFiles

\* There are no files at first.
LEMMA InitSorted == ASSUME InitQuery PROVE SortedInv
<1>1. keyOf = <<>> /\ runs = <<>> /\ added = 0 /\ pc = "closed" /\ ValidFiles(disk) = {}
  BY DEF InitQuery, Init, ValidFiles
<1> QED BY <1>1 DEF SortedInv, KeysOf, RunsSorted, MergeSorted

\* Opening keeps the files it does not delete.
LEMMA OpenSorted ==
  ASSUME TypeOK, SortedInv, NEW mode, OpenQuery(mode)
  PROVE  SortedInv'
<1>1. /\ UNCHANGED <<keyOf, added>> /\ pc' = "idle" /\ runs' = Kept(DOMAIN disk')
      /\ ValidFiles(disk') \subseteq DOMAIN disk'
  BY DEF OpenQuery, Open, ValidFiles
<1>2. DOMAIN disk' \subseteq ValidFiles(disk)
  BY DEF OpenQuery, Open, Load, ValidFiles
<1>3. DOMAIN disk' \subseteq DOMAIN runs
  BY <1>2 DEF SortedInv, RunsSorted
<1> QED BY <1>1, <1>3, DropsSorted

\* A flush writes the buffer in the order of its keys.
LEMMA WriteFlushSorted ==
  ASSUME TypeOK, Consistent, SortedInv, WriteFlushQuery
  PROVE  SortedInv'
<1> DEFINE f == <<nextIndex, 0>>
<1>1. PICK run \in BufferRuns : runs' = Put(runs, f, run)
  BY DEF WriteFlushQuery
<1>2. /\ UNCHANGED <<keyOf, added>> /\ pc' = "planning"
      /\ disk' = Put(disk, f, Written(buffer))
  BY DEF WriteFlushQuery, WriteFlush
<1>3. buffer \subseteq Entry /\ IsFiniteSet(buffer)
  <2>1. buffer \subseteq Entry
    BY DEF Consistent, EntriesByAge, TypeOK, Entry
  <2>2. IsFiniteSet(Entry)
    <3>1. added - 1 \in Int
      BY DEF TypeOK
    <3> QED BY <3>1, FS_Interval DEF Entry
  <2> QED BY <2>1, <2>2, FS_Subset
<1>4. SortedRun(run)
  <2>1. /\ run \in Seq(buffer) /\ \A i \in DOMAIN run : run[i] \in buffer
        /\ \A i, j \in DOMAIN run : i < j => BufferBefore(run[i], run[j])
    <3>1. Cardinality(buffer) \in Nat
      BY <1>3, FS_CardinalityType
    <3>2. run \in [1..Cardinality(buffer) -> buffer]
      BY <1>1 DEF BufferRuns, Listings
    <3>3. \A i, j \in 1..Cardinality(buffer) : i < j => BufferBefore(run[i], run[j])
      BY <1>1 DEF BufferRuns, Listings
    <3> QED BY <3>1, <3>2, <3>3
  <2>2. \A i \in DOMAIN run : Key(run[i]) \in Nat
    BY <1>3, <2>1, KeyType DEF SortedInv
  <2>3. \A i, j \in DOMAIN run : i < j => Key(run[i]) <= Key(run[j])
    BY <2>1, <2>2 DEF BufferBefore
  <2>4. run \in Seq(Entry)
    BY <1>3, <2>1
  <2> QED BY <2>3, <2>4 DEF SortedRun, ByKey
<1>5. /\ DOMAIN runs' = DOMAIN runs \cup {f}
      /\ \A g \in DOMAIN runs' : runs'[g] = IF g = f THEN run ELSE runs[g]
  BY <1>1 DEF Put
<1> QED BY <1>2, <1>4, <1>5, FileWritten

\* A merge starts with nothing written and nothing taken.
LEMMA PlanMergeSorted ==
  ASSUME TypeOK, Consistent, SortedInv, PlanMergeQuery
  PROVE  SortedInv'
<1>1. PICK m \in Merges : m.srcs \subseteq readers /\ merge' = m /\ disk' = Put(disk, m.dst, Zeroed)
  BY DEF PlanMergeQuery, PlanMerge
<1>2. /\ UNCHANGED <<keyOf, runs, added>> /\ pc = "planning" /\ out' = <<>>
      /\ taken' = [i \in DOMAIN sources' |-> 0] /\ sources' \in SourceLists(m.srcs)
  BY <1>1 DEF PlanMergeQuery, PlanMerge, content, ghosts
<1>3. IsFiniteSet(m.srcs) /\ m.srcs \subseteq DOMAIN runs
  <2>1. readers = ValidFiles(disk) /\ readers \subseteq DOMAIN disk /\ IsFiniteSet(DOMAIN disk)
    BY <1>2 DEF Consistent, MemoryMatchesDisk, TypeOK
  <2>2. IsFiniteSet(m.srcs)
    BY <1>1, <2>1, FS_Subset
  <2> QED BY <1>1, <2>1, <2>2 DEF SortedInv, RunsSorted
<1>4. /\ Cardinality(m.srcs) \in Nat /\ DOMAIN sources' = 1..Cardinality(m.srcs)
      /\ \A i \in DOMAIN sources' : sources'[i] \in m.srcs
  <2>1. sources' \in [1..Cardinality(m.srcs) -> m.srcs]
    BY <1>2 DEF SourceLists, Listings
  <2> QED BY <1>3, <2>1, FS_CardinalityType
<1>5. KeysOf' /\ RunsSorted'
  <2>1. \A f \in DOMAIN runs' : SortedRun(runs[f])'
    BY <1>2 DEF SortedInv, RunsSorted, SortedRun, ByKey, Entry, Key
  <2>2. ValidFiles(disk') \subseteq DOMAIN runs
    BY <1>1, ZeroedValid DEF SortedInv, RunsSorted
  <2> QED BY <1>2, <2>1, <2>2 DEF SortedInv, KeysOf, RunsSorted, ValidFiles
<1>6. MergeSorted'
  <2>1. \A i \in DOMAIN sources' :
          sources'[i] \in DOMAIN runs' /\ taken'[i] \in 0..Len(runs'[sources'[i]])
    BY <1>2, <1>3, <1>4 DEF SortedInv, RunsSorted, SortedRun
  <2>2. SortedRun(out)'
    BY <1>2 DEF SortedRun, ByKey
  <2> QED BY <1>2, <1>4, <2>1, <2>2 DEF MergeSorted
<1> QED BY <1>5, <1>6 DEF SortedInv

\* A finished merge has written a sorted file.
LEMMA WriteMergeSorted ==
  ASSUME TypeOK, SortedInv, WriteMergeQuery
  PROVE  SortedInv'
<1>1. /\ UNCHANGED <<keyOf, added>> /\ pc = "merging" /\ pc' = "removing"
      /\ runs' = Put(runs, merge.dst, out)
  BY DEF WriteMergeQuery, WriteMerge, ghosts
<1>2. PICK c : disk' = Put(disk, merge.dst, c)
  BY DEF WriteMergeQuery, WriteMerge
<1>3. SortedRun(out)
  BY <1>1 DEF SortedInv, MergeSorted
<1>4. /\ DOMAIN runs' = DOMAIN runs \cup {merge.dst}
      /\ \A g \in DOMAIN runs' : runs'[g] = IF g = merge.dst THEN out ELSE runs[g]
  BY <1>1 DEF Put
<1> QED BY <1>1, <1>2, <1>3, <1>4, FileWritten

\* Removing a merged file leaves the others as they are.
LEMMA RemoveSourceSorted ==
  ASSUME TypeOK, SortedInv, RemoveSourceQuery
  PROVE  SortedInv'
<1>1. /\ UNCHANGED <<keyOf, added>> /\ pc' # "merging"
      /\ runs' = Kept(ValidFiles(disk'))
  BY DEF RemoveSourceQuery, RemoveSource, Return, ghosts
<1>2. ValidFiles(disk') \subseteq ValidFiles(disk)
  BY DEF RemoveSourceQuery, RemoveSource, Remove, ValidFiles
<1> QED BY <1>1, <1>2, DropsSorted DEF SortedInv, RunsSorted

\* The remaining steps change no file that stays valid.
LEMMA OtherSorted ==
  ASSUME TypeOK, SortedInv, OtherQuery
  PROVE  SortedInv'
<1>1. UNCHANGED <<keyOf, runs>>
  BY DEF OtherQuery, content
<1>2. added' = added /\ pc' # "merging" /\ ValidFiles(disk') \subseteq ValidFiles(disk)
  BY ZeroedValid DEF OtherQuery, Other, Flush, Compact, StartFlush, Exit, PlanNothing, PlanFaults,
     MergeFaults, Crash, WriteThrows, Abandon, Return, Forget, ghosts
<1> QED BY <1>1, <1>2, KeepsSorted

\* Every step keeps the files sorted.
LEMMA SortedStep ==
  ASSUME Empty \notin Keys, TypeOK, Consistent, SortedInv, [NextQuery]_qvars
  PROVE  SortedInv'
<1>1. CASE UNCHANGED qvars
  <2>1. /\ UNCHANGED <<keyOf, runs, added, pc, sources, taken, out, disk>>
    BY <1>1 DEF qvars, vars, content, merging, ghosts
  <2> QED BY <2>1 DEF SortedInv, KeysOf, RunsSorted, MergeSorted, SortedRun, ByKey, Entry, Key,
                      Upcoming, ValidFiles
<1>2. CASE \E size \in EntrySizes, key \in Keys : AddQuery(size, key)
  BY <1>2, AddSorted
<1>3. CASE \E mode \in OpenModes : OpenQuery(mode)
  BY <1>3, OpenSorted
<1>4. CASE WriteFlushQuery
  BY <1>4, WriteFlushSorted
<1>5. CASE PlanMergeQuery
  BY <1>5, PlanMergeSorted
<1>6. CASE MergeEntry
  BY <1>6, MergeEntrySorted
<1>7. CASE WriteMergeQuery
  BY <1>7, WriteMergeSorted
<1>8. CASE RemoveSourceQuery
  BY <1>8, RemoveSourceSorted
<1>9. CASE OtherQuery
  BY <1>9, OtherSorted
<1> QED BY <1>1, <1>2, <1>3, <1>4, <1>5, <1>6, <1>7, <1>8, <1>9 DEF NextQuery

\* As long as no key is empty, every valid file of the directory is sorted by key
\* at every step: however many files of which ages a merge takes together, the
\* tree it writes can be searched.
THEOREM SortedFiles == ASSUME Empty \notin Keys PROVE SpecQuery => []FilesSorted
<1>1. InitQuery => SortedInv
  BY InitSorted
<1>2. TypeOK /\ Consistent /\ SortedInv /\ [NextQuery]_qvars => SortedInv'
  BY SortedStep
<1>3. SortedInv => FilesSorted
  BY DEF SortedInv, RunsSorted, SortedRun, FilesSorted
<1> QED BY <1>1, <1>2, <1>3, FromKvDb, PTL DEF SpecQuery


-----------------------------------------------------------------------------
(* Lists of a set, and the greatest of some numbers. *)

\* s lists every element of S once.
Lists(s, S) ==
  /\ s \in Seq(S)
  /\ \A i, j \in 1..Len(s) : s[i] = s[j] => i = j
  /\ \A x \in S : \E i \in 1..Len(s) : s[i] = x

\* The same, by the places of the list.
LEMMA ListsPlaces ==
  ASSUME NEW S, NEW s, Lists(s, S)
  PROVE  /\ Len(s) \in Nat /\ DOMAIN s = 1..Len(s)
         /\ \A i \in DOMAIN s : s[i] \in S
         /\ \A i, j \in DOMAIN s : s[i] = s[j] => i = j
         /\ \A x \in S : \E i \in DOMAIN s : s[i] = x
BY DEF Lists

\* Such a list is as long as the set is large.
LEMMA ListsLen ==
  ASSUME NEW S, NEW s, Lists(s, S)
  PROVE  IsFiniteSet(S) /\ Cardinality(S) = Len(s)
<1> DEFINE D == 1..Len(s)
           f == [i \in D |-> s[i]]
<1>1. Len(s) \in Nat /\ IsFiniteSet(D) /\ Cardinality(D) = Len(s)
  <2>1. Len(s) \in Nat
    BY DEF Lists
  <2>2. 1 \in Int /\ Len(s) \in Int /\ (1 > Len(s) => Len(s) = 0) /\ Len(s) - 1 + 1 = Len(s)
    BY <2>1
  <2> HIDE DEF D
  <2>3. IsFiniteSet(D) /\ Cardinality(D) = IF 1 > Len(s) THEN 0 ELSE Len(s) - 1 + 1
    BY <2>2, FS_Interval DEF D
  <2> QED BY <2>1, <2>2, <2>3
<1>2. f \in [D -> S] /\ (\A i, j \in D : f[i] = f[j] => i = j) /\ \A x \in S : \E i \in D : f[i] = x
  BY DEF Lists
<1> HIDE DEF D, f
<1>3. f \in Bijection(D, S)
  BY <1>2 DEF Bijection, Injection, Surjection, IsInjective
<1> QED BY <1>1, <1>3, FS_Bijection DEF ExistsBijection

\* An injection of as many places as the set has elements lists the set.
LEMMA InjectionLists ==
  ASSUME NEW S, IsFiniteSet(S), NEW s \in [1..Cardinality(S) -> S],
         \A i, j \in 1..Cardinality(S) : i < j => s[i] # s[j]
  PROVE  Lists(s, S)
<1> DEFINE n == Cardinality(S)
           D == 1..n
<1>1. n \in Nat /\ IsFiniteSet(D) /\ Cardinality(D) = n
  <2>1. n \in Nat
    BY FS_CardinalityType
  <2> QED BY <2>1, FS_Interval
<1>2. \A i, j \in D : s[i] = s[j] => i = j
  <2> SUFFICES ASSUME NEW i \in D, NEW j \in D, s[i] = s[j], i # j PROVE FALSE
    OBVIOUS
  <2>1. i < j \/ j < i
    BY <1>1
  <2> QED BY <2>1
<1>3. s \in Seq(S) /\ Len(s) = n
  BY <1>1
<1>4. \A x \in S : \E i \in D : s[i] = x
  <2> HIDE DEF D, n
  <2>1. s \in Injection(D, S)
    BY <1>2 DEF Injection, IsInjective, D, n
  <2>2. s \in Surjection(D, S)
    BY <1>1, <2>1, FS_Injection DEF n
  <2> QED BY <2>2 DEF Surjection
<1> QED BY <1>2, <1>3, <1>4 DEF Lists

\* A new element appended to a list of a set lists the set with it.
LEMMA AppendLists ==
  ASSUME NEW S, NEW s, Lists(s, S), NEW x, x \notin S
  PROVE  Lists(Append(s, x), S \cup {x})
<1> DEFINE t == Append(s, x)
           n == Len(s)
<1>1. s \in Seq(S) /\ n \in Nat /\ \A i \in 1..n : s[i] \in S
  BY DEF Lists
<1>2. s \in Seq(S \cup {x})
  BY <1>1
<1>3. /\ t \in Seq(S \cup {x}) /\ Len(t) = n + 1 /\ t[n + 1] = x
      /\ \A i \in 1..n : t[i] = s[i]
  BY <1>2
<1> HIDE DEF t, n
<1>4. \A i : i \in 1..Len(t) <=> i \in 1..n \/ i = n + 1
  BY <1>1, <1>3
<1>5. \A i, j \in 1..Len(t) : t[i] = t[j] => i = j
  <2> SUFFICES ASSUME NEW i \in 1..Len(t), NEW j \in 1..Len(t), t[i] = t[j] PROVE i = j
    OBVIOUS
  <2>1. CASE i \in 1..n /\ j \in 1..n
    BY <1>3, <2>1 DEF Lists, n
  <2>2. CASE i = n + 1 \/ j = n + 1
    BY <1>1, <1>3, <1>4, <2>2
  <2> QED BY <1>4, <2>1, <2>2
<1>6. \A y \in S \cup {x} : \E i \in 1..Len(t) : t[i] = y
  <2>1. ASSUME NEW y \in S PROVE \E i \in 1..Len(t) : t[i] = y
    <3>1. PICK i \in 1..n : s[i] = y
      BY DEF Lists, n
    <3> QED BY <1>3, <1>4, <3>1
  <2>2. n + 1 \in 1..Len(t) /\ t[n + 1] = x
    BY <1>3, <1>4
  <2> QED BY <2>1, <2>2
<1> QED BY <1>3, <1>5, <1>6 DEF Lists, t

\* Some numbers below a bound have a greatest among them.
LEMMA Greatest ==
  ASSUME NEW T, T \subseteq Nat, T # {}, NEW b \in Nat, \A t \in T : t < b
  PROVE  \E m \in T : \A t \in T : t <= m
<1> DEFINE gaps == {b - t : t \in T}
<1>1. \A t \in T : t \in Nat /\ b - t \in Nat
  OBVIOUS
<1>2. gaps \subseteq Nat /\ gaps # {}
  BY <1>1
<1> HIDE DEF gaps
<1>3. PICK g \in gaps : \A h \in gaps : g <= h
  BY <1>2, Least
<1>4. PICK m \in T : g = b - m
  BY DEF gaps
<1>5. ASSUME NEW t \in T PROVE t <= m
  <2>1. b - t \in gaps /\ b - m <= b - t
    BY <1>3, <1>4 DEF gaps
  <2> QED BY <1>1, <2>1
<1> QED BY <1>5

-----------------------------------------------------------------------------
(* The entries of the files below an index.                                 *)

\* The files that are not about to be removed hold every entry once.
Files == ValidFiles(disk) \ todo
IdsBelow(n) == UNION {disk[g].ids : g \in {h \in Files : h[1] < n}}

LEMMA FilesPartition ==
  ASSUME TypeOK, Consistent
  PROVE  /\ \A f \in Files : f[1] \in Nat
         /\ \A f, g \in Files : f # g => f[1] # g[1] /\ disk[f].ids \cap disk[g].ids = {}
         /\ durable = UNION {disk[f].ids : f \in Files}
         /\ durable \subseteq Entry /\ IsFiniteSet(durable)
<1>1. Files \subseteq Names /\ InOrder(disk, Files)
  BY DEF TypeOK, Consistent, FilesInOrder, Files, ValidFiles
<1>2. \A f \in Files : f[1] \in Nat /\ disk[f].ids \subseteq Nat
  BY <1>1 DEF Names, TypeOK, Files, ValidFiles, Contents
<1>3. \A f, g \in Files : f # g => f[1] # g[1] /\ disk[f].ids \cap disk[g].ids = {}
  <2> SUFFICES ASSUME NEW f \in Files, NEW g \in Files, f # g
               PROVE  f[1] # g[1] /\ disk[f].ids \cap disk[g].ids = {}
    OBVIOUS
  <2>1. f[1] # g[1] /\ (f[1] < g[1] \/ g[1] < f[1])
    BY <1>1, <1>2 DEF InOrder
  <2>2. \A i \in disk[f].ids, j \in disk[g].ids : (i < j \/ j < i) /\ i \in Nat /\ j \in Nat
    BY <1>1, <1>2, <2>1 DEF InOrder
  <2> QED BY <2>1, <2>2
<1>4. durable = UNION {disk[f].ids : f \in Files}
  <2>1. durable = UNION {disk[f].ids : f \in ValidFiles(disk)}
    BY DEF Consistent, NothingLost, Stored
  <2>2. ASSUME NEW f \in todo, f \in ValidFiles(disk) PROVE \E g \in Files : disk[f].ids \subseteq disk[g].ids
    <3>1. pc = "removing"
      BY <2>2 DEF Consistent, MergeUnderWay
    <3>2. merge.dst \in Files /\ disk[f].ids \subseteq disk[merge.dst].ids
      BY <2>2, <3>1 DEF Consistent, MergeUnderWay, MemoryMatchesDisk, Files
    <3> QED BY <3>2
  <2>3. ASSUME NEW x PROVE x \in durable <=> \E f \in Files : x \in disk[f].ids
    BY <2>1, <2>2 DEF Files
  <2> QED BY <2>3
<1>5. durable \subseteq Entry /\ IsFiniteSet(durable)
  <2>1. durable \subseteq Entry
    BY DEF TypeOK, Consistent, EntriesByAge, Entry
  <2>2. IsFiniteSet(Entry)
    <3>1. added - 1 \in Int
      BY DEF TypeOK
    <3> QED BY <3>1, FS_Interval DEF Entry
  <2> QED BY <2>1, <2>2, FS_Subset
<1> QED BY <1>2, <1>3, <1>4, <1>5

\* A file's entries come on top of those below its index.
LEMMA FileOnTop ==
  ASSUME TypeOK, Consistent, NEW f \in Files
  PROVE  /\ Cardinality(IdsBelow(f[1])) \in Nat /\ Cardinality(disk[f].ids) \in Nat
         /\ Cardinality(IdsBelow(f[1]) \cup disk[f].ids) =
              Cardinality(IdsBelow(f[1])) + Cardinality(disk[f].ids)
<1> DEFINE A == IdsBelow(f[1])
           B == disk[f].ids
<1>1. A \subseteq durable /\ B \subseteq durable /\ IsFiniteSet(durable)
  BY FilesPartition DEF IdsBelow
<1>2. A \cap B = {}
  <2> SUFFICES ASSUME NEW g \in Files, g[1] < f[1] PROVE disk[g].ids \cap disk[f].ids = {}
    BY DEF IdsBelow
  <2>1. g # f
    BY FilesPartition
  <2> QED BY <2>1, FilesPartition
<1> HIDE DEF A, B
<1>3. IsFiniteSet(A) /\ IsFiniteSet(B)
  BY <1>1, FS_Subset
<1>4. Cardinality(A) \in Nat /\ Cardinality(B) \in Nat /\ Cardinality(A \cap B) = 0
  BY <1>2, <1>3, FS_CardinalityType, FS_EmptySet
<1>5. Cardinality(A \cup B) = Cardinality(A) + Cardinality(B)
  <2>1. Cardinality(A \cup B) = Cardinality(A) + Cardinality(B) - Cardinality(A \cap B)
    BY <1>3, FS_Union
  <2> QED BY <1>4, <2>1
<1> QED BY <1>4, <1>5 DEF A, B

\* The more files, the more entries.
LEMMA BelowGrows ==
  ASSUME TypeOK, Consistent
  PROVE  /\ \A n : IsFiniteSet(IdsBelow(n)) /\ Cardinality(IdsBelow(n)) \in Nat
         /\ \A n : IdsBelow(n) \subseteq durable /\ Cardinality(IdsBelow(n)) <= Cardinality(durable)
         /\ \A f \in Files, n \in Nat : f[1] < n =>
              Cardinality(IdsBelow(f[1]) \cup disk[f].ids) <= Cardinality(IdsBelow(n))
<1>1. IsFiniteSet(durable)
  BY FilesPartition
<1>2. \A n : IdsBelow(n) \in SUBSET durable
  BY FilesPartition DEF IdsBelow
<1>3. \A n : IsFiniteSet(IdsBelow(n)) /\ Cardinality(IdsBelow(n)) <= Cardinality(durable)
  BY <1>1, <1>2, FS_Subset
<1>4. \A n : Cardinality(IdsBelow(n)) \in Nat
  BY <1>3, FS_CardinalityType
<1>5. ASSUME NEW f \in Files, NEW n \in Nat, f[1] < n
      PROVE  Cardinality(IdsBelow(f[1]) \cup disk[f].ids) <= Cardinality(IdsBelow(n))
  <2>1. \A g \in Files : g[1] < f[1] => g[1] < n
    BY <1>5, FilesPartition
  <2>2. IdsBelow(f[1]) \cup disk[f].ids \in SUBSET IdsBelow(n)
    BY <1>5, <2>1 DEF IdsBelow
  <2> QED BY <1>3, <2>2, FS_Subset
<1> QED BY <1>2, <1>3, <1>4, <1>5

\* The entries below an index are those of the last file below it, and those
\* below that.
LEMMA LastBelow ==
  ASSUME TypeOK, Consistent, NEW n \in Nat, IdsBelow(n) # {}
  PROVE  \E f \in Files : f[1] < n /\ IdsBelow(n) = IdsBelow(f[1]) \cup disk[f].ids
<1> DEFINE T == {f[1] : f \in {h \in Files : h[1] < n}}
<1>1. T \subseteq Nat /\ T # {} /\ \A t \in T : t < n
  BY FilesPartition DEF IdsBelow
<1> HIDE DEF T
<1>2. PICK m \in T : \A t \in T : t <= m
  BY <1>1, Greatest
<1>3. PICK f \in Files : f[1] < n /\ m = f[1]
  BY DEF T
<1>4. ASSUME NEW g \in Files PROVE g[1] < n <=> g[1] < f[1] \/ g = f
  <2>1. g[1] < n => g[1] <= f[1]
    BY <1>2, <1>3 DEF T
  <2>2. f[1] \in Nat /\ g[1] \in Nat /\ (g[1] = f[1] => g = f)
    BY FilesPartition
  <2> QED BY <1>3, <2>1, <2>2
<1>5. IdsBelow(n) = IdsBelow(f[1]) \cup disk[f].ids
  BY <1>4 DEF IdsBelow
<1> QED BY <1>3, <1>5

-----------------------------------------------------------------------------
(* The inductive invariant.                                                 *)

\* What the merge under way has taken from its sources so far.
Took == UNION {{runs[sources[i]][j] : j \in 1..taken[i]} : i \in DOMAIN sources}

\* A file's run lists its entries; its range starts at the number of the entries
\* below it; the counter is at the number of all entries; and a merge has
\* written what it has taken.
RunsList ==
  \A f \in ValidFiles(disk) :
    f \in DOMAIN runs /\ f \in DOMAIN starts /\ Lists(runs[f], disk[f].ids)
StartsCount == \A f \in Files : starts[f] = Cardinality(IdsBelow(f[1]))
Counting == pc # "closed" => globalStart = Cardinality(durable)
MergeLists ==
  pc = "merging" =>
    /\ Lists(sources, merge.srcs)
    /\ DOMAIN taken = DOMAIN sources
    /\ \A i \in DOMAIN sources : taken[i] \in 0..Len(runs[sources[i]])
    /\ Lists(out, Took)

RangeInv == KeysOf /\ RunsList /\ StartsCount /\ Counting /\ MergeLists

\* Between two calls the ranges of the files tile the numbers of the entries.
LEMMA RangesFollow ==
  ASSUME TypeOK, Consistent, RangeInv, Idle
  PROVE  RangesTile
<1> DEFINE below(f) == Cardinality(IdsBelow(f[1]))
           size(f) == Cardinality(disk[f].ids)
           range(f) == starts[f]..(starts[f] + Len(runs[f]) - 1)
           all == Cardinality(durable)
<1>1. readers = Files /\ nextIndex \in Nat /\ \A f \in Files : f[1] < nextIndex
  <2>1. readers = ValidFiles(disk) /\ todo = {} /\ Listed(levels) = readers \ todo
        /\ \A f \in Listed(levels) : f[1] < nextIndex
    BY DEF Idle, Consistent, MemoryMatchesDisk, MergeUnderWay
  <2> QED BY <2>1 DEF Files, TypeOK
<1>2. \A f \in Files : starts[f] = below(f) /\ Len(runs[f]) = size(f)
  BY ListsLen DEF RangeInv, RunsList, StartsCount, Files
<1>3. \A f \in Files : below(f) \in Nat /\ size(f) \in Nat
      /\ Cardinality(IdsBelow(f[1]) \cup disk[f].ids) = below(f) + size(f)
  BY FileOnTop
<1>4. IdsBelow(nextIndex) = durable
  BY <1>1, FilesPartition DEF IdsBelow
<1>5. \A f \in Files, n \in Nat : f[1] < n => below(f) + size(f) <= Cardinality(IdsBelow(n))
  BY <1>3, BelowGrows
<1>6. all \in Nat /\ \A n : Cardinality(IdsBelow(n)) \in Nat
  BY FilesPartition, FS_CardinalityType, BelowGrows
<1>7. \A f \in Files : f[1] \in Nat
  BY FilesPartition
<1>8. \A f, g \in Files : f # g => f[1] < g[1] \/ g[1] < f[1]
  BY <1>7, FilesPartition
<1> HIDE DEF below, size, all
<1>9. \A f \in Files : range(f) = below(f)..(below(f) + size(f) - 1)
  BY <1>2
<1>10. ASSUME NEW f \in readers, NEW g \in readers, f # g PROVE range(f) \cap range(g) = {}
  <2>1. below(f) + size(f) <= below(g) \/ below(g) + size(g) <= below(f)
    BY <1>1, <1>5, <1>7, <1>8, <1>10 DEF below
  <2>2. /\ range(f) = below(f)..(below(f) + size(f) - 1) /\ below(f) \in Nat /\ size(f) \in Nat
        /\ range(g) = below(g)..(below(g) + size(g) - 1) /\ below(g) \in Nat /\ size(g) \in Nat
    BY <1>1, <1>3, <1>9
  <2> HIDE DEF range
  <2> QED BY <2>1, <2>2
<1>11. ASSUME NEW f \in readers PROVE range(f) \subseteq 0..(all - 1)
  <2>1. below(f) + size(f) <= all
    BY <1>1, <1>4, <1>5 DEF all
  <2>2. range(f) = below(f)..(below(f) + size(f) - 1) /\ below(f) \in Nat /\ size(f) \in Nat
    BY <1>1, <1>3, <1>9
  <2> HIDE DEF range
  <2> QED BY <1>6, <2>1, <2>2
<1>12. ASSUME NEW n \in 0..(all - 1) PROVE \E f \in readers : n \in range(f)
  <2> DEFINE above == {b \in Nat : n < Cardinality(IdsBelow(b))}
  <2>1. nextIndex \in above
    BY <1>1, <1>4, <1>6 DEF all
  <2>2. PICK b \in above : \A c \in above : b <= c
    BY <2>1, Least
  <2>3. b \in Nat /\ n < Cardinality(IdsBelow(b)) /\ n \in Nat
    BY <1>6
  <2>4. IdsBelow(b) # {}
    BY <2>3, FS_EmptySet
  <2>5. PICK f \in Files : f[1] < b /\ IdsBelow(b) = IdsBelow(f[1]) \cup disk[f].ids
    BY <2>3, <2>4, LastBelow
  <2>6. n < below(f) + size(f)
    BY <1>3, <2>3, <2>5
  <2>7. below(f) <= n
    <3>1. f[1] \in Nat /\ f[1] \notin above
      BY <1>7, <2>2, <2>3, <2>5
    <3> QED BY <1>6, <2>3, <3>1 DEF below
  <2>8. range(f) = below(f)..(below(f) + size(f) - 1) /\ below(f) \in Nat /\ size(f) \in Nat
    BY <1>3, <1>9
  <2> HIDE DEF range
  <2> QED BY <1>1, <2>3, <2>6, <2>7, <2>8
<1>13. UNION {range(f) : f \in readers} = 0..(all - 1)
  BY <1>11, <1>12
<1>14. globalStart = all
  BY DEF RangeInv, Counting, Idle, all
<1> QED BY <1>10, <1>13, <1>14 DEF RangesTile, all

-----------------------------------------------------------------------------
(* The steps that leave the files alone.                                    *)

\* The number of entries below an index depends on the files alone.
LEMMA SameBelow ==
  ASSUME Files' = Files, \A f \in Files : disk'[f] = disk[f]
  PROVE  \A n : IdsBelow(n)' = IdsBelow(n)
BY DEF IdsBelow

\* A step after which the valid files are the same, with the same runs.
LEMMA KeptRanges ==
  ASSUME RangeInv, KeysOf', UNCHANGED <<runs, starts, durable, todo>>, MergeLists',
         ValidFiles(disk') = ValidFiles(disk), \A f \in ValidFiles(disk) : disk'[f] = disk[f],
         pc' # "closed" => pc # "closed" /\ globalStart' = globalStart
  PROVE  RangeInv'
<1>1. Files' = Files /\ \A f \in Files : disk'[f] = disk[f]
  BY DEF Files
<1>2. \A n : IdsBelow(n)' = IdsBelow(n)
  BY <1>1, SameBelow
<1>3. StartsCount'
  BY <1>1, <1>2 DEF RangeInv, StartsCount
<1>4. RunsList' /\ Counting'
  BY DEF RangeInv, RunsList, Counting
<1> QED BY <1>3, <1>4 DEF RangeInv

\* Every step but a merge's own leaves no merge under way.
LEMMA NoMergeLists == pc' # "merging" => MergeLists'
BY DEF MergeLists

-----------------------------------------------------------------------------
(* The steps.                                                               *)

\* There are no files at first.
LEMMA InitRanges == ASSUME InitQuery PROVE RangeInv
<1>1. keyOf = <<>> /\ added = 0 /\ pc = "closed" /\ ValidFiles(disk) = {} /\ Files = {}
  BY DEF InitQuery, Init, ValidFiles, Files
<1> QED BY <1>1 DEF RangeInv, KeysOf, RunsList, StartsCount, Counting, MergeLists

\* An add and the start of a flush leave the files alone.
LEMMA AddRanges ==
  ASSUME TypeOK, Consistent, RangeInv, NEW size, NEW key \in Keys, AddQuery(size, key)
  PROVE  RangeInv'
<1>1. /\ keyOf' = Append(keyOf, key) /\ added' = added + 1 /\ pc = "idle" /\ pc' # "merging"
      /\ UNCHANGED <<runs, starts, globalStart, durable, todo>>
      /\ disk' = disk \/ disk' = Put(disk, <<nextIndex, 0>>, Zeroed)
  BY DEF AddQuery, Add, StartFlush
<1>2. ValidFiles(disk') = ValidFiles(disk) /\ \A f \in ValidFiles(disk) : disk'[f] = disk[f]
  BY <1>1, NextFree, PutValid DEF Zeroed
<1>3. KeysOf'
  BY <1>1 DEF RangeInv, KeysOf, TypeOK
<1> QED BY <1>1, <1>2, <1>3, KeptRanges, NoMergeLists

\* The steps that touch nothing but the call leave the files alone.
LEMMA OtherRanges ==
  ASSUME TypeOK, Consistent, RangeInv, OtherQuery
  PROVE  RangeInv'
<1>1. UNCHANGED <<keyOf, runs, starts, globalStart>> /\ pc # "closed" /\ pc # "removing"
  BY ConfigAssumption DEF OtherQuery, Other, content, Flush, Compact, Exit, PlanNothing, PlanFaults,
     MergeFaults, Crash, WriteThrows, Steps
<1>2. /\ UNCHANGED <<added, durable>> /\ (todo' = todo \/ todo' = {}) /\ pc' # "merging"
      /\ disk' = disk \/ disk' = Put(disk, <<nextIndex, 0>>, Zeroed)
  BY DEF OtherQuery, Other, Flush, Compact, StartFlush, Exit, PlanNothing, PlanFaults,
     MergeFaults, Crash, WriteThrows, Abandon, Return, Forget, memory, ghosts
<1>3. todo = {} /\ <<nextIndex, 0>> \notin ValidFiles(disk)
  BY <1>1, NextFree
<1>4. ValidFiles(disk') = ValidFiles(disk) /\ \A f \in ValidFiles(disk) : disk'[f] = disk[f]
  BY <1>2, <1>3, PutValid DEF Zeroed
<1>5. KeysOf'
  BY <1>1, <1>2 DEF RangeInv, KeysOf
<1> QED BY <1>1, <1>2, <1>3, <1>4, <1>5, KeptRanges, NoMergeLists

\* Opening goes on counting where the highest file ends, which is at the number
\* of all entries; deleting the files starts again from 0.
LEMMA OpenRanges ==
  ASSUME TypeOK, Consistent, RangeInv, NEW mode, OpenQuery(mode)
  PROVE  RangeInv'
<1>1. /\ pc = "closed" /\ pc' = "idle" /\ UNCHANGED <<keyOf, added, todo>> /\ todo = {}
      /\ runs' = Kept(DOMAIN disk') /\ starts' = KeptStarts(DOMAIN disk')
      /\ ValidFiles(disk') = DOMAIN disk'
  BY DEF OpenQuery, Open, Load, ValidFiles, TypeOK
<1>2. KeysOf' /\ MergeLists'
  BY <1>1, NoMergeLists DEF RangeInv, KeysOf
<1>3. Files' = DOMAIN disk'
  BY <1>1 DEF Files
<1>4. CASE DOMAIN disk' = {}
  <2>1. durable' = {}
    <3>1. durable' = {} \/ (durable' = durable /\ disk' = disk)
      BY DEF OpenQuery, Open, Load
    <3> QED BY <1>3, <1>4, <3>1, FilesPartition, <1>1 DEF Files
  <2>2. globalStart' = 0
    BY <1>4 DEF OpenQuery
  <2>3. Counting'
    BY <2>1, <2>2, FS_EmptySet DEF Counting
  <2>4. RunsList' /\ StartsCount'
    BY <1>1, <1>3, <1>4 DEF RunsList, StartsCount
  <2> QED BY <1>2, <2>3, <2>4 DEF RangeInv
<1>5. CASE DOMAIN disk' # {}
  <2>1. disk' = disk /\ durable' = durable /\ ValidFiles(disk) = DOMAIN disk
    <3>1. \/ DOMAIN disk' = {}
          \/ disk' = disk /\ durable' = durable
      BY DEF OpenQuery, Open, Load
    <3> QED BY <1>1, <1>5, <3>1
  <2>2. Files' = Files /\ Files = DOMAIN disk
    BY <1>1, <1>3, <2>1 DEF Files
  <2>3. \A n : IdsBelow(n)' = IdsBelow(n)
    BY <2>1, <2>2, SameBelow
  <2>4. \A f \in DOMAIN disk : runs'[f] = runs[f] /\ starts'[f] = starts[f]
    BY <1>1, <2>1 DEF Kept, KeptStarts
  <2>5. RunsList'
    BY <1>1, <2>1, <2>4 DEF RangeInv, RunsList, Kept, KeptStarts
  <2>6. StartsCount'
    BY <2>2, <2>3, <2>4 DEF RangeInv, StartsCount
  <2>7. globalStart' = Cardinality(durable)
    <3>1. PICK f \in Files : /\ globalStart' = starts[f] + Len(runs[f])
                             /\ \A h \in Files : h[1] <= f[1]
      BY <1>5, <2>1, <2>2 DEF OpenQuery
    <3>2. \A h \in Files : h[1] < f[1] \/ h = f
      BY <3>1, FilesPartition
    <3>3. durable = IdsBelow(f[1]) \cup disk[f].ids
      BY <3>1, <3>2, FilesPartition DEF IdsBelow
    <3>4. starts[f] = Cardinality(IdsBelow(f[1])) /\ Len(runs[f]) = Cardinality(disk[f].ids)
      BY ListsLen DEF RangeInv, RunsList, StartsCount, Files
    <3> QED BY <3>1, <3>3, <3>4, FileOnTop
  <2>8. Counting'
    BY <2>1, <2>7 DEF Counting
  <2> QED BY <1>2, <2>5, <2>6, <2>8 DEF RangeInv
<1> QED BY <1>4, <1>5

\* A flush lists the buffer in a file on top of all others.
LEMMA WriteFlushRanges ==
  ASSUME TypeOK, Consistent, RangeInv, WriteFlushQuery
  PROVE  RangeInv'
<1> DEFINE new == <<nextIndex, 0>>
<1>1. PICK run \in BufferRuns : runs' = Put(runs, new, run)
  BY DEF WriteFlushQuery
<1>2. /\ UNCHANGED <<keyOf, added, todo>> /\ pc = "writing" /\ pc' = "planning"
      /\ disk' = Put(disk, new, Written(buffer)) /\ durable' = durable \cup buffer
      /\ starts' = Put(starts, new, globalStart) /\ globalStart' = globalStart + Cardinality(buffer)
  BY DEF WriteFlushQuery, WriteFlush
<1>3. /\ todo = {} /\ new \notin ValidFiles(disk) /\ nextIndex \in Nat
      /\ \A f \in Files : f[1] < nextIndex
  <2>1. todo = {} /\ new \notin ValidFiles(disk)
    BY <1>2, NextFree
  <2> QED BY <1>2, <2>1 DEF Consistent, MemoryMatchesDisk, Files, TypeOK
<1>4. /\ ValidFiles(disk') = ValidFiles(disk) \cup {new}
      /\ \A f \in ValidFiles(disk) : disk'[f] = disk[f]
      /\ disk'[new].ids = buffer
  BY <1>2, <1>3, PutValid DEF Written
<1>5. Files' = Files \cup {new} /\ new[1] = nextIndex
  BY <1>2, <1>3, <1>4 DEF Files
<1>6. buffer \subseteq Entry /\ IsFiniteSet(buffer)
  <2>1. buffer \subseteq Entry
    BY DEF Consistent, EntriesByAge, TypeOK, Entry
  <2>2. IsFiniteSet(Entry)
    <3>1. added - 1 \in Int
      BY DEF TypeOK
    <3> QED BY <3>1, FS_Interval DEF Entry
  <2> QED BY <2>1, <2>2, FS_Subset
<1>7. Lists(run, buffer)
  <2>1. \A d, e \in buffer : BufferBefore(d, e) => d # e
    BY <1>6, KeyType DEF BufferBefore, RangeInv, Entry
  <2>2. run \in [1..Cardinality(buffer) -> buffer]
    BY <1>1 DEF BufferRuns, Listings
  <2>3. \A i, j \in 1..Cardinality(buffer) : i < j => BufferBefore(run[i], run[j])
    BY <1>1 DEF BufferRuns, Listings
  <2>4. \A i, j \in 1..Cardinality(buffer) : i < j => run[i] # run[j]
    BY <2>1, <2>2, <2>3
  <2> QED BY <1>6, <2>2, <2>4, InjectionLists
<1> HIDE DEF new
<1>8. RunsList'
  <2>1. /\ DOMAIN runs' = DOMAIN runs \cup {new} /\ DOMAIN starts' = DOMAIN starts \cup {new}
        /\ runs'[new] = run /\ \A f \in DOMAIN runs : f # new => runs'[f] = runs[f]
    BY <1>1, <1>2 DEF Put
  <2> QED BY <1>3, <1>4, <1>7, <2>1 DEF RangeInv, RunsList
<1>9. ASSUME NEW n, ~(nextIndex < n)
      PROVE  IdsBelow(n)' = IdsBelow(n)
  <2>1. {h \in Files' : h[1] < n} = {h \in Files : h[1] < n}
    BY <1>5, <1>9
  <2> QED BY <1>4, <2>1 DEF IdsBelow, Files
<1>10. globalStart = Cardinality(durable) /\ IdsBelow(nextIndex) = durable
  BY <1>2, <1>3, FilesPartition DEF RangeInv, Counting, IdsBelow
<1>11. StartsCount'
  <2>1. ASSUME NEW f \in Files PROVE starts'[f] = Cardinality(IdsBelow(f[1])')
    <3>1. f # new /\ f \in DOMAIN starts /\ starts'[f] = starts[f]
      BY <1>2, <1>3 DEF RangeInv, RunsList, Put, Files
    <3>2. ~(nextIndex < f[1])
      BY <1>3, FilesPartition
    <3> QED BY <1>9, <3>1, <3>2 DEF RangeInv, StartsCount
  <2>2. ASSUME NEW n, n = nextIndex PROVE starts'[new] = Cardinality(IdsBelow(n)')
    <3>1. starts'[new] = globalStart
      BY <1>2 DEF Put
    <3>2. ~(nextIndex < n)
      BY <1>3, <2>2
    <3>3. IdsBelow(n)' = IdsBelow(n)
      BY <1>9, <3>2
    <3> QED BY <1>10, <2>2, <3>1, <3>3
  <2>3. \A f \in Files \cup {new} : starts'[f] = Cardinality(IdsBelow(f[1])')
    BY <1>5, <2>1, <2>2
  <2> QED BY <1>2, <1>5, <2>3 DEF StartsCount
<1>12. Counting'
  <2>1. durable \cap buffer = {}
    <3>1. \A d \in durable, e \in buffer : d < e /\ d \in Nat
      BY DEF Consistent, EntriesByAge, TypeOK
    <3> QED BY <3>1
  <2>2. IsFiniteSet(durable) /\ Cardinality(durable \cap buffer) = 0
        /\ Cardinality(durable) \in Nat /\ Cardinality(buffer) \in Nat
    BY <1>6, <2>1, FilesPartition, FS_EmptySet, FS_CardinalityType
  <2>3. Cardinality(durable \cup buffer) =
          Cardinality(durable) + Cardinality(buffer) - Cardinality(durable \cap buffer)
    BY <1>6, <2>2, FS_Union
  <2> QED BY <1>2, <1>10, <2>2, <2>3 DEF Counting
<1>13. KeysOf' /\ MergeLists'
  BY <1>2, NoMergeLists DEF RangeInv, KeysOf
<1> QED BY <1>8, <1>11, <1>12, <1>13 DEF RangeInv

\* A merge starts with its sources listed and nothing taken.
LEMMA PlanMergeRanges ==
  ASSUME TypeOK, Consistent, RangeInv, PlanMergeQuery
  PROVE  RangeInv'
<1>1. PICK m \in Merges : m.srcs \subseteq readers /\ merge' = m /\ disk' = Put(disk, m.dst, Zeroed)
  BY DEF PlanMergeQuery, PlanMerge
<1>2. /\ UNCHANGED <<keyOf, runs, starts, globalStart, added, durable, todo>> /\ pc = "planning"
      /\ out' = <<>> /\ taken' = [i \in DOMAIN sources' |-> 0] /\ sources' \in SourceLists(m.srcs)
  BY <1>1 DEF PlanMergeQuery, PlanMerge, content, ghosts
<1>3. m.dst \notin ValidFiles(disk)
  <2>1. Listed(levels) = ValidFiles(disk) /\ Ascending(levels) /\ InOrder(disk, Listed(levels))
    BY <1>2 DEF Consistent, MemoryMatchesDisk, MergeUnderWay, FilesInOrder
  <2> QED BY <2>1, MergesWellPlanned DEF WellPlanned, TypeOK
<1>4. ValidFiles(disk') = ValidFiles(disk) /\ \A f \in ValidFiles(disk) : disk'[f] = disk[f]
  BY <1>1, <1>3, PutValid DEF Zeroed
<1>5. m.srcs \subseteq ValidFiles(disk) /\ IsFiniteSet(m.srcs) /\ m.srcs \subseteq Names
  <2>1. readers = ValidFiles(disk) /\ readers \subseteq DOMAIN disk /\ IsFiniteSet(DOMAIN disk)
        /\ DOMAIN disk \subseteq Names
    BY <1>2 DEF Consistent, MemoryMatchesDisk, TypeOK
  <2>2. IsFiniteSet(m.srcs)
    BY <1>1, <2>1, FS_Subset
  <2> QED BY <1>1, <2>1, <2>2
<1>6. Lists(sources', m.srcs)
  <2>1. \A f, g \in m.srcs : Precedes(f, g) => f # g
    BY <1>5 DEF Precedes, Names
  <2>2. sources' \in [1..Cardinality(m.srcs) -> m.srcs]
    BY <1>2 DEF SourceLists, Listings
  <2>3. \A i, j \in 1..Cardinality(m.srcs) : i < j => Precedes(sources'[i], sources'[j])
    BY <1>2 DEF SourceLists, Listings
  <2>4. \A i, j \in 1..Cardinality(m.srcs) : i < j => sources'[i] # sources'[j]
    BY <2>1, <2>2, <2>3
  <2> QED BY <1>5, <2>2, <2>4, InjectionLists
<1>7. MergeLists'
  <2>1. \A i \in DOMAIN sources' : taken'[i] = 0 /\ sources'[i] \in m.srcs
    BY <1>2, <1>6 DEF Lists
  <2>2. \A i \in DOMAIN sources' : Len(runs[sources'[i]]) \in Nat
    BY <1>5, <2>1, ListsLen DEF RangeInv, RunsList, Lists
  <2>3. Took' = {}
    BY <2>1 DEF Took
  <2>4. Lists(<<>>, {})
    BY DEF Lists
  <2>5. Lists(out', Took')
    BY <1>2, <2>3, <2>4
  <2>6. DOMAIN taken' = DOMAIN sources'
    BY <1>2
  <2>7. \A i \in DOMAIN sources' : taken'[i] \in 0..Len(runs[sources'[i]])
    BY <2>1, <2>2
  <2> QED BY <1>1, <1>2, <1>6, <2>5, <2>6, <2>7 DEF MergeLists, Lists
<1>8. KeysOf'
  BY <1>2 DEF RangeInv, KeysOf
<1> QED BY <1>2, <1>4, <1>7, <1>8, KeptRanges

\* While not all is taken the merge picks a source that has an entry left, even
\* among empty keys.
LEMMA SmallestHasMore ==
  ASSUME TypeOK, Consistent, RangeInv, pc = "merging", ~MergeOver
  PROVE  Smallest \in DOMAIN sources /\ taken[Smallest] < Len(runs[sources[Smallest]])
<1> DEFINE live == {i \in DOMAIN sources : taken[i] < Len(runs[sources[i]])}
           compared == {i \in live : \A j \in live : Key(Upcoming(j)) = Empty =>
                          j < i \/ (j = i /\ \A k \in live : k <= i)}
           ok(i) == \A j \in compared : \/ Key(Upcoming(i)) < Key(Upcoming(j))
                                        \/ Key(Upcoming(i)) = Key(Upcoming(j)) /\ i <= j
<1>1. /\ Lists(sources, merge.srcs) /\ merge.srcs \subseteq ValidFiles(disk)
      /\ \A i \in DOMAIN sources : taken[i] \in 0..Len(runs[sources[i]])
  <2>1. merge.srcs \subseteq ValidFiles(disk)
    BY DEF TypeOK, Consistent, MemoryMatchesDisk
  <2> QED BY <2>1 DEF RangeInv, MergeLists
<1>2. \A i \in DOMAIN sources :
        sources[i] \in merge.srcs /\ Lists(runs[sources[i]], disk[sources[i]].ids)
  <2>1. \A i \in DOMAIN sources : sources[i] \in merge.srcs
    BY <1>1 DEF Lists
  <2> QED BY <1>1, <2>1 DEF RangeInv, RunsList
<1>3. live # {} /\ live \subseteq Nat /\ Len(sources) \in Nat /\ \A i \in live : i <= Len(sources)
  <2>1. Len(sources) \in Nat /\ DOMAIN sources = 1..Len(sources)
    BY <1>1 DEF Lists
  <2>2. \A i \in DOMAIN sources : Len(runs[sources[i]]) \in Nat
    BY <1>2 DEF Lists
  <2>3. live # {}
    BY <1>1, <2>2 DEF MergeOver
  <2> QED BY <2>1, <2>3
<1>4. \A i \in live : Key(Upcoming(i)) \in Nat
  <2> SUFFICES ASSUME NEW i \in live PROVE Key(Upcoming(i)) \in Nat
    OBVIOUS
  <2>1. /\ runs[sources[i]] \in Seq(disk[sources[i]].ids)
        /\ taken[i] + 1 \in 1..Len(runs[sources[i]])
    BY <1>1, <1>2 DEF Lists
  <2>2. Upcoming(i) \in disk[sources[i]].ids
    BY <2>1 DEF Upcoming
  <2>3. disk[sources[i]].ids \subseteq Entry
    <3>1. sources[i] \in ValidFiles(disk)
      BY <1>1, <1>2
    <3> QED BY <3>1, FilesPartition, StoredMember DEF Consistent, NothingLost
  <2> QED BY <2>2, <2>3, KeyType DEF RangeInv
<1> HIDE DEF live
<1>5. compared # {} /\ compared \subseteq live
  <2>1. \A i \in live : i < Len(sources) + 1
    BY <1>3
  <2>2. PICK m \in live : \A k \in live : k <= m
    <3>1. Len(sources) + 1 \in Nat
      BY <1>3
    <3> QED BY <1>3, <2>1, <3>1, Greatest
  <2>3. \A j \in live : j < m \/ j = m
    BY <1>3, <2>2
  <2> QED BY <2>2, <2>3
<1> HIDE DEF compared
<1>6. \E i \in compared : ok(i)
  <2> DEFINE keys == {Key(Upcoming(i)) : i \in compared}
  <2>1. keys # {} /\ keys \subseteq Nat
    BY <1>4, <1>5
  <2>2. PICK key \in keys : \A k \in keys : key <= k
    BY <2>1, Least
  <2> DEFINE having == {i \in compared : Key(Upcoming(i)) = key}
  <2>3. PICK i \in having : \A j \in having : i <= j
    BY <1>3, <1>5, <2>2, Least
  <2>4. ASSUME NEW j \in compared
        PROVE  \/ Key(Upcoming(i)) < Key(Upcoming(j))
               \/ Key(Upcoming(i)) = Key(Upcoming(j)) /\ i <= j
    <3>1. Key(Upcoming(i)) = key /\ key <= Key(Upcoming(j)) /\ key \in Nat /\ Key(Upcoming(j)) \in Nat
      BY <1>4, <1>5, <2>1, <2>2, <2>3, <2>4
    <3>2. CASE Key(Upcoming(j)) = key
      BY <2>3, <2>4, <3>1, <3>2
    <3>3. CASE Key(Upcoming(j)) # key
      BY <3>1, <3>3
    <3> QED BY <3>2, <3>3
  <2> QED BY <2>3, <2>4
<1>7. Smallest = CHOOSE i \in compared : ok(i)
  BY Zenon DEF Smallest, compared, live
<1> HIDE DEF ok
<1>8. Smallest \in compared
  BY <1>6, <1>7
<1> QED BY <1>5, <1>8 DEF live

\* An entry that the merge takes is one it has not taken before.
LEMMA MergeEntryRanges ==
  ASSUME TypeOK, Consistent, RangeInv, MergeEntry
  PROVE  RangeInv'
<1> DEFINE m == Smallest
           e == Upcoming(m)
           has(i) == {runs[sources[i]][j] : j \in 1..taken[i]}
<1>1. /\ pc = "merging" /\ ~MergeOver
      /\ UNCHANGED <<keyOf, runs, starts, globalStart, durable, todo, disk, sources, merge, pc, added>>
      /\ out' = Append(out, e) /\ taken' = [taken EXCEPT ![m] = @ + 1]
  BY DEF MergeEntry, vars, memory, ghosts, content
<1>2. /\ m \in DOMAIN sources /\ taken[m] < Len(runs[sources[m]])
      /\ e = runs[sources[m]][taken[m] + 1]
  BY <1>1, SmallestHasMore DEF Upcoming
<1> HIDE DEF m, e
<1>3. /\ Lists(sources, merge.srcs) /\ DOMAIN taken = DOMAIN sources /\ Lists(out, Took)
      /\ \A i \in DOMAIN sources : taken[i] \in 0..Len(runs[sources[i]])
  BY <1>1 DEF RangeInv, MergeLists
<1>4. \A i \in DOMAIN sources : sources[i] \in Files /\ Lists(runs[sources[i]], disk[sources[i]].ids)
  <2>1. merge.srcs \subseteq ValidFiles(disk) /\ todo = {}
    BY <1>1 DEF TypeOK, Consistent, MemoryMatchesDisk, MergeUnderWay
  <2>2. \A i \in DOMAIN sources : sources[i] \in merge.srcs
    BY <1>3 DEF Lists
  <2> QED BY <2>1, <2>2 DEF RangeInv, RunsList, Files
<1>5. \A i \in DOMAIN sources : taken'[i] = IF i = m THEN taken[i] + 1 ELSE taken[i]
  BY <1>1, <1>2, <1>3
<1>6. \A i \in DOMAIN sources : Len(runs[sources[i]]) \in Nat
  BY <1>4 DEF Lists
<1>7. e \notin Took
  <2> SUFFICES ASSUME NEW i \in DOMAIN sources, NEW j \in 1..taken[i], e = runs[sources[i]][j]
               PROVE  FALSE
    BY DEF Took
  <2>1. /\ j \in DOMAIN runs[sources[i]] /\ taken[m] + 1 \in DOMAIN runs[sources[m]]
        /\ taken[m] \in Nat /\ j \in Nat
    <3>1. DOMAIN runs[sources[i]] = 1..Len(runs[sources[i]]) /\ DOMAIN runs[sources[m]] = 1..Len(runs[sources[m]])
      BY <1>2, <1>4, ListsPlaces
    <3> QED BY <1>2, <1>3, <1>6, <3>1
  <2>2. CASE i = m
    <3>1. j = taken[m] + 1
      <4>1. \A k, l \in DOMAIN runs[sources[m]] : runs[sources[m]][k] = runs[sources[m]][l] => k = l
        BY <1>2, <1>4, ListsPlaces
      <4> QED BY <1>2, <2>1, <2>2, <4>1
    <3> QED BY <2>1, <2>2, <3>1
  <2>3. CASE i # m
    <3>1. sources[i] # sources[m]
      BY <1>2, <1>3, <2>3, ListsPlaces
    <3>2. e \in disk[sources[i]].ids /\ e \in disk[sources[m]].ids
      <4>1. \A k \in DOMAIN sources :
              \A l \in DOMAIN runs[sources[k]] : runs[sources[k]][l] \in disk[sources[k]].ids
        BY <1>4, ListsPlaces
      <4> QED BY <1>2, <2>1, <4>1
    <3> QED BY <1>2, <1>4, <3>1, <3>2, FilesPartition
  <2> QED BY <2>2, <2>3
<1>8. Took' = Took \cup {e}
  <2> DEFINE now(i) == {runs[sources[i]][j] : j \in 1..taken'[i]}
  <2>1. now(m) = has(m) \cup {e}
    <3>1. \A j : j \in 1..taken'[m] <=> j \in 1..taken[m] \/ j = taken[m] + 1
      BY <1>2, <1>3, <1>5, <1>6
    <3> QED BY <1>2, <3>1
  <2>2. \A i \in DOMAIN sources : i # m => now(i) = has(i)
    BY <1>5
  <2>3. Took' = UNION {now(i) : i \in DOMAIN sources} /\ Took = UNION {has(i) : i \in DOMAIN sources}
    BY <1>1 DEF Took
  <2> HIDE DEF now, has
  <2>4. \A x : x \in Took' <=> \E i \in DOMAIN sources : x \in now(i)
    BY <2>3
  <2>5. \A x : x \in Took <=> \E i \in DOMAIN sources : x \in has(i)
    BY <2>3
  <2>6. \A x : x \in Took' <=> x \in Took \/ x = e
    BY <1>2, <2>1, <2>2, <2>4, <2>5
  <2> QED BY <2>6
<1>9. Lists(out', Took')
  BY <1>1, <1>3, <1>7, <1>8, AppendLists
<1>10. MergeLists'
  <2>1. \A i \in DOMAIN sources : taken'[i] \in 0..Len(runs[sources[i]])
    BY <1>2, <1>3, <1>5, <1>6
  <2>2. DOMAIN taken' = DOMAIN sources
    BY <1>1, <1>3
  <2>3. Lists(sources', merge'.srcs)
    BY <1>1, <1>3
  <2> QED BY <1>1, <1>9, <2>1, <2>2, <2>3 DEF MergeLists, Lists
<1>11. KeysOf'
  BY <1>1 DEF RangeInv, KeysOf
<1> QED BY <1>1, <1>10, <1>11, KeptRanges

\* A merge has sources.
LEMMA MergeHasSources ==
  ASSUME levels \in Seq(Seq(Nat)), NEW m \in Merges
  PROVE  m.srcs # {}
<1>1. CASE m \in CascadedMerges
  <2>1. Len(levels[1]) \in Nat \ {0} /\ 1 \in 1..Len(levels)
    BY <1>1, CascadedMergesType
  <2>2. PICK n \in 1..Len(levels) : m.srcs = ListedBelow(levels, n)
    BY <1>1, CascadedMergesType
  <2>3. <<levels[1][1], 1 - 1>> \in ListedBelow(levels, n)
    BY <2>1, ListedMember
  <2> QED BY <2>2, <2>3
<1>2. CASE m \in FullMerges
  <2>1. PICK k \in 1..Len(levels) : Len(levels[k]) \in Nat \ {0} /\ m.srcs = Listed(levels)
    BY <1>2, FullMergesType
  <2>2. <<levels[k][1], k - 1>> \in Listed(levels)
    BY <2>1, ListedAllMember
  <2> QED BY <2>1, <2>2
<1> QED BY <1>1, <1>2 DEF Merges

\* The target takes the place of its sources: its range starts where that of the
\* lowest of them does, and no other file moves.
LEMMA WriteMergeRanges ==
  ASSUME TypeOK, Consistent, RangeInv, WriteMergeQuery
  PROVE  RangeInv'
<1> DEFINE dst == merge.dst
           srcs == merge.srcs
           ids == UNION {disk[f].ids : f \in merge.srcs}
           rest == Files \ merge.srcs
<1>1. /\ UNCHANGED <<keyOf, added, durable, globalStart>> /\ pc = "merging" /\ pc' = "removing"
      /\ disk' = Put(disk, dst, Written(ids)) /\ todo' = srcs /\ MergeOver
      /\ runs' = Put(runs, dst, out) /\ starts' = Put(starts, dst, MergedStart)
  BY DEF WriteMergeQuery, WriteMerge, ghosts
<1>2. /\ todo = {} /\ Files = ValidFiles(disk) /\ Listed(levels) = Files /\ merge \in Merges
      /\ levels \in Seq(Seq(Nat))
  BY <1>1 DEF Consistent, MemoryMatchesDisk, MergeUnderWay, Files, TypeOK
<1>3. WellPlanned(merge) /\ srcs # {}
  <2>1. Ascending(levels) /\ InOrder(disk, Listed(levels))
    BY <1>1, <1>2 DEF Consistent, MemoryMatchesDisk, FilesInOrder
  <2> QED BY <1>2, <2>1, MergesWellPlanned, MergeHasSources
<1>4. /\ srcs \subseteq Files /\ dst \notin Files /\ dst[1] \in Nat
      /\ \A f \in rest : f[1] < dst[1] /\ \A g \in srcs : f[1] < g[1]
  BY <1>2, <1>3 DEF WellPlanned, MergeOps, Names
<1>5. /\ ValidFiles(disk') = Files \cup {dst} /\ disk'[dst].ids = ids
      /\ \A f \in Files : disk'[f] = disk[f]
  <2> HIDE DEF dst, ids
  <2>1. dst \notin ValidFiles(disk) /\ Written(ids).valid /\ Written(ids).ids = ids
    BY <1>2, <1>4 DEF Written
  <2>2. /\ ValidFiles(disk') = ValidFiles(disk) \cup {dst} /\ disk'[dst] = Written(ids)
        /\ \A f \in ValidFiles(disk) : disk'[f] = disk[f]
    BY <1>1, <2>1, PutValid
  <2> QED BY <1>2, <2>1, <2>2
<1> HIDE DEF ids
<1>6. Files' = rest \cup {dst}
  BY <1>1, <1>4, <1>5 DEF Files
<1>7. \A f \in Files : f[1] \in Nat
  BY FilesPartition
<1>8. Lists(out, ids)
  <2>1. Lists(out, Took) /\ Lists(sources, srcs)
    BY <1>1 DEF RangeInv, MergeLists
  <2>2. \A i \in DOMAIN sources :
          sources[i] \in srcs /\ {runs[sources[i]][j] : j \in 1..taken[i]} = disk[sources[i]].ids
    <3> SUFFICES ASSUME NEW i \in DOMAIN sources
                 PROVE  /\ sources[i] \in srcs
                        /\ {runs[sources[i]][j] : j \in 1..taken[i]} = disk[sources[i]].ids
      OBVIOUS
    <3>1. sources[i] \in srcs /\ taken[i] = Len(runs[sources[i]])
      BY <1>1, <2>1 DEF Lists, MergeOver
    <3>2. Lists(runs[sources[i]], disk[sources[i]].ids)
      BY <1>2, <1>4, <3>1 DEF RangeInv, RunsList
    <3> QED BY <3>1, <3>2 DEF Lists
  <2>3. \A f \in srcs : \E i \in DOMAIN sources : sources[i] = f
    BY <2>1, ListsPlaces
  <2>4. \A x : x \in Took <=> \E i \in DOMAIN sources : x \in disk[sources[i]].ids
    <3>1. \A x : x \in Took <=>
            \E i \in DOMAIN sources : x \in {runs[sources[i]][j] : j \in 1..taken[i]}
      BY DEF Took
    <3> QED BY <2>2, <3>1
  <2>5. \A x : x \in Took <=> x \in ids
    BY <2>2, <2>3, <2>4 DEF ids
  <2>6. Took = ids
    BY <2>5
  <2> QED BY <2>1, <2>6
<1>9. RunsList'
  <2>1. /\ DOMAIN runs' = DOMAIN runs \cup {dst} /\ DOMAIN starts' = DOMAIN starts \cup {dst}
        /\ runs'[dst] = out /\ \A f \in DOMAIN runs : f # dst => runs'[f] = runs[f]
    BY <1>1 DEF Put
  <2> QED BY <1>2, <1>4, <1>5, <1>8, <2>1 DEF RangeInv, RunsList
<1> HIDE DEF dst, rest
<1>10. ASSUME NEW n, ~(dst[1] < n), \A f \in srcs : ~(f[1] < n) PROVE IdsBelow(n)' = IdsBelow(n)
  <2>1. {h \in Files' : h[1] < n} = {h \in Files : h[1] < n}
    BY <1>6, <1>10 DEF rest
  <2> QED BY <1>5, <2>1 DEF IdsBelow
<1>11. PICK low \in srcs : \A f \in srcs : low[1] <= f[1]
  <2> DEFINE T == {f[1] : f \in srcs}
  <2>1. T \subseteq Nat /\ T # {}
    BY <1>3, <1>4, <1>7
  <2>2. PICK b \in T : \A t \in T : b <= t
    BY <2>1, Least
  <2> QED BY <2>2
<1>12. MergedStart = Cardinality(IdsBelow(low[1]))
  <2> DEFINE S == {starts[f] : f \in srcs}
  <2>1. \A f \in srcs : starts[f] = Cardinality(IdsBelow(f[1])) /\ starts[f] \in Nat
    BY <1>4, BelowGrows DEF RangeInv, StartsCount
  <2>2. ASSUME NEW f \in srcs PROVE starts[low] <= starts[f]
    <3>1. low[1] < f[1] \/ low = f
      BY <1>4, <1>7, <1>11, FilesPartition
    <3>2. CASE low[1] < f[1]
      <4>1. Cardinality(IdsBelow(low[1]) \cup disk[low].ids) <= Cardinality(IdsBelow(f[1]))
        BY <1>4, <1>7, <3>2, BelowGrows
      <4>2. /\ Cardinality(IdsBelow(low[1])) \in Nat /\ Cardinality(disk[low].ids) \in Nat
            /\ Cardinality(IdsBelow(low[1]) \cup disk[low].ids) =
                 Cardinality(IdsBelow(low[1])) + Cardinality(disk[low].ids)
        BY <1>4, FileOnTop
      <4> QED BY <2>1, <4>1, <4>2
    <3> QED BY <2>1, <3>1, <3>2
  <2>3. starts[low] \in S /\ \A f \in srcs : starts[low] <= starts[f]
    BY <2>2
  <2>4. \A s \in S : (\A f \in srcs : s <= starts[f]) => s = starts[low]
    BY <2>1, <2>2
  <2>5. MergedStart = starts[low]
    BY <2>3, <2>4 DEF MergedStart
  <2> QED BY <2>1, <2>5
<1>13. StartsCount'
  <2>1. ASSUME NEW f \in rest PROVE starts'[f] = Cardinality(IdsBelow(f[1])')
    <3>1. f # dst /\ f \in DOMAIN starts /\ starts'[f] = starts[f] /\ f \in Files
      BY <1>1, <1>2, <1>4 DEF RangeInv, RunsList, Put, rest
    <3>2. ~(dst[1] < f[1]) /\ \A g \in srcs : ~(g[1] < f[1])
      BY <1>4, <1>7, <3>1
    <3> QED BY <1>10, <3>1, <3>2 DEF RangeInv, StartsCount
  <2>2. ASSUME NEW n, n = dst[1] PROVE starts'[dst] = Cardinality(IdsBelow(n)')
    <3>1. starts'[dst] = MergedStart
      BY <1>1 DEF Put, dst
    <3>2. {h \in Files' : h[1] < n} = rest
      BY <1>4, <1>6, <2>2
    <3>3. {h \in Files : h[1] < low[1]} = rest
      <4>1. \A h \in rest : h[1] < low[1] /\ h \in Files
        BY <1>4, <1>11 DEF rest
      <4>2. \A h \in srcs : ~(h[1] < low[1])
        BY <1>4, <1>7, <1>11
      <4> QED BY <4>1, <4>2 DEF rest
    <3>4. IdsBelow(n)' = IdsBelow(low[1])
      BY <1>5, <3>2, <3>3 DEF IdsBelow, rest
    <3> QED BY <1>12, <3>1, <3>4
  <2>3. \A f \in rest \cup {dst} : starts'[f] = Cardinality(IdsBelow(f[1])')
    BY <2>1, <2>2
  <2> QED BY <1>6, <2>3 DEF StartsCount
<1>14. KeysOf' /\ Counting' /\ MergeLists'
  BY <1>1, NoMergeLists DEF RangeInv, KeysOf, Counting
<1> QED BY <1>9, <1>13, <1>14 DEF RangeInv

\* Removing a merged file moves none that stays.
LEMMA RemoveSourceRanges ==
  ASSUME TypeOK, Consistent, RangeInv, RemoveSourceQuery
  PROVE  RangeInv'
<1>1. PICK f \in todo : disk' = Remove(disk, f) /\ todo' = todo \ {f}
  BY DEF RemoveSourceQuery, RemoveSource
<1>2. /\ UNCHANGED <<keyOf, added, durable, globalStart>> /\ pc = "removing" /\ pc' # "merging"
      /\ runs' = Kept(ValidFiles(disk')) /\ starts' = KeptStarts(ValidFiles(disk'))
  BY DEF RemoveSourceQuery, RemoveSource, Return, ghosts
<1>3. ValidFiles(disk') = ValidFiles(disk) \ {f} /\ \A g \in ValidFiles(disk') : disk'[g] = disk[g]
  BY <1>1, RemoveValid
<1>4. Files' = Files /\ \A g \in Files : disk'[g] = disk[g] /\ g \in ValidFiles(disk')
  BY <1>1, <1>3 DEF Files
<1>5. \A n : IdsBelow(n)' = IdsBelow(n)
  BY <1>4, SameBelow
<1>6. \A g \in ValidFiles(disk') : runs'[g] = runs[g] /\ starts'[g] = starts[g]
  BY <1>2 DEF Kept, KeptStarts
<1>7. RunsList'
  BY <1>2, <1>3, <1>6 DEF RangeInv, RunsList, Kept, KeptStarts
<1>8. StartsCount'
  BY <1>4, <1>5, <1>6 DEF RangeInv, StartsCount
<1>9. KeysOf' /\ Counting' /\ MergeLists'
  BY <1>2, NoMergeLists DEF RangeInv, KeysOf, Counting
<1> QED BY <1>7, <1>8, <1>9 DEF RangeInv

\* Every step keeps the ranges.
LEMMA RangeStep ==
  ASSUME TypeOK, Consistent, RangeInv, [NextQuery]_qvars
  PROVE  RangeInv'
<1>1. CASE UNCHANGED qvars
  <2>1. UNCHANGED <<keyOf, runs, starts, globalStart, durable, todo, added, pc, merge, sources, taken,
                    out, disk>>
    BY <1>1 DEF qvars, vars, content, merging, memory, ghosts
  <2>2. KeysOf'
    BY <2>1 DEF RangeInv, KeysOf
  <2>3. Took' = Took /\ merge' = merge
    BY <1>1, <2>1 DEF qvars, vars, memory, Took
  <2>4. MergeLists'
    BY <2>1, <2>3 DEF RangeInv, MergeLists, Lists
  <2> QED BY <2>1, <2>2, <2>4, KeptRanges
<1>2. CASE \E size \in EntrySizes, key \in Keys : AddQuery(size, key)
  BY <1>2, AddRanges
<1>3. CASE \E mode \in OpenModes : OpenQuery(mode)
  BY <1>3, OpenRanges
<1>4. CASE WriteFlushQuery
  BY <1>4, WriteFlushRanges
<1>5. CASE PlanMergeQuery
  BY <1>5, PlanMergeRanges
<1>6. CASE MergeEntry
  BY <1>6, MergeEntryRanges
<1>7. CASE WriteMergeQuery
  BY <1>7, WriteMergeRanges
<1>8. CASE RemoveSourceQuery
  BY <1>8, RemoveSourceRanges
<1>9. CASE OtherQuery
  BY <1>9, OtherRanges
<1> QED BY <1>1, <1>2, <1>3, <1>4, <1>5, <1>6, <1>7, <1>8, <1>9 DEF NextQuery

\* Between two calls the ranges in the footers number the entries of the whole
\* database without a gap or an overlap, whatever flushes, merges, exceptions,
\* deaths of the process and restarts have come before: at(index) finds exactly
\* one file to look in (flush_buffer, Writer::merge, load_state).
THEOREM RangesAlwaysTile == SpecQuery => []RangesTile
<1>1. InitQuery => RangeInv
  BY InitRanges
<1>2. TypeOK /\ Consistent /\ RangeInv /\ [NextQuery]_qvars => RangeInv'
  BY RangeStep
<1>3. TypeOK /\ Consistent /\ RangeInv => RangesTile
  BY RangesFollow DEF RangesTile
<1> QED BY <1>1, <1>2, <1>3, FromKvDb, PTL DEF SpecQuery

-----------------------------------------------------------------------------
(* What an iterator over several files visits.                              *)

\* An entry that an iterator visits before another one: it has the smaller key
\* or, where the files are stable, the same key and was added before.
Before(stable, d, e) == Key(d) < Key(e) \/ (Key(d) = Key(e) /\ (stable => d < e))
Ordered(stable, s) ==
  s \in Seq(Entry) /\ \A p, q \in 1..Len(s) : p < q => Before(stable, s[p], s[q])

\* Files that an iterator can go through: each in order, no entry twice and,
\* where they are stable, the values of a key in the earlier files first.
Iterable(stable, files) ==
  /\ \E m \in Nat : DOMAIN files = 1..m
  /\ \A i \in DOMAIN files : Ordered(stable, files[i])
  /\ \A i, j \in DOMAIN files : \A p \in 1..Len(files[i]), q \in 1..Len(files[j]) :
       files[i][p] = files[j][q] => i = j /\ p = q
  /\ stable => \A i, j \in DOMAIN files : i < j =>
       \A p \in 1..Len(files[i]), q \in 1..Len(files[j]) :
         Key(files[i][p]) = Key(files[j][q]) => files[i][p] < files[j][q]

Position(files, here) == here \in [DOMAIN files -> Nat] /\ \A i \in DOMAIN files : here[i] <= Len(files[i])
Coming(files, here, i) == files[i][here[i] + 1]
Passed(files, from, here) == UNION {{files[i][p] : p \in (from[i] + 1)..here[i]} : i \in DOMAIN files}

IsCurrent(files, here, i) ==
  /\ i \in DOMAIN files /\ here[i] < Len(files[i])
  /\ \A j \in DOMAIN files : here[j] < Len(files[j]) =>
       \/ Key(Coming(files, here, i)) < Key(Coming(files, here, j))
       \/ Key(Coming(files, here, i)) = Key(Coming(files, here, j)) /\ i <= j

\* Files that can be gone through are sequences of entries, finitely many.
LEMMA IterableTypes ==
  ASSUME NEW stable, NEW files, Iterable(stable, files)
  PROVE  /\ DOMAIN files \subseteq Nat /\ IsFiniteSet(DOMAIN files)
         /\ \A i \in DOMAIN files : files[i] \in Seq(Entry) /\ Len(files[i]) \in Nat
         /\ \A i \in DOMAIN files, p \in Nat : p \in 1..Len(files[i]) => files[i][p] \in Entry
<1>1. PICK m \in Nat : DOMAIN files = 1..m
  BY DEF Iterable
<1>2. IsFiniteSet(1..m)
  BY FS_Interval
<1>3. ASSUME NEW i \in DOMAIN files
      PROVE  /\ files[i] \in Seq(Entry) /\ Len(files[i]) \in Nat
             /\ \A p \in Nat : p \in 1..Len(files[i]) => files[i][p] \in Entry
  BY DEF Iterable, Ordered
<1> QED BY <1>1, <1>2, <1>3

\* A place is ahead of an iterator if it lies between its position in that file
\* and the end of the file.
LEMMA AheadPlaces ==
  ASSUME NEW files, NEW here
  PROVE  \A a : a \in Ahead(files, here) <=>
           /\ a = <<a[1], a[2]>> /\ a[1] \in DOMAIN files /\ a[2] \in (here[a[1]] + 1)..Len(files[a[1]])
<1> SUFFICES ASSUME NEW a
             PROVE  a \in Ahead(files, here) <=>
                      /\ a = <<a[1], a[2]>> /\ a[1] \in DOMAIN files
                      /\ a[2] \in (here[a[1]] + 1)..Len(files[a[1]])
  OBVIOUS
<1>1. a \in Ahead(files, here) <=>
        \E i \in DOMAIN files : \E p \in (here[i] + 1)..Len(files[i]) : a = <<i, p>>
  BY DEF Ahead
<1>2. \A i, p : a = <<i, p>> => a[1] = i /\ a[2] = p
  OBVIOUS
<1> QED BY <1>1, <1>2

\* While a place is ahead there is a current file, whose next entry comes first.
LEMMA CurrentIsLeast ==
  ASSUME TypeOK, KeysOf, NEW stable, NEW files, Iterable(stable, files),
         NEW here, Position(files, here), Ahead(files, here) # {}
  PROVE  IsCurrent(files, here, Current(files, here))
<1> DEFINE live == {i \in DOMAIN files : here[i] < Len(files[i])}
           ok(i) == \A j \in live :
             \/ Key(Coming(files, here, i)) < Key(Coming(files, here, j))
             \/ Key(Coming(files, here, i)) = Key(Coming(files, here, j)) /\ i <= j
<1>1. live # {} /\ live \subseteq Nat
  <2>1. PICK a : a \in Ahead(files, here)
    OBVIOUS
  <2>2. a[1] \in DOMAIN files /\ a[2] \in (here[a[1]] + 1)..Len(files[a[1]])
    BY <2>1, AheadPlaces
  <2>3. here[a[1]] \in Nat /\ Len(files[a[1]]) \in Nat
    BY <2>2, IterableTypes DEF Position
  <2>4. a[1] \in live
    BY <2>2, <2>3
  <2> QED BY <2>4, IterableTypes
<1>2. \A i \in live : Key(Coming(files, here, i)) \in Nat
  <2> SUFFICES ASSUME NEW i \in live PROVE Key(Coming(files, here, i)) \in Nat
    OBVIOUS
  <2>1. here[i] + 1 \in Nat /\ here[i] + 1 \in 1..Len(files[i])
    BY IterableTypes DEF Position
  <2>2. Coming(files, here, i) \in Entry
    BY <2>1, IterableTypes DEF Coming
  <2> QED BY <2>2, KeyType
<1>3. Current(files, here) = CHOOSE i \in live : ok(i)
  <2>1. DOMAIN here = DOMAIN files
    BY DEF Position
  <2> QED BY <2>1, Zenon DEF Current, Coming
<1>4. \E i \in live : ok(i)
  <2> DEFINE keys == {Key(Coming(files, here, i)) : i \in live}
  <2>1. PICK key \in keys : \A k \in keys : key <= k
    BY <1>1, <1>2, Least
  <2> DEFINE having == {i \in live : Key(Coming(files, here, i)) = key}
  <2>2. PICK i \in having : \A j \in having : i <= j
    BY <1>1, <2>1, Least
  <2>3. ASSUME NEW j \in live
        PROVE  \/ Key(Coming(files, here, i)) < Key(Coming(files, here, j))
               \/ Key(Coming(files, here, i)) = Key(Coming(files, here, j)) /\ i <= j
    <3>1. /\ Key(Coming(files, here, i)) = key /\ key <= Key(Coming(files, here, j))
          /\ key \in Nat /\ Key(Coming(files, here, j)) \in Nat
      BY <1>2, <2>1, <2>3
    <3>2. CASE Key(Coming(files, here, j)) = key
      BY <2>2, <2>3, <3>1, <3>2
    <3>3. CASE Key(Coming(files, here, j)) # key
      BY <3>1, <3>3
    <3> QED BY <3>2, <3>3
  <2> QED BY <2>2, <2>3
<1>5. Current(files, here) \in live /\ ok(Current(files, here))
  <2> HIDE DEF live, ok
  <2> QED BY <1>3, <1>4
<1> QED BY <1>5 DEF IsCurrent

\* Going on in the current file takes one place from those ahead, and its entry
\* has not been visited before.
Advances(files, from, here, i, on) ==
  /\ Position(files, on) /\ \A j \in DOMAIN files : from[j] <= on[j]
  /\ <<i, here[i] + 1>> \in Ahead(files, here)
  /\ Ahead(files, on) = Ahead(files, here) \ {<<i, here[i] + 1>>}
  /\ Coming(files, here, i) \in Entry
  /\ Coming(files, here, i) \notin Passed(files, from, here)
  /\ Passed(files, from, on) = Passed(files, from, here) \cup {Coming(files, here, i)}

\* Reading the current entry moves one position by one and passes that entry only.
LEMMA Advance ==
  ASSUME NEW stable, NEW files, Iterable(stable, files), NEW from, Position(files, from),
         NEW here, Position(files, here), \A j \in DOMAIN files : from[j] <= here[j],
         NEW i, IsCurrent(files, here, i)
  PROVE  Advances(files, from, here, i, [here EXCEPT ![i] = @ + 1])
<1> DEFINE on == [here EXCEPT ![i] = @ + 1]
<1> DEFINE e == Coming(files, here, i)
<1>1. /\ i \in DOMAIN files /\ here[i] \in Nat /\ Len(files[i]) \in Nat /\ here[i] < Len(files[i])
      /\ from[i] \in Nat /\ from[i] <= here[i]
  BY IterableTypes DEF IsCurrent, Position
<1>2. /\ \A j \in DOMAIN files : here[j] \in Nat /\ Len(files[j]) \in Nat /\ from[j] \in Nat
      /\ \A j \in DOMAIN files : on[j] = IF j = i THEN here[i] + 1 ELSE here[j]
      /\ on \in [DOMAIN files -> Nat]
  BY <1>1, IterableTypes DEF Position
<1>3. Position(files, on) /\ \A j \in DOMAIN files : from[j] <= on[j]
  BY <1>1, <1>2 DEF Position
<1>4. ASSUME NEW a PROVE a \in Ahead(files, on) <=> a \in Ahead(files, here) /\ a # <<i, here[i] + 1>>
  <2>1. CASE a = <<a[1], a[2]>> /\ a[1] \in DOMAIN files
    <3> DEFINE j == a[1]
               p == a[2]
    <3>1. p \in (on[j] + 1)..Len(files[j]) <=> p \in (here[j] + 1)..Len(files[j]) /\ ~(j = i /\ p = here[i] + 1)
      BY <1>1, <1>2, <2>1
    <3>2. a = <<i, here[i] + 1>> <=> j = i /\ p = here[i] + 1
      BY <2>1
    <3> QED BY <2>1, <3>1, <3>2, AheadPlaces
  <2>2. CASE ~(a = <<a[1], a[2]>> /\ a[1] \in DOMAIN files)
    BY <2>2, AheadPlaces
  <2> QED BY <2>1, <2>2
<1>5. Ahead(files, on) = Ahead(files, here) \ {<<i, here[i] + 1>>}
  BY <1>4
<1>6. <<i, here[i] + 1>> \in Ahead(files, here)
  <2>1. here[i] + 1 \in (here[i] + 1)..Len(files[i])
    BY <1>1
  <2> QED BY <1>1, <2>1, AheadPlaces
<1>7. e \in Entry /\ here[i] + 1 \in 1..Len(files[i])
  <2>1. here[i] + 1 \in Nat /\ here[i] + 1 \in 1..Len(files[i])
    BY <1>1
  <2> QED BY <1>1, <2>1, IterableTypes DEF Coming
<1>8. e \notin Passed(files, from, here)
  <2> SUFFICES ASSUME NEW j \in DOMAIN files, NEW p \in (from[j] + 1)..here[j], files[j][p] = e
               PROVE  FALSE
    BY DEF Passed
  <2>1. p \in 1..Len(files[j]) /\ p <= here[j]
    BY <1>2 DEF Position
  <2>2. j = i /\ p = here[i] + 1
    BY <1>1, <1>7, <2>1 DEF Iterable, Coming
  <2> QED BY <1>1, <2>1, <2>2
<1>9. Passed(files, from, on) = Passed(files, from, here) \cup {e}
  <2>1. ASSUME NEW j \in DOMAIN files
        PROVE  \A p : p \in (from[j] + 1)..on[j] <=> p \in (from[j] + 1)..here[j] \/ (j = i /\ p = here[i] + 1)
    BY <1>1, <1>2
  <2>2. ASSUME NEW x PROVE x \in Passed(files, from, on) <=> x \in Passed(files, from, here) \cup {e}
    <3>1. x \in Passed(files, from, on) <=>
            \E j \in DOMAIN files : \E p \in (from[j] + 1)..on[j] : x = files[j][p]
      BY DEF Passed
    <3>2. x \in Passed(files, from, here) <=>
            \E j \in DOMAIN files : \E p \in (from[j] + 1)..here[j] : x = files[j][p]
      BY DEF Passed
    <3> QED BY <1>1, <2>1, <3>1, <3>2 DEF Coming
  <2> QED BY <2>2
<1> QED BY <1>3, <1>5, <1>6, <1>7, <1>8, <1>9 DEF Advances

-----------------------------------------------------------------------------
(* Where an iterator that started here `from` is after n steps of `total`.    *)

Walked(stable, files, from, w, n, total) ==
  /\ Position(files, w.at) /\ \A i \in DOMAIN files : from[i] <= w.at[i]
  /\ IsFiniteSet(Ahead(files, w.at)) /\ Cardinality(Ahead(files, w.at)) = total - n
  /\ Lists(w.seen, Passed(files, from, w.at)) /\ Len(w.seen) = n
  /\ Ordered(stable, w.seen)
  /\ \A k \in 1..n : \A a \in Ahead(files, w.at) : Before(stable, w.seen[k], files[a[1]][a[2]])

\* The values of a function at finitely many places are finitely many.
LEMMA FiniteImage ==
  ASSUME NEW D, IsFiniteSet(D), NEW f
  PROVE  IsFiniteSet({f[i] : i \in D})
<1> DEFINE T == {f[i] : i \in D}
           g == [i \in D |-> f[i]]
<1>1. g \in [D -> T] /\ \A x \in T : \E i \in D : g[i] = x
  OBVIOUS
<1> HIDE DEF T, g
<1>2. g \in Surjection(D, T)
  BY <1>1 DEF Surjection
<1>3. IsFiniteSet(T)
  BY <1>2, FS_Surjection
<1> QED BY <1>3 DEF T

\* There are finitely many places ahead.
LEMMA AheadFinite ==
  ASSUME NEW stable, NEW files, Iterable(stable, files), NEW here, Position(files, here)
  PROVE  IsFiniteSet(Ahead(files, here))
<1> DEFINE of == [i \in DOMAIN files |-> {<<i, p>> : p \in (here[i] + 1)..Len(files[i])}]
           all == {of[i] : i \in DOMAIN files}
<1>1. IsFiniteSet(all)
  <2> HIDE DEF of
  <2> QED BY IterableTypes, FiniteImage
<1>2. ASSUME NEW i \in DOMAIN files PROVE IsFiniteSet({<<i, p>> : p \in (here[i] + 1)..Len(files[i])})
  <2> DEFINE D == (here[i] + 1)..Len(files[i])
             pair == [p \in D |-> <<i, p>>]
  <2>1. IsFiniteSet(D)
    <3>1. here[i] + 1 \in Int /\ Len(files[i]) \in Int
      BY IterableTypes DEF Position
    <3> QED BY <3>1, FS_Interval
  <2>2. {<<i, p>> : p \in D} = {pair[p] : p \in D}
    OBVIOUS
  <2> HIDE DEF D, pair
  <2>3. IsFiniteSet({pair[p] : p \in D})
    BY <2>1, FiniteImage
  <2> QED BY <2>2, <2>3 DEF D
<1>3. \A T \in all : IsFiniteSet(T)
  BY <1>2
<1>4. Ahead(files, here) = UNION all
  BY DEF Ahead
<1> HIDE DEF all
<1> QED BY <1>1, <1>3, <1>4, FS_UNION

\* An iterator starts with everything ahead.
LEMMA WalkStarts ==
  ASSUME NEW stable, NEW files, Iterable(stable, files), NEW from, Position(files, from),
         NEW total, total = Cardinality(Ahead(files, from))
  PROVE  Walked(stable, files, from, [at |-> from, seen |-> <<>>], 0, total) /\ total \in Nat
<1>1. IsFiniteSet(Ahead(files, from)) /\ total \in Nat
  BY AheadFinite, FS_CardinalityType
<1>2. \A i \in DOMAIN files : from[i] \in Nat
  BY DEF Position
<1>3. Passed(files, from, from) = {}
  BY <1>2 DEF Passed
<1>4. Lists(<<>>, {}) /\ Ordered(stable, <<>>) /\ Len(<<>>) = 0
  BY DEF Lists, Ordered
<1>5. \A i \in DOMAIN files : from[i] <= from[i]
  BY <1>2
<1> DEFINE w == [at |-> from, seen |-> <<>>]
<1>6. w.at = from /\ w.seen = <<>> /\ total - 0 = total /\ 1..0 = {}
  BY <1>1
<1> HIDE DEF w
<1>7. Walked(stable, files, from, w, 0, total)
  BY <1>1, <1>3, <1>4, <1>5, <1>6, Zenon DEF Walked
<1> QED BY <1>1, <1>7 DEF w

\* The order of visits is transitive.
LEMMA BeforeTransitive ==
  ASSUME TypeOK, KeysOf, NEW stable, NEW c \in Entry, NEW d \in Entry, NEW e \in Entry,
         Before(stable, c, d), Before(stable, d, e)
  PROVE  Before(stable, c, e)
<1>1. Key(c) \in Nat /\ Key(d) \in Nat /\ Key(e) \in Nat
  BY KeyType
<1>2. c \in Int /\ d \in Int /\ e \in Int
  BY DEF Entry, TypeOK
<1> QED BY <1>1, <1>2 DEF Before

\* The entry the current file is at comes before all that is ahead after it.
LEMMA ComingFirst ==
  ASSUME TypeOK, KeysOf, NEW stable \in BOOLEAN, NEW files, Iterable(stable, files),
         NEW here, Position(files, here), NEW i, IsCurrent(files, here, i),
         NEW a \in Ahead(files, here), a # <<i, here[i] + 1>>
  PROVE  Before(stable, Coming(files, here, i), files[a[1]][a[2]])
<1> DEFINE j == a[1]
           p == a[2]
<1>1. j \in DOMAIN files /\ p \in (here[j] + 1)..Len(files[j]) /\ a = <<j, p>>
  BY AheadPlaces
<1> HIDE DEF j, p
<1>2. /\ here[j] \in Nat /\ Len(files[j]) \in Nat /\ here[j] + 1 \in 1..Len(files[j])
      /\ p \in 1..Len(files[j]) /\ here[j] < Len(files[j]) /\ p \in Nat
  BY <1>1, IterableTypes DEF Position
<1>3. /\ i \in DOMAIN files /\ here[i] \in Nat /\ Len(files[i]) \in Nat
      /\ here[i] + 1 \in 1..Len(files[i])
  BY IterableTypes DEF Position, IsCurrent
<1>4. Ordered(stable, files[j])
  BY <1>1 DEF Iterable
<1> DEFINE e == Coming(files, here, i)
           d == Coming(files, here, j)
           x == files[j][p]
<1>5. e \in Entry /\ d \in Entry /\ x \in Entry
  BY <1>1, <1>2, <1>3, IterableTypes DEF Coming
<1>6. CASE j = i
  <2>1. here[i] + 1 < p
    BY <1>1, <1>2, <1>3, <1>6
  <2> QED BY <1>2, <1>4, <1>6, <2>1 DEF Ordered, Coming, j, p
<1>7. CASE j # i
  <2>1. Key(e) \in Nat /\ Key(d) \in Nat /\ Key(x) \in Nat /\ i \in Nat /\ j \in Nat
    BY <1>1, <1>3, <1>5, KeyType, IterableTypes
  <2>2. Key(e) < Key(d) \/ (Key(e) = Key(d) /\ i < j)
    BY <1>1, <1>2, <1>7, <2>1 DEF IsCurrent
  <2>3. Key(d) <= Key(x)
    <3>1. CASE p = here[j] + 1
      BY <2>1, <3>1 DEF Coming
    <3>2. CASE p # here[j] + 1
      <4>1. here[j] + 1 < p
        BY <1>1, <1>2, <3>2
      <4>2. Before(stable, d, x)
        BY <1>2, <1>4, <4>1 DEF Ordered, Coming
      <4> QED BY <2>1, <4>2 DEF Before
    <3> QED BY <3>1, <3>2
  <2>4. CASE Key(e) = Key(x)
    <3>1. i < j
      BY <2>1, <2>2, <2>3, <2>4
    <3>2. stable => e < x
      BY <1>1, <1>2, <1>3, <2>4, <3>1 DEF Iterable, Coming
    <3> QED BY <2>4, <3>2 DEF Before, j, p
  <2>5. CASE Key(e) # Key(x)
    <3>1. Key(e) < Key(x)
      BY <2>1, <2>2, <2>3, <2>5
    <3> QED BY <3>1 DEF Before, j, p
  <2> QED BY <2>4, <2>5
<1> QED BY <1>6, <1>7

\* One step on: what the iterator comes to next is what it has now visited.
NextEntry(files, w) == Coming(files, w.at, Current(files, w.at))
GoesOn(stable, files, from, w, n, total) ==
  /\ Walked(stable, files, from, Visit(files, w), n + 1, total)
  /\ Visit(files, w).seen = Append(w.seen, NextEntry(files, w))
  /\ Current(files, w.at) \in DOMAIN files
  /\ <<Current(files, w.at), w.at[Current(files, w.at)] + 1>> \in Ahead(files, w.at)

\* Iterator::next passes one more entry, later in the order than all that have
\* been passed, and nothing it has passed is left ahead (get_min_index).
LEMMA VisitGoesOn ==
  ASSUME TypeOK, KeysOf, NEW stable \in BOOLEAN, NEW files, Iterable(stable, files),
         NEW from, Position(files, from), NEW total \in Nat, NEW n \in Nat, n < total,
         NEW w, Walked(stable, files, from, w, n, total)
  PROVE  GoesOn(stable, files, from, w, n, total)
<1> DEFINE here == w.at
           i == Current(files, here)
           e == Coming(files, here, i)
           a == <<i, here[i] + 1>>
           on == [here EXCEPT ![i] = @ + 1]
           A == Ahead(files, here)
<1>1. Position(files, here) /\ \A j \in DOMAIN files : from[j] <= here[j]
  BY DEF Walked
<1>2. IsFiniteSet(A) /\ Cardinality(A) = total - n
  BY DEF Walked
<1>3. A # {}
  <2>1. total - n # 0
    OBVIOUS
  <2> HIDE DEF A
  <2> QED BY <1>2, <2>1, FS_EmptySet
<1>4. IsCurrent(files, here, i)
  BY <1>1, <1>3, CurrentIsLeast
<1> HIDE DEF i
<1>5. /\ Position(files, on) /\ \A j \in DOMAIN files : from[j] <= on[j]
      /\ a \in A /\ Ahead(files, on) = A \ {a}
      /\ e \in Entry /\ e \notin Passed(files, from, here)
      /\ Passed(files, from, on) = Passed(files, from, here) \cup {e}
  <2>1. Advances(files, from, here, i, on)
    <3> HIDE DEF here
    <3> QED BY <1>1, <1>4, Advance
  <2> HIDE DEF here, on
  <2> QED BY <2>1 DEF Advances
<1>6. Visit(files, w) = [at |-> on, seen |-> Append(w.seen, e)]
  <2>1. w.at[i] < Len(files[i])
    BY <1>4 DEF IsCurrent
  <2> QED BY <2>1 DEF Visit, Coming, i
<1> DEFINE v == Visit(files, w)
<1>7. v.at = on /\ v.seen = Append(w.seen, e)
  BY <1>6
<1> HIDE DEF v, on, e, a, here
<1>8. IsFiniteSet(Ahead(files, v.at)) /\ Cardinality(Ahead(files, v.at)) = total - (n + 1)
  <2>1. Cardinality(A \ {a}) = Cardinality(A) - 1 /\ IsFiniteSet(A \ {a})
    <3> HIDE DEF A
    <3> QED BY <1>2, <1>5, FS_RemoveElement
  <2>2. total - n - 1 = total - (n + 1)
    OBVIOUS
  <2> QED BY <1>2, <1>5, <1>7, <2>1, <2>2
<1>9. Lists(w.seen, Passed(files, from, here)) /\ Len(w.seen) = n /\ Ordered(stable, w.seen)
  BY DEF Walked, here
<1>10. Lists(v.seen, Passed(files, from, v.at))
  BY <1>5, <1>7, <1>9, AppendLists
<1>11. /\ v.seen \in Seq(Entry) /\ Len(v.seen) = n + 1 /\ v.seen[n + 1] = e
       /\ \A k \in 1..n : v.seen[k] = w.seen[k] /\ w.seen[k] \in Entry
  <2>1. w.seen \in Seq(Entry)
    BY <1>9 DEF Ordered
  <2> QED BY <1>5, <1>7, <1>9, <2>1
<1>12. \A k : k \in 1..(n + 1) <=> k \in 1..n \/ k = n + 1
  OBVIOUS
<1>13. \A k \in 1..n : Before(stable, w.seen[k], e)
  <2>1. files[a[1]][a[2]] = e
    BY DEF a, e, Coming
  <2>2. \A k \in 1..n : Before(stable, w.seen[k], files[a[1]][a[2]])
    BY <1>5 DEF Walked, here
  <2> QED BY <2>1, <2>2
<1>14. Ordered(stable, v.seen)
  <2> SUFFICES ASSUME NEW p \in 1..(n + 1), NEW q \in 1..(n + 1), p < q
               PROVE  Before(stable, v.seen[p], v.seen[q])
    BY <1>11 DEF Ordered
  <2>1. p \in 1..n
    OBVIOUS
  <2>2. CASE q \in 1..n
    BY <1>9, <1>11, <2>1, <2>2 DEF Ordered
  <2>3. CASE q = n + 1
    BY <1>11, <1>13, <2>1, <2>3
  <2> QED BY <1>12, <2>2, <2>3
<1>15. ASSUME NEW k \in 1..(n + 1), NEW b \in Ahead(files, v.at)
       PROVE  Before(stable, v.seen[k], files[b[1]][b[2]])
  <2>1. b \in A /\ b # a
    BY <1>5, <1>7, <1>15
  <2>2. CASE k \in 1..n
    <3>1. Before(stable, w.seen[k], files[b[1]][b[2]])
      BY <2>1, <2>2 DEF Walked, here
    <3> QED BY <1>11, <2>2, <3>1
  <2>3. CASE k = n + 1
    <3>1. Before(stable, e, files[b[1]][b[2]])
      BY <1>1, <1>4, <2>1, ComingFirst DEF a, e
    <3> QED BY <1>11, <2>3, <3>1
  <2> QED BY <1>12, <2>2, <2>3
<1>16. Walked(stable, files, from, v, n + 1, total)
  BY <1>5, <1>7, <1>8, <1>10, <1>11, <1>14, <1>15 DEF Walked
<1> QED BY <1>4, <1>5, <1>7, <1>16 DEF GoesOn, NextEntry, v, e, here, i, a, IsCurrent

-----------------------------------------------------------------------------
(* All the steps of an iterator.                                            *)

Total(files, from) == Cardinality(Ahead(files, from))
StepsOf(f, files, from) ==
  f = [n \in 0..Total(files, from) |->
         IF n = 0 THEN [at |-> from, seen |-> <<>>] ELSE Visit(files, f[n - 1])]

\* The recursive function of Walk exists: by the least number of steps for which
\* there would be none.
LEMMA StepsExist ==
  ASSUME NEW files, NEW from, Total(files, from) \in Nat
  PROVE  \E f : StepsOf(f, files, from)
<1> DEFINE H == Total(files, from)
           start == [at |-> from, seen |-> <<>>]
           Upto(g, m) == \A n \in 0..m : g[n] = IF n = 0 THEN start ELSE Visit(files, g[n - 1])
           Bad == {m \in Nat : m <= H /\ ~ \E g : DOMAIN g = 0..H /\ Upto(g, m)}
<1> HIDE DEF H, start
<1>0. H \in Nat
  BY DEF H
<1>1. Bad = {}
  <2> SUFFICES ASSUME Bad # {} PROVE FALSE
    OBVIOUS
  <2>1. Bad \subseteq Nat
    OBVIOUS
  <2> HIDE DEF Bad
  <2>2. PICK m \in Bad : \A k \in Bad : m <= k
    BY <2>1, Least
  <2>3. m \in Nat /\ m <= H /\ ~ \E g : DOMAIN g = 0..H /\ Upto(g, m)
    BY <2>2 DEF Bad
  <2>4. CASE m = 0
    <3> DEFINE g == [n \in 0..H |-> start]
    <3>1. DOMAIN g = 0..H /\ g[0] = start /\ \A n \in 0..m : n = 0
      BY <1>0, <2>4
    <3> HIDE DEF g
    <3>2. Upto(g, m)
      BY <3>1
    <3> QED BY <2>3, <3>1, <3>2
  <2>5. CASE m # 0
    <3>1. m - 1 \in Nat /\ m - 1 <= H /\ ~(m <= m - 1) /\ m \in 0..H
      BY <1>0, <2>3, <2>5
    <3>2. PICK g : DOMAIN g = 0..H /\ Upto(g, m - 1)
      BY <2>2, <3>1 DEF Bad
    <3> DEFINE x == Visit(files, g[m - 1])
               g2 == [n \in 0..H |-> IF n = m THEN x ELSE g[n]]
    <3> HIDE DEF x
    <3>3. DOMAIN g2 = 0..H /\ (\A n \in 0..H : n # m => g2[n] = g[n]) /\ g2[m] = x
      BY <3>1
    <3> HIDE DEF g2
    <3>4. ASSUME NEW n \in 0..m PROVE g2[n] = IF n = 0 THEN start ELSE Visit(files, g2[n - 1])
      <4>1. n \in 0..H /\ (n # 0 => n - 1 \in 0..H /\ n - 1 # m)
        BY <1>0, <2>3
      <4>2. CASE n = m
        BY <2>5, <3>3, <4>1, <4>2 DEF x
      <4>3. CASE n # m
        <5>1. n \in 0..(m - 1)
          BY <2>3, <4>3
        <5>2. g[n] = IF n = 0 THEN start ELSE Visit(files, g[n - 1])
          BY <3>2, <5>1
        <5> QED BY <3>3, <4>1, <4>3, <5>2
      <4> QED BY <4>2, <4>3
    <3>5. Upto(g2, m)
      BY <3>4
    <3> QED BY <2>3, <3>3, <3>5
  <2> QED BY <2>4, <2>5
<1>2. PICK g : DOMAIN g = 0..H /\ Upto(g, H)
  <2>1. H <= H
    BY <1>0
  <2>2. H \notin Bad
    <3> HIDE DEF Bad
    <3> QED BY <1>1
  <2> QED BY <1>0, <2>1, <2>2
<1> DEFINE f == [n \in 0..H |-> IF n = 0 THEN start ELSE Visit(files, g[n - 1])]
<1>3. \A n \in 0..H : f[n] = g[n]
  BY <1>2
<1>4. \A n \in 0..H : f[n] = IF n = 0 THEN start ELSE Visit(files, f[n - 1])
  <2> SUFFICES ASSUME NEW n \in 0..H, n # 0 PROVE f[n] = Visit(files, f[n - 1])
    OBVIOUS
  <2>1. n - 1 \in 0..H
    BY <1>0
  <2>2. f[n] = Visit(files, g[n - 1]) /\ f[n - 1] = g[n - 1]
    BY <1>3, <2>1
  <2> QED BY <2>2
<1>5. f = [n \in 0..H |-> IF n = 0 THEN start ELSE Visit(files, f[n - 1])]
  <2>1. f = [n \in 0..H |-> f[n]]
    OBVIOUS
  <2> HIDE DEF f
  <2> QED BY <1>4, <2>1
<1>6. StepsOf(f, files, from)
  <2> HIDE DEF f
  <2> QED BY <1>5 DEF StepsOf, H, start
<1> QED BY <1>6

\* Walk is what the last step has visited.
LEMMA WalkSteps ==
  ASSUME NEW files, NEW from, Total(files, from) \in Nat
  PROVE  \E f : StepsOf(f, files, from) /\ Walk(files, from) = f[Total(files, from)].seen
<1> DEFINE f == CHOOSE f : StepsOf(f, files, from)
<1>1. StepsOf(f, files, from)
  <2>1. \E g : StepsOf(g, files, from)
    BY StepsExist
  <2> QED BY <2>1, Zenon
<1>2. Walk(files, from) = f[Total(files, from)].seen
  BY DEF Walk, StepsOf, Total
<1> QED BY <1>1, <1>2, Zenon

\* Each step is one of Walked.
LEMMA AllWalked ==
  ASSUME TypeOK, KeysOf, NEW stable \in BOOLEAN, NEW files, Iterable(stable, files),
         NEW from, Position(files, from), NEW f, StepsOf(f, files, from)
  PROVE  /\ Total(files, from) \in Nat
         /\ \A n \in 0..Total(files, from) : Walked(stable, files, from, f[n], n, Total(files, from))
<1> DEFINE H == Total(files, from)
           Bad == {n \in 0..H : ~Walked(stable, files, from, f[n], n, H)}
           start == [at |-> from, seen |-> <<>>]
<1>1. H \in Nat /\ Walked(stable, files, from, start, 0, H)
  <2>1. H = Cardinality(Ahead(files, from))
    BY DEF Total
  <2> HIDE DEF H
  <2> QED BY <2>1, WalkStarts
<1>2. \A n \in 0..H : f[n] = IF n = 0 THEN start ELSE Visit(files, f[n - 1])
  BY DEF StepsOf
<1> HIDE DEF H, start
<1>3. Bad = {}
  <2> SUFFICES ASSUME Bad # {} PROVE FALSE
    OBVIOUS
  <2>1. Bad \subseteq Nat
    BY <1>1
  <2> HIDE DEF Bad
  <2>2. PICK n \in Bad : \A k \in Bad : n <= k
    BY <2>1, Least
  <2>3. n \in 0..H /\ ~Walked(stable, files, from, f[n], n, H)
    BY <2>2 DEF Bad
  <2>4. CASE n = 0
    BY <1>1, <1>2, <2>3, <2>4
  <2>5. CASE n # 0
    <3>1. n - 1 \in 0..H /\ n - 1 \in Nat /\ n - 1 < H /\ ~(n <= n - 1) /\ (n - 1) + 1 = n
      BY <1>1, <2>3, <2>5
    <3>2. Walked(stable, files, from, f[n - 1], n - 1, H)
      BY <2>2, <3>1 DEF Bad
    <3>3. GoesOn(stable, files, from, f[n - 1], n - 1, H)
      BY <1>1, <3>1, <3>2, VisitGoesOn
    <3>4. Walked(stable, files, from, Visit(files, f[n - 1]), n, H)
      BY <3>1, <3>3 DEF GoesOn
    <3> QED BY <1>2, <2>3, <2>5, <3>4
  <2> QED BY <2>4, <2>5
<1>4. \A n \in 0..H : Walked(stable, files, from, f[n], n, H)
  BY <1>3
<1> QED BY <1>1, <1>4 DEF H

\* What is ahead of an iterator at its start.
Held(files, from) == UNION {{files[i][p] : p \in (from[i] + 1)..Len(files[i])} : i \in DOMAIN files}

\* An iterator visits what was ahead of it, once and in order.
LEMMA WalkVisits ==
  ASSUME TypeOK, KeysOf, NEW stable \in BOOLEAN, NEW files, Iterable(stable, files),
         NEW from, Position(files, from)
  PROVE  /\ Lists(Walk(files, from), Held(files, from)) /\ Ordered(stable, Walk(files, from))
         /\ Len(Walk(files, from)) = Total(files, from) /\ Total(files, from) \in Nat
<1> DEFINE H == Total(files, from)
<1>1. H \in Nat
  BY WalkStarts DEF Total
<1>2. PICK f : StepsOf(f, files, from) /\ Walk(files, from) = f[H].seen
  BY <1>1, WalkSteps
<1>3. Walked(stable, files, from, f[H], H, H)
  <2>1. H \in 0..H
    BY <1>1
  <2> QED BY <1>2, <2>1, AllWalked
<1> HIDE DEF H
<1> DEFINE here == f[H].at
<1>4. Ahead(files, here) = {}
  <2>1. IsFiniteSet(Ahead(files, here)) /\ Cardinality(Ahead(files, here)) = 0
    BY <1>1, <1>3 DEF Walked
  <2> HIDE DEF here
  <2> QED BY <2>1, FS_EmptySet
<1>5. Position(files, here)
  BY <1>3 DEF Walked
<1> HIDE DEF here
<1>6. ASSUME NEW i \in DOMAIN files PROVE here[i] = Len(files[i])
  <2>1. here[i] \in Nat /\ here[i] <= Len(files[i]) /\ Len(files[i]) \in Nat
    BY <1>5, IterableTypes DEF Position
  <2>2. CASE here[i] < Len(files[i])
    <3>1. here[i] + 1 \in (here[i] + 1)..Len(files[i])
      BY <2>1, <2>2
    <3>2. <<i, here[i] + 1>> \in Ahead(files, here)
      BY <3>1 DEF Ahead
    <3> QED BY <1>4, <3>2
  <2> QED BY <2>1, <2>2
<1>7. Passed(files, from, here) = Held(files, from)
  BY <1>6 DEF Passed, Held
<1> QED BY <1>1, <1>2, <1>3, <1>7 DEF Walked, H, here

-----------------------------------------------------------------------------
(* The files of the database, in the order they are read in.                *)

Named(s, T) ==
  /\ s \in [1..Cardinality(T) -> T]
  /\ \A i, j \in 1..Cardinality(T) : i < j => NameBefore(s[i], s[j])
OneIndex(T) == T \subseteq Names /\ \A f, g \in T : f[1] = g[1] => f = g

\* Names with different indices can be listed in their order.
LEMMA NamedExists ==
  ASSUME NEW T, IsFiniteSet(T), OneIndex(T)
  PROVE  \E s : Named(s, T)
<1> DEFINE Bad == {n \in Nat : \E U : IsFiniteSet(U) /\ OneIndex(U) /\ Cardinality(U) = n /\ ~\E s : Named(s, U)}
<1>1. Bad = {}
  <2> SUFFICES ASSUME Bad # {} PROVE FALSE
    OBVIOUS
  <2>1. Bad \subseteq Nat
    OBVIOUS
  <2> HIDE DEF Bad
  <2>2. PICK n \in Bad : \A k \in Bad : n <= k
    BY <2>1, Least
  <2>3. n \in Nat
    BY <2>1
  <2>4. PICK U : IsFiniteSet(U) /\ OneIndex(U) /\ Cardinality(U) = n /\ ~\E s : Named(s, U)
    BY <2>2 DEF Bad
  <2>5. CASE U = {}
    <3>1. n = 0 /\ 1..0 = {}
      BY <2>4, <2>5, FS_EmptySet
    <3> DEFINE s == [i \in 1..n |-> i]
    <3>2. s \in [1..n -> U]
      BY <3>1
    <3>3. Named(s, U)
      <4> HIDE DEF s
      <4> QED BY <2>4, <3>1, <3>2 DEF Named
    <3> QED BY <2>4, <3>3
  <2>6. CASE U # {}
    <3> DEFINE indices == {f[1] : f \in U}
    <3>1. indices \subseteq Nat /\ indices # {} /\ \A f \in U : f[1] \in Nat
      BY <2>4, <2>6 DEF OneIndex, Names
    <3>2. PICK i0 \in indices : \A i \in indices : i0 <= i
      <4> HIDE DEF indices
      <4> QED BY <3>1, Least
    <3>3. PICK m \in U : m[1] = i0
      OBVIOUS
    <3> DEFINE V == U \ {m}
    <3>4. IsFiniteSet(V) /\ Cardinality(V) = n - 1 /\ OneIndex(V)
      <4>1. IsFiniteSet(V) /\ Cardinality(V) = Cardinality(U) - 1
        BY <2>4, <3>3, FS_RemoveElement
      <4> QED BY <2>4, <4>1 DEF OneIndex
    <3>5. n - 1 \in Nat /\ ~(n <= n - 1)
      <4>1. Cardinality(V) \in Nat
        BY <3>4, FS_CardinalityType
      <4> QED BY <2>3, <3>4, <4>1
    <3> HIDE DEF V
    <3>6. PICK t : Named(t, V)
      <4>1. n - 1 \notin Bad
        BY <2>2, <3>5
      <4> QED BY <3>4, <3>5, <4>1 DEF Bad
    <3> DEFINE s == [i \in 1..n |-> IF i = 1 THEN m ELSE t[i - 1]]
    <3>7. \A i \in 1..n : i # 1 => i - 1 \in 1..(n - 1)
      BY <2>3
    <3>8. \A i \in 1..(n - 1) : t[i] \in V /\ t[i] \in U /\ t[i] # m
      BY <3>4, <3>6 DEF Named, V
    <3>9. s \in [1..n -> U] /\ \A i \in 1..n : s[i] = IF i = 1 THEN m ELSE t[i - 1]
      BY <3>3, <3>7, <3>8
    <3> HIDE DEF s
    <3>10. ASSUME NEW i \in 1..n, NEW j \in 1..n, i < j PROVE NameBefore(s[i], s[j])
      <4>1. j # 1 /\ s[j] = t[j - 1] /\ j - 1 \in 1..(n - 1)
        BY <3>7, <3>9, <3>10
      <4>2. CASE i = 1
        <5>1. s[i] = m /\ s[j] \in U /\ s[j] # m
          BY <3>8, <3>9, <4>1, <4>2
        <5>2. m[1] # s[j][1] /\ m[1] <= s[j][1] /\ m[1] \in Nat /\ s[j][1] \in Nat
          BY <2>4, <3>1, <3>2, <3>3, <5>1 DEF OneIndex
        <5> QED BY <5>1, <5>2 DEF NameBefore
      <4>3. CASE i # 1
        <5>1. i - 1 \in 1..(n - 1) /\ i - 1 < j - 1 /\ s[i] = t[i - 1]
          BY <2>3, <3>7, <3>9, <3>10, <4>3
        <5> QED BY <3>4, <3>6, <4>1, <5>1 DEF Named
      <4> QED BY <4>2, <4>3
    <3>11. Named(s, U)
      BY <2>4, <3>9, <3>10 DEF Named
    <3> QED BY <2>4, <3>11
  <2> QED BY <2>5, <2>6
<1>2. Cardinality(T) \in Nat /\ Cardinality(T) \notin Bad
  <2>1. Cardinality(T) \in Nat
    BY FS_CardinalityType
  <2> HIDE DEF Bad
  <2> QED BY <1>1, <2>1
<1> QED BY <1>2

\* Opened goes through all files that are read, in the order of their names.
LEMMA OpenedNames ==
  ASSUME TypeOK, Consistent, Idle
  PROVE  /\ readers = Files /\ InOrder(disk, readers)
         /\ \E names : /\ Named(names, readers) /\ Lists(names, readers)
                       /\ Opened = [i \in DOMAIN names |-> runs[names[i]]]
<1>1. readers = Files /\ IsFiniteSet(readers) /\ readers \subseteq Names
  <2>1. readers = ValidFiles(disk) /\ todo = {}
    BY DEF Idle, Consistent, MemoryMatchesDisk, MergeUnderWay
  <2>2. IsFiniteSet(readers) /\ readers \subseteq Names
    BY FS_Subset DEF TypeOK
  <2> QED BY <2>1, <2>2 DEF Files
<1>2. InOrder(disk, readers) /\ OneIndex(readers)
  <2>1. InOrder(disk, readers)
    BY <1>1 DEF Consistent, FilesInOrder, Files
  <2> QED BY <1>1, <2>1 DEF InOrder, OneIndex
<1> DEFINE names == CHOOSE s \in Listings(readers, NameBefore) : TRUE
<1>3. names \in Listings(readers, NameBefore)
  <2>1. PICK s : Named(s, readers)
    BY <1>1, <1>2, NamedExists
  <2>2. s \in Listings(readers, NameBefore)
    BY <2>1 DEF Named, Listings
  <2> QED BY <2>2
<1>4. Named(names, readers)
  <2> HIDE DEF names
  <2> QED BY <1>3 DEF Named, Listings
<1>5. Opened = [i \in DOMAIN names |-> runs[names[i]]]
  BY DEF Opened
<1> HIDE DEF names
<1>6. Lists(names, readers)
  <2>1. ASSUME NEW i \in 1..Cardinality(readers), NEW j \in 1..Cardinality(readers), i < j
        PROVE  names[i] # names[j]
    <3>1. NameBefore(names[i], names[j]) /\ names[i] \in Names
      BY <1>1, <1>4, <2>1 DEF Named
    <3> QED BY <3>1 DEF NameBefore, Names
  <2>2. names \in [1..Cardinality(readers) -> readers]
    BY <1>4 DEF Named
  <2> QED BY <1>1, <2>1, <2>2, InjectionLists
<1> QED BY <1>1, <1>2, <1>4, <1>5, <1>6

\* Files listed by age can be gone through.
LEMMA FilesIterable ==
  ASSUME TypeOK, Consistent, RangeInv, NEW stable, NEW T, T \subseteq Files,
         NEW names, Lists(names, T), \A i, j \in DOMAIN names : i < j => names[i][1] < names[j][1],
         \A f \in T : Ordered(stable, runs[f])
  PROVE  Iterable(stable, [i \in DOMAIN names |-> runs[names[i]]])
<1> DEFINE files == [i \in DOMAIN names |-> runs[names[i]]]
<1>1. /\ Len(names) \in Nat /\ DOMAIN names = 1..Len(names) /\ DOMAIN files = 1..Len(names)
      /\ \A i \in DOMAIN names : names[i] \in T /\ files[i] = runs[names[i]]
      /\ \A i, j \in DOMAIN names : names[i] = names[j] => i = j
  BY ListsPlaces
<1> HIDE DEF files
<1>2. \A f \in T : Lists(runs[f], disk[f].ids)
  BY DEF RangeInv, RunsList, Files
<1>3. InOrder(disk, T)
  BY DEF Consistent, FilesInOrder, Files, InOrder
<1>4. ASSUME NEW i \in DOMAIN files
      PROVE  /\ Ordered(stable, files[i]) /\ Lists(files[i], disk[names[i]].ids) /\ names[i] \in T
             /\ \A p \in 1..Len(files[i]) : files[i][p] \in disk[names[i]].ids
             /\ \A p, q \in 1..Len(files[i]) : files[i][p] = files[i][q] => p = q
  <2>1. names[i] \in T /\ files[i] = runs[names[i]]
    BY <1>1
  <2>2. Lists(files[i], disk[names[i]].ids) /\ Ordered(stable, files[i])
    BY <1>2, <2>1
  <2> QED BY <2>1, <2>2, ListsPlaces
<1>5. ASSUME NEW i \in DOMAIN files, NEW j \in DOMAIN files,
             NEW p \in 1..Len(files[i]), NEW q \in 1..Len(files[j]), files[i][p] = files[j][q]
      PROVE  i = j /\ p = q
  <2>1. names[i] = names[j]
    BY <1>4, <1>5, FilesPartition
  <2>2. i = j
    BY <1>1, <2>1
  <2> QED BY <1>4, <1>5, <2>2
<1>6. ASSUME NEW i \in DOMAIN files, NEW j \in DOMAIN files, i < j,
             NEW p \in 1..Len(files[i]), NEW q \in 1..Len(files[j])
      PROVE  files[i][p] < files[j][q]
  <2>1. names[i][1] < names[j][1] /\ names[i] \in T /\ names[j] \in T
    BY <1>1, <1>6
  <2>2. \A d \in disk[names[i]].ids, e \in disk[names[j]].ids : d < e
    BY <1>3, <2>1 DEF InOrder
  <2> QED BY <1>4, <2>2
<1>7. Iterable(stable, files)
  <2>1. \A i \in DOMAIN files : Ordered(stable, files[i])
    BY <1>4
  <2> QED BY <1>1, <1>5, <1>6, <2>1 DEF Iterable
<1> QED BY <1>7 DEF files

\* The files that are read hold what has been flushed.
LEMMA OpenedIterable ==
  ASSUME TypeOK, Consistent, RangeInv, Idle, NEW stable, \A f \in readers : Ordered(stable, runs[f])
  PROVE  /\ Iterable(stable, Opened) /\ Position(Opened, Begin(Opened))
         /\ Held(Opened, Begin(Opened)) = durable
<1> DEFINE files == Opened
<1>1. readers = Files /\ InOrder(disk, readers)
  BY OpenedNames
<1>2. PICK names : /\ Named(names, readers) /\ Lists(names, readers)
                   /\ files = [i \in DOMAIN names |-> runs[names[i]]]
  BY OpenedNames
<1> HIDE DEF files
<1>3. /\ Len(names) \in Nat /\ DOMAIN names = 1..Len(names) /\ DOMAIN files = 1..Len(names)
      /\ \A i \in DOMAIN names : names[i] \in readers /\ files[i] = runs[names[i]]
      /\ \A i, j \in DOMAIN names : names[i] = names[j] => i = j
      /\ \A f \in readers : \E i \in DOMAIN names : names[i] = f
  <2>1. /\ Len(names) \in Nat /\ DOMAIN names = 1..Len(names)
        /\ \A i \in DOMAIN names : names[i] \in readers
        /\ \A i, j \in DOMAIN names : names[i] = names[j] => i = j
        /\ \A f \in readers : \E i \in DOMAIN names : names[i] = f
    BY <1>2, ListsPlaces
  <2> QED BY <1>2, <2>1
<1>4. ASSUME NEW i \in DOMAIN names, NEW j \in DOMAIN names, i < j PROVE names[i][1] < names[j][1]
  <2>1. NameBefore(names[i], names[j]) /\ names[i] \in readers /\ names[j] \in readers
    <3>1. DOMAIN names = 1..Cardinality(readers)
      BY <1>2 DEF Named
    <3> QED BY <1>2, <1>3, <1>4, <3>1 DEF Named
  <2>2. names[i] # names[j]
    BY <1>3, <1>4
  <2> QED BY <1>1, <2>1, <2>2 DEF NameBefore, InOrder
<1>5. Iterable(stable, files)
  BY <1>1, <1>2, <1>4, FilesIterable
<1>6. Position(files, Begin(files))
  BY <1>5, IterableTypes DEF Position, Begin
<1>7. ASSUME NEW x PROVE x \in Held(files, Begin(files)) <=> x \in durable
  <2>1. x \in Held(files, Begin(files)) <=> \E i \in DOMAIN files : \E p \in 1..Len(files[i]) : x = files[i][p]
    <3>1. \A i \in DOMAIN files : Begin(files)[i] + 1 = 1
      BY DEF Begin
    <3> QED BY <3>1 DEF Held
  <2>2. ASSUME NEW i \in DOMAIN files
        PROVE  x \in disk[names[i]].ids <=> \E p \in 1..Len(files[i]) : x = files[i][p]
    <3>1. Lists(files[i], disk[names[i]].ids)
      BY <1>1, <1>3 DEF RangeInv, RunsList, Files
    <3>2. DOMAIN files[i] = 1..Len(files[i])
      BY <3>1, ListsPlaces
    <3> QED BY <3>1, <3>2, ListsPlaces
  <2>3. x \in durable <=> \E f \in readers : x \in disk[f].ids
    BY <1>1, FilesPartition
  <2> QED BY <1>3, <2>1, <2>2, <2>3
<1> QED BY <1>5, <1>6, <1>7 DEF files

\* What an iteration from the beginning visits.
LEMMA BeginWalk ==
  ASSUME TypeOK, Consistent, RangeInv, Idle, NEW stable \in BOOLEAN,
         \A f \in readers : Ordered(stable, runs[f])
  PROVE  LET w == Walk(Opened, Begin(Opened)) IN Lists(w, durable) /\ Ordered(stable, w)
<1>1. KeysOf
  BY DEF RangeInv
<1> QED BY <1>1, OpenedIterable, WalkVisits

\* The files are in order if they are sorted.
LEMMA SortedOrdered ==
  ASSUME TypeOK, KeysOf, NEW s
  PROVE  SortedRun(s) <=> Ordered(FALSE, s)
<1>1. CASE s \in Seq(Entry)
  <2>1. DOMAIN s = 1..Len(s) /\ \A p \in 1..Len(s) : s[p] \in Entry
    BY <1>1
  <2>2. \A p \in 1..Len(s) : Key(s[p]) \in Nat
    BY <2>1, KeyType
  <2>3. \A p, q \in 1..Len(s) : Key(s[p]) <= Key(s[q]) <=> Before(FALSE, s[p], s[q])
    BY <2>2 DEF Before
  <2> QED BY <1>1, <2>1, <2>3 DEF SortedRun, Ordered, ByKey
<1>2. CASE s \notin Seq(Entry)
  BY <1>2 DEF SortedRun, Ordered
<1> QED BY <1>1, <1>2

\* Between two calls the files that are read are sorted.
LEMMA ReadersSorted ==
  ASSUME TypeOK, Consistent, SortedInv, Idle
  PROVE  \A f \in readers : Ordered(FALSE, runs[f])
<1>1. readers \subseteq DOMAIN runs
  BY DEF Idle, Consistent, MemoryMatchesDisk, SortedInv, RunsSorted
<1> QED BY <1>1, SortedOrdered DEF SortedInv, RunsSorted

\* Keys, without the empty one: the entries of all files, in one order.
LEMMA AlwaysReadable ==
  ASSUME Empty \notin Keys
  PROVE  SpecQuery => []TypeOK /\ []Consistent /\ []SortedInv /\ []RangeInv
<1>1. InitQuery => SortedInv /\ RangeInv
  BY InitSorted, InitRanges
<1>2. TypeOK /\ Consistent /\ SortedInv /\ [NextQuery]_qvars => SortedInv'
  BY SortedStep
<1>3. TypeOK /\ Consistent /\ RangeInv /\ [NextQuery]_qvars => RangeInv'
  BY RangeStep
<1> QED BY <1>1, <1>2, <1>3, FromKvDb, PTL DEF SpecQuery

\* As long as no key is empty, an iteration from the beginning visits every
\* flushed entry once and in the order of keys, whatever flushes, merges,
\* exceptions and restarts have come before (KvDb::begin, Iterator::next,
\* get_min_index).
THEOREM BeginAlwaysVisitsAll == ASSUME Empty \notin Keys PROVE SpecQuery => []BeginVisitsAll
<1>1. TypeOK /\ Consistent /\ SortedInv /\ RangeInv => BeginVisitsAll
  <2> SUFFICES ASSUME TypeOK, Consistent, SortedInv, RangeInv, Idle PROVE BeginVisitsAll
    BY DEF BeginVisitsAll
  <2> DEFINE w == Walk(Opened, Begin(Opened))
  <2>1. Lists(w, durable) /\ Ordered(FALSE, w)
    BY ReadersSorted, BeginWalk
  <2> HIDE DEF w
  <2>2. Len(w) = Cardinality(durable) /\ ByKey(w)
    BY <2>1, ListsLen, SortedOrdered DEF SortedInv, SortedRun
  <2>3. Seqs!ToSet(w) = durable
    BY <2>1, ListsPlaces DEF Seqs!ToSet
  <2> QED BY <2>2, <2>3 DEF BeginVisitsAll, w
<1> QED BY <1>1, AlwaysReadable, PTL

-----------------------------------------------------------------------------
(* Going on from the first entry with a key.                                *)

\* The size of an interval.
LEMMA IntervalSize ==
  ASSUME NEW c \in Nat, NEW n \in Nat
  PROVE  /\ c <= n => Cardinality((c + 1)..n) = n - c
         /\ Cardinality(1..n) = n
<1>1. /\ 1 \in Int /\ c + 1 \in Int /\ n \in Int /\ n - 1 + 1 = n /\ n - (c + 1) + 1 = n - c
      /\ (1 > n => n = 0) /\ (c <= n /\ c + 1 > n => n - c = 0)
  OBVIOUS
<1>2. Cardinality(1..n) = IF 1 > n THEN 0 ELSE n - 1 + 1
  BY <1>1, FS_Interval
<1>3. Cardinality((c + 1)..n) = IF c + 1 > n THEN 0 ELSE n - (c + 1) + 1
  BY <1>1, FS_Interval
<1> QED BY <1>1, <1>2, <1>3

\* What the n-th step visits, seen from any later step.
VisitsNext(f, files, total) ==
  \A n \in 0..total : \A k \in 1..n : f[n].seen[k] = NextEntry(files, f[k - 1])

\* What the steps of Walk have visited: each step adds the current entry.
LEMMA SeenIs ==
  ASSUME TypeOK, KeysOf, NEW stable \in BOOLEAN, NEW files, Iterable(stable, files),
         NEW from, Position(files, from), NEW f, StepsOf(f, files, from)
  PROVE  VisitsNext(f, files, Total(files, from))
<1> DEFINE H == Total(files, from)
           Seen(n) == \A k \in 1..n : f[n].seen[k] = NextEntry(files, f[k - 1])
           Bad == {n \in 0..H : ~Seen(n)}
<1>1. H \in Nat /\ \A n \in 0..H : Walked(stable, files, from, f[n], n, H)
  BY AllWalked
<1>2. \A n \in 0..H : n # 0 => f[n] = Visit(files, f[n - 1])
  BY DEF StepsOf
<1> HIDE DEF H
<1>3. Bad = {}
  <2> SUFFICES ASSUME Bad # {} PROVE FALSE
    OBVIOUS
  <2>1. Bad \subseteq Nat
    BY <1>1
  <2> HIDE DEF Bad
  <2>2. PICK n \in Bad : \A k \in Bad : n <= k
    BY <2>1, Least
  <2>3. n \in 0..H /\ ~Seen(n)
    BY <2>2 DEF Bad
  <2>4. n # 0
    BY <2>3
  <2>5. /\ n \in Nat /\ n - 1 \in 0..H /\ n - 1 \in Nat /\ n - 1 < H /\ ~(n <= n - 1)
        /\ n - 1 + 1 = n
    BY <1>1, <2>3, <2>4
  <2>6. Seen(n - 1)
    BY <2>2, <2>5 DEF Bad
  <2>7. GoesOn(stable, files, from, f[n - 1], n - 1, H)
    BY <1>1, <2>5, VisitGoesOn
  <2>8. f[n].seen = Append(f[n - 1].seen, NextEntry(files, f[n - 1]))
    BY <1>2, <2>3, <2>4, <2>7 DEF GoesOn
  <2>9. f[n - 1].seen \in Seq(Entry) /\ Len(f[n - 1].seen) = n - 1
    BY <1>1, <2>5 DEF Walked, Ordered
  <2>10. f[n].seen[n] = NextEntry(files, f[n - 1]) /\ \A k \in 1..(n - 1) : f[n].seen[k] = f[n - 1].seen[k]
    <3> DEFINE s == f[n - 1].seen
               x == NextEntry(files, f[n - 1])
    <3> HIDE DEF s, x
    <3>1. s \in Seq(Entry) /\ Len(s) = n - 1 /\ f[n].seen = Append(s, x)
      BY <2>8, <2>9 DEF s, x
    <3>2. Append(s, x)[Len(s) + 1] = x /\ \A k \in 1..Len(s) : Append(s, x)[k] = s[k]
      BY <3>1
    <3> QED BY <2>5, <3>1, <3>2 DEF s, x
  <2>11. \A k \in 1..n : k = n \/ k \in 1..(n - 1)
    BY <2>5
  <2> QED BY <2>3, <2>6, <2>10, <2>11
<1>4. \A n \in 0..H : Seen(n)
  BY <1>3
<1> QED BY <1>4 DEF H, VisitsNext

\* The first step at which nothing with a smaller key is ahead: only such has
\* been visited, and the iterator is where seek(key) puts one.
ComesTo(f, files, key, c) ==
  /\ \A k \in 1..c : Key(f[c].seen[k]) < key
  /\ \A a \in Ahead(files, f[c].at) : key <= Key(files[a[1]][a[2]])
  /\ f[c].at = SeekKey(files, key)

\* After some number of steps from the beginning, an iterator is where a seek to
\* the key puts it.
LEMMA SeekReached ==
  ASSUME TypeOK, KeysOf, NEW files, Iterable(FALSE, files), Position(files, Begin(files)),
         NEW f, StepsOf(f, files, Begin(files)), NEW key \in Nat
  PROVE  \E c \in 0..Total(files, Begin(files)) : ComesTo(f, files, key, c)
<1> DEFINE from == Begin(files)
           H == Total(files, from)
           Rest(n) == \A a \in Ahead(files, f[n].at) : key <= Key(files[a[1]][a[2]])
           T == {n \in 0..H : Rest(n)}
<1>1. H \in Nat /\ \A n \in 0..H : Walked(FALSE, files, from, f[n], n, H)
  BY AllWalked
<1>2. \A n \in 0..H : n # 0 => f[n] = Visit(files, f[n - 1])
  BY DEF StepsOf
<1>3. \A i \in DOMAIN files : from[i] = 0
  BY DEF Begin
<1>4. Position(files, from)
  OBVIOUS
<1> HIDE DEF H, from
<1>5. \A a, n : n \in 0..H /\ a \in Ahead(files, f[n].at) => files[a[1]][a[2]] \in Entry
  <2> SUFFICES ASSUME NEW n \in 0..H, NEW a \in Ahead(files, f[n].at)
               PROVE  files[a[1]][a[2]] \in Entry
    OBVIOUS
  <2> DEFINE here == f[n].at
  <2>1. Position(files, here)
    BY <1>1 DEF Walked
  <2> HIDE DEF here
  <2>2. a[1] \in DOMAIN files /\ a[2] \in (here[a[1]] + 1)..Len(files[a[1]])
    BY AheadPlaces DEF here
  <2>3. a[2] \in Nat /\ a[2] \in 1..Len(files[a[1]])
    BY <2>1, <2>2, IterableTypes DEF Position
  <2> QED BY <2>2, <2>3, IterableTypes
<1>6. H \in T
  <2> DEFINE A == Ahead(files, f[H].at)
  <2>1. H \in 0..H
    BY <1>1
  <2>2. IsFiniteSet(A) /\ Cardinality(A) = H - H
    BY <1>1, <2>1 DEF Walked
  <2> HIDE DEF A
  <2>3. A = {}
    BY <1>1, <2>2, FS_EmptySet
  <2> QED BY <2>1, <2>3 DEF A
<1>7. PICK c \in T : \A n \in T : c <= n
  <2>1. T \subseteq Nat
    BY <1>1
  <2> HIDE DEF T
  <2> QED BY <1>6, <2>1, Least
<1>8. c \in 0..H /\ Rest(c)
  OBVIOUS
<1>9. f[c].seen \in Seq(Entry) /\ Len(f[c].seen) = c
  BY <1>1, <1>8 DEF Walked, Ordered
<1>10. ASSUME NEW k \in 1..c PROVE Key(f[c].seen[k]) < key
  <2> DEFINE v == f[c - 1]
             i == Current(files, v.at)
             e == NextEntry(files, v)
  <2>1. c - 1 \in 0..H /\ c - 1 \in Nat /\ c - 1 < H /\ ~(c <= c - 1) /\ c # 0
    BY <1>1, <1>8
  <2>2. PICK a \in Ahead(files, v.at) : ~(key <= Key(files[a[1]][a[2]]))
    BY <1>7, <2>1
  <2>3. files[a[1]][a[2]] \in Entry /\ Key(files[a[1]][a[2]]) \in Nat /\ Key(files[a[1]][a[2]]) < key
    <3>1. files[a[1]][a[2]] \in Entry
      BY <1>5, <2>1
    <3>2. Key(files[a[1]][a[2]]) \in Nat
      BY <3>1, KeyType
    <3> QED BY <2>2, <3>1, <3>2
  <2>4. GoesOn(FALSE, files, from, v, c - 1, H)
    BY <1>1, <1>4, <2>1, VisitGoesOn
  <2>5. f[c].seen = Append(v.seen, e) /\ v.seen \in Seq(Entry) /\ Len(v.seen) = c - 1
    BY <1>1, <1>2, <1>8, <2>1, <2>4 DEF GoesOn, Walked, Ordered
  <2>6. Position(files, v.at) /\ IsCurrent(files, v.at, i)
    <3>1. Position(files, v.at) /\ Ahead(files, v.at) # {}
      BY <1>1, <2>1 DEF Walked
    <3> QED BY <3>1, CurrentIsLeast
  <2>7. CASE k \in 1..(c - 1)
    <3>1. Before(FALSE, v.seen[k], files[a[1]][a[2]])
      BY <1>1, <2>1, <2>7 DEF Walked
    <3>2. f[c].seen[k] = v.seen[k] /\ v.seen[k] \in Entry
      BY <2>5, <2>7
    <3>3. Key(v.seen[k]) \in Nat
      BY <3>2, KeyType
    <3> QED BY <2>3, <3>1, <3>2, <3>3 DEF Before
  <2>8. CASE k = c
    <3> DEFINE x == f[c].seen[k]
    <3>1. x = e /\ x \in Entry
      <4>1. x \in Entry
        BY <1>9
      <4>2. x = e
        <5> HIDE DEF v, e
        <5> QED BY <2>1, <2>5, <2>8
      <4> QED BY <4>1, <4>2
    <3>2. Key(x) \in Nat
      BY <3>1, KeyType
    <3>3. Key(x) <= Key(files[a[1]][a[2]])
      <4>1. CASE a = <<i, v.at[i] + 1>>
        <5>1. files[a[1]][a[2]] = e
          BY <4>1 DEF NextEntry, Coming
        <5> QED BY <3>1, <3>2, <5>1
      <4>2. CASE a # <<i, v.at[i] + 1>>
        <5>1. Before(FALSE, Coming(files, v.at, i), files[a[1]][a[2]])
          <6> HIDE DEF i, v
          <6> QED BY <2>6, <4>2, ComingFirst
        <5> QED BY <2>3, <3>1, <3>2, <5>1 DEF Before, NextEntry
      <4> QED BY <4>1, <4>2
    <3> QED BY <2>3, <3>2, <3>3
  <2> QED BY <2>1, <2>7, <2>8
<1> DEFINE here == f[c].at
<1>11. Position(files, here)
  BY <1>1, <1>8 DEF Walked
<1>12. ASSUME NEW i \in DOMAIN files PROVE here[i] = SeekKey(files, key)[i]
  <2> DEFINE below == {p \in DOMAIN files[i] : Key(files[i][p]) < key}
  <2>1. here[i] \in Nat /\ here[i] <= Len(files[i]) /\ Len(files[i]) \in Nat /\ DOMAIN files[i] = 1..Len(files[i])
    BY <1>11, IterableTypes DEF Position
  <2>2. ASSUME NEW p \in 1..here[i] PROVE p \in below
    <3>1. p \in DOMAIN files[i]
      BY <2>1
    <3>2. files[i][p] \in Passed(files, from, here)
      <4>1. p \in (from[i] + 1)..here[i]
        BY <1>3, <2>1
      <4> QED BY <4>1 DEF Passed
    <3>3. Lists(f[c].seen, Passed(files, from, here)) /\ Len(f[c].seen) = c
      BY <1>1, <1>8 DEF Walked
    <3>4. \E k \in 1..c : f[c].seen[k] = files[i][p]
      <4> HIDE DEF here
      <4> QED BY <3>2, <3>3 DEF Lists
    <3> QED BY <1>10, <3>1, <3>4
  <2>3. ASSUME NEW p \in below PROVE p \in 1..here[i]
    <3>1. p \in 1..Len(files[i]) /\ p \in Nat
      BY <2>1
    <3>2. CASE p \in (here[i] + 1)..Len(files[i])
      <4>1. <<i, p>> \in Ahead(files, here)
        BY <3>2 DEF Ahead
      <4>2. key <= Key(files[i][p])
        BY <1>8, <4>1
      <4>3. Key(files[i][p]) \in Nat
        BY <3>1, IterableTypes, KeyType
      <4> QED BY <2>3, <4>2, <4>3
    <3> QED BY <2>1, <3>1, <3>2
  <2>4. below = 1..here[i]
    BY <2>2, <2>3
  <2> HIDE DEF below, here
  <2>5. Cardinality(below) = here[i]
    <3>1. Cardinality(1..here[i]) = here[i]
      BY <2>1, IntervalSize
    <3> QED BY <2>4, <3>1
  <2> QED BY <2>5 DEF SeekKey, below
<1>13. here = SeekKey(files, key)
  <2>1. here = [i \in DOMAIN files |-> here[i]]
    BY <1>11 DEF Position
  <2>2. SeekKey(files, key) = [i \in DOMAIN files |-> SeekKey(files, key)[i]]
    BY DEF SeekKey
  <2> HIDE DEF here
  <2> QED BY <1>12, <2>1, <2>2
<1> QED BY <1>8, <1>10, <1>13 DEF ComesTo, H, from

\* From there on both iterators visit the same.
Suffix(files, key, c) ==
  LET w == Walk(files, Begin(files))
      v == Walk(files, SeekKey(files, key))
  IN  /\ \A k \in 1..c : Key(w[k]) < key
      /\ \A k \in (c + 1)..Len(w) : key <= Key(w[k])
      /\ v \in Seq(Entry) /\ Len(v) = Len(w) - c /\ \A k \in 1..Len(v) : v[k] = w[c + k]

\* A sought iterator visits what an iterator from the beginning visits from some
\* step on: that of the first entry with the key or a greater one.
LEMMA SeekWalk ==
  ASSUME TypeOK, KeysOf, NEW files, Iterable(FALSE, files), Position(files, Begin(files)),
         NEW key \in Nat
  PROVE  \E c \in 0..Len(Walk(files, Begin(files))) : Suffix(files, key, c)
<1> DEFINE from == Begin(files)
           to == SeekKey(files, key)
           w == Walk(files, from)
           v == Walk(files, to)
           H == Total(files, from)
           L == Total(files, to)
<1>1. Lists(w, Held(files, from)) /\ Ordered(FALSE, w) /\ Len(w) = H /\ H \in Nat
  BY WalkVisits
<1>2. PICK f : StepsOf(f, files, from) /\ w = f[H].seen
  BY <1>1, WalkSteps
<1>3. \A n \in 0..H : Walked(FALSE, files, from, f[n], n, H)
  BY <1>2, AllWalked
<1>4. \A n \in 0..H : \A k \in 1..n : f[n].seen[k] = NextEntry(files, f[k - 1])
  <2>1. VisitsNext(f, files, Total(files, from))
    <3> HIDE DEF from, H, w
    <3> QED BY <1>2, SeenIs DEF from
  <2> QED BY <2>1 DEF VisitsNext
<1>5. PICK c \in 0..H : ComesTo(f, files, key, c)
  BY <1>2, SeekReached
<1>6. Walked(FALSE, files, from, f[c], c, H) /\ f[c].at = to
  BY <1>3, <1>5 DEF ComesTo
<1>7. Position(files, to) /\ L = H - c
  BY <1>6 DEF Walked, Total
<1> HIDE DEF to
<1>8. Lists(v, Held(files, to)) /\ Ordered(FALSE, v) /\ Len(v) = L /\ L \in Nat
  BY <1>7, WalkVisits
<1>9. PICK g : StepsOf(g, files, to) /\ v = g[L].seen
  BY <1>8, WalkSteps
<1>10. \A n \in 0..L : \A k \in 1..n : g[n].seen[k] = NextEntry(files, g[k - 1])
  <2>1. VisitsNext(g, files, Total(files, to))
    BY <1>7, <1>9, SeenIs
  <2> QED BY <2>1 DEF VisitsNext
<1>11. /\ \A n \in 0..H : n # 0 => f[n] = Visit(files, f[n - 1])
       /\ \A n \in 0..L : n # 0 => g[n] = Visit(files, g[n - 1])
       /\ g[0].at = to
  <2>1. \A n \in 0..H : n # 0 => f[n] = Visit(files, f[n - 1])
    BY <1>2 DEF StepsOf
  <2>2. \A n \in 0..L : g[n] = IF n = 0 THEN [at |-> to, seen |-> <<>>] ELSE Visit(files, g[n - 1])
    BY <1>9 DEF StepsOf
  <2>3. 0 \in 0..L
    BY <1>8
  <2> QED BY <2>1, <2>2, <2>3
<1> HIDE DEF from, w, v, H, L
\* Where an iterator goes depends on where it is alone.
<1>12. \A n \in 0..L : g[n].at = f[c + n].at
  <2> DEFINE Bad == {n \in 0..L : g[n].at # f[c + n].at}
  <2>1. Bad = {}
    <3> SUFFICES ASSUME Bad # {} PROVE FALSE
      OBVIOUS
    <3>1. Bad \subseteq Nat
      BY <1>8
    <3> HIDE DEF Bad
    <3>2. PICK n \in Bad : \A k \in Bad : n <= k
      BY <3>1, Least
    <3>3. n \in 0..L /\ g[n].at # f[c + n].at
      BY <3>2 DEF Bad
    <3>4. n # 0
      <4>1. c + 0 = c
        BY <1>5
      <4> QED BY <1>6, <1>11, <3>3, <4>1
    <3>5. n - 1 \in 0..L /\ ~(n <= n - 1) /\ c + n \in 0..H /\ c + n # 0 /\ (c + n) - 1 = c + (n - 1)
      BY <1>1, <1>5, <1>7, <1>8, <3>3, <3>4
    <3>6. g[n - 1].at = f[c + (n - 1)].at
      BY <3>2, <3>5 DEF Bad
    <3>7. g[n] = Visit(files, g[n - 1]) /\ f[c + n] = Visit(files, f[c + (n - 1)])
      BY <1>11, <3>3, <3>4, <3>5
    <3>8. Visit(files, g[n - 1]).at = Visit(files, f[c + (n - 1)]).at
      BY <3>6 DEF Visit
    <3> QED BY <3>3, <3>7, <3>8
  <2> QED BY <2>1
<1>13. ASSUME NEW k \in 1..L PROVE v[k] = w[c + k]
  <2>1. k - 1 \in 0..L /\ L \in 0..L /\ c + k \in 1..H /\ (c + k) - 1 = c + (k - 1) /\ H \in 0..H
    BY <1>1, <1>5, <1>7, <1>8
  <2>2. v[k] = NextEntry(files, g[k - 1])
    BY <1>9, <1>10, <2>1
  <2>3. w[c + k] = NextEntry(files, f[c + (k - 1)])
    BY <1>2, <1>4, <2>1
  <2>4. g[k - 1].at = f[c + (k - 1)].at
    BY <1>12, <2>1
  <2> QED BY <2>2, <2>3, <2>4 DEF NextEntry
<1>14. ASSUME NEW k \in 1..c PROVE Key(w[k]) < key
  <2>1. k \in 1..H /\ H \in 0..H
    BY <1>1, <1>5
  <2>2. w[k] = NextEntry(files, f[k - 1])
    BY <1>2, <1>4, <2>1
  <2>3. f[c].seen[k] = NextEntry(files, f[k - 1])
    BY <1>4, <1>5
  <2>4. Key(f[c].seen[k]) < key
    BY <1>5 DEF ComesTo
  <2> QED BY <2>2, <2>3, <2>4
<1>15. ASSUME NEW k \in (c + 1)..H PROVE key <= Key(w[k])
  <2>1. k - c \in 1..L /\ c + (k - c) = k
    BY <1>1, <1>5, <1>7, <1>15
  <2>2. w[k] = v[k - c]
    BY <1>13, <2>1
  <2>3. v[k - c] \in Held(files, to)
    BY <1>8, <2>1, ListsPlaces
  <2>4. PICK i \in DOMAIN files : \E p \in (to[i] + 1)..Len(files[i]) : v[k - c] = files[i][p]
    BY <2>3 DEF Held
  <2>5. PICK p \in (to[i] + 1)..Len(files[i]) : v[k - c] = files[i][p]
    BY <2>4
  <2>6. <<i, p>> \in Ahead(files, to)
    BY DEF Ahead
  <2>7. key <= Key(files[<<i, p>>[1]][<<i, p>>[2]])
    BY <1>5, <1>6, <2>6 DEF ComesTo
  <2> QED BY <2>2, <2>5, <2>7
<1>16. v \in Seq(Entry) /\ Len(v) = Len(w) - c
  BY <1>1, <1>7, <1>8 DEF Ordered
<1>17. Suffix(files, key, c)
  BY <1>1, <1>8, <1>13, <1>14, <1>15, <1>16 DEF Suffix, w, v, from, to
<1> QED BY <1>1, <1>5, <1>17 DEF w, from

\* As long as no key is empty, an iterator sought to a key visits what an
\* iterator from the beginning visits from the first entry on that has this key
\* or a greater one: seeking in every file by itself and merging from there loses
\* nothing and adds nothing (KvDb::seek, Iterator).
THEOREM SeekVisitsSuffix == ASSUME Empty \notin Keys PROVE SpecQuery => []SeekIsSuffix
<1>1. TypeOK /\ Consistent /\ SortedInv /\ RangeInv => SeekIsSuffix
  <2> SUFFICES ASSUME TypeOK, Consistent, SortedInv, RangeInv, Idle, NEW key \in Keys
               PROVE  LET w == Walk(Opened, Begin(Opened))
                          rest == {n \in DOMAIN w : Key(w[n]) >= key}
                      IN  Walk(Opened, SeekKey(Opened, key)) =
                            SubSeq(w, Len(w) - Cardinality(rest) + 1, Len(w))
    BY DEF SeekIsSuffix
  <2> DEFINE w == Walk(Opened, Begin(Opened))
             v == Walk(Opened, SeekKey(Opened, key))
             rest == {n \in DOMAIN w : Key(w[n]) >= key}
  <2>1. KeysOf /\ key \in Nat
    BY QueryAssumption DEF RangeInv
  <2>2. Iterable(FALSE, Opened) /\ Position(Opened, Begin(Opened))
    BY ReadersSorted, OpenedIterable
  <2>3. PICK c \in 0..Len(w) : Suffix(Opened, key, c)
    BY <2>1, <2>2, SeekWalk
  <2>4. w \in Seq(Entry)
    BY <2>1, <2>2, WalkVisits DEF Ordered
  <2>5. /\ \A k \in 1..c : Key(w[k]) < key
        /\ \A k \in (c + 1)..Len(w) : key <= Key(w[k])
        /\ v \in Seq(Entry) /\ Len(v) = Len(w) - c /\ \A k \in 1..Len(v) : v[k] = w[c + k]
    BY <2>3 DEF Suffix
  <2> HIDE DEF w, v
  <2>6. /\ Len(w) \in Nat /\ c \in Nat /\ c <= Len(w) /\ DOMAIN w = 1..Len(w)
        /\ \A k \in 1..Len(w) : Key(w[k]) \in Nat
    <3>1. \A k \in 1..Len(w) : w[k] \in Entry
      BY <2>4
    <3> QED BY <2>1, <2>4, <3>1, KeyType
  <2>7. rest = (c + 1)..Len(w)
    <3>1. \A k \in 1..Len(w) : k \in 1..c \/ k \in (c + 1)..Len(w)
      BY <2>6
    <3>2. \A k \in (c + 1)..Len(w) : k \in 1..Len(w)
      BY <2>6
    <3> QED BY <2>1, <2>5, <2>6, <3>1, <3>2
  <2>8. Cardinality(rest) = Len(w) - c
    <3> HIDE DEF rest
    <3> QED BY <2>6, <2>7, IntervalSize
  <2> HIDE DEF rest
  <2>9. Len(w) - Cardinality(rest) + 1 = c + 1
    BY <2>6, <2>8
  <2>10. v = SubSeq(w, c + 1, Len(w))
    <3> DEFINE u == SubSeq(w, c + 1, Len(w))
    <3>1. u \in Seq(Entry) /\ Len(u) = Len(w) - c /\ \A k \in 1..(Len(w) - c) : u[k] = w[c + k]
      BY <2>4, <2>6
    <3> HIDE DEF u
    <3>2. u = v
      BY <2>4, <2>5, <3>1
    <3> QED BY <3>2 DEF u
  <2> QED BY <2>9, <2>10 DEF w, v, rest
<1> QED BY <1>1, AlwaysReadable, PTL

-----------------------------------------------------------------------------
(* Values of one key stay in the order they were added.                     *)

\* A merge that takes files of one level, or all of them, goes through them by
\* age, as an iterator does; one that cascades over two levels does not.
OneLevel == call = "flush" => \A f, g \in merge.srcs : f[2] = g[2]
MergeFiles == [i \in DOMAIN sources |-> runs[sources[i]]]

\* What a merge has written is what an iterator over its sources has visited.
Merging(files, here, seen) ==
  /\ Iterable(TRUE, files) /\ Position(files, Begin(files))
  /\ Len(seen) \in Nat /\ Total(files, Begin(files)) \in Nat
  /\ Walked(TRUE, files, Begin(files), [at |-> here, seen |-> seen], Len(seen),
            Total(files, Begin(files)))

RunsStable == ~mixed => \A f \in DOMAIN runs : Ordered(TRUE, runs[f])
MergeStable == pc = "merging" /\ ~mixed /\ OneLevel => Merging(MergeFiles, taken, out)

StableInv == RunsStable /\ MergeStable

\* The order is that of the entries and their keys alone.
LEMMA SameOrder ==
  ASSUME UNCHANGED <<keyOf, added>>
  PROVE  /\ \A stable, d, e : Before(stable, d, e)' <=> Before(stable, d, e)
         /\ \A stable, s : Ordered(stable, s)' <=> Ordered(stable, s)
BY DEF Before, Ordered, Key, Entry

\* A merge that a step leaves alone still has its files in order.
LEMMA SameMerging ==
  ASSUME UNCHANGED <<keyOf, added>>, NEW files, NEW here, NEW seen, Merging(files, here, seen),
         MergeFiles' = files, taken' = here, out' = seen
  PROVE  Merging(MergeFiles, taken, out)'
<1>1. Iterable(TRUE, files)'
  BY SameOrder DEF Merging, Iterable, Key
<1>2. Walked(TRUE, files, Begin(files), [at |-> here, seen |-> seen], Len(seen),
             Total(files, Begin(files)))'
  BY SameOrder DEF Merging, Walked
<1>3. Iterable(TRUE, MergeFiles)'
  <2>1. \A i \in DOMAIN files : Ordered(TRUE, files[i])'
    BY <1>1 DEF Iterable
  <2>2. \A i \in DOMAIN MergeFiles' : Ordered(TRUE, MergeFiles[i])'
    BY <2>1 DEF Ordered
  <2>3. \A i, j \in DOMAIN files : i < j =>
          \A p \in 1..Len(files[i]), q \in 1..Len(files[j]) :
            Key(files[i][p])' = Key(files[j][q])' => files[i][p] < files[j][q]
    BY <1>1 DEF Iterable
  <2>4. \A i, j \in DOMAIN MergeFiles' : i < j =>
          \A p \in 1..Len(MergeFiles'[i]), q \in 1..Len(MergeFiles'[j]) :
            Key(MergeFiles[i][p])' = Key(MergeFiles[j][q])' => MergeFiles'[i][p] < MergeFiles'[j][q]
    BY <2>3 DEF Key
  <2>5. \E m \in Nat : DOMAIN MergeFiles' = 1..m
    BY DEF Merging, Iterable
  <2>6. \A i, j \in DOMAIN MergeFiles' : \A p \in 1..Len(MergeFiles'[i]), q \in 1..Len(MergeFiles'[j]) :
          MergeFiles'[i][p] = MergeFiles'[j][q] => i = j /\ p = q
    BY DEF Merging, Iterable
  <2> QED BY <2>2, <2>4, <2>5, <2>6 DEF Iterable
<1>4. Position(MergeFiles, Begin(MergeFiles))'
  BY DEF Merging, Position, Begin
<1>5. Len(out') \in Nat /\ Total(MergeFiles, Begin(MergeFiles))' \in Nat
  BY DEF Merging
<1>6. Walked(TRUE, MergeFiles, Begin(MergeFiles), [at |-> taken, seen |-> out], Len(out),
             Total(MergeFiles, Begin(MergeFiles)))'
  BY <1>2 DEF Walked
<1> QED BY <1>3, <1>4, <1>5, <1>6 DEF Merging

\* A step that ends no merge, writes no file and adds no entry.
LEMMA KeepsStable ==
  ASSUME StableInv, UNCHANGED <<keyOf, runs, added, mixed>>, pc' # "merging"
  PROVE  StableInv'
<1>1. RunsStable'
  BY SameOrder DEF StableInv, RunsStable
<1> QED BY <1>1 DEF StableInv, MergeStable

\* A step after which fewer files are left, with the entries they had.
LEMMA DropsStable ==
  ASSUME StableInv, UNCHANGED <<keyOf, added>>, pc' # "merging", NEW left,
         left \subseteq DOMAIN runs, runs' = Kept(left), ~mixed' => ~mixed \/ left = {}
  PROVE  StableInv'
<1>1. DOMAIN runs' = left /\ \A f \in left : runs'[f] = runs[f]
  BY DEF Kept
<1>2. ASSUME ~mixed' PROVE \A f \in left : Ordered(TRUE, runs'[f])
  BY <1>1, <1>2 DEF StableInv, RunsStable
<1>3. RunsStable'
  BY <1>1, <1>2, SameOrder DEF RunsStable
<1> QED BY <1>3 DEF StableInv, MergeStable

\* A step that writes one file, and that one is in order.
LEMMA WritesStable ==
  ASSUME StableInv, UNCHANGED <<keyOf, added>>, pc' # "merging", ~mixed' => ~mixed,
         NEW f, NEW run, runs' = Put(runs, f, run), ~mixed' => Ordered(TRUE, run)
  PROVE  StableInv'
<1>1. DOMAIN runs' = DOMAIN runs \cup {f} /\ \A g \in DOMAIN runs' : runs'[g] = IF g = f THEN run ELSE runs[g]
  BY DEF Put
<1>2. ASSUME ~mixed' PROVE \A g \in DOMAIN runs' : Ordered(TRUE, runs'[g])
  BY <1>1, <1>2 DEF StableInv, RunsStable
<1>3. RunsStable'
  BY <1>2, SameOrder DEF RunsStable
<1> QED BY <1>3 DEF StableInv, MergeStable

\* An empty directory has no file out of order.
LEMMA InitStable == ASSUME InitQuery PROVE StableInv
<1>1. runs = <<>> /\ pc = "closed"
  BY DEF InitQuery, Init
<1> QED BY <1>1 DEF StableInv, RunsStable, MergeStable

\* Opening forgets files and changes none.
LEMMA OpenStable ==
  ASSUME TypeOK, SortedInv, StableInv, NEW mode, OpenQuery(mode)
  PROVE  StableInv'
<1>1. /\ UNCHANGED <<keyOf, added>> /\ pc' = "idle" /\ runs' = Kept(DOMAIN disk')
      /\ mixed' = (mixed /\ DOMAIN disk' # {})
  BY DEF OpenQuery, Open
<1>2. DOMAIN disk' \subseteq DOMAIN runs
  <2>1. DOMAIN disk' \subseteq ValidFiles(disk)
    BY DEF OpenQuery, Open, Load, ValidFiles
  <2> QED BY <2>1 DEF SortedInv, RunsSorted
<1> QED BY <1>1, <1>2, DropsStable

\* A new entry has its key, and the others keep theirs.
LEMMA AddStable ==
  ASSUME TypeOK, SortedInv, StableInv, NEW size, NEW key \in Keys, AddQuery(size, key)
  PROVE  StableInv'
<1>1. /\ keyOf' = Append(keyOf, key) /\ added' = added + 1 /\ added \in Nat /\ runs' = runs
      /\ pc' # "merging" /\ mixed' = mixed
  BY DEF AddQuery, Add, StartFlush, TypeOK
<1>2. \A e \in Entry : e \in Entry' /\ Key(e)' = Key(e)
  BY <1>1 DEF SortedInv, KeysOf, Entry, Key
<1>3. ASSUME NEW s, Ordered(TRUE, s) PROVE Ordered(TRUE, s)'
  <2>1. s \in Seq(Entry) /\ Len(s) \in Nat /\ \A p \in 1..Len(s) : s[p] \in Entry
    BY <1>3 DEF Ordered
  <2>2. s \in Seq(Entry')
    BY <1>2, <2>1
  <2>3. \A p, q \in 1..Len(s) : p < q => Before(TRUE, s[p], s[q])'
    BY <1>2, <1>3, <2>1 DEF Ordered, Before
  <2> QED BY <2>2, <2>3 DEF Ordered
<1>4. RunsStable'
  BY <1>1, <1>3 DEF StableInv, RunsStable
<1> QED BY <1>1, <1>4 DEF StableInv, MergeStable

\* The buffer keeps values of one key as they were added.
LEMMA WriteFlushStable ==
  ASSUME TypeOK, Consistent, StableInv, WriteFlushQuery
  PROVE  StableInv'
<1>1. PICK run \in BufferRuns : runs' = Put(runs, <<nextIndex, 0>>, run)
  BY DEF WriteFlushQuery
<1>2. UNCHANGED <<keyOf, added, mixed>> /\ pc' = "planning"
  BY DEF WriteFlushQuery, WriteFlush
<1>3. buffer \subseteq Entry /\ IsFiniteSet(buffer)
  <2>1. buffer \subseteq Entry
    BY DEF Consistent, EntriesByAge, TypeOK, Entry
  <2>2. IsFiniteSet(Entry)
    <3>1. added - 1 \in Int
      BY DEF TypeOK
    <3> QED BY <3>1, FS_Interval DEF Entry
  <2> QED BY <2>1, <2>2, FS_Subset
<1>4. Ordered(TRUE, run)
  <2>1. Cardinality(buffer) \in Nat
    BY <1>3, FS_CardinalityType
  <2>2. run \in [1..Cardinality(buffer) -> buffer]
    BY DEF BufferRuns, Listings
  <2>3. \A i, j \in 1..Cardinality(buffer) : i < j => BufferBefore(run[i], run[j])
    BY DEF BufferRuns, Listings
  <2>4. run \in Seq(Entry) /\ Len(run) = Cardinality(buffer)
    BY <1>3, <2>1, <2>2
  <2> QED BY <2>3, <2>4 DEF Ordered, Before, BufferBefore
<1> QED BY <1>1, <1>2, <1>4, WritesStable

\* The sources of a merge of one level, or of all files, are listed by age.
LEMMA SourcesByAge ==
  ASSUME TypeOK, Consistent, PlanMergeQuery, OneLevel'
  PROVE  \A i, j \in DOMAIN sources' : i < j => sources'[i][1] < sources'[j][1]
<1>1. /\ call' = call /\ call \in {"flush", "compact"} /\ todo = {}
      /\ merge'.srcs \subseteq ValidFiles(disk) /\ sources' \in SourceLists(merge'.srcs)
  BY DEF PlanMergeQuery, PlanMerge, Consistent, MemoryMatchesDisk, MergeUnderWay, TypeOK
<1>2. IsFiniteSet(merge'.srcs) /\ merge'.srcs \subseteq Names /\ InOrder(disk, merge'.srcs)
  <2>1. merge'.srcs \subseteq DOMAIN disk /\ merge'.srcs \subseteq ValidFiles(disk) \ todo
    BY <1>1 DEF ValidFiles
  <2>2. IsFiniteSet(merge'.srcs) /\ merge'.srcs \subseteq Names
    BY <2>1, FS_Subset DEF TypeOK
  <2> QED BY <2>1, <2>2 DEF Consistent, FilesInOrder, InOrder
<1> DEFINE T == merge'.srcs
           s == sources'
<1>3. /\ s \in [1..Cardinality(T) -> T] /\ Cardinality(T) \in Nat
      /\ \A i, j \in 1..Cardinality(T) : i < j => Precedes(s[i], s[j])
  BY <1>1, <1>2, FS_CardinalityType DEF SourceLists, Listings
<1>4. call = "flush" => \A f, g \in T : f[2] = g[2]
  BY <1>1 DEF OneLevel
<1> HIDE DEF T, s
<1>5. ASSUME NEW i \in DOMAIN s, NEW j \in DOMAIN s, i < j PROVE s[i][1] < s[j][1]
  <2>1. s[i] \in T /\ s[j] \in T /\ Precedes(s[i], s[j])
    BY <1>3, <1>5
  <2>2. /\ s[i][1] \in Nat /\ s[j][1] \in Nat /\ s[i][2] \in Nat /\ s[j][2] \in Nat
        /\ InOrder(disk, T)
    BY <1>2, <2>1 DEF Names, T
  <2>3. CASE call = "flush"
    BY <1>4, <2>1, <2>2, <2>3 DEF Precedes
  <2>4. CASE call = "compact"
    <3>1. CASE s[i][2] = s[j][2]
      BY <2>1, <2>2, <2>4, <3>1 DEF Precedes
    <3>2. CASE s[i][2] # s[j][2]
      <4>1. s[j][2] < s[i][2]
        BY <2>1, <2>2, <2>4, <3>2 DEF Precedes
      <4> QED BY <2>1, <2>2, <4>1 DEF InOrder
    <3> QED BY <3>1, <3>2
  <2> QED BY <1>1, <2>3, <2>4
<1> QED BY <1>5 DEF s

\* A merge of one level, or of all files, starts with files in the order of age:
\* the entries of an earlier file are older (RangeInv).
LEMMA PlanMergeStable ==
  ASSUME TypeOK, Consistent, RangeInv, RangeInv', StableInv, PlanMergeQuery
  PROVE  StableInv'
<1>1. UNCHANGED <<keyOf, runs, added, mixed>> /\ pc' = "merging" /\ pc = "planning"
      /\ out' = <<>> /\ taken' = [i \in DOMAIN sources' |-> 0]
  BY DEF PlanMergeQuery, PlanMerge, content, ghosts
<1>2. RunsStable'
  BY <1>1, SameOrder DEF StableInv, RunsStable
<1> DEFINE T == merge'.srcs
           s == sources'
           files == [i \in DOMAIN s |-> runs[s[i]]]
           from == Begin(files)
           total == Total(files, from)
<1>3. MergeFiles' = files /\ taken' = from /\ out' = <<>>
  BY <1>1 DEF MergeFiles, Begin
<1>4. ASSUME ~mixed, OneLevel' PROVE Merging(files, from, <<>>)
  <2>1. Lists(s, T) /\ T \subseteq Files
    <3>1. Lists(s, T)
      BY <1>1 DEF RangeInv, MergeLists, Lists
    <3>2. T \subseteq ValidFiles(disk) /\ todo = {}
      BY <1>1 DEF PlanMergeQuery, PlanMerge, Consistent, MemoryMatchesDisk, MergeUnderWay
    <3> QED BY <3>1, <3>2 DEF Files
  <2>2. \A i, j \in DOMAIN s : i < j => s[i][1] < s[j][1]
    BY <1>4, SourcesByAge
  <2>3. \A f \in T : Ordered(TRUE, runs[f])
    BY <1>4, <2>1 DEF StableInv, RunsStable, RangeInv, RunsList, Files
  <2> HIDE DEF T, s
  <2>4. Iterable(TRUE, files)
    BY <2>1, <2>2, <2>3, FilesIterable
  <2> HIDE DEF files
  <2>5. Position(files, from)
    BY <2>4, IterableTypes DEF Position, Begin
  <2>6. Walked(TRUE, files, from, [at |-> from, seen |-> <<>>], 0, total) /\ total \in Nat
    <3> HIDE DEF from
    <3> QED BY <2>4, <2>5, WalkStarts DEF Total
  <2>7. Len(<<>>) = 0 /\ 0 \in Nat
    OBVIOUS
  <2> HIDE DEF total
  <2> QED BY <2>4, <2>5, <2>6, <2>7 DEF Merging, total
<1>5. MergeStable'
  <2> SUFFICES ASSUME ~mixed, OneLevel' PROVE Merging(MergeFiles, taken, out)'
    BY <1>1 DEF MergeStable
  <2> HIDE DEF files, from
  <2>1. PICK f, h : f = files /\ h = from
    OBVIOUS
  <2> QED BY <1>1, <1>3, <1>4, <2>1, SameMerging
<1> QED BY <1>2, <1>5 DEF StableInv

\* Of two files that could be the current one, the first is.
LEMMA CurrentUnique ==
  ASSUME TypeOK, KeysOf, NEW stable, NEW files, Iterable(stable, files),
         NEW here, Position(files, here), NEW i, NEW j,
         IsCurrent(files, here, i), IsCurrent(files, here, j)
  PROVE  i = j
<1>1. ASSUME NEW k, IsCurrent(files, here, k) PROVE k \in Nat /\ Key(Coming(files, here, k)) \in Nat
  <2>1. k \in DOMAIN files /\ here[k] + 1 \in Nat /\ here[k] + 1 \in 1..Len(files[k])
    BY <1>1, IterableTypes DEF Position, IsCurrent
  <2>2. Coming(files, here, k) \in Entry
    BY <2>1, IterableTypes DEF Coming
  <2> QED BY <2>1, <2>2, KeyType, IterableTypes
<1>2. /\ i \in Nat /\ j \in Nat
      /\ Key(Coming(files, here, i)) \in Nat /\ Key(Coming(files, here, j)) \in Nat
  BY <1>1
<1> QED BY <1>2 DEF IsCurrent

\* Without empty keys the merge loop picks the source that an iterator would.
LEMMA SmallestIsCurrent ==
  ASSUME TypeOK, SortedInv, Empty \notin Keys, pc = "merging", ~MergeOver
  PROVE  IsCurrent(MergeFiles, taken, Smallest)
<1>1. /\ Smallest \in DOMAIN sources /\ taken[Smallest] < Len(runs[sources[Smallest]])
      /\ \A j \in DOMAIN sources : taken[j] < Len(runs[sources[j]]) =>
           /\ Key(Upcoming(Smallest)) <= Key(Upcoming(j))
           /\ Key(Upcoming(Smallest)) = Key(Upcoming(j)) => Smallest <= j
  BY SmallestIsLeast
<1>2. ASSUME NEW i \in DOMAIN sources, taken[i] < Len(runs[sources[i]]) PROVE Key(Upcoming(i)) \in Nat
  <2>1. runs[sources[i]] \in Seq(Entry) /\ taken[i] + 1 \in 1..Len(runs[sources[i]])
    BY <1>2 DEF SortedInv, MergeSorted, RunsSorted, SortedRun
  <2>2. Upcoming(i) \in Entry
    BY <2>1 DEF Upcoming
  <2> QED BY <2>2, KeyType DEF SortedInv
<1>3. DOMAIN MergeFiles = DOMAIN sources /\ \A i \in DOMAIN sources : MergeFiles[i] = runs[sources[i]]
  BY DEF MergeFiles
<1>4. \A i \in DOMAIN sources : Coming(MergeFiles, taken, i) = Upcoming(i)
  BY <1>3 DEF Coming, Upcoming
<1>5. \A j \in DOMAIN sources : taken[j] < Len(runs[sources[j]]) =>
        \/ Key(Upcoming(Smallest)) < Key(Upcoming(j))
        \/ Key(Upcoming(Smallest)) = Key(Upcoming(j)) /\ Smallest <= j
  BY <1>1, <1>2
<1> QED BY <1>1, <1>3, <1>4, <1>5 DEF IsCurrent

\* So a step of the merge loop is one of an iterator over the sources.
LEMMA MergeEntryStable ==
  ASSUME Empty \notin Keys, TypeOK, SortedInv, StableInv, MergeEntry
  PROVE  StableInv'
<1>1. /\ pc = "merging" /\ ~MergeOver
      /\ UNCHANGED <<keyOf, runs, disk, sources, pc, added, mixed, call, merge>>
      /\ out' = Append(out, Upcoming(Smallest)) /\ taken' = [taken EXCEPT ![Smallest] = @ + 1]
  BY DEF MergeEntry, vars, memory, ghosts, content
<1>2. RunsStable'
  BY <1>1, SameOrder DEF StableInv, RunsStable
<1>3. ASSUME Merging(MergeFiles, taken, out) PROVE Merging(MergeFiles, taken', out')
  <2> DEFINE files == MergeFiles
             from == Begin(files)
             total == Total(files, from)
             w == [at |-> taken, seen |-> out]
             n == Len(out)
             i == Smallest
  <2>1. /\ Iterable(TRUE, files) /\ Position(files, from) /\ n \in Nat /\ total \in Nat
        /\ Walked(TRUE, files, from, w, n, total)
    BY <1>3 DEF Merging
  <2>2. w.at = taken /\ w.seen = out
    OBVIOUS
  <2>3. IsCurrent(files, taken, i)
    BY <1>1, SmallestIsCurrent
  <2>4. files[i] = runs[sources[i]]
    BY <1>1, SmallestIsLeast DEF MergeFiles
  <2> HIDE DEF files, from, total, w
  <2>5. Position(files, taken) /\ Cardinality(Ahead(files, taken)) = total - n /\ out \in Seq(Entry)
    BY <2>1, <2>2 DEF Walked, Ordered
  <2>6. Ahead(files, taken) # {}
    <3>1. taken[i] + 1 \in (taken[i] + 1)..Len(files[i])
      BY <2>1, <2>3, <2>5, IterableTypes DEF IsCurrent, Position
    <3>2. <<i, taken[i] + 1>> \in Ahead(files, taken)
      BY <2>3, <3>1 DEF Ahead, IsCurrent
    <3> QED BY <3>2
  <2>7. n < total
    <3>1. IsFiniteSet(Ahead(files, taken))
      BY <2>1, <2>5, AheadFinite
    <3>2. total - n \in Nat /\ total - n # 0
      BY <2>5, <2>6, <3>1, FS_CardinalityType, FS_EmptySet
    <3> QED BY <2>1, <3>2
  <2>8. i = Current(files, taken)
    <3>1. IsCurrent(files, taken, Current(files, taken)) /\ KeysOf
      BY <2>1, <2>5, <2>6, CurrentIsLeast DEF SortedInv
    <3> HIDE DEF i
    <3> QED BY <2>1, <2>3, <2>5, <3>1, CurrentUnique
  <2>9. GoesOn(TRUE, files, from, w, n, total)
    <3> HIDE DEF n
    <3> QED BY <2>1, <2>7, VisitGoesOn DEF SortedInv
  <2>10. NextEntry(files, w) = Upcoming(i)
    BY <2>2, <2>4, <2>8 DEF NextEntry, Coming, Upcoming
  <2>11. Visit(files, w) = [at |-> taken', seen |-> out']
    <3>1. w.at[i] < Len(files[i]) /\ files[i][w.at[i] + 1] = Upcoming(i)
      BY <2>2, <2>3, <2>4 DEF IsCurrent, Upcoming
    <3> HIDE DEF i
    <3> QED BY <1>1, <2>2, <2>8, <3>1 DEF Visit, i
  <2>12. Len(out') = n + 1
    BY <1>1, <2>5
  <2> HIDE DEF n
  <2>13. Walked(TRUE, files, from, [at |-> taken', seen |-> out'], Len(out'), total)
    BY <2>9, <2>11, <2>12 DEF GoesOn
  <2>14. Len(out') \in Nat
    BY <2>1, <2>12
  <2>15. ASSUME NEW x, NEW h, NEW o, Iterable(TRUE, x), Position(x, Begin(x)), Len(o) \in Nat,
                Total(x, Begin(x)) \in Nat,
                Walked(TRUE, x, Begin(x), [at |-> h, seen |-> o], Len(o), Total(x, Begin(x)))
         PROVE  Merging(x, h, o)
    BY <2>15 DEF Merging
  <2>16. Merging(files, taken', out')
    BY <2>1, <2>13, <2>14, <2>15 DEF from, total
  <2> QED BY <2>16 DEF files
<1>4. MergeStable'
  <2> SUFFICES ASSUME ~mixed, OneLevel PROVE Merging(MergeFiles, taken, out)'
    BY <1>1 DEF MergeStable, OneLevel
  <2>1. Merging(MergeFiles, taken', out')
    BY <1>1, <1>3 DEF StableInv, MergeStable
  <2>2. MergeFiles' = MergeFiles
    BY <1>1 DEF MergeFiles
  <2>3. PICK f, h, o : f = MergeFiles /\ h = taken' /\ o = out'
    OBVIOUS
  <2> QED BY <1>1, <2>1, <2>2, <2>3, SameMerging
<1> QED BY <1>2, <1>4 DEF StableInv

\* A finished merge of one level, or of all files, has written its file in order.
LEMMA WriteMergeStable ==
  ASSUME TypeOK, StableInv, WriteMergeQuery
  PROVE  StableInv'
<1>1. /\ UNCHANGED <<keyOf, added>> /\ pc = "merging" /\ pc' = "removing"
      /\ runs' = Put(runs, merge.dst, out)
      /\ mixed' = (mixed \/ (call = "flush" /\ \E f, g \in merge.srcs : f[2] # g[2]))
  BY DEF WriteMergeQuery, WriteMerge, ghosts
<1>2. ASSUME ~mixed' PROVE ~mixed /\ Ordered(TRUE, out)
  <2>1. ~mixed /\ OneLevel
    BY <1>1, <1>2 DEF OneLevel
  <2>2. Merging(MergeFiles, taken, out)
    BY <1>1, <2>1 DEF StableInv, MergeStable
  <2> QED BY <2>1, <2>2 DEF Merging, Walked
<1> QED BY <1>1, <1>2, WritesStable

\* Removing a merged file changes no other.
LEMMA RemoveSourceStable ==
  ASSUME SortedInv, StableInv, RemoveSourceQuery
  PROVE  StableInv'
<1>1. /\ UNCHANGED <<keyOf, added, mixed>> /\ pc' # "merging"
      /\ runs' = Kept(ValidFiles(disk'))
  BY DEF RemoveSourceQuery, RemoveSource, Return, ghosts
<1>2. ValidFiles(disk') \subseteq ValidFiles(disk)
  BY DEF RemoveSourceQuery, RemoveSource, Remove, ValidFiles
<1>3. ValidFiles(disk') \subseteq DOMAIN runs
  BY <1>2 DEF SortedInv, RunsSorted
<1> QED BY <1>1, <1>3, DropsStable

\* The steps that leave the files alone.
LEMMA OtherStable ==
  ASSUME StableInv, OtherQuery
  PROVE  StableInv'
<1>1. UNCHANGED <<keyOf, runs, mixed>>
  BY DEF OtherQuery, content
<1>2. added' = added /\ pc' # "merging"
  BY DEF OtherQuery, Other, Flush, Compact, StartFlush, Exit, PlanNothing, PlanFaults,
     MergeFaults, Crash, WriteThrows, Abandon, Return, Forget, ghosts
<1> QED BY <1>1, <1>2, KeepsStable

\* Every step keeps the values of a key in the order they were added.
LEMMA StableStep ==
  ASSUME Empty \notin Keys, TypeOK, Consistent, SortedInv, RangeInv, RangeInv', StableInv,
         [NextQuery]_qvars
  PROVE  StableInv'
<1>1. CASE UNCHANGED qvars
  <2>1. UNCHANGED <<keyOf, runs, added, pc, call, merge, sources, taken, out, mixed>>
    BY <1>1 DEF qvars, vars, memory, content, merging, ghosts
  <2>2. RunsStable'
    BY <2>1, SameOrder DEF StableInv, RunsStable
  <2>3. MergeStable'
    <3> SUFFICES ASSUME Merging(MergeFiles, taken, out) PROVE Merging(MergeFiles, taken, out)'
      BY <2>1 DEF StableInv, MergeStable, OneLevel
    <3>1. PICK f, h, o : f = MergeFiles /\ h = taken /\ o = out
      OBVIOUS
    <3>2. MergeFiles' = f
      BY <2>1, <3>1 DEF MergeFiles
    <3> QED BY <2>1, <3>1, <3>2, SameMerging
  <2> QED BY <2>2, <2>3 DEF StableInv
<1>2. CASE \E size \in EntrySizes, key \in Keys : AddQuery(size, key)
  BY <1>2, AddStable
<1>3. CASE \E mode \in OpenModes : OpenQuery(mode)
  BY <1>3, OpenStable
<1>4. CASE WriteFlushQuery
  BY <1>4, WriteFlushStable
<1>5. CASE PlanMergeQuery
  BY <1>5, PlanMergeStable
<1>6. CASE MergeEntry
  BY <1>6, MergeEntryStable
<1>7. CASE WriteMergeQuery
  BY <1>7, WriteMergeStable
<1>8. CASE RemoveSourceQuery
  BY <1>8, RemoveSourceStable
<1>9. CASE OtherQuery
  BY <1>9, OtherStable
<1> QED BY <1>1, <1>2, <1>3, <1>4, <1>5, <1>6, <1>7, <1>8, <1>9 DEF NextQuery

\* What get finds: the oldest value of the key.
LEMMA GetsOldest ==
  ASSUME TypeOK, Consistent, RangeInv, Idle, \A f \in readers : Ordered(TRUE, runs[f]),
         NEW key \in Keys
  PROVE  Get(Opened, key) = {e \in durable : Key(e) = key /\ \A d \in durable : Key(d) = key => e <= d}
<1> DEFINE files == Opened
           places(i) == {p \in DOMAIN files[i] : Key(files[i][p]) = key}
           hits == {i \in DOMAIN files : places(i) # {}}
           least(S) == CHOOSE m \in S : \A n \in S : m <= n
<1>1. Iterable(TRUE, files) /\ Position(files, Begin(files)) /\ Held(files, Begin(files)) = durable
  BY OpenedIterable
<1> HIDE DEF files
<1>2. \A x : x \in durable <=> \E i \in DOMAIN files : \E p \in DOMAIN files[i] : x = files[i][p]
  <2>1. \A i \in DOMAIN files : Begin(files)[i] + 1 = 1 /\ DOMAIN files[i] = 1..Len(files[i])
    BY <1>1, IterableTypes DEF Begin
  <2> QED BY <1>1, <2>1 DEF Held
<1>3. \A i \in DOMAIN files : DOMAIN files[i] = 1..Len(files[i]) /\ DOMAIN files[i] \subseteq Nat
  BY <1>1, IterableTypes
<1>4. Get(files, key) =
        IF hits = {} THEN {} ELSE {files[least(hits)][least(places(least(hits)))]}
  BY DEF Get
<1>5. CASE hits = {}
  <2>1. \A e \in durable : Key(e) # key
    BY <1>2, <1>5
  <2> QED BY <1>4, <1>5, <2>1 DEF files
<1>6. CASE hits # {}
  <2> DEFINE i == least(hits)
             p == least(places(i))
             e == files[i][p]
  <2>1. i \in hits /\ \A j \in hits : i <= j
    <3>1. hits \subseteq Nat
      BY <1>1, IterableTypes
    <3> HIDE DEF hits
    <3>2. \E m \in hits : \A n \in hits : m <= n
      BY <1>6, <3>1, Least
    <3> QED BY <3>2
  <2> HIDE DEF i
  <2>2. i \in DOMAIN files /\ places(i) # {}
    BY <2>1
  <2>3. p \in places(i) /\ \A q \in places(i) : p <= q
    <3>1. places(i) \subseteq Nat
      BY <1>3, <2>2
    <3> HIDE DEF places
    <3>2. \E m \in places(i) : \A n \in places(i) : m <= n
      BY <2>2, <3>1, Least
    <3> QED BY <3>2
  <2> HIDE DEF p
  <2>4. e \in durable /\ Key(e) = key
    BY <1>2, <2>2, <2>3
  <2>5. ASSUME NEW d \in durable, Key(d) = key PROVE e <= d
    <3>1. PICK j \in DOMAIN files : \E q \in DOMAIN files[j] : d = files[j][q]
      BY <1>2
    <3>2. PICK q \in DOMAIN files[j] : d = files[j][q]
      BY <3>1
    <3>3. j \in hits /\ i <= j /\ i \in Nat /\ j \in Nat
      BY <1>1, <2>1, <2>2, <2>5, <3>2, IterableTypes
    <3>4. p \in 1..Len(files[i]) /\ q \in 1..Len(files[j]) /\ p \in Nat /\ q \in Nat
      BY <1>3, <2>2, <2>3, <3>2
    <3>5. e \in Int /\ d \in Int
      <4>1. e \in Entry /\ d \in Entry
        BY <2>4, FilesPartition
      <4> QED BY <4>1 DEF Entry, TypeOK
    <3>6. CASE i = j
      <4>1. p <= q
        BY <2>3, <2>5, <3>2, <3>6
      <4>2. CASE p = q
        BY <3>2, <3>5, <3>6, <4>2
      <4>3. CASE p # q
        <5>1. p < q
          BY <3>4, <4>1, <4>3
        <5>2. Before(TRUE, e, d)
          BY <1>1, <2>2, <3>2, <3>4, <3>6, <5>1 DEF Iterable, Ordered
        <5>3. Key(e) \in Nat
          BY <2>4, FilesPartition, KeyType DEF RangeInv
        <5> QED BY <2>4, <2>5, <3>5, <5>2, <5>3 DEF Before
      <4> QED BY <4>2, <4>3
    <3>7. CASE i # j
      <4>1. i < j
        BY <3>3, <3>7
      <4>2. e < d
        BY <1>1, <2>2, <2>4, <2>5, <3>2, <3>4, <4>1 DEF Iterable
      <4> QED BY <3>5, <4>2
    <3> QED BY <3>6, <3>7
  <2>6. Get(files, key) = {e}
    BY <1>4, <1>6 DEF i, p
  <2> HIDE DEF e
  <2>7. \A x \in durable : x \in Int
    BY FilesPartition DEF Entry, TypeOK
  <2>8. \A x \in durable : Key(x) = key /\ (\A d \in durable : Key(d) = key => x <= d) => x = e
    BY <2>4, <2>5, <2>7
  <2> QED BY <2>4, <2>5, <2>6, <2>8 DEF files
<1> QED BY <1>5, <1>6

\* As long as no key is empty and no cascade has merged two levels at once, an
\* iteration visits the values of a key in the order they were added, and get
\* returns the first of them, through any flushes, merges, compactions and
\* restarts (Writer::merge, perform_merge_operation, KvDb::get, Iterator::next).
THEOREM FirstAddedComesFirst == ASSUME Empty \notin Keys PROVE SpecQuery => []FirstAddedFirst
<1>1. InitQuery => StableInv
  BY InitStable
<1>2. TypeOK /\ Consistent /\ SortedInv /\ RangeInv /\ RangeInv' /\ StableInv /\ [NextQuery]_qvars
        => StableInv'
  BY StableStep
<1>3. TypeOK /\ Consistent /\ SortedInv /\ RangeInv /\ StableInv => FirstAddedFirst
  <2> SUFFICES ASSUME TypeOK, Consistent, SortedInv, RangeInv, StableInv, Idle, ~mixed
               PROVE  FirstAddedFirst
    BY DEF FirstAddedFirst
  <2> DEFINE w == Walk(Opened, Begin(Opened))
  <2>1. \A f \in readers : Ordered(TRUE, runs[f])
    BY DEF Idle, Consistent, MemoryMatchesDisk, SortedInv, RunsSorted, StableInv, RunsStable
  <2>2. Lists(w, durable) /\ Ordered(TRUE, w)
    BY <2>1, BeginWalk
  <2> HIDE DEF w
  <2>3. ASSUME NEW i \in DOMAIN w, NEW j \in DOMAIN w, i < j, Key(w[i]) = Key(w[j]) PROVE w[i] < w[j]
    <3>1. i \in 1..Len(w) /\ j \in 1..Len(w) /\ w[i] \in Entry
      BY <2>2 DEF Ordered
    <3>2. Before(TRUE, w[i], w[j]) /\ Key(w[i]) \in Nat
      BY <2>2, <2>3, <3>1, KeyType DEF Ordered, RangeInv
    <3> QED BY <2>3, <3>2 DEF Before
  <2>4. \A key \in Keys :
          Get(Opened, key) = {e \in durable : Key(e) = key /\ \A d \in durable : Key(d) = key => e <= d}
    BY <2>1, GetsOldest
  <2> QED BY <2>3, <2>4 DEF FirstAddedFirst, w
<1> QED BY <1>1, <1>2, <1>3, AlwaysReadable, PTL DEF SpecQuery

-----------------------------------------------------------------------------
(* What the files have to do with an iteration: nothing.                     *)

\* The entries that were flushed have one listing in the order of keys and, among
\* equal keys, of adding; and an iteration from the beginning visits that.
FilesDoNotShow ==
  Idle /\ ~mixed =>
    LET w == Walk(Opened, Begin(Opened))
    IN  /\ Lists(w, durable) /\ Ordered(TRUE, w)
        /\ \A s : Lists(s, durable) /\ Ordered(TRUE, s) => s = w

SamePlace(s, t, n) == n \in 1..Len(t) /\ s[n] = t[n]

\* Of two listings of a set in this order, each begins the other.
LEMMA OrderedPrefix ==
  ASSUME TypeOK, KeysOf, NEW S, NEW s, NEW t,
         Lists(s, S), Ordered(TRUE, s), Lists(t, S), Ordered(TRUE, t), NEW n \in 1..Len(s)
  PROVE  SamePlace(s, t, n)
<1> DEFINE Differ == {k \in 1..Len(s) : ~(k \in 1..Len(t) /\ s[k] = t[k])}
<1>1. /\ Len(s) \in Nat /\ Len(t) \in Nat
      /\ \A k \in 1..Len(s) : s[k] \in S /\ s[k] \in Entry
      /\ \A k \in 1..Len(t) : t[k] \in S /\ t[k] \in Entry
  <2>1. s \in Seq(S) /\ t \in Seq(S)
    BY DEF Lists
  <2>2. s \in Seq(Entry) /\ t \in Seq(Entry)
    BY DEF Ordered
  <2> QED BY <2>1, <2>2
<1>2. SUFFICES ASSUME Differ # {} PROVE FALSE
  BY DEF SamePlace
<1>3. PICK k \in Differ : \A j \in Differ : k <= j
  <2>1. Differ \subseteq Nat
    OBVIOUS
  <2> HIDE DEF Differ
  <2> QED BY <1>2, <2>1, Least
<1>4. k \in 1..Len(s) /\ \A j \in 1..(k - 1) : j \in 1..Len(t) /\ s[j] = t[j]
  <2>1. k \in 1..Len(s)
    OBVIOUS
  <2>2. ASSUME NEW j \in 1..(k - 1) PROVE j \in 1..Len(t) /\ s[j] = t[j]
    <3>1. j \in 1..Len(s) /\ ~(k <= j)
      BY <1>1, <2>1
    <3> QED BY <1>3, <3>1
  <2> QED BY <2>1, <2>2
<1>5. PICK j \in 1..Len(t) : t[j] = s[k]
  BY <1>1, <1>4 DEF Lists
<1>6. j >= k /\ k \in 1..Len(t)
  <2>1. ASSUME j < k PROVE FALSE
    <3>1. j \in 1..(k - 1) /\ j \in 1..Len(s)
      BY <1>1, <1>4, <2>1
    <3>2. s[j] = s[k]
      BY <1>4, <1>5, <3>1
    <3> QED BY <1>4, <2>1, <3>1, <3>2 DEF Lists
  <2> QED BY <1>1, <1>4, <2>1
<1>7. PICK i \in 1..Len(s) : s[i] = t[k]
  BY <1>1, <1>6 DEF Lists
<1>8. i >= k
  <2>1. ASSUME i < k PROVE FALSE
    <3>1. i \in 1..(k - 1) /\ i \in 1..Len(t)
      BY <1>1, <1>4, <2>1
    <3>2. t[i] = t[k]
      BY <1>4, <1>7, <3>1
    <3> QED BY <1>6, <2>1, <3>1, <3>2 DEF Lists
  <2> QED BY <1>1, <1>4, <2>1
<1>9. i # k /\ j # k
  BY <1>4, <1>5, <1>6, <1>7
<1>10. Before(TRUE, s[k], t[k]) /\ Before(TRUE, t[k], s[k])
  <2>1. k < i /\ k < j
    BY <1>1, <1>6, <1>8, <1>9
  <2>2. Before(TRUE, s[k], s[i])
    BY <1>4, <2>1 DEF Ordered
  <2>3. Before(TRUE, t[k], t[j])
    BY <1>6, <2>1 DEF Ordered
  <2> QED BY <1>5, <1>7, <2>2, <2>3
<1>11. Key(s[k]) \in Nat /\ Key(t[k]) \in Nat /\ s[k] \in Int /\ t[k] \in Int
  <2>1. s[k] \in Entry /\ t[k] \in Entry
    BY <1>1, <1>4, <1>6
  <2>2. Entry \subseteq Int
    BY DEF Entry, TypeOK
  <2> QED BY <2>1, <2>2, KeyType
<1> QED BY <1>10, <1>11 DEF Before

LEMMA OrderedUnique ==
  ASSUME TypeOK, KeysOf, NEW S, NEW s, NEW t,
         Lists(s, S), Ordered(TRUE, s), Lists(t, S), Ordered(TRUE, t)
  PROVE  s = t
<1>1. s \in Seq(S) /\ t \in Seq(S) /\ Len(s) \in Nat /\ Len(t) \in Nat
  BY DEF Lists
<1>2. \A n \in 1..Len(s) : n \in 1..Len(t) /\ s[n] = t[n]
  <2>1. ASSUME NEW n \in 1..Len(s) PROVE SamePlace(s, t, n)
    BY OrderedPrefix, Zenon
  <2> QED BY <2>1 DEF SamePlace
<1>3. \A n \in 1..Len(t) : n \in 1..Len(s)
  <2>1. ASSUME NEW n \in 1..Len(t) PROVE SamePlace(t, s, n)
    BY OrderedPrefix, Zenon
  <2> QED BY <2>1 DEF SamePlace
<1>4. Len(s) = Len(t)
  <2>1. ~(Len(s) < Len(t))
    <3>1. ASSUME Len(s) < Len(t) PROVE FALSE
      <4>1. Len(t) \in 1..Len(t) /\ Len(t) \notin 1..Len(s)
        BY <1>1, <3>1
      <4> QED BY <1>3, <4>1
    <3> QED BY <3>1
  <2>2. ~(Len(t) < Len(s))
    <3>1. ASSUME Len(t) < Len(s) PROVE FALSE
      <4>1. Len(s) \in 1..Len(s) /\ Len(s) \notin 1..Len(t)
        BY <1>1, <3>1
      <4> QED BY <1>2, <4>1
    <3> QED BY <3>1
  <2> QED BY <1>1, <2>1, <2>2
<1>5. s = [n \in 1..Len(s) |-> s[n]] /\ t = [n \in 1..Len(t) |-> t[n]]
  BY <1>1
<1>6. [n \in 1..Len(s) |-> s[n]] = [n \in 1..Len(t) |-> t[n]]
  BY <1>2, <1>4
<1> QED BY <1>5, <1>6

\* What an iteration visits is a function of the entries that were flushed: which
\* files flushes, merges, crashes and restarts have left them in does not show, as
\* long as no key is empty and no cascade has merged two levels at once.
THEOREM FilesNeverShow == ASSUME Empty \notin Keys PROVE SpecQuery => []FilesDoNotShow
<1>1. InitQuery => StableInv
  BY InitStable
<1>2. TypeOK /\ Consistent /\ SortedInv /\ RangeInv /\ RangeInv' /\ StableInv /\ [NextQuery]_qvars
        => StableInv'
  BY StableStep
<1>3. TypeOK /\ Consistent /\ SortedInv /\ RangeInv /\ StableInv => FilesDoNotShow
  <2> SUFFICES ASSUME TypeOK, Consistent, SortedInv, RangeInv, StableInv, Idle, ~mixed
               PROVE  FilesDoNotShow
    BY DEF FilesDoNotShow
  <2> DEFINE w == Walk(Opened, Begin(Opened))
  <2>1. \A f \in readers : Ordered(TRUE, runs[f])
    BY DEF Idle, Consistent, MemoryMatchesDisk, SortedInv, RunsSorted, StableInv, RunsStable
  <2>2. Lists(w, durable) /\ Ordered(TRUE, w)
    BY <2>1, BeginWalk
  <2>3. KeysOf
    BY DEF RangeInv
  <2> HIDE DEF w
  <2>4. \A s : Lists(s, durable) /\ Ordered(TRUE, s) => s = w
    BY <2>2, <2>3, OrderedUnique
  <2> QED BY <2>2, <2>4 DEF FilesDoNotShow, w
<1> QED BY <1>1, <1>2, <1>3, AlwaysReadable, PTL DEF SpecQuery

=============================================================================
