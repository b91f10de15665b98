----------------------------- MODULE KvDbProofs -----------------------------
(* Proofs about KvDb, and about KvTraverse, which adds a traversal to it and  *)
(* no assumption, for every value of the constants.                          *)
EXTENDS KvTraverse, TLAPS, FiniteSetTheorems, SequenceTheorems

MergeOps == [srcs : SUBSET Names, whole : Nat, dst : Names]

\* A non-empty set of natural numbers has a smallest element.
LEMMA Least ==
  ASSUME NEW T, T \subseteq Nat, T # {}
  PROVE  \E m \in T : \A n \in T : m <= n
<1>1. PICK m \in T : \A n \in T : ~(<<n, m>> \in OpToRel(<, Nat))
  BY WFMin, NatLessThanWellFounded, Zenon
<1>2. \A n \in T : ~(n < m)
  BY <1>1 DEF OpToRel
<1> QED BY <1>2

-----------------------------------------------------------------------------
(* Directories. *)

\* Writing a file keeps the directory one of named contents.
LEMMA PutType ==
  ASSUME NEW d, DOMAIN d \subseteq Names, IsFiniteSet(DOMAIN d), d \in [DOMAIN d -> Contents],
         NEW f \in Names, NEW c \in Contents
  PROVE  /\ DOMAIN Put(d, f, c) = DOMAIN d \cup {f}
         /\ DOMAIN Put(d, f, c) \subseteq Names /\ IsFiniteSet(DOMAIN Put(d, f, c))
         /\ Put(d, f, c) \in [DOMAIN Put(d, f, c) -> Contents]
<1>1. DOMAIN Put(d, f, c) = DOMAIN d \cup {f}
  BY DEF Put
<1>2. IsFiniteSet(DOMAIN d \cup {f})
  BY FS_AddElement
<1>3. Put(d, f, c) \in [DOMAIN d \cup {f} -> Contents]
  BY DEF Put
<1> QED BY <1>1, <1>2, <1>3

\* Removing a file keeps the directory one of named contents.
LEMMA RemoveType ==
  ASSUME NEW d, DOMAIN d \subseteq Names, IsFiniteSet(DOMAIN d), d \in [DOMAIN d -> Contents],
         NEW f
  PROVE  /\ DOMAIN Remove(d, f) = DOMAIN d \ {f}
         /\ DOMAIN Remove(d, f) \subseteq Names /\ IsFiniteSet(DOMAIN Remove(d, f))
         /\ Remove(d, f) \in [DOMAIN Remove(d, f) -> Contents]
<1>1. DOMAIN Remove(d, f) = DOMAIN d \ {f}
  BY DEF Remove
<1>2. IsFiniteSet(DOMAIN d \ {f})
  BY FS_RemoveElement
<1>3. Remove(d, f) \in [DOMAIN d \ {f} -> Contents]
  BY DEF Remove
<1> QED BY <1>1, <1>2, <1>3

\* Writing a file that was not valid leaves the other valid files as they were.
LEMMA PutValid ==
  ASSUME NEW d, NEW f, NEW c, f \notin ValidFiles(d)
  PROVE  /\ ValidFiles(Put(d, f, c)) = IF c.valid THEN ValidFiles(d) \cup {f} ELSE ValidFiles(d)
         /\ \A g \in ValidFiles(d) : Put(d, f, c)[g] = d[g]
         /\ Put(d, f, c)[f] = c
<1> DEFINE e == Put(d, f, c)
<1>1. DOMAIN e = DOMAIN d \cup {f} /\ \A g \in DOMAIN d \cup {f} : e[g] = IF g = f THEN c ELSE d[g]
  BY DEF Put
<1> HIDE DEF e
<1>2. e[f] = c
  BY <1>1
<1>3. \A g \in ValidFiles(d) : e[g] = d[g]
  BY <1>1 DEF ValidFiles
<1>4. ValidFiles(e) = IF c.valid THEN ValidFiles(d) \cup {f} ELSE ValidFiles(d)
  BY <1>1 DEF ValidFiles
<1> QED BY <1>2, <1>3, <1>4 DEF e

\* Removing a file changes the validity and the contents of no other.
LEMMA RemoveValid ==
  ASSUME NEW d, NEW f
  PROVE  /\ ValidFiles(Remove(d, f)) = ValidFiles(d) \ {f}
         /\ \A g \in ValidFiles(d) \ {f} : Remove(d, f)[g] = d[g]
<1> DEFINE e == Remove(d, f)
<1>1. DOMAIN e = DOMAIN d \ {f} /\ \A g \in DOMAIN d \ {f} : e[g] = d[g]
  BY DEF Remove
<1> HIDE DEF e
<1>2. QED BY <1>1 DEF ValidFiles, e

-----------------------------------------------------------------------------
(* Levels. *)

\* The files below a level are those its lower levels list.
LEMMA ListedMember ==
  ASSUME NEW lv \in Seq(Seq(Nat)), NEW n \in Nat
  PROVE  /\ \A f : f \in ListedBelow(lv, n) <=>
              \E l \in 1..Len(lv) : l <= n /\ \E j \in 1..Len(lv[l]) : f = <<lv[l][j], l - 1>>
         /\ ListedBelow(lv, n) \subseteq Names
<1>1. DOMAIN lv = 1..Len(lv) /\ \A l \in 1..Len(lv) : lv[l] \in Seq(Nat)
  OBVIOUS
<1>2. \A l \in 1..Len(lv) : DOMAIN lv[l] = 1..Len(lv[l]) /\ \A j \in 1..Len(lv[l]) : lv[l][j] \in Nat
  BY <1>1
<1>3. \A f : f \in ListedBelow(lv, n) <=>
        \E l \in 1..Len(lv) : l <= n /\ \E j \in 1..Len(lv[l]) : f = <<lv[l][j], l - 1>>
  <2> SUFFICES ASSUME NEW f
               PROVE  f \in ListedBelow(lv, n) <=>
                        \E l \in 1..Len(lv) : l <= n /\ \E j \in 1..Len(lv[l]) : f = <<lv[l][j], l - 1>>
    OBVIOUS
  <2>1. f \in ListedBelow(lv, n) <=>
          \E l \in {k \in DOMAIN lv : k <= n} : f \in {<<lv[l][j], l - 1>> : j \in DOMAIN lv[l]}
    BY DEF ListedBelow
  <2>2. f \in ListedBelow(lv, n) <=>
          \E l \in DOMAIN lv : l <= n /\ \E j \in DOMAIN lv[l] : f = <<lv[l][j], l - 1>>
    BY <2>1
  <2> QED BY <2>2, <1>1, <1>2
<1>4. \A l \in 1..Len(lv) : l - 1 \in Nat
  OBVIOUS
<1>5. ListedBelow(lv, n) \subseteq Names
  <2> SUFFICES ASSUME NEW f \in ListedBelow(lv, n)
               PROVE  f \in Nat \X Nat
    BY DEF Names
  <2>1. PICK l \in 1..Len(lv) : \E j \in 1..Len(lv[l]) : f = <<lv[l][j], l - 1>>
    BY <1>3
  <2>2. PICK j \in 1..Len(lv[l]) : f = <<lv[l][j], l - 1>>
    BY <2>1
  <2> QED BY <1>2, <1>4, <2>2
<1> QED BY <1>3, <1>5

\* The files a level manager knows are those some level lists.
LEMMA ListedAllMember ==
  ASSUME NEW lv \in Seq(Seq(Nat))
  PROVE  /\ \A f : f \in Listed(lv) <=>
              \E l \in 1..Len(lv) : \E j \in 1..Len(lv[l]) : f = <<lv[l][j], l - 1>>
         /\ Listed(lv) \subseteq Names
<1>1. Len(lv) \in Nat /\ \A l \in 1..Len(lv) : l <= Len(lv)
  OBVIOUS
<1>2. \A f : f \in ListedBelow(lv, Len(lv)) <=>
        \E l \in 1..Len(lv) : l <= Len(lv) /\ \E j \in 1..Len(lv[l]) : f = <<lv[l][j], l - 1>>
  BY <1>1, ListedMember
<1>3. ListedBelow(lv, Len(lv)) \subseteq Names
  BY <1>1, ListedMember
<1> QED BY <1>1, <1>2, <1>3 DEF Listed

\* What load_state rebuilds are lists of indices, with at least one level.
LEMMA LoadedLevelsType ==
  ASSUME NEW files, files \subseteq Names, IsFiniteSet(files), NEW lv \in LoadedLevels(files)
  PROVE  /\ lv \in Seq(Seq(Nat)) /\ lv # <<>>
         /\ \A l \in 1..Len(lv) : lv[l] \in SortedLists(IndicesAt(files, l - 1))
         /\ \A f \in files : f[2] < Len(lv)
<1> DEFINE lists(depth) == [l \in 1..depth |-> SortedLists(IndicesAt(files, l - 1))]
<1>1. PICK depth \in {f[2] + 1 : f \in files} \cup {1} :
        /\ \A f \in files : f[2] < depth
        /\ lv \in [1..depth -> UNION {lists(depth)[l] : l \in 1..depth}]
        /\ \A l \in 1..depth : lv[l] \in lists(depth)[l]
  BY DEF LoadedLevels, Depths
<1>2. depth \in Nat \ {0}
  BY DEF Names
<1>3. \A l \in 1..depth : lv[l] \in SortedLists(IndicesAt(files, l - 1))
  BY <1>1
<1>4. \A l \in 1..depth : lv[l] \in Seq(Nat)
  <2>1. SUFFICES ASSUME NEW l \in 1..depth
                 PROVE  lv[l] \in Seq(Nat)
    OBVIOUS
  <2> DEFINE S == IndicesAt(files, l - 1)
  <2>2. S \subseteq Nat
    BY DEF IndicesAt, Names
  <2>3. IsFiniteSet(S)
    <3>1. IsFiniteSet({g \in files : g[2] = l - 1})
      BY FS_Subset
    <3> DEFINE there == {g \in files : g[2] = l - 1}
               proj == [g \in there |-> g[1]]
    <3>2. proj \in Surjection(there, S)
      BY DEF IndicesAt, Surjection
    <3> QED BY <3>1, <3>2, FS_Surjection
  <2>4. Cardinality(S) \in Nat
    BY <2>3, FS_CardinalityType
  <2>5. lv[l] \in [1..Cardinality(S) -> S]
    BY <1>3 DEF SortedLists
  <2> QED BY <2>2, <2>4, <2>5
<1>5. lv \in Seq(Seq(Nat)) /\ Len(lv) = depth
  <2> DEFINE T == UNION {lists(depth)[l] : l \in 1..depth}
  <2>1. lv \in [1..depth -> T]
    BY <1>1
  <2> HIDE DEF T
  <2>2. lv \in [1..depth -> Seq(Nat)]
    BY <2>1, <1>4
  <2> QED BY <1>2, <2>2
<1> QED BY <1>1, <1>2, <1>3, <1>5

\* A cascaded merge reads listed files and writes to a name.
LEMMA CascadedMergesType ==
  ASSUME levels \in Seq(Seq(Nat)), NEW m \in CascadedMerges
  PROVE  /\ m \in MergeOps
         /\ Len(levels[1]) \in Nat \ {0}
         /\ \E n \in 1..Len(levels) :
              m = [srcs |-> ListedBelow(levels, n), whole |-> n, dst |-> <<Back(1), n>>]
<1>1. PICK n \in 1..Len(levels) : ShouldMergeLevel(0, FALSE) /\ m = CascadedMerge(n)
  BY DEF CascadedMerges
<1>2. levels[1] \in Seq(Nat) /\ Len(levels[1]) >= MaxLevelCount
  BY <1>1 DEF ShouldMergeLevel
<1>3. Len(levels[1]) \in Nat \ {0}
  BY <1>2, ConfigAssumption
<1>4. Back(1) \in Nat
  BY <1>2, <1>3 DEF Back
<1>5. ListedBelow(levels, n) \subseteq Names
  BY ListedMember
<1>6. m = [srcs |-> ListedBelow(levels, n), whole |-> n, dst |-> <<Back(1), n>>]
  BY <1>1 DEF CascadedMerge
<1>7. <<Back(1), n>> \in Names /\ n \in Nat
  BY <1>4 DEF Names
<1>8. m \in MergeOps
  BY <1>5, <1>6, <1>7 DEF MergeOps
<1> QED BY <1>3, <1>6, <1>8

\* A full merge reads listed files and writes to a name.
LEMMA FullMergesType ==
  ASSUME levels \in Seq(Seq(Nat)), NEW m \in FullMerges
  PROVE  /\ m \in MergeOps
         /\ \E k \in 1..Len(levels) :
              /\ Len(levels[k]) \in Nat \ {0}
              /\ \A l \in 1..(k - 1) : levels[l] = <<>>
              /\ m = [srcs |-> Listed(levels), whole |-> Len(levels),
                      dst |-> <<Back(k) + (IF k = Len(levels) THEN 1 ELSE 0), Len(levels) - 1>>]
<1>1. PICK k \in 1..Len(levels) :
        levels[k] # <<>> /\ (\A l \in 1..(k - 1) : levels[l] = <<>>) /\ m = FullMerge(k)
  <2>1. DOMAIN levels = 1..Len(levels)
    OBVIOUS
  <2>2. PICK k \in {l \in DOMAIN levels :
                     CanMergeAll /\ levels[l] # <<>> /\ \A i \in 1..(l - 1) : levels[i] = <<>>} :
          m = FullMerge(k)
    BY DEF FullMerges
  <2> QED BY <2>1, <2>2
<1>2. levels[k] \in Seq(Nat)
  OBVIOUS
<1>3. Len(levels[k]) \in Nat \ {0}
  BY <1>1, <1>2, EmptySeq
<1>4. Back(k) \in Nat
  BY <1>2, <1>3 DEF Back
<1>5. Listed(levels) \subseteq Names
  BY ListedAllMember
<1>6. Len(levels) \in Nat /\ Len(levels) - 1 \in Nat
  OBVIOUS
<1> DEFINE dst == <<Back(k) + (IF k = Len(levels) THEN 1 ELSE 0), Len(levels) - 1>>
<1>7. m = [srcs |-> Listed(levels), whole |-> Len(levels), dst |-> dst]
  BY <1>1 DEF FullMerge
<1>8. dst \in Names
  BY <1>4, <1>6 DEF Names
<1> HIDE DEF dst
<1>9. m \in MergeOps
  BY <1>5, <1>6, <1>7, <1>8 DEF MergeOps
<1> QED BY <1>1, <1>3, <1>7, <1>9 DEF dst

\* So does whichever merge the current call may choose.
LEMMA MergesType ==
  ASSUME levels \in Seq(Seq(Nat))
  PROVE  Merges \subseteq MergeOps
BY CascadedMergesType, FullMergesType DEF Merges

\* apply_merge_operation leaves lists of indices, with at least one level.
LEMMA AppliedMergeType ==
  ASSUME levels \in Seq(Seq(Nat)), NEW m \in MergeOps
  PROVE  /\ AppliedMerge(m) \in Seq(Seq(Nat)) /\ AppliedMerge(m) # <<>>
         /\ Len(AppliedMerge(m)) =
              IF m.dst[2] < Len(levels) THEN Len(levels) ELSE m.dst[2] + 1
<1> DEFINE n == IF m.dst[2] < Len(levels) THEN Len(levels) ELSE m.dst[2] + 1
           kept(l) == IF l <= m.whole \/ l > Len(levels) THEN <<>> ELSE levels[l]
           there(l) == IF l = m.dst[2] + 1 THEN Append(kept(l), m.dst[1]) ELSE kept(l)
<1>1. m.dst[1] \in Nat /\ m.dst[2] \in Nat /\ m.whole \in Nat /\ Len(levels) \in Nat
  BY DEF MergeOps, Names
<1>2. n \in Nat \ {0}
  BY <1>1
<1>3. ASSUME NEW l \in 1..n PROVE there(l) \in Seq(Nat)
  <2>1. kept(l) \in Seq(Nat)
    <3>1. CASE l <= m.whole \/ l > Len(levels)
      BY <3>1
    <3>2. CASE l <= Len(levels)
      BY <3>2, <1>1, <1>2
    <3> QED BY <3>1, <3>2, <1>1, <1>2
  <2> QED BY <2>1, <1>1
<1>4. AppliedMerge(m) = [l \in 1..n |-> there(l)]
  BY DEF AppliedMerge
<1> HIDE DEF n, there
<1>5. [l \in 1..n |-> there(l)] \in Seq(Seq(Nat)) /\ Len([l \in 1..n |-> there(l)]) = n
  BY <1>2, <1>3
<1>6. AppliedMerge(m) # <<>>
  <2>1. Len(AppliedMerge(m)) # 0
    BY <1>2, <1>4, <1>5
  <2> QED BY <2>1
<1> QED BY <1>4, <1>5, <1>6 DEF n

-----------------------------------------------------------------------------
(* Type correctness. *)

\* The database starts in a state of the right shape.
LEMMA InitType == Init => TypeOK
<1> SUFFICES ASSUME Init PROVE TypeOK
  OBVIOUS
<1>1. DOMAIN disk = {} /\ disk \in [{} -> Contents]
  BY DEF Init
<1>2. IsFiniteSet({})
  BY FS_EmptySet
<1>3. <<>> \in Seq(Seq(Nat))
  OBVIOUS
<1>4. merge \in [srcs : SUBSET Names, whole : Nat, dst : Names]
  BY DEF Init, NoMerge, Names
<1> QED BY <1>1, <1>2, <1>3, <1>4 DEF Init, TypeOK

\* What a call to Load makes of well-formed files.
LEMMA LoadType ==
  ASSUME NEW files, DOMAIN files \subseteq Names, IsFiniteSet(DOMAIN files),
         files \in [DOMAIN files -> Contents], Load(files)
  PROVE  /\ disk' = files /\ readers' = DOMAIN files
         /\ levels' \in Seq(Seq(Nat)) /\ levels' # <<>>
         /\ nextIndex' \in Nat
<1>1. levels' \in LoadedLevels(DOMAIN files)
  BY DEF Load
<1>2. levels' \in Seq(Seq(Nat)) /\ levels' # <<>>
  BY <1>1, LoadedLevelsType
<1>3. nextIndex' \in {f[1] + 1 : f \in DOMAIN files} \cup {0}
  BY DEF Load, LoadedNextIndex
<1>4. nextIndex' \in Nat
  BY <1>3 DEF Names
<1> QED BY <1>2, <1>4 DEF Load

\* open keeps TypeOK.
LEMMA OpenType == ASSUME TypeOK, NEW mode, Open(mode) PROVE TypeOK'
<1> DEFINE none == [f \in {} |-> Zeroed]
           files == IF dir /\ mode.delete_if_exists THEN none ELSE disk
<1>1. Load(files)
  BY DEF Open
<1>2. DOMAIN none = {} /\ none \in [{} -> Contents] /\ IsFiniteSet({})
  BY FS_EmptySet
<1>3. /\ DOMAIN files \subseteq Names /\ IsFiniteSet(DOMAIN files)
      /\ files \in [DOMAIN files -> Contents]
  BY <1>2 DEF TypeOK
<1> HIDE DEF files
<1>4. /\ disk' = files /\ readers' = DOMAIN files
      /\ levels' \in Seq(Seq(Nat)) /\ levels' # <<>>
      /\ nextIndex' \in Nat
  BY <1>1, <1>3, LoadType
<1>5. /\ dir' = TRUE /\ pc = "closed" /\ pc' = "idle"
      /\ UNCHANGED <<buffer, bufSize, merge, todo, call, added>>
  BY DEF Open
<1>6. durable' \subseteq Nat /\ torn' \in Nat
  BY DEF Open, TypeOK
<1> QED BY <1>3, <1>4, <1>5, <1>6 DEF TypeOK

\* Losing the memory of the process keeps TypeOK.
LEMMA ForgetType ==
  ASSUME TypeOK, Forget, UNCHANGED <<dir, disk, added, durable>>, torn' \in Nat
  PROVE  TypeOK'
<1>1. <<>> \in Seq(Seq(Nat)) /\ NoMerge \in [srcs : SUBSET Names, whole : Nat, dst : Names]
  BY DEF NoMerge, Names
<1> QED BY <1>1 DEF TypeOK, Forget

\* The start of flush_buffer keeps what TypeOK says of files and memory.
LEMMA StartFlushType ==
  ASSUME TypeOK, NEW size, NEW kind \in {"flush", "compact"}, StartFlush(size, kind)
  PROVE  /\ DOMAIN disk' \subseteq Names /\ IsFiniteSet(DOMAIN disk')
         /\ disk' \in [DOMAIN disk' -> Contents] /\ DOMAIN disk \subseteq DOMAIN disk'
         /\ pc' \in {"writing", "planning"} /\ call' = kind
<1>1. <<nextIndex, 0>> \in Names /\ Zeroed \in Contents
  BY DEF TypeOK, Names, Zeroed, Contents
<1> DEFINE d == Put(disk, <<nextIndex, 0>>, Zeroed)
<1>2. /\ DOMAIN d = DOMAIN disk \cup {<<nextIndex, 0>>}
      /\ DOMAIN d \subseteq Names /\ IsFiniteSet(DOMAIN d)
      /\ d \in [DOMAIN d -> Contents]
  BY <1>1, PutType DEF TypeOK
<1>3. disk' = d \/ disk' = disk
  BY DEF StartFlush
<1> HIDE DEF d
<1>4. /\ DOMAIN disk' \subseteq Names /\ IsFiniteSet(DOMAIN disk')
      /\ disk' \in [DOMAIN disk' -> Contents] /\ DOMAIN disk \subseteq DOMAIN disk'
  BY <1>2, <1>3 DEF TypeOK
<1> QED BY <1>4 DEF StartFlush

\* add keeps TypeOK.
LEMMA AddType == ASSUME TypeOK, NEW size \in EntrySizes, Add(size) PROVE TypeOK'
<1>1. size \in Nat
  BY ConfigAssumption
<1>2. /\ added' = added + 1 /\ buffer' = buffer \cup {added} /\ bufSize' = bufSize + size
      /\ UNCHANGED <<dir, readers, levels, nextIndex, merge, todo, durable, torn>>
  BY DEF Add
<1>3. added' \in Nat /\ buffer' \subseteq Nat /\ bufSize' \in Nat
  BY <1>1, <1>2 DEF TypeOK
<1>4. CASE StartFlush(bufSize + size, "flush")
  <2>1. /\ DOMAIN disk' \subseteq Names /\ IsFiniteSet(DOMAIN disk')
        /\ disk' \in [DOMAIN disk' -> Contents] /\ DOMAIN disk \subseteq DOMAIN disk'
        /\ pc' \in {"writing", "planning"} /\ call' = "flush"
    BY <1>4, StartFlushType
  <2>2. pc = "idle"
    BY DEF Add
  <2> QED BY <1>2, <1>3, <2>1, <2>2 DEF TypeOK, Steps
<1>5. CASE UNCHANGED <<disk, pc, call>>
  <2>1. pc = "idle"
    BY DEF Add
  <2> QED BY <1>2, <1>3, <1>5, <2>1 DEF TypeOK
<1> QED BY <1>4, <1>5 DEF Add

\* flush and compact keep TypeOK.
LEMMA FlushType == ASSUME TypeOK, Flush \/ Compact PROVE TypeOK'
<1>1. pc = "idle" /\ UNCHANGED <<dir, memory, ghosts>>
  BY DEF Flush, Compact
<1>2. PICK kind \in {"flush", "compact"} : StartFlush(bufSize, kind)
  BY DEF Flush, Compact
<1>3. /\ DOMAIN disk' \subseteq Names /\ IsFiniteSet(DOMAIN disk')
      /\ disk' \in [DOMAIN disk' -> Contents] /\ DOMAIN disk \subseteq DOMAIN disk'
      /\ pc' \in {"writing", "planning"} /\ call' = kind
  BY <1>2, StartFlushType
<1> QED BY <1>1, <1>3 DEF TypeOK, Steps, memory, ghosts

\* The rest of flush_buffer keeps TypeOK.
LEMMA WriteFlushType == ASSUME TypeOK, WriteFlush PROVE TypeOK'
<1>1. <<nextIndex, 0>> \in Names /\ Written(buffer) \in Contents
  BY DEF TypeOK, Names, Written, Contents
<1>2. /\ DOMAIN disk' = DOMAIN disk \cup {<<nextIndex, 0>>}
      /\ DOMAIN disk' \subseteq Names /\ IsFiniteSet(DOMAIN disk')
      /\ disk' \in [DOMAIN disk' -> Contents]
  BY <1>1, PutType DEF TypeOK, WriteFlush
<1>3. levels' \in Seq(Seq(Nat)) /\ levels' # <<>>
  <2>1. levels \in Seq(Seq(Nat)) /\ levels # <<>> /\ nextIndex \in Nat
    BY DEF TypeOK, WriteFlush
  <2>2. 1 \in DOMAIN levels /\ levels[1] \in Seq(Nat)
    BY <2>1, EmptySeq
  <2>3. Append(levels[1], nextIndex) \in Seq(Nat)
    BY <2>1, <2>2
  <2>4. levels' = [levels EXCEPT ![1] = Append(levels[1], nextIndex)]
    BY DEF WriteFlush
  <2>5. Len(levels') = Len(levels)
    BY <2>1, <2>4
  <2> QED BY <2>1, <2>2, <2>3, <2>4, <2>5, EmptySeq
<1>4. readers' \subseteq DOMAIN disk'
  <2>1. readers' = readers \cup {<<nextIndex, 0>>} /\ readers \subseteq DOMAIN disk
    BY DEF TypeOK, WriteFlush
  <2> QED BY <1>2, <2>1
<1>5. nextIndex' \in Nat /\ durable' \subseteq Nat
  BY DEF TypeOK, WriteFlush
<1> QED BY <1>2, <1>3, <1>4, <1>5 DEF TypeOK, WriteFlush, Steps

\* Starting a merge keeps TypeOK.
LEMMA PlanMergeType == ASSUME TypeOK, PlanMerge PROVE TypeOK'
<1>1. PICK m \in Merges :
        m.srcs \subseteq readers /\ merge' = m /\ disk' = Put(disk, m.dst, Zeroed)
  BY DEF PlanMerge
<1>2. m \in MergeOps
  BY MergesType DEF TypeOK
<1>3. m.dst \in Names /\ Zeroed \in Contents
  BY <1>2 DEF MergeOps, Zeroed, Contents
<1>4. /\ DOMAIN disk' = DOMAIN disk \cup {m.dst}
      /\ DOMAIN disk' \subseteq Names /\ IsFiniteSet(DOMAIN disk')
      /\ disk' \in [DOMAIN disk' -> Contents]
  BY <1>1, <1>3, PutType DEF TypeOK
<1>5. /\ merge' \in [srcs : SUBSET Names, whole : Nat, dst : Names]
      /\ merge'.srcs \subseteq readers
  BY <1>1, <1>2 DEF MergeOps
<1> QED BY <1>4, <1>5 DEF TypeOK, PlanMerge, Steps, ghosts

\* Finishing a merge's target keeps TypeOK.
LEMMA WriteMergeType == ASSUME TypeOK, WriteMerge PROVE TypeOK'
<1> DEFINE ids == UNION {disk[f].ids : f \in merge.srcs}
<1>1. /\ merge \in MergeOps /\ merge.dst \in Names /\ merge.dst[1] \in Nat
      /\ merge.srcs \subseteq DOMAIN disk /\ merge.srcs \subseteq Names
  BY DEF TypeOK, WriteMerge, MergeOps, Names
<1>2. Written(ids) \in Contents
  <2>1. ASSUME NEW f \in merge.srcs PROVE disk[f].ids \subseteq Nat
    BY <1>1 DEF TypeOK, Contents
  <2> QED BY <2>1 DEF Written, Contents
<1> HIDE DEF ids
<1>3. disk' = Put(disk, merge.dst, Written(ids))
  BY DEF WriteMerge, ids
<1>4. /\ DOMAIN disk' = DOMAIN disk \cup {merge.dst}
      /\ DOMAIN disk' \subseteq Names /\ IsFiniteSet(DOMAIN disk')
      /\ disk' \in [DOMAIN disk' -> Contents]
  BY <1>1, <1>2, <1>3, PutType DEF TypeOK
<1>5. levels' \in Seq(Seq(Nat)) /\ levels' # <<>>
  <2>1. levels' = AppliedMerge(merge) /\ levels \in Seq(Seq(Nat))
    BY DEF TypeOK, WriteMerge
  <2> QED BY <1>1, <2>1, AppliedMergeType
<1>6. nextIndex' \in Nat
  BY <1>1 DEF WriteMerge, NextIndexAfter
<1>7. readers' = readers \cup {merge.dst} /\ todo' = merge.srcs
  BY DEF WriteMerge
<1>8. readers' \subseteq DOMAIN disk' /\ todo' \subseteq Names
  BY <1>1, <1>4, <1>7 DEF TypeOK
<1> QED BY <1>4, <1>5, <1>6, <1>8 DEF TypeOK, WriteMerge, Steps, ghosts

\* Removing a merged file keeps TypeOK.
LEMMA RemoveSourceType == ASSUME TypeOK, RemoveSource PROVE TypeOK'
<1>1. PICK f \in todo : readers' = readers \ {f} /\ disk' = Remove(disk, f) /\ todo' = todo \ {f}
  BY DEF RemoveSource
<1>2. /\ DOMAIN disk' = DOMAIN disk \ {f}
      /\ DOMAIN disk' \subseteq Names /\ IsFiniteSet(DOMAIN disk')
      /\ disk' \in [DOMAIN disk' -> Contents]
  BY <1>1, RemoveType DEF TypeOK
<1>3. readers' \subseteq DOMAIN disk' /\ todo' \subseteq Names
  BY <1>1, <1>2 DEF TypeOK
<1>4. /\ pc = "removing" /\ UNCHANGED <<dir, levels, nextIndex, buffer, bufSize, ghosts>>
      /\ \/ pc' = "idle" /\ call' = "none" /\ merge' = NoMerge
         \/ UNCHANGED <<pc, call, merge>>
  BY DEF RemoveSource, Return
<1>5. NoMerge \in [srcs : SUBSET Names, whole : Nat, dst : Names]
  BY DEF NoMerge, Names
<1> QED BY <1>2, <1>3, <1>4, <1>5 DEF TypeOK, ghosts

\* An exception that ends a call keeps TypeOK.
LEMMA AbandonType ==
  ASSUME TypeOK, Abandon, pc \in ThrowPoints, readers' \subseteq readers, torn' \in Nat
  PROVE  TypeOK'
<1>1. NoMerge \in [srcs : SUBSET Names, whole : Nat, dst : Names]
  BY DEF NoMerge, Names
<1>2. pc # "closed"
  BY ConfigAssumption DEF Steps
<1> QED BY <1>1, <1>2 DEF TypeOK, Abandon, Return

\* One step at a time.
LEMMA TypeStep == ASSUME TypeOK, [Next]_vars PROVE TypeOK'
<1>1. CASE \E mode \in OpenModes : Open(mode)
  BY <1>1, OpenType
<1>2. CASE \E size \in EntrySizes : Add(size)
  BY <1>2, AddType
<1>3. CASE Flush \/ Compact
  BY <1>3, FlushType
<1>4. CASE Exit \/ Crash \/ PlanFaults \/ MergeFaults
  BY <1>4, ForgetType DEF Exit, Crash, PlanFaults, MergeFaults, ghosts, TypeOK
<1>5. CASE CrashRemoving
  <2>1. torn' \in Nat
    BY <1>5 DEF CrashRemoving, TypeOK
  <2> QED BY <1>5, <2>1, ForgetType DEF CrashRemoving
<1>6. CASE WriteFlush
  BY <1>6, WriteFlushType
<1>7. CASE PlanNothing
  BY <1>7 DEF PlanNothing, Return, TypeOK, memory, ghosts
<1>8. CASE PlanMerge
  BY <1>8, PlanMergeType
<1>9. CASE WriteMerge
  BY <1>9, WriteMergeType
<1>10. CASE RemoveSource
  BY <1>10, RemoveSourceType
<1>11. CASE WriteThrows
  BY <1>11, AbandonType DEF WriteThrows, TypeOK
<1>12. CASE RemoveThrows
  <2>1. torn' \in Nat
    BY <1>12 DEF RemoveThrows, TypeOK
  <2>2. readers' \subseteq readers
    BY <1>12 DEF RemoveThrows
  <2> QED BY <1>12, <2>1, <2>2, AbandonType DEF RemoveThrows
<1>13. CASE UNCHANGED vars
  BY <1>13 DEF TypeOK, vars, memory, ghosts
<1> QED BY <1>1, <1>2, <1>3, <1>4, <1>5, <1>6, <1>7, <1>8, <1>9, <1>10, <1>11, <1>12, <1>13
        DEF Next, Step

\* Every state of every behaviour is well-formed.
THEOREM TypeCorrect == Spec => []TypeOK
<1>1. Init => TypeOK
  BY InitType
<1>2. TypeOK /\ [Next]_vars => TypeOK'
  BY TypeStep
<1> QED BY <1>1, <1>2, PTL DEF Spec

-----------------------------------------------------------------------------
(* What the level manager's lists say of the files, before and after a merge. *)

\* The elements of a list, and whether they ascend.
Elems(s) == {s[j] : j \in 1..Len(s)}
Increasing(s) == \A j, k \in 1..Len(s) : j < k => s[j] < s[k]

\* Appending an index adds it to the elements of a list.
LEMMA AppendElems ==
  ASSUME NEW s \in Seq(Nat), NEW i \in Nat
  PROVE  /\ Append(s, i) \in Seq(Nat)
         /\ Elems(Append(s, i)) = Elems(s) \cup {i}
         /\ Increasing(s) /\ (\A x \in Elems(s) : x < i) => Increasing(Append(s, i))
<1> DEFINE t == Append(s, i)
<1>1. /\ Len(s) \in Nat /\ t \in Seq(Nat) /\ Len(t) = Len(s) + 1
      /\ (\A j \in 1..Len(s) : t[j] = s[j])
      /\ t[Len(s) + 1] = i
  OBVIOUS
<1> HIDE DEF t
<1>2. \A j : j \in 1..Len(t) <=> j \in 1..Len(s) \/ j = Len(s) + 1
  BY <1>1
<1>3. Elems(t) = Elems(s) \cup {i}
  BY <1>1, <1>2 DEF Elems
<1>4. ASSUME Increasing(s), \A x \in Elems(s) : x < i PROVE Increasing(t)
  <2>1. \A j \in 1..Len(s) : s[j] < i
    BY <1>4 DEF Elems
  <2> SUFFICES ASSUME NEW j \in 1..Len(t), NEW k \in 1..Len(t), j < k
               PROVE  t[j] < t[k]
    BY DEF Increasing
  <2>2. j \in 1..Len(s)
    BY <1>1
  <2>3. CASE k \in 1..Len(s)
    BY <1>1, <1>4, <2>2, <2>3 DEF Increasing
  <2>4. CASE k = Len(s) + 1
    BY <1>1, <2>1, <2>2, <2>4
  <2> QED BY <1>2, <2>3, <2>4
<1> QED BY <1>1, <1>3, <1>4 DEF t

\* The elements of a list of indices are indices.
LEMMA ElemsNat == ASSUME NEW s \in Seq(Nat) PROVE Elems(s) \subseteq Nat
<1>1. \A j \in 1..Len(s) : s[j] \in Nat
  OBVIOUS
<1> QED BY <1>1 DEF Elems

\* The empty list has no elements and is increasing.
LEMMA EmptyElems == Elems(<<>>) = {} /\ Increasing(<<>>)
BY DEF Elems, Increasing

\* Which files the lists name, in terms of their elements.
LEMMA ListedElems ==
  ASSUME NEW lv \in Seq(Seq(Nat))
  PROVE  /\ Listed(lv) \subseteq Names
         /\ \A i, l \in Nat : <<i, l>> \in Listed(lv) <=> l < Len(lv) /\ i \in Elems(lv[l + 1])
<1>1. Listed(lv) \subseteq Names
  BY ListedAllMember
<1>2. ASSUME NEW i \in Nat, NEW l \in Nat
      PROVE  <<i, l>> \in Listed(lv) <=> l < Len(lv) /\ i \in Elems(lv[l + 1])
  <2>1. <<i, l>> \in Listed(lv) <=>
          \E m \in 1..Len(lv) : \E j \in 1..Len(lv[m]) : <<i, l>> = <<lv[m][j], m - 1>>
    BY ListedAllMember
  <2>2. <<i, l>> \in Listed(lv) <=>
          \E m \in 1..Len(lv) : \E j \in 1..Len(lv[m]) : i = lv[m][j] /\ l = m - 1
    BY <2>1
  <2>3. <<i, l>> \in Listed(lv) <=> \E m \in 1..Len(lv) : i \in Elems(lv[m]) /\ l = m - 1
    BY <2>2 DEF Elems
  <2>4. Len(lv) \in Nat
    OBVIOUS
  <2>5. l < Len(lv) <=> l + 1 \in 1..Len(lv)
    BY <2>4
  <2>6. \A m \in 1..Len(lv) : l = m - 1 <=> m = l + 1
    BY <2>4
  <2> QED BY <2>3, <2>5, <2>6
<1> QED BY <1>1, <1>2

\* The files below a level, by the elements of the lists of its lower levels.
LEMMA ListedBelowElems ==
  ASSUME NEW lv \in Seq(Seq(Nat)), NEW n \in 1..Len(lv)
  PROVE  \A i, l \in Nat :
           <<i, l>> \in ListedBelow(lv, n) <=> l < n /\ <<i, l>> \in Listed(lv)
<1>0. n \in Nat /\ Len(lv) \in Nat
  OBVIOUS
<1> SUFFICES ASSUME NEW i \in Nat, NEW l \in Nat
             PROVE  <<i, l>> \in ListedBelow(lv, n) <=> l < n /\ <<i, l>> \in Listed(lv)
  OBVIOUS
<1> DEFINE B == ListedBelow(lv, n)
<1>a. \A f : f \in B <=> \E m \in 1..Len(lv) : m <= n /\ \E j \in 1..Len(lv[m]) : f = <<lv[m][j], m - 1>>
  BY <1>0, ListedMember
<1> HIDE DEF B
<1>1. <<i, l>> \in ListedBelow(lv, n) <=>
        \E m \in 1..Len(lv) : m <= n /\ \E j \in 1..Len(lv[m]) : <<i, l>> = <<lv[m][j], m - 1>>
  BY <1>a DEF B
<1>2. <<i, l>> \in ListedBelow(lv, n) <=>
        \E m \in 1..Len(lv) : m <= n /\ i \in Elems(lv[m]) /\ l = m - 1
  BY <1>1 DEF Elems
<1>3. \A m \in 1..Len(lv) : l = m - 1 <=> m = l + 1
  BY <1>0
<1>4. <<i, l>> \in ListedBelow(lv, n) <=> l + 1 \in 1..Len(lv) /\ l + 1 <= n /\ i \in Elems(lv[l + 1])
  BY <1>2, <1>3
<1>5. /\ l < Len(lv) <=> l + 1 \in 1..Len(lv)
      /\ l < n <=> l + 1 <= n
  BY <1>0
<1> QED BY <1>4, <1>5, ListedElems

\* All levels ascend exactly if each list is increasing.
LEMMA AscendingElems ==
  ASSUME NEW lv \in Seq(Seq(Nat))
  PROVE  Ascending(lv) <=> \A l \in 1..Len(lv) : Increasing(lv[l])
<1>1. DOMAIN lv = 1..Len(lv) /\ \A l \in 1..Len(lv) : DOMAIN lv[l] = 1..Len(lv[l])
  OBVIOUS
<1> QED BY <1>1 DEF Ascending, Increasing

\* Sets of names that have the same pairs are equal.
LEMMA NamesEqual ==
  ASSUME NEW S, NEW T, S \subseteq Names, T \subseteq Names,
         \A i, l \in Nat : <<i, l>> \in S <=> <<i, l>> \in T
  PROVE  S = T
<1>1. \A f \in Names : f = <<f[1], f[2]>> /\ f[1] \in Nat /\ f[2] \in Nat
  BY DEF Names
<1>2. \A f \in Names : f \in S <=> f \in T
  BY <1>1
<1> QED BY <1>2

\* load_state lists exactly the files it is given, each level in ascending order.
LEMMA LoadedListing ==
  ASSUME NEW files, files \subseteq Names, IsFiniteSet(files), NEW lv \in LoadedLevels(files)
  PROVE  Listed(lv) = files /\ Ascending(lv)
<1>1. /\ lv \in Seq(Seq(Nat))
      /\ \A l \in 1..Len(lv) : lv[l] \in SortedLists(IndicesAt(files, l - 1))
      /\ \A f \in files : f[2] < Len(lv)
  BY LoadedLevelsType
<1>2. ASSUME NEW l \in 1..Len(lv)
      PROVE  Increasing(lv[l]) /\ Elems(lv[l]) = IndicesAt(files, l - 1)
  <2> DEFINE S == IndicesAt(files, l - 1)
             n == Cardinality(S)
             s == lv[l]
  <2>1. s \in SortedLists(S)
    BY <1>1
  <2>2. /\ s \in [1..n -> S]
        /\ \A i, j \in 1..n : i < j => s[i] < s[j]
        /\ \A x \in S : \E i \in 1..n : s[i] = x
    BY <2>1 DEF SortedLists
  <2>3. DOMAIN s = 1..Len(s)
    BY <1>1
  <2> HIDE DEF S, n, s
  <2>4. 1..n = 1..Len(s)
    BY <2>2, <2>3
  <2>5. Increasing(s)
    BY <2>2, <2>4 DEF Increasing
  <2>6. Elems(s) = S
    BY <2>2, <2>4 DEF Elems
  <2> QED BY <2>5, <2>6 DEF s, S
<1>3. Ascending(lv)
  BY <1>1, <1>2, AscendingElems
<1>4. ASSUME NEW i \in Nat, NEW l \in Nat PROVE <<i, l>> \in Listed(lv) <=> <<i, l>> \in files
  <2>1. l < Len(lv) <=> l + 1 \in 1..Len(lv)
    BY <1>1
  <2>2. \A x : x \in IndicesAt(files, l) <=> \E f \in files : f[2] = l /\ f[1] = x
    BY DEF IndicesAt
  <2>3. i \in IndicesAt(files, l) <=> <<i, l>> \in files
    <3>1. \A f \in files : f[2] = l /\ f[1] = i <=> f = <<i, l>>
      BY DEF Names
    <3> QED BY <2>2, <3>1
  <2>4. <<i, l>> \in files => l < Len(lv)
    BY <1>1
  <2>5. l < Len(lv) => Elems(lv[l + 1]) = IndicesAt(files, l)
    <3>1. l + 1 - 1 = l
      OBVIOUS
    <3> QED BY <1>2, <2>1, <3>1
  <2> QED BY <1>1, <2>3, <2>4, <2>5, ListedElems
<1>5. Listed(lv) = files
  BY <1>1, <1>4, ListedElems, NamesEqual
<1> QED BY <1>3, <1>5

\* Appending to one list adds one file.
LEMMA AppendListed ==
  ASSUME NEW lv \in Seq(Seq(Nat)), NEW n \in 1..Len(lv), NEW i \in Nat,
         NEW lw \in Seq(Seq(Nat)), Len(lw) = Len(lv), lw[n] = Append(lv[n], i),
         \A k \in 1..Len(lv) : k # n => lw[k] = lv[k]
  PROVE  /\ Listed(lw) = Listed(lv) \cup {<<i, n - 1>>}
         /\ Ascending(lv) /\ (\A f \in Listed(lv) : f[1] < i) => Ascending(lw)
<1>1. lv[n] \in Seq(Nat) /\ Len(lv) \in Nat /\ n - 1 \in Nat
  OBVIOUS
<1>2. /\ Elems(lw[n]) = Elems(lv[n]) \cup {i}
      /\ Increasing(lv[n]) /\ (\A x \in Elems(lv[n]) : x < i) => Increasing(lw[n])
  BY <1>1, AppendElems
<1>3. ASSUME NEW x \in Nat, NEW l \in Nat
      PROVE  <<x, l>> \in Listed(lw) <=> <<x, l>> \in Listed(lv) \cup {<<i, n - 1>>}
  <2>1. CASE l + 1 = n
    <3>1. l = n - 1 /\ l < Len(lv)
      BY <1>1, <2>1
    <3>2. <<x, l>> \in Listed(lw) <=> x \in Elems(lv[n]) \cup {i}
      BY <1>2, <2>1, <3>1, ListedElems
    <3>3. <<x, l>> \in Listed(lv) <=> x \in Elems(lv[n])
      BY <2>1, <3>1, ListedElems
    <3> QED BY <3>1, <3>2, <3>3
  <2>2. CASE l + 1 # n
    <3>1. l # n - 1
      BY <1>1, <2>2
    <3>2. l < Len(lv) => lw[l + 1] = lv[l + 1]
      BY <1>1, <2>2
    <3>3. <<x, l>> \in Listed(lw) <=> <<x, l>> \in Listed(lv)
      BY <3>2, ListedElems
    <3> QED BY <3>1, <3>3
  <2> QED BY <2>1, <2>2
<1>4. Listed(lv) \cup {<<i, n - 1>>} \subseteq Names
  BY <1>1, ListedElems DEF Names
<1>5. Listed(lw) = Listed(lv) \cup {<<i, n - 1>>}
  <2> DEFINE S == Listed(lw)
             T == Listed(lv) \cup {<<i, n - 1>>}
  <2>1. S \subseteq Names /\ T \subseteq Names /\ \A x, l \in Nat : <<x, l>> \in S <=> <<x, l>> \in T
    BY <1>3, <1>4, ListedElems
  <2> HIDE DEF S, T
  <2>2. S = T
    BY <2>1, NamesEqual
  <2> QED BY <2>2 DEF S, T
<1>6. ASSUME Ascending(lv), \A f \in Listed(lv) : f[1] < i PROVE Ascending(lw)
  <2>1. \A l \in 1..Len(lv) : Increasing(lv[l])
    BY <1>6, AscendingElems
  <2>2. ASSUME NEW x \in Elems(lv[n]) PROVE x < i
    <3>1. x \in Nat
      BY <1>1, ElemsNat
    <3>2. n - 1 < Len(lv) /\ n - 1 + 1 = n
      BY <1>1
    <3>3. <<x, n - 1>> \in Listed(lv)
      BY <1>1, <3>1, <3>2, ListedElems
    <3> QED BY <1>6, <3>3
  <2>3. \A l \in 1..Len(lw) : Increasing(lw[l])
    BY <1>2, <2>1, <2>2
  <2> QED BY <2>3, AscendingElems
<1> QED BY <1>5, <1>6

\* The lists after a merge of the first whole levels: its sources are gone from
\* them and its target is there.
LEMMA AppliedMergeListed ==
  ASSUME levels \in Seq(Seq(Nat)), NEW m \in MergeOps,
         m.whole \in 1..Len(levels), m.srcs = ListedBelow(levels, m.whole)
  PROVE  /\ Listed(AppliedMerge(m)) = (Listed(levels) \ m.srcs) \cup {m.dst}
         /\ Ascending(levels) /\ (\A f \in Listed(levels) \ m.srcs : f[1] < m.dst[1])
              => Ascending(AppliedMerge(m))
<1> DEFINE lw == AppliedMerge(m)
           d1 == m.dst[1]
           d2 == m.dst[2]
           w == m.whole
           n == IF d2 < Len(levels) THEN Len(levels) ELSE d2 + 1
           kept(l) == IF l + 1 <= w \/ l + 1 > Len(levels) THEN <<>> ELSE levels[l + 1]
           rest == Listed(levels) \ m.srcs
<1>1. /\ d1 \in Nat /\ d2 \in Nat /\ w \in Nat /\ Len(levels) \in Nat /\ n \in Nat
      /\ m.dst = <<d1, d2>>
  BY DEF MergeOps, Names
<1>2. lw \in Seq(Seq(Nat)) /\ Len(lw) = n
  BY AppliedMergeType
<1>3. ASSUME NEW l \in Nat, l < n
      PROVE  lw[l + 1] = IF l = d2 THEN Append(kept(l), d1) ELSE kept(l)
  <2>1. l + 1 \in 1..n /\ (l + 1 = d2 + 1 <=> l = d2)
    <3> HIDE DEF n, d2
    <3> QED BY <1>1, <1>3
  <2> QED BY <2>1 DEF AppliedMerge
<1>4. \A i, l \in Nat : <<i, l>> \in rest <=> w <= l /\ <<i, l>> \in Listed(levels)
  <2>1. \A i, l \in Nat : <<i, l>> \in m.srcs <=> l < w /\ <<i, l>> \in Listed(levels)
    BY ListedBelowElems
  <2> HIDE DEF w
  <2> SUFFICES ASSUME NEW i \in Nat, NEW l \in Nat
               PROVE  <<i, l>> \in rest <=> w <= l /\ <<i, l>> \in Listed(levels)
    OBVIOUS
  <2>2. l < w <=> ~(w <= l)
    BY <1>1
  <2> QED BY <2>1, <2>2
<1>5. ASSUME NEW l \in Nat
      PROVE  /\ kept(l) \in Seq(Nat)
             /\ \A i \in Nat : i \in Elems(kept(l)) <=> <<i, l>> \in rest
  <2>1. CASE l + 1 <= w \/ l + 1 > Len(levels)
    <3>1. kept(l) = <<>> /\ ~(w <= l /\ l < Len(levels))
      BY <1>1, <2>1
    <3> HIDE DEF kept, w, rest
    <3>2. \A i \in Nat : <<i, l>> \notin rest
      BY <1>4, <3>1, ListedElems
    <3> QED BY <3>1, <3>2, EmptyElems
  <2>2. CASE ~(l + 1 <= w \/ l + 1 > Len(levels))
    <3>1. kept(l) = levels[l + 1] /\ w <= l /\ l < Len(levels) /\ l + 1 \in 1..Len(levels)
      BY <1>1, <2>2
    <3> HIDE DEF kept, w, rest
    <3>2. \A i \in Nat : <<i, l>> \in rest <=> i \in Elems(levels[l + 1])
      BY <1>4, <3>1, ListedElems
    <3> QED BY <3>1, <3>2
  <2> QED BY <2>1, <2>2
<1>6. \A i, l \in Nat : <<i, l>> \in rest => l < n
  <2>1. \A i, l \in Nat : <<i, l>> \in rest => l < Len(levels)
    BY <1>4, ListedElems
  <2> QED BY <1>1, <2>1
<1>7. d2 < n
  BY <1>1
<1> HIDE DEF lw, kept, n, rest, d1, d2, w
<1>8. ASSUME NEW i \in Nat, NEW l \in Nat
      PROVE  <<i, l>> \in Listed(lw) <=> <<i, l>> \in rest \cup {m.dst}
  <2>1. <<i, l>> \in Listed(lw) <=> l < n /\ i \in Elems(lw[l + 1])
    BY <1>2, ListedElems
  <2>a. <<i, l>> = m.dst <=> i = d1 /\ l = d2
    BY <1>1
  <2>b. i \in Elems(kept(l)) <=> <<i, l>> \in rest
    BY <1>5
  <2>2. CASE l = d2
    <3>1. Elems(lw[l + 1]) = Elems(kept(l)) \cup {d1}
      BY <1>1, <1>3, <1>5, <1>7, <2>2, AppendElems
    <3>2. <<i, l>> \in Listed(lw) <=> i \in Elems(kept(l)) \/ i = d1
      BY <1>7, <2>1, <2>2, <3>1
    <3> QED BY <2>a, <2>b, <2>2, <3>2
  <2>3. CASE l # d2
    <3>1. l < n => lw[l + 1] = kept(l)
      BY <1>3, <2>3
    <3> QED BY <1>6, <2>1, <2>a, <2>b, <2>3, <3>1
  <2> QED BY <2>2, <2>3
<1>9. Listed(lw) = rest \cup {m.dst}
  <2> DEFINE T == rest \cup {m.dst}
  <2>1. T \subseteq Names /\ Listed(lw) \subseteq Names
    BY <1>2, ListedElems DEF rest, MergeOps
  <2>2. \A i, l \in Nat : <<i, l>> \in Listed(lw) <=> <<i, l>> \in T
    BY <1>8
  <2> HIDE DEF T
  <2>3. Listed(lw) = T
    BY <2>1, <2>2, NamesEqual
  <2> QED BY <2>3 DEF T
<1>10. ASSUME Ascending(levels), \A f \in rest : f[1] < d1 PROVE Ascending(lw)
  <2>1. ASSUME NEW l \in Nat PROVE Increasing(kept(l)) /\ \A x \in Elems(kept(l)) : x < d1
    <3>1. Increasing(kept(l))
      <4>1. l + 1 <= Len(levels) => Increasing(levels[l + 1])
        BY <1>1, <1>10, AscendingElems
      <4> QED BY <1>1, <4>1, EmptyElems DEF kept
    <3>2. ASSUME NEW x \in Elems(kept(l)) PROVE x < d1
      <4>1. x \in Nat
        BY <1>5, ElemsNat
      <4>2. <<x, l>> \in rest
        BY <1>5, <4>1
      <4>3. <<x, l>>[1] < d1
        BY <1>10, <4>2
      <4> QED BY <4>3
    <3> QED BY <3>1, <3>2
  <2>2. ASSUME NEW k \in 1..Len(lw) PROVE Increasing(lw[k])
    <3>1. PICK l \in Nat : k = l + 1 /\ l < n
      <4>1. k - 1 \in Nat /\ k = (k - 1) + 1 /\ k - 1 < n
        BY <1>1, <1>2
      <4> QED BY <4>1
    <3>2. kept(l) \in Seq(Nat) /\ Increasing(kept(l)) /\ \A x \in Elems(kept(l)) : x < d1
      BY <1>5, <2>1
    <3>3. Increasing(Append(kept(l), d1))
      BY <1>1, <3>2, AppendElems
    <3>4. lw[k] = IF l = d2 THEN Append(kept(l), d1) ELSE kept(l)
      BY <1>3, <3>1
    <3> QED BY <3>2, <3>3, <3>4
  <2> QED BY <1>2, <2>2, AscendingElems
<1> QED BY <1>9, <1>10 DEF lw, rest, d1

\* What holds of a merge the level manager may plan: it takes whole levels, it
\* writes to a name that is not in use, and whatever it leaves out is older.
WellPlanned(m) ==
  /\ m \in MergeOps
  /\ m.whole \in 1..Len(levels) /\ m.srcs = ListedBelow(levels, m.whole)
  /\ m.srcs \subseteq Listed(levels)
  /\ m.dst \notin Listed(levels)
  /\ \A f \in Listed(levels) \ m.srcs :
       /\ f[1] < m.dst[1] /\ m.dst[2] <= f[2]
       /\ \A g \in m.srcs : f[1] < g[1]

\* A cascaded merge fits into the order of the files: its target takes an index
\* above those of all the files it leaves out, and they are older.
LEMMA CascadedWellPlanned ==
  ASSUME levels \in Seq(Seq(Nat)), InOrder(disk, Listed(levels)), NEW m \in CascadedMerges
  PROVE  WellPlanned(m)
<1>1. m \in MergeOps /\ Len(levels[1]) \in Nat \ {0}
  BY CascadedMergesType
<1>2. PICK n \in 1..Len(levels) :
        m = [srcs |-> ListedBelow(levels, n), whole |-> n, dst |-> <<Back(1), n>>]
  BY CascadedMergesType
<1> DEFINE b == Back(1)
<1>3. n \in Nat \ {0} /\ Len(levels) \in Nat \ {0} /\ 0 < n /\ 0 < Len(levels)
  OBVIOUS
<1>4. b \in Nat /\ b \in Elems(levels[1])
  <2>1. levels[1] \in Seq(Nat) /\ Len(levels[1]) \in 1..Len(levels[1])
    BY <1>1, <1>3
  <2>2. b = levels[1][Len(levels[1])]
    BY DEF Back
  <2>3. b \in Elems(levels[1])
    BY <2>1, <2>2 DEF Elems
  <2> QED BY <2>1, <2>3, ElemsNat
<1> HIDE DEF b
<1>5. m.srcs = ListedBelow(levels, n) /\ m.whole = n /\ m.dst = <<b, n>>
  BY <1>2 DEF b
<1>6. Listed(levels) \subseteq Names /\ \A f \in Names : f = <<f[1], f[2]>> /\ f[1] \in Nat /\ f[2] \in Nat
  BY ListedElems DEF Names
<1>7. \A f \in Names : f \in m.srcs <=> f[2] < n /\ f \in Listed(levels)
  <2>1. \A i, l \in Nat : <<i, l>> \in m.srcs <=> l < n /\ <<i, l>> \in Listed(levels)
    BY <1>5, ListedBelowElems
  <2>2. ASSUME NEW f \in Names PROVE f \in m.srcs <=> f[2] < n /\ f \in Listed(levels)
    <3>1. <<f[1], f[2]>> \in m.srcs <=> f[2] < n /\ <<f[1], f[2]>> \in Listed(levels)
      BY <1>6, <2>1
    <3> QED BY <1>6, <3>1
  <2> QED BY <2>2
<1>8. <<b, 0>> \in Listed(levels) /\ <<b, 0>> \in m.srcs
  <2>1. <<b, 0>> \in Listed(levels)
    BY <1>3, <1>4, ListedElems
  <2> QED BY <1>3, <1>4, <1>6, <1>7, <2>1
<1>9. m.srcs \subseteq Listed(levels)
  BY <1>1, <1>7 DEF MergeOps
<1>10. m.dst \notin Listed(levels)
  <2> SUFFICES ASSUME <<b, n>> \in Listed(levels) PROVE FALSE
    BY <1>5
  <2>1. <<b, n>> = <<b, 0>>
    BY <1>8 DEF InOrder
  <2> QED BY <1>3, <2>1
<1>11. ASSUME NEW f \in Listed(levels) \ m.srcs
       PROVE  f[1] < m.dst[1] /\ m.dst[2] <= f[2] /\ \A g \in m.srcs : f[1] < g[1]
  <2>1. ~(f[2] < n) /\ f[2] \in Nat
    BY <1>6, <1>7
  <2>2. n <= f[2]
    BY <1>3, <2>1
  <2>3. \A g \in m.srcs : f[1] < g[1]
    <3>1. ASSUME NEW g \in m.srcs PROVE f[1] < g[1]
      <4>1. g[2] < f[2]
        BY <1>3, <1>6, <1>7, <1>9, <2>1, <2>2
      <4> QED BY <1>9, <4>1 DEF InOrder
    <3> QED BY <3>1
  <2>4. f[1] < b
    BY <1>8, <2>3
  <2> QED BY <1>5, <2>2, <2>3, <2>4
<1> QED BY <1>1, <1>5, <1>9, <1>10, <1>11 DEF WellPlanned

\* A full merge leaves only its target.
LEMMA FullWellPlanned ==
  ASSUME levels \in Seq(Seq(Nat)), Ascending(levels), InOrder(disk, Listed(levels)),
         NEW m \in FullMerges
  PROVE  WellPlanned(m)
<1>1. m \in MergeOps
  BY FullMergesType
<1>2. PICK k \in 1..Len(levels) :
        /\ Len(levels[k]) \in Nat \ {0}
        /\ \A l \in 1..(k - 1) : levels[l] = <<>>
        /\ m = [srcs |-> Listed(levels), whole |-> Len(levels),
                dst |-> <<Back(k) + (IF k = Len(levels) THEN 1 ELSE 0), Len(levels) - 1>>]
  BY FullMergesType
<1> DEFINE b == Back(k)
           n == Len(levels)
<1>3. k \in Nat \ {0} /\ n \in Nat \ {0} /\ n \in 1..n /\ k - 1 \in Nat /\ n - 1 \in Nat
  OBVIOUS
<1>4. b \in Nat /\ b \in Elems(levels[k]) /\ \A x \in Elems(levels[k]) : x <= b
  <2>1. levels[k] \in Seq(Nat) /\ Len(levels[k]) \in 1..Len(levels[k])
    BY <1>2
  <2>2. b = levels[k][Len(levels[k])]
    BY DEF Back
  <2>3. b \in Elems(levels[k])
    BY <2>1, <2>2 DEF Elems
  <2>4. Increasing(levels[k])
    BY AscendingElems
  <2>5. ASSUME NEW j \in 1..Len(levels[k]) PROVE levels[k][j] <= b
    <3>1. levels[k][j] \in Nat /\ b \in Nat
      BY <2>1, <2>2
    <3>2. CASE j = Len(levels[k])
      BY <2>2, <3>1, <3>2
    <3>3. CASE j < Len(levels[k])
      <4>1. levels[k][j] < levels[k][Len(levels[k])]
        BY <2>1, <2>4, <3>3 DEF Increasing
      <4>2. levels[k][j] < b
        BY <2>2, <4>1
      <4> QED BY <3>1, <4>2
    <3> QED BY <1>2, <3>2, <3>3
  <2> QED BY <2>1, <2>3, <2>5, ElemsNat DEF Elems
<1> HIDE DEF b
<1>5. /\ m.srcs = Listed(levels) /\ m.whole = n
      /\ k = n => m.dst = <<b + 1, n - 1>>
      /\ k # n => m.dst = <<b, n - 1>>
  BY <1>2, <1>4 DEF b
<1>6. m.dst \notin Listed(levels)
  <2>1. CASE k = n
    <3>1. <<b + 1, n - 1>> \in Listed(levels) => b + 1 \in Elems(levels[k])
      <4>1. b + 1 \in Nat /\ n - 1 \in Nat /\ n - 1 + 1 = k
        BY <1>3, <1>4, <2>1
      <4>2. <<b + 1, n - 1>> \in Listed(levels) => b + 1 \in Elems(levels[n - 1 + 1])
        BY <4>1, ListedElems
      <4> QED BY <4>1, <4>2
    <3>2. ~(b + 1 <= b)
      BY <1>4
    <3> QED BY <1>4, <1>5, <2>1, <3>1, <3>2
  <2>2. CASE k # n
    <3>1. <<b, k - 1>> \in Listed(levels)
      BY <1>3, <1>4, ListedElems
    <3>2. <<b, n - 1>> \in Listed(levels) => <<b, n - 1>> = <<b, k - 1>>
      BY <3>1 DEF InOrder
    <3>3. <<b, n - 1>> # <<b, k - 1>>
      <4>1. n - 1 # k - 1
        BY <1>3, <2>2
      <4> QED BY <4>1
    <3> QED BY <1>5, <2>2, <3>2, <3>3
  <2> QED BY <2>1, <2>2
<1>7. m.srcs = ListedBelow(levels, n)
  BY <1>5 DEF Listed
<1> QED BY <1>1, <1>3, <1>5, <1>6, <1>7 DEF WellPlanned

\* Whichever merge a call chooses is well planned.
LEMMA MergesWellPlanned ==
  ASSUME levels \in Seq(Seq(Nat)), Ascending(levels), InOrder(disk, Listed(levels)),
         NEW m \in Merges
  PROVE  WellPlanned(m)
BY CascadedWellPlanned, FullWellPlanned DEF Merges

-----------------------------------------------------------------------------
(* The steps preserve Consistent. *)

\* Directories with the same valid files hold the same entries in the same order.
LEMMA SameFiles ==
  ASSUME NEW d, NEW e, ValidFiles(e) = ValidFiles(d), \A f \in ValidFiles(d) : e[f] = d[f]
  PROVE  /\ Stored(e) = Stored(d)
         /\ \A S \in SUBSET ValidFiles(d) : InOrder(d, S) => InOrder(e, S)
<1>1. Stored(e) = Stored(d)
  BY DEF Stored
<1>2. ASSUME NEW S \in SUBSET ValidFiles(d), InOrder(d, S) PROVE InOrder(e, S)
  BY <1>2 DEF InOrder
<1> QED BY <1>1, <1>2

\* An entry is stored if a valid file has it.
LEMMA StoredMember ==
  ASSUME NEW d, NEW x
  PROVE  x \in Stored(d) <=> \E f \in ValidFiles(d) : x \in d[f].ids
BY DEF Stored

\* A step that leaves the levels, the call and the merge alone.
LEMMA SameMerges == ASSUME UNCHANGED <<levels, call>> PROVE Merges' = Merges
BY DEF Merges, CascadedMerges, CascadedMerge, FullMerges, FullMerge, ShouldMergeLevel, CanMergeAll,
       Back, Listed

\* A restart rebuilds a memory that agrees with the directory.
LEMMA OpenConsistent ==
  ASSUME TypeOK, WholeInv, NEW mode, Open(mode), Whole'
  PROVE  Consistent'
<1> DEFINE none == [f \in {} |-> Zeroed]
           wiped == dir /\ mode.delete_if_exists
           files == IF wiped THEN none ELSE disk
<1>1. Load(files)
  BY DEF Open
<1>2. DOMAIN none = {} /\ none \in [{} -> Contents] /\ IsFiniteSet({})
  BY FS_EmptySet
<1>3. /\ DOMAIN files \subseteq Names /\ IsFiniteSet(DOMAIN files)
      /\ files \in [DOMAIN files -> Contents]
  BY <1>2 DEF TypeOK
<1>4. pc = "closed" /\ todo = {} /\ buffer = {}
  BY DEF TypeOK, Open
<1>5. /\ InOrder(files, ValidFiles(files))
      /\ durable' = Stored(files)
      /\ \A e \in durable' : e < added
  <2>1. CASE wiped
    <3>1. files = none /\ ValidFiles(none) = {}
      BY <1>2, <2>1 DEF ValidFiles
    <3>2. durable' = {}
      BY <2>1 DEF Open
    <3> HIDE DEF none, files
    <3>3. Stored(files) = {} /\ InOrder(files, {})
      BY <3>1 DEF Stored, InOrder
    <3> QED BY <3>1, <3>2, <3>3
  <2>2. CASE ~wiped
    <3>1. files = disk /\ durable' = durable /\ torn' = torn
      BY <2>2 DEF Open
    <3>2. Consistent
      BY <3>1 DEF WholeInv, Whole
    <3>3. ValidFiles(disk) \ todo = ValidFiles(disk)
      BY <1>4
    <3> QED BY <3>1, <3>2, <3>3 DEF Consistent, NothingLost, EntriesByAge, FilesInOrder
  <2> QED BY <2>1, <2>2
<1> HIDE DEF files
<1>6. /\ disk' = files /\ readers' = DOMAIN files
      /\ levels' \in LoadedLevels(DOMAIN files)
      /\ ValidFiles(files) = DOMAIN files
  BY <1>1 DEF Load, ValidFiles
<1>7. Listed(levels') = DOMAIN files /\ Ascending(levels')
  BY <1>3, <1>6, LoadedListing
<1>8. \A f \in DOMAIN files : f[1] < nextIndex'
  BY <1>1 DEF Load, LoadedNextIndex
<1>9. pc' = "idle" /\ UNCHANGED <<todo, buffer, added>>
  BY DEF Open
<1>10. NothingLost' /\ EntriesByAge'
  BY <1>4, <1>5, <1>6, <1>9 DEF NothingLost, EntriesByAge
<1>11. FilesInOrder' /\ MemoryMatchesDisk' /\ MergeUnderWay'
  <2>1. ValidFiles(disk') \ todo' = DOMAIN files
    BY <1>4, <1>6, <1>9
  <2> QED BY <1>4, <1>5, <1>6, <1>7, <1>8, <1>9, <2>1
          DEF FilesInOrder, MemoryMatchesDisk, MergeUnderWay
<1> QED BY <1>10, <1>11 DEF Consistent

\* The end of the process keeps what is said of the directory.
LEMMA ForgetConsistent ==
  ASSUME Consistent, Forget, pc # "removing", UNCHANGED <<disk, added, durable>>
  PROVE  Consistent'
<1>1. todo = {} /\ todo' = {} /\ buffer' = {} /\ pc' = "closed"
  BY DEF Consistent, MergeUnderWay, Forget
<1> QED BY <1>1 DEF Consistent, NothingLost, EntriesByAge, FilesInOrder, MemoryMatchesDisk, MergeUnderWay

\* Clearing a file that is not valid, which is what a call starts with.
LEMMA ClearConsistent ==
  ASSUME Consistent, todo = {}, pc # "closed", pc' \notin {"closed", "merging", "removing"},
         NEW f, f \notin ValidFiles(disk),
         disk' = Put(disk, f, Zeroed) \/ disk' = disk,
         UNCHANGED <<readers, levels, nextIndex, todo, durable>>,
         EntriesByAge'
  PROVE  Consistent'
<1>1. ValidFiles(disk') = ValidFiles(disk) /\ \A g \in ValidFiles(disk) : disk'[g] = disk[g]
  BY PutValid DEF Zeroed
<1>2. Stored(disk') = Stored(disk) /\ (InOrder(disk, ValidFiles(disk)) => InOrder(disk', ValidFiles(disk)))
  BY <1>1, SameFiles
<1>3. FilesInOrder' /\ NothingLost'
  BY <1>1, <1>2 DEF Consistent, FilesInOrder, NothingLost
<1>4. MemoryMatchesDisk' /\ MergeUnderWay'
  BY <1>1 DEF Consistent, MemoryMatchesDisk, MergeUnderWay
<1> QED BY <1>3, <1>4 DEF Consistent

\* The name of the next level-0 file is not in use.
LEMMA NextFree ==
  ASSUME TypeOK, Consistent, pc # "closed", pc # "removing"
  PROVE  <<nextIndex, 0>> \notin ValidFiles(disk) /\ todo = {}
<1>1. todo = {} /\ Listed(levels) = ValidFiles(disk) /\ \A f \in Listed(levels) : f[1] < nextIndex
  BY DEF Consistent, MergeUnderWay, MemoryMatchesDisk
<1>2. nextIndex \in Nat
  BY DEF TypeOK
<1>3. ~(<<nextIndex, 0>>[1] < nextIndex)
  BY <1>2
<1> QED BY <1>1, <1>3

\* The start of a call clears at most a file that nothing lists.
LEMMA StartConsistent ==
  ASSUME TypeOK, Consistent, pc = "idle", NEW size, NEW kind,
         \/ StartFlush(size, kind)
         \/ UNCHANGED <<disk, pc, call>>,
         UNCHANGED <<readers, levels, nextIndex, todo, durable>>,
         EntriesByAge'
  PROVE  Consistent'
<1>1. <<nextIndex, 0>> \notin ValidFiles(disk) /\ todo = {}
  BY NextFree
<1>2. disk' = Put(disk, <<nextIndex, 0>>, Zeroed) \/ disk' = disk
  BY DEF StartFlush
<1>3. pc' \in {"idle", "writing", "planning"}
  BY DEF StartFlush
<1> QED BY <1>1, <1>2, <1>3, ClearConsistent

\* add keeps the invariant: the new entry is younger than all others.
LEMMA AddConsistent ==
  ASSUME TypeOK, Consistent, NEW size, Add(size)
  PROVE  Consistent'
<1>1. /\ pc = "idle" /\ added' = added + 1 /\ buffer' = buffer \cup {added}
      /\ UNCHANGED <<readers, levels, nextIndex, todo, durable>>
  BY DEF Add
<1>2. EntriesByAge'
  <2>1. added \in Nat /\ buffer \subseteq Nat /\ durable \subseteq Nat /\ EntriesByAge
    BY DEF TypeOK, Consistent
  <2>2. \A e \in durable \cup buffer : e < added /\ e < added + 1
    BY <2>1 DEF EntriesByAge
  <2> QED BY <1>1, <2>1, <2>2 DEF EntriesByAge
<1>3. StartFlush(bufSize + size, "flush") \/ UNCHANGED <<disk, pc, call>>
  BY DEF Add
<1> QED BY <1>1, <1>2, <1>3, StartConsistent

\* flush and compact keep the invariant.
LEMMA FlushConsistent ==
  ASSUME TypeOK, Consistent, Flush \/ Compact
  PROVE  Consistent'
<1>1. pc = "idle" /\ UNCHANGED <<memory, ghosts>>
  BY DEF Flush, Compact
<1>2. EntriesByAge'
  BY <1>1 DEF Consistent, EntriesByAge, memory, ghosts
<1>3. PICK kind \in {"flush", "compact"} : StartFlush(bufSize, kind)
  BY DEF Flush, Compact
<1> QED BY <1>1, <1>2, <1>3, StartConsistent DEF memory, ghosts

\* The file a flush writes holds the youngest entries under the highest index.
LEMMA WriteFlushConsistent ==
  ASSUME TypeOK, Consistent, WriteFlush
  PROVE  Consistent'
<1> DEFINE new == <<nextIndex, 0>>
           V == ValidFiles(disk)
<1>1. new \notin V /\ todo = {}
  BY NextFree DEF WriteFlush
<1>2. /\ readers = V /\ Listed(levels) = V /\ Ascending(levels)
      /\ \A f \in V : f[1] < nextIndex
      /\ InOrder(disk, V) /\ durable = Stored(disk) /\ EntriesByAge
  BY <1>1 DEF Consistent, MemoryMatchesDisk, FilesInOrder, NothingLost, WriteFlush
<1>3. /\ disk' = Put(disk, new, Written(buffer))
      /\ durable' = durable \cup buffer /\ buffer' = {}
      /\ levels' = [levels EXCEPT ![1] = Append(levels[1], nextIndex)]
      /\ nextIndex' = nextIndex + 1
      /\ readers' = readers \cup {new}
      /\ pc' = "planning" /\ todo' = todo /\ added' = added
  BY DEF WriteFlush
<1>4. nextIndex \in Nat /\ levels \in Seq(Seq(Nat)) /\ levels # <<>> /\ V \subseteq Names
  BY DEF TypeOK, WriteFlush, ValidFiles
<1>5. /\ ValidFiles(disk') = V \cup {new}
      /\ \A f \in V : disk'[f] = disk[f]
      /\ disk'[new].ids = buffer
  BY <1>1, <1>3, PutValid DEF Written
<1>6. Listed(levels') = Listed(levels) \cup {new} /\ Ascending(levels')
  <2>1. 1 \in 1..Len(levels) /\ levels[1] \in Seq(Nat)
    BY <1>4, EmptySeq
  <2>2. /\ levels' \in Seq(Seq(Nat)) /\ Len(levels') = Len(levels)
        /\ levels'[1] = Append(levels[1], nextIndex)
        /\ \A k \in 1..Len(levels) : k # 1 => levels'[k] = levels[k]
    BY <1>3, <1>4, <2>1
  <2> DEFINE lw == levels'
  <2>3. \A f \in Listed(levels) : f[1] < nextIndex
    BY <1>2
  <2> HIDE DEF lw
  <2>4. /\ Listed(lw) = Listed(levels) \cup {<<nextIndex, 1 - 1>>}
        /\ Ascending(levels) /\ (\A f \in Listed(levels) : f[1] < nextIndex) => Ascending(lw)
    BY <1>4, <2>1, <2>2, AppendListed DEF lw
  <2>5. 1 - 1 = 0
    OBVIOUS
  <2>6. Listed(lw) = Listed(levels) \cup {new} /\ Ascending(lw)
    BY <1>2, <2>3, <2>4, <2>5
  <2> QED BY <2>6 DEF lw
<1>7. Stored(disk') = durable'
  <2>1. \A x : x \in Stored(disk') <=> x \in Stored(disk) \/ x \in buffer
    BY <1>5, StoredMember
  <2> QED BY <1>2, <1>3, <2>1
<1>8. InOrder(disk', V \cup {new})
  <2>1. \A f \in V : f[1] < nextIndex /\ f[1] \in Nat /\ f[2] \in Nat
    BY <1>2, <1>4 DEF Names
  <2>2. \A f \in V : \A d \in disk[f].ids, e \in buffer : d < e
    BY <1>2, StoredMember DEF EntriesByAge
  <2> SUFFICES ASSUME NEW f \in V \cup {new}, NEW g \in V \cup {new}
               PROVE  /\ f[1] = g[1] => f = g
                      /\ f[2] < g[2] => g[1] < f[1]
                      /\ f[1] < g[1] => \A i \in disk'[f].ids, j \in disk'[g].ids : i < j
    BY DEF InOrder
  <2>3. CASE f \in V /\ g \in V
    BY <1>2, <1>5, <2>3 DEF InOrder
  <2>4. CASE f = new /\ g \in V
    <3>1. f[1] = nextIndex /\ f[2] = 0
      BY <2>4
    <3>2. g[1] < f[1] /\ f[1] # g[1] /\ ~(f[1] < g[1])
      BY <1>4, <2>1, <2>4, <3>1
    <3> QED BY <3>2
  <2>5. CASE f \in V /\ g = new
    <3>1. g[1] = nextIndex /\ g[2] = 0
      BY <2>5
    <3>2. f[1] # g[1] /\ ~(f[2] < g[2])
      BY <1>4, <2>1, <2>5, <3>1
    <3> QED BY <1>5, <2>2, <2>5, <3>2
  <2>6. CASE f = new /\ g = new
    BY <1>4, <2>6
  <2> QED BY <2>3, <2>4, <2>5, <2>6
<1>9. EntriesByAge'
  BY <1>2, <1>3 DEF EntriesByAge
<1>10. \A f \in V \cup {new} : f[1] < nextIndex + 1
  <2>1. \A f \in V : f[1] \in Nat
    BY <1>4 DEF Names
  <2> QED BY <1>2, <1>4, <2>1
<1>11. NothingLost' /\ FilesInOrder'
  BY <1>1, <1>3, <1>5, <1>7, <1>8 DEF NothingLost, FilesInOrder
<1>12. MemoryMatchesDisk' /\ MergeUnderWay'
  BY <1>1, <1>2, <1>3, <1>5, <1>6, <1>10 DEF MemoryMatchesDisk, MergeUnderWay
<1> QED BY <1>9, <1>11, <1>12 DEF Consistent

\* Starting a merge clears only a name that is not in use.
LEMMA PlanMergeConsistent ==
  ASSUME TypeOK, Consistent, PlanMerge
  PROVE  Consistent'
<1>1. PICK m \in Merges : merge' = m /\ disk' = Put(disk, m.dst, Zeroed)
  BY DEF PlanMerge
<1>2. /\ todo = {} /\ Listed(levels) = ValidFiles(disk)
      /\ Ascending(levels) /\ InOrder(disk, Listed(levels)) /\ EntriesByAge
  BY DEF Consistent, MemoryMatchesDisk, MergeUnderWay, FilesInOrder, PlanMerge
<1>3. m.dst \notin ValidFiles(disk)
  BY <1>2, MergesWellPlanned DEF WellPlanned, TypeOK
<1>4. pc' = "merging" /\ UNCHANGED <<readers, levels, nextIndex, buffer, todo, call, added, durable>>
  BY DEF PlanMerge, ghosts
<1>5. ValidFiles(disk') = ValidFiles(disk) /\ \A g \in ValidFiles(disk) : disk'[g] = disk[g]
  BY <1>1, <1>3, PutValid DEF Zeroed
<1>6. Stored(disk') = Stored(disk) /\ (InOrder(disk, ValidFiles(disk)) => InOrder(disk', ValidFiles(disk)))
  BY <1>5, SameFiles
<1>7. NothingLost' /\ EntriesByAge' /\ FilesInOrder'
  BY <1>2, <1>4, <1>5, <1>6 DEF Consistent, NothingLost, EntriesByAge, FilesInOrder
<1>8. MemoryMatchesDisk'
  BY <1>4, <1>5 DEF Consistent, MemoryMatchesDisk, PlanMerge
<1>9. MergeUnderWay'
  BY <1>1, <1>2, <1>4, SameMerges DEF MergeUnderWay
<1> QED BY <1>7, <1>8, <1>9 DEF Consistent

\* A written target holds what its sources hold and takes their place in the order.
LEMMA WriteMergeConsistent ==
  ASSUME TypeOK, Consistent, WriteMerge
  PROVE  Consistent'
<1> DEFINE m == merge
           dst == merge.dst
           V == ValidFiles(disk)
           ids == UNION {disk[f].ids : f \in merge.srcs}
           rest == V \ merge.srcs
<1>1. /\ merge \in Merges /\ todo = {} /\ readers = V /\ Listed(levels) = V
      /\ Ascending(levels) /\ InOrder(disk, V) /\ durable = Stored(disk) /\ EntriesByAge
  BY DEF Consistent, MergeUnderWay, MemoryMatchesDisk, FilesInOrder, NothingLost, WriteMerge
<1>2. levels \in Seq(Seq(Nat)) /\ V \subseteq Names
  BY DEF TypeOK, ValidFiles
<1>3. WellPlanned(merge)
  BY <1>1, <1>2, MergesWellPlanned
<1>4. /\ merge \in MergeOps /\ merge.srcs \subseteq V /\ dst \notin V
      /\ \A f \in rest : f[1] < dst[1] /\ dst[2] <= f[2] /\ \A g \in merge.srcs : f[1] < g[1]
  BY <1>1, <1>3 DEF WellPlanned
<1>5. /\ disk' = Put(disk, dst, Written(ids))
      /\ levels' = AppliedMerge(merge)
      /\ nextIndex' = dst[1] + 1
      /\ readers' = readers \cup {dst}
      /\ todo' = merge.srcs /\ pc' = "removing"
      /\ UNCHANGED <<merge, buffer, added, durable>>
  BY DEF WriteMerge, NextIndexAfter, ghosts
<1>6. dst \in Names /\ dst[1] \in Nat /\ dst[2] \in Nat
  BY <1>4 DEF MergeOps, Names
<1>7. /\ ValidFiles(disk') = V \cup {dst}
      /\ \A f \in V : disk'[f] = disk[f]
      /\ disk'[dst].ids = ids
  BY <1>4, <1>5, PutValid DEF Written
<1>8. Listed(levels') = rest \cup {dst} /\ Ascending(levels')
  <2>1. \A f \in Listed(levels) \ merge.srcs : f[1] < merge.dst[1]
    BY <1>1, <1>4
  <2> QED BY <1>1, <1>2, <1>3, <1>5, <2>1, AppliedMergeListed DEF WellPlanned
<1>9. \A x : x \in ids <=> \E f \in merge.srcs : x \in disk[f].ids
  OBVIOUS
<1> HIDE DEF ids
<1>10. Stored(disk') = Stored(disk)
  <2>1. \A x : x \in Stored(disk') <=> x \in Stored(disk) \/ x \in ids
    BY <1>7, StoredMember
  <2>2. \A x \in ids : x \in Stored(disk)
    BY <1>4, <1>9, StoredMember
  <2> QED BY <2>1, <2>2
<1>11. InOrder(disk', rest \cup {dst})
  <2>1. \A f \in rest : f[1] \in Nat /\ f[2] \in Nat /\ f \in V
    BY <1>2 DEF Names
  <2> SUFFICES ASSUME NEW f \in rest \cup {dst}, NEW g \in rest \cup {dst}
               PROVE  /\ f[1] = g[1] => f = g
                      /\ f[2] < g[2] => g[1] < f[1]
                      /\ f[1] < g[1] => \A i \in disk'[f].ids, j \in disk'[g].ids : i < j
    BY DEF InOrder
  <2>2. CASE f \in rest /\ g \in rest
    BY <1>1, <1>7, <2>1, <2>2 DEF InOrder
  <2>3. CASE f = dst /\ g \in rest
    <3>1. g[1] < dst[1] /\ g[1] \in Nat
      BY <1>4, <2>1, <2>3
    <3>2. f[1] # g[1] /\ g[1] < f[1] /\ ~(f[1] < g[1])
      BY <1>6, <2>3, <3>1
    <3> QED BY <3>2
  <2>4. CASE f \in rest /\ g = dst
    <3>1. f[1] < dst[1] /\ dst[2] <= f[2] /\ f[1] \in Nat /\ f[2] \in Nat
      BY <1>4, <2>1, <2>4
    <3>2. f[1] # g[1] /\ ~(f[2] < g[2])
      BY <1>6, <2>4, <3>1
    <3>3. ASSUME NEW i \in disk[f].ids, NEW j \in ids PROVE i < j
      <4>1. PICK s \in merge.srcs : j \in disk[s].ids
        BY <1>9
      <4>2. f[1] < s[1] /\ f \in V /\ s \in V
        BY <1>4, <2>1, <2>4
      <4> QED BY <1>1, <4>1, <4>2 DEF InOrder
    <3> QED BY <1>7, <2>1, <2>4, <3>2, <3>3
  <2>5. CASE f = dst /\ g = dst
    BY <1>6, <2>5
  <2> QED BY <2>2, <2>3, <2>4, <2>5
<1>12. (V \cup {dst}) \ merge.srcs = rest \cup {dst}
  BY <1>4
<1>13. NothingLost' /\ EntriesByAge' /\ FilesInOrder'
  BY <1>1, <1>5, <1>7, <1>10, <1>11, <1>12 DEF NothingLost, EntriesByAge, FilesInOrder
<1>14. MemoryMatchesDisk'
  <2>1. \A f \in rest \cup {dst} : f[1] < dst[1] + 1
    <3>1. \A f \in rest : f[1] \in Nat
      BY <1>2 DEF Names
    <3> QED BY <1>4, <1>6, <3>1
  <2> QED BY <1>1, <1>4, <1>5, <1>7, <1>8, <1>12, <2>1 DEF MemoryMatchesDisk
<1>15. MergeUnderWay'
  <2>1. \A f \in merge.srcs : disk'[f].ids \subseteq disk'[dst].ids
    BY <1>4, <1>7, <1>9
  <2> QED BY <1>5, <1>8, <2>1 DEF MergeUnderWay
<1> QED BY <1>13, <1>14, <1>15 DEF Consistent

\* Removing a source loses no entry, as the target holds it.
LEMMA RemoveSourceConsistent ==
  ASSUME TypeOK, Consistent, RemoveSource
  PROVE  Consistent'
<1> DEFINE V == ValidFiles(disk)
           dst == merge.dst
<1>1. PICK f \in todo : readers' = readers \ {f} /\ disk' = Remove(disk, f) /\ todo' = todo \ {f}
  BY DEF RemoveSource
<1>2. /\ pc = "removing" /\ UNCHANGED <<levels, nextIndex, buffer, added, durable>>
      /\ \/ todo' = {} /\ pc' = "idle"
         \/ UNCHANGED <<pc, merge>>
  BY DEF RemoveSource, Return, ghosts
<1>3. /\ readers = V /\ Listed(levels) = V \ todo /\ todo \subseteq V /\ Ascending(levels)
      /\ \A g \in Listed(levels) : g[1] < nextIndex
      /\ dst \in Listed(levels) /\ \A g \in todo : disk[g].ids \subseteq disk[dst].ids
      /\ durable = Stored(disk) /\ EntriesByAge /\ InOrder(disk, V \ todo)
  BY <1>2 DEF Consistent, MemoryMatchesDisk, MergeUnderWay, NothingLost, FilesInOrder
<1>4. ValidFiles(disk') = V \ {f} /\ \A g \in V \ {f} : disk'[g] = disk[g]
  BY <1>1, RemoveValid
<1>5. dst \in V \ {f} /\ f \in todo
  BY <1>3
<1>6. Stored(disk') = Stored(disk)
  <2>1. \A x : x \in Stored(disk') => x \in Stored(disk)
    BY <1>4, StoredMember
  <2>2. ASSUME NEW x \in Stored(disk) PROVE x \in Stored(disk')
    <3>1. PICK g \in V : x \in disk[g].ids
      BY StoredMember
    <3>2. CASE g = f
      <4>1. x \in disk[dst].ids
        BY <1>3, <1>5, <3>1, <3>2
      <4> QED BY <1>4, <1>5, <4>1, StoredMember
    <3>3. CASE g # f
      BY <1>4, <3>1, <3>3, StoredMember
    <3> QED BY <3>2, <3>3
  <2> QED BY <2>1, <2>2
<1>7. (V \ {f}) \ (todo \ {f}) = V \ todo /\ (V \ {f}) \cap (V \ todo) = V \ todo
  BY <1>5
<1>8. InOrder(disk', V \ todo)
  <2>1. \A g \in V \ todo : disk'[g] = disk[g]
    BY <1>4, <1>7
  <2> QED BY <1>3, <2>1 DEF InOrder
<1>9. NothingLost' /\ EntriesByAge' /\ FilesInOrder'
  BY <1>1, <1>2, <1>3, <1>4, <1>6, <1>7, <1>8 DEF NothingLost, EntriesByAge, FilesInOrder
<1>10. MemoryMatchesDisk'
  BY <1>1, <1>2, <1>3, <1>4, <1>7 DEF MemoryMatchesDisk
<1>11. MergeUnderWay'
  <2>1. CASE todo' = {} /\ pc' = "idle"
    BY <2>1 DEF MergeUnderWay
  <2>2. CASE UNCHANGED <<pc, merge>>
    <3>1. \A g \in todo' : disk'[g].ids \subseteq disk'[dst].ids
      <4>1. ASSUME NEW g \in todo' PROVE disk'[g].ids \subseteq disk'[dst].ids
        <5>1. g \in V \ {f} /\ g \in todo
          BY <1>1, <1>3
        <5>2. disk'[g] = disk[g] /\ disk'[dst] = disk[dst]
          BY <1>4, <1>5, <5>1
        <5> QED BY <1>3, <5>1, <5>2
      <4> QED BY <4>1
    <3> QED BY <1>2, <1>3, <2>2, <3>1 DEF MergeUnderWay
  <2> QED BY <1>2, <2>1, <2>2
<1> QED BY <1>9, <1>10, <1>11 DEF Consistent

\* An exception before a file is complete changes no file that is listed.
LEMMA WriteThrowsConsistent ==
  ASSUME TypeOK, Consistent, WriteThrows
  PROVE  Consistent'
<1>1. /\ pc \in Steps \ {"removing"} /\ pc' = "idle" /\ todo' = {}
      /\ UNCHANGED <<disk, readers, levels, nextIndex, buffer, added, durable>>
  BY ConfigAssumption DEF WriteThrows, Abandon, Return
<1>2. todo = {} /\ pc # "closed"
  BY <1>1 DEF Consistent, MergeUnderWay, Steps
<1> QED BY <1>1, <1>2
        DEF Consistent, NothingLost, EntriesByAge, FilesInOrder, MemoryMatchesDisk, MergeUnderWay

\* A step that only moves the call on keeps the invariant.
LEMMA StutterConsistent ==
  ASSUME Consistent, UNCHANGED <<disk, readers, levels, nextIndex, buffer, todo, added, durable>>,
         pc # "closed", pc # "removing", pc' = "idle" \/ UNCHANGED <<pc, merge, call>>
  PROVE  Consistent'
BY SameMerges
   DEF Consistent, NothingLost, EntriesByAge, FilesInOrder, MemoryMatchesDisk, MergeUnderWay

\* One step at a time; a step that cuts a removal short has nothing to preserve.
LEMMA WholeStep ==
  ASSUME TypeOK, WholeInv, [Next]_vars
  PROVE  WholeInv'
<1> SUFFICES ASSUME Whole' PROVE Consistent'
  BY DEF WholeInv
<1>1. CASE \E mode \in OpenModes : Open(mode)
  BY <1>1, OpenConsistent
<1>2. CASE ~ \E mode \in OpenModes : Open(mode)
  <2>1. ~CrashRemoving /\ ~RemoveThrows
    BY DEF TypeOK, Whole, CrashRemoving, RemoveThrows
  <2>2. torn' = torn
    <3>1. CASE Step
      BY <3>1 DEF Step, WriteFlush, PlanNothing, PlanMerge, PlanFaults, WriteMerge, MergeFaults,
                  RemoveSource, ghosts
    <3>2. CASE ~Step
      BY <1>2, <2>1, <3>2 DEF Next, vars, ghosts, Add, Flush, Compact, Exit, Crash, WriteThrows
    <3> QED BY <3>1, <3>2
  <2>3. Consistent
    BY <2>2 DEF WholeInv, Whole
  <2>4. CASE \E size \in EntrySizes : Add(size)
    BY <2>3, <2>4, AddConsistent
  <2>5. CASE Flush \/ Compact
    BY <2>3, <2>5, FlushConsistent
  <2>6. CASE Exit \/ Crash \/ PlanFaults \/ MergeFaults
    BY <2>3, <2>6, ForgetConsistent DEF Exit, Crash, PlanFaults, MergeFaults, ghosts
  <2>7. CASE WriteFlush
    BY <2>3, <2>7, WriteFlushConsistent
  <2>8. CASE PlanNothing
    BY <2>3, <2>8, StutterConsistent DEF PlanNothing, Return, memory, ghosts
  <2>9. CASE PlanMerge
    BY <2>3, <2>9, PlanMergeConsistent
  <2>10. CASE WriteMerge
    BY <2>3, <2>10, WriteMergeConsistent
  <2>11. CASE RemoveSource
    BY <2>3, <2>11, RemoveSourceConsistent
  <2>12. CASE WriteThrows
    BY <2>3, <2>12, WriteThrowsConsistent
  <2>13. CASE UNCHANGED vars
    BY <2>3, <2>13, SameMerges
       DEF vars, memory, ghosts, Consistent, NothingLost, EntriesByAge, FilesInOrder,
           MemoryMatchesDisk, MergeUnderWay
  <2> QED BY <1>2, <2>1, <2>4, <2>5, <2>6, <2>7, <2>8, <2>9, <2>10, <2>11, <2>12, <2>13
          DEF Next, Step
<1> QED BY <1>1, <1>2

\* The invariant holds of the empty directory.
LEMMA InitWhole == Init => WholeInv
<1> SUFFICES ASSUME Init PROVE Consistent
  BY DEF WholeInv
<1>1. DOMAIN disk = {} /\ ValidFiles(disk) = {}
  BY DEF Init, ValidFiles
<1>2. Stored(disk) = {} /\ InOrder(disk, {})
  BY <1>1 DEF Stored, InOrder
<1> QED BY <1>1, <1>2
        DEF Init, Consistent, NothingLost, EntriesByAge, FilesInOrder, MemoryMatchesDisk, MergeUnderWay

-----------------------------------------------------------------------------
(* The theorems. *)

\* Memory and directory agree at every step, for every configuration, number of
\* entries and place where the process dies or a call throws.
THEOREM AlwaysConsistent == Spec => []WholeInv
<1>1. Init => WholeInv
  BY InitWhole
<1>2. TypeOK /\ WholeInv /\ [Next]_vars => WholeInv'
  BY WholeStep
<1> QED BY <1>1, <1>2, TypeCorrect, PTL DEF Spec

\* No flushed entry is lost while no removal was cut short.
THEOREM FlushedStays == Spec => []DurableWhileWhole
<1>1. WholeInv => DurableWhileWhole
  BY DEF WholeInv, Consistent, NothingLost, DurableWhileWhole, Durable
<1> QED BY <1>1, AlwaysConsistent, PTL

\* Between calls the files that are read are in the order of their names.
LEMMA ReadersInOrder == ASSUME WholeInv, pc = "idle", Whole PROVE InOrder(disk, readers)
<1>1. readers = ValidFiles(disk) /\ todo = {} /\ InOrder(disk, ValidFiles(disk) \ todo)
  BY DEF WholeInv, Consistent, MemoryMatchesDisk, MergeUnderWay, FilesInOrder
<1>2. ValidFiles(disk) \ todo = readers
  BY <1>1
<1> QED BY <1>1, <1>2

\* So their names order the files that get and at read by age.
THEOREM ReadersByAge == Spec => []AgeFollowsName
<1>1. WholeInv => AgeFollowsName
  BY ReadersInOrder DEF AgeFollowsName, InOrder
<1> QED BY <1>1, AlwaysConsistent, PTL

\* And their indices alone do: no two files that are read share one.
THEOREM IndicesUnique == Spec => []IndicesDiffer
<1>1. WholeInv => IndicesDiffer
  BY ReadersInOrder DEF IndicesDiffer, InOrder
<1> QED BY <1>1, AlwaysConsistent, PTL

\* Between calls a flushed entry is in exactly one of the files that are read.
THEOREM FlushedOnce == Spec => []VisibleOnce
<1>1. TypeOK /\ WholeInv => VisibleOnce
  <2> SUFFICES ASSUME TypeOK, WholeInv, pc = "idle", Whole, NEW e \in durable
               PROVE  \E f \in readers : /\ e \in disk[f].ids
                                         /\ \A g \in readers \ {f} : e \notin disk[g].ids
    BY DEF VisibleOnce
  <2>1. /\ readers = ValidFiles(disk) /\ ValidFiles(disk) \ todo = readers
        /\ InOrder(disk, ValidFiles(disk) \ todo) /\ durable = Stored(disk)
    BY DEF WholeInv, Consistent, MemoryMatchesDisk, MergeUnderWay, FilesInOrder, NothingLost
  <2>2. PICK f \in readers : e \in disk[f].ids
    BY <2>1, StoredMember
  <2>3. ASSUME NEW g \in readers \ {f}, e \in disk[g].ids PROVE FALSE
    <3>1. f[1] # g[1]
      BY <2>1, <2>3 DEF InOrder
    <3>2. f[1] \in Nat /\ g[1] \in Nat /\ e \in Nat
      BY <2>1 DEF TypeOK, ValidFiles, Names
    <3>3. f[1] < g[1] \/ g[1] < f[1]
      BY <3>1, <3>2
    <3>4. e < e
      BY <2>1, <2>2, <2>3, <3>3 DEF InOrder
    <3> QED BY <3>2, <3>4
  <2> QED BY <2>2, <2>3
<1> QED BY <1>1, TypeCorrect, AlwaysConsistent, PTL

\* No flush and no merge writes to a file that is still listed or mapped.
THEOREM NeverOverwrites == Spec => []TargetIsFresh
<1>1. TypeOK /\ WholeInv => TargetIsFresh
  <2> SUFFICES ASSUME TypeOK, WholeInv, Whole
               PROVE  /\ pc \in {"idle", "writing"} => <<nextIndex, 0>> \notin readers \cup Listed(levels)
                      /\ pc = "merging" => merge.dst \notin readers \cup Listed(levels)
    BY DEF TargetIsFresh
  <2>1. Consistent
    BY DEF WholeInv
  <2>2. pc \notin {"closed", "removing"} =>
          readers = ValidFiles(disk) /\ Listed(levels) = readers /\ Ascending(levels)
          /\ InOrder(disk, Listed(levels))
    BY <2>1 DEF Consistent, MemoryMatchesDisk, MergeUnderWay, FilesInOrder
  <2>3. pc \in {"idle", "writing"} => <<nextIndex, 0>> \notin ValidFiles(disk)
    BY <2>1, NextFree
  <2>4. CASE pc = "merging"
    <3>1. merge \in Merges
      BY <2>1, <2>4 DEF Consistent, MergeUnderWay
    <3>2. WellPlanned(merge)
      BY <2>2, <2>4, <3>1, MergesWellPlanned DEF TypeOK
    <3> QED BY <2>2, <2>4, <3>2 DEF WellPlanned
  <2> QED BY <2>2, <2>3, <2>4
<1> QED BY <1>1, TypeCorrect, AlwaysConsistent, PTL

-----------------------------------------------------------------------------
(* The database implements the abstract store of entries, KvStore.          *)

\* Where removals are never cut short the invariant's premise always holds.
LEMMA NeverTorn ==
  ASSUME MaxTorn = 0
  PROVE  Spec => []Whole
<1>1. Init => Whole
  BY DEF Init, Whole
<1>2. Whole /\ [Next]_vars => Whole'
  <2> SUFFICES ASSUME Whole, [Next]_vars PROVE torn' = 0
    BY DEF Whole
  <2>1. ~CrashRemoving /\ ~RemoveThrows
    BY DEF Whole, CrashRemoving, RemoveThrows
  <2>2. CASE Step
    BY <2>2 DEF Whole, Step, WriteFlush, PlanNothing, PlanMerge, PlanFaults, WriteMerge, MergeFaults,
                RemoveSource, ghosts
  <2>3. CASE ~Step
    BY <2>1, <2>3 DEF Whole, Next, vars, ghosts, Open, Add, Flush, Compact, Exit, Crash, WriteThrows
  <2> QED BY <2>2, <2>3
<1> QED BY <1>1, <1>2, PTL DEF Spec

StoreVars == <<Stored(disk), buffer, pc # "closed">>

\* Every step of the database is one of the abstract store or changes nothing there.
LEMMA StoreStep ==
  ASSUME TypeOK, Consistent, Consistent', Whole', [Next]_vars
  PROVE  [Store!Next]_StoreVars
<1>1. Stored(disk) = durable /\ Stored(disk)' = durable'
  BY DEF Consistent, NothingLost
<1>2. CASE \E mode \in OpenModes : Open(mode)
  <2>1. durable' \in {durable, {}} /\ buffer' = buffer /\ pc = "closed" /\ pc' # "closed"
    BY <1>2 DEF Open
  <2>2. Store!Open
    BY <1>1, <2>1 DEF Store!Open
  <2> QED BY <2>2 DEF Store!Next
<1>3. CASE \E size \in EntrySizes : Add(size)
  <2>1. /\ durable' = durable /\ buffer' = buffer \cup {added}
        /\ pc = "idle" /\ pc' # "closed" /\ added < MaxAdds
    BY <1>3 DEF Add, StartFlush
  <2>2. added \in 0..MaxAdds
    BY <2>1, ConfigAssumption DEF TypeOK
  <2>3. added \notin Stored(disk) \cup buffer
    <3>1. ~(added < added)
      BY DEF TypeOK
    <3> QED BY <1>1, <3>1 DEF Consistent, EntriesByAge
  <2>4. Store!Add
    BY <1>1, <2>1, <2>2, <2>3 DEF Store!Add
  <2> QED BY <2>4 DEF Store!Next
<1>4. CASE WriteFlush
  <2>1. durable' = durable \cup buffer /\ buffer' = {} /\ pc = "writing" /\ pc' = "planning"
    BY <1>4 DEF WriteFlush
  <2>2. Store!Commit
    BY <1>1, <2>1 DEF Store!Commit
  <2> QED BY <2>2 DEF Store!Next
<1>5. CASE Exit \/ Crash \/ CrashRemoving \/ PlanFaults \/ MergeFaults
  <2>1. durable' = durable /\ buffer' = {} /\ pc # "closed" /\ pc' = "closed"
    BY <1>5, ConfigAssumption
       DEF Exit, Crash, CrashRemoving, PlanFaults, MergeFaults, Forget, ghosts, Steps
  <2>2. Store!Close
    BY <1>1, <2>1 DEF Store!Close
  <2> QED BY <2>2 DEF Store!Next
<1>6. CASE Flush \/ Compact \/ PlanNothing \/ PlanMerge \/ WriteMerge \/ RemoveSource
           \/ WriteThrows \/ RemoveThrows \/ UNCHANGED vars
  <2>1. durable' = durable /\ buffer' = buffer
    BY <1>6 DEF Flush, Compact, PlanNothing, PlanMerge, WriteMerge, RemoveSource, WriteThrows,
                RemoveThrows, Abandon, vars, memory, ghosts
  <2>2. pc' = "closed" <=> pc = "closed"
    BY <1>6, ConfigAssumption
       DEF Flush, Compact, StartFlush, PlanNothing, PlanMerge, WriteMerge, RemoveSource, WriteThrows,
           RemoveThrows, Abandon, Return, vars, Steps
  <2> QED BY <1>1, <2>1, <2>2 DEF StoreVars
<1> QED BY <1>2, <1>3, <1>4, <1>5, <1>6 DEF Next, Step

\* Flushes, merges, restarts and crashes outside the removal of merged files
\* are steps of the abstract store or change nothing it sees.
THEOREM Refinement ==
  ASSUME MaxTorn = 0
  PROVE  Spec => ImplementsStore
<1>1. Init => Store!Init
  <2> SUFFICES ASSUME Init PROVE Store!Init
    OBVIOUS
  <2>1. DOMAIN disk = {} /\ buffer = {} /\ pc = "closed"
    BY DEF Init
  <2>2. Stored(disk) = {}
    BY <2>1 DEF Stored, ValidFiles
  <2> QED BY <2>1, <2>2 DEF Store!Init
<1>2. /\ TypeOK /\ WholeInv /\ WholeInv' /\ Whole /\ Whole'
      /\ [Next]_vars
      => [Store!Next]_StoreVars
  BY StoreStep DEF WholeInv
<1>3. Spec => []Whole
  BY NeverTorn
<1> QED BY <1>1, <1>2, <1>3, TypeCorrect, AlwaysConsistent, PTL
        DEF Spec, ImplementsStore, Store!Spec, StoreVars


-----------------------------------------------------------------------------
(* Increasing lists of indices. *)

\* An increasing list is as long as it has elements.
LEMMA IncreasingLen ==
  ASSUME NEW s \in Seq(Nat), Increasing(s)
  PROVE  IsFiniteSet(Elems(s)) /\ Cardinality(Elems(s)) = Len(s)
<1>1. Len(s) \in Nat /\ DOMAIN s = 1..Len(s) /\ \A j \in 1..Len(s) : s[j] \in Nat
  OBVIOUS
<1>2. IsFiniteSet(1..Len(s)) /\ Cardinality(1..Len(s)) = Len(s)
  BY <1>1, FS_Interval
<1>3. \A j, k \in 1..Len(s) : s[j] = s[k] => j = k
  <2> SUFFICES ASSUME NEW j \in 1..Len(s), NEW k \in 1..Len(s), s[j] = s[k], j # k
               PROVE  FALSE
    OBVIOUS
  <2>1. j < k \/ k < j
    BY <1>1
  <2>2. s[j] < s[k] \/ s[k] < s[j]
    BY <2>1 DEF Increasing
  <2> QED BY <1>1, <2>2
<1> DEFINE f == [j \in 1..Len(s) |-> s[j]]
<1>4. f \in Bijection(1..Len(s), Elems(s))
  <2> DEFINE D == 1..Len(s)
             E == Elems(s)
  <2>1. f \in [D -> E] /\ (\A j, k \in D : f[j] = f[k] => j = k)
    BY <1>3 DEF Elems
  <2>2. \A x \in E : \E j \in D : f[j] = x
    BY DEF Elems
  <2> HIDE DEF D, E, f
  <2>3. f \in Bijection(D, E)
    BY <2>1, <2>2 DEF Bijection, Injection, Surjection, IsInjective
  <2> QED BY <2>3 DEF D, E
<1>5. ExistsBijection(1..Len(s), Elems(s))
  BY <1>4 DEF ExistsBijection
<1> QED BY <1>2, <1>5, FS_Bijection

\* The elements below the i-th of an increasing list are the first i - 1.
LEMMA IncreasingRank ==
  ASSUME NEW s \in Seq(Nat), Increasing(s), NEW i \in 1..Len(s)
  PROVE  LET below == {x \in Elems(s) : x < s[i]}
         IN  IsFiniteSet(below) /\ Cardinality(below) = i - 1
<1> DEFINE below == {x \in Elems(s) : x < s[i]}
           t == SubSeq(s, 1, i - 1)
<1>1. /\ Len(s) \in Nat /\ i \in Nat \ {0} /\ i - 1 \in Nat
      /\ \A j \in 1..Len(s) : s[j] \in Nat
  OBVIOUS
<1>2. t \in Seq(Nat) /\ Len(t) = i - 1 /\ \A j \in 1..(i - 1) : t[j] = s[j]
  BY <1>1
<1> HIDE DEF t
<1>3. \A j \in 1..(i - 1) : j \in 1..Len(s) /\ j < i
  BY <1>1
<1>4. Increasing(t)
  BY <1>2, <1>3 DEF Increasing
<1>5. ASSUME NEW x PROVE x \in Elems(t) <=> x \in below
  <2>1. ASSUME x \in Elems(t) PROVE x \in below
    <3>1. PICK j \in 1..(i - 1) : x = s[j]
      BY <1>2, <2>1 DEF Elems
    <3> QED BY <1>3, <3>1 DEF Increasing, Elems
  <2>2. ASSUME x \in below PROVE x \in Elems(t)
    <3>1. PICK j \in 1..Len(s) : x = s[j] /\ s[j] < s[i]
      BY <2>2 DEF Elems
    <3>2. ~(i < j) /\ i # j
      BY <1>1, <3>1 DEF Increasing
    <3>3. j \in 1..(i - 1)
      BY <1>1, <3>2
    <3> QED BY <1>2, <3>1, <3>3 DEF Elems
  <2> QED BY <2>1, <2>2
<1>6. Elems(t) = below
  BY <1>5
<1> QED BY <1>2, <1>4, <1>6, IncreasingLen

\* Two increasing lists with the same elements are the same list.
LEMMA IncreasingUnique ==
  ASSUME NEW s \in Seq(Nat), NEW t \in Seq(Nat), Increasing(s), Increasing(t),
         Elems(s) = Elems(t)
  PROVE  s = t
<1>1. Len(s) = Len(t) /\ Len(s) \in Nat
  BY IncreasingLen
<1>2. ASSUME NEW u \in Seq(Nat), NEW v \in Seq(Nat), Increasing(u), Increasing(v),
             Elems(u) = Elems(v), NEW i \in 1..Len(u), i \in 1..Len(v), u[i] < v[i]
      PROVE  FALSE
  <2> DEFINE U == {x \in Elems(u) : x < u[i]}
             V == {x \in Elems(v) : x < v[i]}
  <2>1. /\ IsFiniteSet(U) /\ Cardinality(U) = i - 1
        /\ IsFiniteSet(V) /\ Cardinality(V) = i - 1
    BY <1>2, IncreasingRank
  <2>2. u[i] \in Nat /\ v[i] \in Nat /\ u[i] \in Elems(u) /\ Elems(u) \subseteq Nat
    BY <1>2, ElemsNat DEF Elems
  <2>3. u[i] \in V /\ u[i] \notin U /\ U \subseteq V
    BY <1>2, <2>2
  <2> HIDE DEF U, V
  <2>4. U = V
    BY <2>1, <2>3, FS_Subset
  <2> QED BY <2>3, <2>4
<1>3. ASSUME NEW i \in 1..Len(s) PROVE s[i] = t[i]
  <2>1. i \in 1..Len(t) /\ s[i] \in Nat /\ t[i] \in Nat
    BY <1>1
  <2>2. ~(s[i] < t[i])
    BY <1>2, <2>1
  <2>3. ~(t[i] < s[i])
    BY <1>2, <2>1
  <2> QED BY <2>1, <2>2, <2>3
<1> QED BY <1>1, <1>3

\* Levels that ascend are told by the files they list and by their number.
LEMMA ListingUnique ==
  ASSUME NEW lv \in Seq(Seq(Nat)), NEW lw \in Seq(Seq(Nat)), Len(lv) = Len(lw),
         Listed(lv) = Listed(lw), Ascending(lv), Ascending(lw)
  PROVE  lv = lw
<1>1. ASSUME NEW l \in 1..Len(lv) PROVE lv[l] = lw[l]
  <2>1. /\ lv[l] \in Seq(Nat) /\ lw[l] \in Seq(Nat)
        /\ l - 1 \in Nat /\ l - 1 < Len(lv) /\ l - 1 + 1 = l
    OBVIOUS
  <2>2. Increasing(lv[l]) /\ Increasing(lw[l])
    BY AscendingElems
  <2>3. Elems(lv[l]) \subseteq Nat /\ Elems(lw[l]) \subseteq Nat
    BY <2>1, ElemsNat
  <2>4. \A i \in Nat : /\ i \in Elems(lv[l]) <=> <<i, l - 1>> \in Listed(lv)
                       /\ i \in Elems(lw[l]) <=> <<i, l - 1>> \in Listed(lw)
    BY <2>1, ListedElems
  <2>5. Elems(lv[l]) = Elems(lw[l])
    BY <2>3, <2>4
  <2> QED BY <2>1, <2>2, <2>5, IncreasingUnique
<1>2. lv = [l \in 1..Len(lv) |-> lv[l]] /\ lw = [l \in 1..Len(lv) |-> lw[l]]
  OBVIOUS
<1>3. [l \in 1..Len(lv) |-> lv[l]] = [l \in 1..Len(lv) |-> lw[l]]
  BY <1>1
<1> QED BY <1>2, <1>3

-----------------------------------------------------------------------------
(* What load_state rebuilds. *)

\* It sets up one of the numbers of levels it may.
LEMMA LoadedDepth ==
  ASSUME NEW files, files \subseteq Names, IsFiniteSet(files), NEW lv \in LoadedLevels(files)
  PROVE  Len(lv) \in Depths(files)
<1> DEFINE lists(depth) == [l \in 1..depth |-> SortedLists(IndicesAt(files, l - 1))]
<1>1. PICK depth \in Depths(files) : lv \in [1..depth -> UNION {lists(depth)[l] : l \in 1..depth}]
  BY DEF LoadedLevels
<1>2. depth \in Nat
  BY DEF Depths, Names
<1>3. lv \in Seq(Seq(Nat))
  BY LoadedLevelsType
<1>4. DOMAIN lv = 1..depth /\ DOMAIN lv = 1..Len(lv) /\ Len(lv) \in Nat
  BY <1>1, <1>3
<1>5. Len(lv) = depth
  BY <1>2, <1>3, <1>4
<1> QED BY <1>1, <1>5

\* The highest level lists a file, or it is the only one.
TopListed(lv) == Len(lv) = 1 \/ Elems(lv[Len(lv)]) # {}

LEMMA LoadedTop ==
  ASSUME NEW files, files \subseteq Names, IsFiniteSet(files), NEW lv \in LoadedLevels(files)
  PROVE  TopListed(lv)
<1>1. lv \in Seq(Seq(Nat)) /\ Listed(lv) = files /\ Len(lv) \in Depths(files)
  BY LoadedLevelsType, LoadedListing, LoadedDepth
<1>2. ASSUME NEW f \in files, f[2] + 1 = Len(lv)
      PROVE  f[1] \in Elems(lv[Len(lv)])
  <2>1. f = <<f[1], f[2]>> /\ f[1] \in Nat /\ f[2] \in Nat /\ <<f[1], f[2]>> \in Listed(lv)
    BY <1>1 DEF Names
  <2> QED BY <1>1, <1>2, <2>1, ListedElems
<1> QED BY <1>1, <1>2 DEF Depths, TopListed

\* Levels with a file in the highest one, or only one level, are as many as
\* load_state sets up for the files they list.
LEMMA DepthsOfListed ==
  ASSUME NEW lv \in Seq(Seq(Nat)), lv # <<>>, TopListed(lv)
  PROVE  Depths(Listed(lv)) = {Len(lv)}
<1> DEFINE n == Len(lv)
<1>1. n \in Nat \ {0}
  BY EmptySeq
<1>2. \A f \in Listed(lv) : f[2] \in Nat /\ f[2] < n
  <2> SUFFICES ASSUME NEW f \in Listed(lv) PROVE f[2] \in Nat /\ f[2] < n
    OBVIOUS
  <2>1. f = <<f[1], f[2]>> /\ f[1] \in Nat /\ f[2] \in Nat
    BY ListedElems DEF Names
  <2> QED BY <2>1, ListedElems
<1>3. n = 1 \/ \E f \in Listed(lv) : f[2] + 1 = n
  <2> SUFFICES ASSUME n # 1 PROVE \E f \in Listed(lv) : f[2] + 1 = n
    OBVIOUS
  <2>1. PICK i : i \in Elems(lv[n])
    BY DEF TopListed
  <2>2. n - 1 \in Nat /\ n - 1 < n /\ n - 1 + 1 = n /\ n \in 1..n
    BY <1>1
  <2>3. i \in Nat
    BY <2>1, <2>2, ElemsNat
  <2>4. <<i, n - 1>> \in Listed(lv)
    BY <2>1, <2>2, <2>3, ListedElems
  <2>5. <<i, n - 1>>[2] + 1 = n
    BY <2>2
  <2> QED BY <2>4, <2>5
<1> HIDE DEF n
<1>4. n \in Depths(Listed(lv))
  BY <1>2, <1>3 DEF Depths
<1>5. ASSUME NEW d \in Depths(Listed(lv)) PROVE d = n
  <2>1. /\ d \in {f[2] + 1 : f \in Listed(lv)} \cup {1}
        /\ \A f \in Listed(lv) : f[2] < d
    BY DEF Depths
  <2>2. d \in Nat \ {0} /\ d <= n
    BY <1>1, <1>2, <2>1
  <2>3. n <= d
    BY <1>1, <1>2, <1>3, <2>1, <2>2
  <2> QED BY <1>1, <2>2, <2>3
<1> QED BY <1>4, <1>5 DEF n

\* Ascending levels are what load_state rebuilds from the names they list, and
\* nothing else is.
LEMMA LoadedAgain ==
  ASSUME NEW lv \in Seq(Seq(Nat)), lv # <<>>, TopListed(lv), Ascending(lv),
         IsFiniteSet(Listed(lv))
  PROVE  LoadedLevels(Listed(lv)) = {lv}
<1> DEFINE files == Listed(lv)
           n == Len(lv)
<1>1. files \subseteq Names /\ n \in Nat \ {0} /\ Depths(files) = {n}
  BY ListedElems, EmptySeq, DepthsOfListed
<1>2. ASSUME NEW lw \in LoadedLevels(files) PROVE lw = lv
  <2>1. /\ lw \in Seq(Seq(Nat)) /\ Len(lw) = n
        /\ Listed(lw) = files /\ Ascending(lw)
    BY <1>1, LoadedLevelsType, LoadedDepth, LoadedListing
  <2> QED BY <2>1, ListingUnique
<1>3. ASSUME NEW l \in 1..n PROVE lv[l] \in SortedLists(IndicesAt(files, l - 1))
  <2> DEFINE s == lv[l]
             S == IndicesAt(files, l - 1)
  <2>1. s \in Seq(Nat) /\ Increasing(s) /\ l - 1 \in Nat /\ l - 1 < n /\ l - 1 + 1 = l
    BY AscendingElems
  <2>2. ASSUME NEW i PROVE i \in S <=> i \in Elems(s)
    <3>1. i \in S <=> \E f \in files : f[2] = l - 1 /\ f[1] = i
      BY DEF IndicesAt
    <3>2. \A f \in files : f = <<f[1], f[2]>> /\ f[1] \in Nat
      BY <1>1 DEF Names
    <3>3. i \in S <=> i \in Nat /\ <<i, l - 1>> \in files
      BY <3>1, <3>2
    <3>4. Elems(s) \subseteq Nat
      BY <2>1, ElemsNat
    <3> QED BY <2>1, <3>3, <3>4, ListedElems
  <2>3. S = Elems(s)
    BY <2>2
  <2>4. Cardinality(S) = Len(s)
    BY <2>1, <2>3, IncreasingLen
  <2> HIDE DEF s, S
  <2>5. s \in [1..Cardinality(S) -> S]
    <3>1. \A j \in 1..Len(s) : s[j] \in S
      BY <2>3 DEF Elems
    <3>2. s = [j \in 1..Len(s) |-> s[j]]
      BY <2>1
    <3> QED BY <2>4, <3>1, <3>2
  <2>6. s \in SortedLists(S)
    BY <2>1, <2>3, <2>4, <2>5 DEF SortedLists, Increasing, Elems
  <2> QED BY <2>6 DEF s, S
<1>4. lv \in LoadedLevels(files)
  <2> DEFINE lists == [l \in 1..n |-> SortedLists(IndicesAt(files, l - 1))]
             T == UNION {lists[l] : l \in 1..n}
  <2>1. \A l \in 1..n : lv[l] \in lists[l] /\ lv[l] \in T
    BY <1>3
  <2>2. lv = [l \in 1..n |-> lv[l]]
    BY <1>1
  <2>3. lv \in [1..n -> T]
    <3> HIDE DEF T
    <3> QED BY <2>1, <2>2
  <2>4. lv \in {lw \in [1..n -> T] : \A l \in 1..n : lw[l] \in lists[l]}
    BY <2>1, <2>3
  <2> QED BY <1>1, <2>4 DEF LoadedLevels
<1> QED BY <1>2, <1>4

\* The next index is told by the files in the same way.
LEMMA NextIndexAgain ==
  ASSUME NEW files, files \subseteq Names, NEW next \in Nat,
         \A f \in files : f[1] < next,
         next = 0 \/ \E f \in files : f[1] + 1 = next
  PROVE  LoadedNextIndex(files) = {next}
<1>1. \A f \in files : f[1] \in Nat
  BY DEF Names
<1>2. next \in LoadedNextIndex(files)
  BY DEF LoadedNextIndex
<1>3. ASSUME NEW n \in LoadedNextIndex(files) PROVE n = next
  <2>1. n \in {f[1] + 1 : f \in files} \cup {0} /\ \A f \in files : f[1] < n
    BY DEF LoadedNextIndex
  <2>2. n \in Nat /\ n <= next
    BY <1>1, <2>1
  <2>3. next <= n
    BY <1>1, <2>1, <2>2
  <2> QED BY <2>2, <2>3
<1> QED BY <1>2, <1>3

-----------------------------------------------------------------------------
(* The level manager's state is what load_state would rebuild.              *)

\* While no removal was cut short, the highest level lists a file unless it is
\* the only one, and the next index follows one that is listed.
LevelsMinimal ==
  Whole /\ pc # "closed" =>
    /\ TopListed(levels)
    /\ nextIndex = 0 \/ \E f \in Listed(levels) : f[1] + 1 = nextIndex

\* A merge takes all levels below its target's, or puts its target on top.
LEMMA MergesReachTop ==
  ASSUME levels \in Seq(Seq(Nat)), NEW m \in Merges
  PROVE  /\ m \in MergeOps
         /\ m.whole \in 1..Len(levels) /\ m.srcs = ListedBelow(levels, m.whole)
         /\ m.whole = m.dst[2] \/ m.dst[2] + 1 = Len(levels)
<1>1. CASE m \in CascadedMerges
  <2>1. PICK n \in 1..Len(levels) :
          m = [srcs |-> ListedBelow(levels, n), whole |-> n, dst |-> <<Back(1), n>>]
    BY <1>1, CascadedMergesType
  <2>2. m.srcs = ListedBelow(levels, n) /\ m.whole = n /\ m.dst[2] = n
    BY <2>1
  <2> QED BY <1>1, <2>2, CascadedMergesType
<1>2. CASE m \in FullMerges
  <2>1. PICK k \in 1..Len(levels) :
          m = [srcs |-> Listed(levels), whole |-> Len(levels),
               dst |-> <<Back(k) + (IF k = Len(levels) THEN 1 ELSE 0), Len(levels) - 1>>]
    BY <1>2, FullMergesType
  <2>2. m.srcs = Listed(levels) /\ m.whole = Len(levels) /\ m.dst[2] = Len(levels) - 1
    BY <2>1
  <2>3. Len(levels) \in 1..Len(levels) /\ Len(levels) - 1 + 1 = Len(levels)
    OBVIOUS
  <2> QED BY <1>2, <2>2, <2>3, FullMergesType DEF Listed
<1> QED BY <1>1, <1>2 DEF Merges

\* So the level on top after it lists a file, if it did before.
LEMMA AppliedTop ==
  ASSUME levels \in Seq(Seq(Nat)), levels # <<>>, TopListed(levels), NEW m \in Merges
  PROVE  TopListed(AppliedMerge(m))
<1> DEFINE lw == AppliedMerge(m)
           d1 == m.dst[1]
           d2 == m.dst[2]
           w == m.whole
           n == IF d2 < Len(levels) THEN Len(levels) ELSE d2 + 1
           kept(l) == IF l <= w \/ l > Len(levels) THEN <<>> ELSE levels[l]
<1>1. m \in MergeOps /\ w \in 1..Len(levels) /\ (w = d2 \/ d2 + 1 = Len(levels))
  BY MergesReachTop
<1>2. d1 \in Nat /\ d2 \in Nat /\ w \in Nat \ {0} /\ Len(levels) \in Nat \ {0} /\ n \in Nat \ {0}
  BY <1>1 DEF MergeOps, Names
<1>3. lw \in Seq(Seq(Nat)) /\ Len(lw) = n
  BY <1>1, AppliedMergeType
<1>4. lw[n] = IF n = d2 + 1 THEN Append(kept(n), d1) ELSE kept(n)
  <2>1. n \in 1..n
    <3> HIDE DEF n
    <3> QED BY <1>2
  <2> QED BY <2>1 DEF AppliedMerge
<1>5. CASE n = d2 + 1
  <2>1. kept(n) \in Seq(Nat)
    BY <1>2
  <2> DEFINE top == kept(n)
  <2>2. top \in Seq(Nat) /\ lw[n] = Append(top, d1)
    BY <1>4, <1>5, <2>1
  <2> HIDE DEF top, n, d1, lw
  <2>3. d1 \in Elems(lw[n])
    BY <1>2, <2>2, AppendElems
  <2> QED BY <1>3, <2>3 DEF TopListed, lw
<1>6. CASE n # d2 + 1
  <2>1. n = Len(levels) /\ d2 + 1 # Len(levels) /\ d2 < Len(levels)
    BY <1>2, <1>6
  <2>2. w = d2 /\ ~(n <= w) /\ ~(n > Len(levels)) /\ Len(levels) # 1
    <3> DEFINE top == Len(levels)
    <3>1. w = d2 /\ n = top /\ d2 < top /\ w \in Nat \ {0} /\ top \in Nat
      BY <1>1, <1>2, <2>1
    <3> HIDE DEF w, d2, n, top
    <3>2. ~(n <= w) /\ ~(n > top) /\ top # 1
      BY <3>1
    <3> QED BY <3>1, <3>2 DEF top
  <2>3. lw[n] = levels[Len(levels)]
    BY <1>4, <1>6, <2>1, <2>2
  <2> QED BY <1>3, <2>1, <2>2, <2>3 DEF TopListed
<1> QED BY <1>5, <1>6

LEMMA OpenMinimal ==
  ASSUME TypeOK, NEW mode, Open(mode)
  PROVE  LevelsMinimal'
<1> DEFINE none == [f \in {} |-> Zeroed]
           files == IF dir /\ mode.delete_if_exists THEN none ELSE disk
<1>1. Load(files)
  BY DEF Open
<1>2. DOMAIN none = {} /\ IsFiniteSet({})
  BY FS_EmptySet
<1>3. DOMAIN files \subseteq Names /\ IsFiniteSet(DOMAIN files)
  BY <1>2 DEF TypeOK
<1> HIDE DEF files
<1>4. levels' \in LoadedLevels(DOMAIN files) /\ nextIndex' \in LoadedNextIndex(DOMAIN files)
  BY <1>1 DEF Load
<1>5. TopListed(levels')
  BY <1>3, <1>4, LoadedTop
<1>6. Listed(levels') = DOMAIN files
  BY <1>3, <1>4, LoadedListing
<1>7. nextIndex' = 0 \/ \E f \in Listed(levels') : f[1] + 1 = nextIndex'
  BY <1>4, <1>6 DEF LoadedNextIndex
<1> QED BY <1>5, <1>7 DEF LevelsMinimal

\* A new file is listed at the bottom.
LEMMA WriteFlushMinimal ==
  ASSUME TypeOK, LevelsMinimal, Whole, WriteFlush
  PROVE  LevelsMinimal'
<1>1. /\ nextIndex \in Nat /\ levels \in Seq(Seq(Nat)) /\ levels # <<>>
      /\ levels' = [levels EXCEPT ![1] = Append(levels[1], nextIndex)]
      /\ nextIndex' = nextIndex + 1 /\ pc # "closed"
  BY DEF TypeOK, WriteFlush
<1>2. 1 \in 1..Len(levels) /\ levels[1] \in Seq(Nat) /\ Len(levels) \in Nat
  BY <1>1, EmptySeq
<1> DEFINE lw == levels'
<1>3. /\ lw \in Seq(Seq(Nat)) /\ Len(lw) = Len(levels)
      /\ lw[1] = Append(levels[1], nextIndex)
      /\ \A k \in 1..Len(levels) : k # 1 => lw[k] = levels[k]
  BY <1>1, <1>2
<1> HIDE DEF lw
<1>4. Listed(lw) = Listed(levels) \cup {<<nextIndex, 1 - 1>>}
  <2>1. nextIndex \in Nat /\ levels \in Seq(Seq(Nat))
    BY <1>1
  <2>2. /\ Listed(lw) = Listed(levels) \cup {<<nextIndex, 1 - 1>>}
        /\ Ascending(levels) /\ (\A f \in Listed(levels) : f[1] < nextIndex) => Ascending(lw)
    <3> HIDE DEF lw
    <3> QED BY <1>2, <1>3, <2>1, AppendListed
  <2> QED BY <2>2
<1>5. <<nextIndex, 1 - 1>> \in Listed(lw) /\ <<nextIndex, 1 - 1>>[1] + 1 = nextIndex + 1
  BY <1>4
<1>6. TopListed(lw)
  BY <1>1, <1>2, <1>3 DEF LevelsMinimal, TopListed
<1> QED BY <1>1, <1>5, <1>6 DEF LevelsMinimal, lw

\* The target of a merge is listed, and the next index follows it.
LEMMA WriteMergeMinimal ==
  ASSUME TypeOK, Consistent, LevelsMinimal, Whole, WriteMerge
  PROVE  LevelsMinimal'
<1>1. /\ levels \in Seq(Seq(Nat)) /\ levels # <<>> /\ merge \in Merges
      /\ levels' = AppliedMerge(merge) /\ nextIndex' = merge.dst[1] + 1 /\ TopListed(levels)
  BY DEF TypeOK, Consistent, MergeUnderWay, WriteMerge, LevelsMinimal, NextIndexAfter
<1>2. /\ merge \in MergeOps /\ merge.whole \in 1..Len(levels)
      /\ merge.srcs = ListedBelow(levels, merge.whole)
  BY <1>1, MergesReachTop
<1>3. Listed(AppliedMerge(merge)) = (Listed(levels) \ merge.srcs) \cup {merge.dst}
  BY <1>1, <1>2, AppliedMergeListed
<1>4. TopListed(AppliedMerge(merge))
  BY <1>1, AppliedTop
<1> QED BY <1>1, <1>3, <1>4 DEF LevelsMinimal

LEMMA MinimalStep ==
  ASSUME TypeOK, WholeInv, LevelsMinimal, [Next]_vars
  PROVE  LevelsMinimal'
<1> SUFFICES ASSUME Whole', pc' # "closed" PROVE LevelsMinimal'
  BY DEF LevelsMinimal
<1>1. CASE \E mode \in OpenModes : Open(mode)
  BY <1>1, OpenMinimal
<1>2. CASE ~ \E mode \in OpenModes : Open(mode)
  <2>1. ~CrashRemoving /\ ~RemoveThrows
    BY DEF TypeOK, Whole, CrashRemoving, RemoveThrows
  <2>2. torn' = torn
    <3>1. CASE Step
      BY <3>1 DEF Step, WriteFlush, PlanNothing, PlanMerge, PlanFaults, WriteMerge, MergeFaults,
                  RemoveSource, ghosts
    <3>2. CASE ~Step
      BY <1>2, <2>1, <3>2 DEF Next, vars, ghosts, Add, Flush, Compact, Exit, Crash, WriteThrows
    <3> QED BY <3>1, <3>2
  <2>3. Whole /\ Consistent
    BY <2>2 DEF WholeInv, Whole
  <2>4. CASE WriteFlush
    BY <2>3, <2>4, WriteFlushMinimal
  <2>5. CASE WriteMerge
    BY <2>3, <2>5, WriteMergeMinimal
  <2>6. CASE UNCHANGED <<levels, nextIndex>> /\ pc # "closed"
    BY <2>3, <2>6 DEF LevelsMinimal
  <2>7. ASSUME ~WriteFlush, ~WriteMerge
        PROVE  UNCHANGED <<levels, nextIndex>> /\ pc # "closed"
    <3>1. CASE Step
      BY <2>7, <3>1 DEF Step, PlanNothing, PlanMerge, PlanFaults, MergeFaults, RemoveSource,
                        memory, Forget
    <3>2. CASE ~Step
      <4>1. pc # "closed"
        BY <1>2, <2>1, <3>2, ConfigAssumption
           DEF Next, vars, Add, Flush, Compact, Exit, Crash, Forget, WriteThrows, Steps
      <4>2. UNCHANGED <<levels, nextIndex>>
        BY <1>2, <2>1, <3>2 DEF Next, vars, memory, Add, Flush, Compact, Exit, Crash, WriteThrows,
                                Abandon, Forget
      <4> QED BY <4>1, <4>2
    <3> QED BY <3>1, <3>2
  <2> QED BY <2>4, <2>5, <2>6, <2>7
<1> QED BY <1>1, <1>2

LEMMA AlwaysMinimal == Spec => []LevelsMinimal
<1>1. Init => LevelsMinimal
  BY DEF Init, LevelsMinimal
<1>2. TypeOK /\ WholeInv /\ LevelsMinimal /\ [Next]_vars => LevelsMinimal'
  BY MinimalStep
<1> QED BY <1>1, <1>2, TypeCorrect, AlwaysConsistent, PTL DEF Spec

\* Between calls load_state has one thing to rebuild: what is there.
LEMMA MinimalRecovers ==
  ASSUME TypeOK, WholeInv, LevelsMinimal
  PROVE  RecoveryMatches
<1> SUFFICES ASSUME pc = "idle", Whole, ValidFiles(disk) = DOMAIN disk
             PROVE  /\ LoadedLevels(DOMAIN disk) = {levels}
                    /\ LoadedNextIndex(DOMAIN disk) = {nextIndex}
  BY DEF RecoveryMatches
<1>1. /\ Listed(levels) = DOMAIN disk /\ Ascending(levels)
      /\ \A f \in DOMAIN disk : f[1] < nextIndex
  BY DEF WholeInv, Consistent, MemoryMatchesDisk, MergeUnderWay
<1>2. /\ levels \in Seq(Seq(Nat)) /\ levels # <<>> /\ nextIndex \in Nat
      /\ DOMAIN disk \subseteq Names /\ IsFiniteSet(DOMAIN disk)
  BY DEF TypeOK
<1>3. TopListed(levels) /\ (nextIndex = 0 \/ \E f \in DOMAIN disk : f[1] + 1 = nextIndex)
  BY <1>1 DEF LevelsMinimal
<1> QED BY <1>1, <1>2, <1>3, LoadedAgain, NextIndexAgain

\* A restart between two calls changes nothing the level manager goes by: names
\* are all it needs (level_manager.hpp, load_state).
THEOREM RestartRebuilds == Spec => []RecoveryMatches
<1>1. TypeOK /\ WholeInv /\ LevelsMinimal => RecoveryMatches
  BY MinimalRecovers
<1> QED BY <1>1, TypeCorrect, AlwaysConsistent, AlwaysMinimal, PTL

-----------------------------------------------------------------------------
(* The limit on the length of the levels, when no call is cut short.        *)

Room(lv) == \A l \in 1..Len(lv) : Len(lv[l]) < MaxLevelCount

\* After a flush and before the merge it calls for, level 0 may be full.
RoomAbove(lv) ==
  /\ Len(lv[1]) <= MaxLevelCount
  /\ \A l \in 1..Len(lv) : l # 1 => Len(lv[l]) < MaxLevelCount

\* Every level is below its limit, or just about to be, also after a restart.
LimitInv ==
  /\ pc \in {"idle", "writing", "removing"} => Room(levels)
  /\ pc \in {"planning", "merging"} => RoomAbove(levels)
  /\ pc = "closed" /\ ValidFiles(disk) = DOMAIN disk =>
       \A lv \in LoadedLevels(DOMAIN disk) : Room(lv)

\* If level 0 is full there is a cascaded merge: it reaches up to the first
\* level that would stay below its limit, or to a new one.
LEMMA FullHasCascade ==
  ASSUME levels \in Seq(Seq(Nat)), levels # <<>>, Len(levels[1]) >= MaxLevelCount
  PROVE  CascadedMerges # {}
<1> DEFINE free == {k \in 1..Len(levels) : ~ShouldMergeLevel(k, TRUE)}
<1>1. Len(levels) \in Nat \ {0}
  BY EmptySeq
<1>2. Len(levels) \in free
  BY <1>1 DEF ShouldMergeLevel
<1>3. free \subseteq Nat /\ free # {}
  <2>1. \A k \in 1..Len(levels) : k \in Nat \ {0}
    BY <1>1
  <2> QED BY <1>2, <2>1
<1> HIDE DEF free
<1>4. PICK k \in free : \A j \in free : k <= j
  BY <1>3, Least
<1>5. k \in 1..Len(levels) /\ ~ShouldMergeLevel(k, TRUE)
  BY <1>4 DEF free
<1>6. \A l \in 1..(k - 1) : ShouldMergeLevel(l, TRUE)
  <2> SUFFICES ASSUME NEW l \in 1..(k - 1), ~ShouldMergeLevel(l, TRUE) PROVE FALSE
    OBVIOUS
  <2>1. l \in 1..Len(levels) /\ ~(k <= l)
    BY <1>1, <1>5
  <2> QED BY <1>4, <2>1 DEF free
<1>7. ShouldMergeLevel(0, FALSE)
  <2>1. Len(levels[1]) \in Nat /\ 0 < Len(levels)
    BY <1>1
  <2> QED BY <2>1, ConfigAssumption DEF ShouldMergeLevel
<1> QED BY <1>5, <1>6, <1>7 DEF CascadedMerges

\* If some level lists two files there is a full merge.
LEMMA TwoHaveFullMerge ==
  ASSUME levels \in Seq(Seq(Nat)), NEW l \in 1..Len(levels), Len(levels[l]) >= 2
  PROVE  FullMerges # {}
<1> DEFINE listing == {k \in 1..Len(levels) : levels[k] # <<>>}
<1>1. Len(levels) \in Nat /\ Len(levels[l]) \in Nat /\ DOMAIN levels = 1..Len(levels)
      /\ DOMAIN levels[l] = 1..Len(levels[l])
  OBVIOUS
<1>2. CanMergeAll
  <2>1. 1 \in DOMAIN levels[l] /\ 2 \in DOMAIN levels[l] /\ <<l, 1>> # <<l, 2>> /\ l \in DOMAIN levels
    BY <1>1
  <2> QED BY <2>1 DEF CanMergeAll
<1>3. l \in listing
  BY <1>1, EmptySeq
<1>4. listing \subseteq Nat /\ listing # {}
  <2>1. \A k \in 1..Len(levels) : k \in Nat \ {0}
    BY <1>1
  <2> QED BY <1>3, <2>1
<1> HIDE DEF listing
<1>5. PICK k \in listing : \A j \in listing : k <= j
  BY <1>4, Least
<1>6. k \in DOMAIN levels /\ levels[k] # <<>>
  BY <1>1, <1>5 DEF listing
<1>7. \A j \in 1..(k - 1) : levels[j] = <<>>
  <2> SUFFICES ASSUME NEW j \in 1..(k - 1), levels[j] # <<>> PROVE FALSE
    OBVIOUS
  <2>1. j \in 1..Len(levels) /\ ~(k <= j)
    <3>1. k \in Nat /\ k <= Len(levels)
      BY <1>1, <1>6
    <3> QED BY <1>1, <3>1
  <2> QED BY <1>5, <2>1 DEF listing
<1> QED BY <1>2, <1>6, <1>7 DEF FullMerges

\* So a call that finds nothing to merge leaves every level below its limit.
LEMMA NothingLeftToMerge ==
  ASSUME levels \in Seq(Seq(Nat)), levels # <<>>, MaxLevelCount > 1, RoomAbove(levels), Merges = {}
  PROVE  Room(levels)
<1>1. CASE call = "compact"
  <2>1. ASSUME NEW l \in 1..Len(levels) PROVE Len(levels[l]) < MaxLevelCount
    <3>1. ~(Len(levels[l]) >= 2)
      BY <1>1, TwoHaveFullMerge DEF Merges
    <3>2. Len(levels[l]) \in Nat
      OBVIOUS
    <3> QED BY <3>1, <3>2, ConfigAssumption
  <2> QED BY <2>1 DEF Room
<1>2. CASE call # "compact"
  <2>1. ~(Len(levels[1]) >= MaxLevelCount)
    BY <1>2, FullHasCascade DEF Merges
  <2>2. Len(levels) \in Nat \ {0} /\ Len(levels[1]) \in Nat
    BY EmptySeq
  <2>3. Len(levels[1]) < MaxLevelCount
    BY <2>1, <2>2, ConfigAssumption
  <2> QED BY <2>3 DEF Room, RoomAbove
<1> QED BY <1>1, <1>2

\* The level a merge goes to has room for one more than the merge puts there.
LEMMA TargetHasRoom ==
  ASSUME levels \in Seq(Seq(Nat)), NEW m \in Merges
  PROVE  LET l == m.dst[2] + 1
         IN  l > m.whole /\ l <= Len(levels) => Len(levels[l]) + 1 < MaxLevelCount
<1> DEFINE l == m.dst[2] + 1
<1>1. CASE m \in CascadedMerges
  <2>1. PICK n \in 1..Len(levels) : ~ShouldMergeLevel(n, TRUE) /\ m = CascadedMerge(n)
    BY <1>1 DEF CascadedMerges
  <2>2. l = n + 1
    BY <2>1 DEF CascadedMerge
  <2>3. n + 1 <= Len(levels) => n < Len(levels) /\ Len(levels[n + 1]) \in Nat
    OBVIOUS
  <2>4. n + 1 <= Len(levels) => ~(Len(levels[n + 1]) + 1 >= MaxLevelCount)
    BY <2>1, <2>3 DEF ShouldMergeLevel
  <2>5. n + 1 <= Len(levels) => Len(levels[n + 1]) + 1 < MaxLevelCount
    BY <2>3, <2>4, ConfigAssumption
  <2> QED BY <2>2, <2>5
<1>2. CASE m \in FullMerges
  <2>1. PICK k \in 1..Len(levels) :
          m = [srcs |-> Listed(levels), whole |-> Len(levels),
               dst |-> <<Back(k) + (IF k = Len(levels) THEN 1 ELSE 0), Len(levels) - 1>>]
    BY <1>2, FullMergesType
  <2>2. m.whole = Len(levels) /\ m.dst[2] = Len(levels) - 1
    BY <2>1
  <2> QED BY <2>2
<1> QED BY <1>1, <1>2 DEF Merges

\* A merge empties the levels it takes and lists one file more above them.
LEMMA AppliedRoom ==
  ASSUME levels \in Seq(Seq(Nat)), levels # <<>>, MaxLevelCount > 1, RoomAbove(levels), NEW m \in Merges
  PROVE  Room(AppliedMerge(m))
<1> DEFINE lw == AppliedMerge(m)
           d1 == m.dst[1]
           d2 == m.dst[2]
           w == m.whole
           top == Len(levels)
           n == IF d2 < top THEN top ELSE d2 + 1
           kept(l) == IF l <= w \/ l > top THEN <<>> ELSE levels[l]
<1>1. m \in MergeOps /\ w \in 1..top
  BY MergesReachTop
<1>2. d1 \in Nat /\ d2 \in Nat /\ w \in Nat \ {0} /\ top \in Nat \ {0} /\ n \in Nat
  BY <1>1 DEF MergeOps, Names
<1>3. lw \in Seq(Seq(Nat)) /\ Len(lw) = n
  BY <1>1, AppliedMergeType
<1>4. d2 + 1 > w /\ d2 + 1 <= top => Len(levels[d2 + 1]) + 1 < MaxLevelCount
  BY TargetHasRoom
<1>5. \A l \in 1..n : lw[l] = IF l = d2 + 1 THEN Append(kept(l), d1) ELSE kept(l)
  BY DEF AppliedMerge
<1> SUFFICES ASSUME NEW l \in 1..n PROVE Len(lw[l]) < MaxLevelCount
  BY <1>3 DEF Room
<1>6. l \in Nat \ {0}
  BY <1>2
<1>7. Len(<<>>) = 0 /\ <<>> \in Seq(Nat) /\ Len(Append(<<>>, d1)) = 1
  BY <1>2
<1> DEFINE gone == l <= w \/ l > top
<1>8. CASE gone
  <2>1. kept(l) = <<>>
    BY <1>8
  <2>2. Len(lw[l]) = 0 \/ Len(lw[l]) = 1
    BY <1>5, <1>7, <2>1
  <2>3. 0 < MaxLevelCount /\ 1 < MaxLevelCount
    BY ConfigAssumption
  <2> QED BY <2>2, <2>3
<1>9. CASE ~gone
  <2>1. l \in 1..top /\ l > w /\ l <= top /\ l # 1
    <3> HIDE DEF w, top, n
    <3> QED BY <1>2, <1>6, <1>9
  <2>2. kept(l) = levels[l] /\ levels[l] \in Seq(Nat) /\ Len(levels[l]) \in Nat
    BY <1>9, <2>1
  <2>3. Len(levels[l]) < MaxLevelCount
    BY <2>1 DEF RoomAbove
  <2>4. CASE l = d2 + 1
    <3>1. Len(Append(levels[l], d1)) = Len(levels[l]) + 1
      BY <1>2, <2>2
    <3>2. lw[l] = Append(levels[l], d1)
      BY <1>5, <2>2, <2>4
    <3>3. Len(levels[l]) + 1 < MaxLevelCount
      BY <1>4, <2>1, <2>4
    <3> QED BY <3>1, <3>2, <3>3
  <2>5. CASE l # d2 + 1
    BY <1>5, <2>2, <2>3, <2>5
  <2> QED BY <2>4, <2>5
<1> QED BY <1>8, <1>9

\* An empty directory gives one empty level.
LEMMA EmptyHasRoom ==
  ASSUME MaxLevelCount > 1, NEW lv \in LoadedLevels({})
  PROVE  Room(lv)
<1>1. lv \in Seq(Seq(Nat)) /\ Listed(lv) = {}
  BY LoadedLevelsType, LoadedListing, FS_EmptySet
<1>2. ASSUME NEW l \in 1..Len(lv) PROVE Len(lv[l]) = 0
  <2>1. lv[l] \in Seq(Nat) /\ l - 1 \in Nat /\ l - 1 < Len(lv) /\ l - 1 + 1 = l
    BY <1>1
  <2>2. Elems(lv[l]) \subseteq Nat
    BY <2>1, ElemsNat
  <2>3. \A i \in Nat : i \notin Elems(lv[l])
    BY <1>1, <2>1, ListedElems
  <2>4. Elems(lv[l]) = {}
    BY <2>2, <2>3
  <2>5. Len(lv[l]) \in Nat /\ \A j \in 1..Len(lv[l]) : lv[l][j] \in Elems(lv[l])
    BY <2>1 DEF Elems
  <2>6. Len(lv[l]) \in Nat /\ 1 \notin 1..Len(lv[l])
    BY <2>4, <2>5
  <2> QED BY <2>6
<1> QED BY <1>2, ConfigAssumption DEF Room

LEMMA OpenLimit ==
  ASSUME TypeOK, LimitInv, MaxLevelCount > 1, NEW mode, Open(mode)
  PROVE  LimitInv'
<1> DEFINE none == [f \in {} |-> Zeroed]
<1>1. pc = "closed" /\ pc' = "idle" /\ DOMAIN none = {} /\ (Load(none) \/ Load(disk))
  BY DEF Open
<1> HIDE DEF none
<1>2. CASE Load(none)
  <2>1. levels' \in LoadedLevels({})
    BY <1>1, <1>2 DEF Load
  <2> QED BY <1>1, <2>1, EmptyHasRoom DEF LimitInv
<1>3. CASE Load(disk)
  <2>1. ValidFiles(disk) = DOMAIN disk /\ levels' \in LoadedLevels(DOMAIN disk)
    BY <1>3 DEF Load, ValidFiles
  <2> QED BY <1>1, <2>1 DEF LimitInv
<1> QED BY <1>1, <1>2, <1>3

LEMMA WriteFlushLimit ==
  ASSUME TypeOK, LimitInv, WriteFlush
  PROVE  LimitInv'
<1>1. /\ pc = "writing" /\ pc' = "planning" /\ nextIndex \in Nat
      /\ levels \in Seq(Seq(Nat)) /\ levels # <<>> /\ Room(levels)
      /\ levels' = [levels EXCEPT ![1] = Append(levels[1], nextIndex)]
  BY DEF TypeOK, WriteFlush, LimitInv
<1>2. 1 \in 1..Len(levels) /\ levels[1] \in Seq(Nat) /\ Len(levels) \in Nat /\ Len(levels[1]) \in Nat
  BY <1>1, EmptySeq
<1>3. /\ Len(levels') = Len(levels) /\ Len(levels'[1]) = Len(levels[1]) + 1
      /\ \A k \in 1..Len(levels) : k # 1 => levels'[k] = levels[k]
  BY <1>1, <1>2
<1>4. Len(levels[1]) < MaxLevelCount
  BY <1>1, <1>2 DEF Room
<1>5. RoomAbove(levels)'
  BY <1>1, <1>2, <1>3, <1>4, ConfigAssumption DEF Room, RoomAbove
<1> QED BY <1>1, <1>5 DEF LimitInv

LEMMA MergeLimit ==
  ASSUME TypeOK, Consistent, LimitInv, MaxLevelCount > 1, PlanNothing \/ WriteMerge
  PROVE  LimitInv'
<1>1. levels \in Seq(Seq(Nat)) /\ (pc # "closed" => levels # <<>>)
  BY DEF TypeOK
<1>2. CASE PlanNothing
  <2>1. pc = "planning" /\ pc' = "idle" /\ levels' = levels /\ Merges = {}
    BY <1>2 DEF PlanNothing, Return, memory
  <2>2. Room(levels)
    BY <1>1, <2>1, NothingLeftToMerge DEF LimitInv
  <2> QED BY <2>1, <2>2 DEF LimitInv
<1>3. CASE WriteMerge
  <2>1. pc = "merging" /\ pc' = "removing" /\ levels' = AppliedMerge(merge) /\ merge \in Merges
    BY <1>3 DEF WriteMerge, Consistent, MergeUnderWay
  <2>2. Room(levels')
    BY <1>1, <2>1, AppliedRoom DEF LimitInv
  <2> QED BY <2>1, <2>2 DEF LimitInv
<1> QED BY <1>2, <1>3

\* A database that is closed between two calls opens with the levels it had.
LEMMA ExitLimit ==
  ASSUME RecoveryMatches, Whole, LimitInv, Exit
  PROVE  LimitInv'
<1>1. pc = "idle" /\ pc' = "closed" /\ disk' = disk /\ Room(levels)
  BY DEF Exit, Forget, LimitInv
<1>2. ValidFiles(disk) = DOMAIN disk => LoadedLevels(DOMAIN disk) = {levels}
  BY <1>1 DEF RecoveryMatches
<1>3. ValidFiles(disk)' = ValidFiles(disk)
  BY <1>1 DEF ValidFiles
<1>4. ValidFiles(disk)' = DOMAIN disk' => \A lv \in LoadedLevels(DOMAIN disk') : Room(lv)
  BY <1>1, <1>2, <1>3
<1> QED BY <1>1, <1>4 DEF LimitInv

\* A merge that is planned can be performed: its sources have readers and its
\* target is none of them.
LEMMA NoFaults ==
  ASSUME TypeOK, Consistent
  PROVE  ~PlanFaults /\ ~MergeFaults
<1>1. pc \in {"planning", "merging"} =>
        readers = ValidFiles(disk) /\ Listed(levels) = readers /\ Ascending(levels)
        /\ InOrder(disk, Listed(levels))
  BY DEF Consistent, MemoryMatchesDisk, MergeUnderWay, FilesInOrder
<1>2. pc \in {"planning", "merging"} => \A m \in Merges : WellPlanned(m)
  BY <1>1, MergesWellPlanned DEF TypeOK
<1>3. ~PlanFaults
  BY <1>1, <1>2 DEF PlanFaults, WellPlanned
<1>4. pc = "merging" => merge \in Merges
  BY DEF Consistent, MergeUnderWay
<1> QED BY <1>2, <1>3, <1>4 DEF MergeFaults, WellPlanned

LEMMA LimitStep ==
  ASSUME TypeOK, Whole, Consistent, RecoveryMatches, LimitInv, MaxLevelCount > 1,
         CrashPoints = {}, ThrowPoints = {}, [Next]_vars
  PROVE  LimitInv'
<1>1. ~Crash /\ ~CrashRemoving /\ ~WriteThrows /\ ~RemoveThrows /\ ~PlanFaults /\ ~MergeFaults
  BY NoFaults DEF Crash, CrashRemoving, WriteThrows, RemoveThrows
<1>2. CASE \E mode \in OpenModes : Open(mode)
  BY <1>2, OpenLimit
<1>3. CASE (\E size \in EntrySizes : Add(size)) \/ Flush \/ Compact
  <2>1. pc = "idle" /\ levels' = levels /\ pc' \in {"idle", "writing", "planning"}
    BY <1>3 DEF Add, Flush, Compact, StartFlush, memory
  <2>2. Room(levels)
    BY <2>1 DEF LimitInv
  <2>3. RoomAbove(levels)
    <3>1. levels \in Seq(Seq(Nat)) /\ levels # <<>>
      BY <2>1 DEF TypeOK
    <3>2. 1 \in 1..Len(levels) /\ Len(levels[1]) \in Nat
      BY <3>1, EmptySeq
    <3> QED BY <2>2, <3>2, ConfigAssumption DEF Room, RoomAbove
  <2> QED BY <2>1, <2>2, <2>3 DEF LimitInv
<1>4. CASE Exit
  BY <1>4, ExitLimit
<1>5. CASE WriteFlush
  BY <1>5, WriteFlushLimit
<1>6. CASE PlanNothing \/ WriteMerge
  BY <1>6, MergeLimit
<1>7. CASE PlanMerge
  BY <1>7 DEF PlanMerge, LimitInv
<1>8. CASE RemoveSource
  BY <1>8 DEF RemoveSource, Return, LimitInv
<1>9. CASE UNCHANGED vars
  <2>1. pc' = pc /\ levels' = levels /\ disk' = disk
    BY <1>9 DEF vars, memory
  <2>2. ValidFiles(disk)' = ValidFiles(disk)
    BY <2>1 DEF ValidFiles
  <2> QED BY <2>1, <2>2 DEF LimitInv
<1> QED BY <1>1, <1>2, <1>3, <1>4, <1>5, <1>6, <1>7, <1>8, <1>9 DEF Next, Step

\* Where nothing cuts a call short, every level is below the limit that sets off
\* a merge between any two calls, however many flushes, compactions, exits and
\* restarts there are (config.hpp, max_level_count; level_manager.hpp).
THEOREM LevelsStayBounded ==
  ASSUME CrashPoints = {}, ThrowPoints = {}
  PROVE  Spec => []LevelsBounded
<1>1. CASE ~(MaxLevelCount > 1)
  <2>1. Spec => LevelsBounded
    BY <1>1 DEF LevelsBounded
  <2>2. Spec => []LevelsBounded
    <3>1. LevelsBounded
      BY <1>1 DEF LevelsBounded
    <3> QED BY <3>1, PTL
  <2> QED BY <2>2
<1>2. CASE MaxLevelCount > 1
  <2>1. Init => Whole /\ LimitInv
    <3> SUFFICES ASSUME Init PROVE Whole /\ LimitInv
      OBVIOUS
    <3>1. pc = "closed" /\ DOMAIN disk = {} /\ torn = 0
      BY DEF Init
    <3> QED BY <1>2, <3>1, EmptyHasRoom DEF Whole, LimitInv
  <2>2. TypeOK /\ WholeInv /\ RecoveryMatches /\ Whole /\ LimitInv /\ [Next]_vars =>
          Whole' /\ LimitInv'
    <3> SUFFICES ASSUME TypeOK, WholeInv, RecoveryMatches, Whole, LimitInv, [Next]_vars
                 PROVE  Whole' /\ LimitInv'
      OBVIOUS
    <3>1. LimitInv'
      BY <1>2, LimitStep DEF WholeInv
    <3>2. torn' = torn
      <4>1. ~CrashRemoving /\ ~RemoveThrows
        BY DEF CrashRemoving, RemoveThrows
      <4>2. CASE Step
        BY <4>2 DEF Step, WriteFlush, PlanNothing, PlanMerge, PlanFaults, WriteMerge,
                    MergeFaults, RemoveSource, ghosts
      <4>3. CASE \E mode \in OpenModes : Open(mode)
        BY <4>3 DEF Open, Whole
      <4>4. CASE ~Step /\ ~ \E mode \in OpenModes : Open(mode)
        BY <4>1, <4>4 DEF Next, vars, ghosts, Add, Flush, Compact, Exit, Crash, WriteThrows
      <4> QED BY <4>2, <4>3, <4>4
    <3> QED BY <3>1, <3>2 DEF Whole
  <2>3. TypeOK /\ LimitInv => LevelsBounded
    <3> SUFFICES ASSUME TypeOK, LimitInv, pc = "idle" PROVE \A l \in DOMAIN levels : Len(levels[l]) < MaxLevelCount
      BY DEF LevelsBounded
    <3>1. DOMAIN levels = 1..Len(levels)
      BY DEF TypeOK
    <3> QED BY <3>1 DEF LimitInv, Room
  <2> QED BY <2>1, <2>2, <2>3, TypeCorrect, AlwaysConsistent, RestartRebuilds, PTL DEF Spec
<1> QED BY <1>1, <1>2

-----------------------------------------------------------------------------
(* What a compaction leaves, when no call throws.                           *)

\* If the levels list two files there is a full merge.
LEMMA TwoFilesHaveFullMerge ==
  ASSUME levels \in Seq(Seq(Nat)), NEW f \in Listed(levels), NEW g \in Listed(levels), f # g
  PROVE  FullMerges # {}
<1>1. PICK k \in 1..Len(levels) : \E i \in 1..Len(levels[k]) : f = <<levels[k][i], k - 1>>
  BY ListedAllMember
<1>2. PICK i \in 1..Len(levels[k]) : f = <<levels[k][i], k - 1>>
  BY <1>1
<1>3. PICK l \in 1..Len(levels) : \E j \in 1..Len(levels[l]) : g = <<levels[l][j], l - 1>>
  BY ListedAllMember
<1>4. PICK j \in 1..Len(levels[l]) : g = <<levels[l][j], l - 1>>
  BY <1>3
<1>5. /\ DOMAIN levels = 1..Len(levels) /\ Len(levels) \in Nat
      /\ \A n \in 1..Len(levels) : DOMAIN levels[n] = 1..Len(levels[n]) /\ Len(levels[n]) \in Nat
  OBVIOUS
<1>6. CanMergeAll
  <2>1. <<k, i>> # <<l, j>>
    BY <1>2, <1>4
  <2>2. k \in DOMAIN levels /\ l \in DOMAIN levels
    BY <1>5
  <2>3. i \in DOMAIN levels[k] /\ j \in DOMAIN levels[l]
    BY <1>5
  <2> QED BY <2>1, <2>2, <2>3, Zenon DEF CanMergeAll
<1> DEFINE listing == {n \in 1..Len(levels) : levels[n] # <<>>}
<1>7. listing \subseteq Nat /\ listing # {}
  <2>1. \A n \in 1..Len(levels) : n \in Nat
    BY <1>5
  <2>2. levels[k] # <<>>
    BY <1>5, EmptySeq
  <2> QED BY <2>1, <2>2
<1> HIDE DEF listing
<1>8. PICK lowest \in listing : \A n \in listing : lowest <= n
  BY <1>7, Least
<1>9. lowest \in DOMAIN levels /\ levels[lowest] # <<>>
  BY <1>5, <1>8 DEF listing
<1>10. \A n \in 1..(lowest - 1) : levels[n] = <<>>
  <2> SUFFICES ASSUME NEW n \in 1..(lowest - 1), levels[n] # <<>> PROVE FALSE
    OBVIOUS
  <2>1. lowest \in 1..Len(levels) /\ Len(levels) \in Nat
    BY <1>5, <1>9
  <2>2. n \in 1..Len(levels) /\ ~(lowest <= n)
    BY <2>1
  <2> QED BY <1>8, <2>2 DEF listing
<1> QED BY <1>6, <1>9, <1>10 DEF FullMerges

\* Besides the file that is being written the directory has only whole ones, and
\* after the merge of a compaction its target is all that the levels list.
NothingBeside ==
  /\ pc \in {"idle", "planning", "removing"} => DOMAIN disk = ValidFiles(disk)
  /\ pc = "writing" => \A f \in DOMAIN disk : disk[f].valid \/ f = <<nextIndex, 0>>
  /\ pc = "merging" => \A f \in DOMAIN disk : disk[f].valid \/ f = merge.dst
  /\ pc = "removing" /\ call = "compact" => Listed(levels) = {merge.dst}

\* A full merge takes all that the levels list.
LEMMA FullMergeTakesAll ==
  ASSUME TypeOK, Consistent, WriteMerge, call = "compact"
  PROVE  Listed(levels)' = {merge.dst}
<1>1. levels \in Seq(Seq(Nat)) /\ merge \in FullMerges /\ levels' = AppliedMerge(merge)
  BY DEF TypeOK, Consistent, MergeUnderWay, WriteMerge, Merges
<1>2. PICK k \in 1..Len(levels) :
        merge = [srcs |-> Listed(levels), whole |-> Len(levels),
                 dst |-> <<Back(k) + (IF k = Len(levels) THEN 1 ELSE 0), Len(levels) - 1>>]
  BY <1>1, FullMergesType
<1>3. merge.srcs = Listed(levels) /\ merge.whole = Len(levels) /\ Len(levels) \in 1..Len(levels)
  BY <1>2
<1>4. merge \in MergeOps /\ merge.srcs = ListedBelow(levels, merge.whole)
  BY <1>1, <1>3, FullMergesType DEF Listed
<1>5. Listed(AppliedMerge(merge)) = (Listed(levels) \ merge.srcs) \cup {merge.dst}
  BY <1>1, <1>3, <1>4, AppliedMergeListed
<1> QED BY <1>1, <1>3, <1>5

LEMMA NothingBesideStep ==
  ASSUME TypeOK, Consistent, NothingBeside, ThrowPoints = {}, [Next]_vars
  PROVE  NothingBeside'
<1>1. ~WriteThrows /\ ~RemoveThrows
  BY DEF WriteThrows, RemoveThrows
<1>2. CASE \E mode \in OpenModes : Open(mode)
  <2>1. pc' = "idle" /\ \A f \in DOMAIN disk' : disk'[f].valid
    BY <1>2 DEF Open, Load
  <2> QED BY <2>1 DEF NothingBeside, ValidFiles
<1>3. CASE (\E size \in EntrySizes : Add(size)) \/ Flush \/ Compact
  <2>1. /\ pc = "idle" /\ nextIndex' = nextIndex
        /\ \/ pc' \in {"idle", "planning"} /\ disk' = disk
           \/ pc' = "writing" /\ disk' = Put(disk, <<nextIndex, 0>>, Zeroed)
    BY <1>3 DEF Add, Flush, Compact, StartFlush, memory
  <2>2. \A f \in DOMAIN disk : disk[f].valid
    BY <2>1 DEF NothingBeside, ValidFiles
  <2>3. CASE pc' = "writing"
    BY <2>1, <2>2, <2>3 DEF NothingBeside, Put
  <2>4. CASE pc' # "writing"
    BY <2>1, <2>2, <2>4 DEF NothingBeside, ValidFiles
  <2> QED BY <2>3, <2>4
<1>4. CASE Exit \/ Crash \/ CrashRemoving \/ PlanFaults \/ MergeFaults
  <2>1. pc' = "closed"
    BY <1>4 DEF Exit, Crash, CrashRemoving, PlanFaults, MergeFaults, Forget
  <2> QED BY <2>1 DEF NothingBeside
<1>5. CASE WriteFlush
  <2>1. /\ pc = "writing" /\ pc' = "planning"
        /\ disk' = Put(disk, <<nextIndex, 0>>, Written(buffer))
    BY <1>5 DEF WriteFlush
  <2> QED BY <2>1 DEF NothingBeside, ValidFiles, Put, Written
<1>6. CASE PlanNothing
  BY <1>6 DEF PlanNothing, Return, NothingBeside, ValidFiles
<1>7. CASE PlanMerge
  <2>1. pc = "planning" /\ pc' = "merging" /\ disk' = Put(disk, merge'.dst, Zeroed)
    BY <1>7 DEF PlanMerge
  <2> QED BY <2>1 DEF NothingBeside, ValidFiles, Put
<1>8. CASE WriteMerge
  <2>1. /\ pc = "merging" /\ pc' = "removing" /\ merge' = merge /\ call' = call
        /\ disk' = Put(disk, merge.dst, Written(UNION {disk[f].ids : f \in merge.srcs}))
    BY <1>8 DEF WriteMerge
  <2>2. DOMAIN disk' = ValidFiles(disk)'
    BY <2>1 DEF NothingBeside, ValidFiles, Put, Written
  <2> QED BY <1>8, <2>1, <2>2, FullMergeTakesAll DEF NothingBeside
<1>9. CASE RemoveSource
  <2>1. PICK f \in todo : disk' = Remove(disk, f)
    BY <1>9 DEF RemoveSource
  <2>2. /\ pc = "removing" /\ levels' = levels
        /\ pc' = "idle" \/ (pc' = "removing" /\ call' = call /\ merge' = merge)
    BY <1>9 DEF RemoveSource, Return
  <2>3. DOMAIN disk' = ValidFiles(disk)'
    BY <2>1, <2>2 DEF NothingBeside, ValidFiles, Remove
  <2> QED BY <2>2, <2>3 DEF NothingBeside
<1>10. CASE UNCHANGED vars
  BY <1>10 DEF vars, memory, NothingBeside, ValidFiles
<1> QED BY <1>1, <1>2, <1>3, <1>4, <1>5, <1>6, <1>7, <1>8, <1>9, <1>10 DEF Next, Step

LEMMA CompactStep ==
  ASSUME TypeOK, TypeOK', Consistent, Consistent', NothingBeside, NothingBeside',
         ThrowPoints = {}, [Next]_vars,
         call = "compact", call' = "none", pc' = "idle"
  PROVE  /\ Cardinality(readers') <= 1
         /\ DOMAIN disk' = readers' /\ Listed(levels') = readers'
<1>1. DOMAIN disk' = readers' /\ Listed(levels') = readers'
  <2>1. readers' = ValidFiles(disk)' /\ Listed(levels') = readers' \ todo' /\ todo' = {}
    BY DEF Consistent, MemoryMatchesDisk, MergeUnderWay
  <2> QED BY <2>1 DEF NothingBeside
<1>2. PlanNothing \/ RemoveSource
  <2>1. pc \notin {"closed", "idle"}
    BY DEF TypeOK
  <2>2. ~UNCHANGED vars
    BY DEF vars
  <2> QED BY <2>1, <2>2 DEF Next, Step, Open, Add, Flush, Compact, Exit, Crash, CrashRemoving, Forget,
               WriteThrows, RemoveThrows, WriteFlush, PlanMerge, PlanFaults, WriteMerge, MergeFaults
<1>3. levels' = levels
  BY <1>2 DEF PlanNothing, RemoveSource, memory
<1>4. \A f, g \in Listed(levels) : f = g
  <2>1. CASE PlanNothing
    <3>1. FullMerges = {} /\ levels \in Seq(Seq(Nat))
      BY <2>1 DEF PlanNothing, Merges, TypeOK
    <3> QED BY <3>1, TwoFilesHaveFullMerge
  <2>2. CASE RemoveSource
    BY <2>2 DEF RemoveSource, NothingBeside
  <2> QED BY <1>2, <2>1, <2>2
<1>5. \A f, g \in readers' : f = g
  BY <1>1, <1>3, <1>4
<1>6. CASE readers' = {}
  <2>1. Cardinality(readers') = 0
    BY <1>6, FS_EmptySet
  <2> QED BY <1>1, <2>1
<1>7. CASE readers' # {}
  <2>1. PICK f : readers' = {f}
    BY <1>5, <1>7
  <2>2. Cardinality(readers') = 1
    BY <2>1, FS_Singleton
  <2> QED BY <1>1, <2>2
<1> QED BY <1>6, <1>7

\* A compaction that runs to its end leaves one file or none, the directory and
\* the levels agree on it, and nothing of what it merged is left behind
\* (kvdb.hpp, compact and perform_merge_operation).
THEOREM CompactionLeavesOne ==
  ASSUME ThrowPoints = {}, MaxTorn = 0
  PROVE  Spec => CompactLeavesOne
<1>1. Init => NothingBeside
  BY DEF Init, NothingBeside
<1>2. TypeOK /\ WholeInv /\ Whole /\ NothingBeside /\ [Next]_vars => NothingBeside'
  BY NothingBesideStep DEF WholeInv
<1>3. /\ TypeOK /\ TypeOK' /\ WholeInv /\ WholeInv' /\ Whole /\ Whole'
      /\ NothingBeside /\ NothingBeside' /\ [Next]_vars
      => [call = "compact" /\ call' = "none" /\ pc' = "idle" =>
            /\ Cardinality(readers') <= 1
            /\ DOMAIN disk' = readers' /\ Listed(levels') = readers']_vars
  BY CompactStep DEF WholeInv
<1>4. Spec => []Whole
  BY NeverTorn
<1> QED BY <1>1, <1>2, <1>3, <1>4, TypeCorrect, AlwaysConsistent, PTL DEF Spec, CompactLeavesOne

-----------------------------------------------------------------------------
(* What is proved of KvDb holds of KvTraverse.                              *)

LEMMA StepOfCall == ASSUME [NextTraverse]_tvars PROVE [Next]_vars
<1>1. CASE TraverseFaults
  BY <1>1 DEF TraverseFaults, Next
<1>2. CASE TraverseStart \/ TraverseNext \/ TraverseReturn \/ TraverseThrows
  BY <1>2 DEF TraverseStart, TraverseNext, TraverseReturn, TraverseThrows
<1>3. CASE Meanwhile
  BY <1>3 DEF Meanwhile
<1>4. CASE UNCHANGED tvars
  BY <1>4 DEF tvars
<1> QED BY <1>1, <1>2, <1>3, <1>4 DEF NextTraverse

\* Every behaviour of KvTraverse is one of KvDb: a traversal writes nothing, and
\* the calls made in its predicate are like any others.
THEOREM TraverseRefines == SpecTraverse => Spec
<1>1. InitTraverse => Init
  BY DEF InitTraverse
<1>2. [NextTraverse]_tvars => [Next]_vars
  BY StepOfCall
<1> QED BY <1>1, <1>2, PTL DEF SpecTraverse, Spec

-----------------------------------------------------------------------------
(* What a step of a call does to the files before one that it leaves open.  *)

\* The files that are read and will go on being read.
Live == readers \ todo

\* A file that stays has all the files before it in the order of names stay, and
\* none is put before it.
Keeps ==
  \A a \in readers : a \in Live' =>
    /\ a \in Live
    /\ \A f \in Names : NameBefore(f, a) => (f \in Live' <=> f \in Live)
    /\ \A f \in Live : NameBefore(f, a) => disk'[f] = disk[f]

\* Writing a file that is not read changes none that is.
LEMMA PutKeeps ==
  ASSUME NEW f, NEW c, f \notin readers, disk' = Put(disk, f, c), readers \subseteq DOMAIN disk,
         UNCHANGED <<readers, todo>>
  PROVE  Keeps
<1>1. \A g \in readers : disk'[g] = disk[g]
  BY DEF Put
<1> QED BY <1>1 DEF Keeps, Live

LEMMA StartKeeps ==
  ASSUME TypeOK, Consistent, pc = "idle", NEW size, NEW kind,
         \/ StartFlush(size, kind)
         \/ UNCHANGED <<disk, pc, call>>,
         UNCHANGED <<readers, todo>>
  PROVE  Keeps
<1>1. <<nextIndex, 0>> \notin readers /\ readers \subseteq DOMAIN disk
  BY NextFree DEF Consistent, MemoryMatchesDisk, TypeOK
<1>2. CASE disk' = Put(disk, <<nextIndex, 0>>, Zeroed)
  BY <1>1, <1>2, PutKeeps
<1>3. CASE disk' = disk
  BY <1>3 DEF Keeps, Live
<1> QED BY <1>2, <1>3 DEF StartFlush

LEMMA WriteFlushKeeps ==
  ASSUME TypeOK, Consistent, WriteFlush
  PROVE  Keeps
<1> DEFINE new == <<nextIndex, 0>>
<1>1. /\ new \notin readers /\ todo = {} /\ readers \subseteq Names /\ nextIndex \in Nat
      /\ readers \subseteq DOMAIN disk
      /\ \A f \in readers : f[1] < nextIndex
  BY NextFree DEF WriteFlush, Consistent, MemoryMatchesDisk, TypeOK
<1>2. disk' = Put(disk, new, Written(buffer)) /\ readers' = readers \cup {new} /\ todo' = todo
  BY DEF WriteFlush
<1>3. \A g \in readers : disk'[g] = disk[g]
  BY <1>1, <1>2 DEF Put
<1>4. ASSUME NEW a \in readers PROVE ~NameBefore(new, a)
  <2>1. a[1] < nextIndex /\ a[1] \in Nat /\ new[1] = nextIndex
    BY <1>1 DEF Names
  <2> QED BY <1>1, <2>1 DEF NameBefore
<1> QED BY <1>1, <1>2, <1>3, <1>4 DEF Keeps, Live

LEMMA PlanMergeKeeps ==
  ASSUME TypeOK, Consistent, PlanMerge
  PROVE  Keeps
<1>1. PICK m \in Merges : disk' = Put(disk, m.dst, Zeroed)
  BY DEF PlanMerge
<1>2. todo = {} /\ Listed(levels) = readers /\ Ascending(levels) /\ InOrder(disk, Listed(levels))
  BY DEF Consistent, MemoryMatchesDisk, MergeUnderWay, FilesInOrder, PlanMerge
<1>3. m.dst \notin readers
  BY <1>2, MergesWellPlanned DEF WellPlanned, TypeOK
<1>4. readers \subseteq DOMAIN disk /\ UNCHANGED <<readers, todo>>
  BY DEF PlanMerge, TypeOK
<1> QED BY <1>1, <1>3, <1>4, PutKeeps

\* The sources of a merge are the last in the order of names, and so is its target.
LEMMA WriteMergeKeeps ==
  ASSUME TypeOK, Consistent, WriteMerge
  PROVE  Keeps
<1> DEFINE dst == merge.dst
<1>1. /\ merge \in Merges /\ todo = {} /\ Listed(levels) = readers
      /\ Ascending(levels) /\ InOrder(disk, Listed(levels))
  BY DEF Consistent, MergeUnderWay, MemoryMatchesDisk, FilesInOrder, WriteMerge
<1>2. readers \subseteq Names /\ readers \subseteq DOMAIN disk
  BY DEF TypeOK
<1>3. WellPlanned(merge)
  BY <1>1, MergesWellPlanned DEF TypeOK
<1>4. /\ merge.srcs \subseteq readers /\ dst \notin readers
      /\ dst \in Names /\ merge.srcs \subseteq Names
      /\ \A f \in readers \ merge.srcs : f[1] < dst[1] /\ \A g \in merge.srcs : f[1] < g[1]
  BY <1>1, <1>3 DEF WellPlanned, MergeOps
<1>5. readers' = readers \cup {dst} /\ todo' = merge.srcs
  BY DEF WriteMerge
<1>6. \A g \in readers : disk'[g] = disk[g]
  BY <1>2, <1>4 DEF WriteMerge, Put
<1>7. ASSUME NEW a \in readers \ merge.srcs, NEW g \in merge.srcs \cup {dst}
      PROVE  ~NameBefore(g, a)
  <2>1. a[1] < g[1] /\ a[1] \in Nat /\ g[1] \in Nat
    BY <1>2, <1>4, <1>7 DEF Names
  <2> QED BY <2>1 DEF NameBefore
<1>8. Live = readers /\ Live' = (readers \ merge.srcs) \cup {dst}
  BY <1>1, <1>4, <1>5 DEF Live
<1>9. ASSUME NEW a \in readers, a \in Live'
      PROVE  /\ a \in Live
             /\ \A f \in Names : NameBefore(f, a) => (f \in Live' <=> f \in Live)
  <2>1. a \in readers \ merge.srcs
    BY <1>4, <1>8, <1>9
  <2> QED BY <1>7, <1>8, <2>1
<1> QED BY <1>6, <1>8, <1>9 DEF Keeps

LEMMA RemoveSourceKeeps ==
  ASSUME TypeOK, Consistent, RemoveSource
  PROVE  Keeps
<1>1. PICK f \in todo : readers' = readers \ {f} /\ disk' = Remove(disk, f) /\ todo' = todo \ {f}
  BY DEF RemoveSource
<1>2. Live' = Live /\ readers \subseteq DOMAIN disk
  BY <1>1 DEF Live, TypeOK
<1>3. \A g \in Live : disk'[g] = disk[g]
  BY <1>1, <1>2 DEF Remove, Live
<1> QED BY <1>2, <1>3 DEF Keeps

\* Any step of a call, if the directory is whole before and after it.
LEMMA StepKeeps ==
  ASSUME TypeOK, WholeInv, Whole, Whole', Next, pc # "closed", pc' # "closed"
  PROVE  Keeps
<1>1. Consistent
  BY DEF WholeInv
<1>2. ~CrashRemoving /\ ~RemoveThrows
  BY DEF Whole, CrashRemoving, RemoveThrows
<1>3. CASE \E size \in EntrySizes : Add(size)
  <2>1. PICK size \in EntrySizes : Add(size)
    BY <1>3
  <2> QED BY <1>1, <2>1, StartKeeps DEF Add
<1>4. CASE Flush \/ Compact
  BY <1>1, <1>4, StartKeeps DEF Flush, Compact, memory
<1>5. CASE WriteFlush
  BY <1>1, <1>5, WriteFlushKeeps
<1>6. CASE PlanNothing
  BY <1>6 DEF PlanNothing, memory, Keeps, Live
<1>7. CASE PlanMerge
  BY <1>1, <1>7, PlanMergeKeeps
<1>8. CASE WriteMerge
  BY <1>1, <1>8, WriteMergeKeeps
<1>9. CASE RemoveSource
  BY <1>1, <1>9, RemoveSourceKeeps
<1>10. CASE WriteThrows
  <2>1. todo = {} /\ todo' = {} /\ readers' = readers /\ disk' = disk
    BY <1>1, <1>10 DEF WriteThrows, Abandon, Consistent, MergeUnderWay
  <2> QED BY <2>1 DEF Keeps, Live
<1>11. CASE Exit \/ Crash \/ PlanFaults \/ MergeFaults
  BY <1>11 DEF Exit, Crash, PlanFaults, MergeFaults, Forget
<1>12. CASE \E mode \in OpenModes : Open(mode)
  BY <1>12 DEF Open
<1> QED BY <1>2, <1>3, <1>4, <1>5, <1>6, <1>7, <1>8, <1>9, <1>10, <1>11, <1>12 DEF Next, Step

-----------------------------------------------------------------------------
(* The inductive invariant of a traversal.                                  *)

\* While the file it stands in is open, a traversal has passed exactly the files
\* before it and has gathered what they hold.
Follows ==
  /\ at \in readers \cup {Nowhere, Erased}
  /\ at = Nowhere => DOMAIN passed = {}
  /\ Whole /\ at \in Live =>
       /\ DOMAIN passed = {f \in Live : NameBefore(f, at)}
       /\ \A f \in DOMAIN passed : passed[f] = disk[f].ids

LEMMA NoSuchNames == Nowhere \notin Names /\ Erased \notin Names /\ Nowhere # Erased
BY DEF Nowhere, Erased, Names

\* The order of names is a strict total order.
LEMMA NamesOrdered ==
  ASSUME NEW f \in Names, NEW g \in Names, NEW h \in Names
  PROVE  /\ ~NameBefore(f, f)
         /\ NameBefore(f, g) => ~NameBefore(g, f)
         /\ f # g => NameBefore(f, g) \/ NameBefore(g, f)
         /\ NameBefore(f, g) /\ NameBefore(g, h) => NameBefore(f, h)
<1>1. /\ f = <<f[1], f[2]>> /\ f[1] \in Nat /\ f[2] \in Nat
      /\ g = <<g[1], g[2]>> /\ g[1] \in Nat /\ g[2] \in Nat
      /\ h = <<h[1], h[2]>> /\ h[1] \in Nat /\ h[2] \in Nat
  BY DEF Names
<1>2. f # g => f[1] # g[1] \/ f[2] # g[2]
  BY <1>1
<1> QED BY <1>1, <1>2 DEF NameBefore

LEMMA StartFollows ==
  ASSUME TypeOK, WholeInv, Follows, TraverseStart
  PROVE  Follows'
<1>1. at' \in readers /\ \A g \in readers \ {at'} : NameBefore(at', g)
  BY DEF TraverseStart, FirstFiles
<1>2. UNCHANGED <<vars, passed>> /\ DOMAIN passed = {}
  BY DEF TraverseStart, Follows
<1>3. readers \subseteq Names /\ readers' = readers
  BY <1>2 DEF TypeOK, vars, memory
<1>4. \A f \in readers : ~NameBefore(f, at')
  BY <1>1, <1>3, NamesOrdered
<1>5. at' # Nowhere
  BY <1>1, <1>3, NoSuchNames
<1> QED BY <1>1, <1>2, <1>3, <1>4, <1>5 DEF Follows, Live

LEMMA NextFollows ==
  ASSUME TypeOK, WholeInv, Follows, TraverseNext
  PROVE  Follows'
<1>1. /\ pc = "idle" /\ at \in readers /\ at' \in readers
      /\ NameBefore(at, at')
      /\ \A h \in readers \ {at'} : NameBefore(at, h) => NameBefore(at', h)
  BY DEF TraverseNext, NextFiles
<1>2. UNCHANGED <<readers, todo, disk, torn>> /\ passed' = Put(passed, at, disk[at].ids)
  BY DEF TraverseNext, vars, memory, ghosts
<1>3. readers \subseteq Names
  BY DEF TypeOK
<1>4. ASSUME Whole PROVE /\ DOMAIN passed' = {f \in Live : NameBefore(f, at')}
                         /\ \A f \in DOMAIN passed' : passed'[f] = disk[f].ids
  <2>1. todo = {} /\ Live = readers
    BY <1>1, <1>4 DEF WholeInv, Consistent, MergeUnderWay, Live
  <2>2. /\ DOMAIN passed = {f \in readers : NameBefore(f, at)}
        /\ \A f \in DOMAIN passed : passed[f] = disk[f].ids
    BY <1>1, <1>4, <2>1 DEF Follows
  <2>3. DOMAIN passed' = DOMAIN passed \cup {at}
    BY <1>2 DEF Put
  <2>4. \A f \in readers : NameBefore(f, at') <=> NameBefore(f, at) \/ f = at
    BY <1>1, <1>3, NamesOrdered
  <2>5. \A f \in DOMAIN passed \cup {at} : passed'[f] = disk[f].ids
    BY <1>2, <2>2 DEF Put
  <2> QED BY <1>1, <2>1, <2>2, <2>3, <2>4, <2>5
<1>5. at' # Nowhere
  BY <1>1, <1>3, NoSuchNames
<1>6. Live' = Live /\ Whole' = Whole
  BY <1>2 DEF Live, Whole
<1> QED BY <1>1, <1>2, <1>4, <1>5, <1>6 DEF Follows

LEMMA StopFollows ==
  ASSUME TypeOK', Stop
  PROVE  Follows'
<1>1. at' \notin readers'
  BY NoSuchNames DEF Stop, TypeOK
<1> QED BY <1>1 DEF Stop, Follows, Live

LEMMA MeanwhileFollows ==
  ASSUME TypeOK, TypeOK', WholeInv, Follows, Meanwhile
  PROVE  Follows'
<1>1. CASE pc' = "closed"
  BY <1>1, StopFollows DEF Meanwhile
<1>2. CASE pc' # "closed" /\ at \in readers \ readers'
  <2>1. at' = Erased /\ at' \notin readers' /\ at' # Nowhere
    BY <1>2, NoSuchNames DEF Meanwhile, TypeOK
  <2> QED BY <2>1 DEF Follows, Live
<1>3. CASE pc' # "closed" /\ at \notin readers \ readers'
  <2>1. at' = at /\ passed' = passed /\ Next
    BY <1>3 DEF Meanwhile, traversal
  <2>2. at' \in readers' \cup {Nowhere, Erased}
    BY <1>3, <2>1 DEF Follows
  <2>3. ASSUME Whole', at' \in Live'
        PROVE  /\ DOMAIN passed' = {f \in Live' : NameBefore(f, at')}
               /\ \A f \in DOMAIN passed' : passed'[f] = disk'[f].ids
    <3>1. at \in readers
      BY <2>1, <2>3, NoSuchNames DEF Follows, Live, TypeOK
    <3>2. pc # "closed"
      BY <3>1 DEF TypeOK
    <3>3. Whole
      <4>1. torn' \in {torn, torn + 1}
        BY <2>1, <3>2
           DEF Next, Open, Add, Flush, Compact, Exit, Step, WriteFlush, PlanNothing, PlanMerge,
               PlanFaults, WriteMerge, MergeFaults, RemoveSource, Crash, CrashRemoving, WriteThrows,
               RemoveThrows, ghosts
      <4> QED BY <2>3, <4>1 DEF Whole, TypeOK
    <3>4. Keeps
      BY <1>3, <2>1, <2>3, <3>2, <3>3, StepKeeps
    <3>5. /\ at \in Live
          /\ \A f \in Names : NameBefore(f, at) => (f \in Live' <=> f \in Live)
          /\ \A f \in Live : NameBefore(f, at) => disk'[f] = disk[f]
      BY <2>1, <2>3, <3>1, <3>4 DEF Keeps
    <3>6. /\ DOMAIN passed = {f \in Live : NameBefore(f, at)}
          /\ \A f \in DOMAIN passed : passed[f] = disk[f].ids
      BY <3>3, <3>5 DEF Follows
    <3>7. Live \subseteq Names /\ Live' \subseteq Names
      BY DEF Live, TypeOK
    <3> QED BY <2>1, <3>5, <3>6, <3>7
  <2>4. at' = Nowhere => DOMAIN passed' = {}
    BY <2>1 DEF Follows
  <2> QED BY <2>2, <2>3, <2>4 DEF Follows
<1> QED BY <1>1, <1>2, <1>3

LEMMA FollowsStep ==
  ASSUME TypeOK, TypeOK', WholeInv, Follows, [NextTraverse]_tvars
  PROVE  Follows'
<1>1. CASE TraverseReturn \/ TraverseThrows \/ TraverseFaults
  BY <1>1, StopFollows DEF TraverseReturn, TraverseThrows, TraverseFaults
<1>2. CASE UNCHANGED tvars
  BY <1>2 DEF tvars, vars, memory, ghosts, traversal, Follows, Live, Whole
<1> QED BY <1>1, <1>2, StartFollows, NextFollows, MeanwhileFollows DEF NextTraverse

-----------------------------------------------------------------------------
(* The theorems.                                                            *)

LEMMA AlwaysFollows == SpecTraverse => []TypeOK /\ []WholeInv /\ []Follows
<1>1. InitTraverse => Follows
  BY NoSuchNames DEF InitTraverse, Init, Follows, Live
<1>2. TypeOK /\ TypeOK' /\ WholeInv /\ Follows /\ [NextTraverse]_tvars => Follows'
  BY FollowsStep
<1> QED BY <1>1, <1>2, TraverseRefines, TypeCorrect, AlwaysConsistent, PTL DEF SpecTraverse

\* The files a traversal has values from are open as long as the one it stands in.
THEOREM ViewsGood == SpecTraverse => []ViewsStayMapped
<1>1. TypeOK /\ WholeInv /\ Follows => ViewsStayMapped
  <2> SUFFICES ASSUME TypeOK, WholeInv, Follows, pc = "idle", at \in readers, Whole
               PROVE  \A f \in DOMAIN passed : f \in readers /\ disk[f].ids = passed[f]
    BY DEF ViewsStayMapped, Standing
  <2>1. Live = readers
    BY DEF WholeInv, Consistent, MergeUnderWay, Live
  <2> QED BY <2>1 DEF Follows
<1> QED BY <1>1, AlwaysFollows, PTL

\* A traversal takes every flushed entry once, whatever its predicate calls, for
\* every configuration and every exception those calls throw.
THEOREM TraverseSound == SpecTraverse => []TraverseSeesAll
<1>1. TypeOK /\ WholeInv /\ Follows => TraverseSeesAll
  <2> DEFINE ahead == {f \in readers : f = at \/ NameBefore(at, f)}
             gathered == [f \in DOMAIN passed \cup ahead |->
                         IF f \in ahead THEN disk[f].ids ELSE passed[f]]
  <2> SUFFICES ASSUME TypeOK, WholeInv, Follows, pc = "idle", at \in readers, Whole
               PROVE  /\ ahead \cap DOMAIN passed = {}
                      /\ UNION {gathered[f] : f \in DOMAIN gathered} = durable
                      /\ \A f, g \in DOMAIN gathered : f # g => gathered[f] \cap gathered[g] = {}
    BY DEF TraverseSeesAll, Standing
  <2>1. /\ Live = readers /\ readers = ValidFiles(disk) /\ InOrder(disk, readers)
        /\ durable = Stored(disk)
    <3>1. todo = {} /\ readers = ValidFiles(disk) /\ FilesInOrder /\ durable = Stored(disk)
      BY DEF WholeInv, Consistent, MergeUnderWay, MemoryMatchesDisk, NothingLost
    <3>2. ValidFiles(disk) \ todo = readers /\ Live = readers
      BY <3>1 DEF Live
    <3> QED BY <3>1, <3>2 DEF FilesInOrder
  <2>2. /\ DOMAIN passed = {f \in readers : NameBefore(f, at)}
        /\ \A f \in DOMAIN passed : passed[f] = disk[f].ids
    BY <2>1 DEF Follows
  <2>3. readers \subseteq Names
    BY DEF TypeOK
  <2>4. DOMAIN passed \cup ahead = readers /\ ahead \cap DOMAIN passed = {}
    BY <2>2, <2>3, NamesOrdered
  <2>5. DOMAIN gathered = readers /\ \A f \in readers : gathered[f] = disk[f].ids
    BY <2>2, <2>4
  <2> HIDE DEF gathered
  <2>6. UNION {gathered[f] : f \in DOMAIN gathered} = durable
    BY <2>1, <2>5, StoredMember
  <2>7. ASSUME NEW f \in readers, NEW g \in readers, f # g PROVE disk[f].ids \cap disk[g].ids = {}
    <3>1. f[1] \in Nat /\ g[1] \in Nat /\ f[1] # g[1]
      BY <2>1, <2>3, <2>7 DEF InOrder, Names
    <3>2. \A e \in disk[f].ids \cap disk[g].ids : e \in Nat /\ e < e
      <4>1. disk[f].ids \subseteq Nat
        BY DEF TypeOK, Contents
      <4>2. f[1] < g[1] \/ g[1] < f[1]
        BY <3>1
      <4> QED BY <2>1, <4>1, <4>2 DEF InOrder
    <3> QED BY <3>2
  <2> QED BY <2>4, <2>5, <2>6, <2>7
<1> QED BY <1>1, AlwaysFollows, PTL

-----------------------------------------------------------------------------
(* Why a call comes to an end: each of its steps takes it on, and there is   *)
(* always one it can take. The rest, that the thread does take it, is what   *)
(* CallReturns assumes as fairness.                                          *)

Stage(p) == CASE p = "writing" -> 3 [] p = "planning" -> 2 [] p = "merging" -> 1 [] OTHER -> 0

\* A step returns, or goes on to a later part of the call, or removes a source.
StepTakesOn ==
  Step => \/ pc' \in {"idle", "closed"} /\ call' = "none"
          \/ pc' \in Steps /\ call' = call /\ Stage(pc') < Stage(pc)
          \/ pc = "removing" /\ UNCHANGED <<pc, call>> /\ Cardinality(todo') = Cardinality(todo) - 1

\* There is a next source to remove, which the loop's order decides.
HasNextSource == pc = "removing" => \E f \in todo : \A g \in todo \ {f} : Precedes(f, g)

Sources(S) == IsFiniteSet(S) /\ S # {} /\ S \subseteq Names /\ \E b \in Nat : \A f \in S : f[2] < b

SourcesLeft == (pc = "merging" => Sources(merge.srcs)) /\ (pc = "removing" => Sources(todo))

LEMMA SourcesListed ==
  ASSUME TypeOK, NEW m \in Merges, m.srcs \subseteq readers
  PROVE  Sources(m.srcs)
<1>1. levels \in Seq(Seq(Nat)) /\ Len(levels) \in Nat
  BY DEF TypeOK
<1>2. IsFiniteSet(m.srcs)
  BY FS_Subset DEF TypeOK
<1>3. CASE call = "compact"
  <2>1. m \in FullMerges
    BY <1>3 DEF Merges
  <2>2. PICK k \in 1..Len(levels) : Len(levels[k]) \in Nat \ {0} /\ m.srcs = Listed(levels)
    BY <1>1, <2>1, FullMergesType
  <2>3. <<levels[k][1], k - 1>> \in Listed(levels)
    <3>1. 1 \in 1..Len(levels[k])
      BY <2>2
    <3> QED BY <1>1, <3>1, ListedAllMember
  <2>4. m.srcs \subseteq Names /\ \A f \in m.srcs : f[2] < Len(levels)
    <3>1. \A f \in Listed(levels) : \E l \in 1..Len(levels) : f[2] = l - 1
      BY <1>1, ListedAllMember
    <3> QED BY <1>1, <2>2, <3>1, ListedAllMember
  <2> QED BY <1>1, <1>2, <2>2, <2>3, <2>4 DEF Sources
<1>4. CASE call # "compact"
  <2>1. m \in CascadedMerges
    BY <1>4 DEF Merges
  <2>2. PICK n \in 1..Len(levels) : m.srcs = ListedBelow(levels, n) /\ Len(levels[1]) \in Nat \ {0}
    BY <1>1, <2>1, CascadedMergesType
  <2>3. <<levels[1][1], 0>> \in ListedBelow(levels, n)
    <3>1. 1 \in 1..Len(levels[1]) /\ 1 \in 1..Len(levels) /\ 1 <= n /\ n \in Nat /\ 1 - 1 = 0
      BY <1>1, <2>2
    <3>2. \E l \in 1..Len(levels) : l <= n /\ \E j \in 1..Len(levels[l]) : <<levels[1][1], 0>> = <<levels[l][j], l - 1>>
      BY <3>1
    <3> QED BY <1>1, <3>1, <3>2, ListedMember
  <2>4. m.srcs \subseteq Names /\ \A f \in m.srcs : f[2] < Len(levels)
    <3>1. n \in Nat
      OBVIOUS
    <3>2. \A f \in ListedBelow(levels, n) : \E l \in 1..Len(levels) : f[2] = l - 1
      BY <1>1, <3>1, ListedMember
    <3>3. ListedBelow(levels, n) \subseteq Names
      BY <1>1, <3>1, ListedMember
    <3> QED BY <1>1, <2>2, <3>2, <3>3
  <2> QED BY <1>1, <1>2, <2>2, <2>3, <2>4 DEF Sources
<1> QED BY <1>3, <1>4

\* The order of the loop has a first among any sources.
LEMMA FirstSource ==
  ASSUME NEW S, Sources(S)
  PROVE  \E f \in S : \A g \in S \ {f} : Precedes(f, g)
<1>1. PICK b \in Nat : \A f \in S : f[2] < b
  BY DEF Sources
<1>2. S # {} /\ \A f \in S : f[1] \in Nat /\ f[2] \in Nat /\ f = <<f[1], f[2]>>
  BY DEF Sources, Names
<1> DEFINE place(f) == IF call = "compact" THEN b - f[2] ELSE f[2]
           P == {place(f) : f \in S}
<1>3. P \subseteq Nat /\ P # {}
  BY <1>1, <1>2
<1>4. PICK f0 \in S : \A g \in S : place(f0) <= place(g)
  <2>1. PICK p \in P : \A q \in P : p <= q
    <3> HIDE DEF P
    <3> QED BY <1>3, Least
  <2>2. PICK f0 \in S : p = place(f0)
    OBVIOUS
  <2>3. \A g \in S : place(g) \in P
    OBVIOUS
  <2> HIDE DEF place, P
  <2> QED BY <2>1, <2>2, <2>3
<1> DEFINE I == {g[1] : g \in {h \in S : h[2] = f0[2]}}
<1>5. I \subseteq Nat /\ I # {}
  BY <1>2
<1>6. PICK f \in S : f[2] = f0[2] /\ \A g \in S : g[2] = f0[2] => f[1] <= g[1]
  <2>1. PICK i \in I : \A j \in I : i <= j
    <3> HIDE DEF I
    <3> QED BY <1>5, Least
  <2>2. PICK f \in S : f[2] = f0[2] /\ f[1] = i
    BY <2>1
  <2>3. \A g \in S : g[2] = f0[2] => g[1] \in I
    OBVIOUS
  <2> HIDE DEF I
  <2> QED BY <2>1, <2>2, <2>3
<1>7. ASSUME NEW g \in S \ {f} PROVE Precedes(f, g)
  <2>1. /\ f[1] \in Nat /\ f[2] \in Nat /\ g[1] \in Nat /\ g[2] \in Nat
        /\ f[1] # g[1] \/ f[2] # g[2]
    BY <1>2, <1>7
  <2>2. place(f0) <= place(g) /\ f[2] = f0[2]
    BY <1>4, <1>6
  <2>3. CASE f[2] = g[2]
    BY <1>6, <2>1, <2>3 DEF Precedes
  <2>4. CASE f[2] # g[2]
    BY <1>1, <2>1, <2>2, <2>4 DEF Precedes
  <2> QED BY <2>3, <2>4
<1> QED BY <1>7

LEMMA SourcesStep ==
  ASSUME TypeOK, SourcesLeft, [Next]_vars
  PROVE  SourcesLeft'
<1>1. CASE PlanMerge
  <2>1. PICK m \in Merges : m.srcs \subseteq readers /\ merge' = m /\ pc' = "merging"
    BY <1>1 DEF PlanMerge
  <2>2. Sources(m.srcs)
    BY <2>1, SourcesListed
  <2> QED BY <2>1, <2>2 DEF SourcesLeft
<1>2. CASE WriteMerge
  BY <1>2 DEF WriteMerge, SourcesLeft
<1>3. CASE RemoveSource
  <2>1. PICK f \in todo : todo' = todo \ {f}
    BY <1>3 DEF RemoveSource
  <2>2. pc = "removing" /\ (todo' = {} => pc' = "idle") /\ (todo' # {} => pc' = "removing")
    BY <1>3 DEF RemoveSource, Return
  <2>3. IsFiniteSet(todo \ {f})
    BY <2>2, FS_Subset DEF SourcesLeft, Sources
  <2> QED BY <2>1, <2>2, <2>3 DEF SourcesLeft, Sources
<1>4. CASE UNCHANGED vars
  BY <1>4 DEF vars, memory, SourcesLeft
<1>5. CASE ~PlanMerge /\ ~WriteMerge /\ ~RemoveSource /\ Next
  <2>1. pc' \notin {"merging", "removing"}
    BY <1>5 DEF Next, Step, Open, Add, StartFlush, Flush, Compact, Exit, Forget, Crash, CrashRemoving,
                WriteThrows, RemoveThrows, Abandon, Return, WriteFlush, PlanNothing, PlanFaults, MergeFaults
  <2> QED BY <2>1 DEF SourcesLeft
<1> QED BY <1>1, <1>2, <1>3, <1>4, <1>5

LEMMA AlwaysSources == Spec => []SourcesLeft
<1>1. Init => SourcesLeft
  BY DEF Init, SourcesLeft
<1>2. TypeOK /\ SourcesLeft /\ [Next]_vars => SourcesLeft'
  BY SourcesStep
<1> QED BY <1>1, <1>2, TypeCorrect, PTL DEF Spec

\* A call that is removing sources has one to go on with, and goes through all of
\* them: the order of the loop in perform_merge_operation leaves none out.
THEOREM SourcesHaveNext == Spec => []HasNextSource
<1>1. SourcesLeft => HasNextSource
  BY FirstSource DEF SourcesLeft, HasNextSource
<1> QED BY <1>1, AlwaysSources, PTL

LEMMA StepIsOn == ASSUME TypeOK, SourcesLeft, Next PROVE StepTakesOn
<1> SUFFICES ASSUME Step
             PROVE  \/ pc' \in {"idle", "closed"} /\ call' = "none"
                    \/ pc' \in Steps /\ call' = call /\ Stage(pc') < Stage(pc)
                    \/ pc = "removing" /\ UNCHANGED <<pc, call>> /\ Cardinality(todo') = Cardinality(todo) - 1
  BY DEF StepTakesOn
<1>1. CASE WriteFlush
  BY <1>1 DEF WriteFlush, Stage, Steps
<1>2. CASE PlanNothing \/ PlanFaults \/ MergeFaults
  BY <1>2 DEF PlanNothing, PlanFaults, MergeFaults, Return, Forget
<1>3. CASE PlanMerge
  BY <1>3 DEF PlanMerge, Stage, Steps
<1>4. CASE WriteMerge
  BY <1>4 DEF WriteMerge, Stage, Steps
<1>5. CASE RemoveSource
  <2>1. PICK f \in todo : todo' = todo \ {f}
    BY <1>5 DEF RemoveSource
  <2>2. pc = "removing" /\ (todo' = {} => pc' = "idle" /\ call' = "none") /\ (todo' # {} => UNCHANGED <<pc, call>>)
    BY <1>5 DEF RemoveSource, Return
  <2>3. Cardinality(todo \ {f}) = Cardinality(todo) - 1
    BY <2>2, FS_RemoveElement DEF SourcesLeft, Sources
  <2> QED BY <2>1, <2>2, <2>3
<1> QED BY <1>1, <1>2, <1>3, <1>4, <1>5 DEF Step

\* Every step of a call takes it on: it ends it, or goes on to a later part, or
\* leaves one source less to remove; so a call has at most three steps more than
\* the merge has sources, whatever the directory holds.
THEOREM CallsGoOn == Spec => [][StepTakesOn]_vars
<1>1. TypeOK /\ SourcesLeft /\ [Next]_vars => [StepTakesOn]_vars
  BY StepIsOn
<1> QED BY <1>1, TypeCorrect, AlwaysSources, PTL DEF Spec

=============================================================================
