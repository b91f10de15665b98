--------------------------- MODULE BindingsProofs ---------------------------
(***************************************************************************)
(* Proofs that the native handles of the bindings are sound, for any number *)
(* of databases and iterators.                                              *)
(***************************************************************************)
EXTENDS Bindings, FiniteSetTheorems, TLAPS

\* The order of creation is one, and an iterator is younger than its database.
Ordered ==
  /\ \A c \in Objects : c \notin older[c]
  /\ \A c, e \in Objects : e \in older[c] => c \notin older[e]
  /\ binding = "js" => \A i \in Iters \cap Live : owner[i] \in older[i]

\* In JavaScript only an iterator that has been freed lost its files to the end
\* of its database.
ClosedAreFreed ==
  binding = "js" => \A i \in Iters : view[i] = "closed" => status[i] = "freed"

\* In JavaScript no exception of a flush gets lost in close: there is no close.
NoneFailed == binding = "js" => failed = {}

\* Entries of an R-tree database are never empty, so a flush writes them.
BoxesSized == pending \cap HrDbs \subseteq sized

IInv ==
  /\ TypeOK /\ PointersGood /\ Ordered /\ ClosedAreFreed
  /\ FreedFlushed /\ NoneFailed /\ BoxesSized

-----------------------------------------------------------------------------
(* The counting of iterators. *)

\* The iterators of a database are finitely many, so that none is left when the
\* count is zero, and one is left when the count is not.
LEMMA ItersOfFinite ==
  ASSUME NEW d
  PROVE  /\ IsFiniteSet(ItersOf(d))
         /\ Cardinality(ItersOf(d)) \in Nat
         /\ Cardinality(ItersOf(d)) = 0 <=> ItersOf(d) = {}
<1>1. IsFiniteSet(Iters) /\ ItersOf(d) \subseteq Iters
  BY HandleAssumption DEF ItersOf
<1>2. IsFiniteSet(ItersOf(d))
  BY <1>1, FS_Subset
<1> QED
  BY <1>2, FS_CardinalityType, FS_EmptySet

\* A database that its finalizer is called for has no iterators left.
LEMMA FinalizedUnused ==
  ASSUME IInv, NEW d \in Dbs, Finalizable(d)
  PROVE  ItersOf(d) = {}
<1>1. CASE phase = "running"
  <2>1. refs[d] = 0 /\ refs[d] = Cardinality(ItersOf(d))
    BY <1>1 DEF Finalizable, IInv, PointersGood
  <2> QED
    BY <2>1, ItersOfFinite
<1>2. CASE phase = "finalizing"
  <2>1. SUFFICES ASSUME NEW i \in ItersOf(d) PROVE FALSE
    OBVIOUS
  <2>2. i \in Iters \cap Live /\ i # d /\ d \in older[i]
    BY <2>1, HandleAssumption DEF ItersOf, Live, Objects, IInv, Ordered, Finalizable
  <2>3. i \in older[d]
    BY <1>2, <2>2 DEF Finalizable, Youngest
  <2> QED
    BY <2>2, <2>3 DEF IInv, Ordered, Objects
<1> QED
  BY <1>1, <1>2 DEF Finalizable

-----------------------------------------------------------------------------
(* Parts that several actions have. *)

\* A merge takes files from live iterators, but says so with "merged".
LEMMA MergeKeeps ==
  ASSUME IInv, NEW d, MayMerge(d), UNCHANGED <<binding, status>>
  PROVE  view' \in [Iters -> {"mapped", "merged", "closed"}] /\ ClosedAreFreed'
BY DEF IInv, TypeOK, MayMerge, ClosedAreFreed

\* The buffers of live databases may have gained or lost entries in them.
BuffersGood ==
  /\ pending' \subseteq Dbs /\ sized' \subseteq pending'
  /\ \A d \in pending' : d \in pending \/ status[d] = "live"
  /\ \A d \in sized' : d \in sized \/ status[d] = "live"
  /\ BoxesSized'

\* A flush leaves nothing in a buffer but entries without a size.
LEMMA FlushKeeps ==
  ASSUME IInv, NEW d, FlushBuffer(d) \/ Written(d)
  PROVE  /\ BuffersGood
         /\ pending' \subseteq pending /\ sized' = sized \ {d}
         /\ \A e \in pending' : e # d \/ d \in KvDbs
<1>1. CASE Written(d)
  BY <1>1 DEF Written, BuffersGood, BoxesSized, IInv, TypeOK
<1>2. CASE d \notin sized /\ UNCHANGED buffers
  BY <1>2 DEF buffers, BuffersGood, BoxesSized, IInv, TypeOK, Dbs
<1> QED
  BY <1>1, <1>2 DEF FlushBuffer

\* Steps that leave the objects, the pointers between them and their order alone.
LEMMA ObjectsKeep ==
  ASSUME IInv, UNCHANGED <<binding, phase, status, counting, older, failed>>,
         held' \subseteq held, hooks' \subseteq hooks, BuffersGood,
         view' \in [Iters -> {"mapped", "merged", "closed"}], ClosedAreFreed',
         phase # "ended"
  PROVE  IInv'
<1>1. Live' = Live /\ \A d : ItersOf(d)' = ItersOf(d)
  BY DEF Live, ItersOf, counting
<1>2. TypeOK'
  BY <1>1 DEF IInv, TypeOK, counting, BuffersGood
<1>3. PointersGood'
  BY <1>1 DEF IInv, PointersGood, counting
<1>4. Ordered'
  BY <1>1 DEF IInv, Ordered, counting
<1>5. FreedFlushed' /\ NoneFailed' /\ BoxesSized'
  BY DEF IInv, FreedFlushed, NoneFailed, BuffersGood
<1> QED
  BY <1>2, <1>3, <1>4, <1>5 DEF IInv

LEMMA AddKeeps ==
  ASSUME IInv, phase = "running", NEW d \in Dbs, AddEntry(d) \/ FlushEntries(d)
  PROVE  IInv'
<1>1. /\ UNCHANGED <<binding, phase, status, counting, older, failed, held, hooks>>
      /\ status[d] = "live"
  BY DEF AddEntry, FlushEntries, Callable
<1>2. view' \in [Iters -> {"mapped", "merged", "closed"}] /\ ClosedAreFreed'
  <2>1. CASE UNCHANGED view
    BY <1>1, <2>1 DEF IInv, TypeOK, ClosedAreFreed
  <2>2. CASE MayMerge(d)
    BY <1>1, <2>2, MergeKeeps
  <2> QED
    BY <2>1, <2>2 DEF AddEntry, FlushEntries
<1>3. BuffersGood
  <2>1. CASE FlushBuffer(d) \/ Written(d)
    BY <2>1, FlushKeeps
  <2>2. CASE /\ pending' = pending \cup {d}
             /\ sized' = sized \cup {d} \/ (d \in KvDbs /\ UNCHANGED sized)
    BY <1>1, <2>2, HandleAssumption DEF BuffersGood, BoxesSized, IInv, TypeOK
  <2> QED
    BY <2>1, <2>2 DEF AddEntry, FlushEntries
<1> QED
  BY <1>1, <1>2, <1>3, ObjectsKeep

LEMMA DieKeeps == ASSUME IInv, Die PROVE IInv'
<1>1. Live' = Live /\ \A d : ItersOf(d)' = ItersOf(d)
  BY DEF Die, Live, ItersOf, counting
<1>2. TypeOK'
  BY <1>1 DEF Die, IInv, TypeOK, counting, database, buffers
<1>3. PointersGood'
  BY <1>1 DEF Die, IInv, PointersGood, counting
<1>4. Ordered'
  BY <1>1 DEF Die, IInv, Ordered, counting
<1>5. FreedFlushed' /\ NoneFailed' /\ ClosedAreFreed' /\ BoxesSized'
  BY DEF Die, IInv, FreedFlushed, NoneFailed, ClosedAreFreed, BoxesSized, database, buffers
<1> QED
  BY <1>2, <1>3, <1>4, <1>5 DEF IInv

-----------------------------------------------------------------------------
(* A new object. *)

\* It is younger than all others, and nothing points to it yet.
LEMMA CreateLive ==
  ASSUME IInv, NEW c \in Objects, Create(c)
  PROVE  /\ Live' = Live \cup {c} /\ c \notin Live
         /\ status' \in [Objects -> {"unused", "live", "freed"}]
         /\ held' \subseteq Live'
         /\ older' \in [Objects -> SUBSET Live']
         /\ \A e \in Objects : e \notin older'[e]
         /\ \A e, f \in Objects : f \in older'[e] => e \notin older'[f]
<1>1. Live' = Live \cup {c} /\ c \notin Live
  BY DEF Create, Live, IInv, TypeOK
<1>2. status' \in [Objects -> {"unused", "live", "freed"}] /\ held' \subseteq Live'
  BY <1>1 DEF Create, IInv, TypeOK
<1>3. \A e \in Objects : older'[e] = IF e = c THEN Live ELSE older[e]
  BY DEF Create, IInv, TypeOK
<1>4. older' \in [Objects -> SUBSET Live']
  BY <1>1 DEF Create, IInv, TypeOK
<1>5. \A e \in Objects : older[e] \subseteq Live
  BY DEF IInv, TypeOK
<1>6. \A e \in Objects : e \notin older'[e]
  BY <1>1, <1>3 DEF IInv, Ordered
<1>7. \A e, f \in Objects : f \in older'[e] => e \notin older'[f]
  BY <1>1, <1>3, <1>5 DEF IInv, Ordered
<1> QED
  BY <1>1, <1>2, <1>4, <1>6, <1>7

LEMMA OpenKeeps ==
  ASSUME IInv, NEW d \in Dbs, JsOpen(d) \/ JavaOpen(d)
  PROVE  IInv'
<1>1. /\ Create(d) /\ d \in Objects /\ d \notin Iters
      /\ UNCHANGED <<binding, phase, database, counting, failed>>
      /\ phase = "running"
      /\ hooks' \subseteq hooks \cup {d}
  BY HandleAssumption DEF JsOpen, JavaOpen, Objects, Calls
<1>2. /\ Live' = Live \cup {d} /\ d \notin Live
      /\ status' \in [Objects -> {"unused", "live", "freed"}]
      /\ held' \subseteq Live'
      /\ older' \in [Objects -> SUBSET Live']
      /\ \A e \in Objects : e \notin older'[e]
      /\ \A e, f \in Objects : f \in older'[e] => e \notin older'[f]
  BY <1>1, CreateLive
<1>3. \A i \in Iters : status'[i] = status[i] /\ older'[i] = older[i]
  BY <1>1 DEF Create, IInv, TypeOK, Objects
<1>4. \A e : ItersOf(e)' = ItersOf(e)
  BY <1>1, <1>3 DEF ItersOf, counting
<1>5. TypeOK'
  BY <1>1, <1>2, <1>3 DEF IInv, TypeOK, counting, database, buffers
<1>6. PointersGood'
  BY <1>1, <1>2, <1>4 DEF IInv, PointersGood, counting
<1>7. Ordered'
  BY <1>1, <1>2, <1>3 DEF IInv, Ordered, counting
<1>8. ClosedAreFreed' /\ NoneFailed' /\ BoxesSized'
  BY <1>1, <1>3 DEF IInv, ClosedAreFreed, NoneFailed, BoxesSized, database, buffers
<1>9. FreedFlushed'
  <2>1. \A e \in pending : status[e] = "live" => status'[e] = "live"
    BY <1>1 DEF Create, IInv, TypeOK, Objects
  <2> QED
    BY <1>1, <2>1 DEF IInv, FreedFlushed, database, buffers
<1> QED
  BY <1>5, <1>6, <1>7, <1>8, <1>9 DEF IInv

LEMMA BeginKeeps ==
  ASSUME IInv, NEW i \in Iters, NEW d \in KvDbs, JsBegin(i, d) \/ JavaBegin(i, d)
  PROVE  IInv'
<1>1. /\ Create(i) /\ i \in Objects /\ d \in Dbs /\ d \in Objects /\ d # i /\ d # NoDb
      /\ d \in Live
      /\ owner' = [owner EXCEPT ![i] = d]
      /\ UNCHANGED <<binding, phase, database, hooks, failed>>
      /\ phase = "running"
  BY HandleAssumption DEF JsBegin, JavaBegin, Objects, Dbs, Callable, Calls, Live
<1>2. /\ Live' = Live \cup {i} /\ i \notin Live
      /\ status' \in [Objects -> {"unused", "live", "freed"}]
      /\ held' \subseteq Live'
      /\ older' \in [Objects -> SUBSET Live']
      /\ \A e \in Objects : e \notin older'[e]
      /\ \A e, f \in Objects : f \in older'[e] => e \notin older'[f]
  BY <1>1, CreateLive
<1>3. \A c \in Objects : c # i => status'[c] = status[c] /\ older'[c] = older[c]
  BY <1>1 DEF Create, IInv, TypeOK
<1>4. status[i] = "unused" /\ status'[i] = "live" /\ older'[i] = Live
  BY <1>1 DEF Create, IInv, TypeOK
<1>5. owner' \in [Iters -> KvDbs \cup {NoDb}] /\ owner'[i] = d
      /\ \A j \in Iters : j # i => owner'[j] = owner[j]
  BY <1>1 DEF IInv, TypeOK
<1>6. i \notin ItersOf(d) /\ ItersOf(d)' = ItersOf(d) \cup {i}
  BY <1>3, <1>4, <1>5 DEF ItersOf, Objects
<1>7. \A e : e # d => ItersOf(e)' = ItersOf(e)
  BY <1>3, <1>4, <1>5 DEF ItersOf, Objects
<1>8. ASSUME JsBegin(i, d)
      PROVE  /\ refs' \in [Dbs -> Nat] /\ iterators' \in [Dbs -> SUBSET Iters]
             /\ PointersGood'
  <2>1. /\ refs' = [refs EXCEPT ![d] = @ + 1]
        /\ iterators' = [iterators EXCEPT ![d] = @ \cup {i}]
        /\ binding = "js"
    BY <1>8 DEF JsBegin, Calls
  <2>2. refs' \in [Dbs -> Nat] /\ iterators' \in [Dbs -> SUBSET Iters]
    BY <1>1, <2>1 DEF IInv, TypeOK
  <2>3. Cardinality(ItersOf(d)') = Cardinality(ItersOf(d)) + 1
    BY <1>6, ItersOfFinite, FS_AddElement
  <2>4. \A e \in Dbs : iterators'[e] = ItersOf(e)' /\ refs'[e] = Cardinality(ItersOf(e)')
    BY <1>1, <1>6, <1>7, <2>1, <2>3 DEF IInv, TypeOK, PointersGood
  <2>5. PointersGood'
    BY <1>1, <1>2, <1>5, <2>4, <2>1 DEF IInv, PointersGood
  <2> QED
    BY <2>2, <2>5
<1>9. ASSUME JavaBegin(i, d)
      PROVE  /\ refs' \in [Dbs -> Nat] /\ iterators' \in [Dbs -> SUBSET Iters]
             /\ PointersGood'
  <2>1. UNCHANGED <<refs, iterators>> /\ binding = "java"
    BY <1>9 DEF JavaBegin, Calls
  <2> QED
    BY <1>1, <2>1 DEF IInv, TypeOK, PointersGood
<1>10. /\ refs' \in [Dbs -> Nat] /\ iterators' \in [Dbs -> SUBSET Iters]
       /\ PointersGood'
  BY <1>8, <1>9 DEF IInv, TypeOK
<1>11. TypeOK'
  <2>1. \A j \in Iters : status'[j] = "unused" <=> owner'[j] = NoDb
    BY <1>1, <1>3, <1>4, <1>5 DEF IInv, TypeOK, Objects
  <2> QED
    BY <1>1, <1>2, <1>5, <1>10, <2>1 DEF IInv, TypeOK, database, buffers
<1>12. Ordered'
  <2>1. \A j \in Iters \cap Live' : binding' = "js" => owner'[j] \in older'[j]
    BY <1>1, <1>2, <1>3, <1>4, <1>5 DEF IInv, Ordered, Live
  <2> QED
    BY <1>2, <2>1 DEF Ordered
<1>13. ClosedAreFreed' /\ NoneFailed' /\ BoxesSized'
  BY <1>1, <1>3, <1>4 DEF IInv, ClosedAreFreed, NoneFailed, BoxesSized, database, buffers, Objects
<1>14. FreedFlushed'
  <2>1. \A e \in pending : e # i /\ e \in Objects
    BY HandleAssumption DEF IInv, TypeOK, Objects
  <2> QED
    BY <1>1, <1>3, <2>1 DEF IInv, FreedFlushed, database, buffers
<1> QED
  BY <1>10, <1>11, <1>12, <1>13, <1>14 DEF IInv

-----------------------------------------------------------------------------
(* An object is deleted. *)

\* It leaves the order, and the iterators of a database lose their files.
LEMMA FreeLive ==
  ASSUME IInv, NEW c \in Live, Free(c)
  PROVE  /\ Live' = Live \ {c} /\ c \in Objects
         /\ status' \in [Objects -> {"unused", "live", "freed"}]
         /\ status'[c] = "freed"
         /\ \A e \in Objects : e # c => status'[e] = status[e]
         /\ held' \subseteq Live'
         /\ older' \in [Objects -> SUBSET Live']
         /\ \A e \in Objects \ {c} : older'[e] = older[e] \ {c}
         /\ \A e \in Objects : e \notin older'[e]
         /\ \A e, f \in Objects : f \in older'[e] => e \notin older'[f]
         /\ view' \in [Iters -> {"mapped", "merged", "closed"}]
<1>1. c \in Objects
  BY DEF Live
<1>2. Live' = Live \ {c}
  BY <1>1 DEF Free, Live, IInv, TypeOK
<1>3. /\ status' \in [Objects -> {"unused", "live", "freed"}]
      /\ status'[c] = "freed"
      /\ \A e \in Objects : e # c => status'[e] = status[e]
  BY <1>1 DEF Free, IInv, TypeOK
<1>4. held' \subseteq Live'
  BY <1>2 DEF Free, IInv, TypeOK
<1>5. \A e \in Objects : older'[e] = IF e = c THEN {} ELSE older[e] \ {c}
  BY DEF Free
<1>6. \A e \in Objects : older'[e] \subseteq Live' /\ older'[e] \subseteq older[e]
  BY <1>2, <1>5 DEF IInv, TypeOK
<1>7. older' \in [Objects -> SUBSET Live']
  BY <1>6 DEF Free
<1>8. /\ \A e \in Objects : e \notin older'[e]
      /\ \A e, f \in Objects : f \in older'[e] => e \notin older'[f]
  BY <1>6 DEF IInv, Ordered
<1>9. view' \in [Iters -> {"mapped", "merged", "closed"}]
  BY DEF Free, IInv, TypeOK
<1> QED
  BY <1>1, <1>2, <1>3, <1>4, <1>5, <1>7, <1>8, <1>9

\* A database without iterators, with its hook: the finalizer, and in Java close.
LEMMA FreeDbKeeps ==
  ASSUME IInv, NEW d \in Dbs, d \in Live, Free(d), phase # "ended",
         UNCHANGED <<binding, phase, counting>>,
         binding = "js" => ItersOf(d) = {} /\ UNCHANGED failed /\ hooks' = hooks \ {d},
         binding = "java" => hooks' = hooks,
         \/ FlushBuffer(d) /\ UNCHANGED failed
         \/ (FlushBuffer(d) \/ UNCHANGED buffers) /\ failed' = failed \cup {d}
  PROVE  IInv'
<1>1. d \in Objects /\ d \notin Iters /\ d # NoDb
  BY HandleAssumption DEF Objects
<1>2. /\ Live' = Live \ {d}
      /\ status' \in [Objects -> {"unused", "live", "freed"}]
      /\ \A e \in Objects : e # d => status'[e] = status[e]
      /\ held' \subseteq Live'
      /\ older' \in [Objects -> SUBSET Live']
      /\ \A e \in Objects \ {d} : older'[e] = older[e] \ {d}
      /\ \A e \in Objects : e \notin older'[e]
      /\ \A e, f \in Objects : f \in older'[e] => e \notin older'[f]
      /\ view' \in [Iters -> {"mapped", "merged", "closed"}]
  BY FreeLive
<1>3. \A i \in Iters : status'[i] = status[i] /\ owner'[i] = owner[i]
  BY <1>1, <1>2 DEF counting, Objects
<1>4. \A e : ItersOf(e)' = ItersOf(e)
  BY <1>3 DEF ItersOf
<1>5. /\ pending' \subseteq pending /\ sized' \subseteq sized /\ sized' \subseteq pending' /\ BoxesSized'
      /\ d \in pending' => d \in failed' \/ d \in KvDbs \ sized'
      /\ binding \in {"js", "java"} /\ failed' \subseteq Dbs /\ pending' \subseteq Dbs /\ hooks' \subseteq Dbs
  <2>1. binding \in {"js", "java"} /\ failed' \subseteq Dbs /\ hooks' \subseteq Dbs
    BY DEF IInv, TypeOK
  <2>2. CASE FlushBuffer(d)
    BY <2>1, <2>2, FlushKeeps DEF BuffersGood
  <2>3. CASE UNCHANGED buffers /\ failed' = failed \cup {d}
    BY <2>1, <2>3 DEF buffers, BoxesSized, IInv, TypeOK
  <2> QED
    BY <2>2, <2>3
<1>6. TypeOK'
  BY <1>2, <1>3, <1>5 DEF IInv, TypeOK, counting
<1>7. binding = "js" => \A i \in Iters \cap Live' : i \in Live /\ owner[i] # d
  BY <1>2 DEF ItersOf, Live
<1>8. PointersGood'
  BY <1>2, <1>3, <1>4, <1>7 DEF IInv, PointersGood, counting
<1>9. Ordered'
  <2>1. binding = "js" => \A i \in Iters \cap Live' : owner'[i] \in older'[i]
    <3>1. SUFFICES ASSUME binding = "js", NEW i \in Iters \cap Live'
                   PROVE  owner'[i] \in older'[i]
      OBVIOUS
    <3>2. i \in Live /\ owner[i] # d /\ owner[i] \in older[i] /\ i \in Objects \ {d}
      BY <1>1, <1>7, <3>1 DEF IInv, Ordered, Objects
    <3> QED
      BY <1>2, <1>3, <3>2
  <2> QED
    BY <1>2, <2>1 DEF Ordered
<1>10. ClosedAreFreed'
  <2>1. SUFFICES ASSUME binding = "js", NEW i \in Iters, view'[i] = "closed"
                 PROVE  status'[i] = "freed"
    BY DEF ClosedAreFreed
  <2>2. CASE view[i] = "closed"
    BY <1>3, <2>1, <2>2 DEF IInv, ClosedAreFreed
  <2>3. CASE owner[i] = d
    <3>1. status[i] # "unused" /\ status[i] # "live" /\ status[i] \in {"unused", "live", "freed"}
      BY <1>1, <2>1, <2>3 DEF IInv, TypeOK, ItersOf, Objects
    <3> QED
      BY <1>3, <3>1
  <2> QED
    BY <2>1, <2>2, <2>3 DEF Free
<1>11. FreedFlushed' /\ NoneFailed'
  <2>1. failed \subseteq failed'
    OBVIOUS
  <2>2. \A e \in pending' : status'[e] = "live" \/ e \in failed' \/ e \in KvDbs \ sized'
    BY <1>2, <1>5, <2>1 DEF IInv, FreedFlushed, TypeOK, Objects
  <2> QED
    BY <2>2 DEF IInv, FreedFlushed, NoneFailed, TypeOK
<1> QED
  BY <1>5, <1>6, <1>8, <1>9, <1>10, <1>11 DEF IInv

LEMMA FreeItrKeeps ==
  ASSUME IInv, NEW i \in Iters, i \in Live, Free(i), phase # "ended",
         UNCHANGED <<binding, phase, buffers, owner, hooks, failed>>,
         \/ /\ binding = "js"
            /\ iterators' = [iterators EXCEPT ![owner[i]] = @ \ {i}]
            /\ refs' = [refs EXCEPT ![owner[i]] = @ - 1]
         \/ binding = "java" /\ UNCHANGED <<iterators, refs>>
  PROVE  IInv'
<1>1. i \in Objects /\ owner[i] \in KvDbs /\ owner[i] \in Dbs /\ i \notin Dbs
  BY HandleAssumption DEF Objects, Dbs, IInv, TypeOK, Live
<1>2. /\ Live' = Live \ {i}
      /\ status' \in [Objects -> {"unused", "live", "freed"}]
      /\ status'[i] = "freed"
      /\ \A e \in Objects : e # i => status'[e] = status[e]
      /\ held' \subseteq Live'
      /\ older' \in [Objects -> SUBSET Live']
      /\ \A e \in Objects \ {i} : older'[e] = older[e] \ {i}
      /\ \A e \in Objects : e \notin older'[e]
      /\ \A e, f \in Objects : f \in older'[e] => e \notin older'[f]
      /\ view' \in [Iters -> {"mapped", "merged", "closed"}]
  BY FreeLive
<1>3. \A e : ItersOf(e)' = ItersOf(e) \ {i}
  BY <1>2 DEF ItersOf, Objects
<1>4. \A j \in Iters : owner[j] # i
  BY <1>1, HandleAssumption DEF IInv, TypeOK, Dbs
<1>5. view' = view
  BY <1>4 DEF Free, IInv, TypeOK
<1>6. ASSUME binding = "js"
      PROVE  /\ refs' \in [Dbs -> Nat] /\ iterators' \in [Dbs -> SUBSET Iters]
             /\ PointersGood'
  <2> DEFINE d == owner[i]
  <2>1. i \in ItersOf(d) /\ \A e : e # d => i \notin ItersOf(e)
    BY DEF ItersOf, Live
  <2>2. /\ Cardinality(ItersOf(d) \ {i}) = Cardinality(ItersOf(d)) - 1
        /\ Cardinality(ItersOf(d) \ {i}) \in Nat
    BY <2>1, ItersOfFinite, FS_RemoveElement, FS_CardinalityType, FS_Subset
  <2>3. /\ iterators' = [iterators EXCEPT ![d] = @ \ {i}]
        /\ refs' = [refs EXCEPT ![d] = @ - 1]
    BY <1>6
  <2>4. \A e \in Dbs : iterators[e] = ItersOf(e) /\ refs[e] = Cardinality(ItersOf(e))
    BY <1>6 DEF IInv, PointersGood
  <2>5. \A e \in Dbs : /\ iterators'[e] = IF e = d THEN ItersOf(d) \ {i} ELSE ItersOf(e)
                       /\ refs'[e] = IF e = d THEN Cardinality(ItersOf(d) \ {i}) ELSE Cardinality(ItersOf(e))
    BY <2>2, <2>3, <2>4 DEF IInv, TypeOK
  <2>6. \A e \in Dbs : e # d => ItersOf(e) \ {i} = ItersOf(e)
    BY <2>1
  <2>7. \A e \in Dbs : iterators'[e] = ItersOf(e)' /\ refs'[e] = Cardinality(ItersOf(e)')
    BY <1>3, <2>5, <2>6
  <2>8. refs' \in [Dbs -> Nat] /\ iterators' \in [Dbs -> SUBSET Iters]
    <3>1. \A e \in Dbs : ItersOf(e) \subseteq Iters /\ Cardinality(ItersOf(e)) \in Nat
      BY ItersOfFinite DEF ItersOf
    <3>2. \A e \in Dbs : refs'[e] \in Nat /\ iterators'[e] \subseteq Iters
      BY <2>2, <2>5, <3>1
    <3> QED
      BY <2>3, <3>2 DEF IInv, TypeOK
  <2>9. \A j \in Iters \cap Live' : owner'[j] \in Live'
    BY <1>2, <1>4, <1>6 DEF IInv, PointersGood
  <2>10. hooks' \subseteq Live'
    BY <1>1, <1>2, <1>6 DEF IInv, PointersGood, TypeOK
  <2>11. PointersGood'
    BY <2>7, <2>9, <2>10 DEF PointersGood
  <2> QED
    BY <2>8, <2>11
<1>7. ASSUME binding = "java"
      PROVE  /\ refs' \in [Dbs -> Nat] /\ iterators' \in [Dbs -> SUBSET Iters]
             /\ PointersGood'
  BY <1>7 DEF IInv, TypeOK, PointersGood
<1>8. refs' \in [Dbs -> Nat] /\ iterators' \in [Dbs -> SUBSET Iters] /\ PointersGood'
  BY <1>6, <1>7 DEF IInv, TypeOK
<1>9. TypeOK'
  <2>1. \A j \in Iters : status'[j] = "unused" <=> owner'[j] = NoDb
    BY <1>1, <1>2, HandleAssumption DEF IInv, TypeOK, Objects
  <2> QED
    BY <1>2, <1>8, <2>1 DEF IInv, TypeOK, buffers
<1>10. Ordered'
  <2>1. binding = "js" => \A j \in Iters \cap Live' : owner'[j] \in older'[j]
    BY <1>2, <1>4 DEF IInv, Ordered, Live
  <2> QED
    BY <1>2, <2>1 DEF Ordered
<1>11. ClosedAreFreed' /\ NoneFailed' /\ BoxesSized'
  BY <1>2, <1>5 DEF IInv, ClosedAreFreed, NoneFailed, BoxesSized, buffers, Objects
<1>12. FreedFlushed'
  <2>1. \A e \in pending : e # i /\ e \in Objects
    BY <1>1 DEF IInv, TypeOK, Objects
  <2> QED
    BY <1>2, <2>1 DEF IInv, FreedFlushed, buffers
<1> QED
  BY <1>8, <1>9, <1>10, <1>11, <1>12 DEF IInv

-----------------------------------------------------------------------------
(* The environment. *)

LEMMA DropKeeps == ASSUME IInv, NEW c \in Objects, Drop(c) PROVE IInv'
<1>1. /\ UNCHANGED <<binding, phase, status, database, counting, hooks, older, failed>>
      /\ held' \subseteq held /\ phase = "running"
  BY DEF Drop, Calls
<1>2. BuffersGood
  BY <1>1 DEF BuffersGood, BoxesSized, IInv, TypeOK, database, buffers
<1> QED
  BY <1>1, <1>2, ObjectsKeep DEF IInv, TypeOK, ClosedAreFreed, database

\* The next phase; when it is "ended" in JavaScript, every object is freed, and
\* what has been freed was flushed, but for entries without a size.
LEMMA PhaseKeeps == ASSUME IInv, Leave \/ EndStep PROVE IInv'
<1>1. /\ UNCHANGED <<binding, status, held, database, counting, hooks, older, failed>>
      /\ phase' \in {"hooks", "finalizing", "ended"}
      /\ binding = "js" /\ phase' = "ended" => Live = {}
  BY DEF Leave, EndStep
<1>2. Live' = Live /\ \A d : ItersOf(d)' = ItersOf(d)
  BY <1>1 DEF Live, ItersOf, counting
<1>3. TypeOK'
  BY <1>1, <1>2 DEF IInv, TypeOK, counting, database, buffers
<1>4. PointersGood'
  BY <1>1, <1>2 DEF IInv, PointersGood, counting
<1>5. Ordered'
  BY <1>1, <1>2 DEF IInv, Ordered, counting
<1>6. ClosedAreFreed' /\ NoneFailed' /\ BoxesSized'
  BY <1>1 DEF IInv, NoneFailed, ClosedAreFreed, BoxesSized, database, buffers
<1>7. FreedFlushed'
  <2>1. \A d \in pending' : status'[d] = "live" \/ d \in failed' \/ d \in KvDbs \ sized'
    BY <1>1 DEF IInv, FreedFlushed, database, buffers
  <2>2. binding' = "js" /\ phase' = "ended" => Live' = {} /\ pending' \subseteq KvDbs \ sized'
    BY <1>1, <1>2, <2>1 DEF IInv, TypeOK, NoneFailed, Live, Objects, database, buffers
  <2> QED
    BY <2>1, <2>2 DEF FreedFlushed
<1> QED
  BY <1>3, <1>4, <1>5, <1>6, <1>7 DEF IInv

LEMMA InitIInv == Init => IInv
<1>1. SUFFICES ASSUME Init PROVE IInv
  OBVIOUS
<1>2. Live = {} /\ \A d : ItersOf(d) = {}
  BY <1>1 DEF Init, Live, ItersOf, Objects
<1>3. Cardinality({}) = 0
  BY FS_EmptySet
<1>4. TypeOK
  BY <1>1, <1>2 DEF Init, TypeOK, Objects
<1>5. PointersGood
  BY <1>1, <1>2, <1>3 DEF Init, PointersGood
<1>6. Ordered /\ ClosedAreFreed /\ FreedFlushed /\ NoneFailed /\ BoxesSized
  BY <1>1, <1>2 DEF Init, Ordered, ClosedAreFreed, FreedFlushed, NoneFailed, BoxesSized
<1> QED
  BY <1>4, <1>5, <1>6 DEF IInv

LEMMA JsKeeps == ASSUME IInv, Js PROVE IInv'
<1>1. CASE \E d \in Dbs : JsOpen(d)
  BY <1>1, OpenKeeps
<1>2. CASE \E d \in Dbs : FinalizeDb(d)
  <2>1. PICK d \in Dbs : FinalizeDb(d)
    BY <1>2
  <2>2. CASE Die
    BY <2>2, DieKeeps
  <2>3. CASE /\ FlushBuffer(d) /\ Free(d) /\ hooks' = hooks \ {d}
             /\ UNCHANGED <<binding, phase, counting, failed>>
    <3>1. d \in Live /\ ItersOf(d) = {} /\ phase # "ended" /\ binding = "js"
      BY <2>1, FinalizedUnused DEF FinalizeDb, Finalizable, Live, Objects
    <3> QED
      BY <2>3, <3>1, FreeDbKeeps
  <2> QED
    BY <2>1, <2>2, <2>3 DEF FinalizeDb
<1>3. CASE \E d \in Dbs : RunHook(d)
  <2>1. PICK d \in Dbs : RunHook(d)
    BY <1>3
  <2>2. CASE Die
    BY <2>2, DieKeeps
  <2>3. CASE /\ FlushBuffer(d) /\ MayMerge(d) /\ hooks' = hooks \ {d}
             /\ UNCHANGED <<binding, phase, status, held, counting, older, failed>>
    <3>1. view' \in [Iters -> {"mapped", "merged", "closed"}] /\ ClosedAreFreed'
      BY <2>3, MergeKeeps
    <3>2. phase # "ended" /\ BuffersGood
      BY <2>1, <2>3, FlushKeeps DEF RunHook
    <3> QED
      BY <2>3, <3>1, <3>2, ObjectsKeep
  <2> QED
    BY <2>1, <2>2, <2>3 DEF RunHook
<1>4. CASE \E d \in Dbs : JsAdd(d) \/ JsFlush(d) \/ JsHr(d)
  BY <1>4, AddKeeps DEF JsAdd, JsFlush, JsHr, Calls
<1>5. CASE \E i \in Iters : JsRead(i)
  BY <1>5, DieKeeps DEF JsRead
<1>6. CASE \E i \in Iters : FinalizeItr(i)
  <2>1. PICK i \in Iters : FinalizeItr(i)
    BY <1>6
  <2>2. i \in Live /\ phase # "ended" /\ binding = "js"
    BY <2>1 DEF FinalizeItr, Finalizable, Live, Objects
  <2> QED
    BY <2>1, <2>2, FreeItrKeeps DEF FinalizeItr
<1>7. CASE \E i \in Iters, d \in KvDbs : JsBegin(i, d)
  BY <1>7, BeginKeeps
<1>8. CASE \E c \in Objects : Drop(c)
  BY <1>8, DropKeeps
<1>9. CASE EndStep
  BY <1>9, PhaseKeeps
<1> QED
  BY <1>1, <1>2, <1>3, <1>4, <1>5, <1>6, <1>7, <1>8, <1>9 DEF Js, Dbs

LEMMA JavaKeeps == ASSUME IInv, Java PROVE IInv'
<1>1. CASE \E d \in Dbs : JavaOpen(d)
  BY <1>1, OpenKeeps
<1>2. CASE \E d \in Dbs : JavaClose(d)
  <2>1. PICK d \in Dbs : JavaClose(d)
    BY <1>2
  <2>2. d \in Live /\ phase # "ended" /\ binding = "java"
    BY <2>1 DEF JavaClose, Calls, Callable, Live, Objects
  <2> QED
    BY <2>1, <2>2, FreeDbKeeps DEF JavaClose
<1>3. CASE \E d \in Dbs : JavaAdd(d) \/ JavaFlush(d) \/ JavaHr(d)
  BY <1>3, AddKeeps DEF JavaAdd, JavaFlush, JavaHr, Calls
<1>4. CASE \E i \in Iters : JavaRead(i)
  BY <1>4, DieKeeps DEF JavaRead
<1>5. CASE \E i \in Iters : JavaCloseItr(i)
  <2>1. PICK i \in Iters : JavaCloseItr(i)
    BY <1>5
  <2>2. i \in Live /\ phase # "ended" /\ binding = "java"
    BY <2>1 DEF JavaCloseItr, Calls, Callable, Live, Objects
  <2> QED
    BY <2>1, <2>2, FreeItrKeeps DEF JavaCloseItr, counting
<1>6. CASE \E i \in Iters, d \in KvDbs : JavaBegin(i, d)
  BY <1>6, BeginKeeps
<1> QED
  BY <1>1, <1>2, <1>3, <1>4, <1>5, <1>6 DEF Java, Dbs

LEMMA StutterKeeps == ASSUME IInv, UNCHANGED vars PROVE IInv'
<1>1. Live' = Live /\ \A d : ItersOf(d)' = ItersOf(d)
  BY DEF vars, Live, ItersOf, counting
<1>2. TypeOK' /\ PointersGood'
  BY <1>1 DEF vars, IInv, TypeOK, PointersGood, counting, database, buffers
<1>3. Ordered' /\ FreedFlushed' /\ NoneFailed' /\ ClosedAreFreed' /\ BoxesSized'
  BY <1>1 DEF vars, IInv, Ordered, FreedFlushed, NoneFailed, ClosedAreFreed, BoxesSized,
              counting, database, buffers
<1> QED
  BY <1>2, <1>3 DEF IInv

\* Every step of a binding keeps the native objects, the pointers between them
\* and the order of their creation in agreement.
THEOREM HandlesInductive == Spec => []IInv
<1>1. ASSUME IInv, [Next]_vars PROVE IInv'
  <2>1. CASE Leave
    BY <1>1, <2>1, PhaseKeeps
  <2> QED
    BY <1>1, <2>1, JsKeeps, JavaKeeps, StutterKeeps DEF Next, Ended
<1> QED
  BY <1>1, InitIInv, PTL DEF Spec

\* However the handles of a script are dropped, collected and freed at the end of
\* its environment, no finalizer and no cleanup hook meets an object that is gone,
\* and a database lives as long as its iterators (contexts.hpp, both finalize_cb).
THEOREM PointersSound == Spec => []PointersGood
<1>1. IInv => PointersGood
  BY DEF IInv
<1> QED
  BY <1>1, HandlesInductive, PTL

\* The state has its type: above all, no count of references goes below zero
\* (contexts.hpp, unref).
THEOREM HandlesTyped == Spec => []TypeOK
<1>1. IInv => TypeOK
  BY DEF IInv
<1> QED
  BY <1>1, HandlesInductive, PTL

\* No live iterator of a script in JavaScript lost its files to the end of its
\* database (contexts.hpp, ref).
THEOREM IteratorsKeepDb == Spec => []IteratorsReadable
<1>1. IInv => IteratorsReadable
  BY DEF IInv, ClosedAreFreed, IteratorsReadable, Live
<1> QED
  BY <1>1, HandlesInductive, PTL

\* No database is deleted with entries that have not been flushed, unless the
\* caller of close was told, or these entries are ones of a key-value database
\* whose keys and values are all empty (contexts.hpp, finalize_cb; kvdb_close;
\* kvdb.hpp:287).
THEOREM FreedSound == Spec => []FreedFlushed
<1>1. IInv => FreedFlushed
  BY DEF IInv
<1> QED
  BY <1>1, HandlesInductive, PTL

-----------------------------------------------------------------------------
(* Why the end of an environment is never stuck, and comes nearer with each  *)
(* step. That the runtime takes the steps is what TeardownEnds assumes.      *)

\* The order of creation is total, and there are finitely many live objects.
Lined ==
  /\ IsFiniteSet(Live)
  /\ \A c, e \in Live : c = e \/ c \in older[e] \/ e \in older[c]
  /\ \A c, e, f \in Live : c \in older[e] /\ e \in older[f] => c \in older[f]

\* Only the environment of JavaScript ends in steps.
EndsInJs == phase \in {"hooks", "finalizing"} => binding = "js"

\* There is a hook to run, or a handle to finalize, until none is left.
EndHasNext ==
  /\ phase = "hooks" => hooks = {} \/ \E d \in Dbs : d \in Youngest(hooks)
  /\ phase = "finalizing" => Live = {} \/ \E c \in Objects : Finalizable(c)

\* A step of the end goes on to a later phase, or leaves a hook less to run, or
\* an object less to finalize.
EndGoesOn ==
  Ending =>
    \/ phase = "hooks" /\ phase' \in {"finalizing", "died"}
    \/ phase = "finalizing" /\ phase' \in {"ended", "died"}
    \/ phase = "hooks" /\ UNCHANGED phase /\ Cardinality(hooks') = Cardinality(hooks) - 1
    \/ phase = "finalizing" /\ UNCHANGED phase /\ Cardinality(Live') = Cardinality(Live) - 1

LEMMA CreateLined == ASSUME IInv, Lined, NEW c \in Objects, Create(c) PROVE Lined'
<1>1. Live' = Live \cup {c} /\ c \notin Live
  BY CreateLive
<1>2. IsFiniteSet(Live')
  BY <1>1, FS_AddElement DEF Lined
<1>3. \A e \in Objects : older'[e] = IF e = c THEN Live ELSE older[e]
  BY DEF Create, IInv, TypeOK
<1>4. \A e \in Objects : older[e] \subseteq Live
  BY DEF IInv, TypeOK
<1>5. Live \subseteq Objects
  BY DEF Live
<1>6. \A e, f \in Live' : e = f \/ e \in older'[f] \/ f \in older'[e]
  BY <1>1, <1>3, <1>5 DEF Lined
<1>7. \A d, e, f \in Live' : d \in older'[e] /\ e \in older'[f] => d \in older'[f]
  BY <1>1, <1>3, <1>4, <1>5 DEF Lined
<1> QED BY <1>2, <1>6, <1>7 DEF Lined

LEMMA FreeLined == ASSUME IInv, Lined, NEW c \in Live, Free(c) PROVE Lined'
<1>1. Live' = Live \ {c} /\ \A e \in Objects \ {c} : older'[e] = older[e] \ {c}
  BY FreeLive
<1>2. IsFiniteSet(Live')
  BY <1>1, FS_Subset DEF Lined
<1>3. \A e \in Live' : older'[e] = older[e] \ {c} /\ e \in Live /\ e # c
  BY <1>1 DEF Live
<1> QED BY <1>2, <1>3 DEF Lined

\* A step that neither makes nor frees an object.
LEMMA SameLined == ASSUME Lined, UNCHANGED <<status, older>> PROVE Lined'
<1>1. Live' = Live
  BY DEF Live
<1> QED BY <1>1 DEF Lined

LEMMA LinedStep == ASSUME IInv, Lined, [Next]_vars PROVE Lined'
<1>1. CASE \E c \in Objects : Create(c)
  BY <1>1, CreateLined
<1>2. CASE \E c \in Live : Free(c)
  BY <1>2, FreeLined
<1>3. CASE UNCHANGED <<status, older>>
  BY <1>3, SameLined
<1>4. \/ \E c \in Objects : Create(c)
      \/ \E c \in Live : Free(c)
      \/ UNCHANGED <<status, older>>
  <2>1. CASE Js
    <3>1. CASE \E d \in Dbs : JsOpen(d) \/ FinalizeDb(d) \/ RunHook(d)
      BY <3>1 DEF JsOpen, FinalizeDb, RunHook, Die, Finalizable, Live, Objects
    <3>2. CASE (\E d \in KvDbs : JsAdd(d) \/ JsFlush(d)) \/ (\E d \in HrDbs : JsHr(d))
      BY <3>2 DEF JsAdd, JsFlush, JsHr, AddEntry, FlushEntries
    <3>3. CASE \E i \in Iters : JsRead(i) \/ FinalizeItr(i)
      BY <3>3 DEF JsRead, FinalizeItr, Die, Finalizable, Live, Objects
    <3>4. CASE \E i \in Iters, d \in KvDbs : JsBegin(i, d)
      BY <3>4 DEF JsBegin, Objects
    <3>5. CASE (\E c \in Objects : Drop(c)) \/ EndStep
      BY <3>5 DEF Drop, EndStep
    <3> QED BY <2>1, <3>1, <3>2, <3>3, <3>4, <3>5 DEF Js
  <2>2. CASE Java
    <3>1. CASE \E d \in Dbs : JavaOpen(d) \/ JavaClose(d)
      BY <3>1 DEF JavaOpen, JavaClose, Callable, Live, Objects
    <3>2. CASE (\E d \in KvDbs : JavaAdd(d) \/ JavaFlush(d)) \/ (\E d \in HrDbs : JavaHr(d))
      BY <3>2 DEF JavaAdd, JavaFlush, JavaHr, AddEntry, FlushEntries
    <3>3. CASE \E i \in Iters : JavaRead(i) \/ JavaCloseItr(i)
      BY <3>3 DEF JavaRead, JavaCloseItr, Die, Callable, Live, Objects
    <3>4. CASE \E i \in Iters, d \in KvDbs : JavaBegin(i, d)
      BY <3>4 DEF JavaBegin, Objects
    <3> QED BY <2>2, <3>1, <3>2, <3>3, <3>4 DEF Java
  <2>3. CASE Leave \/ Ended \/ UNCHANGED vars
    BY <2>3 DEF Leave, Ended, vars
  <2> QED BY <2>1, <2>2, <2>3 DEF Next
<1> QED BY <1>1, <1>2, <1>3, <1>4

LEMMA AlwaysLined == Spec => []Lined
<1>1. ASSUME Init PROVE Lined
  <2>1. Live = {}
    BY <1>1 DEF Init, Live, Objects
  <2> QED BY <2>1, FS_EmptySet DEF Lined
<1> QED BY <1>1, LinedStep, HandlesInductive, PTL DEF Spec

LEMMA JsPhases ==
  ASSUME Js, EndsInJs
  PROVE  UNCHANGED binding /\ (phase' = phase \/ phase' \in {"died", "ended"} \/ binding = "js")
<1>1. CASE \E d \in Dbs : JsOpen(d) \/ FinalizeDb(d) \/ RunHook(d)
  BY <1>1 DEF JsOpen, FinalizeDb, RunHook, Die
<1>2. CASE (\E d \in KvDbs : JsAdd(d) \/ JsFlush(d)) \/ (\E d \in HrDbs : JsHr(d))
  BY <1>2 DEF JsAdd, JsFlush, JsHr, AddEntry, FlushEntries
<1>3. CASE \E i \in Iters : JsRead(i) \/ FinalizeItr(i)
  BY <1>3 DEF JsRead, FinalizeItr, Die
<1>4. CASE \E i \in Iters, d \in KvDbs : JsBegin(i, d)
  BY <1>4 DEF JsBegin
<1>5. CASE (\E c \in Objects : Drop(c)) \/ EndStep
  BY <1>5 DEF Drop, EndStep, EndsInJs
<1> QED BY <1>1, <1>2, <1>3, <1>4, <1>5 DEF Js

LEMMA JavaPhases ==
  ASSUME Java
  PROVE  UNCHANGED binding /\ (phase' = phase \/ phase' \in {"died", "ended"})
<1>1. CASE \E d \in Dbs : JavaOpen(d) \/ JavaClose(d)
  BY <1>1 DEF JavaOpen, JavaClose
<1>2. CASE (\E d \in KvDbs : JavaAdd(d) \/ JavaFlush(d)) \/ (\E d \in HrDbs : JavaHr(d))
  BY <1>2 DEF JavaAdd, JavaFlush, JavaHr, AddEntry, FlushEntries
<1>3. CASE \E i \in Iters : JavaRead(i) \/ JavaCloseItr(i)
  BY <1>3 DEF JavaRead, JavaCloseItr, Die
<1>4. CASE \E i \in Iters, d \in KvDbs : JavaBegin(i, d)
  BY <1>4 DEF JavaBegin
<1> QED BY <1>1, <1>2, <1>3, <1>4 DEF Java

LEMMA AlwaysInJs == Spec => []EndsInJs
<1>1. Init => EndsInJs
  BY DEF Init, EndsInJs
<1>2. ASSUME EndsInJs, [Next]_vars PROVE EndsInJs'
  <2>1. UNCHANGED binding /\ (phase' = phase \/ phase' \in {"died", "ended"} \/ binding = "js")
    <3>1. CASE Js
      BY <1>2, <3>1, JsPhases
    <3>2. CASE Java
      BY <3>2, JavaPhases
    <3>3. CASE Leave \/ Ended \/ UNCHANGED vars
      BY <3>3 DEF Leave, Ended, vars
    <3> QED BY <1>2, <3>1, <3>2, <3>3 DEF Next
  <2> QED BY <1>2, <2>1 DEF EndsInJs
<1> QED BY <1>1, <1>2, PTL DEF Spec

\* Among live objects there is one that is younger than all others: the one that
\* most of them are older than.
LEMMA YoungestExists ==
  ASSUME IInv, Lined, NEW S, S \subseteq Live, S # {}
  PROVE  Youngest(S) # {}
<1>1. \A c \in S : c \in Objects /\ c \in Live /\ older[c] \subseteq Live
  BY DEF IInv, TypeOK, Live
<1>2. \A c \in S : IsFiniteSet(older[c])
  BY <1>1, FS_Subset DEF Lined
<1>3. \A c \in S : /\ Cardinality(older[c]) \in Nat /\ Cardinality(Live) \in Nat
                   /\ Cardinality(older[c]) <= Cardinality(Live)
  BY <1>1, <1>2, FS_CardinalityType, FS_Subset DEF Lined
<1> DEFINE younger(c) == Cardinality(Live) - Cardinality(older[c])
           P == {younger(c) : c \in S}
<1>4. P \subseteq Nat /\ P # {}
  BY <1>3
<1>5. PICK c \in S : \A e \in S : younger(c) <= younger(e)
  <2>1. PICK p \in P : \A q \in P : p <= q
    <3> HIDE DEF P
    <3>1. PICK m \in P : \A n \in P : ~(<<n, m>> \in OpToRel(<, Nat))
      BY <1>4, WFMin, NatLessThanWellFounded, Zenon
    <3>2. \A n \in P : ~(n < m)
      BY <1>4, <3>1 DEF OpToRel
    <3> QED BY <1>4, <3>2
  <2>2. PICK c \in S : p = younger(c)
    OBVIOUS
  <2>3. \A e \in S : younger(e) \in P
    OBVIOUS
  <2> HIDE DEF younger, P
  <2> QED BY <2>1, <2>2, <2>3
<1>6. ASSUME NEW e \in S \ {c}, e \notin older[c] PROVE FALSE
  <2>1. c \in older[e]
    BY <1>1, <1>6 DEF Lined
  <2>2. older[c] \subseteq older[e]
    BY <1>1, <1>6, <2>1 DEF Lined
  <2>3. c \notin older[c]
    BY <1>1 DEF IInv, Ordered
  <2>4. Cardinality(older[c]) < Cardinality(older[e])
    <3>1. older[c] # older[e]
      BY <2>1, <2>3
    <3>2. IsFiniteSet(older[e])
      BY <1>2, <1>6
    <3>3. /\ Cardinality(older[c]) <= Cardinality(older[e])
          /\ Cardinality(older[c]) # Cardinality(older[e])
      BY <2>2, <3>1, <3>2, FS_Subset
    <3> QED BY <1>3, <1>6, <3>3
  <2>5. younger(c) <= younger(e)
    BY <1>5, <1>6
  <2> QED BY <1>3, <1>6, <2>4, <2>5
<1>7. c \in Youngest(S)
  BY <1>6 DEF Youngest
<1> QED BY <1>7

\* The end of an environment is never stuck: as long as there are hooks to run or
\* handles to finalize, one of them is the newest, which the runtime takes next.
THEOREM TeardownNotStuck == Spec => []EndHasNext
<1>1. ASSUME IInv, Lined, EndsInJs PROVE EndHasNext
  <2>1. ASSUME phase = "hooks", hooks # {} PROVE \E d \in Dbs : d \in Youngest(hooks)
    <3>1. binding = "js"
      BY <1>1, <2>1 DEF EndsInJs
    <3>2. hooks \subseteq Live /\ hooks \subseteq Dbs
      BY <1>1, <3>1 DEF IInv, PointersGood, TypeOK
    <3> QED BY <1>1, <2>1, <3>2, YoungestExists DEF Youngest
  <2>2. ASSUME phase = "finalizing", Live # {} PROVE \E c \in Objects : Finalizable(c)
    <3>1. Youngest(Live) # {} /\ Youngest(Live) \subseteq Live
      BY <1>1, <2>2, YoungestExists DEF Youngest
    <3>2. binding = "js"
      BY <1>1, <2>2 DEF EndsInJs
    <3> QED BY <2>2, <3>1, <3>2 DEF Finalizable, Live
  <2> QED BY <2>1, <2>2 DEF EndHasNext
<1> QED BY <1>1, HandlesInductive, AlwaysLined, AlwaysInJs, PTL

\* Every step of the end brings it nearer: it takes at most as many steps as there
\* are hooks and objects, and two more.
THEOREM TeardownGoesOn == Spec => [][EndGoesOn]_vars
<1>1. ASSUME IInv, Lined, EndsInJs PROVE EndGoesOn
  <2>1. ASSUME NEW d \in Dbs, RunHook(d), phase' # "died"
        PROVE  phase = "hooks" /\ UNCHANGED phase /\ Cardinality(hooks') = Cardinality(hooks) - 1
    <3>1. phase = "hooks" /\ UNCHANGED phase /\ d \in hooks /\ hooks' = hooks \ {d}
      BY <2>1 DEF RunHook, Die, Youngest
    <3>2. hooks \subseteq Live
      BY <1>1, <3>1 DEF IInv, PointersGood, EndsInJs
    <3>3. IsFiniteSet(hooks)
      BY <1>1, <3>2, FS_Subset DEF Lined
    <3> QED BY <3>1, <3>3, FS_RemoveElement
  <2>2. ASSUME NEW c \in Live, Free(c)
        PROVE  Cardinality(Live') = Cardinality(Live) - 1
    <3>1. Live' = Live \ {c}
      BY <1>1, <2>2, FreeLive
    <3> QED BY <1>1, <2>2, <3>1, FS_RemoveElement DEF Lined
  <2>3. ASSUME NEW d \in Dbs, FinalizeDb(d), phase = "finalizing", phase' # "died"
        PROVE  UNCHANGED phase /\ \E c \in Live : Free(c)
    BY <2>3 DEF FinalizeDb, Finalizable, Die, Live, Objects
  <2>4. ASSUME NEW i \in Iters, FinalizeItr(i)
        PROVE  UNCHANGED phase /\ \E c \in Live : Free(c)
    BY <2>4 DEF FinalizeItr, Finalizable, Live, Objects
  <2>5. ASSUME EndStep
        PROVE  \/ phase = "hooks" /\ phase' = "finalizing"
               \/ phase = "finalizing" /\ phase' = "ended"
    BY <2>5 DEF EndStep
  <2>6. \A d \in Dbs : RunHook(d) => phase = "hooks"
    BY DEF RunHook
  <2> QED BY <2>1, <2>2, <2>3, <2>4, <2>5, <2>6 DEF EndGoesOn, Ending
<1> QED BY <1>1, HandlesInductive, AlwaysLined, AlwaysInJs, PTL

=============================================================================
