-------------------------------- MODULE KvDb --------------------------------
(***************************************************************************)
(* The ninedb key-value database: an in-memory buffer, a directory of      *)
(* immutable PBT files, and the level manager that decides which files a   *)
(* flush or a compaction merges (kvdb.hpp, level_manager.hpp).             *)
(*                                                                         *)
(* The calls add, flush and compact are split at the points where the      *)
(* directory changes, because the process may stop, or the code may throw, *)
(* between any two of those points:                                        *)
(*                                                                         *)
(*   idle --Flush/Compact/Add--> writing --WriteFlush--> planning          *)
(*        --PlanCascade/PlanFull--> merging --WriteMerge--> removing       *)
(*        --RemoveSource--> ... --> idle                                   *)
(*                                                                         *)
(* An entry is abstracted to the order number of its add; a file to its    *)
(* name, the validity of its footer, and the set of entries it holds.      *)
(* Keys, values and the order inside a file do not matter to which files   *)
(* exist when: the modules about queries and trees look at them.           *)
(***************************************************************************)
EXTENDS Integers, Sequences, FiniteSets

CONSTANTS
  MaxBufferSize,  \* Config::max_buffer_size
  MaxLevelCount,  \* Config::max_level_count
  EntrySizes,     \* the sizes (key plus value bytes) an added entry may have
  OpenModes,      \* the combinations of flags the caller opens with
  CrashPoints,    \* the values of pc at which the process may die
  ThrowPoints,    \* the values of pc at which an exception may be thrown
  MaxAdds,        \* bound: the number of add calls in a behaviour
  MaxTorn         \* bound: how often the removal of merged files is cut short

Steps == {"writing", "planning", "merging", "removing"}
Modes == [error_if_exists : BOOLEAN, delete_if_exists : BOOLEAN, create_if_missing : BOOLEAN]

ASSUME ConfigAssumption ==
  /\ MaxBufferSize \in Nat
  /\ MaxLevelCount \in Nat \ {0}
  /\ MaxAdds \in Nat /\ MaxTorn \in Nat
  /\ EntrySizes \subseteq Nat
  /\ OpenModes \subseteq Modes
  /\ CrashPoints \subseteq Steps
  /\ ThrowPoints \subseteq Steps

VARIABLES
  dir,        \* whether the database directory exists
  disk,       \* the files in it: a function from file names to contents
  readers,    \* KvDb::readers: the names of the files that are open for reading
  levels,     \* State::levels: levels[l + 1] lists the indices of level l
  nextIndex,  \* State::next_index
  buffer,     \* Buffer::buffer: the entries not yet flushed
  bufSize,    \* Buffer::size
  merge,      \* the MergeOperation being performed
  todo,       \* its source files that are still to be removed
  pc,         \* how far the current call has come
  call,       \* the current call; an add that flushes is a "flush"
  added,      \* ghost: the number of adds so far, and so the newest entry
  durable,    \* ghost: the entries that a flush has written to the directory
  torn        \* ghost: how often the removal of merged files was cut short in this
              \* directory, which leaves sources beside the file merged from them

memory == <<readers, levels, nextIndex, buffer, bufSize, merge, todo>>
ghosts == <<added, durable, torn>>
vars == <<dir, disk, memory, pc, call, ghosts>>

-----------------------------------------------------------------------------
(* Files and levels. *)

\* A file name is an index and a level, <<index, level>> ("%020d-%08d.pbt").
Names == Nat \X Nat
\* The order of the names, which is the order of the map of readers: the index
\* is written first.
NameBefore(f, g) == f[1] < g[1] \/ (f[1] = g[1] /\ f[2] < g[2])

Contents == [valid : BOOLEAN, ids : SUBSET Nat]

\* What Writer's constructor leaves: a file of zeroes, so without a footer.
Zeroed == [valid |-> FALSE, ids |-> {}]
Written(ids) == [valid |-> TRUE, ids |-> ids]

\* Mutant of Remove: the file is not removed.
RemoveNothing(d, f) == d

\* The directory d with the file f made to hold c, and without the file f.
Put(d, f, c) == [g \in DOMAIN d \cup {f} |-> IF g = f THEN c ELSE d[g]]
Remove(d, f) == [g \in DOMAIN d \ {f} |-> d[g]]

ValidFiles(d) == {f \in DOMAIN d : d[f].valid}
Stored(d) == UNION {d[f].ids : f \in ValidFiles(d)}

NoMerge == [srcs |-> {}, whole |-> 0, dst |-> <<0, 0>>]

\* The files the first n levels list.
ListedBelow(lv, n) ==
  UNION {{<<lv[l][j], l - 1>> : j \in DOMAIN lv[l]} : l \in {k \in DOMAIN lv : k <= n}}
Listed(lv) == ListedBelow(lv, Len(lv))

\* The listings of a finite set of indices in ascending order (there is one).
SortedLists(S) ==
  {s \in [1..Cardinality(S) -> S] :
     /\ \A i, j \in 1..Cardinality(S) : i < j => s[i] < s[j]
     /\ \A x \in S : \E i \in 1..Cardinality(S) : s[i] = x}

IndicesAt(files, level) == {f[1] : f \in {g \in files : g[2] = level}}

\* Mutant of Depths: an empty directory gets no level 0.
DepthsWithoutFirst(files) ==
  {d \in {f[2] + 1 : f \in files} \cup {0} : \A f \in files : f[2] < d}

\* How many levels load_state and open set up: up to the highest in a name, and
\* at least one.
Depths(files) == {d \in {f[2] + 1 : f \in files} \cup {1} : \A f \in files : f[2] < d}

\* What LevelManager::load_state can rebuild from a set of file names: the
\* directory is read in any order, and then every level is sorted.
LoadedLevels(files) ==
  UNION {LET lists == [l \in 1..depth |-> SortedLists(IndicesAt(files, l - 1))]
         IN  {lv \in [1..depth -> UNION {lists[l] : l \in 1..depth}] :
                \A l \in 1..depth : lv[l] \in lists[l]} : depth \in Depths(files)}

\* Mutant of LoadedNextIndex: it follows the last file read, not the highest.
LoadedNextIndexOfLast(files) == {f[1] + 1 : f \in files} \cup (IF files = {} THEN {0} ELSE {})

LoadedNextIndex(files) ==
  {n \in {f[1] + 1 : f \in files} \cup {0} : \A f \in files : f[1] < n}

-----------------------------------------------------------------------------
(* Choosing what to merge. *)

\* Mutant of ShouldMergeLevel: a level is merged when it is over the limit.
ShouldMergeLevelOver(level, plusOne) ==
  /\ level < Len(levels)
  /\ Len(levels[level + 1]) + (IF plusOne THEN 1 ELSE 0) > MaxLevelCount

\* should_merge_level, for the 0-based level.
ShouldMergeLevel(level, plusOne) ==
  /\ level < Len(levels)
  /\ Len(levels[level + 1]) + (IF plusOne THEN 1 ELSE 0) >= MaxLevelCount

\* Mutant of CanMergeAll: it counts each level by itself.
CanMergeOneLevel == \E l \in DOMAIN levels : Len(levels[l]) >= 2

\* can_merge_all: some level lists two files, or two levels list one.
CanMergeAll ==
  \E k, l \in DOMAIN levels : \E i \in DOMAIN levels[k], j \in DOMAIN levels[l] :
    <<k, i>> # <<l, j>>

Back(level) == levels[level][Len(levels[level])]

\* Mutant of CascadedMerge: the newest file of level 0 is left out.
CascadedMergeButNewest(n) ==
  [srcs |-> ListedBelow(levels, n) \ {<<Back(1), 0>>}, whole |-> n, dst |-> <<Back(1), n>>]

\* get_cascaded_merge_operation: levels 0 to n - 1, each full when it gets the
\* merge of those below it, go to level n under the newest index of level 0.
CascadedMerge(n) == [srcs |-> ListedBelow(levels, n), whole |-> n, dst |-> <<Back(1), n>>]
CascadedMerges ==
  {CascadedMerge(n) : n \in {k \in 1..Len(levels) :
     /\ ShouldMergeLevel(0, FALSE)
     /\ \A l \in 1..(k - 1) : ShouldMergeLevel(l, TRUE)
     /\ ~ShouldMergeLevel(k, TRUE)}}

\* Mutant of FullMerge: the target may take the name of the newest source.
FullMergeInPlace(lowest) ==
  [srcs |-> Listed(levels), whole |-> Len(levels), dst |-> <<Back(lowest), Len(levels) - 1>>]

\* get_full_merge: everything goes to the highest level, under the newest index
\* of the lowest level that lists a file, or the next one if that is its own.
FullMerge(lowest) ==
  [srcs |-> Listed(levels), whole |-> Len(levels),
   dst |-> <<Back(lowest) + (IF lowest = Len(levels) THEN 1 ELSE 0), Len(levels) - 1>>]
FullMerges ==
  {FullMerge(lowest) : lowest \in {k \in DOMAIN levels :
     /\ CanMergeAll
     /\ levels[k] # <<>>
     /\ \A l \in 1..(k - 1) : levels[l] = <<>>}}

Merges == IF call = "compact" THEN FullMerges ELSE CascadedMerges

\* apply_merge_operation: the merged levels are emptied, the target is listed.
AppliedMerge(m) ==
  [l \in 1..(IF m.dst[2] < Len(levels) THEN Len(levels) ELSE m.dst[2] + 1) |->
     LET kept == IF l <= m.whole \/ l > Len(levels) THEN <<>> ELSE levels[l]
     IN  IF l = m.dst[2] + 1 THEN Append(kept, m.dst[1]) ELSE kept]

\* The order in which perform_merge_operation goes through the sources: a
\* cascaded merge lists them from level 0 up, a full merge from the top down.
Precedes(f, g) ==
  \/ f[2] = g[2] /\ f[1] < g[1]
  \/ call = "compact" /\ f[2] > g[2]
  \/ call # "compact" /\ f[2] < g[2]

-----------------------------------------------------------------------------
(* Opening and closing. *)

Init ==
  /\ dir = FALSE /\ disk = [f \in {} |-> Zeroed]
  /\ readers = {} /\ levels = <<>> /\ nextIndex = 0
  /\ buffer = {} /\ bufSize = 0
  /\ merge = NoMerge /\ todo = {}
  /\ pc = "closed" /\ call = "none"
  /\ added = 0 /\ durable = {} /\ torn = 0

\* LevelManager::load_state and KvDb's constructor, which opens every file:
\* a file without a valid footer makes it throw, and nothing is opened.
Load(files) ==
  /\ \A f \in DOMAIN files : files[f].valid
  /\ levels' \in LoadedLevels(DOMAIN files)
  /\ nextIndex' \in LoadedNextIndex(DOMAIN files)
  /\ readers' = DOMAIN files
  /\ disk' = files

\* KvDb::open when it returns. When it throws it has changed nothing: the
\* directory it would create or empty is one that it can then load.
Open(mode) ==
  /\ pc = "closed"
  /\ IF dir THEN ~mode.error_if_exists ELSE mode.create_if_missing
  /\ IF dir /\ mode.delete_if_exists
       THEN Load([f \in {} |-> Zeroed]) /\ durable' = {} /\ torn' = 0
       ELSE Load(disk) /\ UNCHANGED <<durable, torn>>
  /\ dir' = TRUE /\ pc' = "idle"
  /\ UNCHANGED <<buffer, bufSize, merge, todo, call, added>>

\* The process, or the object, is gone. No destructor flushes the buffer.
Forget ==
  /\ pc' = "closed" /\ call' = "none"
  /\ readers' = {} /\ levels' = <<>> /\ nextIndex' = 0
  /\ buffer' = {} /\ bufSize' = 0
  /\ merge' = NoMerge /\ todo' = {}

Exit == pc = "idle" /\ Forget /\ UNCHANGED <<dir, disk, ghosts>>

Crash ==
  /\ pc \in CrashPoints \ {"removing"}
  /\ Forget
  /\ UNCHANGED <<dir, disk, ghosts>>

CrashRemoving ==
  /\ pc = "removing" /\ pc \in CrashPoints
  /\ torn < MaxTorn /\ torn' = torn + 1
  /\ Forget
  /\ UNCHANGED <<dir, disk, added, durable>>

-----------------------------------------------------------------------------
(* Adding, and the flush of the buffer. *)

\* flush_buffer as far as the constructor of Writer, for a buffer of this size.
\* It looks at the size of the entries, not at their number.
StartFlush(size, kind) ==
  /\ call' = kind
  /\ IF size > 0
       THEN /\ disk' = Put(disk, <<nextIndex, 0>>, Zeroed)
            /\ pc' = "writing"
       ELSE /\ pc' = "planning"
            /\ UNCHANGED disk

Add(size) ==
  /\ pc = "idle"
  /\ added < MaxAdds
  /\ added' = added + 1
  /\ buffer' = buffer \cup {added}
  /\ bufSize' = bufSize + size
  /\ IF bufSize + size > MaxBufferSize
       THEN StartFlush(bufSize + size, "flush")
       ELSE UNCHANGED <<disk, pc, call>>
  /\ UNCHANGED <<dir, readers, levels, nextIndex, merge, todo, durable, torn>>

Flush ==
  /\ pc = "idle"
  /\ StartFlush(bufSize, "flush")
  /\ UNCHANGED <<dir, memory, ghosts>>

Compact ==
  /\ pc = "idle"
  /\ StartFlush(bufSize, "compact")
  /\ UNCHANGED <<dir, memory, ghosts>>

\* The rest of flush_buffer: cut to its length, the file is valid; advance_level_0
\* lists it and a reader for it is kept. To the directory this is one change; an
\* exception after the cut and before the reader is kept is left out.
WriteFlush ==
  /\ pc = "writing"
  /\ disk' = Put(disk, <<nextIndex, 0>>, Written(buffer))
  /\ durable' = durable \cup buffer
  /\ buffer' = {} /\ bufSize' = 0
  /\ levels' = [levels EXCEPT ![1] = Append(@, nextIndex)]
  /\ nextIndex' = nextIndex + 1
  /\ readers' = readers \cup {<<nextIndex, 0>>}
  /\ pc' = "planning"
  /\ UNCHANGED <<dir, merge, todo, call, added, torn>>

-----------------------------------------------------------------------------
(* Merging. *)

Return == pc' = "idle" /\ call' = "none"

PlanNothing ==
  /\ pc = "planning"
  /\ Merges = {}
  /\ Return
  /\ UNCHANGED <<dir, disk, memory, ghosts>>

\* Mutant of PlanMerge: the sources are removed before the target is written.
PlanMergeRemovesFirst ==
  /\ pc = "planning"
  /\ \E m \in Merges :
       /\ m.srcs \subseteq readers
       /\ merge' = m
       /\ disk' = [f \in DOMAIN disk \ m.srcs |-> disk[f]]
  /\ pc' = "merging"
  /\ UNCHANGED <<dir, readers, levels, nextIndex, buffer, bufSize, todo, call, ghosts>>

\* perform_merge_operation as far as the constructor of Writer, which empties
\* the target whether or not there is a file of that name.
PlanMerge ==
  /\ pc = "planning"
  /\ \E m \in Merges :
       /\ m.srcs \subseteq readers
       /\ merge' = m
       /\ disk' = Put(disk, m.dst, Zeroed)
  /\ pc' = "merging"
  /\ UNCHANGED <<dir, readers, levels, nextIndex, buffer, bufSize, todo, call, ghosts>>

\* The levels list a file that no reader is open for: readers[file_name] is
\* null, and the process dies on it.
PlanFaults ==
  /\ pc = "planning"
  /\ \E m \in Merges : ~(m.srcs \subseteq readers)
  /\ Forget
  /\ UNCHANGED <<dir, disk, ghosts>>

\* The index the level manager goes on with after a merge to dst, and two
\* mutants: the target's own index, and the index before the merge.
NextIndexOfTarget(dst) == dst[1]
NextIndexUnchanged(dst) == nextIndex
NextIndexAfter(dst) == dst[1] + 1

\* Writer::merge and finish, and the bookkeeping of the merge; an exception between
\* the two is left out as in WriteFlush.
WriteMerge ==
  /\ pc = "merging"
  /\ disk' = Put(disk, merge.dst, Written(UNION {disk[f].ids : f \in merge.srcs}))
  /\ levels' = AppliedMerge(merge)
  /\ nextIndex' = NextIndexAfter(merge.dst)
  /\ readers' = readers \cup {merge.dst}
  /\ todo' = merge.srcs
  /\ pc' = "removing"
  /\ UNCHANGED <<dir, buffer, bufSize, merge, call, ghosts>>

\* The target is one of the sources: the merge reads a mapping that its own
\* writer has resized and cleared, which is undefined; the process may die
\* (here), or the source's entries are missing from the result (WriteMerge).
MergeFaults ==
  /\ pc = "merging"
  /\ merge.dst \in merge.srcs
  /\ Forget
  /\ UNCHANGED <<dir, disk, ghosts>>

\* Mutants of RemoveSource: the loop ends one file early; it does not advance.
RemoveAllButOne ==
  /\ pc = "removing"
  /\ \E f \in todo :
       /\ \A g \in todo \ {f} : Precedes(f, g)
       /\ readers' = readers \ {f} /\ disk' = Remove(disk, f) /\ todo' = todo \ {f}
  /\ IF Cardinality(todo') < 2 THEN Return /\ merge' = NoMerge ELSE UNCHANGED <<pc, call, merge>>
  /\ UNCHANGED <<dir, levels, nextIndex, buffer, bufSize, ghosts>>
RemoveForever ==
  /\ pc = "removing"
  /\ \E f \in todo :
       /\ \A g \in todo \ {f} : Precedes(f, g)
       /\ readers' = readers \ {f} /\ disk' = Remove(disk, f) /\ todo' = todo
  /\ UNCHANGED <<dir, pc, call, merge, levels, nextIndex, buffer, bufSize, ghosts>>

\* One turn of the loop that closes and removes the sources.
RemoveSource ==
  /\ pc = "removing"
  /\ \E f \in todo :
       /\ \A g \in todo \ {f} : Precedes(f, g)
       /\ readers' = readers \ {f}
       /\ disk' = Remove(disk, f)
       /\ todo' = todo \ {f}
  /\ IF todo' = {} THEN Return /\ merge' = NoMerge ELSE UNCHANGED <<pc, call, merge>>
  /\ UNCHANGED <<dir, levels, nextIndex, buffer, bufSize, ghosts>>

-----------------------------------------------------------------------------
(* Exceptions: the disk is full, the reduce callback throws, a file cannot   *)
(* be created or removed. The caller catches them and goes on.               *)

Abandon ==
  /\ Return
  /\ merge' = NoMerge /\ todo' = {}
  /\ UNCHANGED <<dir, disk, levels, nextIndex, buffer, bufSize, added, durable>>

WriteThrows ==
  /\ pc \in ThrowPoints \ {"removing"}
  /\ Abandon
  /\ UNCHANGED <<readers, torn>>

\* filesystem::remove throws: the reader of that file is already dropped.
RemoveThrows ==
  /\ pc = "removing" /\ pc \in ThrowPoints
  /\ torn < MaxTorn /\ torn' = torn + 1
  /\ Abandon
  /\ \E f \in todo :
       /\ \A g \in todo \ {f} : Precedes(f, g)
       /\ readers' = readers \ {f}

-----------------------------------------------------------------------------
Step == WriteFlush \/ PlanNothing \/ PlanMerge \/ PlanFaults \/ WriteMerge \/ MergeFaults
        \/ RemoveSource

Next ==
  \/ \E mode \in OpenModes : Open(mode)
  \/ \E size \in EntrySizes : Add(size)
  \/ Flush
  \/ Compact
  \/ Exit
  \/ Step
  \/ Crash
  \/ CrashRemoving
  \/ WriteThrows
  \/ RemoveThrows

Spec == Init /\ [][Next]_vars

\* The calls are synchronous: the thread that runs one takes its next step.
FairSpec == Spec /\ WF_vars(Step)

-----------------------------------------------------------------------------
(* What should hold. Properties that a cut-short removal breaks say so.     *)

Whole == torn = 0

\* Every state has the shape the code's types and its call structure give it:
\* a closed database has no memory, a reader's file is in the directory, and
\* the sources of a merge have readers until it is written.
TypeOK ==
  /\ dir \in BOOLEAN
  /\ DOMAIN disk \subseteq Names /\ IsFiniteSet(DOMAIN disk)
  /\ disk \in [DOMAIN disk -> Contents]
  /\ readers \subseteq DOMAIN disk
  /\ levels \in Seq(Seq(Nat)) /\ (pc # "closed" => levels # <<>>)
  /\ nextIndex \in Nat
  /\ buffer \subseteq Nat /\ bufSize \in Nat
  /\ merge \in [srcs : SUBSET Names, whole : Nat, dst : Names]
  /\ pc = "merging" => merge.srcs \subseteq readers
  /\ todo \subseteq Names
  /\ pc \in Steps \cup {"closed", "idle"}
  /\ call \in {"none", "flush", "compact"} /\ (call = "none" <=> pc \in {"closed", "idle"})
  /\ pc = "closed" => buffer = {} /\ readers = {} /\ todo = {}
  /\ added \in Nat /\ durable \subseteq Nat /\ torn \in Nat

\* A flushed entry stays in a valid file of the directory at every instant: a
\* merge removes no source before its target is readable, and no flush or merge
\* writes over a file that is still needed (kvdb.hpp flush_buffer and
\* perform_merge_operation), wherever the process dies or a call throws.
Durable == durable \subseteq Stored(disk)
DurableWhileWhole == Whole => Durable

\* Between two calls each flushed entry is in exactly one of the files that
\* get, at and the iterators look at: merging neither hides nor repeats one.
VisibleOnce ==
  pc = "idle" /\ Whole =>
    \A e \in durable : \E f \in readers :
      /\ e \in disk[f].ids
      /\ \A g \in readers \ {f} : e \notin disk[g].ids

\* The files are ordered by age as get and KvDb::at need them: of two files
\* that are read, the one whose name sorts first has only older entries, and
\* so the first file that has a key has its first value.
AgeFollowsName ==
  pc = "idle" /\ Whole =>
    \A f, g \in readers : f[1] < g[1] => \A d \in disk[f].ids, e \in disk[g].ids : d < e

\* No two files have the same index while they are read, so the order above is
\* total and the level in a name never decides it.
IndicesDiffer ==
  pc = "idle" /\ Whole => \A f, g \in readers : f[1] = g[1] => f = g

\* What load_state rebuilds from the names of the files is the state the level
\* manager had: a restart between two calls changes no later merge.
RecoveryMatches ==
  pc = "idle" /\ Whole /\ ValidFiles(disk) = DOMAIN disk =>
    LoadedLevels(DOMAIN disk) = {levels} /\ LoadedNextIndex(DOMAIN disk) = {nextIndex}

\* The file a flush or a merge is about to clear and write is not one that the
\* levels list or that a reader has mapped.
TargetIsFresh ==
  Whole =>
    /\ pc \in {"idle", "writing"} => <<nextIndex, 0>> \notin readers \cup Listed(levels)
    /\ pc = "merging" => merge.dst \notin readers \cup Listed(levels)

\* Between two calls every level is below the limit that triggers a merge
\* (config.hpp, max_level_count), provided no call was cut short.
LevelsBounded ==
  pc = "idle" /\ MaxLevelCount > 1 => \A l \in DOMAIN levels : Len(levels[l]) < MaxLevelCount

\* A compaction that runs to its end leaves at most one file, and it is the
\* one that the levels list.
CompactLeavesOne ==
  [][call = "compact" /\ call' = "none" /\ pc' = "idle" =>
       /\ Cardinality(readers') <= 1
       /\ DOMAIN disk' = readers' /\ Listed(levels') = readers']_vars

\* Every call returns, or the process dies.
CallReturns == call # "none" ~> call = "none"

\* The database implements the abstract store.
Store == INSTANCE KvStore WITH
  Entries <- 0..MaxAdds, stored <- Stored(disk), pending <- buffer, opened <- (pc # "closed")
ImplementsStore == Store!Spec

\* Any directory the program leaves behind can be opened again.
CanReopen == pc = "closed" => ValidFiles(disk) = DOMAIN disk

-----------------------------------------------------------------------------
(* The inductive invariant behind the properties above: while no removal    *)
(* was cut short, the valid files are those the levels list, and besides    *)
(* them only the sources of the merge that has just written its target.     *)

\* Indices tell files apart, a file of a higher level has a lower index than
\* one of a lower level, and a file with a lower index has older entries.
InOrder(d, files) ==
  \A f, g \in files :
    /\ f[1] = g[1] => f = g
    /\ f[2] < g[2] => g[1] < f[1]
    /\ f[1] < g[1] => \A i \in d[f].ids, j \in d[g].ids : i < j

Ascending(lv) ==
  \A l \in DOMAIN lv : \A i, j \in DOMAIN lv[l] : i < j => lv[l][i] < lv[l][j]

NothingLost == durable = Stored(disk)
EntriesByAge ==
  /\ \A e \in durable \cup buffer : e < added
  /\ \A d \in durable, e \in buffer : d < e
FilesInOrder == InOrder(disk, ValidFiles(disk) \ todo)
MemoryMatchesDisk ==
  pc # "closed" =>
    /\ readers = ValidFiles(disk)
    /\ Listed(levels) = readers \ todo /\ todo \subseteq readers
    /\ Ascending(levels)
    /\ \A f \in Listed(levels) : f[1] < nextIndex
MergeUnderWay ==
  /\ pc = "merging" => merge \in Merges
  /\ pc = "removing" =>
       /\ merge.dst \in Listed(levels)
       /\ \A f \in todo : disk[f].ids \subseteq disk[merge.dst].ids
  /\ pc # "removing" => todo = {}

Consistent == NothingLost /\ EntriesByAge /\ FilesInOrder /\ MemoryMatchesDisk /\ MergeUnderWay

\* Memory and directory agree at every step of every call, after every restart
\* and after every exception, until a removal is cut short.
WholeInv == Whole => Consistent

=============================================================================
