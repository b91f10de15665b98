# ninedb in TLA+

ninedb is an embedded key-value database in C++17 (header-only, `src/ninedb`),
with bindings for JavaScript and Java. Writes go to a buffer in memory; a flush
writes the buffer to an immutable file that holds a B-tree (a *PBT*); a
log-structured merge scheme joins files as they accumulate. Nothing is written
in place and there is no log: the README of the repository calls it
"crash-only".

This directory holds TLA+ modules of that code, TLC configurations that check
them, and theorems about them that TLAPS checks.

## 1. The system

| Component | State | Operations | Talks to |
|---|---|---|---|
| `KvDb` (`kvdb.hpp`) | buffer, level manager, `readers`: an ordered map from file names to open files | `open`, `add`, `flush`, `compact`; `get`, `at`, `seek`, `begin`, `traverse` | writer and readers of PBTs, the level manager, the file system |
| Level manager (`detail/level_manager`) | `levels` (per level, the indices of its files), `next_index`, `global_start`; in memory only | `load_state`, `advance_level_0`, `get_cascaded_merge_operation`, `get_full_merge`, `apply_merge_operation` | the directory's file names; the footer of the newest file |
| Buffer (`detail/buffer.hpp`) | a multimap, and the summed size of what was inserted | `insert`, `clear`, iteration in key order | |
| PBT writer (`pbt/writer.hpp`, `pbt/detail/structures.hpp`) | the mapped file, the write address, the leaves so far | `add`, `merge`, `finish`, `to_reader` | storage, readers (as merge sources), the user's `reduce` callback |
| PBT reader, iterator (`pbt/reader.hpp`, `pbt/iterator.hpp`) | the mapped file, its footer | `get`, `at`, `seek_*`, `begin`, `traverse`; `next` | storage |
| Storage (`pbt/detail/storage.hpp`) | a file and its memory mapping | `ensure_size`, `set_size`, `clear`, `flush` | the operating system |
| Database iterator (`iterator.hpp`) | one PBT iterator per file | `next`, `is_end`, `get_key`, `get_value` | PBT iterators |
| `HrDb` (`hrdb.hpp`, `detail/hilbert.hpp`) | a `KvDb` whose keys are Hilbert values of box centres and whose nodes carry bounding boxes | `add`, `flush`, `compact`, `search` | `KvDb` |
| Skip list, random LRU cache | linked levels; hash tables of recent keys | | used by nothing else |
| JavaScript binding (`js/binding.cpp`, `js/include/contexts.hpp`) | a context per database and iterator, counted references between them, cleanup hooks | one wrapper per call, finalizers, a cleanup hook per database | `KvDb`, `HrDb`; the garbage collector and the end of Node's environment, which call it back |
| Java binding (`java/src/main/cpp`) | native objects, freed when the script closes them | one wrapper per call, `close` | `KvDb`, `HrDb` |

The code starts no threads: a call runs to its end on the caller's thread. What
is concurrent with it is the end of the process, which can come between any two
writes to the directory, and what interrupts it is an exception, which the
caller may catch before going on to use the database. The callbacks it takes, the
predicate of `traverse` and `reduce`, run inside a call, and the runtimes of the
bindings call finalizers and hooks at moments of their own. The hard behaviours
are therefore

* a **crash** between two changes of the directory, and what the next `open`
  makes of the files it finds;
* an **exception** between two assignments, and what the next call makes of the
  memory it finds (the disk is full, the user's callback throws, a file cannot
  be removed);
* the **order of files**: that the level manager never writes over a file, that
  names stay in the order of age (`get` depends on it), that its state survives
  a restart through nothing but file names;
* the **boundaries** of trees and of levels (empty files, empty keys, counts of
  1, duplicates across nodes and files);
* **re-entry**: a predicate that adds, flushes and compacts while the traversal
  that called it stands in the map of files;
* **lifetimes**: views and iterators into mapped files that a merge removes, and
  native handles under a garbage collector, in whatever order it frees them.

What makes each component correct:

* `KvDb` and level manager: a flushed entry stays readable exactly once through
  flushes, merges, crashes and restarts; no file is overwritten while in use;
  levels stay bounded; calls end.
* queries: `get` returns the first value added for a key, `at` and the iterators
  agree with one sequence of entries, all files together.
* writer and reader: the tree built from a sorted sequence is searched to the
  same answer a scan would give, by key, by index and by predicate.
* storage: no address is used after the mapping it points into has moved.
* `HrDb`: a search leaves out no value whose box meets the one asked for; keys
  of values that lie near each other on the curve belong to boxes that lie near.
* skip list: every level is part of the one below, so a search on any levels
  ends where a walk along the lowest would.
* `traverse`: it sees every flushed entry once, whatever its predicate does.
* bindings: no native object is used after it is freed, each is freed once, and
  what was added is flushed before its database is deleted. That leaves out what a
  flush leaves in the buffer, entries with empty key and value (section 6): they
  are deleted with their database, and nobody is told.

## 2. Plan

Modules, the most important behaviour first.

| Module | Models | Status |
|---|---|---|
| `KvDb`, `MCKvDb` | buffer, directory, level manager; crashes between any two changes of the directory, exceptions up to the last byte of a file and in removals | checked, proved |
| `KvStore` | abstract: what the database promises about entries | refinement checked, proved |
| `KvQuery`, `MCKvQuery` | extends `KvDb` by the order of entries: merging entry by entry; `get`, `at`, `seek`, `begin`, the iterator; `global_start` | checked, proved |
| `PbtTree` | the levels of nodes `Writer::finish` builds; `get`, `find_index`, `find`, `traverse` and iterators in them, against a scan | checked, proved |
| `PbtStorage`, `MCPbtStorage` | growing a mapping under held addresses | checked, proved |
| `HrDb` | extends `PbtTree` by boxes: search over `traverse`, for any curve | checked, proved |
| `Hilbert` | the curve in both directions, bit by bit | checked, proved |
| `HrCurve`, `MCHrDb` | `HrDb` with that curve: what its keys are good for | checked, proved |
| `SkipList`, `KeyedList`, `MCSkipList` | the skip list, and the list it implements | checked, proved |
| `KvTraverse`, `MCKvTraverse` | extends `KvDb` by a traversal whose predicate makes calls of its own | checked, proved |
| `Bindings`, `MCBindings` | the native objects of both bindings: scripts, the garbage collector, the end of an environment | checked, proved |
| `KvDbProofs`, `KvQueryProofs`, `PbtTreeProofs`, `PbtReaderProofs`, `HrDbProofs`, `PbtStorageProofs`, `SkipListProofs`, `BindingsProofs` | theorems | proved |

Abstract specifications: `KvStore`, which `KvDb` implements; `KeyedList`, which
`SkipList` implements. A database that is one sequence of entries needs no module
of its own: as long as no cascade takes two levels, the sequence is a function of
what `KvStore` has stored (`FilesNeverShow`, section 5).

Every invariant a passing run checks is proved (section 5, which names the
hypotheses), and so is, of each liveness property, all that does not depend on
fairness.

Which module builds on which:

    KvStore <--implements-- KvDb <--extends-- KvQuery
                             ^-------extends-- KvTraverse
    PbtTree <--extends-- HrDb <--extends-- HrCurve --extends--> Hilbert
    KeyedList <--implements-- SkipList
    PbtStorage    Bindings

`KvQuery` takes the search inside one file to be a scan of its entries. `PbtTree`
shows that of the tree, provided keys were added in order, and `FilesSorted` of
`KvQuery` shows that they are. `PbtTree` takes a node that was written to be
in the file, which is what `PbtStorage` is about. `Bindings` takes of a database
only whether it has entries in its buffer and which iterators a merge has cut
off: what a flush and a merge do is the subject of `KvDb`, but that a flush goes
by the size of the buffer is in both.

## 3. The modules

### KvDb

A call is split where the directory changes:

    idle --Flush/Compact/Add--> writing --WriteFlush--> planning
         --PlanMerge--> merging --WriteMerge--> removing
         --RemoveSource--> ... --> idle

| State | Code |
|---|---|
| `dir`, `disk` | the database directory: file names to contents |
| `readers` | `KvDb::readers` |
| `levels`, `nextIndex` | `State::levels`, `State::next_index` |
| `buffer`, `bufSize` | `Buffer::map`, `Buffer::size` |
| `merge`, `todo` | the `MergeOperation` in `perform_merge_operation`, and the sources its last loop has still to remove |
| `pc`, `call` | where the current call is, and which call it is |
| `added`, `durable`, `torn` | history: adds so far, entries flushed, removals cut short |

| Action | Code |
|---|---|
| `Open` | `KvDb::open`, `LevelManager::load_state`, the constructor's readers |
| `Add`, `Flush`, `Compact` | the call, as far as the constructor of the `Writer` in `flush_buffer` |
| `WriteFlush` | the rest of `flush_buffer` |
| `PlanNothing`, `PlanMerge` | choosing the merge, and the constructor of its `Writer` |
| `WriteMerge` | `Writer::merge`, `finish`, `apply_merge_operation`, the new reader |
| `RemoveSource` | one turn of the loop at `kvdb.hpp:329` |
| `PlanFaults`, `MergeFaults` | the two places where the code as written has undefined behaviour: a null reader, and a merge into one of its own sources |
| `WriteThrows`, `RemoveThrows` | an exception while a file is written, before a merge, or while a file is removed, caught by the caller |
| `Crash`, `CrashRemoving`, `Exit` | the end of the process at each step, or of the object |

An entry is the order number of its `add`; a file holds a set of entries and is
valid or not. So a file that lists the same entry twice is not told apart from
one that lists it once, and the order of entries inside a file is not seen here.
`PlanFaults` and `MergeFaults` can happen only after a removal was cut short.

`WriteFlush` and `WriteMerge` are one step each, although the code clears the
buffer, advances the levels and registers the reader after the file is complete.
For a crash that makes no difference, as all of that is in memory: the process
ends before the one change of the directory or after it. For an exception it does
(section 7).

`torn` counts how often the loop that removes merged files was cut short in the
current directory. The code has no answer to that (section 6), so most
properties are stated under `Whole == torn = 0`; the runs still go on past it,
and the violation runs show what happens there.

### KvStore

Three variables: entries stored, entries pending, whether the database is open.
Entries become stored all together; stored ones stay. `ImplementsStore` maps
them to `Stored(disk)`, `buffer` and `pc # "closed"`.

### KvQuery

Every action is one of `KvDb` together with what it does to the order of
entries; only the merge loop is split further, into one `MergeEntry` per entry.
So every behaviour is one of `KvDb` (theorem `QueryRefines`).

| State | Code |
|---|---|
| `keyOf` | the keys, by the order of `add`; 0 is the empty key |
| `runs`, `starts` | per valid file: its entries in leaf order, `Footer::global_start` |
| `globalStart` | `State::global_start` |
| `sources`, `taken`, `out` | in `Writer::merge`: the source readers, how far their iterators are, what was added |
| `mixed` | history: whether a cascade has taken files of two levels |

| Definition | Code |
|---|---|
| `OpenQuery` | `load_state`: counting goes on where the newest file ends |
| `WriteFlushQuery` | `flush_buffer`: the multimap in its order; `advance_level_0` |
| `PlanMergeQuery`, `MergeEntry`, `WriteMergeQuery` | `perform_merge_operation`, the two loops of `Writer::merge` |
| `Smallest` | the choice of the source, which takes an empty `min_key` for none yet |
| `Get`, `At`, `SeekKey`, `SeekIndex`, `Begin` | `KvDb::get`, `at`, `seek`, `begin` |
| `Current`, `Ahead` | `Iterator::get_min_index`, what is left until `is_end` |
| `Visit`, `Walk` | `Iterator::next`, and an iterator read until `is_end` |

The removal of merged files is not cut short here (`MaxTorn = 0`): `KvDb` shows
what that leads to.

### KvTraverse

`KvDb::traverse` goes through the map `readers` with an iterator of that map and
runs the traversal of each file, which calls the predicate on every node and
value. The predicate is the caller's, and nothing forbids it to call `add`,
`flush` or `compact` on the same database.

| State | Code |
|---|---|
| `at` | where the iterator into `readers` is: a file, nowhere, or on a node of the map that has been erased |
| `passed` | the accumulator: the files it points into, and what it took from each |

`TraverseStart`, `TraverseNext` and `TraverseReturn` are the loop; `NextFiles` is
the step to the next name there is at that moment. `Meanwhile` is any step of
`KvDb`, so a call of the predicate; where it erases the file the traversal is in,
`at` is `Erased`, and what follows is undefined (`TraverseFaults`). A traversal
in a file that a call has closed is therefore told apart from one that goes on,
and the properties are about those that go on. Inside a file nothing changes, so
its values are taken in one step, and `PbtTree` says which they are.

### PbtTree

    adding --StartFinish--> counting --StopCounting--> building
           --WriteInternal--> ... --WriteFooter--> done

| State | Code |
|---|---|
| `entries` | the keys added; entry `e` is the `e`-th `add` |
| `leaf` | `Writer::buffer_leaf` |
| `nodes` | the nodes in the file; an offset is a position among them |
| `counts`, `level`, `taken`, `read`, `packed` | the locals of `finish` |
| `footer` | root, height, number of entries |

`Add`, `StartFinish`, `CountLevel`, `StopCounting`, `WriteInternal` and
`WriteFooter` are `Writer::add` and the parts of `finish`. `Branch` is the
binary search of `find` as it is written, `IndexBranch` the loop of
`find_index`; `FindExact`, `FindAtLeast`, `SeekLast`, `SeekNext`, `NextOf`,
`TraverseWhere` follow reader and iterator. The two predicates of a traversal
are given as sets: the values and the reduced values they hold of. The counter of a leaf's children
keeps its width, as a modulus. The reduce callback is taken to keep all values
it is given, so that a subtree's reduced value tells exactly what is in it.

### HrDb and Hilbert

`HrDb` puts a box in front of every value: `AddBox` is `add`, whose key is the
curve's value at `Centre`; `Search` is `search`, a traversal with `Intersects`
on boxes and on their `Reduce`. In `HrDb` the curve is a constant, any function
from points to keys: search needs no more of it.

`Hilbert` is the curve in both directions as the code computes it. A word is the
set of the places of its ones, so `&` and `|` are intersection and union, and a
shift moves the places. `Interleave` and `Deinterleave` take the four steps of
shift and mask, `Primed`, `Round` and `Scanned` are the doubling rounds of
`hilbert_xy_to_index`, `PrefixScan` those of the inverse. `HrCurve` puts the two
together: its assumption says that the constant is this curve on the points of a
grid, and `KeysFollowCurve` what that is good for. It says nothing of coordinates
with more bits than the order (section 6).

### PbtStorage

`cells` is the file, `base` the address it is mapped at, `offset` where the
writer writes next. `WriteNode` takes the address before `ensure_size` and
writes after it, as `write_node_leaf` and `write_node_internal` do;
`WriteFooter` takes it after. A resize may move the mapping to any of
`Addresses`; what is then written to an old address lands where it lands, in the
new mapping, beside it, or on nothing, which ends the process (`dead`).
`Trim` is the cut at the end of `finish`, `ResizeThrows` a resize that fails.

### SkipList and KeyedList

`lists` are the levels; that an entry on one level leads to itself on the level
below is `PositionOf`. `Scan` is the inner loop of `search`, `ScanBelow` gives it
its begin and end, and `Search` is the outer loop, with what it keeps and forgets
from level to level. `Raised` and
`Inserted` are `new_entry_level` and the loop of `add_after` and `add_before`.
`KeyedList` is one sequence of pairs ordered by key, to which a pair is added
behind or in front of those with its key.

### Bindings

One module for both bindings, because they differ in who frees an object: in
JavaScript a finalizer does, which the runtime calls for a handle that neither
the script nor a counted reference keeps, and at the end for all that are left;
in Java the script calls `close`.

| State | Code |
|---|---|
| `status`, `held` | the native objects, and whether the script still has their handles |
| `pending`, `sized` | the databases whose buffer holds entries, and those whose buffer has a size (`Buffer::get_size`), which is what a flush goes by |
| `view` | per iterator, whether the files it reads are mapped still |
| `owner`, `refs`, `iterators` | `ContextKvIterator::context_db`, the count of `ContextKvDb::external_ref`, `ContextKvDb::iterators` |
| `hooks` | the databases with a registered cleanup hook |
| `phase`, `older` | the environment: running, its hooks, its finalizers, over; the order of creation, which the runtime goes by |
| `failed` | history: databases whose `close` has thrown |

`JsOpen`, `JsBegin`, `JsAdd`, `JsFlush`, `JsHr`, `JsRead` and their Java
counterparts are the calls; `FinalizeDb`, `FinalizeItr` and `RunHook` are what
the runtime calls back; `JavaClose`, `JavaCloseItr` the two closes. `Drop`,
`Finalizable`, `Leave` and `EndStep` are the script and the runtime: they are
taken from how the code uses Node's interface and are marked external. The
finalizer and the hook of a database flush, and nothing catches what that
throws: then the process ends (`Die`). That can happen with an empty buffer too,
because a flush also does the merge that is due. `FlushBuffer` leaves a buffer
without size as it is; in a key-value database that may hold entries all the same,
which are then deleted with it, and `FreedFlushed` names them as its exception.
In Java a handle is not used after it was closed; that an iterator is not used
after its database was is left to the script, and `JavaRead` shows what happens
otherwise.

## 4. The runs

| Run | Checks | Bounds |
|---|---|---|
| `crash` | `TypeOK`, `DurableWhileWhole`, `VisibleOnce`, `AgeFollowsName`, `IndicesDiffer`, `RecoveryMatches`, `TargetIsFresh`, `WholeInv` | 5 adds of size 1 or 2, buffer limit 1, 2 files a level, crash and throw at every step of the module, 1 cut-short removal |
| `calls` | `LevelsBounded`, `CompactLeavesOne`, `CallReturns`, `ImplementsStore`, and beside all calls a traversal: `TraverseSeesAll`, `ViewsStayMapped` | 8 adds of size 0 to 2, 3 files a level, no interruption but the exceptions of a predicate |
| `queries` | `FilesSorted`, `BeginVisitsAll`, `FirstAddedFirst`, `SeekIsSuffix`, `RangesTile` | 5 adds with 2 keys, 2 files a level, exceptions in merges, re-opening with and without deleting |
| `tree` | `EveryNodeHasOneParent`, `AtReadsEveryEntry`, `GetReadsFirst`, `IteratesInOrder`, `SeekFirstIsLeast`, `SeekLastAndNext`, `TraverseFindsAll`, `SearchFindsAll`, `KeysFollowCurve`, `FinishEnds` | up to 11 entries, 3 children a node, 5 boxes over coordinates of 2 bits |
| `storage` | `NodesKeptUnlessStale`, `FooterIsLast`, `WritesFit` | 4 nodes of size 1, 2 or 5, initial size 2, 3 addresses |
| `skip_list` | `LevelsNest`, `FindsAsScan`, `ImplementsList` | 4 adds with 3 keys, 3 levels, clearing at any time |
| `bindings` | `TypeOK`, `PointersGood`, `IteratorsReadable`, `FreedFlushed`, `TeardownEnds` | one database of each kind, 2 iterators, each binding |
| `reopen`, `lost`, `first_value`, `seek_index`, `stale_address` | expected violations, section 6 | 2 to 4 adds or nodes |

Why the bounds are enough:

* `crash`, `calls`: five adds with up to two files a level give cascades over
  two levels, full merges from every arrangement of them, empty lower levels,
  and the clash of names at `level_manager.hpp:150`; eight adds with three files
  a level reach levels that fill one after the other. Sizes 1 and 2 with a limit
  of 1 make both flushes that `add` starts and explicit ones; size 0 makes
  buffers that count as empty and are not. Four modes of `open` include the one
  that empties the directory. A traversal may start in any file and be overtaken
  by cascades and compactions before it, around it and behind it.
* `queries`: two keys and five adds put equal keys into one file and into
  several, on one level and on two.
* `tree`: 11 entries at 3 children make 1 to 3 levels, with full and short last
  nodes on each level alone and together; the five boxes have four different
  keys, so that equal keys fill a node and more than one. Searches ask for every
  key and index, also below and above those there are, and for every box.
  `KeysFollowCurve` looks at the curves of orders 2, 5 and 12, whose bits lie up
  to 1, 4 and 11 places apart, so that every round of the scan comes to bear.
* `storage`: the file fits, doubles, or grows beyond its double, and a mapping
  that moves lies apart from the old one or overlaps it.
* `bindings`: two iterators are what it takes for a database to be freed while one
  of its iterators is left, and for iterators to be freed in either order, before
  and after it; databases share no state, so a second of a kind adds nothing but
  an order among hooks. An instance with two key-value databases (1.1 million
  states) was also checked, outside of the runs.
* `skip_list`: three levels are the least on which a search can both keep and
  forget a bound it had from above.

Fairness: `calls` assumes it weakly of `Step /\ Meanwhile`, the next step of a
call under way, and `tree` of `FinishBoxes`, the steps of `finish`. Both are
synchronous code without waiting, so the thread that runs it takes its next
step. `bindings` assumes it of `Ending`: once an environment ends, Node runs the
hooks and the finalizers that are left. Nothing is assumed of the caller, the
script, or the garbage collector while the script runs.

Deadlock is checked but in `tree`, `storage` and `stale_address`, whose subject
ends: a file is finished once, and a process may die.

## 5. The theorems

### KvDbProofs

For every configuration the assumption `ConfigAssumption` allows (any limits,
any sizes, any set of crash and throw points, any number of adds):

* `TypeCorrect`: `TypeOK` always holds.
* `AlwaysConsistent`: `WholeInv` always holds. It is the inductive invariant:
  while no removal was cut short, (a) the valid files hold exactly the flushed
  entries, (b) buffered entries are younger, (c) among the files other than
  sources being removed, indices are distinct, higher levels have lower indices,
  and a lower index means older entries, (d) the levels list exactly these
  files, in ascending order and below `nextIndex`, and the readers are exactly
  the valid files, (e) a merge under way is one the levels still call for, and
  while its sources are being removed its target holds all they hold. (c) is
  what makes (e) survive: the destination of either kind of merge takes its
  index from a source that is younger than all the files that stay and older
  than those on lower levels, so the target fits into the order.
* From it: `FlushedStays` (`DurableWhileWhole`), `ReadersByAge`
  (`AgeFollowsName`), `IndicesUnique` (`IndicesDiffer`), `FlushedOnce`
  (`VisibleOnce`), `NeverOverwrites` (`TargetIsFresh`).
* `Refinement`: if removals are never cut short (`MaxTorn = 0`), the database
  implements `KvStore`.

`Refinement` also covers what no run does: the run `calls` checks
`ImplementsStore` without interruptions, the theorem holds with crashes and
exceptions at every step of the module but in removals.

And about the level manager:

* `RestartRebuilds` (`RecoveryMatches`): for every configuration. It needs two
  facts more than `WholeInv`, together `LevelsMinimal`: the highest level lists a
  file unless it is the only one, and `nextIndex` follows the index of a listed
  file. The rest is that a set of indices has one ascending listing, so what
  `load_state` may rebuild from the names is one state (`LoadedAgain`).
* `LevelsStayBounded` (`LevelsBounded`): if no call is cut short. The invariant
  `LimitInv` lets level 0 be full between a flush and the merge it calls for, and
  says of a closed database that whatever `load_state` rebuilds is below the
  limits, which is where `RestartRebuilds` comes in. That a full level 0 has a
  cascade to be merged by, and that the cascade stops at a level with room, rests
  on a set of numbers having a least one (`Least`). Without the assumption the
  property is false: an exception between a flush and its merge leaves a level
  at its limit.
* `CompactionLeavesOne` (`CompactLeavesOne`): if no call throws and no removal is
  cut short. The invariant `NothingBeside` adds that between calls the directory
  holds what the readers have open and nothing else, so that a full merge, which
  takes all files that are listed, takes all there are. The assumption is needed:
  the half-written target of a merge that threw stays in the directory.

And about the steps of a call:

* `CallsGoOn`: every step of a call ends it, goes on to a later part of it, or
  leaves one source less to remove.
* `SourcesHaveNext`: while sources are removed, one of them is next in the order of
  the loop. `SourcesLeft` says that sources are finitely many and on finitely many
  levels, which a merge has from the levels it was planned by (`SourcesListed`).

About traversals (`KvTraverse` extends `KvDb` and assumes nothing more):

* `TraverseRefines`: every behaviour with traversals in it is one of `KvDb`, so
  the theorems above hold beside them.
* `TraverseSound` (`TraverseSeesAll`) and `ViewsGood` (`ViewsStayMapped`), for
  every configuration: the invariant `Follows` says that `at` is an open file,
  nowhere, or erased; that nothing is passed when it is nowhere; and, while it is
  an open file, that `passed` holds exactly the live files whose names come before
  it, with their entries. It survives a merge because a cascade takes all files
  from some index on (so, if it takes one that was passed, it takes the one the
  traversal stands in, which ends the claim), and a compaction takes all.

### KvQueryProofs

* `QueryRefines`: every behaviour of `KvQuery` is one of `KvDb`, so all of the
  above holds with the order of entries in view.
* `SortedFiles`: if no key is empty, `FilesSorted` always holds. The inductive
  invariant adds to it what the merge loop keeps: what was written so far is
  sorted, and nothing in it is greater than anything a source still holds. The
  assumption is needed (section 6).
* `RangesAlwaysTile` (`RangesTile`): for every configuration of `KvQuery`, empty
  keys or not. The invariant `RangeInv` says that a file's run lists its entries,
  each once; that a range starts at the number of entries in the files of lower
  index (`IdsBelow`); that the counter is at the number of all entries; and that
  a merge has written each entry it has taken, and no other. A flush adds a file
  above all others. A merge puts its target in the place of its sources, because
  what it leaves out has lower indices (`WellPlanned`), so the smallest of their
  starts is the number of entries in what is left below it. That the counter
  survives a restart is then that the file with the highest index ends where all
  entries end. The same invariant shows that the merge loop always finds a source
  with an entry left, even where an empty key makes it pass over the smallest.
* `BeginAlwaysVisitsAll` (`BeginVisitsAll`), if no key is empty. `Iterable` says
  of a list of files what an iterator needs: each is in order, and no entry is in
  two of them or twice in one. `Walked` is what then holds after every call of
  `next` (`VisitGoesOn`, `AllWalked`): what was visited is what the positions have
  passed, in order, each once, and before all that is ahead; and there is one
  entry less ahead each time, so the end comes after as many calls as there are
  entries. `RangeInv` and `SortedInv` make the open files `Iterable`.
* `SeekVisitsSuffix` (`SeekIsSuffix`), if no key is empty: the walk from the
  beginning passes through the position the seek starts at (`SeekReached`: after
  the entries with smaller keys it stands at the first other one in every file),
  and `next` depends on the position alone.
* `FirstAddedComesFirst` (`FirstAddedFirst`), if no key is empty. The order of
  the walk is now by key and, among equal keys, by age. `StableInv` says that
  until a cascade has mixed two levels every file is in this order, and that a
  merge which takes one level, or all files, has written what an iterator over
  its sources would have visited so far: its step is the step of the iterator,
  as without empty keys `Smallest` is `Current` (`CurrentUnique`). That the
  sources are in order of age is `WellPlanned` with the ranges of `RangeInv`.
* `FilesNeverShow`: so, under the same conditions, an iteration visits the one
  listing the flushed entries have in this order (`OrderedUnique`: where two
  listings first differed, each would have the other's entry behind its own).
  Which files the entries are in does not show.

### PbtStorageProofs

For every size of nodes, footer and file, and every place of the mapping:

* `StorageCorrect`: the inductive invariant; the file is no shorter than what was
  written to it, nodes end before `offset` and before the footer, each holds what
  was written unless some write went through an old address, and after
  `WriteFooter` the footer fills the last cells before `offset`.
* `WritesStayMapped` (`WritesFit`), `GrowingKeepsNodes`
  (`NodesKeptUnlessStale`) and `FooterFound` (`FooterIsLast`) follow from it.

### PbtTreeProofs

For every number of entries and of children, as long as the leaf's counter does
not wrap (`MaxNodeChildren < NodeLimit`, section 6):

* `TreeHasShape`: the inductive invariant `TreeInv`. While entries are added, all
  leaves in the file are full. While `finish` builds, `Shape` says that there are
  a height `ht`, a first and a last entry `lo` and `hi`, and a place before the
  first child `fst` for every node, and a parent `up` for every node that was
  read, such that leaves cut the entries into pieces of `MaxNodeChildren`; that
  each inner node has for children the next nodes of the level below, with the
  keys, starts and reduced values of what they cover; that the level being read
  and the one being written are chains, each node beginning at the entry behind
  the last of the one before; and that what was written covers what was read. None
  of this is a variable: the witness of a step is the old one with the node that
  was written added. That a level holds as many nodes as `finish` has counted, and
  that the last is the root, is arithmetic about `DivCeil`.
* `NodesHaveOneParent` (`EveryNodeHasOneParent`): the parent of a node is `up`.

* `FinishGoesOn`: every step of `finish` comes nearer to its end, also assuming that
  a node may have two children (section 6 tells of the other case) and that
  `MaxHeight` bounds nothing: the loop over the heights records smaller and smaller
  numbers, and no more of them than there are entries (`HeightsFit`), and the loop
  over a level always takes children that are left, because `TreeInv` keeps `taken`
  below the number of nodes that were counted.

### PbtReaderProofs

In every finished file, under the same assumption:

* `AtIsRight` (`AtReadsEveryEntry`): going down by the starts stays above the
  entry that is asked for.
* `IteratorsGoOn` (`IteratesInOrder`): what an iterator visits is the entries
  from where it stands, in order, over the borders of leaves and to the end.
* `GetIsFirst` (`GetReadsFirst`), `SeekFirstIsFirst` (`SeekFirstIsLeast`),
  `SeekLastIsLast` (`SeekLastAndNext`): the binary search finds the first child
  whose last key is not smaller than the key, and that child covers the first
  entry with such a key (`BranchCovers`); so each node on the way down does, and
  the search in the leaf ends at it. The path is the same where equal keys fill
  many nodes, which is where a search that stops at any equal key would fail.
* `TraverseIsComplete` (`TraverseFindsAll`): a traversal skips no subtree with a
  value it is to find, and returns the values once each and in order. The lemma
  `TraverseLists` says it of any set of entries, and of any predicate on reduced
  values that holds wherever the set meets what is below.

The reader's recursive functions are taken apart without an induction rule: a
property of all heights, positions or rounds that failed would fail first at a
least one (`LeastNumber`), and there it does not. That a function defined by
recursion exists at all is shown the same way, by one that is defined up to a
least bound where the next step cannot be added (`VisitExists`, `DownExists`).

### HrDbProofs

* `HrDbWritesTree`: every behaviour of `HrDb` is one of `PbtTree`, whatever the
  curve, so the theorems above hold of its file.
* `SearchIsComplete` (`SearchFindsAll`): a search returns the values whose boxes
  share a point with the one asked for, once each and in the order of the file,
  for boxes whose corners are the right way round (`Proper`) and
  `MaxNodeChildren < NodeLimit`. It is `TraverseLists`, with `ReduceKeepsAll` for
  what it asks of the predicate on reduced boxes, and the fact that two boxes share
  a point if and only if their sides overlap.

For any set of boxes, also ones whose corners are swapped:

* `ReduceKeepsAll`: a box that meets the one asked for has its node's reduced box
  meet it too, so the subtree is not skipped.
* `ReduceOfReduced`: the box of boxes of parts is the box of the whole. This is
  why the model may keep the set of values below a node where the code keeps a
  box reduced level by level.

About the curve, for every order from 1 to 16 and every point whose coordinates
have as many bits:

* `IndexLeadsBack`: `hilbert_index_to_xy` leads from the key of a point back to it.
* `PointLeadsBack`: and the other way round, so no key is without a point, and no two
  points of a grid have one key.
* `NextIsBeside`: two consecutive keys belong to points side by side.
* `KeysAreNear` (`KeysFollowCurve`): so the keys of a database follow the curve
  (`CurveFollows` is the part about the curve alone).

The curve turns from level to level; how it is turned at one depends on whether the
number of digits 0 above is odd, and on whether that of digits 3 is. `Turns` says
of two words that they hold these parities for given coordinates, and `TurnsExist`
that there are such words, built from the highest place down. What the code
computes in logarithmically many rounds is then related to them: `Spans` says what
a state of the scan knows, namely how the turns at a place come from those some
places further up; the round that primes it gives spans of two, each later round
doubles them (`PrimedSpans`, `RoundSpans`), and after three the whole word is
spanned (`ScannedTurns`). `hilbert_index_to_xy` finds the same turns as parities of
digits (`FoldTwice`, `PrefixScanBits`), where folding twice by k is folding by 2k. So
both functions have, level by level, the same relation between digits, bits and
turns (`AtLevel`), which is one-to-one given the turns above; agreement then goes
down from the highest level, from digits to bits (`CurvesAgree`) and from bits to
digits (`DigitsFollow`). For `NextIsBeside` the step to the next
key carries at one level, with a higher digit there and digits 0 in place
of digits 3 below (`NextDigits`): above it the two points agree, there they differ in one bit
of one coordinate, and below it that coordinate has all ones on one side and all
zeros on the other (`Zeros`, `Ones`), while the other agrees. The steps of mask and
shift in `interleave` are taken one by one: each keeps blocks of bits half as long,
moved to blocks twice as far apart (`SpreadBlocks`, `GatherBlocks`).

### SkipListProofs

For any keys and any number of levels and adds:

* `LevelsKept`: the inductive invariant `SkipInv`. Entries on a level differ and
  are in the order of their keys, and a level lists entries of the one below in
  the same order (`Within`). Levels that were missing are empty, which is both.
* `LevelsAlwaysNest` (`LevelsNest`) follows.
* `SearchesFind` (`FindsAsScan`): on each level there is one place with no entry
  beyond in front of it and none other behind it (`IsPlace`), and the search ends
  there on every level (`SearchPlaces`), because what it keeps from the level
  above is an entry in front of the place and one behind it.
* `SkipListRefines` (`ImplementsList`): the new entry is put in at these places,
  which is what `KeyedList` asks of the lowest list; on any level it then lies
  between the same entries as on the one below (`WithinGrow`).

### BindingsProofs

For any sets of databases and iterators (finitely many iterators):

* `HandlesInductive`: the inductive invariant `IInv`. It is the type,
  `PointersGood`, `FreedFlushed`, and four things more: `older`, the order of
  creation, never goes round in a circle of one or two, and in JavaScript puts an
  iterator's database before it; in JavaScript only an iterator that was freed has
  closed files; in JavaScript, which has no `close`, no flush has failed in one;
  and the buffer of an R-tree database with entries has a size (`BoxesSized`).
* `PointersSound` (`PointersGood`), `IteratorsKeepDb` (`IteratorsReadable`),
  `FreedSound` (`FreedFlushed`) and `HandlesTyped` (`TypeOK`) follow from it. The
  order of creation is what makes them hold at the end of an environment, where
  references keep nothing: an iterator is younger than its database, so it is
  finalized first.
* `TeardownNotStuck`: at the end of an environment there is always a newest hook, or
  a newest handle, to go on with, until none is left. `Lined` says that live objects
  are finitely many and that the order of their creation is total and transitive;
  the newest is the one with the most older objects (`YoungestExists`).
* `TeardownGoesOn`: each step of the end leaves one hook or one object less, or goes
  on to a later phase.

### Model-checked only

`CallReturns`, `FinishEnds` and `TeardownEnds` are liveness properties under fairness,
and fairness speaks of `ENABLED`, which is out of the prover's reach. The parts of
them that are about steps are proved: that each step gets nearer to the end
(`CallsGoOn`, `FinishGoesOn`, `TeardownGoesOn`), and, for the loops that pick what
comes next by an order, that there is something to pick (`SourcesHaveNext`,
`TeardownNotStuck`).

## 6. Where the code departs from its documentation

With a run:

* `reopen`: a crash (or an exception) inside a flush or a merge leaves a file of
  zeroes, and every later `open` throws on it; the README promises that a saved
  database can be re-opened.
* `lost`: a compaction after a crash in the removal of sources can choose one of
  its sources as its destination, and then removes what it has written.
* `first_value`: a cascade that takes two levels lists the newer files first, so
  the newer of two values of a key comes first in the merged file, and `get`
  returns it, where its comment promises the first value.
* `seek_index`: with two files whose keys interleave, `seek(index)` is not at the
  entry `at(index)` returns.
* `stale_address`: a node whose write makes the file grow is written through the
  old mapping.

Without one:

* A source whose next key is empty is passed over in the merge
  (`writer.hpp:129`), and the merged file is not sorted. `Smallest` follows the
  code in this; with `Keys = {0, 1}`, `MaxAdds = 3`, `MaxBufferSize = 1` and
  `MaxLevelCount = 2`, TLC finds `FilesSorted` violated.
* The process ends while the sources of a merge are removed (`kvdb.hpp:329`): the
  re-opened database holds entries twice. The properties that this breaks are
  stated under `Whole` in `KvDb`.
* A flush leaves entries whose key and value are both empty in the buffer: it
  goes by the size of the buffer (`kvdb.hpp:287`), where the comment at
  `kvdb.hpp:230` speaks of flushing the buffer. In the bindings such entries are
  lost without an exception when their database is closed or collected, or the
  environment ends (`contexts.hpp:97`, `106`, `io_pinesw_ninedb.cpp:60`), although
  each of these flushes. In `Bindings` they are databases in `pending` and not in
  `sized`.
* `max_node_children` above 65535: the leaf's counter has 16 bits and wraps
  before it is found full (`writer.hpp:79`). `TreeAssumption` asks for less.
* `max_node_children = 1`: the loop at `writer.hpp:163` divides by 1 until
  memory is used up, as soon as there are two entries.
* Coordinates of `HrDb` from 2^16 up: the curve has order 16 (`hrdb.hpp:44`), so
  their keys do not follow the curve. Searches still find all.

## 7. Not modelled

* An exception between the completion of a file and its registration: in the
  mapping of the file that `finish` has just cut to size, or in the allocation of
  its reader (`kvdb.hpp:299` to `305`, `324` to `328`). A flush would leave a
  complete file whose entries are in the buffer still, and the next flush would
  write the file again; or, later, a file the levels list and no reader is open
  for. A merge would leave a complete target beside its sources. Whether the code
  goes on well from there is not explored.
* Constructors of the JavaScript contexts that fail half way (`contexts.hpp:61` to
  `63`, `170` to `172`): a call to Node that throws after the cleanup hook or the
  external was made leaves it pointing to an object that is gone. `JsOpen` and
  `JsBegin` are one step each.
* Two handles on one directory. Nothing locks it, and neither code nor documents
  say what should hold then.
* A `reduce` callback that makes calls on the database it is called by:
  `flush_buffer` would clear what such a call adds. No document says whether it
  may.
* An iterator over no files, which reads the first element of an empty vector: the
  outcome is undefined, and `Walk` over no files is the empty walk.
* In the bindings, the conversion of arguments and results; in Java, the use of a
  handle after it was closed, or a second close, which the interface leaves to
  the script, and the attachment of threads.
* The random LRU cache: nothing uses it, not even a test, so nothing says what its
  callers may expect.

Left out for good: the bytes of nodes and footers, the profiling macros, the
3-dimensional tables of `hilbert.hpp`, which nothing uses, and power failure
(the code asks for asynchronous write-back only, so nothing it does could be
relied on then: a crash here is the end of the process, with the operating
system going on). `max_level_count = 0` and `max_node_children = 0` have no
defined behaviour and are excluded by the modules' assumptions.
