------------------------------ MODULE KvQuery ------------------------------
(***************************************************************************)
(* What the files of the database hold, in which order, and what get, at,  *)
(* begin and seek read from them. Every action is one of KvDb, extended by *)
(* what it does to the order of entries; the merge loop of Writer::merge   *)
(* is taken one entry at a time.                                           *)
(*                                                                         *)
(* A key is a number that stands for its place in the order of keys, and 0 *)
(* stands for the empty one. Searching inside one file is what a scan of   *)
(* its entries would give: PbtTree shows that of the tree. The removal of  *)
(* merged files is not cut short here: KvDb shows what that does.          *)
(***************************************************************************)
EXTENDS KvDb

Seqs == INSTANCE SequencesExt

CONSTANT Keys  \* the keys that entries may have

ASSUME QueryAssumption == Keys \subseteq Nat /\ MaxTorn = 0

Empty == 0

VARIABLES
  keyOf,        \* the keys of the entries added so far
  runs,         \* for every valid file, its entries in the order of its leaves
  starts,       \* for every valid file, its Footer::global_start
  globalStart,  \* State::global_start
  sources,      \* src_readers in perform_merge_operation, while it merges
  taken,        \* for each of them, how many entries the merge has taken from it
  out,          \* the entries the merge has added to its writer
  mixed         \* ghost: some cascade has merged files of two levels

content == <<keyOf, runs, starts, globalStart, mixed>>
merging == <<sources, taken, out>>
qvars == <<vars, content, merging>>

Key(e) == keyOf[e + 1]

\* The listings of a finite set in the order that `before` is on it: there is one.
Listings(T, before(_, _)) ==
  {s \in [1..Cardinality(T) -> T] : \A i, j \in 1..Cardinality(T) : i < j => before(s[i], s[j])}

-----------------------------------------------------------------------------
(* Writing files. *)

\* The order of the buffer, a multimap: by key, equal keys as they were added.
BufferBefore(d, e) == Key(d) < Key(e) \/ (Key(d) = Key(e) /\ d < e)
BufferRuns == Listings(buffer, BufferBefore)

\* src_readers, in the order of the merge operation; as a mutant, in the order it
\* would have with reverse = true.
SourceListsReversed(files) == {Seqs!Reverse(s) : s \in Listings(files, Precedes)}
SourceLists(files) == Listings(files, Precedes)

\* All iterators of the merge are at their end; the entry the i-th is at.
MergeOver == \A i \in DOMAIN sources : taken[i] = Len(runs[sources[i]])
Upcoming(i) == runs[sources[i]][taken[i] + 1]

\* Mutant of Smallest: keys[min_index] is not refreshed after next().
SmallestStale ==
  LET live == {i \in DOMAIN sources : taken[i] < Len(runs[sources[i]])}
      first(i) == Key(runs[sources[i]][1])
  IN  CHOOSE i \in live : \A j \in live : first(i) < first(j) \/ (first(i) = first(j) /\ i <= j)

\* The source that the inner loop of Writer::merge picks: the first with the
\* smallest key. An empty min_key counts as none yet, so an empty key gives way
\* to whatever source comes next.
Smallest ==
  LET live == {i \in DOMAIN sources : taken[i] < Len(runs[sources[i]])}
      compared == {i \in live : \A j \in live : Key(Upcoming(j)) = Empty =>
                     j < i \/ (j = i /\ \A k \in live : k <= i)}
  IN  CHOOSE i \in compared : \A j \in compared :
        \/ Key(Upcoming(i)) < Key(Upcoming(j))
        \/ Key(Upcoming(i)) = Key(Upcoming(j)) /\ i <= j

\* The smallest global_start of the sources; as a mutant, that of the first.
MergedStartOfFirst == starts[sources[1]]
MergedStart == CHOOSE s \in {starts[f] : f \in merge.srcs} : \A f \in merge.srcs : s <= starts[f]

-----------------------------------------------------------------------------
(* The actions. *)

\* What is left of the contents when these files are left.
Kept(files) == [f \in files |-> runs[f]]
KeptStarts(files) == [f \in files |-> starts[f]]
NotMerging == sources' = <<>> /\ taken' = <<>> /\ out' = <<>>

InitQuery ==
  /\ Init
  /\ keyOf = <<>> /\ runs = <<>> /\ starts = <<>> /\ globalStart = 0
  /\ sources = <<>> /\ taken = <<>> /\ out = <<>> /\ mixed = FALSE

\* load_state goes on counting where the file with the highest index ends.
OpenQuery(mode) ==
  /\ Open(mode)
  /\ runs' = Kept(DOMAIN disk') /\ starts' = KeptStarts(DOMAIN disk')
  /\ IF DOMAIN disk' = {} THEN globalStart' = 0
     ELSE globalStart' \in {starts[f] + Len(runs[f]) :
            f \in {g \in DOMAIN disk' : \A h \in DOMAIN disk' : h[1] <= g[1]}}
  /\ mixed' = (mixed /\ DOMAIN disk' # {})
  /\ NotMerging /\ UNCHANGED keyOf

AddQuery(size, key) ==
  /\ Add(size)
  /\ keyOf' = Append(keyOf, key)
  /\ NotMerging /\ UNCHANGED <<runs, starts, globalStart, mixed>>

WriteFlushQuery ==
  /\ WriteFlush
  /\ \E run \in BufferRuns : runs' = Put(runs, <<nextIndex, 0>>, run)
  /\ starts' = Put(starts, <<nextIndex, 0>>, globalStart)
  /\ globalStart' = globalStart + Cardinality(buffer)
  /\ NotMerging /\ UNCHANGED <<keyOf, mixed>>

PlanMergeQuery ==
  /\ PlanMerge
  /\ sources' \in SourceLists(merge'.srcs)
  /\ taken' = [i \in DOMAIN sources' |-> 0] /\ out' = <<>>
  /\ UNCHANGED content

MergeEntry ==
  /\ pc = "merging" /\ ~MergeOver
  /\ out' = Append(out, Upcoming(Smallest))
  /\ taken' = [taken EXCEPT ![Smallest] = @ + 1]
  /\ UNCHANGED <<vars, content, sources>>

WriteMergeQuery ==
  /\ WriteMerge /\ MergeOver
  /\ runs' = Put(runs, merge.dst, out)
  /\ starts' = Put(starts, merge.dst, MergedStart)
  /\ mixed' = (mixed \/ (call = "flush" /\ \E f, g \in merge.srcs : f[2] # g[2]))
  /\ NotMerging /\ UNCHANGED <<keyOf, globalStart>>

RemoveSourceQuery ==
  /\ RemoveSource
  /\ runs' = Kept(ValidFiles(disk')) /\ starts' = KeptStarts(ValidFiles(disk'))
  /\ NotMerging /\ UNCHANGED <<keyOf, globalStart, mixed>>

\* Opening restores the level manager's counter, so what it is after the end
\* of the process does not matter.
Other == Flush \/ Compact \/ Exit \/ PlanNothing \/ PlanFaults \/ MergeFaults \/ Crash \/ WriteThrows
OtherQuery == Other /\ NotMerging /\ UNCHANGED content

NextQuery ==
  \/ \E mode \in OpenModes : OpenQuery(mode)
  \/ \E size \in EntrySizes, key \in Keys : AddQuery(size, key)
  \/ WriteFlushQuery
  \/ PlanMergeQuery
  \/ MergeEntry
  \/ WriteMergeQuery
  \/ RemoveSourceQuery
  \/ OtherQuery

SpecQuery == InitQuery /\ [][NextQuery]_qvars

-----------------------------------------------------------------------------
(* Reading. The readers are gone through in the order of their names. *)

Opened ==
  LET names == CHOOSE s \in Listings(readers, NameBefore) : TRUE
  IN  [i \in DOMAIN names |-> runs[names[i]]]

\* KvDb::get: the first entry with that key in the first file that has one.
Get(files, key) ==
  LET places(i) == {p \in DOMAIN files[i] : Key(files[i][p]) = key}
      hits == {i \in DOMAIN files : places(i) # {}}
      first(S) == CHOOSE m \in S : \A n \in S : m <= n
  IN  IF hits = {} THEN {} ELSE {files[first(hits)][first(places(first(hits)))]}

\* KvDb::at, for an index from 0.
At(files, index) ==
  LET all == Seqs!FlattenSeq(files) IN IF index < Len(all) THEN {all[index + 1]} ELSE {}

\* A database iterator is a position in every file.
Begin(files) == [i \in DOMAIN files |-> 0]

\* Mutant of SeekKey: it goes to the first key greater than the given one.
SeekKeyAfter(files, key) ==
  [i \in DOMAIN files |-> Cardinality({p \in DOMAIN files[i] : Key(files[i][p]) <= key})]
SeekKey(files, key) ==
  [i \in DOMAIN files |-> Cardinality({p \in DOMAIN files[i] : Key(files[i][p]) < key})]

\* KvDb::seek(index): what a file does not have is left for the next one.
SeekIndex(files, index) ==
  LET left[i \in 0..Len(files)] ==
        IF i = 0 THEN index
        ELSE IF left[i - 1] < Len(files[i]) THEN 0 ELSE left[i - 1] - Len(files[i])
  IN  [i \in DOMAIN files |-> IF left[i - 1] < Len(files[i]) THEN left[i - 1] ELSE Len(files[i])]

\* Mutant of Current: a file that is at its end is not passed over, its last
\* key still counts.
CurrentStale(files, at) ==
  LET keyAt(i) == Key(files[i][IF at[i] < Len(files[i]) THEN at[i] + 1 ELSE Len(files[i])])
  IN  CHOOSE i \in DOMAIN at : \A j \in DOMAIN at :
        keyAt(i) < keyAt(j) \/ (keyAt(i) = keyAt(j) /\ i <= j)

\* Iterator::get_min_index: the first of the files with the smallest key, among
\* those that are not at their end.
Current(files, at) ==
  LET live == {i \in DOMAIN at : at[i] < Len(files[i])}
      keyAt(i) == Key(files[i][at[i] + 1])
  IN  CHOOSE i \in live : \A j \in live :
        keyAt(i) < keyAt(j) \/ (keyAt(i) = keyAt(j) /\ i <= j)

\* Iterator::next, where the current file has an entry left.
Visit(files, w) ==
  LET i == Current(files, w.at)
  IN  [at |-> [w.at EXCEPT ![i] = @ + 1],
       seen |-> IF w.at[i] < Len(files[i]) THEN Append(w.seen, files[i][w.at[i] + 1]) ELSE w.seen]

\* The places that an iterator has before it.
Ahead(files, at) == UNION {{<<i, p>> : p \in (at[i] + 1)..Len(files[i])} : i \in DOMAIN files}

\* What an iterator that starts at `from` visits until it is at its end.
Walk(files, from) ==
  LET total == Cardinality(Ahead(files, from))
      steps[n \in 0..total] ==
        IF n = 0 THEN [at |-> from, seen |-> <<>>] ELSE Visit(files, steps[n - 1])
  IN  steps[total].seen

-----------------------------------------------------------------------------
Idle == pc = "idle"
ByKey(s) == \A i, j \in DOMAIN s : i < j => Key(s[i]) <= Key(s[j])

\* Every finished file is sorted by key, through any merges (pbt::Writer::merge):
\* the search in its tree relies on that.
FilesSorted == \A f \in ValidFiles(disk) : ByKey(runs[f])

\* An iteration from the beginning visits every flushed entry once and in the
\* order of keys, whatever files the entries have ended up in.
BeginVisitsAll ==
  Idle => LET w == Walk(Opened, Begin(Opened)) IN
    Seqs!ToSet(w) = durable /\ Len(w) = Cardinality(durable) /\ ByKey(w)

\* Values of one key are visited in the order they were added, and get returns
\* the first, as long as no cascade has merged two levels at once.
FirstAddedFirst ==
  Idle /\ ~mixed =>
    LET files == Opened
        w == Walk(files, Begin(files))
    IN  /\ \A i, j \in DOMAIN w : i < j /\ Key(w[i]) = Key(w[j]) => w[i] < w[j]
        /\ \A key \in Keys :
             Get(files, key) = {e \in durable : Key(e) = key /\ \A d \in durable : Key(d) = key => e <= d}

\* An iteration from a key visits what an iteration from the beginning visits
\* from the first entry on that has this key or a greater one.
SeekIsSuffix ==
  Idle =>
    LET files == Opened
        w == Walk(files, Begin(files))
    IN  \A key \in Keys :
          LET rest == {n \in DOMAIN w : Key(w[n]) >= key}
          IN  Walk(files, SeekKey(files, key)) = SubSeq(w, Len(w) - Cardinality(rest) + 1, Len(w))

\* The ranges in the footers number the entries of the whole database without
\* a gap or an overlap, through merges, aborted merges and restarts.
RangesTile ==
  Idle =>
    LET range(f) == starts[f]..(starts[f] + Len(runs[f]) - 1) IN
      /\ \A f, g \in readers : f # g => range(f) \cap range(g) = {}
      /\ UNION {range(f) : f \in readers} = 0..(Cardinality(durable) - 1)
      /\ globalStart = Cardinality(durable)

\* KvDb::get returns the first value that was added for the key.
GetReturnsFirst ==
  Idle => \A key \in Keys : \A e \in Get(Opened, key) : \A d \in durable : Key(d) = key => e <= d

\* An iterator sought to an index is at the entry that at returns for it.
SeekFindsIndex ==
  Idle =>
    LET files == Opened IN
      \A n \in 0..(Cardinality(durable) - 1) : At(files, n) = {Walk(files, SeekIndex(files, n))[1]}

=============================================================================
