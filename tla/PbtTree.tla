------------------------------ MODULE PbtTree ------------------------------
(***************************************************************************)
(* One PBT file: the tree that a Writer builds from entries added in the   *)
(* order of their keys, and what a Reader and its iterators find in it     *)
(* (pbt/writer.hpp, pbt/reader.hpp, pbt/iterator.hpp).                     *)
(*                                                                         *)
(*   adding --StartFinish--> counting --StopCounting--> building           *)
(*          --WriteInternal--> ... --WriteFooter--> done                   *)
(*                                                                         *)
(* Nodes lie one after the other in the file, so the offset of a node is   *)
(* abstracted to its position among them. An entry is the order number of  *)
(* its add, and stands for its value; a key is a number. The reduce        *)
(* callback is taken to keep the set of the values it is given, and a      *)
(* predicate to ask whether such a set meets a given one.                  *)
(***************************************************************************)
EXTENDS Integers, Sequences, FiniteSets

Seqs == INSTANCE SequencesExt

CONSTANTS
  MaxNodeChildren,  \* WriterConfig::max_node_children
  NodeLimit,        \* num_children is counted modulo this, 2^16 in the code
  Keys,             \* the keys that entries may have
  MaxEntries,       \* bound: the number of add calls
  MaxHeight         \* bound: how many levels the loop in finish can record

\* A file whose leaf counter has wrapped is only looked at while it has one node:
\* what a reader makes of several is then undefined.
ASSUME TreeAssumption ==
  /\ MaxNodeChildren \in Nat \ {0} /\ NodeLimit \in Nat \ {0}
  /\ MaxEntries \in Nat /\ MaxHeight \in Nat
  /\ Keys \subseteq Nat
  /\ MaxNodeChildren < NodeLimit \/ MaxEntries <= MaxNodeChildren

VARIABLES
  entries,  \* ghost: the keys of the entries added, in order; its length is num_entries
  leaf,     \* Writer::buffer_leaf
  nodes,    \* the nodes in the file, in the order of their offsets
  counts,   \* entry_counts in finish
  level,    \* i in finish, the level of the nodes being read
  taken,    \* how many nodes of that level have been made children
  read,     \* how many nodes of the file have: read_offset
  packed,   \* child_entry_count_packed
  footer,   \* the Footer: root, height and number of entries
  pc

vars == <<entries, leaf, nodes, counts, level, taken, read, packed, footer, pc>>

-----------------------------------------------------------------------------
(* Nodes. *)

\* NodeLeaf::write: num_children is what the counter of the builder has come to.
LeafNode(es) == [count |-> Len(es) % NodeLimit, entries |-> es]

\* read_node_leaf_metadata and read_node_internal_metadata: the first and last
\* key of the node at a position and the values (or reduced values) it holds.
LeftKey(pos) == IF level <= 1 THEN entries[nodes[pos].entries[1]] ELSE nodes[pos].left
RightKey(pos) ==
  LET node == nodes[pos]
  IN  IF level <= 1 THEN entries[node.entries[node.count]] ELSE node.children[node.count].right
ReducedValue(pos) ==
  LET node == nodes[pos]
  IN  IF level <= 1 THEN {node.entries[k] : k \in 1..node.count}
      ELSE UNION {node.children[k].reduced : k \in 1..node.count}

\* Mutant of InternalNode: the values of the last child are not reduced.
InternalNodeStaleReduce(n) ==
  [count |-> n, left |-> LeftKey(read + 1),
   children |-> [k \in 1..n |->
     [right |-> RightKey(read + k),
      reduced |-> ReducedValue(IF k = n /\ n > 1 THEN read + k - 1 ELSE read + k),
      start |-> (taken + k - 1) * packed, offset |-> read + k]]]

\* The internal node over the next n nodes.
InternalNode(n) ==
  [count |-> n, left |-> LeftKey(read + 1),
   children |-> [k \in 1..n |->
     [right |-> RightKey(read + k), reduced |-> ReducedValue(read + k),
      start |-> (taken + k - 1) * packed, offset |-> read + k]]]

-----------------------------------------------------------------------------
(* The writer. *)

Init ==
  /\ entries = <<>> /\ leaf = <<>> /\ nodes = <<>> /\ counts = <<>>
  /\ level = 1 /\ taken = 0 /\ read = 0 /\ packed = MaxNodeChildren
  /\ footer = [root |-> 0, height |-> 0, count |-> 0]
  /\ pc = "adding"

\* Writer::add. Its callers, the flush of a sorted buffer and the merge of
\* sorted files, add the keys in order.
Add(key) ==
  /\ pc = "adding" /\ Len(entries) < MaxEntries
  /\ entries # <<>> => entries[Len(entries)] <= key
  /\ entries' = Append(entries, key)
  /\ LET grown == Append(leaf, Len(entries'))
     IN  IF Len(grown) % NodeLimit >= MaxNodeChildren
           THEN leaf' = <<>> /\ nodes' = Append(nodes, LeafNode(grown))
           ELSE leaf' = grown /\ UNCHANGED nodes
  /\ UNCHANGED <<counts, level, taken, read, packed, footer, pc>>

\* The flush in finish, which looks at the counter of the builder.
StartFinish ==
  /\ pc = "adding"
  /\ IF Len(leaf) % NodeLimit = 0 THEN UNCHANGED <<leaf, nodes>>
     ELSE leaf' = <<>> /\ nodes' = Append(nodes, LeafNode(leaf))
  /\ counts' = IF entries = <<>> THEN <<>> ELSE <<Len(entries)>>
  /\ pc' = "counting"
  /\ UNCHANGED <<entries, level, taken, read, packed, footer>>

DivCeil(n) == (n + MaxNodeChildren - 1) \div MaxNodeChildren
Last(s) == s[Len(s)]

\* Mutant of TooMany: the loop goes on until nothing is left.
TooManyAlways == counts # <<>> /\ Last(counts) >= 1

\* The loop that finds the heights; it is over when one node can hold the rest.
TooMany == counts # <<>> /\ Last(counts) > MaxNodeChildren

CountLevel ==
  /\ pc = "counting" /\ TooMany
  /\ counts' = IF Len(counts) < MaxHeight THEN Append(counts, DivCeil(Last(counts))) ELSE counts
  /\ UNCHANGED <<entries, leaf, nodes, level, taken, read, packed, footer, pc>>
StopCounting ==
  /\ pc = "counting" /\ ~TooMany
  /\ pc' = "building"
  /\ UNCHANGED <<entries, leaf, nodes, counts, level, taken, read, packed, footer>>

\* Mutant of Children: the last node of a level is taken for a full one.
ChildrenAlwaysFull == MaxNodeChildren

\* The size of the next node of the level: as many children as are left.
Children ==
  LET left == counts[level + 1] - taken IN IF left < MaxNodeChildren THEN left ELSE MaxNodeChildren

\* One node of a level; after the last one the next level begins.
WriteInternal ==
  /\ pc = "building" /\ level < Len(counts)
  /\ nodes' = Append(nodes, InternalNode(Children))
  /\ read' = read + Children
  /\ IF taken + Children < counts[level + 1]
       THEN taken' = taken + Children /\ UNCHANGED <<level, packed>>
       ELSE taken' = 0 /\ level' = level + 1 /\ packed' = packed * MaxNodeChildren
  /\ UNCHANGED <<entries, leaf, counts, footer, pc>>

WriteFooter ==
  /\ pc = "building" /\ level >= Len(counts)
  /\ footer' = [root |-> read + 1, height |-> Len(counts), count |-> Len(entries)]
  /\ pc' = "done"
  /\ UNCHANGED <<entries, leaf, nodes, counts, level, taken, read, packed>>

Finish == StartFinish \/ CountLevel \/ StopCounting \/ WriteInternal \/ WriteFooter
Next == (\E key \in Keys : Add(key)) \/ Finish

Spec == Init /\ [][Next]_vars

-----------------------------------------------------------------------------
(* The reader: going down the tree. A height of 1 is that of the leaves.    *)

Height == footer.height
KeyAt(pos, i) == entries[nodes[pos].entries[i]]

\* Mutant of Branch: a key equal to a right key is looked for behind it.
BranchAfter(pos, key) ==
  LET c == nodes[pos].count
      search[range \in (1..c) \X (1..c)] ==
        LET lo == range[1]
            hi == range[2]
            mid == lo + (hi - lo) \div 2
        IN  IF lo >= hi THEN lo
            ELSE search[IF key < nodes[pos].children[mid].right THEN <<lo, mid>> ELSE <<mid + 1, hi>>]
  IN  search[<<1, c>>]

\* The binary search in find: the first child whose right key is not smaller
\* than the key, or the last child.
Branch(pos, key) ==
  LET c == nodes[pos].count
      search[range \in (1..c) \X (1..c)] ==
        LET lo == range[1]
            hi == range[2]
            mid == lo + (hi - lo) \div 2
        IN  IF lo >= hi THEN lo
            ELSE search[IF key <= nodes[pos].children[mid].right THEN <<lo, mid>> ELSE <<mid + 1, hi>>]
  IN  search[<<1, c>>]

\* The node that find is at on every level.
PathTo(key) ==
  LET path[h \in 1..Height] ==
        IF h = Height THEN footer.root
        ELSE nodes[path[h + 1]].children[Branch(path[h + 1], key)].offset
  IN  path

\* Where find stops in its leaf: the position of the leaf and the number of the
\* entry in it, or nothing.
FoundIn(pos, matches(_)) ==
  LET hits == {i \in 1..nodes[pos].count : matches(KeyAt(pos, i))}
  IN  {[node |-> pos, at |-> i] : i \in {k \in hits : \A j \in hits : k <= j}}

FindExact(key) ==
  LET path == PathTo(key)
      outside(pos) == key < nodes[pos].left \/ key > nodes[pos].children[Branch(pos, key)].right
  IN  IF Height = 0 \/ \E h \in 2..Height : outside(path[h]) THEN {}
      ELSE FoundIn(path[1], LAMBDA k : k = key)
FindAtLeast(key) ==
  IF Height = 0 THEN {} ELSE FoundIn(PathTo(key)[1], LAMBDA k : k >= key)

\* Mutant of EntryStart: it is that of the child of the root.
EntryStartOfTop(key) ==
  IF Height < 2 THEN 0
  ELSE LET pos == footer.root IN nodes[pos].children[Branch(pos, key)].start

\* entry_start in find, before the entry's number in the leaf is added to it.
EntryStart(key) ==
  IF Height < 2 THEN 0
  ELSE LET pos == PathTo(key)[2] IN nodes[pos].children[Branch(pos, key)].start

\* Mutant of IndexBranch: an entry that starts a child is looked for before it.
IndexBranchLate(pos, index) ==
  LET c == nodes[pos].count
  IN  CHOOSE i \in 1..c :
        /\ i = c \/ index <= nodes[pos].children[i + 1].start
        /\ \A j \in 1..(i - 1) : index > nodes[pos].children[j + 1].start

\* The child that find_index goes on with.
IndexBranch(pos, index) ==
  LET c == nodes[pos].count
  IN  CHOOSE i \in 1..c :
        /\ i = c \/ index < nodes[pos].children[i + 1].start
        /\ \A j \in 1..(i - 1) : index >= nodes[pos].children[j + 1].start

\* find_index, for an index from 0: the leaf, and the entry's number in it.
\* leaf_entry_start stays as it was when the first child is taken.
FindIndex(index) ==
  LET path[h \in 1..Height] ==
        IF h = Height THEN [node |-> footer.root, start |-> 0]
        ELSE LET above == path[h + 1]
                 i == IndexBranch(above.node, index)
                 child == nodes[above.node].children[i]
             IN  [node |-> child.offset, start |-> IF i = 1 THEN above.start ELSE child.start]
  IN  IF Height = 0 \/ index >= footer.count THEN {}
      ELSE {[node |-> path[1].node, at |-> index - path[1].start + 1]}

\* read_key and read_value of an entry: its order number tells both. 0 stands
\* for whatever lies behind the entries of the leaf, or behind the leaves.
IsLeaf(pos) == pos \in DOMAIN nodes /\ "entries" \in DOMAIN nodes[pos]
ReadEntry(pos, i) == IF IsLeaf(pos) /\ i \in 1..nodes[pos].count THEN nodes[pos].entries[i] ELSE 0

Get(key) == {ReadEntry(f.node, f.at) : f \in FindExact(key)}
At(index) == {ReadEntry(f.node, f.at) : f \in FindIndex(index)}

\* traverse, for a predicate that holds of the values and the reduced values
\* in two sets: the values it accumulates.
TraverseWhere(values, reduced) ==
  LET visit[h \in 1..Height] ==
        [pos \in DOMAIN nodes |-> Seqs!FlattenSeq([i \in 1..nodes[pos].count |->
           IF h = 1
             THEN LET e == nodes[pos].entries[i] IN IF e \in values THEN <<e>> ELSE <<>>
             ELSE LET child == nodes[pos].children[i]
                  IN  IF child.reduced \in reduced THEN visit[h - 1][child.offset] ELSE <<>>])]
  IN  IF Height = 0 THEN <<>> ELSE visit[Height][footer.root]

\* For the predicate that holds of a value in T and of a reduced value that has one.
Traverse(T) == TraverseWhere(T, {S \in SUBSET (DOMAIN entries) : S \cap T # {}})

-----------------------------------------------------------------------------
(* Iterators. *)

Iterator(pos, i, remaining) == [node |-> pos, at |-> i, remaining |-> remaining]
End == Iterator(0, 1, 0)

\* Mutant of NextOf: the iterator goes on to the next leaf one entry too late.
NextOfLate(it) ==
  LET over == IsLeaf(it.node) => it.at > nodes[it.node].count
  IN  Iterator(IF over /\ it.remaining > 1 THEN it.node + 1 ELSE it.node,
               IF over THEN 1 ELSE it.at + 1, it.remaining - 1)

\* Iterator::next: the leaves lie one after the other in the file.
NextOf(it) ==
  LET over == IsLeaf(it.node) => it.at + 1 > nodes[it.node].count
  IN  Iterator(IF over /\ it.remaining > 1 THEN it.node + 1 ELSE it.node,
               IF over THEN 1 ELSE it.at + 1, it.remaining - 1)

\* All the positions of an iterator up to its end, and the entries at them.
Positions(it) ==
  LET pos[n \in 0..it.remaining] == IF n = 0 THEN it ELSE NextOf(pos[n - 1]) IN pos
Visited(it) ==
  LET pos == Positions(it)
  IN  [n \in 1..it.remaining |-> ReadEntry(pos[n - 1].node, pos[n - 1].at)]

Begin == Iterator(1, 1, footer.count)
SeekIndex(index) ==
  IF FindIndex(index) = {} THEN End
  ELSE LET f == CHOOSE g \in FindIndex(index) : TRUE
       IN  Iterator(f.node, f.at, footer.count - index)
SeekFirst(key) ==
  IF FindAtLeast(key) = {} THEN End
  ELSE LET f == CHOOSE g \in FindAtLeast(key) : TRUE
       IN  Iterator(f.node, f.at, footer.count - (EntryStart(key) + f.at - 1))

\* Mutant of SeekLast: its loop also stops at an equal key.
SeekLastAtFirst(key) ==
  LET first == SeekFirst(key)
      pos == Positions(first)
      stays(n) == n + 1 >= first.remaining \/ KeyAt(pos[n + 1].node, pos[n + 1].at) >= key
  IN  IF first.remaining = 0 THEN first
      ELSE pos[CHOOSE n \in 0..first.remaining : stays(n) /\ \A m \in 0..(n - 1) : ~stays(m)]

\* seek_last moves on as long as the key of the next position is not greater.
SeekLast(key) ==
  LET first == SeekFirst(key)
      pos == Positions(first)
      stays(n) == n + 1 >= first.remaining \/ KeyAt(pos[n + 1].node, pos[n + 1].at) > key
  IN  IF first.remaining = 0 THEN first
      ELSE pos[CHOOSE n \in 0..first.remaining : stays(n) /\ \A m \in 0..(n - 1) : ~stays(m)]

SeekNext(key) ==
  LET it == SeekLast(key)
  IN  IF it.remaining > 0 /\ KeyAt(it.node, it.at) = key THEN NextOf(it) ELSE it

-----------------------------------------------------------------------------
(* What should hold: the tree is searched to the answers a scan of the      *)
(* entries would give.                                                      *)

Done == pc = "done"
From(n) == [i \in 1..(Len(entries) + 1 - n) |-> i + n - 1]
Having(keys) == {e \in DOMAIN entries : entries[e] \in keys}
FirstOf(S) == IF S = {} THEN Len(entries) + 1 ELSE CHOOSE e \in S : \A d \in S : e <= d
LastOf(S) == CHOOSE e \in S : \A d \in S : d <= e
\* The elements of a set of entries, in order.
Lists(s, T) ==
  /\ s \in Seq(T) /\ \A e \in T : \E i \in DOMAIN s : s[i] = e
  /\ \A i, j \in DOMAIN s : i < j => s[i] < s[j]
KeysAround == {0} \cup Keys \cup {key + 1 : key \in Keys}

\* While internal nodes are written, their children are nodes already written;
\* in the end the root is the last node, and every other node has one parent.
EveryNodeHasOneParent ==
  /\ pc = "building" /\ level < Len(counts) => read + Children <= Len(nodes)
  /\ Done /\ Height > 0 =>
       LET internal == {p \in DOMAIN nodes : ~IsLeaf(p)}
           links == UNION {{<<p, i>> : i \in DOMAIN nodes[p].children} : p \in internal}
       IN  /\ footer.root = Len(nodes)
           /\ \A p \in 1..(Len(nodes) - 1) :
                Cardinality({l \in links : nodes[l[1]].children[l[2]].offset = p}) = 1

\* Reader::at reads every entry at its index and none beyond the last.
AtReadsEveryEntry ==
  Done => \A n \in 0..(Len(entries) + 1) : At(n) = IF n < Len(entries) THEN {n + 1} ELSE {}

\* Reader::get reads the first entry with the key, if there is one, also when
\* equal keys fill several nodes.
GetReadsFirst ==
  Done => \A key \in KeysAround :
    Get(key) = IF Having({key}) = {} THEN {} ELSE {FirstOf(Having({key}))}

\* An iterator from the beginning or from an index goes through all entries from
\* there on, across the borders of leaves.
IteratesInOrder ==
  Done =>
    /\ Visited(Begin) = From(1)
    /\ \A n \in 0..(Len(entries) + 1) : Visited(SeekIndex(n)) = From(n + 1)

\* seek_first is at the first entry with the key or a greater one, and from there
\* goes on to the last entry of the file.
SeekFirstIsLeast ==
  Done => \A key \in KeysAround :
    Visited(SeekFirst(key)) = From(FirstOf({e \in DOMAIN entries : entries[e] >= key}))

\* seek_last is at the last entry with the key, or where seek_first is if there
\* is none; seek_next is at the first entry with a greater key.
SeekLastAndNext ==
  Done => \A key \in KeysAround :
    /\ Having({key}) # {} => Visited(SeekLast(key)) = From(LastOf(Having({key})))
    /\ Having({key}) = {} => SeekLast(key) = SeekFirst(key)
    /\ Visited(SeekNext(key)) = From(FirstOf({e \in DOMAIN entries : entries[e] > key}))

\* traverse accumulates, in order, exactly the values that satisfy the predicate:
\* no subtree with one of them is skipped.
TraverseFindsAll ==
  Done => \A d, e \in DOMAIN entries : Lists(Traverse({d, e}), {d, e})

\* finish comes to an end.
FinishEnds == pc = "counting" ~> Done

=============================================================================
