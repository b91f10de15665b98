----------------------------- MODULE PbtStorage -----------------------------
(***************************************************************************)
(* The memory mapping that a Writer writes its file through, and how it    *)
(* grows (pbt/detail/storage.hpp, and the write functions at the end of    *)
(* pbt/writer.hpp). Growing unmaps the file and maps it again, possibly    *)
(* elsewhere. The file is an array of cells; a cell holds the number of    *)
(* the node written to it, or Footer, or 0.                                *)
(***************************************************************************)
EXTENDS Integers, Sequences

CONSTANTS
  InitialSize,  \* WriterConfig::initial_pbt_size
  NodeSizes,    \* the sizes a node may have
  FooterSize,   \* sizeof(Footer)
  Addresses,    \* where the operating system may map the file
  MaxNodes      \* bound: the number of nodes written

ASSUME StorageAssumption ==
  /\ InitialSize \in Nat \ {0} /\ FooterSize \in Nat \ {0}
  /\ NodeSizes \subseteq Nat \ {0} /\ Addresses \subseteq Nat /\ MaxNodes \in Nat

Footer == MaxNodes + 1

VARIABLES
  cells,   \* the bytes of the file, from offset 0
  base,    \* Storage::get_address()
  offset,  \* Writer::write_offset
  spans,   \* ghost: where each node was to be written: first offset and size
  stale,   \* ghost: some node was written through an address that had been given up
  pc

vars == <<cells, base, offset, spans, stale, pc>>

\* Mutant of NewSize: it doubles, whether or not that is enough.
NewSizeDoubled(needed, size) == 2 * size

\* ensure_size: what the size of the file becomes when this much is needed.
NewSize(needed, size) == IF 2 * size < needed THEN needed ELSE 2 * size

\* Mutant of Resized: the cells the file had are lost.
ResizedEmpty(c, size) == [i \in 1..size |-> 0]

\* set_size: the file keeps what it has, and grows by zeroes.
Resized(c, size) == [i \in 1..size |-> IF i <= Len(c) THEN c[i] ELSE 0]

Grown(needed) == IF Len(cells) < needed THEN Resized(cells, NewSize(needed, Len(cells))) ELSE cells

\* The cells c, mapped at `at`, after n cells were written at an address.
Stored(c, at, address, n, what) ==
  [i \in DOMAIN c |-> IF at + i - 1 \in address..(address + n - 1) THEN what ELSE c[i]]
Outside(c, at, address, n) == ~(address >= at /\ address + n <= at + Len(c))

-----------------------------------------------------------------------------
\* The constructor: the file is resized to the initial size, mapped and cleared.
Init ==
  /\ cells = [i \in 1..InitialSize |-> 0] /\ base \in Addresses
  /\ offset = 0 /\ spans = <<>> /\ stale = FALSE /\ pc = "writing"

\* write_node_leaf and write_node_internal: the address is taken before the size
\* is ensured. Memory outside the mapping may belong to nobody, and then the
\* process dies, or to something else, which is then overwritten.
WriteNode(size) ==
  /\ pc = "writing" /\ Len(spans) < MaxNodes
  /\ LET address == base + offset
         room == Grown(offset + size)
         node == Len(spans) + 1
     IN  /\ base' \in (IF room = cells THEN {base} ELSE Addresses)
         /\ cells' = Stored(room, base', address, size, node)
         /\ pc' \in {"writing"} \cup (IF Outside(room, base', address, size) THEN {"dead"} ELSE {})
  /\ offset' = offset + size
  /\ spans' = Append(spans, <<offset, size>>)
  /\ stale' = (stale \/ base' # base)

\* write_footer: the address is taken after the size is ensured.
WriteFooter ==
  /\ pc = "writing"
  /\ LET room == Grown(offset + FooterSize)
     IN  /\ base' \in (IF room = cells THEN {base} ELSE Addresses)
         /\ cells' = Stored(room, base', base' + offset, FooterSize, Footer)
  /\ offset' = offset + FooterSize
  /\ pc' = "trimming"
  /\ UNCHANGED <<spans, stale>>

\* Mutant of Trim: the file keeps the size it has grown to.
TrimNothing == pc = "trimming" /\ pc' = "done" /\ UNCHANGED <<cells, base, offset, spans, stale>>

\* The end of finish: set_size to what was written.
Trim ==
  /\ pc = "trimming"
  /\ cells' = Resized(cells, offset)
  /\ base' \in (IF Len(cells) = offset THEN {base} ELSE Addresses)
  /\ pc' = "done"
  /\ UNCHANGED <<offset, spans, stale>>

\* The file cannot be resized: set_size throws with nothing mapped.
ResizeThrows ==
  /\ \/ \E size \in NodeSizes : pc = "writing" /\ Len(spans) < MaxNodes /\ Len(cells) < offset + size
     \/ pc = "writing" /\ Len(cells) < offset + FooterSize
     \/ pc = "trimming" /\ Len(cells) # offset
  /\ pc' = "thrown"
  /\ UNCHANGED <<cells, base, offset, spans, stale>>

Next ==
  \/ \E size \in NodeSizes : WriteNode(size)
  \/ WriteFooter
  \/ Trim
  \/ ResizeThrows

Spec == Init /\ [][Next]_vars

-----------------------------------------------------------------------------
\* Every node that was written is in the file, where the tree will refer to it.
NodesKept ==
  pc \in {"writing", "trimming", "done"} =>
    \A n \in DOMAIN spans : \A i \in 1..spans[n][2] : spans[n][1] + i \in DOMAIN cells /\ cells[spans[n][1] + i] = n

\* Growing, the footer and the final cut leave the nodes as they were written,
\* as long as no node was written through the address of an earlier mapping.
NodesKeptUnlessStale == ~stale => NodesKept

\* The footer of a finished file is where Reader::read_footer looks for it, in
\* the last bytes of the file, however much the mapping had grown.
FooterIsLast ==
  pc = "done" =>
    /\ Len(cells) = offset
    /\ \A i \in (Len(cells) - FooterSize + 1)..Len(cells) : i >= 1 /\ cells[i] = Footer

\* The file is never shorter than what has been written to it: no write through
\* a current address leaves the mapping.
WritesFit == offset <= Len(cells)

=============================================================================
