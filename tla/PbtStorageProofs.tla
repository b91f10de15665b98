-------------------------- MODULE PbtStorageProofs --------------------------
(* Proofs about PbtStorage, for every size and every place of a mapping.   *)
EXTENDS PbtStorage, TLAPS

\* What has been written lies before the offset and before the footer, which is
\* the last thing written, and the file is long enough for all of it.
Written(n) == \A k \in DOMAIN spans : spans[k][1] + spans[k][2] <= n
Shape ==
  /\ cells \in Seq(Nat) /\ base \in Nat /\ offset \in Nat
  /\ spans \in Seq(Nat \X Nat) /\ stale \in BOOLEAN
  /\ pc \in {"writing", "trimming", "done", "dead", "thrown"}
FooterKept ==
  pc \in {"trimming", "done"} =>
    /\ FooterSize <= offset
    /\ \A i \in (offset - FooterSize + 1)..offset : cells[i] = Footer
Nodes == ~stale => \A n \in DOMAIN spans : \A i \in 1..spans[n][2] : cells[spans[n][1] + i] = n
StorageInv ==
  /\ Shape /\ WritesFit /\ Written(offset) /\ Nodes /\ FooterKept
  /\ pc = "trimming" => Written(offset - FooterSize)
  /\ pc = "done" => Len(cells) = offset

\* A resized file has the asked length and keeps its cells, those beyond being zero.
LEMMA ResizedType ==
  ASSUME NEW c \in Seq(Nat), NEW size \in Nat
  PROVE  /\ Resized(c, size) \in Seq(Nat) /\ Len(Resized(c, size)) = size
         /\ \A i \in 1..size : Resized(c, size)[i] = IF i <= Len(c) THEN c[i] ELSE 0
BY DEF Resized

\* Growing makes room and keeps what there is.
LEMMA GrownType ==
  ASSUME cells \in Seq(Nat), NEW needed \in Nat
  PROVE  /\ Grown(needed) \in Seq(Nat)
         /\ needed <= Len(Grown(needed)) /\ Len(cells) <= Len(Grown(needed))
         /\ \A i \in 1..Len(cells) : Grown(needed)[i] = cells[i]
<1>1. Len(cells) \in Nat /\ NewSize(needed, Len(cells)) \in Nat
      /\ needed <= NewSize(needed, Len(cells))
  BY DEF NewSize
<1>2. CASE Len(cells) < needed
  <2>1. Grown(needed) = Resized(cells, NewSize(needed, Len(cells)))
    BY <1>2 DEF Grown
  <2> DEFINE size == NewSize(needed, Len(cells))
  <2>2. size \in Nat /\ Len(cells) <= size
    BY <1>1, <1>2
  <2> HIDE DEF size
  <2>3. /\ Resized(cells, size) \in Seq(Nat) /\ Len(Resized(cells, size)) = size
        /\ \A i \in 1..size : Resized(cells, size)[i] = IF i <= Len(cells) THEN cells[i] ELSE 0
    BY <2>2, ResizedType
  <2>4. \A i \in 1..Len(cells) : Resized(cells, size)[i] = cells[i]
    BY <1>1, <2>2, <2>3
  <2> QED BY <1>1, <2>1, <2>2, <2>3, <2>4 DEF size
<1>3. CASE ~(Len(cells) < needed)
  BY <1>1, <1>3 DEF Grown
<1> QED BY <1>2, <1>3

\* A write through the address that an offset has in the mapping changes the
\* cells from that offset on, and no others.
LEMMA StoredType ==
  ASSUME NEW c \in Seq(Nat), NEW at \in Nat, NEW address \in Nat, NEW n \in Nat, NEW what \in Nat
  PROVE  /\ Stored(c, at, address, n, what) \in Seq(Nat)
         /\ Len(Stored(c, at, address, n, what)) = Len(c)
         /\ \A i \in 1..Len(c) : Stored(c, at, address, n, what)[i] =
              IF at + i - 1 \in address..(address + n - 1) THEN what ELSE c[i]
<1>1. Len(c) \in Nat /\ DOMAIN c = 1..Len(c)
  OBVIOUS
<1> QED BY <1>1 DEF Stored

\* A cell of a node that has been written lies in the file, before the offset.
LEMMA SpanCell ==
  ASSUME StorageInv, NEW k \in DOMAIN spans, NEW i \in 1..spans[k][2]
  PROVE  /\ spans[k][1] \in Nat /\ spans[k][2] \in Nat
         /\ spans[k][1] + spans[k][2] <= offset /\ spans[k][1] + i \in 1..offset
         /\ spans[k][1] + i \in 1..Len(cells)
         /\ ~stale => cells[spans[k][1] + i] = k
<1>1. spans[k] \in Nat \X Nat /\ offset \in Nat /\ offset <= Len(cells) /\ Len(cells) \in Nat
  BY DEF StorageInv, Shape, WritesFit
<1>2. spans[k][1] \in Nat /\ spans[k][2] \in Nat
  BY <1>1
<1>3. spans[k][1] + spans[k][2] <= offset
  BY DEF StorageInv, Written
<1>4. ~stale => cells[spans[k][1] + i] = k
  BY DEF StorageInv, Nodes
<1> QED BY <1>1, <1>2, <1>3, <1>4

\* The invariant holds of the file the constructor of Storage makes.
LEMMA InitStorage == ASSUME Init PROVE StorageInv
<1>1. cells = [i \in 1..InitialSize |-> 0] /\ InitialSize \in Nat
  BY StorageAssumption DEF Init
<1>2. cells \in Seq(Nat) /\ Len(cells) = InitialSize
  BY <1>1
<1>3. base \in Nat
  BY StorageAssumption DEF Init
<1>4. offset = 0 /\ spans = <<>> /\ stale = FALSE /\ pc = "writing"
  BY DEF Init
<1>5. Shape
  <2>1. <<>> \in Seq(Nat \X Nat)
    OBVIOUS
  <2> QED BY <1>2, <1>3, <1>4, <2>1 DEF Shape
<1>6. WritesFit /\ Written(offset) /\ Nodes /\ FooterKept
  BY <1>1, <1>2, <1>4 DEF WritesFit, Written, Nodes, FooterKept
<1> QED BY <1>4, <1>5, <1>6 DEF StorageInv

\* Recording one more node leaves the places of the earlier ones alone.
LEMMA AppendSpan ==
  ASSUME NEW s \in Seq(Nat \X Nat), NEW a \in Nat, NEW n \in Nat, NEW t, t = Append(s, <<a, n>>)
  PROVE  /\ Len(t) = Len(s) + 1 /\ DOMAIN t = 1..(Len(s) + 1) /\ t[Len(s) + 1] = <<a, n>>
         /\ \A k \in DOMAIN s : t[k] = s[k] /\ s[k][1] \in Nat /\ s[k][2] \in Nat
<1>1. <<a, n>> \in Nat \X Nat
  OBVIOUS
<1>2. /\ Len(t) = Len(s) + 1 /\ DOMAIN t = 1..(Len(s) + 1) /\ t[Len(s) + 1] = <<a, n>>
      /\ \A k \in 1..Len(s) : t[k] = s[k]
  BY <1>1
<1>3. DOMAIN s = 1..Len(s) /\ \A k \in DOMAIN s : s[k] \in Nat \X Nat
  OBVIOUS
<1>4. \A k \in DOMAIN s : s[k][1] \in Nat /\ s[k][2] \in Nat
  BY <1>3
<1> QED BY <1>2, <1>3, <1>4

\* Writing a node keeps the invariant: it may grow and move the mapping, and its
\* cells lie behind those of every earlier node (writer.hpp, write_node_leaf).
LEMMA WriteNodeStorage ==
  ASSUME StorageInv, NEW size \in NodeSizes, WriteNode(size)
  PROVE  StorageInv'
<1> DEFINE room == Grown(offset + size)
           address == base + offset
           node == Len(spans) + 1
<1>1. /\ pc = "writing" /\ pc' \in {"writing", "dead"}
      /\ base' \in (IF room = cells THEN {base} ELSE Addresses)
      /\ cells' = Stored(room, base', address, size, node)
      /\ offset' = offset + size /\ spans' = Append(spans, <<offset, size>>)
      /\ stale' = (stale \/ base' # base)
  BY DEF WriteNode
<1>2. /\ size \in Nat /\ offset \in Nat /\ base \in Nat /\ base' \in Nat /\ cells \in Seq(Nat)
      /\ spans \in Seq(Nat \X Nat) /\ stale \in BOOLEAN /\ offset <= Len(cells)
      /\ address \in Nat /\ node \in Nat
  BY <1>1, StorageAssumption DEF StorageInv, Shape, WritesFit
<1>3. /\ room \in Seq(Nat) /\ offset + size <= Len(room) /\ Len(cells) <= Len(room)
      /\ \A i \in 1..Len(cells) : room[i] = cells[i]
  <2>1. offset + size \in Nat
    BY <1>2
  <2> HIDE DEF address, node
  <2> QED BY <1>2, <2>1, GrownType
<1> HIDE DEF room, address, node
<1>n. /\ offset + size <= Len(room) /\ Len(cells) <= Len(room) /\ Len(room) \in Nat
      /\ size \in Nat /\ offset \in Nat /\ base \in Nat /\ base' \in Nat /\ address \in Nat
  BY <1>2, <1>3
<1>4. /\ cells' \in Seq(Nat) /\ Len(cells') = Len(room)
      /\ \A i \in 1..Len(room) :
           cells'[i] = IF base' + i - 1 \in address..(address + size - 1) THEN node ELSE room[i]
  <2>1. room \in Seq(Nat) /\ node \in Nat /\ cells' = Stored(room, base', address, size, node)
    BY <1>1, <1>2, <1>3
  <2>2. PICK b : b = base'
    OBVIOUS
  <2>3. /\ Stored(room, b, address, size, node) \in Seq(Nat)
        /\ Len(Stored(room, b, address, size, node)) = Len(room)
        /\ \A i \in 1..Len(room) : Stored(room, b, address, size, node)[i] =
             IF b + i - 1 \in address..(address + size - 1) THEN node ELSE room[i]
    <3>1. b \in Nat /\ address \in Nat /\ size \in Nat
      BY <1>n, <2>2
    <3>2. room \in Seq(Nat) /\ node \in Nat
      BY <2>1
    <3> QED BY <3>1, <3>2, StoredType
  <2> QED BY <2>1, <2>2, <2>3
<1>5. Shape' /\ WritesFit'
  <2>1. spans' \in Seq(Nat \X Nat) /\ offset' \in Nat /\ stale' \in BOOLEAN /\ offset' <= Len(cells')
    BY <1>1, <1>2, <1>3, <1>4
  <2> QED BY <1>1, <1>2, <1>4, <2>1 DEF Shape, WritesFit
<1>6. /\ Len(spans') = Len(spans) + 1 /\ DOMAIN spans' = 1..(Len(spans) + 1)
      /\ spans'[Len(spans) + 1] = <<offset, size>>
      /\ \A k \in DOMAIN spans : spans'[k] = spans[k] /\ spans[k][1] \in Nat /\ spans[k][2] \in Nat
  BY <1>1, <1>2, AppendSpan
<1>7. \A k \in DOMAIN spans : spans[k][1] + spans[k][2] <= offset
  BY DEF StorageInv, Written
<1>8. \A k \in 1..(Len(spans) + 1) : k \in DOMAIN spans \/ k = Len(spans) + 1
  BY <1>2
<1>9. Written(offset)'
  <2> SUFFICES ASSUME NEW k \in DOMAIN spans' PROVE spans'[k][1] + spans'[k][2] <= offset'
    BY DEF Written
  <2>1. CASE k \in DOMAIN spans
    BY <1>1, <1>2, <1>6, <1>7, <2>1
  <2>2. CASE k = Len(spans) + 1
    BY <1>1, <1>2, <1>6, <2>2
  <2> QED BY <1>6, <1>8, <2>1, <2>2
<1>10. Nodes'
  <2> SUFFICES ASSUME ~stale', NEW k \in DOMAIN spans', NEW i \in 1..spans'[k][2]
               PROVE  cells'[spans'[k][1] + i] = k
    BY DEF Nodes
  <2>1. ~stale /\ base' = base /\ address = base + offset
    BY <1>1, <1>2 DEF address
  <2>2. CASE k \in DOMAIN spans
    <3> DEFINE c == spans[k][1] + i
    <3>1. spans'[k] = spans[k] /\ i \in 1..spans[k][2]
      BY <1>6, <2>2
    <3>2. cells[c] = k /\ c \in 1..Len(cells) /\ c \in 1..offset
      BY <2>1, <2>2, <3>1, SpanCell
    <3>3. c \in 1..Len(room) /\ ~(base' + c - 1 \in address..(address + size - 1))
      <4> HIDE DEF c
      <4> QED BY <1>n, <2>1, <3>2
    <3>4. cells'[c] = room[c]
      BY <1>4, <3>3
    <3> QED BY <1>3, <3>1, <3>2, <3>4
  <2>3. CASE k = Len(spans) + 1
    <3>1. i \in 1..size /\ spans'[k][1] = offset
      BY <1>6, <2>3
    <3>2. offset + i \in 1..Len(room) /\ base' + (offset + i) - 1 \in address..(address + size - 1)
      BY <1>2, <1>3, <2>1, <3>1
    <3>3. cells'[offset + i] = node
      BY <1>4, <3>2
    <3> QED BY <2>3, <3>1, <3>3 DEF node
  <2> QED BY <1>6, <1>8, <2>2, <2>3
<1>11. FooterKept' /\ pc' # "trimming" /\ pc' # "done"
  BY <1>1 DEF FooterKept
<1> QED BY <1>5, <1>9, <1>10, <1>11 DEF StorageInv

\* Writing the footer keeps the invariant and puts it where the nodes end.
LEMMA WriteFooterStorage ==
  ASSUME StorageInv, WriteFooter
  PROVE  StorageInv'
<1> DEFINE room == Grown(offset + FooterSize)
<1>0. PICK b : b = base'
  OBVIOUS
<1> DEFINE address == b + offset
<1>1. /\ pc = "writing" /\ pc' = "trimming"
      /\ b \in (IF room = cells THEN {base} ELSE Addresses)
      /\ cells' = Stored(room, b, address, FooterSize, Footer)
      /\ offset' = offset + FooterSize /\ UNCHANGED <<spans, stale>>
  BY <1>0 DEF WriteFooter
<1>2. /\ FooterSize \in Nat /\ offset \in Nat /\ b \in Nat /\ cells \in Seq(Nat)
      /\ spans \in Seq(Nat \X Nat) /\ offset <= Len(cells) /\ Footer \in Nat /\ address \in Nat
  BY <1>1, StorageAssumption DEF StorageInv, Shape, WritesFit, Footer
<1>3. /\ room \in Seq(Nat) /\ offset + FooterSize <= Len(room) /\ Len(cells) <= Len(room)
      /\ \A i \in 1..Len(cells) : room[i] = cells[i]
  <2>1. offset + FooterSize \in Nat
    BY <1>2
  <2> HIDE DEF address
  <2> QED BY <1>2, <2>1, GrownType
<1> HIDE DEF room
<1>n. /\ offset + FooterSize <= Len(room) /\ Len(cells) <= Len(room) /\ Len(room) \in Nat
      /\ FooterSize \in Nat /\ offset \in Nat /\ b \in Nat /\ address \in Nat
  BY <1>2, <1>3
<1>4. /\ cells' \in Seq(Nat) /\ Len(cells') = Len(room)
      /\ \A i \in 1..Len(room) :
           cells'[i] = IF b + i - 1 \in address..(address + FooterSize - 1) THEN Footer ELSE room[i]
  <2>1. room \in Seq(Nat) /\ Footer \in Nat /\ cells' = Stored(room, b, address, FooterSize, Footer)
    BY <1>1, <1>2, <1>3
  <2> HIDE DEF address
  <2> QED BY <1>n, <2>1, StoredType
<1>5. Shape' /\ WritesFit'
  BY <1>0, <1>1, <1>2, <1>3, <1>4 DEF StorageInv, Shape, WritesFit
<1>6. Written(offset)' /\ Written(offset - FooterSize)'
  <2>1. \A k \in DOMAIN spans :
          spans[k][1] + spans[k][2] <= offset /\ spans[k][1] \in Nat /\ spans[k][2] \in Nat
    BY <1>2 DEF StorageInv, Written
  <2>2. \A k \in DOMAIN spans' :
          /\ spans'[k][1] + spans'[k][2] <= offset'
          /\ spans'[k][1] + spans'[k][2] <= offset' - FooterSize
    BY <1>1, <1>2, <2>1
  <2> QED BY <2>2 DEF Written
<1>7. Nodes'
  <2> SUFFICES ASSUME ~stale, NEW k \in DOMAIN spans, NEW i \in 1..spans[k][2]
               PROVE  cells'[spans[k][1] + i] = k
    BY <1>1 DEF Nodes
  <2> DEFINE c == spans[k][1] + i
  <2>1. cells[c] = k /\ c \in 1..Len(cells) /\ c \in 1..offset
    BY SpanCell
  <2>2. c \in 1..Len(room) /\ ~(b + c - 1 \in address..(address + FooterSize - 1))
    <3> HIDE DEF c
    <3> QED BY <1>n, <2>1
  <2>3. cells'[c] = room[c]
    BY <1>4, <2>2
  <2> QED BY <1>3, <2>1, <2>3
<1>8. FooterKept'
  <2> SUFFICES ASSUME NEW i \in (offset' - FooterSize + 1)..offset' PROVE cells'[i] = Footer
    BY <1>1, <1>2 DEF FooterKept
  <2>1. i \in (offset + 1)..(offset + FooterSize) /\ Len(room) \in Nat
    BY <1>1, <1>2, <1>3
  <2>2. i \in 1..Len(room) /\ b + i - 1 \in address..(address + FooterSize - 1)
    BY <1>n, <2>1
  <2> QED BY <1>4, <2>2
<1> QED BY <1>1, <1>5, <1>6, <1>7, <1>8 DEF StorageInv

\* Cutting the file to its offset at the end of finish keeps the invariant.
LEMMA TrimStorage ==
  ASSUME StorageInv, Trim
  PROVE  StorageInv'
<1>1. /\ pc = "trimming" /\ pc' = "done" /\ cells' = Resized(cells, offset)
      /\ base' \in (IF Len(cells) = offset THEN {base} ELSE Addresses)
      /\ UNCHANGED <<offset, spans, stale>>
  BY DEF Trim
<1>2. /\ offset \in Nat /\ base' \in Nat /\ cells \in Seq(Nat) /\ FooterSize \in Nat
      /\ spans \in Seq(Nat \X Nat) /\ offset <= Len(cells)
  BY <1>1, StorageAssumption DEF StorageInv, Shape, WritesFit
<1>3. /\ cells' \in Seq(Nat) /\ Len(cells') = offset
      /\ \A i \in 1..offset : cells'[i] = cells[i]
  <2>1. /\ Resized(cells, offset) \in Seq(Nat) /\ Len(Resized(cells, offset)) = offset
        /\ \A i \in 1..offset : Resized(cells, offset)[i] = IF i <= Len(cells) THEN cells[i] ELSE 0
    BY <1>2, ResizedType
  <2>2. \A i \in 1..offset : i <= Len(cells)
    BY <1>2
  <2> QED BY <1>1, <2>1, <2>2
<1>4. Shape' /\ WritesFit' /\ Written(offset)'
  BY <1>1, <1>2, <1>3 DEF StorageInv, Shape, WritesFit, Written
<1>5. Nodes'
  <2> SUFFICES ASSUME ~stale, NEW k \in DOMAIN spans, NEW i \in 1..spans[k][2]
               PROVE  cells'[spans[k][1] + i] = k
    BY <1>1 DEF Nodes
  <2>1. cells[spans[k][1] + i] = k /\ spans[k][1] + i \in 1..offset
    BY SpanCell
  <2> QED BY <1>3, <2>1
<1>6. FooterKept'
  <2>1. FooterSize <= offset /\ \A i \in (offset - FooterSize + 1)..offset : cells[i] = Footer
    BY <1>1 DEF StorageInv, FooterKept
  <2>2. \A i \in (offset - FooterSize + 1)..offset : i \in 1..offset
    BY <1>2, <2>1
  <2> QED BY <1>1, <1>3, <2>1, <2>2 DEF FooterKept
<1> QED BY <1>1, <1>3, <1>4, <1>5, <1>6 DEF StorageInv

\* Every step of the storage keeps the invariant.
LEMMA StorageStep == ASSUME StorageInv, [Next]_vars PROVE StorageInv'
<1>1. CASE UNCHANGED vars
  BY <1>1 DEF vars, StorageInv, Shape, WritesFit, Written, Nodes, FooterKept
<1>2. CASE ResizeThrows
  BY <1>2 DEF ResizeThrows, StorageInv, Shape, WritesFit, Written, Nodes, FooterKept
<1>3. CASE \E size \in NodeSizes : WriteNode(size)
  BY <1>3, WriteNodeStorage
<1>4. CASE WriteFooter
  BY <1>4, WriteFooterStorage
<1>5. CASE Trim
  BY <1>5, TrimStorage
<1> QED BY <1>1, <1>2, <1>3, <1>4, <1>5 DEF Next

\* However often the file grows and moves, what was written through a current
\* address stays in it, and it is long enough for all that was written.
THEOREM StorageCorrect == Spec => []StorageInv
BY InitStorage, StorageStep, PTL DEF Spec

\* No write through a current address leaves the mapping, however far apart the
\* sizes of a node and of the file are when it grows.
THEOREM WritesStayMapped == Spec => []WritesFit
<1>1. StorageInv => WritesFit
  BY DEF StorageInv
<1> QED BY <1>1, StorageCorrect, PTL

\* Growing never loses a node, however often and wherever the file is mapped
\* again, as long as each node is written through a current address.
THEOREM GrowingKeepsNodes == Spec => []NodesKeptUnlessStale
<1>1. StorageInv => NodesKeptUnlessStale
  <2> SUFFICES ASSUME StorageInv, ~stale, NEW n \in DOMAIN spans, NEW i \in 1..spans[n][2]
               PROVE  spans[n][1] + i \in DOMAIN cells /\ cells[spans[n][1] + i] = n
    BY DEF NodesKeptUnlessStale, NodesKept
  <2>1. DOMAIN cells = 1..Len(cells)
    BY DEF StorageInv, Shape
  <2> QED BY <2>1, SpanCell
<1> QED BY <1>1, StorageCorrect, PTL

\* A finished file ends with its footer, even if nodes were lost on the way.
THEOREM FooterFound == Spec => []FooterIsLast
<1>1. StorageInv => FooterIsLast
  BY StorageAssumption DEF StorageInv, Shape, FooterKept, FooterIsLast
<1> QED BY <1>1, StorageCorrect, PTL

=============================================================================
