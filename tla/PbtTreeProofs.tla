--------------------------- MODULE PbtTreeProofs ----------------------------
(* Proofs about the tree in a PBT file, for every number of entries and of  *)
(* children of a node: the shape it has at every step of the writer.        *)
EXTENDS PbtTree, TLAPS, FiniteSetTheorems, SequenceTheorems

N == Len(entries)
Fan == MaxNodeChildren

-----------------------------------------------------------------------------
(* Numbers and sequences. *)

\* A non-empty set of natural numbers has a smallest element.
LEMMA LeastNumber ==
  ASSUME NEW T, T \subseteq Nat, T # {}
  PROVE  \E m \in T : \A n \in T : m <= n
<1>1. PICK m \in T : \A n \in T : ~(<<n, m>> \in OpToRel(<, Nat))
  BY WFMin, NatLessThanWellFounded, Zenon
<1>2. \A n \in T : ~(n < m)
  BY <1>1 DEF OpToRel
<1> QED BY <1>2

LEMMA FanType == Fan \in Nat \ {0}
BY TreeAssumption DEF Fan

LEMMA Times ==
  ASSUME NEW a \in Nat, NEW b \in Nat
  PROVE  /\ a * b \in Nat
         /\ (a + 1) * b = a * b + b
         /\ \A c \in Nat : a <= c => a * b <= c * b
         /\ \A c \in Nat : (a * b) * c = a * (c * b)
<1>1. a * b \in Nat /\ (a + 1) * b = a * b + b
  OBVIOUS
<1>2. ASSUME NEW c \in Nat, a <= c PROVE a * b <= c * b
  BY <1>2
<1>3. ASSUME NEW c \in Nat PROVE (a * b) * c = a * (c * b)
  OBVIOUS
<1> QED BY <1>1, <1>2, <1>3

\* The first entry of the k-th of nodes that cover as many entries as size says.
FirstEntry(k, size) == (k - 1) * size + 1

LEMMA FirstEntryGrows ==
  ASSUME NEW size \in Nat, NEW j \in Nat \ {0}, NEW k \in Nat, j <= k
  PROVE  /\ FirstEntry(j, size) \in Nat /\ FirstEntry(k, size) \in Nat
         /\ FirstEntry(j, size) <= FirstEntry(k, size)
<1>1. j - 1 \in Nat /\ k - 1 \in Nat /\ j - 1 <= k - 1
  OBVIOUS
<1>2. (j - 1) * size \in Nat /\ (k - 1) * size \in Nat /\ (j - 1) * size <= (k - 1) * size
  BY <1>1, Times
<1> QED BY <1>2 DEF FirstEntry

LEMMA BeforeFirst ==
  ASSUME NEW size \in Nat, NEW k \in Nat \ {0}
  PROVE  (k - 1) * size = FirstEntry(k, size) - 1
<1>1. k - 1 \in Nat
  OBVIOUS
<1>2. (k - 1) * size \in Nat
  BY <1>1, Times
<1> QED BY <1>2 DEF FirstEntry

\* How many nodes of full size it takes to hold n children.
LEMMA Ceil ==
  ASSUME NEW n \in Nat \ {0}
  PROVE  /\ DivCeil(n) \in Nat \ {0}
         /\ (DivCeil(n) - 1) * Fan < n /\ n <= DivCeil(n) * Fan
<1> DEFINE f == Fan
           a == n + f - 1
           c == a \div f
<1>1. f \in Nat \ {0} /\ a \in Nat
  BY FanType
<1>2. c \in Nat /\ f * c <= a /\ a < f * c + f
  <2> HIDE DEF a, f
  <2> QED BY <1>1
<1>3. c = DivCeil(n)
  BY DEF DivCeil, Fan
<1>4. a + 1 = n + f
  BY <1>1
<1> HIDE DEF c, f, a
<1>5. n < f * c + 1 /\ f * c + 1 <= n + f
  BY <1>1, <1>2, <1>4
<1>6. c # 0
  BY <1>1, <1>5
<1>7. (c - 1) * f = f * c - f /\ c * f = f * c /\ f * c \in Nat
  BY <1>1, <1>2
<1>8. (c - 1) * f < n /\ n <= c * f
  BY <1>1, <1>5, <1>7
<1> QED BY <1>2, <1>3, <1>6, <1>8 DEF f

LEMMA CeilUnique ==
  ASSUME NEW n \in Nat \ {0}, NEW c \in Nat \ {0}, (c - 1) * Fan < n, n <= c * Fan
  PROVE  c = DivCeil(n)
<1> DEFINE d == DivCeil(n)
           f == Fan
<1>1. d \in Nat \ {0} /\ (d - 1) * f < n /\ n <= d * f /\ f \in Nat \ {0}
  BY Ceil, FanType
<1>2. (c - 1) * f < n /\ n <= c * f
  OBVIOUS
<1> HIDE DEF d, f
<1>3. ASSUME NEW a \in Nat \ {0}, NEW b \in Nat \ {0}, (a - 1) * f < n, n <= b * f, b < a
      PROVE  FALSE
  <2>1. b <= a - 1 /\ a - 1 \in Nat
    BY <1>3
  <2>2. b * f <= (a - 1) * f
    BY <1>1, <2>1, Times
  <2>3. b * f \in Nat /\ (a - 1) * f \in Nat
    BY <1>1, <2>1, Times
  <2> QED BY <1>3, <2>2, <2>3
<1>4. ~(c < d) /\ ~(d < c)
  BY <1>1, <1>2, <1>3
<1> QED BY <1>1, <1>4 DEF d

LEMMA CeilZero == DivCeil(0) = 0
<1> DEFINE f == Fan
           c == (f - 1) \div f
<1>1. f \in Nat \ {0} /\ f - 1 \in Nat
  BY FanType
<1>2. c \in Nat /\ f * c <= f - 1
  <2> HIDE DEF f
  <2> QED BY <1>1
<1>3. c = DivCeil(0)
  BY <1>1 DEF DivCeil, Fan
<1> HIDE DEF c, f
<1>4. c = 0
  BY <1>1, <1>2
<1> QED BY <1>3, <1>4

IsSeq(s) == \E S : s \in Seq(S)

LEMMA AppendSeq ==
  ASSUME NEW s, IsSeq(s), NEW x
  PROVE  /\ IsSeq(Append(s, x)) /\ Len(s) \in Nat /\ DOMAIN s = 1..Len(s)
         /\ Len(Append(s, x)) = Len(s) + 1 /\ DOMAIN Append(s, x) = 1..(Len(s) + 1)
         /\ \A p \in 1..Len(s) : Append(s, x)[p] = s[p]
         /\ Append(s, x)[Len(s) + 1] = x
<1>1. PICK S : s \in Seq(S)
  BY DEF IsSeq
<1> DEFINE T == S \cup {x}
<1>2. s \in Seq(T) /\ x \in T
  BY <1>1
<1> HIDE DEF T
<1>3. Append(s, x) \in Seq(T)
  BY <1>2
<1>4. IsSeq(Append(s, x))
  BY <1>3 DEF IsSeq
<1> QED BY <1>2, <1>3, <1>4

-----------------------------------------------------------------------------
(* The leaves. *)

\* The last entry of the p-th leaf of a file of n entries, and that leaf.
EndOf(p, n) == IF p * Fan <= n THEN p * Fan ELSE n
FileLeaf(p, n) ==
  [count |-> EndOf(p, n) - (p - 1) * Fan,
   entries |-> [k \in 1..(EndOf(p, n) - (p - 1) * Fan) |-> (p - 1) * Fan + k]]

Sorted == \A d, e \in 1..N : d <= e => entries[d] <= entries[e]
Basics ==
  /\ entries \in Seq(Nat) /\ Sorted
  /\ IsSeq(leaf) /\ IsSeq(nodes)
  /\ pc \in {"adding", "counting", "building", "done"}

\* While entries are added all leaves in the file are full, and the rest of the
\* entries is in the buffer.
Adding ==
  /\ counts = <<>> /\ level = 1 /\ taken = 0 /\ read = 0 /\ packed = Fan
  /\ N = Len(nodes) * Fan + Len(leaf) /\ Len(leaf) < Fan
  /\ leaf = [k \in 1..Len(leaf) |-> Len(nodes) * Fan + k]
  /\ \A p \in 1..Len(nodes) : nodes[p] = FileLeaf(p, N)

\* A leaf that is full stays as it is when more entries come.
LEMMA FullLeaf ==
  ASSUME NEW p \in Nat \ {0}, NEW m \in Nat, p * Fan <= m
  PROVE  /\ FileLeaf(p, m) = [count |-> Fan, entries |-> [k \in 1..Fan |-> (p - 1) * Fan + k]]
         /\ EndOf(p, m) = p * Fan
<1>1. Fan \in Nat /\ p - 1 \in Nat /\ (p - 1) + 1 = p
  BY FanType
<1>2. p * Fan = (p - 1) * Fan + Fan /\ (p - 1) * Fan \in Nat
  BY <1>1, Times
<1>3. EndOf(p, m) = p * Fan
  BY DEF EndOf
<1>4. EndOf(p, m) - (p - 1) * Fan = Fan
  BY <1>1, <1>2, <1>3
<1> QED BY <1>3, <1>4 DEF FileLeaf

LEMMA InitTree == Init => Basics /\ Adding
<1> SUFFICES ASSUME Init PROVE Basics /\ Adding
  OBVIOUS
<1>1. Fan \in Nat \ {0} /\ 0 * Fan = 0
  BY FanType
<1>2. /\ entries = <<>> /\ leaf = <<>> /\ nodes = <<>> /\ pc = "adding"
      /\ counts = <<>> /\ level = 1 /\ taken = 0 /\ read = 0 /\ packed = Fan
  BY DEF Init, Fan
<1>3. <<>> \in Seq(Nat) /\ Len(<<>>) = 0 /\ IsSeq(<<>>)
  BY DEF IsSeq
<1>4. <<>> = [k \in 1..0 |-> 0 * Fan + k]
  OBVIOUS
<1>5. Basics
  BY <1>2, <1>3 DEF Basics, Sorted, N
<1>6. Adding
  BY <1>1, <1>2, <1>3, <1>4 DEF Adding, N
<1> QED BY <1>5, <1>6

LEMMA AddBasics ==
  ASSUME Basics, NEW key \in Keys, Add(key)
  PROVE  Basics' /\ N' = N + 1 /\ N \in Nat
<1>1. key \in Nat
  BY TreeAssumption
<1>2. /\ entries \in Seq(Nat) /\ entries' = Append(entries, key) /\ pc' = "adding"
      /\ entries # <<>> => entries[Len(entries)] <= key
  BY DEF Add, Basics
<1>3. /\ N \in Nat /\ N' = N + 1 /\ entries' \in Seq(Nat)
      /\ (\A e \in 1..N : entries'[e] = entries[e] /\ entries[e] \in Nat) /\ entries'[N + 1] = key
  BY <1>1, <1>2 DEF N
<1>4. \A e \in 1..N : entries[e] <= key
  <2> SUFFICES ASSUME NEW e \in 1..N PROVE entries[e] <= key
    OBVIOUS
  <2>1. N \in 1..N /\ entries # <<>> /\ e <= N
    BY <1>2, <1>3 DEF N
  <2>2. entries[e] <= entries[N] /\ entries[N] <= key
    BY <1>2, <2>1 DEF Basics, Sorted, N
  <2> QED BY <1>1, <1>3, <2>1, <2>2
<1>5. Sorted'
  <2> SUFFICES ASSUME NEW d \in 1..(N + 1), NEW e \in 1..(N + 1), d <= e
               PROVE  entries'[d] <= entries'[e]
    BY <1>3 DEF Sorted
  <2>1. CASE e = N + 1
    <3>1. d \in 1..N \/ d = N + 1
      BY <1>3
    <3> QED BY <1>1, <1>3, <1>4, <2>1, <3>1
  <2>2. CASE e # N + 1
    <3>1. d \in 1..N /\ e \in 1..N
      BY <1>3, <2>2
    <3> QED BY <1>3, <3>1 DEF Basics, Sorted
  <2> QED BY <2>1, <2>2
<1>6. IsSeq(leaf') /\ IsSeq(nodes')
  <2>1. leaf' \in {<<>>, Append(leaf, N')} /\ nodes' \in {nodes, Append(nodes, LeafNode(Append(leaf, N')))}
    BY DEF Add, N
  <2>2. IsSeq(<<>>)
    BY DEF IsSeq
  <2>3. IsSeq(leaf) /\ IsSeq(nodes)
    BY DEF Basics
  <2>4. IsSeq(Append(leaf, N')) /\ IsSeq(Append(nodes, LeafNode(Append(leaf, N'))))
    BY <2>3, AppendSeq
  <2> QED BY <2>1, <2>2, <2>3, <2>4
<1> QED BY <1>2, <1>3, <1>5, <1>6 DEF Basics

\* The counter of the builder does not wrap, so a leaf is written when it is full.
LEMMA AddAdding ==
  ASSUME MaxNodeChildren < NodeLimit, Basics, Adding, NEW key \in Keys, Add(key)
  PROVE  Adding'
<1> DEFINE L == Len(nodes)
           g == Len(leaf)
           grown == Append(leaf, N')
<1>1. /\ Fan \in Nat \ {0} /\ NodeLimit \in Nat \ {0} /\ N \in Nat /\ N' = N + 1
      /\ L \in Nat /\ g \in Nat
  BY FanType, TreeAssumption, AddBasics, AppendSeq DEF Basics
<1>2. N = L * Fan + g /\ g < Fan /\ leaf = [k \in 1..g |-> L * Fan + k]
  BY DEF Adding
<1>3. /\ Len(grown) = g + 1 /\ DOMAIN grown = 1..(g + 1) /\ IsSeq(grown)
      /\ \A k \in 1..g : grown[k] = leaf[k]
      /\ grown[g + 1] = N + 1
  BY <1>1, AppendSeq DEF Basics
<1>4. grown = [k \in 1..(g + 1) |-> L * Fan + k]
  <2>1. \A k \in 1..(g + 1) : grown[k] = L * Fan + k
    <3> SUFFICES ASSUME NEW k \in 1..(g + 1) PROVE grown[k] = L * Fan + k
      OBVIOUS
    <3>1. CASE k \in 1..g
      BY <1>2, <1>3, <3>1
    <3>2. CASE k = g + 1
      <4>1. L * Fan \in Nat
        BY <1>1, Times
      <4> QED BY <1>1, <1>2, <1>3, <3>2, <4>1
    <3> QED BY <1>1, <3>1, <3>2
  <2>2. grown = [k \in 1..(g + 1) |-> grown[k]]
    <3>1. PICK S : grown \in Seq(S)
      BY <1>3 DEF IsSeq
    <3> HIDE DEF grown
    <3>2. grown = [k \in 1..Len(grown) |-> grown[k]]
      BY <3>1
    <3> QED BY <1>3, <3>2
  <2> QED BY <2>1, <2>2
<1>5. Len(grown) % NodeLimit = g + 1
  <2>1. g + 1 < NodeLimit /\ g + 1 \in Nat
    BY <1>1, <1>2 DEF Fan
  <2> QED BY <1>1, <1>3, <2>1
<1>6. /\ pc = "adding" /\ entries' = Append(entries, key)
      /\ UNCHANGED <<counts, level, taken, read, packed>>
      /\ IF g + 1 >= Fan THEN leaf' = <<>> /\ nodes' = Append(nodes, LeafNode(grown))
         ELSE leaf' = grown /\ nodes' = nodes
  BY <1>5 DEF Add, N, Fan
<1>7. \A p \in 1..L : nodes[p] = FileLeaf(p, N) /\ FileLeaf(p, N) = FileLeaf(p, N + 1)
  <2> SUFFICES ASSUME NEW p \in 1..L PROVE nodes[p] = FileLeaf(p, N) /\ FileLeaf(p, N) = FileLeaf(p, N + 1)
    OBVIOUS
  <2>1. p \in Nat \ {0} /\ p * Fan <= L * Fan /\ L * Fan \in Nat /\ p * Fan \in Nat
    BY <1>1, Times
  <2>2. p * Fan <= N /\ p * Fan <= N + 1
    BY <1>1, <1>2, <2>1
  <2>3. FileLeaf(p, N) = FileLeaf(p, N + 1)
    <3> DEFINE full == [count |-> Fan, entries |-> [k \in 1..Fan |-> (p - 1) * Fan + k]]
    <3> HIDE DEF full
    <3>1. FileLeaf(p, N) = full
      BY <1>1, <2>1, <2>2, FullLeaf DEF full
    <3>2. N + 1 \in Nat
      BY <1>1
    <3>3. FileLeaf(p, N + 1) = full
      BY <2>1, <2>2, <3>2, FullLeaf DEF full
    <3> QED BY <3>1, <3>3
  <2> QED BY <2>3 DEF Adding
<1>8. CASE g + 1 >= Fan
  <2>1. g + 1 = Fan /\ (L + 1) * Fan = L * Fan + Fan /\ L * Fan \in Nat
    BY <1>1, <1>2, <1>8, Times
  <2>2. (L + 1) * Fan = N + 1
    BY <1>1, <1>2, <2>1
  <2>3. /\ leaf' = <<>> /\ Len(leaf') = 0 /\ nodes' = Append(nodes, LeafNode(grown))
        /\ Len(nodes') = L + 1 /\ nodes'[L + 1] = LeafNode(grown)
        /\ \A p \in 1..L : nodes'[p] = nodes[p]
    <3>1. leaf' = <<>> /\ Len(leaf') = 0 /\ nodes' = Append(nodes, LeafNode(grown)) /\ IsSeq(nodes)
      BY <1>6, <1>8 DEF Basics
    <3> QED BY <3>1, AppendSeq
  <2>4. LeafNode(grown) = [count |-> Fan, entries |-> [k \in 1..Fan |-> L * Fan + k]]
    BY <1>4, <1>5, <2>1 DEF LeafNode
  <2>5. L + 1 \in Nat \ {0} /\ N + 1 \in Nat /\ (L + 1) - 1 = L
    BY <1>1
  <2>6. FileLeaf(L + 1, N + 1) = LeafNode(grown)
    <3> HIDE DEF grown
    <3>1. FileLeaf(L + 1, N + 1)
            = [count |-> Fan, entries |-> [k \in 1..Fan |-> ((L + 1) - 1) * Fan + k]]
      BY <1>1, <2>2, <2>5, FullLeaf
    <3> QED BY <2>4, <2>5, <3>1
  <2>7. \A p \in 1..(L + 1) : nodes'[p] = FileLeaf(p, N + 1)
    <3> SUFFICES ASSUME NEW p \in 1..(L + 1) PROVE nodes'[p] = FileLeaf(p, N + 1)
      OBVIOUS
    <3>1. p \in 1..L \/ p = L + 1
      BY <1>1
    <3> QED BY <1>7, <2>3, <2>6, <3>1
  <2>8. leaf' = [k \in 1..Len(leaf') |-> Len(nodes') * Fan + k]
    BY <2>3
  <2> QED BY <1>1, <1>6, <2>2, <2>3, <2>7, <2>8 DEF Adding
<1>9. CASE ~(g + 1 >= Fan)
  <2>1. leaf' = grown /\ nodes' = nodes /\ g + 1 < Fan
    BY <1>1, <1>6, <1>9
  <2>2. N + 1 = L * Fan + (g + 1)
    BY <1>1, <1>2, Times
  <2> HIDE DEF grown
  <2>3. \A p \in 1..Len(nodes') : nodes'[p] = FileLeaf(p, N')
    BY <1>1, <1>7, <2>1
  <2> QED BY <1>1, <1>3, <1>4, <1>6, <2>1, <2>2, <2>3 DEF Adding
<1> QED BY <1>8, <1>9

\* All entries are in leaves of the file.
LeavesWritten ==
  \A p \in 1..DivCeil(N) : nodes[p] = FileLeaf(p, N)

LEMMA StartFinishLeaves ==
  ASSUME MaxNodeChildren < NodeLimit, Basics, Adding, StartFinish
  PROVE  /\ Basics' /\ LeavesWritten' /\ Len(nodes') = DivCeil(N)
         /\ counts' = IF N = 0 THEN <<>> ELSE <<N>>
         /\ level' = 1 /\ taken' = 0 /\ read' = 0 /\ packed' = Fan
<1> DEFINE L == Len(nodes)
           g == Len(leaf)
<1>1. /\ Fan \in Nat \ {0} /\ NodeLimit \in Nat \ {0} /\ N \in Nat
      /\ L \in Nat /\ g \in Nat /\ entries' = entries /\ N' = N
  BY FanType, TreeAssumption, AppendSeq DEF Basics, StartFinish, N
<1>2. N = L * Fan + g /\ g < Fan /\ leaf = [k \in 1..g |-> L * Fan + k]
  BY DEF Adding
<1>3. g % NodeLimit = g
  <2>1. g < NodeLimit
    BY <1>1, <1>2 DEF Fan
  <2> HIDE DEF g
  <2> QED BY <1>1, <2>1
<1>4. IF g = 0 THEN leaf' = leaf /\ nodes' = nodes
      ELSE leaf' = <<>> /\ nodes' = Append(nodes, LeafNode(leaf))
  BY <1>3 DEF StartFinish
<1>5. Basics'
  <2>1. IsSeq(<<>>) /\ IsSeq(leaf) /\ IsSeq(nodes)
    BY DEF IsSeq, Basics
  <2>2. IsSeq(Append(nodes, LeafNode(leaf)))
    BY <2>1, AppendSeq
  <2>3. IsSeq(leaf') /\ IsSeq(nodes')
    BY <1>4, <2>1, <2>2
  <2>4. pc' = "counting" /\ Sorted'
    BY <1>1 DEF StartFinish, Basics, Sorted
  <2> QED BY <1>1, <2>3, <2>4 DEF Basics
<1>6. counts' = IF N = 0 THEN <<>> ELSE <<N>>
  <2>1. entries \in Seq(Nat)
    BY DEF Basics
  <2>2. entries = <<>> <=> N = 0
    BY <2>1 DEF N
  <2>3. counts' = IF entries = <<>> THEN <<>> ELSE <<N>>
    BY DEF StartFinish, N
  <2> QED BY <2>2, <2>3
<1>7. level' = 1 /\ taken' = 0 /\ read' = 0 /\ packed' = Fan
  BY DEF StartFinish, Adding
<1>8. \A p \in 1..L : nodes[p] = FileLeaf(p, N)
  BY DEF Adding
<1>9. CASE g = 0
  <2>1. N = L * Fan
    BY <1>1, <1>2, <1>9, Times
  <2>2. L = DivCeil(N)
    <3>1. CASE L = 0
      BY <1>1, <2>1, <3>1, CeilZero
    <3>2. CASE L # 0
      <4>1. L - 1 \in Nat /\ (L - 1) + 1 = L
        BY <1>1, <3>2
      <4>2. L * Fan = (L - 1) * Fan + Fan /\ (L - 1) * Fan \in Nat
        BY <1>1, <4>1, Times
      <4> QED BY <1>1, <2>1, <3>2, <4>1, <4>2, CeilUnique
    <3> QED BY <3>1, <3>2
  <2> QED BY <1>1, <1>4, <1>5, <1>6, <1>7, <1>8, <1>9, <2>2 DEF LeavesWritten
<1>10. CASE g # 0
  <2>1. /\ L * Fan \in Nat /\ (L + 1) * Fan = L * Fan + Fan /\ (L + 1) - 1 = L
        /\ L + 1 \in Nat \ {0} /\ N \in Nat \ {0}
    BY <1>1, <1>2, <1>10, Times
  <2>2. L + 1 = DivCeil(N)
    <3>1. ((L + 1) - 1) * Fan < N /\ N <= (L + 1) * Fan
      BY <1>1, <1>2, <1>10, <2>1
    <3> QED BY <2>1, <3>1, CeilUnique
  <2>3. /\ nodes' = Append(nodes, LeafNode(leaf)) /\ Len(nodes') = L + 1
        /\ nodes'[L + 1] = LeafNode(leaf)
        /\ \A p \in 1..L : nodes'[p] = nodes[p]
    BY <1>4, <1>10, AppendSeq DEF Basics
  <2>4. EndOf(L + 1, N) = N /\ EndOf(L + 1, N) - ((L + 1) - 1) * Fan = g
    <3>1. ~((L + 1) * Fan <= N)
      BY <1>1, <1>2, <2>1
    <3>2. EndOf(L + 1, N) = N
      BY <3>1 DEF EndOf
    <3> QED BY <1>1, <1>2, <2>1, <3>2
  <2>5. FileLeaf(L + 1, N) = LeafNode(leaf)
    BY <1>2, <1>3, <2>1, <2>4 DEF FileLeaf, LeafNode
  <2>6. \A p \in 1..(L + 1) : nodes'[p] = FileLeaf(p, N)
    <3> SUFFICES ASSUME NEW p \in 1..(L + 1) PROVE nodes'[p] = FileLeaf(p, N)
      OBVIOUS
    <3>1. p \in 1..L \/ p = L + 1
      BY <1>1
    <3> QED BY <1>8, <2>3, <2>5, <3>1
  <2> QED BY <1>1, <1>5, <1>6, <1>7, <2>2, <2>3, <2>6 DEF LeavesWritten
<1> QED BY <1>9, <1>10

-----------------------------------------------------------------------------
(* The shape of the tree while its internal nodes are written. For the node *)
(* at a position, ht is its height, lo and hi are the first and the last    *)
(* entry below it, and fst is the position in front of its first child; up  *)
(* is the parent of a node that has one.                                    *)

\* counts as the loop that finds the heights leaves it.
CountsOK ==
  /\ counts \in Seq(Nat)
  /\ N = 0 => counts = <<>>
  /\ N > 0 => counts # <<>> /\ counts[1] = N
  /\ \A i \in 1..Len(counts) : counts[i] > 0
  /\ \A i \in 1..(Len(counts) - 1) : counts[i + 1] = DivCeil(counts[i])

\* The internal node over the n nodes behind a position.
NodeOver(lo, hi, first, n) ==
  [count |-> n, left |-> entries[lo[first + 1]],
   children |-> [k \in 1..n |->
     [right |-> entries[hi[first + k]], reduced |-> lo[first + k]..hi[first + k],
      start |-> lo[first + k] - 1, offset |-> first + k]]]

InternalAt(ht, lo, hi, fst, up, p) ==
  LET n == nodes[p].count
      f == fst[p]
  IN  /\ n \in 1..Fan /\ f + n < p /\ f + n <= read
      /\ nodes[p] = NodeOver(lo, hi, f, n)
      /\ ht[p] > 1 /\ lo[p] = lo[f + 1] /\ hi[p] = hi[f + n]
      /\ \A k \in 1..n : /\ ht[f + k] = ht[p] - 1 /\ up[f + k] = p
                         /\ lo[p] <= lo[f + k] /\ hi[f + k] <= hi[p]
      /\ \A k \in 1..(n - 1) : lo[f + k + 1] = hi[f + k] + 1

\* The w nodes behind a base are of height h, and each but the last covers as
\* many entries as size says, up to the last entry.
Chain(ht, lo, hi, base, w, h, size, last) ==
  /\ \A k \in 1..w : ht[base + k] = h /\ lo[base + k] = FirstEntry(k, size)
  /\ \A k \in 1..(w - 1) : lo[base + k + 1] = hi[base + k] + 1
  /\ w > 0 => hi[base + w] = last

\* Where the nodes of the level being read begin, how many they are, and how
\* many nodes of the next level have been written behind them.
Base == read - taken
Width == DivCeil(counts[level])
Written == Len(nodes) - Base - Width

Typed(ht, lo, hi, fst, up) ==
  /\ ht \in [1..Len(nodes) -> Nat] /\ lo \in [1..Len(nodes) -> Nat]
  /\ hi \in [1..Len(nodes) -> Nat] /\ fst \in [1..Len(nodes) -> Nat]
  /\ up \in [1..read -> 1..Len(nodes)]
Covers(lo, hi) == \A p \in 1..Len(nodes) : 1 <= lo[p] /\ lo[p] <= hi[p] /\ hi[p] <= N
Leaves(ht, lo, hi) ==
  /\ DivCeil(N) <= Len(nodes)
  /\ \A p \in 1..DivCeil(N) : ht[p] = 1 /\ lo[p] = FirstEntry(p, Fan) /\ hi[p] = EndOf(p, N)
Internals(ht, lo, hi, fst, up) ==
  \A p \in (DivCeil(N) + 1)..Len(nodes) : InternalAt(ht, lo, hi, fst, up, p)
Parents(fst, up) ==
  \A c \in 1..read : /\ up[c] > DivCeil(N)
                     /\ fst[up[c]] < c /\ c <= fst[up[c]] + nodes[up[c]].count
Progress ==
  /\ level \in 1..Len(counts) /\ packed \in Nat \ {0}
  /\ read \in Nat /\ taken \in Nat /\ taken <= read /\ taken < Width
  /\ Written \in Nat /\ taken = Written * Fan
LevelRead(ht, lo, hi) == Chain(ht, lo, hi, Base, Width, level, packed, N)
LevelWritten(ht, lo, hi) ==
  Chain(ht, lo, hi, Base + Width, Written, level + 1, packed * Fan, lo[read + 1] - 1)

Shape(ht, lo, hi, fst, up) ==
  /\ Typed(ht, lo, hi, fst, up) /\ Covers(lo, hi)
  /\ Leaves(ht, lo, hi) /\ Internals(ht, lo, hi, fst, up) /\ Parents(fst, up)
  /\ LevelRead(ht, lo, hi) /\ LevelWritten(ht, lo, hi)

Building ==
  /\ CountsOK /\ LeavesWritten
  /\ counts # <<>> => counts[Len(counts)] <= Fan
  /\ N = 0 => nodes = <<>> /\ read = 0 /\ level = 1
  /\ N > 0 => Progress /\ \E ht, lo, hi, fst, up : Shape(ht, lo, hi, fst, up)

TreeInv ==
  /\ Basics
  /\ pc = "adding" => Adding
  /\ pc = "counting" =>
       /\ CountsOK /\ LeavesWritten /\ Len(nodes) = DivCeil(N)
       /\ level = 1 /\ taken = 0 /\ read = 0 /\ packed = Fan
  /\ pc \in {"building", "done"} => Building
  /\ pc = "done" =>
       footer = [root |-> Len(nodes) + (IF N = 0 THEN 1 ELSE 0), height |-> Len(counts), count |-> N]
  /\ pc = "done" => level >= Len(counts)

\* The loop that finds the heights records a number of nodes for every level.
LEMMA CountLevelStep ==
  ASSUME Basics, CountsOK, CountLevel
  PROVE  CountsOK'
<1> DEFINE c == Len(counts)
           d == DivCeil(counts[c])
<1>1. /\ counts \in Seq(Nat) /\ counts # <<>> /\ entries' = entries /\ N' = N
      /\ counts' \in {counts, Append(counts, d)}
  BY DEF CountLevel, TooMany, CountsOK, Last, N
<1>2. c \in Nat \ {0} /\ counts[c] \in Nat \ {0}
  <2>1. c \in Nat \ {0}
    BY <1>1
  <2> QED BY <1>1, <2>1 DEF CountsOK
<1>3. d \in Nat \ {0}
  BY <1>2, Ceil
<1>4. CASE counts' = Append(counts, d)
  <2> HIDE DEF d
  <2>1. /\ counts' \in Seq(Nat) /\ Len(counts') = c + 1 /\ counts'[c + 1] = d
        /\ \A i \in 1..c : counts'[i] = counts[i]
    BY <1>1, <1>3, <1>4
  <2> HIDE DEF c
  <2>2. counts' # <<>> /\ counts'[1] = counts[1]
    <3>1. 1 \in 1..c
      BY <1>2
    <3>2. counts' # <<>>
      BY <1>2, <2>1
    <3> QED BY <2>1, <3>1, <3>2
  <2>3. \A i \in 1..Len(counts') : counts'[i] > 0
    <3> SUFFICES ASSUME NEW i \in 1..(c + 1) PROVE counts'[i] > 0
      BY <2>1
    <3>1. i \in 1..c \/ i = c + 1
      BY <1>2
    <3> QED BY <1>3, <2>1, <3>1 DEF CountsOK, c
  <2>4. \A i \in 1..(Len(counts') - 1) : counts'[i + 1] = DivCeil(counts'[i])
    <3> SUFFICES ASSUME NEW i \in 1..c PROVE counts'[i + 1] = DivCeil(counts'[i])
      BY <1>2, <2>1
    <3>1. CASE i = c
      BY <2>1, <3>1 DEF c, d
    <3>2. CASE i # c
      <4>1. i \in 1..(c - 1) /\ i + 1 \in 1..c
        BY <1>2, <3>2
      <4> QED BY <2>1, <4>1 DEF CountsOK, c
    <3> QED BY <3>1, <3>2
  <2>5. N # 0
    BY <1>1 DEF CountsOK
  <2> QED BY <1>1, <2>1, <2>2, <2>3, <2>4, <2>5 DEF CountsOK
<1>5. CASE counts' = counts
  BY <1>1, <1>5 DEF CountsOK
<1> QED BY <1>1, <1>4, <1>5

\* The leaves begin the tree: they are the level that is read first.
LEMMA LeavesChain ==
  ASSUME Basics, N > 0, LeavesWritten, Len(nodes) = DivCeil(N)
  PROVE  \E lo, hi \in [1..Len(nodes) -> Nat] :
           /\ \A p \in 1..Len(nodes) : /\ lo[p] = FirstEntry(p, Fan) /\ hi[p] = EndOf(p, N)
                                       /\ 1 <= lo[p] /\ lo[p] <= hi[p] /\ hi[p] <= N
           /\ \A p \in 1..(Len(nodes) - 1) : lo[p + 1] = hi[p] + 1
           /\ hi[Len(nodes)] = N
<1> DEFINE c == Len(nodes)
<1>1. N \in Nat \ {0} /\ Fan \in Nat \ {0}
  BY FanType DEF Basics, N
<1>2. c \in Nat \ {0} /\ (c - 1) * Fan < N /\ N <= c * Fan
  BY <1>1, Ceil
<1> HIDE DEF c
<1>3. ASSUME NEW p \in 1..c
      PROVE  /\ (p - 1) * Fan + 1 \in Nat /\ EndOf(p, N) \in Nat
             /\ 1 <= (p - 1) * Fan + 1 /\ (p - 1) * Fan + 1 <= EndOf(p, N) /\ EndOf(p, N) <= N
             /\ p < c => EndOf(p, N) = p * Fan
             /\ p = c => EndOf(p, N) = N
  <2>1. p - 1 \in Nat /\ p \in Nat /\ c - 1 \in Nat /\ (p - 1) + 1 = p /\ p - 1 <= c - 1
    BY <1>2
  <2>2. (p - 1) * Fan \in Nat /\ p * Fan \in Nat /\ (c - 1) * Fan \in Nat
    BY <1>1, <2>1, Times
  <2>3. (p - 1) * Fan <= (c - 1) * Fan /\ p * Fan = (p - 1) * Fan + Fan
    BY <1>1, <2>1, Times
  <2>4. (p - 1) * Fan < N /\ (p - 1) * Fan + 1 <= p * Fan
    BY <1>1, <1>2, <2>2, <2>3
  <2>5. ASSUME p < c PROVE p * Fan <= N
    <3>1. p <= c - 1
      BY <1>2, <2>1, <2>5
    <3>2. p * Fan <= (c - 1) * Fan
      BY <1>1, <2>1, <3>1, Times
    <3> QED BY <1>1, <1>2, <2>2, <3>2
  <2>6. EndOf(p, N) = IF p * Fan <= N THEN p * Fan ELSE N
    BY DEF EndOf
  <2>7. p = c => EndOf(p, N) = N
    BY <1>1, <1>2, <2>2, <2>6
  <2> QED BY <1>1, <2>2, <2>4, <2>5, <2>6, <2>7
<1> DEFINE l == [p \in 1..c |-> (p - 1) * Fan + 1]
           h == [p \in 1..c |-> EndOf(p, N)]
<1>4. l \in [1..c -> Nat] /\ h \in [1..c -> Nat]
  BY <1>3
<1>5. \A p \in 1..c : /\ l[p] = (p - 1) * Fan + 1 /\ h[p] = EndOf(p, N)
                      /\ 1 <= l[p] /\ l[p] <= h[p] /\ h[p] <= N
  BY <1>3
<1>6. \A p \in 1..(c - 1) : l[p + 1] = h[p] + 1
  <2> SUFFICES ASSUME NEW p \in 1..(c - 1) PROVE l[p + 1] = h[p] + 1
    OBVIOUS
  <2>1. p \in 1..c /\ p + 1 \in 1..c /\ p < c /\ (p + 1) - 1 = p
    BY <1>2
  <2> HIDE DEF l, h
  <2>2. l[p + 1] = p * Fan + 1 /\ h[p] = p * Fan
    BY <1>3, <1>5, <2>1
  <2> QED BY <2>2
<1>7. h[c] = N
  <2>1. c \in 1..c
    BY <1>2
  <2> QED BY <1>3, <2>1
<1> HIDE DEF l, h
<1> QED BY <1>4, <1>5, <1>6, <1>7 DEF c, FirstEntry

LEMMA StopCountingShape ==
  ASSUME Basics, CountsOK, LeavesWritten, Len(nodes) = DivCeil(N),
         level = 1, taken = 0, read = 0, packed = Fan, ~TooMany
  PROVE  Building
<1>1. counts # <<>> => counts[Len(counts)] <= Fan
  <2>1. counts # <<>> => counts[Len(counts)] \in Nat
    BY EmptySeq DEF CountsOK
  <2> QED BY <2>1, FanType DEF TooMany, Last, Fan
<1>2. IsSeq(nodes) /\ N \in Nat
  BY DEF Basics, N
<1>3. CASE N = 0
  <2>1. Len(nodes) = 0
    BY <1>3, CeilZero
  <2>2. nodes = <<>>
    <3>1. PICK S : nodes \in Seq(S)
      BY <1>2 DEF IsSeq
    <3> QED BY <2>1, <3>1
  <2> QED BY <1>1, <1>3, <2>2 DEF Building
<1>4. CASE N > 0
  <2>1. PICK lo \in [1..Len(nodes) -> Nat], hi \in [1..Len(nodes) -> Nat] :
          /\ \A p \in 1..Len(nodes) : /\ lo[p] = FirstEntry(p, Fan) /\ hi[p] = EndOf(p, N)
                                      /\ 1 <= lo[p] /\ lo[p] <= hi[p] /\ hi[p] <= N
          /\ \A p \in 1..(Len(nodes) - 1) : lo[p + 1] = hi[p] + 1
          /\ hi[Len(nodes)] = N
    BY <1>4, LeavesChain
  <2> DEFINE c == Len(nodes)
             ht == [p \in 1..c |-> 1]
             fst == [p \in 1..c |-> 0]
             up == [p \in 1..0 |-> 1]
  <2>2. c \in Nat \ {0} /\ c = DivCeil(N) /\ Fan \in Nat \ {0} /\ counts[1] = N /\ 1 \in 1..Len(counts)
    <3>1. counts # <<>> /\ counts \in Seq(Nat) /\ counts[1] = N
      BY <1>4 DEF CountsOK
    <3>2. 1 \in 1..Len(counts)
      BY <3>1, EmptySeq
    <3> QED BY <1>2, <1>4, <3>1, <3>2, Ceil, FanType
  <2>3. Base = 0 /\ Width = c /\ Written = 0 /\ 0 * Fan = 0
    BY <2>2 DEF Base, Width, Written
  <2>4. Progress
    BY <2>2, <2>3 DEF Progress
  <2>5. Typed(ht, lo, hi, fst, up) /\ Covers(lo, hi) /\ Leaves(ht, lo, hi)
    BY <2>1, <2>2 DEF Typed, Covers, Leaves
  <2>6. Internals(ht, lo, hi, fst, up) /\ Parents(fst, up)
    <3>1. (DivCeil(N) + 1)..Len(nodes) = {} /\ 1..read = {}
      BY <2>2
    <3> QED BY <3>1 DEF Internals, Parents
  <2>7. LevelRead(ht, lo, hi)
    <3> HIDE DEF c
    <3>1. \A k \in 1..c : 0 + k = k /\ ht[k] = 1 /\ 0 + k + 1 = k + 1
      BY <2>2
    <3> QED BY <2>1, <2>2, <2>3, <3>1 DEF LevelRead, Chain, c
  <2>8. LevelWritten(ht, lo, hi)
    <3>1. 1..0 = {} /\ 1..(0 - 1) = {} /\ ~(0 > 0)
      OBVIOUS
    <3> QED BY <2>3, <3>1 DEF LevelWritten, Chain
  <2>9. Shape(ht, lo, hi, fst, up)
    BY <2>5, <2>6, <2>7, <2>8 DEF Shape
  <2> QED BY <1>1, <1>4, <2>4, <2>9 DEF Building
<1> QED BY <1>2, <1>3, <1>4

-----------------------------------------------------------------------------
(* What the writer reads back from the nodes of a level.                    *)

\* Intervals that follow one another cover what lies between the ends.
LEMMA IntervalsJoin ==
  ASSUME NEW n \in Nat \ {0}, NEW a, NEW b,
         \A k \in 1..n : a[k] \in Nat /\ b[k] \in Nat /\ a[1] <= a[k] /\ b[k] <= b[n],
         \A k \in 1..(n - 1) : a[k + 1] = b[k] + 1
  PROVE  UNION {a[k]..b[k] : k \in 1..n} = a[1]..b[n]
<1>1. ASSUME NEW e \in a[1]..b[n] PROVE \E k \in 1..n : e \in a[k]..b[k]
  <2> DEFINE T == {k \in 1..n : e <= b[k]}
  <2>1. 1 \in 1..n /\ n \in 1..n /\ a[1] \in Nat /\ b[n] \in Nat
    OBVIOUS
  <2>2. e \in Nat /\ a[1] <= e /\ e <= b[n] /\ n \in T
    BY <2>1
  <2>3. T \subseteq Nat /\ T # {}
    BY <2>2
  <2> HIDE DEF T
  <2>4. PICK k \in T : \A j \in T : k <= j
    BY <2>3, LeastNumber
  <2>5. k \in 1..n /\ e <= b[k] /\ a[k] \in Nat /\ b[k] \in Nat
    BY <2>4 DEF T
  <2>6. a[k] <= e
    <3>1. CASE k = 1
      BY <2>2, <3>1
    <3>2. CASE k # 1
      <4>1. k - 1 \in 1..(n - 1) /\ k - 1 \in 1..n /\ (k - 1) + 1 = k /\ ~(k <= k - 1)
        BY <2>5, <3>2
      <4>2. k - 1 \notin T
        BY <2>4, <4>1
      <4>3. b[k - 1] \in Nat /\ ~(e <= b[k - 1]) /\ a[k] = b[k - 1] + 1
        BY <4>1, <4>2 DEF T
      <4> QED BY <2>2, <2>5, <4>3
    <3> QED BY <3>1, <3>2
  <2> QED BY <2>2, <2>5, <2>6
<1>2. ASSUME NEW k \in 1..n, NEW e \in a[k]..b[k] PROVE e \in a[1]..b[n]
  <2>1. 1 \in 1..n /\ n \in 1..n
    OBVIOUS
  <2>2. a[1] \in Nat /\ b[n] \in Nat /\ a[k] \in Nat /\ b[k] \in Nat /\ a[1] <= a[k] /\ b[k] <= b[n]
    BY <2>1
  <2> QED BY <2>2
<1>3. \A e : e \in UNION {a[k]..b[k] : k \in 1..n} <=> \E k \in 1..n : e \in a[k]..b[k]
  OBVIOUS
<1> QED BY <1>1, <1>2, <1>3

\* A leaf of the file, by the entries it covers.
LEMMA LeafFacts ==
  ASSUME Basics, LeavesWritten, NEW ht, NEW lo, NEW hi, NEW fst, NEW up,
         Shape(ht, lo, hi, fst, up), NEW p \in 1..DivCeil(N)
  PROVE  /\ p \in 1..Len(nodes) /\ lo[p] \in Nat /\ hi[p] \in Nat
         /\ 1 <= lo[p] /\ lo[p] <= hi[p] /\ hi[p] <= N
         /\ nodes[p].count = hi[p] - lo[p] + 1 /\ "entries" \in DOMAIN nodes[p]
         /\ \A k \in 1..(hi[p] - lo[p] + 1) : nodes[p].entries[k] = lo[p] + k - 1
<1> DEFINE b == (p - 1) * Fan
<1>1. IsSeq(nodes) /\ N \in Nat /\ Fan \in Nat
  BY FanType DEF Basics, N
<1>2. Len(nodes) \in Nat /\ DivCeil(N) <= Len(nodes)
  <2>1. PICK S : nodes \in Seq(S)
    BY <1>1 DEF IsSeq
  <2> QED BY <2>1 DEF Shape, Leaves
<1>3. DivCeil(N) \in Nat
  BY <1>1, Ceil, CeilZero
<1>4. p \in Nat \ {0} /\ p - 1 \in Nat /\ p \in 1..Len(nodes)
  BY <1>2, <1>3
<1>5. /\ lo[p] \in Nat /\ hi[p] \in Nat /\ 1 <= lo[p] /\ lo[p] <= hi[p] /\ hi[p] <= N
      /\ lo[p] = b + 1 /\ hi[p] = EndOf(p, N) /\ nodes[p] = FileLeaf(p, N)
  BY <1>4 DEF Shape, Typed, Covers, Leaves, LeavesWritten, FirstEntry
<1>6. b \in Nat
  BY <1>1, <1>4, Times
<1>7. nodes[p] = [count |-> hi[p] - b, entries |-> [k \in 1..(hi[p] - b) |-> b + k]]
  BY <1>5 DEF FileLeaf
<1> HIDE DEF b
<1>8. hi[p] - b = hi[p] - lo[p] + 1 /\ \A k \in 1..(hi[p] - b) : b + k = lo[p] + k - 1
  BY <1>5, <1>6
<1>9. nodes[p] = [count |-> hi[p] - lo[p] + 1,
                  entries |-> [k \in 1..(hi[p] - lo[p] + 1) |-> lo[p] + k - 1]]
  BY <1>7, <1>8
<1> DEFINE n == hi[p] - lo[p] + 1
<1> HIDE DEF n
<1>10. nodes[p] = [count |-> n, entries |-> [k \in 1..n |-> lo[p] + k - 1]]
  BY <1>9 DEF n
<1>11. /\ nodes[p].count = n /\ "entries" \in DOMAIN nodes[p]
       /\ \A k \in 1..n : nodes[p].entries[k] = lo[p] + k - 1
  BY <1>10
<1> QED BY <1>4, <1>5, <1>11 DEF n

LEMMA LengthType == ASSUME Basics PROVE Len(nodes) \in Nat /\ N \in Nat /\ DivCeil(N) \in Nat
<1>1. IsSeq(nodes) /\ N \in Nat
  BY DEF Basics, N
<1>2. PICK S : nodes \in Seq(S)
  BY <1>1 DEF IsSeq
<1> QED BY <1>1, <1>2, Ceil, CeilZero

\* An internal node, by the nodes that are its children.
Inner(ht, lo, hi, fst, up, p) ==
  LET n == nodes[p].count
      f == fst[p]
  IN  /\ n \in 1..Fan /\ n \in Nat \ {0} /\ f \in Nat /\ f + n < p /\ f + n <= read
      /\ ht[p] \in Nat /\ ht[p] > 1 /\ lo[p] = lo[f + 1] /\ hi[p] = hi[f + n]
      /\ lo[p] \in Nat /\ hi[p] \in Nat /\ 1 <= lo[p] /\ lo[p] <= hi[p] /\ hi[p] <= N
      /\ nodes[p].left = entries[lo[p]]
      /\ \A k \in 1..n :
           /\ f + k \in 1..Len(nodes) /\ lo[f + k] \in Nat /\ hi[f + k] \in Nat
           /\ nodes[p].children[k].right = entries[hi[f + k]]
           /\ nodes[p].children[k].reduced = lo[f + k]..hi[f + k]
           /\ nodes[p].children[k].start = lo[f + k] - 1
           /\ nodes[p].children[k].offset = f + k
           /\ ht[f + k] = ht[p] - 1 /\ up[f + k] = p
           /\ 1 <= lo[f + k] /\ lo[f + k] <= hi[f + k]
           /\ lo[p] <= lo[f + k] /\ hi[f + k] <= hi[p] /\ hi[f + k] <= N
      /\ \A k \in 1..(n - 1) : lo[f + k + 1] = hi[f + k] + 1

LEMMA InnerHolds ==
  ASSUME Basics, NEW ht, NEW lo, NEW hi, NEW fst, NEW up,
         Shape(ht, lo, hi, fst, up), NEW p \in 1..Len(nodes), p > DivCeil(N)
  PROVE  Inner(ht, lo, hi, fst, up, p)
<1> DEFINE n == nodes[p].count
           f == fst[p]
<1>1. Len(nodes) \in Nat /\ N \in Nat /\ DivCeil(N) \in Nat /\ Fan \in Nat
  BY LengthType, FanType
<1>2. /\ ht \in [1..Len(nodes) -> Nat] /\ lo \in [1..Len(nodes) -> Nat]
      /\ hi \in [1..Len(nodes) -> Nat] /\ fst \in [1..Len(nodes) -> Nat]
      /\ \A q \in 1..Len(nodes) : 1 <= lo[q] /\ lo[q] <= hi[q] /\ hi[q] <= N
  BY DEF Shape, Typed, Covers
<1>3. p \in (DivCeil(N) + 1)..Len(nodes)
  BY <1>1
<1>4. InternalAt(ht, lo, hi, fst, up, p)
  BY <1>3 DEF Shape, Internals
<1>5. /\ n \in 1..Fan /\ f + n < p /\ f + n <= read /\ nodes[p] = NodeOver(lo, hi, f, n)
      /\ ht[p] > 1 /\ lo[p] = lo[f + 1] /\ hi[p] = hi[f + n]
      /\ \A k \in 1..n : /\ ht[f + k] = ht[p] - 1 /\ up[f + k] = p
                         /\ lo[p] <= lo[f + k] /\ hi[f + k] <= hi[p]
      /\ \A k \in 1..(n - 1) : lo[f + k + 1] = hi[f + k] + 1
  BY <1>4 DEF InternalAt
<1>6. /\ n \in Nat \ {0} /\ f \in Nat /\ ht[p] \in Nat /\ lo[p] \in Nat /\ hi[p] \in Nat
      /\ 1 <= lo[p] /\ lo[p] <= hi[p] /\ hi[p] <= N
  <2>1. f \in Nat /\ ht[p] \in Nat /\ lo[p] \in Nat /\ hi[p] \in Nat
    BY <1>2
  <2>2. n \in Nat \ {0}
    <3> HIDE DEF n, f
    <3> QED BY <1>1, <1>5
  <2> QED BY <1>2, <2>1, <2>2
<1>7. /\ nodes[p].left = entries[lo[f + 1]]
      /\ nodes[p].children = [k \in 1..n |->
           [right |-> entries[hi[f + k]], reduced |-> lo[f + k]..hi[f + k],
            start |-> lo[f + k] - 1, offset |-> f + k]]
  <2> HIDE DEF n, f
  <2> QED BY <1>5 DEF NodeOver
<1> HIDE DEF n, f
<1>8. \A k \in 1..n : f + k \in 1..Len(nodes)
  BY <1>1, <1>5, <1>6
<1>9. \A k \in 1..n : /\ lo[f + k] \in Nat /\ hi[f + k] \in Nat
                      /\ 1 <= lo[f + k] /\ lo[f + k] <= hi[f + k]
  BY <1>2, <1>8
<1>10. \A k \in 1..n : /\ nodes[p].children[k].right = entries[hi[f + k]]
                       /\ nodes[p].children[k].reduced = lo[f + k]..hi[f + k]
                       /\ nodes[p].children[k].start = lo[f + k] - 1
                       /\ nodes[p].children[k].offset = f + k
  BY <1>7
<1>11. \A k \in 1..n : hi[f + k] <= N
  BY <1>2, <1>8
<1> QED BY <1>5, <1>6, <1>7, <1>8, <1>9, <1>10, <1>11 DEF Inner, n, f

LEMMA ReducedOfInternal ==
  ASSUME Basics, NEW ht, NEW lo, NEW hi, NEW fst, NEW up,
         Shape(ht, lo, hi, fst, up), NEW p \in 1..Len(nodes), p > DivCeil(N)
  PROVE  UNION {nodes[p].children[k].reduced : k \in 1..nodes[p].count} = lo[p]..hi[p]
<1> DEFINE n == nodes[p].count
           f == fst[p]
           a == [k \in 1..n |-> lo[f + k]]
           b == [k \in 1..n |-> hi[f + k]]
<1>1. /\ n \in Nat \ {0} /\ f \in Nat /\ lo[p] = lo[f + 1] /\ hi[p] = hi[f + n]
      /\ \A k \in 1..n : /\ lo[f + k] \in Nat /\ hi[f + k] \in Nat
                         /\ nodes[p].children[k].reduced = lo[f + k]..hi[f + k]
                         /\ lo[p] <= lo[f + k] /\ hi[f + k] <= hi[p]
      /\ \A k \in 1..(n - 1) : lo[f + k + 1] = hi[f + k] + 1
  <2>1. n \in Nat \ {0} /\ f \in Nat /\ lo[p] = lo[f + 1] /\ hi[p] = hi[f + n]
    BY InnerHolds DEF Inner
  <2>2. \A k \in 1..n : /\ lo[f + k] \in Nat /\ hi[f + k] \in Nat
                        /\ nodes[p].children[k].reduced = lo[f + k]..hi[f + k]
                        /\ lo[p] <= lo[f + k] /\ hi[f + k] <= hi[p]
    BY InnerHolds DEF Inner
  <2>3. \A k \in 1..(n - 1) : lo[f + k + 1] = hi[f + k] + 1
    BY InnerHolds DEF Inner
  <2> QED BY <2>1, <2>2, <2>3
<1> HIDE DEF n, f
<1>2. 1 \in 1..n /\ n \in 1..n
  BY <1>1
<1>3. /\ \A k \in 1..n : a[k] = lo[f + k] /\ b[k] = hi[f + k]
      /\ a[1] = lo[p] /\ b[n] = hi[p]
  BY <1>1, <1>2
<1>4. \A k \in 1..(n - 1) : a[k + 1] = b[k] + 1
  <2> SUFFICES ASSUME NEW k \in 1..(n - 1) PROVE a[k + 1] = b[k] + 1
    OBVIOUS
  <2>1. k \in 1..n /\ k + 1 \in 1..n /\ f + (k + 1) = f + k + 1
    BY <1>1
  <2> QED BY <1>1, <1>3, <2>1
<1>5. \A k \in 1..n : nodes[p].children[k].reduced = a[k]..b[k]
  BY <1>1, <1>3
<1> HIDE DEF a, b
<1>6. UNION {a[k]..b[k] : k \in 1..n} = a[1]..b[n]
  <2>1. \A k \in 1..n : a[k] \in Nat /\ b[k] \in Nat /\ a[1] <= a[k] /\ b[k] <= b[n]
    BY <1>1, <1>3
  <2> QED BY <1>1, <1>4, <2>1, IntervalsJoin
<1>7. {nodes[p].children[k].reduced : k \in 1..n} = {a[k]..b[k] : k \in 1..n}
  BY <1>5
<1> QED BY <1>3, <1>6, <1>7 DEF n

\* What the writer reads from a node of the level below the one it writes.
LEMMA ReadBack ==
  ASSUME Basics, LeavesWritten, Progress, NEW ht, NEW lo, NEW hi, NEW fst, NEW up,
         Shape(ht, lo, hi, fst, up), NEW p \in 1..Len(nodes), ht[p] = level
  PROVE  /\ LeftKey(p) = entries[lo[p]] /\ RightKey(p) = entries[hi[p]]
         /\ ReducedValue(p) = lo[p]..hi[p]
<1>1. Len(nodes) \in Nat /\ N \in Nat /\ DivCeil(N) \in Nat /\ level \in Nat \ {0}
  <2>1. level \in 1..Len(counts)
    BY DEF Progress
  <2> QED BY <2>1, LengthType
<1>2. CASE p <= DivCeil(N)
  <2>1. p \in 1..DivCeil(N)
    BY <1>1, <1>2
  <2>2. level = 1
    BY <2>1 DEF Shape, Leaves
  <2> DEFINE n == hi[p] - lo[p] + 1
             l == lo[p]
  <2>3. l \in Nat /\ hi[p] \in Nat /\ l <= hi[p]
    BY <2>1, LeafFacts
  <2>4. n \in Nat \ {0} /\ l + 1 - 1 = l /\ l + n - 1 = hi[p] /\ 1 \in 1..n /\ n \in 1..n
    BY <2>3
  <2>5. nodes[p].count = n /\ \A k \in 1..n : nodes[p].entries[k] = l + k - 1
    BY <2>1, LeafFacts
  <2> HIDE DEF n
  <2>6. LeftKey(p) = entries[lo[p]] /\ RightKey(p) = entries[hi[p]]
    BY <2>2, <2>4, <2>5 DEF LeftKey, RightKey
  <2>7. ReducedValue(p) = {l + k - 1 : k \in 1..n}
    BY <2>2, <2>5 DEF ReducedValue
  <2>8. {l + k - 1 : k \in 1..n} = l..hi[p]
    <3>1. ASSUME NEW e \in l..hi[p] PROVE \E k \in 1..n : e = l + k - 1
      <4>1. e - l + 1 \in 1..n /\ e = l + (e - l + 1) - 1
        BY <2>3, <2>4
      <4> QED BY <4>1
    <3>2. \A k \in 1..n : l + k - 1 \in l..hi[p]
      BY <2>3, <2>4
    <3> QED BY <3>1, <3>2
  <2> QED BY <2>6, <2>7, <2>8
<1>3. CASE p > DivCeil(N)
  <2>1. level > 1
    BY <1>3, InnerHolds DEF Inner
  <2>2. ~(level <= 1)
    BY <1>1, <2>1
  <2> DEFINE n == nodes[p].count
             f == fst[p]
  <2>3. /\ n \in Nat \ {0} /\ hi[p] = hi[f + n] /\ nodes[p].left = entries[lo[p]]
        /\ \A k \in 1..n : nodes[p].children[k].right = entries[hi[f + k]]
    BY <1>3, InnerHolds DEF Inner
  <2>4. LeftKey(p) = entries[lo[p]]
    BY <2>2, <2>3 DEF LeftKey
  <2>5. n \in 1..n
    BY <2>3
  <2>6. RightKey(p) = entries[hi[p]]
    BY <2>2, <2>3, <2>5 DEF RightKey
  <2>7. ReducedValue(p) = lo[p]..hi[p]
    BY <1>3, <2>2, ReducedOfInternal DEF ReducedValue
  <2> QED BY <2>4, <2>6, <2>7
<1> QED BY <1>1, <1>2, <1>3

-----------------------------------------------------------------------------
(* One internal node.                                                       *)

\* How many children the next node gets, and which nodes they are.
LEMMA NextChildren ==
  ASSUME Basics, CountsOK, Progress, NEW ht, NEW lo, NEW hi, NEW fst, NEW up,
         Shape(ht, lo, hi, fst, up), level < Len(counts)
  PROVE  /\ counts[level + 1] = Width /\ Width \in Nat \ {0}
         /\ Children \in 1..Fan /\ Children \in Nat \ {0} /\ taken + Children <= Width
         /\ taken + Children < Width => Children = Fan
         /\ read + Children <= Len(nodes)
         /\ \A k \in 1..Children :
              /\ read + k \in 1..Len(nodes) /\ ht[read + k] = level
              /\ lo[read + k] = FirstEntry(taken + k, packed)
              /\ lo[read + k] \in Nat /\ hi[read + k] \in Nat
              /\ 1 <= lo[read + k] /\ lo[read + k] <= hi[read + k] /\ hi[read + k] <= N
         /\ \A k \in 1..(Children - 1) : lo[read + k + 1] = hi[read + k] + 1
         /\ taken + Children < Width => lo[read + Children + 1] = hi[read + Children] + 1
         /\ taken + Children = Width => hi[read + Children] = N
<1> DEFINE m == Children
<1>1. /\ level \in 1..(Len(counts) - 1) /\ counts \in Seq(Nat) /\ packed \in Nat \ {0}
      /\ read \in Nat /\ taken \in Nat /\ taken <= read /\ taken < Width
      /\ Written \in Nat
  <2>1. counts \in Seq(Nat) /\ level \in 1..Len(counts)
    BY DEF CountsOK, Progress
  <2>2. level \in 1..(Len(counts) - 1)
    BY <2>1
  <2> QED BY <2>1, <2>2 DEF Progress
<1>2. counts[level + 1] = Width
  BY <1>1 DEF CountsOK, Width
<1>3. Width \in Nat \ {0}
  <2>1. level + 1 \in 1..Len(counts)
    BY <1>1
  <2>2. counts[level + 1] \in Nat /\ counts[level + 1] > 0
    BY <1>1, <2>1 DEF CountsOK
  <2> QED BY <1>2, <2>2
<1>4. m = IF Width - taken < Fan THEN Width - taken ELSE Fan
  BY <1>2 DEF Children, Fan
<1>5. Len(nodes) \in Nat /\ Fan \in Nat \ {0} /\ Base \in Nat /\ Base + taken = read
  BY <1>1, LengthType, FanType DEF Base
<1>6. Base + Width <= Len(nodes)
  BY <1>1, <1>3, <1>5 DEF Written
<1> HIDE DEF m
<1>7. /\ m \in 1..Fan /\ m \in Nat \ {0} /\ taken + m <= Width
      /\ taken + m < Width => m = Fan
  BY <1>1, <1>3, <1>4, <1>5
<1>8. read + m <= Len(nodes)
  BY <1>1, <1>3, <1>5, <1>6, <1>7
<1>9. /\ \A k \in 1..Width : ht[Base + k] = level /\ lo[Base + k] = FirstEntry(k, packed)
      /\ \A k \in 1..(Width - 1) : lo[Base + k + 1] = hi[Base + k] + 1
      /\ hi[Base + Width] = N
  <2>1. Width > 0
    BY <1>3
  <2> QED BY <2>1 DEF Shape, LevelRead, Chain
<1>10. ASSUME NEW k \in 1..m
       PROVE  /\ read + k \in 1..Len(nodes) /\ ht[read + k] = level
              /\ lo[read + k] = FirstEntry(taken + k, packed)
              /\ lo[read + k] \in Nat /\ hi[read + k] \in Nat
              /\ 1 <= lo[read + k] /\ lo[read + k] <= hi[read + k] /\ hi[read + k] <= N
  <2>1. taken + k \in 1..Width /\ Base + (taken + k) = read + k /\ read + k \in 1..Len(nodes)
    BY <1>1, <1>3, <1>5, <1>7, <1>8
  <2>2. ht[read + k] = level /\ lo[read + k] = FirstEntry(taken + k, packed)
    BY <1>9, <2>1
  <2>3. /\ lo[read + k] \in Nat /\ hi[read + k] \in Nat
        /\ 1 <= lo[read + k] /\ lo[read + k] <= hi[read + k] /\ hi[read + k] <= N
    BY <2>1 DEF Shape, Typed, Covers
  <2> QED BY <2>1, <2>2, <2>3
<1>11. ASSUME NEW k \in 1..m, taken + k < Width
       PROVE  lo[read + k + 1] = hi[read + k] + 1
  <2>1. taken + k \in 1..(Width - 1) /\ Base + (taken + k) = read + k
    BY <1>1, <1>3, <1>5, <1>7, <1>11
  <2> QED BY <1>9, <2>1
<1>12. \A k \in 1..(m - 1) : lo[read + k + 1] = hi[read + k] + 1
  <2> SUFFICES ASSUME NEW k \in 1..(m - 1) PROVE lo[read + k + 1] = hi[read + k] + 1
    OBVIOUS
  <2>1. k \in 1..m /\ taken + k < Width
    BY <1>1, <1>3, <1>7
  <2> QED BY <1>11, <2>1
<1>13. taken + m < Width => lo[read + m + 1] = hi[read + m] + 1
  <2>1. m \in 1..m
    BY <1>7
  <2> QED BY <1>11, <2>1
<1>14. taken + m = Width => hi[read + m] = N
  <2> SUFFICES ASSUME taken + m = Width PROVE hi[read + m] = N
    OBVIOUS
  <2>1. Base + Width = read + m
    BY <1>1, <1>3, <1>5, <1>7
  <2> QED BY <1>9, <2>1
<1> QED BY <1>2, <1>3, <1>7, <1>8, <1>10, <1>12, <1>13, <1>14 DEF m

\* They lie between the first and the last of them.
LEMMA ChildrenNest ==
  ASSUME Basics, CountsOK, Progress, NEW ht, NEW lo, NEW hi, NEW fst, NEW up,
         Shape(ht, lo, hi, fst, up), level < Len(counts), NEW k \in 1..Children
  PROVE  lo[read + 1] <= lo[read + k] /\ hi[read + k] <= hi[read + Children]
<1> DEFINE m == Children
<1>1. m \in Nat \ {0}
  BY NextChildren
<1>2. \A i \in 1..m : /\ lo[read + i] = FirstEntry(taken + i, packed)
                      /\ lo[read + i] \in Nat /\ hi[read + i] \in Nat
                      /\ lo[read + i] <= hi[read + i]
  BY NextChildren
<1>3. \A i \in 1..(m - 1) : lo[read + i + 1] = hi[read + i] + 1
  BY NextChildren
<1>4. taken \in Nat /\ packed \in Nat /\ read \in Nat
  BY DEF Progress
<1>5. k \in 1..m
  OBVIOUS
<1> HIDE DEF m
<1>6. ASSUME NEW i \in 1..m, NEW j \in 1..m, i <= j PROVE lo[read + i] <= lo[read + j]
  <2>1. taken + i \in Nat \ {0} /\ taken + j \in Nat /\ taken + i <= taken + j
    BY <1>4, <1>6
  <2>2. FirstEntry(taken + i, packed) <= FirstEntry(taken + j, packed)
    BY <1>4, <2>1, FirstEntryGrows
  <2> QED BY <1>2, <2>2
<1>7. 1 \in 1..m /\ m \in 1..m /\ 1 <= k /\ k <= m /\ k \in Nat
  BY <1>1, <1>5
<1>8. lo[read + 1] <= lo[read + k]
  BY <1>5, <1>6, <1>7
<1>9. hi[read + k] <= hi[read + m]
  <2>1. CASE k = m
    BY <1>2, <1>7, <2>1
  <2>2. CASE k # m
    <3>1. k \in 1..(m - 1) /\ k + 1 \in 1..m /\ k + 1 <= m /\ read + (k + 1) = read + k + 1
      BY <1>1, <1>4, <1>5, <2>2
    <3>2. lo[read + (k + 1)] <= lo[read + m]
      BY <1>6, <1>7, <3>1
    <3>3. lo[read + (k + 1)] = hi[read + k] + 1
      BY <1>3, <3>1
    <3>4. /\ lo[read + m] <= hi[read + m] /\ lo[read + m] \in Nat /\ hi[read + m] \in Nat
          /\ hi[read + k] \in Nat
      BY <1>2, <1>5, <1>7
    <3> QED BY <3>2, <3>3, <3>4
  <2> QED BY <2>1, <2>2
<1> QED BY <1>8, <1>9 DEF m

\* The node the code puts together from what it reads of them.
LEMMA NextNode ==
  ASSUME Basics, CountsOK, LeavesWritten, Progress, NEW ht, NEW lo, NEW hi, NEW fst, NEW up,
         Shape(ht, lo, hi, fst, up), level < Len(counts)
  PROVE  InternalNode(Children) = NodeOver(lo, hi, read, Children)
<1> DEFINE m == Children
<1>1. m \in Nat \ {0}
  BY NextChildren
<1>2. \A k \in 1..m : /\ read + k \in 1..Len(nodes) /\ ht[read + k] = level
                      /\ lo[read + k] = FirstEntry(taken + k, packed)
  BY NextChildren
<1>3. \A k \in 1..m : /\ LeftKey(read + k) = entries[lo[read + k]]
                      /\ RightKey(read + k) = entries[hi[read + k]]
                      /\ ReducedValue(read + k) = lo[read + k]..hi[read + k]
  BY <1>2, ReadBack
<1>4. \A k \in 1..m : (taken + k - 1) * packed = lo[read + k] - 1
  <2> SUFFICES ASSUME NEW k \in 1..m PROVE (taken + k - 1) * packed = lo[read + k] - 1
    OBVIOUS
  <2>1. taken + k \in Nat \ {0} /\ packed \in Nat
    BY <1>1 DEF Progress
  <2>2. ((taken + k) - 1) * packed = FirstEntry(taken + k, packed) - 1
    BY <2>1, BeforeFirst
  <2>3. taken + k - 1 = (taken + k) - 1
    BY <1>1 DEF Progress
  <2> QED BY <1>2, <2>2, <2>3
<1>5. 1 \in 1..m
  BY <1>1
<1> HIDE DEF m
<1>6. [k \in 1..m |->
         [right |-> RightKey(read + k), reduced |-> ReducedValue(read + k),
          start |-> (taken + k - 1) * packed, offset |-> read + k]]
      = [k \in 1..m |->
         [right |-> entries[hi[read + k]], reduced |-> lo[read + k]..hi[read + k],
          start |-> lo[read + k] - 1, offset |-> read + k]]
  BY <1>3, <1>4
<1>7. LeftKey(read + 1) = entries[lo[read + 1]]
  BY <1>3, <1>5
<1>8. InternalNode(m) = NodeOver(lo, hi, read, m)
  BY <1>6, <1>7 DEF InternalNode, NodeOver
<1> QED BY <1>8 DEF m

-----------------------------------------------------------------------------
(* Writing an internal node keeps the shape of the tree.                    *)

\* A function on the nodes of a file is extended to the next node.
WithNext(f, n, x) == [p \in 1..(n + 1) |-> IF p \in 1..n THEN f[p] ELSE x]

LEMMA OneMore ==
  ASSUME NEW n \in Nat, NEW f \in [1..n -> Nat], NEW x \in Nat
  PROVE  /\ WithNext(f, n, x) \in [1..(n + 1) -> Nat] /\ WithNext(f, n, x)[n + 1] = x
         /\ \A p \in 1..n : WithNext(f, n, x)[p] = f[p]
BY DEF WithNext

LEMMA MoreParents ==
  ASSUME NEW n \in Nat, NEW r \in Nat, NEW m \in Nat, NEW f \in [1..r -> 1..n]
  PROVE  \E g \in [1..(r + m) -> 1..(n + 1)] :
           /\ \A c \in 1..r : g[c] = f[c]
           /\ \A k \in 1..m : g[r + k] = n + 1
<1> DEFINE g == [c \in 1..(r + m) |-> IF c \in 1..r THEN f[c] ELSE n + 1]
<1>1. g \in [1..(r + m) -> 1..(n + 1)] /\ \A c \in 1..r : g[c] = f[c]
  OBVIOUS
<1>2. \A k \in 1..m : g[r + k] = n + 1
  OBVIOUS
<1> HIDE DEF g
<1> QED BY <1>1, <1>2

\* Two descriptions of a tree agree on its first n nodes.
Agree(n, ht, lo, hi, ht2, lo2, hi2) ==
  \A p \in 1..n : ht2[p] = ht[p] /\ lo2[p] = lo[p] /\ hi2[p] = hi[p]

LEMMA SameChain ==
  ASSUME NEW ht, NEW lo, NEW hi, NEW ht2, NEW lo2, NEW hi2,
         NEW base \in Nat, NEW w \in Nat, NEW h, NEW size, NEW last,
         Chain(ht, lo, hi, base, w, h, size, last),
         Agree(base + w, ht, lo, hi, ht2, lo2, hi2)
  PROVE  Chain(ht2, lo2, hi2, base, w, h, size, last)
<1>1. \A k \in 1..w : /\ ht2[base + k] = ht[base + k] /\ lo2[base + k] = lo[base + k]
                      /\ hi2[base + k] = hi[base + k]
  BY DEF Agree
<1>2. \A k \in 1..(w - 1) : lo2[base + k + 1] = lo[base + k + 1] /\ k \in 1..w
  <2> SUFFICES ASSUME NEW k \in 1..(w - 1) PROVE lo2[base + k + 1] = lo[base + k + 1] /\ k \in 1..w
    OBVIOUS
  <2>1. base + k + 1 \in 1..(base + w) /\ k \in 1..w
    OBVIOUS
  <2> QED BY <2>1 DEF Agree
<1>3. w > 0 => w \in 1..w
  OBVIOUS
<1> QED BY <1>1, <1>2, <1>3 DEF Chain

LEMMA LongerChain ==
  ASSUME NEW ht, NEW lo, NEW hi, NEW ht2, NEW lo2, NEW hi2,
         NEW base \in Nat, NEW w \in Nat, NEW h, NEW size, NEW last,
         Chain(ht, lo, hi, base, w, h, size, last),
         Agree(base + w, ht, lo, hi, ht2, lo2, hi2),
         ht2[base + w + 1] = h, lo2[base + w + 1] = FirstEntry(w + 1, size),
         w > 0 => lo2[base + w + 1] = last + 1
  PROVE  Chain(ht2, lo2, hi2, base, w + 1, h, size, hi2[base + w + 1])
<1>1. Chain(ht2, lo2, hi2, base, w, h, size, last)
  BY SameChain
<1>2. base + (w + 1) = base + w + 1
  OBVIOUS
<1>3. \A k \in 1..(w + 1) : ht2[base + k] = h /\ lo2[base + k] = FirstEntry(k, size)
  <2> SUFFICES ASSUME NEW k \in 1..(w + 1)
               PROVE  ht2[base + k] = h /\ lo2[base + k] = FirstEntry(k, size)
    OBVIOUS
  <2>1. k \in 1..w \/ k = w + 1
    OBVIOUS
  <2> QED BY <1>1, <1>2, <2>1 DEF Chain
<1>4. \A k \in 1..((w + 1) - 1) : lo2[base + k + 1] = hi2[base + k] + 1
  <2> SUFFICES ASSUME NEW k \in 1..w PROVE lo2[base + k + 1] = hi2[base + k] + 1
    OBVIOUS
  <2>1. CASE k = w
    <3>1. w > 0
      OBVIOUS
    <3> QED BY <1>1, <2>1, <3>1 DEF Chain
  <2>2. CASE k # w
    <3>1. k \in 1..(w - 1)
      BY <2>2
    <3> QED BY <1>1, <3>1 DEF Chain
  <2> QED BY <2>1, <2>2
<1> QED BY <1>2, <1>3, <1>4 DEF Chain

\* A description of the tree with the next internal node.
Extends(ht, lo, hi, fst, up, ht2, lo2, hi2, fst2, up2) ==
  LET q == Len(nodes) + 1
  IN  /\ ht2 \in [1..q -> Nat] /\ lo2 \in [1..q -> Nat] /\ hi2 \in [1..q -> Nat]
      /\ fst2 \in [1..q -> Nat] /\ up2 \in [1..(read + Children) -> 1..q]
      /\ Agree(Len(nodes), ht, lo, hi, ht2, lo2, hi2)
      /\ \A p \in 1..Len(nodes) : fst2[p] = fst[p]
      /\ ht2[q] = level + 1 /\ lo2[q] = lo[read + 1] /\ hi2[q] = hi[read + Children]
      /\ fst2[q] = read
      /\ \A c \in 1..read : up2[c] = up[c]
      /\ \A k \in 1..Children : up2[read + k] = q

LEMMA Extension ==
  ASSUME Basics, CountsOK, Progress, NEW ht, NEW lo, NEW hi, NEW fst, NEW up,
         Shape(ht, lo, hi, fst, up), level < Len(counts)
  PROVE  \E ht2, lo2, hi2, fst2, up2 : Extends(ht, lo, hi, fst, up, ht2, lo2, hi2, fst2, up2)
<1> DEFINE n == Len(nodes)
           m == Children
<1>1. /\ n \in Nat /\ level + 1 \in Nat /\ read \in Nat
      /\ ht \in [1..n -> Nat] /\ lo \in [1..n -> Nat] /\ hi \in [1..n -> Nat]
      /\ fst \in [1..n -> Nat] /\ up \in [1..read -> 1..n]
  <2>1. n \in Nat /\ counts \in Seq(Nat) /\ level \in 1..Len(counts) /\ read \in Nat
    BY LengthType DEF Progress, CountsOK
  <2>2. level + 1 \in Nat
    BY <2>1
  <2>3. /\ ht \in [1..n -> Nat] /\ lo \in [1..n -> Nat] /\ hi \in [1..n -> Nat]
        /\ fst \in [1..n -> Nat] /\ up \in [1..read -> 1..n]
    BY DEF Shape, Typed
  <2> QED BY <2>1, <2>2, <2>3
<1>2. m \in Nat \ {0}
  BY NextChildren
<1>3. \A k \in 1..m : lo[read + k] \in Nat /\ hi[read + k] \in Nat
  BY NextChildren
<1> HIDE DEF n, m
<1>4. 1 \in 1..m /\ m \in 1..m
  BY <1>2
<1>5. lo[read + 1] \in Nat /\ hi[read + m] \in Nat
  BY <1>3, <1>4
<1>6. PICK ht2 : /\ ht2 \in [1..(n + 1) -> Nat] /\ ht2[n + 1] = level + 1
                 /\ \A p \in 1..n : ht2[p] = ht[p]
  <2>1. /\ WithNext(ht, n, level + 1) \in [1..(n + 1) -> Nat] /\ WithNext(ht, n, level + 1)[n + 1] = level + 1
        /\ \A p \in 1..n : WithNext(ht, n, level + 1)[p] = ht[p]
    BY <1>1, OneMore
  <2> QED BY <2>1
<1>7. PICK lo2 : /\ lo2 \in [1..(n + 1) -> Nat] /\ lo2[n + 1] = lo[read + 1]
                 /\ \A p \in 1..n : lo2[p] = lo[p]
  <2>1. n \in Nat /\ lo \in [1..n -> Nat] /\ lo[read + 1] \in Nat
    BY <1>1, <1>5
  <2>2. /\ WithNext(lo, n, lo[read + 1]) \in [1..(n + 1) -> Nat] /\ WithNext(lo, n, lo[read + 1])[n + 1] = lo[read + 1]
        /\ \A p \in 1..n : WithNext(lo, n, lo[read + 1])[p] = lo[p]
    BY <2>1, OneMore
  <2> QED BY <2>2
<1>8. PICK hi2 : /\ hi2 \in [1..(n + 1) -> Nat] /\ hi2[n + 1] = hi[read + m]
                 /\ \A p \in 1..n : hi2[p] = hi[p]
  <2>1. n \in Nat /\ hi \in [1..n -> Nat] /\ hi[read + m] \in Nat
    BY <1>1, <1>5
  <2>2. /\ WithNext(hi, n, hi[read + m]) \in [1..(n + 1) -> Nat] /\ WithNext(hi, n, hi[read + m])[n + 1] = hi[read + m]
        /\ \A p \in 1..n : WithNext(hi, n, hi[read + m])[p] = hi[p]
    BY <2>1, OneMore
  <2> QED BY <2>2
<1>9. PICK fst2 : /\ fst2 \in [1..(n + 1) -> Nat] /\ fst2[n + 1] = read
                 /\ \A p \in 1..n : fst2[p] = fst[p]
  <2>1. /\ WithNext(fst, n, read) \in [1..(n + 1) -> Nat] /\ WithNext(fst, n, read)[n + 1] = read
        /\ \A p \in 1..n : WithNext(fst, n, read)[p] = fst[p]
    BY <1>1, OneMore
  <2> QED BY <2>1
<1>10. PICK up2 \in [1..(read + m) -> 1..(n + 1)] :
         (\A c \in 1..read : up2[c] = up[c]) /\ (\A k \in 1..m : up2[read + k] = n + 1)
  <2>1. m \in Nat
    BY <1>2
  <2> QED BY <1>1, <2>1, MoreParents
<1>11. Agree(n, ht, lo, hi, ht2, lo2, hi2)
  BY <1>6, <1>7, <1>8 DEF Agree
<1>12. Extends(ht, lo, hi, fst, up, ht2, lo2, hi2, fst2, up2)
  BY <1>6, <1>7, <1>8, <1>9, <1>10, <1>11 DEF Extends, n, m
<1> QED BY <1>12

\* What the step does to the variables.
LEMMA WriteParts ==
  ASSUME Basics, CountsOK, LeavesWritten, Progress, NEW ht, NEW lo, NEW hi, NEW fst, NEW up,
         Shape(ht, lo, hi, fst, up), WriteInternal
  PROVE  /\ level < Len(counts) /\ Len(nodes) \in Nat /\ IsSeq(nodes')
         /\ Len(nodes') = Len(nodes) + 1
         /\ nodes'[Len(nodes) + 1] = NodeOver(lo, hi, read, Children)
         /\ \A p \in 1..Len(nodes) : nodes'[p] = nodes[p]
         /\ read' = read + Children
         /\ entries' = entries /\ N' = N /\ counts' = counts /\ leaf' = leaf /\ pc' = pc
         /\ IF taken + Children < Width
              THEN taken' = taken + Children /\ level' = level /\ packed' = packed
              ELSE taken' = 0 /\ level' = level + 1 /\ packed' = packed * Fan
<1>1. level < Len(counts)
  BY DEF WriteInternal
<1>2. nodes' = Append(nodes, NodeOver(lo, hi, read, Children))
  BY <1>1, NextNode DEF WriteInternal
<1>3. counts[level + 1] = Width
  BY <1>1, NextChildren
<1>4. IsSeq(nodes)
  BY DEF Basics
<1>5. /\ IsSeq(nodes') /\ Len(nodes') = Len(nodes) + 1
      /\ nodes'[Len(nodes) + 1] = NodeOver(lo, hi, read, Children)
      /\ \A p \in 1..Len(nodes) : nodes'[p] = nodes[p]
  BY <1>2, <1>4, AppendSeq
<1>6. /\ read' = read + Children
      /\ entries' = entries /\ N' = N /\ counts' = counts /\ leaf' = leaf /\ pc' = pc
      /\ IF taken + Children < counts[level + 1]
           THEN taken' = taken + Children /\ level' = level /\ packed' = packed
           ELSE taken' = 0 /\ level' = level + 1 /\ packed' = packed * Fan
  BY DEF WriteInternal, N, Fan
<1> QED BY <1>1, <1>3, <1>5, <1>6, LengthType

LEMMA WriteNodes ==
  ASSUME Basics, CountsOK, LeavesWritten, Progress, NEW ht, NEW lo, NEW hi, NEW fst, NEW up,
         Shape(ht, lo, hi, fst, up), WriteInternal,
         NEW ht2, NEW lo2, NEW hi2, NEW fst2, NEW up2,
         Extends(ht, lo, hi, fst, up, ht2, lo2, hi2, fst2, up2)
  PROVE  /\ Typed(ht2, lo2, hi2, fst2, up2)' /\ Covers(lo2, hi2)' /\ Leaves(ht2, lo2, hi2)'
         /\ LeavesWritten'
<1> DEFINE L == Len(nodes)
           m == Children
           c == DivCeil(N)
<1>1. /\ level < Len(counts) /\ L \in Nat /\ Len(nodes') = L + 1 /\ read' = read + m /\ N' = N
      /\ \A p \in 1..L : nodes'[p] = nodes[p]
  BY WriteParts
<1>2. /\ ht2 \in [1..(L + 1) -> Nat] /\ lo2 \in [1..(L + 1) -> Nat] /\ hi2 \in [1..(L + 1) -> Nat]
      /\ fst2 \in [1..(L + 1) -> Nat] /\ up2 \in [1..(read + m) -> 1..(L + 1)]
      /\ \A p \in 1..L : ht2[p] = ht[p] /\ lo2[p] = lo[p] /\ hi2[p] = hi[p]
      /\ lo2[L + 1] = lo[read + 1] /\ hi2[L + 1] = hi[read + m]
  BY DEF Extends, Agree
<1>3. Typed(ht2, lo2, hi2, fst2, up2)'
  BY <1>1, <1>2 DEF Typed
<1>4. m \in Nat \ {0}
  BY <1>1, NextChildren
<1>5. \A k \in 1..m : /\ lo[read + k] \in Nat /\ hi[read + k] \in Nat
                      /\ 1 <= lo[read + k] /\ lo[read + k] <= hi[read + k] /\ hi[read + k] <= N
  BY <1>1, NextChildren
<1>6. \A k \in 1..m : lo[read + 1] <= lo[read + k]
  BY <1>1, ChildrenNest
<1>7. c \in Nat /\ c <= L /\ \A p \in 1..c : ht[p] = 1 /\ lo[p] = FirstEntry(p, Fan) /\ hi[p] = EndOf(p, N)
  BY LengthType DEF Shape, Leaves
<1>8. \A p \in 1..L : 1 <= lo[p] /\ lo[p] <= hi[p] /\ hi[p] <= N
  BY DEF Shape, Covers
<1>9. \A p \in 1..c : nodes[p] = FileLeaf(p, N)
  BY DEF LeavesWritten
<1>10. DivCeil(N)' = c /\ N \in Nat
  BY <1>1, LengthType DEF DivCeil
<1>11. Fan' = Fan /\ \A p \in 1..c : EndOf(p, N)' = EndOf(p, N) /\ FileLeaf(p, N)' = FileLeaf(p, N)
  BY <1>1 DEF EndOf, FileLeaf, Fan
<1> HIDE DEF L, m, c
<1>12. 1 \in 1..m /\ m \in 1..m
  BY <1>4
<1>13. \A p \in 1..(L + 1) : 1 <= lo2[p] /\ lo2[p] <= hi2[p] /\ hi2[p] <= N
  <2> SUFFICES ASSUME NEW p \in 1..(L + 1) PROVE 1 <= lo2[p] /\ lo2[p] <= hi2[p] /\ hi2[p] <= N
    OBVIOUS
  <2>1. CASE p \in 1..L
    BY <1>2, <1>8, <2>1
  <2>2. CASE p = L + 1
    <3>1. /\ lo[read + 1] \in Nat /\ lo[read + m] \in Nat /\ hi[read + m] \in Nat
          /\ 1 <= lo[read + 1] /\ lo[read + 1] <= lo[read + m] /\ lo[read + m] <= hi[read + m]
          /\ hi[read + m] <= N
      BY <1>5, <1>6, <1>12
    <3> QED BY <1>2, <2>2, <3>1
  <2> QED BY <1>1, <2>1, <2>2
<1>14. Covers(lo2, hi2)'
  BY <1>1, <1>13 DEF Covers
<1>15. \A p \in 1..c : p \in 1..L
  BY <1>1, <1>7
<1>16. c <= L + 1
  BY <1>1, <1>7
<1>17. \A p \in 1..c : ht2[p] = 1 /\ lo2[p] = FirstEntry(p, Fan) /\ hi2[p] = EndOf(p, N)
  BY <1>2, <1>7, <1>15
<1>18. Leaves(ht2, lo2, hi2)'
  BY <1>1, <1>10, <1>11, <1>16, <1>17 DEF Leaves
<1>19. LeavesWritten'
  BY <1>1, <1>9, <1>10, <1>11, <1>15 DEF LeavesWritten
<1> QED BY <1>3, <1>14, <1>18, <1>19

LEMMA WriteInternals ==
  ASSUME Basics, CountsOK, LeavesWritten, Progress, NEW ht, NEW lo, NEW hi, NEW fst, NEW up,
         Shape(ht, lo, hi, fst, up), WriteInternal,
         NEW ht2, NEW lo2, NEW hi2, NEW fst2, NEW up2,
         Extends(ht, lo, hi, fst, up, ht2, lo2, hi2, fst2, up2)
  PROVE  Internals(ht2, lo2, hi2, fst2, up2)'
<1> DEFINE L == Len(nodes)
<1>m. PICK m, q, r : m = Children /\ q = L + 1 /\ r = read
  OBVIOUS
<1>1. /\ level < Len(counts) /\ L \in Nat /\ Len(nodes') = q /\ read' = r + m /\ N' = N
      /\ \A p \in 1..L : nodes'[p] = nodes[p]
  BY <1>m, WriteParts
<1>2. nodes'[q] = NodeOver(lo, hi, r, m) /\ entries' = entries
  BY <1>m, WriteParts
<1>3. \A p \in 1..L : ht2[p] = ht[p] /\ lo2[p] = lo[p] /\ hi2[p] = hi[p] /\ fst2[p] = fst[p]
  BY DEF Extends, Agree
<1>4. /\ ht2[q] = level + 1 /\ lo2[q] = lo[r + 1] /\ hi2[q] = hi[r + m] /\ fst2[q] = r
      /\ \A c \in 1..r : up2[c] = up[c]
      /\ \A k \in 1..m : up2[r + k] = q
  BY <1>m DEF Extends
<1>5. /\ m \in 1..Fan /\ m \in Nat \ {0} /\ r + m <= L
  BY <1>1, <1>m, NextChildren
<1>6. \A k \in 1..m : r + k \in 1..L /\ ht[r + k] = level
  BY <1>1, <1>m, NextChildren
<1>7. \A k \in 1..(m - 1) : lo[r + k + 1] = hi[r + k] + 1
  BY <1>1, <1>m, NextChildren
<1>8. \A k \in 1..m : lo[r + 1] <= lo[r + k] /\ hi[r + k] <= hi[r + m]
  BY <1>1, <1>m, ChildrenNest
<1>9. DivCeil(N)' = DivCeil(N) /\ Fan' = Fan /\ DivCeil(N) \in Nat
  BY <1>1, LengthType DEF DivCeil, Fan
<1>10. counts \in Seq(Nat) /\ level \in 1..Len(counts) /\ r \in Nat
  BY <1>m DEF CountsOK, Progress
<1> HIDE DEF L
<1>11. level \in Nat \ {0}
  BY <1>10
<1>12. ASSUME NEW f \in Nat, NEW n \in Nat \ {0}, f + n <= L
       PROVE  NodeOver(lo2, hi2, f, n)' = NodeOver(lo, hi, f, n)
  <2>1. \A k \in 1..n : f + k \in 1..L
    BY <1>1, <1>12
  <2>2. 1 \in 1..n
    OBVIOUS
  <2>3. lo2[f + 1] = lo[f + 1] /\ \A k \in 1..n : lo2[f + k] = lo[f + k] /\ hi2[f + k] = hi[f + k]
    BY <1>3, <2>1, <2>2
  <2> QED BY <1>2, <2>3 DEF NodeOver
<1>13. ASSUME NEW p \in (DivCeil(N) + 1)..L PROVE InternalAt(ht2, lo2, hi2, fst2, up2, p)'
  <2>n. PICK n, f : n = nodes[p].count /\ f = fst[p]
    OBVIOUS
  <2>1. p \in 1..L
    BY <1>1, <1>9
  <2>2. /\ n \in 1..Fan /\ f + n < p /\ f + n <= r
        /\ nodes[p] = NodeOver(lo, hi, f, n)
        /\ ht[p] > 1 /\ lo[p] = lo[f + 1] /\ hi[p] = hi[f + n]
    BY <1>m, <2>n DEF Shape, Internals, InternalAt, L
  <2>3. /\ \A k \in 1..n : /\ ht[f + k] = ht[p] - 1 /\ up[f + k] = p
                           /\ lo[p] <= lo[f + k] /\ hi[f + k] <= hi[p]
        /\ \A k \in 1..(n - 1) : lo[f + k + 1] = hi[f + k] + 1
    BY <1>m, <2>n DEF Shape, Internals, InternalAt, L
  <2>4. f \in Nat
    BY <2>1, <2>n DEF Shape, Typed, L
  <2>5. nodes'[p].count = n /\ fst2[p] = f /\ nodes'[p] = nodes[p]
    BY <1>1, <1>3, <2>1, <2>n
  <2>6. n \in Nat \ {0} /\ Fan \in Nat
    BY <2>2, FanType
  <2>7. f + n <= L /\ f + n <= r + m
    BY <1>m, <1>1, <1>5, <1>10, <2>1, <2>2, <2>4, <2>6
  <2>8. \A k \in 1..n : f + k \in 1..L /\ f + k \in 1..r
    BY <1>1, <1>10, <2>2, <2>4, <2>6, <2>7
  <2>9. \A k \in 1..(n - 1) : k \in 1..n /\ k + 1 \in 1..n /\ f + (k + 1) = f + k + 1
    BY <2>4, <2>6
  <2>10. 1 \in 1..n /\ n \in 1..n
    BY <2>6
  <2>11. nodes'[p] = NodeOver(lo2, hi2, f, n)'
    BY <1>12, <2>2, <2>4, <2>5, <2>6, <2>7
  <2>12. ht2[p] > 1 /\ lo2[p] = lo2[f + 1] /\ hi2[p] = hi2[f + n]
    BY <1>3, <2>1, <2>2, <2>8, <2>10
  <2>13. \A k \in 1..n : /\ ht2[f + k] = ht2[p] - 1 /\ up2[f + k] = p
                         /\ lo2[p] <= lo2[f + k] /\ hi2[f + k] <= hi2[p]
    BY <1>3, <1>4, <2>1, <2>3, <2>8
  <2>14. \A k \in 1..(n - 1) : lo2[f + k + 1] = hi2[f + k] + 1
    <3> SUFFICES ASSUME NEW k \in 1..(n - 1) PROVE lo2[f + k + 1] = hi2[f + k] + 1
      OBVIOUS
    <3>1. f + k \in 1..L /\ f + k + 1 \in 1..L
      BY <2>8, <2>9
    <3> QED BY <1>3, <2>3, <3>1
  <2>15. n \in 1..Fan' /\ f + n < p /\ f + n <= read'
    BY <1>1, <1>9, <2>2, <2>7
  <2> QED BY <2>5, <2>11, <2>12, <2>13, <2>14, <2>15 DEF InternalAt
<1>14. InternalAt(ht2, lo2, hi2, fst2, up2, q)'
  <2>1. nodes'[q] = NodeOver(lo2, hi2, r, m)'
    BY <1>2, <1>5, <1>10, <1>12
  <2>2. nodes'[q].count = m
    BY <1>2 DEF NodeOver
  <2>3. 1 \in 1..m /\ m \in 1..m
    BY <1>5
  <2>4. \A k \in 1..m : /\ ht2[r + k] = level /\ lo2[r + k] = lo[r + k]
                        /\ hi2[r + k] = hi[r + k] /\ up2[r + k] = q
    BY <1>3, <1>4, <1>6
  <2>5. ht2[q] > 1 /\ lo2[q] = lo2[r + 1] /\ hi2[q] = hi2[r + m] /\ ht2[q] - 1 = level
    BY <1>4, <1>11, <2>3, <2>4
  <2>6. \A k \in 1..m : /\ ht2[r + k] = ht2[q] - 1 /\ up2[r + k] = q
                        /\ lo2[q] <= lo2[r + k] /\ hi2[r + k] <= hi2[q]
    BY <1>4, <1>8, <2>4, <2>5
  <2>7. \A k \in 1..(m - 1) : lo2[r + k + 1] = hi2[r + k] + 1
    <3> SUFFICES ASSUME NEW k \in 1..(m - 1) PROVE lo2[r + k + 1] = hi2[r + k] + 1
      OBVIOUS
    <3>1. k \in 1..m /\ k + 1 \in 1..m /\ r + (k + 1) = r + k + 1
      BY <1>5, <1>10
    <3> QED BY <1>7, <2>4, <3>1
  <2>8. m \in 1..Fan' /\ r + m < q /\ r + m <= read'
    BY <1>m, <1>1, <1>5, <1>9, <1>10
  <2> QED BY <1>4, <2>1, <2>2, <2>5, <2>6, <2>7, <2>8 DEF InternalAt
<1>15. \A p \in (DivCeil(N) + 1)..q : p \in (DivCeil(N) + 1)..L \/ p = q
  BY <1>m, <1>1, <1>9
<1>16. \A p \in (DivCeil(N) + 1)..q : InternalAt(ht2, lo2, hi2, fst2, up2, p)'
  BY <1>13, <1>14, <1>15
<1> QED BY <1>1, <1>9, <1>16 DEF Internals

LEMMA WriteParents ==
  ASSUME Basics, CountsOK, LeavesWritten, Progress, NEW ht, NEW lo, NEW hi, NEW fst, NEW up,
         Shape(ht, lo, hi, fst, up), WriteInternal,
         NEW ht2, NEW lo2, NEW hi2, NEW fst2, NEW up2,
         Extends(ht, lo, hi, fst, up, ht2, lo2, hi2, fst2, up2)
  PROVE  Parents(fst2, up2)'
<1> DEFINE L == Len(nodes)
           m == Children
           q == L + 1
<1>1. /\ level < Len(counts) /\ L \in Nat /\ Len(nodes') = q /\ read' = read + m /\ N' = N
      /\ \A p \in 1..L : nodes'[p] = nodes[p]
  BY WriteParts
<1>2. nodes'[q].count = m
  <2>1. nodes'[q] = NodeOver(lo, hi, read, m)
    BY WriteParts
  <2> HIDE DEF m, q
  <2> QED BY <2>1 DEF NodeOver
<1>3. \A p \in 1..L : fst2[p] = fst[p]
  BY DEF Extends, Agree
<1>4. /\ fst2[q] = read
      /\ \A c \in 1..read : up2[c] = up[c]
      /\ \A k \in 1..m : up2[read + k] = q
  BY DEF Extends
<1>5. m \in Nat \ {0} /\ read \in Nat
  BY <1>1, NextChildren DEF Progress
<1>6. DivCeil(N)' = DivCeil(N) /\ DivCeil(N) \in Nat
  BY <1>1, LengthType DEF DivCeil
<1>7. DivCeil(N) <= L /\ up \in [1..read -> 1..L]
  BY DEF Shape, Leaves, Typed
<1>8. \A c \in 1..read : up[c] > DivCeil(N) /\ fst[up[c]] < c /\ c <= fst[up[c]] + nodes[up[c]].count
  BY DEF Shape, Parents
<1> HIDE DEF L, m
<1>9. ASSUME NEW c \in 1..(read + m)
      PROVE  /\ up2[c] > DivCeil(N)
             /\ fst2[up2[c]] < c /\ c <= fst2[up2[c]] + nodes'[up2[c]].count
  <2>1. CASE c \in 1..read
    <3>1. up2[c] = up[c] /\ up[c] \in 1..L
      BY <1>4, <1>7, <2>1
    <3>2. fst2[up[c]] = fst[up[c]] /\ nodes'[up[c]] = nodes[up[c]]
      BY <1>1, <1>3, <3>1
    <3> QED BY <1>8, <2>1, <3>1, <3>2
  <2>2. CASE c \notin 1..read
    <3>1. c - read \in 1..m /\ read + (c - read) = c
      BY <1>5, <2>2
    <3>2. up2[c] = q
      BY <1>4, <3>1
    <3>3. read < c /\ c <= read + m /\ q > DivCeil(N)
      BY <1>1, <1>5, <1>6, <1>7, <3>1
    <3> HIDE DEF q
    <3> QED BY <1>2, <1>4, <3>2, <3>3
  <2> QED BY <2>1, <2>2
<1> QED BY <1>1, <1>6, <1>9 DEF Parents

LEMMA WriteLevels ==
  ASSUME Basics, CountsOK, LeavesWritten, Progress, NEW ht, NEW lo, NEW hi, NEW fst, NEW up,
         Shape(ht, lo, hi, fst, up), WriteInternal,
         NEW ht2, NEW lo2, NEW hi2, NEW fst2, NEW up2,
         Extends(ht, lo, hi, fst, up, ht2, lo2, hi2, fst2, up2)
  PROVE  Progress' /\ LevelRead(ht2, lo2, hi2)' /\ LevelWritten(ht2, lo2, hi2)'
<1> DEFINE L == Len(nodes)
           m == Children
           b == Base
           w == Width
           u == Written
           size == packed * Fan
           first == lo[read + 1]
<1>1. /\ level < Len(counts) /\ L \in Nat /\ Len(nodes') = L + 1 /\ read' = read + m /\ N' = N
      /\ counts' = counts
      /\ IF taken + m < w
           THEN taken' = taken + m /\ level' = level /\ packed' = packed
           ELSE taken' = 0 /\ level' = level + 1 /\ packed' = size
  BY WriteParts
<1>2. /\ counts[level + 1] = w /\ w \in Nat \ {0}
      /\ m \in 1..Fan /\ m \in Nat \ {0} /\ taken + m <= w
      /\ taken + m < w => m = Fan
      /\ read + m <= L
  BY <1>1, NextChildren
<1>3. /\ taken + m < w => lo[read + m + 1] = hi[read + m] + 1
      /\ taken + m = w => hi[read + m] = N
  BY <1>1, NextChildren
<1>4. first = FirstEntry(taken + 1, packed) /\ first \in Nat /\ 1 <= first
  <2>1. 1 \in 1..m
    BY <1>2
  <2> QED BY <1>1, <2>1, NextChildren
<1>5. /\ level \in 1..Len(counts) /\ counts \in Seq(Nat) /\ packed \in Nat \ {0}
      /\ read \in Nat /\ taken \in Nat /\ taken <= read /\ taken < w
      /\ u \in Nat
  BY DEF Progress, CountsOK
<1>20. taken = u * Fan
  BY DEF Progress
<1>6. Fan \in Nat \ {0} /\ Fan' = Fan
  BY FanType DEF Fan
<1>7. size \in Nat \ {0} /\ taken * packed = u * size
  <2>1. Fan * packed = packed * Fan /\ size \in Nat
    BY <1>5, <1>6
  <2>2. (u * Fan) * packed = u * (Fan * packed)
    BY <1>5, <1>6, Times
  <2>3. size # 0
    <3>1. (packed - 1) + 1 = packed /\ packed - 1 \in Nat
      BY <1>5
    <3>2. ((packed - 1) + 1) * Fan = (packed - 1) * Fan + Fan /\ (packed - 1) * Fan \in Nat
      BY <1>6, <3>1, Times
    <3> QED BY <1>6, <3>1, <3>2
  <2> QED BY <1>5, <1>20, <2>1, <2>2, <2>3
<1>8. first = FirstEntry(u + 1, size)
  <2>1. (taken + 1) - 1 = taken /\ (u + 1) - 1 = u
    BY <1>5
  <2> HIDE DEF size, first
  <2>2. FirstEntry(taken + 1, packed) = taken * packed + 1 /\ FirstEntry(u + 1, size) = u * size + 1
    BY <2>1 DEF FirstEntry
  <2> QED BY <1>4, <1>7, <2>2
<1>9. /\ \A p \in 1..L : ht2[p] = ht[p] /\ lo2[p] = lo[p] /\ hi2[p] = hi[p]
      /\ ht2[L + 1] = level + 1 /\ lo2[L + 1] = first /\ hi2[L + 1] = hi[read + m]
  BY DEF Extends, Agree
<1>10. b \in Nat /\ b + taken = read /\ b + w + u = L
  <2> HIDE DEF w
  <2>1. u = L - b - w
    BY DEF Written, w
  <2>2. b = read - taken
    BY DEF Base
  <2> HIDE DEF b, u, L
  <2> QED BY <1>1, <1>2, <1>5, <2>1, <2>2
<1>11. Chain(ht, lo, hi, b, w, level, packed, N)
  BY DEF Shape, LevelRead
<1>12. Chain(ht, lo, hi, b + w, u, level + 1, size, first - 1)
  BY DEF Shape, LevelWritten
<1>13. Width' = (IF taken + m < w THEN w ELSE DivCeil(w)) /\ DivCeil(N)' = DivCeil(N)
  BY <1>1, <1>2 DEF Width, DivCeil
<1>14. Base' = read' - taken' /\ Written' = (L + 1) - Base' - Width'
  BY <1>1 DEF Base, Written
<1> HIDE DEF L, m, b, w, u, size, first
<1>15. Chain(ht2, lo2, hi2, b, w, level, packed, N)
  <2>1. Agree(b + w, ht, lo, hi, ht2, lo2, hi2)
    <3>1. \A p \in 1..(b + w) : p \in 1..L
      BY <1>1, <1>2, <1>5, <1>10
    <3> QED BY <1>9, <3>1 DEF Agree
  <2> QED BY <1>2, <1>10, <1>11, <2>1, SameChain
<1>16. Chain(ht2, lo2, hi2, b + w, u + 1, level + 1, size, hi[read + m])
  <2>1. b + w \in Nat /\ b + w + u + 1 = L + 1 /\ (first - 1) + 1 = first
    BY <1>2, <1>4, <1>5, <1>10
  <2>2. Agree(b + w + u, ht, lo, hi, ht2, lo2, hi2)
    BY <1>9, <1>10 DEF Agree
  <2> QED BY <1>5, <1>8, <1>9, <1>12, <2>1, <2>2, LongerChain
<1>17. (u + 1) * Fan = u * Fan + Fan /\ u * Fan \in Nat
  BY <1>5, <1>6, Times
<1>18. CASE taken + m < w
  <2>1. /\ taken' = taken + m /\ level' = level /\ packed' = packed /\ read' = read + m /\ m = Fan
        /\ Width' = w
    BY <1>1, <1>2, <1>13, <1>18
  <2>2. Base' = b
    BY <1>2, <1>5, <1>10, <1>14, <2>1
  <2>3. Written' = u + 1
    BY <1>1, <1>2, <1>5, <1>10, <1>14, <2>1, <2>2
  <2>4. taken' = (u + 1) * Fan
    BY <1>5, <1>17, <1>20, <2>1
  <2>5. Progress'
    <3>1. /\ level' \in 1..Len(counts') /\ packed' \in Nat \ {0}
          /\ read' \in Nat /\ taken' \in Nat /\ taken' <= read' /\ taken' < Width'
      BY <1>1, <1>2, <1>5, <1>18, <2>1
    <3>2. Written' \in Nat /\ taken' = Written' * Fan'
      BY <1>5, <1>6, <2>3, <2>4
    <3> QED BY <3>1, <3>2 DEF Progress
  <2>6. LevelRead(ht2, lo2, hi2)'
    BY <1>1, <1>15, <2>1, <2>2 DEF LevelRead
  <2>7. lo2[read' + 1] - 1 = hi[read + m]
    <3>1. read + m + 1 \in 1..L
      <4>1. L \in Nat
        BY <1>1
      <4>2. b \in Nat /\ b + taken = read /\ b + w + u = L /\ u \in Nat /\ w \in Nat /\ taken \in Nat
        BY <1>2, <1>5, <1>10
      <4>3. m \in Nat /\ taken + m < w
        BY <1>2, <1>18
      <4> QED BY <4>1, <4>2, <4>3
    <3>2. hi[read + m] \in Nat
      <4>1. read + m \in 1..L
        BY <1>2, <1>5, <3>1
      <4> QED BY <4>1 DEF Shape, Typed, L
    <3>3. lo2[read + m + 1] = hi[read + m] + 1
      BY <1>3, <1>9, <1>18, <3>1
    <3> QED BY <1>1, <3>2, <3>3
  <2>8. LevelWritten(ht2, lo2, hi2)'
    <3>1. packed' * Fan' = size
      BY <1>6, <2>1 DEF size
    <3> QED BY <1>16, <2>1, <2>2, <2>3, <2>7, <3>1 DEF LevelWritten
  <2> QED BY <2>5, <2>6, <2>8
<1>19. CASE ~(taken + m < w)
  <2>1. /\ taken' = 0 /\ level' = level + 1 /\ packed' = size /\ read' = read + m /\ taken + m = w
        /\ Width' = DivCeil(w)
    BY <1>1, <1>2, <1>5, <1>13, <1>19
  <2>2. DivCeil(w) = u + 1
    <3>1. u + 1 \in Nat \ {0} /\ (u + 1) - 1 = u /\ m <= Fan
      BY <1>2, <1>5, <1>6
    <3> DEFINE x == u * Fan
    <3>2. x < w /\ w <= x + Fan
      <4>1. x = taken
        BY <1>20
      <4> HIDE DEF x
      <4> QED BY <1>2, <1>5, <1>6, <2>1, <3>1, <4>1
    <3>3. u * Fan < w /\ w <= (u + 1) * Fan
      BY <1>17, <3>2
    <3> QED BY <1>2, <3>1, <3>3, CeilUnique
  <2>3. Base' = b + w /\ Written' = 0
    BY <1>1, <1>2, <1>5, <1>10, <1>14, <2>1, <2>2
  <2>4. Progress'
    <3>1. /\ level' \in 1..Len(counts') /\ packed' \in Nat \ {0}
          /\ read' \in Nat /\ taken' \in Nat /\ taken' <= read' /\ taken' < Width'
      BY <1>1, <1>2, <1>5, <1>7, <2>1, <2>2
    <3>2. Written' \in Nat /\ taken' = Written' * Fan'
      BY <1>6, <2>1, <2>3
    <3> QED BY <3>1, <3>2 DEF Progress
  <2>5. LevelRead(ht2, lo2, hi2)'
    <3>1. hi[read + m] = N
      BY <1>3, <2>1
    <3> QED BY <1>1, <1>16, <2>1, <2>2, <2>3, <3>1 DEF LevelRead
  <2>6. LevelWritten(ht2, lo2, hi2)'
    <3>1. 1..0 = {} /\ 1..(0 - 1) = {} /\ ~(0 > 0)
      OBVIOUS
    <3> QED BY <2>3, <3>1 DEF LevelWritten, Chain
  <2> QED BY <2>4, <2>5, <2>6
<1> QED BY <1>18, <1>19

\* An internal node is written where the tree goes on.
LEMMA WriteShape ==
  ASSUME Basics, CountsOK, LeavesWritten, Progress, NEW ht, NEW lo, NEW hi, NEW fst, NEW up,
         Shape(ht, lo, hi, fst, up), WriteInternal
  PROVE  LeavesWritten' /\ Progress' /\ \E ht2, lo2, hi2, fst2, up2 : Shape(ht2, lo2, hi2, fst2, up2)'
<1>1. level < Len(counts)
  BY WriteParts
<1>2. PICK ht2, lo2, hi2, fst2, up2 : Extends(ht, lo, hi, fst, up, ht2, lo2, hi2, fst2, up2)
  BY <1>1, Extension
<1>3. /\ Typed(ht2, lo2, hi2, fst2, up2)' /\ Covers(lo2, hi2)' /\ Leaves(ht2, lo2, hi2)'
      /\ LeavesWritten'
  BY <1>2, WriteNodes
<1>4. Internals(ht2, lo2, hi2, fst2, up2)' /\ Parents(fst2, up2)'
  BY <1>2, WriteInternals, WriteParents
<1>5. Progress' /\ LevelRead(ht2, lo2, hi2)' /\ LevelWritten(ht2, lo2, hi2)'
  BY <1>2, WriteLevels
<1>6. Shape(ht2, lo2, hi2, fst2, up2)'
  BY <1>3, <1>4, <1>5 DEF Shape
<1> QED BY <1>3, <1>5, <1>6

-----------------------------------------------------------------------------
(* The invariant.                                                           *)

LEMMA StartFinishCounts ==
  ASSUME Basics, StartFinish, counts' = IF N = 0 THEN <<>> ELSE <<N>>
  PROVE  CountsOK' /\ N' = N
<1>1. N \in Nat /\ N' = N
  BY DEF Basics, N, StartFinish
<1>2. CASE N = 0
  <2>1. counts' = <<>>
    BY <1>2
  <2>2. <<>> \in Seq(Nat) /\ 1..Len(<<>>) = {} /\ 1..(Len(<<>>) - 1) = {}
    OBVIOUS
  <2> QED BY <1>1, <1>2, <2>1, <2>2 DEF CountsOK
<1>3. CASE N # 0
  <2> DEFINE s == <<N>>
  <2>1. s \in Seq(Nat) /\ Len(s) = 1 /\ s # <<>> /\ s[1] = N
    BY <1>1
  <2>2. counts' = s
    BY <1>3
  <2> HIDE DEF s
  <2>3. \A i \in 1..Len(s) : s[i] > 0
    BY <1>1, <1>3, <2>1
  <2>4. 1..(Len(s) - 1) = {}
    BY <2>1
  <2> QED BY <1>1, <1>3, <2>1, <2>2, <2>3, <2>4 DEF CountsOK
<1> QED BY <1>1, <1>2, <1>3

LEMMA WriteInternalBuilding ==
  ASSUME Basics, Building, WriteInternal
  PROVE  Building'
<1>1. level < Len(counts) /\ entries' = entries /\ counts' = counts /\ N' = N
  BY DEF WriteInternal, N
<1>2. N > 0
  <2>1. N \in Nat /\ Len(<<>>) = 0
    BY LengthType
  <2>2. N # 0
    BY <1>1, <2>1 DEF Building, CountsOK
  <2> QED BY <2>1, <2>2
<1>3. CountsOK /\ LeavesWritten /\ Progress
  BY <1>2 DEF Building
<1>4. PICK ht, lo, hi, fst, up : Shape(ht, lo, hi, fst, up)
  BY <1>2 DEF Building
<1>5. LeavesWritten' /\ Progress' /\ \E ht2, lo2, hi2, fst2, up2 : Shape(ht2, lo2, hi2, fst2, up2)'
  BY <1>3, <1>4, WriteShape
<1>6. CountsOK'
  BY <1>1, <1>3 DEF CountsOK, DivCeil
<1>7. Fan' = Fan
  BY DEF Fan
<1>8. (counts # <<>> => counts[Len(counts)] <= Fan)'
  BY <1>1, <1>7 DEF Building
<1>9. ~(N = 0)'
  BY <1>1, <1>2
<1> QED BY <1>5, <1>6, <1>8, <1>9 DEF Building

\* When the last level is reached there is one node of it, and it is the last.
LEMMA RootIsLast ==
  ASSUME Basics, Building, level >= Len(counts)
  PROVE  /\ N > 0 => /\ read + 1 = Len(nodes) /\ level = Len(counts) /\ Width = 1
                     /\ taken = 0 /\ Base = read
         /\ N = 0 => nodes = <<>> /\ read = 0 /\ Len(counts) = 0
<1>1. N \in Nat /\ Fan \in Nat \ {0} /\ Len(nodes) \in Nat
  BY LengthType, FanType
<1>2. CASE N > 0
  <2>1. CountsOK /\ Progress /\ (counts # <<>> => counts[Len(counts)] <= Fan)
    BY <1>2 DEF Building
  <2>2. counts # <<>> /\ counts \in Seq(Nat) /\ level \in 1..Len(counts)
    BY <1>2, <2>1 DEF CountsOK, Progress
  <2>3. level = Len(counts)
    BY <2>2
  <2>4. counts[level] \in Nat /\ counts[level] > 0 /\ counts[level] <= Fan
    BY <2>1, <2>2, <2>3 DEF CountsOK
  <2>5. 1 = DivCeil(counts[level])
    <3>1. counts[level] \in Nat \ {0}
      BY <2>4
    <3>2. (1 - 1) * Fan = 0 /\ 1 * Fan = Fan
      BY <1>1
    <3>3. (1 - 1) * Fan < counts[level] /\ counts[level] <= 1 * Fan
      BY <2>4, <3>2
    <3> QED BY <3>1, <3>3, CeilUnique
  <2>6. Width = 1
    BY <2>5 DEF Width
  <2>7. taken = 0 /\ Written \in Nat /\ taken = Written * Fan /\ read \in Nat
    BY <2>1, <2>6 DEF Progress
  <2>8. Written = 0
    <3>1. ASSUME Written # 0 PROVE FALSE
      <4>1. 1 <= Written
        BY <2>7, <3>1
      <4>2. 1 * Fan <= Written * Fan /\ 1 * Fan = Fan
        BY <1>1, <2>7, <4>1, Times
      <4> QED BY <1>1, <2>7, <4>2
    <3> QED BY <3>1
  <2>9. Base = read
    BY <2>7 DEF Base
  <2>10. Len(nodes) - read - 1 = 0
    BY <2>6, <2>8, <2>9 DEF Written
  <2> QED BY <1>1, <1>2, <2>3, <2>6, <2>7, <2>9, <2>10
<1>3. CASE N = 0
  <2>1. Len(<<>>) = 0
    OBVIOUS
  <2> QED BY <1>3, <2>1 DEF Building, CountsOK
<1> QED BY <1>1, <1>2, <1>3

\* What the steps that write no node leave as it is.
LEMMA BuildingStays ==
  ASSUME Building, UNCHANGED <<entries, nodes, counts, level, taken, read, packed>>
  PROVE  Building'
<1>1. /\ entries' = entries /\ nodes' = nodes /\ counts' = counts /\ level' = level /\ taken' = taken
      /\ read' = read /\ packed' = packed
  OBVIOUS
<1>2. N' = N /\ Fan' = Fan /\ \A n : DivCeil(n)' = DivCeil(n)
  BY <1>1 DEF N, Fan, DivCeil
<1>3. Base' = Base /\ Width' = Width /\ Written' = Written
  BY <1>1 DEF Base, Width, Written, DivCeil
<1>4. CountsOK'
  BY <1>1, <1>2 DEF Building, CountsOK, DivCeil
<1>5. LeavesWritten'
  <2>1. \A p : FileLeaf(p, N)' = FileLeaf(p, N)
    BY <1>2 DEF FileLeaf, EndOf
  <2>2. DivCeil(N)' = DivCeil(N)
    BY <1>2 DEF DivCeil
  <2> QED BY <1>1, <2>1, <2>2 DEF Building, LeavesWritten
<1>6. N > 0 => Progress'
  BY <1>1, <1>2, <1>3 DEF Building, Progress
<1>7. ASSUME NEW ht, NEW lo, NEW hi, NEW fst, NEW up, Shape(ht, lo, hi, fst, up)
      PROVE  Shape(ht, lo, hi, fst, up)'
  <2>1. Typed(ht, lo, hi, fst, up)'
    BY <1>1, <1>7 DEF Shape, Typed
  <2>2. Covers(lo, hi)'
    BY <1>1, <1>2, <1>7 DEF Shape, Covers
  <2>3. DivCeil(N)' = DivCeil(N)
    BY <1>2 DEF DivCeil
  <2>4. Leaves(ht, lo, hi)'
    <3>1. \A p : EndOf(p, N)' = EndOf(p, N)
      BY <1>2 DEF EndOf
    <3> QED BY <1>1, <1>2, <1>7, <2>3, <3>1 DEF Shape, Leaves
  <2>5. Internals(ht, lo, hi, fst, up)'
    <3>1. ASSUME NEW p \in (DivCeil(N) + 1)..Len(nodes) PROVE InternalAt(ht, lo, hi, fst, up, p)'
      <4>1. InternalAt(ht, lo, hi, fst, up, p)
        BY <1>7 DEF Shape, Internals
      <4>2. NodeOver(lo, hi, fst[p], nodes[p].count)' = NodeOver(lo, hi, fst[p], nodes[p].count)
        BY <1>1 DEF NodeOver
      <4> QED BY <1>1, <1>2, <4>1, <4>2 DEF InternalAt
    <3> QED BY <1>1, <2>3, <3>1 DEF Internals
  <2>6. Parents(fst, up)'
    BY <1>1, <1>7, <2>3 DEF Shape, Parents
  <2>7. LevelRead(ht, lo, hi)'
    BY <1>1, <1>2, <1>3, <1>7 DEF Shape, LevelRead
  <2>8. LevelWritten(ht, lo, hi)'
    BY <1>1, <1>2, <1>3, <1>7 DEF Shape, LevelWritten
  <2> QED BY <2>1, <2>2, <2>4, <2>5, <2>6, <2>7, <2>8 DEF Shape
<1>8. N > 0 => \E ht, lo, hi, fst, up : Shape(ht, lo, hi, fst, up)'
  BY <1>7 DEF Building
<1> QED BY <1>1, <1>2, <1>4, <1>5, <1>6, <1>8 DEF Building

LEMMA WriteFooterDone ==
  ASSUME Basics, Building, WriteFooter
  PROVE  /\ Building' /\ Basics' /\ level' >= Len(counts')
         /\ footer' = [root |-> Len(nodes') + (IF N' = 0 THEN 1 ELSE 0), height |-> Len(counts'),
                       count |-> N']
<1>1. /\ level >= Len(counts) /\ pc' = "done"
      /\ footer' = [root |-> read + 1, height |-> Len(counts), count |-> N]
      /\ UNCHANGED <<entries, leaf, nodes, counts, level, taken, read, packed>>
  BY DEF WriteFooter, N
<1>2. N' = N /\ N \in Nat /\ Len(nodes) \in Nat
  BY <1>1, LengthType DEF N
<1>3. read + 1 = Len(nodes) + (IF N = 0 THEN 1 ELSE 0)
  <2>1. CASE N = 0
    <3>1. nodes = <<>> /\ read = 0 /\ Len(<<>>) = 0
      BY <1>1, <2>1, RootIsLast
    <3>2. read + 1 = 1 /\ Len(nodes) + 1 = 1
      BY <3>1
    <3> QED BY <2>1, <3>2
  <2>2. CASE N # 0
    <3>1. N > 0
      BY <1>2, <2>2
    <3> QED BY <1>1, <1>2, <2>2, <3>1, RootIsLast
  <2> QED BY <2>1, <2>2
<1>4. Building'
  BY <1>1, BuildingStays
<1>5. Basics'
  BY <1>1 DEF Basics, Sorted, N
<1> QED BY <1>1, <1>2, <1>3, <1>4, <1>5

LEMMA TreeInvInit == Init => TreeInv
<1> SUFFICES ASSUME Init PROVE TreeInv
  OBVIOUS
<1>1. Basics /\ Adding /\ pc = "adding"
  BY InitTree DEF Init
<1> QED BY <1>1 DEF TreeInv

LEMMA TreeInvNext ==
  ASSUME MaxNodeChildren < NodeLimit, TreeInv, [Next]_vars
  PROVE  TreeInv'
<1>1. Basics
  BY DEF TreeInv
<1>2. ASSUME NEW key \in Keys, Add(key) PROVE TreeInv'
  <2>1. Adding /\ pc' = "adding"
    BY <1>2 DEF TreeInv, Add
  <2>2. Basics' /\ Adding'
    BY <1>1, <1>2, <2>1, AddBasics, AddAdding
  <2> QED BY <2>1, <2>2 DEF TreeInv
<1>3. ASSUME StartFinish PROVE TreeInv'
  <2>1. Adding /\ pc' = "counting"
    BY <1>3 DEF TreeInv, StartFinish
  <2>2. /\ Basics' /\ LeavesWritten' /\ Len(nodes') = DivCeil(N)
        /\ counts' = IF N = 0 THEN <<>> ELSE <<N>>
        /\ level' = 1 /\ taken' = 0 /\ read' = 0 /\ packed' = Fan
    BY <1>1, <1>3, <2>1, StartFinishLeaves
  <2>3. CountsOK' /\ N' = N
    BY <1>1, <1>3, <2>2, StartFinishCounts
  <2>4. DivCeil(N)' = DivCeil(N) /\ Fan' = Fan
    BY <2>3 DEF DivCeil, Fan
  <2> QED BY <2>1, <2>2, <2>3, <2>4 DEF TreeInv
<1>4. ASSUME CountLevel PROVE TreeInv'
  <2>1. /\ pc = "counting" /\ CountsOK /\ LeavesWritten /\ Len(nodes) = DivCeil(N)
        /\ level = 1 /\ taken = 0 /\ read = 0 /\ packed = Fan
    BY <1>4 DEF TreeInv, CountLevel
  <2>2. UNCHANGED <<entries, leaf, nodes, level, taken, read, packed, footer, pc>>
    BY <1>4 DEF CountLevel
  <2>3. CountsOK'
    BY <1>1, <1>4, <2>1, CountLevelStep
  <2>4. Basics'
    BY <1>1, <2>2 DEF Basics, Sorted, N
  <2>5. LeavesWritten' /\ (Len(nodes) = DivCeil(N))' /\ (packed = Fan)'
    BY <2>1, <2>2 DEF LeavesWritten, DivCeil, FileLeaf, EndOf, N, Fan
  <2> QED BY <2>1, <2>2, <2>3, <2>4, <2>5 DEF TreeInv
<1>5. ASSUME StopCounting PROVE TreeInv'
  <2>1. /\ CountsOK /\ LeavesWritten /\ Len(nodes) = DivCeil(N)
        /\ level = 1 /\ taken = 0 /\ read = 0 /\ packed = Fan
    BY <1>5 DEF TreeInv, StopCounting
  <2>2. /\ ~TooMany /\ pc' = "building"
        /\ UNCHANGED <<entries, leaf, nodes, counts, level, taken, read, packed, footer>>
    BY <1>5 DEF StopCounting
  <2>3. Building
    BY <1>1, <2>1, <2>2, StopCountingShape
  <2>4. Building'
    BY <2>2, <2>3, BuildingStays
  <2>5. Basics'
    BY <1>1, <2>2 DEF Basics, Sorted, N
  <2> QED BY <2>2, <2>4, <2>5 DEF TreeInv
<1>6. ASSUME WriteInternal PROVE TreeInv'
  <2>1. Building /\ pc = "building" /\ pc' = pc
    BY <1>6 DEF TreeInv, WriteInternal
  <2>2. Building'
    BY <1>1, <1>6, <2>1, WriteInternalBuilding
  <2>3. IsSeq(nodes')
    <3>1. nodes' = Append(nodes, InternalNode(Children))
      BY <1>6 DEF WriteInternal
    <3> QED BY <1>1, <3>1, AppendSeq DEF Basics
  <2>4. entries' = entries /\ leaf' = leaf
    BY <1>6 DEF WriteInternal
  <2>5. Basics'
    BY <1>1, <2>1, <2>3, <2>4 DEF Basics, Sorted, N
  <2> QED BY <2>1, <2>2, <2>5 DEF TreeInv
<1>7. ASSUME WriteFooter PROVE TreeInv'
  <2>1. Building /\ pc' = "done"
    BY <1>7 DEF TreeInv, WriteFooter
  <2>2. /\ Building' /\ Basics' /\ level' >= Len(counts')
        /\ footer' = [root |-> Len(nodes') + (IF N' = 0 THEN 1 ELSE 0), height |-> Len(counts'),
                      count |-> N']
    BY <1>1, <1>7, <2>1, WriteFooterDone
  <2> QED BY <2>1, <2>2 DEF TreeInv
<1>8. ASSUME UNCHANGED vars PROVE TreeInv'
  <2>1. UNCHANGED <<entries, leaf, nodes, counts, level, taken, read, packed, footer, pc>>
    BY <1>8 DEF vars
  <2>2. N' = N /\ Fan' = Fan /\ DivCeil(N)' = DivCeil(N)
    BY <2>1 DEF N, Fan, DivCeil
  <2>3. \A p : FileLeaf(p, N)' = FileLeaf(p, N)
    BY <2>2 DEF FileLeaf, EndOf
  <2>4. Basics'
    BY <1>1, <2>1 DEF Basics, Sorted, N
  <2>5. Adding => Adding'
    BY <2>1, <2>2, <2>3 DEF Adding
  <2>6. CountsOK => CountsOK'
    BY <2>1, <2>2 DEF CountsOK, DivCeil
  <2>7. LeavesWritten => LeavesWritten'
    BY <2>1, <2>2, <2>3 DEF LeavesWritten
  <2>8. Building => Building'
    BY <2>1, BuildingStays
  <2> QED BY <2>1, <2>2, <2>4, <2>5, <2>6, <2>7, <2>8 DEF TreeInv
<1> QED BY <1>2, <1>3, <1>4, <1>5, <1>6, <1>7, <1>8 DEF Next, Finish

\* The tree has its shape in every state, while it is written and after: the
\* nodes of every level cover the entries in order and without gaps.
THEOREM TreeHasShape == ASSUME MaxNodeChildren < NodeLimit PROVE Spec => []TreeInv
<1>1. TreeInv /\ [Next]_vars => TreeInv'
  BY TreeInvNext
<1> QED BY TreeInvInit, <1>1, PTL DEF Spec

-----------------------------------------------------------------------------
(* The tree of a finished file.                                             *)

Tree(ht, lo, hi, fst, up) ==
  /\ N > 0 /\ Basics /\ LeavesWritten /\ Shape(ht, lo, hi, fst, up)
  /\ footer.root = Len(nodes) /\ footer.count = N /\ read = Len(nodes) - 1
  /\ Len(nodes) \in Nat \ {0} /\ Height \in Nat \ {0}
  /\ ht[Len(nodes)] = Height /\ lo[Len(nodes)] = 1 /\ hi[Len(nodes)] = N

LEMMA DoneTree ==
  ASSUME TreeInv, Done
  PROVE  /\ N \in Nat /\ Len(nodes) \in Nat /\ footer.count = N /\ Basics
         /\ N = 0 => Height = 0
         /\ N > 0 => \E ht, lo, hi, fst, up : Tree(ht, lo, hi, fst, up)
<1>1. /\ Basics /\ Building /\ level >= Len(counts)
      /\ footer = [root |-> Len(nodes) + (IF N = 0 THEN 1 ELSE 0), height |-> Len(counts), count |-> N]
  BY DEF TreeInv, Done
<1>2. N \in Nat /\ Len(nodes) \in Nat
  BY <1>1, LengthType
<1>3. Height = Len(counts) /\ footer.count = N
  BY <1>1 DEF Height
<1>4. N = 0 => Height = 0
  BY <1>1, <1>3, RootIsLast
<1>5. ASSUME N > 0 PROVE \E ht, lo, hi, fst, up : Tree(ht, lo, hi, fst, up)
  <2>1. read + 1 = Len(nodes) /\ level = Len(counts) /\ Width = 1 /\ taken = 0 /\ Base = read
    BY <1>1, <1>5, RootIsLast
  <2>2. CountsOK /\ LeavesWritten /\ Progress
    BY <1>1, <1>5 DEF Building
  <2>3. PICK ht, lo, hi, fst, up : Shape(ht, lo, hi, fst, up)
    BY <1>1, <1>5 DEF Building
  <2>4. Height \in Nat \ {0} /\ read \in Nat /\ packed \in Nat
    <3>1. level \in 1..Len(counts) /\ counts \in Seq(Nat) /\ read \in Nat /\ packed \in Nat
      BY <2>2 DEF Progress, CountsOK
    <3>2. level \in Nat \ {0}
      BY <3>1
    <3> QED BY <1>3, <2>1, <3>1, <3>2
  <2>5. /\ ht[read + 1] = level /\ lo[read + 1] = FirstEntry(1, packed) /\ hi[read + 1] = N
    <3>1. Chain(ht, lo, hi, read, 1, level, packed, N) /\ 1 \in 1..1 /\ 1 > 0
      BY <2>1, <2>3 DEF Shape, LevelRead
    <3> QED BY <3>1 DEF Chain
  <2>6. FirstEntry(1, packed) = 1
    <3>1. (1 - 1) * packed = 0
      BY <2>4
    <3> QED BY <3>1 DEF FirstEntry
  <2>7. footer.root = Len(nodes)
    <3>1. footer.root = Len(nodes) + 0
      BY <1>1, <1>5
    <3> QED BY <1>2, <3>1
  <2>8. read = Len(nodes) - 1 /\ Len(nodes) \in Nat \ {0}
    BY <1>2, <2>1, <2>4
  <2>9. Tree(ht, lo, hi, fst, up)
    BY <1>1, <1>3, <1>5, <2>1, <2>2, <2>3, <2>4, <2>5, <2>6, <2>7, <2>8 DEF Tree
  <2> QED BY <2>9
<1> QED BY <1>1, <1>2, <1>3, <1>4, <1>5

\* A leaf: it holds the entries it covers.
LEMMA AtLeaf ==
  ASSUME NEW ht, NEW lo, NEW hi, NEW fst, NEW up, Tree(ht, lo, hi, fst, up),
         NEW p \in 1..Len(nodes), ht[p] = 1
  PROVE  /\ p \in 1..DivCeil(N) /\ IsLeaf(p) /\ lo[p] \in Nat /\ hi[p] \in Nat
         /\ 1 <= lo[p] /\ lo[p] <= hi[p] /\ hi[p] <= N
         /\ nodes[p].count = hi[p] - lo[p] + 1
         /\ \A k \in 1..(hi[p] - lo[p] + 1) : nodes[p].entries[k] = lo[p] + k - 1
<1>1. Basics /\ LeavesWritten /\ Shape(ht, lo, hi, fst, up)
  BY DEF Tree
<1>2. DivCeil(N) \in Nat /\ Len(nodes) \in Nat
  BY <1>1, LengthType
<1>3. ~(p > DivCeil(N))
  BY <1>1, InnerHolds DEF Inner
<1>4. p \in 1..DivCeil(N)
  BY <1>2, <1>3
<1>5. /\ lo[p] \in Nat /\ hi[p] \in Nat
      /\ 1 <= lo[p] /\ lo[p] <= hi[p] /\ hi[p] <= N
  BY <1>1, <1>4, LeafFacts
<1>9. nodes[p].count = hi[p] - lo[p] + 1 /\ "entries" \in DOMAIN nodes[p]
  BY <1>1, <1>4, LeafFacts
<1>10. \A k \in 1..(hi[p] - lo[p] + 1) : nodes[p].entries[k] = lo[p] + k - 1
  BY <1>1, <1>4, LeafFacts
<1>6. p \in DOMAIN nodes
  BY <1>1, AppendSeq DEF Basics
<1>8. IsLeaf(p)
  BY <1>6, <1>9 DEF IsLeaf
<1> QED BY <1>4, <1>5, <1>8, <1>9, <1>10

\* A node above the leaves: its children share out the entries it covers.
LEMMA AtInternal ==
  ASSUME NEW ht, NEW lo, NEW hi, NEW fst, NEW up, Tree(ht, lo, hi, fst, up),
         NEW p \in 1..Len(nodes), ht[p] # 1
  PROVE  p > DivCeil(N) /\ ~IsLeaf(p) /\ DOMAIN nodes[p].children = 1..nodes[p].count
<1>1. Basics /\ LeavesWritten /\ Shape(ht, lo, hi, fst, up)
  BY DEF Tree
<1>2. DivCeil(N) \in Nat /\ Len(nodes) \in Nat
  BY <1>1, LengthType
<1>3. p \notin 1..DivCeil(N)
  BY <1>1 DEF Shape, Leaves
<1>4. p > DivCeil(N) /\ p \in (DivCeil(N) + 1)..Len(nodes)
  BY <1>2, <1>3
<1>5. nodes[p] = NodeOver(lo, hi, fst[p], nodes[p].count)
  BY <1>1, <1>4 DEF Shape, Internals, InternalAt
<1> DEFINE n == nodes[p].count
<1> HIDE DEF n
<1>6. nodes[p] = NodeOver(lo, hi, fst[p], n)
  BY <1>5 DEF n
<1>7. DOMAIN nodes[p] = {"count", "left", "children"} /\ DOMAIN nodes[p].children = 1..n
  BY <1>6 DEF NodeOver
<1>8. ~IsLeaf(p)
  BY <1>7 DEF IsLeaf
<1> QED BY <1>4, <1>7, <1>8 DEF n

-----------------------------------------------------------------------------
(* Every node has one parent.                                               *)

LEMMA OneParent ==
  ASSUME NEW ht, NEW lo, NEW hi, NEW fst, NEW up, Tree(ht, lo, hi, fst, up),
         NEW c \in 1..(Len(nodes) - 1)
  PROVE  LET internal == {p \in DOMAIN nodes : ~IsLeaf(p)}
             links == UNION {{<<p, i>> : i \in DOMAIN nodes[p].children} : p \in internal}
         IN  Cardinality({l \in links : nodes[l[1]].children[l[2]].offset = c}) = 1
<1> DEFINE internal == {p \in DOMAIN nodes : ~IsLeaf(p)}
           links == UNION {{<<p, i>> : i \in DOMAIN nodes[p].children} : p \in internal}
           over == {l \in links : nodes[l[1]].children[l[2]].offset = c}
           q == up[c]
           j == c - fst[q]
<1>1. /\ Basics /\ LeavesWritten /\ Shape(ht, lo, hi, fst, up) /\ read = Len(nodes) - 1
      /\ Len(nodes) \in Nat
  BY DEF Tree
<1>2. DOMAIN nodes = 1..Len(nodes) /\ DivCeil(N) \in Nat
  BY <1>1, AppendSeq, LengthType DEF Basics
<1>3. c \in 1..read /\ c \in Nat
  BY <1>1
<1>4. q \in 1..Len(nodes) /\ q > DivCeil(N) /\ fst[q] < c /\ c <= fst[q] + nodes[q].count
  BY <1>1, <1>3 DEF Shape, Typed, Parents
<1> HIDE DEF q
<1>5. \A p \in internal : p \in 1..Len(nodes) /\ p > DivCeil(N) /\ DOMAIN nodes[p].children = 1..nodes[p].count
  <2> SUFFICES ASSUME NEW p \in internal
               PROVE  p \in 1..Len(nodes) /\ p > DivCeil(N) /\ DOMAIN nodes[p].children = 1..nodes[p].count
    OBVIOUS
  <2>1. p \in 1..Len(nodes) /\ ~IsLeaf(p)
    BY <1>2
  <2>2. ht[p] # 1
    BY <2>1, AtLeaf
  <2> QED BY <2>1, <2>2, AtInternal
<1>6. ASSUME NEW p \in internal, NEW i \in DOMAIN nodes[p].children, nodes[p].children[i].offset = c
      PROVE  p = q /\ i = j
  <2>1. p \in 1..Len(nodes) /\ p > DivCeil(N) /\ i \in 1..nodes[p].count
    BY <1>5
  <2>2. fst[p] \in Nat /\ nodes[p].children[i].offset = fst[p] + i /\ up[fst[p] + i] = p
    BY <1>1, <2>1, InnerHolds DEF Inner
  <2>3. nodes[p].count \in Nat
    BY <1>1, <2>1, InnerHolds DEF Inner
  <2>4. c = fst[p] + i /\ p = q
    BY <1>6, <2>2 DEF q
  <2> QED BY <2>1, <2>2, <2>3, <2>4
<1>7. q \in internal /\ j \in DOMAIN nodes[q].children /\ nodes[q].children[j].offset = c
  <2>1. nodes[q].count \in Nat \ {0} /\ fst[q] \in Nat /\ ht[q] > 1
    BY <1>1, <1>4, InnerHolds DEF Inner
  <2>2. ht[q] # 1
    BY <2>1
  <2>3. ~IsLeaf(q) /\ DOMAIN nodes[q].children = 1..nodes[q].count
    BY <1>4, <2>2, AtInternal
  <2>4. j \in 1..nodes[q].count /\ fst[q] + j = c
    BY <1>3, <1>4, <2>1
  <2>5. \A i \in 1..nodes[q].count : nodes[q].children[i].offset = fst[q] + i
    BY <1>1, <1>4, InnerHolds DEF Inner
  <2>6. nodes[q].children[j].offset = fst[q] + j
    BY <2>4, <2>5
  <2> QED BY <1>2, <1>4, <2>3, <2>4, <2>6
<1> HIDE DEF internal, j
<1>8. over = {<<q, j>>}
  <2>1. <<q, j>> \in over
    BY <1>7
  <2>2. \A l \in over : l = <<q, j>>
    BY <1>6
  <2> QED BY <2>1, <2>2
<1>9. Cardinality({<<q, j>>}) = 1
  BY FS_Singleton
<1> HIDE DEF over
<1> QED BY <1>8, <1>9 DEF over, internal

\* In a finished file every node but the root is a child of one node, and while
\* the internal nodes are written their children have been written before.
LEMMA OneParentState == ASSUME TreeInv PROVE EveryNodeHasOneParent
<1>1. ASSUME pc = "building", level < Len(counts) PROVE read + Children <= Len(nodes)
  <2>1. Basics /\ Building
    BY <1>1 DEF TreeInv
  <2>2. N > 0
    <3>1. N \in Nat /\ Len(<<>>) = 0
      BY <2>1, LengthType
    <3>2. N = 0 => Len(counts) = 0 /\ level = 1
      BY <2>1, <3>1 DEF Building, CountsOK
    <3>3. N # 0
      BY <1>1, <3>2
    <3> QED BY <3>1, <3>3
  <2>3. CountsOK /\ Progress
    BY <2>1, <2>2 DEF Building
  <2>4. PICK ht, lo, hi, fst, up : Shape(ht, lo, hi, fst, up)
    BY <2>1, <2>2 DEF Building
  <2> QED BY <1>1, <2>1, <2>3, <2>4, NextChildren
<1>2. ASSUME Done, Height > 0
      PROVE  LET internal == {p \in DOMAIN nodes : ~IsLeaf(p)}
                 links == UNION {{<<p, i>> : i \in DOMAIN nodes[p].children} : p \in internal}
             IN  /\ footer.root = Len(nodes)
                 /\ \A p \in 1..(Len(nodes) - 1) :
                      Cardinality({l \in links : nodes[l[1]].children[l[2]].offset = p}) = 1
  <2>1. N > 0
    BY <1>2, DoneTree
  <2>2. PICK ht, lo, hi, fst, up : Tree(ht, lo, hi, fst, up)
    BY <1>2, <2>1, DoneTree
  <2>3. footer.root = Len(nodes)
    BY <2>2 DEF Tree
  <2> QED BY <2>2, <2>3, OneParent
<1> QED BY <1>1, <1>2 DEF EveryNodeHasOneParent

\* Every node of a finished file but the root is a child of exactly one node.
THEOREM NodesHaveOneParent ==
  ASSUME MaxNodeChildren < NodeLimit PROVE Spec => []EveryNodeHasOneParent
<1>1. TreeInv => EveryNodeHasOneParent
  BY OneParentState
<1> QED BY <1>1, TreeHasShape, PTL
-----------------------------------------------------------------------------
(* Why finish comes to an end: each of its loops gets on with every round.   *)

\* Each step of finish goes on to its next part; or records a smaller number of
\* nodes; or takes more children of those that are left on the level; or goes on
\* to the next of the levels there are.
FinishStep ==
  Finish =>
    \/ <<pc, pc'>> \in {<<"adding", "counting">>, <<"counting", "building">>, <<"building", "done">>}
    \/ UNCHANGED pc /\ pc = "counting" /\ Len(counts') = Len(counts) + 1 /\ Last(counts') < Last(counts)
    \/ UNCHANGED <<pc, counts, level>> /\ pc = "building" /\ taken < taken' /\ taken' < counts[level + 1]
    \/ UNCHANGED <<pc, counts>> /\ pc = "building" /\ level' = level + 1 /\ level' <= Len(counts)

\* The loop that finds the heights never comes to more of them than there are entries.
HeightsFit ==
  /\ N <= MaxEntries
  /\ pc = "counting" /\ counts # <<>> => Len(counts) + Last(counts) <= N + 1

\* One node for every two children or more is fewer than there are children.
LEMMA CeilLess ==
  ASSUME NEW n \in Nat, Fan > 1, n > Fan
  PROVE  DivCeil(n) < n
<1> DEFINE d == DivCeil(n)
           f == Fan
<1>1. d \in Nat \ {0} /\ (d - 1) * f < n /\ f \in Nat /\ f > 1
  BY Ceil, FanType
<1>2. d - 1 \in Nat /\ 2 \in Nat /\ 2 <= f
  BY <1>1
<1> HIDE DEF d, f
<1>3. (d - 1) * 2 <= (d - 1) * f
  BY <1>1, <1>2
<1>4. (d - 1) * 2 < n /\ f < n
  <2>1. (d - 1) * f \in Nat
    BY <1>1, <1>2, Times
  <2>2. f < n
    BY DEF f
  <2> QED BY <1>1, <1>3, <2>1, <2>2
<1>5. d < n
  BY <1>1, <1>2, <1>4
<1> QED BY <1>5 DEF d

LEMMA CountLevelLess ==
  ASSUME Fan > 1, CountsOK, CountLevel, Len(counts) < MaxHeight
  PROVE  /\ counts # <<>> /\ Last(counts) \in Nat /\ Last(counts') \in Nat /\ Len(counts) \in Nat
         /\ Len(counts') = Len(counts) + 1 /\ Last(counts') < Last(counts)
<1>1. counts # <<>> /\ Last(counts) > Fan /\ counts \in Seq(Nat)
  BY DEF CountLevel, TooMany, Fan, CountsOK
<1>2. Len(counts) \in Nat \ {0} /\ Last(counts) \in Nat
  BY <1>1 DEF Last
<1> DEFINE d == DivCeil(Last(counts))
<1>3. d < Last(counts) /\ d \in Nat
  BY <1>1, <1>2, FanType, CeilLess, Ceil
<1>4. counts' = Append(counts, d)
  BY DEF CountLevel
<1> HIDE DEF d
<1>5. Len(counts') = Len(counts) + 1 /\ Last(counts') = d
  BY <1>1, <1>2, <1>3, <1>4 DEF Last
<1> QED BY <1>1, <1>2, <1>3, <1>5

LEMMA HeightsStep ==
  ASSUME MaxNodeChildren > 1, TreeInv, HeightsFit, [Next]_vars
  PROVE  HeightsFit'
<1>1. N \in Nat /\ Fan > 1 /\ MaxEntries \in Nat
  BY TreeAssumption DEF TreeInv, Basics, N, Fan
<1>2. CASE \E key \in Keys : Add(key)
  <2>1. PICK key \in Keys : Add(key)
    BY <1>2
  <2>2. N' = N + 1 /\ N < MaxEntries /\ pc' = "adding"
    BY <2>1, AddBasics DEF TreeInv, Add, N
  <2> QED BY <1>1, <2>2 DEF HeightsFit
<1>3. CASE StartFinish
  <2>1. N' = N /\ counts' = IF entries = <<>> THEN <<>> ELSE <<N>>
    BY <1>3 DEF StartFinish, N
  <2>2. counts' # <<>> => Len(counts') = 1 /\ Last(counts') = N
    BY <1>1, <2>1 DEF Last
  <2> QED BY <1>1, <2>1, <2>2 DEF HeightsFit
<1>4. CASE CountLevel
  <2>1. N' = N /\ pc' = pc /\ pc = "counting" /\ CountsOK /\ counts # <<>>
    BY <1>4 DEF CountLevel, TooMany, N, TreeInv
  <2>2. CASE counts' = counts
    BY <2>1, <2>2 DEF HeightsFit, Last
  <2>3. CASE Len(counts) < MaxHeight
    BY <1>1, <1>4, <2>1, <2>3, CountLevelLess DEF HeightsFit
  <2> QED BY <1>4, <2>2, <2>3 DEF CountLevel
<1>5. CASE StopCounting \/ WriteInternal \/ WriteFooter
  <2>1. N' = N /\ pc' # "counting"
    BY <1>5 DEF StopCounting, WriteInternal, WriteFooter, N
  <2> QED BY <2>1 DEF HeightsFit
<1>6. CASE UNCHANGED vars
  BY <1>6 DEF vars, HeightsFit, N, Last
<1> QED BY <1>2, <1>3, <1>4, <1>5, <1>6 DEF Next, Finish

LEMMA WriteInternalOn ==
  ASSUME TreeInv, WriteInternal
  PROVE  \/ level' = level /\ taken < taken' /\ taken' < counts[level + 1]
         \/ level' = level + 1 /\ level' <= Len(counts)
<1>1. Building /\ level < Len(counts)
  BY DEF TreeInv, WriteInternal
<1>2. CountsOK /\ Progress
  <2>1. N # 0
    BY <1>1 DEF Building, CountsOK
  <2>2. N \in Nat
    BY DEF TreeInv, Basics, N
  <2> QED BY <1>1, <2>1, <2>2 DEF Building
<1>3. /\ level \in 1..(Len(counts) - 1) /\ counts \in Seq(Nat) /\ Len(counts) \in Nat
      /\ taken \in Nat /\ taken < counts[level + 1]
  BY <1>1, <1>2 DEF CountsOK, Progress, Width
<1>4. counts[level + 1] \in Nat
  BY <1>3
<1>5. Children \in Nat \ {0}
  BY <1>3, <1>4, TreeAssumption DEF Children
<1>6. \/ taken' = taken + Children /\ taken + Children < counts[level + 1] /\ level' = level
      \/ level' = level + 1
  BY DEF WriteInternal
<1> QED BY <1>3, <1>5, <1>6

\* Each step of finish comes nearer to its end, where a node holds two children or
\* more and the bound on the height is none: the loop over the heights records
\* smaller and smaller numbers, and the loops over the nodes never write an empty
\* one. A limit of one, for which the first loop never ends, is left out.
THEOREM FinishGoesOn ==
  ASSUME MaxNodeChildren < NodeLimit, MaxNodeChildren > 1, MaxHeight >= MaxEntries
  PROVE  Spec => [][FinishStep]_vars
<1>1. ASSUME TreeInv, HeightsFit, Next PROVE FinishStep
  <2>1. CASE StartFinish \/ StopCounting \/ WriteFooter
    BY <2>1 DEF StartFinish, StopCounting, WriteFooter, FinishStep
  <2>2. CASE CountLevel
    <3>1. CountsOK /\ counts # <<>> /\ Last(counts) > Fan /\ pc = "counting" /\ pc' = pc
      BY <1>1, <2>2 DEF TreeInv, CountLevel, TooMany, Fan
    <3>2. Len(counts) \in Nat \ {0} /\ Last(counts) \in Nat
      BY <3>1 DEF CountsOK, Last
    <3>3. Len(counts) + Last(counts) <= N + 1 /\ N <= MaxEntries /\ N \in Nat
      BY <1>1, <3>1 DEF HeightsFit, TreeInv, Basics, N
    <3>4. Fan > 1 /\ Fan \in Nat /\ MaxHeight \in Nat /\ MaxEntries \in Nat
      BY TreeAssumption DEF Fan
    <3>5. Len(counts) < MaxHeight
      BY <3>1, <3>2, <3>3, <3>4
    <3> QED BY <2>2, <3>1, <3>4, <3>5, CountLevelLess DEF FinishStep
  <2>3. CASE WriteInternal
    <3>1. pc = "building" /\ UNCHANGED <<pc, counts>>
      BY <2>3 DEF WriteInternal
    <3> QED BY <1>1, <2>3, <3>1, WriteInternalOn DEF FinishStep
  <2>4. CASE \E key \in Keys : Add(key)
    <3>1. entries' # entries /\ ~Finish
      <4>1. PICK key \in Keys : Add(key)
        BY <2>4
      <4>2. N' = N + 1 /\ N \in Nat
        BY <1>1, <4>1, AddBasics DEF TreeInv
      <4>3. entries' # entries
        BY <4>2 DEF N
      <4> QED BY <4>3 DEF Finish, StartFinish, CountLevel, StopCounting, WriteInternal, WriteFooter
    <3> QED BY <3>1 DEF FinishStep
  <2> QED BY <1>1, <2>1, <2>2, <2>3, <2>4 DEF Next, Finish
<1>2. Init => HeightsFit
  BY TreeAssumption DEF Init, HeightsFit, N
<1>3. TreeInv /\ HeightsFit /\ [Next]_vars => HeightsFit'
  BY HeightsStep
<1>4. TreeInv /\ HeightsFit /\ [Next]_vars => [FinishStep]_vars
  BY <1>1
<1> QED BY TreeHasShape, <1>2, <1>3, <1>4, PTL DEF Spec

=============================================================================
