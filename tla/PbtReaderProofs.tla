-------------------------- MODULE PbtReaderProofs ---------------------------
(* Proofs about reading a PBT file, for every number of entries and of      *)
(* children of a node: what the reader and the iterators find in the tree   *)
(* whose shape PbtTreeProofs establishes.                                   *)
EXTENDS PbtTreeProofs
-----------------------------------------------------------------------------
(* Going down a tree. A function on the heights that starts with a and goes *)
(* from a height to the one below by a step exists, and stays in sets that  *)
(* lead from one to the next.                                               *)

GoesDown(f, H, a, step) ==
  f = [h \in 1..H |-> IF h = H THEN a ELSE step[h][f[h + 1]]]

LEMMA DownStays ==
  ASSUME NEW H \in Nat, NEW S, NEW f, H > 0 => f[H] \in S[H],
         \A h \in 1..(H - 1) : f[h + 1] \in S[h + 1] => f[h] \in S[h]
  PROVE  \A h \in 1..H : f[h] \in S[h]
<1> DEFINE T == {d \in Nat : d < H /\ f[H - d] \notin S[H - d]}
<1>2. ASSUME T # {} PROVE FALSE
  <2>1. T \subseteq Nat
    OBVIOUS
  <2> HIDE DEF T
  <2>2. PICK d \in T : \A e \in T : d <= e
    BY <1>2, <2>1, LeastNumber
  <2>3. d \in Nat /\ d < H /\ f[H - d] \notin S[H - d]
    BY <2>2 DEF T
  <2>4. CASE d = 0
    <3>1. H - d = H /\ H \in 1..H /\ H > 0
      BY <2>3, <2>4
    <3> QED BY <2>3, <3>1
  <2>5. CASE d # 0
    <3>1. /\ H - d \in 1..(H - 1) /\ H - d \in 1..H /\ H - d # H
          /\ d - 1 \in Nat /\ d - 1 < H /\ ~(d <= d - 1) /\ H - (d - 1) = (H - d) + 1
      BY <2>3, <2>5
    <3>2. f[(H - d) + 1] \in S[(H - d) + 1]
      <4>1. d - 1 \notin T
        BY <2>2, <3>1
      <4> QED BY <3>1, <4>1 DEF T
    <3> QED BY <2>3, <3>1, <3>2
  <2> QED BY <2>4, <2>5
<1>3. ASSUME NEW h \in 1..H PROVE f[h] \in S[h]
  <2>1. H - h \in Nat /\ H - h < H /\ H - (H - h) = h
    OBVIOUS
  <2>2. H - h \notin T
    BY <1>2
  <2> QED BY <2>1, <2>2
<1> QED BY <1>3

LEMMA DownExists ==
  ASSUME NEW H \in Nat, NEW a, NEW step
  PROVE  \E f : GoesDown(f, H, a, step)
<1> DEFINE Upto(g, d) ==
             \A h \in 1..H : h >= H - d => g[h] = IF h = H THEN a ELSE step[h][g[h + 1]]
           T == {d \in Nat : d <= H /\ ~ \E g : DOMAIN g = 1..H /\ Upto(g, d)}
<1>1. T = {}
  <2> SUFFICES ASSUME T # {} PROVE FALSE
    OBVIOUS
  <2>1. T \subseteq Nat
    OBVIOUS
  <2> HIDE DEF T
  <2>2. PICK d \in T : \A e \in T : d <= e
    BY <2>1, LeastNumber
  <2>3. d \in Nat /\ d <= H /\ ~ \E g : DOMAIN g = 1..H /\ Upto(g, d)
    BY <2>2 DEF T
  <2>4. CASE d = 0
    <3> DEFINE g == [h \in 1..H |-> a]
    <3>1. DOMAIN g = 1..H /\ \A h \in 1..H : g[h] = a
      OBVIOUS
    <3> HIDE DEF g
    <3>2. Upto(g, d)
      BY <2>4, <3>1
    <3> QED BY <2>3, <3>1, <3>2
  <2>5. CASE d # 0
    <3>1. d - 1 \in Nat /\ d - 1 <= H /\ ~(d <= d - 1)
      BY <2>3, <2>5
    <3>2. d - 1 \notin T
      BY <2>2, <3>1
    <3>3. PICK g : DOMAIN g = 1..H /\ Upto(g, d - 1)
      BY <3>1, <3>2 DEF T
    <3> DEFINE k == H - d
               g2 == [h \in 1..H |-> IF h = k THEN step[k][g[k + 1]] ELSE g[h]]
    <3>4. k \in Nat /\ k < H
      BY <2>3, <2>5
    <3>5. DOMAIN g2 = 1..H /\ \A h \in 1..H : g2[h] = IF h = k THEN step[k][g[k + 1]] ELSE g[h]
      OBVIOUS
    <3> HIDE DEF g2
    <3>6. ASSUME NEW h \in 1..H, h >= k
          PROVE  g2[h] = IF h = H THEN a ELSE step[h][g2[h + 1]]
      <4>1. CASE h = k
        <5>1. k + 1 \in 1..H /\ k + 1 # k /\ h # H
          BY <3>4, <4>1
        <5>2. g2[k + 1] = g[k + 1]
          BY <3>5, <5>1
        <5>3. g2[k] = step[k][g[k + 1]]
          BY <3>5, <4>1
        <5> QED BY <4>1, <5>1, <5>2, <5>3
      <4>2. CASE h # k
        <5>1. h >= H - (d - 1)
          BY <2>3, <3>4, <3>6, <4>2
        <5>2. g[h] = IF h = H THEN a ELSE step[h][g[h + 1]]
          BY <3>3, <5>1
        <5>3. h # H => h + 1 \in 1..H /\ h + 1 # k
          BY <3>4, <3>6
        <5>4. g2[h] = g[h] /\ (h # H => g2[h + 1] = g[h + 1])
          BY <3>5, <4>2, <5>3
        <5> QED BY <5>2, <5>4
      <4> QED BY <4>1, <4>2
    <3>7. Upto(g2, d)
      BY <3>6
    <3> QED BY <2>3, <3>5, <3>7
  <2> QED BY <2>4, <2>5
<1>2. H \notin T
  BY <1>1
<1>3. PICK g : DOMAIN g = 1..H /\ Upto(g, H)
  BY <1>2
<1> DEFINE f == [h \in 1..H |-> g[h]]
<1>4. \A h \in 1..H : f[h] = g[h]
  OBVIOUS
<1>5. \A h \in 1..H : g[h] = IF h = H THEN a ELSE step[h][g[h + 1]]
  <2>1. \A h \in 1..H : h >= H - H
    OBVIOUS
  <2> QED BY <1>3, <2>1
<1>6. \A h \in 1..H : h # H => h + 1 \in 1..H
  OBVIOUS
<1>7. f = [h \in 1..H |-> IF h = H THEN a ELSE step[h][f[h + 1]]]
  BY <1>4, <1>5, <1>6
<1> QED BY <1>7 DEF GoesDown

LEMMA InnerNode ==
  ASSUME NEW ht, NEW lo, NEW hi, NEW fst, NEW up, Tree(ht, lo, hi, fst, up),
         NEW p \in 1..Len(nodes), ht[p] # 1
  PROVE  Inner(ht, lo, hi, fst, up, p)
<1>1. Basics /\ Shape(ht, lo, hi, fst, up) /\ p > DivCeil(N)
  BY AtInternal DEF Tree
<1> QED BY <1>1, InnerHolds

-----------------------------------------------------------------------------
(* Going down to an index.                                                  *)

LEMMA IndexBranchCovers ==
  ASSUME NEW ht, NEW lo, NEW hi, NEW fst, NEW up, Tree(ht, lo, hi, fst, up),
         NEW p \in 1..Len(nodes), ht[p] # 1,
         NEW index \in Nat, lo[p] <= index + 1, index + 1 <= hi[p]
  PROVE  LET i == IndexBranch(p, index)
             c == fst[p] + i
         IN  /\ i \in 1..nodes[p].count /\ nodes[p].children[i].offset = c
             /\ lo[c] <= index + 1 /\ index + 1 <= hi[c]
             /\ i = 1 => lo[c] = lo[p]
<1>0. Inner(ht, lo, hi, fst, up, p)
  BY InnerNode
<1> DEFINE n == nodes[p].count
           f == fst[p]
           Fits(i) == /\ i = n \/ index < nodes[p].children[i + 1].start
                      /\ \A j \in 1..(i - 1) : index >= nodes[p].children[j + 1].start
           T == {i \in 1..n : i = n \/ index < nodes[p].children[i + 1].start}
<1>1. /\ n \in Nat \ {0} /\ f \in Nat /\ lo[p] = lo[f + 1] /\ hi[p] = hi[f + n]
      /\ lo[p] \in Nat /\ hi[p] \in Nat
  BY <1>0 DEF Inner
<1>2. \A k \in 1..n : /\ lo[f + k] \in Nat /\ hi[f + k] \in Nat
                      /\ nodes[p].children[k].start = lo[f + k] - 1
                      /\ nodes[p].children[k].offset = f + k
  BY <1>0 DEF Inner
<1>3. \A k \in 1..(n - 1) : lo[f + k + 1] = hi[f + k] + 1
  BY <1>0 DEF Inner
<1> HIDE DEF n, f
<1>4. \A k \in 1..(n - 1) : /\ k + 1 \in 1..n /\ k \in 1..n
                            /\ nodes[p].children[k + 1].start = hi[f + k] /\ hi[f + k] \in Nat
                            /\ lo[f + (k + 1)] = hi[f + k] + 1
  <2> SUFFICES ASSUME NEW k \in 1..(n - 1)
               PROVE  /\ k + 1 \in 1..n /\ k \in 1..n
                      /\ nodes[p].children[k + 1].start = hi[f + k] /\ hi[f + k] \in Nat
                      /\ lo[f + (k + 1)] = hi[f + k] + 1
    OBVIOUS
  <2>1. k + 1 \in 1..n /\ k \in 1..n /\ f + (k + 1) = f + k + 1
    BY <1>1
  <2>2. /\ nodes[p].children[k + 1].start = lo[f + (k + 1)] - 1 /\ hi[f + k] \in Nat
        /\ lo[f + (k + 1)] = hi[f + k] + 1
    BY <1>2, <1>3, <2>1
  <2> QED BY <2>1, <2>2
<1>5. \E i \in 1..n : Fits(i)
  <2>1. T \subseteq Nat /\ n \in T
    BY <1>1
  <2> HIDE DEF T
  <2>2. PICK i \in T : \A j \in T : i <= j
    BY <2>1, LeastNumber
  <2>3. i \in 1..n /\ (i = n \/ index < nodes[p].children[i + 1].start)
    BY <2>2 DEF T
  <2>4. ASSUME NEW j \in 1..(i - 1) PROVE index >= nodes[p].children[j + 1].start
    <3>1. j \in 1..n /\ j \in 1..(n - 1) /\ ~(i <= j)
      BY <1>1, <2>3
    <3>2. ~(index < nodes[p].children[j + 1].start)
      BY <2>2, <3>1 DEF T
    <3>3. nodes[p].children[j + 1].start \in Nat
      BY <1>4, <3>1
    <3> QED BY <3>2, <3>3
  <2> QED BY <2>3, <2>4
<1> DEFINE i == IndexBranch(p, index)
<1>6. i \in 1..n /\ Fits(i)
  <2>1. i = CHOOSE k \in 1..n : Fits(k)
    BY DEF IndexBranch, n
  <2> HIDE DEF i
  <2> QED BY <1>5, <2>1
<1> HIDE DEF i
<1>7. lo[f + i] <= index + 1
  <2>1. CASE i = 1
    BY <1>1, <2>1
  <2>2. CASE i # 1
    <3>1. i - 1 \in 1..(n - 1) /\ i - 1 \in 1..(i - 1) /\ (i - 1) + 1 = i
      BY <1>1, <1>6, <2>2
    <3>2. index >= nodes[p].children[i].start
      BY <1>6, <3>1
    <3>3. nodes[p].children[i].start = lo[f + i] - 1 /\ lo[f + i] \in Nat
      BY <1>2, <1>6
    <3> QED BY <3>2, <3>3
  <2> QED BY <2>1, <2>2
<1>8. index + 1 <= hi[f + i]
  <2>1. CASE i = n
    BY <1>1, <2>1
  <2>2. CASE i # n
    <3>1. i \in 1..(n - 1)
      BY <1>1, <1>6, <2>2
    <3>2. index < hi[f + i] /\ hi[f + i] \in Nat
      BY <1>4, <1>6, <2>2, <3>1
    <3> QED BY <3>2
  <2> QED BY <2>1, <2>2
<1>9. i = 1 => lo[f + i] = lo[p]
  BY <1>1
<1>10. nodes[p].children[i].offset = f + i
  BY <1>2, <1>6
<1> QED BY <1>6, <1>7, <1>8, <1>9, <1>10 DEF i, n, f

\* find_index ends at the leaf that has the entry, with its number there.
LEMMA FindIndexFinds ==
  ASSUME NEW ht, NEW lo, NEW hi, NEW fst, NEW up, Tree(ht, lo, hi, fst, up),
         NEW index \in Nat, index < N
  PROVE  \E p \in 1..Len(nodes) :
           /\ ht[p] = 1 /\ lo[p] <= index + 1 /\ index + 1 <= hi[p]
           /\ FindIndex(index) = {[node |-> p, at |-> index + 1 - lo[p] + 1]}
<1> DEFINE at(p) == [node |-> p, start |-> lo[p] - 1]
           X == {at(p) : p \in 1..Len(nodes)}
           S == [h \in 1..Height |->
                  {at(p) : p \in {q \in 1..Len(nodes) : ht[q] = h /\ lo[q] <= index + 1 /\ index + 1 <= hi[q]}}]
           next(above) ==
             LET i == IndexBranch(above.node, index)
                 child == nodes[above.node].children[i]
             IN  [node |-> child.offset, start |-> IF i = 1 THEN above.start ELSE child.start]
           step == [h \in 1..Height |-> [x \in X |-> next(x)]]
           a == [node |-> footer.root, start |-> 0]
           path == CHOOSE f : f = [h \in 1..Height |-> IF h = Height THEN a ELSE next(f[h + 1])]
<1>1. /\ Height \in Nat \ {0} /\ footer.root = Len(nodes) /\ footer.count = N
      /\ Len(nodes) \in Nat \ {0} /\ N \in Nat
      /\ ht[Len(nodes)] = Height /\ lo[Len(nodes)] = 1 /\ hi[Len(nodes)] = N
  BY LengthType DEF Tree
<1>2. a \in S[Height]
  <2>1. Len(nodes) \in 1..Len(nodes) /\ a = at(Len(nodes)) /\ Height \in 1..Height
    BY <1>1
  <2> QED BY <1>1, <2>1
<1>3. ASSUME NEW h \in 1..(Height - 1), NEW x \in S[h + 1]
      PROVE  x \in X /\ next(x) \in S[h]
  <2>1. h + 1 \in 1..Height /\ h \in 1..Height /\ h + 1 # 1 /\ h = (h + 1) - 1
    BY <1>1
  <2>2. PICK p \in 1..Len(nodes) :
          /\ ht[p] = h + 1 /\ lo[p] <= index + 1 /\ index + 1 <= hi[p] /\ x = at(p)
    BY <2>1
  <2> DEFINE i == IndexBranch(p, index)
             c == fst[p] + i
  <2>3. /\ i \in 1..nodes[p].count /\ nodes[p].children[i].offset = c
        /\ lo[c] <= index + 1 /\ index + 1 <= hi[c]
        /\ i = 1 => lo[c] = lo[p]
    BY <2>1, <2>2, IndexBranchCovers
  <2>4. \A k \in 1..nodes[p].count :
          /\ fst[p] + k \in 1..Len(nodes) /\ ht[fst[p] + k] = ht[p] - 1
          /\ nodes[p].children[k].start = lo[fst[p] + k] - 1
    <3>1. Inner(ht, lo, hi, fst, up, p)
      BY <2>1, <2>2, InnerNode
    <3> HIDE DEF i, c, at, X, S, step
    <3> QED BY <3>1 DEF Inner
  <2>5. c \in 1..Len(nodes) /\ ht[c] = h /\ nodes[p].children[i].start = lo[c] - 1
    BY <2>1, <2>2, <2>3, <2>4
  <2>6. x.node = p /\ x.start = lo[p] - 1
    BY <2>2
  <2> HIDE DEF c, i
  <2>7. next(x) = at(c)
    BY <2>3, <2>5, <2>6 DEF i
  <2> QED BY <2>1, <2>2, <2>3, <2>5, <2>7
<1> HIDE DEF X, S, next, a
<1>4. PICK g : GoesDown(g, Height, a, step)
  BY <1>1, DownExists
<1>5. \A h \in 1..Height : h # Height => h \in 1..(Height - 1) /\ h + 1 \in 1..Height
  BY <1>1
<1>6. \A h \in 1..Height : g[h] \in S[h]
  <2>1. \A h \in 1..Height : g[h] = IF h = Height THEN a ELSE step[h][g[h + 1]]
    BY <1>4 DEF GoesDown
  <2>2. g[Height] \in S[Height]
    <3>1. Height \in 1..Height
      BY <1>1
    <3>2. g[Height] = a
      BY <2>1, <3>1, Zenon
    <3> QED BY <1>2, <3>2
  <2>3. ASSUME NEW h \in 1..(Height - 1), g[h + 1] \in S[h + 1] PROVE g[h] \in S[h]
    <3>1. h \in 1..Height /\ h # Height
      BY <1>1
    <3>2. g[h] = step[h][g[h + 1]]
      BY <2>1, <3>1
    <3> QED BY <1>3, <2>3, <3>1, <3>2
  <2> HIDE DEF step
  <2> QED BY <1>1, <2>2, <2>3, DownStays
<1>7. g = [h \in 1..Height |-> IF h = Height THEN a ELSE next(g[h + 1])]
  <2>1. g = [h \in 1..Height |-> IF h = Height THEN a ELSE step[h][g[h + 1]]]
    BY <1>4 DEF GoesDown
  <2>2. ASSUME NEW h \in 1..Height, h # Height PROVE step[h][g[h + 1]] = next(g[h + 1])
    <3>1. g[h + 1] \in X
      BY <1>3, <1>5, <1>6, <2>2
    <3> QED BY <3>1
  <2> HIDE DEF step
  <2> QED BY <2>1, <2>2
<1>8. path = [h \in 1..Height |-> IF h = Height THEN a ELSE next(path[h + 1])]
  BY <1>7
<1> HIDE DEF path
<1>9. \A h \in 1..Height : path[h] \in S[h]
  <2>1. \A h \in 1..Height : path[h] = IF h = Height THEN a ELSE next(path[h + 1])
    BY <1>8
  <2>2. path[Height] \in S[Height]
    BY <1>1, <1>2, <2>1
  <2>3. ASSUME NEW h \in 1..(Height - 1), path[h + 1] \in S[h + 1] PROVE path[h] \in S[h]
    <3>1. h \in 1..Height /\ h # Height
      BY <1>1
    <3>2. path[h] = next(path[h + 1])
      BY <2>1, <3>1
    <3> QED BY <1>3, <2>3, <3>2
  <2> QED BY <1>1, <2>2, <2>3, DownStays
<1>10. PICK p \in 1..Len(nodes) :
         ht[p] = 1 /\ lo[p] <= index + 1 /\ index + 1 <= hi[p] /\ path[1] = [node |-> p, start |-> lo[p] - 1]
  <2>1. 1 \in 1..Height
    BY <1>1
  <2> QED BY <1>9, <2>1 DEF S
<1>11. ~(Height = 0 \/ index >= footer.count)
  BY <1>1
<1>12. FindIndex(index) = {[node |-> path[1].node, at |-> index - path[1].start + 1]}
  BY <1>11, Zenon DEF FindIndex, path, next, a
<1>13. index - (lo[p] - 1) + 1 = index + 1 - lo[p] + 1
  BY <1>10, AtLeaf
<1> QED BY <1>10, <1>12, <1>13

\* read_key and read_value at the place of an entry in its leaf read that entry.
LEMMA ReadsEntry ==
  ASSUME NEW ht, NEW lo, NEW hi, NEW fst, NEW up, Tree(ht, lo, hi, fst, up),
         NEW p \in 1..Len(nodes), ht[p] = 1, NEW e \in Nat, lo[p] <= e, e <= hi[p]
  PROVE  /\ ReadEntry(p, e - lo[p] + 1) = e /\ e \in 1..N
         /\ KeyAt(p, e - lo[p] + 1) = entries[e]
<1>1. /\ IsLeaf(p) /\ lo[p] \in Nat /\ hi[p] \in Nat /\ 1 <= lo[p] /\ hi[p] <= N /\ N \in Nat
      /\ nodes[p].count = hi[p] - lo[p] + 1
  BY AtLeaf, LengthType DEF Tree
<1>2. \A k \in 1..(hi[p] - lo[p] + 1) : nodes[p].entries[k] = lo[p] + k - 1
  BY AtLeaf
<1>3. /\ e - lo[p] + 1 \in 1..(hi[p] - lo[p] + 1) /\ lo[p] + (e - lo[p] + 1) - 1 = e
      /\ e \in 1..N
  <2> DEFINE l == lo[p]
             r == hi[p]
  <2>1. l \in Nat /\ r \in Nat /\ 1 <= l /\ l <= e /\ e <= r /\ r <= N /\ N \in Nat
    BY <1>1
  <2> HIDE DEF l, r
  <2>2. e - l + 1 \in 1..(r - l + 1) /\ l + (e - l + 1) - 1 = e /\ e \in 1..N
    BY <2>1
  <2> QED BY <2>2 DEF l, r
<1>4. nodes[p].entries[e - lo[p] + 1] = e
  BY <1>2, <1>3
<1> QED BY <1>1, <1>3, <1>4 DEF ReadEntry, KeyAt

LEMMA AtState == ASSUME TreeInv PROVE AtReadsEveryEntry
<1> SUFFICES ASSUME Done, NEW n \in 0..(N + 1)
             PROVE  At(n) = IF n < N THEN {n + 1} ELSE {}
  BY DEF AtReadsEveryEntry, N
<1>1. N \in Nat /\ footer.count = N /\ (N = 0 => Height = 0)
  BY DoneTree
<1>2. CASE n < N
  <2>1. N > 0 /\ n \in Nat
    BY <1>1, <1>2
  <2>2. PICK ht, lo, hi, fst, up : Tree(ht, lo, hi, fst, up)
    BY <2>1, DoneTree
  <2>3. PICK p \in 1..Len(nodes) :
          /\ ht[p] = 1 /\ lo[p] <= n + 1 /\ n + 1 <= hi[p]
          /\ FindIndex(n) = {[node |-> p, at |-> n + 1 - lo[p] + 1]}
    BY <1>2, <2>1, <2>2, FindIndexFinds
  <2>4. n + 1 - lo[p] + 1 = (n + 1) - lo[p] + 1
    <3>1. lo[p] \in Nat
      BY <2>2, <2>3, AtLeaf
    <3> QED BY <3>1
  <2>5. ReadEntry(p, (n + 1) - lo[p] + 1) = n + 1
    BY <2>1, <2>2, <2>3, ReadsEntry
  <2>6. At(n) = {ReadEntry(p, n + 1 - lo[p] + 1)}
    BY <2>3 DEF At
  <2> QED BY <1>2, <2>4, <2>5, <2>6
<1>3. CASE ~(n < N)
  <2>1. n >= footer.count
    BY <1>1, <1>3
  <2>2. FindIndex(n) = {}
    BY <2>1 DEF FindIndex
  <2> QED BY <1>3, <2>2 DEF At
<1> QED BY <1>2, <1>3

\* Reader::at reads every entry at its index, whatever the number of levels.
THEOREM AtIsRight == ASSUME MaxNodeChildren < NodeLimit PROVE Spec => []AtReadsEveryEntry
<1>1. TreeInv => AtReadsEveryEntry
  BY AtState
<1> QED BY <1>1, TreeHasShape, PTL

-----------------------------------------------------------------------------
(* Iterators: the place of every entry, and the way from one to the next.   *)

LEMMA NextLeaf ==
  ASSUME NEW ht, NEW lo, NEW hi, NEW fst, NEW up, Tree(ht, lo, hi, fst, up),
         NEW p \in 1..Len(nodes), ht[p] = 1, hi[p] < N
  PROVE  /\ p + 1 \in 1..Len(nodes) /\ ht[p + 1] = 1 /\ lo[p + 1] = hi[p] + 1
         /\ lo[p + 1] <= hi[p + 1]
<1>1. /\ Basics /\ LeavesWritten /\ Shape(ht, lo, hi, fst, up) /\ p \in 1..DivCeil(N)
      /\ hi[p] \in Nat
  BY AtLeaf DEF Tree
<1>2. N \in Nat \ {0} /\ DivCeil(N) \in Nat /\ Len(nodes) \in Nat /\ Fan \in Nat /\ p \in Nat \ {0}
  BY <1>1, LengthType, FanType DEF Tree
<1> DEFINE c == DivCeil(N)
           x == p * Fan
<1>3. x \in Nat /\ c * Fan \in Nat /\ N <= c * Fan /\ (c <= p => c * Fan <= x)
  BY <1>2, Ceil, Times
<1>4. hi[p] = IF x <= N THEN x ELSE N
  BY <1>1 DEF Shape, Leaves, EndOf
<1>5. c <= Len(nodes)
  BY <1>1 DEF Shape, Leaves
<1>6. hi[p] = x /\ x < N
  <2> HIDE DEF x
  <2> QED BY <1>2, <1>3, <1>4
<1>7. p + 1 \in 1..c
  <2> DEFINE y == c * Fan
  <2>1. y \in Nat /\ N <= y /\ (c <= p => y <= x)
    BY <1>3
  <2> HIDE DEF x, y, c
  <2>2. ~(c <= p)
    BY <1>2, <1>3, <1>6, <2>1
  <2>3. c \in Nat
    BY <1>2 DEF c
  <2> QED BY <1>2, <2>2, <2>3
<1>8. ht[p + 1] = 1 /\ lo[p + 1] = FirstEntry(p + 1, Fan)
  BY <1>1, <1>7 DEF Shape, Leaves
<1>9. FirstEntry(p + 1, Fan) = x + 1
  <2>1. (p + 1) - 1 = p
    BY <1>2
  <2> QED BY <2>1 DEF FirstEntry
<1>10. p + 1 \in 1..Len(nodes)
  BY <1>2, <1>5, <1>7
<1>11. lo[p + 1] <= hi[p + 1]
  BY <1>8, <1>10, AtLeaf
<1> HIDE DEF x
<1> QED BY <1>6, <1>8, <1>9, <1>10, <1>11

\* An entry is in one leaf.
LEMMA LeafOnce ==
  ASSUME NEW ht, NEW lo, NEW hi, NEW fst, NEW up, Tree(ht, lo, hi, fst, up),
         NEW p \in 1..Len(nodes), ht[p] = 1, NEW q \in 1..Len(nodes), ht[q] = 1,
         NEW e \in Nat, lo[p] <= e, e <= hi[p], lo[q] <= e, e <= hi[q]
  PROVE  p = q
<1>1. ASSUME NEW i \in 1..Len(nodes), ht[i] = 1, NEW j \in 1..Len(nodes), ht[j] = 1,
             lo[j] <= e, e <= hi[i], i < j
      PROVE  FALSE
  <2>1. /\ Basics /\ LeavesWritten /\ Shape(ht, lo, hi, fst, up)
        /\ i \in 1..DivCeil(N) /\ j \in 1..DivCeil(N)
        /\ hi[i] \in Nat /\ hi[i] <= N /\ lo[j] \in Nat /\ hi[j] \in Nat /\ lo[j] <= hi[j] /\ hi[j] <= N
    BY <1>1, AtLeaf DEF Tree
  <2>2. N \in Nat /\ Fan \in Nat /\ i \in Nat /\ j \in Nat /\ j - 1 \in Nat /\ i <= j - 1
    BY <1>1, <2>1, LengthType, FanType
  <2> DEFINE x == i * Fan
             y == (j - 1) * Fan
  <2>3. x \in Nat /\ y \in Nat /\ x <= y
    BY <2>2, Times
  <2>4. hi[i] = (IF x <= N THEN x ELSE N) /\ lo[j] = y + 1
    BY <2>1 DEF Shape, Leaves, EndOf, FirstEntry
  <2> HIDE DEF x, y
  <2>5. hi[i] <= x
    BY <2>1, <2>2, <2>3, <2>4
  <2> QED BY <1>1, <2>1, <2>3, <2>4, <2>5
<1>2. ~(p < q) /\ ~(q < p)
  BY <1>1
<1>3. p \in Nat /\ q \in Nat
  OBVIOUS
<1> QED BY <1>2, <1>3

\* The iterator whose next entry is e.
Holds(ht, lo, hi, p, e) == p \in 1..Len(nodes) /\ ht[p] = 1 /\ lo[p] <= e /\ e <= hi[p]
IterAt(ht, lo, hi, e) ==
  LET p == CHOOSE q : Holds(ht, lo, hi, q, e) IN Iterator(p, e - lo[p] + 1, N - e + 1)

LEMMA IterAtLeaf ==
  ASSUME NEW ht, NEW lo, NEW hi, NEW fst, NEW up, Tree(ht, lo, hi, fst, up),
         NEW e \in Nat, NEW p, Holds(ht, lo, hi, p, e)
  PROVE  IterAt(ht, lo, hi, e) = Iterator(p, e - lo[p] + 1, N - e + 1)
<1> DEFINE q == CHOOSE r : Holds(ht, lo, hi, r, e)
<1>1. Holds(ht, lo, hi, q, e)
  OBVIOUS
<1> HIDE DEF q
<1>2. q = p
  BY <1>1, LeafOnce DEF Holds
<1> QED BY <1>2 DEF IterAt, q

LEMMA EntryInLeaf ==
  ASSUME NEW ht, NEW lo, NEW hi, NEW fst, NEW up, Tree(ht, lo, hi, fst, up), NEW e \in 1..N
  PROVE  \E p : Holds(ht, lo, hi, p, e)
<1>1. N \in Nat
  BY LengthType DEF Tree
<1>2. e - 1 \in Nat /\ e - 1 < N /\ (e - 1) + 1 = e
  BY <1>1
<1>3. PICK p \in 1..Len(nodes) : ht[p] = 1 /\ lo[p] <= (e - 1) + 1 /\ (e - 1) + 1 <= hi[p]
  BY <1>2, FindIndexFinds
<1> QED BY <1>2, <1>3 DEF Holds

LEMMA NextIsNext ==
  ASSUME NEW ht, NEW lo, NEW hi, NEW fst, NEW up, Tree(ht, lo, hi, fst, up), NEW e \in 1..N
  PROVE  /\ IterAt(ht, lo, hi, e).remaining = N - e + 1
         /\ ReadEntry(IterAt(ht, lo, hi, e).node, IterAt(ht, lo, hi, e).at) = e
         /\ KeyAt(IterAt(ht, lo, hi, e).node, IterAt(ht, lo, hi, e).at) = entries[e]
         /\ e < N => NextOf(IterAt(ht, lo, hi, e)) = IterAt(ht, lo, hi, e + 1)
         /\ NextOf(IterAt(ht, lo, hi, e)).remaining = N - e
<1> DEFINE it == IterAt(ht, lo, hi, e)
<1>1. N \in Nat /\ e \in Nat
  BY LengthType DEF Tree
<1>2. PICK p : Holds(ht, lo, hi, p, e)
  BY EntryInLeaf
<1>3. it = Iterator(p, e - lo[p] + 1, N - e + 1)
  BY <1>1, <1>2, IterAtLeaf
<1>4. p \in 1..Len(nodes) /\ ht[p] = 1 /\ lo[p] <= e /\ e <= hi[p]
  BY <1>2 DEF Holds
<1>5. /\ IsLeaf(p) /\ lo[p] \in Nat /\ hi[p] \in Nat /\ 1 <= lo[p] /\ hi[p] <= N
      /\ nodes[p].count = hi[p] - lo[p] + 1
  BY <1>4, AtLeaf
<1>6. it.node = p /\ it.at = e - lo[p] + 1 /\ it.remaining = N - e + 1
  BY <1>3 DEF Iterator
<1>7. ReadEntry(p, e - lo[p] + 1) = e /\ KeyAt(p, e - lo[p] + 1) = entries[e]
  BY <1>1, <1>4, ReadsEntry
<1> HIDE DEF it
<1> DEFINE l == lo[p]
           r == hi[p]
           a == e - l + 1
<1>8. l \in Nat /\ r \in Nat /\ l <= e /\ e <= r /\ r <= N
  BY <1>4, <1>5
<1>9. NextOf(it) = IF a + 1 > r - l + 1
                     THEN Iterator(IF N - e + 1 > 1 THEN p + 1 ELSE p, 1, (N - e + 1) - 1)
                     ELSE Iterator(p, a + 1, (N - e + 1) - 1)
  BY <1>5, <1>6 DEF NextOf
<1>10. NextOf(it).remaining = N - e
  <2>1. (N - e + 1) - 1 = N - e
    BY <1>1
  <2> QED BY <1>9, <2>1 DEF Iterator
<1>11. ASSUME e < N PROVE NextOf(it) = IterAt(ht, lo, hi, e + 1)
  <2>1. CASE e < r
    <3>1. ~(a + 1 > r - l + 1) /\ a + 1 = (e + 1) - l + 1 /\ (N - e + 1) - 1 = N - (e + 1) + 1
      <4> HIDE DEF l, r
      <4> QED BY <1>1, <1>8, <2>1
    <3>2. Holds(ht, lo, hi, p, e + 1) /\ e + 1 \in Nat
      BY <1>1, <1>4, <1>8, <2>1 DEF Holds
    <3>3. IterAt(ht, lo, hi, e + 1) = Iterator(p, (e + 1) - lo[p] + 1, N - (e + 1) + 1)
      BY <3>2, IterAtLeaf
    <3> QED BY <1>9, <3>1, <3>3
  <2>2. CASE ~(e < r)
    <3>1. /\ e = r /\ a + 1 > r - l + 1 /\ N - e + 1 > 1 /\ r < N
          /\ (N - e + 1) - 1 = N - (e + 1) + 1
      <4> HIDE DEF l, r
      <4> QED BY <1>1, <1>8, <1>11, <2>2
    <3>2. /\ p + 1 \in 1..Len(nodes) /\ ht[p + 1] = 1 /\ lo[p + 1] = hi[p] + 1
          /\ lo[p + 1] <= hi[p + 1]
      BY <1>4, <3>1, NextLeaf
    <3>3. lo[p + 1] = e + 1 /\ e + 1 \in Nat /\ (e + 1) - (e + 1) + 1 = 1
      BY <1>1, <3>1, <3>2
    <3>4. Holds(ht, lo, hi, p + 1, e + 1)
      BY <3>2, <3>3 DEF Holds
    <3>5. IterAt(ht, lo, hi, e + 1) = Iterator(p + 1, (e + 1) - lo[p + 1] + 1, N - (e + 1) + 1)
      BY <3>3, <3>4, IterAtLeaf
    <3>6. NextOf(it) = Iterator(p + 1, 1, (N - e + 1) - 1)
      BY <1>9, <3>1
    <3> QED BY <3>1, <3>3, <3>5, <3>6
  <2> QED BY <2>1, <2>2
<1> QED BY <1>6, <1>7, <1>10, <1>11 DEF it

\* Where the iterator that starts at e comes to.
LEMMA PositionsFrom ==
  ASSUME NEW ht, NEW lo, NEW hi, NEW fst, NEW up, Tree(ht, lo, hi, fst, up), NEW e \in 1..N,
         NEW n \in 0..(N - e + 1)
  PROVE  Positions(IterAt(ht, lo, hi, e))[n]
           = IF e + n <= N THEN IterAt(ht, lo, hi, e + n) ELSE NextOf(IterAt(ht, lo, hi, N))
<1> DEFINE it == IterAt(ht, lo, hi, e)
           m == N - e + 1
           Place(k) == IF e + k <= N THEN IterAt(ht, lo, hi, e + k) ELSE NextOf(IterAt(ht, lo, hi, N))
           Follows(f) == f = [k \in 0..m |-> IF k = 0 THEN it ELSE NextOf(f[k - 1])]
           g == [k \in 0..m |-> Place(k)]
           pos == CHOOSE f : Follows(f)
<1>1. N \in Nat /\ e \in Nat /\ 1 <= e /\ e <= N /\ m \in Nat
  BY LengthType DEF Tree
<1>2. it.remaining = m
  BY NextIsNext
<1>3. Positions(it) = pos
  BY <1>2 DEF Positions
<1>4. Place(0) = it
  <2>1. e + 0 = e /\ e + 0 <= N
    BY <1>1
  <2> QED BY <2>1
<1>5. ASSUME NEW k \in 0..m, k # 0 PROVE k - 1 \in 0..m /\ Place(k) = NextOf(Place(k - 1))
  <2>1. k - 1 \in 0..m /\ k \in Nat /\ e + (k - 1) \in 1..N /\ e + k <= N + 1
    BY <1>1, <1>5
  <2>2. Place(k - 1) = IterAt(ht, lo, hi, e + (k - 1))
    BY <2>1
  <2>3. CASE e + k <= N
    <3>1. e + (k - 1) < N /\ (e + (k - 1)) + 1 = e + k
      BY <1>1, <2>1, <2>3
    <3>2. NextOf(IterAt(ht, lo, hi, e + (k - 1))) = IterAt(ht, lo, hi, (e + (k - 1)) + 1)
      BY <2>1, <3>1, NextIsNext
    <3> QED BY <2>1, <2>2, <2>3, <3>1, <3>2
  <2>4. CASE ~(e + k <= N)
    <3>1. e + (k - 1) = N
      BY <1>1, <2>1, <2>4
    <3> QED BY <2>1, <2>2, <2>4, <3>1
  <2> QED BY <2>3, <2>4
<1> HIDE DEF it, m, Place
<1>6. Follows(g)
  <2>1. \A k \in 0..m : g[k] = Place(k)
    OBVIOUS
  <2>2. \A k \in 0..m : Place(k) = IF k = 0 THEN it ELSE NextOf(g[k - 1])
    BY <1>4, <1>5, <2>1
  <2> QED BY <2>2
<1>7. Follows(pos)
  <2> HIDE DEF Follows, g
  <2> QED BY <1>6
<1> HIDE DEF pos
<1>8. \A k \in 0..m : pos[k] = IF k = 0 THEN it ELSE NextOf(pos[k - 1])
  BY <1>7
<1> DEFINE T == {k \in 0..m : pos[k] # Place(k)}
<1>9. T = {}
  <2> SUFFICES ASSUME T # {} PROVE FALSE
    OBVIOUS
  <2>1. T \subseteq Nat
    BY <1>1
  <2> HIDE DEF T
  <2>2. PICK k \in T : \A j \in T : k <= j
    BY <2>1, LeastNumber
  <2>3. k \in 0..m /\ pos[k] # Place(k)
    BY <2>2 DEF T
  <2>4. k # 0
    BY <1>4, <1>8, <2>3
  <2>5. k - 1 \in 0..m /\ Place(k) = NextOf(Place(k - 1)) /\ ~(k <= k - 1)
    BY <1>1, <1>5, <2>3, <2>4
  <2>6. pos[k - 1] = Place(k - 1)
    BY <2>2, <2>5 DEF T
  <2> QED BY <1>8, <2>3, <2>4, <2>5, <2>6
<1>10. n \in 0..m
  BY DEF m
<1>11. pos[n] = Place(n)
  BY <1>9, <1>10
<1> QED BY <1>3, <1>11 DEF Place, it

LEMMA VisitedFrom ==
  ASSUME NEW ht, NEW lo, NEW hi, NEW fst, NEW up, Tree(ht, lo, hi, fst, up), NEW e \in 1..N
  PROVE  Visited(IterAt(ht, lo, hi, e)) = From(e)
<1> DEFINE it == IterAt(ht, lo, hi, e)
           pos == Positions(it)
<1>1. N \in Nat /\ e \in Nat /\ 1 <= e /\ e <= N
  BY LengthType DEF Tree
<1>2. it.remaining = N - e + 1 /\ N - e + 1 = N + 1 - e
  BY <1>1, NextIsNext
<1>3. Visited(it) = [n \in 1..(N - e + 1) |-> ReadEntry(pos[n - 1].node, pos[n - 1].at)]
  BY <1>2 DEF Visited
<1>4. ASSUME NEW n \in 1..(N - e + 1)
      PROVE  ReadEntry(pos[n - 1].node, pos[n - 1].at) = n + e - 1
  <2>1. n - 1 \in 0..(N - e + 1) /\ e + (n - 1) <= N /\ e + (n - 1) \in 1..N /\ e + (n - 1) = n + e - 1
    BY <1>1
  <2>2. pos[n - 1] = IterAt(ht, lo, hi, e + (n - 1))
    BY <2>1, PositionsFrom
  <2> HIDE DEF pos
  <2>3. ReadEntry(pos[n - 1].node, pos[n - 1].at) = e + (n - 1)
    BY <2>1, <2>2, NextIsNext
  <2> QED BY <2>1, <2>3
<1> HIDE DEF pos, it
<1>5. Visited(it) = [n \in 1..(N + 1 - e) |-> n + e - 1]
  BY <1>2, <1>3, <1>4
<1> QED BY <1>5 DEF From, N, it

LEMMA VisitedNothing ==
  ASSUME Basics, NEW it, it.remaining = 0, NEW m \in Nat, m > N
  PROVE  Visited(it) = From(m)
<1>1. N \in Nat
  BY LengthType
<1>2. Visited(it) = [n \in 1..0 |-> ReadEntry(Positions(it)[n - 1].node, Positions(it)[n - 1].at)]
  BY DEF Visited
<1>3. From(m) = [i \in 1..(N + 1 - m) |-> i + m - 1]
  BY DEF From, N
<1>4. 1..0 = {} /\ 1..(N + 1 - m) = {}
  BY <1>1
<1> QED BY <1>2, <1>3, <1>4

LEMMA IteratesState == ASSUME TreeInv PROVE IteratesInOrder
<1> SUFFICES ASSUME Done
             PROVE  /\ Visited(Begin) = From(1)
                    /\ \A n \in 0..(N + 1) : Visited(SeekIndex(n)) = From(n + 1)
  BY DEF IteratesInOrder, N
<1>1. N \in Nat /\ footer.count = N /\ Basics /\ (N = 0 => Height = 0)
  BY DoneTree
<1>2. Begin.remaining = N /\ End.remaining = 0
  BY <1>1 DEF Begin, End, Iterator
<1>3. CASE N = 0
  <2>1. Visited(Begin) = From(1)
    <3>1. 1 \in Nat /\ 1 > N
      BY <1>3
    <3> QED BY <1>1, <1>2, <1>3, <3>1, VisitedNothing
  <2>2. ASSUME NEW n \in 0..(N + 1) PROVE Visited(SeekIndex(n)) = From(n + 1)
    <3>1. FindIndex(n) = {}
      BY <1>1, <1>3 DEF FindIndex
    <3>2. SeekIndex(n) = End
      BY <3>1 DEF SeekIndex
    <3>3. n + 1 \in Nat /\ n + 1 > N
      BY <1>3
    <3> QED BY <1>1, <1>2, <3>2, <3>3, VisitedNothing
  <2> QED BY <2>1, <2>2
<1>4. CASE N # 0
  <2>1. N > 0 /\ 1 \in 1..N /\ 1 \in Nat
    BY <1>1, <1>4
  <2>2. PICK ht, lo, hi, fst, up : Tree(ht, lo, hi, fst, up)
    BY <2>1, DoneTree
  <2>3. Visited(Begin) = From(1)
    <3>1. Shape(ht, lo, hi, fst, up) /\ Len(nodes) \in Nat \ {0} /\ Basics
      BY <2>2 DEF Tree
    <3>2. 1 \in 1..DivCeil(N) /\ 1 \in 1..Len(nodes)
      <4>1. DivCeil(N) \in Nat \ {0}
        BY <1>1, <1>4, Ceil
      <4> QED BY <3>1, <4>1
    <3>3. ht[1] = 1 /\ lo[1] = FirstEntry(1, Fan)
      BY <3>1, <3>2 DEF Shape, Leaves
    <3>4. lo[1] = 1
      <4>1. (1 - 1) * Fan = 0
        BY FanType
      <4> QED BY <3>3, <4>1 DEF FirstEntry
    <3>5. 1 <= hi[1]
      BY <2>2, <3>2, <3>3, AtLeaf
    <3>6. Holds(ht, lo, hi, 1, 1)
      BY <3>2, <3>3, <3>4, <3>5 DEF Holds
    <3>7. IterAt(ht, lo, hi, 1) = Iterator(1, 1 - lo[1] + 1, N - 1 + 1)
      BY <2>1, <2>2, <3>6, IterAtLeaf
    <3>8. 1 - lo[1] + 1 = 1 /\ N - 1 + 1 = N
      BY <1>1, <3>4
    <3>9. Begin = IterAt(ht, lo, hi, 1)
      BY <1>1, <3>7, <3>8 DEF Begin
    <3> QED BY <2>1, <2>2, <3>9, VisitedFrom
  <2>4. ASSUME NEW n \in 0..(N + 1) PROVE Visited(SeekIndex(n)) = From(n + 1)
    <3>1. CASE n < N
      <4>1. n \in Nat /\ n + 1 \in 1..N /\ n + 1 \in Nat
        BY <1>1, <3>1
      <4>2. PICK p \in 1..Len(nodes) :
              /\ ht[p] = 1 /\ lo[p] <= n + 1 /\ n + 1 <= hi[p]
              /\ FindIndex(n) = {[node |-> p, at |-> n + 1 - lo[p] + 1]}
        BY <2>2, <3>1, <4>1, FindIndexFinds
      <4>3. SeekIndex(n) = Iterator(p, n + 1 - lo[p] + 1, N - n)
        <5> DEFINE x == [node |-> p, at |-> n + 1 - lo[p] + 1]
                   f == CHOOSE y \in FindIndex(n) : TRUE
        <5>1. FindIndex(n) = {x} /\ x.node = p /\ x.at = n + 1 - lo[p] + 1
          BY <4>2
        <5> HIDE DEF x
        <5>2. f = x
          BY <5>1
        <5>3. SeekIndex(n) = Iterator(f.node, f.at, N - n)
          BY <1>1, <5>1 DEF SeekIndex
        <5> HIDE DEF f
        <5> QED BY <5>1, <5>2, <5>3
      <4>4. Holds(ht, lo, hi, p, n + 1)
        BY <4>2 DEF Holds
      <4>5. IterAt(ht, lo, hi, n + 1) = Iterator(p, (n + 1) - lo[p] + 1, N - (n + 1) + 1)
        BY <2>2, <4>1, <4>4, IterAtLeaf
      <4>6. lo[p] \in Nat
        BY <2>2, <4>2, AtLeaf
      <4>7. n + 1 - lo[p] + 1 = (n + 1) - lo[p] + 1 /\ N - n = N - (n + 1) + 1
        BY <1>1, <4>1, <4>6
      <4>8. SeekIndex(n) = IterAt(ht, lo, hi, n + 1)
        BY <4>3, <4>5, <4>7
      <4> QED BY <2>2, <4>1, <4>8, VisitedFrom
    <3>2. CASE ~(n < N)
      <4>1. n >= footer.count
        BY <1>1, <3>2
      <4>2. FindIndex(n) = {}
        BY <4>1 DEF FindIndex
      <4>3. SeekIndex(n) = End
        BY <4>2 DEF SeekIndex
      <4>4. n + 1 \in Nat /\ n + 1 > N
        BY <1>1, <3>2
      <4> QED BY <1>1, <1>2, <4>3, <4>4, VisitedNothing
    <3> QED BY <3>1, <3>2
  <2> QED BY <2>3, <2>4
<1> QED BY <1>3, <1>4

\* An iterator from the beginning or from an index goes through every entry from
\* there on, over the borders of the leaves.
THEOREM IteratorsGoOn == ASSUME MaxNodeChildren < NodeLimit PROVE Spec => []IteratesInOrder
<1>1. TreeInv => IteratesInOrder
  BY IteratesState
<1> QED BY <1>1, TreeHasShape, PTL


-----------------------------------------------------------------------------
(* Going down to a key.                                                     *)

\* The right key of a child of a node that is not smaller than a key.
NotLeftOf(p, key, k) == key <= nodes[p].children[k].right

\* The child that the binary search is to find among those from l to h.
FirstChild(p, key, l, h, k) ==
  /\ k \in l..h /\ (k = h \/ NotLeftOf(p, key, k))
  /\ \A j \in l..(k - 1) : ~NotLeftOf(p, key, j)

LEMMA FirstChildExists ==
  ASSUME NEW p, NEW key, NEW l \in Nat, NEW h \in Nat, l <= h
  PROVE  \E k : FirstChild(p, key, l, h, k)
<1> DEFINE T == {k \in l..h : k = h \/ NotLeftOf(p, key, k)}
<1>1. T \subseteq Nat /\ h \in T
  OBVIOUS
<1> HIDE DEF T
<1>2. PICK k \in T : \A j \in T : k <= j
  BY <1>1, LeastNumber
<1>3. k \in l..h /\ (k = h \/ NotLeftOf(p, key, k))
  BY <1>2 DEF T
<1>4. ASSUME NEW j \in l..(k - 1) PROVE ~NotLeftOf(p, key, j)
  <2>1. j \in l..h /\ ~(k <= j)
    BY <1>3
  <2> QED BY <1>2, <2>1 DEF T
<1> QED BY <1>3, <1>4 DEF FirstChild

LEMMA FirstChildOnce ==
  ASSUME NEW p, NEW key, NEW l \in Nat, NEW h \in Nat, NEW j, NEW k,
         FirstChild(p, key, l, h, j), FirstChild(p, key, l, h, k)
  PROVE  j = k
<1>1. j \in l..h /\ k \in l..h
  BY DEF FirstChild
<1>2. ~(j < k)
  <2>1. j < k => j \in l..(k - 1) /\ j # h
    BY <1>1
  <2> QED BY <2>1 DEF FirstChild
<1>3. ~(k < j)
  <2>1. k < j => k \in l..(j - 1) /\ k # h
    BY <1>1
  <2> QED BY <2>1 DEF FirstChild
<1> QED BY <1>1, <1>2, <1>3

\* The half that the search goes on in has the child that it looks for.
HalfOf(p, key, l, h) ==
  LET mid == l + (h - l) \div 2
  IN  IF NotLeftOf(p, key, mid) THEN <<l, mid>> ELSE <<mid + 1, h>>

LEMMA FirstChildHalf ==
  ASSUME NEW p, NEW key, NEW n \in Nat, NEW l \in 1..n, NEW h \in 1..n, l < h,
         \A i \in 1..n : \A j \in 1..n : i <= j /\ NotLeftOf(p, key, i) => NotLeftOf(p, key, j)
  PROVE  \E a \in 1..n, b \in 1..n :
           /\ HalfOf(p, key, l, h) = <<a, b>> /\ l <= a /\ a <= b /\ b <= h /\ b - a < h - l
           /\ \A k : FirstChild(p, key, a, b, k) => FirstChild(p, key, l, h, k)
<1> DEFINE m == l + (h - l) \div 2
<1>1. m \in 1..n /\ l <= m /\ m < h
  OBVIOUS
<1>2. HalfOf(p, key, l, h) = IF NotLeftOf(p, key, m) THEN <<l, m>> ELSE <<m + 1, h>>
  BY DEF HalfOf
<1> HIDE DEF m
<1>3. CASE NotLeftOf(p, key, m)
  <2>1. ASSUME NEW k, FirstChild(p, key, l, m, k) PROVE FirstChild(p, key, l, h, k)
    <3>1. k \in l..m /\ (k = m \/ NotLeftOf(p, key, k)) /\ \A j \in l..(k - 1) : ~NotLeftOf(p, key, j)
      BY <2>1 DEF FirstChild
    <3>2. k \in l..h /\ NotLeftOf(p, key, k)
      BY <1>1, <1>3, <3>1
    <3> QED BY <3>1, <3>2 DEF FirstChild
  <2>2. HalfOf(p, key, l, h) = <<l, m>> /\ m - l < h - l
    BY <1>1, <1>2, <1>3
  <2> QED BY <1>1, <2>1, <2>2
<1>4. CASE ~NotLeftOf(p, key, m)
  <2>1. ASSUME NEW k, FirstChild(p, key, m + 1, h, k) PROVE FirstChild(p, key, l, h, k)
    <3>1. /\ k \in (m + 1)..h /\ (k = h \/ NotLeftOf(p, key, k))
          /\ \A j \in (m + 1)..(k - 1) : ~NotLeftOf(p, key, j)
      BY <2>1 DEF FirstChild
    <3>2. ASSUME NEW j \in l..(k - 1) PROVE ~NotLeftOf(p, key, j)
      <4>1. j \in 1..n /\ (j <= m \/ j \in (m + 1)..(k - 1))
        BY <1>1, <3>1
      <4> QED BY <1>1, <1>4, <3>1, <4>1
    <3>3. k \in l..h
      BY <1>1, <3>1
    <3> QED BY <3>1, <3>2, <3>3 DEF FirstChild
  <2>2. HalfOf(p, key, l, h) = <<m + 1, h>> /\ h - (m + 1) < h - l /\ m + 1 \in 1..n /\ m + 1 <= h
    BY <1>1, <1>2, <1>4
  <2> QED BY <1>1, <2>1, <2>2
<1> QED BY <1>3, <1>4

\* Two lookups in a function of pairs that agree on what they are given.
LEMMA BranchFinds ==
  ASSUME NEW p, NEW key, nodes[p].count \in Nat \ {0},
         \A i \in 1..nodes[p].count : \A j \in 1..nodes[p].count :
           i <= j /\ NotLeftOf(p, key, i) => NotLeftOf(p, key, j)
  PROVE  FirstChild(p, key, 1, nodes[p].count, Branch(p, key))
<1> DEFINE n == nodes[p].count
           R == (1..n) \X (1..n)
           Place(r) == IF r[1] >= r[2] THEN r[1]
                       ELSE CHOOSE k : FirstChild(p, key, r[1], r[2], k)
           Searches(f) == f = [r \in R |-> IF r[1] >= r[2] THEN r[1] ELSE f[HalfOf(p, key, r[1], r[2])]]
           search == CHOOSE f : Searches(f)
           g == [r \in R |-> Place(r)]
<1>1. Branch(p, key) = search[<<1, n>>]
  BY DEF Branch, HalfOf, NotLeftOf
<1> HIDE DEF n
<1>2. n \in Nat \ {0} /\ \A i \in 1..n : \A j \in 1..n :
         i <= j /\ NotLeftOf(p, key, i) => NotLeftOf(p, key, j)
  BY DEF n
<1>3. ASSUME NEW l \in 1..n, NEW h \in 1..n, l <= h PROVE FirstChild(p, key, l, h, Place(<<l, h>>))
  <2>1. CASE l = h
    <3>1. Place(<<l, h>>) = l /\ l \in l..h /\ l..(l - 1) = {}
      BY <1>3, <2>1
    <3> HIDE DEF Place
    <3> QED BY <2>1, <3>1 DEF FirstChild
  <2>2. CASE l # h
    <3>1. ~(l >= h) /\ l \in Nat /\ h \in Nat
      BY <1>3, <2>2
    <3>2. Place(<<l, h>>) = CHOOSE k : FirstChild(p, key, l, h, k)
      BY <3>1
    <3>3. \E k : FirstChild(p, key, l, h, k)
      BY <1>3, <3>1, FirstChildExists
    <3> HIDE DEF Place
    <3> QED BY <3>2, <3>3
  <2> QED BY <2>1, <2>2
<1>4. ASSUME NEW l \in 1..n, NEW h \in 1..n, l < h
      PROVE  HalfOf(p, key, l, h) \in R /\ Place(<<l, h>>) = Place(HalfOf(p, key, l, h))
  <2>1. PICK a \in 1..n, b \in 1..n :
          /\ HalfOf(p, key, l, h) = <<a, b>> /\ l <= a /\ a <= b /\ b <= h /\ b - a < h - l
          /\ \A k : FirstChild(p, key, a, b, k) => FirstChild(p, key, l, h, k)
    BY <1>2, <1>4, FirstChildHalf
  <2>2. FirstChild(p, key, a, b, Place(<<a, b>>)) /\ FirstChild(p, key, l, h, Place(<<l, h>>))
    BY <1>3, <1>4, <2>1
  <2> HIDE DEF Place
  <2>3. FirstChild(p, key, l, h, Place(<<a, b>>)) /\ l \in Nat /\ h \in Nat
    BY <2>1, <2>2
  <2>4. Place(<<a, b>>) = Place(<<l, h>>)
    BY <2>2, <2>3, FirstChildOnce
  <2> QED BY <2>1, <2>4
<1>5. Searches(g)
  <2>1. ASSUME NEW r \in R
        PROVE  g[r] = IF r[1] >= r[2] THEN r[1] ELSE g[HalfOf(p, key, r[1], r[2])]
    <3>1. r[1] \in 1..n /\ r[2] \in 1..n /\ r = <<r[1], r[2]>> /\ g[r] = Place(r)
      OBVIOUS
    <3>2. CASE r[1] >= r[2]
      BY <3>1, <3>2
    <3>3. CASE ~(r[1] >= r[2])
      <4>1. r[1] < r[2]
        BY <3>1, <3>3
      <4> HIDE DEF Place
      <4>2. HalfOf(p, key, r[1], r[2]) \in R /\ Place(<<r[1], r[2]>>) = Place(HalfOf(p, key, r[1], r[2]))
        BY <1>4, <3>1, <4>1
      <4>3. g[HalfOf(p, key, r[1], r[2])] = Place(HalfOf(p, key, r[1], r[2]))
        BY <4>2
      <4> QED BY <3>1, <3>3, <4>2, <4>3
    <3> QED BY <3>2, <3>3
  <2> HIDE DEF g, Place
  <2>2. DOMAIN g = R /\ g = [r \in R |-> g[r]]
    BY DEF g
  <2> QED BY <2>1, <2>2
<1>6. Searches(search)
  <2> HIDE DEF Searches, g
  <2> QED BY <1>5
<1> HIDE DEF search, g
<1>7. \A l \in 1..n : \A h \in 1..n :
        search[<<l, h>>] = IF l >= h THEN l ELSE search[HalfOf(p, key, l, h)]
  BY <1>6
<1> HIDE DEF Searches
<1> DEFINE T == {d \in Nat : \E l \in 1..n, h \in 1..n :
                   l <= h /\ h - l = d /\ search[<<l, h>>] # Place(<<l, h>>)}
<1>8. T = {}
  <2> SUFFICES ASSUME T # {} PROVE FALSE
    OBVIOUS
  <2>1. T \subseteq Nat
    OBVIOUS
  <2> HIDE DEF T, Place
  <2>2. PICK d \in T : \A e \in T : d <= e
    BY <2>1, LeastNumber
  <2>3. PICK l \in 1..n, h \in 1..n : l <= h /\ h - l = d /\ search[<<l, h>>] # Place(<<l, h>>)
    BY <2>2 DEF T
  <2>4. CASE l = h
    <3>1. l >= h
      BY <2>4
    <3>2. search[<<l, h>>] = l
      BY <1>7, <3>1
    <3>3. Place(<<l, h>>) = l
      BY <3>1 DEF Place
    <3> QED BY <2>3, <3>2, <3>3
  <2>5. CASE l # h
    <3>1. l < h /\ ~(l >= h)
      BY <2>3, <2>5
    <3>2. PICK a \in 1..n, b \in 1..n :
          /\ HalfOf(p, key, l, h) = <<a, b>> /\ l <= a /\ a <= b /\ b <= h /\ b - a < h - l
      BY <1>2, <3>1, FirstChildHalf
    <3>3. b - a \in Nat /\ ~(d <= b - a)
      BY <2>3, <3>2
    <3>4. search[<<a, b>>] = Place(<<a, b>>)
      BY <2>2, <3>2, <3>3 DEF T
    <3>5. Place(<<l, h>>) = Place(<<a, b>>)
      BY <1>4, <3>1, <3>2
    <3>6. search[<<l, h>>] = search[<<a, b>>]
      BY <1>7, <3>1, <3>2
    <3> QED BY <2>3, <3>4, <3>5, <3>6
  <2> QED BY <2>4, <2>5
<1>9. search[<<1, n>>] = Place(<<1, n>>)
  <2>1. 1 \in 1..n /\ n \in 1..n /\ 1 <= n /\ n - 1 \in Nat
    BY <1>2
  <2> HIDE DEF Place
  <2>2. n - 1 \notin T
    BY <1>8
  <2> QED BY <2>1, <2>2
<1>10. FirstChild(p, key, 1, n, Place(<<1, n>>))
  <2>1. 1 \in 1..n /\ n \in 1..n /\ 1 <= n
    BY <1>2
  <2> HIDE DEF Place
  <2> QED BY <1>3, <2>1
<1> HIDE DEF Place
<1> QED BY <1>1, <1>9, <1>10 DEF n

\* The children of a node end one after the other.
LEMMA ChildrenGrow ==
  ASSUME NEW ht, NEW lo, NEW hi, NEW fst, NEW up, Tree(ht, lo, hi, fst, up),
         NEW p \in 1..Len(nodes), ht[p] # 1,
         NEW i \in 1..nodes[p].count, NEW j \in 1..nodes[p].count, i <= j
  PROVE  hi[fst[p] + i] <= hi[fst[p] + j]
<1>0. Inner(ht, lo, hi, fst, up, p)
  BY InnerNode
<1> DEFINE n == nodes[p].count
           f == fst[p]
           T == {k \in 1..n : i <= k /\ ~(hi[f + i] <= hi[f + k])}
<1>1. /\ n \in Nat \ {0} /\ f \in Nat
      /\ \A k \in 1..n : /\ lo[f + k] \in Nat /\ hi[f + k] \in Nat
                         /\ lo[f + k] <= hi[f + k]
  BY <1>0 DEF Inner
<1>2. \A k \in 1..(n - 1) : lo[f + k + 1] = hi[f + k] + 1
  BY <1>0 DEF Inner
<1>3. i \in 1..n /\ j \in 1..n
  OBVIOUS
<1> HIDE DEF n, f
<1>4. T = {}
  <2> SUFFICES ASSUME T # {} PROVE FALSE
    OBVIOUS
  <2>1. T \subseteq Nat
    BY <1>1
  <2> HIDE DEF T
  <2>2. PICK k \in T : \A m \in T : k <= m
    BY <2>1, LeastNumber
  <2>3. k \in 1..n /\ i <= k /\ ~(hi[f + i] <= hi[f + k]) /\ hi[f + i] \in Nat /\ hi[f + k] \in Nat
    BY <1>1, <1>3, <2>2 DEF T
  <2>4. k # i
    BY <2>3
  <2>5. k - 1 \in 1..n /\ k - 1 \in 1..(n - 1) /\ i <= k - 1 /\ ~(k <= k - 1) /\ f + (k - 1) + 1 = f + k
    BY <1>1, <1>3, <2>3, <2>4
  <2>6. hi[f + i] <= hi[f + (k - 1)]
    BY <2>2, <2>5 DEF T
  <2>7. hi[f + (k - 1)] + 1 = lo[f + k] /\ lo[f + k] <= hi[f + k] /\ hi[f + (k - 1)] \in Nat /\ lo[f + k] \in Nat
    BY <1>1, <1>2, <2>3, <2>5
  <2> QED BY <2>3, <2>6, <2>7
<1> QED BY <1>3, <1>4 DEF n, f

\* The entry that a search for a key goes to: the first that is not smaller, or
\* the last of the file.
Sought(key, g) ==
  /\ g \in 1..N /\ g \in Nat
  /\ \A e \in 1..N : e < g => entries[e] < key
  /\ \A e \in 1..N : entries[e] >= key => g <= e
  /\ entries[g] >= key \/ (g = N /\ \A e \in 1..N : entries[e] < key)

LEMMA SoughtExists ==
  ASSUME Basics, N > 0, NEW key \in Nat
  PROVE  \E g : Sought(key, g)
<1> DEFINE T == {e \in 1..N : entries[e] >= key \/ e = N}
<1>1. N \in Nat /\ \A e \in 1..N : entries[e] \in Nat
  BY LengthType DEF Basics, N
<1>2. T \subseteq Nat /\ N \in T
  BY <1>1
<1> HIDE DEF T
<1>3. PICK g \in T : \A e \in T : g <= e
  BY <1>2, LeastNumber
<1>4. g \in 1..N /\ g \in Nat /\ (entries[g] >= key \/ g = N)
  BY <1>3 DEF T
<1>5. \A e \in 1..N : e < g => entries[e] < key
  BY <1>1, <1>3, <1>4 DEF T
<1>6. \A e \in 1..N : entries[e] >= key => g <= e
  BY <1>1, <1>4, <1>5
<1>7. entries[g] >= key \/ (g = N /\ \A e \in 1..N : entries[e] < key)
  BY <1>1, <1>4, <1>5
<1> QED BY <1>4, <1>5, <1>6, <1>7 DEF Sought

\* A search goes on in the child over the entry that it is to find.
LEMMA BranchCovers ==
  ASSUME NEW ht, NEW lo, NEW hi, NEW fst, NEW up, Tree(ht, lo, hi, fst, up),
         NEW p \in 1..Len(nodes), ht[p] # 1, NEW key \in Nat,
         NEW g, Sought(key, g), lo[p] <= g, g <= hi[p]
  PROVE  LET i == Branch(p, key)
             c == fst[p] + i
         IN  /\ i \in 1..nodes[p].count /\ nodes[p].children[i].offset = c
             /\ c \in 1..Len(nodes) /\ ht[c] = ht[p] - 1
             /\ lo[c] <= g /\ g <= hi[c]
             /\ nodes[p].children[i].start = lo[c] - 1
             /\ nodes[p].children[i].right = entries[hi[c]]
<1>0. Inner(ht, lo, hi, fst, up, p)
  BY InnerNode
<1> DEFINE n == nodes[p].count
           f == fst[p]
           i == Branch(p, key)
           c == f + i
<1>1. /\ n \in Nat \ {0} /\ f \in Nat /\ lo[p] = lo[f + 1] /\ hi[p] = hi[f + n]
      /\ lo[p] \in Nat /\ hi[p] \in Nat
  BY <1>0 DEF Inner
<1>2. \A k \in 1..n : /\ f + k \in 1..Len(nodes) /\ ht[f + k] = ht[p] - 1
                      /\ lo[f + k] \in Nat /\ hi[f + k] \in Nat
                      /\ 1 <= lo[f + k] /\ lo[f + k] <= hi[f + k] /\ hi[f + k] <= N
                      /\ nodes[p].children[k].start = lo[f + k] - 1
                      /\ nodes[p].children[k].right = entries[hi[f + k]]
                      /\ nodes[p].children[k].offset = f + k
  BY <1>0 DEF Inner
<1>3. \A k \in 1..(n - 1) : lo[f + k + 1] = hi[f + k] + 1
  BY <1>0 DEF Inner
<1>4. /\ Sorted /\ N \in Nat /\ \A e \in 1..N : entries[e] \in Nat
  BY LengthType DEF Tree, Basics, N
<1>5. \A k \in 1..n : NotLeftOf(p, key, k) <=> key <= entries[hi[f + k]]
  BY <1>2 DEF NotLeftOf
<1>6. \A k \in 1..n : hi[f + k] \in 1..N
  BY <1>2
<1>7. ASSUME NEW j \in 1..n, NEW k \in 1..n, j <= k, NotLeftOf(p, key, j) PROVE NotLeftOf(p, key, k)
  <2>1. hi[f + j] <= hi[f + k]
    BY <1>7, ChildrenGrow
  <2>2. entries[hi[f + j]] <= entries[hi[f + k]]
    BY <1>4, <1>6, <2>1 DEF Sorted
  <2>3. entries[hi[f + j]] \in Nat /\ entries[hi[f + k]] \in Nat
    BY <1>4, <1>6
  <2> QED BY <1>5, <1>7, <2>2, <2>3
<1>8. FirstChild(p, key, 1, n, i)
  BY <1>1, <1>7, BranchFinds
<1> HIDE DEF n, f, i
<1>9. i \in 1..n /\ (i = n \/ NotLeftOf(p, key, i)) /\ \A j \in 1..(i - 1) : ~NotLeftOf(p, key, j)
  BY <1>8 DEF FirstChild
<1>10. /\ g \in Nat /\ g \in 1..N
       /\ \A e \in 1..N : entries[e] >= key => g <= e
       /\ entries[g] >= key \/ (g = N /\ \A e \in 1..N : entries[e] < key)
  BY DEF Sought
<1>11. lo[c] <= g
  <2>1. CASE i = 1
    BY <1>1, <2>1
  <2>2. CASE i # 1
    <3>1. i - 1 \in 1..(n - 1) /\ i - 1 \in 1..(i - 1) /\ i - 1 \in 1..n /\ f + (i - 1) + 1 = f + i
      BY <1>1, <1>9, <2>2
    <3> DEFINE r == hi[f + (i - 1)]
    <3>2. r \in 1..N /\ r \in Nat /\ ~(key <= entries[r]) /\ lo[c] = r + 1 /\ lo[c] <= N
      <4>1. r \in 1..N /\ r \in Nat
        BY <1>6, <3>1
      <4>2. ~NotLeftOf(p, key, i - 1)
        BY <1>9, <3>1
      <4>3. ~(key <= entries[r])
        BY <1>5, <3>1, <4>2
      <4>4. lo[c] = r + 1
        BY <1>3, <3>1
      <4>5. lo[c] \in Nat /\ hi[c] \in Nat /\ lo[c] <= hi[c] /\ hi[c] <= N
        BY <1>2, <1>9
      <4> QED BY <1>4, <4>1, <4>3, <4>4, <4>5
    <3> HIDE DEF r
    <3>3. entries[r] < key
      BY <1>4, <3>2
    <3>4. ~(g <= r)
      <4>1. ASSUME g <= r PROVE FALSE
        <5>1. entries[g] <= entries[r] /\ entries[g] \in Nat /\ entries[r] \in Nat
          BY <1>4, <1>10, <3>2, <4>1 DEF Sorted
        <5>2. g = N
          BY <1>10, <3>3, <5>1
        <5> QED BY <1>4, <3>2, <4>1, <5>2
      <4> QED BY <4>1
    <3> QED BY <1>10, <3>2, <3>4
  <2> QED BY <2>1, <2>2
<1>12. g <= hi[c]
  <2>1. CASE i = n
    BY <1>1, <2>1
  <2>2. CASE i # n
    <3>1. key <= entries[hi[c]] /\ hi[c] \in 1..N
      BY <1>5, <1>6, <1>9, <2>2
    <3>2. entries[hi[c]] >= key
      BY <1>4, <3>1
    <3> QED BY <1>10, <3>1, <3>2
  <2> QED BY <2>1, <2>2
<1>13. /\ c \in 1..Len(nodes) /\ ht[c] = ht[p] - 1
       /\ nodes[p].children[i].start = lo[c] - 1
       /\ nodes[p].children[i].right = entries[hi[c]]
       /\ nodes[p].children[i].offset = c
  BY <1>2, <1>9
<1> QED BY <1>9, <1>11, <1>12, <1>13 DEF i, n, f, c

\* The nodes of a height that have the entry that is sought.
Over(ht, lo, hi, g, h) == {p \in 1..Len(nodes) : ht[p] = h /\ lo[p] <= g /\ g <= hi[p]}

ChildFor(p, key) == nodes[p].children[Branch(p, key)].offset

\* find passes on every level the node that has the entry it is to find.
LEMMA PathFinds ==
  ASSUME NEW ht, NEW lo, NEW hi, NEW fst, NEW up, Tree(ht, lo, hi, fst, up),
         NEW key \in Nat, NEW g, Sought(key, g)
  PROVE  /\ \A h \in 1..Height : PathTo(key)[h] \in Over(ht, lo, hi, g, h)
         /\ \A h \in 1..(Height - 1) : PathTo(key)[h] = ChildFor(PathTo(key)[h + 1], key)
<1> DEFINE X == 1..Len(nodes)
           S == [h \in 1..Height |-> Over(ht, lo, hi, g, h)]
           step == [h \in 1..Height |-> [x \in X |-> ChildFor(x, key)]]
           a == footer.root
           path == CHOOSE f : f = [h \in 1..Height |-> IF h = Height THEN a ELSE ChildFor(f[h + 1], key)]
<1>1. /\ Height \in Nat \ {0} /\ footer.root = Len(nodes) /\ Len(nodes) \in Nat \ {0}
      /\ ht[Len(nodes)] = Height /\ lo[Len(nodes)] = 1 /\ hi[Len(nodes)] = N
      /\ g \in 1..N
  BY DEF Tree, Sought
<1>2. PathTo(key) = path
  BY DEF PathTo, ChildFor
<1>3. \A h \in 1..Height : S[h] = Over(ht, lo, hi, g, h)
  OBVIOUS
<1>4. Height \in 1..Height /\ a \in S[Height]
  <2>1. Height \in 1..Height /\ Len(nodes) \in 1..Len(nodes) /\ 1 <= g /\ g <= N
    BY <1>1
  <2> QED BY <1>1, <1>3, <2>1 DEF Over
<1>5. ASSUME NEW h \in 1..(Height - 1), NEW x \in S[h + 1]
      PROVE  x \in X /\ ChildFor(x, key) \in S[h]
  <2>1. h + 1 \in 1..Height /\ h \in 1..Height /\ h + 1 # 1 /\ h = (h + 1) - 1
    BY <1>1
  <2>2. x \in 1..Len(nodes) /\ ht[x] = h + 1 /\ ht[x] # 1 /\ lo[x] <= g /\ g <= hi[x]
    BY <1>3, <2>1 DEF Over
  <2> DEFINE i == Branch(x, key)
             c == fst[x] + i
  <2>3. /\ nodes[x].children[i].offset = c
        /\ c \in 1..Len(nodes) /\ ht[c] = ht[x] - 1 /\ lo[c] <= g /\ g <= hi[c]
    BY <2>2, BranchCovers
  <2> HIDE DEF c
  <2>4. ChildFor(x, key) = c /\ ht[c] = h
    BY <2>1, <2>2, <2>3 DEF ChildFor
  <2> QED BY <1>3, <2>1, <2>2, <2>3, <2>4 DEF Over
<1> HIDE DEF S, X, a
<1>6. PICK f : GoesDown(f, Height, a, step)
  BY <1>1, DownExists
<1>7. \A h \in 1..Height : h # Height => h \in 1..(Height - 1) /\ h + 1 \in 1..Height
  BY <1>1
<1>8. \A h \in 1..Height : f[h] \in S[h]
  <2>1. \A h \in 1..Height : f[h] = IF h = Height THEN a ELSE step[h][f[h + 1]]
    BY <1>6 DEF GoesDown
  <2>2. f[Height] \in S[Height]
    <3>1. f[Height] = a
      BY <1>4, <2>1, Zenon
    <3> QED BY <1>4, <3>1
  <2>3. ASSUME NEW h \in 1..(Height - 1), f[h + 1] \in S[h + 1] PROVE f[h] \in S[h]
    <3>1. h \in 1..Height /\ h # Height
      BY <1>1
    <3>2. f[h] = step[h][f[h + 1]]
      BY <2>1, <3>1
    <3> QED BY <1>5, <2>3, <3>1, <3>2
  <2> HIDE DEF step
  <2> QED BY <1>1, <2>2, <2>3, DownStays
<1>9. f = [h \in 1..Height |-> IF h = Height THEN a ELSE ChildFor(f[h + 1], key)]
  <2>1. f = [h \in 1..Height |-> IF h = Height THEN a ELSE step[h][f[h + 1]]]
    BY <1>6 DEF GoesDown
  <2>2. ASSUME NEW h \in 1..Height, h # Height PROVE step[h][f[h + 1]] = ChildFor(f[h + 1], key)
    <3>1. f[h + 1] \in X
      BY <1>5, <1>7, <1>8, <2>2
    <3> QED BY <3>1
  <2> HIDE DEF step
  <2> QED BY <2>1, <2>2
<1>10. path = [h \in 1..Height |-> IF h = Height THEN a ELSE ChildFor(path[h + 1], key)]
  BY <1>9
<1> HIDE DEF path
<1>11. \A h \in 1..Height : path[h] = IF h = Height THEN a ELSE ChildFor(path[h + 1], key)
  BY <1>10
<1>12. \A h \in 1..Height : path[h] \in S[h]
  <2>1. path[Height] \in S[Height]
    BY <1>4, <1>11
  <2>2. ASSUME NEW h \in 1..(Height - 1), path[h + 1] \in S[h + 1] PROVE path[h] \in S[h]
    <3>1. h \in 1..Height /\ h # Height
      BY <1>1
    <3>2. path[h] = ChildFor(path[h + 1], key)
      BY <1>11, <3>1
    <3> QED BY <1>5, <2>2, <3>2
  <2> QED BY <1>1, <2>1, <2>2, DownStays
<1>13. \A h \in 1..(Height - 1) : h \in 1..Height /\ h # Height
  BY <1>1
<1> QED BY <1>2, <1>3, <1>11, <1>12, <1>13

\* Where find stops in a leaf.
LEMMA StopsAtFirst ==
  ASSUME NEW ht, NEW lo, NEW hi, NEW fst, NEW up, Tree(ht, lo, hi, fst, up),
         NEW p \in 1..Len(nodes), ht[p] = 1
  PROVE  /\ nodes[p].count = hi[p] - lo[p] + 1 /\ lo[p] \in Nat /\ hi[p] \in Nat
         /\ \A i \in 1..(hi[p] - lo[p] + 1) :
              /\ KeyAt(p, i) = entries[lo[p] + i - 1] /\ lo[p] + i - 1 \in 1..N
              /\ lo[p] + i - 1 >= lo[p] /\ lo[p] + i - 1 <= hi[p]
<1> DEFINE l == lo[p]
           r == hi[p]
<1>1. /\ l \in Nat /\ r \in Nat /\ nodes[p].count = r - l + 1 /\ 1 <= l /\ r <= N /\ N \in Nat
      /\ \A k \in 1..(r - l + 1) : nodes[p].entries[k] = l + k - 1
  BY AtLeaf, LengthType DEF Tree
<1> HIDE DEF l, r
<1>2. \A i \in 1..(r - l + 1) :
         /\ KeyAt(p, i) = entries[l + i - 1] /\ l + i - 1 \in 1..N
         /\ l + i - 1 >= l /\ l + i - 1 <= r
  BY <1>1 DEF KeyAt
<1> QED BY <1>1, <1>2 DEF l, r

FirstHits(p, H) == {[node |-> p, at |-> i] : i \in {k \in H : \A j \in H : k <= j}}

LEMMA FirstHit ==
  ASSUME NEW p, NEW H, H \subseteq Nat, NEW m \in H, \A j \in H : m <= j
  PROVE  FirstHits(p, H) = {[node |-> p, at |-> m]}
<1>1. {k \in H : \A j \in H : k <= j} = {m}
  <2>1. \A k \in H : (\A j \in H : k <= j) => k = m
    <3> SUFFICES ASSUME NEW k \in H, \A j \in H : k <= j PROVE k = m
      OBVIOUS
    <3>1. k <= m /\ m <= k /\ k \in Nat /\ m \in Nat
      OBVIOUS
    <3> QED BY <3>1
  <2> QED BY <2>1
<1> QED BY <1>1 DEF FirstHits

\* find, for a key or a greater one, stops at the entry that is sought, or at
\* nothing; entry_start is that of its leaf.
LEMMA FindAtLeastFinds ==
  ASSUME NEW ht, NEW lo, NEW hi, NEW fst, NEW up, Tree(ht, lo, hi, fst, up),
         NEW key \in Nat, NEW g, Sought(key, g)
  PROVE  LET p == PathTo(key)[1]
         IN  /\ Holds(ht, lo, hi, p, g) /\ EntryStart(key) = lo[p] - 1
             /\ entries[g] >= key => FindAtLeast(key) = {[node |-> p, at |-> g - lo[p] + 1]}
             /\ entries[g] < key => FindAtLeast(key) = {}
<1> DEFINE path == PathTo(key)
           p == path[1]
           l == lo[p]
           r == hi[p]
           H == {i \in 1..nodes[p].count : KeyAt(p, i) >= key}
<1>1. /\ Height \in Nat \ {0} /\ footer.root = Len(nodes) /\ lo[Len(nodes)] = 1
      /\ ht[Len(nodes)] = Height /\ N \in Nat /\ \A e \in 1..N : entries[e] \in Nat
  BY LengthType DEF Tree, Basics, N
<1>2. /\ \A h \in 1..Height : path[h] \in Over(ht, lo, hi, g, h)
      /\ \A h \in 1..(Height - 1) : path[h] = ChildFor(path[h + 1], key)
  BY PathFinds
<1>3. p \in 1..Len(nodes) /\ ht[p] = 1 /\ l <= g /\ g <= r
  <2>1. 1 \in 1..Height
    BY <1>1
  <2> QED BY <1>2, <2>1 DEF Over
<1>4. EntryStart(key) = l - 1
  <2>1. CASE Height < 2
    <3>1. Height = 1 /\ EntryStart(key) = 0
      BY <1>1, <2>1 DEF EntryStart
    <3>2. p = footer.root
      <4>1. path = CHOOSE f : f = [h \in 1..Height |-> IF h = Height THEN footer.root ELSE ChildFor(f[h + 1], key)]
        BY DEF PathTo, ChildFor
      <4> DEFINE f1 == [h \in 1..Height |-> footer.root]
                 Goes(f) == f = [h \in 1..Height |-> IF h = Height THEN footer.root ELSE ChildFor(f[h + 1], key)]
      <4>2. Goes(f1)
        <5>1. \A h \in 1..Height : h = Height
          BY <3>1
        <5> QED BY <5>1
      <4>3. Goes(path)
        <5> HIDE DEF path, f1
        <5> QED BY <4>1, <4>2
      <4> HIDE DEF path
      <4>4. path[1] = IF 1 = Height THEN footer.root ELSE ChildFor(path[2], key)
        BY <3>1, <4>3
      <4> QED BY <3>1, <4>4
    <3> QED BY <1>1, <3>1, <3>2
  <2>2. CASE ~(Height < 2)
    <3>1. 1 \in 1..(Height - 1) /\ 2 \in 1..Height
      BY <1>1, <2>2
    <3> DEFINE q == path[2]
               i == Branch(q, key)
    <3>2. q \in 1..Len(nodes) /\ ht[q] = 2 /\ lo[q] <= g /\ g <= hi[q]
      BY <1>2, <3>1 DEF Over
    <3>3. nodes[q].children[i].offset = fst[q] + i /\ nodes[q].children[i].start = lo[fst[q] + i] - 1
      BY <3>2, BranchCovers
    <3>4. p = nodes[q].children[i].offset
      BY <1>2, <3>1 DEF ChildFor
    <3>5. EntryStart(key) = nodes[q].children[i].start
      BY <2>2 DEF EntryStart
    <3> QED BY <3>3, <3>4, <3>5
  <2> QED BY <2>1, <2>2
<1>5. FindAtLeast(key) = FirstHits(p, H)
  <2>1. Height # 0
    BY <1>1
  <2> QED BY <2>1 DEF FindAtLeast, FoundIn, FirstHits
<1> HIDE DEF p, path
<1>6. /\ nodes[p].count = r - l + 1 /\ l \in Nat /\ r \in Nat
      /\ \A i \in 1..(r - l + 1) : /\ KeyAt(p, i) = entries[l + i - 1] /\ l + i - 1 \in 1..N
                                   /\ l + i - 1 >= l /\ l + i - 1 <= r
  BY <1>3, StopsAtFirst
<1> HIDE DEF l, r
<1>7. g \in Nat /\ g \in 1..N /\ (\A e \in 1..N : e < g => entries[e] < key)
      /\ (entries[g] >= key \/ \A e \in 1..N : entries[e] < key)
  BY DEF Sought
<1>8. ASSUME entries[g] >= key PROVE FindAtLeast(key) = {[node |-> p, at |-> g - l + 1]}
  <2>1. g - l + 1 \in 1..(r - l + 1) /\ l + (g - l + 1) - 1 = g
    BY <1>3, <1>6, <1>7
  <2>2. g - l + 1 \in H
    BY <1>6, <1>8, <2>1
  <2>3. ASSUME NEW j \in H PROVE g - l + 1 <= j
    <3>1. j \in 1..(r - l + 1) /\ entries[l + j - 1] >= key /\ l + j - 1 \in 1..N
      BY <1>6
    <3>2. entries[l + j - 1] \in Nat
      BY <1>1, <3>1
    <3>3. ~(l + j - 1 < g)
      BY <1>7, <3>1, <3>2
    <3> QED BY <1>6, <1>7, <3>1, <3>3
  <2>4. H \subseteq Nat
    BY <1>6
  <2> HIDE DEF H
  <2> QED BY <1>5, <2>2, <2>3, <2>4, FirstHit
<1>9. ASSUME entries[g] < key PROVE FindAtLeast(key) = {}
  <2>1. \A e \in 1..N : entries[e] < key /\ entries[e] \in Nat
    BY <1>1, <1>7, <1>9
  <2>2. H = {}
    BY <1>6, <2>1
  <2> QED BY <1>5, <2>2 DEF FirstHits
<1>10. Holds(ht, lo, hi, p, g)
  BY <1>3 DEF Holds, l, r
<1> QED BY <1>4, <1>8, <1>9, <1>10 DEF p, path, l

LEMMA FirstIs ==
  ASSUME NEW T, T \subseteq Nat, NEW m \in T, \A e \in T : m <= e
  PROVE  FirstOf(T) = m
<1> DEFINE x == CHOOSE e \in T : \A d \in T : e <= d
<1>1. x \in T /\ \A d \in T : x <= d
  OBVIOUS
<1> HIDE DEF x
<1>2. x <= m /\ m <= x /\ x \in Nat /\ m \in Nat
  BY <1>1
<1>3. FirstOf(T) = x
  BY DEF FirstOf, x
<1> QED BY <1>2, <1>3

LEMMA KeysAreNumbers == KeysAround \subseteq Nat
<1>1. Keys \subseteq Nat
  BY TreeAssumption
<1>2. {key + 1 : key \in Keys} \subseteq Nat
  <2> SUFFICES ASSUME NEW key \in Keys PROVE key + 1 \in Nat
    OBVIOUS
  <2> QED BY <1>1
<1>3. {0} \subseteq Nat
  OBVIOUS
<1> QED BY <1>1, <1>2, <1>3 DEF KeysAround

\* find, for a key itself, stops at the first entry with it, or at nothing.
LEMMA FindExactFinds ==
  ASSUME NEW ht, NEW lo, NEW hi, NEW fst, NEW up, Tree(ht, lo, hi, fst, up),
         NEW key \in Nat, NEW g, Sought(key, g)
  PROVE  LET p == PathTo(key)[1]
         IN  FindExact(key) = IF entries[g] = key THEN {[node |-> p, at |-> g - lo[p] + 1]} ELSE {}
<1> DEFINE path == PathTo(key)
           p == path[1]
           l == lo[p]
           r == hi[p]
           H == {i \in 1..nodes[p].count : KeyAt(p, i) = key}
           outside(q) == key < nodes[q].left \/ key > nodes[q].children[Branch(q, key)].right
           Out == \E h \in 2..Height : outside(path[h])
<1>1. /\ Height \in Nat \ {0} /\ N \in Nat /\ \A e \in 1..N : entries[e] \in Nat
      /\ Sorted
  BY LengthType DEF Tree, Basics, N
<1>2. Holds(ht, lo, hi, p, g)
  BY FindAtLeastFinds
<1>3. p \in 1..Len(nodes) /\ ht[p] = 1 /\ l <= g /\ g <= r
  BY <1>2 DEF Holds
<1>4. FindExact(key) = IF Out THEN {} ELSE FirstHits(p, H)
  <2>1. Height # 0
    BY <1>1
  <2> QED BY <2>1 DEF FindExact, FoundIn, FirstHits
<1>5. g \in Nat /\ g \in 1..N /\ (\A e \in 1..N : e < g => entries[e] < key)
      /\ (entries[g] >= key \/ \A e \in 1..N : entries[e] < key)
  BY DEF Sought
<1>6. ASSUME entries[g] = key, NEW h \in 2..Height PROVE ~outside(path[h])
  <2>1. h \in 1..Height /\ h # 1
    BY <1>1
  <2> DEFINE q == path[h]
             c == fst[q] + Branch(q, key)
  <2>2. q \in 1..Len(nodes) /\ ht[q] = h /\ lo[q] <= g /\ g <= hi[q]
    BY <2>1, PathFinds DEF Over
  <2> HIDE DEF q
  <2>3. /\ lo[c] <= g /\ g <= hi[c] /\ c \in 1..Len(nodes)
        /\ nodes[q].children[Branch(q, key)].right = entries[hi[c]]
    BY <2>1, <2>2, BranchCovers
  <2>3a. Inner(ht, lo, hi, fst, up, q)
    BY <2>1, <2>2, InnerNode
  <2>4. nodes[q].left = entries[lo[q]] /\ lo[q] \in Nat /\ 1 <= lo[q]
    BY <2>3a DEF Inner
  <2>5. hi[c] \in 1..N
    <3>1. hi[c] \in Nat /\ 1 <= lo[c] /\ lo[c] <= hi[c] /\ hi[c] <= N /\ lo[c] \in Nat
      BY <2>3 DEF Tree, Shape, Typed, Covers
    <3> QED BY <1>1, <3>1
  <2> HIDE DEF c
  <2>6. lo[q] \in 1..N
    BY <1>1, <1>5, <2>2, <2>4
  <2>7. entries[lo[q]] <= entries[g] /\ entries[g] <= entries[hi[c]]
    BY <1>1, <1>5, <2>2, <2>3, <2>5, <2>6 DEF Sorted
  <2>8. entries[lo[q]] \in Nat /\ entries[hi[c]] \in Nat
    BY <1>1, <2>5, <2>6
  <2>9. ~(key < nodes[q].left) /\ ~(key > nodes[q].children[Branch(q, key)].right)
    BY <1>6, <2>3, <2>4, <2>7, <2>8
  <2> QED BY <2>9 DEF q
<1> HIDE DEF p, path, outside
<1>7. /\ nodes[p].count = r - l + 1 /\ l \in Nat /\ r \in Nat
      /\ \A i \in 1..(r - l + 1) : /\ KeyAt(p, i) = entries[l + i - 1] /\ l + i - 1 \in 1..N
                                   /\ l + i - 1 >= l /\ l + i - 1 <= r
  BY <1>3, StopsAtFirst
<1> HIDE DEF l, r
<1>8. ASSUME entries[g] = key PROVE FindExact(key) = {[node |-> p, at |-> g - l + 1]}
  <2>1. g - l + 1 \in 1..(r - l + 1) /\ l + (g - l + 1) - 1 = g
    BY <1>3, <1>5, <1>7
  <2>2. g - l + 1 \in H
    BY <1>7, <1>8, <2>1
  <2>3. ASSUME NEW j \in H PROVE g - l + 1 <= j
    <3>1. j \in 1..(r - l + 1) /\ entries[l + j - 1] = key /\ l + j - 1 \in 1..N
      BY <1>7
    <3>2. ~(l + j - 1 < g)
      <4>1. l + j - 1 < g => entries[l + j - 1] < key
        BY <1>5, <3>1
      <4> QED BY <3>1, <4>1
    <3> QED BY <1>5, <1>7, <3>1, <3>2
  <2>4. H \subseteq Nat /\ ~Out
    BY <1>6, <1>7, <1>8
  <2> HIDE DEF H, Out
  <2> QED BY <1>4, <2>2, <2>3, <2>4, FirstHit
<1>9. ASSUME entries[g] # key PROVE FindExact(key) = {}
  <2>1. \A e \in 1..N : entries[e] # key
    <3> SUFFICES ASSUME NEW e \in 1..N, entries[e] = key PROVE FALSE
      OBVIOUS
    <3>1. ~(e < g)
      <4>1. e < g => entries[e] < key
        BY <1>5
      <4> QED BY <4>1
    <3>2. entries[g] >= key
      <4>1. ~(entries[e] < key)
        OBVIOUS
      <4> QED BY <1>5, <4>1
    <3>3. g <= e
      BY <1>5, <3>1
    <3>4. entries[g] <= entries[e] /\ entries[g] \in Nat
      BY <1>1, <1>5, <3>3 DEF Sorted
    <3> QED BY <1>9, <3>2, <3>4
  <2>2. H = {}
    BY <1>7, <2>1
  <2> QED BY <1>4, <2>2 DEF FirstHits
<1> QED BY <1>8, <1>9 DEF p, path, l

LEMMA GetState == ASSUME TreeInv PROVE GetReadsFirst
<1> SUFFICES ASSUME Done, NEW key \in KeysAround
             PROVE  Get(key) = IF Having({key}) = {} THEN {} ELSE {FirstOf(Having({key}))}
  BY DEF GetReadsFirst
<1>1. N \in Nat /\ Basics /\ (N = 0 => Height = 0) /\ key \in Nat
  BY DoneTree, KeysAreNumbers
<1>2. DOMAIN entries = 1..N /\ Having({key}) = {e \in 1..N : entries[e] = key}
  BY <1>1 DEF Basics, N, Having
<1>3. CASE N = 0
  <2>1. FindExact(key) = {} /\ Having({key}) = {}
    BY <1>1, <1>2, <1>3 DEF FindExact
  <2> QED BY <2>1 DEF Get
<1>4. CASE N # 0
  <2>1. N > 0
    BY <1>1, <1>4
  <2>2. PICK ht, lo, hi, fst, up : Tree(ht, lo, hi, fst, up)
    BY <2>1, DoneTree
  <2>3. PICK g : Sought(key, g)
    BY <1>1, <2>1, SoughtExists
  <2>4. /\ g \in Nat /\ g \in 1..N /\ (\A e \in 1..N : e < g => entries[e] < key)
        /\ (\A e \in 1..N : entries[e] >= key => g <= e)
    BY <2>3 DEF Sought
  <2> DEFINE p == PathTo(key)[1]
             x == [node |-> p, at |-> g - lo[p] + 1]
  <2>5. Holds(ht, lo, hi, p, g) /\ FindExact(key) = IF entries[g] = key THEN {x} ELSE {}
    BY <1>1, <2>2, <2>3, FindExactFinds, FindAtLeastFinds
  <2> HIDE DEF p
  <2>6. CASE entries[g] = key
    <3>1. ReadEntry(p, g - lo[p] + 1) = g
      BY <2>2, <2>4, <2>5, ReadsEntry DEF Holds
    <3>2. Get(key) = {g}
      BY <2>5, <2>6, <3>1 DEF Get
    <3>3. g \in Having({key}) /\ Having({key}) \subseteq Nat
      <4> DEFINE W == {e \in 1..N : entries[e] = key}
      <4>1. g \in W
        BY <2>4, <2>6
      <4>2. W \subseteq 1..N /\ 1..N \subseteq Nat
        BY <1>1
      <4> HIDE DEF W
      <4>3. W \subseteq Nat
        BY <4>2
      <4> QED BY <1>2, <4>1, <4>3 DEF W
    <3>4. \A e \in Having({key}) : g <= e
      BY <1>1, <1>2, <2>4
    <3>5. FirstOf(Having({key})) = g
      BY <3>3, <3>4, FirstIs
    <3> QED BY <3>2, <3>3, <3>5
  <2>7. CASE entries[g] # key
    <3>1. Get(key) = {}
      BY <2>5, <2>7 DEF Get
    <3>2. ASSUME NEW e \in 1..N, entries[e] = key PROVE FALSE
      <4>1. g <= e /\ ~(e < g)
        BY <1>1, <2>4, <3>2
      <4>2. entries[g] <= entries[e] /\ entries[g] \in Nat
        BY <1>1, <2>4, <4>1 DEF Basics, Sorted, N
      <4>3. entries[g] < key
        BY <1>1, <2>7, <3>2, <4>2
      <4>4. ~(entries[g] >= key)
        BY <1>1, <4>2, <4>3
      <4>5. \A d \in 1..N : entries[d] < key
        BY <2>3, <4>4 DEF Sought
      <4> QED BY <1>1, <3>2, <4>5
    <3>3. Having({key}) = {}
      BY <1>2, <3>2
    <3> QED BY <3>1, <3>3
  <2> QED BY <2>6, <2>7
<1> QED BY <1>3, <1>4

\* Reader::get reads the first entry with the key, if there is one, also when
\* equal keys fill several nodes.
THEOREM GetIsFirst == ASSUME MaxNodeChildren < NodeLimit PROVE Spec => []GetReadsFirst
<1>1. TreeInv => GetReadsFirst
  BY GetState
<1> QED BY <1>1, TreeHasShape, PTL

-----------------------------------------------------------------------------
(* Iterators from a key.                                                    *)

LEMMA SeekFirstFinds ==
  ASSUME NEW ht, NEW lo, NEW hi, NEW fst, NEW up, Tree(ht, lo, hi, fst, up),
         NEW key \in Nat, NEW g, Sought(key, g)
  PROVE  SeekFirst(key) = IF entries[g] >= key THEN IterAt(ht, lo, hi, g) ELSE End
<1>1. g \in Nat /\ g \in 1..N /\ N \in Nat /\ footer.count = N /\ \A e \in 1..N : entries[e] \in Nat
  BY LengthType DEF Sought, Tree, Basics, N
<1> DEFINE p == PathTo(key)[1]
           x == [node |-> p, at |-> g - lo[p] + 1]
<1>2. /\ Holds(ht, lo, hi, p, g) /\ EntryStart(key) = lo[p] - 1
      /\ entries[g] >= key => FindAtLeast(key) = {x}
      /\ entries[g] < key => FindAtLeast(key) = {}
  BY FindAtLeastFinds
<1>3. x.node = p /\ x.at = g - lo[p] + 1
  OBVIOUS
<1> HIDE DEF p, x
<1>4. CASE entries[g] >= key
  <2> DEFINE f == CHOOSE y \in FindAtLeast(key) : TRUE
  <2>1. FindAtLeast(key) = {x}
    BY <1>2, <1>4
  <2>2. f = x
    BY <2>1
  <2>3. SeekFirst(key) = Iterator(f.node, f.at, N - (EntryStart(key) + f.at - 1))
    BY <1>1, <2>1 DEF SeekFirst
  <2> HIDE DEF f
  <2>4. SeekFirst(key) = Iterator(p, g - lo[p] + 1, N - ((lo[p] - 1) + (g - lo[p] + 1) - 1))
    BY <1>2, <1>3, <2>2, <2>3
  <2>5. lo[p] \in Nat
    BY <1>2, AtLeaf DEF Holds
  <2>6. N - ((lo[p] - 1) + (g - lo[p] + 1) - 1) = N - g + 1
    <3> DEFINE l == lo[p]
    <3>1. l \in Nat
      BY <2>5
    <3> HIDE DEF l
    <3>2. N - ((l - 1) + (g - l + 1) - 1) = N - g + 1
      BY <1>1, <3>1
    <3> QED BY <3>2 DEF l
  <2>7. IterAt(ht, lo, hi, g) = Iterator(p, g - lo[p] + 1, N - g + 1)
    BY <1>1, <1>2, IterAtLeaf
  <2> QED BY <1>4, <2>4, <2>6, <2>7
<1>5. CASE ~(entries[g] >= key)
  <2>1. entries[g] < key
    BY <1>1, <1>5
  <2>2. FindAtLeast(key) = {}
    BY <1>2, <2>1
  <2> QED BY <1>5, <2>2 DEF SeekFirst
<1> QED BY <1>4, <1>5

LEMMA NothingFirst == FirstOf({}) = N + 1
BY DEF FirstOf, N

LEMMA SeekFirstState == ASSUME TreeInv PROVE SeekFirstIsLeast
<1> SUFFICES ASSUME Done, NEW key \in KeysAround
             PROVE  Visited(SeekFirst(key)) = From(FirstOf({e \in DOMAIN entries : entries[e] >= key}))
  BY DEF SeekFirstIsLeast
<1> DEFINE W == {e \in DOMAIN entries : entries[e] >= key}
<1>1. N \in Nat /\ Basics /\ (N = 0 => Height = 0) /\ key \in Nat /\ End.remaining = 0
  BY DoneTree, KeysAreNumbers DEF End, Iterator
<1>2. W = {e \in 1..N : entries[e] >= key} /\ W \subseteq Nat
  <2>1. DOMAIN entries = 1..N
    BY <1>1 DEF Basics, N
  <2>2. W \subseteq 1..N /\ 1..N \subseteq Nat
    BY <1>1, <2>1
  <2> QED BY <2>1, <2>2
<1>3. ASSUME W = {}, SeekFirst(key) = End PROVE Visited(SeekFirst(key)) = From(FirstOf(W))
  <2>1. FirstOf(W) = N + 1 /\ N + 1 \in Nat /\ N + 1 > N
    BY <1>1, <1>3, NothingFirst
  <2> HIDE DEF W
  <2> QED BY <1>1, <1>3, <2>1, VisitedNothing
<1>4. CASE N = 0
  <2>1. FindAtLeast(key) = {}
    BY <1>1, <1>4 DEF FindAtLeast
  <2>2. SeekFirst(key) = End
    BY <2>1 DEF SeekFirst
  <2>3. W = {}
    BY <1>2, <1>4
  <2> QED BY <1>3, <2>2, <2>3
<1>5. CASE N # 0
  <2>1. N > 0
    BY <1>1, <1>5
  <2>2. PICK ht, lo, hi, fst, up : Tree(ht, lo, hi, fst, up)
    BY <2>1, DoneTree
  <2>3. PICK g : Sought(key, g)
    BY <1>1, <2>1, SoughtExists
  <2>4. SeekFirst(key) = IF entries[g] >= key THEN IterAt(ht, lo, hi, g) ELSE End
    BY <1>1, <2>2, <2>3, SeekFirstFinds
  <2>5. CASE entries[g] >= key
    <3>1. g \in 1..N /\ \A e \in 1..N : entries[e] >= key => g <= e
      BY <2>3 DEF Sought
    <3>2. g \in W /\ \A e \in W : g <= e
      BY <1>2, <2>5, <3>1
    <3> HIDE DEF W
    <3>3. FirstOf(W) = g
      BY <1>2, <3>2, FirstIs
    <3>4. Visited(SeekFirst(key)) = From(g)
      BY <2>2, <2>4, <2>5, <3>1, VisitedFrom
    <3> QED BY <3>3, <3>4 DEF W
  <2>6. CASE ~(entries[g] >= key)
    <3>1. \A e \in 1..N : entries[e] < key /\ entries[e] \in Nat
      BY <1>1, <2>3, <2>6 DEF Sought, Basics, N
    <3>2. W = {}
      BY <1>1, <1>2, <3>1
    <3> QED BY <1>3, <2>4, <2>6, <3>2
  <2> QED BY <2>5, <2>6
<1> QED BY <1>4, <1>5

\* seek_first is at the first entry with the key or a greater one.
THEOREM SeekFirstIsFirst == ASSUME MaxNodeChildren < NodeLimit PROVE Spec => []SeekFirstIsLeast
<1>1. TreeInv => SeekFirstIsLeast
  BY SeekFirstState
<1> QED BY <1>1, TreeHasShape, PTL

\* Where the loop of seek_last ends that starts at the entry g.
StopsAt(key, g, e) ==
  /\ e \in g..N /\ (e = N \/ entries[e + 1] > key)
  /\ \A d \in g..(e - 1) : ~(entries[d + 1] > key)

LEMMA SeekLastFinds ==
  ASSUME NEW ht, NEW lo, NEW hi, NEW fst, NEW up, Tree(ht, lo, hi, fst, up),
         NEW key \in Nat, NEW g, Sought(key, g), entries[g] >= key
  PROVE  \E e : StopsAt(key, g, e) /\ SeekLast(key) = IterAt(ht, lo, hi, e)
<1> DEFINE first == SeekFirst(key)
           pos == Positions(first)
           m == N - g + 1
           stays(n) == n + 1 >= first.remaining \/ KeyAt(pos[n + 1].node, pos[n + 1].at) > key
           Ends(n) == stays(n) /\ \A k \in 0..(n - 1) : ~stays(k)
           x == CHOOSE n \in 0..first.remaining : Ends(n)
<1>1. g \in Nat /\ g \in 1..N /\ N \in Nat /\ m \in Nat \ {0}
  BY LengthType DEF Sought, Tree
<1>2. first = IterAt(ht, lo, hi, g)
  BY SeekFirstFinds
<1>3. first.remaining = m
  BY <1>1, <1>2, NextIsNext
<1>4. \A n \in 0..(m - 1) : g + n \in 1..N /\ pos[n] = IterAt(ht, lo, hi, g + n)
  <2> SUFFICES ASSUME NEW n \in 0..(m - 1)
               PROVE  g + n \in 1..N /\ pos[n] = IterAt(ht, lo, hi, g + n)
    OBVIOUS
  <2>1. g + n \in 1..N /\ n \in 0..(N - g + 1) /\ g + n <= N
    BY <1>1
  <2>2. Positions(IterAt(ht, lo, hi, g))[n] = IterAt(ht, lo, hi, g + n)
    BY <1>1, <2>1, PositionsFrom
  <2> QED BY <1>2, <2>1, <2>2
<1>5. SeekLast(key) = pos[x]
  BY <1>1, <1>3 DEF SeekLast
<1> HIDE DEF first, pos
<1>6. \A n \in 0..(m - 1) : stays(n) <=> (g + n = N \/ entries[g + n + 1] > key)
  <2> SUFFICES ASSUME NEW n \in 0..(m - 1)
               PROVE  stays(n) <=> (g + n = N \/ entries[g + n + 1] > key)
    OBVIOUS
  <2>1. CASE n = m - 1
    <3>1. g + n = N /\ n + 1 >= m
      BY <1>1, <2>1
    <3> QED BY <1>3, <3>1
  <2>2. CASE n # m - 1
    <3>1. n + 1 \in 0..(m - 1) /\ ~(n + 1 >= m) /\ g + n # N /\ g + (n + 1) = g + n + 1
      BY <1>1, <2>2
    <3>2. KeyAt(pos[n + 1].node, pos[n + 1].at) = entries[g + n + 1]
      BY <1>4, <3>1, NextIsNext
    <3> QED BY <1>3, <3>1, <3>2
  <2> QED BY <2>1, <2>2
<1> HIDE DEF stays
<1>7. \E n \in 0..first.remaining : Ends(n)
  <2> DEFINE T == {n \in 0..(m - 1) : stays(n)}
  <2>1. m - 1 \in 0..(m - 1) /\ g + (m - 1) = N
    BY <1>1
  <2>2. m - 1 \in T /\ T \subseteq Nat
    BY <1>1, <1>6, <2>1
  <2> HIDE DEF T
  <2>3. PICK n \in T : \A k \in T : n <= k
    BY <2>2, LeastNumber
  <2>4. n \in 0..(m - 1) /\ stays(n)
    BY <2>3 DEF T
  <2>5. ASSUME NEW k \in 0..(n - 1) PROVE ~stays(k)
    <3>1. k \in 0..(m - 1) /\ ~(n <= k)
      BY <1>1, <2>4
    <3> QED BY <2>3, <3>1 DEF T
  <2>6. n \in 0..m
    BY <1>1, <2>4
  <2> QED BY <1>3, <2>4, <2>5, <2>6
<1>8. x \in 0..m /\ Ends(x)
  <2> HIDE DEF Ends
  <2> QED BY <1>3, <1>7
<1> HIDE DEF x
<1>9. x \in 0..(m - 1)
  <2>1. CASE x = m
    <3>1. m - 1 \in 0..(x - 1) /\ m - 1 \in 0..(m - 1) /\ g + (m - 1) = N
      BY <1>1, <2>1
    <3>2. stays(m - 1)
      BY <1>6, <3>1
    <3> QED BY <1>8, <3>1, <3>2
  <2> QED BY <1>1, <1>8, <2>1
<1> DEFINE e == g + x
<1>10. e \in g..N /\ (e = N \/ entries[e + 1] > key)
  <2>1. e \in g..N
    BY <1>1, <1>9
  <2>2. g + x = N \/ entries[g + x + 1] > key
    BY <1>6, <1>8, <1>9
  <2> QED BY <2>1, <2>2
<1>11. ASSUME NEW d \in g..(e - 1) PROVE ~(entries[d + 1] > key)
  <2>1. d - g \in 0..(x - 1) /\ d - g \in 0..(m - 1) /\ g + (d - g) = d
    BY <1>1, <1>9
  <2>2. ~stays(d - g)
    BY <1>8, <2>1
  <2> QED BY <1>6, <2>1, <2>2
<1>12. SeekLast(key) = IterAt(ht, lo, hi, e)
  BY <1>4, <1>5, <1>9
<1> HIDE DEF e
<1>13. StopsAt(key, g, e)
  BY <1>10, <1>11 DEF StopsAt
<1> QED BY <1>12, <1>13

LEMMA LastIs ==
  ASSUME NEW T, T \subseteq Nat, NEW m \in T, \A e \in T : e <= m
  PROVE  LastOf(T) = m
<1> DEFINE x == CHOOSE e \in T : \A d \in T : d <= e
<1>1. x \in T /\ \A d \in T : d <= x
  OBVIOUS
<1> HIDE DEF x
<1>2. x <= m /\ m <= x /\ x \in Nat /\ m \in Nat
  BY <1>1
<1>3. LastOf(T) = x
  BY DEF LastOf, x
<1> QED BY <1>2, <1>3

\* The entries around the place where seek_last stops.
LEMMA AroundLast ==
  ASSUME Basics, NEW key \in Nat, NEW g, Sought(key, g), entries[g] >= key,
         NEW e, StopsAt(key, g, e)
  PROVE  /\ e \in 1..N /\ g \in 1..N /\ \A d \in 1..N : d > e => entries[d] > key
         /\ entries[g] = key => entries[e] = key
         /\ entries[g] # key => e = g /\ \A d \in 1..N : entries[d] # key
         /\ \A d \in 1..N : d <= e /\ entries[e] = key => ~(entries[d] > key)
         /\ \A d \in 1..N : d < g => ~(entries[d] > key)
<1>1. N \in Nat /\ Sorted /\ \A d \in 1..N : entries[d] \in Nat
  BY LengthType DEF Basics, N
<1>2. g \in 1..N /\ \A d \in 1..N : d < g => entries[d] < key
  BY DEF Sought
<1>3. /\ e \in g..N /\ (e = N \/ entries[e + 1] > key)
      /\ \A d \in g..(e - 1) : ~(entries[d + 1] > key)
  BY DEF StopsAt
<1>4. e \in 1..N /\ e \in Nat /\ g \in Nat
  BY <1>1, <1>2, <1>3
<1>5. ASSUME NEW c \in 1..N, NEW d \in 1..N, c <= d PROVE entries[c] <= entries[d]
  BY <1>1, <1>5 DEF Sorted
<1>6. ASSUME NEW d \in 1..N, d > e PROVE entries[d] > key
  <2>1. e # N /\ e + 1 \in 1..N /\ e + 1 <= d
    BY <1>1, <1>4, <1>6
  <2>2. entries[e + 1] > key /\ entries[e + 1] <= entries[d]
    BY <1>3, <1>5, <2>1
  <2> QED BY <1>1, <2>1, <2>2
<1>7. ASSUME entries[g] = key PROVE entries[e] = key
  <2>1. CASE e = g
    BY <1>7, <2>1
  <2>2. CASE e # g
    <3>1. e - 1 \in g..(e - 1) /\ (e - 1) + 1 = e /\ g <= e
      BY <1>3, <1>4, <2>2
    <3>2. ~(entries[e] > key)
      BY <1>3, <3>1
    <3>3. entries[g] <= entries[e] /\ entries[e] \in Nat
      BY <1>1, <1>2, <1>4, <1>5, <3>1
    <3> QED BY <1>7, <3>2, <3>3
  <2> QED BY <2>1, <2>2
<1>8. ASSUME entries[g] # key PROVE e = g /\ \A d \in 1..N : entries[d] # key
  <2>1. entries[g] > key /\ entries[g] \in Nat
    BY <1>1, <1>2, <1>8
  <2>2. \A d \in 1..N : d >= g => entries[d] > key
    <3> SUFFICES ASSUME NEW d \in 1..N, d >= g PROVE entries[d] > key
      OBVIOUS
    <3>1. entries[g] <= entries[d] /\ entries[d] \in Nat
      BY <1>1, <1>2, <1>4, <1>5
    <3> QED BY <2>1, <3>1
  <2>3. ASSUME NEW d \in 1..N PROVE entries[d] # key
    <3>1. d < g => entries[d] < key
      BY <1>2
    <3>2. entries[d] \in Nat
      BY <1>1
    <3>3. d >= g => entries[d] > key
      BY <2>2
    <3> QED BY <1>4, <3>1, <3>2, <3>3
  <2>4. e = g
    <3>1. ASSUME e # g PROVE FALSE
      <4>1. g \in g..(e - 1) /\ g + 1 \in 1..N /\ g + 1 >= g
        BY <1>1, <1>2, <1>3, <1>4, <3>1
      <4>2. ~(entries[g + 1] > key)
        BY <1>3, <4>1
      <4> QED BY <2>2, <4>1, <4>2
    <3> QED BY <3>1
  <2> QED BY <2>3, <2>4
<1>9. ASSUME NEW d \in 1..N, d <= e, entries[e] = key PROVE ~(entries[d] > key)
  <2>1. entries[d] <= entries[e] /\ entries[d] \in Nat
    BY <1>1, <1>4, <1>5, <1>9
  <2> QED BY <1>9, <2>1
<1>10. ASSUME NEW d \in 1..N, d < g PROVE ~(entries[d] > key)
  <2>1. entries[d] < key /\ entries[d] \in Nat
    BY <1>1, <1>2, <1>10
  <2> QED BY <2>1
<1> QED BY <1>2, <1>4, <1>6, <1>7, <1>8, <1>9, <1>10

LEMMA SeekLastState == ASSUME TreeInv PROVE SeekLastAndNext
<1> SUFFICES ASSUME Done, NEW key \in KeysAround
             PROVE  /\ Having({key}) # {} => Visited(SeekLast(key)) = From(LastOf(Having({key})))
                    /\ Having({key}) = {} => SeekLast(key) = SeekFirst(key)
                    /\ Visited(SeekNext(key)) = From(FirstOf({e \in DOMAIN entries : entries[e] > key}))
  BY DEF SeekLastAndNext
<1> DEFINE W == {e \in DOMAIN entries : entries[e] > key}
           K == Having({key})
<1>1. N \in Nat /\ Basics /\ (N = 0 => Height = 0) /\ key \in Nat /\ End.remaining = 0
  BY DoneTree, KeysAreNumbers DEF End, Iterator
<1>2. /\ \A e : e \in W <=> e \in 1..N /\ entries[e] > key
      /\ \A e : e \in K <=> e \in 1..N /\ entries[e] = key
      /\ W \subseteq Nat /\ K \subseteq Nat
  <2>1. DOMAIN entries = 1..N /\ 1..N \subseteq Nat
    BY <1>1 DEF Basics, N
  <2>2. W \subseteq 1..N /\ K \subseteq 1..N
    BY <2>1 DEF Having
  <2>3. /\ \A e : e \in W <=> e \in 1..N /\ entries[e] > key
        /\ \A e : e \in K <=> e \in 1..N /\ entries[e] = key
    BY <2>1 DEF Having
  <2>4. W \subseteq Nat /\ K \subseteq Nat
    <3> HIDE DEF W, K
    <3> QED BY <2>1, <2>2
  <2> QED BY <2>3, <2>4
<1> HIDE DEF W, K
<1>3. ASSUME SeekFirst(key) = End, W = {}, K = {}
      PROVE  SeekLast(key) = SeekFirst(key) /\ Visited(SeekNext(key)) = From(FirstOf(W))
  <2>1. SeekLast(key) = End
    BY <1>1, <1>3 DEF SeekLast
  <2>2. SeekNext(key) = End
    <3>1. ~(End.remaining > 0)
      BY <1>1
    <3> QED BY <2>1, <3>1 DEF SeekNext
  <2>3. FirstOf(W) = N + 1 /\ N + 1 \in Nat /\ N + 1 > N
    BY <1>1, <1>3, NothingFirst
  <2> QED BY <1>1, <1>3, <2>1, <2>2, <2>3, VisitedNothing
<1>4. CASE N = 0
  <2>1. FindAtLeast(key) = {}
    BY <1>1, <1>4 DEF FindAtLeast
  <2>2. SeekFirst(key) = End
    BY <2>1 DEF SeekFirst
  <2>3. W = {} /\ K = {}
    BY <1>2, <1>4
  <2> QED BY <1>3, <2>2, <2>3 DEF W, K
<1>5. CASE N # 0
  <2>1. N > 0
    BY <1>1, <1>5
  <2>2. PICK ht, lo, hi, fst, up : Tree(ht, lo, hi, fst, up)
    BY <2>1, DoneTree
  <2>3. PICK g : Sought(key, g)
    BY <1>1, <2>1, SoughtExists
  <2>4. SeekFirst(key) = IF entries[g] >= key THEN IterAt(ht, lo, hi, g) ELSE End
    BY <1>1, <2>2, <2>3, SeekFirstFinds
  <2>5. CASE ~(entries[g] >= key)
    <3>1. \A e \in 1..N : entries[e] < key /\ entries[e] \in Nat
      BY <1>1, <2>3, <2>5 DEF Sought, Basics, N
    <3>2. W = {} /\ K = {}
      BY <1>1, <1>2, <3>1
    <3> QED BY <1>3, <2>4, <2>5, <3>2 DEF W, K
  <2>6. CASE entries[g] >= key
    <3>1. PICK e : StopsAt(key, g, e) /\ SeekLast(key) = IterAt(ht, lo, hi, e)
      BY <1>1, <2>2, <2>3, <2>6, SeekLastFinds
    <3>2. /\ e \in 1..N /\ g \in 1..N /\ \A d \in 1..N : d > e => entries[d] > key
          /\ entries[g] = key => entries[e] = key
          /\ entries[g] # key => e = g /\ \A d \in 1..N : entries[d] # key
          /\ \A d \in 1..N : d <= e /\ entries[e] = key => ~(entries[d] > key)
          /\ \A d \in 1..N : d < g => ~(entries[d] > key)
      BY <1>1, <2>3, <2>6, <3>1, AroundLast
    <3> DEFINE it == IterAt(ht, lo, hi, e)
    <3>3. /\ it.remaining = N - e + 1 /\ KeyAt(it.node, it.at) = entries[e]
          /\ e < N => NextOf(it) = IterAt(ht, lo, hi, e + 1)
          /\ NextOf(it).remaining = N - e /\ Visited(it) = From(e)
      BY <2>2, <3>2, NextIsNext, VisitedFrom
    <3>4. SeekLast(key) = it
      BY <3>1
    <3> HIDE DEF it
    <3>5. it.remaining > 0
      BY <1>1, <3>2, <3>3
    <3>6. CASE entries[g] = key
      <4>1. entries[e] = key
        BY <3>2, <3>6
      <4>2. e \in K
        BY <1>2, <3>2, <4>1
      <4>3. \A d \in K : d <= e
        <5> SUFFICES ASSUME NEW d \in K PROVE d <= e
          OBVIOUS
        <5>1. d \in 1..N /\ entries[d] = key
          BY <1>2
        <5>2. ~(d > e)
          <6>1. ~(entries[d] > key)
            BY <1>1, <5>1
          <6> QED BY <3>2, <5>1, <6>1
        <5> QED BY <3>2, <5>1, <5>2
      <4>4. Visited(SeekLast(key)) = From(LastOf(K)) /\ K # {}
        BY <1>2, <3>3, <3>4, <4>2, <4>3, LastIs
      <4>5. SeekNext(key) = NextOf(it)
        BY <3>3, <3>4, <3>5, <4>1 DEF SeekNext
      <4>6. CASE e < N
        <5>1. e + 1 \in 1..N
          BY <1>1, <3>2, <4>6
        <5>2. e + 1 \in W
          <6>1. e + 1 > e
            BY <3>2
          <6> QED BY <1>2, <3>2, <5>1, <6>1
        <5>3. \A d \in W : e + 1 <= d
          <6> SUFFICES ASSUME NEW d \in W PROVE e + 1 <= d
            OBVIOUS
          <6>1. d \in 1..N /\ entries[d] > key
            BY <1>2
          <6>2. ~(d <= e)
            BY <3>2, <4>1, <6>1
          <6> QED BY <3>2, <6>1, <6>2
        <5>4. FirstOf(W) = e + 1
          BY <1>2, <5>2, <5>3, FirstIs
        <5>5. Visited(SeekNext(key)) = From(e + 1)
          BY <2>2, <3>3, <4>5, <4>6, <5>1, VisitedFrom
        <5> QED BY <4>4, <5>4, <5>5 DEF W, K
      <4>7. CASE ~(e < N)
        <5>1. e = N /\ NextOf(it).remaining = 0
          BY <1>1, <3>2, <3>3, <4>7
        <5>2. W = {}
          <6> SUFFICES ASSUME NEW d \in W PROVE FALSE
            OBVIOUS
          <6>1. d \in 1..N /\ entries[d] > key /\ d <= e
            BY <1>2, <5>1
          <6> QED BY <3>2, <4>1, <6>1
        <5>3. FirstOf(W) = N + 1 /\ N + 1 \in Nat /\ N + 1 > N
          BY <1>1, <5>2, NothingFirst
        <5>4. Visited(SeekNext(key)) = From(FirstOf(W))
          BY <1>1, <4>5, <5>1, <5>3, VisitedNothing
        <5> QED BY <4>4, <5>4 DEF W, K
      <4> QED BY <4>6, <4>7
    <3>7. CASE entries[g] # key
      <4>1. e = g /\ K = {} /\ entries[e] # key
        BY <1>2, <3>2, <3>7
      <4>2. SeekLast(key) = SeekFirst(key)
        BY <2>4, <2>6, <3>1, <4>1
      <4>3. SeekNext(key) = it
        BY <3>3, <3>4, <4>1 DEF SeekNext
      <4>4. g \in W
        <5>1. entries[g] > key
          <6>1. entries[g] \in Nat
            BY <1>1, <3>2 DEF Basics, N
          <6> QED BY <1>1, <2>6, <3>7, <6>1
        <5> QED BY <1>2, <3>2, <5>1
      <4>5. \A d \in W : g <= d
        <5> SUFFICES ASSUME NEW d \in W PROVE g <= d
          OBVIOUS
        <5>1. d \in 1..N /\ entries[d] > key
          BY <1>2
        <5>2. ~(d < g)
          BY <3>2, <5>1
        <5> QED BY <3>2, <5>1, <5>2
      <4>6. FirstOf(W) = g
        BY <1>2, <4>4, <4>5, FirstIs
      <4> QED BY <3>3, <4>1, <4>2, <4>3, <4>6 DEF W, K
    <3> QED BY <3>6, <3>7
  <2> QED BY <2>5, <2>6
<1> QED BY <1>4, <1>5

\* seek_last is at the last entry with the key, or where seek_first is, and
\* seek_next at the first entry with a greater one.
THEOREM SeekLastIsLast == ASSUME MaxNodeChildren < NodeLimit PROVE Spec => []SeekLastAndNext
<1>1. TreeInv => SeekLastAndNext
  BY SeekLastState
<1> QED BY <1>1, TreeHasShape, PTL


-----------------------------------------------------------------------------
(* Traversal: the values below a node, in order.                            *)

\* The numbers of a set from l to r, in order.
Ascends(q, T, l, r) ==
  /\ q \in Seq(Nat)
  /\ \A i \in 1..Len(q) : q[i] \in T /\ l <= q[i] /\ q[i] <= r
  /\ \A e \in T : l <= e /\ e <= r => \E i \in 1..Len(q) : q[i] = e
  /\ \A i, j \in 1..Len(q) : i < j => q[i] < q[j]

LEMMA AscendsNothing ==
  ASSUME NEW T, NEW l, NEW r, \A e \in T : ~(l <= e /\ e <= r)
  PROVE  Ascends(<<>>, T, l, r)
<1>1. Len(<<>>) = 0 /\ <<>> \in Seq(Nat) /\ 1..0 = {}
  OBVIOUS
<1> QED BY <1>1 DEF Ascends

LEMMA AscendsOne ==
  ASSUME NEW T, T \subseteq Nat, NEW e \in T
  PROVE  Ascends(<<e>>, T, e, e)
<1> DEFINE q == <<e>>
<1>1. q \in Seq(Nat) /\ Len(q) = 1 /\ q[1] = e /\ 1..Len(q) = {1}
  OBVIOUS
<1> HIDE DEF q
<1>2. e \in Nat
  OBVIOUS
<1>3. ASSUME NEW d \in T, e <= d, d <= e PROVE d = e
  BY <1>3
<1>4. \A i \in 1..Len(q) : q[i] \in T /\ e <= q[i] /\ q[i] <= e
  BY <1>1
<1>5. \A d \in T : e <= d /\ d <= e => \E i \in 1..Len(q) : q[i] = d
  BY <1>1, <1>3
<1>6. \A i, j \in 1..Len(q) : i < j => q[i] < q[j]
  BY <1>1
<1> QED BY <1>1, <1>4, <1>5, <1>6 DEF Ascends, q

LEMMA AscendsJoin ==
  ASSUME NEW T, T \subseteq Nat, NEW l \in Nat, NEW m \in Nat, NEW r \in Nat, l <= m + 1, m <= r,
         NEW q, NEW q2, Ascends(q, T, l, m), Ascends(q2, T, m + 1, r)
  PROVE  Ascends(q \o q2, T, l, r)
<1> DEFINE s == q \o q2
           a == Len(q)
           b == Len(q2)
<1>1. /\ q \in Seq(Nat) /\ q2 \in Seq(Nat) /\ a \in Nat /\ b \in Nat
      /\ \A i \in 1..a : q[i] \in T /\ l <= q[i] /\ q[i] <= m /\ q[i] \in Nat
      /\ \A i \in 1..b : q2[i] \in T /\ m + 1 <= q2[i] /\ q2[i] <= r /\ q2[i] \in Nat
      /\ \A e \in T : l <= e /\ e <= m => \E i \in 1..a : q[i] = e
      /\ \A e \in T : m + 1 <= e /\ e <= r => \E i \in 1..b : q2[i] = e
      /\ \A i, j \in 1..a : i < j => q[i] < q[j]
      /\ \A i, j \in 1..b : i < j => q2[i] < q2[j]
  BY DEF Ascends
<1>2. /\ s \in Seq(Nat) /\ Len(s) = a + b
      /\ \A i \in 1..(a + b) : s[i] = IF i <= a THEN q[i] ELSE q2[i - a]
  BY <1>1, ConcatProperties
<1> HIDE DEF s, a, b
<1>3. \A i \in 1..(a + b) : /\ i <= a => i \in 1..a
                            /\ ~(i <= a) => i - a \in 1..b
  BY <1>1
<1>4. ASSUME NEW i \in 1..(a + b) PROVE s[i] \in T /\ l <= s[i] /\ s[i] <= r
  <2>1. CASE i <= a
    <3>1. s[i] = q[i] /\ i \in 1..a
      BY <1>2, <1>3, <2>1
    <3>2. q[i] \in T /\ l <= q[i] /\ q[i] <= m /\ q[i] \in Nat
      BY <1>1, <3>1
    <3> QED BY <3>1, <3>2
  <2>2. CASE ~(i <= a)
    <3>1. s[i] = q2[i - a] /\ i - a \in 1..b
      BY <1>2, <1>3, <2>2
    <3>2. q2[i - a] \in T /\ m + 1 <= q2[i - a] /\ q2[i - a] <= r /\ q2[i - a] \in Nat
      BY <1>1, <3>1
    <3> QED BY <3>1, <3>2
  <2> QED BY <2>1, <2>2
<1>5. ASSUME NEW e \in T, l <= e, e <= r PROVE \E i \in 1..(a + b) : s[i] = e
  <2>1. CASE e <= m
    <3>1. PICK i \in 1..a : q[i] = e
      BY <1>1, <1>5, <2>1
    <3>2. i \in 1..(a + b) /\ i <= a
      BY <1>1
    <3> QED BY <1>2, <3>1, <3>2
  <2>2. CASE ~(e <= m)
    <3>1. m + 1 <= e
      BY <2>2
    <3>2. PICK i \in 1..b : q2[i] = e
      BY <1>1, <1>5, <3>1
    <3>3. i + a \in 1..(a + b) /\ ~(i + a <= a) /\ (i + a) - a = i
      BY <1>1
    <3> QED BY <1>2, <3>2, <3>3
  <2> QED BY <2>1, <2>2
<1>6. ASSUME NEW i \in 1..(a + b), NEW j \in 1..(a + b), i < j PROVE s[i] < s[j]
  <2>1. CASE j <= a
    <3>1. i \in 1..a /\ j \in 1..a /\ s[i] = q[i] /\ s[j] = q[j]
      BY <1>1, <1>2, <1>6, <2>1
    <3> QED BY <1>1, <1>6, <3>1
  <2>2. CASE i <= a /\ ~(j <= a)
    <3>1. i \in 1..a /\ j - a \in 1..b /\ s[i] = q[i] /\ s[j] = q2[j - a]
      BY <1>2, <1>3, <2>2
    <3>2. q[i] <= m /\ m + 1 <= q2[j - a] /\ q[i] \in Nat /\ q2[j - a] \in Nat
      BY <1>1, <3>1
    <3> QED BY <3>1, <3>2
  <2>3. CASE ~(i <= a)
    <3>1. i - a \in 1..b /\ j - a \in 1..b /\ i - a < j - a
      BY <1>1, <1>6, <2>3
    <3>2. s[i] = q2[i - a] /\ s[j] = q2[j - a]
      BY <1>1, <1>2, <1>6, <2>3
    <3> QED BY <1>1, <3>1, <3>2
  <2> QED BY <1>1, <1>6, <2>1, <2>2, <2>3
<1>7. Ascends(s, T, l, r)
  BY <1>2, <1>4, <1>5, <1>6 DEF Ascends
<1> QED BY <1>7 DEF s

LEMMA LengthOf ==
  ASSUME NEW n \in Nat, NEW s, s = [i \in 1..n |-> s[i]]
  PROVE  Len(s) = n
<1> DEFINE R == {s[i] : i \in 1..n}
<1>1. s \in [1..n -> R]
  <2> HIDE DEF R
  <2>1. \A i \in 1..n : s[i] \in R
    BY DEF R
  <2> QED BY <2>1
<1> HIDE DEF R
<1>2. s \in Seq(R) /\ DOMAIN s = 1..n
  BY <1>1
<1>3. Len(s) \in Nat /\ DOMAIN s = 1..Len(s)
  BY <1>2
<1>4. 1..n = 1..Len(s)
  BY <1>2, <1>3
<1> QED BY <1>3, <1>4

\* The sequences of numbers that follow one another, flattened.
LEMMA FlattenAscends ==
  ASSUME NEW T, T \subseteq Nat, NEW n \in Nat \ {0}, NEW s, s = [i \in 1..n |-> s[i]],
         NEW a, NEW b,
         \A i \in 1..n : /\ a[i] \in Nat /\ b[i] \in Nat /\ 1 <= a[i] /\ a[i] <= b[i]
                         /\ Ascends(s[i], T, a[i], b[i]),
         \A i \in 1..(n - 1) : a[i + 1] = b[i] + 1
  PROVE  Ascends(Seqs!FlattenSeq(s), T, a[1], b[n])
<1> DEFINE Upto(g, m) == \A i \in 1..m : g[i] = IF i = 1 THEN s[i] ELSE g[i - 1] \o s[i]
           Bad == {m \in Nat : m <= n /\ ~ \E g : DOMAIN g = 1..n /\ Upto(g, m)}
           Flattens(f) == f = [i \in 1..n |-> IF i = 1 THEN s[i] ELSE f[i - 1] \o s[i]]
           flat == CHOOSE f : Flattens(f)
<1>1. Seqs!FlattenSeq(s) = flat[n]
  <2>1. Len(s) = n /\ n # 0
    BY LengthOf
  <2> QED BY <2>1 DEF Seqs!FlattenSeq
<1>2. Bad = {}
  <2> SUFFICES ASSUME Bad # {} PROVE FALSE
    OBVIOUS
  <2>1. Bad \subseteq Nat
    OBVIOUS
  <2> HIDE DEF Bad
  <2>2. PICK m \in Bad : \A k \in Bad : m <= k
    BY <2>1, LeastNumber
  <2>3. m \in Nat /\ m <= n /\ ~ \E g : DOMAIN g = 1..n /\ Upto(g, m)
    BY <2>2 DEF Bad
  <2>4. CASE m = 0
    <3> DEFINE g == [i \in 1..n |-> 0]
    <3>1. DOMAIN g = 1..n /\ 1..m = {}
      BY <2>4
    <3> HIDE DEF g
    <3>2. Upto(g, m)
      BY <3>1
    <3> QED BY <2>3, <3>1, <3>2
  <2>5. CASE m # 0
    <3>1. m - 1 \in Nat /\ m - 1 <= n /\ ~(m <= m - 1) /\ m \in 1..n
      BY <2>3, <2>5
    <3>2. PICK g : DOMAIN g = 1..n /\ Upto(g, m - 1)
      BY <2>2, <3>1 DEF Bad
    <3> DEFINE g2 == [i \in 1..n |-> IF i = m THEN (IF i = 1 THEN s[i] ELSE g[i - 1] \o s[i]) ELSE g[i]]
    <3>3. /\ DOMAIN g2 = 1..n /\ \A i \in 1..n : i # m => g2[i] = g[i]
          /\ g2[m] = IF m = 1 THEN s[m] ELSE g[m - 1] \o s[m]
      BY <3>1
    <3> HIDE DEF g2
    <3>4. ASSUME NEW i \in 1..m PROVE g2[i] = IF i = 1 THEN s[i] ELSE g2[i - 1] \o s[i]
      <4>1. i \in 1..n /\ (i # 1 => i - 1 \in 1..n /\ i - 1 # m)
        BY <2>3
      <4>2. i # 1 => g2[i - 1] = g[i - 1]
        BY <3>3, <4>1
      <4>3. CASE i = m
        <5> QED BY <3>3, <4>2, <4>3
      <4>4. CASE i # m
        <5>1. i \in 1..(m - 1)
          BY <2>3, <4>4
        <5>2. g[i] = IF i = 1 THEN s[i] ELSE g[i - 1] \o s[i]
          BY <3>2, <5>1
        <5> QED BY <3>3, <4>1, <4>2, <4>4, <5>2
      <4> QED BY <4>3, <4>4
    <3>5. Upto(g2, m)
      BY <3>4
    <3> QED BY <2>3, <3>3, <3>5
  <2> QED BY <2>4, <2>5
<1>3. \E f : Flattens(f)
  <2>1. PICK g : DOMAIN g = 1..n /\ Upto(g, n)
    <3>1. n \in Nat /\ n <= n
      OBVIOUS
    <3>2. n \notin Bad
      <4> HIDE DEF Bad
      <4> QED BY <1>2
    <3> HIDE DEF Upto
    <3> QED BY <3>1, <3>2
  <2> DEFINE f == [i \in 1..n |-> g[i]]
  <2>2. \A i \in 1..n : f[i] = g[i] /\ (i # 1 => i - 1 \in 1..n)
    OBVIOUS
  <2>3. \A i \in 1..n : g[i] = IF i = 1 THEN s[i] ELSE f[i - 1] \o s[i]
    BY <2>1, <2>2
  <2>4. Flattens(f)
    BY <2>3
  <2> QED BY <2>4
<1>4. Flattens(flat)
  <2> HIDE DEF Flattens
  <2> QED BY <1>3
<1> HIDE DEF flat, Bad
<1>5. \A i \in 1..n : flat[i] = IF i = 1 THEN s[i] ELSE flat[i - 1] \o s[i]
  BY <1>4
<1> HIDE DEF Flattens, Upto
<1> DEFINE Worse == {i \in 1..n : ~(Ascends(flat[i], T, a[1], b[i]) /\ a[1] <= b[i])}
<1>6. Worse = {}
  <2> SUFFICES ASSUME Worse # {} PROVE FALSE
    OBVIOUS
  <2>1. Worse \subseteq Nat
    OBVIOUS
  <2> HIDE DEF Worse
  <2>2. PICK i \in Worse : \A k \in Worse : i <= k
    BY <2>1, LeastNumber
  <2>3. i \in 1..n /\ ~(Ascends(flat[i], T, a[1], b[i]) /\ a[1] <= b[i])
    BY <2>2 DEF Worse
  <2>4. 1 \in 1..n /\ a[1] \in Nat
    <3>1. 1 \in 1..n
      OBVIOUS
    <3> QED BY <3>1
  <2>5. CASE i = 1
    <3>1. flat[1] = s[1]
      BY <1>5, <2>4
    <3> QED BY <2>3, <2>4, <2>5, <3>1
  <2>6. CASE i # 1
    <3>1. i - 1 \in 1..n /\ ~(i <= i - 1) /\ i - 1 \in 1..(n - 1) /\ (i - 1) + 1 = i
      BY <2>3, <2>6
    <3>2. Ascends(flat[i - 1], T, a[1], b[i - 1]) /\ a[1] <= b[i - 1]
      BY <2>2, <3>1 DEF Worse
    <3>3. a[i] = b[i - 1] + 1 /\ b[i - 1] \in Nat /\ b[i] \in Nat /\ a[i] <= b[i]
      BY <2>3, <3>1
    <3>4. Ascends(s[i], T, b[i - 1] + 1, b[i])
      BY <2>3, <3>3
    <3>5. a[1] <= b[i - 1] + 1 /\ b[i - 1] <= b[i] /\ a[1] <= b[i]
      BY <2>4, <3>2, <3>3
    <3>6. Ascends(flat[i - 1] \o s[i], T, a[1], b[i])
      BY <2>4, <3>2, <3>3, <3>4, <3>5, AscendsJoin
    <3>7. flat[i] = flat[i - 1] \o s[i]
      BY <1>5, <2>3, <2>6
    <3> QED BY <2>3, <3>5, <3>6, <3>7
  <2> QED BY <2>5, <2>6
<1>7. n \in 1..n
  OBVIOUS
<1>8. Ascends(flat[n], T, a[1], b[n])
  BY <1>6, <1>7
<1> QED BY <1>1, <1>8

\* What the children of a node contribute, given what the nodes below it do,
\* and so what all nodes of a height contribute.
PartsAt(T, U, h, below, pos) ==
  [i \in 1..nodes[pos].count |->
     IF h = 1
       THEN LET e == nodes[pos].entries[i] IN IF e \in T THEN <<e>> ELSE <<>>
       ELSE LET child == nodes[pos].children[i]
            IN  IF child.reduced \in U THEN below[child.offset] ELSE <<>>]
VisitAt(T, U, h, below) == [pos \in DOMAIN nodes |-> Seqs!FlattenSeq(PartsAt(T, U, h, below, pos))]

LEMMA LeavesAlike ==
  ASSUME NEW T, NEW U, NEW x, NEW y
  PROVE  VisitAt(T, U, 1, x) = VisitAt(T, U, 1, y)
<1>1. ASSUME NEW pos PROVE PartsAt(T, U, 1, x, pos) = PartsAt(T, U, 1, y, pos)
  BY DEF PartsAt
<1> QED BY <1>1 DEF VisitAt

VisitsAll(f, T, U, H) == f = [h \in 1..H |-> VisitAt(T, U, h, f[h - 1])]

LEMMA VisitExists ==
  ASSUME NEW T, NEW U, NEW H \in Nat
  PROVE  \E f : VisitsAll(f, T, U, H)
<1> DEFINE Upto(g, m) == \A h \in 1..m : g[h] = VisitAt(T, U, h, g[h - 1])
           Bad == {m \in Nat : m <= H /\ ~ \E g : DOMAIN g = 1..H /\ Upto(g, m)}
<1>1. Bad = {}
  <2> SUFFICES ASSUME Bad # {} PROVE FALSE
    OBVIOUS
  <2>1. Bad \subseteq Nat
    OBVIOUS
  <2> HIDE DEF Bad
  <2>2. PICK m \in Bad : \A k \in Bad : m <= k
    BY <2>1, LeastNumber
  <2>3. m \in Nat /\ m <= H /\ ~ \E g : DOMAIN g = 1..H /\ Upto(g, m)
    BY <2>2 DEF Bad
  <2>4. CASE m = 0
    <3> DEFINE g == [i \in 1..H |-> 0]
    <3>1. DOMAIN g = 1..H /\ 1..m = {}
      BY <2>4
    <3> HIDE DEF g
    <3>2. Upto(g, m)
      BY <3>1
    <3> QED BY <2>3, <3>1, <3>2
  <2>5. CASE m # 0
    <3>1. m - 1 \in Nat /\ m - 1 <= H /\ ~(m <= m - 1) /\ m \in 1..H
      BY <2>3, <2>5
    <3>2. PICK g : DOMAIN g = 1..H /\ Upto(g, m - 1)
      BY <2>2, <3>1 DEF Bad
    <3> DEFINE x == VisitAt(T, U, m, g[m - 1])
               g2 == [h \in 1..H |-> IF h = m THEN x ELSE g[h]]
    <3> HIDE DEF x
    <3>3. DOMAIN g2 = 1..H /\ (\A h \in 1..H : h # m => g2[h] = g[h]) /\ g2[m] = x
      BY <3>1
    <3> HIDE DEF g2
    <3>4. ASSUME NEW h \in 1..m PROVE g2[h] = VisitAt(T, U, h, g2[h - 1])
      <4>1. h \in 1..H /\ (h # 1 => h - 1 \in 1..H /\ h - 1 # m)
        BY <2>3
      <4>2. g2[h] = VisitAt(T, U, h, g[h - 1])
        <5>1. CASE h = m
          BY <3>3, <5>1 DEF x
        <5>2. CASE h # m
          <6>1. h \in 1..(m - 1)
            BY <2>3, <5>2
          <6>2. g[h] = VisitAt(T, U, h, g[h - 1])
            BY <3>2, <6>1
          <6> QED BY <3>3, <4>1, <5>2, <6>2
        <5> QED BY <5>1, <5>2
      <4>3. CASE h = 1
        BY <4>2, <4>3, LeavesAlike
      <4>4. CASE h # 1
        <5>1. g2[h - 1] = g[h - 1]
          BY <3>3, <4>1, <4>4
        <5> QED BY <4>2, <5>1
      <4> QED BY <4>3, <4>4
    <3>5. Upto(g2, m)
      BY <3>4
    <3> QED BY <2>3, <3>3, <3>5
  <2> QED BY <2>4, <2>5
<1>2. PICK g : DOMAIN g = 1..H /\ Upto(g, H)
  <2>1. H <= H
    OBVIOUS
  <2>2. H \notin Bad
    <3> HIDE DEF Bad
    <3> QED BY <1>1
  <2> HIDE DEF Upto
  <2> QED BY <2>1, <2>2
<1> DEFINE f == [h \in 1..H |-> g[h]]
<1>3. ASSUME NEW h \in 1..H PROVE g[h] = VisitAt(T, U, h, f[h - 1])
  <2>1. g[h] = VisitAt(T, U, h, g[h - 1])
    BY <1>2
  <2>2. CASE h = 1
    <3> HIDE DEF f
    <3> QED BY <2>1, <2>2, LeavesAlike
  <2>3. CASE h # 1
    <3>1. h - 1 \in 1..H
      BY <2>3
    <3>2. f[h - 1] = g[h - 1]
      BY <3>1
    <3> QED BY <2>1, <3>2
  <2> QED BY <2>2, <2>3
<1>4. f = [h \in 1..H |-> VisitAt(T, U, h, f[h - 1])]
  <2>1. f = [h \in 1..H |-> g[h]]
    OBVIOUS
  <2> HIDE DEF f
  <2> QED BY <1>3, <2>1
<1> HIDE DEF f
<1>5. VisitsAll(f, T, U, H)
  BY <1>4 DEF VisitsAll
<1> QED BY <1>5

\* What a node contributes: the numbers of the set that lie below it.
LEMMA VisitLeaf ==
  ASSUME NEW ht, NEW lo, NEW hi, NEW fst, NEW up, Tree(ht, lo, hi, fst, up),
         NEW T, T \subseteq Nat, NEW U, NEW below,
         NEW p \in 1..Len(nodes), ht[p] = 1
  PROVE  Ascends(VisitAt(T, U, 1, below)[p], T, lo[p], hi[p])
<1> DEFINE s == PartsAt(T, U, 1, below, p)
           n == nodes[p].count
           a == [i \in 1..n |-> lo[p] + i - 1]
<1>1. /\ lo[p] \in Nat /\ hi[p] \in Nat /\ 1 <= lo[p] /\ lo[p] <= hi[p] /\ hi[p] <= N
      /\ n = hi[p] - lo[p] + 1
      /\ \A k \in 1..(hi[p] - lo[p] + 1) : nodes[p].entries[k] = lo[p] + k - 1
  BY AtLeaf
<1>2. n \in Nat \ {0}
  BY <1>1
<1>3. s = [i \in 1..n |-> LET e == nodes[p].entries[i] IN IF e \in T THEN <<e>> ELSE <<>>]
  BY DEF PartsAt
<1> HIDE DEF s, n
<1>4. s = [i \in 1..n |-> s[i]]
  BY <1>3
<1>5. \A i \in 1..n : a[i] = lo[p] + i - 1 /\ a[i] \in Nat /\ 1 <= a[i] /\ nodes[p].entries[i] = a[i]
  BY <1>1, <1>2
<1>6. ASSUME NEW i \in 1..n PROVE Ascends(s[i], T, a[i], a[i])
  <2>1. s[i] = (IF a[i] \in T THEN <<a[i]>> ELSE <<>>) /\ a[i] \in Nat
    BY <1>3, <1>5
  <2> HIDE DEF a
  <2>2. CASE a[i] \in T
    BY <2>1, <2>2, AscendsOne
  <2>3. CASE a[i] \notin T
    <3>1. \A e \in T : ~(a[i] <= e /\ e <= a[i])
      BY <2>1, <2>3
    <3> QED BY <2>1, <2>3, <3>1, AscendsNothing
  <2> QED BY <2>2, <2>3
<1>7. \A i \in 1..(n - 1) : a[i + 1] = a[i] + 1
  <2> SUFFICES ASSUME NEW i \in 1..(n - 1) PROVE a[i + 1] = a[i] + 1
    OBVIOUS
  <2>1. i \in 1..n /\ i + 1 \in 1..n
    BY <1>2
  <2>2. a[i] = lo[p] + i - 1 /\ a[i + 1] = lo[p] + (i + 1) - 1
    BY <1>5, <2>1
  <2> HIDE DEF a
  <2> QED BY <1>1, <2>1, <2>2
<1>8. a[1] = lo[p] /\ a[n] = hi[p]
  <2>1. 1 \in 1..n /\ n \in 1..n
    BY <1>2
  <2>2. a[1] = lo[p] + 1 - 1 /\ a[n] = lo[p] + n - 1
    BY <1>5, <2>1
  <2> HIDE DEF a
  <2>3. lo[p] + n - 1 = hi[p]
    <3> DEFINE l == lo[p]
               r == hi[p]
    <3>1. l \in Nat /\ r \in Nat /\ n = r - l + 1
      BY <1>1 DEF n
    <3> HIDE DEF l, r
    <3>2. l + n - 1 = r
      BY <3>1
    <3> QED BY <3>2 DEF l, r
  <2> QED BY <1>1, <2>2, <2>3
<1> HIDE DEF a
<1>9. \A i \in 1..n : /\ a[i] \in Nat /\ 1 <= a[i] /\ a[i] <= a[i]
                      /\ Ascends(s[i], T, a[i], a[i])
  BY <1>5, <1>6
<1>10. Ascends(Seqs!FlattenSeq(s), T, a[1], a[n])
  BY <1>2, <1>4, <1>7, <1>9, FlattenAscends
<1>11. VisitAt(T, U, 1, below)[p] = Seqs!FlattenSeq(s)
  <2>1. p \in DOMAIN nodes
    BY AppendSeq DEF Tree, Basics
  <2> QED BY <2>1 DEF VisitAt, s
<1> QED BY <1>8, <1>10, <1>11

LEMMA VisitInner ==
  ASSUME NEW ht, NEW lo, NEW hi, NEW fst, NEW up, Tree(ht, lo, hi, fst, up),
         NEW T, T \subseteq Nat, NEW U, \A l, r \in 1..N : (\E e \in l..r : e \in T) => l..r \in U,
         NEW p \in 1..Len(nodes), ht[p] # 1, NEW below,
         \A c \in 1..Len(nodes) : ht[c] = ht[p] - 1 => Ascends(below[c], T, lo[c], hi[c])
  PROVE  Ascends(VisitAt(T, U, ht[p], below)[p], T, lo[p], hi[p])
<1>0. Inner(ht, lo, hi, fst, up, p)
  BY InnerNode
<1> DEFINE h == ht[p]
           s == PartsAt(T, U, h, below, p)
           n == nodes[p].count
           f == fst[p]
           a == [i \in 1..n |-> lo[f + i]]
           b == [i \in 1..n |-> hi[f + i]]
<1>1. /\ n \in Nat \ {0} /\ f \in Nat /\ lo[p] = lo[f + 1] /\ hi[p] = hi[f + n] /\ h > 1
  BY <1>0 DEF Inner
<1>2. \A k \in 1..n : /\ f + k \in 1..Len(nodes) /\ ht[f + k] = h - 1
                      /\ lo[f + k] \in Nat /\ hi[f + k] \in Nat
                      /\ 1 <= lo[f + k] /\ lo[f + k] <= hi[f + k] /\ hi[f + k] <= N
                      /\ nodes[p].children[k].reduced = lo[f + k]..hi[f + k]
                      /\ nodes[p].children[k].offset = f + k
  BY <1>0 DEF Inner
<1>3. \A k \in 1..(n - 1) : lo[f + k + 1] = hi[f + k] + 1
  BY <1>0 DEF Inner
<1>4. s = [i \in 1..n |-> LET child == nodes[p].children[i]
                          IN  IF child.reduced \in U THEN below[child.offset] ELSE <<>>]
  BY <1>1 DEF PartsAt
<1>5. N \in Nat
  BY LengthType DEF Tree
<1>6. \A c \in 1..Len(nodes) : ht[c] = h - 1 => Ascends(below[c], T, lo[c], hi[c])
  OBVIOUS
<1>7. VisitAt(T, U, h, below)[p] = Seqs!FlattenSeq(s)
  <2>1. p \in DOMAIN nodes
    BY AppendSeq DEF Tree, Basics
  <2> HIDE DEF h
  <2> QED BY <2>1 DEF VisitAt
<1> HIDE DEF s, n, f, h
<1>8. s = [i \in 1..n |-> s[i]]
  BY <1>4
<1>9. ASSUME NEW k \in 1..n PROVE Ascends(s[k], T, lo[f + k], hi[f + k])
  <2>1. s[k] = IF lo[f + k]..hi[f + k] \in U THEN below[f + k] ELSE <<>>
    BY <1>2, <1>4
  <2>2. CASE lo[f + k]..hi[f + k] \in U
    BY <1>2, <1>6, <2>1, <2>2
  <2>3. CASE lo[f + k]..hi[f + k] \notin U
    <3>1. lo[f + k] \in 1..N /\ hi[f + k] \in 1..N
      BY <1>2, <1>5
    <3>2. ~ \E e \in lo[f + k]..hi[f + k] : e \in T
      BY <2>3, <3>1
    <3>3. \A e \in T : ~(lo[f + k] <= e /\ e <= hi[f + k])
      BY <1>2, <3>2
    <3> QED BY <2>1, <2>3, <3>3, AscendsNothing
  <2> QED BY <2>2, <2>3
<1>10. \A i \in 1..n : a[i] = lo[f + i] /\ b[i] = hi[f + i]
  OBVIOUS
<1>11. a[1] = lo[p] /\ b[n] = hi[p]
  <2>1. 1 \in 1..n /\ n \in 1..n
    BY <1>1
  <2> QED BY <1>1, <1>10, <2>1
<1>12. \A i \in 1..(n - 1) : a[i + 1] = b[i] + 1
  <2> SUFFICES ASSUME NEW i \in 1..(n - 1) PROVE a[i + 1] = b[i] + 1
    OBVIOUS
  <2>1. i \in 1..n /\ i + 1 \in 1..n /\ f + (i + 1) = f + i + 1
    BY <1>1
  <2> HIDE DEF a, b
  <2> QED BY <1>3, <1>10, <2>1
<1> HIDE DEF a, b
<1>13. \A i \in 1..n : /\ a[i] \in Nat /\ b[i] \in Nat /\ 1 <= a[i] /\ a[i] <= b[i]
                       /\ Ascends(s[i], T, a[i], b[i])
  BY <1>2, <1>9, <1>10
<1>14. Ascends(Seqs!FlattenSeq(s), T, a[1], b[n])
  BY <1>1, <1>8, <1>12, <1>13, FlattenAscends
<1> QED BY <1>7, <1>11, <1>14 DEF h

LEMMA TraverseFinds ==
  ASSUME NEW ht, NEW lo, NEW hi, NEW fst, NEW up, Tree(ht, lo, hi, fst, up),
         NEW T, T \subseteq Nat, NEW U, \A l, r \in 1..N : (\E e \in l..r : e \in T) => l..r \in U
  PROVE  Ascends(TraverseWhere(T, U), T, 1, N)
<1> DEFINE Visits(f) == VisitsAll(f, T, U, Height)
           visit == CHOOSE f : Visits(f)
           Wrong == {h \in 1..Height : ~ \A p \in 1..Len(nodes) :
                       ht[p] = h => Ascends(visit[h][p], T, lo[p], hi[p])}
<1>1. /\ Height \in Nat \ {0} /\ footer.root = Len(nodes) /\ Len(nodes) \in Nat \ {0}
      /\ ht[Len(nodes)] = Height /\ lo[Len(nodes)] = 1 /\ hi[Len(nodes)] = N
  BY DEF Tree
<1>2. TraverseWhere(T, U) = visit[Height][footer.root]
  <2>1. Height # 0
    BY <1>1
  <2> QED BY <2>1 DEF TraverseWhere, VisitsAll, VisitAt, PartsAt
<1>3. \E f : Visits(f)
  <2> DEFINE H == Height
  <2>1. H \in Nat
    BY <1>1
  <2> HIDE DEF H
  <2>2. \E f : VisitsAll(f, T, U, H)
    BY <2>1, VisitExists
  <2> QED BY <2>2 DEF H
<1>4. Visits(visit)
  <2> HIDE DEF Visits
  <2> QED BY <1>3
<1> HIDE DEF visit
<1>5. \A h \in 1..Height : visit[h] = VisitAt(T, U, h, visit[h - 1])
  BY <1>4 DEF VisitsAll
<1> HIDE DEF Visits
<1>6. Wrong = {}
  <2> SUFFICES ASSUME Wrong # {} PROVE FALSE
    OBVIOUS
  <2>1. Wrong \subseteq Nat
    OBVIOUS
  <2> HIDE DEF Wrong
  <2>2. PICK h \in Wrong : \A k \in Wrong : h <= k
    BY <2>1, LeastNumber
  <2>3. h \in 1..Height
    BY <2>2 DEF Wrong
  <2>4. PICK p \in 1..Len(nodes) : ht[p] = h /\ ~Ascends(visit[h][p], T, lo[p], hi[p])
    BY <2>2 DEF Wrong
  <2>5. visit[h] = VisitAt(T, U, h, visit[h - 1])
    BY <1>5, <2>3
  <2>6. CASE h = 1
    BY <2>4, <2>5, <2>6, VisitLeaf
  <2>7. CASE h # 1
    <3>1. h - 1 \in 1..Height /\ ~(h <= h - 1)
      BY <1>1, <2>3, <2>7
    <3>2. \A c \in 1..Len(nodes) : ht[c] = h - 1 => Ascends(visit[h - 1][c], T, lo[c], hi[c])
      BY <2>2, <3>1 DEF Wrong
    <3>3. Ascends(VisitAt(T, U, ht[p], visit[h - 1])[p], T, lo[p], hi[p])
      BY <2>4, <2>7, <3>2, VisitInner
    <3> QED BY <2>4, <2>5, <3>3
  <2> QED BY <2>6, <2>7
<1>7. Ascends(visit[Height][Len(nodes)], T, 1, N)
  <2>1. Height \in 1..Height /\ Len(nodes) \in 1..Len(nodes)
    BY <1>1
  <2> QED BY <1>1, <1>6, <2>1
<1> QED BY <1>1, <1>2, <1>7

\* A traversal that leaves out no subtree with a value to be found finds them all.
LEMMA TraverseLists ==
  ASSUME TreeInv, Done, NEW T, T \subseteq 1..N, NEW U, \A S \in SUBSET (1..N) : S \cap T # {} => S \in U
  PROVE  Lists(TraverseWhere(T, U), T)
<1>1. N \in Nat /\ (N = 0 => Height = 0)
  BY DoneTree
<1>2. CASE N = 0
  <2>1. TraverseWhere(T, U) = <<>> /\ T = {}
    BY <1>1, <1>2 DEF TraverseWhere
  <2>2. <<>> \in Seq(T) /\ DOMAIN <<>> = {}
    OBVIOUS
  <2> QED BY <2>1, <2>2 DEF Lists
<1>3. CASE N # 0
  <2>1. N > 0
    BY <1>1, <1>3
  <2>2. PICK ht, lo, hi, fst, up : Tree(ht, lo, hi, fst, up)
    BY <2>1, DoneTree
  <2>3. \A l, r \in 1..N : (\E e \in l..r : e \in T) => l..r \in U
    <3> SUFFICES ASSUME NEW l \in 1..N, NEW r \in 1..N, NEW e \in l..r, e \in T PROVE l..r \in U
      OBVIOUS
    <3>1. l..r \subseteq 1..N
      BY <1>1
    <3> QED BY <3>1
  <2>4. 1..N \subseteq Nat
    BY <1>1
  <2>5. Ascends(TraverseWhere(T, U), T, 1, N)
    BY <2>2, <2>3, <2>4, TraverseFinds
  <2> DEFINE q == TraverseWhere(T, U)
  <2>6. /\ q \in Seq(Nat) /\ \A i \in 1..Len(q) : q[i] \in T
        /\ \A e \in T : 1 <= e /\ e <= N => \E i \in 1..Len(q) : q[i] = e
        /\ \A i, j \in 1..Len(q) : i < j => q[i] < q[j]
    BY <2>5 DEF Ascends
  <2> HIDE DEF q
  <2>7. DOMAIN q = 1..Len(q) /\ q \in Seq(T)
    BY <2>6
  <2>8. \A e \in T : 1 <= e /\ e <= N
    BY <1>1
  <2>9. Lists(q, T)
    BY <2>6, <2>7, <2>8 DEF Lists
  <2> QED BY <2>9 DEF q
<1> QED BY <1>2, <1>3

LEMMA TraverseState == ASSUME TreeInv PROVE TraverseFindsAll
<1> SUFFICES ASSUME Done, NEW d \in DOMAIN entries, NEW e \in DOMAIN entries
             PROVE  Lists(Traverse({d, e}), {d, e})
  BY DEF TraverseFindsAll
<1>1. DOMAIN entries = 1..N
  BY DEF TreeInv, Basics, N
<1> DEFINE T == {d, e}
           U == {S \in SUBSET (1..N) : S \cap T # {}}
<1>2. T \subseteq 1..N /\ \A S \in SUBSET (1..N) : S \cap T # {} => S \in U
  BY <1>1
<1>3. Traverse(T) = TraverseWhere(T, U)
  BY <1>1 DEF Traverse
<1> HIDE DEF T, U
<1>4. Lists(TraverseWhere(T, U), T)
  BY <1>2, TraverseLists
<1> QED BY <1>3, <1>4 DEF T

\* traverse finds every value that satisfies the predicate, in order, and no other.
THEOREM TraverseIsComplete == ASSUME MaxNodeChildren < NodeLimit PROVE Spec => []TraverseFindsAll
<1>1. TreeInv => TraverseFindsAll
  BY TraverseState
<1> QED BY <1>1, TreeHasShape, PTL
=============================================================================
