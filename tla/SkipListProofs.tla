--------------------------- MODULE SkipListProofs ---------------------------
(* Proofs about the skip list, for any keys, number of levels and adds:      *)
(* whatever levels entries draw, its searches end where a walk along the     *)
(* lowest list would, and it implements the keyed list.                      *)
EXTENDS SkipList, TLAPS, NaturalsInduction, WellFoundedInduction

-----------------------------------------------------------------------------
(* Numbers and sequences. *)

\* A non-empty set of natural numbers has a smallest element.
LEMMA LeastNumber ==
  ASSUME NEW T, T \subseteq Nat, T # {}
  PROVE  \E m \in T : \A n \in T : m <= n
<1>1. PICK m \in T : \A n \in T : ~(<<n, m>> \in OpToRel(<, Nat))
  BY WFMin, NatLessThanWellFounded, Zenon
<1>2. \A n \in T : ~(n < m)
  BY <1>1 DEF OpToRel
<1> QED BY <1>2

\* The sequence with an element put in front of the one at a place.
IsWith(t, s, e, f, T) ==
  /\ t \in Seq(T) /\ Len(t) = Len(s) + 1
  /\ \A p \in 1..(f - 1) : t[p] = s[p]
  /\ t[f] = e
  /\ \A p \in (f + 1)..(Len(s) + 1) : t[p] = s[p - 1]
LEMMA InsertedAt ==
  ASSUME NEW T, NEW s \in Seq(T), NEW e \in T, NEW f \in 1..(Len(s) + 1)
  PROVE  IsWith(Seqs!InsertAt(s, f, e), s, e, f, T)
<1> DEFINE a == SubSeq(s, 1, f - 1)
           b == SubSeq(s, f, Len(s))
           c == a \o <<e>>
           t == c \o b
<1>1. Len(s) \in Nat /\ f \in Nat /\ 1 <= f /\ f <= Len(s) + 1
  OBVIOUS
<1>2. a \in Seq(T) /\ Len(a) = f - 1 /\ \A p \in 1..(f - 1) : a[p] = s[p]
  BY <1>1
<1>3. b \in Seq(T) /\ Len(b) = Len(s) + 1 - f /\ \A p \in 1..(Len(s) + 1 - f) : b[p] = s[f + p - 1]
  BY <1>1
<1> HIDE DEF a, b
<1>4. c \in Seq(T) /\ Len(c) = f /\ c[f] = e /\ \A p \in 1..(f - 1) : c[p] = s[p]
  BY <1>1, <1>2
<1> HIDE DEF c
<1>5. t \in Seq(T) /\ Len(t) = Len(s) + 1
  BY <1>1, <1>3, <1>4
<1>6. \A p \in 1..f : t[p] = c[p]
  BY <1>1, <1>3, <1>4
<1>7. ASSUME NEW p \in (f + 1)..(Len(s) + 1) PROVE t[p] = s[p - 1]
  <2>1. p - f \in 1..(Len(s) + 1 - f) /\ f + (p - f) - 1 = p - 1 /\ p \in 1..Len(t) /\ p > Len(c)
    BY <1>1, <1>4, <1>5
  <2>2. t[p] = b[p - f]
    BY <1>1, <1>3, <1>4, <2>1
  <2> QED BY <1>3, <2>1, <2>2
<1>8. Seqs!InsertAt(s, f, e) = t
  BY DEF Seqs!InsertAt, a, b, c
<1>9. IsWith(t, s, e, f, T)
  BY <1>1, <1>4, <1>5, <1>6, <1>7 DEF IsWith
<1> HIDE DEF t
<1> QED BY <1>8, <1>9

-----------------------------------------------------------------------------
(* One level, and what a search on it is to find.                           *)

\* The entries of a level differ and are in the order of their keys.
LevelOf(s, k) ==
  /\ s \in Seq(1..Len(k))
  /\ \A p, q \in 1..Len(s) : p < q => s[p] # s[q] /\ k[s[p]] <= k[s[q]]

\* The first place of a level whose entry is beyond, or the end.
IsPlace(s, last, key, f) ==
  /\ f \in 1..(Len(s) + 1)
  /\ \A q \in 1..(f - 1) : ~Beyond(last, s[q], key)
  /\ \A q \in f..Len(s) : Beyond(last, s[q], key)

LEMMA PlaceExists ==
  ASSUME keyOf \in Seq(Int), NEW s, LevelOf(s, keyOf), NEW last \in BOOLEAN, NEW key \in Int
  PROVE  \E f : IsPlace(s, last, key, f)
<1> DEFINE T == {p \in 1..(Len(s) + 1) : p = Len(s) + 1 \/ Beyond(last, s[p], key)}
<1>1. /\ Len(s) \in Nat /\ \A p \in 1..Len(s) : s[p] \in 1..Len(keyOf) /\ keyOf[s[p]] \in Int
      /\ \A p, q \in 1..Len(s) : p < q => keyOf[s[p]] <= keyOf[s[q]]
  BY DEF LevelOf
<1>2. T \subseteq Nat /\ Len(s) + 1 \in T
  BY <1>1
<1> HIDE DEF T
<1>3. PICK f \in T : \A q \in T : f <= q
  BY <1>2, LeastNumber
<1>4. f \in 1..(Len(s) + 1) /\ (f = Len(s) + 1 \/ Beyond(last, s[f], key))
  BY <1>3 DEF T
<1>5. ASSUME NEW q \in 1..(f - 1) PROVE ~Beyond(last, s[q], key)
  <2>1. q \in 1..(Len(s) + 1) /\ ~(f <= q)
    BY <1>1, <1>4
  <2>2. q \notin T
    BY <1>3, <2>1
  <2> QED BY <2>1, <2>2 DEF T
<1>6. ASSUME NEW q \in f..Len(s) PROVE Beyond(last, s[q], key)
  <2>1. f \in 1..Len(s) /\ q \in 1..Len(s) /\ f <= q
    BY <1>1, <1>4
  <2>2. Beyond(last, s[f], key)
    BY <1>1, <1>4, <2>1
  <2>3. keyOf[s[f]] <= keyOf[s[q]] /\ keyOf[s[f]] \in Int /\ keyOf[s[q]] \in Int
    BY <1>1, <2>1
  <2> QED BY <2>2, <2>3 DEF Beyond
<1> QED BY <1>4, <1>5, <1>6 DEF IsPlace

\* The entry at p is beyond exactly if p is not in front of the place.
LEMMA PlaceParts ==
  ASSUME NEW s, Len(s) \in Nat, NEW last, NEW key, NEW f, IsPlace(s, last, key, f),
         NEW p \in 1..Len(s)
  PROVE  f \in Nat /\ (Beyond(last, s[p], key) <=> f <= p)
BY DEF IsPlace

\* The scan of a part of a level that has the place in it, or ends at it.
LEMMA ScanFinds ==
  ASSUME NEW s, Len(s) \in Nat, NEW last, NEW key, NEW f, IsPlace(s, last, key, f),
         NEW begin \in 1..f, NEW end \in f..(Len(s) + 1)
  PROVE  Scan(s, begin, end, last, key) =
           [result |-> f,
            prevBegin |-> IF f > begin THEN s[f - 1] ELSE 0,
            prevEnd |-> IF f < end THEN s[f] ELSE 0]
<1> DEFINE Stops(p) == /\ p = end \/ Beyond(last, s[p], key)
                       /\ \A q \in begin..(p - 1) : ~Beyond(last, s[q], key)
           it == CHOOSE p \in begin..end : Stops(p)
<1>1. f \in 1..(Len(s) + 1) /\ f \in begin..end
  BY DEF IsPlace
<1>2. Stops(f)
  <2>1. f = end \/ Beyond(last, s[f], key)
    BY <1>1 DEF IsPlace
  <2>2. \A q \in begin..(f - 1) : ~Beyond(last, s[q], key)
    BY <1>1 DEF IsPlace
  <2> QED BY <2>1, <2>2
<1>3. ASSUME NEW p \in begin..end, Stops(p) PROVE p = f
  <2>1. CASE p < f
    <3>1. p # end /\ p \in 1..(f - 1)
      BY <1>1, <2>1
    <3> QED BY <1>3, <3>1 DEF IsPlace
  <2>2. CASE f < p
    <3>1. f \in begin..(p - 1) /\ f \in f..Len(s)
      BY <1>1, <2>2
    <3> QED BY <1>3, <3>1 DEF IsPlace
  <2> QED BY <1>1, <2>1, <2>2
<1> HIDE DEF Stops
<1>4. it = f
  BY <1>1, <1>2, <1>3
<1>5. Scan(s, begin, end, last, key) =
        [result |-> it, prevBegin |-> IF it > begin THEN s[it - 1] ELSE 0,
         prevEnd |-> IF it < end THEN s[it] ELSE 0]
  BY DEF Scan, Stops
<1> HIDE DEF it
<1> QED BY <1>4, <1>5

-----------------------------------------------------------------------------
(* A search through all levels.                                             *)

None == [result |-> 1, prevBegin |-> 0, prevEnd |-> 0]
Below(through, last, key, i, above) ==
  IF i > Len(through) THEN None ELSE ScanBelow(through[i], above, last, key)
IsDown(d, through, last, key) ==
  d = [i \in 1..(Len(through) + 1) |-> Below(through, last, key, i, d[i + 1])]

\* The results of the levels, from the highest on, exist.
LEMMA DownExists ==
  ASSUME NEW through, Len(through) \in Nat, NEW last, NEW key
  PROVE  \E d : IsDown(d, through, last, key)
<1> DEFINE n == Len(through) + 1
           From(g, m) == \A i \in (n - m)..n : g[i] = Below(through, last, key, i, g[i + 1])
           Bad == {m \in Nat : m < n /\ ~ \E g : DOMAIN g = 1..n /\ From(g, m)}
<1>0. n \in Nat /\ n >= 1 /\ n - 1 \in Nat
  OBVIOUS
<1>1. Bad = {}
  <2> SUFFICES ASSUME Bad # {} PROVE FALSE
    OBVIOUS
  <2>1. Bad \subseteq Nat
    OBVIOUS
  <2> HIDE DEF Bad, n
  <2>2. PICK m \in Bad : \A k \in Bad : m <= k
    BY <2>1, LeastNumber
  <2>3. m \in Nat /\ m < n /\ ~ \E g : DOMAIN g = 1..n /\ From(g, m)
    BY <2>2 DEF Bad
  <2>4. CASE m = 0
    <3> DEFINE g == [i \in 1..n |-> None]
    <3>1. DOMAIN g = 1..n
      OBVIOUS
    <3>2. ASSUME NEW i \in (n - m)..n PROVE g[i] = Below(through, last, key, i, g[i + 1])
      <4>1. i = n /\ i \in 1..n /\ i > Len(through)
        BY <1>0, <2>4 DEF n
      <4>2. g[i] = None
        BY <4>1
      <4> QED BY <4>1, <4>2 DEF Below
    <3> HIDE DEF g
    <3> QED BY <2>3, <3>1, <3>2
  <2>5. CASE m # 0
    <3>1. m - 1 \in Nat /\ m - 1 < n /\ ~(m <= m - 1) /\ n - m \in 1..n /\ n - m # n
      BY <1>0, <2>3, <2>5
    <3>2. PICK g : DOMAIN g = 1..n /\ From(g, m - 1)
      BY <2>2, <3>1 DEF Bad
    <3> DEFINE x == Below(through, last, key, n - m, g[n - m + 1])
               g2 == [i \in 1..n |-> IF i = n - m THEN x ELSE g[i]]
    <3> HIDE DEF x
    <3>3. DOMAIN g2 = 1..n /\ (\A i \in 1..n : i # n - m => g2[i] = g[i]) /\ g2[n - m] = x
      BY <3>1
    <3> HIDE DEF g2
    <3>4. ASSUME NEW i \in (n - m)..n PROVE g2[i] = Below(through, last, key, i, g2[i + 1])
      <4>1. CASE i = n
        <5>1. i > Len(through) /\ i \in 1..n /\ i # n - m /\ i \in (n - (m - 1))..n
          BY <1>0, <2>3, <2>5, <4>1 DEF n
        <5>2. g[i] = None
          BY <3>2, <5>1 DEF Below
        <5> QED BY <3>3, <5>1, <5>2 DEF Below
      <4>2. CASE i # n
        <5>1. i + 1 \in 1..n /\ i + 1 # n - m /\ i \in 1..n
          BY <1>0, <2>3, <4>2
        <5>2. g2[i + 1] = g[i + 1]
          BY <3>3, <5>1
        <5>3. CASE i = n - m
          BY <3>3, <5>2, <5>3 DEF x
        <5>4. CASE i # n - m
          <6>1. i \in (n - (m - 1))..n
            BY <1>0, <2>3, <5>4
          <6>2. g[i] = Below(through, last, key, i, g[i + 1])
            BY <3>2, <6>1
          <6> QED BY <3>3, <5>1, <5>2, <5>4, <6>2
        <5> QED BY <5>3, <5>4
      <4> QED BY <4>1, <4>2
    <3>5. From(g2, m)
      BY <3>4
    <3> QED BY <2>3, <3>3, <3>5
  <2> QED BY <2>4, <2>5
<1>2. PICK g : DOMAIN g = 1..n /\ From(g, n - 1)
  <2>1. n - 1 < n
    BY <1>0
  <2> HIDE DEF n
  <2>2. n - 1 \notin Bad
    BY <1>1
  <2> QED BY <1>0, <2>1, <2>2 DEF Bad
<1> DEFINE d == [i \in 1..n |-> g[i]]
<1>3. \A i \in 1..n : d[i] = g[i]
  OBVIOUS
<1>4. ASSUME NEW i \in 1..n PROVE d[i] = Below(through, last, key, i, d[i + 1])
  <2>1. g[i] = Below(through, last, key, i, g[i + 1])
    <3>1. i \in (n - (n - 1))..n
      BY <1>0
    <3> QED BY <1>2, <3>1
  <2>2. CASE i = n
    BY <1>3, <2>1, <2>2 DEF Below
  <2>3. CASE i # n
    <3>1. i + 1 \in 1..n
      BY <1>0, <2>3
    <3> HIDE DEF d
    <3> QED BY <1>3, <2>1, <3>1
  <2> QED BY <2>2, <2>3
<1>5. DOMAIN d = 1..n /\ d = [i \in 1..n |-> d[i]]
  OBVIOUS
<1> HIDE DEF d
<1>6. d = [i \in 1..n |-> Below(through, last, key, i, d[i + 1])]
  BY <1>4, <1>5
<1>7. IsDown(d, through, last, key)
  BY <1>6 DEF IsDown
<1> QED BY <1>7

\* What search goes by is such results.
Goes(d, through, last, key) ==
  /\ IsDown(d, through, last, key)
  /\ Search(through, last, key) = [i \in DOMAIN through |-> d[i].result]
LEMMA SearchDown ==
  ASSUME NEW through, Len(through) \in Nat, NEW last, NEW key
  PROVE  \E d : Goes(d, through, last, key)
<1> DEFINE d == CHOOSE f : IsDown(f, through, last, key)
<1>1. IsDown(d, through, last, key)
  BY DownExists
<1>2. Search(through, last, key) = [i \in DOMAIN through |-> d[i].result]
  BY DEF Search, IsDown, Below, None
<1> HIDE DEF d
<1>3. Goes(d, through, last, key)
  BY <1>1, <1>2 DEF Goes
<1> QED BY <1>3

\* What a level keeps for the one below: an entry in front of the place and one
\* behind it, or nothing.
Keeps(s, last, key, r) ==
  /\ r.prevBegin # 0 => \E p \in 1..Len(s) : s[p] = r.prevBegin /\ ~Beyond(last, s[p], key)
  /\ r.prevEnd # 0 => \E p \in 1..Len(s) : s[p] = r.prevEnd /\ Beyond(last, s[p], key)

LEMMA OneLevel ==
  ASSUME keyOf \in Seq(Int), NEW s, LevelOf(s, keyOf), NEW last \in BOOLEAN, NEW key \in Int,
         NEW above, Keeps(s, last, key, above)
  PROVE  LET r == ScanBelow(s, above, last, key)
         IN  IsPlace(s, last, key, r.result) /\ Keeps(s, last, key, r)
<1> DEFINE begin == IF above.prevBegin = 0 THEN 1 ELSE PositionOf(s, above.prevBegin)
           end == IF above.prevEnd = 0 THEN Len(s) + 1 ELSE PositionOf(s, above.prevEnd)
           r == ScanBelow(s, above, last, key)
<1>1. Len(s) \in Nat /\ DOMAIN s = 1..Len(s) /\ s \in Seq(1..Len(keyOf))
  BY DEF LevelOf
<1>2. PICK f : IsPlace(s, last, key, f)
  BY PlaceExists
<1>3. f \in 1..(Len(s) + 1)
  BY <1>2 DEF IsPlace
<1>4. begin \in 1..f
  <2>1. CASE above.prevBegin = 0
    BY <1>3, <2>1
  <2>2. CASE above.prevBegin # 0
    <3>1. PICK p \in 1..Len(s) : s[p] = above.prevBegin /\ ~Beyond(last, s[p], key)
      BY <2>2 DEF Keeps
    <3>2. \E q \in DOMAIN s : s[q] = above.prevBegin
      BY <1>1, <3>1
    <3>3. begin \in DOMAIN s /\ s[begin] = above.prevBegin
      BY <2>2, <3>2 DEF PositionOf
    <3> HIDE DEF begin
    <3>4. begin \in 1..Len(s) /\ ~Beyond(last, s[begin], key)
      BY <1>1, <3>1, <3>3
    <3>5. ~(f <= begin)
      BY <1>1, <1>2, <3>4, PlaceParts
    <3> QED BY <1>1, <1>3, <3>4, <3>5
  <2> QED BY <2>1, <2>2
<1>5. end \in f..(Len(s) + 1)
  <2>1. CASE above.prevEnd = 0
    BY <1>1, <1>3, <2>1
  <2>2. CASE above.prevEnd # 0
    <3>1. PICK p \in 1..Len(s) : s[p] = above.prevEnd /\ Beyond(last, s[p], key)
      BY <2>2 DEF Keeps
    <3>2. \E q \in DOMAIN s : s[q] = above.prevEnd
      BY <1>1, <3>1
    <3>3. end \in DOMAIN s /\ s[end] = above.prevEnd
      BY <2>2, <3>2 DEF PositionOf
    <3> HIDE DEF end
    <3>4. end \in 1..Len(s) /\ Beyond(last, s[end], key)
      BY <1>1, <3>1, <3>3
    <3>5. f <= end
      BY <1>1, <1>2, <3>4, PlaceParts
    <3> QED BY <1>1, <1>3, <3>4, <3>5
  <2> QED BY <2>1, <2>2
<1>6. r = Scan(s, begin, end, last, key)
  BY DEF ScanBelow
<1> HIDE DEF begin, end, r
<1>7. r = [result |-> f,
           prevBegin |-> IF f > begin THEN s[f - 1] ELSE 0,
           prevEnd |-> IF f < end THEN s[f] ELSE 0]
  BY <1>1, <1>2, <1>4, <1>5, <1>6, ScanFinds
<1>8. ASSUME r.prevBegin # 0
      PROVE  \E p \in 1..Len(s) : s[p] = r.prevBegin /\ ~Beyond(last, s[p], key)
  <2>1. f > begin /\ r.prevBegin = s[f - 1]
    BY <1>7, <1>8
  <2>2. f - 1 \in 1..Len(s) /\ f - 1 \in 1..(f - 1)
    BY <1>1, <1>3, <1>4, <2>1
  <2>3. ~Beyond(last, s[f - 1], key)
    BY <1>2, <2>2 DEF IsPlace
  <2> QED BY <2>1, <2>2, <2>3
<1>9. ASSUME r.prevEnd # 0
      PROVE  \E p \in 1..Len(s) : s[p] = r.prevEnd /\ Beyond(last, s[p], key)
  <2>1. f < end /\ r.prevEnd = s[f]
    BY <1>7, <1>9
  <2>2. f \in 1..Len(s) /\ f \in f..Len(s)
    BY <1>1, <1>3, <1>5, <2>1
  <2>3. Beyond(last, s[f], key)
    BY <1>2, <2>2 DEF IsPlace
  <2> QED BY <2>1, <2>2, <2>3
<1>10. r.result = f
  BY <1>7
<1>11. IsPlace(s, last, key, r.result) /\ Keeps(s, last, key, r)
  BY <1>2, <1>8, <1>9, <1>10 DEF Keeps
<1> QED BY <1>11 DEF r

\* A level that lists entries of another, in the same order.
Within(a, b) ==
  /\ \A p \in 1..Len(a) : \E r \in 1..Len(b) : b[r] = a[p]
  /\ \A p, q \in 1..Len(a), r, s \in 1..Len(b) : a[p] = b[r] /\ a[q] = b[s] /\ p < q => r < s
LevelsOf(ls, k) ==
  /\ ls \in Seq(Seq(Nat)) /\ ls # <<>>
  /\ \A i \in 1..Len(ls) : LevelOf(ls[i], k)
  /\ \A i \in 1..(Len(ls) - 1) : Within(ls[i + 1], ls[i])

\* On every level the search ends at the first entry beyond.
LEMMA SearchPlaces ==
  ASSUME keyOf \in Seq(Int), NEW through, LevelsOf(through, keyOf),
         NEW last \in BOOLEAN, NEW key \in Int, NEW i \in 1..Len(through)
  PROVE  IsPlace(through[i], last, key, Search(through, last, key)[i])
<1> DEFINE n == Len(through)
<1>1. n \in Nat /\ DOMAIN through = 1..n
  BY DEF LevelsOf
<1>2. PICK d : Goes(d, through, last, key)
  BY <1>1, SearchDown
<1>3. /\ \A j \in 1..n : d[j] = ScanBelow(through[j], d[j + 1], last, key)
      /\ d[n + 1] = None
  <2>1. \A j \in 1..(n + 1) : d[j] = Below(through, last, key, j, d[j + 1])
    BY <1>2 DEF Goes, IsDown
  <2>2. \A j \in 1..n : d[j] = ScanBelow(through[j], d[j + 1], last, key)
    BY <1>1, <2>1 DEF Below
  <2>3. n + 1 \in 1..(n + 1) /\ n + 1 > n
    BY <1>1
  <2> QED BY <2>1, <2>2, <2>3 DEF Below
<1> DEFINE Good(j) == /\ IsPlace(through[j], last, key, d[j].result)
                      /\ Keeps(through[j], last, key, d[j])
           Bad == {m \in Nat : m < n /\ ~Good(n - m)}
<1> HIDE DEF n
<1>4. Bad = {}
  <2> SUFFICES ASSUME Bad # {} PROVE FALSE
    OBVIOUS
  <2>1. Bad \subseteq Nat
    OBVIOUS
  <2> HIDE DEF Bad
  <2>2. PICK m \in Bad : \A k \in Bad : m <= k
    BY <2>1, LeastNumber
  <2>3. m \in Nat /\ m < n /\ ~Good(n - m) /\ n - m \in 1..n
    BY <1>1, <2>2 DEF Bad
  <2> DEFINE j == n - m
  <2>4. LevelOf(through[j], keyOf)
    BY <2>3 DEF LevelsOf, n
  <2>5. Keeps(through[j], last, key, d[j + 1])
    <3>1. CASE m = 0
      <4>1. d[j + 1] = None
        BY <1>1, <1>3, <3>1
      <4> QED BY <4>1 DEF Keeps, None
    <3>2. CASE m # 0
      <4>1. m - 1 \in Nat /\ m - 1 < n /\ ~(m <= m - 1) /\ n - (m - 1) = j + 1
            /\ j + 1 \in 1..n /\ j \in 1..(n - 1)
        BY <1>1, <2>3, <3>2
      <4>2. m - 1 \notin Bad
        BY <2>2, <4>1
      <4>3. Good(j + 1)
        BY <4>1, <4>2 DEF Bad
      <4>4. Within(through[j + 1], through[j])
        BY <4>1 DEF LevelsOf, n
      <4> HIDE DEF j
      <4>5. Keeps(through[j + 1], last, key, d[j + 1])
        BY <4>3
      <4> QED BY <4>4, <4>5 DEF Keeps, Within
    <3> QED BY <3>1, <3>2
  <2>6. d[j] = ScanBelow(through[j], d[j + 1], last, key)
    BY <1>3, <2>3
  <2> HIDE DEF j
  <2>7. IsPlace(through[j], last, key, d[j].result) /\ Keeps(through[j], last, key, d[j])
    BY <2>4, <2>5, <2>6, OneLevel
  <2> QED BY <2>3, <2>7 DEF j
<1>5. Good(i)
  <2>1. i \in 1..n
    BY DEF n
  <2>2. n - i \in Nat /\ n - i < n /\ n - (n - i) = i
    BY <1>1, <2>1
  <2> HIDE DEF Good
  <2>3. n - i \notin Bad
    BY <1>4
  <2> QED BY <2>2, <2>3 DEF Bad
<1>6. Search(through, last, key)[i] = d[i].result
  BY <1>1, <1>2 DEF n, Goes
<1> QED BY <1>5, <1>6

-----------------------------------------------------------------------------
(* What an add does to the levels. *)

\* The place an entry had before another was put in at f.
Old(x, f) == IF x < f THEN x ELSE x - 1
NewEntry == Len(keyOf) + 1
With(s, f) == Seqs!InsertAt(s, f, NewEntry)

LEMMA WithParts ==
  ASSUME keyOf \in Seq(Int), NEW s, LevelOf(s, keyOf), NEW f \in 1..(Len(s) + 1)
  PROVE  /\ Len(s) \in Nat /\ With(s, f) \in Seq(1..NewEntry) /\ Len(With(s, f)) = Len(s) + 1
         /\ With(s, f)[f] = NewEntry
         /\ \A x \in 1..(Len(s) + 1) : x # f =>
              /\ Old(x, f) \in 1..Len(s) /\ With(s, f)[x] = s[Old(x, f)]
              /\ With(s, f)[x] \in 1..Len(keyOf) /\ With(s, f)[x] # NewEntry
              /\ (x < f => Old(x, f) < f) /\ (f < x => f <= Old(x, f))
         /\ \A x, y \in 1..(Len(s) + 1) : x # f /\ y # f =>
              (x < y <=> Old(x, f) < Old(y, f))
<1> DEFINE t == With(s, f)
<1>1. /\ Len(keyOf) \in Nat /\ Len(s) \in Nat /\ f \in Nat
      /\ s \in Seq(1..Len(keyOf)) /\ \A p \in 1..Len(s) : s[p] \in 1..Len(keyOf)
  BY DEF LevelOf
<1>2. s \in Seq(1..NewEntry) /\ NewEntry \in 1..NewEntry
  BY <1>1 DEF NewEntry
<1>3. IsWith(t, s, NewEntry, f, 1..NewEntry)
  BY <1>2, InsertedAt DEF With
<1> HIDE DEF t
<1>4. ASSUME NEW x \in 1..(Len(s) + 1), x # f
      PROVE  /\ Old(x, f) \in 1..Len(s) /\ t[x] = s[Old(x, f)]
             /\ t[x] \in 1..Len(keyOf) /\ t[x] # NewEntry
             /\ (x < f => Old(x, f) < f) /\ (f < x => f <= Old(x, f))
  <2>1. Old(x, f) \in 1..Len(s) /\ (x < f => Old(x, f) < f) /\ (f < x => f <= Old(x, f))
    BY <1>1, <1>4 DEF Old
  <2>2. t[x] = s[Old(x, f)]
    <3>1. CASE x < f
      BY <1>1, <1>3, <1>4, <3>1 DEF Old, IsWith
    <3>2. CASE x > f
      BY <1>1, <1>3, <1>4, <3>2 DEF Old, IsWith
    <3> QED BY <1>1, <1>4, <3>1, <3>2
  <2> QED BY <1>1, <2>1, <2>2 DEF NewEntry
<1>5. \A x, y \in 1..(Len(s) + 1) : x # f /\ y # f => (x < y <=> Old(x, f) < Old(y, f))
  BY <1>1 DEF Old
<1>6. t \in Seq(1..NewEntry) /\ Len(t) = Len(s) + 1 /\ t[f] = NewEntry
  BY <1>3 DEF IsWith
<1> QED BY <1>1, <1>4, <1>5, <1>6 DEF t

\* The key of an entry is the same after an add, and that of the new entry is
\* the one that was added.
LEMMA KeysAppended ==
  ASSUME keyOf \in Seq(Int), NEW key \in Int
  PROVE  /\ Append(keyOf, key) \in Seq(Int) /\ Len(Append(keyOf, key)) = NewEntry
         /\ Append(keyOf, key)[NewEntry] = key
         /\ \A e \in 1..Len(keyOf) : Append(keyOf, key)[e] = keyOf[e] /\ keyOf[e] \in Int
BY DEF NewEntry

LEMMA LevelStays ==
  ASSUME keyOf \in Seq(Int), NEW key \in Int, NEW s, LevelOf(s, keyOf)
  PROVE  LevelOf(s, Append(keyOf, key))
<1>1. /\ Len(keyOf) \in Nat /\ s \in Seq(1..Len(keyOf)) /\ Len(s) \in Nat
      /\ \A p \in 1..Len(s) : s[p] \in 1..Len(keyOf)
  BY DEF LevelOf
<1>2. s \in Seq(1..NewEntry)
  BY <1>1 DEF NewEntry
<1> QED BY <1>1, <1>2, KeysAppended DEF LevelOf

LEMMA LevelGrows ==
  ASSUME keyOf \in Seq(Int), NEW key \in Int, NEW s, LevelOf(s, keyOf),
         NEW last \in BOOLEAN, NEW f, IsPlace(s, last, key, f)
  PROVE  LevelOf(With(s, f), Append(keyOf, key))
<1> DEFINE t == With(s, f)
           k == Append(keyOf, key)
<1>0. f \in 1..(Len(s) + 1)
  BY DEF IsPlace
<1>1. /\ Len(s) \in Nat /\ t \in Seq(1..NewEntry) /\ Len(t) = Len(s) + 1 /\ t[f] = NewEntry
      /\ \A x \in 1..(Len(s) + 1) : x # f =>
           /\ Old(x, f) \in 1..Len(s) /\ t[x] = s[Old(x, f)]
           /\ t[x] \in 1..Len(keyOf) /\ t[x] # NewEntry
           /\ (x < f => Old(x, f) < f) /\ (f < x => f <= Old(x, f))
      /\ \A x, y \in 1..(Len(s) + 1) : x # f /\ y # f => (x < y <=> Old(x, f) < Old(y, f))
  BY <1>0, WithParts
<1>2. /\ Len(k) = NewEntry /\ k[NewEntry] = key
      /\ \A e \in 1..Len(keyOf) : k[e] = keyOf[e] /\ keyOf[e] \in Int
  BY KeysAppended
<1> HIDE DEF t, k
<1>3. ASSUME NEW x \in 1..(Len(s) + 1), NEW y \in 1..(Len(s) + 1), x < y
      PROVE  t[x] # t[y] /\ k[t[x]] <= k[t[y]]
  <2>1. CASE x = f
    <3>1. y # f /\ f < y
      BY <1>0, <1>3, <2>1
    <3>2. Old(y, f) \in 1..Len(s) /\ Beyond(last, s[Old(y, f)], key)
      BY <1>0, <1>1, <3>1, PlaceParts
    <3>3. k[t[y]] = keyOf[s[Old(y, f)]] /\ keyOf[s[Old(y, f)]] >= key /\ keyOf[s[Old(y, f)]] \in Int
      <4> DEFINE e == s[Old(y, f)]
      <4>1. e = t[y] /\ e \in 1..Len(keyOf)
        BY <1>1, <3>1
      <4> HIDE DEF e
      <4>2. k[e] = keyOf[e] /\ keyOf[e] \in Int
        BY <1>2, <4>1
      <4>3. Beyond(last, e, key)
        BY <3>2 DEF e
      <4>4. keyOf[e] >= key
        BY <4>2, <4>3 DEF Beyond
      <4> QED BY <4>1, <4>2, <4>4 DEF e
    <3> QED BY <1>1, <1>2, <2>1, <3>1, <3>3
  <2>2. CASE y = f
    <3>1. x # f /\ x < f
      BY <1>0, <1>3, <2>2
    <3>2. Old(x, f) \in 1..Len(s) /\ ~Beyond(last, s[Old(x, f)], key)
      BY <1>0, <1>1, <3>1, PlaceParts
    <3>3. k[t[x]] = keyOf[s[Old(x, f)]] /\ keyOf[s[Old(x, f)]] <= key /\ keyOf[s[Old(x, f)]] \in Int
      <4> DEFINE e == s[Old(x, f)]
      <4>1. e = t[x] /\ e \in 1..Len(keyOf)
        BY <1>1, <3>1
      <4> HIDE DEF e
      <4>2. k[e] = keyOf[e] /\ keyOf[e] \in Int
        BY <1>2, <4>1
      <4>3. ~Beyond(last, e, key)
        BY <3>2 DEF e
      <4>4. keyOf[e] <= key
        BY <4>2, <4>3 DEF Beyond
      <4> QED BY <4>1, <4>2, <4>4 DEF e
    <3> QED BY <1>1, <1>2, <2>2, <3>1, <3>3
  <2>3. CASE x # f /\ y # f
    <3>1. Old(x, f) \in 1..Len(s) /\ Old(y, f) \in 1..Len(s) /\ Old(x, f) < Old(y, f)
      BY <1>1, <1>3, <2>3
    <3>2. s[Old(x, f)] # s[Old(y, f)] /\ keyOf[s[Old(x, f)]] <= keyOf[s[Old(y, f)]]
      BY <3>1 DEF LevelOf
    <3> QED BY <1>1, <1>2, <2>3, <3>2
  <2> QED BY <2>1, <2>2, <2>3
<1>4. LevelOf(t, k)
  BY <1>1, <1>2, <1>3 DEF LevelOf
<1> QED BY <1>4 DEF t, k

\* The new entry on a level and on the one below.
LEMMA WithinGrow ==
  ASSUME keyOf \in Seq(Int), NEW key \in Int, NEW last \in BOOLEAN,
         NEW a, LevelOf(a, keyOf), NEW b, LevelOf(b, keyOf), Within(a, b),
         NEW f, IsPlace(a, last, key, f), NEW g, IsPlace(b, last, key, g)
  PROVE  Within(With(a, f), With(b, g)) /\ Within(a, With(b, g))
<1> DEFINE u == With(a, f)
           v == With(b, g)
<1>0. f \in 1..(Len(a) + 1) /\ g \in 1..(Len(b) + 1)
  BY DEF IsPlace
<1>1. /\ Len(a) \in Nat /\ Len(u) = Len(a) + 1 /\ u[f] = NewEntry
      /\ \A x \in 1..(Len(a) + 1) : x # f =>
           /\ Old(x, f) \in 1..Len(a) /\ u[x] = a[Old(x, f)] /\ u[x] # NewEntry
           /\ (x < f => Old(x, f) < f) /\ (f < x => f <= Old(x, f))
      /\ \A x, y \in 1..(Len(a) + 1) : x # f /\ y # f => (x < y <=> Old(x, f) < Old(y, f))
  BY <1>0, WithParts
<1>2. /\ Len(b) \in Nat /\ Len(v) = Len(b) + 1 /\ v[g] = NewEntry
      /\ \A x \in 1..(Len(b) + 1) : x # g =>
           /\ Old(x, g) \in 1..Len(b) /\ v[x] = b[Old(x, g)] /\ v[x] # NewEntry
           /\ (x < g => Old(x, g) < g) /\ (g < x => g <= Old(x, g))
      /\ \A x, y \in 1..(Len(b) + 1) : x # g /\ y # g => (x < y <=> Old(x, g) < Old(y, g))
  BY <1>0, WithParts
<1> HIDE DEF u, v
<1>3. \A p \in 1..Len(a) : a[p] \in 1..Len(keyOf) /\ a[p] # NewEntry
  BY DEF LevelOf, NewEntry
<1>4. /\ \A p \in 1..Len(a) : Beyond(last, a[p], key) <=> f <= p
      /\ \A p \in 1..Len(b) : Beyond(last, b[p], key) <=> g <= p
  BY <1>1, <1>2, PlaceParts
<1>5. ASSUME NEW p \in 1..Len(a) PROVE \E r \in 1..Len(v) : v[r] = a[p]
  <2>1. PICK r \in 1..Len(b) : b[r] = a[p]
    BY DEF Within
  <2> DEFINE x == IF r < g THEN r ELSE r + 1
  <2>2. x \in 1..(Len(b) + 1) /\ x # g /\ Old(x, g) = r
    BY <1>0, <1>2 DEF Old
  <2> HIDE DEF x
  <2> QED BY <1>2, <2>1, <2>2
<1>6. ASSUME NEW p \in 1..Len(a), NEW q \in 1..Len(a), NEW r \in 1..Len(v), NEW s \in 1..Len(v),
             a[p] = v[r], a[q] = v[s], p < q
      PROVE  r < s
  <2>1. r # g /\ s # g /\ r \in 1..(Len(b) + 1) /\ s \in 1..(Len(b) + 1)
    BY <1>2, <1>3, <1>6
  <2>2. a[p] = b[Old(r, g)] /\ a[q] = b[Old(s, g)] /\ Old(r, g) \in 1..Len(b) /\ Old(s, g) \in 1..Len(b)
    BY <1>2, <1>6, <2>1
  <2>3. Old(r, g) < Old(s, g)
    BY <1>6, <2>2 DEF Within
  <2> QED BY <1>2, <2>1, <2>3
<1>7. ASSUME NEW p \in 1..Len(u) PROVE \E r \in 1..Len(v) : v[r] = u[p]
  <2>1. CASE p = f
    BY <1>0, <1>1, <1>2, <2>1
  <2>2. CASE p # f
    BY <1>1, <1>5, <2>2
  <2> QED BY <2>1, <2>2
<1>8. ASSUME NEW p \in 1..Len(u), NEW q \in 1..Len(u), NEW r \in 1..Len(v), NEW s \in 1..Len(v),
             u[p] = v[r], u[q] = v[s], p < q
      PROVE  r < s
  <2>1. (p = f <=> r = g) /\ (q = f <=> s = g)
    BY <1>1, <1>2, <1>8
  <2>2. CASE p = f
    <3>1. q # f /\ s # g /\ f < q
      BY <1>0, <1>1, <1>8, <2>1, <2>2
    <3>2. /\ Old(q, f) \in 1..Len(a) /\ f <= Old(q, f) /\ a[Old(q, f)] = b[Old(s, g)]
          /\ Old(s, g) \in 1..Len(b)
      BY <1>1, <1>2, <1>8, <3>1
    <3>3. g <= Old(s, g)
      BY <1>4, <3>2
    <3>4. ~(s < g)
      BY <1>0, <1>2, <3>1, <3>3 DEF Old
    <3> QED BY <1>0, <1>2, <2>1, <2>2, <3>1, <3>4
  <2>3. CASE q = f
    <3>1. p # f /\ r # g /\ p < f
      BY <1>0, <1>1, <1>8, <2>1, <2>3
    <3>2. /\ Old(p, f) \in 1..Len(a) /\ ~(f <= Old(p, f)) /\ a[Old(p, f)] = b[Old(r, g)]
          /\ Old(r, g) \in 1..Len(b)
      BY <1>0, <1>1, <1>2, <1>8, <3>1
    <3>3. ~(g <= Old(r, g))
      BY <1>4, <3>2
    <3>4. r < g
      BY <1>0, <1>2, <3>1, <3>3 DEF Old
    <3> QED BY <2>1, <2>3, <3>4
  <2>4. CASE p # f /\ q # f
    <3>1. Old(p, f) \in 1..Len(a) /\ Old(q, f) \in 1..Len(a) /\ Old(p, f) < Old(q, f)
      BY <1>1, <1>8, <2>4
    <3>2. /\ r # g /\ s # g /\ r \in 1..(Len(b) + 1) /\ s \in 1..(Len(b) + 1)
          /\ Old(r, g) \in 1..Len(b) /\ Old(s, g) \in 1..Len(b)
          /\ a[Old(p, f)] = b[Old(r, g)] /\ a[Old(q, f)] = b[Old(s, g)]
      BY <1>1, <1>2, <1>8, <2>1, <2>4
    <3>3. Old(r, g) < Old(s, g)
      BY <3>1, <3>2 DEF Within
    <3> QED BY <1>2, <3>2, <3>3
  <2> QED BY <2>2, <2>3, <2>4
<1>9. Within(u, v) /\ Within(a, v)
  BY <1>5, <1>6, <1>7, <1>8 DEF Within
<1> QED BY <1>9 DEF u, v

\* The levels with those that were missing.
LEMMA RaisedLevels ==
  ASSUME NEW k, LevelsOf(lists, k), NEW level \in Nat \ {0}
  PROVE  /\ LevelsOf(Raised(level), k) /\ Raised(level)[1] = lists[1]
         /\ Len(Raised(level)) \in Nat /\ level <= Len(Raised(level))
<1> DEFINE n == Len(lists)
           more == [i \in 1..(level - n) |-> <<>>]
           t == Raised(level)
<1>1. /\ n \in Nat \ {0} /\ lists \in Seq(Seq(Nat))
      /\ \A i \in 1..n : LevelOf(lists[i], k)
      /\ \A i \in 1..(n - 1) : Within(lists[i + 1], lists[i])
  BY DEF LevelsOf
<1>2. CASE level <= n
  <2>1. t = lists
    BY <1>2 DEF Raised
  <2> HIDE DEF t
  <2>2. LevelsOf(t, k) /\ t[1] = lists[1] /\ Len(t) \in Nat /\ level <= Len(t)
    BY <1>1, <1>2, <2>1
  <2> QED BY <2>2 DEF t
<1>3. CASE ~(level <= n)
  <2>1. t = lists \o more
    BY <1>3 DEF Raised
  <2>2. /\ more \in Seq(Seq(Nat)) /\ Len(more) = level - n
        /\ \A i \in 1..(level - n) : more[i] = <<>>
    <3>1. level - n \in Nat /\ <<>> \in Seq(Nat)
      BY <1>1, <1>3
    <3> QED BY <3>1
  <2> HIDE DEF more, t
  <2>3. /\ t \in Seq(Seq(Nat)) /\ Len(t) = level
        /\ \A i \in 1..n : t[i] = lists[i]
        /\ \A i \in (n + 1)..level : t[i] = <<>>
    <3>1. t \in Seq(Seq(Nat)) /\ Len(t) = level /\ \A i \in 1..n : t[i] = lists[i]
      BY <1>1, <1>3, <2>1, <2>2
    <3>2. ASSUME NEW i \in (n + 1)..level PROVE t[i] = <<>>
      <4>1. i - n \in 1..(level - n) /\ i \in 1..level /\ i > n
        BY <1>1, <1>3
      <4>2. t[i] = more[i - n]
        BY <1>1, <1>3, <2>1, <2>2, <4>1
      <4> QED BY <2>2, <4>1, <4>2
    <3> QED BY <3>1, <3>2
  <2>4. LevelOf(<<>>, k) /\ \A b : Within(<<>>, b)
    BY DEF LevelOf, Within
  <2>5. ASSUME NEW i \in 1..level PROVE LevelOf(t[i], k)
    <3>1. i \in 1..n \/ i \in (n + 1)..level
      BY <1>1
    <3> QED BY <1>1, <2>3, <2>4, <3>1
  <2>6. ASSUME NEW i \in 1..(level - 1) PROVE Within(t[i + 1], t[i])
    <3>1. CASE i + 1 <= n
      <4>1. i \in 1..(n - 1) /\ i \in 1..n /\ i + 1 \in 1..n
        BY <1>1, <3>1
      <4> QED BY <1>1, <2>3, <4>1
    <3>2. CASE ~(i + 1 <= n)
      <4>1. i + 1 \in (n + 1)..level
        BY <1>1, <1>3, <3>2
      <4> QED BY <2>3, <2>4, <4>1
    <3> QED BY <3>1, <3>2
  <2>7. t # <<>> /\ 1 \in 1..n
    BY <1>1, <2>3
  <2>8. LevelsOf(t, k)
    BY <2>3, <2>5, <2>6, <2>7 DEF LevelsOf
  <2> QED BY <1>1, <1>3, <2>3, <2>7, <2>8 DEF t
<1> QED BY <1>2, <1>3

SkipInv == keyOf \in Seq(Int) /\ LevelsOf(lists, keyOf)

\* An add puts the entry at its place on the lowest level, and the levels stay
\* what they are to each other.
LEMMA AddKeeps ==
  ASSUME SkipInv, NEW last \in BOOLEAN, NEW key \in Keys, NEW level \in 1..MaxLevel,
         Add(last, key, level)
  PROVE  /\ SkipInv'
         /\ \E f : IsPlace(lists[1], last, key, f) /\ lists'[1] = With(lists[1], f)
<1> DEFINE t == Raised(level)
           r == Search(t, last, key)
           k == Append(keyOf, key)
<1>1. key \in Int /\ level \in Nat \ {0} /\ 1 <= level
  BY SkipListAssumption
<1>2. keyOf \in Seq(Int) /\ LevelsOf(t, keyOf) /\ t[1] = lists[1]
      /\ Len(t) \in Nat /\ level <= Len(t)
  BY <1>1, RaisedLevels DEF SkipInv
<1>3. t \in Seq(Seq(Nat)) /\ DOMAIN t = 1..Len(t)
      /\ (\A i \in 1..Len(t) : LevelOf(t[i], keyOf))
      /\ (\A i \in 1..(Len(t) - 1) : Within(t[i + 1], t[i]))
  BY <1>2 DEF LevelsOf
<1>4. keyOf' = k /\ k \in Seq(Int) /\ Len(k) = NewEntry
  BY <1>1, <1>2 DEF Add, NewEntry
<1>5. lists' = Inserted(t, r, level, NewEntry)
  BY <1>4 DEF Add
<1> HIDE DEF t, k
<1>6. \A i \in 1..Len(t) : IsPlace(t[i], last, key, r[i])
  BY <1>1, <1>2, SearchPlaces
<1> HIDE DEF r
<1>7. lists' = [i \in 1..Len(t) |-> IF i <= level THEN With(t[i], r[i]) ELSE t[i]]
  BY <1>3, <1>5 DEF Inserted, With
<1>8. /\ Len(lists') = Len(t)
      /\ \A i \in 1..Len(t) : lists'[i] = IF i <= level THEN With(t[i], r[i]) ELSE t[i]
  BY <1>2, <1>7
<1>9. ASSUME NEW i \in 1..Len(t) PROVE lists'[i] \in Seq(Nat) /\ LevelOf(lists'[i], k)
  <2>1. LevelOf(t[i], k) /\ LevelOf(With(t[i], r[i]), k)
    BY <1>1, <1>2, <1>3, <1>6, LevelStays, LevelGrows DEF k
  <2>2. LevelOf(lists'[i], k)
    BY <1>8, <2>1
  <2>3. Len(k) \in Nat /\ 1..Len(k) \subseteq Nat
    BY <1>4
  <2> QED BY <2>2, <2>3 DEF LevelOf
<1>10. ASSUME NEW i \in 1..(Len(t) - 1) PROVE Within(lists'[i + 1], lists'[i])
  <2>1. i \in 1..Len(t) /\ i + 1 \in 1..Len(t)
    BY <1>2
  <2>2. LevelOf(t[i + 1], keyOf) /\ LevelOf(t[i], keyOf) /\ Within(t[i + 1], t[i])
        /\ IsPlace(t[i + 1], last, key, r[i + 1]) /\ IsPlace(t[i], last, key, r[i])
    BY <1>3, <1>6, <2>1
  <2>3. Within(With(t[i + 1], r[i + 1]), With(t[i], r[i])) /\ Within(t[i + 1], With(t[i], r[i]))
    BY <1>1, <1>2, <2>2, WithinGrow
  <2>4. CASE i + 1 <= level
    <3>1. i <= level
      BY <1>1, <2>4
    <3> QED BY <1>8, <2>1, <2>3, <2>4, <3>1
  <2>5. CASE ~(i + 1 <= level) /\ i <= level
    BY <1>8, <2>1, <2>3, <2>5
  <2>6. CASE ~(i <= level)
    <3>1. ~(i + 1 <= level)
      BY <1>1, <2>6
    <3> QED BY <1>8, <2>1, <2>2, <2>6, <3>1
  <2> QED BY <2>4, <2>5, <2>6
<1>11. lists' \in Seq(Seq(Nat)) /\ lists' # <<>>
  BY <1>1, <1>2, <1>7, <1>8, <1>9
<1>12. LevelsOf(lists', k)
  BY <1>8, <1>9, <1>10, <1>11 DEF LevelsOf
<1>13. SkipInv'
  BY <1>4, <1>12 DEF SkipInv
<1>14. 1 \in 1..Len(t) /\ lists'[1] = With(lists[1], r[1]) /\ IsPlace(lists[1], last, key, r[1])
  <2>1. 1 \in 1..Len(t)
    BY <1>1, <1>2
  <2> QED BY <1>1, <1>2, <1>6, <1>8, <2>1
<1> QED BY <1>13, <1>14

LEMMA SkipInvInit == Init => SkipInv
<1> SUFFICES ASSUME Init PROVE SkipInv
  OBVIOUS
<1>1. lists = <<<<>>>> /\ keyOf = <<>>
  BY DEF Init
<1>2. /\ lists \in Seq(Seq(Nat)) /\ Len(lists) = 1 /\ lists[1] = <<>> /\ lists # <<>>
  BY <1>1
<1>3. \A i \in 1..1 : LevelOf(lists[i], keyOf)
  BY <1>2 DEF LevelOf
<1>4. LevelsOf(lists, keyOf)
  BY <1>2, <1>3 DEF LevelsOf
<1> QED BY <1>1, <1>4 DEF SkipInv

LEMMA SkipInvNext == SkipInv /\ [Next]_vars => SkipInv'
<1> SUFFICES ASSUME SkipInv, [Next]_vars PROVE SkipInv'
  OBVIOUS
<1>1. ASSUME NEW key \in Keys, NEW level \in 1..MaxLevel, AddAfter(key, level) PROVE SkipInv'
  <2>1. Add(TRUE, key, level)
    BY <1>1 DEF AddAfter
  <2> QED BY <2>1, AddKeeps
<1>2. ASSUME NEW key \in Keys, NEW level \in 1..MaxLevel, AddBefore(key, level) PROVE SkipInv'
  <2>1. Add(FALSE, key, level)
    BY <1>2 DEF AddBefore
  <2> QED BY <2>1, AddKeeps
<1>3. CASE Clear
  <2>1. lists' = <<<<>>>> /\ keyOf' = keyOf
    BY <1>3 DEF Clear
  <2>2. /\ lists' \in Seq(Seq(Nat)) /\ Len(lists') = 1 /\ lists'[1] = <<>> /\ lists' # <<>>
    BY <2>1
  <2>3. \A i \in 1..1 : LevelOf(lists'[i], keyOf')
    BY <2>2 DEF LevelOf
  <2>4. LevelsOf(lists', keyOf')
    BY <2>2, <2>3 DEF LevelsOf
  <2> QED BY <2>1, <2>4 DEF SkipInv
<1>4. CASE UNCHANGED vars
  BY <1>4 DEF vars, SkipInv
<1> QED BY <1>1, <1>2, <1>3, <1>4 DEF Next

\* The levels are parts of each other, and each is in the order of its keys: the
\* inductive invariant of the skip list (skip_list.hpp, add_after, add_before).
THEOREM LevelsKept == Spec => []SkipInv
<1>1. SkipInv /\ [Next]_vars => SkipInv'
  BY SkipInvNext
<1> QED BY SkipInvInit, <1>1, PTL DEF Spec

\* Each level lists entries of the level below in the same order, each once,
\* whatever levels the entries have drawn (skip_list.hpp, new_entry_level).
THEOREM LevelsAlwaysNest == Spec => []LevelsNest
<1>1. SkipInv => LevelsNest
  <2> SUFFICES ASSUME SkipInv, NEW i \in 2..Len(lists),
                      NEW p \in DOMAIN lists[i], NEW q \in DOMAIN lists[i], p <= q
               PROVE  \E r, s \in DOMAIN lists[i - 1] :
                        /\ lists[i - 1][r] = lists[i][p] /\ lists[i - 1][s] = lists[i][q]
                        /\ p < q => r < s
    BY DEF LevelsNest
  <2>1. Len(lists) \in Nat /\ i - 1 \in 1..(Len(lists) - 1) /\ (i - 1) + 1 = i
        /\ i \in 1..Len(lists) /\ i - 1 \in 1..Len(lists)
    BY DEF SkipInv, LevelsOf
  <2>2. Within(lists[i], lists[i - 1]) /\ LevelOf(lists[i], keyOf) /\ LevelOf(lists[i - 1], keyOf)
    BY <2>1 DEF SkipInv, LevelsOf
  <2>3. DOMAIN lists[i] = 1..Len(lists[i]) /\ DOMAIN lists[i - 1] = 1..Len(lists[i - 1])
    BY <2>2 DEF LevelOf
  <2>4. PICK r \in 1..Len(lists[i - 1]) : lists[i - 1][r] = lists[i][p]
    BY <2>2, <2>3 DEF Within
  <2>5. PICK s \in 1..Len(lists[i - 1]) : lists[i - 1][s] = lists[i][q]
    BY <2>2, <2>3 DEF Within
  <2>6. p < q => r < s
    BY <2>2, <2>3, <2>4, <2>5 DEF Within
  <2> QED BY <2>3, <2>4, <2>5, <2>6
<1> QED BY <1>1, LevelsKept, PTL

-----------------------------------------------------------------------------
(* What the searches find. *)

LEMMA FindsState == SkipInv => FindsAsScan
<1> SUFFICES ASSUME SkipInv, NEW key \in Keys
             PROVE  IF Having(key) = {}
                      THEN GetFirst(key) = {} /\ GetLast(key) = {} /\ SeekFirst(key) = EndOfList
                      ELSE LET first == CHOOSE p \in Having(key) : \A q \in Having(key) : p <= q
                               last == CHOOSE p \in Having(key) : \A q \in Having(key) : q <= p
                           IN  /\ GetFirst(key) = {Lowest[first]} /\ GetLast(key) = {Lowest[last]}
                               /\ SeekFirst(key) = first
  BY DEF FindsAsScan
<1> DEFINE f == Search(lists, FALSE, key)[1]
           g == Search(lists, TRUE, key)[1]
<1>1. key \in Int /\ keyOf \in Seq(Int) /\ LevelsOf(lists, keyOf)
  BY SkipListAssumption DEF SkipInv
<1>2. 1 \in 1..Len(lists) /\ LevelOf(Lowest, keyOf)
  <2>1. Len(lists) \in Nat \ {0}
    BY <1>1 DEF LevelsOf
  <2> QED BY <1>1, <2>1 DEF LevelsOf, Lowest
<1>3. IsPlace(Lowest, FALSE, key, f) /\ IsPlace(Lowest, TRUE, key, g)
  BY <1>1, <1>2, SearchPlaces DEF Lowest
<1> HIDE DEF f, g
<1>4. /\ Len(Lowest) \in Nat /\ DOMAIN Lowest = 1..Len(Lowest)
      /\ \A p \in 1..Len(Lowest) : Lowest[p] \in 1..Len(keyOf) /\ keyOf[Lowest[p]] \in Int
      /\ \A p, q \in 1..Len(Lowest) : p < q => keyOf[Lowest[p]] <= keyOf[Lowest[q]]
  BY <1>1, <1>2 DEF LevelOf
<1>5. /\ f \in 1..(Len(Lowest) + 1) /\ g \in 1..(Len(Lowest) + 1)
      /\ \A p \in 1..Len(Lowest) : keyOf[Lowest[p]] >= key <=> f <= p
      /\ \A p \in 1..Len(Lowest) : keyOf[Lowest[p]] > key <=> g <= p
  <2>1. f \in 1..(Len(Lowest) + 1) /\ g \in 1..(Len(Lowest) + 1)
    BY <1>3 DEF IsPlace
  <2>2. \A p \in 1..Len(Lowest) : Beyond(FALSE, Lowest[p], key) <=> f <= p
    BY <1>3, <1>4, PlaceParts
  <2>3. \A p \in 1..Len(Lowest) : Beyond(TRUE, Lowest[p], key) <=> g <= p
    BY <1>3, <1>4, PlaceParts
  <2> QED BY <2>1, <2>2, <2>3 DEF Beyond
<1>6. \A p \in Having(key) : p \in 1..Len(Lowest) /\ keyOf[Lowest[p]] = key /\ f <= p /\ p <= g - 1
  <2> SUFFICES ASSUME NEW p \in Having(key)
               PROVE  p \in 1..Len(Lowest) /\ keyOf[Lowest[p]] = key /\ f <= p /\ p <= g - 1
    OBVIOUS
  <2>1. p \in 1..Len(Lowest) /\ keyOf[Lowest[p]] = key
    BY <1>4 DEF Having
  <2>2. f <= p /\ ~(g <= p)
    BY <1>1, <1>5, <2>1
  <2> QED BY <1>5, <2>1, <2>2
<1>7. EndOfList = Len(Lowest) + 1
  BY DEF EndOfList
<1>8. /\ GetFirst(key) = IF f = EndOfList \/ keyOf[Lowest[f]] # key THEN {} ELSE {Lowest[f]}
      /\ GetLast(key) = IF g = 1 \/ keyOf[Lowest[g - 1]] # key THEN {} ELSE {Lowest[g - 1]}
      /\ SeekFirst(key) = IF f = EndOfList \/ keyOf[Lowest[f]] # key THEN EndOfList ELSE f
  BY DEF GetFirst, GetLast, SeekFirst, f, g
<1>9. CASE Having(key) = {}
  <2>1. \A p \in 1..Len(Lowest) : keyOf[Lowest[p]] # key
    BY <1>4, <1>9 DEF Having
  <2>2. f = EndOfList \/ f \in 1..Len(Lowest)
    BY <1>4, <1>5, <1>7
  <2>3. g = 1 \/ g - 1 \in 1..Len(Lowest)
    BY <1>4, <1>5
  <2> QED BY <1>8, <1>9, <2>1, <2>2, <2>3
<1>10. CASE Having(key) # {}
  <2>1. PICK h \in Having(key) : TRUE
    BY <1>10
  <2>2. h \in 1..Len(Lowest) /\ keyOf[Lowest[h]] = key /\ f <= h /\ h <= g - 1
    BY <1>6, <2>1
  <2>3. f \in Having(key) /\ f # EndOfList
    <3>1. f \in 1..Len(Lowest) /\ keyOf[Lowest[f]] >= key
      BY <1>4, <1>5, <2>2
    <3>2. keyOf[Lowest[f]] <= keyOf[Lowest[h]]
      <4>1. CASE f = h
        BY <1>4, <2>2, <4>1
      <4>2. CASE f # h
        <5>1. f < h
          BY <2>2, <3>1, <4>2
        <5> QED BY <1>4, <2>2, <3>1, <5>1
      <4> QED BY <4>1, <4>2
    <3>3. keyOf[Lowest[f]] = key
      BY <1>1, <1>4, <2>2, <3>1, <3>2
    <3> QED BY <1>4, <1>7, <3>1, <3>3 DEF Having
  <2>4. g - 1 \in Having(key) /\ g # 1
    <3>1. g - 1 \in 1..Len(Lowest) /\ ~(g <= g - 1)
      BY <1>4, <1>5, <2>2
    <3>2. ~(keyOf[Lowest[g - 1]] > key)
      BY <1>5, <3>1
    <3>3. keyOf[Lowest[h]] <= keyOf[Lowest[g - 1]]
      <4>1. CASE h = g - 1
        BY <1>4, <2>2, <4>1
      <4>2. CASE h # g - 1
        <5>1. h < g - 1
          BY <2>2, <3>1, <4>2
        <5> QED BY <1>4, <2>2, <3>1, <5>1
      <4> QED BY <4>1, <4>2
    <3>4. keyOf[Lowest[g - 1]] = key
      BY <1>1, <1>4, <2>2, <3>1, <3>2, <3>3
    <3> QED BY <1>4, <1>5, <2>2, <3>1, <3>4 DEF Having
  <2> DEFINE first == CHOOSE p \in Having(key) : \A q \in Having(key) : p <= q
             last == CHOOSE p \in Having(key) : \A q \in Having(key) : q <= p
  <2>5. first = f
    <3>1. first \in Having(key) /\ \A q \in Having(key) : first <= q
      BY <1>6, <2>3
    <3> HIDE DEF first
    <3>2. first <= f /\ f <= first
      BY <1>6, <2>3, <3>1
    <3>3. first \in Int /\ f \in Int
      BY <1>5, <1>6, <3>1
    <3> QED BY <3>2, <3>3
  <2>6. last = g - 1
    <3>1. last \in Having(key) /\ \A q \in Having(key) : q <= last
      BY <1>6, <2>4
    <3> HIDE DEF last
    <3>2. last <= g - 1 /\ g - 1 <= last
      BY <1>6, <2>4, <3>1
    <3>3. last \in Int /\ g - 1 \in Int
      BY <1>5, <1>6, <3>1
    <3> QED BY <3>2, <3>3
  <2> HIDE DEF first, last
  <2>7. keyOf[Lowest[f]] = key /\ keyOf[Lowest[g - 1]] = key
    BY <1>6, <2>3, <2>4
  <2>8. GetFirst(key) = {Lowest[first]} /\ GetLast(key) = {Lowest[last]} /\ SeekFirst(key) = first
    BY <1>8, <2>3, <2>4, <2>5, <2>6, <2>7
  <2> QED BY <1>10, <2>8 DEF first, last
<1> QED BY <1>9, <1>10

\* get_first, get_last and seek_first find what a walk along the lowest list
\* finds, whatever levels the entries have drawn (skip_list.hpp, search).
THEOREM SearchesFind == Spec => []FindsAsScan
BY FindsState, LevelsKept, PTL

-----------------------------------------------------------------------------
(* The skip list implements the keyed list. *)

Pairs == [p \in DOMAIN Lowest |-> <<keyOf[Lowest[p]], Lowest[p]>>]

\* Putting a pair into the list of pairs is putting its entry into the level.
LEMMA PairsWith ==
  ASSUME SkipInv, NEW key \in Int, NEW f \in 1..(Len(Lowest) + 1),
         keyOf' = Append(keyOf, key), Lowest' = With(Lowest, f)
  PROVE  /\ Len(Pairs) = Len(Lowest)
         /\ Pairs' = SubSeq(Pairs, 1, f - 1) \o <<<<key, Len(keyOf) + 1>>>> \o SubSeq(Pairs, f, Len(Pairs))
<1> DEFINE T == Int \X Nat
           e == <<key, Len(keyOf) + 1>>
           n == Len(Lowest)
           s == Pairs
           w == With(Lowest, f)
           t == Seqs!InsertAt(s, f, e)
<1>1. keyOf \in Seq(Int) /\ Len(keyOf) \in Nat /\ LevelOf(Lowest, keyOf)
  <2>1. Len(lists) \in Nat \ {0}
    BY DEF SkipInv, LevelsOf
  <2> QED BY <2>1 DEF SkipInv, LevelsOf, Lowest
<1>2. /\ n \in Nat /\ DOMAIN Lowest = 1..n
      /\ \A p \in 1..n : Lowest[p] \in 1..Len(keyOf) /\ keyOf[Lowest[p]] \in Int /\ Lowest[p] \in Nat
  BY <1>1 DEF LevelOf
<1>3. /\ w \in Seq(1..NewEntry) /\ Len(w) = n + 1 /\ w[f] = NewEntry
      /\ \A x \in 1..(n + 1) : x # f =>
           Old(x, f) \in 1..n /\ w[x] = Lowest[Old(x, f)] /\ w[x] \in 1..Len(keyOf)
  BY <1>1, WithParts
<1> HIDE DEF w
<1>4. /\ s \in Seq(T) /\ Len(s) = n /\ \A p \in 1..n : s[p] = <<keyOf[Lowest[p]], Lowest[p]>>
  BY <1>2 DEF Pairs
<1>5. e \in T
  BY <1>1
<1> HIDE DEF e, T, s, n
<1>6. f \in 1..(Len(s) + 1)
  BY <1>4 DEF n
<1>7. IsWith(t, s, e, f, T)
  BY <1>4, <1>5, <1>6, InsertedAt
<1>8. t = SubSeq(s, 1, f - 1) \o <<e>> \o SubSeq(s, f, Len(s))
  BY DEF Seqs!InsertAt
<1> HIDE DEF t
<1>9. /\ t \in Seq(T) /\ Len(t) = n + 1
      /\ \A x \in 1..(n + 1) : t[x] = IF x = f THEN e ELSE s[Old(x, f)]
  <2>1. t \in Seq(T) /\ Len(t) = n + 1 /\ t[f] = e
    BY <1>4, <1>7 DEF IsWith
  <2>2. ASSUME NEW x \in 1..(n + 1), x # f PROVE t[x] = s[Old(x, f)]
    <3>1. CASE x < f
      <4>1. x \in 1..(f - 1)
        BY <1>4, <1>6, <3>1
      <4> QED BY <1>7, <3>1, <4>1 DEF IsWith, Old
    <3>2. CASE ~(x < f)
      <4>1. x \in (f + 1)..(Len(s) + 1)
        BY <1>4, <1>6, <2>2, <3>2
      <4> QED BY <1>7, <3>2, <4>1 DEF IsWith, Old
    <3> QED BY <3>1, <3>2
  <2> QED BY <2>1, <2>2
<1>10. Pairs' = [x \in 1..(n + 1) |-> <<keyOf'[w[x]], w[x]>>]
  <2>1. Lowest' = w /\ DOMAIN w = 1..(n + 1)
    BY <1>3 DEF w
  <2>2. Pairs' = [x \in DOMAIN Lowest' |-> <<keyOf'[Lowest'[x]], Lowest'[x]>>]
    BY DEF Pairs
  <2> QED BY <2>1, <2>2
<1>11. ASSUME NEW x \in 1..(n + 1) PROVE <<keyOf'[w[x]], w[x]>> = t[x]
  <2>1. CASE x = f
    <3>1. w[x] = Len(keyOf) + 1
      BY <1>3, <2>1 DEF NewEntry
    <3>2. keyOf'[Len(keyOf) + 1] = key
      BY <1>1
    <3>3. t[x] = e
      BY <1>9, <2>1
    <3> QED BY <3>1, <3>2, <3>3 DEF e
  <2>2. CASE x # f
    <3>1. Old(x, f) \in 1..n /\ w[x] = Lowest[Old(x, f)] /\ w[x] \in 1..Len(keyOf)
      BY <1>3, <2>2
    <3>2. keyOf'[w[x]] = keyOf[w[x]]
      BY <1>1, <3>1
    <3>3. t[x] = s[Old(x, f)] /\ s[Old(x, f)] = <<keyOf[Lowest[Old(x, f)]], Lowest[Old(x, f)]>>
      BY <1>4, <1>9, <2>2, <3>1
    <3> QED BY <3>1, <3>2, <3>3
  <2> QED BY <2>1, <2>2
<1>12. t = [x \in 1..(n + 1) |-> t[x]]
  BY <1>9
<1>13. Pairs' = t
  BY <1>10, <1>11, <1>12
<1> QED BY <1>4, <1>8, <1>13 DEF s, e, n

LEMMA PairsAt ==
  ASSUME SkipInv
  PROVE  /\ Len(Pairs) = Len(Lowest) /\ Len(Lowest) \in Nat
         /\ \A p \in 1..Len(Lowest) : Pairs[p][1] = keyOf[Lowest[p]]
<1>1. LevelOf(Lowest, keyOf)
  <2>1. Len(lists) \in Nat \ {0}
    BY DEF SkipInv, LevelsOf
  <2> QED BY <2>1 DEF SkipInv, LevelsOf, Lowest
<1>2. Len(Lowest) \in Nat /\ DOMAIN Lowest = 1..Len(Lowest)
  BY <1>1 DEF LevelOf
<1> QED BY <1>2 DEF Pairs

\* What an add does to the lowest level is what the keyed list asks for.
LEMMA AddsPair ==
  ASSUME SkipInv, NEW last \in BOOLEAN, NEW key \in Keys, NEW level \in 1..MaxLevel,
         Add(last, key, level)
  PROVE  \E p \in 1..(Len(Pairs) + 1) :
           /\ \A q \in 1..(p - 1) : IF last THEN Pairs[q][1] <= key ELSE Pairs[q][1] < key
           /\ \A q \in p..Len(Pairs) : IF last THEN Pairs[q][1] > key ELSE Pairs[q][1] >= key
           /\ Pairs' = SubSeq(Pairs, 1, p - 1) \o <<<<key, Len(keyOf) + 1>>>> \o SubSeq(Pairs, p, Len(Pairs))
<1>1. PICK f : IsPlace(lists[1], last, key, f) /\ lists'[1] = With(lists[1], f)
  BY AddKeeps
<1>2. f \in 1..(Len(Lowest) + 1) /\ Lowest' = With(Lowest, f) /\ IsPlace(Lowest, last, key, f)
  BY <1>1 DEF IsPlace, Lowest
<1>3. key \in Int /\ keyOf' = Append(keyOf, key)
  BY SkipListAssumption DEF Add
<1>4. Pairs' = SubSeq(Pairs, 1, f - 1) \o <<<<key, Len(keyOf) + 1>>>> \o SubSeq(Pairs, f, Len(Pairs))
  BY <1>2, <1>3, PairsWith
<1>5. /\ Len(Pairs) = Len(Lowest) /\ Len(Lowest) \in Nat
      /\ \A p \in 1..Len(Lowest) : Pairs[p][1] = keyOf[Lowest[p]] /\ keyOf[Lowest[p]] \in Int
  <2>1. LevelOf(Lowest, keyOf) /\ keyOf \in Seq(Int)
    <3>1. Len(lists) \in Nat \ {0}
      BY DEF SkipInv, LevelsOf
    <3> QED BY <3>1 DEF SkipInv, LevelsOf, Lowest
  <2>2. \A p \in 1..Len(Lowest) : keyOf[Lowest[p]] \in Int
    BY <2>1 DEF LevelOf
  <2> QED BY <2>2, PairsAt
<1>6. ASSUME NEW q \in 1..(f - 1) PROVE IF last THEN Pairs[q][1] <= key ELSE Pairs[q][1] < key
  <2>1. q \in 1..Len(Lowest)
    BY <1>2, <1>5
  <2>2. ~Beyond(last, Lowest[q], key)
    BY <1>2 DEF IsPlace
  <2>3. Pairs[q][1] = keyOf[Lowest[q]] /\ keyOf[Lowest[q]] \in Int
    BY <1>5, <2>1
  <2> QED BY <1>3, <2>2, <2>3 DEF Beyond
<1>7. ASSUME NEW q \in f..Len(Pairs) PROVE IF last THEN Pairs[q][1] > key ELSE Pairs[q][1] >= key
  <2>1. q \in 1..Len(Lowest) /\ q \in f..Len(Lowest)
    BY <1>2, <1>5
  <2>2. Beyond(last, Lowest[q], key)
    BY <1>2, <2>1 DEF IsPlace
  <2>3. Pairs[q][1] = keyOf[Lowest[q]]
    BY <1>5, <2>1
  <2> QED BY <2>2, <2>3 DEF Beyond
<1>8. f \in 1..(Len(Pairs) + 1)
  BY <1>2, <1>5
<1> QED BY <1>4, <1>6, <1>7, <1>8

LEMMA AddAfterImplements ==
  ASSUME SkipInv, NEW key \in Keys, NEW level \in 1..MaxLevel, AddAfter(key, level)
  PROVE  List!AddAfter(key) /\ Len(keyOf) < MaxAdds
<1>1. Add(TRUE, key, level)
  BY DEF AddAfter
<1>2. PICK p \in 1..(Len(Pairs) + 1) :
        /\ \A q \in 1..(p - 1) : Pairs[q][1] <= key
        /\ \A q \in p..Len(Pairs) : Pairs[q][1] > key
        /\ Pairs' = SubSeq(Pairs, 1, p - 1) \o <<<<key, Len(keyOf) + 1>>>> \o SubSeq(Pairs, p, Len(Pairs))
  BY <1>1, AddsPair
<1>3. Len(keyOf') = Len(keyOf) + 1 /\ Len(keyOf) < MaxAdds
  BY <1>1 DEF Add, SkipInv
<1> QED BY <1>2, <1>3 DEF List!AddAfter, List!Put, Pairs

LEMMA AddBeforeImplements ==
  ASSUME SkipInv, NEW key \in Keys, NEW level \in 1..MaxLevel, AddBefore(key, level)
  PROVE  List!AddBefore(key) /\ Len(keyOf) < MaxAdds
<1>1. Add(FALSE, key, level)
  BY DEF AddBefore
<1>2. PICK p \in 1..(Len(Pairs) + 1) :
        /\ \A q \in 1..(p - 1) : Pairs[q][1] < key
        /\ \A q \in p..Len(Pairs) : Pairs[q][1] >= key
        /\ Pairs' = SubSeq(Pairs, 1, p - 1) \o <<<<key, Len(keyOf) + 1>>>> \o SubSeq(Pairs, p, Len(Pairs))
  BY <1>1, AddsPair
<1>3. Len(keyOf') = Len(keyOf) + 1 /\ Len(keyOf) < MaxAdds
  BY <1>1 DEF Add, SkipInv
<1> QED BY <1>2, <1>3 DEF List!AddBefore, List!Put, Pairs

LEMMA NoPairs ==
  ASSUME Lowest = <<>> PROVE Pairs = <<>>
<1>1. DOMAIN Lowest = {}
  OBVIOUS
<1> QED BY <1>1 DEF Pairs

LEMMA ListInit == Init => List!Init
<1> SUFFICES ASSUME Init PROVE List!Init
  OBVIOUS
<1>1. Lowest = <<>> /\ Len(keyOf) = 0
  BY DEF Init, Lowest
<1>2. Pairs = <<>>
  BY <1>1, NoPairs
<1> QED BY <1>1, <1>2 DEF List!Init, Pairs

LEMMA ListNext == SkipInv /\ [Next]_vars => [List!Next]_<<Pairs, Len(keyOf)>>
<1> SUFFICES ASSUME SkipInv, [Next]_vars PROVE [List!Next]_<<Pairs, Len(keyOf)>>
  OBVIOUS
<1>1. ASSUME NEW key \in Keys, NEW level \in 1..MaxLevel, AddAfter(key, level) PROVE List!Next
  BY <1>1, AddAfterImplements DEF List!Next
<1>2. ASSUME NEW key \in Keys, NEW level \in 1..MaxLevel, AddBefore(key, level) PROVE List!Next
  BY <1>2, AddBeforeImplements DEF List!Next
<1>3. CASE Clear
  <2>1. Lowest' = <<>> /\ keyOf' = keyOf
    BY <1>3 DEF Clear, Lowest
  <2>2. Pairs' = <<>>
    <3>1. DOMAIN Lowest' = {}
      BY <2>1
    <3> QED BY <3>1 DEF Pairs
  <2>3. List!Clear
    BY <2>1, <2>2 DEF List!Clear, Pairs
  <2> QED BY <2>3 DEF List!Next
<1>4. CASE UNCHANGED vars
  <2>1. Lowest' = Lowest /\ keyOf' = keyOf
    BY <1>4 DEF vars, Lowest
  <2> QED BY <2>1 DEF Pairs
<1> QED BY <1>1, <1>2, <1>3, <1>4 DEF Next

\* The lowest list is a keyed list: an entry added after goes behind those with
\* its key and an entry added before in front of them, whatever levels the
\* entries have drawn (skip_list.hpp, add_after and add_before).
THEOREM SkipListRefines == Spec => ImplementsList
<1> DEFINE AsAsked == \A key \in Keys, level \in 1..MaxLevel :
             /\ AddAfter(key, level) => List!AddAfter(key)
             /\ AddBefore(key, level) => List!AddBefore(key)
<1>1. SkipInv /\ [Next]_vars => [List!Next]_<<Pairs, Len(keyOf)>>
  BY ListNext
<1>2. SkipInv => [AsAsked]_vars
  BY AddAfterImplements, AddBeforeImplements
<1> HIDE DEF AsAsked
<1>3. Spec => List!Spec
  BY ListInit, <1>1, LevelsKept, PTL DEF Spec, List!Spec, Pairs
<1>4. Spec => [][AsAsked]_vars
  BY <1>2, LevelsKept, PTL DEF Spec
<1> QED BY <1>3, <1>4 DEF ImplementsList, AsAsked

=============================================================================
