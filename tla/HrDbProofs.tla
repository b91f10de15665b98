----------------------------- MODULE HrDbProofs -----------------------------
(* Proofs about the boxes of HrDb, for every set of boxes.                 *)
EXTENDS HrCurve, PbtReaderProofs

\* The loop with min ends at a coordinate, the least of those it has seen.
LEMMA LeastBelow ==
  ASSUME NEW T, T \subseteq Coords
  PROVE  /\ Least(T) \in Coords
         /\ \A n \in T : Least(T) <= n
         /\ T # {} => Least(T) \in T
<1>1. MaxCoord \in Nat /\ T \cup {MaxCoord} \subseteq Nat /\ T \subseteq Nat
  BY HrDbAssumption DEF Coords
<1>2. \E m \in T \cup {MaxCoord} : \A n \in T : m <= n
  <2>1. CASE T = {}
    BY <2>1
  <2>2. CASE T # {}
    BY <1>1, <2>2, LeastNumber
  <2> QED BY <2>1, <2>2
<1>3. Least(T) \in T \cup {MaxCoord} /\ \A n \in T : Least(T) <= n
  BY <1>2 DEF Least
<1>4. ASSUME T # {} PROVE Least(T) \in T
  <2>1. PICK n \in T : TRUE
    BY <1>4
  <2>2. n \in Nat /\ n <= MaxCoord /\ Least(T) <= n
    BY <1>1, <1>3 DEF Coords
  <2>3. CASE Least(T) = MaxCoord
    BY <1>1, <2>1, <2>2, <2>3
  <2> QED BY <1>3, <2>3
<1>5. MaxCoord \in Coords
  BY <1>1 DEF Coords
<1>6. Least(T) \in Coords
  BY <1>3, <1>5
<1> QED BY <1>3, <1>4, <1>6

\* The loop with max ends at a coordinate, the greatest of those it has seen.
LEMMA GreatestAbove ==
  ASSUME NEW T, T \subseteq Coords
  PROVE  /\ Greatest(T) \in Coords
         /\ \A n \in T : n <= Greatest(T)
         /\ T # {} => Greatest(T) \in T
<1>1. MaxCoord \in Nat /\ \A n \in T : n \in Nat /\ n <= MaxCoord
  BY HrDbAssumption DEF Coords
<1>2. \E m \in T \cup {0} : \A n \in T : n <= m
  <2>1. CASE T = {}
    BY <2>1
  <2>2. CASE T # {}
    <3> DEFINE U == {MaxCoord - n : n \in T}
    <3>1. U \subseteq Nat /\ U # {}
      BY <1>1, <2>2
    <3>2. PICK u \in U : \A v \in U : u <= v
      <4> HIDE DEF U
      <4> QED BY <3>1, LeastNumber
    <3>3. PICK m \in T : u = MaxCoord - m
      OBVIOUS
    <3>4. \A n \in T : n <= m
      BY <1>1, <3>2, <3>3
    <3> QED BY <3>4
  <2> QED BY <2>1, <2>2
<1>3. Greatest(T) \in T \cup {0} /\ \A n \in T : n <= Greatest(T)
  BY <1>2 DEF Greatest
<1>4. T # {} => Greatest(T) \in T
  BY <1>1, <1>3
<1>5. 0 \in Coords
  BY <1>1 DEF Coords
<1>6. Greatest(T) \in Coords
  BY <1>3, <1>5
<1> QED BY <1>3, <1>4, <1>6

\* reduce gives a box, and it holds every one of the boxes it was given.
LEMMA ReduceAround ==
  ASSUME NEW S, S \subseteq AllBoxes
  PROVE  /\ Reduce(S) \in AllBoxes
         /\ \A b \in S : /\ Reduce(S).x0 <= b.x0 /\ b.x1 <= Reduce(S).x1
                         /\ Reduce(S).y0 <= b.y0 /\ b.y1 <= Reduce(S).y1
<1> DEFINE X0 == {b.x0 : b \in S}
           Y0 == {b.y0 : b \in S}
           X1 == {b.x1 : b \in S}
           Y1 == {b.y1 : b \in S}
<1>1. X0 \subseteq Coords /\ Y0 \subseteq Coords /\ X1 \subseteq Coords /\ Y1 \subseteq Coords
  BY DEF AllBoxes
<1>2. Reduce(S) = [x0 |-> Least(X0), y0 |-> Least(Y0), x1 |-> Greatest(X1), y1 |-> Greatest(Y1)]
  BY DEF Reduce
<1>3. \A b \in S : b.x0 \in X0 /\ b.y0 \in Y0 /\ b.x1 \in X1 /\ b.y1 \in Y1
  OBVIOUS
<1> HIDE DEF X0, Y0, X1, Y1
<1>4. /\ Least(X0) \in Coords /\ Least(Y0) \in Coords
      /\ Greatest(X1) \in Coords /\ Greatest(Y1) \in Coords
      /\ \A n \in X0 : Least(X0) <= n
      /\ \A n \in Y0 : Least(Y0) <= n
      /\ \A n \in X1 : n <= Greatest(X1)
      /\ \A n \in Y1 : n <= Greatest(Y1)
  BY <1>1, LeastBelow, GreatestAbove
<1>5. Reduce(S) \in AllBoxes
  BY <1>2, <1>4 DEF AllBoxes
<1> QED BY <1>2, <1>3, <1>4, <1>5

\* A search that would take a value below a node does not leave the node out,
\* whatever the boxes: also for boxes whose corners are the wrong way round.
THEOREM ReduceKeepsAll ==
  ASSUME NEW S, S \subseteq AllBoxes, NEW a \in AllBoxes, NEW b \in S, Intersects(a, b)
  PROVE  Intersects(a, Reduce(S))
<1>1. b \in AllBoxes /\ Reduce(S) \in AllBoxes
  BY ReduceAround
<1>2. /\ Reduce(S).x0 <= b.x0 /\ b.x1 <= Reduce(S).x1
      /\ Reduce(S).y0 <= b.y0 /\ b.y1 <= Reduce(S).y1
  BY ReduceAround
<1>3. \A c \in AllBoxes : c.x0 \in Int /\ c.x1 \in Int /\ c.y0 \in Int /\ c.y1 \in Int
  BY HrDbAssumption DEF AllBoxes, Coords
<1> DEFINE r == Reduce(S)
<1>4. /\ r.x0 \in Int /\ r.x1 \in Int /\ r.y0 \in Int /\ r.y1 \in Int
      /\ b.x0 \in Int /\ b.x1 \in Int /\ b.y0 \in Int /\ b.y1 \in Int
      /\ a.x0 \in Int /\ a.x1 \in Int /\ a.y0 \in Int /\ a.y1 \in Int
  BY <1>1, <1>3
<1> HIDE DEF r
<1>5. r.x0 <= b.x0 /\ b.x1 <= r.x1 /\ r.y0 <= b.y0 /\ b.y1 <= r.y1
  BY <1>2 DEF r
<1>6. Intersects(a, r)
  BY <1>4, <1>5 DEF Intersects
<1> QED BY <1>6 DEF r

\* The least of the least is the least of all.
LEMMA LeastOfLeast ==
  ASSUME NEW G, G # {}, \A T \in G : T \subseteq Coords /\ T # {}
  PROVE  Least(UNION G) = Least({Least(T) : T \in G})
<1> DEFINE M == {Least(T) : T \in G}
<1>1. \A T \in G : Least(T) \in T /\ \A n \in T : Least(T) <= n
  BY LeastBelow
<1>2. UNION G \subseteq Coords /\ UNION G # {} /\ M \subseteq Coords /\ M # {} /\ M \subseteq UNION G
  BY <1>1
<1> HIDE DEF M
<1>3. Least(UNION G) \in UNION G /\ \A n \in UNION G : Least(UNION G) <= n
  BY <1>2, LeastBelow
<1>4. Least(M) \in M /\ \A n \in M : Least(M) <= n
  BY <1>2, LeastBelow
<1>5. PICK T \in G : Least(UNION G) \in T
  BY <1>3
<1>6. Least(T) \in M /\ Least(T) <= Least(UNION G)
  BY <1>1, <1>5 DEF M
<1>7. Least(M) <= Least(T) /\ Least(UNION G) <= Least(M)
  BY <1>2, <1>3, <1>4, <1>6
<1>8. Least(M) \in Int /\ Least(T) \in Int /\ Least(UNION G) \in Int
  <2>1. Least(M) \in Coords /\ Least(T) \in Coords /\ Least(UNION G) \in Coords
    BY <1>2, <1>3, <1>4, <1>6
  <2>2. Coords \subseteq Int
    BY HrDbAssumption DEF Coords
  <2> QED BY <2>1, <2>2
<1>9. Least(UNION G) = Least(M)
  BY <1>6, <1>7, <1>8
<1> QED BY <1>9 DEF M

\* The greatest of the greatest is the greatest of all.
LEMMA GreatestOfGreatest ==
  ASSUME NEW G, G # {}, \A T \in G : T \subseteq Coords /\ T # {}
  PROVE  Greatest(UNION G) = Greatest({Greatest(T) : T \in G})
<1> DEFINE M == {Greatest(T) : T \in G}
<1>1. \A T \in G : Greatest(T) \in T /\ \A n \in T : n <= Greatest(T)
  BY GreatestAbove
<1>2. UNION G \subseteq Coords /\ UNION G # {} /\ M \subseteq Coords /\ M # {} /\ M \subseteq UNION G
  BY <1>1
<1> HIDE DEF M
<1>3. Greatest(UNION G) \in UNION G /\ \A n \in UNION G : n <= Greatest(UNION G)
  BY <1>2, GreatestAbove
<1>4. Greatest(M) \in M /\ \A n \in M : n <= Greatest(M)
  BY <1>2, GreatestAbove
<1>5. PICK T \in G : Greatest(UNION G) \in T
  BY <1>3
<1>6. Greatest(T) \in M /\ Greatest(UNION G) <= Greatest(T)
  BY <1>1, <1>5 DEF M
<1>7. Greatest(T) <= Greatest(M) /\ Greatest(M) <= Greatest(UNION G)
  BY <1>2, <1>3, <1>4, <1>6
<1>8. Greatest(M) \in Int /\ Greatest(T) \in Int /\ Greatest(UNION G) \in Int
  <2>1. Greatest(M) \in Coords /\ Greatest(T) \in Coords /\ Greatest(UNION G) \in Coords
    BY <1>2, <1>3, <1>4, <1>6
  <2>2. Coords \subseteq Int
    BY HrDbAssumption DEF Coords
  <2> QED BY <2>1, <2>2
<1>9. Greatest(UNION G) = Greatest(M)
  BY <1>6, <1>7, <1>8
<1> QED BY <1>9 DEF M

\* Reducing what was reduced gives the box of all the values below: the writer
\* reduces level by level, and a search sees the same boxes as if it had not.
THEOREM ReduceOfReduced ==
  ASSUME NEW F, F # {}, \A S \in F : S \subseteq AllBoxes /\ S # {}
  PROVE  Reduce(UNION F) = Reduce({Reduce(S) : S \in F})
<1> DEFINE X0(S) == {b.x0 : b \in S}
           Y0(S) == {b.y0 : b \in S}
           X1(S) == {b.x1 : b \in S}
           Y1(S) == {b.y1 : b \in S}
           R == {Reduce(S) : S \in F}
<1>1. \A S : Reduce(S) = [x0 |-> Least(X0(S)), y0 |-> Least(Y0(S)),
                          x1 |-> Greatest(X1(S)), y1 |-> Greatest(Y1(S))]
  BY DEF Reduce
<1>2. \A S \in F : /\ X0(S) \subseteq Coords /\ X0(S) # {} /\ Y0(S) \subseteq Coords /\ Y0(S) # {}
                   /\ X1(S) \subseteq Coords /\ X1(S) # {} /\ Y1(S) \subseteq Coords /\ Y1(S) # {}
  BY DEF AllBoxes
<1>3. /\ X0(UNION F) = UNION {X0(S) : S \in F} /\ Y0(UNION F) = UNION {Y0(S) : S \in F}
      /\ X1(UNION F) = UNION {X1(S) : S \in F} /\ Y1(UNION F) = UNION {Y1(S) : S \in F}
  OBVIOUS
<1>4. /\ X0(R) = {Least(T) : T \in {X0(S) : S \in F}} /\ Y0(R) = {Least(T) : T \in {Y0(S) : S \in F}}
      /\ X1(R) = {Greatest(T) : T \in {X1(S) : S \in F}} /\ Y1(R) = {Greatest(T) : T \in {Y1(S) : S \in F}}
  <2>1. \A S : /\ Reduce(S).x0 = Least(X0(S)) /\ Reduce(S).y0 = Least(Y0(S))
              /\ Reduce(S).x1 = Greatest(X1(S)) /\ Reduce(S).y1 = Greatest(Y1(S))
    <3> HIDE DEF X0, Y0, X1, Y1
    <3> QED BY <1>1
  <2>2. /\ X0(R) = {Reduce(S).x0 : S \in F} /\ Y0(R) = {Reduce(S).y0 : S \in F}
        /\ X1(R) = {Reduce(S).x1 : S \in F} /\ Y1(R) = {Reduce(S).y1 : S \in F}
    OBVIOUS
  <2> HIDE DEF X0, Y0, X1, Y1
  <2> QED BY <2>1, <2>2
<1> HIDE DEF X0, Y0, X1, Y1, R
<1>5. Least(X0(UNION F)) = Least(X0(R)) /\ Least(Y0(UNION F)) = Least(Y0(R))
  <2>1. Least(UNION {X0(S) : S \in F}) = Least({Least(T) : T \in {X0(S) : S \in F}})
    BY <1>2, LeastOfLeast
  <2>2. Least(UNION {Y0(S) : S \in F}) = Least({Least(T) : T \in {Y0(S) : S \in F}})
    BY <1>2, LeastOfLeast
  <2> QED BY <1>3, <1>4, <2>1, <2>2
<1>6. Greatest(X1(UNION F)) = Greatest(X1(R)) /\ Greatest(Y1(UNION F)) = Greatest(Y1(R))
  <2>1. Greatest(UNION {X1(S) : S \in F}) = Greatest({Greatest(T) : T \in {X1(S) : S \in F}})
    BY <1>2, GreatestOfGreatest
  <2>2. Greatest(UNION {Y1(S) : S \in F}) = Greatest({Greatest(T) : T \in {Y1(S) : S \in F}})
    BY <1>2, GreatestOfGreatest
  <2> QED BY <1>3, <1>4, <2>1, <2>2
<1>7. Reduce(UNION F) = Reduce(R)
  BY <1>1, <1>5, <1>6
<1> QED BY <1>7 DEF R

-----------------------------------------------------------------------------
(* The file of a database of boxes is a tree as any other, and a search of  *)
(* it finds what it should.                                                 *)

LEMMA HalfOfSum ==
  ASSUME NEW a \in Coords, NEW b \in Coords
  PROVE  Average(a, b) \in Coords
<1>1. MaxCoord \in Nat /\ a \in Nat /\ b \in Nat /\ a <= MaxCoord /\ b <= MaxCoord
  BY HrDbAssumption DEF Coords
<1> DEFINE x == a \div 2
           y == b \div 2
           r == a % 2
           t == b % 2
<1>2. /\ x \in Nat /\ y \in Nat /\ a = 2 * x + r /\ b = 2 * y + t
      /\ r \in {0, 1} /\ t \in {0, 1}
  BY <1>1
<1> HIDE DEF x, y, r, t
<1>3. r * t \in {0, 1} /\ (r * t = 1 => r = 1 /\ t = 1)
  BY <1>2
<1> DEFINE p == r * t
<1>4. p \in {0, 1} /\ (p = 1 => r = 1 /\ t = 1)
  BY <1>3
<1>5. Average(a, b) = x + y + p
  BY DEF Average, x, y, r, t
<1> HIDE DEF p
<1>6. x + y + p \in Nat /\ x + y + p <= MaxCoord
  BY <1>1, <1>2, <1>4
<1> QED BY <1>1, <1>5, <1>6 DEF Coords

LEMMA PlaceIsKey == ASSUME NEW b \in Boxes PROVE Curve[Centre(b)] \in Keys
<1>1. b \in AllBoxes /\ Curve \in [Coords \X Coords -> Keys]
  BY HrDbAssumption
<1>2. b.x0 \in Coords /\ b.x1 \in Coords /\ b.y0 \in Coords /\ b.y1 \in Coords
  BY <1>1 DEF AllBoxes
<1>3. Centre(b) \in Coords \X Coords
  BY <1>2, HalfOfSum DEF Centre
<1> QED BY <1>1, <1>3

\* add and finish of HrDb are add and finish of the writer of a file.
LEMMA HrDbStep == ASSUME [NextHrDb]_hrvars PROVE [Next]_vars
<1>1. ASSUME NEW b \in Boxes, AddBox(b) PROVE Next
  BY <1>1, PlaceIsKey DEF AddBox, Next
<1>2. FinishBoxes => Next
  BY DEF FinishBoxes, Next
<1>3. UNCHANGED hrvars => UNCHANGED vars
  BY DEF hrvars
<1> QED BY <1>1, <1>2, <1>3 DEF NextHrDb

THEOREM HrDbWritesTree == SpecHrDb => Spec
<1>1. InitHrDb => Init
  BY DEF InitHrDb
<1>2. [NextHrDb]_hrvars => [Next]_vars
  BY HrDbStep
<1> QED BY <1>1, <1>2, PTL DEF SpecHrDb, Spec

\* Every entry has its box in front of its value.
BoxOfEntry ==
  /\ entries \in Seq(Nat) /\ boxes \in Seq(Boxes) /\ Len(boxes) = Len(entries)

LEMMA BoxesInv == SpecHrDb => []BoxOfEntry
<1>1. InitHrDb => BoxOfEntry
  BY DEF InitHrDb, Init, BoxOfEntry
<1>2. BoxOfEntry /\ [NextHrDb]_hrvars => BoxOfEntry'
  <2> SUFFICES ASSUME BoxOfEntry, [NextHrDb]_hrvars PROVE BoxOfEntry'
    OBVIOUS
  <2>1. ASSUME NEW b \in Boxes, AddBox(b) PROVE BoxOfEntry'
    <3>1. entries' = Append(entries, Curve[Centre(b)]) /\ boxes' = Append(boxes, b)
      BY <2>1 DEF AddBox, Add
    <3>2. Curve[Centre(b)] \in Nat
      BY PlaceIsKey, TreeAssumption
    <3> QED BY <3>1, <3>2 DEF BoxOfEntry
  <2>2. ASSUME FinishBoxes PROVE BoxOfEntry'
    <3>1. boxes' = boxes /\ entries' = entries
      BY <2>2 DEF FinishBoxes, Finish, StartFinish, CountLevel, StopCounting, WriteInternal, WriteFooter
    <3> QED BY <3>1 DEF BoxOfEntry
  <2>3. ASSUME UNCHANGED hrvars PROVE BoxOfEntry'
    BY <2>3 DEF BoxOfEntry, hrvars, vars
  <2> QED BY <2>1, <2>2, <2>3 DEF NextHrDb
<1> QED BY <1>1, <1>2, PTL DEF SpecHrDb

\* Two boxes have a point in common when neither ends before the other begins.
LEMMA CommonPoint ==
  ASSUME NEW a \in AllBoxes, NEW b \in AllBoxes, Proper(a), Proper(b)
  PROVE  Intersects(a, b) <=> Shares(a, b)
<1> DEFINE Touch(p, q, r, t) == r <= q /\ t >= p
<1>1. /\ a.x0 \in Int /\ a.x1 \in Int /\ a.y0 \in Int /\ a.y1 \in Int
      /\ b.x0 \in Int /\ b.x1 \in Int /\ b.y0 \in Int /\ b.y1 \in Int
  BY HrDbAssumption DEF AllBoxes, Coords
<1>2. a.x0 <= a.x1 /\ a.y0 <= a.y1 /\ b.x0 <= b.x1 /\ b.y0 <= b.y1
  BY DEF Proper
<1>3. ASSUME NEW p \in Int, NEW q \in Int, NEW r \in Int, NEW t \in Int, p <= q, r <= t
      PROVE  Touch(p, q, r, t) <=> \E x \in r..t : x \in p..q
  <2>1. CASE p <= r
    <3>1. Touch(p, q, r, t) => r \in r..t /\ r \in p..q
      BY <1>3, <2>1
    <3>2. ASSUME NEW x \in r..t, x \in p..q PROVE Touch(p, q, r, t)
      BY <1>3, <3>2
    <3> QED BY <3>1, <3>2
  <2>2. CASE ~(p <= r)
    <3>1. Touch(p, q, r, t) => p \in r..t /\ p \in p..q
      BY <1>3, <2>2
    <3>2. ASSUME NEW x \in r..t, x \in p..q PROVE Touch(p, q, r, t)
      BY <1>3, <3>2
    <3> QED BY <3>1, <3>2
  <2> QED BY <2>1, <2>2
<1>4. /\ Touch(a.x0, a.x1, b.x0, b.x1) <=> \E x \in b.x0..b.x1 : x \in a.x0..a.x1
      /\ Touch(a.y0, a.y1, b.y0, b.y1) <=> \E y \in b.y0..b.y1 : y \in a.y0..a.y1
  <2> HIDE DEF Touch
  <2> QED BY <1>1, <1>2, <1>3
<1>5. Intersects(a, b) <=> Touch(a.x0, a.x1, b.x0, b.x1) /\ Touch(a.y0, a.y1, b.y0, b.y1)
  BY DEF Intersects
<1>6. Shares(a, b) <=> /\ \E x \in b.x0..b.x1 : x \in a.x0..a.x1
                       /\ \E y \in b.y0..b.y1 : y \in a.y0..a.y1
  BY DEF Shares
<1> HIDE DEF Touch
<1> QED BY <1>4, <1>5, <1>6

LEMMA SearchState ==
  ASSUME TreeInv, BoxOfEntry, \A b \in Boxes : Proper(b)
  PROVE  SearchFindsAll
<1> SUFFICES ASSUME Done, NEW a \in AllBoxes, Proper(a)
             PROVE  Lists(Search(a), {e \in DOMAIN boxes : Shares(a, boxes[e])})
  BY DEF SearchFindsAll
<1>1. DOMAIN boxes = 1..N /\ \A e \in 1..N : boxes[e] \in Boxes /\ boxes[e] \in AllBoxes
  BY HrDbAssumption DEF BoxOfEntry, N
<1> DEFINE T == {e \in DOMAIN boxes : Intersects(a, boxes[e])}
           U == {S \in SUBSET (DOMAIN boxes) : Intersects(a, Reduce({boxes[e] : e \in S}))}
<1>2. T = {e \in DOMAIN boxes : Shares(a, boxes[e])}
  BY <1>1, CommonPoint
<1>3. T \subseteq 1..N
  BY <1>1
<1>4. ASSUME NEW S \in SUBSET (1..N), S \cap T # {} PROVE S \in U
  <2> DEFINE B == {boxes[e] : e \in S}
  <2>1. PICK e \in S : Intersects(a, boxes[e])
    BY <1>4
  <2>2. B \subseteq AllBoxes /\ boxes[e] \in B
    BY <1>1
  <2> HIDE DEF B
  <2>3. Intersects(a, Reduce(B))
    BY <2>1, <2>2, ReduceKeepsAll
  <2> QED BY <1>1, <2>3 DEF B
<1>5. Search(a) = TraverseWhere(T, U)
  BY DEF Search
<1> HIDE DEF T, U
<1>6. Lists(TraverseWhere(T, U), T)
  BY <1>3, <1>4, TraverseLists
<1> QED BY <1>2, <1>5, <1>6

\* search finds, in the order of the file, exactly the values whose box has a
\* point in common with the box asked for, when the corners of the boxes are
\* the right way round.
THEOREM SearchIsComplete ==
  ASSUME MaxNodeChildren < NodeLimit, \A b \in Boxes : Proper(b)
  PROVE  SpecHrDb => []SearchFindsAll
<1>1. TreeInv /\ BoxOfEntry => SearchFindsAll
  BY SearchState
<1> QED BY <1>1, HrDbWritesTree, BoxesInv, TreeHasShape, PTL
-----------------------------------------------------------------------------
(* Numbers below 2^32 and their words.                                      *)

\* Induction up to a number: what holds of 0 and, with a number, of the next.
LEMMA UpTo ==
  ASSUME NEW h \in Nat, NEW A, 0 \in A, \A m \in 0..(h - 1) : m \in A => m + 1 \in A
  PROVE  \A m \in 0..h : m \in A
<1> DEFINE T == {m \in 0..h : m \notin A}
<1> SUFFICES ASSUME T # {} PROVE FALSE
  OBVIOUS
<1>1. PICK m \in T : \A n \in T : m <= n
  <2>1. T \subseteq Nat
    OBVIOUS
  <2> HIDE DEF T
  <2> QED BY <2>1, LeastNumber
<1>2. m # 0 /\ m - 1 \in 0..(h - 1) /\ m - 1 \in A
  BY <1>1
<1> QED BY <1>1, <1>2

\* A function that is defined by its value at 0 and by a step exists.
Stepwise(f, h, v, g) == f = [m \in 0..h |-> IF m = 0 THEN v ELSE g[<<m, f[m - 1]>>]]

LEMMA StepwiseExists ==
  ASSUME NEW h \in Nat, NEW S, NEW v \in S, NEW g, \A m \in 1..h, s \in S : g[<<m, s>>] \in S
  PROVE  \E f \in [0..h -> S] : Stepwise(f, h, v, g)
<1> DEFINE A == {m \in 0..h : \E f \in [0..m -> S] : Stepwise(f, m, v, g)}
<1>1. 0 \in A
  <2> DEFINE f == [m \in 0..0 |-> v]
  <2>1. f \in [0..0 -> S] /\ Stepwise(f, 0, v, g)
    BY DEF Stepwise
  <2> QED BY <2>1
<1>2. ASSUME NEW m \in 0..(h - 1), m \in A PROVE m + 1 \in A
  <2>1. PICK f \in [0..m -> S] : Stepwise(f, m, v, g)
    BY <1>2
  <2> DEFINE e == [k \in 0..(m + 1) |-> IF k = m + 1 THEN g[<<m + 1, f[m]>>] ELSE f[k]]
  <2>2. f[m] \in S /\ m + 1 \in 1..h
    OBVIOUS
  <2>3. e \in [0..(m + 1) -> S]
    BY <2>2
  <2>4. \A k \in 0..(m + 1) : e[k] = IF k = 0 THEN v ELSE g[<<k, e[k - 1]>>]
    <3> SUFFICES ASSUME NEW k \in 0..(m + 1) PROVE e[k] = IF k = 0 THEN v ELSE g[<<k, e[k - 1]>>]
      OBVIOUS
    <3>1. CASE k = m + 1
      <4>1. k # 0 /\ k - 1 = m /\ m \in 0..(m + 1) /\ m # m + 1
        BY <3>1
      <4>2. e[k] = g[<<m + 1, f[m]>>] /\ e[m] = f[m]
        BY <3>1, <4>1
      <4> QED BY <3>1, <4>1, <4>2
    <3>2. CASE k # m + 1
      <4>1. k \in 0..m /\ e[k] = f[k] /\ (k # 0 => k - 1 \in 0..m /\ e[k - 1] = f[k - 1])
        BY <3>2
      <4>2. f[k] = IF k = 0 THEN v ELSE g[<<k, f[k - 1]>>]
        BY <2>1, <4>1 DEF Stepwise
      <4> QED BY <4>1, <4>2
    <3> QED BY <3>1, <3>2
  <2>5. Stepwise(e, m + 1, v, g)
    <3> HIDE DEF e
    <3> QED BY <2>3, <2>4 DEF Stepwise
  <2> QED BY <2>2, <2>3, <2>5
<1>3. \A m \in 0..h : m \in A
  <2> HIDE DEF A
  <2> QED BY <1>1, <1>2, UpTo
<1> QED BY <1>3

\* The halves of a number, whose last bits are its word.
Halves(f, v) ==
  /\ f \in [0..32 -> Nat] /\ f[0] = v
  /\ \A p \in 1..32 : f[p] = f[p - 1] \div 2

LEMMA WordHalves ==
  ASSUME NEW v \in Nat
  PROVE  \E f : Halves(f, v) /\ Word(v) = {p \in Wide : f[p] % 2 = 1}
<1> DEFINE Is(f) == f = [p \in 0..32 |-> IF p = 0 THEN v ELSE f[p - 1] \div 2]
           g == [a \in (1..32) \X Nat |-> a[2] \div 2]
           H == CHOOSE f : Is(f)
<1>1. \A m \in 1..32, s \in Nat : g[<<m, s>>] = s \div 2 /\ g[<<m, s>>] \in Nat
  OBVIOUS
<1>2. PICK f \in [0..32 -> Nat] : Stepwise(f, 32, v, g)
  <2> HIDE DEF g
  <2> QED BY <1>1, StepwiseExists
<1>3. Is(f)
  <2> HIDE DEF g
  <2>1. ASSUME NEW p \in 0..32 PROVE f[p] = IF p = 0 THEN v ELSE f[p - 1] \div 2
    <3>1. f[p] = IF p = 0 THEN v ELSE g[<<p, f[p - 1]>>]
      BY <1>2 DEF Stepwise
    <3>2. p # 0 => p \in 1..32 /\ f[p - 1] \in Nat
      BY <1>2
    <3> QED BY <1>1, <3>1, <3>2
  <2> QED BY <2>1
<1>4. Is(H)
  BY <1>3
<1>5. \A p \in 0..32 : H[p] = IF p = 0 THEN v ELSE H[p - 1] \div 2
  BY <1>4
<1>6. Word(v) = {p \in Wide : H[p] % 2 = 1}
  BY DEF Word
<1> HIDE DEF H
<1>7. \A m \in 0..32 : H[m] \in Nat
  <2> DEFINE A == {m \in 0..32 : H[m] \in Nat}
  <2>1. 0 \in A
    BY <1>5
  <2>2. ASSUME NEW m \in 0..(32 - 1), m \in A PROVE m + 1 \in A
    BY <1>5, <2>2
  <2> HIDE DEF A
  <2>3. \A m \in 0..32 : m \in A
    BY <2>1, <2>2, UpTo
  <2> QED BY <2>3 DEF A
<1>8. Halves(H, v)
  <2>1. H = [p \in 0..32 |-> H[p]]
    BY <1>4
  <2> QED BY <1>5, <1>7, <2>1 DEF Halves
<1> QED BY <1>6, <1>8

\* The numbers that the upper bits of a word make.
Uppers(f, w) ==
  /\ f \in [0..32 -> Nat] /\ f[0] = 0
  /\ \A m \in 1..32 : f[m] = 2 * f[m - 1] + (IF 32 - m \in w THEN 1 ELSE 0)

LEMMA NumberUppers ==
  ASSUME NEW w
  PROVE  \E f : Uppers(f, w) /\ Number(w) = f[32]
<1> DEFINE bit(m) == IF 32 - m \in w THEN 1 ELSE 0
           Is(f) == f = [m \in 0..32 |-> IF m = 0 THEN 0 ELSE 2 * f[m - 1] + bit(m)]
           g == [a \in (1..32) \X Nat |-> 2 * a[2] + bit(a[1])]
           U == CHOOSE f : Is(f)
<1>1. \A m \in 1..32, s \in Nat : g[<<m, s>>] = 2 * s + bit(m) /\ g[<<m, s>>] \in Nat
  OBVIOUS
<1>2. PICK f \in [0..32 -> Nat] : Stepwise(f, 32, 0, g)
  <2> HIDE DEF g
  <2> QED BY <1>1, StepwiseExists
<1>3. Is(f)
  <2> HIDE DEF g, bit
  <2>1. ASSUME NEW p \in 0..32 PROVE f[p] = IF p = 0 THEN 0 ELSE 2 * f[p - 1] + bit(p)
    <3>1. f[p] = IF p = 0 THEN 0 ELSE g[<<p, f[p - 1]>>]
      BY <1>2 DEF Stepwise
    <3>2. p # 0 => p \in 1..32 /\ f[p - 1] \in Nat
      BY <1>2
    <3> QED BY <1>1, <3>1, <3>2
  <2> QED BY <2>1
<1>4. Is(U)
  BY <1>3
<1>5. \A p \in 0..32 : U[p] = IF p = 0 THEN 0 ELSE 2 * U[p - 1] + bit(p)
  BY <1>4
<1>6. Number(w) = U[32]
  BY DEF Number
<1>9. \A m \in 0..32 : bit(m) \in Nat
  OBVIOUS
<1> HIDE DEF U
<1>7. \A m \in 0..32 : U[m] \in Nat
  <2> DEFINE A == {m \in 0..32 : U[m] \in Nat}
  <2>1. 0 \in A
    BY <1>5
  <2>2. ASSUME NEW m \in 0..(32 - 1), m \in A PROVE m + 1 \in A
    <3> HIDE DEF bit
    <3>1. m + 1 \in 0..32 /\ m + 1 # 0 /\ (m + 1) - 1 = m
      OBVIOUS
    <3>2. U[m + 1] = 2 * U[m] + bit(m + 1) /\ U[m] \in Nat /\ bit(m + 1) \in Nat
      BY <1>5, <1>9, <2>2, <3>1
    <3> QED BY <3>1, <3>2
  <2> HIDE DEF A
  <2>3. \A m \in 0..32 : m \in A
    BY <2>1, <2>2, UpTo
  <2> QED BY <2>3 DEF A
<1>8. Uppers(U, w)
  <2>1. U = [p \in 0..32 |-> U[p]]
    BY <1>4
  <2> QED BY <1>5, <1>7, <2>1 DEF Uppers
<1> QED BY <1>6, <1>8

\* A number has one word.
LEMMA WordOfNumber ==
  ASSUME NEW w, w \subseteq Wide
  PROVE  Number(w) \in Nat /\ Word(Number(w)) = w
<1>1. PICK u : Uppers(u, w) /\ Number(w) = u[32]
  BY NumberUppers
<1>2. Number(w) \in Nat
  BY <1>1 DEF Uppers
<1>3. PICK f : Halves(f, Number(w)) /\ Word(Number(w)) = {p \in Wide : f[p] % 2 = 1}
  BY <1>2, WordHalves
<1>4. \A p \in 0..32 : f[p] = u[32 - p]
  <2> DEFINE A == {p \in 0..32 : f[p] = u[32 - p]}
  <2>1. 0 \in A
    BY <1>1, <1>3 DEF Halves
  <2>2. ASSUME NEW m \in 0..(32 - 1), m \in A PROVE m + 1 \in A
    <3>1. f[m + 1] = f[m] \div 2 /\ f[m] = u[32 - m]
      BY <1>3, <2>2 DEF Halves
    <3>2. u[32 - m] = 2 * u[31 - m] + (IF m \in w THEN 1 ELSE 0) /\ u[31 - m] \in Nat
      <4>1. 32 - m \in 1..32 /\ 32 - m - 1 = 31 - m /\ 32 - (32 - m) = m /\ 31 - m \in 0..32
        OBVIOUS
      <4> QED BY <1>1, <4>1 DEF Uppers
    <3>3. f[m] \div 2 = u[31 - m]
      BY <3>1, <3>2
    <3> QED BY <3>1, <3>3
  <2> HIDE DEF A
  <2>3. \A m \in 0..32 : m \in A
    BY <2>1, <2>2, UpTo
  <2> QED BY <2>3 DEF A
<1>5. ASSUME NEW p \in Wide PROVE f[p] % 2 = 1 <=> p \in w
  <2>1. 32 - p \in 1..32 /\ 32 - p - 1 = 31 - p /\ 32 - (32 - p) = p /\ 31 - p \in 0..32 /\ p \in 0..32
    BY DEF Wide
  <2>2. f[p] = 2 * u[31 - p] + (IF p \in w THEN 1 ELSE 0) /\ u[31 - p] \in Nat
    BY <1>1, <1>4, <2>1 DEF Uppers
  <2> QED BY <2>2
<1> QED BY <1>2, <1>3, <1>5

\* One word follows another: the ones below some place become zeros, and the
\* zero at that place a one.
Succeeds(w, v, k) ==
  /\ k \in Wide /\ k \in w /\ k \notin v
  /\ \A p \in Wide : p > k => (p \in w <=> p \in v)
  /\ \A p \in Wide : p < k => p \notin w /\ p \in v

LEMMA NextNumber ==
  ASSUME NEW v, NEW w, NEW k, Succeeds(w, v, k)
  PROVE  Number(w) = Number(v) + 1
<1>1. PICK f : Uppers(f, v) /\ Number(v) = f[32]
  BY NumberUppers
<1>2. PICK g : Uppers(g, w) /\ Number(w) = g[32]
  BY NumberUppers
<1> DEFINE A == {m \in 0..32 : IF m < 32 - k THEN g[m] = f[m] ELSE g[m] = f[m] + 1}
<1>3. 0 \in A
  BY <1>1, <1>2 DEF Uppers, Succeeds, Wide
<1>4. ASSUME NEW m \in 0..(32 - 1), m \in A PROVE m + 1 \in A
  <2> DEFINE p == 31 - m
  <2>1. p \in Wide /\ k \in Wide /\ k \in Int /\ m + 1 \in 1..32 /\ 32 - (m + 1) = p /\ (m + 1) - 1 = m
    BY DEF Succeeds, Wide
  <2>2. /\ f[m + 1] = 2 * f[m] + (IF p \in v THEN 1 ELSE 0) /\ f[m] \in Nat
        /\ g[m + 1] = 2 * g[m] + (IF p \in w THEN 1 ELSE 0) /\ g[m] \in Nat
    <3> HIDE DEF p
    <3>1. m \in 0..32 /\ f[m] \in Nat /\ g[m] \in Nat
      BY <1>1, <1>2 DEF Uppers
    <3>2. f[m + 1] = 2 * f[(m + 1) - 1] + (IF 32 - (m + 1) \in v THEN 1 ELSE 0)
      BY <1>1, <2>1 DEF Uppers
    <3>3. g[m + 1] = 2 * g[(m + 1) - 1] + (IF 32 - (m + 1) \in w THEN 1 ELSE 0)
      BY <1>2, <2>1 DEF Uppers
    <3> QED BY <2>1, <3>1, <3>2, <3>3
  <2>3. CASE p > k
    <3>1. (p \in w <=> p \in v) /\ m < 32 - k /\ m + 1 < 32 - k
      BY <2>1, <2>3 DEF Succeeds
    <3> QED BY <1>4, <2>2, <3>1
  <2>4. CASE p = k
    <3>1. p \in w /\ p \notin v /\ m < 32 - k /\ ~(m + 1 < 32 - k)
      BY <2>1, <2>4 DEF Succeeds
    <3> QED BY <1>4, <2>2, <3>1
  <2>5. CASE p < k
    <3>1. p \notin w /\ p \in v /\ ~(m < 32 - k) /\ ~(m + 1 < 32 - k)
      BY <2>1, <2>5 DEF Succeeds
    <3> QED BY <1>4, <2>2, <3>1
  <2> QED BY <2>1, <2>3, <2>4, <2>5 DEF Wide
<1>5. \A m \in 0..32 : m \in A
  <2> HIDE DEF A
  <2> QED BY <1>3, <1>4, UpTo
<1>6. k \in 0..31
  BY DEF Succeeds, Wide
<1> QED BY <1>1, <1>2, <1>5, <1>6

\* The word without ones is that of zero.
LEMMA NumberZero ==
  ASSUME NEW w, w \cap Wide = {}
  PROVE  Number(w) = 0
<1>1. PICK g : Uppers(g, w) /\ Number(w) = g[32]
  BY NumberUppers
<1> DEFINE A == {m \in 0..32 : g[m] = 0}
<1>2. 0 \in A
  BY <1>1 DEF Uppers
<1>3. ASSUME NEW m \in 0..(32 - 1), m \in A PROVE m + 1 \in A
  <2>1. m + 1 \in 1..32 /\ 32 - (m + 1) \in Wide /\ (m + 1) - 1 = m
    BY DEF Wide
  <2> QED BY <1>1, <1>3, <2>1 DEF Uppers
<1>4. \A m \in 0..32 : m \in A
  <2> HIDE DEF A
  <2> QED BY <1>2, <1>3, UpTo
<1> QED BY <1>1, <1>4

-----------------------------------------------------------------------------
(* The bits of the operations on words. *)

LEMMA Bits ==
  ASSUME NEW v, NEW w, NEW p
  PROVE  /\ p \in Xor(v, w) <=> ~(p \in v <=> p \in w)
         /\ p \in Complement(w) <=> p \in Places /\ p \notin w
         /\ p \in v \cup w <=> p \in v \/ p \in w
         /\ p \in v \cap w <=> p \in v /\ p \in w
BY DEF Xor, Complement

LEMMA ShiftBits ==
  ASSUME NEW w, NEW k, NEW p
  PROVE  /\ p \in ShiftR(w, k) <=> p \in Wide /\ p + k \in w
         /\ p \in ShiftL(w, k) <=> p \in Wide /\ p - k \in w
BY DEF ShiftR, ShiftL

LEMMA Halfwords ==
  ASSUME NEW v \in SUBSET Places, NEW w \in SUBSET Places
  PROVE  /\ Xor(v, w) \subseteq Places /\ Complement(w) \subseteq Places
         /\ v \cup w \subseteq Places /\ v \cap w \subseteq Places
         /\ \A k \in Nat : ShiftR(w, k) \subseteq Places
<1>1. ASSUME NEW k \in Nat, NEW p \in ShiftR(w, k) PROVE p \in Places
  <2>1. p \in Wide /\ p + k \in Places
    BY <1>1 DEF ShiftR
  <2> QED BY <2>1 DEF Wide, Places
<1> QED BY <1>1 DEF Xor, Complement

-----------------------------------------------------------------------------
(* How the curve is turned at each level: swapped and reflected, by what it  *)
(* has come through on the levels above.                                     *)

Turned(x, y, t0, t1, p) ==
  /\ p \in t0 <=> IF ~(p \in x <=> p \in y) THEN p + 1 \in t0
                  ELSE ~(p \in x <=> (p + 1 \in t0 <=> p + 1 \in t1))
  /\ p \in t1 <=> IF ~(p \in x <=> p \in y) THEN (p \in x <=> (p + 1 \in t0 <=> p + 1 \in t1))
                  ELSE p + 1 \in t1
Turns(x, y, t0, t1) == \A p \in Places : Turned(x, y, t0, t1, p)

LEMMA TurnsExist ==
  ASSUME NEW x, NEW y
  PROVE  \E t0, t1 \in SUBSET Places : Turns(x, y, t0, t1)
<1> DEFINE Above(m, t0, t1) == \A p \in Places : p >= 16 - m => Turned(x, y, t0, t1, p)
           A == {m \in 0..16 : \E t0, t1 \in SUBSET Places : Above(m, t0, t1)}
<1>1. 0 \in A
  <2>1. Above(0, {}, {})
    BY DEF Places
  <2>2. {} \in SUBSET Places
    OBVIOUS
  <2> HIDE DEF Above
  <2> QED BY <2>1, <2>2
<1>2. ASSUME NEW m \in 0..(16 - 1), m \in A PROVE m + 1 \in A
  <2>1. PICK t0 \in SUBSET Places, t1 \in SUBSET Places : Above(m, t0, t1)
    BY <1>2
  <2> DEFINE q == 15 - m
             now0 == IF ~(q \in x <=> q \in y) THEN q + 1 \in t0
                     ELSE ~(q \in x <=> (q + 1 \in t0 <=> q + 1 \in t1))
             now1 == IF ~(q \in x <=> q \in y) THEN (q \in x <=> (q + 1 \in t0 <=> q + 1 \in t1))
                     ELSE q + 1 \in t1
             u0 == {p \in Places : IF p = q THEN now0 ELSE p \in t0}
             u1 == {p \in Places : IF p = q THEN now1 ELSE p \in t1}
  <2>2. q \in Places /\ q + 1 # q
    BY DEF Places
  <2>3. \A p : p # q => (p \in u0 <=> p \in t0) /\ (p \in u1 <=> p \in t1)
    OBVIOUS
  <2>4. (q \in u0 <=> now0) /\ (q \in u1 <=> now1)
    BY <2>2
  <2> HIDE DEF u0, u1
  <2>5. Turned(x, y, u0, u1, q)
    <3>1. (q + 1 \in u0 <=> q + 1 \in t0) /\ (q + 1 \in u1 <=> q + 1 \in t1)
      BY <2>2, <2>3
    <3> QED BY <2>4, <3>1 DEF Turned
  <2>6. ASSUME NEW p \in Places, p >= 16 - m PROVE Turned(x, y, u0, u1, p)
    <3>1. p # q /\ p + 1 # q
      BY <2>6 DEF Places
    <3>2. /\ (p \in u0 <=> p \in t0) /\ (p \in u1 <=> p \in t1)
          /\ (p + 1 \in u0 <=> p + 1 \in t0) /\ (p + 1 \in u1 <=> p + 1 \in t1)
      BY <2>3, <3>1
    <3>3. Turned(x, y, t0, t1, p)
      BY <2>1, <2>6
    <3> QED BY <3>2, <3>3 DEF Turned
  <2>7. \A p \in Places : p >= 16 - (m + 1) => p = q \/ p >= 16 - m
    BY DEF Places
  <2>8. u0 \subseteq Places /\ u1 \subseteq Places
    BY DEF u0, u1
  <2> HIDE DEF q
  <2>9. Above(m + 1, u0, u1)
    BY <2>5, <2>6, <2>7
  <2> HIDE DEF Above
  <2> QED BY <2>8, <2>9
<1>3. 16 \in A
  <2> HIDE DEF A
  <2>1. \A m \in 0..16 : m \in A
    BY <1>1, <1>2, UpTo
  <2> QED BY <2>1
<1>4. PICK t0 \in SUBSET Places, t1 \in SUBSET Places : Above(16, t0, t1)
  BY <1>3
<1>5. Turns(x, y, t0, t1)
  BY <1>4 DEF Turns, Places
<1> QED BY <1>5

\* What a scan that has looked k levels up knows: how the turn at a level comes
\* from the turn k levels up.
Spans(s, k, t0, t1) ==
  /\ s.a \subseteq Places /\ s.b \subseteq Places /\ s.c \subseteq Places /\ s.d \subseteq Places
  /\ \A p \in Places :
       /\ p \in t0 <=> ((p \in s.a /\ p + k \in t0) <=> ((p \in s.b /\ p + k \in t1) <=> p \in s.c))
       /\ p \in t1 <=> ((p \in s.b /\ p + k \in t0) <=>
                        ((~(p \in s.a <=> p \in s.b) /\ p + k \in t1) <=> p \in s.d))

LEMMA PrimedSpans ==
  ASSUME NEW x \in SUBSET Places, NEW y \in SUBSET Places,
         NEW t0 \in SUBSET Places, NEW t1 \in SUBSET Places, Turns(x, y, t0, t1)
  PROVE  Spans(Primed(x, y), 2, t0, t1)
<1> DEFINE a == Xor(x, y)
           b == Complement(a)
           c == Complement(x \cup y)
           d == x \cap Complement(y)
           s == Primed(x, y)
<1>1. /\ s.a = a \cup ShiftR(b, 1) /\ s.b = Xor(ShiftR(a, 1), a)
      /\ s.c = Xor(Xor(ShiftR(c, 1), b \cap ShiftR(d, 1)), c)
      /\ s.d = Xor(Xor(a \cap ShiftR(c, 1), ShiftR(d, 1)), d)
  BY DEF Primed
<1>2. /\ a \in SUBSET Places /\ b \in SUBSET Places /\ c \in SUBSET Places /\ d \in SUBSET Places
  BY Halfwords
<1>3. \A p \in Places : /\ p \in a <=> ~(p \in x <=> p \in y)
                        /\ p \in b <=> (p \in x <=> p \in y)
                        /\ p \in c <=> p \notin x /\ p \notin y
                        /\ p \in d <=> p \in x /\ p \notin y
  BY DEF Xor, Complement
<1> HIDE DEF a, b, c, d, s
<1>4. /\ ShiftR(a, 1) \in SUBSET Places /\ ShiftR(b, 1) \in SUBSET Places
      /\ ShiftR(c, 1) \in SUBSET Places /\ ShiftR(d, 1) \in SUBSET Places
  <2>1. \A w \in SUBSET Places : ShiftR(w, 1) \in SUBSET Places
    BY Halfwords
  <2> QED BY <1>2, <2>1
<1>5. s.a \subseteq Places /\ s.b \subseteq Places /\ s.c \subseteq Places /\ s.d \subseteq Places
  <2>1. b \cap ShiftR(d, 1) \in SUBSET Places /\ a \cap ShiftR(c, 1) \in SUBSET Places
    BY <1>2
  <2>2. \A v, w \in SUBSET Places : Xor(v, w) \in SUBSET Places
    BY Halfwords
  <2>3. /\ Xor(ShiftR(c, 1), b \cap ShiftR(d, 1)) \in SUBSET Places
        /\ Xor(a \cap ShiftR(c, 1), ShiftR(d, 1)) \in SUBSET Places
    BY <1>4, <2>1, <2>2
  <2> QED BY <1>1, <1>2, <1>4, <2>2, <2>3
<1>6. ASSUME NEW p \in Places
      PROVE  /\ p \in s.a <=> p \in a \/ p + 1 \in b
             /\ p \in s.b <=> ~(p + 1 \in a <=> p \in a)
             /\ p \in s.c <=> (p + 1 \in c <=> ((p \in b /\ p + 1 \in d) <=> p \in c))
             /\ p \in s.d <=> ((p \in a /\ p + 1 \in c) <=> (p + 1 \in d <=> p \in d))
  <2>1. p \in Wide
    BY DEF Places, Wide
  <2>2. /\ p \in ShiftR(a, 1) <=> p + 1 \in a
        /\ p \in ShiftR(b, 1) <=> p + 1 \in b
        /\ p \in ShiftR(c, 1) <=> p + 1 \in c
        /\ p \in ShiftR(d, 1) <=> p + 1 \in d
    BY <2>1, ShiftBits
  <2> QED BY <1>1, <2>2, Bits
<1>7. ASSUME NEW p \in Places
      PROVE  /\ p \in t0 <=> ((p \in s.a /\ p + 2 \in t0) <=> ((p \in s.b /\ p + 2 \in t1) <=> p \in s.c))
             /\ p \in t1 <=> ((p \in s.b /\ p + 2 \in t0) <=>
                              ((~(p \in s.a <=> p \in s.b) /\ p + 2 \in t1) <=> p \in s.d))
  <2>1. Turned(x, y, t0, t1, p)
    BY DEF Turns
  <2>2. CASE p + 1 \in Places
    <3>1. Turned(x, y, t0, t1, p + 1) /\ (p + 1) + 1 = p + 2
      BY <2>2 DEF Turns, Places
    <3> QED BY <1>3, <1>6, <2>1, <2>2, <3>1 DEF Turned
  <2>3. CASE p + 1 \notin Places
    <3>1. p + 2 \notin Places
      BY <2>3 DEF Places
    <3>2. p + 1 \notin t0 /\ p + 1 \notin t1 /\ p + 2 \notin t0 /\ p + 2 \notin t1
      BY <2>3, <3>1
    <3>3. p + 1 \notin a /\ p + 1 \notin b /\ p + 1 \notin c /\ p + 1 \notin d
      BY <1>2, <2>3
    <3> QED BY <1>3, <1>6, <2>1, <3>2, <3>3 DEF Turned
  <2> QED BY <2>2, <2>3
<1> QED BY <1>5, <1>7 DEF Spans, s

LEMMA RoundSpans ==
  ASSUME NEW s, NEW k \in Nat, NEW t0 \in SUBSET Places, NEW t1 \in SUBSET Places,
         Spans(s, k, t0, t1)
  PROVE  Spans(Round(s, k), k + k, t0, t1)
<1> DEFINE a == ShiftR(s.a, k)
           b == ShiftR(s.b, k)
           c == ShiftR(s.c, k)
           d == ShiftR(s.d, k)
           r == Round(s, k)
<1>1. /\ s.a \in SUBSET Places /\ s.b \in SUBSET Places /\ s.c \in SUBSET Places /\ s.d \in SUBSET Places
  BY DEF Spans
<1>2. /\ r.a = Xor(s.a \cap a, s.b \cap b) /\ r.b = Xor(s.a \cap b, s.b \cap Xor(a, b))
      /\ r.c = Xor(s.c, Xor(s.a \cap c, s.b \cap d))
      /\ r.d = Xor(s.d, Xor(s.b \cap c, Xor(s.a, s.b) \cap d))
  BY DEF Round
<1>3. /\ a \in SUBSET Places /\ b \in SUBSET Places /\ c \in SUBSET Places /\ d \in SUBSET Places
  BY <1>1, Halfwords
<1>4. ASSUME NEW p \in Places
      PROVE  /\ p \in a <=> p + k \in s.a
             /\ p \in b <=> p + k \in s.b
             /\ p \in c <=> p + k \in s.c
             /\ p \in d <=> p + k \in s.d
  <2>1. p \in Wide
    BY DEF Places, Wide
  <2> QED BY <2>1, ShiftBits
<1> HIDE DEF a, b, c, d, r
<1>5. r.a \subseteq Places /\ r.b \subseteq Places /\ r.c \subseteq Places /\ r.d \subseteq Places
  <2>1. \A v, w \in SUBSET Places : Xor(v, w) \in SUBSET Places /\ v \cap w \in SUBSET Places
    BY Halfwords
  <2> QED BY <1>1, <1>2, <1>3, <2>1
<1>6. ASSUME NEW p \in Places
      PROVE  /\ p \in r.a <=> ~((p \in s.a /\ p \in a) <=> (p \in s.b /\ p \in b))
             /\ p \in r.b <=> ~((p \in s.a /\ p \in b) <=> (p \in s.b /\ ~(p \in a <=> p \in b)))
             /\ p \in r.c <=> (p \in s.c <=> ((p \in s.a /\ p \in c) <=> (p \in s.b /\ p \in d)))
             /\ p \in r.d <=> (p \in s.d <=> ((p \in s.b /\ p \in c) <=>
                                              (~(p \in s.a <=> p \in s.b) /\ p \in d)))
  BY <1>2, Bits
<1>7. ASSUME NEW p \in Places
      PROVE  /\ p \in t0 <=> ((p \in r.a /\ p + (k + k) \in t0) <=>
                              ((p \in r.b /\ p + (k + k) \in t1) <=> p \in r.c))
             /\ p \in t1 <=> ((p \in r.b /\ p + (k + k) \in t0) <=>
                              ((~(p \in r.a <=> p \in r.b) /\ p + (k + k) \in t1) <=> p \in r.d))
  <2> DEFINE q == p + k
             z == p + (k + k)
  <2>1. /\ p \in t0 <=> ((p \in s.a /\ q \in t0) <=> ((p \in s.b /\ q \in t1) <=> p \in s.c))
        /\ p \in t1 <=> ((p \in s.b /\ q \in t0) <=>
                         ((~(p \in s.a <=> p \in s.b) /\ q \in t1) <=> p \in s.d))
    BY DEF Spans
  <2>2. z = q + k
    BY DEF Places
  <2>3. q \notin Places => z \notin Places
    BY DEF Places
  <2>4. (p \in a <=> q \in s.a) /\ (p \in b <=> q \in s.b) /\ (p \in c <=> q \in s.c) /\ (p \in d <=> q \in s.d)
    BY <1>4
  <2>5. CASE q \in Places
    <3>1. /\ q \in t0 <=> ((q \in s.a /\ z \in t0) <=> ((q \in s.b /\ z \in t1) <=> q \in s.c))
          /\ q \in t1 <=> ((q \in s.b /\ z \in t0) <=>
                           ((~(q \in s.a <=> q \in s.b) /\ z \in t1) <=> q \in s.d))
      BY <2>2, <2>5 DEF Spans
    <3> HIDE DEF q, z
    <3> QED BY <1>6, <2>1, <2>4, <3>1 DEF z
  <2>6. CASE q \notin Places
    <3>1. /\ q \notin t0 /\ q \notin t1 /\ z \notin t0 /\ z \notin t1
          /\ q \notin s.a /\ q \notin s.b /\ q \notin s.c /\ q \notin s.d
      BY <1>1, <2>3, <2>6
    <3> HIDE DEF q, z
    <3> QED BY <1>6, <2>1, <2>4, <3>1 DEF z
  <2> QED BY <2>5, <2>6
<1> QED BY <1>5, <1>7 DEF Spans, r

\* After all rounds the scan knows every turn.
LEMMA ScannedTurns ==
  ASSUME NEW x \in SUBSET Places, NEW y \in SUBSET Places,
         NEW t0 \in SUBSET Places, NEW t1 \in SUBSET Places, Turns(x, y, t0, t1)
  PROVE  Scanned(x, y).c = t0 /\ Scanned(x, y).d = t1
<1>1. Spans(Primed(x, y), 2, t0, t1)
  BY PrimedSpans
<1>2. Spans(Round(Primed(x, y), 2), 4, t0, t1)
  <2>1. Spans(Round(Primed(x, y), 2), 2 + 2, t0, t1)
    BY <1>1, RoundSpans
  <2> QED BY <2>1
<1>3. Spans(Round(Round(Primed(x, y), 2), 4), 8, t0, t1)
  <2>1. Spans(Round(Round(Primed(x, y), 2), 4), 4 + 4, t0, t1)
    BY <1>2, RoundSpans
  <2> QED BY <2>1
<1>4. Spans(Scanned(x, y), 16, t0, t1)
  <2>1. Spans(Round(Round(Round(Primed(x, y), 2), 4), 8), 8 + 8, t0, t1)
    BY <1>3, RoundSpans
  <2> QED BY <2>1 DEF Scanned
<1>5. \A p \in Places : p + 16 \notin t0 /\ p + 16 \notin t1
  BY DEF Places
<1>6. \A p \in Places : (p \in t0 <=> p \in Scanned(x, y).c) /\ (p \in t1 <=> p \in Scanned(x, y).d)
  BY <1>4, <1>5 DEF Spans
<1> QED BY <1>4, <1>6 DEF Spans

-----------------------------------------------------------------------------
(* The prefix scan, the inverse of Fold(_, 1).                               *)

\* Bits beyond a word are zeros, so that what Fold does needs no exceptions.
LEMMA FoldBits ==
  ASSUME NEW w \in SUBSET Places, NEW k \in Nat
  PROVE  /\ Fold(w, k) \in SUBSET Places
         /\ \A p \in Nat : p \in Fold(w, k) <=> ~(p + k \in w <=> p \in w)
<1>1. ShiftR(w, k) \in SUBSET Places
  BY Halfwords
<1>2. Fold(w, k) \in SUBSET Places
  BY <1>1, Halfwords DEF Fold
<1>3. ASSUME NEW p \in Nat PROVE p \in Fold(w, k) <=> ~(p + k \in w <=> p \in w)
  <2>1. CASE p \in Places
    <3>1. p \in ShiftR(w, k) <=> p + k \in w
      BY <2>1, ShiftBits DEF Places, Wide
    <3> QED BY <3>1, Bits DEF Fold
  <2>2. CASE p \notin Places
    <3>1. p + k \notin Places
      BY <2>2 DEF Places
    <3> QED BY <1>2, <2>2, <3>1
  <2> QED BY <2>1, <2>2
<1> QED BY <1>2, <1>3

\* Folding twice by k is folding once by twice k.
LEMMA FoldTwice ==
  ASSUME NEW w \in SUBSET Places, NEW k \in Nat, NEW p \in Nat
  PROVE  ((p + k) \in Fold(w, k) <=> p \in Fold(w, k)) <=> (p + (k + k) \in w <=> p \in w)
<1>1. p \in Fold(w, k) <=> ~(p + k \in w <=> p \in w)
  BY FoldBits
<1>2. (p + k) \in Fold(w, k) <=> ~((p + k) + k \in w <=> p + k \in w)
  <2>1. \A q \in Nat : q \in Fold(w, k) <=> ~(q + k \in w <=> q \in w)
    BY FoldBits
  <2>2. p + k \in Nat
    OBVIOUS
  <2> QED BY <2>1, <2>2
<1>3. (p + k) + k = p + (k + k)
  OBVIOUS
<1> QED BY <1>1, <1>2, <1>3

\* A bit of the scan is the parity of the bits of the word from there up.
LEMMA PrefixScanBits ==
  ASSUME NEW w \in SUBSET Places
  PROVE  /\ PrefixScan(w) \in SUBSET Places
         /\ \A p \in Places : p \in PrefixScan(w) <=> ~(p + 1 \in PrefixScan(w) <=> p \in w)
<1> DEFINE v8 == Fold(w, 8)
           v4 == Fold(v8, 4)
           v2 == Fold(v4, 2)
           v1 == Fold(v2, 1)
<1>1. PrefixScan(w) = v1
  BY DEF PrefixScan
<1>0. \A v \in SUBSET Places, k \in Nat : Fold(v, k) \in SUBSET Places
  BY FoldBits
<1>2. v8 \in SUBSET Places
  BY <1>0
<1> HIDE DEF v8
<1>3. v4 \in SUBSET Places
  BY <1>0, <1>2
<1> HIDE DEF v4
<1>4. v2 \in SUBSET Places
  BY <1>0, <1>3
<1> HIDE DEF v2
<1>5. v1 \in SUBSET Places
  BY <1>0, <1>4
<1>6. ASSUME NEW p \in Places PROVE p \in v1 <=> ~(p + 1 \in v1 <=> p \in w)
  <2>1. p \in Nat
    BY DEF Places
  <2>2. (p + 1 \in v1 <=> p \in v1) <=> (p + 2 \in v2 <=> p \in v2)
    <3>1. (p + 1 \in v1 <=> p \in v1) <=> (p + (1 + 1) \in v2 <=> p \in v2)
      BY <1>4, <2>1, FoldTwice
    <3> QED BY <3>1
  <2>3. (p + 2 \in v2 <=> p \in v2) <=> (p + 4 \in v4 <=> p \in v4)
    <3>1. (p + 2 \in v2 <=> p \in v2) <=> (p + (2 + 2) \in v4 <=> p \in v4)
      BY <1>3, <2>1, FoldTwice DEF v2
    <3> QED BY <3>1
  <2>4. (p + 4 \in v4 <=> p \in v4) <=> (p + 8 \in v8 <=> p \in v8)
    <3>1. (p + 4 \in v4 <=> p \in v4) <=> (p + (4 + 4) \in v8 <=> p \in v8)
      BY <1>2, <2>1, FoldTwice DEF v4
    <3> QED BY <3>1
  <2>5. (p + 8 \in v8 <=> p \in v8) <=> (p + 16 \in w <=> p \in w)
    <3>1. (p + 8 \in v8 <=> p \in v8) <=> (p + (8 + 8) \in w <=> p \in w)
      BY <2>1, FoldTwice DEF v8
    <3> QED BY <3>1
  <2>6. p + 16 \notin w
    BY DEF Places
  <2> HIDE DEF v1
  <2> QED BY <2>2, <2>3, <2>4, <2>5, <2>6
<1> QED BY <1>1, <1>5, <1>6

-----------------------------------------------------------------------------
(* The curve, level by level.                                                *)

\* Two bits of an index and one of each coordinate at a level, where the curve
\* is turned by t0 and t1: the same for both functions.
AtLevel(i0, i1, x, y, t0, t1, p) ==
  /\ p \in i0 <=> ~(p \in x <=> p \in y)
  /\ p \in x <=> ~(p \in i1 <=> IF p \in i0 THEN p + 1 \in t0 ELSE p + 1 \in t1)
  /\ p \in t0 <=> ~(p + 1 \in t0 <=> p \notin i0 /\ p \notin i1)
  /\ p \in t1 <=> ~(p + 1 \in t1 <=> p \in i0 /\ p \in i1)
Curves(m, i0, i1, x, y, t0, t1) ==
  /\ t0 \subseteq Places /\ t1 \subseteq Places
  /\ \A p \in Places : p >= m => AtLevel(i0, i1, x, y, t0, t1, p)

\* The bits of an index of 2n bits at the level of each of the n bits of a
\* coordinate, which are the upper ones of 16.
Digits(n, i, i0, i1) ==
  \A p \in Places : p >= 16 - n => /\ p \in i0 <=> 2 * (p - (16 - n)) \in i
                                   /\ p \in i1 <=> 2 * (p - (16 - n)) + 1 \in i

LEMMA IndexLevels ==
  ASSUME NEW x \in SUBSET Places, NEW y \in SUBSET Places, NEW a, NEW b,
         NEW t0 \in SUBSET Places, NEW t1 \in SUBSET Places, Turns(x, y, t0, t1),
         NEW i0, NEW i1, i0 = Xor(x, y),
         i1 = Fold(t1, 1) \cup Complement(i0 \cup Fold(t0, 1))
  PROVE  Curves(0, i0, i1, x, y, t0, t1)
<1> SUFFICES ASSUME NEW p \in Places PROVE AtLevel(i0, i1, x, y, t0, t1, p)
  BY DEF Curves
<1>1. p \in i0 <=> ~(p \in x <=> p \in y)
  BY Bits
<1>2. (p \in Fold(t0, 1) <=> ~(p + 1 \in t0 <=> p \in t0)) /\ (p \in Fold(t1, 1) <=> ~(p + 1 \in t1 <=> p \in t1))
  <2>1. \A w \in SUBSET Places, k \in Nat, q \in Nat : q \in Fold(w, k) <=> ~(q + k \in w <=> q \in w)
    BY FoldBits
  <2>2. p \in Nat
    BY DEF Places
  <2> QED BY <2>1, <2>2
<1>3. p \in i1 <=> p \in Fold(t1, 1) \/ (p \notin i0 /\ p \notin Fold(t0, 1))
  BY DEF Complement
<1>4. Turned(x, y, t0, t1, p)
  BY DEF Turns
<1> QED BY <1>1, <1>2, <1>3, <1>4 DEF AtLevel, Turned

-----------------------------------------------------------------------------
(* Interleaving moves every place to twice as high, by blocks of 8 places    *)
(* first and of one place last.                                              *)

InBlocks(v, w, k) ==
  v \subseteq Wide /\ \A p \in Wide : p \in v <=> p % (2 * k) < k /\ (p \div (2 * k)) * k + (p % k) \in w

LEMMA SpreadBlocks ==
  ASSUME NEW w, NEW v, NEW k \in {1, 2, 4, 8}, InBlocks(v, w, 2 * k)
  PROVE  InBlocks(Spread(v, k), w, k)
<1> SUFFICES ASSUME NEW p \in Wide
             PROVE  p \in Spread(v, k) <=> p % (2 * k) < k /\ (p \div (2 * k)) * k + (p % k) \in w
  BY DEF InBlocks, Spread, Mask
<1>1. p \in Spread(v, k) <=> p % (2 * k) < k /\ (p \in v \/ p - k \in v)
  BY DEF Spread, Mask, ShiftL
<1>2. \A q \in Wide : q \in v <=> q % (4 * k) < 2 * k /\ (q \div (4 * k)) * (2 * k) + (q % (2 * k)) \in w
  <2>1. 2 * (2 * k) = 4 * k
    OBVIOUS
  <2> QED BY <2>1 DEF InBlocks
<1>3. p - k \notin Wide => p - k \notin v
  BY DEF InBlocks
<1>4. CASE k = 1
  BY <1>1, <1>2, <1>3, <1>4 DEF Wide
<1>5. CASE k = 2
  BY <1>1, <1>2, <1>3, <1>5 DEF Wide
<1>6. CASE k = 4
  BY <1>1, <1>2, <1>3, <1>6 DEF Wide
<1>7. CASE k = 8
  BY <1>1, <1>2, <1>3, <1>7 DEF Wide
<1> QED BY <1>4, <1>5, <1>6, <1>7

LEMMA Interleaved ==
  ASSUME NEW w \in SUBSET Places
  PROVE  Interleave(w) \subseteq Wide /\ \A p \in Wide : p \in Interleave(w) <=> p % 2 = 0 /\ p \div 2 \in w
<1>1. InBlocks(w, w, 16)
  BY DEF InBlocks, Places, Wide
<1> DEFINE v8 == Spread(w, 8)
           v4 == Spread(v8, 4)
           v2 == Spread(v4, 2)
<1>2. InBlocks(v8, w, 8)
  <2>1. InBlocks(w, w, 2 * 8)
    BY <1>1
  <2> QED BY <2>1, SpreadBlocks
<1> HIDE DEF v8
<1>3. InBlocks(v4, w, 4)
  <2>1. InBlocks(v8, w, 2 * 4)
    BY <1>2
  <2> QED BY <2>1, SpreadBlocks
<1> HIDE DEF v4
<1>4. InBlocks(v2, w, 2)
  <2>1. InBlocks(v4, w, 2 * 2)
    BY <1>3
  <2> QED BY <2>1, SpreadBlocks
<1> HIDE DEF v2
<1>5. InBlocks(Spread(v2, 1), w, 1)
  <2>1. InBlocks(v2, w, 2 * 1)
    BY <1>4
  <2> QED BY <2>1, SpreadBlocks
<1>6. Interleave(w) = Spread(v2, 1)
  BY DEF Interleave, v8, v4, v2
<1>7. \A p \in Wide : (p % (2 * 1) < 1 <=> p % 2 = 0) /\ (p \div (2 * 1)) * 1 + (p % 1) = p \div 2
  BY DEF Wide
<1> QED BY <1>5, <1>6, <1>7 DEF InBlocks

\* And back: each place is that of an even one.
FromBlocks(v, i, k) ==
  \A p \in Wide : p \in v <=> p % (2 * k) < k /\ 2 * ((p \div (2 * k)) * k + (p % k)) \in i

LEMMA GatherBlocks ==
  ASSUME NEW i, NEW v, NEW k \in {1, 2, 4, 8}, FromBlocks(v, i, k)
  PROVE  FromBlocks(Gather(v, k), i, 2 * k)
<1> SUFFICES ASSUME NEW p \in Wide
             PROVE  p \in Gather(v, k) <=>
                      p % (4 * k) < 2 * k /\ 2 * ((p \div (4 * k)) * (2 * k) + (p % (2 * k))) \in i
  <2>1. 2 * (2 * k) = 4 * k
    OBVIOUS
  <2> QED BY <2>1 DEF FromBlocks
<1>1. p \in Gather(v, k) <=> p % (4 * k) < 2 * k /\ (p \in v \/ p + k \in v)
  <2>1. 2 * (2 * k) = 4 * k
    OBVIOUS
  <2> QED BY <2>1 DEF Gather, Mask, ShiftR
<1>2. \A q \in Wide : q \in v <=> q % (2 * k) < k /\ 2 * ((q \div (2 * k)) * k + (q % k)) \in i
  BY DEF FromBlocks
<1>4. CASE k = 1
  BY <1>1, <1>2, <1>4 DEF Wide
<1>5. CASE k = 2
  BY <1>1, <1>2, <1>5 DEF Wide
<1>6. CASE k = 4
  BY <1>1, <1>2, <1>6 DEF Wide
<1>7. CASE k = 8
  BY <1>1, <1>2, <1>7 DEF Wide
<1> QED BY <1>4, <1>5, <1>6, <1>7

LEMMA Deinterleaved ==
  ASSUME NEW i
  PROVE  Deinterleave(i) \subseteq Places /\ \A p \in Places : p \in Deinterleave(i) <=> 2 * p \in i
<1> DEFINE v1 == i \cap Mask(1)
           v2 == Gather(v1, 1)
           v4 == Gather(v2, 2)
           v8 == Gather(v4, 4)
<1>1. FromBlocks(v1, i, 1)
  <2>1. \A p \in Wide : p % (2 * 1) < 1 => 2 * ((p \div (2 * 1)) * 1 + (p % 1)) = p
    BY DEF Wide
  <2> QED BY <2>1 DEF FromBlocks, Mask
<1> HIDE DEF v1
<1>2. FromBlocks(v2, i, 2)
  <2>1. FromBlocks(Gather(v1, 1), i, 2 * 1)
    BY <1>1, GatherBlocks
  <2> QED BY <2>1
<1> HIDE DEF v2
<1>3. FromBlocks(v4, i, 4)
  <2>1. FromBlocks(Gather(v2, 2), i, 2 * 2)
    BY <1>2, GatherBlocks
  <2> QED BY <2>1
<1> HIDE DEF v4
<1>4. FromBlocks(v8, i, 8)
  <2>1. FromBlocks(Gather(v4, 4), i, 2 * 4)
    BY <1>3, GatherBlocks
  <2> QED BY <2>1
<1> HIDE DEF v8
<1>5. FromBlocks(Gather(v8, 8), i, 16)
  <2>1. FromBlocks(Gather(v8, 8), i, 2 * 8)
    BY <1>4, GatherBlocks
  <2> QED BY <2>1
<1>6. Deinterleave(i) = Gather(v8, 8)
  BY DEF Deinterleave, v8, v4, v2, v1
<1>7. \A p \in Wide : (p % (2 * 16) < 16 <=> p \in Places) /\ (p \in Places => (p \div (2 * 16)) * 16 + (p % 16) = p)
  BY DEF Wide, Places
<1>8. Gather(v8, 8) \subseteq Wide /\ Places \subseteq Wide
  BY DEF Gather, Mask, Wide, Places
<1> QED BY <1>5, <1>6, <1>7, <1>8 DEF FromBlocks

\* hilbert_xy_to_index.
LEMMA XyToIndexCurves ==
  ASSUME NEW n \in 1..16, NEW xn, xn \subseteq 0..(n - 1), NEW yn, yn \subseteq 0..(n - 1)
  PROVE  \E i0, i1, t0, t1 :
           /\ Curves(0, i0, i1, ShiftL(xn, 16 - n), ShiftL(yn, 16 - n), t0, t1)
           /\ Digits(n, XyToIndex(n, xn, yn), i0, i1)
           /\ XyToIndex(n, xn, yn) \subseteq 0..(2 * n - 1)
<1> DEFINE x == ShiftL(xn, 16 - n)
           y == ShiftL(yn, 16 - n)
           s == Scanned(x, y)
           i0 == Xor(x, y)
           i1 == Fold(s.d, 1) \cup Complement(i0 \cup Fold(s.c, 1))
           up == ShiftL(Interleave(i1), 1) \cup Interleave(i0)
           i == XyToIndex(n, xn, yn)
<1>1. i = ShiftR(up, 32 - 2 * n)
  BY DEF XyToIndex
<1>2. x \in SUBSET Places /\ y \in SUBSET Places
  <2>1. \A w : w \subseteq 0..(n - 1) => ShiftL(w, 16 - n) \subseteq Places
    BY DEF ShiftL, Places, Wide
  <2> QED BY <2>1
<1> HIDE DEF x, y
<1>3. PICK t0 \in SUBSET Places, t1 \in SUBSET Places : Turns(x, y, t0, t1)
  BY TurnsExist
<1>4. s.c = t0 /\ s.d = t1
  BY <1>2, <1>3, ScannedTurns
<1> HIDE DEF s
<1>5. Curves(0, i0, i1, x, y, t0, t1)
  BY <1>2, <1>3, <1>4, IndexLevels
<1>6. i0 \in SUBSET Places /\ i1 \in SUBSET Places
  <2>1. \A w \in SUBSET Places, k \in Nat : Fold(w, k) \in SUBSET Places
    BY FoldBits
  <2>2. i0 \in SUBSET Places
    BY <1>2, Halfwords
  <2> HIDE DEF i0
  <2>3. Complement(i0 \cup Fold(s.c, 1)) \in SUBSET Places
    BY DEF Complement
  <2> QED BY <1>4, <2>1, <2>2, <2>3
<1> HIDE DEF i0, i1
<1>7. ASSUME NEW p \in Places PROVE (2 * p \in up <=> p \in i0) /\ (2 * p + 1 \in up <=> p \in i1)
  <2>1. p \in Int /\ p - 1 \in Int /\ 2 * p \in Wide /\ 2 * p + 1 \in Wide
    BY DEF Places, Wide
  <2>1a. /\ (2 * p) % 2 = 0 /\ (2 * p) \div 2 = p /\ (2 * p + 1) % 2 = 1
        /\ (2 * p - 1) % 2 = 1
    BY <2>1
  <2>2. /\ 2 * p \in Interleave(i0) <=> p \in i0
        /\ 2 * p + 1 \notin Interleave(i0)
    BY <1>6, <2>1a, <2>1, Interleaved
  <2>3. /\ 2 * p + 1 \in ShiftL(Interleave(i1), 1) <=> p \in i1
        /\ 2 * p \notin ShiftL(Interleave(i1), 1)
    <3>1. (2 * p + 1) - 1 = 2 * p
      BY <2>1
    <3>2. (2 * p \in Interleave(i1) <=> p \in i1) /\ 2 * p - 1 \notin Interleave(i1)
      BY <1>6, <2>1a, <2>1, Interleaved
    <3> QED BY <2>1, <3>1, <3>2, ShiftBits
  <2> QED BY <2>2, <2>3
<1>8. up \subseteq Wide
  <2>1. Interleave(i0) \subseteq Wide
    BY <1>6, Interleaved
  <2> QED BY <2>1 DEF ShiftL
<1>9. i \subseteq 0..(2 * n - 1)
  <2> HIDE DEF up, i
  <2> QED BY <1>1, <1>8 DEF ShiftR, Wide
<1>10. Digits(n, i, i0, i1)
  <2> SUFFICES ASSUME NEW p \in Places, p >= 16 - n
               PROVE  /\ p \in i0 <=> 2 * (p - (16 - n)) \in i
                      /\ p \in i1 <=> 2 * (p - (16 - n)) + 1 \in i
    BY DEF Digits
  <2> DEFINE q == 2 * (p - (16 - n))
  <2>1. q \in Wide /\ q + 1 \in Wide /\ q + (32 - 2 * n) = 2 * p /\ (q + 1) + (32 - 2 * n) = 2 * p + 1
    BY DEF Places, Wide
  <2> HIDE DEF up, i, q
  <2>2. (q \in i <=> 2 * p \in up) /\ (q + 1 \in i <=> 2 * p + 1 \in up)
    BY <1>1, <2>1, ShiftBits
  <2> QED BY <1>7, <2>2 DEF q
<1> HIDE DEF i
<1>11. Curves(0, i0, i1, ShiftL(xn, 16 - n), ShiftL(yn, 16 - n), t0, t1)
  BY <1>5 DEF x, y
<1> QED BY <1>9, <1>10, <1>11 DEF i

\* hilbert_index_to_xy.
LEMMA IndexToXyCurves ==
  ASSUME NEW n \in 1..16, NEW in, in \subseteq 0..(2 * n - 1)
  PROVE  \E i0, i1, x, y, t0, t1 :
           /\ Curves(0, i0, i1, x, y, t0, t1)
           /\ Digits(n, in, i0, i1)
           /\ x \subseteq Places /\ y \subseteq Places
           /\ IndexToXy(n, in) = <<ShiftR(x, 16 - n), ShiftR(y, 16 - n)>>
<1> DEFINE i == ShiftL(in, 32 - 2 * n)
           i0 == Deinterleave(i)
           i1 == Deinterleave(ShiftR(i, 1))
           t0 == PrefixScan(Complement(i0 \cup i1))
           t1 == PrefixScan(i0 \cap i1)
           a == (Complement(i0) \cap t1) \cup (i0 \cap t0)
           x == Xor(a, i1)
           y == Xor(Xor(a, i0), i1)
<1>1. IndexToXy(n, in) = <<ShiftR(x, 16 - n), ShiftR(y, 16 - n)>>
  BY DEF IndexToXy
<1>2. Digits(n, in, i0, i1)
  <2> SUFFICES ASSUME NEW p \in Places, p >= 16 - n
               PROVE  /\ p \in i0 <=> 2 * (p - (16 - n)) \in in
                      /\ p \in i1 <=> 2 * (p - (16 - n)) + 1 \in in
    BY DEF Digits
  <2>1. /\ 2 * p \in Wide /\ 2 * p + 1 \in Wide
        /\ 2 * p - (32 - 2 * n) = 2 * (p - (16 - n))
        /\ (2 * p + 1) - (32 - 2 * n) = 2 * (p - (16 - n)) + 1
    BY DEF Places, Wide
  <2>2. /\ 2 * p \in i <=> 2 * (p - (16 - n)) \in in
        /\ 2 * p + 1 \in i <=> 2 * (p - (16 - n)) + 1 \in in
    BY <2>1, ShiftBits
  <2> HIDE DEF i
  <2>3. (p \in i0 <=> 2 * p \in i) /\ (p \in i1 <=> 2 * p + 1 \in i)
    <3>1. 2 * p \in ShiftR(i, 1) <=> 2 * p + 1 \in i
      BY <2>1, ShiftBits
    <3> QED BY <3>1, Deinterleaved
  <2> QED BY <2>2, <2>3
<1>3. i0 \in SUBSET Places /\ i1 \in SUBSET Places
  BY Deinterleaved
<1> HIDE DEF i0, i1
<1>4. Complement(i0 \cup i1) \in SUBSET Places /\ i0 \cap i1 \in SUBSET Places
  BY <1>3 DEF Complement
<1>5. /\ t0 \in SUBSET Places /\ t1 \in SUBSET Places
      /\ \A p \in Places : p \in t0 <=> ~(p + 1 \in t0 <=> p \in Complement(i0 \cup i1))
      /\ \A p \in Places : p \in t1 <=> ~(p + 1 \in t1 <=> p \in i0 \cap i1)
  BY <1>4, PrefixScanBits
<1> HIDE DEF t0, t1
<1>6. ASSUME NEW p \in Places PROVE AtLevel(i0, i1, x, y, t0, t1, p)
  <2>1. p \in a <=> IF p \in i0 THEN p \in t0 ELSE p \in t1
    BY DEF Complement
  <2> HIDE DEF a
  <2>2. (p \in x <=> ~(p \in a <=> p \in i1)) /\ (p \in y <=> ~(~(p \in a <=> p \in i0) <=> p \in i1))
    BY Bits
  <2> HIDE DEF x, y
  <2>3. /\ p \in t0 <=> ~(p + 1 \in t0 <=> p \notin i0 /\ p \notin i1)
        /\ p \in t1 <=> ~(p + 1 \in t1 <=> p \in i0 /\ p \in i1)
    BY <1>5 DEF Complement
  <2> QED BY <2>1, <2>2, <2>3 DEF AtLevel
<1>7. x \in SUBSET Places /\ y \in SUBSET Places
  <2>1. a \in SUBSET Places
    BY <1>3, <1>5
  <2> HIDE DEF a
  <2>2. \A v, w \in SUBSET Places : Xor(v, w) \in SUBSET Places
    BY Halfwords
  <2> QED BY <1>3, <2>1, <2>2
<1> HIDE DEF x, y
<1>8. Curves(0, i0, i1, x, y, t0, t1)
  BY <1>5, <1>6 DEF Curves
<1> QED BY <1>1, <1>2, <1>7, <1>8

-----------------------------------------------------------------------------
(* The bits of an index from a level up say where the curve is, as far as    *)
(* those of the coordinates from that level up do.                           *)

AgreeFrom(m, v, w) == \A p \in Places : p >= m => (p \in v <=> p \in w)

LEMMA CurvesAgree ==
  ASSUME NEW m \in 0..16, NEW i0, NEW i1, NEW x, NEW y, NEW t0, NEW t1,
         NEW j0, NEW j1, NEW v, NEW w, NEW u0, NEW u1,
         Curves(m, i0, i1, x, y, t0, t1), Curves(m, j0, j1, v, w, u0, u1),
         AgreeFrom(m, i0, j0), AgreeFrom(m, i1, j1)
  PROVE  /\ AgreeFrom(m, x, v) /\ AgreeFrom(m, y, w)
         /\ (m \in t0 <=> m \in u0) /\ (m \in t1 <=> m \in u1)
<1> DEFINE Same(p) == (p \in t0 <=> p \in u0) /\ (p \in t1 <=> p \in u1)
           A == {k \in 0..(16 - m) : Same(16 - k)}
<1>1. 0 \in A
  <2>1. 16 \notin t0 /\ 16 \notin t1 /\ 16 \notin u0 /\ 16 \notin u1
    BY DEF Curves, Places
  <2> QED BY <2>1
<1>2. ASSUME NEW p \in Places, p >= m
      PROVE  /\ AtLevel(i0, i1, x, y, t0, t1, p) /\ AtLevel(j0, j1, v, w, u0, u1, p)
             /\ (p \in i0 <=> p \in j0) /\ (p \in i1 <=> p \in j1)
  BY <1>2 DEF Curves, AgreeFrom
<1>3. ASSUME NEW p \in Places, p >= m, Same(p + 1) PROVE Same(p) /\ (p \in x <=> p \in v) /\ (p \in y <=> p \in w)
  BY <1>2, <1>3 DEF AtLevel
<1>4. ASSUME NEW k \in 0..(16 - m - 1), k \in A PROVE k + 1 \in A
  <2>1. 15 - k \in Places /\ 15 - k >= m /\ (15 - k) + 1 = 16 - k /\ 16 - (k + 1) = 15 - k
    BY DEF Places
  <2>2. Same(16 - k)
    BY <1>4
  <2> HIDE DEF Same
  <2> QED BY <1>3, <2>1, <2>2
<1>5. \A k \in 0..(16 - m) : k \in A
  <2> HIDE DEF A
  <2> QED BY <1>1, <1>4, UpTo
<1>6. \A p \in m..16 : Same(p)
  <2> SUFFICES ASSUME NEW p \in m..16 PROVE Same(p)
    OBVIOUS
  <2>1. 16 - p \in 0..(16 - m) /\ 16 - (16 - p) = p
    OBVIOUS
  <2> HIDE DEF Same
  <2> QED BY <1>5, <2>1
<1>7. \A p \in Places : p >= m => p + 1 \in m..16
  BY DEF Places
<1>8. Same(m)
  BY <1>6
<1> HIDE DEF Same
<1>9. AgreeFrom(m, x, v) /\ AgreeFrom(m, y, w)
  BY <1>3, <1>6, <1>7 DEF AgreeFrom
<1> QED BY <1>8, <1>9 DEF Same

LEMMA CurvesFrom ==
  ASSUME NEW b \in Nat, NEW m \in Nat, m >= b, NEW i0, NEW i1, NEW x, NEW y, NEW t0, NEW t1,
         Curves(b, i0, i1, x, y, t0, t1)
  PROVE  Curves(m, i0, i1, x, y, t0, t1)
BY DEF Curves, Places

LEMMA DigitsAgree ==
  ASSUME NEW n \in 1..16, NEW i, NEW i0, NEW i1, NEW j0, NEW j1,
         Digits(n, i, i0, i1), Digits(n, i, j0, j1)
  PROVE  AgreeFrom(16 - n, i0, j0) /\ AgreeFrom(16 - n, i1, j1)
BY DEF Digits, AgreeFrom

\* What is shifted up by a word's free places comes back.
LEMMA ShiftAgree ==
  ASSUME NEW n \in 1..16, NEW v, NEW w, v \subseteq Places, w \subseteq Places, AgreeFrom(16 - n, v, w)
  PROVE  ShiftR(v, 16 - n) = ShiftR(w, 16 - n)
<1>1. ASSUME NEW p \in Wide PROVE p + (16 - n) \in v <=> p + (16 - n) \in w
  <2>1. p + (16 - n) \in Places => p + (16 - n) >= 16 - n
    BY DEF Wide
  <2> QED BY <2>1 DEF AgreeFrom
<1> QED BY <1>1 DEF ShiftR

LEMMA ShiftBack ==
  ASSUME NEW n \in 1..16, NEW w, w \subseteq 0..(n - 1)
  PROVE  ShiftL(w, 16 - n) \subseteq Places /\ ShiftR(ShiftL(w, 16 - n), 16 - n) = w
<1>1. ShiftL(w, 16 - n) \subseteq Places
  BY DEF ShiftL, Places, Wide
<1>2. ASSUME NEW p \in 0..(n - 1)
      PROVE  p \in Wide /\ p + (16 - n) \in Wide /\ (p + (16 - n)) - (16 - n) = p
  BY DEF Wide
<1>3. \A p \in w : p \in ShiftR(ShiftL(w, 16 - n), 16 - n)
  BY <1>2, ShiftBits
<1>4. \A p \in ShiftR(ShiftL(w, 16 - n), 16 - n) : p \in w
  <2> SUFFICES ASSUME NEW p \in Wide, p + (16 - n) \in ShiftL(w, 16 - n) PROVE p \in w
    BY ShiftBits
  <2>1. (p + (16 - n)) - (16 - n) \in w
    BY ShiftBits
  <2> QED BY <2>1 DEF Wide
<1> QED BY <1>1, <1>3, <1>4

\* The index of a point leads back to it: hilbert_index_to_xy after
\* hilbert_xy_to_index is the identity on coordinates of n bits.
THEOREM IndexLeadsBack ==
  ASSUME NEW n \in 1..16, NEW xn, xn \subseteq 0..(n - 1), NEW yn, yn \subseteq 0..(n - 1)
  PROVE  IndexToXy(n, XyToIndex(n, xn, yn)) = <<xn, yn>>
<1> DEFINE i == XyToIndex(n, xn, yn)
           x == ShiftL(xn, 16 - n)
           y == ShiftL(yn, 16 - n)
<1>1. PICK i0, i1, t0, t1 :
        Curves(0, i0, i1, x, y, t0, t1) /\ Digits(n, i, i0, i1) /\ i \subseteq 0..(2 * n - 1)
  BY XyToIndexCurves
<1>2. x \subseteq Places /\ y \subseteq Places /\ ShiftR(x, 16 - n) = xn /\ ShiftR(y, 16 - n) = yn
  BY ShiftBack
<1> HIDE DEF i, x, y
<1>3. PICK j0, j1, v, w, u0, u1 :
        /\ Curves(0, j0, j1, v, w, u0, u1) /\ Digits(n, i, j0, j1)
        /\ v \subseteq Places /\ w \subseteq Places
        /\ IndexToXy(n, i) = <<ShiftR(v, 16 - n), ShiftR(w, 16 - n)>>
  BY <1>1, IndexToXyCurves
<1>4. 16 - n \in 0..16 /\ 16 - n \in Nat /\ 16 - n >= 0
  OBVIOUS
<1>5. Curves(16 - n, i0, i1, x, y, t0, t1) /\ Curves(16 - n, j0, j1, v, w, u0, u1)
  BY <1>1, <1>3, <1>4, CurvesFrom
<1>6. AgreeFrom(16 - n, i0, j0) /\ AgreeFrom(16 - n, i1, j1)
  BY <1>1, <1>3, DigitsAgree
<1>7. AgreeFrom(16 - n, v, x) /\ AgreeFrom(16 - n, w, y)
  <2>1. AgreeFrom(16 - n, x, v) /\ AgreeFrom(16 - n, y, w)
    BY <1>4, <1>5, <1>6, CurvesAgree
  <2> QED BY <2>1 DEF AgreeFrom
<1>8. ShiftR(v, 16 - n) = ShiftR(x, 16 - n) /\ ShiftR(w, 16 - n) = ShiftR(y, 16 - n)
  BY <1>2, <1>3, <1>7, ShiftAgree
<1> QED BY <1>2, <1>3, <1>8 DEF i

-----------------------------------------------------------------------------
(* The other way round: every key has a point.                               *)

\* The bits of the coordinates say what those of the index are.
LEMMA DigitsFollow ==
  ASSUME NEW m \in 0..16, NEW i0, NEW i1, NEW x, NEW y, NEW t0, NEW t1,
         NEW j0, NEW j1, NEW v, NEW w, NEW u0, NEW u1,
         Curves(m, i0, i1, x, y, t0, t1), Curves(m, j0, j1, v, w, u0, u1),
         AgreeFrom(m, x, v), AgreeFrom(m, y, w)
  PROVE  AgreeFrom(m, i0, j0) /\ AgreeFrom(m, i1, j1)
<1> DEFINE Same(p) == (p \in t0 <=> p \in u0) /\ (p \in t1 <=> p \in u1)
           A == {k \in 0..(16 - m) : Same(16 - k)}
<1>1. 0 \in A
  <2>1. 16 \notin t0 /\ 16 \notin t1 /\ 16 \notin u0 /\ 16 \notin u1
    BY DEF Curves, Places
  <2> QED BY <2>1
<1>2. ASSUME NEW p \in Places, p >= m
      PROVE  /\ AtLevel(i0, i1, x, y, t0, t1, p) /\ AtLevel(j0, j1, v, w, u0, u1, p)
             /\ (p \in x <=> p \in v) /\ (p \in y <=> p \in w)
  BY <1>2 DEF Curves, AgreeFrom
<1>3. ASSUME NEW p \in Places, p >= m, Same(p + 1)
      PROVE  Same(p) /\ (p \in i0 <=> p \in j0) /\ (p \in i1 <=> p \in j1)
  BY <1>2, <1>3 DEF AtLevel
<1>4. ASSUME NEW k \in 0..(16 - m - 1), k \in A PROVE k + 1 \in A
  <2>1. 15 - k \in Places /\ 15 - k >= m /\ (15 - k) + 1 = 16 - k /\ 16 - (k + 1) = 15 - k
    BY DEF Places
  <2>2. Same(16 - k)
    BY <1>4
  <2> HIDE DEF Same
  <2> QED BY <1>3, <2>1, <2>2
<1>5. \A k \in 0..(16 - m) : k \in A
  <2> HIDE DEF A
  <2> QED BY <1>1, <1>4, UpTo
<1>6. \A p \in Places : p >= m => Same(p + 1)
  <2> SUFFICES ASSUME NEW p \in Places, p >= m PROVE Same(p + 1)
    OBVIOUS
  <2>1. 16 - (p + 1) \in 0..(16 - m) /\ 16 - (16 - (p + 1)) = p + 1
    BY DEF Places
  <2> HIDE DEF Same
  <2> QED BY <1>5, <2>1
<1> HIDE DEF Same
<1> QED BY <1>3, <1>6 DEF AgreeFrom

\* The place of a bit of an index is that of one of the two at some level.
LEMMA SameIndex ==
  ASSUME NEW n \in 1..16, NEW i, NEW j, i \subseteq 0..(2 * n - 1), j \subseteq 0..(2 * n - 1),
         NEW i0, NEW i1, NEW j0, NEW j1, Digits(n, i, i0, i1), Digits(n, j, j0, j1),
         AgreeFrom(16 - n, i0, j0), AgreeFrom(16 - n, i1, j1)
  PROVE  i = j
<1>1. ASSUME NEW q \in 0..(2 * n - 1) PROVE q \in i <=> q \in j
  <2> DEFINE p == q \div 2 + (16 - n)
  <2>1. p \in Places /\ p >= 16 - n /\ (q = 2 * (p - (16 - n)) \/ q = 2 * (p - (16 - n)) + 1)
    BY DEF Places
  <2> HIDE DEF p
  <2>2. (p \in i0 <=> p \in j0) /\ (p \in i1 <=> p \in j1)
    BY <2>1 DEF AgreeFrom
  <2>3. /\ p \in i0 <=> 2 * (p - (16 - n)) \in i
        /\ p \in i1 <=> 2 * (p - (16 - n)) + 1 \in i
        /\ p \in j0 <=> 2 * (p - (16 - n)) \in j
        /\ p \in j1 <=> 2 * (p - (16 - n)) + 1 \in j
    BY <2>1 DEF Digits
  <2> QED BY <2>1, <2>2, <2>3
<1> QED BY <1>1

\* What is shifted down and up again is as it was above the places shifted out.
LEMMA ShiftOut ==
  ASSUME NEW n \in 1..16, NEW w, w \subseteq Places
  PROVE  /\ ShiftR(w, 16 - n) \subseteq 0..(n - 1)
         /\ AgreeFrom(16 - n, w, ShiftL(ShiftR(w, 16 - n), 16 - n))
<1>1. ASSUME NEW p \in ShiftR(w, 16 - n) PROVE p \in 0..(n - 1)
  <2>1. p \in Wide /\ p + (16 - n) \in w
    BY DEF ShiftR
  <2> QED BY <2>1 DEF Places, Wide
<1>2. ASSUME NEW p \in Places, p >= 16 - n
      PROVE  p \in w <=> p \in ShiftL(ShiftR(w, 16 - n), 16 - n)
  <2>1. p \in Wide /\ p - (16 - n) \in Wide /\ (p - (16 - n)) + (16 - n) = p
    BY <1>2 DEF Places, Wide
  <2> QED BY <2>1 DEF ShiftL, ShiftR
<1> QED BY <1>1, <1>2 DEF AgreeFrom

\* The point of an index leads back to it: hilbert_xy_to_index after
\* hilbert_index_to_xy is the identity on indices of 2n bits. So the keys of all
\* points of a grid differ, and none is left out.
THEOREM PointLeadsBack ==
  ASSUME NEW n \in 1..16, NEW i, i \subseteq 0..(2 * n - 1)
  PROVE  \E xn, yn : /\ IndexToXy(n, i) = <<xn, yn>>
                     /\ xn \subseteq 0..(n - 1) /\ yn \subseteq 0..(n - 1)
                     /\ XyToIndex(n, xn, yn) = i
<1>1. PICK i0, i1, x, y, t0, t1 :
        /\ Curves(0, i0, i1, x, y, t0, t1) /\ Digits(n, i, i0, i1)
        /\ x \subseteq Places /\ y \subseteq Places
        /\ IndexToXy(n, i) = <<ShiftR(x, 16 - n), ShiftR(y, 16 - n)>>
  BY IndexToXyCurves
<1> DEFINE xn == ShiftR(x, 16 - n)
           yn == ShiftR(y, 16 - n)
           j == XyToIndex(n, xn, yn)
<1>2. /\ xn \subseteq 0..(n - 1) /\ AgreeFrom(16 - n, x, ShiftL(xn, 16 - n))
      /\ yn \subseteq 0..(n - 1) /\ AgreeFrom(16 - n, y, ShiftL(yn, 16 - n))
  BY <1>1, ShiftOut
<1>3. IndexToXy(n, i) = <<xn, yn>>
  BY <1>1
<1> HIDE DEF xn, yn
<1>4. PICK j0, j1, u0, u1 :
        /\ Curves(0, j0, j1, ShiftL(xn, 16 - n), ShiftL(yn, 16 - n), u0, u1)
        /\ Digits(n, j, j0, j1) /\ j \subseteq 0..(2 * n - 1)
  BY <1>2, XyToIndexCurves
<1> HIDE DEF j
<1>5. 16 - n \in 0..16 /\ 16 - n \in Nat /\ 16 - n >= 0
  OBVIOUS
<1>6. /\ Curves(16 - n, i0, i1, x, y, t0, t1)
      /\ Curves(16 - n, j0, j1, ShiftL(xn, 16 - n), ShiftL(yn, 16 - n), u0, u1)
  BY <1>1, <1>4, <1>5, CurvesFrom
<1>7. AgreeFrom(16 - n, i0, j0) /\ AgreeFrom(16 - n, i1, j1)
  BY <1>2, <1>5, <1>6, DigitsFollow
<1>8. i = j
  BY <1>1, <1>4, <1>7, SameIndex
<1> QED BY <1>2, <1>3, <1>8 DEF j

-----------------------------------------------------------------------------
(* From one index to the next the curve goes to a point beside.              *)

\* Below a level where its digits are all zeros, or all ones, the curve stays
\* in one corner.
LEMMA Zeros ==
  ASSUME NEW b \in 0..16, NEW q \in Places, q >= b,
         NEW i0, NEW i1, NEW x, NEW y, NEW t0, NEW t1, Curves(b, i0, i1, x, y, t0, t1),
         \A p \in b..(q - 1) : p \notin i0 /\ p \notin i1
  PROVE  \A p \in b..(q - 1) : (p \in x <=> q \in t1) /\ (p \in y <=> q \in t1)
<1> DEFINE A == {k \in 0..(q - b) : q - k \in t1 <=> q \in t1}
<1>1. 0 \in A
  BY DEF Places
<1>2. ASSUME NEW p \in b..(q - 1) PROVE AtLevel(i0, i1, x, y, t0, t1, p) /\ p \notin i0 /\ p \notin i1
  <2>1. p \in Places /\ p >= b
    BY DEF Places
  <2> QED BY <2>1 DEF Curves
<1>3. ASSUME NEW k \in 0..(q - b - 1), k \in A PROVE k + 1 \in A
  <2>1. q - (k + 1) \in b..(q - 1) /\ (q - (k + 1)) + 1 = q - k /\ k + 1 \in 0..(q - b)
    BY DEF Places
  <2>2. q - (k + 1) \in t1 <=> q - k \in t1
    BY <1>2, <2>1 DEF AtLevel
  <2> QED BY <1>3, <2>1, <2>2
<1>4. \A k \in 0..(q - b) : k \in A
  <2>1. q - b \in Nat
    BY DEF Places
  <2> HIDE DEF A
  <2> QED BY <1>1, <1>3, <2>1, UpTo
<1>5. ASSUME NEW p \in b..(q - 1) PROVE p + 1 \in t1 <=> q \in t1
  <2>1. q - (p + 1) \in 0..(q - b) /\ q - (q - (p + 1)) = p + 1
    BY DEF Places
  <2> QED BY <1>4, <2>1
<1> QED BY <1>2, <1>5 DEF AtLevel

LEMMA Ones ==
  ASSUME NEW b \in 0..16, NEW q \in Places, q >= b,
         NEW i0, NEW i1, NEW x, NEW y, NEW t0, NEW t1, Curves(b, i0, i1, x, y, t0, t1),
         \A p \in b..(q - 1) : p \in i0 /\ p \in i1
  PROVE  \A p \in b..(q - 1) : (p \in x <=> q \notin t0) /\ (p \in y <=> q \in t0)
<1> DEFINE A == {k \in 0..(q - b) : q - k \in t0 <=> q \in t0}
<1>1. 0 \in A
  BY DEF Places
<1>2. ASSUME NEW p \in b..(q - 1) PROVE AtLevel(i0, i1, x, y, t0, t1, p) /\ p \in i0 /\ p \in i1
  <2>1. p \in Places /\ p >= b
    BY DEF Places
  <2> QED BY <2>1 DEF Curves
<1>3. ASSUME NEW k \in 0..(q - b - 1), k \in A PROVE k + 1 \in A
  <2>1. q - (k + 1) \in b..(q - 1) /\ (q - (k + 1)) + 1 = q - k /\ k + 1 \in 0..(q - b)
    BY DEF Places
  <2>2. q - (k + 1) \in t0 <=> q - k \in t0
    BY <1>2, <2>1 DEF AtLevel
  <2> QED BY <1>3, <2>1, <2>2
<1>4. \A k \in 0..(q - b) : k \in A
  <2>1. q - b \in Nat
    BY DEF Places
  <2> HIDE DEF A
  <2> QED BY <1>1, <1>3, <2>1, UpTo
<1>5. ASSUME NEW p \in b..(q - 1) PROVE p + 1 \in t0 <=> q \in t0
  <2>1. q - (p + 1) \in 0..(q - b) /\ q - (q - (p + 1)) = p + 1
    BY DEF Places
  <2> QED BY <1>4, <2>1
<1> QED BY <1>2, <1>5 DEF AtLevel

\* Succeeds, from a level of a coordinate up.
Climbs(w, v, b, q) ==
  /\ q \in w /\ q \notin v /\ AgreeFrom(q + 1, w, v)
  /\ \A p \in b..(q - 1) : p \notin w /\ p \in v

LEMMA ShiftClimbs ==
  ASSUME NEW n \in 1..16, NEW q \in Places, q >= 16 - n,
         NEW v, NEW w, v \subseteq Places, w \subseteq Places, Climbs(w, v, 16 - n, q)
  PROVE  Succeeds(ShiftR(w, 16 - n), ShiftR(v, 16 - n), q - (16 - n))
<1> DEFINE b == 16 - n
           k == q - b
<1>1. k \in Wide /\ k + b = q /\ b \in Nat
  BY DEF Wide, Places
<1>2. k \in ShiftR(w, b) /\ k \notin ShiftR(v, b)
  BY <1>1 DEF ShiftR, Climbs
<1>3. ASSUME NEW p \in Wide, p > k PROVE p \in ShiftR(w, b) <=> p \in ShiftR(v, b)
  <2>1. p + b \in Places => p + b >= q + 1
    BY <1>1, <1>3 DEF Wide, Places
  <2>2. p + b \in w <=> p + b \in v
    BY <2>1 DEF Climbs, AgreeFrom
  <2> QED BY <2>2 DEF ShiftR
<1>4. ASSUME NEW p \in Wide, p < k PROVE p \notin ShiftR(w, b) /\ p \in ShiftR(v, b)
  <2>1. p + b \in b..(q - 1)
    BY <1>1, <1>4 DEF Wide, Places
  <2>2. p + b \notin w /\ p + b \in v
    BY <2>1 DEF Climbs
  <2> QED BY <2>2 DEF ShiftR
<1> QED BY <1>1, <1>2, <1>3, <1>4 DEF Succeeds

\* Two indices, one the next after the other, level by level from b up.
Carries(b, q, i0, i1, j0, j1) ==
  /\ q >= b
  /\ AgreeFrom(q + 1, i0, j0) /\ AgreeFrom(q + 1, i1, j1)
  /\ \/ q \in i0 /\ q \notin j0 /\ (q \in i1 <=> q \in j1)
     \/ q \notin i0 /\ q \in j0 /\ q \in i1 /\ q \notin j1
  /\ \A p \in b..(q - 1) : p \notin i0 /\ p \notin i1 /\ p \in j0 /\ p \in j1

LEMMA NextDigits ==
  ASSUME NEW n \in 1..16, NEW i, NEW j, i \subseteq 0..(2 * n - 1), NEW k, Succeeds(i, j, k),
         NEW i0, NEW i1, NEW j0, NEW j1, Digits(n, i, i0, i1), Digits(n, j, j0, j1)
  PROVE  \E q \in Places : Carries(16 - n, q, i0, i1, j0, j1)
<1> DEFINE b == 16 - n
           q == k \div 2 + b
<1>1. k \in 0..(2 * n - 1) /\ k \in Wide
  BY DEF Succeeds
<1>2. q \in Places /\ q >= b /\ (k = 2 * (q - b) \/ k = 2 * (q - b) + 1)
  BY <1>1 DEF Places
<1> HIDE DEF q
<1>3. ASSUME NEW p \in Places, p >= b
      PROVE  /\ p \in i0 <=> 2 * (p - b) \in i
             /\ p \in i1 <=> 2 * (p - b) + 1 \in i
             /\ p \in j0 <=> 2 * (p - b) \in j
             /\ p \in j1 <=> 2 * (p - b) + 1 \in j
             /\ 2 * (p - b) \in Wide /\ 2 * (p - b) + 1 \in Wide
  <2>1. 2 * (p - b) \in Wide /\ 2 * (p - b) + 1 \in Wide
    BY <1>3 DEF Places, Wide
  <2> QED BY <1>3, <2>1 DEF Digits
<1>4. ASSUME NEW p \in Places, p >= q + 1 PROVE (p \in i0 <=> p \in j0) /\ (p \in i1 <=> p \in j1)
  <2>1. 2 * (p - b) > k /\ 2 * (p - b) + 1 > k /\ p >= b
    BY <1>2, <1>4 DEF Places
  <2> QED BY <1>3, <2>1 DEF Succeeds
<1>5. ASSUME NEW p \in b..(q - 1) PROVE p \notin i0 /\ p \notin i1 /\ p \in j0 /\ p \in j1
  <2>1. 2 * (p - b) < k /\ 2 * (p - b) + 1 < k /\ p >= b /\ p \in Places
    BY <1>2 DEF Places
  <2> QED BY <1>3, <2>1 DEF Succeeds
<1>6. CASE k = 2 * (q - b)
  <2>1. 2 * (q - b) + 1 > k
    BY <1>1, <1>6
  <2>2. q \in i0 /\ q \notin j0 /\ (q \in i1 <=> q \in j1)
    BY <1>2, <1>3, <1>6, <2>1 DEF Succeeds
  <2> QED BY <1>2, <1>4, <1>5, <2>2 DEF AgreeFrom, Carries
<1>7. CASE k = 2 * (q - b) + 1
  <2>1. 2 * (q - b) < k
    BY <1>2, <1>7 DEF Places
  <2>2. q \notin i0 /\ q \in j0 /\ q \in i1 /\ q \notin j1
    BY <1>2, <1>3, <1>7, <2>1 DEF Succeeds
  <2> QED BY <1>2, <1>4, <1>5, <2>2 DEF AgreeFrom, Carries
<1> QED BY <1>2, <1>6, <1>7

\* Words of points that are beside each other.
Adjacent(x, y, v, w) ==
  \E l \in Nat : \/ x = v /\ (Succeeds(y, w, l) \/ Succeeds(w, y, l))
                 \/ y = w /\ (Succeeds(x, v, l) \/ Succeeds(v, x, l))

\* From one index to the next, hilbert_index_to_xy goes to a point beside.
THEOREM NextIsBeside ==
  ASSUME NEW n \in 1..16, NEW i, NEW j, i \subseteq 0..(2 * n - 1), j \subseteq 0..(2 * n - 1),
         NEW k, Succeeds(i, j, k)
  PROVE  \E x, y, v, w : /\ IndexToXy(n, i) = <<x, y>> /\ IndexToXy(n, j) = <<v, w>>
                         /\ Adjacent(x, y, v, w)
<1> DEFINE b == 16 - n
<1>1. PICK i0, i1, x, y, t0, t1 :
        /\ Curves(0, i0, i1, x, y, t0, t1) /\ Digits(n, i, i0, i1)
        /\ x \subseteq Places /\ y \subseteq Places
        /\ IndexToXy(n, i) = <<ShiftR(x, b), ShiftR(y, b)>>
  BY IndexToXyCurves
<1>2. PICK j0, j1, v, w, u0, u1 :
        /\ Curves(0, j0, j1, v, w, u0, u1) /\ Digits(n, j, j0, j1)
        /\ v \subseteq Places /\ w \subseteq Places
        /\ IndexToXy(n, j) = <<ShiftR(v, b), ShiftR(w, b)>>
  BY IndexToXyCurves
<1>3. PICK q \in Places : Carries(b, q, i0, i1, j0, j1)
  BY <1>1, <1>2, NextDigits
<1>3a. /\ q >= b
      /\ AgreeFrom(q + 1, i0, j0) /\ AgreeFrom(q + 1, i1, j1)
      /\ \/ q \in i0 /\ q \notin j0 /\ (q \in i1 <=> q \in j1)
         \/ q \notin i0 /\ q \in j0 /\ q \in i1 /\ q \notin j1
      /\ \A p \in b..(q - 1) : p \notin i0 /\ p \notin i1 /\ p \in j0 /\ p \in j1
  BY <1>3 DEF Carries
<1>4. b \in 0..16 /\ b \in Nat /\ b >= 0 /\ q + 1 \in 0..16 /\ q + 1 \in Nat /\ q + 1 >= 0 /\ q >= 0
  BY DEF Places
<1>5. /\ AgreeFrom(q + 1, x, v) /\ AgreeFrom(q + 1, y, w)
      /\ (q + 1 \in t0 <=> q + 1 \in u0) /\ (q + 1 \in t1 <=> q + 1 \in u1)
  <2>1. Curves(q + 1, i0, i1, x, y, t0, t1) /\ Curves(q + 1, j0, j1, v, w, u0, u1)
    BY <1>1, <1>2, <1>4, CurvesFrom
  <2> QED BY <1>3a, <1>4, <2>1, CurvesAgree
<1>6. AtLevel(i0, i1, x, y, t0, t1, q) /\ AtLevel(j0, j1, v, w, u0, u1, q)
  BY <1>1, <1>2, <1>4 DEF Curves
<1>7. Curves(b, i0, i1, x, y, t0, t1) /\ Curves(b, j0, j1, v, w, u0, u1)
  BY <1>1, <1>2, <1>4, CurvesFrom
<1>8. \A p \in b..(q - 1) : (p \in x <=> q \in t1) /\ (p \in y <=> q \in t1)
  BY <1>3a, <1>4, <1>7, Zeros
<1>9. \A p \in b..(q - 1) : (p \in v <=> q \notin u0) /\ (p \in w <=> q \in u0)
  BY <1>3a, <1>4, <1>7, Ones
<1>10. \/ /\ q \in x <=> q \in v
          /\ q \in t1 <=> q \notin u0
          /\ \/ q \in y /\ q \notin w /\ q \notin t1 /\ q \in u0
             \/ q \notin y /\ q \in w /\ q \in t1 /\ q \notin u0
       \/ /\ q \in y <=> q \in w
          /\ q \in t1 <=> q \in u0
          /\ \/ q \in x /\ q \notin v /\ q \notin t1 /\ q \notin u0
             \/ q \notin x /\ q \in v /\ q \in t1 /\ q \in u0
  BY <1>3a, <1>5, <1>6 DEF AtLevel
<1>11. \/ AgreeFrom(b, x, v) /\ (Climbs(y, w, b, q) \/ Climbs(w, y, b, q))
       \/ AgreeFrom(b, y, w) /\ (Climbs(x, v, b, q) \/ Climbs(v, x, b, q))
  <2>1. \A p \in Places : p >= b => p \in b..(q - 1) \/ p = q \/ p >= q + 1
    BY <1>4 DEF Places
  <2> QED BY <1>5, <1>8, <1>9, <1>10, <2>1 DEF AgreeFrom, Climbs
<1>12. Adjacent(ShiftR(x, b), ShiftR(y, b), ShiftR(v, b), ShiftR(w, b))
  <2>1. q - b \in Nat
    BY <1>3a, <1>4 DEF Places
  <2>2. /\ AgreeFrom(b, x, v) => ShiftR(x, b) = ShiftR(v, b)
        /\ AgreeFrom(b, y, w) => ShiftR(y, b) = ShiftR(w, b)
    BY <1>1, <1>2, ShiftAgree
  <2>3. \A r, s : r \subseteq Places /\ s \subseteq Places /\ Climbs(r, s, b, q)
                    => Succeeds(ShiftR(r, b), ShiftR(s, b), q - b)
    BY <1>3a, ShiftClimbs
  <2> QED BY <1>1, <1>2, <1>11, <2>1, <2>2, <2>3 DEF Adjacent
<1> QED BY <1>1, <1>2, <1>12

-----------------------------------------------------------------------------
(* The keys and the points of the curve, as numbers.                         *)

LEMMA GridWord ==
  ASSUME NEW n \in 1..16, NEW v \in Grid(n)
  PROVE  Word(v) \subseteq 0..(n - 1) /\ Number(Word(v)) = v
<1>1. PICK w \in SUBSET (0..(n - 1)) : v = Number(w)
  BY DEF Grid
<1>2. w \subseteq Wide
  BY DEF Wide
<1>3. Word(v) = w
  BY <1>1, <1>2, WordOfNumber
<1> QED BY <1>1, <1>3

\* The word before that of a number.
LEMMA WordBefore ==
  ASSUME NEW h \in 0..31, NEW i, i \subseteq 0..h, Number(i) > 0
  PROVE  \E j, k : j \subseteq 0..h /\ Succeeds(i, j, k) /\ Word(Number(i) - 1) = j
<1>1. i \subseteq Nat /\ i \subseteq Wide /\ 0..h \subseteq Wide
  BY DEF Wide
<1>2. i # {}
  <2>1. i = {} => Number(i) = 0
    BY NumberZero
  <2> QED BY <2>1
<1>3. PICK k \in i : \A p \in i : k <= p
  BY <1>1, <1>2, LeastNumber
<1> DEFINE j == {p \in 0..h : p < k \/ (p > k /\ p \in i)}
<1>4. j \subseteq 0..h /\ j \subseteq Wide
  BY <1>1
<1>5. Succeeds(i, j, k)
  <2>1. k \in 0..h /\ k \in Wide /\ k \notin j
    BY <1>1
  <2>2. \A p \in Wide : p > k => (p \in i <=> p \in j)
    BY <1>1, <2>1
  <2>3. ASSUME NEW p \in Wide, p < k PROVE p \notin i /\ p \in j
    <3>1. p \in 0..h
      BY <2>1, <2>3 DEF Wide
    <3> QED BY <1>1, <1>3, <2>1, <2>3, <3>1
  <2> HIDE DEF j
  <2> QED BY <2>1, <2>2, <2>3 DEF Succeeds
<1> HIDE DEF j
<1>6. Number(j) \in Nat /\ Word(Number(j)) = j
  BY <1>4, WordOfNumber
<1>7. Number(i) = Number(j) + 1
  BY <1>5, NextNumber
<1>8. Number(i) - 1 = Number(j)
  BY <1>6, <1>7
<1>9. Word(Number(i) - 1) = j
  BY <1>6, <1>8
<1> QED BY <1>4, <1>5, <1>9

LEMMA WordsBeside ==
  ASSUME NEW x, NEW y, NEW v, NEW w, Adjacent(x, y, v, w),
         x \subseteq Wide, y \subseteq Wide, v \subseteq Wide, w \subseteq Wide
  PROVE  Beside(<<Number(v), Number(w)>>, <<Number(x), Number(y)>>)
<1>1. Number(x) \in Nat /\ Number(y) \in Nat /\ Number(v) \in Nat /\ Number(w) \in Nat
  BY WordOfNumber
<1>2. \/ x = v /\ (Number(y) = Number(w) + 1 \/ Number(w) = Number(y) + 1)
      \/ y = w /\ (Number(x) = Number(v) + 1 \/ Number(v) = Number(x) + 1)
  BY NextNumber DEF Adjacent
<1>3. \/ Number(x) = Number(v) /\ \E d \in {-1, 1} : Number(y) = Number(w) + d
      \/ Number(y) = Number(w) /\ \E d \in {-1, 1} : Number(x) = Number(v) + d
  BY <1>1, <1>2
<1> QED BY <1>3 DEF Beside

\* At every order up to 16 and for every point: its key leads back to it, and
\* the key before to a point beside it.
THEOREM CurveFollows ==
  ASSUME NEW n \in 1..16, NEW p \in Grid(n) \X Grid(n)
  PROVE  Follows(n, p)
<1> DEFINE xn == Word(p[1])
           yn == Word(p[2])
           i == XyToIndex(n, xn, yn)
           key == Number(i)
<1>1. /\ xn \subseteq 0..(n - 1) /\ Number(xn) = p[1]
      /\ yn \subseteq 0..(n - 1) /\ Number(yn) = p[2]
      /\ p = <<p[1], p[2]>>
  <2>1. p[1] \in Grid(n) /\ p[2] \in Grid(n) /\ p = <<p[1], p[2]>>
    OBVIOUS
  <2> QED BY <2>1, GridWord
<1>2. CurveKey(n, p) = key
  BY DEF CurveKey
<1> HIDE DEF xn, yn
<1>3. IndexToXy(n, i) = <<xn, yn>> /\ i \subseteq 0..(2 * n - 1)
  BY <1>1, IndexLeadsBack, XyToIndexCurves
<1> HIDE DEF i
<1>4. 2 * n - 1 \in 0..31 /\ i \subseteq Wide
  BY <1>3 DEF Wide
<1>5. key \in Nat /\ Word(key) = i
  BY <1>4, WordOfNumber
<1> HIDE DEF key
<1>6. CurvePoint(n, key) = p
  <2>1. CurvePoint(n, key) = <<Number(xn), Number(yn)>>
    BY <1>3, <1>5 DEF CurvePoint
  <2> QED BY <1>1, <2>1
<1>7. ASSUME key > 0 PROVE Beside(CurvePoint(n, key - 1), p)
  <2>1. PICK j, k : j \subseteq 0..(2 * n - 1) /\ Succeeds(i, j, k) /\ Word(key - 1) = j
    BY <1>3, <1>4, <1>7, WordBefore DEF key
  <2>2. PICK x, y, v, w : /\ IndexToXy(n, i) = <<x, y>> /\ IndexToXy(n, j) = <<v, w>>
                          /\ Adjacent(x, y, v, w)
    BY <1>3, <2>1, NextIsBeside
  <2>3. x = xn /\ y = yn
    BY <1>3, <2>2
  <2>4. xn \subseteq Wide /\ yn \subseteq Wide
    BY <1>1 DEF Wide
  <2>5. v \subseteq Wide /\ w \subseteq Wide
    <3>1. v = IndexToXy(n, j)[1] /\ w = IndexToXy(n, j)[2]
      BY <2>2
    <3> QED BY <3>1 DEF IndexToXy, ShiftR
  <2>6. Beside(<<Number(v), Number(w)>>, <<Number(xn), Number(yn)>>)
    BY <2>2, <2>3, <2>4, <2>5, WordsBeside
  <2>7. CurvePoint(n, key - 1) = <<Number(v), Number(w)>>
    BY <2>1, <2>2 DEF CurvePoint
  <2> QED BY <1>1, <2>6, <2>7
<1> QED BY <1>2, <1>6, <1>7 DEF Follows

-----------------------------------------------------------------------------
(* The keys of a file of boxes.                                              *)

LEMMA RepeatedInGrid ==
  ASSUME NEW n, NEW p
  PROVE  Repeated(n, p) \in Grid(n) \X Grid(n)
BY DEF Repeated, Grid

\* Every entry is the place of its box's centre.
PlaceOfEntry ==
  BoxOfEntry /\ \A e \in DOMAIN entries : entries[e] = Curve[Centre(boxes[e])]

LEMMA PlacesInv == SpecHrDb => []PlaceOfEntry
<1>1. InitHrDb => PlaceOfEntry
  BY DEF InitHrDb, Init, PlaceOfEntry, BoxOfEntry
<1>2. PlaceOfEntry /\ BoxOfEntry' /\ [NextHrDb]_hrvars => PlaceOfEntry'
  <2> SUFFICES ASSUME PlaceOfEntry, BoxOfEntry', [NextHrDb]_hrvars PROVE PlaceOfEntry'
    OBVIOUS
  <2>1. ASSUME NEW b \in Boxes, AddBox(b) PROVE PlaceOfEntry'
    <3>1. entries' = Append(entries, Curve[Centre(b)]) /\ boxes' = Append(boxes, b)
      BY <2>1 DEF AddBox, Add
    <3>2. /\ entries \in Seq(Nat) /\ boxes \in Seq(Boxes) /\ Len(boxes) = Len(entries)
          /\ \A e \in 1..Len(entries) : entries[e] = Curve[Centre(boxes[e])]
      BY DEF PlaceOfEntry, BoxOfEntry
    <3>3. Curve[Centre(b)] \in Nat
      BY PlaceIsKey, TreeAssumption
    <3>4. \A e \in DOMAIN entries' : entries'[e] = Curve[Centre(boxes'[e])]
      BY <3>1, <3>2, <3>3
    <3> QED BY <3>4 DEF PlaceOfEntry
  <2>2. ASSUME FinishBoxes PROVE PlaceOfEntry'
    <3>1. boxes' = boxes /\ entries' = entries
      BY <2>2 DEF FinishBoxes, Finish, StartFinish, CountLevel, StopCounting, WriteInternal, WriteFooter
    <3> QED BY <3>1 DEF PlaceOfEntry, BoxOfEntry
  <2>3. ASSUME UNCHANGED hrvars PROVE PlaceOfEntry'
    BY <2>3 DEF PlaceOfEntry, BoxOfEntry, hrvars, vars
  <2> QED BY <2>1, <2>2, <2>3 DEF NextHrDb
<1> QED BY <1>1, <1>2, BoxesInv, PTL DEF SpecHrDb

LEMMA CurveState == PlaceOfEntry => KeysFollowCurve
<1> SUFFICES ASSUME PlaceOfEntry, NEW e \in DOMAIN entries, NEW c, c = Centre(boxes[e]), c \in Points
             PROVE  <<entries[e], c>> \in Visits /\ <<c, TRUE>> \in Followed
  BY DEF KeysFollowCurve
<1>1. Order \in 1..16 /\ Orders \subseteq 1..16
  BY CurveAssumption
<1>2. c \in Coords \X Coords /\ entries[e] = Curve[c] /\ entries[e] \in Keys
  <2>1. boxes[e] \in Boxes /\ entries[e] = Curve[c]
    BY DEF PlaceOfEntry, BoxOfEntry
  <2>2. /\ boxes[e].x0 \in Coords /\ boxes[e].x1 \in Coords
        /\ boxes[e].y0 \in Coords /\ boxes[e].y1 \in Coords
    BY <2>1, HrDbAssumption DEF AllBoxes
  <2>3. c \in Coords \X Coords
    BY <2>2, HalfOfSum DEF Centre
  <2> QED BY <2>1, <2>3, PlaceIsKey
<1>3. entries[e] = CurveKey(Order, c)
  BY <1>2, CurveAssumption DEF Points
<1>4. CurvePoint(Order, entries[e]) = c
  <2>1. Follows(Order, c)
    BY <1>1, CurveFollows DEF Points
  <2> QED BY <1>3, <2>1 DEF Follows
<1>5. <<entries[e], c>> \in Visits
  BY <1>2, <1>4 DEF Visits
<1>6. \A n \in Orders : Follows(n, Repeated(n, c))
  BY <1>1, RepeatedInGrid, CurveFollows
<1>7. <<c, TRUE>> \in Followed
  BY <1>6 DEF Followed
<1> QED BY <1>5, <1>7

\* The key of a value is the place of its box's centre on the curve, and the
\* curve goes from one key to the next in steps to a point beside: for every
\* set of boxes, and at every order that a coordinate of 16 bits allows.
THEOREM KeysAreNear == SpecHrDb => []KeysFollowCurve
BY PlacesInv, CurveState, PTL

=============================================================================
