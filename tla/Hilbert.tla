------------------------------ MODULE Hilbert ------------------------------
(***************************************************************************)
(* The Hilbert curve of detail/hilbert.hpp, bit operation by bit operation.*)
(* A word is the set of the places of its ones, so that & is \cap, | is    *)
(* \cup, and a shift moves the places. The curve of order n goes through   *)
(* the points whose coordinates have n bits; the code works on 16 bits and *)
(* shifts shorter coordinates up.                                          *)
(***************************************************************************)
EXTENDS Integers

Places == 0..15  \* of the lower half of a uint32_t, where coordinates are
Wide == 0..31

\* The words of a number below 2^32, and the number of a word.
Word(v) ==
  LET half[p \in 0..32] == IF p = 0 THEN v ELSE half[p - 1] \div 2
  IN  {p \in Wide : half[p] % 2 = 1}
Number(w) ==
  LET upper[m \in 0..32] == IF m = 0 THEN 0 ELSE 2 * upper[m - 1] + (IF 32 - m \in w THEN 1 ELSE 0)
  IN  upper[32]

Xor(v, w) == (v \ w) \cup (w \ v)
Complement(w) == Places \ w
ShiftR(w, k) == {p \in Wide : p + k \in w}
ShiftL(w, k) == {p \in Wide : p - k \in w}

\* k ones, k zeros, and so on from the lowest place up: 0x55555555 for 1,
\* 0x33333333 for 2, and so on to 0x0000FFFF for 16.
Mask(k) == {p \in Wide : p % (2 * k) < k}

\* The places of a word moved to the even ones, and back.
Spread(w, k) == (w \cup ShiftL(w, k)) \cap Mask(k)
Interleave(w) == Spread(Spread(Spread(Spread(w, 8), 4), 2), 1)
Gather(w, k) == (w \cup ShiftR(w, k)) \cap Mask(2 * k)
Deinterleave(i) == Gather(Gather(Gather(Gather(i \cap Mask(1), 1), 2), 4), 8)

Fold(w, k) == Xor(ShiftR(w, k), w)
PrefixScan(w) == Fold(Fold(Fold(Fold(w, 8), 4), 2), 1)

\* The state of the scan in hilbert_xy_to_index, after the round that primes it
\* and after one that looks k bits further up.
Primed(x, y) ==
  LET a == Xor(x, y)
      b == Complement(a)
      c == Complement(x \cup y)
      d == x \cap Complement(y)
  IN  [a |-> a \cup ShiftR(b, 1), b |-> Xor(ShiftR(a, 1), a),
       c |-> Xor(Xor(ShiftR(c, 1), b \cap ShiftR(d, 1)), c),
       d |-> Xor(Xor(a \cap ShiftR(c, 1), ShiftR(d, 1)), d)]
Round(s, k) ==
  LET a == ShiftR(s.a, k)
      b == ShiftR(s.b, k)
      c == ShiftR(s.c, k)
      d == ShiftR(s.d, k)
  IN  [a |-> Xor(s.a \cap a, s.b \cap b), b |-> Xor(s.a \cap b, s.b \cap Xor(a, b)),
       c |-> Xor(s.c, Xor(s.a \cap c, s.b \cap d)),
       d |-> Xor(s.d, Xor(s.b \cap c, Xor(s.a, s.b) \cap d))]

\* Mutant of Scanned: the last round is left out.
ScannedShort(x, y) == Round(Round(Primed(x, y), 2), 4)

Scanned(x, y) == Round(Round(Round(Primed(x, y), 2), 4), 8)

\* hilbert_xy_to_index and hilbert_index_to_xy, for the curve of order n.
XyToIndex(n, xn, yn) ==
  LET x == ShiftL(xn, 16 - n)
      y == ShiftL(yn, 16 - n)
      s == Scanned(x, y)
      a == Fold(s.c, 1)
      b == Fold(s.d, 1)
      i0 == Xor(x, y)
      i1 == b \cup Complement(i0 \cup a)
  IN  ShiftR(ShiftL(Interleave(i1), 1) \cup Interleave(i0), 32 - 2 * n)

IndexToXy(n, in) ==
  LET i == ShiftL(in, 32 - 2 * n)
      i0 == Deinterleave(i)
      i1 == Deinterleave(ShiftR(i, 1))
      t0 == PrefixScan(Complement(i0 \cup i1))
      t1 == PrefixScan(i0 \cap i1)
      a == (Complement(i0) \cap t1) \cup (i0 \cap t0)
  IN  <<ShiftR(Xor(a, i1), 16 - n), ShiftR(Xor(Xor(a, i0), i1), 16 - n)>>

=============================================================================
