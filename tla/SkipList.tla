----------------------------- MODULE SkipList ------------------------------
(***************************************************************************)
(* The skip list (skip_list/skip_list.hpp): linked lists, one per level,   *)
(* each with some of the entries of the one below. An entry is the number  *)
(* of its add; that it is the same entry on several levels is the iterator *)
(* which the code keeps in it to go down a level. A position in a list is  *)
(* an index, and the end of a list is the index behind its last.           *)
(***************************************************************************)
EXTENDS Integers, Sequences

Seqs == INSTANCE SequencesExt

CONSTANTS
  Keys,      \* the keys that entries may have
  MaxLevel,  \* MAX_LEVEL, 32 in the code
  MaxAdds    \* bound: the number of add calls

ASSUME SkipListAssumption == Keys \subseteq Int /\ MaxLevel \in Nat \ {0} /\ MaxAdds \in Nat

VARIABLES
  lists,  \* lists, the lowest level first
  size,   \* size, in entries instead of bytes
  keyOf   \* the key of each entry, in the order of the add calls

vars == <<lists, size, keyOf>>

-----------------------------------------------------------------------------
\* Where search stops on a level, with last or without.
BeyondFirst(last, e, key) == keyOf[e] >= key
Beyond(last, e, key) == IF last THEN keyOf[e] > key ELSE keyOf[e] >= key

PositionOf(level, e) == CHOOSE p \in DOMAIN level : level[p] = e

\* The loop of search on one level: from begin to the first entry beyond, or to
\* end. The entry it came over last and the one it stopped at, 0 for none, are
\* where the search on the level below begins and ends.
Scan(level, begin, end, last, key) ==
  LET it == CHOOSE p \in begin..end :
              /\ p = end \/ Beyond(last, level[p], key)
              /\ \A q \in begin..(p - 1) : ~Beyond(last, level[q], key)
  IN  [result |-> it,
       prevBegin |-> IF it > begin THEN level[it - 1] ELSE 0,
       prevEnd |-> IF it < end THEN level[it] ELSE 0]

\* One level of search: it begins and ends at the entries the level above has
\* kept, or where the level does.
ScanBelow(level, above, last, key) ==
  LET begin == IF above.prevBegin = 0 THEN 1 ELSE PositionOf(level, above.prevBegin)
      end == IF above.prevEnd = 0 THEN Len(level) + 1 ELSE PositionOf(level, above.prevEnd)
  IN  Scan(level, begin, end, last, key)

\* search: the results of all levels of the lists it goes through.
Search(through, last, key) ==
  LET none == [result |-> 1, prevBegin |-> 0, prevEnd |-> 0]
      down[i \in 1..(Len(through) + 1)] ==
        IF i > Len(through) THEN none ELSE ScanBelow(through[i], down[i + 1], last, key)
  IN  [i \in DOMAIN through |-> down[i].result]

\* new_entry_level adds the levels that are missing before the search.
Raised(level) ==
  IF level <= Len(lists) THEN lists ELSE lists \o [i \in 1..(level - Len(lists)) |-> <<>>]

\* Mutant of Inserted: every level is given the place found on the level above.
InsertedAbove(through, results, level, e) ==
  [i \in DOMAIN through |->
    IF i <= level
      THEN Seqs!InsertAt(through[i], IF i < Len(through) THEN results[i + 1] ELSE results[i], e)
      ELSE through[i]]

\* The loop of add_after and add_before: the entry goes in front of the result.
Inserted(through, results, level, e) ==
  [i \in DOMAIN through |->
    IF i <= level THEN Seqs!InsertAt(through[i], results[i], e) ELSE through[i]]

-----------------------------------------------------------------------------
Init == lists = <<<<>>>> /\ size = 0 /\ keyOf = <<>>

\* add_after with last and add_before without; the level is drawn at random.
Add(last, key, level) ==
  /\ Len(keyOf) < MaxAdds
  /\ keyOf' = Append(keyOf, key)
  /\ lists' = Inserted(Raised(level), Search(Raised(level), last, key), level, Len(keyOf'))
  /\ size' = size + 1
AddAfter(key, level) == Add(TRUE, key, level)
AddBefore(key, level) == Add(FALSE, key, level)

Clear == lists' = <<<<>>>> /\ size' = 0 /\ UNCHANGED keyOf

Next ==
  \/ \E key \in Keys, level \in 1..MaxLevel : AddAfter(key, level) \/ AddBefore(key, level)
  \/ Clear

Spec == Init /\ [][Next]_vars

-----------------------------------------------------------------------------
(* Queries: an entry in a set, or an empty set for false; a position, or    *)
(* the end of the list.                                                     *)

Lowest == lists[1]
EndOfList == Len(Lowest) + 1

GetFirst(key) ==
  LET p == Search(lists, FALSE, key)[1]
  IN  IF p = EndOfList \/ keyOf[Lowest[p]] # key THEN {} ELSE {Lowest[p]}

\* Mutant of GetLast: it does not step back.
GetLastBeyond(key) ==
  LET p == Search(lists, TRUE, key)[1]
  IN  IF p = EndOfList \/ keyOf[Lowest[p]] # key THEN {} ELSE {Lowest[p]}

GetLast(key) ==
  LET p == Search(lists, TRUE, key)[1]
  IN  IF p = 1 \/ keyOf[Lowest[p - 1]] # key THEN {} ELSE {Lowest[p - 1]}

SeekFirst(key) ==
  LET p == Search(lists, FALSE, key)[1]
  IN  IF p = EndOfList \/ keyOf[Lowest[p]] # key THEN EndOfList ELSE p

-----------------------------------------------------------------------------
\* Each level lists entries of the level below in the same order, each once: the
\* iterators kept in entries lead from begin to an end that lies behind it, and a
\* search never runs past the end of a list.
LevelsNest ==
  \A i \in 2..Len(lists) :
    \A p, q \in DOMAIN lists[i] : p <= q =>
      \E r, s \in DOMAIN lists[i - 1] :
        /\ lists[i - 1][r] = lists[i][p] /\ lists[i - 1][s] = lists[i][q]
        /\ p < q => r < s

Having(key) == {p \in DOMAIN Lowest : keyOf[Lowest[p]] = key}

\* get_first, get_last and seek_first find what a walk along the lowest list
\* would find, whatever levels the entries have drawn.
FindsAsScan ==
  \A key \in Keys :
    IF Having(key) = {} THEN GetFirst(key) = {} /\ GetLast(key) = {} /\ SeekFirst(key) = EndOfList
    ELSE LET first == CHOOSE p \in Having(key) : \A q \in Having(key) : p <= q
             last == CHOOSE p \in Having(key) : \A q \in Having(key) : q <= p
         IN  GetFirst(key) = {Lowest[first]} /\ GetLast(key) = {Lowest[last]} /\ SeekFirst(key) = first

\* The lowest list is a keyed list: an entry added after goes behind those with
\* its key, an entry added before in front of them, whatever levels are drawn.
List == INSTANCE KeyedList WITH
  list <- [p \in DOMAIN Lowest |-> <<keyOf[Lowest[p]], Lowest[p]>>], adds <- Len(keyOf)
ImplementsList ==
  /\ List!Spec
  /\ [][\A key \in Keys, level \in 1..MaxLevel :
          /\ AddAfter(key, level) => List!AddAfter(key)
          /\ AddBefore(key, level) => List!AddBefore(key)]_vars

=============================================================================
