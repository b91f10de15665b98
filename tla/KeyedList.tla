----------------------------- MODULE KeyedList -----------------------------
(***************************************************************************)
(* What the skip list promises: a list of entries in the order of their    *)
(* keys, in which a new entry goes behind or in front of those with its    *)
(* own key. An entry is a pair of a key and the number of its add.         *)
(***************************************************************************)
EXTENDS Integers, Sequences

CONSTANTS Keys, MaxAdds

VARIABLES
  list,  \* the entries, in order
  adds   \* the number of add calls so far

\* The new pair is put in front of the one at place p.
Put(p, key) == list' = SubSeq(list, 1, p - 1) \o <<<<key, adds + 1>>>> \o SubSeq(list, p, Len(list))

Init == list = <<>> /\ adds = 0
AddAfter(key) ==
  /\ \E p \in 1..(Len(list) + 1) :
       /\ \A q \in 1..(p - 1) : list[q][1] <= key
       /\ \A q \in p..Len(list) : list[q][1] > key
       /\ Put(p, key)
  /\ adds' = adds + 1
AddBefore(key) ==
  /\ \E p \in 1..(Len(list) + 1) :
       /\ \A q \in 1..(p - 1) : list[q][1] < key
       /\ \A q \in p..Len(list) : list[q][1] >= key
       /\ Put(p, key)
  /\ adds' = adds + 1
Clear == list' = <<>> /\ adds' = adds
Next == (\E key \in Keys : adds < MaxAdds /\ (AddAfter(key) \/ AddBefore(key))) \/ Clear

Spec == Init /\ [][Next]_<<list, adds>>

=============================================================================
