------------------------------- MODULE KvStore -------------------------------
(* What the database promises about the entries added to it, whatever files *)
(* it keeps them in: an added entry is pending until a flush stores all the *)
(* pending ones together; a stored entry stays stored, through any number   *)
(* of merges, exits and crashes, until the directory is opened to be        *)
(* emptied; a pending one is lost when the database is closed.              *)
EXTENDS Integers

CONSTANT Entries

VARIABLES stored, pending, opened

Init == stored = {} /\ pending = {} /\ opened = FALSE

Open ==
  /\ ~opened /\ opened' = TRUE
  /\ stored' \in {stored, {}}
  /\ UNCHANGED pending

Add ==
  /\ opened
  /\ \E e \in Entries \ (stored \cup pending) : pending' = pending \cup {e}
  /\ UNCHANGED <<stored, opened>>

Commit ==
  /\ opened
  /\ stored' = stored \cup pending
  /\ pending' = {}
  /\ UNCHANGED opened

Close ==
  /\ opened /\ opened' = FALSE
  /\ pending' = {}
  /\ UNCHANGED stored

Next == Open \/ Add \/ Commit \/ Close

Spec == Init /\ [][Next]_<<stored, pending, opened>>

=============================================================================
