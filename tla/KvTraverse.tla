----------------------------- MODULE KvTraverse -----------------------------
(***************************************************************************)
(* KvDb::traverse, and the calls its predicate makes on the same database. *)
(*                                                                         *)
(* The predicate is the caller's function: between two values it may add,  *)
(* flush and compact, and each of these may close files that the traversal *)
(* has passed, has before it, or stands in. The traversal goes through the *)
(* map of readers as it is each time it steps on. Inside one file it is a  *)
(* walk over a tree that nothing changes (PbtTree), so a file's values are *)
(* taken when the traversal leaves it; the predicate accepts all of them.  *)
(* One traversal is under way at a time.                                   *)
(***************************************************************************)
EXTENDS KvDb

VARIABLES
  at,      \* the file the traversal stands in, Nowhere, or Erased
  passed   \* the accumulator: the files it points into, and the entries taken from each

traversal == <<at, passed>>
tvars == <<vars, traversal>>

\* No traversal is under way; the node of the map it stands in has been erased.
Nowhere == <<-1, 0>>
Erased == <<-1, 1>>

FirstFiles == {f \in readers : \A g \in readers \ {f} : NameBefore(f, g)}

\* Mutant of NextFiles: the map has no order, so the next file is any other.
NextFilesUnordered(f) == readers \ {f}

\* The iterator of the map, stepped on from f: the next name there is now.
NextFiles(f) ==
  {g \in readers :
     /\ NameBefore(f, g)
     /\ \A h \in readers \ {g} : NameBefore(f, h) => NameBefore(g, h)}

InitTraverse == Init /\ at = Nowhere /\ passed = [f \in {} |-> {}]

Stop == at' = Nowhere /\ passed' = [f \in {} |-> {}]

TraverseStart ==
  /\ pc = "idle" /\ at = Nowhere
  /\ at' \in FirstFiles
  /\ UNCHANGED <<vars, passed>>

\* The predicate has returned for every value of the file.
TraverseNext ==
  /\ pc = "idle" /\ at \in readers
  /\ passed' = Put(passed, at, disk[at].ids)
  /\ at' \in NextFiles(at)
  /\ UNCHANGED vars

TraverseReturn ==
  /\ pc = "idle" /\ at \in readers
  /\ NextFiles(at) = {}
  /\ Stop
  /\ UNCHANGED vars

\* The predicate throws, of its own or because a call it made has thrown.
TraverseThrows ==
  /\ pc = "idle" /\ at # Nowhere
  /\ Stop
  /\ UNCHANGED vars

\* The predicate returns into a file that its own calls have unmapped, which
\* is undefined: the process dies, or the traversal ends with any result.
TraverseFaults ==
  /\ pc = "idle" /\ at = Erased
  /\ Stop
  /\ Exit \/ UNCHANGED vars

\* A step of another call: the predicate's own, while a traversal is under way.
\* The process and a traversal in it end together.
Meanwhile ==
  /\ Next
  /\ IF pc' = "closed" THEN Stop
     ELSE IF at \in readers \ readers' THEN at' = Erased /\ passed' = [f \in {} |-> {}]
     ELSE UNCHANGED traversal

NextTraverse ==
  \/ TraverseStart
  \/ TraverseNext
  \/ TraverseReturn
  \/ TraverseThrows
  \/ TraverseFaults
  \/ Meanwhile

SpecTraverse == InitTraverse /\ [][NextTraverse]_tvars

\* As in KvDb: the thread takes the next step of the call it is in.
FairTraverse == SpecTraverse /\ WF_tvars(Step /\ Meanwhile)

-----------------------------------------------------------------------------
Standing == pc = "idle" /\ at \in readers /\ Whole

\* What a traversal has taken and what it has before it is every flushed entry
\* once, whatever its predicate has added, flushed or merged on the way: so if
\* it comes to its end in a file that is still open, it has missed none and
\* taken none twice (kvdb.hpp, traverse; the iterator into the map of readers).
TraverseSeesAll ==
  Standing =>
    LET ahead == {f \in readers : f = at \/ NameBefore(at, f)}
        taken == [f \in DOMAIN passed \cup ahead |-> IF f \in ahead THEN disk[f].ids ELSE passed[f]]
    IN  /\ ahead \cap DOMAIN passed = {}
        /\ UNION {taken[f] : f \in DOMAIN taken} = durable
        /\ \A f, g \in DOMAIN taken : f # g => taken[f] \cap taken[g] = {}

\* The views in the accumulator are good as long as the traversal is: a merge
\* that leaves open the file it stands in has not closed or rewritten one that
\* it has taken values from.
ViewsStayMapped ==
  Standing => \A f \in DOMAIN passed : f \in readers /\ disk[f].ids = passed[f]

=============================================================================
