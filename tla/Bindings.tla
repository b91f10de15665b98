------------------------------ MODULE Bindings ------------------------------
(***************************************************************************)
(* The native objects behind the handles that the JavaScript and the Java  *)
(* binding give to a script: databases and their iterators, when they are  *)
(* freed and what is flushed before (js/binding.cpp, js/include/contexts,  *)
(* java/src/main/cpp).                                                     *)
(*                                                                         *)
(* In JavaScript an object is freed by its finalizer: once the garbage     *)
(* collector finds its handle unreachable, at a moment of its own choice,  *)
(* or at the end of the environment, after the cleanup hooks. In Java the  *)
(* script closes it. A database is abstracted to whether it has entries    *)
(* that no flush has written, and whether a flush would write them (KvDb   *)
(* says what a flush does), an iterator to whether the memory it reads is  *)
(* still mapped. An id stands for one object: it is used once.             *)
(***************************************************************************)
EXTENDS Naturals, FiniteSets

CONSTANTS
  KvDbs,  \* the key-value databases a script may open
  HrDbs,  \* the Hilbert R-tree databases; they have no iterators
  Iters,  \* the iterators it may create
  NoDb    \* the owner of an iterator that has not been created

Dbs == KvDbs \cup HrDbs
Objects == Dbs \cup Iters

ASSUME HandleAssumption ==
  /\ KvDbs \cap HrDbs = {} /\ Dbs \cap Iters = {}
  /\ NoDb \notin Objects
  /\ IsFiniteSet(Iters)

VARIABLES
  binding,    \* "js" or "java"
  phase,      \* of the environment: "running", its end in two steps, "ended" or "died"
  status,     \* of every native object: "unused", "live" or "freed"
  held,       \* the objects whose handle the script can still reach
  pending,    \* the databases with entries that no flush has written
  sized,      \* those of them whose Buffer::size is not 0: some entry is not empty
  view,       \* of every iterator: "mapped", or whether a merge or the end of the database unmapped its files
  owner,      \* ContextKvIterator::context_db
  refs,       \* the count of ContextKvDb::external_ref
  iterators,  \* ContextKvDb::iterators
  hooks,      \* the databases whose cleanup hook is registered
  older,      \* of every live object: the live objects that were created before it
  failed      \* history: the databases whose last flush, in close, threw

buffers == <<pending, sized>>
database == <<buffers, view>>
counting == <<owner, refs, iterators>>
vars == <<binding, phase, status, held, database, counting, hooks, older, failed>>

Live == {c \in Objects : status[c] = "live"}
ItersOf(d) == {i \in Iters : status[i] = "live" /\ owner[i] = d}
Youngest(S) == {c \in S : S \ {c} \subseteq older[c]}

Init ==
  /\ binding \in {"js", "java"} /\ phase = "running"
  /\ status = [c \in Objects |-> "unused"] /\ held = {}
  /\ pending = {} /\ sized = {} /\ view = [i \in Iters |-> "mapped"]
  /\ owner = [i \in Iters |-> NoDb]
  /\ refs = [d \in Dbs |-> 0] /\ iterators = [d \in Dbs |-> {}]
  /\ hooks = {} /\ older = [c \in Objects |-> {}] /\ failed = {}

-----------------------------------------------------------------------------
(* What the calls of both bindings do.                                      *)

\* The script makes the calls of one binding, on handles it has.
Calls(language) == phase = "running" /\ binding = language
Callable(c) == status[c] = "live" /\ c \in held

\* A new object, of which the script gets the handle.
Create(c) ==
  /\ status[c] = "unused"
  /\ status' = [status EXCEPT ![c] = "live"]
  /\ held' = held \cup {c}
  /\ older' = [older EXCEPT ![c] = Live]

\* flush and compact, and an add that flushes, may merge files that iterators
\* read from.
MayMerge(d) ==
  \E gone \in SUBSET ItersOf(d) : view' = [i \in Iters |-> IF i \in gone THEN "merged" ELSE view[i]]

\* flush_buffer has written all entries, and has cleared the buffer.
Written(d) == pending' = pending \ {d} /\ sized' = sized \ {d}

\* flush_buffer goes by the size of the buffer: it leaves entries in it if their
\* keys and values are all empty.
FlushBuffer(d) == IF d \in sized THEN Written(d) ELSE UNCHANGED buffers

\* The new entry is in the buffer, or a flush has written it and all others,
\* which is tried when the buffer's size is above its limit. Only an entry of a
\* key-value database can be empty: hrdb.hpp makes keys of four bytes, and puts a
\* box in front of each value.
AddEntry(d) ==
  /\ Callable(d)
  /\ \/ /\ pending' = pending \cup {d}
        /\ sized' = sized \cup {d} \/ (d \in KvDbs /\ UNCHANGED sized)
        /\ UNCHANGED view
     \/ Written(d) /\ MayMerge(d)
  /\ UNCHANGED <<binding, phase, status, held, counting, hooks, older, failed>>

\* flush and compact. When one throws, the script gets the exception: in the
\* writing of the buffer, nothing has changed here; in the merge after it, this
\* much has.
FlushEntries(d) ==
  /\ Callable(d)
  /\ FlushBuffer(d) /\ MayMerge(d)
  /\ UNCHANGED <<binding, phase, status, held, counting, hooks, older, failed>>

\* An object is deleted, and with a database the mappings of its files.
Free(c) ==
  /\ status' = [status EXCEPT ![c] = "freed"]
  /\ held' = held \ {c}
  /\ older' = [e \in Objects |-> IF e = c THEN {} ELSE older[e] \ {c}]
  /\ view' = [i \in Iters |-> IF owner[i] = c /\ view[i] = "mapped" THEN "closed" ELSE view[i]]

\* An exception leaves a function that the runtime has called, or memory is read
\* that is not there: the process ends.
Die ==
  /\ phase' = "died"
  /\ UNCHANGED <<binding, status, held, database, counting, hooks, older, failed>>

-----------------------------------------------------------------------------
(* JavaScript. *)

\* The constructor of ContextKvDb, when KvDb::open returns.
JsOpen(d) ==
  /\ Calls("js") /\ Create(d)
  /\ hooks' = hooks \cup {d}
  /\ UNCHANGED <<binding, phase, database, counting, failed>>

JsAdd(d) == Calls("js") /\ AddEntry(d)
JsFlush(d) == Calls("js") /\ FlushEntries(d)

\* Mutant of JsBegin: the database is not referenced.
JsBeginUnreferenced(i, d) ==
  /\ Calls("js") /\ Callable(d) /\ Create(i)
  /\ owner' = [owner EXCEPT ![i] = d]
  /\ iterators' = [iterators EXCEPT ![d] = @ \cup {i}]
  /\ UNCHANGED <<binding, phase, database, refs, hooks, failed>>

\* The constructor of ContextKvIterator.
JsBegin(i, d) ==
  /\ Calls("js") /\ Callable(d) /\ Create(i)
  /\ owner' = [owner EXCEPT ![i] = d]
  /\ refs' = [refs EXCEPT ![d] = @ + 1]
  /\ iterators' = [iterators EXCEPT ![d] = @ \cup {i}]
  /\ UNCHANGED <<binding, phase, database, hooks, failed>>

\* An iterator that is used after its files have been unmapped reads memory
\* that is not there.
JsRead(i) == Calls("js") /\ Callable(i) /\ view[i] # "mapped" /\ Die

\* The same for a Hilbert R-tree database.
JsHr(d) == Calls("js") /\ (AddEntry(d) \/ FlushEntries(d))

\* The script loses its last reference to a handle.
Drop(c) ==
  /\ Calls("js") /\ Callable(c)
  /\ held' = held \ {c}
  /\ UNCHANGED <<binding, phase, status, database, counting, hooks, older, failed>>

\* When the runtime calls a finalizer: for a handle that neither the script nor a
\* reference keeps, or at the end for every handle that is left, the newest first.
Finalizable(c) ==
  /\ binding = "js" /\ status[c] = "live"
  /\ \/ phase = "running" /\ c \notin held /\ (c \in Dbs => refs[c] = 0)
     \/ phase = "finalizing" /\ c \in Youngest(Live)

\* Mutant of FinalizeDb: the buffer is not flushed.
FinalizeDbUnflushed(d) ==
  /\ Finalizable(d)
  /\ Free(d)
  /\ hooks' = hooks \ {d}
  /\ UNCHANGED <<binding, phase, buffers, counting, failed>>

\* finalize_cb of the databases. Its flush is not guarded, and may throw with an
\* empty buffer too, as it does the merge that is due.
FinalizeDb(d) ==
  /\ Finalizable(d)
  /\ \/ /\ FlushBuffer(d)
        /\ Free(d)
        /\ hooks' = hooks \ {d}
        /\ UNCHANGED <<binding, phase, counting, failed>>
     \/ Die

\* Mutant of FinalizeItr: remove_iterator is not called.
FinalizeItrListed(i) ==
  /\ Finalizable(i)
  /\ Free(i)
  /\ refs' = [refs EXCEPT ![owner[i]] = @ - 1]
  /\ UNCHANGED <<binding, phase, buffers, owner, iterators, hooks, failed>>

\* finalize_cb of ContextKvIterator.
FinalizeItr(i) ==
  /\ Finalizable(i)
  /\ Free(i)
  /\ iterators' = [iterators EXCEPT ![owner[i]] = @ \ {i}]
  /\ refs' = [refs EXCEPT ![owner[i]] = @ - 1]
  /\ UNCHANGED <<binding, phase, buffers, owner, hooks, failed>>

\* The environment ends: first the cleanup hooks, the newest first.
Leave ==
  /\ phase = "running"
  /\ phase' = IF binding = "js" THEN "hooks" ELSE "ended"
  /\ UNCHANGED <<binding, status, held, database, counting, hooks, older, failed>>

\* Mutant of RunHook: the hook stays registered.
RunHookKept(d) ==
  /\ phase = "hooks" /\ d \in Youngest(hooks)
  /\ FlushBuffer(d)
  /\ UNCHANGED <<binding, phase, status, held, view, counting, hooks, older, failed>>

\* cleanup_hook of the databases. Its flush is not guarded either.
RunHook(d) ==
  /\ phase = "hooks" /\ d \in Youngest(hooks)
  /\ \/ /\ FlushBuffer(d) /\ MayMerge(d)
        /\ hooks' = hooks \ {d}
        /\ UNCHANGED <<binding, phase, status, held, counting, older, failed>>
     \/ Die

\* Then the finalizers of all handles that are left, and then it is over.
EndStep ==
  /\ \/ phase = "hooks" /\ hooks = {} /\ phase' = "finalizing"
     \/ phase = "finalizing" /\ Live = {} /\ phase' = "ended"
  /\ UNCHANGED <<binding, status, held, database, counting, hooks, older, failed>>

-----------------------------------------------------------------------------
(* Java. A handle is not used after it has been closed.                     *)

JavaOpen(d) ==
  /\ Calls("java") /\ Create(d)
  /\ UNCHANGED <<binding, phase, database, counting, hooks, failed>>

JavaAdd(d) == Calls("java") /\ AddEntry(d)
JavaFlush(d) == Calls("java") /\ FlushEntries(d)
JavaHr(d) == Calls("java") /\ (AddEntry(d) \/ FlushEntries(d))

\* The iterator knows nothing of the database; who created it is noted here to
\* say whose files it reads.
JavaBegin(i, d) ==
  /\ Calls("java") /\ Callable(d) /\ Create(i)
  /\ owner' = [owner EXCEPT ![i] = d]
  /\ UNCHANGED <<binding, phase, database, refs, iterators, hooks, failed>>

JavaRead(i) == Calls("java") /\ Callable(i) /\ view[i] # "mapped" /\ Die

\* kvdb_close and hrdb_close: when flush throws, before it has written the buffer
\* or in the merge after, the caller gets the exception, and the object is deleted
\* all the same.
JavaClose(d) ==
  /\ Calls("java") /\ Callable(d)
  /\ Free(d)
  /\ \/ FlushBuffer(d) /\ UNCHANGED failed
     \/ (FlushBuffer(d) \/ UNCHANGED buffers) /\ failed' = failed \cup {d}
  /\ UNCHANGED <<binding, phase, counting, hooks>>

JavaCloseItr(i) ==
  /\ Calls("java") /\ Callable(i)
  /\ Free(i)
  /\ UNCHANGED <<binding, phase, buffers, counting, hooks, failed>>

-----------------------------------------------------------------------------
Js ==
  \/ \E d \in Dbs : JsOpen(d) \/ FinalizeDb(d) \/ RunHook(d)
  \/ \E d \in KvDbs : JsAdd(d) \/ JsFlush(d)
  \/ \E d \in HrDbs : JsHr(d)
  \/ \E i \in Iters : JsRead(i) \/ FinalizeItr(i)
  \/ \E i \in Iters, d \in KvDbs : JsBegin(i, d)
  \/ \E c \in Objects : Drop(c)
  \/ EndStep

Java ==
  \/ \E d \in Dbs : JavaOpen(d) \/ JavaClose(d)
  \/ \E d \in KvDbs : JavaAdd(d) \/ JavaFlush(d)
  \/ \E d \in HrDbs : JavaHr(d)
  \/ \E i \in Iters : JavaRead(i) \/ JavaCloseItr(i)
  \/ \E i \in Iters, d \in KvDbs : JavaBegin(i, d)

Ended == phase \in {"ended", "died"} /\ UNCHANGED vars

Next == Js \/ Java \/ Leave \/ Ended

\* Once the environment ends, the runtime goes through its hooks and finalizers.
Ending ==
  \/ \E d \in Dbs : RunHook(d)
  \/ phase = "finalizing" /\ ((\E d \in Dbs : FinalizeDb(d)) \/ (\E i \in Iters : FinalizeItr(i)))
  \/ EndStep

Spec == Init /\ [][Next]_vars
FairSpec == Spec /\ WF_vars(Ending)

-----------------------------------------------------------------------------
\* Every object has the shape its code gives it; no count goes below zero.
TypeOK ==
  /\ binding \in {"js", "java"}
  /\ phase \in {"running", "hooks", "finalizing", "ended", "died"}
  /\ status \in [Objects -> {"unused", "live", "freed"}]
  /\ held \subseteq Live
  /\ pending \subseteq Dbs /\ sized \subseteq pending
  /\ view \in [Iters -> {"mapped", "merged", "closed"}]
  /\ owner \in [Iters -> KvDbs \cup {NoDb}]
  /\ \A i \in Iters : status[i] = "unused" <=> owner[i] = NoDb
  /\ refs \in [Dbs -> Nat]
  /\ iterators \in [Dbs -> SUBSET Iters]
  /\ hooks \subseteq Dbs
  /\ older \in [Objects -> SUBSET Live]
  /\ failed \subseteq Dbs

\* Whatever points to a native object points to a live one, in whichever order
\* handles are dropped, collected and freed at the end: a live iterator to its
\* database, which its finalizer writes to (contexts.hpp, finalize_cb); a cleanup
\* hook and the list of iterators of a database likewise. And a database is kept
\* exactly as long as it has iterators.
PointersGood ==
  binding = "js" =>
    /\ \A i \in Iters \cap Live : owner[i] \in Live
    /\ hooks \subseteq Live
    /\ \A d \in Dbs : iterators[d] = ItersOf(d) /\ refs[d] = Cardinality(ItersOf(d))

\* In JavaScript no iterator loses the memory it reads because its database was
\* dropped or collected: only a merge can take it.
IteratorsReadable == binding = "js" => \A i \in Iters \cap Live : view[i] # "closed"

\* Entries that were added are not thrown away with their database, unless the
\* caller of close got an exception: collecting, closing and the end of a
\* JavaScript environment flush them first (contexts.hpp, finalize_cb;
\* kvdb_close). The exception are the entries which flush leaves in the buffer,
\* those of a key-value database whose keys and values are all empty
\* (kvdb.hpp:287): nobody is told that they are gone.
FreedFlushed ==
  /\ \A d \in pending : status[d] = "live" \/ d \in failed \/ d \in KvDbs \ sized
  /\ binding = "js" /\ phase = "ended" => Live = {} /\ pending \subseteq KvDbs \ sized

\* The end of an environment comes to an end, and nothing is left; or a flush in
\* it has thrown and ended the process.
TeardownEnds == phase = "hooks" ~> phase \in {"ended", "died"}

=============================================================================
