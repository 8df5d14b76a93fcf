---------------------------- MODULE VectorIndex ----------------------------
(***************************************************************************)
(* How several processes share one Chroma store (app/vector_store.py).     *)
(*                                                                         *)
(* Every process caches a client and a collection handle, and Chroma keeps *)
(* an in-memory index behind the client that another process's writes never*)
(* reach. Two counters in SQLite tell a process that its cache is old:     *)
(* generation (the collection object was replaced) and write_seq (records  *)
(* were written). collection() compares both with the values the handle was*)
(* built at, and reopens the client when either moved.                     *)
(*                                                                         *)
(* The threads of a process share its handle, and a thread that already    *)
(* holds the collection object goes on using it, and the index behind it,  *)
(* after another thread has reopened the client.                           *)
(***************************************************************************)
EXTENDS Naturals, FiniteSets

CONSTANTS
  Procs,        \* processes: web servers and workers
  Threads,      \* their threads
  ProcOf,       \* the process of each thread
  Records,      \* vector ids
  TasksOf,      \* what the threads of each process are asked to do
  MaxTasks,     \* bound: tasks that write, in a behaviour
  MaxCrashes    \* bound: process deaths in a behaviour

Tasks == {"query", "upsert", "delete", "clear", "sync", "reset"}

ASSUME ThreadAssumption == /\ ProcOf \in [Threads -> Procs]
                           /\ TasksOf \in [Procs -> SUBSET Tasks]
ASSUME BoundAssumption  == MaxTasks \in Nat /\ MaxCrashes \in Nat

VARIABLES
  coll,         \* Chroma: the collection's identity, 0 while it does not exist
  created,      \* Chroma: identities given out so far
  records,      \* Chroma: the ids the collection holds
  generation,   \* vector_index_state.generation
  write_seq,    \* vector_index_state.write_seq
  handle,       \* each process: _collection and the counters it was built at
  view,         \* each process: the ids its in-memory index knows
  thread,       \* what each thread is doing
  lost,         \* history: what died with its process before it was counted
  tasks,        \* writing tasks so far
  crashes       \* deaths so far

chroma   == <<coll, created, records>>
counters == <<generation, write_seq>>
cached   == <<handle, view>>
ghosts   == <<lost, tasks, crashes>>
vars     == <<chroma, counters, cached, thread, ghosts>>

-----------------------------------------------------------------------------
Handle   == [has : BOOLEAN, coll : Nat, generation : Nat, write_seq : Nat]
NoHandle == [has |-> FALSE, coll |-> 0, generation |-> 0, write_seq |-> 0]

\* A thread remembers the counters it read, the collection object it got and
\* whether the index behind it has been replaced since.
Thread   == [pc : {"idle", "open", "use", "remove", "bump", "mark", "replaced"},
             task : Tasks, ids : SUBSET Records,
             generation : Nat, write_seq : Nat, coll : Nat, detached : BOOLEAN]
Idle     == [pc |-> "idle", task |-> "query", ids |-> {}, generation |-> 0,
             write_seq |-> 0, coll |-> 0, detached |-> FALSE]

TypeOK ==
  /\ created \in Nat
  /\ coll \in 0 .. created
  /\ records \subseteq Records
  /\ coll = 0 => records = {}
  /\ generation \in Nat
  /\ write_seq \in Nat
  /\ handle \in [Procs -> Handle]
  /\ view \in [Procs -> SUBSET Records]
  /\ \A p \in Procs : ~handle[p].has => view[p] = {}
  /\ thread \in [Threads -> Thread]
  /\ lost \subseteq {"write", "reset"}
  /\ tasks \in 0 .. MaxTasks
  /\ crashes \in 0 .. MaxCrashes

Init ==
  /\ coll = 0
  /\ created = 0
  /\ records = {}
  /\ generation = 0
  /\ write_seq = 0
  /\ handle = [p \in Procs |-> NoHandle]
  /\ view = [p \in Procs |-> {}]
  /\ thread = [t \in Threads |-> Idle]
  /\ lost = {}
  /\ tasks = 0
  /\ crashes = 0

Current(h, g, s) == h.has /\ h.generation = g /\ h.write_seq = s

-----------------------------------------------------------------------------
(* collection()                                                            *)

\* Its first step, whoever calls it: read both counters.
Call(t, task, ids) ==
  /\ thread[t].pc = "idle"
  /\ task \in TasksOf[ProcOf[t]]
  /\ Cardinality(ids) = IF task \in {"upsert", "delete", "sync"} THEN 1 ELSE 0
  /\ IF task = "query" THEN UNCHANGED tasks
                       ELSE tasks < MaxTasks /\ tasks' = tasks + 1
  /\ thread' = [thread EXCEPT ![t] =
       [Idle EXCEPT !.pc = "open", !.task = task, !.ids = ids,
                    !.generation = generation, !.write_seq = write_seq]]
  /\ UNCHANGED <<chroma, counters, cached, lost, crashes>>

\* The cached handle was built at the same counters.
Reuse(t) ==
  LET h == handle[ProcOf[t]] IN
  /\ thread[t].pc = "open"
  /\ Current(h, thread[t].generation, thread[t].write_seq)
  /\ thread' = [thread EXCEPT ![t].pc = "use", ![t].coll = h.coll]
  /\ UNCHANGED <<chroma, counters, cached, ghosts>>

\* Seeded bug: the collection is fetched again without dropping the cached index.
RefetchedView(p) == view[p]

\* The client opened now reads the whole store. get_or_create_collection makes
\* a new, empty collection when there is none.
OpenedView(p) == IF coll = 0 THEN {} ELSE records

\* Otherwise the client is reopened; other threads of the process keep the
\* collection object, and the index behind it, that they already hold.
Reopen(t) ==
  LET p == ProcOf[t]
      c == IF coll = 0 THEN created + 1 ELSE coll IN
  /\ thread[t].pc = "open"
  /\ ~Current(handle[p], thread[t].generation, thread[t].write_seq)
  /\ coll' = c
  /\ created' = IF coll = 0 THEN created + 1 ELSE created
  /\ handle' = [handle EXCEPT ![p] = [has |-> TRUE, coll |-> c,
       generation |-> thread[t].generation, write_seq |-> thread[t].write_seq]]
  /\ view' = [view EXCEPT ![p] = OpenedView(p)]
  /\ thread' = [u \in Threads |->
       IF u = t THEN [thread[t] EXCEPT !.pc = "use", !.coll = c]
       ELSE IF ProcOf[u] = p /\ thread[u].pc \in {"use", "remove"}
            THEN [thread[u] EXCEPT !.detached = TRUE]
            ELSE thread[u]]
  /\ UNCHANGED <<records, counters, ghosts>>

-----------------------------------------------------------------------------
(* What the callers do with the collection.                                *)

\* The store, and the writer's own index unless it has been replaced.
Write(t, new) ==
  /\ records' = new
  /\ view' = IF thread[t].detached THEN view
             ELSE [view EXCEPT ![ProcOf[t]] =
                     (@ \cup (new \ records)) \ (records \ new)]

Goto(t, pc) == thread' = [thread EXCEPT ![t].pc = pc]
Return(t)   == thread' = [thread EXCEPT ![t] = Idle]

\* query: reads only. Without the ids its index lacks Chroma answers an error.
Query(t) ==
  /\ thread[t].pc = "use" /\ thread[t].task = "query"
  /\ Return(t)
  /\ UNCHANGED <<chroma, counters, cached, ghosts>>

\* upsert_chunks, and delete_source with the ids of one source.
WriteRecords(t) ==
  /\ thread[t].pc = "use" /\ thread[t].task \in {"upsert", "delete"}
  /\ thread[t].coll = coll
  /\ Write(t, IF thread[t].task = "upsert" THEN records \cup thread[t].ids
                                           ELSE records \ thread[t].ids)
  /\ Goto(t, "bump")
  /\ UNCHANGED <<coll, created, counters, handle, ghosts>>

\* clear_all_vectors and the orphans of sync_from_sqlite: the ids are listed
\* first, and deleted if there are any.
List(t) ==
  /\ thread[t].pc = "use" /\ thread[t].task \in {"clear", "sync"}
  /\ thread[t].coll = coll
  /\ LET ids == IF thread[t].task = "clear" THEN records ELSE records \cap thread[t].ids IN
       IF ids = {} THEN Return(t)
       ELSE thread' = [thread EXCEPT ![t].pc = "remove", ![t].ids = ids]
  /\ UNCHANGED <<chroma, counters, cached, ghosts>>

\* clear_all_vectors counts its delete; sync_from_sqlite does not.
RemoveListed(t) ==
  /\ thread[t].pc = "remove"
  /\ thread[t].coll = coll
  /\ Write(t, records \ thread[t].ids)
  /\ IF thread[t].task = "clear" THEN Goto(t, "bump") ELSE Return(t)
  /\ UNCHANGED <<coll, created, counters, handle, ghosts>>

\* The collection object is of a collection that was replaced: the call raises.
Refused(t) ==
  /\ thread[t].pc \in {"use", "remove"}
  /\ thread[t].task \notin {"query", "reset"}
  /\ thread[t].coll # coll
  /\ Return(t)
  /\ UNCHANGED <<chroma, counters, cached, ghosts>>

\* bump_write_seq: UPDATE ... RETURNING, then the process's own marker.
Bump(t) ==
  /\ thread[t].pc = "bump"
  /\ write_seq' = write_seq + 1
  /\ lost' = lost \ {"write"}
  /\ thread' = [thread EXCEPT ![t].pc = "mark", ![t].write_seq = write_seq + 1]
  /\ UNCHANGED <<chroma, generation, cached, tasks, crashes>>

Mark(t) ==
  /\ thread[t].pc = "mark"
  /\ handle' = IF handle[ProcOf[t]].has
               THEN [handle EXCEPT ![ProcOf[t]].write_seq = thread[t].write_seq]
               ELSE handle
  /\ Return(t)
  /\ UNCHANGED <<chroma, counters, view, ghosts>>

-----------------------------------------------------------------------------
(* reset_collection, the part of a migration that replaces the collection. *)

\* delete_collection goes by name: it drops whatever collection there is now.
DropCollection(t) ==
  /\ thread[t].pc = "use" /\ thread[t].task = "reset"
  /\ coll # 0
  /\ coll' = 0
  /\ records' = {}
  /\ handle' = [handle EXCEPT ![ProcOf[t]] = NoHandle]
  /\ view' = [view EXCEPT ![ProcOf[t]] = {}]
  /\ Goto(t, "replaced")
  /\ UNCHANGED <<created, counters, ghosts>>

\* There is none to drop: the call raises.
DropRefused(t) ==
  /\ thread[t].pc = "use" /\ thread[t].task = "reset"
  /\ coll = 0
  /\ Return(t)
  /\ UNCHANGED <<chroma, counters, cached, ghosts>>

\* Seeded bug: a reset counted like any other write.
CountAsWrite(t) ==
  /\ thread[t].pc = "replaced"
  /\ write_seq' = write_seq + 1
  /\ lost' = {}
  /\ thread' = [thread EXCEPT ![t] =
       [Idle EXCEPT !.pc = "open", !.generation = generation, !.write_seq = write_seq + 1]]
  /\ UNCHANGED <<chroma, generation, cached, tasks, crashes>>

\* The generation is bumped and collection() called once more; the rest of the
\* call is that of a query.
BumpGeneration(t) ==
  /\ thread[t].pc = "replaced"
  /\ generation' = generation + 1
  /\ lost' = {}
  /\ thread' = [thread EXCEPT ![t] =
       [Idle EXCEPT !.pc = "open", !.generation = generation + 1, !.write_seq = write_seq]]
  /\ UNCHANGED <<chroma, write_seq, cached, tasks, crashes>>

-----------------------------------------------------------------------------
\* What a thread has done to Chroma and not counted yet, by where it is.
Uncounted == [bump |-> "write", replaced |-> "reset"]

\* A process dies; what a write of its own had not counted yet stays uncounted.
Crash(p) ==
  /\ crashes < MaxCrashes
  /\ crashes' = crashes + 1
  /\ lost' = lost \cup {Uncounted[thread[t].pc] : t \in {u \in Threads :
                ProcOf[u] = p /\ thread[u].pc \in DOMAIN Uncounted}}
  /\ handle' = [handle EXCEPT ![p] = NoHandle]
  /\ view' = [view EXCEPT ![p] = {}]
  /\ thread' = [t \in Threads |-> IF ProcOf[t] = p THEN Idle ELSE thread[t]]
  /\ UNCHANGED <<chroma, counters, tasks>>

Step(t) == \/ Reuse(t) \/ Reopen(t) \/ Query(t) \/ WriteRecords(t) \/ List(t) \/ RemoveListed(t)
           \/ Refused(t) \/ Bump(t) \/ Mark(t) \/ DropCollection(t) \/ DropRefused(t)
           \/ BumpGeneration(t)

Next == \/ \E t \in Threads : \/ \E task \in Tasks, ids \in SUBSET Records : Call(t, task, ids)
                              \/ Step(t)
        \/ \E p \in Procs : Crash(p)

Spec == Init /\ [][Next]_vars

-----------------------------------------------------------------------------
(* Properties.                                                             *)

\* No write is between Chroma and its counter, now or for ever.
AllCounted == lost = {} /\ \A t \in Threads : thread[t].pc \notin DOMAIN Uncounted

Writers == {p \in Procs : TasksOf[p] \ {"query"} # {}}

Fresh(p) ==
  AllCounted /\ Current(handle[p], generation, write_seq)
    => handle[p].coll = coll /\ view[p] = records

\* A process that only searches never trusts an index that lacks a record: as
\* soon as every write is counted, a handle whose counters are current is a
\* handle on the live collection, with every record in its index.
ReadersFresh == \A p \in Procs \ Writers : Fresh(p)

\* A handle built at the current generation is on the live collection, whoever
\* replaced it and whatever handle any process had then.
GenerationNamesCollection ==
  \A p \in Procs :
    AllCounted /\ handle[p].has /\ handle[p].generation = generation => handle[p].coll = coll
=============================================================================
