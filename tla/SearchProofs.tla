---------------------------- MODULE SearchProofs ----------------------------
(***************************************************************************)
(* Proofs about what a search rests on: the index the processes share      *)
(* (VectorIndex), and the computations on documents and questions          *)
(* (Algorithms). The two parts share nothing.                              *)
(*                                                                         *)
(* The first is about the cached handle: the two counters in SQLite are    *)
(* enough for a process to know whether it, and the index behind it, are   *)
(* those of the collection there is.                                       *)
(*                                                                         *)
(* The second begins at "Induction and folds": a document's pieces, chunks *)
(* and windows, and then, from "Sorting, picking and cutting", what the    *)
(* two searches find and what an answer is made from.                      *)
(***************************************************************************)
EXTENDS VectorIndex, Algorithms, FiniteSetTheorems, SequenceTheorems, WellFoundedInduction, TLAPS

----
(* Types. *)

\* A thread that changes the store works on a task its process is given.
Tasked == \A t \in Threads :
            /\ thread[t].task \in TasksOf[ProcOf[t]] \cup {"query"}
            /\ thread[t].pc = "replaced" => thread[t].task = "reset"
            /\ thread[t].pc = "remove" => thread[t].task \in {"clear", "sync"}
            /\ thread[t].pc \in {"bump", "mark"} => thread[t].task \in {"upsert", "delete", "clear"}

\* The counters only grow: nobody has read or kept more than there is.
Behind == /\ \A p \in Procs : /\ handle[p].generation <= generation
                              /\ handle[p].write_seq <= write_seq
          /\ \A t \in Threads : /\ thread[t].generation <= generation
                                /\ thread[t].write_seq <= write_seq

\* A handle is on a collection there was, and so is what a thread has of it; the thread
\* that holds the collection there is belongs to a process with a handle.
Held == /\ \A p \in Procs : handle[p].has => handle[p].coll \in 1 .. created
        /\ \A t \in Threads : thread[t].pc \in {"use", "remove"} =>
             /\ thread[t].coll \in 1 .. created
             /\ thread[t].coll = coll => handle[ProcOf[t]].has

Shape == TypeOK /\ Tasked /\ Behind /\ Held

LEMMA IdleTyped == Idle \in Thread /\ NoHandle \in Handle
  BY DEF Idle, Thread, NoHandle, Handle, Tasks

\* One thread moves on.
LEMMA ThreadMoves ==
  ASSUME TypeOK, Tasked, NEW t \in Threads, NEW next \in Thread,
         thread' = [thread EXCEPT ![t] = next],
         /\ next.task \in TasksOf[ProcOf[t]] \cup {"query"}
         /\ next.pc = "replaced" => next.task = "reset"
         /\ next.pc = "remove" => next.task \in {"clear", "sync"}
         /\ next.pc \in {"bump", "mark"} => next.task \in {"upsert", "delete", "clear"}
  PROVE  thread' \in [Threads -> Thread] /\ Tasked'
<1>1. thread' \in [Threads -> Thread]
  BY DEF TypeOK
<1>2. Tasked'
  BY DEF TypeOK, Tasked
<1>. QED
  BY <1>1, <1>2

LEMMA ShapeInductive ==
  ASSUME Shape, [Next]_vars
  PROVE  Shape'
<1>a. /\ \A t \in Threads : thread[t] \in Thread /\ ProcOf[t] \in Procs
      /\ \A p \in Procs : handle[p] \in Handle /\ view[p] \subseteq Records
  BY ThreadAssumption DEF Shape, TypeOK
<1>1. ASSUME NEW t \in Threads, NEW task \in Tasks, NEW ids \in SUBSET Records, Call(t, task, ids)
      PROVE  Shape'
  <2>. DEFINE next == [Idle EXCEPT !.pc = "open", !.task = task, !.ids = ids,
                                    !.generation = generation, !.write_seq = write_seq]
  <2>1. /\ next \in Thread /\ next.pc = "open" /\ next.task = task
        /\ next.generation = generation /\ next.write_seq = write_seq
    BY DEF Idle, Thread, Shape, TypeOK
  <2>. HIDE DEF next
  <2>2. thread' = [thread EXCEPT ![t] = next] /\ task \in TasksOf[ProcOf[t]]
    BY <1>1 DEF Call, next
  <2>3. thread' \in [Threads -> Thread] /\ Tasked'
    BY <2>1, <2>2, ThreadMoves DEF Shape
  <2>4. TypeOK'
    BY <1>1, <2>3, BoundAssumption DEF Call, Shape, TypeOK, chroma, counters, cached
  <2>5. Behind'
    BY <1>1, <2>1, <2>2 DEF Call, Shape, TypeOK, Behind, counters, cached
  <2>6. Held'
    BY <1>1, <2>1, <2>2 DEF Call, Shape, TypeOK, Held, chroma, cached
  <2>. QED
    BY <2>3, <2>4, <2>5, <2>6 DEF Shape
<1>2. ASSUME NEW t \in Threads, NEW next \in Thread, thread' = [thread EXCEPT ![t] = next],
             next.task = thread[t].task, next.generation = thread[t].generation,
             next.write_seq = thread[t].write_seq,
             next.pc = "replaced" => next.task = "reset",
             next.pc = "remove" => next.task \in {"clear", "sync"},
             next.pc \in {"bump", "mark"} => next.task \in {"upsert", "delete", "clear"}
      PROVE  /\ thread' \in [Threads -> Thread] /\ Tasked'
             /\ \A u \in Threads : /\ thread'[u].generation <= generation
                                   /\ thread'[u].write_seq <= write_seq
  <2>1. thread' \in [Threads -> Thread] /\ Tasked'
    BY <1>2, ThreadMoves DEF Shape, Tasked
  <2>. QED
    BY <1>2, <2>1 DEF Shape, TypeOK, Behind
<1>3. ASSUME NEW t \in Threads, thread' = [thread EXCEPT ![t] = Idle]
      PROVE  /\ thread' \in [Threads -> Thread] /\ Tasked'
             /\ \A u \in Threads : /\ thread'[u].generation <= generation
                                   /\ thread'[u].write_seq <= write_seq
  <2>1. thread' \in [Threads -> Thread] /\ Tasked'
    BY <1>3, ThreadMoves, IdleTyped DEF Idle, Shape
  <2>2. Idle.generation = 0 /\ Idle.write_seq = 0
    BY DEF Idle
  <2>. QED
    BY <1>3, <2>1, <2>2 DEF Shape, TypeOK, Behind
<1>4. ASSUME NEW t \in Threads, NEW pc \in {"use", "bump", "remove", "mark", "replaced"}, Goto(t, pc),
             pc = "replaced" => thread[t].task = "reset",
             pc = "remove" => thread[t].task \in {"clear", "sync"},
             pc \in {"bump", "mark"} => thread[t].task \in {"upsert", "delete", "clear"}
      PROVE  /\ thread' \in [Threads -> Thread] /\ Tasked'
             /\ \A u \in Threads : /\ thread'[u].generation <= generation
                                   /\ thread'[u].write_seq <= write_seq
  <2>. DEFINE next == [thread[t] EXCEPT !.pc = pc]
  <2>1. thread' = [thread EXCEPT ![t] = next]
    BY <1>4 DEF Goto
  <2>2. /\ next \in Thread /\ next.pc = pc /\ next.task = thread[t].task
        /\ next.generation = thread[t].generation /\ next.write_seq = thread[t].write_seq
    BY <1>a DEF Thread
  <2>. HIDE DEF next
  <2>. QED
    BY <1>2, <1>4, <2>1, <2>2
\* Steps that leave the store, the counters and the handles alone.
<1>5. ASSUME UNCHANGED <<chroma, counters, cached, ghosts>>,
             thread' \in [Threads -> Thread], Tasked',
             \A u \in Threads : /\ thread'[u].generation <= generation
                                /\ thread'[u].write_seq <= write_seq,
             NEW t \in Threads, \A u \in Threads \ {t} : thread'[u] = thread[u],
             thread'[t].pc \in {"use", "remove"} =>
                /\ thread'[t].coll \in 1 .. created
                /\ thread'[t].coll = coll => handle[ProcOf[t]].has
      PROVE  Shape'
  BY <1>5 DEF Shape, TypeOK, Behind, Held, chroma, counters, cached, ghosts
\* Steps that write records.
<1>6. ASSUME NEW t \in Threads, NEW new \in SUBSET Records, Write(t, new),
             thread[t].pc \in {"use", "remove"}, thread[t].coll = coll,
             UNCHANGED <<coll, created, counters, handle, ghosts>>,
             thread' \in [Threads -> Thread], Tasked',
             \A u \in Threads : /\ thread'[u].generation <= generation
                                /\ thread'[u].write_seq <= write_seq,
             \A u \in Threads \ {t} : thread'[u] = thread[u],
             thread'[t].pc \in {"idle", "bump"}
      PROVE  Shape'
  <2>1. handle[ProcOf[t]].has /\ coll # 0
    BY <1>6 DEF Shape, Held
  <2>2. /\ view' \in [Procs -> SUBSET Records] /\ records' \subseteq Records
        /\ \A p \in Procs : ~handle[p].has => view'[p] = {}
    BY <1>6, <1>a, <2>1 DEF Write, Shape, TypeOK
  <2>3. TypeOK'
    BY <1>6, <2>1, <2>2 DEF Shape, TypeOK, counters, ghosts
  <2>4. Behind' /\ Held'
    BY <1>6 DEF Shape, Behind, Held, counters
  <2>. QED
    BY <1>6, <2>3, <2>4 DEF Shape
<1>7. ASSUME NEW t \in Threads, Reuse(t) PROVE Shape'
  <2>. DEFINE h == handle[ProcOf[t]]
  <2>1. PICK c \in Nat : c = h.coll /\ h.has /\ c \in 1 .. created
    BY <1>7, <1>a DEF Reuse, Current, Shape, Held, Handle
  <2>. DEFINE next == [thread[t] EXCEPT !.pc = "use", !.coll = c]
  <2>2. thread' = [thread EXCEPT ![t] = next]
    BY <1>7, <2>1 DEF Reuse
  <2>3. /\ next \in Thread /\ next.pc = "use" /\ next.task = thread[t].task
        /\ next.generation = thread[t].generation /\ next.write_seq = thread[t].write_seq
        /\ next.coll = c
    BY <1>a DEF Thread
  <2>. HIDE DEF next
  <2>4. /\ thread' \in [Threads -> Thread] /\ Tasked'
        /\ \A u \in Threads : /\ thread'[u].generation <= generation
                              /\ thread'[u].write_seq <= write_seq
    BY <1>2, <2>2, <2>3
  <2>5. thread'[t] = next /\ \A u \in Threads \ {t} : thread'[u] = thread[u]
    BY <2>2 DEF Shape, TypeOK
  <2>. QED
    BY <1>5, <1>7, <2>1, <2>3, <2>4, <2>5 DEF Reuse
<1>8. ASSUME NEW t \in Threads, Reopen(t) PROVE Shape'
  <2>. DEFINE p == ProcOf[t]
  <2>1. PICK c \in Nat :
          /\ c = IF coll = 0 THEN created + 1 ELSE coll
          /\ c \in 1 .. created + 1
          /\ coll' = c
    <3>1. coll \in 0 .. created /\ created \in Nat
      BY DEF Shape, TypeOK
    <3>2. coll' = IF coll = 0 THEN created + 1 ELSE coll
      BY <1>8 DEF Reopen
    <3>. QED
      BY <3>1, <3>2
  <2>2. /\ created' \in Nat /\ c \in 1 .. created' /\ created <= created'
        /\ c = coll \/ c = created + 1
        /\ UNCHANGED <<records, counters, ghosts>>
    BY <1>8, <2>1 DEF Reopen, Shape, TypeOK
  <2>. DEFINE next == [thread[t] EXCEPT !.pc = "use", !.coll = c]
  <2>3. thread' = [u \in Threads |->
          IF u = t THEN next
          ELSE IF ProcOf[u] = p /\ thread[u].pc \in {"use", "remove"}
               THEN [thread[u] EXCEPT !.detached = TRUE] ELSE thread[u]]
    BY <1>8, <2>1 DEF Reopen
  <2>4. /\ next \in Thread /\ next.pc = "use" /\ next.task = thread[t].task
        /\ next.generation = thread[t].generation /\ next.write_seq = thread[t].write_seq
        /\ next.coll = c
    BY <1>a DEF Thread
  <2>. HIDE DEF next
  <2>5. ASSUME NEW u \in Threads, u # t
        PROVE  /\ thread'[u] \in Thread /\ thread'[u].pc = thread[u].pc
               /\ thread'[u].task = thread[u].task /\ thread'[u].coll = thread[u].coll
               /\ thread'[u].generation = thread[u].generation
               /\ thread'[u].write_seq = thread[u].write_seq
    <3>1. thread'[u] \in {thread[u], [thread[u] EXCEPT !.detached = TRUE]}
      BY <2>3, <2>5
    <3>. QED
      BY <1>a, <3>1 DEF Thread
  <2>6. thread'[t] = next
    BY <2>3
  <2>7. thread' \in [Threads -> Thread]
    BY <2>3, <2>4, <2>5, <2>6
  <2>8. /\ handle' = [handle EXCEPT ![p] = [has |-> TRUE, coll |-> c,
              generation |-> thread[t].generation, write_seq |-> thread[t].write_seq]]
        /\ view' = [view EXCEPT ![p] = IF coll = 0 THEN {} ELSE records]
    BY <1>8, <2>1 DEF Reopen, OpenedView
  <2>9. handle' \in [Procs -> Handle] /\ view' \in [Procs -> SUBSET Records]
    BY <1>a, <2>2, <2>8 DEF Handle, Thread, Shape, TypeOK
  <2>10. TypeOK'
    BY <1>a, <2>1, <2>2, <2>7, <2>8, <2>9 DEF Shape, TypeOK, counters, ghosts
  <2>11. Tasked'
    BY <2>4, <2>5, <2>6 DEF Shape, Tasked
  <2>12. Behind'
    BY <1>a, <2>2, <2>4, <2>5, <2>6, <2>8 DEF Shape, TypeOK, Behind, counters
  <2>13. Held'
    <3>1. \A q \in Procs : handle'[q].has => handle'[q].coll \in 1 .. created'
      BY <1>a, <2>2, <2>8 DEF Shape, TypeOK, Held
    <3>2. ASSUME NEW u \in Threads, thread'[u].pc \in {"use", "remove"}
          PROVE  /\ thread'[u].coll \in 1 .. created'
                 /\ thread'[u].coll = coll' => handle'[ProcOf[u]].has
      <4>1. CASE u = t
        BY <1>a, <2>2, <2>4, <2>6, <2>8, <4>1 DEF Shape, TypeOK
      <4>2. CASE u # t
        <5>1. /\ thread'[u].coll \in 1 .. created
              /\ thread'[u].coll = coll => handle[ProcOf[u]].has
          BY <2>5, <3>2, <4>2 DEF Shape, Held
        <5>2. thread'[u].coll = coll' => thread'[u].coll = coll
          BY <2>1, <2>2, <5>1 DEF Shape, TypeOK
        <5>3. handle[ProcOf[u]].has => handle'[ProcOf[u]].has
          BY <1>a, <2>8 DEF Shape, TypeOK
        <5>. QED
          BY <2>2, <5>1, <5>2, <5>3 DEF Shape, TypeOK
      <4>. QED
        BY <4>1, <4>2
    <3>. QED
      BY <3>1, <3>2 DEF Held
  <2>. QED
    BY <2>10, <2>11, <2>12, <2>13 DEF Shape
<1>9. ASSUME NEW t \in Threads, thread' = [thread EXCEPT ![t] = Idle],
             UNCHANGED <<chroma, counters, cached, ghosts>>
      PROVE  Shape'
  <2>1. thread'[t].pc = "idle" /\ \A u \in Threads \ {t} : thread'[u] = thread[u]
    BY <1>9 DEF Idle, Shape, TypeOK
  <2>. QED
    BY <1>3, <1>5, <1>9, <2>1
<1>10. ASSUME NEW t \in Threads, Query(t) \/ Refused(t) \/ DropRefused(t) PROVE Shape'
  BY <1>9, <1>10 DEF Query, Refused, DropRefused, Return
<1>11. ASSUME NEW t \in Threads, WriteRecords(t) PROVE Shape'
  <2>1. PICK new \in SUBSET Records : Write(t, new)
    BY <1>11, <1>a DEF WriteRecords, Shape, TypeOK, Thread
  <2>2. /\ thread' \in [Threads -> Thread] /\ Tasked'
        /\ \A u \in Threads : /\ thread'[u].generation <= generation
                              /\ thread'[u].write_seq <= write_seq
    BY <1>4, <1>11 DEF WriteRecords
  <2>3. thread'[t].pc = "bump" /\ \A u \in Threads \ {t} : thread'[u] = thread[u]
    BY <1>11, <1>a DEF WriteRecords, Goto, Shape, TypeOK, Thread
  <2>. QED
    BY <1>6, <1>11, <2>1, <2>2, <2>3 DEF WriteRecords
<1>12. ASSUME NEW t \in Threads, List(t) PROVE Shape'
  <2>1. CASE Return(t)
    BY <1>9, <1>12, <2>1 DEF List, Return
  <2>2. CASE ~Return(t)
    <3>1. PICK ids \in SUBSET Records : thread' = [thread EXCEPT ![t].pc = "remove", ![t].ids = ids]
      BY <1>12, <2>2 DEF List, Shape, TypeOK
    <3>. DEFINE next == [thread[t] EXCEPT !.pc = "remove", !.ids = ids]
    <3>2. thread' = [thread EXCEPT ![t] = next]
      BY <3>1
    <3>3. /\ next \in Thread /\ next.pc = "remove" /\ next.task = thread[t].task
          /\ next.generation = thread[t].generation /\ next.write_seq = thread[t].write_seq
          /\ next.coll = thread[t].coll
      BY <1>a DEF Thread
    <3>. HIDE DEF next
    <3>4. /\ thread' \in [Threads -> Thread] /\ Tasked'
          /\ \A u \in Threads : /\ thread'[u].generation <= generation
                                /\ thread'[u].write_seq <= write_seq
      BY <1>2, <1>12, <3>2, <3>3 DEF List
    <3>5. thread'[t] = next /\ \A u \in Threads \ {t} : thread'[u] = thread[u]
      BY <3>2 DEF Shape, TypeOK
    <3>6. /\ thread[t].coll \in 1 .. created
          /\ thread[t].coll = coll => handle[ProcOf[t]].has
      BY <1>12 DEF List, Shape, Held
    <3>. QED
      BY <1>5, <1>12, <3>3, <3>4, <3>5, <3>6 DEF List
  <2>. QED
    BY <2>1, <2>2
<1>13. ASSUME NEW t \in Threads, RemoveListed(t) PROVE Shape'
  <2>1. PICK new \in SUBSET Records : Write(t, new)
    BY <1>13 DEF RemoveListed, Shape, TypeOK
  <2>2. /\ thread' \in [Threads -> Thread] /\ Tasked'
        /\ \A u \in Threads : /\ thread'[u].generation <= generation
                              /\ thread'[u].write_seq <= write_seq
    BY <1>3, <1>4, <1>13 DEF RemoveListed, Return
  <2>3. thread'[t].pc \in {"idle", "bump"} /\ \A u \in Threads \ {t} : thread'[u] = thread[u]
    BY <1>13, <1>a DEF RemoveListed, Goto, Return, Idle, Shape, TypeOK, Thread
  <2>. QED
    BY <1>6, <1>13, <2>1, <2>2, <2>3 DEF RemoveListed
<1>14. ASSUME NEW t \in Threads, Bump(t) PROVE Shape'
  <2>1. PICK n \in Nat : n = write_seq + 1
    BY DEF Shape, TypeOK
  <2>. DEFINE next == [thread[t] EXCEPT !.pc = "mark", !.write_seq = n]
  <2>2. /\ thread' = [thread EXCEPT ![t] = next] /\ write_seq' = n /\ lost' = lost \ {"write"}
        /\ thread[t].pc = "bump"
        /\ UNCHANGED <<chroma, generation, cached, tasks, crashes>>
    BY <1>14, <2>1 DEF Bump
  <2>3. /\ next \in Thread /\ next.pc = "mark" /\ next.task = thread[t].task
        /\ next.generation = thread[t].generation /\ next.write_seq = n
    BY <1>a DEF Thread
  <2>. HIDE DEF next
  <2>4. thread' \in [Threads -> Thread] /\ Tasked'
    BY <2>2, <2>3, ThreadMoves DEF Shape, Tasked
  <2>5. TypeOK'
    BY <2>2, <2>4 DEF Shape, TypeOK, chroma, cached
  <2>6. Behind'
    BY <1>a, <2>1, <2>2, <2>3 DEF Shape, TypeOK, Behind, Handle, Thread, cached
  <2>7. Held'
    BY <2>2, <2>3 DEF Shape, TypeOK, Held, chroma, cached
  <2>. QED
    BY <2>4, <2>5, <2>6, <2>7 DEF Shape
<1>15. ASSUME NEW t \in Threads, Mark(t) PROVE Shape'
  <2>1. /\ thread' \in [Threads -> Thread] /\ Tasked'
        /\ \A u \in Threads : /\ thread'[u].generation <= generation
                              /\ thread'[u].write_seq <= write_seq
    BY <1>3, <1>15 DEF Mark, Return
  <2>2. /\ \A u \in Threads \ {t} : thread'[u] = thread[u]
        /\ thread'[t].pc = "idle"
    BY <1>15 DEF Mark, Return, Idle, Shape, TypeOK
  <2>3. PICK n \in Nat : n = thread[t].write_seq /\ n <= write_seq
    BY <1>a DEF Thread, Shape, Behind
  <2>4. /\ handle' = handle \/ handle' = [handle EXCEPT ![ProcOf[t]] = [handle[ProcOf[t]] EXCEPT !.write_seq = n]]
        /\ UNCHANGED <<chroma, counters, view, ghosts>>
    BY <1>15, <2>3 DEF Mark
  <2>5. \A p \in Procs : /\ handle'[p] \in Handle /\ handle'[p].has = handle[p].has
                         /\ handle'[p].coll = handle[p].coll
                         /\ handle'[p].generation = handle[p].generation
                         /\ handle'[p].write_seq <= write_seq
    <3> SUFFICES ASSUME NEW p \in Procs
                 PROVE  /\ handle'[p] \in Handle /\ handle'[p].has = handle[p].has
                        /\ handle'[p].coll = handle[p].coll
                        /\ handle'[p].generation = handle[p].generation
                        /\ handle'[p].write_seq <= write_seq
      OBVIOUS
    <3>1. handle'[p] = handle[p] \/ handle'[p] = [handle[p] EXCEPT !.write_seq = n]
      BY <2>4 DEF Shape, TypeOK
    <3>. QED
      BY <1>a, <2>3, <3>1 DEF Handle, Shape, Behind
  <2>6. handle' \in [Procs -> Handle]
    BY <2>4, <2>5 DEF Shape, TypeOK
  <2>7. TypeOK'
    BY <2>1, <2>4, <2>5, <2>6 DEF Shape, TypeOK, chroma, counters, ghosts
  <2>8. Behind' /\ Held'
    BY <2>1, <2>2, <2>4, <2>5, ThreadAssumption DEF Shape, Behind, Held, chroma, counters
  <2>. QED
    BY <2>1, <2>7, <2>8 DEF Shape
<1>16. ASSUME NEW t \in Threads, DropCollection(t) PROVE Shape'
  <2>1. /\ thread' \in [Threads -> Thread] /\ Tasked'
        /\ \A u \in Threads : /\ thread'[u].generation <= generation
                              /\ thread'[u].write_seq <= write_seq
    BY <1>4, <1>16 DEF DropCollection
  <2>2. thread'[t].pc = "replaced" /\ \A u \in Threads \ {t} : thread'[u] = thread[u]
    BY <1>16, <1>a DEF DropCollection, Goto, Shape, TypeOK, Thread
  <2>3. /\ coll' = 0 /\ records' = {} /\ UNCHANGED <<created, counters, ghosts>>
        /\ handle' = [handle EXCEPT ![ProcOf[t]] = NoHandle]
        /\ view' = [view EXCEPT ![ProcOf[t]] = {}]
    BY <1>16 DEF DropCollection
  <2>4. NoHandle.has = FALSE /\ NoHandle.generation = 0 /\ NoHandle.write_seq = 0
    BY DEF NoHandle
  <2>5. TypeOK'
    <3>1. handle' \in [Procs -> Handle]
      BY <2>3, IdleTyped DEF Shape, TypeOK
    <3>2. /\ view' \in [Procs -> SUBSET Records]
          /\ \A p \in Procs : ~handle'[p].has => view'[p] = {}
      BY <2>3 DEF Shape, TypeOK
    <3>. QED
      BY <2>1, <2>3, <3>1, <3>2 DEF Shape, TypeOK, counters, ghosts
  <2>6. Behind'
    BY <2>1, <2>3, <2>4 DEF Shape, TypeOK, Behind, counters
  <2>7. Held'
    BY <2>2, <2>3, <2>4 DEF Shape, TypeOK, Held
  <2>. QED
    BY <2>1, <2>5, <2>6, <2>7 DEF Shape
<1>17. ASSUME NEW t \in Threads, BumpGeneration(t) PROVE Shape'
  <2>1. PICK n \in Nat : n = generation + 1
    BY DEF Shape, TypeOK
  <2>. DEFINE next == [Idle EXCEPT !.pc = "open", !.generation = n, !.write_seq = write_seq]
  <2>2. /\ thread' = [thread EXCEPT ![t] = next] /\ generation' = n /\ lost' = {}
        /\ UNCHANGED <<chroma, write_seq, cached, tasks, crashes>>
    BY <1>17, <2>1 DEF BumpGeneration
  <2>3. /\ next \in Thread /\ next.pc = "open" /\ next.task = "query"
        /\ next.generation = n /\ next.write_seq = write_seq
    BY IdleTyped DEF Idle, Thread, Shape, TypeOK
  <2>. HIDE DEF next
  <2>4. thread' \in [Threads -> Thread] /\ Tasked'
    BY <2>2, <2>3, ThreadMoves DEF Shape
  <2>5. TypeOK'
    BY <2>2, <2>4 DEF Shape, TypeOK, chroma, cached
  <2>6. Behind'
    BY <1>a, <2>1, <2>2, <2>3 DEF Shape, TypeOK, Behind, Handle, Thread, cached
  <2>7. Held'
    BY <2>2, <2>3 DEF Shape, TypeOK, Held, chroma, cached
  <2>. QED
    BY <2>4, <2>5, <2>6, <2>7 DEF Shape
<1>18. ASSUME NEW p \in Procs, Crash(p) PROVE Shape'
  <2>1. /\ \A t \in Threads : thread'[t] = IF ProcOf[t] = p THEN Idle ELSE thread[t]
        /\ handle' = [handle EXCEPT ![p] = NoHandle] /\ view' = [view EXCEPT ![p] = {}]
        /\ crashes < MaxCrashes /\ crashes' = crashes + 1
        /\ UNCHANGED <<chroma, counters, tasks>>
    BY <1>18 DEF Crash
  <2>2. thread' \in [Threads -> Thread]
    BY <1>18, <1>a, IdleTyped DEF Crash
  <2>3. lost' \subseteq {"write", "reset"}
    <3>1. lost' = lost \cup {Uncounted[thread[t].pc] : t \in {u \in Threads :
                ProcOf[u] = p /\ thread[u].pc \in DOMAIN Uncounted}}
      BY <1>18 DEF Crash
    <3>2. \A pc \in DOMAIN Uncounted : Uncounted[pc] \in {"write", "reset"}
      BY DEF Uncounted
    <3>. QED
      BY <3>1, <3>2 DEF Shape, TypeOK
  <2>4. /\ NoHandle.has = FALSE /\ NoHandle.generation = 0 /\ NoHandle.write_seq = 0
        /\ Idle.generation = 0 /\ Idle.write_seq = 0 /\ Idle.pc = "idle" /\ Idle.task = "query"
    BY DEF NoHandle, Idle
  <2>5. TypeOK'
    BY <2>1, <2>2, <2>3, <2>4, IdleTyped, BoundAssumption DEF Shape, TypeOK, chroma, counters
  <2>6. Tasked'
    BY <2>1, <2>4 DEF Shape, Tasked
  <2>7. Behind'
    BY <2>1, <2>4 DEF Shape, TypeOK, Behind, counters
  <2>8. Held'
    BY <2>1, <2>4 DEF Shape, TypeOK, Held, chroma
  <2>. QED
    BY <2>5, <2>6, <2>7, <2>8 DEF Shape
<1>19. ASSUME UNCHANGED vars PROVE Shape'
  BY <1>19 DEF vars, Shape, TypeOK, Tasked, Behind, Held, chroma, counters, cached, ghosts
<1>. QED
  BY <1>1, <1>7, <1>8, <1>10, <1>11, <1>12, <1>13, <1>14, <1>15, <1>16, <1>17, <1>18, <1>19
     DEF Next, Step

LEMMA ShapeHolds == Spec => []Shape
<1>1. Init => Shape
  <2> SUFFICES ASSUME Init PROVE Shape
    OBVIOUS
  <2>1. /\ Idle.pc = "idle" /\ Idle.task = "query" /\ Idle.generation = 0 /\ Idle.write_seq = 0
        /\ NoHandle.has = FALSE /\ NoHandle.generation = 0 /\ NoHandle.write_seq = 0
    BY DEF Idle, NoHandle
  <2>2. TypeOK
    BY <2>1, IdleTyped, BoundAssumption DEF Init, TypeOK
  <2>3. Tasked /\ Behind /\ Held
    BY <2>1 DEF Init, Tasked, Behind, Held
  <2>. QED
    BY <2>2, <2>3 DEF Shape
<1>. QED
  BY <1>1, ShapeInductive, PTL DEF Spec

----
(* The counters name the collection. *)

\* No replacement of the collection is between Chroma and its counter. A reset that
\* died is not counted until the next one, whatever other writes are.
ResetsCounted == "reset" \notin lost /\ \A t \in Threads : thread[t].pc # "replaced"

Named == \A p \in Procs :
  ResetsCounted /\ handle[p].has /\ handle[p].generation = generation => handle[p].coll = coll

LEMMA UncountedIs == /\ DOMAIN Uncounted = {"bump", "replaced"}
                     /\ Uncounted["bump"] = "write" /\ Uncounted["replaced"] = "reset"
  BY DEF Uncounted

\* Only the counting of a write, or of a reset, takes what is not counted away.
LEMMA StaysUncounted ==
  ASSUME Shape, [Next]_vars
  PROVE  /\ (\E t \in Threads : BumpGeneration(t)) \/ (ResetsCounted' => ResetsCounted)
         /\ \/ \E t \in Threads : Bump(t) \/ BumpGeneration(t)
            \/ AllCounted' => AllCounted
<1>. DEFINE Still == (ResetsCounted' => ResetsCounted) /\ (AllCounted' => AllCounted)
<1>a. thread \in [Threads -> Thread] /\ \A t \in Threads : thread[t] \in Thread
  BY DEF Shape, TypeOK
<1>1. ASSUME NEW t \in Threads, thread[t].pc \notin {"bump", "replaced"},
             \A u \in Threads \ {t} : thread'[u].pc = thread[u].pc, lost' = lost
      PROVE  Still
  BY <1>1, UncountedIs DEF ResetsCounted, AllCounted
<1>2. ASSUME NEW t \in Threads, Step(t), ~Bump(t), ~BumpGeneration(t) PROVE Still
  <2>1. thread[t].pc \notin {"bump", "replaced"} /\ lost' = lost
    BY <1>2 DEF Step, Reuse, Reopen, Query, WriteRecords, List, RemoveListed, Refused, Mark,
       DropCollection, DropRefused, ghosts
  <2>2. CASE Reopen(t)
    <3>1. \A u \in Threads \ {t} : thread'[u] \in {thread[u], [thread[u] EXCEPT !.detached = TRUE]}
      BY <2>2 DEF Reopen
    <3>2. \A u \in Threads \ {t} : thread'[u].pc = thread[u].pc
      BY <1>a, <3>1 DEF Thread
    <3>. QED
      BY <1>1, <2>1, <3>2
  <2>3. CASE ~Reopen(t)
    <3>1. \A u \in Threads \ {t} : thread'[u] = thread[u]
      BY <1>a, <1>2, <2>3 DEF Step, Reuse, Query, WriteRecords, List, RemoveListed, Refused, Mark,
         DropCollection, DropRefused, Goto, Return
    <3>. QED
      BY <1>1, <2>1, <3>1
  <2>. QED
    BY <2>2, <2>3
<1>3. ASSUME NEW t \in Threads, NEW task, NEW ids, Call(t, task, ids) PROVE Still
  <2>1. thread[t].pc = "idle" /\ lost' = lost /\ \A u \in Threads \ {t} : thread'[u] = thread[u]
    BY <1>3, <1>a DEF Call
  <2>. QED
    BY <1>1, <2>1
<1>4. ASSUME NEW t \in Threads, Bump(t) PROVE ResetsCounted' => ResetsCounted
  <2>1. /\ thread[t].pc = "bump" /\ lost' = lost \ {"write"}
        /\ \A u \in Threads \ {t} : thread'[u] = thread[u]
    BY <1>4, <1>a DEF Bump
  <2>. QED
    BY <2>1 DEF ResetsCounted
<1>5. ASSUME NEW p \in Procs, Crash(p) PROVE Still
  <2>1. /\ lost' = lost \cup {Uncounted[thread[t].pc] : t \in {u \in Threads :
                ProcOf[u] = p /\ thread[u].pc \in DOMAIN Uncounted}}
        /\ \A t \in Threads : ProcOf[t] # p => thread'[t] = thread[t]
    BY <1>5 DEF Crash
  <2>2. \A t \in Threads : ProcOf[t] = p /\ thread[t].pc \in {"bump", "replaced"}
                            => Uncounted[thread[t].pc] \in lost'
    BY <2>1, UncountedIs
  <2>3. lost \subseteq lost'
    BY <2>1
  <2>. QED
    BY <2>1, <2>2, <2>3, UncountedIs DEF ResetsCounted, AllCounted
<1>6. ASSUME UNCHANGED vars PROVE Still
  BY <1>6 DEF vars, ghosts, ResetsCounted, AllCounted
<1>. QED
  BY <1>2, <1>3, <1>4, <1>5, <1>6 DEF Next

\* What a step does to the handle of a process and to the collection.
LEMMA HandleSteps ==
  ASSUME Shape, [Next]_vars, NEW p \in Procs, handle'[p].has
  PROVE  \/ /\ handle[p].has /\ handle'[p].coll = handle[p].coll
            /\ handle'[p].generation = handle[p].generation
            /\ coll' = coll \/ coll = 0 \/ ~ResetsCounted'
         \/ /\ handle'[p].coll = coll' /\ generation' = generation
            /\ coll' # 0
<1>a. /\ handle \in [Procs -> Handle] /\ handle[p] \in Handle
      /\ thread \in [Threads -> Thread]
      /\ \A t \in Threads : thread[t] \in Thread /\ ProcOf[t] \in Procs
  BY ThreadAssumption DEF Shape, TypeOK
<1>1. ASSUME handle' = handle, coll' = coll
      PROVE  /\ handle[p].has /\ handle'[p].coll = handle[p].coll
             /\ handle'[p].generation = handle[p].generation /\ coll' = coll
  BY <1>1
<1>2. ASSUME NEW t \in Threads, Reopen(t)
      PROVE  \/ handle'[p] = handle[p] /\ (coll' = coll \/ coll = 0)
             \/ handle'[p].coll = coll' /\ generation' = generation /\ coll' # 0
  BY <1>2, <1>a DEF Reopen, Shape, TypeOK, counters
<1>3. ASSUME NEW t \in Threads, Mark(t)
      PROVE  /\ handle[p].has /\ handle'[p].coll = handle[p].coll
             /\ handle'[p].generation = handle[p].generation /\ coll' = coll
  <2>. DEFINE n == thread[t].write_seq
  <2>1. /\ coll' = coll
        /\ handle'[p] = handle[p] \/ handle'[p] = [handle[p] EXCEPT !.write_seq = n]
    BY <1>3, <1>a DEF Mark, chroma
  <2>. HIDE DEF n
  <2>. QED
    BY <1>a, <2>1 DEF Handle
<1>4. ASSUME NEW t \in Threads, DropCollection(t)
      PROVE  handle'[p] = handle[p] /\ ~ResetsCounted'
  <2>1. thread'[t].pc = "replaced"
    BY <1>4, <1>a DEF DropCollection, Goto, Thread
  <2>2. handle' = [handle EXCEPT ![ProcOf[t]] = NoHandle] /\ ~NoHandle.has
    BY <1>4 DEF DropCollection, NoHandle
  <2>. QED
    BY <1>a, <2>1, <2>2 DEF ResetsCounted
<1>5. ASSUME NEW q \in Procs, Crash(q)
      PROVE  handle'[p] = handle[p] /\ coll' = coll
  BY <1>5, <1>a DEF Crash, NoHandle, chroma
<1>6. ASSUME NEW t \in Threads, Step(t), ~Reopen(t), ~Mark(t), ~DropCollection(t)
      PROVE  handle' = handle /\ coll' = coll
  BY <1>6 DEF Step, Reuse, Query, WriteRecords, List, RemoveListed, Refused, Bump, DropRefused,
     BumpGeneration, chroma, cached
<1>7. ASSUME NEW t, NEW task, NEW ids, Call(t, task, ids) PROVE handle' = handle /\ coll' = coll
  BY <1>7 DEF Call, chroma, cached
<1>8. ASSUME UNCHANGED vars PROVE handle' = handle /\ coll' = coll
  BY <1>8 DEF vars, chroma, cached
<1>. QED
  BY <1>1, <1>2, <1>3, <1>4, <1>5, <1>6, <1>7, <1>8 DEF Next

LEMMA GenerationStays ==
  ASSUME [Next]_vars, ~\E t \in Threads : BumpGeneration(t)
  PROVE  generation' = generation
  BY DEF Next, Step, Call, Reuse, Reopen, Query, WriteRecords, List, RemoveListed, Refused, Bump, Mark,
     DropCollection, DropRefused, Crash, vars, counters

LEMMA NamedInductive ==
  ASSUME Shape, Named, [Next]_vars
  PROVE  Named'
<1> SUFFICES ASSUME NEW p \in Procs, ResetsCounted', handle'[p].has,
                    handle'[p].generation = generation'
             PROVE  handle'[p].coll = coll'
  BY DEF Named
<1>1. CASE handle'[p].coll = coll'
  BY <1>1
<1>2. CASE /\ handle[p].has /\ handle'[p].coll = handle[p].coll
           /\ handle'[p].generation = handle[p].generation
           /\ coll' = coll \/ coll = 0
  <2>1. handle[p].generation <= generation /\ handle[p].coll # 0
    BY <1>2 DEF Shape, Behind, Held
  <2>2. CASE \E t \in Threads : BumpGeneration(t)
    <3>1. generation' = generation + 1
      BY <2>2 DEF BumpGeneration
    <3>2. generation \in Nat /\ handle[p].generation \in Nat
      BY DEF Shape, TypeOK, Handle
    <3>3. handle[p].generation = generation + 1
      BY <1>2, <3>1
    <3>. QED
      BY <2>1, <3>2, <3>3
  <2>3. CASE ~\E t \in Threads : BumpGeneration(t)
    <3>1. ResetsCounted /\ generation' = generation
      BY <2>3, StaysUncounted, GenerationStays
    <3>2. handle[p].coll = coll
      BY <1>2, <3>1 DEF Named
    <3>. QED
      BY <1>2, <2>1, <3>2
  <2>. QED
    BY <2>2, <2>3
<1>. QED
  BY <1>1, <1>2, HandleSteps

\* For any processes and threads: whoever replaced the collection and whatever handle a
\* process had then, a handle of the current generation is on the collection there is.
THEOREM HandlesNamed == Spec => []GenerationNamesCollection
<1>1. Init => Named
  BY DEF Init, Named, NoHandle
<1>2. Shape /\ Named => GenerationNamesCollection
  BY UncountedIs DEF Named, GenerationNamesCollection, ResetsCounted, AllCounted
<1>. QED
  BY <1>1, <1>2, NamedInductive, ShapeHolds, PTL DEF Spec

\* Every variable keeps its type.
THEOREM TypeCorrect == Spec => []TypeOK
<1>1. Shape => TypeOK
  BY DEF Shape
<1>. QED
  BY <1>1, ShapeHolds, PTL

----
(* Readers. *)

\* Nobody runs sync_from_sqlite, which deletes the orphans it finds without counting that
\* (app/vector_store.py): a process that searches may keep them in its index.
AllCount == \A p \in Procs : "sync" \notin TasksOf[p]

LEMMA CountersMove ==
  ASSUME Shape, [Next]_vars, NEW t \in Threads, Bump(t) \/ BumpGeneration(t), NEW p \in Procs
  PROVE  ~Current(handle'[p], generation', write_seq')
<1>1. /\ handle' = handle
      /\ \/ generation' = generation + 1
         \/ write_seq' = write_seq + 1
  BY DEF Bump, BumpGeneration, cached
<1>2. /\ handle[p].generation \in Nat /\ handle[p].write_seq \in Nat
      /\ generation \in Nat /\ write_seq \in Nat
  BY DEF Shape, TypeOK, Handle
<1>3. handle[p].generation <= generation /\ handle[p].write_seq <= write_seq
  BY DEF Shape, Behind
<1>. QED
  BY <1>1, <1>2, <1>3 DEF Current

\* A thread that has work on the store to do, or to count, is of a writing process.
LEMMA WritersWrite ==
  ASSUME Shape, NEW t \in Threads, thread[t].pc \in {"remove", "bump", "mark", "replaced"}
                                   \/ (thread[t].pc = "use" /\ thread[t].task # "query")
  PROVE  ProcOf[t] \in Writers
<1>1. thread[t].task # "query" /\ thread[t].task \in TasksOf[ProcOf[t]] \cup {"query"}
  BY DEF Shape, Tasked
<1>. QED
  BY <1>1, ThreadAssumption DEF Writers

LEMMA FreshInductive ==
  ASSUME AllCount, Shape, [Next]_vars, NEW p \in Procs \ Writers, Fresh(p)
  PROVE  Fresh(p)'
<1> SUFFICES ASSUME AllCounted', Current(handle'[p], generation', write_seq')
             PROVE  handle'[p].coll = coll' /\ view'[p] = records'
  BY DEF Fresh
<1>a. /\ handle \in [Procs -> Handle] /\ view \in [Procs -> SUBSET Records]
      /\ thread \in [Threads -> Thread] /\ p \in Procs
      /\ \A t \in Threads : thread[t] \in Thread /\ ProcOf[t] \in Procs
  BY ThreadAssumption DEF Shape, TypeOK
<1>1. \A t \in Threads : ~Bump(t) /\ ~BumpGeneration(t)
  BY CountersMove
<1>2. AllCounted
  BY <1>1, StaysUncounted
<1>3. ASSUME UNCHANGED <<coll, records, counters>>, handle'[p] = handle[p], view'[p] = view[p]
      PROVE  handle'[p].coll = coll' /\ view'[p] = records'
  BY <1>2, <1>3 DEF Fresh, counters
<1>4. ASSUME NEW t \in Threads, Reopen(t) PROVE handle'[p].coll = coll' /\ view'[p] = records'
  <2>. DEFINE c == IF coll = 0 THEN created + 1 ELSE coll
  <2>1. /\ coll' = c /\ records' = records /\ counters' = counters
        /\ handle' = [handle EXCEPT ![ProcOf[t]] = [has |-> TRUE, coll |-> c,
             generation |-> thread[t].generation, write_seq |-> thread[t].write_seq]]
        /\ view' = [view EXCEPT ![ProcOf[t]] = IF coll = 0 THEN {} ELSE records]
    BY <1>4 DEF Reopen, OpenedView, counters
  <2>. HIDE DEF c
  <2>2. CASE ProcOf[t] = p
    BY <1>a, <2>1, <2>2 DEF Shape, TypeOK
  <2>3. CASE ProcOf[t] # p
    <3>1. handle'[p] = handle[p] /\ view'[p] = view[p]
      BY <1>a, <2>1, <2>3
    <3>2. Current(handle[p], generation, write_seq)
      BY <2>1, <3>1 DEF counters
    <3>3. handle[p].coll = coll /\ coll # 0
      BY <1>2, <3>2 DEF Fresh, Current, Shape, Held
    <3>. QED
      BY <1>3, <2>1, <3>1, <3>3 DEF c
  <2>. QED
    BY <2>2, <2>3
<1>5. ASSUME NEW t \in Threads, WriteRecords(t) \/ RemoveListed(t) \/ DropCollection(t) PROVE FALSE
  <2>1. thread[t].task # "sync"
    BY <1>a, ThreadAssumption DEF AllCount, Shape, Tasked
  <2>2. thread'[t].pc \in {"bump", "replaced"}
    BY <1>5, <1>a, <2>1 DEF WriteRecords, RemoveListed, DropCollection, Goto, Thread, Shape, Tasked
  <2>. QED
    BY <2>2, UncountedIs DEF AllCounted
<1>6. ASSUME NEW t \in Threads, Mark(t) PROVE handle'[p].coll = coll' /\ view'[p] = records'
  <2>1. ProcOf[t] # p
    BY <1>6, WritersWrite DEF Mark
  <2>2. handle'[p] = handle[p] /\ UNCHANGED <<coll, records, counters, view>>
    BY <1>6, <1>a, <2>1 DEF Mark, chroma
  <2>. QED
    BY <1>3, <2>2
<1>7. ASSUME NEW q \in Procs, Crash(q) PROVE handle'[p].coll = coll' /\ view'[p] = records'
  <2>1. /\ handle' = [handle EXCEPT ![q] = NoHandle] /\ ~NoHandle.has
        /\ view' = [view EXCEPT ![q] = {}] /\ UNCHANGED <<coll, records, counters>>
    BY <1>7 DEF Crash, NoHandle, chroma
  <2>2. q # p
    BY <1>a, <2>1 DEF Current
  <2>. QED
    BY <1>3, <1>a, <2>1, <2>2
<1>8. ASSUME NEW t \in Threads, Step(t) PROVE handle'[p].coll = coll' /\ view'[p] = records'
  <2>1. CASE Reuse(t) \/ Query(t) \/ List(t) \/ Refused(t) \/ DropRefused(t)
    BY <1>3, <2>1 DEF Reuse, Query, List, Refused, DropRefused, chroma, cached
  <2>. QED
    BY <1>1, <1>4, <1>5, <1>6, <1>8, <2>1 DEF Step
<1>9. ASSUME NEW t, NEW task, NEW ids, Call(t, task, ids)
      PROVE  handle'[p].coll = coll' /\ view'[p] = records'
  BY <1>3, <1>9 DEF Call, chroma, cached
<1>10. ASSUME UNCHANGED vars PROVE handle'[p].coll = coll' /\ view'[p] = records'
  BY <1>3, <1>10 DEF vars, chroma, cached
<1>. QED
  BY <1>7, <1>8, <1>9, <1>10 DEF Next

\* For any processes, threads and records: as soon as every write is counted, a process
\* that only searches and whose counters are current searches all the records there are.
THEOREM ReadersSeeAll ==
  ASSUME AllCount
  PROVE  Spec => []ReadersFresh
<1>1. Init => ReadersFresh
  BY DEF Init, ReadersFresh, Fresh, Current, NoHandle
<1>2. Shape /\ ReadersFresh /\ [Next]_vars => ReadersFresh'
  BY FreshInductive DEF ReadersFresh, Writers
<1>. QED
  BY <1>1, <1>2, ShapeHolds, PTL DEF Spec

----
(* Induction and folds. A fold is known by its trace: what it has made of  *)
(* the first k elements, for every k.                                      *)

\* A set of numbers that are there has a least one.
LEMMA LeastOf ==
  ASSUME NEW S, S \subseteq Nat, S # {}
  PROVE  \E i \in S : \A j \in S : i <= j
<1>1. \E x \in S : \A y \in S : ~(<<y, x>> \in OpToRel(<, Nat))
  BY WFMin, NatLessThanWellFounded
<1>2. PICK x \in S : \A y \in S : ~(y < x)
  BY <1>1 DEF OpToRel
<1> QED
  BY <1>2

\* The first m numbers are m.
LEMMA FirstNumbers ==
  \A m \in Nat : IsFiniteSet(1 .. m) /\ Cardinality(1 .. m) = m
<1> TAKE m \in Nat
<1>2. IsFiniteSet(1 .. m) /\ Cardinality(1 .. m) = IF 1 > m THEN 0 ELSE m - 1 + 1
  <2>1. 1 \in Int /\ m \in Int
    OBVIOUS
  <2> QED
    BY <2>1, FS_Interval
<1>3. (IF 1 > m THEN 0 ELSE m - 1 + 1) = m
  OBVIOUS
<1> QED
  BY <1>2, <1>3

\* Induction up to n, with a set for the predicate.
LEMMA UpTo ==
  ASSUME NEW n \in Nat, NEW S, 0 \in S, \A k \in 1 .. n : k - 1 \in S => k \in S
  PROVE  \A k \in 0 .. n : k \in S
<1> DEFINE Left == {k \in 0 .. n : k \notin S}
<1>1. SUFFICES ASSUME Left # {} PROVE FALSE
  OBVIOUS
<1>2. PICK i \in Left : \A j \in Left : i <= j
  <2>1. Left \subseteq Nat
    OBVIOUS
  <2> HIDE DEF Left
  <2> QED
    BY <1>1, <2>1, LeastOf
<1>3. i # 0 /\ i - 1 \in 0 .. n /\ i \in 1 .. n
  BY <1>2
<1>4. i - 1 \in S
  BY <1>2, <1>3
<1> QED
  BY <1>2, <1>3, <1>4

\* And from above.
LEMMA DownTo ==
  ASSUME NEW n \in Nat, NEW S, n \in S, \A k \in 0 .. n - 1 : k + 1 \in S => k \in S
  PROVE  \A k \in 0 .. n : k \in S
<1> DEFINE Up == {k \in 0 .. n : n - k \in S}
<1>1. 0 \in Up
  OBVIOUS
<1>2. ASSUME NEW k \in 1 .. n, k - 1 \in Up PROVE k \in Up
  <2>1. n - k \in 0 .. n - 1 /\ (n - k) + 1 = n - (k - 1)
    OBVIOUS
  <2> QED
    BY <1>2, <2>1
<1> HIDE DEF Up
<1>3. \A k \in 0 .. n : k \in Up
  BY <1>1, <1>2, UpTo
<1> QED
  BY <1>3 DEF Up

\* The largest of the numbers up to m that are in x, if m is.
LEMMA MaxIs ==
  ASSUME NEW m \in Nat, NEW x \in SUBSET (1 .. m), m \in x
  PROVE  Max(x) = m
<1>1. \E y \in x : \A z \in x : y >= z
  BY m \in x
<1>2. Max(x) \in x /\ \A z \in x : Max(x) >= z
  BY <1>1 DEF Max
<1>3. \A y \in x : y \in 1 .. m
  OBVIOUS
<1>4. PICK l \in x : l = Max(x)
  BY <1>2
<1> QED
  BY <1>2, <1>3, <1>4

\* The community modules' Max of a non-empty set of places is one of them, and none is above it.
LEMMA MaxIn ==
  ASSUME NEW n \in Nat, NEW x \in SUBSET (1 .. n), x # {}
  PROVE  Max(x) \in x /\ \A y \in x : y <= Max(x)
<1> DEFINE Over == {k \in 0 .. n : \A y \in x : y <= k}
<1>0. \A y \in x : y \in 1 .. n
  OBVIOUS
<1>1. n \in Over /\ Over \subseteq Nat /\ Over # {}
  BY <1>0
<1>2. PICK k \in Over : \A j \in Over : k <= j
  <2> HIDE DEF Over
  <2> QED
    BY <1>1, LeastOf
<1>3. k \in x
  <2>1. SUFFICES ASSUME k \notin x PROVE FALSE
    OBVIOUS
  <2>2. k > 0 /\ k - 1 \in 0 .. n
    <3>1. PICK z \in x : z \in 1 .. n
      BY <1>0
    <3>2. z <= k
      BY <1>2
    <3> QED
      BY <1>2, <3>1, <3>2
  <2>3. k - 1 \in Over
    BY <1>0, <1>2, <2>1, <2>2
  <2> QED
    BY <1>2, <2>2, <2>3
<1>4. \E y \in x : \A z \in x : y >= z
  BY <1>0, <1>2, <1>3
<1>5. Max(x) \in x /\ \A z \in x : Max(x) >= z
  BY <1>4 DEF Max
<1>6. PICK l \in x : l = Max(x)
  BY <1>5
<1> QED
  BY <1>0, <1>5, <1>6

\* A recursion over the sets of places, by their last ...
Iterates(it, n, start, step) ==
  /\ it[{}] = start
  /\ \A x \in SUBSET (1 .. n) : x # {} => it[x] = step[<<it[x \ {Max(x)}], Max(x)>>]

\* ... and one that is known where it stays within T.
Recurs(h, n, T, start, step) ==
  /\ h[{}] = start
  /\ \A x \in SUBSET (1 .. n) : x # {} /\ h[x \ {Max(x)}] \in T =>
       h[x] = step[<<h[x \ {Max(x)}], Max(x)>>]

\* What a fold has made of the first k elements, for k from 0 to n.
Trace(f, n, start, step) ==
  /\ f[0] = start
  /\ \A k \in 1 .. n : f[k] = step[<<f[k - 1], k>>]

\* A trace within T that ends with v.
Makes(f, n, T, start, step, v) == f \in [0 .. n -> T] /\ Trace(f, n, start, step) /\ f[n] = v

Agree(f, g, S) == \A x \in S : f[x] = g[x]
Closed(step, n, T) == \A k \in 1 .. n : \A a \in T : step[<<a, k>>] \in T

\* Such a recursion has a solution ...
LEMMA IterExists ==
  ASSUME NEW n \in Nat, NEW T, NEW start \in T, NEW step, Closed(step, n, T)
  PROVE  \E it \in [SUBSET (1 .. n) -> T] : Iterates(it, n, start, step)
<1> DEFINE Good(m, it) == Iterates(it, m, start, step)
           S == {m \in 0 .. n : \E it \in [SUBSET (1 .. m) -> T] : Good(m, it)}
<1>1. 0 \in S
  <2> DEFINE it == [x \in SUBSET (1 .. 0) |-> start]
  <2>1. it \in [SUBSET (1 .. 0) -> T]
    OBVIOUS
  <2>2. ASSUME NEW x \in SUBSET (1 .. 0) PROVE x = {}
    OBVIOUS
  <2>3. it[{}] = start
    OBVIOUS
  <2> HIDE DEF it
  <2>4. Good(0, it)
    BY <2>2, <2>3 DEF Iterates
  <2> HIDE DEF Good
  <2>5. \E f \in [SUBSET (1 .. 0) -> T] : Good(0, f)
    BY <2>1, <2>4
  <2>6. 0 \in 0 .. n
    OBVIOUS
  <2> QED
    BY <2>5, <2>6
<1>2. ASSUME NEW m \in 1 .. n, m - 1 \in S PROVE m \in S
  <2>1. PICK it \in [SUBSET (1 .. m - 1) -> T] : Good(m - 1, it)
    BY <1>2
  <2> DEFINE new == [x \in SUBSET (1 .. m) |->
                       IF m \in x THEN step[<<it[x \ {m}], m>>] ELSE it[x]]
  <2>2. ASSUME NEW x \in SUBSET (1 .. m)
        PROVE  /\ m \in x => x \ {m} \in SUBSET (1 .. m - 1)
               /\ m \notin x => x \in SUBSET (1 .. m - 1)
    OBVIOUS
  <2>3. new \in [SUBSET (1 .. m) -> T]
    BY <2>1, <2>2 DEF Closed
  <2>4. ASSUME NEW x \in SUBSET (1 .. m), x # {}
        PROVE  new[x] = step[<<new[x \ {Max(x)}], Max(x)>>]
    <3>1. CASE m \in x
      <4>1. Max(x) = m
        BY <3>1, MaxIs
      <4>2. x \ {m} \in SUBSET (1 .. m) /\ m \notin x \ {m}
        BY <2>2, <3>1
      <4>3. new[x \ {m}] = it[x \ {m}]
        BY <4>2
      <4> QED
        BY <3>1, <4>1, <4>3
    <3>2. CASE m \notin x
      <4>1. x \in SUBSET (1 .. m - 1) /\ new[x] = it[x]
        BY <2>2, <3>2
      <4>2. x \ {Max(x)} \in SUBSET (1 .. m) /\ m \notin x \ {Max(x)}
        BY <3>2
      <4>3. new[x \ {Max(x)}] = it[x \ {Max(x)}]
        BY <4>2
      <4> QED
        BY <2>1, <2>4, <4>1, <4>3 DEF Iterates
    <3> QED
      BY <3>1, <3>2
  <2>5. new[{}] = start
    BY <2>1 DEF Iterates
  <2> HIDE DEF new
  <2>6. Good(m, new)
    BY <2>4, <2>5 DEF Iterates
  <2> HIDE DEF Good
  <2> QED
    BY <2>3, <2>6
<1> HIDE DEF S
<1>3. n \in S
  BY <1>1, <1>2, UpTo
<1> QED
  BY <1>3 DEF S

\* ... and one only, also among functions that are not known to stay within T.
LEMMA IterUnique ==
  ASSUME NEW n \in Nat, NEW T, NEW start \in T, NEW step,
         NEW it \in [SUBSET (1 .. n) -> T], NEW h,
         Iterates(it, n, start, step), Recurs(h, n, T, start, step)
  PROVE  Agree(h, it, SUBSET (1 .. n))
<1> DEFINE Same(m) == \A x \in SUBSET (1 .. m) : h[x] = it[x]
           S == {m \in 0 .. n : Same(m)}
<1>1. 0 \in S
  <2>1. \A x \in SUBSET (1 .. 0) : x = {}
    OBVIOUS
  <2>2. h[{}] = it[{}]
    BY DEF Iterates, Recurs
  <2>4. Same(0)
    BY <2>1, <2>2
  <2> HIDE DEF Same
  <2> QED
    BY <2>4
<1>2. ASSUME NEW m \in 1 .. n, Same(m - 1) PROVE Same(m)
  <2> SUFFICES ASSUME NEW x \in SUBSET (1 .. m) PROVE h[x] = it[x]
    OBVIOUS
  <2>2. CASE x = {}
    BY <2>2 DEF Iterates, Recurs
  <2>3. CASE x # {}
    <3>1. x \in SUBSET (1 .. n) /\ m \in Nat
      OBVIOUS
    <3>2. PICK l \in x : l = Max(x) /\ \A y \in x : y <= l
      BY <2>3, <3>1, MaxIn
    <3>a. \A y \in x : y \in 1 .. m
      OBVIOUS
    <3>b. \A y \in x : y # l => y < l /\ y \in 1 .. m - 1 /\ y \in 1 .. n
      BY <3>2, <3>a
    <3>3. x \ {Max(x)} \in SUBSET (1 .. m - 1) /\ x \ {Max(x)} \in SUBSET (1 .. n)
      BY <3>2, <3>b
    <3>4. h[x \ {Max(x)}] = it[x \ {Max(x)}] /\ it[x \ {Max(x)}] \in T
      BY <1>2, <3>3
    <3> QED
      BY <2>3, <3>1, <3>4 DEF Iterates, Recurs
  <2> QED
    BY <2>2, <2>3
<1>3. ASSUME NEW m \in 1 .. n, m - 1 \in S PROVE m \in S
  <2> HIDE DEF Same
  <2> QED
    BY <1>2, <1>3
<1> HIDE DEF S
<1>4. n \in S
  BY <1>1, <1>3, UpTo
<1> QED
  BY <1>4 DEF S, Agree

\* The values along 1 .. k are the trace of the recursion.
LEMMA IterTrace ==
  ASSUME NEW n \in Nat, NEW T, NEW start \in T, NEW step, Closed(step, n, T), NEW h,
         Recurs(h, n, T, start, step)
  PROVE  \E f : Makes(f, n, T, start, step, h[1 .. n])
<1>1. PICK it \in [SUBSET (1 .. n) -> T] : Iterates(it, n, start, step)
  BY IterExists
<1>a. Agree(h, it, SUBSET (1 .. n))
  BY <1>1, IterUnique
<1>2. \A x \in SUBSET (1 .. n) : h[x] = it[x]
  BY <1>a DEF Agree
<1> DEFINE f == [k \in 0 .. n |-> it[1 .. k]]
<1>3. ASSUME NEW k \in 0 .. n PROVE 1 .. k \in SUBSET (1 .. n)
  OBVIOUS
<1>4. f \in [0 .. n -> T]
  BY <1>3
<1>5. f[0] = start
  <2>1. 1 .. 0 = {} /\ {} \in SUBSET (1 .. n)
    OBVIOUS
  <2>2. it[1 .. 0] = start
    BY <1>1, <2>1 DEF Iterates
  <2> QED
    BY <2>2
<1>6. ASSUME NEW k \in 1 .. n PROVE f[k] = step[<<f[k - 1], k>>]
  <2>1. k \in Nat /\ k \in 1 .. k /\ 1 .. k \in SUBSET (1 .. k)
    OBVIOUS
  <2>2. Max(1 .. k) = k
    BY <2>1, MaxIs
  <2>3. (1 .. k) \ {k} = 1 .. k - 1 /\ 1 .. k # {} /\ k - 1 \in 0 .. n /\ k \in 0 .. n
    OBVIOUS
  <2>4. it[1 .. k] = step[<<it[1 .. k - 1], k>>]
    BY <1>1, <1>3, <2>2, <2>3 DEF Iterates
  <2> QED
    BY <2>3, <2>4
<1>7. f[n] = h[1 .. n]
  BY <1>2, <1>3
<1> HIDE DEF f
<1>8. Trace(f, n, start, step)
  BY <1>5, <1>6 DEF Trace
<1> QED
  BY <1>4, <1>7, <1>8 DEF Makes

\* Two traces of one recursion are the same, as far as they are of the same elements.
LEMMA SameTrace ==
  ASSUME NEW n \in Nat, NEW start, NEW step, NEW f, NEW g,
         Trace(f, n, start, step), Trace(g, n, start, step)
  PROVE  Agree(f, g, 0 .. n)
<1> DEFINE S == {k \in 0 .. n : f[k] = g[k]}
<1>1. 0 \in S
  BY DEF Trace
<1>2. ASSUME NEW k \in 1 .. n, k - 1 \in S PROVE k \in S
  <2>1. k \in 0 .. n /\ f[k - 1] = g[k - 1]
    BY <1>2
  <2>2. f[k] = g[k]
    BY <2>1 DEF Trace
  <2> QED
    BY <2>1, <2>2
<1> HIDE DEF S
<1>3. \A k \in 0 .. n : k \in S
  BY <1>1, <1>2, UpTo
<1> QED
  BY <1>3 DEF S, Agree

----
(* Total *)

Adding(s) == [p \in Nat \X (1 .. Len(s)) |-> p[1] + s[p[2]]]

\* Total folds the sizes with +: the step as a function, closed in the naturals.
LEMMA AddingIs ==
  ASSUME NEW s \in Seq(Nat)
  PROVE  /\ Closed(Adding(s), Len(s), Nat)
         /\ \A a \in Nat, k \in 1 .. Len(s) : Adding(s)[<<a, k>>] = a + s[k] /\ s[k] \in Nat
  BY SMTT(30) DEF Closed, Adding

\* Total has a trace: the running values of its fold exist, from 0.
LEMMA TotalTrace ==
  ASSUME NEW s \in Seq(Nat)
  PROVE  \E f : Makes(f, Len(s), Nat, 0, Adding(s), Total(s))
<1> DEFINE n == Len(s)
           step == Adding(s)
<1>1. n \in Nat /\ DOMAIN s = 1 .. n
  OBVIOUS
<1>2. Closed(step, n, Nat)
  BY AddingIs
<1>3. \A a \in Nat, k \in 1 .. n : step[<<a, k>>] = a + s[k]
  BY AddingIs
<1> HIDE DEF n, step
<1>4. PICK it \in [SUBSET (1 .. n) -> Nat] : Iterates(it, n, 0, step)
  BY <1>1, <1>2, IterExists
<1>5. ASSUME NEW x \in SUBSET (1 .. n), x # {} PROVE Max(x) \in 1 .. n /\ x \ {Max(x)} \in SUBSET (1 .. n)
  BY <1>1, <1>5, MaxIn
<1>6. it = [x \in SUBSET DOMAIN s |-> IF x = {} THEN 0 ELSE it[x \ {Max(x)}] + s[Max(x)]]
  BY <1>1, <1>3, <1>4, <1>5 DEF Iterates
<1>7. \E h : Total(s) = h[DOMAIN s] /\
             h = [x \in SUBSET DOMAIN s |-> IF x = {} THEN 0 ELSE h[x \ {Max(x)}] + s[Max(x)]]
  BY <1>6 DEF Total, FoldLeft, MapThenFoldSet
<1>8. PICK h : Total(s) = h[DOMAIN s] /\
             h = [x \in SUBSET DOMAIN s |-> IF x = {} THEN 0 ELSE h[x \ {Max(x)}] + s[Max(x)]]
  BY <1>7
<1>9. h[{}] = 0 /\ \A x \in SUBSET (1 .. n) : x # {} => h[x] = h[x \ {Max(x)}] + s[Max(x)]
  BY <1>1, <1>8
<1>10. Recurs(h, n, Nat, 0, step)
  BY <1>3, <1>5, <1>9 DEF Recurs
<1>11. \E f : Makes(f, n, Nat, 0, step, h[1 .. n])
  BY <1>1, <1>2, <1>10, IterTrace
<1> QED
  BY <1>1, <1>8, <1>11 DEF n, step

\* The sums of the first elements of s.
Sums(f, s) ==
  /\ f \in [0 .. Len(s) -> Nat]
  /\ f[0] = 0
  /\ \A k \in 1 .. Len(s) : f[k] = f[k - 1] + s[k]

\* ... and that trace is a sequence of running sums which ends in the Total.
LEMMA SumsExist ==
  ASSUME NEW s \in Seq(Nat)
  PROVE  \E f : Sums(f, s) /\ Total(s) = f[Len(s)]
<1>1. PICK f : Makes(f, Len(s), Nat, 0, Adding(s), Total(s))
  BY TotalTrace
<1>2. f \in [0 .. Len(s) -> Nat] /\ Trace(f, Len(s), 0, Adding(s)) /\ f[Len(s)] = Total(s)
  BY <1>1 DEF Makes
<1>3. ASSUME NEW k \in 1 .. Len(s) PROVE f[k] = f[k - 1] + s[k]
  <2>1. k - 1 \in 0 .. Len(s) /\ f[k - 1] \in Nat
    BY <1>2
  <2> QED
    BY <1>2, <2>1, AddingIs DEF Trace
<1> QED
  BY <1>2, <1>3 DEF Sums, Trace

\* Whatever the running sums are, the Total is where they end.
LEMMA TotalIs ==
  ASSUME NEW s \in Seq(Nat), NEW f, Sums(f, s)
  PROVE  Total(s) = f[Len(s)] /\ Total(s) \in Nat
<1>1. PICK g : Makes(g, Len(s), Nat, 0, Adding(s), Total(s))
  BY TotalTrace
<1>2. g \in [0 .. Len(s) -> Nat] /\ Trace(g, Len(s), 0, Adding(s)) /\ g[Len(s)] = Total(s)
  BY <1>1 DEF Makes
<1>3. ASSUME NEW k \in 1 .. Len(s) PROVE f[k] = Adding(s)[<<f[k - 1], k>>]
  <2>0. k - 1 \in 0 .. Len(s)
    OBVIOUS
  <2>1. k - 1 \in 0 .. Len(s) /\ f[k - 1] \in Nat
    BY <2>0 DEF Sums
  <2> QED
    BY <2>1, AddingIs DEF Sums
<1>4. Trace(f, Len(s), 0, Adding(s))
  BY <1>3 DEF Sums, Trace
<1>5. Len(s) \in Nat
  OBVIOUS
<1>6. Agree(f, g, 0 .. Len(s))
  BY <1>2, <1>4, <1>5, SameTrace
<1> QED
  BY <1>2, <1>5, <1>6 DEF Agree

LEMMA TotalNat ==
  ASSUME NEW s \in Seq(Nat)
  PROVE  Total(s) \in Nat
<1>1. PICK f : Sums(f, s) /\ Total(s) = f[Len(s)]
  BY SumsExist
<1> QED
  BY <1>1, TotalIs

LEMMA TotalEmpty == Total(<<>>) = 0
<1>1. <<>> \in Seq(Nat) /\ Len(<<>>) = 0
  OBVIOUS
<1>2. PICK f : Sums(f, <<>>) /\ Total(<<>>) = f[Len(<<>>)]
  BY <1>1, SumsExist
<1> QED
  BY <1>1, <1>2 DEF Sums

LEMMA TotalAppend ==
  ASSUME NEW s \in Seq(Nat), NEW x \in Nat
  PROVE  Total(Append(s, x)) = Total(s) + x
<1>1. PICK f : Sums(f, s) /\ Total(s) = f[Len(s)]
  BY SumsExist
<1> DEFINE n == Len(s)
           g == [k \in 0 .. n + 1 |-> IF k <= n THEN f[k] ELSE f[n] + x]
<1>2. f \in [0 .. n -> Nat] /\ n \in Nat
  BY <1>1 DEF Sums
<1>3. g \in [0 .. n + 1 -> Nat]
  BY <1>2
<1>4. g[0] = 0
  BY <1>1, <1>2 DEF Sums
<1>5. ASSUME NEW k \in 1 .. n + 1 PROVE g[k] = g[k - 1] + Append(s, x)[k]
  <2>1. CASE k \in 1 .. n
    <3>1. k \in 0 .. n /\ k - 1 \in 0 .. n /\ k \in 0 .. n + 1 /\ k - 1 \in 0 .. n + 1
      BY <2>1
    <3>2. f[k] = f[k - 1] + s[k] /\ Append(s, x)[k] = s[k]
      BY <1>1, <2>1 DEF Sums
    <3> QED
      BY <2>1, <3>1, <3>2
  <2>2. CASE k = n + 1
    <3>1. Append(s, x)[n + 1] = x
      OBVIOUS
    <3>2. k - 1 = n /\ n \in 0 .. n + 1 /\ n + 1 \in 0 .. n + 1
      BY <1>2, <2>2
    <3> QED
      BY <1>2, <2>2, <3>1, <3>2
  <2> QED
    BY <1>2, <2>1, <2>2
<1>6. Append(s, x) \in Seq(Nat) /\ Len(Append(s, x)) = n + 1
  OBVIOUS
<1>7. g[n + 1] = f[n] + x
  BY <1>2
<1> HIDE DEF g, n
<1>8. Sums(g, Append(s, x))
  BY <1>3, <1>4, <1>5, <1>6 DEF Sums
<1> QED
  BY <1>1, <1>6, <1>7, <1>8, TotalIs DEF n

\* One more for each element is the length more in all.
LEMMA TotalPlusOnes ==
  ASSUME NEW s \in Seq(Nat), NEW t \in Seq(Nat), Len(t) = Len(s),
         \A k \in 1 .. Len(s) : t[k] = s[k] + 1
  PROVE  Total(t) = Total(s) + Len(s)
<1>1. PICK f : Sums(f, s) /\ Total(s) = f[Len(s)]
  BY SumsExist
<1> DEFINE g == [k \in 0 .. Len(s) |-> f[k] + k]
<1>2. f \in [0 .. Len(s) -> Nat] /\ Len(s) \in Nat
  BY <1>1 DEF Sums
<1>3. g \in [0 .. Len(t) -> Nat] /\ g[0] = 0
  BY <1>1, <1>2 DEF Sums
<1>4. ASSUME NEW k \in 1 .. Len(t) PROVE g[k] = g[k - 1] + t[k]
  <2>1. k \in 0 .. Len(s) /\ k - 1 \in 0 .. Len(s) /\ k \in 1 .. Len(s)
    OBVIOUS
  <2>2. f[k] = f[k - 1] + s[k] /\ t[k] = s[k] + 1
    BY <1>1, <2>1 DEF Sums
  <2>3. s[k] \in Nat /\ k \in Nat
    BY <2>1
  <2>5. f[k - 1] \in Nat /\ f[k] \in Nat
    BY <1>2, <2>1
  <2>4. g[k] = f[k] + k /\ g[k - 1] = f[k - 1] + (k - 1)
    BY <2>1
  <2> HIDE DEF g
  <2>a. \A a, b, c \in Nat : (a + b) + c = (a + (c - 1)) + (b + 1)
    OBVIOUS
  <2>6. (f[k - 1] + s[k]) + k = (f[k - 1] + (k - 1)) + (s[k] + 1)
    BY <2>3, <2>5, <2>a
  <2> QED
    BY <2>2, <2>4, <2>6
<1>5. g[Len(t)] = f[Len(s)] + Len(s)
  BY <1>2
<1> HIDE DEF g
<1>6. Sums(g, t)
  BY <1>3, <1>4 DEF Sums
<1> QED
  BY <1>1, <1>5, <1>6, TotalIs

----
(* The pieces of a sentence that is too long *)

\* The pieces q are one after the other, from a to b, and none is empty.
Tiles(q, a, b) ==
  /\ q \in Seq(Nat \X Nat)
  /\ \A k \in 1 .. Len(q) : q[k][1] < q[k][2]
  /\ \A k \in 1 .. Len(q) - 1 : q[k][2] = q[k + 1][1]
  /\ IF q = <<>> THEN a = b ELSE q[1][1] = a /\ q[Len(q)][2] = b

\* A piece put after pieces that cover a .. b makes them cover a .. c.
LEMMA TilesAppend ==
  ASSUME NEW a \in Nat, NEW b \in Nat, NEW c \in Nat, b < c, NEW q, Tiles(q, a, b)
  PROVE  Tiles(Append(q, <<b, c>>), a, c)
<1> DEFINE p == <<b, c>>
           r == Append(q, p)
<1>1. q \in Seq(Nat \X Nat) /\ p \in Nat \X Nat /\ p[1] = b /\ p[2] = c
  BY DEF Tiles
<1> HIDE DEF p
<1>2. r \in Seq(Nat \X Nat) /\ Len(r) = Len(q) + 1 /\ r # <<>> /\ Len(q) \in Nat
  BY <1>1
<1>3. r[Len(q) + 1] = p /\ \A k \in 1 .. Len(q) : r[k] = q[k]
  BY <1>1
<1>4. q = <<>> <=> Len(q) = 0
  BY <1>1
<1> HIDE DEF r
<1>5. ASSUME NEW k \in 1 .. Len(r) PROVE r[k][1] < r[k][2]
  <2>1. CASE k \in 1 .. Len(q)
    BY <1>3, <2>1 DEF Tiles
  <2>2. CASE k = Len(q) + 1
    BY <1>1, <1>3, <2>2
  <2> QED
    BY <1>2, <2>1, <2>2
<1>6. ASSUME NEW k \in 1 .. Len(r) - 1 PROVE r[k][2] = r[k + 1][1]
  <2>1. k \in 1 .. Len(q) /\ r[k] = q[k]
    BY <1>2, <1>3
  <2>2. CASE k = Len(q)
    BY <1>1, <1>3, <1>4, <2>1, <2>2 DEF Tiles
  <2>3. CASE k \in 1 .. Len(q) - 1
    <3>1. k + 1 \in 1 .. Len(q)
      BY <1>2, <2>3
    <3> QED
      BY <1>3, <2>1, <2>3, <3>1 DEF Tiles
  <2> QED
    BY <1>2, <2>1, <2>2, <2>3
<1>7. r[1][1] = a
  <2>1. CASE q = <<>>
    BY <1>1, <1>3, <1>4, <2>1 DEF Tiles
  <2>2. CASE q # <<>>
    <3>1. 1 \in 1 .. Len(q)
      BY <1>2, <1>4, <2>2
    <3> QED
      BY <1>3, <2>2, <3>1 DEF Tiles
  <2> QED
    BY <2>1, <2>2
<1>8. r[Len(r)][2] = c
  BY <1>1, <1>2, <1>3
<1>9. Tiles(r, a, c)
  BY <1>2, <1>5, <1>6, <1>7, <1>8 DEF Tiles
<1> QED
  BY <1>9 DEF r, p

\* ... and so do the pieces that cover b .. c.
LEMMA TilesConcat ==
  ASSUME NEW a \in Nat, NEW b \in Nat, NEW c \in Nat, NEW q, NEW r, Tiles(q, a, b), Tiles(r, b, c)
  PROVE  Tiles(q \o r, a, c)
<1> DEFINE t == q \o r
           m == Len(q)
           n == Len(r)
<1>1. q \in Seq(Nat \X Nat) /\ r \in Seq(Nat \X Nat) /\ m \in Nat /\ n \in Nat
  BY DEF Tiles
<1>2. t \in Seq(Nat \X Nat) /\ Len(t) = m + n
  BY <1>1
<1>3. (\A k \in 1 .. m : t[k] = q[k]) /\ (\A k \in 1 .. n : t[m + k] = r[k])
  BY <1>1
<1>4. (q = <<>> <=> m = 0) /\ (r = <<>> <=> n = 0) /\ (t = <<>> <=> m + n = 0)
  BY <1>1, <1>2
<1>5. /\ m # 0 => q[1][1] = a /\ q[m][2] = b
      /\ m = 0 => a = b
      /\ n # 0 => r[1][1] = b /\ r[n][2] = c
      /\ n = 0 => b = c
  BY <1>4 DEF Tiles
<1>6. /\ \A k \in 1 .. m : q[k][1] < q[k][2]
      /\ \A k \in 1 .. m - 1 : q[k][2] = q[k + 1][1]
      /\ \A k \in 1 .. n : r[k][1] < r[k][2]
      /\ \A k \in 1 .. n - 1 : r[k][2] = r[k + 1][1]
  BY DEF Tiles
<1> HIDE DEF t, m, n
<1>7. ASSUME NEW k \in 1 .. Len(t) PROVE k \in 1 .. m \/ k - m \in 1 .. n
  BY <1>1, <1>2
<1>8. ASSUME NEW k \in 1 .. Len(t), k \notin 1 .. m PROVE t[k] = r[k - m]
  <2>1. k - m \in 1 .. n /\ m + (k - m) = k
    BY <1>1, <1>7, <1>8
  <2> QED
    BY <1>3, <2>1
<1>9. ASSUME NEW k \in 1 .. Len(t) PROVE t[k][1] < t[k][2]
  BY <1>3, <1>6, <1>7, <1>8
<1>10. ASSUME NEW k \in 1 .. Len(t) - 1 PROVE t[k][2] = t[k + 1][1]
  <2>1. k \in 1 .. Len(t) /\ k + 1 \in 1 .. Len(t)
    BY <1>1, <1>2
  <2>2. CASE k + 1 \in 1 .. m
    <3>1. k \in 1 .. m - 1 /\ k \in 1 .. m
      BY <1>1, <2>1, <2>2
    <3> QED
      BY <1>3, <1>6, <2>2, <3>1
  <2>3. CASE k = m
    <3>1. m # 0 /\ n # 0 /\ k \in 1 .. m /\ k + 1 \notin 1 .. m /\ (k + 1) - m = 1
      BY SMTT(30), <1>1, <1>2, <2>1, <2>3
    <3>2. t[k + 1] = r[1]
      BY <1>8, <2>1, <3>1
    <3> QED
      BY <1>3, <1>5, <2>3, <3>1, <3>2
  <2>4. CASE k \notin 1 .. m
    <3>1. k + 1 \notin 1 .. m /\ k - m \in 1 .. n - 1 /\ (k + 1) - m = (k - m) + 1
      BY <1>1, <1>2, <2>1, <2>4
    <3>2. t[k] = r[k - m] /\ t[k + 1] = r[(k - m) + 1]
      BY <1>8, <2>1, <2>4, <3>1
    <3> QED
      BY <1>6, <3>1, <3>2
  <2> QED
    BY <1>1, <2>1, <2>2, <2>3, <2>4
<1>11. ASSUME m + n # 0 PROVE t[1][1] = a /\ t[m + n][2] = c
  <2>1. t[1][1] = a
    <3>1. CASE m = 0
      BY <1>1, <1>3, <1>5, <1>11, <3>1
    <3>2. CASE m # 0
      <4>1. 1 \in 1 .. m
        BY <1>1, <3>2
      <4> QED
        BY <1>3, <1>5, <3>2, <4>1
    <3> QED
      BY <3>1, <3>2
  <2>2. t[m + n][2] = c
    <3>1. CASE n = 0
      BY <1>1, <1>3, <1>5, <1>11, <3>1
    <3>2. CASE n # 0
      <4>1. n \in 1 .. n
        BY <1>1, <3>2
      <4> QED
        BY <1>3, <1>5, <3>2, <4>1
    <3> QED
      BY <3>1, <3>2
  <2> QED
    BY <2>1, <2>2
<1>12. m + n = 0 => a = c
  BY <1>1, <1>5
<1>13. Tiles(t, a, c)
  BY <1>1, <1>2, <1>4, <1>9, <1>10, <1>11, <1>12 DEF Tiles
<1> QED
  BY <1>13 DEF t

\* Whole parts.
LEMMA DivIs ==
  ASSUME NEW x \in Nat, NEW y \in Nat, y > 0
  PROVE  x \div y \in Nat /\ (x \div y) * y <= x /\ x < (x \div y) * y + y
<1>1. x \div y \in Nat
  OBVIOUS
<1>2. (x \div y) * y <= x
  OBVIOUS
<1>3. x < (x \div y) * y + y
  OBVIOUS
<1> QED
  BY <1>1, <1>2, <1>3

\* Cutting every target_chars characters.
LEMMA HardCutTiles ==
  ASSUME NEW a \in Nat, NEW b \in Nat, a < b
  PROVE  /\ Tiles(HardCut(<<a, b>>), a, b)
         /\ \A k \in 1 .. Len(HardCut(<<a, b>>)) : HardCut(<<a, b>>)[k][2] - HardCut(<<a, b>>)[k][1] <= Target
<1> DEFINE n == (b - a + Target - 1) \div Target
           q == HardCut(<<a, b>>)
<1>1. Target \in Nat /\ Target > 0
  BY TargetAssumption
<1>2. n \in Nat /\ n > 0 /\ (n - 1) * Target < b - a /\ b - a <= n * Target
  <2> DEFINE x == b - a + Target - 1
  <2>1. x \in Nat /\ x >= Target
    BY <1>1
  <2>2. n \in Nat /\ n * Target <= x /\ x < n * Target + Target
    <3>1. n = x \div Target
      OBVIOUS
    <3> HIDE DEF x, n
    <3> QED
      BY <1>1, <2>1, <3>1, DivIs
  <2> HIDE DEF n
  <2>3. n # 0
    BY <1>1, <2>1, <2>2
  <2>4. (n - 1) * Target = n * Target - Target /\ n * Target \in Nat
    BY <1>1, <2>2
  <2> QED
    BY <1>1, <2>2, <2>3, <2>4
<1>3. q = [k \in 1 .. n |-> <<a + (k - 1) * Target, Least(b, a + k * Target)>>]
  BY DEF HardCut
<1> HIDE DEF n, q
<1>4. ASSUME NEW k \in 1 .. n
      PROVE  /\ (k - 1) * Target \in Nat /\ k * Target = (k - 1) * Target + Target
             /\ (k - 1) * Target <= (n - 1) * Target
             /\ k < n => k * Target <= (n - 1) * Target
  BY <1>1, <1>2
<1>5. ASSUME NEW k \in 1 .. n
      PROVE  /\ q[k] = <<a + (k - 1) * Target, Least(b, a + k * Target)>>
             /\ q[k] \in Nat \X Nat /\ q[k][1] < q[k][2] /\ q[k][2] - q[k][1] <= Target
             /\ k < n => q[k][2] = a + k * Target
  <2>1. q[k] = <<a + (k - 1) * Target, Least(b, a + k * Target)>>
    BY <1>3
  <2>2. PICK u \in Nat : u = (k - 1) * Target
    BY <1>4
  <2>3. u < b - a /\ k * Target = u + Target
    BY <1>1, <1>2, <1>4, <2>2
  <2>4. k < n => u + Target < b - a
    BY <1>1, <1>2, <1>4, <2>2, <2>3
  <2>5. Least(b, a + k * Target) = IF b < a + (u + Target) THEN b ELSE a + (u + Target)
    BY <2>3 DEF Least
  <2> QED
    BY <1>1, <2>1, <2>2, <2>3, <2>4, <2>5
<1>6. q \in Seq(Nat \X Nat) /\ Len(q) = n /\ q # <<>>
  <2>1. q \in [1 .. n -> Nat \X Nat]
    BY <1>3, <1>5
  <2> QED
    BY <1>2, <2>1
<1>7. ASSUME NEW k \in 1 .. Len(q) - 1 PROVE q[k][2] = q[k + 1][1]
  <2>1. k \in 1 .. n /\ k + 1 \in 1 .. n /\ k < n /\ (k + 1) - 1 = k
    BY <1>2, <1>6
  <2> QED
    BY <1>5, <2>1
<1>8. q[1][1] = a
  <2>1. q[1][1] = a + (1 - 1) * Target
    BY <1>2, <1>5
  <2> QED
    BY <1>1, <2>1
<1>9. q[n][2] = b
  <2>1. q[n] = <<a + (n - 1) * Target, Least(b, a + n * Target)>>
    BY <1>2, <1>5
  <2> QED
    BY <1>1, <1>2, <2>1 DEF Least
<1>10. Tiles(q, a, b)
  BY <1>5, <1>6, <1>7, <1>8, <1>9 DEF Tiles
<1>11. \A k \in 1 .. Len(q) : q[k][2] - q[k][1] <= Target
  BY <1>5, <1>6
<1> QED
  BY <1>10, <1>11 DEF q

Buffers == [pieces : Seq(Nat \X Nat), from : Nat, to : Nat]
Buffering(s) == [p \in Buffers \X (1 .. Len(s)) |-> SoftStep(p[1], s[p[2]])]

\* A step of the soft split takes a buffer to a buffer.
LEMMA SoftStepType ==
  ASSUME NEW acc \in Buffers, NEW n \in Nat
  PROVE  SoftStep(acc, n) \in Buffers
<1>1. acc.pieces \in Seq(Nat \X Nat) /\ acc.from \in Nat /\ acc.to \in Nat /\ acc.to + n \in Nat
  BY DEF Buffers
<1>2. <<acc.from, acc.to>> \in Nat \X Nat
  BY <1>1
<1>3. Append(acc.pieces, <<acc.from, acc.to>>) \in Seq(Nat \X Nat)
  BY <1>1, <1>2
<1>4. [acc EXCEPT !.to = @ + n] \in Buffers
  BY <1>1 DEF Buffers
<1> QED
  BY <1>1, <1>3, <1>4 DEF SoftStep, Buffers

LEMMA BufferingIs ==
  ASSUME NEW s \in Seq(Nat)
  PROVE  /\ Closed(Buffering(s), Len(s), Buffers)
         /\ \A a \in Buffers, k \in 1 .. Len(s) : Buffering(s)[<<a, k>>] = SoftStep(a, s[k])
<1>1. \A k \in 1 .. Len(s) : s[k] \in Nat
  OBVIOUS
<1>2. \A a \in Buffers, k \in 1 .. Len(s) : Buffering(s)[<<a, k>>] = SoftStep(a, s[k])
  BY DEF Buffering
<1> QED
  BY <1>1, <1>2, SoftStepType DEF Closed

SoftStart == [pieces |-> <<>>, from |-> 0, to |-> 0]

\* The fold of the soft split has a trace.
LEMMA SoftTrace ==
  ASSUME NEW s \in Seq(Nat)
  PROVE  \E f : Makes(f, Len(s), Buffers, SoftStart, Buffering(s), FoldLeft(SoftStep, SoftStart, s))
<1> DEFINE n == Len(s)
           step == Buffering(s)
<1>1. n \in Nat /\ DOMAIN s = 1 .. n
  OBVIOUS
<1>2. Closed(step, n, Buffers)
  BY BufferingIs
<1>3. \A a \in Buffers, k \in 1 .. n : step[<<a, k>>] = SoftStep(a, s[k])
  BY BufferingIs
<1>0. SoftStart \in Buffers
  BY DEF SoftStart, Buffers
<1> HIDE DEF n, step
<1>4. PICK it \in [SUBSET (1 .. n) -> Buffers] : Iterates(it, n, SoftStart, step)
  BY <1>0, <1>1, <1>2, IterExists
<1>5. ASSUME NEW x \in SUBSET (1 .. n), x # {} PROVE Max(x) \in 1 .. n /\ x \ {Max(x)} \in SUBSET (1 .. n)
  BY <1>1, <1>5, MaxIn
<1>6. it = [x \in SUBSET DOMAIN s |-> IF x = {} THEN SoftStart ELSE SoftStep(it[x \ {Max(x)}], s[Max(x)])]
  BY <1>1, <1>3, <1>4, <1>5 DEF Iterates
<1>7. \E h : FoldLeft(SoftStep, SoftStart, s) = h[DOMAIN s] /\
             h = [x \in SUBSET DOMAIN s |-> IF x = {} THEN SoftStart ELSE SoftStep(h[x \ {Max(x)}], s[Max(x)])]
  BY <1>6 DEF FoldLeft, MapThenFoldSet
<1>8. PICK h : FoldLeft(SoftStep, SoftStart, s) = h[DOMAIN s] /\
             h = [x \in SUBSET DOMAIN s |-> IF x = {} THEN SoftStart ELSE SoftStep(h[x \ {Max(x)}], s[Max(x)])]
  BY <1>7
<1>9. h[{}] = SoftStart /\ \A x \in SUBSET (1 .. n) : x # {} => h[x] = SoftStep(h[x \ {Max(x)}], s[Max(x)])
  BY <1>1, <1>8
<1>10. Recurs(h, n, Buffers, SoftStart, step)
  BY <1>3, <1>5, <1>9 DEF Recurs
<1>11. \E f : Makes(f, n, Buffers, SoftStart, step, h[1 .. n])
  BY <1>0, <1>1, <1>2, <1>10, IterTrace
<1> QED
  BY <1>1, <1>8, <1>11 DEF n, step

LEMMA FragsAre ==
  ASSUME NEW s \in Sentences
  PROVE  s.frags \in Seq(Nat) /\ s.frags \in Seq(Nat \ {0}) /\ Len(s.frags) \in Nat /\ Len(s.frags) > 0
  BY SentencesAssumption

\* The soft pieces of a sentence are all of it, in its order.
LEMMA SoftPiecesTile ==
  ASSUME NEW s \in Sentences
  PROVE  Tiles(SoftPieces(s), 0, Letters(s)) /\ SoftPieces(s) # <<>> /\ Letters(s) \in Nat \ {0}
<1> DEFINE n == Len(s.frags)
           fr == s.frags
<1>1. fr \in Seq(Nat) /\ n \in Nat /\ n > 0 /\ \A k \in 1 .. n : fr[k] \in Nat \ {0}
  BY FragsAre
<1>2. PICK f : Makes(f, n, Buffers, SoftStart, Buffering(fr), FoldLeft(SoftStep, SoftStart, fr))
  BY <1>1, SoftTrace
<1>3. PICK g : Sums(g, fr) /\ Total(fr) = g[n]
  BY <1>1, SumsExist
<1> HIDE DEF fr, n
<1>4. f \in [0 .. n -> Buffers] /\ Trace(f, n, SoftStart, Buffering(fr)) /\ f[n] = FoldLeft(SoftStep, SoftStart, fr)
  BY <1>2 DEF Makes
<1>5. g \in [0 .. n -> Nat] /\ g[0] = 0 /\ \A k \in 1 .. n : g[k] = g[k - 1] + fr[k]
  BY <1>3 DEF Sums, n, fr
<1>6. ASSUME NEW k \in 1 .. n PROVE f[k] = SoftStep(f[k - 1], fr[k])
  <2>1. k - 1 \in 0 .. n /\ f[k - 1] \in Buffers
    <3>1. k - 1 \in 0 .. n
      BY <1>1
    <3> QED
      BY <1>4, <3>1
  <2>2. f[k] = Buffering(fr)[<<f[k - 1], k>>]
    BY <1>4 DEF Trace
  <2>3. k \in 1 .. Len(fr)
    BY DEF n, fr
  <2> QED
    BY <1>1, <2>1, <2>2, <2>3, BufferingIs
<1> DEFINE Good(k) == /\ Tiles(f[k].pieces, 0, f[k].from)
                      /\ f[k].to = g[k]
                      /\ IF k = 0 THEN f[k].from = 0 ELSE f[k].from < f[k].to
           S == {k \in 0 .. n : Good(k)}
<1>7. Good(0)
  <2>1. f[0] = SoftStart
    BY <1>4 DEF Trace
  <2> QED
    BY <1>5, <2>1 DEF SoftStart, Tiles
<1>8. ASSUME NEW k \in 1 .. n, Good(k - 1) PROVE Good(k)
  <2>1. k - 1 \in 0 .. n /\ k \in 0 .. n
    BY <1>1
  <2>2. PICK acc \in Buffers : acc = f[k - 1]
    BY <1>4, <2>1
  <2>3. acc.pieces \in Seq(Nat \X Nat) /\ acc.from \in Nat /\ acc.to \in Nat
    BY DEF Buffers
  <2>4. PICK m \in Nat : m = fr[k] /\ m > 0
    BY <1>1
  <2>5. f[k] = SoftStep(acc, m) /\ g[k] = acc.to + m
    BY <1>5, <1>6, <1>8, <2>2, <2>4
  <2>6. Tiles(acc.pieces, 0, acc.from) /\ ((acc.from = 0 /\ acc.to = 0) \/ acc.from < acc.to)
    BY <1>5, <1>8, <2>2
  <2> DEFINE over == acc.to - acc.from + m >= Target
  <2>7. CASE ~over
    <3>1. f[k] = [acc EXCEPT !.to = @ + m]
      BY <2>5, <2>7 DEF SoftStep
    <3>2. f[k].pieces = acc.pieces /\ f[k].from = acc.from /\ f[k].to = acc.to + m
      BY <2>2, <3>1 DEF Buffers
    <3> QED
      BY <2>3, <2>4, <2>5, <2>6, <3>2
  <2>8. CASE over
    <3>1. f[k] = [pieces |-> IF acc.from = acc.to THEN acc.pieces ELSE Append(acc.pieces, <<acc.from, acc.to>>),
                  from |-> acc.to, to |-> acc.to + m]
      BY <2>5, <2>8 DEF SoftStep
    <3>2. f[k].from = acc.to /\ f[k].to = acc.to + m
          /\ f[k].pieces = IF acc.from = acc.to THEN acc.pieces ELSE Append(acc.pieces, <<acc.from, acc.to>>)
      BY <3>1
    <3>3. Tiles(f[k].pieces, 0, acc.to)
      <4>1. CASE acc.from = acc.to
        BY <2>6, <3>2, <4>1
      <4>2. CASE acc.from # acc.to
        <5>1. acc.from < acc.to
          BY <2>6, <4>2
        <5> QED
          BY <2>3, <2>6, <3>2, <4>2, <5>1, TilesAppend
      <4> QED
        BY <4>1, <4>2
    <3>4. k # 0 /\ acc.to < acc.to + m
      BY <2>3, <2>4
    <3> QED
      BY <2>5, <3>2, <3>3, <3>4
  <2> QED
    BY <2>7, <2>8
<1>9. 0 \in S
  BY <1>1, <1>7
<1>10. ASSUME NEW k \in 1 .. n, k - 1 \in S PROVE k \in S
  <2> HIDE DEF Good
  <2> QED
    BY <1>1, <1>8, <1>10
<1>11. n \in S
  <2> HIDE DEF S
  <2>1. n \in Nat /\ n \in 0 .. n
    BY <1>1
  <2>2. \A k \in 1 .. n : k - 1 \in S => k \in S
    BY <1>10
  <2>3. \A k \in 0 .. n : k \in S
    BY <1>9, <2>1, <2>2, UpTo
  <2> QED
    BY <2>1, <2>3
<1>12. Good(n)
  <2> HIDE DEF Good
  <2> QED
    BY <1>11
<1>13. PICK acc \in Buffers : acc = f[n]
  BY <1>1, <1>4
<1>14. SoftPieces(s) = Append(acc.pieces, <<acc.from, acc.to>>) /\ Letters(s) = acc.to
  BY <1>3, <1>4, <1>12, <1>13 DEF SoftPieces, Letters, fr, SoftStart
<1>15. acc.pieces \in Seq(Nat \X Nat) /\ acc.from \in Nat /\ acc.to \in Nat /\ acc.from < acc.to
       /\ Tiles(acc.pieces, 0, acc.from)
  BY <1>1, <1>12, <1>13 DEF Buffers
<1>16. Tiles(SoftPieces(s), 0, Letters(s))
  BY <1>14, <1>15, TilesAppend
<1> QED
  BY <1>14, <1>15, <1>16

Narrow(q) == \A k \in 1 .. Len(q) : q[k][2] - q[k][1] <= Target

\* What two sequences are one after the other.
Joint(q, r) ==
  /\ Len(q) \in Nat /\ Len(r) \in Nat /\ Len(q \o r) = Len(q) + Len(r)
  /\ \A k \in 1 .. Len(q) : (q \o r)[k] = q[k]
  /\ \A k \in 1 .. Len(r) : (q \o r)[Len(q) + k] = r[k]

LEMMA JointIs ==
  ASSUME NEW T, NEW q \in Seq(T), NEW r \in Seq(T)
  PROVE  Joint(q, r)
BY DEF Joint

\* A function on an interval from one is a sequence.
LEMMA SequenceIs ==
  ASSUME NEW T, NEW n \in Nat, NEW s \in [1 .. n -> T]
  PROVE  s \in Seq(T) /\ Len(s) = n /\ DOMAIN s = 1 .. n
OBVIOUS

\* Of two sequences without a piece that is too long, neither has one.
LEMMA NarrowConcat ==
  ASSUME NEW q \in Seq(Nat \X Nat), NEW r \in Seq(Nat \X Nat), Narrow(q), Narrow(r)
  PROVE  Narrow(q \o r)
<1> DEFINE t == q \o r
           m == Len(q)
           n == Len(r)
<1>a. Joint(q, r)
  BY JointIs
<1>1. m \in Nat /\ n \in Nat /\ Len(t) = m + n
  BY <1>a DEF Joint
<1>2. (\A k \in 1 .. m : t[k] = q[k]) /\ (\A k \in 1 .. n : t[m + k] = r[k])
  BY <1>a DEF Joint
<1>3. (\A k \in 1 .. m : q[k][2] - q[k][1] <= Target) /\ (\A k \in 1 .. n : r[k][2] - r[k][1] <= Target)
  BY DEF Narrow
<1> HIDE DEF t, m, n
<1>4. ASSUME NEW k \in 1 .. Len(t) PROVE t[k][2] - t[k][1] <= Target
  <2>1. CASE k \in 1 .. m
    BY <1>2, <1>3, <2>1
  <2>2. CASE k \notin 1 .. m
    <3>1. k - m \in 1 .. n /\ m + (k - m) = k
      BY <1>1, <2>2
    <3>2. t[k] = r[k - m]
      BY <1>2, <3>1
    <3> QED
      BY <1>3, <3>1, <3>2
  <2> QED
    BY <2>1, <2>2
<1>5. Narrow(t)
  BY <1>4 DEF Narrow
<1> QED
  BY <1>5 DEF t

Joining(u) == [p \in Seq(Nat \X Nat) \X (1 .. Len(u)) |-> p[1] \o u[p[2]]]

JoinsUp(h, u) == h = [k \in 1 .. Len(u) |-> IF k = 1 THEN u[k] ELSE h[k - 1] \o u[k]]

LEMMA FlattenBy ==
  ASSUME NEW u, NEW g, Len(u) # 0, JoinsUp(g, u)
  PROVE  \E h : FlattenSeq(u) = h[Len(u)] /\ JoinsUp(h, u)
BY DEF FlattenSeq, JoinsUp

Flattens(h, u) ==
  /\ h[1] = u[1]
  /\ \A k \in 2 .. Len(u) : h[k] = h[k - 1] \o u[k]

\* Flattening a sequence of pieces is the end of a chain of concatenations.
LEMMA FlattenIs ==
  ASSUME NEW u \in Seq(Seq(Nat \X Nat)), u # <<>>
  PROVE  \E h : Flattens(h, u) /\ FlattenSeq(u) = h[Len(u)]
<1> DEFINE n == Len(u)
           T == Seq(Nat \X Nat)
           step == Joining(u)
<1>1. n \in Nat /\ n # 0 /\ 1 \in 1 .. n /\ \A k \in 1 .. n : u[k] \in T
  OBVIOUS
<1>2. \A a \in T, k \in 1 .. n : step[<<a, k>>] = a \o u[k]
  BY DEF Joining
<1>3. Closed(step, n, T)
  <2>1. \A a \in T, b \in T : a \o b \in T
    OBVIOUS
  <2>2. \A a \in T, k \in 1 .. n : step[<<a, k>>] \in T
    BY <1>1, <1>2, <2>1
  <2> QED
    BY <2>2 DEF Closed
<1>4. <<>> \in T /\ \A a \in T : <<>> \o a = a
  OBVIOUS
<1> HIDE DEF n, T, step
<1>5. PICK it \in [SUBSET (1 .. n) -> T] : Iterates(it, n, <<>>, step)
  BY <1>1, <1>3, <1>4, IterExists
<1>6. Recurs(it, n, T, <<>>, step)
  BY <1>5 DEF Iterates, Recurs
<1>7. PICK f : Makes(f, n, T, <<>>, step, it[1 .. n])
  BY <1>1, <1>3, <1>4, <1>6, IterTrace
<1>8. f \in [0 .. n -> T] /\ f[0] = <<>> /\ \A k \in 1 .. n : f[k] = step[<<f[k - 1], k>>]
  BY <1>7 DEF Makes, Trace
<1>9. ASSUME NEW k \in 1 .. n PROVE f[k] = IF k = 1 THEN u[k] ELSE f[k - 1] \o u[k]
  <2>1. k - 1 \in 0 .. n
    BY <1>1
  <2>2. f[k] = f[k - 1] \o u[k]
    BY <1>2, <1>8, <2>1
  <2>3. k = 1 => f[k - 1] = <<>>
    BY <1>8
  <2> QED
    BY <1>1, <1>4, <2>2, <2>3
<1> DEFINE g == [k \in 1 .. n |-> f[k]]
<1>10. ASSUME NEW k \in 1 .. n PROVE g[k] = IF k = 1 THEN u[k] ELSE g[k - 1] \o u[k]
  <2>1. k # 1 => k - 1 \in 1 .. n
    BY <1>1
  <2> QED
    BY <1>9, <2>1
<1>11. g = [k \in 1 .. n |-> g[k]]
  OBVIOUS
<1> HIDE DEF g
<1>12. g = [k \in 1 .. n |-> IF k = 1 THEN u[k] ELSE g[k - 1] \o u[k]]
  BY <1>10, <1>11
<1>13. Len(u) # 0 /\ JoinsUp(g, u)
  BY <1>1, <1>12 DEF n, JoinsUp
<1>14. PICK h : FlattenSeq(u) = h[Len(u)] /\ JoinsUp(h, u)
  BY <1>13, FlattenBy
<1>15. \A k \in 1 .. n : h[k] = IF k = 1 THEN u[k] ELSE h[k - 1] \o u[k]
  BY <1>14 DEF JoinsUp, n
<1>16. h[1] = u[1] /\ \A k \in 2 .. n : h[k] = h[k - 1] \o u[k]
  <2>1. \A k \in 2 .. n : k \in 1 .. n /\ k # 1
    OBVIOUS
  <2> QED
    BY <1>1, <1>15, <2>1
<1> QED
  BY <1>14, <1>16 DEF n, Flattens

\* The pieces that are indexed are all of the sentence too, and none is too long.
LEMMA PiecesTile ==
  ASSUME NEW s \in Sentences
  PROVE  Tiles(Pieces(s), 0, Letters(s)) /\ Narrow(Pieces(s)) /\ Pieces(s) # <<>>
<1> DEFINE soft == SoftPieces(s)
           n == Len(soft)
           hard == [k \in DOMAIN soft |-> HardCut(soft[k])]
<1>1. Tiles(soft, 0, Letters(s)) /\ soft # <<>> /\ Letters(s) \in Nat
  BY SoftPiecesTile
<1>2. Pieces(s) = FlattenSeq(hard)
  BY DEF Pieces
<1> HIDE DEF soft
<1>3. soft \in Seq(Nat \X Nat) /\ n \in Nat /\ n # 0 /\ DOMAIN soft = 1 .. n
  BY <1>1 DEF Tiles
<1>4. ASSUME NEW k \in 1 .. n
      PROVE  /\ soft[k] \in Nat \X Nat /\ soft[k][1] \in Nat /\ soft[k][2] \in Nat
             /\ Tiles(hard[k], soft[k][1], soft[k][2]) /\ Narrow(hard[k])
             /\ hard[k] \in Seq(Nat \X Nat) /\ hard[k] # <<>>
  <2>1. soft[k] \in Nat \X Nat
    BY <1>3
  <2>2. PICK a \in Nat, b \in Nat : soft[k] = <<a, b>>
    BY <2>1
  <2>3. a < b
    <3>1. soft[k][1] < soft[k][2]
      BY <1>1, <1>3 DEF Tiles
    <3>2. soft[k][1] = a /\ soft[k][2] = b
      BY <2>2
    <3> QED
      BY <3>1, <3>2
  <2>4. hard[k] = HardCut(<<a, b>>)
    BY <1>3, <2>2
  <2>5. Tiles(hard[k], a, b) /\ Narrow(hard[k])
    BY <2>3, <2>4, HardCutTiles DEF Narrow
  <2>6. hard[k] \in Seq(Nat \X Nat) /\ hard[k] # <<>>
    BY <2>3, <2>5 DEF Tiles
  <2> QED
    BY <2>1, <2>2, <2>5, <2>6
<1>5. hard \in Seq(Seq(Nat \X Nat)) /\ Len(hard) = n /\ hard # <<>>
  BY <1>3, <1>4
<1> HIDE DEF hard, n
<1>a. PICK h : Flattens(h, hard) /\ FlattenSeq(hard) = h[Len(hard)]
  BY <1>5, FlattenIs
<1>6. /\ FlattenSeq(hard) = h[n]
      /\ h[1] = hard[1]
      /\ \A k \in 2 .. n : h[k] = h[k - 1] \o hard[k]
  BY <1>5, <1>a DEF Flattens
<1> DEFINE Good(k) == k = 0 \/ (Tiles(h[k], 0, soft[k][2]) /\ Narrow(h[k]) /\ h[k] # <<>>)
           S == {k \in 0 .. n : Good(k)}
<1>7. 0 \in S
  BY <1>3
<1>8. ASSUME NEW k \in 1 .. n, Good(k - 1) PROVE Good(k)
  <2>1. CASE k = 1
    <3>1. soft[1][1] = 0
      BY <1>1 DEF Tiles
    <3> QED
      BY <1>4, <1>6, <2>1, <3>1
  <2>2. CASE k # 1
    <3>1. k \in 2 .. n /\ k - 1 \in 1 .. n /\ k - 1 \in 1 .. n - 1 /\ k - 1 # 0 /\ (k - 1) + 1 = k
      BY <1>3, <2>2
    <3>2. h[k] = h[k - 1] \o hard[k]
      BY <1>6, <3>1
    <3>3. soft[k - 1][2] = soft[k][1]
      BY <1>1, <3>1 DEF Tiles, n
    <3>4. Tiles(h[k - 1], 0, soft[k - 1][2]) /\ Narrow(h[k - 1]) /\ h[k - 1] # <<>>
      BY <1>8, <3>1
    <3>5. h[k - 1] \in Seq(Nat \X Nat)
      BY <3>4 DEF Tiles
    <3>6. soft[k - 1][2] \in Nat /\ soft[k][2] \in Nat /\ soft[k][1] \in Nat
      BY <1>4, <3>1
    <3>7. Tiles(hard[k], soft[k][1], soft[k][2]) /\ Narrow(hard[k]) /\ hard[k] \in Seq(Nat \X Nat)
      BY <1>4
    <3>8. Tiles(h[k], 0, soft[k][2])
      BY <3>2, <3>3, <3>4, <3>6, <3>7, TilesConcat
    <3>9. Narrow(h[k])
      BY <3>2, <3>4, <3>5, <3>7, NarrowConcat
    <3>10. h[k] # <<>>
      BY <3>2, <3>4, <3>5, <3>7
    <3> QED
      BY <3>8, <3>9, <3>10
  <2> QED
    BY <2>1, <2>2
<1>9. ASSUME NEW k \in 1 .. n, k - 1 \in S PROVE k \in S
  <2> HIDE DEF Good
  <2> QED
    BY <1>3, <1>8, <1>9
<1>10. n \in S
  <2> HIDE DEF S
  <2>1. n \in Nat /\ n \in 0 .. n
    BY <1>3
  <2>2. \A k \in 1 .. n : k - 1 \in S => k \in S
    BY <1>9
  <2>3. \A k \in 0 .. n : k \in S
    BY <1>7, <2>1, <2>2, UpTo
  <2> QED
    BY <2>1, <2>3
<1>11. Good(n)
  <2> HIDE DEF Good
  <2> QED
    BY <1>10
<1>12. soft[n][2] = Letters(s)
  BY <1>1 DEF Tiles, n
<1> QED
  BY <1>2, <1>3, <1>6, <1>11, <1>12

----
(* The chunks of a document d *)

LEMMA CharsAre ==
  ASSUME NEW s \in Sentences
  PROVE  Letters(s) \in Nat \ {0} /\ Chars(s) \in Nat \ {0}
BY SoftPiecesTile, FragsAre DEF Chars

SpanSet  == [unit : Nat, from : Nat, to : Nat, cut : BOOLEAN]
Locs     == {s.loc : s \in Sentences}
ChunkSet == [label : Locs \X Locs, body : Seq(SpanSet)]

WholeOf(d, i) == [unit |-> i, from |-> 0, to |-> Letters(d[i]), cut |-> FALSE]
FirstOf(c) == c.body[1]
LastSpan(c) == c.body[Len(c.body)]

SpanLength(d, p) == IF p.cut THEN p.to - p.from ELSE Chars(d[p.unit])
TextChars(d, c) == Total([k \in DOMAIN c.body |-> SpanLength(d, c.body[k])]) + Len(c.body) - 1

\* A piece of a sentence that is too long, or whole sentences of one kind in a row.
IsCut(c) == Len(c.body) = 1 /\ FirstOf(c).cut /\ FirstOf(c).from < FirstOf(c).to
IsWhole(d, c) ==
  /\ FirstOf(c).unit <= LastSpan(c).unit
  /\ Len(c.body) = LastSpan(c).unit - FirstOf(c).unit + 1
  /\ \A j \in 1 .. Len(c.body) :
       /\ c.body[j] = WholeOf(d, FirstOf(c).unit + j - 1)
       /\ ~IsLong(d[c.body[j].unit])
       /\ d[c.body[j].unit].kind = d[FirstOf(c).unit].kind

Shaped(d, c) ==
  /\ c.body # <<>>
  /\ \A j \in 1 .. Len(c.body) : c.body[j].unit \in 1 .. Len(d)
  /\ TextChars(d, c) \in Nat /\ TextChars(d, c) <= Target
  /\ IsCut(c) \/ IsWhole(d, c)

\* q comes next after p in d.
Adjoins(d, p, q) == \/ q.unit = p.unit /\ q.from = p.to
                    \/ q.unit = p.unit + 1 /\ q.from = 0 /\ p.to = Letters(d[p.unit])

\* The chunk e begins with sentences at the end of c, or right behind it.
Overlaps(d, c, e) ==
  /\ IsWhole(d, c) /\ IsWhole(d, e)
  /\ FirstOf(c).unit <= FirstOf(e).unit /\ FirstOf(e).unit <= LastSpan(c).unit
  /\ LastSpan(c).unit < LastSpan(e).unit
  /\ LastSpan(c).unit - FirstOf(e).unit + 1 <= Overlap
Link(d, c, e) == Adjoins(d, LastSpan(c), FirstOf(e)) \/ Overlaps(d, c, e)

\* No room was left in c for the sentence behind it, or it is of another kind.
Filled(d, c) ==
  ~LastSpan(c).cut =>
    /\ LastSpan(c).unit + 1 \in 1 .. Len(d)
    /\ d[LastSpan(c).unit + 1].kind = d[FirstOf(c).unit].kind =>
         TextChars(d, c) + 1 + Chars(d[LastSpan(c).unit + 1]) >= Target

Links(d, q) ==
  /\ q \in Seq(ChunkSet)
  /\ \A k \in 1 .. Len(q) : Shaped(d, q[k])
  /\ \A k \in 1 .. Len(q) - 1 : Link(d, q[k], q[k + 1]) /\ Filled(d, q[k])

Covers(d, q) ==
  /\ q = <<>> => d = <<>>
  /\ q # <<>> => /\ d # <<>>
                 /\ FirstOf(q[1]).unit = 1 /\ FirstOf(q[1]).from = 0
                 /\ LastSpan(q[Len(q)]).unit = Len(d) /\ LastSpan(q[Len(q)]).to = Letters(d[Len(d)])

LEMMA SpansAre ==
  ASSUME NEW c \in ChunkSet, c.body # <<>>
  PROVE  /\ c.body \in Seq(SpanSet) /\ Len(c.body) \in Nat /\ Len(c.body) > 0 /\ DOMAIN c.body = 1 .. Len(c.body)
         /\ \A j \in 1 .. Len(c.body) :
              /\ c.body[j] \in SpanSet /\ c.body[j].unit \in Nat /\ c.body[j].from \in Nat
              /\ c.body[j].to \in Nat /\ c.body[j].cut \in BOOLEAN
         /\ FirstOf(c) \in SpanSet /\ LastSpan(c) \in SpanSet
<1>1. c.body \in Seq(SpanSet) /\ Len(c.body) \in Nat /\ Len(c.body) > 0 /\ DOMAIN c.body = 1 .. Len(c.body)
  BY DEF ChunkSet
<1>2. \A j \in 1 .. Len(c.body) : c.body[j] \in SpanSet
  BY <1>1
<1>3. 1 \in 1 .. Len(c.body) /\ Len(c.body) \in 1 .. Len(c.body)
  BY <1>1
<1>4. \A p \in SpanSet : p.unit \in Nat /\ p.from \in Nat /\ p.to \in Nat /\ p.cut \in BOOLEAN
  BY DEF SpanSet
<1> QED
  BY <1>1, <1>2, <1>3, <1>4 DEF FirstOf, LastSpan

LEMMA ChunkIsIn ==
  ASSUME NEW d, NEW q, Links(d, q), NEW k \in 1 .. Len(q)
  PROVE  q[k] \in ChunkSet /\ q[k].body # <<>> /\ Shaped(d, q[k])
BY DEF Links, Shaped

\* Two runs of chunks that are linked, the second following the first, are linked as one.
LEMMA LinksConcat ==
  ASSUME NEW d, NEW q, NEW r, Links(d, q), Links(d, r),
         q # <<>> /\ r # <<>> => Link(d, q[Len(q)], r[1]) /\ Filled(d, q[Len(q)])
  PROVE  Links(d, q \o r)
<1> DEFINE t == q \o r
           m == Len(q)
           n == Len(r)
<1>1. q \in Seq(ChunkSet) /\ r \in Seq(ChunkSet) /\ m \in Nat /\ n \in Nat
  BY DEF Links
<1>2. t \in Seq(ChunkSet) /\ Len(t) = m + n
  BY <1>1
<1>3. (\A k \in 1 .. m : t[k] = q[k]) /\ (\A k \in 1 .. n : t[m + k] = r[k])
  BY <1>1
<1>4. m # 0 /\ n # 0 => Link(d, q[m], r[1]) /\ Filled(d, q[m])
  BY <1>1
<1>5. /\ \A k \in 1 .. m : Shaped(d, q[k])
      /\ \A k \in 1 .. m - 1 : Link(d, q[k], q[k + 1]) /\ Filled(d, q[k])
      /\ \A k \in 1 .. n : Shaped(d, r[k])
      /\ \A k \in 1 .. n - 1 : Link(d, r[k], r[k + 1]) /\ Filled(d, r[k])
  BY DEF Links
<1> HIDE DEF t, m, n
<1>7. ASSUME NEW k \in 1 .. Len(t) PROVE k \in 1 .. m \/ k - m \in 1 .. n
  BY <1>1, <1>2
<1>8. ASSUME NEW k \in 1 .. Len(t), k \notin 1 .. m PROVE t[k] = r[k - m]
  <2>1. k - m \in 1 .. n /\ m + (k - m) = k
    BY <1>1, <1>7, <1>8
  <2> QED
    BY <1>3, <2>1
<1>9. ASSUME NEW k \in 1 .. Len(t) PROVE Shaped(d, t[k])
  <2>1. CASE k \in 1 .. m
    BY <1>3, <1>5, <2>1
  <2>2. CASE k \notin 1 .. m
    <3>1. t[k] = r[k - m] /\ k - m \in 1 .. n
      BY <1>7, <1>8, <2>2
    <3> QED
      BY <1>5, <3>1
  <2> QED
    BY <2>1, <2>2
<1>10. ASSUME NEW k \in 1 .. Len(t) - 1 PROVE Link(d, t[k], t[k + 1]) /\ Filled(d, t[k])
  <2>1. k \in 1 .. Len(t) /\ k + 1 \in 1 .. Len(t)
    BY <1>1, <1>2
  <2>2. CASE k + 1 \in 1 .. m
    <3>1. k \in 1 .. m - 1 /\ k \in 1 .. m
      BY <1>1, <2>1, <2>2
    <3> QED
      BY <1>3, <1>5, <2>2, <3>1
  <2>3. CASE k = m
    <3>1. m # 0 /\ n # 0 /\ k \in 1 .. m /\ k + 1 \notin 1 .. m /\ (k + 1) - m = 1
      BY SMTT(30), <1>1, <1>2, <2>1, <2>3
    <3>2. t[k + 1] = r[1] /\ t[k] = q[m]
      BY <1>3, <1>8, <2>1, <2>3, <3>1
    <3> QED
      BY <1>4, <3>1, <3>2
  <2>4. CASE k \notin 1 .. m
    <3>1. k + 1 \notin 1 .. m /\ k - m \in 1 .. n - 1 /\ (k + 1) - m = (k - m) + 1
      BY <1>1, <1>2, <2>1, <2>4
    <3>2. t[k] = r[k - m] /\ t[k + 1] = r[(k - m) + 1]
      BY <1>8, <2>1, <2>4, <3>1
    <3> QED
      BY <1>5, <3>1, <3>2
  <2> QED
    BY <1>1, <2>1, <2>2, <2>3, <2>4
<1>13. Links(d, t)
  BY <1>2, <1>9, <1>10 DEF Links
<1> QED
  BY <1>13 DEF t

\* One sentence more does not change what was.
LEMMA DocGrows ==
  ASSUME NEW d \in Seq(Sentences), NEW s \in Sentences
  PROVE  /\ Append(d, s) \in Seq(Sentences) /\ Len(Append(d, s)) = Len(d) + 1 /\ Len(d) \in Nat
         /\ Append(d, s)[Len(d) + 1] = s
         /\ \A i \in 1 .. Len(d) : Append(d, s)[i] = d[i] /\ d[i] \in Sentences /\ i \in 1 .. Len(d) + 1
OBVIOUS

\* A sentence read later changes nothing about a chunk that was written.
LEMMA ShapeGrows ==
  ASSUME NEW d \in Seq(Sentences), NEW s \in Sentences, NEW c \in ChunkSet, Shaped(d, c)
  PROVE  /\ Shaped(Append(d, s), c) /\ TextChars(Append(d, s), c) = TextChars(d, c)
         /\ IsWhole(d, c) => IsWhole(Append(d, s), c)
<1> DEFINE e == Append(d, s)
<1>1. /\ e \in Seq(Sentences) /\ Len(e) = Len(d) + 1 /\ Len(d) \in Nat
      /\ \A i \in 1 .. Len(d) : e[i] = d[i] /\ d[i] \in Sentences /\ i \in 1 .. Len(d) + 1
  BY DocGrows
<1> HIDE DEF e
<1>2. c.body # <<>> /\ DOMAIN c.body = 1 .. Len(c.body) /\ \A j \in 1 .. Len(c.body) : c.body[j].unit \in 1 .. Len(d)
  BY SpansAre DEF Shaped
<1>3. [k \in DOMAIN c.body |-> SpanLength(e, c.body[k])] = [k \in DOMAIN c.body |-> SpanLength(d, c.body[k])]
  BY <1>1, <1>2 DEF SpanLength
<1>4. TextChars(e, c) = TextChars(d, c)
  BY <1>3 DEF TextChars
<1>5. ASSUME IsWhole(d, c) PROVE IsWhole(e, c)
  <2>1. 1 \in 1 .. Len(c.body)
    BY SpansAre, <1>2
  <2>2. ASSUME NEW j \in 1 .. Len(c.body)
        PROVE  /\ c.body[j] = WholeOf(e, FirstOf(c).unit + j - 1)
               /\ ~IsLong(e[c.body[j].unit])
               /\ e[c.body[j].unit].kind = e[FirstOf(c).unit].kind
    <3>1. c.body[j] = WholeOf(d, FirstOf(c).unit + j - 1)
      BY <1>5 DEF IsWhole
    <3>2. c.body[j].unit = FirstOf(c).unit + j - 1
      BY <3>1 DEF WholeOf
    <3>3. FirstOf(c).unit \in 1 .. Len(d) /\ c.body[j].unit \in 1 .. Len(d)
      BY <1>2, <2>1 DEF FirstOf
    <3> QED
      BY <1>1, <1>5, <3>1, <3>2, <3>3 DEF IsWhole, WholeOf
  <2> QED
    BY <1>5, <2>2 DEF IsWhole
<1>6. \A j \in 1 .. Len(c.body) : c.body[j].unit \in 1 .. Len(e)
  BY <1>1, <1>2
<1>7. Shaped(e, c)
  BY <1>2, <1>4, <1>5, <1>6 DEF Shaped
<1> QED
  BY <1>4, <1>5, <1>7 DEF e

\* ... nor about how chunks follow one another.
LEMMA LinksGrow ==
  ASSUME NEW d \in Seq(Sentences), NEW s \in Sentences, NEW q, Links(d, q)
  PROVE  Links(Append(d, s), q)
<1> DEFINE e == Append(d, s)
<1>1. /\ e \in Seq(Sentences) /\ Len(e) = Len(d) + 1 /\ Len(d) \in Nat
      /\ \A i \in 1 .. Len(d) : e[i] = d[i] /\ d[i] \in Sentences /\ i \in 1 .. Len(d) + 1
  BY DocGrows
<1>2. ASSUME NEW c \in ChunkSet, Shaped(d, c)
      PROVE  /\ Shaped(e, c) /\ TextChars(e, c) = TextChars(d, c) /\ (IsWhole(d, c) => IsWhole(e, c))
             /\ FirstOf(c).unit \in 1 .. Len(d) /\ LastSpan(c).unit \in 1 .. Len(d)
  <2>1. Shaped(e, c) /\ TextChars(e, c) = TextChars(d, c) /\ (IsWhole(d, c) => IsWhole(e, c))
    BY <1>2, ShapeGrows
  <2>2. c.body # <<>> /\ \A j \in 1 .. Len(c.body) : c.body[j].unit \in 1 .. Len(d)
    BY <1>2 DEF Shaped
  <2>3. 1 \in 1 .. Len(c.body) /\ Len(c.body) \in 1 .. Len(c.body)
    BY <2>2, SpansAre
  <2> QED
    BY <2>1, <2>2, <2>3 DEF FirstOf, LastSpan
<1> HIDE DEF e
<1>3. q \in Seq(ChunkSet) /\ Len(q) \in Nat
  BY DEF Links
<1>4. ASSUME NEW k \in 1 .. Len(q) PROVE q[k] \in ChunkSet /\ Shaped(d, q[k])
  BY ChunkIsIn
<1>5. ASSUME NEW k \in 1 .. Len(q) - 1 PROVE Link(e, q[k], q[k + 1]) /\ Filled(e, q[k])
  <2>1. k \in 1 .. Len(q) /\ k + 1 \in 1 .. Len(q)
    BY <1>3
  <2>2. PICK b \in ChunkSet, c \in ChunkSet : b = q[k] /\ c = q[k + 1]
    BY <1>4, <2>1
  <2>3. Shaped(d, b) /\ Shaped(d, c) /\ Link(d, b, c) /\ Filled(d, b)
    BY <1>4, <2>1, <2>2 DEF Links
  <2>4. /\ FirstOf(b).unit \in 1 .. Len(d) /\ LastSpan(b).unit \in 1 .. Len(d)
        /\ (IsWhole(d, b) => IsWhole(e, b)) /\ (IsWhole(d, c) => IsWhole(e, c))
        /\ TextChars(e, b) = TextChars(d, b)
    BY <1>2, <2>3
  <2>5. e[LastSpan(b).unit] = d[LastSpan(b).unit] /\ e[FirstOf(b).unit] = d[FirstOf(b).unit]
    BY <1>1, <2>4
  <2>6. Adjoins(d, LastSpan(b), FirstOf(c)) => Adjoins(e, LastSpan(b), FirstOf(c))
    BY <2>5 DEF Adjoins
  <2>7. Overlaps(d, b, c) => Overlaps(e, b, c)
    BY <2>4 DEF Overlaps
  <2>8. LastSpan(b).unit + 1 \in 1 .. Len(d) => /\ e[LastSpan(b).unit + 1] = d[LastSpan(b).unit + 1]
                                                /\ LastSpan(b).unit + 1 \in 1 .. Len(e)
    BY <1>1
  <2>9. Filled(e, b)
    BY <2>3, <2>4, <2>5, <2>8 DEF Filled
  <2> QED
    BY <2>2, <2>3, <2>6, <2>7, <2>9 DEF Link
<1>6. Links(e, q)
  BY <1>2, <1>3, <1>4, <1>5 DEF Links
<1> QED
  BY <1>6 DEF e

----
(* The chunk being filled: the last m sentences of d *)

Places(d, m) == [j \in 1 .. m |-> Len(d) - m + j]
WholeChunk(d, m) ==
  [label |-> <<d[Len(d) - m + 1].loc, d[Len(d)].loc>>,
   body  |-> [j \in 1 .. m |-> WholeOf(d, Len(d) - m + j)]]
PricedOf(d, ids) == Total([k \in DOMAIN ids |-> Chars(d[ids[k]]) + 1])
Sized(d, m) == [k \in 1 .. m |-> Chars(d[Len(d) - m + k]) + 1]

LEMMA PlacesAre ==
  ASSUME NEW d \in Seq(Sentences), NEW m \in 1 .. Len(d)
  PROVE  /\ Places(d, m) \in Seq(1 .. Len(d)) /\ Len(Places(d, m)) = m /\ Places(d, m) # <<>>
         /\ Head(Places(d, m)) = Len(d) - m + 1 /\ Last(Places(d, m)) = Len(d)
         /\ \A j \in 1 .. m : Len(d) - m + j \in 1 .. Len(d) /\ Places(d, m)[j] = Len(d) - m + j
<1>1. Len(d) \in Nat /\ m \in Nat /\ 1 \in 1 .. m /\ m \in 1 .. m
  OBVIOUS
<1>2. \A j \in 1 .. m : Len(d) - m + j \in 1 .. Len(d)
  BY <1>1
<1> DEFINE p == Places(d, m)
<1>3. p \in [1 .. m -> 1 .. Len(d)] /\ \A j \in 1 .. m : p[j] = Len(d) - m + j
  BY <1>2 DEF Places
<1> HIDE DEF p
<1>4. p \in Seq(1 .. Len(d)) /\ Len(p) = m /\ p # <<>>
  BY <1>1, <1>3
<1>5. Head(p) = p[1] /\ Last(p) = p[m]
  BY <1>4 DEF Last
<1>6. p[1] = Len(d) - m + 1 /\ p[m] = Len(d)
  BY <1>1, <1>3
<1> QED
  BY <1>2, <1>3, <1>4, <1>5, <1>6 DEF p

\* The chunk of the last m sentences has one span for each, in their order.
LEMMA WholeChunkIs ==
  ASSUME NEW d \in Seq(Sentences), NEW m \in 1 .. Len(d)
  PROVE  LET c == WholeChunk(d, m)
         IN /\ c \in ChunkSet /\ Len(c.body) = m /\ c.body # <<>>
            /\ \A j \in 1 .. m : c.body[j] = WholeOf(d, Len(d) - m + j) /\ c.body[j].unit = Len(d) - m + j
            /\ FirstOf(c).unit = Len(d) - m + 1 /\ FirstOf(c).from = 0
            /\ LastSpan(c).unit = Len(d) /\ LastSpan(c).to = Letters(d[Len(d)]) /\ ~LastSpan(c).cut
            /\ ~FirstOf(c).cut
<1> DEFINE c == WholeChunk(d, m)
<1>1. Len(d) \in Nat /\ m \in Nat /\ 1 \in 1 .. m /\ m \in 1 .. m
  OBVIOUS
<1>2. \A j \in 1 .. m : Len(d) - m + j \in 1 .. Len(d) /\ d[Len(d) - m + j] \in Sentences
  BY <1>1
<1>3. \A j \in 1 .. m : WholeOf(d, Len(d) - m + j) \in SpanSet
  BY <1>2, CharsAre DEF WholeOf, SpanSet
<1>4. c.body = [j \in 1 .. m |-> WholeOf(d, Len(d) - m + j)]
  BY DEF WholeChunk
<1>5. c.body \in Seq(SpanSet) /\ Len(c.body) = m /\ c.body # <<>>
  <2>1. c.body \in [1 .. m -> SpanSet]
    BY <1>3, <1>4
  <2> QED
    BY <1>1, <2>1
<1>6. c.label \in Locs \X Locs
  <2>1. c.label = <<d[Len(d) - m + 1].loc, d[Len(d)].loc>>
    BY DEF WholeChunk
  <2>2. d[Len(d) - m + 1] \in Sentences /\ d[Len(d)] \in Sentences
    BY <1>1
  <2> QED
    BY <2>1, <2>2 DEF Locs
<1>7. c \in ChunkSet
  BY <1>5, <1>6 DEF WholeChunk, ChunkSet
<1>8. \A j \in 1 .. m : c.body[j] = WholeOf(d, Len(d) - m + j)
  BY <1>4
<1>9. c.body[1] = WholeOf(d, Len(d) - m + 1) /\ c.body[m] = WholeOf(d, Len(d))
  <2>1. Len(d) - m + m = Len(d)
    BY <1>1
  <2> QED
    BY <1>1, <1>8, <2>1
<1> HIDE DEF c
<1>10. QED
  BY <1>5, <1>7, <1>8, <1>9 DEF WholeOf, FirstOf, LastSpan, c

\* What the last m sentences cost is the sum of their lengths, each with its newline.
LEMMA SizedIs ==
  ASSUME NEW d \in Seq(Sentences), NEW m \in 0 .. Len(d)
  PROVE  Sized(d, m) \in Seq(Nat) /\ PricedOf(d, Places(d, m)) = Total(Sized(d, m))
<1>1. Len(d) \in Nat /\ m \in Nat
  OBVIOUS
<1>2. \A j \in 1 .. m : Len(d) - m + j \in 1 .. Len(d) /\ d[Len(d) - m + j] \in Sentences
  BY <1>1
<1>3. \A j \in 1 .. m : Chars(d[Len(d) - m + j]) + 1 \in Nat
  BY <1>2, CharsAre
<1>4. Sized(d, m) \in [1 .. m -> Nat]
  BY <1>3 DEF Sized
<1>5. Sized(d, m) \in Seq(Nat)
  BY <1>1, <1>4
<1>6. DOMAIN Places(d, m) = 1 .. m /\ \A j \in 1 .. m : Places(d, m)[j] = Len(d) - m + j
  BY DEF Places
<1>7. [k \in DOMAIN Places(d, m) |-> Chars(d[Places(d, m)[k]]) + 1] = Sized(d, m)
  BY <1>6 DEF Sized
<1> QED
  BY <1>5, <1>7 DEF PricedOf

\* A chunk of whole sentences is as long as current_len says, less the blank behind it.
LEMMA WholeChunkChars ==
  ASSUME NEW d \in Seq(Sentences), NEW m \in 1 .. Len(d)
  PROVE  TextChars(d, WholeChunk(d, m)) = PricedOf(d, Places(d, m)) - 1
         /\ PricedOf(d, Places(d, m)) \in Nat \ {0}
<1>1. Len(d) \in Nat /\ m \in Nat /\ m # 0 /\ m \in 0 .. Len(d)
  OBVIOUS
<1>2. \A j \in 1 .. m : Len(d) - m + j \in 1 .. Len(d) /\ d[Len(d) - m + j] \in Sentences
  BY <1>1
<1> DEFINE c == WholeChunk(d, m)
           s == [k \in 1 .. m |-> Chars(d[Len(d) - m + k])]
           t == Sized(d, m)
<1>3. s \in Seq(Nat) /\ Len(s) = m
  <2>1. \A j \in 1 .. m : Chars(d[Len(d) - m + j]) \in Nat
    BY <1>2, CharsAre
  <2>2. s \in [1 .. m -> Nat]
    BY <2>1
  <2> HIDE DEF s
  <2> QED
    BY <1>1, <2>2
<1>4. t \in Seq(Nat) /\ PricedOf(d, Places(d, m)) = Total(t)
  BY <1>1, SizedIs
<1>5. Len(t) = m /\ \A k \in 1 .. m : t[k] = s[k] + 1
  BY <1>1 DEF Sized
<1>6. c.body = [j \in 1 .. m |-> WholeOf(d, Len(d) - m + j)] /\ Len(c.body) = m
  BY WholeChunkIs DEF WholeChunk
<1>7. [k \in DOMAIN c.body |-> SpanLength(d, c.body[k])] = s
  BY <1>6 DEF SpanLength, WholeOf
<1> HIDE DEF s, t, c
<1>8. Total(t) = Total(s) + Len(s)
  BY <1>3, <1>4, <1>5, TotalPlusOnes
<1>9. Total(s) \in Nat
  BY <1>3, TotalNat
<1>10. TextChars(d, c) = Total(s) + m - 1
  BY <1>6, <1>7 DEF TextChars
<1> QED
  BY <1>1, <1>3, <1>4, <1>8, <1>9, <1>10 DEF c

\* Of sentences of one kind, none too long, and within the target.
OneOf(d, m) ==
  /\ \A j \in 1 .. m : ~IsLong(d[Len(d) - m + j]) /\ d[Len(d) - m + j].kind = d[Len(d)].kind
  /\ PricedOf(d, Places(d, m)) <= Target + 1

LEMMA WholeChunkShape ==
  ASSUME NEW d \in Seq(Sentences), NEW m \in 1 .. Len(d), OneOf(d, m)
  PROVE  Shaped(d, WholeChunk(d, m)) /\ IsWhole(d, WholeChunk(d, m))
<1> DEFINE c == WholeChunk(d, m)
<1>1. /\ c \in ChunkSet /\ Len(c.body) = m /\ c.body # <<>>
      /\ \A j \in 1 .. m : c.body[j] = WholeOf(d, Len(d) - m + j) /\ c.body[j].unit = Len(d) - m + j
      /\ FirstOf(c).unit = Len(d) - m + 1 /\ LastSpan(c).unit = Len(d)
  BY WholeChunkIs
<1>2. TextChars(d, c) = PricedOf(d, Places(d, m)) - 1 /\ PricedOf(d, Places(d, m)) \in Nat \ {0}
  BY WholeChunkChars
<1> HIDE DEF c
<1>3. Len(d) \in Nat /\ m \in Nat /\ m >= 1 /\ Target \in Nat /\ 1 \in 1 .. m
  BY TargetAssumption
<1>4. TextChars(d, c) \in Nat /\ TextChars(d, c) <= Target
  <2>1. PICK n \in Nat : n = PricedOf(d, Places(d, m)) /\ n # 0
    BY <1>2
  <2> QED
    BY <1>2, <1>3, <2>1 DEF OneOf
<1>5. \A j \in 1 .. m : Len(d) - m + j \in 1 .. Len(d)
  BY <1>3
<1>6. \A j \in 1 .. m : Len(d) - m + j = FirstOf(c).unit + j - 1
  BY <1>1, <1>3
<1>7. ASSUME NEW j \in 1 .. m
      PROVE  /\ c.body[j] = WholeOf(d, FirstOf(c).unit + j - 1)
             /\ ~IsLong(d[c.body[j].unit])
             /\ d[c.body[j].unit].kind = d[FirstOf(c).unit].kind
  <2>1. c.body[j] = WholeOf(d, FirstOf(c).unit + j - 1) /\ ~IsLong(d[c.body[j].unit])
    BY <1>1, <1>6 DEF OneOf
  <2>2. d[c.body[j].unit].kind = d[Len(d)].kind /\ d[FirstOf(c).unit].kind = d[Len(d)].kind
    BY <1>1, <1>3 DEF OneOf
  <2> QED
    BY <2>1, <2>2
<1>8. IsWhole(d, c)
  BY <1>1, <1>3, <1>7 DEF IsWhole
<1>9. Shaped(d, c)
  BY <1>1, <1>4, <1>5, <1>8 DEF Shaped
<1> QED
  BY <1>8, <1>9 DEF c

LEMMA AppendIs ==
  ASSUME NEW S, NEW q \in Seq(S), NEW x
  PROVE  Append(q, x) = [j \in 1 .. Len(q) + 1 |-> IF j = Len(q) + 1 THEN x ELSE q[j]]
<1> DEFINE a == Append(q, x)
<1>1. q \in Seq(S \cup {x}) /\ x \in S \cup {x} /\ Len(q) \in Nat
  <2>1. q \in [1 .. Len(q) -> S] /\ Len(q) \in Nat
    OBVIOUS
  <2>2. q \in [1 .. Len(q) -> S \cup {x}]
    BY <2>1
  <2> QED
    BY <2>1, <2>2
<1>2. a \in Seq(S \cup {x}) /\ Len(a) = Len(q) + 1 /\ a[Len(q) + 1] = x
      /\ \A i \in 1 .. Len(q) : a[i] = q[i]
  BY <1>1
<1> HIDE DEF a
<1>3. a = [j \in 1 .. Len(q) + 1 |-> a[j]]
  BY <1>1, <1>2
<1>4. \A j \in 1 .. Len(q) + 1 : a[j] = IF j = Len(q) + 1 THEN x ELSE q[j]
  BY <1>1, <1>2
<1>5. a = [j \in 1 .. Len(q) + 1 |-> IF j = Len(q) + 1 THEN x ELSE q[j]]
  BY <1>3, <1>4
<1> QED
  BY <1>5 DEF a

\* One sentence more, at its end.
LEMMA PricedAppend ==
  ASSUME NEW d \in Seq(Sentences), NEW s \in Sentences, NEW m \in 0 .. Len(d)
  PROVE  /\ Places(Append(d, s), m + 1) = Append(Places(d, m), Len(d) + 1)
         /\ PricedOf(Append(d, s), Places(Append(d, s), m + 1)) = PricedOf(d, Places(d, m)) + (Chars(s) + 1)
<1> DEFINE e == Append(d, s)
<1>1. /\ e \in Seq(Sentences) /\ Len(e) = Len(d) + 1 /\ Len(d) \in Nat /\ m \in Nat
      /\ e[Len(d) + 1] = s
      /\ \A i \in 1 .. Len(d) : e[i] = d[i] /\ d[i] \in Sentences
  BY DocGrows
<1> HIDE DEF e
<1>2. \A j \in 1 .. m + 1 : Len(e) - (m + 1) + j = Len(d) - m + j
  BY <1>1
<1>3. \A j \in 1 .. m : Len(d) - m + j \in 1 .. Len(d)
  BY <1>1
<1>4. Places(d, m) \in [1 .. m -> 1 .. Len(d)]
  BY <1>3 DEF Places
<1>5. Places(d, m) \in Seq(1 .. Len(d)) /\ Len(Places(d, m)) = m
  BY <1>1, <1>4
<1>6. Places(e, m + 1) = [j \in 1 .. m + 1 |-> Len(d) - m + j]
  BY <1>2 DEF Places
<1>7. Places(e, m + 1) = Append(Places(d, m), Len(d) + 1)
  <2>1. Append(Places(d, m), Len(d) + 1) = [j \in 1 .. m + 1 |-> IF j = m + 1 THEN Len(d) + 1 ELSE Places(d, m)[j]]
    BY <1>5, AppendIs
  <2>2. \A j \in 1 .. m + 1 : IF j = m + 1 THEN Len(d) - m + j = Len(d) + 1
                              ELSE Len(d) - m + j = Places(d, m)[j]
    BY <1>1 DEF Places
  <2> QED
    BY <1>6, <2>1, <2>2
<1>8. Sized(d, m) \in Seq(Nat) /\ PricedOf(d, Places(d, m)) = Total(Sized(d, m)) /\ Len(Sized(d, m)) = m
  <2>1. Len(Sized(d, m)) = m
    BY <1>1 DEF Sized
  <2> QED
    BY <2>1, SizedIs
<1>9. m + 1 \in 0 .. Len(e)
  BY <1>1
<1>10. Sized(e, m + 1) \in Seq(Nat) /\ PricedOf(e, Places(e, m + 1)) = Total(Sized(e, m + 1))
  BY <1>1, <1>9, SizedIs
<1>11. Chars(s) + 1 \in Nat
  BY CharsAre
<1>12. Sized(e, m + 1) = Append(Sized(d, m), Chars(s) + 1)
  <2>1. Append(Sized(d, m), Chars(s) + 1) = [j \in 1 .. m + 1 |-> IF j = m + 1 THEN Chars(s) + 1 ELSE Sized(d, m)[j]]
    BY <1>8, AppendIs
  <2>2. Sized(e, m + 1) = [j \in 1 .. m + 1 |-> Chars(e[Len(d) - m + j]) + 1]
    BY <1>2 DEF Sized
  <2>3. \A j \in 1 .. m + 1 : j # m + 1 => j \in 1 .. m /\ e[Len(d) - m + j] = d[Len(d) - m + j]
    BY SMTT(30), <1>1, <1>3
  <2>4. Len(d) - m + (m + 1) = Len(d) + 1
    BY <1>1
  <2>5. \A j \in 1 .. m + 1 : IF j = m + 1 THEN Chars(e[Len(d) - m + j]) + 1 = Chars(s) + 1
                              ELSE Chars(e[Len(d) - m + j]) + 1 = Sized(d, m)[j]
    BY <1>1, <2>3, <2>4 DEF Sized
  <2> QED
    BY <2>1, <2>2, <2>5
<1>13. Total(Append(Sized(d, m), Chars(s) + 1)) = Total(Sized(d, m)) + (Chars(s) + 1)
  BY <1>8, <1>11, TotalAppend
<1> QED
  BY <1>7, <1>8, <1>10, <1>12, <1>13 DEF e

----
(* The inductive invariant of the chunks *)

FlushedOf(d, q, m) == IF m = 0 THEN q ELSE Append(q, WholeChunk(d, m))

\* The m sentences that wait make a chunk, which would continue the chunks flushed; behind
\* a sentence that was cut, nothing waits.
Waiting(d, q, m, n) ==
  /\ m \in 0 .. Len(d)
  /\ n = PricedOf(d, Places(d, m))
  /\ m # 0 => OneOf(d, m)
  /\ Links(d, FlushedOf(d, q, m)) /\ q \in Seq(ChunkSet)
  /\ Covers(d, FlushedOf(d, q, m))

ChunkInv ==
  /\ doc \in Seq(Sentences) /\ reading \in BOOLEAN
  /\ current = Places(doc, Len(current))
  /\ Waiting(doc, chunks, Len(current), length)
  /\ ~reading => current = <<>>
  /\ reading /\ current = <<>> /\ chunks # <<>> => LastSpan(chunks[Len(chunks)]).cut

LEMMA FlushedIs ==
  ASSUME doc \in Seq(Sentences), current = Places(doc, Len(current)), Len(current) \in 0 .. Len(doc)
  PROVE  Flushed = FlushedOf(doc, chunks, Len(current)) /\ (current = <<>> <=> Len(current) = 0)
<1> DEFINE m == Len(current)
<1>1. m \in Nat /\ Len(doc) \in Nat
  OBVIOUS
<1>2. CASE m = 0
  <2>1. current = <<>>
    BY <1>2 DEF Places
  <2> QED
    BY <1>2, <2>1 DEF Flushed, FlushedOf
<1>3. CASE m # 0
  <2>1. m \in 1 .. Len(doc)
    BY <1>1, <1>3
  <2>2. /\ current # <<>> /\ Head(current) = Len(doc) - m + 1 /\ Last(current) = Len(doc)
        /\ \A j \in 1 .. m : current[j] = Len(doc) - m + j
    BY <2>1, PlacesAre
  <2>3. DOMAIN current = 1 .. m
    BY DEF Places
  <2>4. [k \in DOMAIN current |-> Whole(current[k])] = [j \in 1 .. m |-> WholeOf(doc, Len(doc) - m + j)]
    BY <2>2, <2>3 DEF Whole, WholeOf
  <2> QED
    BY <1>3, <2>2, <2>4 DEF Flushed, FlushedOf, WholeChunk, Label
<1> QED
  BY <1>2, <1>3

LEMMA PricedIs ==
  ASSUME NEW m, current = Places(doc, m)
  PROVE  Priced(current) = PricedOf(doc, Places(doc, m))
BY DEF Priced, PricedOf

LEMMA EmptyPriced ==
  ASSUME NEW d \in Seq(Sentences)
  PROVE  PricedOf(d, Places(d, 0)) = 0 /\ Places(d, 0) = <<>> /\ Len(Places(d, 0)) = 0
<1>1. Places(d, 0) = <<>>
  BY DEF Places
<1>2. [k \in DOMAIN Places(d, 0) |-> Chars(d[Places(d, 0)[k]]) + 1] = <<>>
  BY <1>1
<1> QED
  BY <1>1, <1>2, TotalEmpty DEF PricedOf

\* A chunk of the last m + 1 sentences that continues the chunks q.
LEMMA Continues ==
  ASSUME NEW d \in Seq(Sentences), NEW s \in Sentences, NEW q, NEW m \in 0 .. Len(d),
         q \in Seq(ChunkSet), Links(Append(d, s), q),
         OneOf(Append(d, s), m + 1),
         LET c == WholeChunk(Append(d, s), m + 1)
         IN /\ q # <<>> => Link(Append(d, s), q[Len(q)], c) /\ Filled(Append(d, s), q[Len(q)])
            /\ q # <<>> => FirstOf(q[1]).unit = 1 /\ FirstOf(q[1]).from = 0
            /\ q = <<>> => m = Len(d)
  PROVE  Waiting(Append(d, s), q, m + 1, PricedOf(d, Places(d, m)) + (Chars(s) + 1))
<1> DEFINE e == Append(d, s)
           c == WholeChunk(e, m + 1)
           f == Append(q, c)
<1>1. e \in Seq(Sentences) /\ Len(e) = Len(d) + 1 /\ Len(d) \in Nat /\ m \in Nat /\ m + 1 \in 1 .. Len(e)
      /\ e # <<>>
  <2>1. e \in Seq(Sentences) /\ Len(e) = Len(d) + 1 /\ Len(d) \in Nat
    BY DocGrows
  <2>2. e # <<>>
    OBVIOUS
  <2> HIDE DEF e
  <2> QED
    BY <2>1, <2>2
<1>2. PricedOf(e, Places(e, m + 1)) = PricedOf(d, Places(d, m)) + (Chars(s) + 1)
  BY PricedAppend
<1> HIDE DEF e
<1>3. /\ c \in ChunkSet /\ Shaped(e, c)
      /\ FirstOf(c).unit = Len(e) - (m + 1) + 1 /\ FirstOf(c).from = 0
      /\ LastSpan(c).unit = Len(e) /\ LastSpan(c).to = Letters(e[Len(e)])
  BY <1>1, WholeChunkIs, WholeChunkShape DEF e
<1> HIDE DEF c
<1>4. <<c>> \in Seq(ChunkSet) /\ Len(<<c>>) = 1 /\ <<c>>[1] = c /\ <<c>> # <<>>
  BY <1>3
<1>5. Links(e, <<c>>)
  BY <1>3, <1>4 DEF Links
<1>6. Links(e, q \o <<c>>)
  BY <1>4, <1>5, LinksConcat DEF e, c
<1>7. f = q \o <<c>> /\ f # <<>> /\ Len(f) = Len(q) + 1 /\ f[Len(q) + 1] = c /\ Len(q) \in Nat
      /\ \A k \in 1 .. Len(q) : f[k] = q[k]
  <2>1. f = q \o <<c>>
    BY <1>3, AppendIsConcat
  <2>2. f # <<>> /\ Len(f) = Len(q) + 1 /\ f[Len(q) + 1] = c /\ \A k \in 1 .. Len(q) : f[k] = q[k]
    BY <1>3, AppendProperties
  <2> QED
    BY <2>1, <2>2
<1> HIDE DEF f
<1>8. f[1] = IF q = <<>> THEN c ELSE q[1]
  <2>1. CASE q = <<>>
    BY <1>7, <2>1
  <2>2. CASE q # <<>>
    <3>1. 1 \in 1 .. Len(q)
      BY <2>2
    <3> QED
      BY <1>7, <2>2, <3>1
  <2> QED
    BY <2>1, <2>2
<1>9. q = <<>> => FirstOf(c).unit = 1
  BY <1>1, <1>3
<1>10. Covers(e, f)
  BY <1>1, <1>3, <1>7, <1>8, <1>9 DEF Covers
<1>11. FlushedOf(e, q, m + 1) = f
  BY <1>1 DEF FlushedOf, f, c
<1>12. m + 1 \in 0 .. Len(e) /\ OneOf(e, m + 1)
  BY <1>1 DEF e
<1>13. Links(e, f)
  BY <1>6, <1>7
<1>14. Waiting(e, q, m + 1, PricedOf(d, Places(d, m)) + (Chars(s) + 1))
  BY <1>2, <1>10, <1>11, <1>12, <1>13 DEF Waiting
<1> QED
  BY <1>14 DEF e

\* The chunks before the last are linked, and the last follows them.
LEMMA LinksFront ==
  ASSUME NEW d, NEW q \in Seq(ChunkSet), NEW c \in ChunkSet, Links(d, Append(q, c))
  PROVE  /\ Links(d, q) /\ Shaped(d, c)
         /\ q # <<>> => Link(d, q[Len(q)], c) /\ Filled(d, q[Len(q)])
<1> DEFINE f == Append(q, c)
<1>1. /\ Len(f) = Len(q) + 1 /\ f[Len(q) + 1] = c /\ Len(q) \in Nat
      /\ \A k \in 1 .. Len(q) : f[k] = q[k]
  <2>1. Len(f) = Len(q) + 1 /\ f[Len(q) + 1] = c /\ \A k \in 1 .. Len(q) : f[k] = q[k]
    BY AppendProperties
  <2> QED
    BY <2>1
<1> HIDE DEF f
<1>2. /\ \A k \in 1 .. Len(f) : Shaped(d, f[k])
      /\ \A k \in 1 .. Len(f) - 1 : Link(d, f[k], f[k + 1]) /\ Filled(d, f[k])
  BY DEF Links, f
<1>3. ASSUME NEW k \in 1 .. Len(q) PROVE Shaped(d, q[k])
  <2>1. k \in 1 .. Len(f)
    BY <1>1
  <2> QED
    BY <1>1, <1>2, <2>1
<1>4. ASSUME NEW k \in 1 .. Len(q) - 1 PROVE Link(d, q[k], q[k + 1]) /\ Filled(d, q[k])
  <2>1. k \in 1 .. Len(q) /\ k + 1 \in 1 .. Len(q) /\ k \in 1 .. Len(f) - 1
    BY <1>1
  <2> QED
    BY <1>1, <1>2, <2>1
<1>5. Links(d, q)
  BY <1>3, <1>4 DEF Links
<1>6. Shaped(d, c)
  <2>1. Len(q) + 1 \in 1 .. Len(f)
    BY <1>1
  <2> QED
    BY <1>1, <1>2, <2>1
<1>7. ASSUME q # <<>> PROVE Link(d, q[Len(q)], c) /\ Filled(d, q[Len(q)])
  <2>1. Len(q) \in 1 .. Len(q) /\ Len(q) \in 1 .. Len(f) - 1
    BY <1>1, <1>7
  <2> QED
    BY <1>1, <1>2, <2>1
<1> QED
  BY <1>5, <1>6, <1>7

\* What is known where a sentence is read.
LEMMA Reading ==
  ASSUME ChunkInv
  PROVE  /\ doc \in Seq(Sentences) /\ Len(doc) \in Nat /\ Len(current) \in 0 .. Len(doc) /\ Len(current) \in Nat
         /\ Flushed \in Seq(ChunkSet) /\ chunks \in Seq(ChunkSet)
         /\ Links(doc, Flushed) /\ Covers(doc, Flushed)
         /\ Flushed = FlushedOf(doc, chunks, Len(current))
         /\ length = PricedOf(doc, Places(doc, Len(current))) /\ length \in Nat
         /\ current = Places(doc, Len(current))
         /\ current = <<>> <=> Len(current) = 0
<1>1. doc \in Seq(Sentences) /\ current = Places(doc, Len(current)) /\ Waiting(doc, chunks, Len(current), length)
  BY DEF ChunkInv
<1>2. /\ Len(current) \in 0 .. Len(doc) /\ length = PricedOf(doc, Places(doc, Len(current)))
      /\ chunks \in Seq(ChunkSet)
      /\ Links(doc, FlushedOf(doc, chunks, Len(current))) /\ Covers(doc, FlushedOf(doc, chunks, Len(current)))
  BY <1>1 DEF Waiting
<1>3. Flushed = FlushedOf(doc, chunks, Len(current)) /\ (current = <<>> <=> Len(current) = 0)
  BY <1>1, <1>2, FlushedIs
<1>4. Flushed \in Seq(ChunkSet)
  BY <1>2, <1>3 DEF Links
<1>5. Len(doc) \in Nat /\ Len(current) \in Nat
  BY <1>1, <1>2
<1>6. length \in Nat
  BY <1>1, <1>2, SizedIs, TotalNat
<1> QED
  BY <1>1, <1>2, <1>3, <1>4, <1>5, <1>6

\* The last chunk that a flush leaves, if sentences waited.
LEMMA FlushedLast ==
  ASSUME ChunkInv, current # <<>>
  PROVE  /\ Len(current) \in 1 .. Len(doc) /\ OneOf(doc, Len(current))
         /\ Flushed = Append(chunks, WholeChunk(doc, Len(current)))
         /\ Flushed # <<>> /\ Flushed[Len(Flushed)] = WholeChunk(doc, Len(current))
         /\ Links(doc, chunks)
         /\ chunks # <<>> => /\ Link(doc, chunks[Len(chunks)], WholeChunk(doc, Len(current)))
                             /\ Filled(doc, chunks[Len(chunks)])
<1>1. Len(current) \in 1 .. Len(doc) /\ Len(current) # 0 /\ OneOf(doc, Len(current))
  <2>1. Len(current) \in 0 .. Len(doc) /\ Len(current) # 0
    BY Reading
  <2> QED
    BY <2>1 DEF ChunkInv, Waiting
<1> DEFINE c == WholeChunk(doc, Len(current))
<1>2. c \in ChunkSet /\ doc \in Seq(Sentences) /\ chunks \in Seq(ChunkSet)
  BY <1>1, Reading, WholeChunkIs
<1>3. Flushed = Append(chunks, c)
  BY <1>1, Reading DEF FlushedOf
<1> HIDE DEF c
<1>4. Flushed # <<>> /\ Flushed[Len(Flushed)] = c
  <2>1. Append(chunks, c) # <<>> /\ Len(Append(chunks, c)) = Len(chunks) + 1 /\ Append(chunks, c)[Len(chunks) + 1] = c
    BY <1>2, AppendProperties
  <2> QED
    BY <1>3, <2>1
<1>5. Links(doc, Append(chunks, c))
  BY <1>3, Reading
<1> QED
  BY <1>1, <1>2, <1>3, <1>4, <1>5, LinksFront DEF c

\* A chunk that begins with the sentence read adjoins what a flush leaves; and that is
\* filled, unless the sentence would have fitted.
LEMMA FlushedIsFilled ==
  ASSUME ChunkInv, reading, NEW s \in Sentences, Flushed # <<>>,
         current # <<>> => s.kind # doc[Len(doc)].kind \/ Exceeds(s, length)
  PROVE  LET e == Append(doc, s)
             l == Flushed[Len(Flushed)]
         IN /\ Filled(e, l)
            /\ \A c : FirstOf(c).unit = Len(doc) + 1 /\ FirstOf(c).from = 0 => Adjoins(e, LastSpan(l), FirstOf(c))
<1> DEFINE e == Append(doc, s)
           l == Flushed[Len(Flushed)]
           n == Len(doc)
<1>1. /\ e \in Seq(Sentences) /\ Len(e) = n + 1 /\ n \in Nat /\ e[n + 1] = s
      /\ \A i \in 1 .. n : e[i] = doc[i] /\ doc[i] \in Sentences /\ i \in 1 .. n + 1
  BY Reading, DocGrows
<1>2. doc # <<>> /\ LastSpan(l).unit = n /\ LastSpan(l).to = Letters(doc[n])
  BY Reading DEF Covers
<1>3. n \in 1 .. n /\ e[n] = doc[n]
  <2>1. n # 0
    BY <1>2, Reading
  <2> QED
    BY <1>1, <2>1
<1>4. Target \in Nat /\ length \in Nat /\ Chars(s) \in Nat
  BY TargetAssumption, Reading, CharsAre
<1> HIDE DEF e, n
<1>5. \A c : FirstOf(c).unit = n + 1 /\ FirstOf(c).from = 0 => Adjoins(e, LastSpan(l), FirstOf(c))
  BY <1>2, <1>3 DEF Adjoins
<1>6. CASE current = <<>>
  <2>1. l = chunks[Len(chunks)] /\ chunks # <<>>
    BY <1>6 DEF Flushed
  <2>2. LastSpan(l).cut
    BY <1>6, <2>1 DEF ChunkInv
  <2> QED
    BY <1>5, <2>2 DEF Filled, e, n
<1>7. CASE current # <<>>
  <2>1. Len(current) \in 1 .. n /\ OneOf(doc, Len(current)) /\ l = WholeChunk(doc, Len(current))
    BY <1>7, FlushedLast DEF n
  <2>2. FirstOf(l).unit = n - Len(current) + 1
    BY <2>1, WholeChunkIs, Reading DEF n
  <2>3. TextChars(doc, l) = length - 1 /\ l \in ChunkSet
    BY <2>1, WholeChunkChars, WholeChunkIs, Reading DEF n
  <2>4. Shaped(doc, l)
    BY <2>1, WholeChunkShape, Reading DEF n
  <2>5. TextChars(e, l) = length - 1
    BY <2>3, <2>4, ShapeGrows, Reading DEF e
  <2>6. FirstOf(l).unit \in 1 .. n /\ doc[FirstOf(l).unit].kind = doc[n].kind
    <3>1. n - Len(current) + 1 \in 1 .. n /\ 1 \in 1 .. Len(current)
      BY <1>1, <2>1
    <3> QED
      BY <2>1, <2>2, <3>1 DEF OneOf, n
  <2>7. e[n + 1].kind = e[FirstOf(l).unit].kind => TextChars(e, l) + 1 + Chars(e[n + 1]) >= Target
    <3>1. SUFFICES ASSUME s.kind = doc[n].kind PROVE (length - 1) + 1 + Chars(s) >= Target
      BY <1>1, <2>5, <2>6
    <3>2. length + Chars(s) + 1 > Target
      BY <1>7, <3>1 DEF Exceeds, n
    <3> QED
      BY <1>4, <3>2
  <2>8. LastSpan(l).unit + 1 \in 1 .. Len(e)
    BY <1>1, <1>2
  <2>9. Filled(e, l)
    BY <1>2, <2>7, <2>8 DEF Filled
  <2> QED
    BY <1>5, <2>9 DEF e, n
<1> QED
  BY <1>6, <1>7

\* The next chunk: the sentence read, behind the last k of those that waited.
LEMMA NewChunk ==
  ASSUME ChunkInv, reading, NEW s \in Sentences, NEW k \in 0 .. Len(current), k <= Overlap,
         ~IsLong(s),
         current # <<>> => s.kind # doc[Len(doc)].kind \/ Exceeds(s, length),
         k # 0 => s.kind = doc[Len(doc)].kind /\ ~Exceeds(s, PricedOf(doc, Places(doc, k)))
  PROVE  Waiting(Append(doc, s), Flushed, k + 1, PricedOf(doc, Places(doc, k)) + (Chars(s) + 1))
<1> DEFINE e == Append(doc, s)
           n == Len(doc)
           l == Flushed[Len(Flushed)]
           c == WholeChunk(e, k + 1)
<1>1. /\ e \in Seq(Sentences) /\ Len(e) = n + 1 /\ n \in Nat /\ e[n + 1] = s
      /\ \A i \in 1 .. n : e[i] = doc[i] /\ doc[i] \in Sentences /\ i \in 1 .. n + 1
  BY Reading, DocGrows
<1>2. k \in Nat /\ k \in 0 .. n /\ k + 1 \in 1 .. Len(e) /\ Len(current) \in 0 .. n
  BY Reading, <1>1
<1>3. Target \in Nat /\ length \in Nat /\ Chars(s) \in Nat
  BY TargetAssumption, Reading, CharsAre
<1>4. PricedOf(e, Places(e, k + 1)) = PricedOf(doc, Places(doc, k)) + (Chars(s) + 1)
      /\ PricedOf(doc, Places(doc, k)) \in Nat
  BY <1>2, Reading, PricedAppend, SizedIs, TotalNat
<1> HIDE DEF e, n
<1>5. k # 0 => OneOf(doc, Len(current)) /\ Len(current) \in 1 .. n
  BY <1>1, <1>2, FlushedLast, Reading DEF n
<1>6. OneOf(e, k + 1)
  <2>1. ASSUME NEW j \in 1 .. k + 1
        PROVE  ~IsLong(e[Len(e) - (k + 1) + j]) /\ e[Len(e) - (k + 1) + j].kind = e[Len(e)].kind
    <3>1. CASE j = k + 1
      <4>1. Len(e) - (k + 1) + j = n + 1
        BY <1>1, <1>2, <3>1
      <4> QED
        BY <1>1, <4>1
    <3>2. CASE j # k + 1
      <4>1. k # 0 /\ Len(e) - (k + 1) + j = n - k + j /\ n - k + j \in 1 .. n
        BY <1>1, <1>2, <3>2
      <4>2. PICK i \in 1 .. Len(current) : n - Len(current) + i = n - k + j
        <5>1. Len(current) - k + j \in 1 .. Len(current) /\ n - Len(current) + (Len(current) - k + j) = n - k + j
          BY <1>1, <1>2, <3>2, <4>1
        <5> QED
          BY <5>1
      <4>3. ~IsLong(doc[n - k + j]) /\ doc[n - k + j].kind = doc[n].kind
        BY <1>5, <4>1, <4>2 DEF OneOf, n
      <4> QED
        BY <1>1, <4>1, <4>3 DEF n
    <3> QED
      BY <3>1, <3>2
  <2>2. PricedOf(e, Places(e, k + 1)) <= Target + 1
    <3>1. CASE k = 0
      <4>1. PricedOf(doc, Places(doc, k)) = 0
        BY <3>1, EmptyPriced, Reading
      <4>2. Chars(s) <= Target
        BY <1>3 DEF IsLong
      <4> QED
        BY <1>3, <1>4, <4>1, <4>2
    <3>2. CASE k # 0
      <4>1. PricedOf(doc, Places(doc, k)) + Chars(s) + 1 <= Target
        BY <1>3, <1>4, <3>2 DEF Exceeds
      <4> QED
        BY <1>3, <1>4, <4>1
    <3> QED
      BY <3>1, <3>2
  <2> QED
    BY <2>1, <2>2 DEF OneOf
<1>7. Links(e, Flushed) /\ Flushed \in Seq(ChunkSet)
  BY Reading, LinksGrow DEF e
<1>8. /\ c \in ChunkSet /\ Shaped(e, c) /\ IsWhole(e, c)
      /\ FirstOf(c).unit = n - k + 1 /\ FirstOf(c).from = 0 /\ LastSpan(c).unit = n + 1
  <2>1. Len(e) - (k + 1) + 1 = n - k + 1
    BY <1>1, <1>2
  <2> QED
    BY <1>1, <1>2, <1>6, <2>1, WholeChunkIs, WholeChunkShape
<1> HIDE DEF c
<1>9. ASSUME Flushed # <<>> PROVE Link(e, l, c) /\ Filled(e, l)
  <2>1. Filled(e, l) /\ (k = 0 => Adjoins(e, LastSpan(l), FirstOf(c)))
    BY <1>1, <1>8, <1>9, FlushedIsFilled DEF e, n
  <2>2. CASE k = 0
    BY <2>1, <2>2 DEF Link
  <2>3. CASE k # 0
    <3>1. current # <<>>
      BY <1>2, <2>3, Reading
    <3>2. l = WholeChunk(doc, Len(current)) /\ Len(current) \in 1 .. n
      BY <3>1, FlushedLast DEF n
    <3>3. /\ l \in ChunkSet /\ Shaped(doc, l) /\ IsWhole(doc, l)
          /\ FirstOf(l).unit = n - Len(current) + 1 /\ LastSpan(l).unit = n
      BY <1>5, <2>3, <3>2, Reading, WholeChunkIs, WholeChunkShape DEF n
    <3>4. IsWhole(e, l)
      BY <3>3, ShapeGrows, Reading DEF e
    <3>5. Overlap \in Nat
      BY TargetAssumption
    <3>6. /\ n - Len(current) + 1 <= n - k + 1 /\ n - k + 1 <= n /\ n < n + 1 /\ n - (n - k + 1) + 1 <= Overlap
      BY <1>1, <1>2, <2>3, <3>5
    <3>7. Overlaps(e, l, c)
      BY <1>8, <3>3, <3>4, <3>6 DEF Overlaps
    <3> QED
      BY <2>1, <3>7 DEF Link
  <2> QED
    BY <2>2, <2>3
<1>10. Flushed = <<>> => k = n
  <2>1. Flushed = <<>> => n = 0
    BY Reading DEF Covers, n
  <2> QED
    BY <1>2, <2>1
<1>11. Flushed # <<>> => FirstOf(Flushed[1]).unit = 1 /\ FirstOf(Flushed[1]).from = 0
  BY Reading DEF Covers
<1> QED
  BY <1>2, <1>6, <1>7, <1>9, <1>10, <1>11, Reading, Continues DEF c, e, n, l

\* The sentence read is one more of those that wait.
LEMMA LongerChunk ==
  ASSUME ChunkInv, reading, NEW s \in Sentences, current # <<>>,
         ~IsLong(s), s.kind = doc[Len(doc)].kind, ~Exceeds(s, length)
  PROVE  Waiting(Append(doc, s), chunks, Len(current) + 1, length + (Chars(s) + 1))
<1> DEFINE e == Append(doc, s)
           n == Len(doc)
           m == Len(current)
           b == WholeChunk(doc, m)
           c == WholeChunk(e, m + 1)
<1>1. /\ e \in Seq(Sentences) /\ Len(e) = n + 1 /\ n \in Nat /\ e[n + 1] = s
      /\ \A i \in 1 .. n : e[i] = doc[i] /\ doc[i] \in Sentences /\ i \in 1 .. n + 1
  BY Reading, DocGrows
<1>2. m \in Nat /\ m \in 1 .. n /\ m \in 0 .. n /\ m + 1 \in 1 .. Len(e) /\ OneOf(doc, m)
  BY FlushedLast, <1>1
<1>3. Target \in Nat /\ length \in Nat /\ Chars(s) \in Nat /\ length = PricedOf(doc, Places(doc, m))
  BY TargetAssumption, Reading, CharsAre
<1>4. PricedOf(e, Places(e, m + 1)) = length + (Chars(s) + 1)
  BY <1>2, <1>3, Reading, PricedAppend
<1> HIDE DEF e, n, m
<1>6. OneOf(e, m + 1)
  <2>1. ASSUME NEW j \in 1 .. m + 1
        PROVE  ~IsLong(e[Len(e) - (m + 1) + j]) /\ e[Len(e) - (m + 1) + j].kind = e[Len(e)].kind
    <3>1. CASE j = m + 1
      <4>1. Len(e) - (m + 1) + j = n + 1
        BY <1>1, <1>2, <3>1
      <4> QED
        BY <1>1, <4>1
    <3>2. CASE j # m + 1
      <4>1. Len(e) - (m + 1) + j = n - m + j /\ n - m + j \in 1 .. n /\ j \in 1 .. m
        BY <1>1, <1>2, <3>2
      <4>3. ~IsLong(doc[n - m + j]) /\ doc[n - m + j].kind = doc[n].kind
        BY <1>2, <4>1 DEF OneOf, n
      <4> QED
        BY <1>1, <4>1, <4>3 DEF n
    <3> QED
      BY <3>1, <3>2
  <2>2. PricedOf(e, Places(e, m + 1)) <= Target + 1
    <3>1. length + Chars(s) + 1 <= Target
      BY <1>3 DEF Exceeds
    <3> QED
      BY <1>3, <1>4, <3>1
  <2> QED
    BY <2>1, <2>2 DEF OneOf
<1>7. Links(e, chunks) /\ chunks \in Seq(ChunkSet)
  BY Reading, FlushedLast, LinksGrow DEF e
<1>8. /\ c \in ChunkSet /\ Shaped(e, c) /\ IsWhole(e, c)
      /\ FirstOf(c).unit = n - m + 1 /\ FirstOf(c).from = 0 /\ LastSpan(c).unit = n + 1
  <2>1. Len(e) - (m + 1) + 1 = n - m + 1
    BY <1>1, <1>2
  <2> QED
    BY <1>1, <1>2, <1>6, <2>1, WholeChunkIs, WholeChunkShape
<1>9. /\ b \in ChunkSet /\ Shaped(doc, b) /\ IsWhole(doc, b)
      /\ FirstOf(b).unit = n - m + 1 /\ FirstOf(b).from = 0 /\ LastSpan(b).unit = n
  BY <1>2, Reading, WholeChunkIs, WholeChunkShape DEF n
<1> HIDE DEF b, c
<1>10. ASSUME chunks # <<>>
       PROVE  Link(e, chunks[Len(chunks)], c) /\ Filled(e, chunks[Len(chunks)])
  <2> DEFINE l == chunks[Len(chunks)]
  <2>1. Link(doc, l, b) /\ Flushed = Append(chunks, b) /\ Links(doc, chunks)
    BY <1>10, FlushedLast DEF b, m
  <2>2. Len(chunks) \in 1 .. Len(chunks) /\ Len(chunks) \in Nat
    BY <1>7, <1>10
  <2>3. l \in ChunkSet /\ Shaped(doc, l) /\ l.body # <<>>
    BY <2>1, <2>2, ChunkIsIn
  <2>4. LastSpan(l).unit \in 1 .. n
    <3>1. Len(l.body) \in 1 .. Len(l.body)
      BY <2>3, SpansAre
    <3> QED
      BY <2>3, <3>1 DEF Shaped, LastSpan, n
  <2>5. Link(e, l, c)
    <3>1. CASE Adjoins(doc, LastSpan(l), FirstOf(b))
      <4>1. e[LastSpan(l).unit] = doc[LastSpan(l).unit]
        BY <1>1, <2>4
      <4> QED
        BY <1>8, <1>9, <3>1, <4>1 DEF Link, Adjoins
    <3>2. CASE Overlaps(doc, l, b)
      <4>1. IsWhole(e, l)
        BY <2>3, <3>2, ShapeGrows, Reading DEF Overlaps, e
      <4>2. LastSpan(l).unit < n + 1
        BY <1>1, <2>4
      <4> QED
        BY <1>8, <1>9, <3>2, <4>1, <4>2 DEF Link, Overlaps
    <3> QED
      BY <2>1, <3>1, <3>2 DEF Link
  <2>6. Filled(e, l)
    <3>1. Links(e, Append(chunks, b)) /\ b \in ChunkSet
      BY <1>9, <2>1, Reading, LinksGrow DEF e
    <3> QED
      BY <1>7, <1>10, <3>1, LinksFront
  <2> QED
    BY <2>5, <2>6
<1>11. /\ chunks = <<>> => m = n
       /\ chunks # <<>> => FirstOf(chunks[1]).unit = 1 /\ FirstOf(chunks[1]).from = 0
  <2>1. /\ Flushed = Append(chunks, b) /\ Flushed # <<>>
        /\ FirstOf(Flushed[1]).unit = 1 /\ FirstOf(Flushed[1]).from = 0
    BY FlushedLast, Reading DEF Covers, b, m
  <2>2. CASE chunks = <<>>
    <3>1. Flushed[1] = b
      BY <2>1, <2>2
    <3> QED
      BY <1>1, <1>2, <1>9, <2>1, <2>2, <3>1
  <2>3. CASE chunks # <<>>
    <3>1. 1 \in 1 .. Len(chunks)
      BY <1>7, <2>3
    <3>2. Append(chunks, b)[1] = chunks[1]
      BY <1>7, <1>9, <3>1, AppendProperties
    <3> QED
      BY <2>1, <2>3, <3>2
  <2> QED
    BY <2>2, <2>3
<1>12. Waiting(e, chunks, m + 1, PricedOf(doc, Places(doc, m)) + (Chars(s) + 1))
  BY <1>2, <1>6, <1>7, <1>10, <1>11, Reading, Continues DEF c, e, n
<1> QED
  BY <1>3, <1>12 DEF e, m

LEMMA TotalOne ==
  ASSUME NEW x \in Nat
  PROVE  Total(<<x>>) = x
<1>1. <<x>> = Append(<<>>, x) /\ <<>> \in Seq(Nat)
  OBVIOUS
<1>2. Total(Append(<<>>, x)) = Total(<<>>) + x
  BY <1>1, TotalAppend
<1> QED
  BY <1>1, <1>2, TotalEmpty

CutChunk(s, i, p) ==
  [label |-> <<s.loc, s.loc>>, body |-> <<[unit |-> i, from |-> p[1], to |-> p[2], cut |-> TRUE]>>]
CutChunks(s, i) == [k \in DOMAIN Pieces(s) |-> CutChunk(s, i, Pieces(s)[k])]

\* A piece of a long sentence is a chunk of one span, and fits.
LEMMA CutChunkIs ==
  ASSUME NEW e \in Seq(Sentences), NEW i \in 1 .. Len(e), NEW s \in Sentences,
         NEW p \in Nat \X Nat, p[1] < p[2], p[2] - p[1] <= Target
  PROVE  LET c == CutChunk(s, i, p)
         IN /\ c \in ChunkSet /\ Shaped(e, c) /\ FirstOf(c) = LastSpan(c) /\ FirstOf(c).unit = i
            /\ FirstOf(c).from = p[1] /\ FirstOf(c).to = p[2] /\ FirstOf(c).cut
<1> DEFINE c == CutChunk(s, i, p)
           q == [unit |-> i, from |-> p[1], to |-> p[2], cut |-> TRUE]
<1>1. p[1] \in Nat /\ p[2] \in Nat /\ i \in Nat /\ Target \in Nat
  BY TargetAssumption
<1>2. q \in SpanSet /\ q.unit = i /\ q.from = p[1] /\ q.to = p[2] /\ q.cut = TRUE
  BY <1>1 DEF SpanSet
<1>3. c.body = <<q>> /\ c.label = <<s.loc, s.loc>> /\ c = [label |-> c.label, body |-> c.body]
  BY DEF CutChunk
<1> HIDE DEF q
<1>4. c \in ChunkSet
  <2>1. <<q>> \in Seq(SpanSet)
    BY <1>2
  <2>2. <<s.loc, s.loc>> \in Locs \X Locs
    BY DEF Locs
  <2> HIDE DEF c
  <2> QED
    BY <1>3, <2>1, <2>2 DEF ChunkSet
<1> HIDE DEF c
<1>5. Len(c.body) = 1 /\ c.body # <<>> /\ FirstOf(c) = q /\ LastSpan(c) = q /\ c.body[1] = q /\ DOMAIN c.body = 1 .. 1
  BY <1>3 DEF FirstOf, LastSpan
<1>6. [k \in DOMAIN c.body |-> SpanLength(e, c.body[k])] = <<p[2] - p[1]>>
  BY <1>1, <1>2, <1>5 DEF SpanLength
<1>7. TextChars(e, c) = p[2] - p[1]
  <2>1. p[2] - p[1] \in Nat
    BY <1>1
  <2> QED
    BY <1>5, <1>6, <2>1, TotalOne DEF TextChars
<1>8. IsCut(c)
  BY <1>2, <1>5 DEF IsCut
<1>9. Shaped(e, c)
  BY <1>1, <1>2, <1>5, <1>7, <1>8 DEF Shaped
<1> QED
  BY <1>2, <1>4, <1>5, <1>9 DEF c

\* The pieces of a long sentence, in order, are linked and cover it.
LEMMA CutChunksLink ==
  ASSUME NEW e \in Seq(Sentences), NEW i \in 1 .. Len(e), NEW s \in Sentences
  PROVE  LET t == CutChunks(s, i)
         IN /\ Links(e, t) /\ t # <<>>
            /\ FirstOf(t[1]).unit = i /\ FirstOf(t[1]).from = 0
            /\ LastSpan(t[Len(t)]).unit = i /\ LastSpan(t[Len(t)]).to = Letters(s) /\ LastSpan(t[Len(t)]).cut
<1> DEFINE t == CutChunks(s, i)
           q == Pieces(s)
           n == Len(q)
<1>1. Tiles(q, 0, Letters(s)) /\ Narrow(q) /\ q # <<>>
  BY PiecesTile
<1>2. /\ q \in Seq(Nat \X Nat) /\ n \in Nat /\ n # 0 /\ DOMAIN q = 1 .. n
      /\ \A k \in 1 .. n : q[k] \in Nat \X Nat /\ q[k][1] < q[k][2] /\ q[k][2] - q[k][1] <= Target
      /\ \A k \in 1 .. n - 1 : q[k][2] = q[k + 1][1]
      /\ q[1][1] = 0 /\ q[n][2] = Letters(s)
  <2>1. q \in Seq(Nat \X Nat)
    BY <1>1 DEF Tiles
  <2>2. n \in Nat /\ n # 0 /\ DOMAIN q = 1 .. n /\ \A k \in 1 .. n : q[k] \in Nat \X Nat
    <3> HIDE DEF q
    <3> QED
      BY <1>1, <2>1
  <2> QED
    BY <1>1, <2>1, <2>2 DEF Tiles, Narrow
<1> HIDE DEF q, n
<1>3. t = [k \in 1 .. n |-> CutChunk(s, i, q[k])]
  BY <1>2 DEF CutChunks, q
<1>4. ASSUME NEW k \in 1 .. n
      PROVE  /\ t[k] \in ChunkSet /\ Shaped(e, t[k]) /\ FirstOf(t[k]) = LastSpan(t[k]) /\ FirstOf(t[k]).unit = i
             /\ FirstOf(t[k]).from = q[k][1] /\ FirstOf(t[k]).to = q[k][2] /\ FirstOf(t[k]).cut
  <2>1. q[k] \in Nat \X Nat /\ q[k][1] < q[k][2] /\ q[k][2] - q[k][1] <= Target
    BY <1>2
  <2>2. t[k] = CutChunk(s, i, q[k])
    BY <1>3
  <2> QED
    BY <2>1, <2>2, CutChunkIs
<1>5. t \in Seq(ChunkSet) /\ Len(t) = n /\ t # <<>>
  <2>1. t \in [1 .. n -> ChunkSet]
    <3> HIDE DEF t
    <3> QED
      BY <1>3, <1>4
  <2> HIDE DEF t
  <2> QED
    BY <1>2, <2>1
<1> HIDE DEF t
<1>6. ASSUME NEW k \in 1 .. n - 1 PROVE Link(e, t[k], t[k + 1]) /\ Filled(e, t[k])
  <2>1. k \in 1 .. n /\ k + 1 \in 1 .. n
    BY <1>2
  <2>2. q[k][2] = q[k + 1][1]
    BY <1>2
  <2>3. /\ FirstOf(t[k]) = LastSpan(t[k]) /\ FirstOf(t[k]).unit = i /\ FirstOf(t[k]).to = q[k][2] /\ FirstOf(t[k]).cut
        /\ FirstOf(t[k + 1]).unit = i /\ FirstOf(t[k + 1]).from = q[k + 1][1]
    BY <1>4, <2>1
  <2> QED
    BY <2>2, <2>3 DEF Link, Adjoins, Filled
<1>7. Links(e, t)
  BY <1>4, <1>5, <1>6 DEF Links
<1>8. 1 \in 1 .. n /\ n \in 1 .. n
  BY <1>2
<1>9. FirstOf(t[1]).unit = i /\ FirstOf(t[1]).from = 0
      /\ LastSpan(t[n]).unit = i /\ LastSpan(t[n]).to = Letters(s) /\ LastSpan(t[n]).cut
  BY <1>2, <1>4, <1>8
<1> QED
  BY <1>5, <1>7, <1>9 DEF t

\* After a long sentence: what was waiting is flushed, then its pieces, and nothing waits.
LEMMA OverlongStep ==
  ASSUME ChunkInv, reading, NEW s \in Sentences, IsLong(s)
  PROVE  LET q == Flushed \o CutChunks(s, Len(doc) + 1)
         IN Waiting(Append(doc, s), q, 0, 0) /\ q # <<>> /\ LastSpan(q[Len(q)]).cut
<1> DEFINE e == Append(doc, s)
           n == Len(doc)
           t == CutChunks(s, n + 1)
           f == Flushed
           q == f \o t
           l == f[Len(f)]
<1>1. /\ e \in Seq(Sentences) /\ Len(e) = n + 1 /\ n \in Nat /\ e[n + 1] = s /\ e # <<>> /\ n + 1 \in 1 .. Len(e)
      /\ \A i \in 1 .. n : e[i] = doc[i] /\ doc[i] \in Sentences /\ i \in 1 .. n + 1
  <2>1. e # <<>>
    BY Reading
  <2> QED
    BY <2>1, Reading, DocGrows
<1>2. /\ Links(e, t) /\ t # <<>>
      /\ FirstOf(t[1]).unit = n + 1 /\ FirstOf(t[1]).from = 0
      /\ LastSpan(t[Len(t)]).unit = n + 1 /\ LastSpan(t[Len(t)]).to = Letters(s) /\ LastSpan(t[Len(t)]).cut
  BY <1>1, CutChunksLink
<1>3. Links(e, f) /\ f \in Seq(ChunkSet) /\ Covers(doc, f)
  BY Reading, LinksGrow
<1>4. f # <<>> => Filled(e, l) /\ Adjoins(e, LastSpan(l), FirstOf(t[1]))
  <2>1. length \in Nat /\ Chars(s) \in Nat /\ Target \in Nat /\ Chars(s) > Target
    BY Reading, CharsAre, TargetAssumption DEF IsLong
  <2>2. Exceeds(s, length)
    BY <2>1 DEF Exceeds
  <2> QED
    BY <1>2, <2>2, FlushedIsFilled
<1> HIDE DEF e, n, t, f, l
<1>5. Links(e, q)
  BY <1>2, <1>3, <1>4, LinksConcat DEF Link, l
<1>6. t \in Seq(ChunkSet) /\ Len(t) \in Nat /\ Len(t) # 0 /\ Len(f) \in Nat
  BY <1>2, <1>3 DEF Links
<1>7. /\ q \in Seq(ChunkSet) /\ Len(q) = Len(f) + Len(t) /\ q # <<>>
      /\ \A k \in 1 .. Len(f) : q[k] = f[k]
      /\ \A k \in 1 .. Len(t) : q[Len(f) + k] = t[k]
  BY <1>3, <1>6
<1> HIDE DEF q
<1>8. q[Len(q)] = t[Len(t)]
  <2>1. Len(t) \in 1 .. Len(t)
    BY <1>6
  <2> QED
    BY <1>7, <2>1
<1>9. FirstOf(q[1]).unit = 1 /\ FirstOf(q[1]).from = 0
  <2>1. CASE f = <<>>
    <3>1. n = 0 /\ 1 \in 1 .. Len(t) /\ Len(f) = 0
      BY <1>3, <1>6, <2>1 DEF Covers, n
    <3>2. q[1] = t[1]
      BY <1>7, <3>1
    <3> QED
      BY <1>2, <3>1, <3>2
  <2>2. CASE f # <<>>
    <3>1. 1 \in 1 .. Len(f)
      BY <1>3, <1>6, <2>2
    <3> QED
      BY <1>3, <1>7, <2>2, <3>1 DEF Covers
  <2> QED
    BY <2>1, <2>2
<1>10. Covers(e, q)
  BY <1>1, <1>2, <1>7, <1>8, <1>9 DEF Covers
<1>11. PricedOf(e, Places(e, 0)) = 0 /\ 0 \in 0 .. Len(e)
  BY <1>1, EmptyPriced
<1>12. Waiting(e, q, 0, 0)
  BY <1>5, <1>7, <1>10, <1>11 DEF Waiting, FlushedOf
<1> QED
  BY <1>2, <1>7, <1>8, <1>12 DEF q, e, f, t, n

\* The last k of the waiting sentences are again the last of the document.
LEMMA LastOfIs ==
  ASSUME ChunkInv, NEW k \in Nat
  PROVE  /\ LastOf(k) = Places(doc, Least(k, Len(current)))
         /\ Least(k, Len(current)) \in 0 .. Len(current) /\ Least(k, Len(current)) <= k
<1> DEFINE m == Len(current)
           j == Least(k, m)
           n == Len(doc)
<1>1. n \in Nat /\ m \in Nat /\ m <= n /\ current = Places(doc, m)
  BY Reading
<1>2. j \in 0 .. m /\ j <= k
  BY <1>1 DEF Least
<1>3. LastOf(k) = SubSeq(current, m - j + 1, m)
  BY DEF LastOf
<1> HIDE DEF j
<1>4. current \in Seq(Nat) /\ \A i \in 1 .. m : current[i] = n - m + i
  <2>1. \A i \in 1 .. m : n - m + i \in Nat
    BY <1>1
  <2>2. Places(doc, m) = [i \in 1 .. m |-> n - m + i]
    BY DEF Places
  <2>3. current \in [1 .. m -> Nat] /\ \A i \in 1 .. m : current[i] = n - m + i
    BY <1>1, <2>1, <2>2
  <2> HIDE DEF m
  <2> QED
    BY <1>1, <2>3
<1> HIDE DEF m, n
<1>5. SubSeq(current, m - j + 1, m) = [i \in 1 .. j |-> current[m - j + i]]
  <2>1. m - j + 1 \in 1 .. m + 1 /\ m \in m - j .. m /\ Len(current) = m
    BY <1>1, <1>2 DEF m
  <2>2. SubSeq(current, m - j + 1, m) = [i \in 1 .. m - (m - j + 1) + 1 |-> current[i + (m - j + 1) - 1]]
    BY SMTT(30), <1>4, <2>1
  <2>3. m - (m - j + 1) + 1 = j /\ \A i \in 1 .. j : i + (m - j + 1) - 1 = m - j + i
    BY <1>1, <1>2
  <2> QED
    BY <2>2, <2>3
<1>6. \A i \in 1 .. j : current[m - j + i] = n - j + i
  <2>1. \A i \in 1 .. j : m - j + i \in 1 .. m /\ n - m + (m - j + i) = n - j + i
    BY <1>1, <1>2
  <2> QED
    BY <1>4, <2>1
<1>7. LastOf(k) = Places(doc, j)
  BY <1>3, <1>5, <1>6 DEF Places, n
<1> QED
  BY <1>2, <1>7 DEF j, m

\* Carried is the last k sentences that waited, for a k that fits.
LEMMA CarriedIs ==
  ASSUME ChunkInv, NEW s \in Sentences
  PROVE  \E k \in 0 .. Len(current) :
           /\ Carried(s) = Places(doc, k) /\ k <= Overlap
           /\ Priced(Carried(s)) = PricedOf(doc, Places(doc, k))
           /\ k # 0 => ~Exceeds(s, PricedOf(doc, Places(doc, k)))
<1>1. Overlap \in Nat /\ doc \in Seq(Sentences) /\ Len(current) \in Nat
  BY TargetAssumption, Reading
<1>2. PICK j \in 0 .. Len(current) : LastOf(Overlap) = Places(doc, j) /\ j <= Overlap
  BY <1>1, LastOfIs
<1>3. Priced(LastOf(Overlap)) = PricedOf(doc, Places(doc, j))
  BY <1>2 DEF Priced, PricedOf
<1>4. CASE Exceeds(s, Priced(LastOf(Overlap)))
  <2>1. Carried(s) = <<>>
    BY <1>4 DEF Carried
  <2>2. Carried(s) = Places(doc, 0) /\ 0 \in 0 .. Len(current) /\ 0 <= Overlap
    BY <1>1, <2>1, EmptyPriced
  <2>3. Priced(Carried(s)) = PricedOf(doc, Places(doc, 0))
    BY <2>2 DEF Priced, PricedOf
  <2> QED
    BY <2>2, <2>3
<1>5. CASE ~Exceeds(s, Priced(LastOf(Overlap)))
  <2>1. Carried(s) = LastOf(Overlap)
    BY <1>5 DEF Carried
  <2> QED
    BY <1>2, <1>3, <1>5, <2>1
<1> QED
  BY <1>4, <1>5

\* The invariant holds of an unread document, and each way the next sentence is taken keeps it.
LEMMA ChunkInit1 ==
  ASSUME ChunkInit
  PROVE  ChunkInv
<1>1. doc = <<>> /\ chunks = <<>> /\ current = <<>> /\ length = 0 /\ reading = TRUE
  BY DEF ChunkInit
<1>2. doc \in Seq(Sentences) /\ Len(doc) = 0 /\ Len(current) = 0 /\ chunks \in Seq(ChunkSet) /\ Len(chunks) = 0
  BY <1>1
<1>3. current = Places(doc, 0) /\ length = PricedOf(doc, Places(doc, 0))
  BY <1>1, <1>2, EmptyPriced
<1>4. Links(doc, chunks)
  BY <1>2 DEF Links
<1>5. Covers(doc, chunks)
  BY <1>1 DEF Covers
<1> QED
  BY <1>1, <1>2, <1>3, <1>4, <1>5 DEF ChunkInv, Waiting, FlushedOf

\* Where m sentences wait after a step, all that is left to know of the step.
LEMMA ReadKeeps ==
  ASSUME ChunkInv, reading, reading' = reading, NEW s \in Sentences, doc' = Append(doc, s),
         NEW m \in 0 .. Len(doc), current' = Append(Places(doc, m), Len(doc) + 1),
         Waiting(Append(doc, s), chunks', m + 1, length')
  PROVE  ChunkInv'
<1>1. doc \in Seq(Sentences) /\ Len(doc) \in Nat
  BY Reading
<1>2. doc' \in Seq(Sentences)
  BY <1>1, DocGrows
<1>3. current' = Places(doc', m + 1)
  BY <1>1, PricedAppend
<1>4. m + 1 \in 1 .. Len(doc')
  BY <1>1, DocGrows
<1>5. Len(current') = m + 1 /\ current' # <<>>
  <2>1. Len(Places(doc', m + 1)) = m + 1 /\ Places(doc', m + 1) # <<>>
    BY <1>2, <1>4, PlacesAre
  <2> QED
    BY <1>3, <2>1
<1> QED
  BY <1>2, <1>3, <1>5 DEF ChunkInv

LEMMA OverlongKeeps ==
  ASSUME ChunkInv, reading, reading' = reading, NEW s \in Sentences, doc' = Append(doc, s), Overlong(s)
  PROVE  ChunkInv'
<1>1. IsLong(s) /\ current' = <<>> /\ length' = 0
  BY DEF Overlong
<1>2. chunks' = Flushed \o CutChunks(s, Len(doc) + 1)
  BY DEF Overlong, CutChunks, CutChunk, Here
<1>3. Waiting(doc', chunks', 0, 0) /\ LastSpan(chunks'[Len(chunks')]).cut
  BY <1>1, <1>2, OverlongStep
<1>4. doc' \in Seq(Sentences)
  BY Reading, DocGrows
<1>5. Places(doc', 0) = <<>> /\ Len(current') = 0
  BY <1>1, <1>4, EmptyPriced
<1> QED
  BY <1>1, <1>3, <1>4, <1>5 DEF ChunkInv

LEMMA TurnKeeps ==
  ASSUME ChunkInv, reading, reading' = reading, NEW s \in Sentences, doc' = Append(doc, s), Turn(s)
  PROVE  ChunkInv'
<1>1. ~IsLong(s) /\ current # <<>> /\ s.kind # doc[Last(current)].kind /\ chunks' = Flushed
      /\ current' = <<Len(doc) + 1>> /\ length' = Chars(s) + 1
  BY DEF Turn, Turns, Here
<1>2. doc \in Seq(Sentences) /\ Len(doc) \in Nat /\ Len(current) \in Nat /\ Len(current) \in 1 .. Len(doc)
      /\ current = Places(doc, Len(current))
  BY <1>1, Reading
<1>3. Last(current) = Len(doc)
  BY <1>2, PlacesAre
<1>4. 0 \in 0 .. Len(current) /\ 0 \in 0 .. Len(doc) /\ 0 <= Overlap
  BY <1>2, TargetAssumption
<1>5. PricedOf(doc, Places(doc, 0)) = 0 /\ Places(doc, 0) = <<>>
  BY <1>2, EmptyPriced
<1>6. Waiting(Append(doc, s), Flushed, 0 + 1, 0 + (Chars(s) + 1))
  BY <1>1, <1>3, <1>4, <1>5, NewChunk
<1>7. 0 + (Chars(s) + 1) = length'
  BY <1>1, CharsAre
<1>8. current' = Append(Places(doc, 0), Len(doc) + 1)
  BY <1>1, <1>5
<1> QED
  BY <1>1, <1>4, <1>6, <1>7, <1>8, ReadKeeps

LEMMA FullKeeps ==
  ASSUME ChunkInv, reading, reading' = reading, NEW s \in Sentences, doc' = Append(doc, s), Full(s)
  PROVE  ChunkInv'
<1>1. ~IsLong(s) /\ current # <<>> /\ s.kind = doc[Last(current)].kind /\ Exceeds(s, length) /\ chunks' = Flushed
      /\ current' = Append(Carried(s), Len(doc) + 1) /\ length' = Priced(Carried(s)) + Chars(s) + 1
  BY DEF Full, Turns, Here, PricedAfter
<1>2. doc \in Seq(Sentences) /\ Len(doc) \in Nat /\ Len(current) \in Nat /\ Len(current) \in 1 .. Len(doc)
      /\ current = Places(doc, Len(current))
  BY <1>1, Reading
<1>3. Last(current) = Len(doc)
  BY <1>2, PlacesAre
<1>4. PICK k \in 0 .. Len(current) :
           /\ Carried(s) = Places(doc, k) /\ k <= Overlap
           /\ Priced(Carried(s)) = PricedOf(doc, Places(doc, k))
           /\ k # 0 => ~Exceeds(s, PricedOf(doc, Places(doc, k)))
  BY CarriedIs
<1>5. k \in 0 .. Len(doc)
  BY <1>2
<1>6. Waiting(Append(doc, s), Flushed, k + 1, PricedOf(doc, Places(doc, k)) + (Chars(s) + 1))
  BY <1>1, <1>3, <1>4, NewChunk
<1>7. PricedOf(doc, Places(doc, k)) + (Chars(s) + 1) = length'
  <2>1. PricedOf(doc, Places(doc, k)) \in Nat
    BY <1>2, <1>5, SizedIs, TotalNat
  <2> QED
    BY <1>1, <1>4, <2>1, CharsAre
<1> QED
  BY <1>1, <1>4, <1>5, <1>6, <1>7, ReadKeeps

LEMMA FitsKeeps ==
  ASSUME ChunkInv, reading, reading' = reading, NEW s \in Sentences, doc' = Append(doc, s), Fits(s)
  PROVE  ChunkInv'
<1>1. ~IsLong(s) /\ (current # <<>> => s.kind = doc[Last(current)].kind /\ ~Exceeds(s, length))
      /\ chunks' = chunks /\ current' = Append(current, Len(doc) + 1) /\ length' = length + Chars(s) + 1
  BY DEF Fits, Turns, Here
<1>2. doc \in Seq(Sentences) /\ Len(doc) \in Nat /\ Len(current) \in Nat /\ Len(current) \in 0 .. Len(doc)
      /\ current = Places(doc, Len(current)) /\ length \in Nat /\ length = PricedOf(doc, Places(doc, Len(current)))
  BY Reading
<1>3. length + (Chars(s) + 1) = length'
  BY <1>1, <1>2, CharsAre
<1>4. Waiting(Append(doc, s), chunks, Len(current) + 1, length + (Chars(s) + 1))
  <2>1. CASE current = <<>>
    <3>1. Len(current) = 0 /\ 0 <= Overlap /\ Flushed = chunks /\ 0 \in 0 .. Len(current)
      BY <2>1, Reading, TargetAssumption DEF Flushed
    <3> QED
      BY <1>1, <1>2, <2>1, <3>1, NewChunk
  <2>2. CASE current # <<>>
    <3>1. Last(current) = Len(doc)
      <4>1. Len(current) \in 1 .. Len(doc)
        BY <1>2, <2>2, Reading
      <4> QED
        BY <1>2, <4>1, PlacesAre
    <3> QED
      BY <1>1, <2>2, <3>1, LongerChunk
  <2> QED
    BY <2>1, <2>2
<1> QED
  BY <1>1, <1>2, <1>3, <1>4, ReadKeeps

LEMMA FinishKeeps ==
  ASSUME ChunkInv, Finish
  PROVE  ChunkInv'
<1>1. doc' = doc /\ chunks' = Flushed /\ current' = <<>> /\ length' = 0 /\ reading' = FALSE
  BY DEF Finish
<1>2. doc \in Seq(Sentences) /\ Len(doc) \in Nat /\ Flushed \in Seq(ChunkSet) /\ Links(doc, Flushed) /\ Covers(doc, Flushed)
  BY Reading
<1>3. PricedOf(doc, Places(doc, 0)) = 0 /\ Places(doc, 0) = <<>> /\ Len(current') = 0 /\ 0 \in 0 .. Len(doc)
  BY <1>1, <1>2, EmptyPriced
<1>4. Waiting(doc, Flushed, 0, 0)
  BY <1>2, <1>3 DEF Waiting, FlushedOf
<1> QED
  BY <1>1, <1>2, <1>3, <1>4 DEF ChunkInv

LEMMA ChunkStep ==
  ASSUME ChunkInv, ChunkNext \/ UNCHANGED chunkVars
  PROVE  ChunkInv'
<1>1. CASE UNCHANGED chunkVars
  <2>1. doc' = doc /\ chunks' = chunks /\ current' = current /\ length' = length /\ reading' = reading
    BY <1>1 DEF chunkVars
  <2> QED
    BY <2>1 DEF ChunkInv
<1>2. CASE Finish
  BY <1>2, FinishKeeps
<1>3. ASSUME NEW s \in Sentences, Read(s) PROVE ChunkInv'
  <2>1. reading /\ reading' = reading /\ doc' = Append(doc, s) /\ (Overlong(s) \/ Turn(s) \/ Full(s) \/ Fits(s))
    BY <1>3 DEF Read
  <2> QED
    BY <2>1, OverlongKeeps, TurnKeeps, FullKeeps, FitsKeeps
<1> QED
  BY <1>1, <1>2, <1>3 DEF ChunkNext

----
(* What the invariant says of the chunks *)

\* A chunk and what it repeats of the one before.
LEMMA SharedIs ==
  ASSUME ChunkInv, NEW k \in DOMAIN chunks, k > 1
  PROVE  \E o \in 0 .. Overlap :
           /\ Shared(k) = 1 .. o /\ o < Len(chunks[k].body)
           /\ Follows(Last(chunks[k - 1].body), chunks[k].body[o + 1])
<1>1. chunks \in Seq(ChunkSet) /\ Links(doc, chunks) /\ Len(chunks) \in Nat /\ Overlap \in Nat /\ Len(doc) \in Nat
  <2>1. current = <<>> => Flushed = chunks
    BY DEF Flushed
  <2> QED
    BY <2>1, Reading, FlushedLast, TargetAssumption
<1>2. k \in 1 .. Len(chunks) /\ k - 1 \in 1 .. Len(chunks) - 1 /\ k - 1 \in 1 .. Len(chunks) /\ (k - 1) + 1 = k
  BY <1>1
<1> DEFINE b == chunks[k - 1]
           c == chunks[k]
<1>3. b \in ChunkSet /\ c \in ChunkSet /\ Shaped(doc, b) /\ Shaped(doc, c) /\ b.body # <<>> /\ c.body # <<>>
  BY <1>1, <1>2, ChunkIsIn
<1>4. Link(doc, b, c)
  BY <1>1, <1>2 DEF Links
<1>5. Shared(k) = {j \in DOMAIN c.body : \E i \in 1 .. Len(b.body) : b.body[i] = c.body[j]}
  BY DEF Shared, Contains
<1> HIDE DEF b, c
<1>6. /\ Len(b.body) \in Nat /\ Len(b.body) > 0 /\ Len(c.body) \in Nat /\ Len(c.body) > 0
      /\ DOMAIN c.body = 1 .. Len(c.body) /\ b.body \in Seq(SpanSet) /\ c.body \in Seq(SpanSet)
  BY <1>3, SpansAre
<1>7. \A j \in 1 .. Len(b.body) : b.body[j].unit \in 1 .. Len(doc) /\ b.body[j].from \in Nat /\ b.body[j].to \in Nat
  BY <1>3, SpansAre DEF Shaped
<1>8. \A j \in 1 .. Len(c.body) : c.body[j].unit \in 1 .. Len(doc) /\ c.body[j].from \in Nat /\ c.body[j].to \in Nat
  BY <1>3, SpansAre DEF Shaped
<1>9. Last(b.body) = LastSpan(b)
  BY DEF Last, LastSpan
<1>10. 1 \in 1 .. Len(b.body) /\ Len(b.body) \in 1 .. Len(b.body) /\ 1 \in 1 .. Len(c.body) /\ Len(c.body) \in 1 .. Len(c.body)
  BY <1>6
<1>11. FirstOf(b) = b.body[1] /\ FirstOf(c) = c.body[1] /\ LastSpan(b) = b.body[Len(b.body)] /\ LastSpan(c) = c.body[Len(c.body)]
  BY DEF FirstOf, LastSpan
<1>12. \A i \in 1 .. Len(doc) : Letters(doc[i]) \in Nat \ {0}
  BY Reading, CharsAre
\* What the spans of a whole chunk are.
<1>13. IsWhole(doc, b) =>
         /\ Len(b.body) = LastSpan(b).unit - FirstOf(b).unit + 1
         /\ \A j \in 1 .. Len(b.body) : /\ b.body[j] = WholeOf(doc, FirstOf(b).unit + j - 1)
                                        /\ b.body[j].unit = FirstOf(b).unit + j - 1
                                        /\ b.body[j].from = 0 /\ ~b.body[j].cut
                                        /\ b.body[j].to = Letters(doc[FirstOf(b).unit + j - 1])
  BY DEF IsWhole, WholeOf
<1>14. IsWhole(doc, c) =>
         /\ Len(c.body) = LastSpan(c).unit - FirstOf(c).unit + 1
         /\ \A j \in 1 .. Len(c.body) : /\ c.body[j] = WholeOf(doc, FirstOf(c).unit + j - 1)
                                        /\ c.body[j].unit = FirstOf(c).unit + j - 1
                                        /\ c.body[j].from = 0 /\ ~c.body[j].cut
                                        /\ c.body[j].to = Letters(doc[FirstOf(c).unit + j - 1])
  BY DEF IsWhole, WholeOf
<1>a. FirstOf(b).unit \in 1 .. Len(doc) /\ LastSpan(b).unit \in 1 .. Len(doc)
  BY <1>7, <1>10, <1>11
<1>b. FirstOf(c).unit \in 1 .. Len(doc) /\ LastSpan(c).unit \in 1 .. Len(doc)
  BY <1>8, <1>10, <1>11
<1>c. \A i \in 1 .. Len(doc) : i \in Nat
  OBVIOUS
<1>p. PICK p \in Nat : p = FirstOf(b).unit
  BY <1>a, <1>c
<1>q. PICK q \in Nat : q = LastSpan(b).unit
  BY <1>a, <1>c
<1>x. PICK x \in Nat : x = FirstOf(c).unit
  BY <1>b, <1>c
<1>y. PICK y \in Nat : y = LastSpan(c).unit
  BY <1>b, <1>c
<1>15. CASE Overlaps(doc, b, c)
  <2>1. IsWhole(doc, b) /\ IsWhole(doc, c)
    BY <1>15 DEF Overlaps
  <2>2. p = FirstOf(b).unit /\ q = LastSpan(b).unit /\ x = FirstOf(c).unit /\ y = LastSpan(c).unit
    BY <1>p, <1>q, <1>x, <1>y
  <2>3. p <= x /\ x <= q /\ q < y /\ q - x + 1 <= Overlap
    BY <1>15, <2>2 DEF Overlaps
  <2>4. Len(b.body) = q - p + 1 /\ Len(c.body) = y - x + 1
    BY <1>13, <1>14, <2>1, <2>2
  <2>5. \A i \in 1 .. Len(b.body) : b.body[i] = WholeOf(doc, p + i - 1) /\ b.body[i].unit = p + i - 1
    BY <1>13, <2>1, <2>2
  <2>6. \A i \in 1 .. Len(c.body) : c.body[i] = WholeOf(doc, x + i - 1) /\ c.body[i].unit = x + i - 1 /\ c.body[i].from = 0
    BY <1>14, <2>1, <2>2
  <2> DEFINE o == q - x + 1
  <2>7. o \in 0 .. Overlap /\ o < Len(c.body) /\ o + 1 \in 1 .. Len(c.body) /\ x + (o + 1) - 1 = q + 1
    BY <1>1, <2>3, <2>4
  <2>8. ASSUME NEW j \in 1 .. Len(c.body)
        PROVE  (\E i \in 1 .. Len(b.body) : b.body[i] = c.body[j]) <=> j <= o
    <3>1. ASSUME j <= o PROVE \E i \in 1 .. Len(b.body) : b.body[i] = c.body[j]
      <4>1. x - p + j \in 1 .. Len(b.body) /\ p + (x - p + j) - 1 = x + j - 1
        BY <2>3, <2>4, <3>1
      <4>2. b.body[x - p + j] = c.body[j]
        BY <2>5, <2>6, <4>1
      <4> QED
        BY <4>1, <4>2
    <3>2. ASSUME NEW i \in 1 .. Len(b.body), b.body[i] = c.body[j] PROVE j <= o
      <4>1. p + i - 1 = x + j - 1
        BY <2>5, <2>6, <3>2
      <4> QED
        BY <2>3, <2>4, <4>1
    <3> QED
      BY <3>1, <3>2
  <2>9. Shared(k) = 1 .. o
    <3>1. Shared(k) = {j \in 1 .. Len(c.body) : j <= o}
      BY <1>5, <1>6, <2>8
    <3> HIDE DEF o
    <3> QED
      BY <1>1, <1>6, <2>7, <3>1
  <2>10. Follows(Last(b.body), c.body[o + 1])
    <3>1. c.body[o + 1].unit = q + 1 /\ c.body[o + 1].from = 0
      BY <2>6, <2>7
    <3>2. Last(b.body).unit = q /\ Last(b.body).to = Letters(doc[q])
      <4>1. FirstOf(b).unit + Len(b.body) - 1 = q
        BY SMTT(30), <2>2, <2>3, <2>4
      <4>2. b.body[Len(b.body)].to = Letters(doc[FirstOf(b).unit + Len(b.body) - 1])
        BY <1>10, <1>13, <2>1
      <4> QED
        BY <1>9, <1>11, <2>2, <4>1, <4>2
    <3> QED
      BY <3>1, <3>2 DEF Follows
  <2> QED
    BY <2>7, <2>9, <2>10 DEF b, c
<1>16. CASE Adjoins(doc, LastSpan(b), FirstOf(c))
  <2>1. Follows(Last(b.body), c.body[0 + 1])
    BY <1>9, <1>11, <1>16 DEF Follows, Adjoins
  <2>2. ASSUME NEW j \in 1 .. Len(c.body), NEW i \in 1 .. Len(b.body), b.body[i] = c.body[j] PROVE FALSE
    <3>1. CASE IsCut(b) /\ IsCut(c)
      <4>1. i = 1 /\ j = 1 /\ LastSpan(b) = FirstOf(b) /\ FirstOf(b).from < FirstOf(b).to
        BY <1>11, <3>1 DEF IsCut
      <4>2. FirstOf(c) = FirstOf(b)
        BY <1>11, <2>2, <4>1
      <4>3. FirstOf(b).unit \in Nat /\ FirstOf(b).from \in Nat /\ FirstOf(b).to \in Nat
        BY <1>7, <1>10, <1>11
      <4> QED
        BY <1>16, <4>1, <4>2, <4>3 DEF Adjoins
    <3>2. CASE IsCut(b) /\ IsWhole(doc, c)
      <4>1. b.body[i].cut /\ ~c.body[j].cut
        BY <1>11, <1>14, <3>2 DEF IsCut
      <4> QED
        BY <2>2, <4>1
    <3>3. CASE IsWhole(doc, b) /\ IsCut(c)
      <4>1. ~b.body[i].cut /\ c.body[j].cut
        BY <1>11, <1>13, <3>3 DEF IsCut
      <4> QED
        BY <2>2, <4>1
    <3>4. CASE IsWhole(doc, b) /\ IsWhole(doc, c)
      <4>1. p = FirstOf(b).unit /\ q = LastSpan(b).unit /\ x = FirstOf(c).unit /\ y = LastSpan(c).unit
        BY <1>p, <1>q, <1>x, <1>y
      <4>2. Len(b.body) = q - p + 1 /\ b.body[i].unit = p + i - 1 /\ c.body[j].unit = x + j - 1
        BY <1>13, <1>14, <3>4, <4>1
      <4>3. LastSpan(b).to # 0 /\ FirstOf(c).from = 0
        <5>1. LastSpan(b).to = Letters(doc[p + Len(b.body) - 1]) /\ p + Len(b.body) - 1 = q /\ q \in 1 .. Len(doc)
          BY <1>7, <1>10, <1>11, <1>13, <3>4, <4>1, <4>2
        <5> QED
          BY <1>10, <1>11, <1>12, <1>14, <3>4, <5>1
      <4>4. x = q + 1
        BY <1>16, <4>1, <4>3 DEF Adjoins
      <4>5. b.body[i].unit = c.body[j].unit /\ i <= q - p + 1 /\ i \in Nat /\ j >= 1 /\ j \in Nat
        <5>1. b.body[i].unit = c.body[j].unit
          BY <2>2
        <5>2. i \in Nat /\ j >= 1 /\ j \in Nat /\ i <= Len(b.body)
          BY SMTT(30), <1>6
        <5> QED
          BY <4>2, <5>1, <5>2
      <4> QED
        BY SMTT(30), <4>2, <4>4, <4>5
    <3> QED
      BY <1>3, <3>1, <3>2, <3>3, <3>4 DEF Shaped
  <2>3. Shared(k) = 1 .. 0
    BY <1>5, <1>6, <2>2
  <2> QED
    BY <1>1, <1>6, <2>1, <2>3 DEF b, c
<1> QED
  BY <1>4, <1>15, <1>16 DEF Link

\* What the invariant says of the chunks written so far.
LEMMA ChunkFacts ==
  ASSUME ChunkInv
  PROVE  /\ chunks \in Seq(ChunkSet) /\ Links(doc, chunks) /\ Len(chunks) \in Nat /\ DOMAIN chunks = 1 .. Len(chunks)
         /\ \A k \in 1 .. Len(chunks) :
              /\ chunks[k] \in ChunkSet /\ chunks[k].body # <<>> /\ Shaped(doc, chunks[k])
              /\ ChunkChars(chunks[k]) = TextChars(doc, chunks[k])
<1>1. Links(doc, chunks)
  <2>1. current = <<>> => Flushed = chunks
    BY DEF Flushed
  <2> QED
    BY <2>1, Reading, FlushedLast
<1>2. chunks \in Seq(ChunkSet) /\ Len(chunks) \in Nat /\ DOMAIN chunks = 1 .. Len(chunks)
  BY Reading
<1>3. \A k \in 1 .. Len(chunks) : chunks[k] \in ChunkSet /\ chunks[k].body # <<>> /\ Shaped(doc, chunks[k])
  BY <1>1, ChunkIsIn
<1>4. \A c : ChunkChars(c) = TextChars(doc, c)
  BY DEF ChunkChars, TextChars, SpanChars, SpanLength
<1> QED
  BY <1>1, <1>2, <1>3, <1>4

LEMMA ChunkTypes ==
  ASSUME ChunkInv
  PROVE  ChunkTypeOK
<1>1. doc \in Seq(Sentences) /\ reading \in BOOLEAN
  BY DEF ChunkInv
<1>2. ASSUME NEW k \in DOMAIN chunks PROVE chunks[k].body \in Seq(Spans) /\ chunks[k].body # <<>>
  <2>1. PICK c \in ChunkSet : c = chunks[k] /\ c.body # <<>> /\ Shaped(doc, c)
    BY ChunkFacts
  <2>2. c.body \in Seq(SpanSet) /\ \A j \in 1 .. Len(c.body) : c.body[j] \in SpanSet /\ c.body[j].unit \in 1 .. Len(doc)
    BY <2>1, SpansAre DEF Shaped
  <2>3. \A p \in SpanSet : p.unit \in 1 .. Len(doc) => p \in Spans
    BY DEF SpanSet, Spans
  <2>4. c.body \in [1 .. Len(c.body) -> Spans] /\ Len(c.body) \in Nat
    BY <2>2, <2>3
  <2> QED
    BY <2>1, <2>4
<1>3. current \in Seq(1 .. Len(doc))
  <2>1. CASE current = <<>>
    BY <2>1
  <2>2. CASE current # <<>>
    <3>1. Len(current) \in 1 .. Len(doc) /\ current = Places(doc, Len(current))
      BY <2>2, FlushedLast, Reading
    <3>2. Places(doc, Len(current)) \in Seq(1 .. Len(doc))
      BY <1>1, <3>1, PlacesAre
    <3> QED
      BY <3>1, <3>2
  <2> QED
    BY <2>1, <2>2
<1>4. length = Priced(current)
  BY Reading, PricedIs
<1> QED
  BY <1>1, <1>2, <1>3, <1>4 DEF ChunkTypeOK

\* The four parts of ChunkingIsSound, from the invariant: one kind to a chunk,
LEMMA OneKindHolds ==
  ASSUME ChunkInv
  PROVE  OneKind
<1> SUFFICES ASSUME NEW k \in DOMAIN chunks
             PROVE  /\ \A j \in DOMAIN chunks[k].body : doc[chunks[k].body[j].unit].kind = KindOf(chunks[k])
                    /\ Cardinality(Shared(k)) <= Overlap
  BY DEF OneKind
<1>1. PICK c \in ChunkSet : c = chunks[k] /\ c.body # <<>> /\ Shaped(doc, c) /\ k \in 1 .. Len(chunks) /\ Len(chunks) \in Nat
  BY ChunkFacts
<1>2. DOMAIN c.body = 1 .. Len(c.body) /\ Len(c.body) \in Nat
  BY <1>1, SpansAre
<1>3. \A j \in DOMAIN c.body : doc[c.body[j].unit].kind = KindOf(c)
  <2>1. CASE IsCut(c)
    BY <1>2, <2>1 DEF IsCut, KindOf
  <2>2. CASE IsWhole(doc, c)
    BY <1>2, <2>2 DEF IsWhole, KindOf, FirstOf
  <2> QED
    BY <1>1, <2>1, <2>2 DEF Shaped
<1>4. Cardinality(Shared(k)) <= Overlap
  <2>1. Overlap \in Nat
    BY TargetAssumption
  <2>2. CASE k > 1
    <3>1. PICK o \in 0 .. Overlap : Shared(k) = 1 .. o
      BY <2>2, SharedIs
    <3>2. Cardinality(1 .. o) = o
      <4>1. o \in Nat /\ 1 \in Int /\ o \in Int
        BY <2>1
      <4>2. Cardinality(1 .. o) = IF 1 > o THEN 0 ELSE o - 1 + 1
        BY <4>1, FS_Interval
      <4> QED
        BY <4>1, <4>2
    <3> QED
      BY <2>1, <3>1, <3>2
  <2>3. CASE ~(k > 1)
    <3>1. Shared(k) = {}
      BY <2>3 DEF Shared
    <3> QED
      BY <2>1, <3>1, FS_EmptySet
  <2> QED
    BY <2>2, <2>3
<1> QED
  BY <1>1, <1>3, <1>4

\* ... every sentence is in the chunks, each letter of it, in order,
LEMMA NothingIsLost ==
  ASSUME ChunkInv
  PROVE  NothingLost
<1>1. ASSUME NEW k \in DOMAIN chunks
      PROVE  LET body == chunks[k].body
                 new  == DOMAIN body \ Shared(k)
             IN /\ \A j \in 1 .. Len(body) - 1 : Follows(body[j], body[j + 1])
                /\ new # {}
                /\ \A j \in new, i \in Shared(k) : i < j
                /\ k > 1 => Follows(Last(chunks[k - 1].body), body[Cardinality(Shared(k)) + 1])
                /\ k = 1 => Place(body[1]) = <<1, 0>>
  <2>1. PICK c \in ChunkSet : c = chunks[k] /\ c.body # <<>> /\ Shaped(doc, c) /\ k \in 1 .. Len(chunks) /\ Len(chunks) \in Nat
    BY ChunkFacts
  <2>2. DOMAIN c.body = 1 .. Len(c.body) /\ Len(c.body) \in Nat /\ Len(c.body) > 0
        /\ \A j \in 1 .. Len(c.body) : c.body[j].unit \in Nat
    BY <2>1, SpansAre
  <2>3. ASSUME NEW j \in 1 .. Len(c.body) - 1 PROVE Follows(c.body[j], c.body[j + 1])
    <3>1. IsWhole(doc, c)
      BY <2>1, <2>2 DEF Shaped, IsCut
    <3>2. j \in 1 .. Len(c.body) /\ j + 1 \in 1 .. Len(c.body) /\ 1 \in 1 .. Len(c.body)
      BY <2>2
    <3>3. c.body[j] = WholeOf(doc, FirstOf(c).unit + j - 1) /\ c.body[j + 1] = WholeOf(doc, FirstOf(c).unit + (j + 1) - 1)
      BY <3>1, <3>2 DEF IsWhole
    <3>4. FirstOf(c).unit \in Nat
      BY <2>2, <3>2 DEF FirstOf
    <3>5. FirstOf(c).unit + (j + 1) - 1 = (FirstOf(c).unit + j - 1) + 1
      BY <3>2, <3>4
    <3>6. /\ c.body[j].unit = FirstOf(c).unit + j - 1 /\ c.body[j].to = Letters(doc[FirstOf(c).unit + j - 1])
          /\ c.body[j + 1].unit = (FirstOf(c).unit + j - 1) + 1 /\ c.body[j + 1].from = 0
      BY <3>3, <3>5 DEF WholeOf
    <3> QED
      BY <3>6 DEF Follows
  <2>4. CASE k > 1
    <3>1. PICK o \in 0 .. Overlap :
           /\ Shared(k) = 1 .. o /\ o < Len(c.body)
           /\ Follows(Last(chunks[k - 1].body), c.body[o + 1])
      BY <2>1, <2>4, SharedIs
    <3>2. o \in Nat
      BY TargetAssumption
    <3>3. Cardinality(1 .. o) = o
      <4>1. Cardinality(1 .. o) = IF 1 > o THEN 0 ELSE o - 1 + 1
        BY <3>2, FS_Interval
      <4> QED
        BY <3>2, <4>1
    <3>4. o + 1 \in DOMAIN c.body \ (1 .. o) /\ \A j \in DOMAIN c.body \ (1 .. o), i \in 1 .. o : i < j
      BY <2>2, <3>1, <3>2
    <3> QED
      BY <2>1, <2>3, <2>4, <3>1, <3>3, <3>4
  <2>5. CASE k = 1
    <3>1. Shared(k) = {}
      BY <2>5 DEF Shared
    <3>2. FirstOf(c).unit = 1 /\ FirstOf(c).from = 0
      <4>1. Flushed # <<>> /\ Flushed[1] = c
        <5>1. chunks \in Seq(ChunkSet) /\ chunks # <<>>
          BY <2>1, Reading
        <5>2. CASE current = <<>>
          BY <2>1, <2>5, <5>1, <5>2 DEF Flushed
        <5>3. CASE current # <<>>
          <6>1. Flushed = Append(chunks, WholeChunk(doc, Len(current))) /\ Flushed # <<>>
            BY <5>3, FlushedLast
          <6>2. WholeChunk(doc, Len(current)) \in ChunkSet
            BY <5>3, FlushedLast, Reading, WholeChunkIs
          <6>3. Flushed[1] = chunks[1]
            BY <2>1, <2>5, <5>1, <6>1, <6>2, AppendProperties
          <6> QED
            BY <2>1, <2>5, <6>1, <6>3
        <5> QED
          BY <5>2, <5>3
      <4> QED
        BY <4>1, Reading DEF Covers
    <3>3. DOMAIN c.body \ Shared(k) # {}
      <4>1. 1 \in DOMAIN c.body
        BY <2>2
      <4>2. 1 \in DOMAIN c.body \ Shared(k)
        BY <3>1, <4>1
      <4> QED
        BY <4>2
    <3>4. Place(c.body[1]) = <<1, 0>>
      BY <3>2 DEF Place, FirstOf
    <3>5. \A j \in DOMAIN c.body \ Shared(k), i \in Shared(k) : i < j
      BY <3>1
    <3>6. ~(k > 1)
      BY <2>5
    <3> QED
      BY <2>1, <2>3, <3>3, <3>4, <3>5, <3>6
  <2> QED
    BY <2>1, <2>2, <2>4, <2>5
<1>2. ASSUME ~reading, doc # <<>>
      PROVE  LET end == Last(Last(chunks).body) IN end.unit = Len(doc) /\ end.to = Letters(Last(doc))
  <2>1. current = <<>>
    BY <1>2 DEF ChunkInv
  <2>2. Flushed = chunks
    BY <2>1 DEF Flushed
  <2>3. Covers(doc, chunks) /\ chunks # <<>>
    BY <1>2, <2>2, Reading DEF Covers
  <2> QED
    BY <2>3 DEF Covers, LastSpan, Last
<1> QED
  BY <1>1, <1>2 DEF NothingLost

\* ... a chunk is closed only when the next sentence would not fit, or is of another kind,
LEMMA FilledUpHolds ==
  ASSUME ChunkInv
  PROVE  FilledUp
<1> SUFFICES ASSUME NEW k \in 1 .. Len(chunks) - 1,
                    ~Last(chunks[k].body).cut,
                    doc[Last(chunks[k].body).unit + 1].kind = KindOf(chunks[k])
             PROVE  ChunkChars(chunks[k]) + 1 + Chars(doc[Last(chunks[k].body).unit + 1]) >= Target
  BY DEF FilledUp
<1>1. Links(doc, chunks) /\ k \in 1 .. Len(chunks) /\ ChunkChars(chunks[k]) = TextChars(doc, chunks[k])
  BY ChunkFacts
<1>2. Filled(doc, chunks[k])
  BY <1>1 DEF Links
<1> QED
  BY <1>1, <1>2 DEF Filled, LastSpan, FirstOf, Last, KindOf

\* ... and no chunk is above the target.
LEMMA ChunksAreSound ==
  ASSUME ChunkInv
  PROVE  ChunkingIsSound
<1>1. FitsTarget
  BY ChunkFacts DEF FitsTarget, Shaped
<1> QED
  BY <1>1, OneKindHolds, NothingIsLost, FilledUpHolds DEF ChunkingIsSound

\* In every state of the chunker, whatever the sizes and the document: each chunk
\* fits the target and is of one kind, no letter of what was read is lost or put
\* out of order, what two chunks share is the overlap and no more, and a chunk is
\* closed only when the next sentence could not join it (chunk_segments).
THEOREM ChunkingSound == AlgorithmSpec => []ChunkingIsSound
<1>1. AlgorithmInit => ChunkInv
  BY ChunkInit1 DEF AlgorithmInit
<1>2. ChunkInv /\ [AlgorithmNext]_algorithmVars => ChunkInv'
  <2> SUFFICES ASSUME ChunkInv, [AlgorithmNext]_algorithmVars PROVE ChunkInv'
    OBVIOUS
  <2>1. ChunkNext \/ UNCHANGED chunkVars
    BY DEF AlgorithmNext, algorithmVars, OfDocument
  <2> QED
    BY <2>1, ChunkStep
<1>3. ChunkInv => ChunkingIsSound
  BY ChunksAreSound
<1> QED
  BY <1>1, <1>2, <1>3, PTL DEF AlgorithmSpec

----
(* The windows of the minutes *)

\* The lengths of the chunks.
Lengths == [k \in DOMAIN chunks |-> ChunkChars(chunks[k])]

\* What the loop over the chunks may hold, and its step as a function.
Packs   == [windows : Seq(SUBSET DOMAIN chunks), window : SUBSET DOMAIN chunks, used : Nat, full : BOOLEAN]
Packing == [p \in Packs \X (1 .. Len(chunks)) |-> Pack(p[1], p[2])]
Unpacked == [windows |-> <<>>, window |-> {}, used |-> 0, full |-> FALSE]
AllPacked == FoldLeftDomain(Pack, Unpacked, chunks)

\* The chunks have lengths that can be added up.
LEMMA LengthsAre ==
  ASSUME ChunkInv
  PROVE  /\ Lengths \in Seq(Nat) /\ Len(Lengths) = Len(chunks) /\ Len(chunks) \in Nat
         /\ DOMAIN chunks = 1 .. Len(chunks)
         /\ \A k \in 1 .. Len(chunks) : Lengths[k] = ChunkChars(chunks[k]) /\ ChunkChars(chunks[k]) \in Nat
<1>1. Len(chunks) \in Nat /\ DOMAIN chunks = 1 .. Len(chunks)
  BY ChunkFacts
<1>2. \A k \in 1 .. Len(chunks) : ChunkChars(chunks[k]) \in Nat
  BY ChunkFacts DEF Shaped
<1>3. Lengths = [k \in 1 .. Len(chunks) |-> ChunkChars(chunks[k])]
  BY <1>1 DEF Lengths
<1>4. Lengths \in [1 .. Len(chunks) -> Nat]
  BY <1>2, <1>3
<1> QED
  BY <1>1, <1>2, <1>3, <1>4

\* A step of the packing loop stays among what it may hold.
LEMMA PackingIs ==
  ASSUME ChunkInv
  PROVE  /\ Closed(Packing, Len(chunks), Packs) /\ Unpacked \in Packs
         /\ \A a \in Packs, k \in 1 .. Len(chunks) : Packing[<<a, k>>] = Pack(a, k)
<1>1. \A a \in Packs, k \in 1 .. Len(chunks) : Packing[<<a, k>>] = Pack(a, k)
  BY DEF Packing
<1>2. Unpacked \in Packs
  BY DEF Unpacked, Packs
<1>3. ASSUME NEW a \in Packs, NEW k \in 1 .. Len(chunks) PROVE Pack(a, k) \in Packs
  <2>1. PICK n \in Nat : n = ChunkChars(chunks[k])
    BY LengthsAre
  <2>2. a.windows \in Seq(SUBSET DOMAIN chunks) /\ a.window \in SUBSET DOMAIN chunks /\ a.used \in Nat /\ a.full \in BOOLEAN
    BY DEF Packs
  <2>3. {k} \in SUBSET DOMAIN chunks /\ a.window \cup {k} \in SUBSET DOMAIN chunks
    BY <2>2, LengthsAre
  <2>4. Open(a, k, n) \in Packs
    BY <2>2, <2>3 DEF Open, Packs
  <2>5. [a EXCEPT !.window = @ \cup {k}, !.used = @ + n] \in Packs
    <3> DEFINE S == SUBSET DOMAIN chunks
               T == Seq(S)
               w == a.window \cup {k}
               u == a.used + n
    <3>1. a \in [windows : T, window : S, used : Nat, full : BOOLEAN] /\ w \in S /\ u \in Nat
      BY <2>2, <2>3 DEF Packs
    <3> HIDE DEF S, T, w, u
    <3>2. [a EXCEPT !.window = w, !.used = u] \in [windows : T, window : S, used : Nat, full : BOOLEAN]
      BY <3>1
    <3> QED
      BY <3>2 DEF S, T, w, u, Packs
  <2> QED
    BY <2>1, <2>4, <2>5 DEF Pack
<1> QED
  BY <1>1, <1>2, <1>3 DEF Closed

\* The loop over the chunks has a trace.
LEMMA PackingTrace ==
  ASSUME ChunkInv
  PROVE  \E f : Makes(f, Len(chunks), Packs, Unpacked, Packing, AllPacked)
<1> DEFINE n == Len(chunks)
           s == [i \in DOMAIN chunks |-> i]
<1>1. n \in Nat /\ DOMAIN chunks = 1 .. n /\ DOMAIN s = 1 .. n /\ \A i \in 1 .. n : s[i] = i
  BY LengthsAre
<1>2. Closed(Packing, n, Packs) /\ Unpacked \in Packs
  BY PackingIs
<1>3. \A a \in Packs, k \in 1 .. n : Packing[<<a, k>>] = Pack(a, k)
  BY PackingIs
<1>0. AllPacked = FoldLeft(Pack, Unpacked, s)
  BY DEF AllPacked, FoldLeftDomain
<1> HIDE DEF n, s
<1>4. PICK it \in [SUBSET (1 .. n) -> Packs] : Iterates(it, n, Unpacked, Packing)
  BY <1>1, <1>2, IterExists
<1>5. ASSUME NEW x \in SUBSET (1 .. n), x # {} PROVE Max(x) \in 1 .. n /\ x \ {Max(x)} \in SUBSET (1 .. n) /\ s[Max(x)] = Max(x)
  BY <1>1, <1>5, MaxIn
<1>a. \A x \in SUBSET (1 .. n) : x # {} => it[x] = Pack(it[x \ {Max(x)}], Max(x))
  BY <1>3, <1>4, <1>5 DEF Iterates
<1>6. it = [x \in SUBSET DOMAIN s |-> IF x = {} THEN Unpacked ELSE Pack(it[x \ {Max(x)}], s[Max(x)])]
  <2>1. \A x \in SUBSET (1 .. n) : it[x] = IF x = {} THEN Unpacked ELSE Pack(it[x \ {Max(x)}], s[Max(x)])
    BY <1>4, <1>5, <1>a DEF Iterates
  <2> QED
    BY <1>1, <2>1
<1>7. \E h : FoldLeft(Pack, Unpacked, s) = h[DOMAIN s] /\
             h = [x \in SUBSET DOMAIN s |-> IF x = {} THEN Unpacked ELSE Pack(h[x \ {Max(x)}], s[Max(x)])]
  BY <1>6 DEF FoldLeft, MapThenFoldSet
<1>8. PICK h : FoldLeft(Pack, Unpacked, s) = h[DOMAIN s] /\
             h = [x \in SUBSET DOMAIN s |-> IF x = {} THEN Unpacked ELSE Pack(h[x \ {Max(x)}], s[Max(x)])]
  BY <1>7
<1>9. h[{}] = Unpacked /\ \A x \in SUBSET (1 .. n) : x # {} => h[x] = Pack(h[x \ {Max(x)}], s[Max(x)])
  BY <1>1, <1>8
<1>b. \A x \in SUBSET (1 .. n) : x # {} => h[x] = Pack(h[x \ {Max(x)}], Max(x))
  BY <1>5, <1>9
<1>10. Recurs(h, n, Packs, Unpacked, Packing)
  BY <1>3, <1>5, <1>9, <1>b DEF Recurs
<1>11. \E f : Makes(f, n, Packs, Unpacked, Packing, h[1 .. n])
  BY <1>1, <1>2, <1>10, IterTrace
<1> QED
  BY <1>0, <1>1, <1>8, <1>11 DEF n

\* The windows are the chunks up to the last of the ends e, in a row; where g are the sums
\* of their lengths, each fits unless it is one chunk, and none had room for the next.
Parted(ws, e, g) ==
  /\ ws \in Seq(SUBSET DOMAIN chunks)
  /\ e \in [0 .. Len(ws) -> 0 .. Len(chunks)] /\ e[0] = 0
  /\ \A w \in 1 .. Len(ws) :
       /\ e[w - 1] < e[w]
       /\ ws[w] = e[w - 1] + 1 .. e[w]
       /\ e[w] > e[w - 1] + 1 => g[e[w]] - g[e[w - 1]] <= Context
  /\ \A w \in 1 .. Len(ws) - 1 : g[e[w] + 1] - g[e[w - 1]] > Context
Packed(ws, hi, g) == \E e : Parted(ws, e, g) /\ e[Len(ws)] = hi

\* An interval has the ends it has.
LEMMA SameInterval ==
  ASSUME NEW a \in Nat, NEW b \in Nat, NEW c \in Nat, NEW d \in Nat, a < b, a + 1 .. b = c + 1 .. d
  PROVE  a = c /\ b = d
<1>1. a + 1 \in c + 1 .. d /\ b \in c + 1 .. d
  <2>1. a + 1 \in a + 1 .. b /\ b \in a + 1 .. b
    OBVIOUS
  <2> QED
    BY <2>1
<1>2. c + 1 \in a + 1 .. b /\ d \in a + 1 .. b
  <2>1. c + 1 \in c + 1 .. d /\ d \in c + 1 .. d
    BY <1>1
  <2> QED
    BY <2>1
<1> QED
  BY <1>1, <1>2

\* The next chunk opens a window.
LEMMA PackedMore ==
  ASSUME ChunkInv, NEW g, NEW ws, NEW hi, Packed(ws, hi, g), hi + 1 \in DOMAIN chunks,
         \A a \in 0 .. hi - 1 : ws # <<>> /\ ws[Len(ws)] = a + 1 .. hi => g[hi + 1] - g[a] > Context
  PROVE  Packed(Append(ws, {hi + 1}), hi + 1, g)
<1>1. PICK e : Parted(ws, e, g) /\ e[Len(ws)] = hi
  BY DEF Packed
<1> DEFINE n == Len(ws)
           N == Len(chunks)
           t == Append(ws, {hi + 1})
           f == [w \in 0 .. n + 1 |-> IF w = n + 1 THEN hi + 1 ELSE e[w]]
<1>2. DOMAIN chunks = 1 .. N /\ N \in Nat
  BY LengthsAre
<1>3. ws \in Seq(SUBSET DOMAIN chunks) /\ n \in Nat /\ (ws # <<>> <=> n # 0)
  BY <1>1 DEF Parted
<1>4. {hi + 1} \in SUBSET DOMAIN chunks
  OBVIOUS
<1>5. t \in Seq(SUBSET DOMAIN chunks) /\ Len(t) = n + 1 /\ t[n + 1] = {hi + 1} /\ \A w \in 1 .. n : t[w] = ws[w]
  BY <1>3, <1>4, AppendProperties
<1>6. e \in [0 .. n -> 0 .. N] /\ e[0] = 0 /\ e[n] = hi
  BY <1>1 DEF Parted
<1>7. \A w \in 1 .. n : /\ e[w - 1] < e[w]
                        /\ ws[w] = e[w - 1] + 1 .. e[w]
                        /\ e[w] > e[w - 1] + 1 => g[e[w]] - g[e[w - 1]] <= Context
  BY <1>1 DEF Parted
<1>8. \A w \in 1 .. n - 1 : g[e[w] + 1] - g[e[w - 1]] > Context
  BY <1>1 DEF Parted
<1> HIDE DEF t, N, n
<1>9. hi \in 0 .. N /\ hi + 1 \in 1 .. N
  BY <1>2, <1>3, <1>6
<1>10. f \in [0 .. n + 1 -> 0 .. N] /\ f[n + 1] = hi + 1 /\ \A w \in 0 .. n : f[w] = e[w]
  BY <1>2, <1>3, <1>6, <1>9
<1>11. f[0] = 0
  BY <1>3, <1>6, <1>10
<1> HIDE DEF f
<1>12. ASSUME NEW w \in 1 .. n + 1
       PROVE  /\ f[w - 1] < f[w]
              /\ t[w] = f[w - 1] + 1 .. f[w]
              /\ f[w] > f[w - 1] + 1 => g[f[w]] - g[f[w - 1]] <= Context
  <2>1. CASE w = n + 1
    <3>1. w - 1 = n /\ n \in 0 .. n
      BY <1>3, <2>1
    <3>2. f[w] = hi + 1 /\ f[w - 1] = hi /\ t[w] = {hi + 1}
      BY <1>5, <1>6, <1>10, <2>1, <3>1
    <3>3. {hi + 1} = hi + 1 .. hi + 1
      BY <1>9
    <3> QED
      BY <1>9, <3>2, <3>3
  <2>2. CASE w # n + 1
    <3>1. w \in 1 .. n /\ w \in 0 .. n /\ w - 1 \in 0 .. n
      BY <1>3, <2>2
    <3>2. f[w] = e[w] /\ f[w - 1] = e[w - 1] /\ t[w] = ws[w]
      BY <1>5, <1>10, <3>1
    <3> QED
      BY <1>7, <3>1, <3>2
  <2> QED
    BY <2>1, <2>2
<1>13. ASSUME NEW w \in 1 .. (n + 1) - 1 PROVE g[f[w] + 1] - g[f[w - 1]] > Context
  <2>1. w \in 1 .. n /\ w \in 0 .. n /\ w - 1 \in 0 .. n
    BY <1>3
  <2>2. f[w] = e[w] /\ f[w - 1] = e[w - 1]
    BY <1>10, <2>1
  <2>3. CASE w = n
    <3>1. e[w - 1] \in 0 .. hi - 1 /\ ws # <<>> /\ ws[Len(ws)] = e[w - 1] + 1 .. hi
      BY <1>3, <1>6, <1>7, <1>9, <2>1, <2>3 DEF n
    <3> QED
      BY <1>6, <2>2, <2>3, <3>1
  <2>4. CASE w # n
    <3>1. w \in 1 .. n - 1
      BY <1>3, <2>1, <2>4
    <3> QED
      BY <1>8, <2>2, <3>1
  <2> QED
    BY <2>3, <2>4
<1>14. Parted(t, f, g)
  BY <1>5, <1>10, <1>11, <1>12, <1>13 DEF Parted, N
<1> QED
  BY <1>5, <1>10, <1>14 DEF Packed, t

\* Or it goes into the last one.
LEMMA PackedLonger ==
  ASSUME ChunkInv, NEW g, NEW ws \in Seq(SUBSET DOMAIN chunks), NEW hi \in Nat, NEW a \in Nat, a < hi,
         Packed(Append(ws, a + 1 .. hi), hi, g), hi + 1 \in DOMAIN chunks,
         g[hi + 1] - g[a] <= Context
  PROVE  Packed(Append(ws, a + 1 .. hi + 1), hi + 1, g)
<1> DEFINE n == Len(ws)
           N == Len(chunks)
           u == Append(ws, a + 1 .. hi)
           t == Append(ws, a + 1 .. hi + 1)
<1>1. PICK e : Parted(u, e, g) /\ e[Len(u)] = hi
  BY DEF Packed
<1> DEFINE f == [w \in 0 .. n + 1 |-> IF w = n + 1 THEN hi + 1 ELSE e[w]]
<1>2. DOMAIN chunks = 1 .. N /\ N \in Nat
  BY LengthsAre
<1>3. a + 1 .. hi \in SUBSET DOMAIN chunks /\ a + 1 .. hi + 1 \in SUBSET DOMAIN chunks
  BY <1>2
<1>4. /\ Len(u) = n + 1 /\ u[n + 1] = a + 1 .. hi /\ \A w \in 1 .. n : u[w] = ws[w]
      /\ t \in Seq(SUBSET DOMAIN chunks) /\ Len(t) = n + 1 /\ t[n + 1] = a + 1 .. hi + 1
      /\ \A w \in 1 .. n : t[w] = ws[w]
  BY <1>3, AppendProperties
<1>5. e \in [0 .. n + 1 -> 0 .. N] /\ e[0] = 0 /\ e[n + 1] = hi
  BY <1>1, <1>4 DEF Parted
<1>6. \A w \in 1 .. n + 1 : /\ e[w - 1] < e[w]
                            /\ u[w] = e[w - 1] + 1 .. e[w]
                            /\ e[w] > e[w - 1] + 1 => g[e[w]] - g[e[w - 1]] <= Context
  BY <1>1, <1>4 DEF Parted
<1>7. \A w \in 1 .. (n + 1) - 1 : g[e[w] + 1] - g[e[w - 1]] > Context
  BY <1>1, <1>4 DEF Parted
<1>8. n \in Nat
  OBVIOUS
<1> HIDE DEF t, u, N, n
<1>9. e[n] = a
  <2>1. n + 1 \in 1 .. n + 1 /\ (n + 1) - 1 = n /\ n \in 0 .. n + 1
    BY <1>8
  <2>2. e[n] < hi /\ a + 1 .. hi = e[n] + 1 .. hi /\ e[n] \in Nat
    BY <1>4, <1>5, <1>6, <2>1
  <2> QED
    BY <2>2, SameInterval
<1>10. f \in [0 .. n + 1 -> 0 .. N] /\ f[n + 1] = hi + 1 /\ \A w \in 0 .. n : f[w] = e[w]
  <2>1. hi + 1 \in 0 .. N
    BY <1>2
  <2> QED
    BY <1>5, <1>8, <2>1
<1>11. f[0] = 0
  BY <1>5, <1>8, <1>10
<1> HIDE DEF f
<1>12. ASSUME NEW w \in 1 .. n + 1
       PROVE  /\ f[w - 1] < f[w]
              /\ t[w] = f[w - 1] + 1 .. f[w]
              /\ f[w] > f[w - 1] + 1 => g[f[w]] - g[f[w - 1]] <= Context
  <2>1. CASE w = n + 1
    <3>1. w - 1 = n /\ n \in 0 .. n
      BY <1>8, <2>1
    <3>2. f[w] = hi + 1 /\ f[w - 1] = a /\ t[w] = a + 1 .. hi + 1
      BY <1>4, <1>9, <1>10, <2>1, <3>1
    <3> QED
      BY <3>2
  <2>2. CASE w # n + 1
    <3>1. w \in 1 .. n /\ w \in 0 .. n /\ w - 1 \in 0 .. n
      BY <1>8, <2>2
    <3>2. f[w] = e[w] /\ f[w - 1] = e[w - 1] /\ t[w] = u[w]
      BY <1>4, <1>10, <3>1
    <3> QED
      BY <1>6, <3>1, <3>2
  <2> QED
    BY <2>1, <2>2
<1>13. ASSUME NEW w \in 1 .. (n + 1) - 1 PROVE g[f[w] + 1] - g[f[w - 1]] > Context
  <2>1. w \in 0 .. n /\ w - 1 \in 0 .. n
    BY <1>8
  <2>2. f[w] = e[w] /\ f[w - 1] = e[w - 1]
    BY <1>10, <2>1
  <2> QED
    BY <1>7, <2>2
<1>14. Parted(t, f, g)
  BY <1>4, <1>10, <1>11, <1>12, <1>13 DEF Parted, N
<1> QED
  BY <1>4, <1>10, <1>14 DEF Packed, t

\* What the loop holds after k chunks.
PackOK(acc, k, g) ==
  IF acc.full THEN Len(acc.windows) = MaxWindows /\ \E hi \in Nat : Packed(acc.windows, hi, g)
  ELSE IF k = 0 THEN acc = Unpacked
  ELSE /\ Len(acc.windows) < MaxWindows
       /\ \E a \in 0 .. k - 1 :
            /\ acc.window = a + 1 .. k
            /\ acc.used = g[k] - g[a]
            /\ Packed(Append(acc.windows, acc.window), k, g)

\* A chunk packed into the windows keeps them the packing of the chunks so far.
LEMMA PackStep ==
  ASSUME ChunkInv, NEW g, Sums(g, Lengths), NEW acc \in Packs, NEW k \in 1 .. Len(chunks), PackOK(acc, k - 1, g)
  PROVE  PackOK(Pack(acc, k), k, g)
<1> DEFINE N == Len(chunks)
           W == acc.windows
           n == ChunkChars(chunks[k])
<1>1. /\ DOMAIN chunks = 1 .. N /\ N \in Nat /\ k \in Nat /\ k > 0 /\ k - 1 \in Nat /\ k \in DOMAIN chunks
      /\ (k - 1) + 1 = k /\ Len(Lengths) = N /\ n \in Nat /\ n = Lengths[k]
  BY LengthsAre
<1>2. g \in [0 .. N -> Nat] /\ g[0] = 0 /\ g[k] = g[k - 1] + n
  BY <1>1 DEF Sums
<1>3. W \in Seq(SUBSET DOMAIN chunks) /\ acc.window \in SUBSET DOMAIN chunks /\ acc.used \in Nat /\ acc.full \in BOOLEAN
  BY DEF Packs
<1>4. MaxWindows \in Nat /\ MaxWindows > 1 /\ Context \in Nat
  BY WindowAssumption
<1>5. Len(W) \in Nat
  BY <1>3
<1> HIDE DEF N, n
<1>6. CASE acc.full
  BY <1>6 DEF Pack, PackOK
<1>7. CASE ~acc.full /\ k = 1
  <2>1. acc = Unpacked
    BY <1>7 DEF PackOK
  <2>2. ~Closes(acc, k)
    BY <2>1 DEF Closes, Unpacked
  <2>3. Pack(acc, k) = [acc EXCEPT !.window = @ \cup {k}, !.used = @ + n]
    BY <1>7, <2>2 DEF Pack, n
  <2>4. /\ Pack(acc, k).windows = <<>> /\ Pack(acc, k).window = {k}
        /\ Pack(acc, k).used = n /\ ~Pack(acc, k).full
    <3>1. /\ Pack(acc, k).windows = W /\ Pack(acc, k).window = acc.window \cup {k}
          /\ Pack(acc, k).used = acc.used + n /\ ~Pack(acc, k).full
      BY <1>7, <2>3 DEF Packs
    <3>2. W = <<>> /\ acc.window = {} /\ acc.used = 0
      BY <2>1 DEF Unpacked
    <3> QED
      BY <1>1, <3>1, <3>2
  <2>5. Packed(<<>>, 0, g)
    <3> DEFINE e == [w \in 0 .. 0 |-> 0]
    <3>1. <<>> \in Seq(SUBSET DOMAIN chunks) /\ Len(<<>>) = 0 /\ e \in [0 .. 0 -> 0 .. N] /\ e[0] = 0
      BY <1>1
    <3> HIDE DEF e
    <3>2. Parted(<<>>, e, g)
      BY <3>1 DEF Parted, N
    <3> QED
      BY <3>1, <3>2 DEF Packed
  <2>6. Packed(Append(<<>>, {0 + 1}), 0 + 1, g)
    <3>1. PICK z \in Nat : z = 0
      OBVIOUS
    <3>2. z + 1 \in DOMAIN chunks
      BY <1>1, <1>7, <3>1
    <3>3. \A a \in 0 .. z - 1 : <<>> # <<>> /\ <<>>[Len(<<>>)] = a + 1 .. z => g[z + 1] - g[a] > Context
      OBVIOUS
    <3>4. Packed(Append(<<>>, {z + 1}), z + 1, g)
      BY <2>5, <3>1, <3>2, <3>3, PackedMore
    <3> QED
      BY <3>1, <3>4
  <2>7. 0 + 1 = k /\ {k} = 0 + 1 .. k /\ 0 \in 0 .. k - 1 /\ k - 1 = 0
    BY <1>7
  <2>8. n = g[k] - g[0]
    BY <1>1, <1>2, <2>7
  <2>9. Packed(Append(Pack(acc, k).windows, Pack(acc, k).window), k, g)
    BY <2>4, <2>6, <2>7
  <2>10. Len(Pack(acc, k).windows) < MaxWindows
    BY <1>4, <2>4
  <2>11. Pack(acc, k).window = 0 + 1 .. k /\ Pack(acc, k).used = g[k] - g[0]
    BY <2>4, <2>7, <2>8
  <2> HIDE DEF W
  <2> QED
    BY <1>1, <2>4, <2>7, <2>9, <2>10, <2>11 DEF PackOK
<1>8. CASE ~acc.full /\ k # 1
  <2>1. PICK a \in 0 .. (k - 1) - 1 :
          /\ acc.window = a + 1 .. k - 1
          /\ acc.used = g[k - 1] - g[a]
          /\ Packed(Append(W, acc.window), k - 1, g)
    BY <1>1, <1>8 DEF PackOK
  <2>2. Len(W) < MaxWindows
    BY <1>1, <1>8 DEF PackOK
  <2>3. /\ a \in Nat /\ a < k - 1 /\ a \in 0 .. k - 1 /\ acc.window # {} /\ a \in 0 .. N /\ k - 1 \in 0 .. N
        /\ g[a] \in Nat /\ g[k - 1] \in Nat /\ acc.used + n = g[k] - g[a]
    <3>1. a \in Nat /\ a < k - 1 /\ a \in 0 .. k - 1 /\ a \in 0 .. N /\ k - 1 \in 0 .. N
      BY <1>1, <2>1 DEF N
    <3>2. a + 1 \in acc.window
      BY <2>1, <3>1
    <3>3. g[a] \in Nat /\ g[k - 1] \in Nat
      BY <1>2, <3>1
    <3>4. acc.used = g[k - 1] - g[a]
      BY <2>1
    <3>5. \A x, y \in Nat : (x - y) + n = (x + n) - y
      BY <1>1
    <3> QED
      BY <1>2, <3>1, <3>2, <3>3, <3>4, <3>5
  <2>4. CASE Closes(acc, k)
    <3>1. Pack(acc, k) = [windows |-> Append(W, acc.window), window |-> {k}, used |-> n,
                          full |-> Len(W) + 1 >= MaxWindows]
      BY <1>8, <2>4 DEF Pack, Open, n
    <3>2. g[k] - g[a] > Context
      BY <2>3, <2>4 DEF Closes, n
    <3> DEFINE V == Append(W, acc.window)
    <3>3. V \in Seq(SUBSET DOMAIN chunks) /\ Len(V) = Len(W) + 1 /\ V[Len(V)] = acc.window /\ V # <<>>
      BY <1>3, AppendProperties
    <3>4. Packed(V, k - 1, g)
      BY <2>1
    <3> HIDE DEF V
    <3>5. CASE Len(W) + 1 >= MaxWindows
      <4>1. Len(V) = MaxWindows
        BY <1>4, <1>5, <2>2, <3>3, <3>5
      <4>2. (Len(W) + 1 >= MaxWindows) = TRUE
        BY <3>5
      <4>3. Pack(acc, k) = [windows |-> V, window |-> {k}, used |-> n, full |-> TRUE]
        BY <3>1, <4>2, Zenon DEF V
      <4>4. Pack(acc, k).windows = V /\ Pack(acc, k).full
        BY <4>3
      <4> QED
        BY <1>1, <3>4, <4>1, <4>4 DEF PackOK
    <3>6. CASE ~(Len(W) + 1 >= MaxWindows)
      <4>1. \A b \in 0 .. (k - 1) - 1 : V # <<>> /\ V[Len(V)] = b + 1 .. k - 1 => g[k] - g[b] > Context
        <5> SUFFICES ASSUME NEW b \in 0 .. (k - 1) - 1, V[Len(V)] = b + 1 .. k - 1 PROVE g[k] - g[b] > Context
          OBVIOUS
        <5>1. a + 1 .. k - 1 = b + 1 .. k - 1
          BY <2>1, <3>3
        <5>2. a = b
          BY <1>1, <2>3, <5>1, SameInterval
        <5> QED
          BY <3>2, <5>2
      <4>2. Packed(Append(V, {(k - 1) + 1}), (k - 1) + 1, g)
        BY <1>1, <3>4, <4>1, PackedMore
      <4>3. Packed(Append(V, {k}), k, g)
        BY <1>1, <4>2
      <4>4. {k} = (k - 1) + 1 .. k /\ k - 1 \in 0 .. k - 1 /\ n = g[k] - g[k - 1]
        BY <1>1, <1>2, <2>3
      <4>5. /\ Pack(acc, k).windows = V /\ Pack(acc, k).window = {k} /\ Pack(acc, k).used = n
            /\ ~Pack(acc, k).full
        <5>1. (Len(W) + 1 >= MaxWindows) = FALSE
          BY <3>6
        <5>2. Pack(acc, k) = [windows |-> V, window |-> {k}, used |-> n, full |-> FALSE]
          BY <3>1, <5>1, Zenon DEF V
        <5> QED
          BY <5>2
      <4>6. Len(V) < MaxWindows
        BY <1>4, <1>5, <3>3, <3>6
      <4> QED
        BY <1>1, <4>3, <4>4, <4>5, <4>6 DEF PackOK
    <3> QED
      BY <3>5, <3>6
  <2>5. CASE ~Closes(acc, k)
    <3>1. Pack(acc, k) = [acc EXCEPT !.window = @ \cup {k}, !.used = @ + n]
      BY <1>8, <2>5 DEF Pack, n
    <3>2. /\ Pack(acc, k).windows = W /\ Pack(acc, k).window = acc.window \cup {k}
          /\ Pack(acc, k).used = acc.used + n /\ ~Pack(acc, k).full
      BY <1>8, <3>1 DEF Packs
    <3>3. acc.window \cup {k} = a + 1 .. k
      BY <1>1, <2>1, <2>3
    <3>4. g[(k - 1) + 1] - g[a] <= Context
      BY <1>1, <1>2, <1>4, <2>3, <2>5 DEF Closes, n
    <3>5. Packed(Append(W, a + 1 .. (k - 1) + 1), (k - 1) + 1, g)
      BY <1>1, <1>3, <2>1, <2>3, <3>4, PackedLonger
    <3>6. Packed(Append(W, a + 1 .. k), k, g)
      BY <1>1, <3>5
    <3>7. Len(Pack(acc, k).windows) < MaxWindows
      BY <2>2, <3>2
    <3>8. /\ Pack(acc, k).window = a + 1 .. k /\ Pack(acc, k).used = g[k] - g[a]
          /\ Packed(Append(Pack(acc, k).windows, Pack(acc, k).window), k, g)
      BY <2>3, <3>2, <3>3, <3>6
    <3>9. \E b \in 0 .. k - 1 :
            /\ Pack(acc, k).window = b + 1 .. k
            /\ Pack(acc, k).used = g[k] - g[b]
            /\ Packed(Append(Pack(acc, k).windows, Pack(acc, k).window), k, g)
      BY <2>3, <3>8, Zenon
    <3>10. ~Pack(acc, k).full /\ k # 0
      BY <1>1, <3>2
    <3> QED
      BY <3>7, <3>9, <3>10, Zenon DEF PackOK
  <2> QED
    BY <2>4, <2>5
<1> QED
  BY <1>3, <1>6, <1>7, <1>8

\* The windows are the chunks in a row, all of them unless there are as many as may be.
LEMMA SplitIs ==
  ASSUME ChunkInv, chunks # <<>>, NEW g, Sums(g, Lengths)
  PROVE  \E hi \in Nat : Packed(Split, hi, g) /\ (hi = Len(chunks) \/ Len(Split) = MaxWindows)
<1> DEFINE N == Len(chunks)
<1>1. PICK f : Makes(f, N, Packs, Unpacked, Packing, AllPacked)
  BY PackingTrace
<1>2. f \in [0 .. N -> Packs] /\ Trace(f, N, Unpacked, Packing) /\ f[N] = AllPacked
  BY <1>1 DEF Makes
<1>3. N \in Nat /\ N > 0
  BY ChunkFacts
<1> HIDE DEF N
<1> DEFINE S == {k \in 0 .. N : PackOK(f[k], k, g)}
<1>4. 0 \in S
  <2>1. f[0] = Unpacked
    BY <1>2 DEF Trace
  <2>2. ~Unpacked.full
    BY DEF Unpacked
  <2>3. PackOK(f[0], 0, g)
    BY <2>1, <2>2 DEF PackOK
  <2> QED
    BY <1>3, <2>3
<1>5. ASSUME NEW k \in 1 .. N, k - 1 \in S PROVE k \in S
  <2>1. k - 1 \in 0 .. N
    BY <1>3
  <2>2. f[k - 1] \in Packs /\ PackOK(f[k - 1], k - 1, g)
    BY <1>2, <1>5, <2>1
  <2>3. f[k] = Packing[<<f[k - 1], k>>]
    BY <1>2 DEF Trace
  <2>4. k \in 1 .. Len(chunks)
    BY DEF N
  <2>5. f[k] = Pack(f[k - 1], k)
    BY <2>2, <2>3, <2>4, PackingIs
  <2>6. PackOK(f[k], k, g)
    BY <2>2, <2>4, <2>5, PackStep
  <2> QED
    BY <1>3, <2>6
<1> HIDE DEF S
<1>6. \A k \in 0 .. N : k \in S
  BY <1>3, <1>4, <1>5, UpTo
<1>7. N \in S
  BY <1>3, <1>6
<1> DEFINE acc == AllPacked
<1>8. PackOK(acc, N, g) /\ acc \in Packs
  BY <1>2, <1>3, <1>7 DEF S
<1>9. Split = IF acc.full \/ acc.window = {} THEN acc.windows ELSE Append(acc.windows, acc.window)
  BY DEF Split, AllPacked, Unpacked
<1> HIDE DEF acc
<1>10. CASE acc.full
  BY <1>8, <1>9, <1>10 DEF PackOK
<1>11. CASE ~acc.full
  <2>1. PICK a \in 0 .. N - 1 :
          acc.window = a + 1 .. N /\ Packed(Append(acc.windows, acc.window), N, g)
    BY <1>3, <1>8, <1>11 DEF PackOK
  <2>2. N \in acc.window
    BY <1>3, <2>1
  <2> QED
    BY <1>3, <1>9, <1>11, <2>1, <2>2 DEF N
<1> QED
  BY <1>10, <1>11

\* The number of the members of an interval, and of those up to one of them.
LEMMA IntervalCard ==
  ASSUME NEW a \in Nat, NEW b \in Nat, a <= b
  PROVE  /\ IsFiniteSet(a + 1 .. b) /\ Cardinality(a + 1 .. b) = b - a
         /\ \A k \in a + 1 .. b : Cardinality({j \in a + 1 .. b : j <= k}) = k - a
<1>1. ASSUME NEW c \in Nat, a <= c PROVE IsFiniteSet(a + 1 .. c) /\ Cardinality(a + 1 .. c) = c - a
  <2>1. a + 1 \in Int /\ c \in Int
    OBVIOUS
  <2>2. IsFiniteSet(a + 1 .. c) /\ Cardinality(a + 1 .. c) = IF a + 1 > c THEN 0 ELSE c - (a + 1) + 1
    BY <2>1, FS_Interval
  <2> QED
    BY <1>1, <2>2
<1>2. ASSUME NEW k \in a + 1 .. b PROVE Cardinality({j \in a + 1 .. b : j <= k}) = k - a
  <2>1. {j \in a + 1 .. b : j <= k} = a + 1 .. k
    OBVIOUS
  <2>2. k \in Nat /\ a <= k
    OBVIOUS
  <2> QED
    BY <1>1, <2>1, <2>2
<1> QED
  BY <1>1, <1>2

LEMMA IntervalRank ==
  ASSUME NEW a \in Nat, NEW b \in Nat, NEW k \in a + 1 .. b
  PROVE  Cardinality({j \in a + 1 .. b : j <= k}) = k - a
<1>1. a <= b
  OBVIOUS
<1> QED
  BY <1>1, IntervalCard

\* Sums only grow.
LEMMA SumsGrow ==
  ASSUME NEW s \in Seq(Nat), NEW g, Sums(g, s), NEW a \in 0 .. Len(s), NEW b \in 0 .. Len(s), a <= b
  PROVE  g[a] <= g[b]
<1> DEFINE n == Len(s)
           S == {k \in 0 .. n : a <= k => g[a] <= g[k]}
<1>1. n \in Nat /\ g \in [0 .. n -> Nat] /\ \A k \in 1 .. n : g[k] = g[k - 1] + s[k] /\ s[k] \in Nat
  BY DEF Sums
<1> HIDE DEF n
<1>2. a \in 0 .. n /\ b \in 0 .. n
  BY DEF n
<1>3. 0 \in S
  BY <1>1, <1>2
<1>4. ASSUME NEW k \in 1 .. n, k - 1 \in S PROVE k \in S
  <2>1. k - 1 \in 0 .. n /\ k \in 0 .. n
    BY <1>1
  <2>2. g[k - 1] \in Nat /\ g[k] = g[k - 1] + s[k] /\ s[k] \in Nat /\ g[a] \in Nat
    BY <1>1, <1>2, <2>1
  <2>3. CASE a = k
    BY <2>1, <2>2, <2>3
  <2>4. CASE a # k
    BY <1>2, <1>4, <2>1, <2>2, <2>4
  <2> QED
    BY <2>3, <2>4
<1> HIDE DEF S
<1>5. \A k \in 0 .. n : k \in S
  BY <1>1, <1>3, <1>4, UpTo
<1>6. b \in S
  BY <1>2, <1>5
<1> QED
  BY <1>6 DEF S

\* The length of a window's text.
LEMMA IntervalChars ==
  ASSUME ChunkInv, NEW g, Sums(g, Lengths), NEW a \in Nat, NEW b \in 1 .. Len(chunks), a < b
  PROVE  WindowChars(a + 1 .. b) = g[b] - g[a]
<1> DEFINE n == b - a
           s == [i \in 1 .. n |-> ChunkChars(chunks[a + i])]
           h == [i \in 0 .. n |-> g[a + i] - g[a]]
           w == a + 1 .. b
<1>1. /\ n \in Nat /\ Lengths \in Seq(Nat) /\ Len(Lengths) = Len(chunks) /\ Len(chunks) \in Nat /\ b \in Nat
      /\ g \in [0 .. Len(chunks) -> Nat]
  BY LengthsAre DEF Sums
<1>2. Cardinality(w) = n
  BY <1>1, IntervalCard
<1>3. ASSUME NEW i \in 1 .. n PROVE (CHOOSE k \in w : Cardinality({j \in w : j <= k}) = i) = a + i
  <2>1. a + i \in w /\ Cardinality({j \in w : j <= a + i}) = i
    <3>1. a + i \in w
      BY <1>1
    <3>2. Cardinality({j \in w : j <= a + i}) = (a + i) - a
      BY <1>1, <3>1, IntervalRank
    <3> QED
      BY <1>1, <3>1, <3>2
  <2>2. \A k \in w : Cardinality({j \in w : j <= k}) = k - a
    BY <1>1, IntervalRank
  <2>3. \A k \in w : k - a = i => k = a + i
    BY <1>1
  <2> HIDE DEF w
  <2> QED
    BY <2>1, <2>2, <2>3
<1>4. WindowChars(w) = Total(s)
  <2>1. \A i \in 1 .. n : ChunkChars(chunks[CHOOSE k \in w : Cardinality({j \in w : j <= k}) = i]) = ChunkChars(chunks[a + i])
    BY <1>3
  <2> HIDE DEF w, n
  <2>2. [i \in 1 .. n |-> ChunkChars(chunks[CHOOSE k \in w : Cardinality({j \in w : j <= k}) = i])] = s
    BY <2>1
  <2> QED
    BY <1>2, <2>2 DEF WindowChars
<1>5. ASSUME NEW i \in 1 .. n
      PROVE  /\ s[i] \in Nat /\ h[i] = h[i - 1] + s[i]
  <2>1. /\ a + i \in 1 .. Len(chunks) /\ a + i \in 0 .. Len(chunks) /\ a \in 0 .. Len(chunks)
        /\ i - 1 \in 0 .. n /\ i \in 0 .. n /\ a + (i - 1) = (a + i) - 1 /\ (a + i) - 1 \in 0 .. Len(chunks)
    BY <1>1
  <2>2. ChunkChars(chunks[a + i]) = Lengths[a + i] /\ ChunkChars(chunks[a + i]) \in Nat
    BY <2>1, LengthsAre
  <2>3. g[a + i] = g[(a + i) - 1] + Lengths[a + i]
    BY <1>1, <2>1 DEF Sums
  <2>4. g[a] \in Nat /\ g[(a + i) - 1] \in Nat
    BY <1>1, <2>1
  <2>5. \A x, y, z \in Nat : (x + z) - y = (x - y) + z
    OBVIOUS
  <2>6. h[i] = g[a + i] - g[a] /\ h[i - 1] = g[(a + i) - 1] - g[a] /\ s[i] = ChunkChars(chunks[a + i])
    BY <2>1
  <2> HIDE DEF h, s
  <2> QED
    BY <2>2, <2>3, <2>4, <2>5, <2>6
<1>6. h \in [0 .. n -> Nat]
  <2>1. ASSUME NEW i \in 0 .. n PROVE g[a + i] - g[a] \in Nat
    <3>1. a \in 0 .. Len(Lengths) /\ a + i \in 0 .. Len(Lengths) /\ a <= a + i
      BY <1>1
    <3>2. g[a] <= g[a + i]
      BY <1>1, <3>1, SumsGrow
    <3>3. g[a] \in Nat /\ g[a + i] \in Nat
      BY <1>1, <3>1
    <3> QED
      BY <3>2, <3>3
  <2> QED
    BY <2>1
<1>7. h[0] = 0
  BY <1>1
<1>8. s \in Seq(Nat) /\ Len(s) = n
  <2>1. \A i \in 1 .. n : ChunkChars(chunks[a + i]) \in Nat
    BY <1>5
  <2>2. s \in [1 .. n -> Nat]
    BY <2>1
  <2>3. n \in Nat
    BY <1>1
  <2> HIDE DEF s, n
  <2> QED
    BY <2>2, <2>3, SequenceIs
<1>9. h[n] = g[b] - g[a]
  BY <1>1
<1> HIDE DEF h, s, n, w
<1>10. Sums(h, s)
  BY <1>5, <1>6, <1>7, <1>8 DEF Sums
<1>11. Total(s) = h[Len(s)]
  BY <1>8, <1>10, TotalIs
<1> QED
  BY <1>4, <1>8, <1>9, <1>11 DEF w

\* The windows together are an interval.
LEMMA PartedAll ==
  ASSUME ChunkInv, NEW g, NEW ws, NEW e, Parted(ws, e, g)
  PROVE  /\ UNION {ws[w] : w \in DOMAIN ws} = 1 .. e[Len(ws)]
         /\ e[Len(ws)] \in 0 .. Len(chunks)
         /\ DOMAIN ws = 1 .. Len(ws) /\ Len(ws) \in Nat
<1> DEFINE n == Len(ws)
           hi == e[n]
<1>1. /\ n \in Nat /\ DOMAIN ws = 1 .. n /\ e \in [0 .. n -> 0 .. Len(chunks)] /\ e[0] = 0 /\ Len(chunks) \in Nat
      /\ \A w \in 1 .. n : e[w - 1] < e[w] /\ ws[w] = e[w - 1] + 1 .. e[w]
  BY LengthsAre DEF Parted
<1> HIDE DEF n
<1>2. hi \in 0 .. Len(chunks) /\ \A w \in 0 .. n : e[w] \in Nat
  BY <1>1
<1> DEFINE S == {w \in 0 .. n : e[w] <= hi}
<1>3. n \in S
  BY <1>1, <1>2
<1>4. ASSUME NEW w \in 0 .. n - 1, w + 1 \in S PROVE w \in S
  <2>1. w \in 0 .. n /\ w + 1 \in 1 .. n /\ (w + 1) - 1 = w /\ w + 1 \in 0 .. n
    BY <1>1
  <2>2. e[w] < e[w + 1] /\ e[w + 1] <= hi /\ e[w] \in Nat /\ e[w + 1] \in Nat
    BY <1>1, <1>2, <1>4, <2>1
  <2> QED
    BY <1>2, <2>1, <2>2
<1> HIDE DEF S, hi
<1>5. \A w \in 0 .. n : w \in S
  BY <1>1, <1>3, <1>4, DownTo
<1>6. \A w \in 0 .. n : e[w] <= hi
  BY <1>5 DEF S
<1>7. ASSUME NEW x, x \in UNION {ws[w] : w \in DOMAIN ws} PROVE x \in 1 .. hi
  <2>1. PICK w \in 1 .. n : x \in ws[w]
    BY <1>1, <1>7
  <2>2. w \in 0 .. n /\ w - 1 \in 0 .. n
    BY <1>1
  <2>3. e[w] <= hi /\ e[w] \in Nat /\ e[w - 1] \in Nat /\ x \in e[w - 1] + 1 .. e[w]
    BY <1>1, <1>2, <1>6, <2>1, <2>2
  <2> QED
    BY <1>2, <2>3
<1>8. ASSUME NEW x \in 1 .. hi PROVE x \in UNION {ws[w] : w \in DOMAIN ws}
  <2> DEFINE F == {w \in 0 .. n : x <= e[w]}
  <2>1. F \subseteq Nat /\ F # {}
    <3>1. n \in F
      BY <1>1, <1>2 DEF hi
    <3> QED
      BY <1>1, <3>1
  <2> HIDE DEF F
  <2>2. PICK w \in F : \A v \in F : w <= v
    BY <2>1, LeastOf
  <2>3. w \in 0 .. n /\ x <= e[w] /\ x \in Nat /\ x > 0
    BY <1>2 DEF F
  <2>4. w # 0
    BY <1>1, <2>3
  <2>5. w \in 1 .. n /\ w - 1 \in 0 .. n /\ ~(w <= w - 1)
    BY <1>1, <2>3, <2>4
  <2>6. ~(x <= e[w - 1])
    BY <2>2, <2>5 DEF F
  <2>7. x \in ws[w]
    BY <1>1, <1>2, <2>3, <2>5, <2>6
  <2> QED
    BY <1>1, <2>5, <2>7
<1>9. UNION {ws[w] : w \in DOMAIN ws} = 1 .. hi
  BY <1>7, <1>8
<1> QED
  BY <1>1, <1>2, <1>9 DEF n, hi

\* Every sentence of a document that has been read is in a chunk.
LEMMA EverySentence ==
  ASSUME ChunkInv, ~reading, NEW i \in 1 .. Len(doc)
  PROVE  \E k \in DOMAIN chunks : \E p \in DOMAIN chunks[k].body : chunks[k].body[p].unit = i
<1> DEFINE N == Len(chunks)
           F == {k \in 1 .. N : i <= LastSpan(chunks[k]).unit}
<1>1. /\ N \in Nat /\ DOMAIN chunks = 1 .. N /\ Len(doc) \in Nat /\ i \in Nat /\ i > 0
      /\ doc \in Seq(Sentences)
  BY ChunkFacts, Reading
<1>2. Flushed = chunks
  <2>1. current = <<>>
    BY DEF ChunkInv
  <2> QED
    BY <2>1 DEF Flushed
<1>3. /\ chunks # <<>> /\ FirstOf(chunks[1]).unit = 1 /\ LastSpan(chunks[N]).unit = Len(doc)
  <2>1. Covers(doc, chunks) /\ doc # <<>>
    BY <1>1, <1>2, Reading
  <2> QED
    BY <2>1 DEF Covers
<1>4. N > 0
  BY <1>1, <1>3, ChunkFacts
<1>5. ASSUME NEW k \in 1 .. N
      PROVE  /\ chunks[k].body # <<>> /\ Shaped(doc, chunks[k]) /\ chunks[k] \in ChunkSet
             /\ FirstOf(chunks[k]).unit \in Nat /\ LastSpan(chunks[k]).unit \in Nat
             /\ DOMAIN chunks[k].body = 1 .. Len(chunks[k].body) /\ Len(chunks[k].body) \in Nat
             /\ Len(chunks[k].body) > 0
  <2>1. chunks[k].body # <<>> /\ Shaped(doc, chunks[k]) /\ chunks[k] \in ChunkSet
    BY ChunkFacts
  <2>2. \A p \in SpanSet : p.unit \in Nat
    BY DEF SpanSet
  <2> QED
    BY <2>1, <2>2, SpansAre
<1>6. \A k \in 1 .. N - 1 : Link(doc, chunks[k], chunks[k + 1])
  BY ChunkFacts DEF Links
<1> HIDE DEF N
<1>7. F \subseteq Nat /\ F # {}
  <2>1. N \in F
    BY <1>1, <1>3, <1>4
  <2> QED
    BY <1>1, <2>1
<1> HIDE DEF F
<1>8. PICK k \in F : \A j \in F : k <= j
  BY <1>7, LeastOf
<1>9. k \in 1 .. N /\ i <= LastSpan(chunks[k]).unit
  BY DEF F
<1>10. FirstOf(chunks[k]).unit <= i
  <2>1. CASE k = 1
    BY <1>1, <1>3, <2>1
  <2>2. CASE k # 1
    <3>1. k - 1 \in 1 .. N - 1 /\ k - 1 \in 1 .. N /\ (k - 1) + 1 = k /\ ~(k <= k - 1)
      BY <1>1, <1>9, <2>2
    <3>2. ~(i <= LastSpan(chunks[k - 1]).unit)
      BY <1>8, <3>1 DEF F
    <3>3. Link(doc, chunks[k - 1], chunks[k])
      BY <1>6, <3>1
    <3>4. FirstOf(chunks[k]).unit <= LastSpan(chunks[k - 1]).unit + 1
      <4>1. FirstOf(chunks[k]).unit \in Nat /\ LastSpan(chunks[k - 1]).unit \in Nat /\ FirstOf(chunks[k - 1]).unit \in Nat
        BY <1>5, <1>9, <3>1
      <4>2. CASE Adjoins(doc, LastSpan(chunks[k - 1]), FirstOf(chunks[k]))
        BY <4>1, <4>2 DEF Adjoins
      <4>3. CASE Overlaps(doc, chunks[k - 1], chunks[k])
        BY <4>1, <4>3 DEF Overlaps
      <4> QED
        BY <3>3, <4>2, <4>3 DEF Link
    <3> QED
      BY <1>1, <1>5, <1>9, <3>1, <3>2, <3>4
  <2> QED
    BY <2>1, <2>2
<1> DEFINE c == chunks[k]
<1>11. /\ Shaped(doc, c) /\ FirstOf(c).unit \in Nat /\ LastSpan(c).unit \in Nat
       /\ DOMAIN c.body = 1 .. Len(c.body) /\ Len(c.body) \in Nat /\ Len(c.body) > 0
       /\ FirstOf(c).unit <= i /\ i <= LastSpan(c).unit
  BY <1>5, <1>9, <1>10
<1> HIDE DEF c
<1>12. \E p \in DOMAIN c.body : c.body[p].unit = i
  <2>1. CASE IsCut(c)
    <3>1. Len(c.body) = 1 /\ FirstOf(c) = c.body[1] /\ LastSpan(c) = c.body[1]
      BY <2>1 DEF IsCut, FirstOf, LastSpan
    <3>2. c.body[1].unit = i /\ 1 \in DOMAIN c.body
      BY <1>1, <1>11, <3>1
    <3> QED
      BY <3>2
  <2>2. CASE IsWhole(doc, c)
    <3>1. /\ Len(c.body) = LastSpan(c).unit - FirstOf(c).unit + 1
          /\ \A j \in 1 .. Len(c.body) : c.body[j] = WholeOf(doc, FirstOf(c).unit + j - 1)
      BY <2>2 DEF IsWhole
    <3>2. PICK a \in Nat : a = FirstOf(c).unit
      BY <1>11
    <3>5. PICK b \in Nat : b = LastSpan(c).unit
      BY <1>11
    <3>6. Len(c.body) = b - a + 1 /\ a <= i /\ i <= b
      BY <1>11, <3>1, <3>2, <3>5
    <3>3. i - a + 1 \in 1 .. Len(c.body) /\ a + (i - a + 1) - 1 = i
      BY <1>1, <3>6
    <3>7. c.body[i - a + 1] = WholeOf(doc, a + (i - a + 1) - 1)
      BY <3>1, <3>2, <3>3
    <3>4. c.body[i - a + 1].unit = i
      BY <3>3, <3>7 DEF WholeOf
    <3> QED
      BY <1>11, <3>3, <3>4
  <2> QED
    BY <1>11, <2>1, <2>2 DEF Shaped
<1> QED
  BY <1>1, <1>9, <1>12 DEF c

----
(* The inductive invariant of the minutes *)

\* The windows are the chunks in a row, all of them unless there are as many as may be.
Windowed == \E g, e : /\ Sums(g, Lengths) /\ Parted(windows, e, g)
                      /\ e[Len(windows)] = Len(chunks) \/ Len(windows) = MaxWindows

\* There are windows once the document is split; what is kept or failed is of windows
\* whose call has been made.
MinutesInv ==
  /\ at \in 0 .. Len(windows) + 1
  /\ at = 0 => windows = <<>> /\ result = "none"
  /\ at > 0 => ~reading /\ chunks # <<>> /\ Windowed
  /\ partials \cup failed \subseteq 1 .. Len(windows) /\ partials \cap failed = {}
  /\ result \in {"none", "minutes", "notes", "declined", "empty"}
  /\ result = "none" => \A w \in partials \cup failed : w < at
  /\ result \in {"minutes", "notes"} => at = Len(windows) + 1 \/ Len(windows) = 1
  /\ NotesAreKept

\* What the windows are at any time.
LEMMA WindowsAre ==
  ASSUME ChunkInv, MinutesInv
  PROVE  \E g, e : /\ Sums(g, Lengths) /\ Parted(windows, e, g)
                   /\ at > 0 => e[Len(windows)] = Len(chunks) \/ Len(windows) = MaxWindows
<1>1. PICK g : Sums(g, Lengths)
  BY LengthsAre, SumsExist
<1>2. CASE at = 0
  <2> DEFINE e == [w \in 0 .. 0 |-> 0]
  <2>1. windows = <<>> /\ Len(chunks) \in Nat
    BY <1>2, LengthsAre DEF MinutesInv
  <2>2. <<>> \in Seq(SUBSET DOMAIN chunks) /\ Len(<<>>) = 0 /\ e \in [0 .. 0 -> 0 .. Len(chunks)] /\ e[0] = 0
    BY <2>1
  <2> HIDE DEF e
  <2>3. Parted(windows, e, g)
    BY <2>1, <2>2 DEF Parted
  <2> QED
    BY <1>1, <1>2, <2>3
<1>3. CASE at > 0
  BY <1>3 DEF MinutesInv, Windowed
<1>4. at \in Nat
  <2>1. CASE at > 0
    <3>1. PICK h, e : Parted(windows, e, h)
      BY <2>1 DEF MinutesInv, Windowed
    <3>2. Len(windows) \in Nat
      BY <3>1 DEF Parted
    <3> QED
      BY <3>2 DEF MinutesInv
  <2>2. CASE ~(at > 0)
    BY <2>2 DEF MinutesInv
  <2> QED
    BY <2>1, <2>2
<1> QED
  BY <1>2, <1>3, <1>4

\* The first place of an interval is where it begins.
LEMMA FirstIs ==
  ASSUME NEW a \in Nat, NEW b \in Nat, a < b
  PROVE  First(a + 1 .. b) = a + 1
<1>1. a + 1 \in a + 1 .. b /\ \A j \in a + 1 .. b : a + 1 <= j
  OBVIOUS
<1>2. \A k \in a + 1 .. b : (\A j \in a + 1 .. b : k <= j) => k = a + 1
  BY <1>1
<1> QED
  BY <1>1, <1>2 DEF First

\* The parts of DocumentIsCovered, from the two invariants: the windows are the chunks, in order,
LEMMA WindowsTileHolds ==
  ASSUME ChunkInv, MinutesInv
  PROVE  WindowsTile
<1>1. PICK g, e : /\ Sums(g, Lengths) /\ Parted(windows, e, g)
                  /\ at > 0 => e[Len(windows)] = Len(chunks) \/ Len(windows) = MaxWindows
  BY WindowsAre
<1> DEFINE n == Len(windows)
           N == Len(chunks)
<1>2. /\ Selected = 1 .. e[n] /\ e[n] \in 0 .. N /\ DOMAIN windows = 1 .. n /\ n \in Nat /\ N \in Nat
      /\ DOMAIN chunks = 1 .. N
  BY <1>1, PartedAll, LengthsAre DEF Selected
<1>3. /\ e \in [0 .. n -> 0 .. N]
      /\ \A w \in 1 .. n : /\ e[w - 1] < e[w] /\ windows[w] = e[w - 1] + 1 .. e[w]
                           /\ e[w] > e[w - 1] + 1 => g[e[w]] - g[e[w - 1]] <= Context
      /\ \A w \in 1 .. n - 1 : g[e[w] + 1] - g[e[w - 1]] > Context
  BY <1>1 DEF Parted
<1>4. g \in [0 .. N -> Nat] /\ \A k \in 1 .. N : g[k] = g[k - 1] + ChunkChars(chunks[k]) /\ ChunkChars(chunks[k]) \in Nat
  BY <1>1, LengthsAre DEF Sums
<1>5. Cardinality(Selected) = e[n]
  <2>1. e[n] \in Nat /\ 0 <= e[n]
    BY <1>2
  <2>2. PICK z \in Nat : z = 0
    OBVIOUS
  <2>3. Cardinality(z + 1 .. e[n]) = e[n] - z
    BY <2>1, <2>2, IntervalCard
  <2> QED
    BY <1>2, <2>1, <2>2, <2>3
<1> HIDE DEF n, N
<1>6. ASSUME NEW w \in 1 .. n
      PROVE  /\ e[w - 1] \in Nat /\ e[w] \in Nat /\ e[w] \in 1 .. N /\ e[w - 1] < e[w]
             /\ windows[w] = e[w - 1] + 1 .. e[w]
             /\ Cardinality(windows[w]) = e[w] - e[w - 1]
             /\ WindowChars(windows[w]) = g[e[w]] - g[e[w - 1]]
             /\ First(windows[w]) = e[w - 1] + 1
             /\ g[e[w - 1]] \in Nat /\ g[e[w]] \in Nat
  <2>1. w - 1 \in 0 .. n /\ w \in 0 .. n
    BY <1>2
  <2>2. e[w - 1] \in Nat /\ e[w] \in Nat /\ e[w] \in 1 .. N /\ e[w - 1] < e[w]
        /\ windows[w] = e[w - 1] + 1 .. e[w] /\ e[w - 1] \in 0 .. N /\ e[w] \in 0 .. N
    BY <1>2, <1>3, <2>1
  <2>3. e[w] \in 1 .. Len(chunks)
    BY <2>2 DEF N
  <2>4. WindowChars(windows[w]) = g[e[w]] - g[e[w - 1]]
    BY <1>1, <2>2, <2>3, IntervalChars
  <2>5. Cardinality(windows[w]) = e[w] - e[w - 1] /\ First(windows[w]) = e[w - 1] + 1
    BY <2>2, IntervalCard, FirstIs
  <2> QED
    BY <1>4, <2>2, <2>4, <2>5
<1>7. ASSUME NEW w \in 1 .. n, Cardinality(windows[w]) > 1 PROVE WindowChars(windows[w]) <= Context
  BY <1>3, <1>6, <1>7
<1>8. ASSUME NEW w \in 1 .. n - 1
      PROVE  /\ \A j \in windows[w], k \in windows[w + 1] : j < k
             /\ WindowChars(windows[w]) + ChunkChars(chunks[First(windows[w + 1])]) > Context
  <2>1. w \in 1 .. n /\ w + 1 \in 1 .. n /\ (w + 1) - 1 = w
    BY <1>2
  <2>2. /\ windows[w] = e[w - 1] + 1 .. e[w] /\ windows[w + 1] = e[w] + 1 .. e[w + 1]
        /\ First(windows[w + 1]) = e[w] + 1 /\ e[w] \in Nat /\ e[w - 1] \in Nat /\ e[w + 1] \in 1 .. N /\ e[w] < e[w + 1]
        /\ WindowChars(windows[w]) = g[e[w]] - g[e[w - 1]] /\ g[e[w - 1]] \in Nat /\ g[e[w]] \in Nat
    BY <1>6, <2>1
  <2>3. e[w] + 1 \in 1 .. N /\ (e[w] + 1) - 1 = e[w]
    <3>1. \A x \in Nat, y \in 1 .. N : x < y => x + 1 \in 1 .. N /\ (x + 1) - 1 = x
      BY <1>2
    <3> QED
      BY <2>2, <3>1
  <2>4. g[e[w] + 1] = g[e[w]] + ChunkChars(chunks[e[w] + 1]) /\ ChunkChars(chunks[e[w] + 1]) \in Nat
    BY <1>4, <2>3
  <2>5. g[e[w] + 1] - g[e[w - 1]] > Context
    BY <1>3
  <2>6. \A x, y, z \in Nat : (x + z) - y = (x - y) + z
    OBVIOUS
  <2>7. WindowChars(windows[w]) + ChunkChars(chunks[e[w] + 1]) > Context
    BY <2>2, <2>4, <2>5, <2>6
  <2> QED
    BY <2>2, <2>7
<1>9. ASSUME at > 0, IsPartial PROVE n = MaxWindows
  <2>1. e[n] < N
    BY <1>5, <1>9 DEF IsPartial, N
  <2> QED
    BY <1>1, <1>2, <1>9, <2>1 DEF n, N
<1>10. Selected = 1 .. Cardinality(Selected)
  BY <1>2, <1>5
<1> QED
  BY <1>2, <1>7, <1>8, <1>9, <1>10 DEF WindowsTile, n

\* ... and minutes that are not called partial read every sentence.
LEMMA MinutesReadItAllHolds ==
  ASSUME ChunkInv, MinutesInv
  PROVE  MinutesReadItAll
<1> SUFFICES ASSUME result \in {"minutes", "notes"}, ~IsPartial, NEW i \in 1 .. Len(doc)
             PROVE  \E w \in DOMAIN windows, k \in Selected :
                      /\ k \in windows[w]
                      /\ w \in failed \/ w < at \/ Len(windows) = 1
                      /\ \E p \in DOMAIN chunks[k].body : chunks[k].body[p].unit = i
  BY DEF MinutesReadItAll
<1>1. PICK g, e : Parted(windows, e, g)
  BY WindowsAre
<1>2. /\ Selected = 1 .. e[Len(windows)] /\ e[Len(windows)] \in 0 .. Len(chunks)
      /\ DOMAIN windows = 1 .. Len(windows) /\ Len(windows) \in Nat
  BY <1>1, PartedAll DEF Selected
<1>3. Selected = DOMAIN chunks
  <2>1. PICK z \in Nat, h \in Nat : z = 0 /\ h = e[Len(windows)]
    BY <1>2
  <2>2. Cardinality(z + 1 .. h) = h - z
    BY <2>1, IntervalCard
  <2>3. Cardinality(Selected) = e[Len(windows)]
    BY <1>2, <2>1, <2>2
  <2>4. Len(chunks) \in Nat /\ DOMAIN chunks = 1 .. Len(chunks)
    BY LengthsAre
  <2>5. ~(e[Len(windows)] < Len(chunks))
    BY <2>3 DEF IsPartial
  <2>6. e[Len(windows)] = Len(chunks)
    BY <1>2, <2>4, <2>5
  <2> QED
    BY <1>2, <2>4, <2>6
<1>4. at > 0 /\ ~reading
  <2>1. result # "none"
    OBVIOUS
  <2>2. at # 0 /\ at \in 0 .. Len(windows) + 1
    BY <2>1 DEF MinutesInv
  <2>3. at > 0
    BY <1>2, <2>2
  <2> QED
    BY <2>3 DEF MinutesInv
<1>5. PICK k \in Selected : \E p \in DOMAIN chunks[k].body : chunks[k].body[p].unit = i
  BY <1>3, <1>4, EverySentence
<1>6. PICK w \in DOMAIN windows : k \in windows[w]
  BY DEF Selected
<1>7. at = Len(windows) + 1 \/ Len(windows) = 1
  BY DEF MinutesInv
<1>8. w < at \/ Len(windows) = 1
  BY <1>2, <1>6, <1>7
<1> QED
  BY <1>5, <1>6, <1>8

\* The invariant of the minutes holds before the first window, and each step keeps it.
LEMMA MinutesInit1 ==
  ASSUME ChunkInit, MinutesInit
  PROVE  MinutesInv
BY DEF MinutesInit, MinutesInv, NotesAreKept

\* Reading on and splitting off chunks is over before there are windows.
LEMMA MinutesRest ==
  ASSUME MinutesInv, ChunkInv, ChunkNext, UNCHANGED minutesVars
  PROVE  MinutesInv'
<1>1. windows' = windows /\ at' = at /\ partials' = partials /\ failed' = failed /\ result' = result
  BY DEF minutesVars
<1>2. reading
  BY DEF ChunkNext, Read, Finish
<1>3. at = 0
  BY <1>2 DEF MinutesInv
<1> QED
  BY <1>1, <1>3 DEF MinutesInv, NotesAreKept

LEMMA LengthsRest ==
  ASSUME doc' = doc, chunks' = chunks
  PROVE  Lengths' = Lengths
BY DEF Lengths, ChunkChars, SpanChars, Chars, Letters

LEMMA MinutesStep ==
  ASSUME MinutesInv, ChunkInv, MinutesNext, UNCHANGED chunkVars
  PROVE  MinutesInv'
<1>1. doc' = doc /\ chunks' = chunks /\ reading' = reading
  BY DEF chunkVars
<1>2. ASSUME windows' = windows, Windowed PROVE Windowed'
  <2>1. PICK g, e : /\ Sums(g, Lengths) /\ Parted(windows, e, g)
                    /\ e[Len(windows)] = Len(chunks) \/ Len(windows) = MaxWindows
    BY <1>2 DEF Windowed
  <2>2. Sums(g, Lengths)'
    BY <1>1, <2>1, LengthsRest DEF Sums
  <2>3. Parted(windows, e, g)'
    BY <1>1, <1>2, <2>1 DEF Parted
  <2> QED
    BY <1>1, <1>2, <2>1, <2>2, <2>3 DEF Windowed
<1>3. DOMAIN windows = 1 .. Len(windows) /\ Len(windows) \in Nat
  <2>1. PICK g, e : Parted(windows, e, g)
    BY WindowsAre
  <2> QED
    BY <2>1, PartedAll
<1>4. CASE BeginMinutes
  <2>1. /\ ~reading /\ chunks # <<>> /\ at = 0 /\ windows' = Split /\ at' = 1
        /\ partials' = partials /\ failed' = failed /\ result' = result
    BY <1>4 DEF BeginMinutes
  <2>2. windows = <<>> /\ result = "none"
    BY <2>1 DEF MinutesInv
  <2>3. partials = {} /\ failed = {}
    BY <1>3, <2>2 DEF MinutesInv
  <2>4. PICK g : Sums(g, Lengths)
    BY LengthsAre, SumsExist
  <2>5. PICK hi \in Nat : Packed(Split, hi, g) /\ (hi = Len(chunks) \/ Len(Split) = MaxWindows)
    BY <2>1, <2>4, SplitIs
  <2>6. PICK e : Parted(Split, e, g) /\ e[Len(Split)] = hi
    BY <2>5 DEF Packed
  <2>7. 1 \in 0 .. Len(Split) + 1
    <3>1. Len(Split) \in Nat
      BY <2>6 DEF Parted
    <3> QED
      BY <3>1
  <2>8. Sums(g, Lengths)'
    BY <1>1, <2>4, LengthsRest DEF Sums
  <2>9. Parted(windows, e, g)'
    BY <1>1, <2>1, <2>6 DEF Parted
  <2>10. Windowed'
    BY <1>1, <2>1, <2>5, <2>6, <2>8, <2>9 DEF Windowed
  <2> QED
    BY <1>1, <1>2, <2>1, <2>2, <2>3, <2>7, <2>10 DEF MinutesInv, NotesAreKept
<1>5. ASSUME NEW answer \in {"notes", "nothing", "failed", "declined"}, SingleWindow(answer) PROVE MinutesInv'
  <2>1. /\ at = 1 /\ Len(windows) = 1 /\ result = "none" /\ windows' = windows /\ at' = at
        /\ result' = IF answer = "failed" THEN "empty" ELSE IF answer = "declined" THEN answer ELSE "minutes"
        /\ partials' = IF answer = "failed" THEN {} ELSE {1}
        /\ failed' = {1} \ partials'
    BY <1>5 DEF SingleWindow
  <2>2. partials' \cup failed' \subseteq 1 .. 1 /\ partials' \cap failed' = {}
    BY <2>1
  <2>3. result' \in {"minutes", "declined", "empty"} /\ (result' = "empty" => partials' = {})
        /\ (result' = "minutes" => partials' # {})
    BY <2>1
  <2>4. Windowed /\ ~reading /\ chunks # <<>>
    BY <2>1 DEF MinutesInv
  <2> QED
    BY <1>1, <1>2, <2>1, <2>2, <2>3, <2>4 DEF MinutesInv, NotesAreKept
<1>6. ASSUME NEW answer \in {"notes", "nothing", "failed", "declined"}, Portion(answer) PROVE MinutesInv'
  <2>1. at \in 1 .. Len(windows) /\ Len(windows) > 1 /\ result = "none" /\ windows' = windows /\ at \in Nat
    BY <1>3, <1>6 DEF Portion
  <2>2. Windowed /\ ~reading /\ chunks # <<>> /\ \A w \in partials \cup failed : w < at
    BY <2>1 DEF MinutesInv
  <2>3. CASE answer = "declined"
    <3>1. result' = "declined" /\ at' = at /\ partials' = partials /\ failed' = failed
      BY <1>6, <2>3 DEF Portion
    <3> QED
      BY <1>1, <1>2, <2>1, <2>2, <3>1 DEF MinutesInv, NotesAreKept
  <2>4. CASE answer # "declined"
    <3>1. /\ at' = at + 1 /\ result' = "none"
          /\ partials' = IF answer = "notes" THEN partials \cup {at} ELSE partials
          /\ failed'   = IF answer = "failed" THEN failed \cup {at} ELSE failed
      BY <1>6, <2>1, <2>4 DEF Portion
    <3>2. at + 1 \in 0 .. Len(windows) + 1 /\ at + 1 > 0
      BY <1>3, <2>1
    <3>3. partials \cup failed \subseteq 1 .. Len(windows) /\ partials \cap failed = {}
      BY DEF MinutesInv
    <3>4. \A w \in 1 .. Len(windows) : w < at => w < at + 1
      BY <2>1
    <3>5. at \notin partials /\ at \notin failed
      BY <2>1, <2>2
    <3>6. partials' \cup failed' \subseteq 1 .. Len(windows) /\ partials' \cap failed' = {}
      BY <2>1, <3>1, <3>3, <3>5
    <3>7. \A w \in partials' \cup failed' : w < at + 1
      <4>1. \A w \in partials' \cup failed' : w = at \/ w \in partials \cup failed
        BY <3>1
      <4>2. at < at + 1
        BY <2>1
      <4> QED
        BY <2>2, <3>3, <3>4, <4>1, <4>2
    <3> QED
      BY <1>1, <1>2, <2>1, <2>2, <3>1, <3>2, <3>6, <3>7 DEF MinutesInv, NotesAreKept
  <2> QED
    BY <2>3, <2>4
<1>7. ASSUME NEW ok \in BOOLEAN, MergePortions(ok) PROVE MinutesInv'
  <2>1. /\ at = Len(windows) + 1 /\ Len(windows) > 1 /\ result = "none"
        /\ result' = IF partials = {} THEN "empty" ELSE IF ok THEN "minutes" ELSE "notes"
        /\ windows' = windows /\ at' = at /\ partials' = partials /\ failed' = failed
    BY <1>7 DEF MergePortions
  <2>2. Windowed /\ ~reading /\ chunks # <<>>
    BY <1>3, <2>1 DEF MinutesInv
  <2>3. result' \in {"empty", "minutes", "notes"} /\ (result' = "empty" <=> partials = {})
    BY <2>1
  <2>4. at > 0 /\ at # 0
    BY <1>3, <2>1
  <2> QED
    BY <1>1, <1>2, <2>1, <2>2, <2>3, <2>4 DEF MinutesInv, NotesAreKept
<1> QED
  BY <1>4, <1>5, <1>6, <1>7 DEF MinutesNext

\* The variables of the minutes are well typed.
LEMMA MinutesTypes ==
  ASSUME ChunkInv, MinutesInv
  PROVE  MinutesTypeOK
<1>1. PICK g, e : Parted(windows, e, g)
  BY WindowsAre
<1>2. DOMAIN windows = 1 .. Len(windows) /\ Len(windows) \in Nat /\ DOMAIN chunks = 1 .. Len(chunks)
  BY <1>1, PartedAll, LengthsAre
<1>3. windows \in Seq((SUBSET (1 .. Len(chunks))) \ {{}})
  <2>1. windows \in Seq(SUBSET DOMAIN chunks)
    BY <1>1 DEF Parted
  <2>2. ASSUME NEW w \in 1 .. Len(windows) PROVE windows[w] \in (SUBSET (1 .. Len(chunks))) \ {{}}
    <3>1. e[w - 1] < e[w] /\ windows[w] = e[w - 1] + 1 .. e[w] /\ e \in [0 .. Len(windows) -> 0 .. Len(chunks)]
      BY <1>1 DEF Parted
    <3>2. w - 1 \in 0 .. Len(windows) /\ w \in 0 .. Len(windows) /\ Len(chunks) \in Nat
      BY <1>2, LengthsAre
    <3>3. e[w - 1] \in Nat /\ e[w] \in Nat
      BY <3>1, <3>2
    <3>4. e[w] \in windows[w]
      BY <3>1, <3>3
    <3> QED
      <4>1. windows[w] \in SUBSET (1 .. Len(chunks))
        BY <1>2, <2>1
      <4>2. windows[w] # {}
        BY <3>4
      <4> QED
        BY <4>1, <4>2, Zenon
  <2>3. windows \in [1 .. Len(windows) -> (SUBSET (1 .. Len(chunks))) \ {{}}]
    BY <1>2, <2>1, <2>2
  <2> QED
    BY <1>2, <2>3
<1> QED
  BY <1>2, <1>3 DEF MinutesTypeOK, MinutesInv

----
(* Samples that are spread over a document *)

\* Multiplication keeps the order.
LEMMA TimesGrows ==
  ASSUME NEW c \in Nat, NEW x \in Nat, NEW y \in Nat, x <= y
  PROVE  c * x \in Nat /\ c * x <= c * y
<1>1. PICK d \in Nat : y = x + d
  <2>1. y - x \in Nat /\ y = x + (y - x)
    OBVIOUS
  <2> QED
    BY <2>1
<1>2. c * y = c * x + c * d
  BY <1>1
<1>3. c * x \in Nat /\ c * d \in Nat
  BY <1>1
<1> QED
  BY <1>2, <1>3

\* A product that is smaller has the smaller factor.
LEMMA TimesLess ==
  ASSUME NEW c \in Nat, NEW x \in Nat, NEW y \in Nat, c * x < c * y
  PROVE  x < y
<1>1. ASSUME ~(x < y) PROVE FALSE
  <2>1. y <= x
    BY <1>1
  <2>2. c * y <= c * x /\ c * y \in Nat /\ c * x \in Nat
    BY <2>1, TimesGrows
  <2> QED
    BY <2>2
<1> QED
  BY <1>1

\* Rounding is off by a half at most.
LEMMA RoundedIs ==
  ASSUME NEW a \in Nat, NEW b \in Nat, b > 0
  PROVE  /\ Rounded(a, b) \in Nat /\ b * Rounded(a, b) \in Nat
         /\ 2 * (b * Rounded(a, b)) <= 2 * a + b
         /\ 2 * a <= 2 * (b * Rounded(a, b)) + b
<1> DEFINE q == a \div b
           t == a % b
<1>1. q \in Nat /\ t \in Nat /\ t < b /\ a = b * q + t
  OBVIOUS
<1>2. Rounded(a, b) = IF 2 * t < b \/ (2 * t = b /\ q % 2 = 0) THEN q ELSE q + 1
  BY DEF Rounded
<1> HIDE DEF q, t
<1>3. b * q \in Nat /\ b * (q + 1) = b * q + b
  BY <1>1
<1>4. CASE Rounded(a, b) = q
  <2>1. 2 * t <= b
    BY <1>1, <1>2, <1>4
  <2>2. PICK u \in Nat : u = b * q
    BY <1>3
  <2> QED
    BY <1>1, <1>4, <2>1, <2>2
<1>5. CASE Rounded(a, b) = q + 1
  <2>1. b <= 2 * t
    BY <1>1, <1>2, <1>5
  <2>2. PICK u \in Nat : u = b * q
    BY <1>3
  <2>3. b * Rounded(a, b) = u + b
    BY <1>3, <1>5, <2>2
  <2> QED
    BY <1>1, <1>5, <2>1, <2>2, <2>3
<1> QED
  BY <1>2, <1>4, <1>5

\* Of n parts in c steps, the place of step p ...
Stop(p, n, c) == Rounded(p * n, c)

\* ... begins at 0, ends at n, and is between them.
LEMMA StopIs ==
  ASSUME NEW n \in Nat, NEW c \in Nat, c > 0, NEW p \in 0 .. c
  PROVE  /\ Stop(p, n, c) \in 0 .. n
         /\ p = 0 => Stop(p, n, c) = 0
         /\ p = c => Stop(p, n, c) = n
<1>1. p * n \in Nat /\ p * n <= c * n /\ c * n \in Nat
  <2>1. n * p \in Nat /\ n * p <= n * c /\ n * c \in Nat
    BY TimesGrows
  <2> QED
    BY <2>1
<1> DEFINE r == Stop(p, n, c)
<1>2. /\ r \in Nat /\ c * r \in Nat /\ 2 * (c * r) <= 2 * (p * n) + c
      /\ 2 * (p * n) <= 2 * (c * r) + c
  BY <1>1, RoundedIs DEF Stop
<1> HIDE DEF r
<1>3. c * (n + 1) = c * n + c
  OBVIOUS
<1>4. r < n + 1
  <2>1. c * r < c * n + c
    BY <1>1, <1>2
  <2>2. c * r < c * (n + 1)
    BY <1>3, <2>1
  <2> QED
    BY <1>2, <2>2, TimesLess
<1>5. ASSUME p = c PROVE r = n
  <2>1. c * (r + 1) = c * r + c
    BY <1>2
  <2>2. c * n < c * r + c
    BY <1>1, <1>2, <1>5
  <2>3. c * n < c * (r + 1)
    BY <2>1, <2>2
  <2>4. n < r + 1
    BY <1>2, <2>3, TimesLess
  <2> QED
    BY <1>2, <1>4, <2>4
<1>6. ASSUME p = 0 PROVE r = 0
  <2>1. p * n = 0
    BY <1>6
  <2>2. c * r < c * 1
    BY <1>2, <2>1
  <2>3. r < 1
    BY <1>2, <2>2, TimesLess
  <2> QED
    BY <1>2, <2>3
<1> QED
  BY <1>2, <1>4, <1>5, <1>6 DEF r

\* From one step to the next it is no farther than an even spacing, but for one.
LEMMA StopGap ==
  ASSUME NEW n \in Nat, NEW c \in Nat, c > 0, NEW p \in 1 .. c
  PROVE  Stop(p, n, c) <= Stop(p - 1, n, c) + (n \div c) + 1
<1> DEFINE a == (p - 1) * n
           r == Stop(p, n, c)
           s == Stop(p - 1, n, c)
           d == n \div c
<1>1. p - 1 \in Nat /\ a \in Nat /\ p * n = a + n
  OBVIOUS
<1>2. r \in Nat /\ c * r \in Nat /\ 2 * (c * r) <= 2 * (a + n) + c
  <2>1. a + n \in Nat
    BY <1>1
  <2> HIDE DEF a
  <2>2. r = Rounded(a + n, c)
    BY <1>1 DEF Stop
  <2> HIDE DEF r
  <2> QED
    BY <2>1, <2>2, RoundedIs
<1>3. s \in Nat /\ c * s \in Nat /\ 2 * a <= 2 * (c * s) + c
  BY <1>1, RoundedIs DEF Stop
<1>4. d \in Nat /\ d * c <= n /\ n < d * c + c
  <2>1. d = n \div c
    OBVIOUS
  <2> HIDE DEF d
  <2> QED
    BY <2>1, DivIs
<1> HIDE DEF a, r, s, d
<1>5. c * (s + d + 2) = c * s + d * c + c + c
  BY <1>3, <1>4
<1>6. c * r <= c * s + n + c
  BY <1>1, <1>2, <1>3
<1>7. d * c \in Nat
  BY <1>4
<1>8. c * r < c * (s + d + 2)
  BY <1>2, <1>3, <1>4, <1>5, <1>6, <1>7
<1>9. s + d + 2 \in Nat
  BY <1>3, <1>4
<1>10. r < s + d + 2
  BY <1>2, <1>8, <1>9, TimesLess
<1> QED
  BY <1>2, <1>3, <1>4, <1>10 DEF r, s, d

\* Of a set of numbers up to n, the first m are m, if there are as many.
FirstMembers(F, m) == {i \in F : Cardinality({j \in F : j < i}) < m}

UpToIn(F, k) == {j \in F : j <= k}
UpOne(F, k) ==
  /\ k \notin F => UpToIn(F, k) = UpToIn(F, k - 1)
  /\ k \in F => /\ UpToIn(F, k) = UpToIn(F, k - 1) \cup {k} /\ k \notin UpToIn(F, k - 1)
                /\ {j \in F : j < k} = UpToIn(F, k - 1)

\* Counting the places of a set from the left, one at a time.
LEMMA UpToInIs ==
  ASSUME NEW n \in Nat, NEW F, \A j \in F : j \in 1 .. n
  PROVE  /\ UpToIn(F, 0) = {} /\ UpToIn(F, n) = F
         /\ \A k \in 1 .. n : UpOne(F, k)
<1>1. UpToIn(F, 0) = {}
  BY DEF UpToIn
<1>2. UpToIn(F, n) = F
  BY DEF UpToIn
<1>3. ASSUME NEW k \in 1 .. n, k \notin F PROVE UpToIn(F, k) = UpToIn(F, k - 1)
  <2>1. \A j \in F : j <= k <=> j <= k - 1
    BY <1>3
  <2> QED
    BY <2>1 DEF UpToIn
<1>4. ASSUME NEW k \in 1 .. n, k \in F
      PROVE  /\ UpToIn(F, k) = UpToIn(F, k - 1) \cup {k} /\ k \notin UpToIn(F, k - 1)
             /\ {j \in F : j < k} = UpToIn(F, k - 1)
  <2>1. \A j \in F : (j <= k <=> j <= k - 1 \/ j = k) /\ (j < k <=> j <= k - 1)
    OBVIOUS
  <2>2. ~(k <= k - 1)
    OBVIOUS
  <2> QED
    BY <1>4, <2>1, <2>2 DEF UpToIn
<1> QED
  BY <1>1, <1>2, <1>3, <1>4 DEF UpOne

\* So it goes on up to n.
LEMMA FirstMembersCard ==
  ASSUME NEW n \in Nat, NEW F \in SUBSET (1 .. n), NEW m \in Nat
  PROVE  /\ IsFiniteSet(F) /\ IsFiniteSet(FirstMembers(F, m))
         /\ Cardinality(FirstMembers(F, m)) = Least(m, Cardinality(F))
<1>0. IsFiniteSet(1 .. n) /\ IsFiniteSet(F)
  <2>1. 1 \in Int /\ n \in Int
    OBVIOUS
  <2>2. IsFiniteSet(1 .. n)
    BY <2>1, FS_Interval
  <2> QED
    BY <2>2, FS_Subset
<1>10. \A j \in F : j \in 1 .. n
  OBVIOUS
<1>11. \A k \in 1 .. n : UpOne(F, k)
  BY <1>10, UpToInIs
<1> DEFINE U(k) == UpToIn(F, k)
           G(k) == {i \in U(k) : Cardinality({j \in F : j < i}) < m}
           Good(k) == Cardinality(G(k)) = Least(m, Cardinality(U(k)))
           S == {k \in 0 .. n : Good(k)}
<1>1. \A k : IsFiniteSet(U(k)) /\ IsFiniteSet(G(k)) /\ Cardinality(U(k)) \in Nat /\ Cardinality(G(k)) \in Nat
  <2> SUFFICES ASSUME NEW k PROVE IsFiniteSet(U(k)) /\ IsFiniteSet(G(k)) /\ Cardinality(U(k)) \in Nat /\ Cardinality(G(k)) \in Nat
    OBVIOUS
  <2>1. U(k) \in SUBSET F /\ G(k) \in SUBSET F
    <3>1. U(k) \in SUBSET F
      BY DEF UpToIn
    <3> HIDE DEF U
    <3>2. G(k) \in SUBSET U(k)
      OBVIOUS
    <3> HIDE DEF G
    <3> QED
      BY <3>1, <3>2
  <2> HIDE DEF U, G
  <2>2. IsFiniteSet(U(k)) /\ IsFiniteSet(G(k))
    BY <1>0, <2>1, FS_Subset
  <2> QED
    BY <2>2, FS_CardinalityType
<1>2. 0 \in S
  <2>1. U(0) = {}
    BY <1>10, UpToInIs
  <2> HIDE DEF U
  <2>2. G(0) = {}
    BY <2>1
  <2> HIDE DEF G
  <2>3. Cardinality(U(0)) = 0 /\ Cardinality(G(0)) = 0
    BY <2>1, <2>2, FS_EmptySet
  <2>4. Good(0)
    BY <2>3 DEF Least
  <2> HIDE DEF Good
  <2> QED
    BY <2>4
<1>3. ASSUME NEW k \in 1 .. n, Good(k - 1) PROVE Good(k)
  <2>1. CASE k \notin F
    <3>1. U(k) = U(k - 1)
      BY <1>11, <2>1 DEF UpOne
    <3>2. G(k) = G(k - 1)
      BY <3>1
    <3> HIDE DEF U, G
    <3> QED
      BY <1>3, <3>1, <3>2
  <2>2. CASE k \in F
    <3>1. U(k) = U(k - 1) \cup {k} /\ k \notin U(k - 1) /\ {j \in F : j < k} = U(k - 1)
      BY <1>11, <2>2 DEF UpOne
    <3>2. G(k) = IF Cardinality(U(k - 1)) < m THEN G(k - 1) \cup {k} ELSE G(k - 1)
      BY <3>1
    <3>3. k \notin G(k - 1)
      BY <3>1
    <3> HIDE DEF U, G
    <3>4. Cardinality(U(k)) = Cardinality(U(k - 1)) + 1
      BY <1>1, <3>1, FS_AddElement
    <3>5. Cardinality(G(k - 1) \cup {k}) = Cardinality(G(k - 1)) + 1
      BY <1>1, <3>3, FS_AddElement
    <3>6. PICK x \in Nat : x = Cardinality(U(k - 1))
      BY <1>1
    <3>7. Cardinality(G(k - 1)) = Least(m, x)
      BY <1>3, <3>6
    <3>8. CASE x < m
      <4>1. Least(m, x) = x /\ Least(m, x + 1) = x + 1
        BY <3>8 DEF Least
      <4>2. G(k) = G(k - 1) \cup {k}
        BY <3>2, <3>6, <3>8
      <4> QED
        BY <3>4, <3>5, <3>6, <3>7, <4>1, <4>2
    <3>9. CASE ~(x < m)
      <4>1. Least(m, x) = m /\ Least(m, x + 1) = m
        BY <3>9 DEF Least
      <4>2. G(k) = G(k - 1)
        BY <3>2, <3>6, <3>9
      <4> QED
        BY <3>4, <3>6, <3>7, <4>1, <4>2
    <3> QED
      BY <3>8, <3>9
  <2> QED
    BY <2>1, <2>2
<1>4. ASSUME NEW k \in 1 .. n, k - 1 \in S PROVE k \in S
  <2> HIDE DEF Good
  <2> QED
    BY <1>3, <1>4
<1>5. U(n) = F
  BY <1>10, UpToInIs
<1>6. G(n) = FirstMembers(F, m)
  BY <1>5 DEF FirstMembers
<1> HIDE DEF S, U, G
<1>7. \A k \in 0 .. n : k \in S
  BY <1>2, <1>4, UpTo
<1>8. n \in S
  BY <1>7
<1>9. Good(n)
  BY <1>8 DEF S
<1> QED
  BY <1>0, <1>1, <1>5, <1>6, <1>9

\* The places of the sample behind the head are at most as many as are asked for, in n, and
\* evenly spaced up to the last one.
SpacedWell(x, n, head, count) ==
  /\ x \subseteq head + 1 .. n /\ IsFiniteSet(x) /\ Cardinality(x) <= count
  /\ n \in x /\ head + 1 \in x
  /\ \A i \in head + 1 .. n : \E j \in x : i <= j /\ j <= i + ((n - head - 1) \div (count - 1))

\* The sampled places between head and end are increasing, and none leaves a gap above the stride.
LEMMA SpacedIs ==
  ASSUME NEW n \in Nat, NEW head \in Nat, NEW count \in Nat, count > 1, head < n
  PROVE  SpacedWell(Spaced(n, head, count), n, head, count)
<1> DEFINE N == n - head - 1
           c == count - 1
           f == [p \in 1 .. count |-> head + 1 + Stop(p - 1, N, c)]
           x == Spaced(n, head, count)
           d == N \div c
<1>1. N \in Nat /\ c \in Nat /\ c > 0 /\ n = head + 1 + N /\ count = c + 1
  OBVIOUS
<1>2. x = {n} \cup {head + 1 + Stop(p, N, c) : p \in 0 .. c}
  <2>1. count # 0 /\ count # 1 /\ ~(head >= n)
    OBVIOUS
  <2> QED
    BY <2>1 DEF Spaced, Stop
<1> HIDE DEF N, c, x, d
<1>3. \A p \in 0 .. c : /\ Stop(p, N, c) \in 0 .. N
                        /\ p = 0 => Stop(p, N, c) = 0
                        /\ p = c => Stop(p, N, c) = N
  BY <1>1, StopIs
<1>4. 0 \in 0 .. c /\ c \in 0 .. c
  BY <1>1
<1>5. n \in x /\ head + 1 \in x
  <2>1. head + 1 + Stop(0, N, c) = head + 1
    BY <1>3, <1>4
  <2> QED
    BY <1>2, <1>4, <2>1
<1>6. x \subseteq head + 1 .. n
  <2>1. ASSUME NEW p \in 0 .. c PROVE head + 1 + Stop(p, N, c) \in head + 1 .. n
    <3>1. Stop(p, N, c) \in 0 .. N
      BY <1>3
    <3> QED
      BY <1>1, <3>1
  <2>2. n \in head + 1 .. n
    BY <1>1
  <2> QED
    BY <1>2, <2>1, <2>2
<1>7. \A p \in 1 .. count : p - 1 \in 0 .. c /\ p \in 1 .. count
  BY <1>1
<1>8. \A p \in 0 .. c : p + 1 \in 1 .. count /\ (p + 1) - 1 = p
  BY <1>1
<1>9. f \in [1 .. count -> x]
  BY <1>2, <1>7
<1>10. \A y \in x : \E p \in 1 .. count : f[p] = y
  <2> SUFFICES ASSUME NEW y \in x PROVE \E p \in 1 .. count : f[p] = y
    OBVIOUS
  <2>1. PICK p \in 0 .. c : y = head + 1 + Stop(p, N, c)
    <3>1. head + 1 + Stop(c, N, c) = n
      BY <1>1, <1>3, <1>4
    <3> QED
      BY <1>2, <1>4, <3>1
  <2>2. f[p + 1] = y
    BY <1>8, <2>1
  <2> QED
    BY <1>8, <2>2
<1> HIDE DEF f
<1>11. f \in Surjection(1 .. count, x)
  BY <1>9, <1>10 DEF Surjection
<1>12. IsFiniteSet(x) /\ Cardinality(x) <= count
  <2>1. 1 \in Int /\ count \in Int
    OBVIOUS
  <2>2. IsFiniteSet(1 .. count) /\ Cardinality(1 .. count) = IF 1 > count THEN 0 ELSE count - 1 + 1
    BY <2>1, FS_Interval
  <2>3. IsFiniteSet(x) /\ Cardinality(x) <= Cardinality(1 .. count)
    BY <1>11, <2>2, FS_Surjection
  <2> QED
    BY <2>2, <2>3
<1>13. d \in Nat
  <2>1. N \div c \in Nat
    BY <1>1
  <2> QED
    BY <2>1 DEF d
<1>14. ASSUME NEW i \in head + 1 .. n PROVE \E j \in x : i <= j /\ j <= i + d
  <2> DEFINE F == {p \in 0 .. c : i <= head + 1 + Stop(p, N, c)}
  <2>0. i \in Nat /\ i <= n /\ head + 1 <= i
    BY <1>1
  <2>1. c \in F
    BY <1>1, <1>3, <1>4, <2>0
  <2>2. F \subseteq Nat /\ F # {}
    BY <1>1, <2>1
  <2> HIDE DEF F
  <2>3. PICK p \in F : \A q \in F : p <= q
    BY <2>2, LeastOf
  <2>4. p \in 0 .. c /\ i <= head + 1 + Stop(p, N, c) /\ p \in Nat
    BY <1>1, <2>3 DEF F
  <2>5. head + 1 + Stop(p, N, c) \in x
    BY <1>2, <2>4
  <2>6. CASE p = 0
    <3>1. Stop(p, N, c) = 0
      BY <1>3, <1>4, <2>6
    <3> QED
      BY <1>13, <2>0, <2>4, <2>5, <3>1
  <2>7. CASE p # 0
    <3>1. p \in 1 .. c /\ p - 1 \in 0 .. c /\ ~(p <= p - 1)
      BY <1>1, <2>4, <2>7
    <3>2. ~(i <= head + 1 + Stop(p - 1, N, c))
      BY <2>3, <3>1 DEF F
    <3>3. Stop(p, N, c) <= Stop(p - 1, N, c) + (N \div c) + 1
      BY <1>1, <3>1, StopGap
    <3>4. Stop(p, N, c) \in Nat /\ Stop(p - 1, N, c) \in Nat
      BY <1>1, <1>3, <2>4, <3>1
    <3>5. head + 1 + Stop(p, N, c) <= i + d
      BY <1>13, <2>0, <3>2, <3>3, <3>4 DEF d
    <3> QED
      BY <2>4, <2>5, <3>5
  <2> QED
    BY <2>6, <2>7
<1> QED
  BY <1>5, <1>6, <1>12, <1>14 DEF SpacedWell, x, d, N, c

\* The sample has as many places as may be.
LEMMA ToppedUpIs ==
  ASSUME NEW n \in Nat, NEW limit \in Nat, limit <= n, NEW places \in SUBSET (1 .. n),
         Cardinality(places) <= limit
  PROVE  Cardinality(ToppedUp(places, n, limit)) = limit
<1> DEFINE free == (1 .. n) \ places
           k == Cardinality(places)
           m == limit - k
<1>1. IsFiniteSet(1 .. n) /\ Cardinality(1 .. n) = n
  <2>1. PICK z \in Nat : z = 0
    OBVIOUS
  <2>2. IsFiniteSet(z + 1 .. n) /\ Cardinality(z + 1 .. n) = n - z
    BY <2>1, IntervalCard
  <2> QED
    BY <2>1, <2>2
<1>2. IsFiniteSet(places) /\ k \in Nat
  BY <1>1, FS_Subset, FS_CardinalityType
<1>3. m \in Nat
  BY <1>2
<1>4. free \in SUBSET (1 .. n) /\ free \cup places = 1 .. n /\ free \cap places = {}
  OBVIOUS
<1> HIDE DEF free
<1>5. IsFiniteSet(free) /\ Cardinality(free) \in Nat
  BY <1>1, <1>4, FS_Subset, FS_CardinalityType
<1>6. Cardinality(free) = n - k
  <2>1. Cardinality(free \cup places) = Cardinality(free) + Cardinality(places) - Cardinality(free \cap places)
    BY <1>2, <1>5, FS_Union
  <2>2. Cardinality({}) = 0
    BY FS_EmptySet
  <2>3. n = Cardinality(free) + k - 0
    BY <1>1, <1>4, <2>1, <2>2
  <2> HIDE DEF k
  <2> QED
    BY <1>2, <1>5, <2>3
<1> HIDE DEF k, m
<1>7. IsFiniteSet(FirstMembers(free, m)) /\ Cardinality(FirstMembers(free, m)) = Least(m, Cardinality(free))
  BY <1>3, <1>4, FirstMembersCard
<1>8. Cardinality(FirstMembers(free, m)) = m
  <2>1. m <= Cardinality(free)
    BY <1>2, <1>6 DEF m
  <2> QED
    BY <1>3, <1>5, <1>7, <2>1 DEF Least
<1>9. ToppedUp(places, n, limit) = places \cup FirstMembers(free, m)
  <2>1. \A i \in free : Cardinality({j \in free : j < i}) \in Nat
    <3> SUFFICES ASSUME NEW i \in free PROVE Cardinality({j \in free : j < i}) \in Nat
      OBVIOUS
    <3>1. {j \in free : j < i} \in SUBSET free
      OBVIOUS
    <3> QED
      BY <1>5, <3>1, FS_Subset, FS_CardinalityType
  <2>2. \A y \in Nat : y + k < limit <=> y < m
    BY <1>2 DEF m
  <2>3. {i \in free : Cardinality({j \in free : j < i}) + k < limit} = {i \in free : Cardinality({j \in free : j < i}) < m}
    BY <2>1, <2>2
  <2> QED
    BY <2>3 DEF ToppedUp, FirstMembers, free, k
<1>10. FirstMembers(free, m) \cap places = {}
  BY <1>4 DEF FirstMembers
<1>11. Cardinality(places \cup FirstMembers(free, m)) = k + m - 0
  <2>1. Cardinality(places \cup FirstMembers(free, m))
          = Cardinality(places) + Cardinality(FirstMembers(free, m)) - Cardinality(places \cap FirstMembers(free, m))
    BY <1>2, <1>7, FS_Union
  <2>2. places \cap FirstMembers(free, m) = {}
    BY <1>10
  <2> QED
    BY <1>8, <2>1, <2>2, FS_EmptySet DEF k
<1> QED
  BY <1>2, <1>3, <1>9, <1>11 DEF m

\* A sample covers what it is of, whatever its size, if its head is not longer.
LEMMA SpreadCoversAll ==
  ASSUME NEW n \in Nat, n > 0, NEW limit \in Nat, NEW head \in Nat, head <= n
  PROVE  SpreadCovers(n, limit, head)
<1> SUFFICES ASSUME limit > head + 1 PROVE SpreadCovers(n, limit, head)
  BY DEF SpreadCovers
<1> DEFINE sample == SpreadSample(n, limit, head)
           step   == (n - head) \div (limit - head - 1) + 2
<1>0. limit # 0 /\ Least(head, limit) = head
  BY DEF Least
<1> SUFFICES /\ Cardinality(sample) = Least(n, limit)
             /\ {1, n} \subseteq sample
             /\ \A i \in 1 .. n : \E j \in sample : i <= j /\ j < i + step
  BY DEF SpreadCovers
<1>1. CASE n <= limit
  <2>1. sample = 1 .. n
    BY <1>0, <1>1 DEF SpreadSample
  <2>2. Cardinality(1 .. n) = n
    <3>1. PICK z \in Nat : z = 0
      OBVIOUS
    <3>2. Cardinality(z + 1 .. n) = n - z
      BY <3>1, IntervalCard
    <3> QED
      BY <3>1, <3>2
  <2>3. Least(n, limit) = n
    BY <1>1 DEF Least
  <2>4. step > 0 /\ step \in Nat
    <3>1. limit - head - 1 \in Nat /\ limit - head - 1 > 0 /\ n - head \in Nat
      OBVIOUS
    <3>2. (n - head) \div (limit - head - 1) \in Nat
      BY <3>1, DivIs
    <3> QED
      BY <3>2
  <2> HIDE DEF sample, step
  <2>5. \A i \in 1 .. n : i \in sample /\ i <= i /\ i < i + step
    BY <2>1, <2>4
  <2>6. 1 \in sample /\ n \in sample
    BY <2>1
  <2> QED
    BY <2>1, <2>2, <2>3, <2>5, <2>6
<1>2. CASE n > limit
  <2> DEFINE c == limit - head - 1
             x == Spaced(n, head, limit - head)
             places == (1 .. head) \cup x
  <2>1. c \in Nat /\ c > 0 /\ head < n /\ limit - head \in Nat /\ limit - head > 1 /\ (limit - head) - 1 = c
    BY <1>2
  <2>2. SpacedWell(x, n, head, limit - head)
    BY <2>1, SpacedIs
  <2>3. sample = ToppedUp(places, n, limit)
    BY <1>0, <1>2 DEF SpreadSample
  <2> HIDE DEF sample, x, c
  <2>4. /\ x \subseteq head + 1 .. n /\ IsFiniteSet(x) /\ Cardinality(x) <= limit - head
        /\ n \in x /\ head + 1 \in x
        /\ \A i \in head + 1 .. n : \E j \in x : i <= j /\ j <= i + ((n - head - 1) \div c)
    BY <2>1, <2>2 DEF SpacedWell
  <2>5. places \in SUBSET (1 .. n)
    BY <2>1, <2>4
  <2>6. IsFiniteSet(1 .. head) /\ Cardinality(1 .. head) = head
    <3>1. PICK z \in Nat : z = 0
      OBVIOUS
    <3>2. IsFiniteSet(z + 1 .. head) /\ Cardinality(z + 1 .. head) = head - z
      BY <3>1, IntervalCard
    <3> QED
      BY <3>1, <3>2
  <2>7. Cardinality(places) <= limit
    <3>1. (1 .. head) \cap x = {}
      BY <2>4
    <3>2. Cardinality(places) = Cardinality(1 .. head) + Cardinality(x) - Cardinality((1 .. head) \cap x)
      BY <2>4, <2>6, FS_Union
    <3>3. Cardinality(x) \in Nat
      BY <2>4, FS_CardinalityType
    <3>4. Cardinality(places) = head + Cardinality(x) - 0
      BY <2>6, <3>1, <3>2, FS_EmptySet
    <3> QED
      BY <2>1, <2>4, <3>3, <3>4
  <2> HIDE DEF places
  <2>8. Cardinality(sample) = limit
    BY <1>2, <2>3, <2>5, <2>7, ToppedUpIs
  <2>9. places \subseteq sample
    BY <2>3 DEF ToppedUp
  <2>10. 1 \in places /\ n \in places
    <3>1. CASE head = 0
      BY <2>4, <3>1 DEF places
    <3>2. CASE head # 0
      BY <2>4, <3>2 DEF places
    <3> QED
      BY <3>1, <3>2
  <2>11. Least(n, limit) = limit
    BY <1>2 DEF Least
  <2>12. step \in Nat /\ step > 0 /\ (n - head - 1) \div c < step
    <3>1. PICK a \in Nat : a = n - head - 1 /\ n - head = a + 1
      <4>1. n - head - 1 \in Nat /\ n - head = (n - head - 1) + 1
        BY <2>1
      <4> QED
        BY <4>1
    <3>2. step = (a + 1) \div c + 2
      BY <2>1, <3>1 DEF c
    <3>3. (a + 1) \div c \in Nat /\ a \div c \in Nat /\ a \div c <= (a + 1) \div c
      <4>1. /\ (a + 1) \div c \in Nat /\ a \div c \in Nat /\ (a \div c) * c <= a
            /\ a + 1 < ((a + 1) \div c) * c + c
        BY <2>1, DivIs
      <4>2. PICK u \in Nat, v \in Nat : u = a \div c /\ v = (a + 1) \div c
        BY <4>1
      <4>3. c * u = u * c /\ c * (v + 1) = v * c + c
        BY <2>1
      <4>4. c * u < c * (v + 1)
        <5>1. u * c \in Nat /\ v * c \in Nat /\ u * c <= a /\ a + 1 < v * c + c
          BY <2>1, <4>1, <4>2
        <5>2. PICK y \in Nat, z \in Nat : y = u * c /\ z = v * c
          BY <5>1
        <5>3. y < z + c
          BY <2>1, <5>1, <5>2
        <5> QED
          BY <4>3, <5>2, <5>3
      <4>5. u < v + 1
        BY <2>1, <4>4, TimesLess
      <4> QED
        BY <4>2, <4>5
    <3> HIDE DEF step
    <3> QED
      BY <3>1, <3>2, <3>3
  <2> HIDE DEF step
  <2>13. ASSUME NEW i \in 1 .. n PROVE \E j \in sample : i <= j /\ j < i + step
    <3>1. CASE i <= head
      <4>1. i \in places
        BY <3>1 DEF places
      <4> QED
        BY <2>9, <2>12, <4>1
    <3>2. CASE ~(i <= head)
      <4>1. i \in head + 1 .. n /\ i \in Nat
        BY <3>2
      <4>2. PICK j \in x : i <= j /\ j <= i + ((n - head - 1) \div c)
        BY <2>4, <4>1
      <4>3. PICK y \in Nat : y = (n - head - 1) \div c
        <5>1. n - head - 1 \in Nat
          BY <2>1
        <5>2. (n - head - 1) \div c \in Nat
          BY <2>1, <5>1
        <5> QED
          BY <5>2
      <4>4. j \in Nat /\ j \in sample
        BY <2>4, <2>9 DEF places
      <4>5. j < i + step
        BY <2>12, <4>1, <4>2, <4>3, <4>4
      <4> QED
        BY <4>2, <4>4, <4>5
    <3> QED
      BY <3>1, <3>2
  <2> QED
    BY <2>8, <2>9, <2>10, <2>11, <2>13
<1> QED
  BY <1>1, <1>2

----
(* Chunks of several sources, round robin *)

\* A source gives two chunks at most, where there are places for fewer than three of each.
LEMMA PoolSizeIs ==
  ASSUME NEW n \in Nat, n > 0, NEW share \in 0 .. 2
  PROVE  PoolSize(n, share) = IF n >= 2 THEN 2 ELSE 1
<1> DEFINE k == IF share = 0 THEN 1 ELSE share
<1>1. k \in {1, 2} /\ Least(0, k) = 0
  BY DEF Least
<1>2. PoolSize(n, share) = Cardinality(SpreadSample(n, k, 0))
  BY DEF PoolSize
<1> HIDE DEF k
<1>3. CASE n = 1
  <2>1. SpreadSample(n, k, 0) = 1 .. 1
    BY <1>1, <1>3 DEF SpreadSample
  <2>2. Cardinality(1 .. 1) = 1
    <3>1. PICK z \in Nat, y \in Nat : z = 0 /\ y = 1
      OBVIOUS
    <3>2. Cardinality(z + 1 .. y) = y - z
      BY <3>1, IntervalCard
    <3> QED
      BY <3>1, <3>2
  <2> QED
    BY <1>2, <1>3, <2>1, <2>2
<1>4. CASE n >= 2 /\ k = 2
  <2>1. SpreadCovers(n, k, 0)
    <3>1. 0 \in Nat /\ 0 <= n /\ k \in Nat
      BY <1>4
    <3> QED
      BY <3>1, SpreadCoversAll
  <2>2. k > 0 + 1
    BY <1>4
  <2>3. Cardinality(SpreadSample(n, k, 0)) = Least(n, k)
    BY <2>1, <2>2 DEF SpreadCovers
  <2>4. Least(n, k) = 2
    BY <1>4 DEF Least
  <2> QED
    BY <1>2, <1>4, <2>3, <2>4
<1>5. CASE n >= 2 /\ k = 1
  <2>1. SpreadSample(n, k, 0) = ToppedUp((1 .. 0) \cup Spaced(n, 0, 1), n, 1)
    <3>1. k # 0 /\ ~(n <= k) /\ k - 0 = 1
      BY <1>5
    <3> QED
      BY <1>1, <1>5, <3>1 DEF SpreadSample
  <2>2. (1 .. 0) \cup Spaced(n, 0, 1) = {1, n}
    <3>1. Spaced(n, 0, 1) = {n} \cup {0 + 1 + 0 : p \in 0 .. 0}
      BY <1>5 DEF Spaced
    <3>2. {0 + 1 + 0 : p \in 0 .. 0} = {1}
      OBVIOUS
    <3> QED
      BY <3>1, <3>2
  <2>3. IsFiniteSet({1, n}) /\ Cardinality({1, n}) = 2
    <3>1. IsFiniteSet({1}) /\ Cardinality({1}) = 1
      BY FS_Singleton
    <3>2. {1, n} = {1} \cup {n} /\ n \notin {1}
      BY <1>5
    <3>3. IsFiniteSet({1} \cup {n}) /\ Cardinality({1} \cup {n}) = Cardinality({1}) + 1
      BY <3>1, <3>2, FS_AddElement
    <3> QED
      BY <3>1, <3>2, <3>3
  <2> DEFINE free == (1 .. n) \ {1, n}
  <2>4. ASSUME NEW i \in free PROVE ~(Cardinality({j \in free : j < i}) + Cardinality({1, n}) < 1)
    <3>1. IsFiniteSet(1 .. n)
      <4>1. 1 \in Int /\ n \in Int
        OBVIOUS
      <4> QED
        BY <4>1, FS_Interval
    <3>2. {j \in free : j < i} \in SUBSET (1 .. n)
      OBVIOUS
    <3>3. Cardinality({j \in free : j < i}) \in Nat
      BY <3>1, <3>2, FS_Subset, FS_CardinalityType
    <3> QED
      BY <2>3, <3>3
  <2>5. {i \in free : Cardinality({j \in free : j < i}) + Cardinality({1, n}) < 1} = {}
    BY <2>4
  <2>6. ToppedUp({1, n}, n, 1) = {1, n}
    BY <2>5 DEF ToppedUp
  <2> QED
    BY <1>2, <1>5, <2>1, <2>2, <2>3, <2>6
<1> QED
  BY <1>1, <1>3, <1>4, <1>5

Counted(a, b, c, d, e) ==
  /\ Cardinality({}) = 0 /\ Cardinality({a}) = 1 /\ Cardinality({a, b}) = 2 /\ Cardinality({a, b, c}) = 3
  /\ Cardinality({a, b, c, d}) = 4 /\ Cardinality({a, b, c, d, e}) = 5

\* Sets of so many different members.
LEMMA CountsAre ==
  ASSUME NEW a, NEW b, NEW c, NEW d, NEW e,
         a # b, a # c, a # d, a # e, b # c, b # d, b # e, c # d, c # e, d # e
  PROVE  Counted(a, b, c, d, e)
<1>1. IsFiniteSet({a}) /\ Cardinality({a}) = 1 /\ Cardinality({}) = 0
  BY FS_Singleton, FS_EmptySet
<1>2. IsFiniteSet({a} \cup {b}) /\ Cardinality({a} \cup {b}) = 2
  <2>1. b \notin {a}
    OBVIOUS
  <2> QED
    BY <1>1, <2>1, FS_AddElement
<1>3. {a, b} = {a} \cup {b}
  OBVIOUS
<1>4. IsFiniteSet({a, b} \cup {c}) /\ Cardinality({a, b} \cup {c}) = 3
  <2>1. c \notin {a, b}
    OBVIOUS
  <2>2. IsFiniteSet({a, b}) /\ Cardinality({a, b}) = 2
    BY <1>2, <1>3
  <2> QED
    BY <2>1, <2>2, FS_AddElement
<1>5. {a, b, c} = {a, b} \cup {c}
  OBVIOUS
<1>6. IsFiniteSet({a, b, c} \cup {d}) /\ Cardinality({a, b, c} \cup {d}) = 4
  <2>1. d \notin {a, b, c}
    OBVIOUS
  <2>2. IsFiniteSet({a, b, c}) /\ Cardinality({a, b, c}) = 3
    BY <1>4, <1>5
  <2> QED
    BY <2>1, <2>2, FS_AddElement
<1>7. {a, b, c, d} = {a, b, c} \cup {d}
  OBVIOUS
<1>8. Cardinality({a, b, c, d} \cup {e}) = 5
  <2>1. e \notin {a, b, c, d}
    OBVIOUS
  <2>2. IsFiniteSet({a, b, c, d}) /\ Cardinality({a, b, c, d}) = 4
    BY <1>6, <1>7
  <2> QED
    BY <2>1, <2>2, FS_AddElement
<1>9. {a, b, c, d, e} = {a, b, c, d} \cup {e}
  OBVIOUS
<1> QED
  BY <1>1, <1>2, <1>3, <1>4, <1>5, <1>6, <1>7, <1>8, <1>9 DEF Counted

\* Two different members.
LEMMA CardinalityTwo ==
  ASSUME NEW a, NEW b, a # b
  PROVE  Cardinality({a, b}) = 2
<1>1. IsFiniteSet({a}) /\ Cardinality({a}) = 1
  BY FS_Singleton
<1>2. b \notin {a}
  OBVIOUS
<1>3. Cardinality({a} \cup {b}) = 2
  BY <1>1, <1>2, FS_AddElement
<1>4. {a, b} = {a} \cup {b}
  OBVIOUS
<1> QED
  BY <1>3, <1>4

\* Three numbers.
LEMMA TotalThree ==
  ASSUME NEW x \in Nat, NEW y \in Nat, NEW z \in Nat
  PROVE  Total(<<x, y, z>>) = x + y + z
<1> DEFINE s == <<x, y, z>>
           f == [k \in 0 .. 3 |-> IF k = 0 THEN 0 ELSE IF k = 1 THEN x ELSE IF k = 2 THEN x + y ELSE x + y + z]
<1>1. s \in Seq(Nat) /\ Len(s) = 3 /\ s[1] = x /\ s[2] = y /\ s[3] = z
  OBVIOUS
<1>2. f \in [0 .. 3 -> Nat] /\ f[0] = 0 /\ f[1] = x /\ f[2] = x + y /\ f[3] = x + y + z
  OBVIOUS
<1> HIDE DEF s, f
<1>3. \A k \in 1 .. 3 : f[k] = f[k - 1] + s[k]
  <2>1. f[1] = f[1 - 1] + s[1] /\ f[2] = f[2 - 1] + s[2] /\ f[3] = f[3 - 1] + s[3]
    BY <1>1, <1>2
  <2>2. \A k \in 1 .. 3 : k = 1 \/ k = 2 \/ k = 3
    OBVIOUS
  <2> QED
    BY <2>1, <2>2
<1>4. Sums(f, s)
  BY <1>1, <1>2, <1>3 DEF Sums
<1> QED
  BY <1>1, <1>2, <1>4, TotalIs DEF s

\* What each of three sources contributes, the last one of a single chunk.
LEMMA TakenIs ==
  ASSUME NEW n \in Nat, n > 0, NEW other \in {1, 3}, NEW limit \in 1 .. 6
  PROVE  LET taken == RoundRobin(<<n, other, 1>>, limit)
         IN /\ DOMAIN taken = 1 .. 3
            /\ taken = <<taken[1], taken[2], taken[3]>>
            /\ taken[1] = IF n >= 2 /\ limit >= 4 THEN 2 ELSE 1
            /\ taken[2] = IF limit >= 2
                          THEN IF other = 3 /\ (limit >= 5 \/ (limit >= 4 /\ n < 2)) THEN 2 ELSE 1
                          ELSE 0
            /\ taken[3] = IF limit >= 3 THEN 1 ELSE 0
<1> DEFINE sizes == <<n, other, 1>>
           pool  == [s \in DOMAIN sizes |-> PoolSize(sizes[s], limit \div Len(sizes))]
           picks == UNION {{<<s, p>> : p \in 1 .. pool[s]} : s \in DOMAIN sizes}
           Ahead(x) == {y \in picks : InTurn(y[1], y[2], x[1], x[2])}
           early == {x \in picks : Cardinality(Ahead(x)) <= limit}
           taken == [s \in DOMAIN sizes |-> Cardinality({x \in early : x[1] = s})]
<1>1. DOMAIN sizes = {1, 2, 3} /\ Len(sizes) = 3 /\ sizes[1] = n /\ sizes[2] = other /\ sizes[3] = 1
  OBVIOUS
<1>2. RoundRobin(<<n, other, 1>>, limit) = taken
  BY DEF RoundRobin
<1>3. limit \div 3 \in 0 .. 2
  OBVIOUS
<1>4. /\ pool[1] = (IF n >= 2 THEN 2 ELSE 1)
      /\ pool[2] = (IF other = 3 THEN 2 ELSE 1)
      /\ pool[3] = 1
  <2>1. pool[1] = PoolSize(n, limit \div 3) /\ pool[2] = PoolSize(other, limit \div 3) /\ pool[3] = PoolSize(1, limit \div 3)
    BY <1>1
  <2> HIDE DEF pool
  <2>2. PoolSize(n, limit \div 3) = (IF n >= 2 THEN 2 ELSE 1)
    BY <1>3, PoolSizeIs
  <2>3. PoolSize(other, limit \div 3) = (IF other >= 2 THEN 2 ELSE 1)
    BY <1>3, PoolSizeIs
  <2>4. PoolSize(1, limit \div 3) = (IF 1 >= 2 THEN 2 ELSE 1)
    BY <1>3, PoolSizeIs
  <2> QED
    BY <2>1, <2>2, <2>3, <2>4
<1> HIDE DEF sizes, pool
<1>5. PICK a, b, c, d, e : a = <<1, 1>> /\ b = <<2, 1>> /\ c = <<3, 1>> /\ d = <<1, 2>> /\ e = <<2, 2>>
  OBVIOUS
<1>6. /\ a[1] = 1 /\ b[1] = 2 /\ c[1] = 3 /\ d[1] = 1 /\ e[1] = 2
      /\ a[2] = 1 /\ b[2] = 1 /\ c[2] = 1 /\ d[2] = 2 /\ e[2] = 2
  BY <1>5
<1>7. \A x : x \in picks <=> \/ x = a \/ x = b \/ x = c
                             \/ x = d /\ n >= 2
                             \/ x = e /\ other = 3
  <2>1. \A x : x \in picks <=> \E s \in {1, 2, 3} : \E p \in 1 .. pool[s] : x = <<s, p>>
    BY <1>1
  <2>2. \A p : p \in 1 .. pool[1] <=> p = 1 \/ (p = 2 /\ n >= 2)
    BY <1>4
  <2>3. \A p : p \in 1 .. pool[2] <=> p = 1 \/ (p = 2 /\ other = 3)
    BY <1>4
  <2>4. \A p : p \in 1 .. pool[3] <=> p = 1
    BY <1>4
  <2> HIDE DEF picks
  <2>5. a \in picks /\ b \in picks /\ c \in picks
    BY <1>5, <2>1, <2>2, <2>3, <2>4
  <2>6. (n >= 2 => d \in picks) /\ (other = 3 => e \in picks)
    BY <1>5, <2>1, <2>2, <2>3
  <2>7. ASSUME NEW x \in picks
        PROVE  \/ x = a \/ x = b \/ x = c
               \/ x = d /\ n >= 2
               \/ x = e /\ other = 3
    <3>1. PICK s \in {1, 2, 3} : \E p \in 1 .. pool[s] : x = <<s, p>>
      BY <2>1
    <3>a. PICK p \in 1 .. pool[s] : x = <<s, p>>
      BY <3>1
    <3>2. CASE s = 1
      BY <1>5, <2>2, <3>a, <3>2
    <3>3. CASE s = 2
      BY <1>5, <2>3, <3>a, <3>3
    <3>4. CASE s = 3
      BY <1>5, <2>4, <3>a, <3>4
    <3> QED
      BY <3>2, <3>3, <3>4
  <2> QED
    BY <2>5, <2>6, <2>7
<1> HIDE DEF picks
<1>8. /\ a # b /\ a # c /\ a # d /\ a # e /\ b # c /\ b # d /\ b # e /\ c # d /\ c # e /\ d # e
  BY <1>6
<1>9. /\ Cardinality({}) = 0 /\ Cardinality({a}) = 1 /\ Cardinality({a, b}) = 2 /\ Cardinality({a, b, c}) = 3
      /\ Cardinality({a, b, c, d}) = 4 /\ Cardinality({a, b, c, d, e}) = 5 /\ Cardinality({a, b, c, e}) = 4
      /\ Cardinality({b}) = 1 /\ Cardinality({c}) = 1 /\ Cardinality({a, d}) = 2 /\ Cardinality({b, e}) = 2
  <2>1. /\ Cardinality({}) = 0 /\ Cardinality({a}) = 1 /\ Cardinality({a, b}) = 2 /\ Cardinality({a, b, c}) = 3
        /\ Cardinality({a, b, c, d}) = 4 /\ Cardinality({a, b, c, d, e}) = 5
    <3>1. Counted(a, b, c, d, e)
      BY <1>8, CountsAre
    <3> QED
      BY <3>1 DEF Counted
  <2>2. Cardinality({a, b, c, e}) = 4
    <3>1. e # d
      BY <1>8
    <3>2. Counted(a, b, c, e, d)
      BY <1>8, <3>1, CountsAre
    <3> QED
      BY <3>2 DEF Counted
  <2>3. Cardinality({b}) = 1 /\ Cardinality({c}) = 1
    BY FS_Singleton
  <2>4. Cardinality({a, d}) = 2
    BY <1>8, CardinalityTwo
  <2>5. Cardinality({b, e}) = 2
    BY <1>8, CardinalityTwo
  <2> QED
    BY <2>1, <2>2, <2>3, <2>4, <2>5
<1>10. /\ Ahead(a) = {a} /\ Ahead(b) = {a, b} /\ Ahead(c) = {a, b, c}
       /\ n >= 2 => Ahead(d) = {a, b, c, d}
       /\ n >= 2 /\ other = 3 => Ahead(e) = {a, b, c, d, e}
       /\ n < 2 /\ other = 3 => Ahead(e) = {a, b, c, e}
  <2> DEFINE Sooner(y, x) == InTurn(y[1], y[2], x[1], x[2])
  <2>1. /\ Sooner(a, a) /\ ~Sooner(b, a) /\ ~Sooner(c, a) /\ ~Sooner(d, a) /\ ~Sooner(e, a)
        /\ Sooner(a, b) /\ Sooner(b, b) /\ ~Sooner(c, b) /\ ~Sooner(d, b) /\ ~Sooner(e, b)
        /\ Sooner(a, c) /\ Sooner(b, c) /\ Sooner(c, c) /\ ~Sooner(d, c) /\ ~Sooner(e, c)
    BY <1>6 DEF InTurn
  <2>2. /\ Sooner(a, d) /\ Sooner(b, d) /\ Sooner(c, d) /\ Sooner(d, d) /\ ~Sooner(e, d)
        /\ Sooner(a, e) /\ Sooner(b, e) /\ Sooner(c, e) /\ Sooner(d, e) /\ Sooner(e, e)
    BY <1>6 DEF InTurn
  <2>3. \A x : Ahead(x) = {y \in picks : Sooner(y, x)}
    OBVIOUS
  <2> HIDE DEF Sooner, Ahead
  <2>4. Ahead(a) = {a}
    BY <1>7, <2>1, <2>3
  <2>5. Ahead(b) = {a, b}
    BY <1>7, <2>1, <2>3
  <2>6. Ahead(c) = {a, b, c}
    BY <1>7, <2>1, <2>3
  <2>7. ASSUME n >= 2 PROVE Ahead(d) = {a, b, c, d}
    BY <1>7, <2>2, <2>3, <2>7
  <2>8. ASSUME n >= 2, other = 3 PROVE Ahead(e) = {a, b, c, d, e}
    BY <1>7, <2>2, <2>3, <2>8
  <2>9. ASSUME n < 2, other = 3 PROVE Ahead(e) = {a, b, c, e}
    <3>1. ~(n >= 2)
      BY <2>9
    <3> QED
      BY <1>7, <2>2, <2>3, <2>9, <3>1
  <2> QED
    BY <2>4, <2>5, <2>6, <2>7, <2>8, <2>9
<1> HIDE DEF Ahead
<1>11. \A x : x \in early <=> \/ x = a
                              \/ x = b /\ limit >= 2
                              \/ x = c /\ limit >= 3
                              \/ x = d /\ n >= 2 /\ limit >= 4
                              \/ x = e /\ other = 3 /\ (limit >= 5 \/ (limit >= 4 /\ n < 2))
  <2>1. \A x : x \in early <=> x \in picks /\ Cardinality(Ahead(x)) <= limit
    OBVIOUS
  <2> HIDE DEF early
  <2>2. a \in early
    BY <1>7, <1>9, <1>10, <2>1
  <2>3. b \in early <=> limit >= 2
    BY <1>7, <1>9, <1>10, <2>1
  <2>4. c \in early <=> limit >= 3
    BY <1>7, <1>9, <1>10, <2>1
  <2>5. d \in early <=> n >= 2 /\ limit >= 4
    <3>1. d \in picks <=> n >= 2
      BY <1>7, <1>8
    <3> QED
      BY <1>9, <1>10, <2>1, <3>1
  <2>6. e \in early <=> other = 3 /\ (limit >= 5 \/ (limit >= 4 /\ n < 2))
    <3>1. e \in picks <=> other = 3
      BY <1>7, <1>8
    <3>2. CASE n >= 2
      BY <1>9, <1>10, <2>1, <3>1, <3>2
    <3>3. CASE n < 2
      BY <1>9, <1>10, <2>1, <3>1, <3>3
    <3> QED
      BY <3>2, <3>3
  <2>7. \A x : x \in early => x = a \/ x = b \/ x = c \/ x = d \/ x = e
    BY <1>7, <2>1
  <2> QED
    BY <2>2, <2>3, <2>4, <2>5, <2>6, <2>7
<1> HIDE DEF early
<1>12. {x \in early : x[1] = 1} = IF n >= 2 /\ limit >= 4 THEN {a, d} ELSE {a}
  <2>1. \A x : x \in early /\ x[1] = 1 <=> x = a \/ (x = d /\ n >= 2 /\ limit >= 4)
    BY <1>6, <1>11
  <2>2. CASE n >= 2 /\ limit >= 4
    <3>1. {x \in early : x[1] = 1} = {a, d}
      BY <2>1, <2>2
    <3> QED
      BY <2>2, <3>1
  <2>3. CASE ~(n >= 2 /\ limit >= 4)
    <3>1. {x \in early : x[1] = 1} = {a}
      BY <2>1, <2>3
    <3> QED
      BY <2>3, <3>1
  <2> QED
    BY <2>2, <2>3
<1>13. {x \in early : x[1] = 2} = IF limit >= 2
                                   THEN IF other = 3 /\ (limit >= 5 \/ (limit >= 4 /\ n < 2)) THEN {b, e} ELSE {b}
                                   ELSE {}
  <2> DEFINE both == other = 3 /\ (limit >= 5 \/ (limit >= 4 /\ n < 2))
  <2>1. \A x : x \in early /\ x[1] = 2 <=> (x = b /\ limit >= 2) \/ (x = e /\ both)
    BY <1>6, <1>11
  <2>2. both => limit >= 2
    OBVIOUS
  <2> HIDE DEF both
  <2>3. CASE both
    <3>1. {x \in early : x[1] = 2} = {b, e}
      BY <2>1, <2>2, <2>3
    <3> QED
      BY <2>2, <2>3, <3>1 DEF both
  <2>4. CASE ~both /\ limit >= 2
    <3>1. {x \in early : x[1] = 2} = {b}
      BY <2>1, <2>4
    <3> QED
      BY <2>4, <3>1 DEF both
  <2>5. CASE ~(limit >= 2)
    <3>1. {x \in early : x[1] = 2} = {}
      BY <2>1, <2>2, <2>5
    <3> QED
      BY <2>5, <3>1
  <2> QED
    BY <2>3, <2>4, <2>5
<1>14. {x \in early : x[1] = 3} = IF limit >= 3 THEN {c} ELSE {}
  <2>1. \A x : x \in early /\ x[1] = 3 <=> x = c /\ limit >= 3
    BY <1>6, <1>11
  <2>2. CASE limit >= 3
    <3>1. {x \in early : x[1] = 3} = {c}
      BY <2>1, <2>2
    <3> QED
      BY <2>2, <3>1
  <2>3. CASE ~(limit >= 3)
    <3>1. {x \in early : x[1] = 3} = {}
      BY <2>1, <2>3
    <3> QED
      BY <2>3, <3>1
  <2> QED
    BY <2>2, <2>3
<1>15. taken = [s \in 1 .. 3 |-> Cardinality({x \in early : x[1] = s})]
  <2>1. DOMAIN sizes = 1 .. 3
    BY <1>1
  <2> QED
    BY <2>1
<1>16. DOMAIN taken = 1 .. 3 /\ taken = <<taken[1], taken[2], taken[3]>>
  BY <1>15
<1>17. /\ taken[1] = Cardinality({x \in early : x[1] = 1})
       /\ taken[2] = Cardinality({x \in early : x[1] = 2})
       /\ taken[3] = Cardinality({x \in early : x[1] = 3})
  BY <1>15
<1> HIDE DEF taken
<1>18. taken[1] = IF n >= 2 /\ limit >= 4 THEN 2 ELSE 1
  BY <1>9, <1>12, <1>17
<1>19. taken[2] = IF limit >= 2
                  THEN IF other = 3 /\ (limit >= 5 \/ (limit >= 4 /\ n < 2)) THEN 2 ELSE 1
                  ELSE 0
  BY <1>9, <1>13, <1>17
<1>20. taken[3] = IF limit >= 3 THEN 1 ELSE 0
  BY <1>9, <1>14, <1>17
<1> QED
  BY <1>2, <1>16, <1>18, <1>19, <1>20

\* A document with something to look for has at least one chunk, whose share of a pool
\* over several sources is a fair one.
LEMMA SourcesShareHolds ==
  ASSUME ChunkInv
  PROVE  SourcesShare
<1> SUFFICES ASSUME chunks # <<>>, NEW other \in {1, 3}, NEW limit \in 1 .. 6
             PROVE  LET sizes == <<Len(chunks), other, 1>>
                        taken == RoundRobin(sizes, limit)
                    IN /\ Total(taken) <= limit
                       /\ \A s, t \in DOMAIN sizes : taken[s] >= Least(sizes[s], taken[t] - 1)
                       /\ limit >= Len(sizes) => \A s \in DOMAIN sizes : taken[s] > 0
  BY DEF SourcesShare
<1>1. PICK n \in Nat : n = Len(chunks) /\ n > 0
  <2>1. chunks \in Seq(ChunkSet)
    BY ChunkFacts
  <2>2. Len(chunks) \in Nat /\ Len(chunks) # 0
    BY <2>1
  <2>3. Len(chunks) > 0
    BY <2>2
  <2> QED
    BY <2>2, <2>3
<1> DEFINE sizes == <<n, other, 1>>
           taken == RoundRobin(sizes, limit)
<1>2. DOMAIN sizes = {1, 2, 3} /\ Len(sizes) = 3 /\ sizes[1] = n /\ sizes[2] = other /\ sizes[3] = 1
  OBVIOUS
<1>3. /\ taken = <<taken[1], taken[2], taken[3]>>
      /\ taken[1] = IF n >= 2 /\ limit >= 4 THEN 2 ELSE 1
      /\ taken[2] = IF limit >= 2
                    THEN IF other = 3 /\ (limit >= 5 \/ (limit >= 4 /\ n < 2)) THEN 2 ELSE 1
                    ELSE 0
      /\ taken[3] = IF limit >= 3 THEN 1 ELSE 0
  BY <1>1, TakenIs
<1> HIDE DEF sizes, taken
<1>4. taken[1] \in Nat /\ taken[2] \in Nat /\ taken[3] \in Nat /\ taken[1] + taken[2] + taken[3] <= limit
  BY <1>3
<1>5. Total(taken) <= limit
  <2>1. Total(<<taken[1], taken[2], taken[3]>>) = taken[1] + taken[2] + taken[3]
    BY <1>4, TotalThree
  <2> QED
    BY <1>3, <1>4, <2>1
<1>6. ASSUME NEW s \in DOMAIN sizes, NEW t \in DOMAIN sizes PROVE taken[s] >= Least(sizes[s], taken[t] - 1)
  <2>1. taken[t] \in {0, 1, 2} /\ (taken[t] = 2 => limit >= 4)
    BY <1>2, <1>3
  <2>2. sizes[s] \in Nat /\ sizes[s] > 0 /\ taken[s] \in Nat
    BY <1>1, <1>2, <1>4
  <2>3. limit >= 4 => taken[s] >= 1
    BY <1>2, <1>3
  <2>4. Least(sizes[s], taken[t] - 1) <= taken[t] - 1
    BY <2>1, <2>2 DEF Least
  <2>5. Least(sizes[s], taken[t] - 1) \in Int
    BY <2>1, <2>2 DEF Least
  <2> QED
    BY <2>1, <2>2, <2>3, <2>4, <2>5
<1>7. limit >= 3 => \A s \in DOMAIN sizes : taken[s] > 0
  BY <1>2, <1>3
<1> QED
  BY <1>1, <1>2, <1>5, <1>6, <1>7 DEF sizes, taken

----
(* The document is covered *)

\* Every sample of a chunked document covers it, whatever its length and its limit.
LEMMA SampleCoversHolds ==
  ASSUME ChunkInv
  PROVE  SampleCovers
<1> SUFFICES ASSUME chunks # <<>>, NEW limit \in 1 .. Len(chunks), NEW head \in 0 .. 1
             PROVE  SpreadCovers(Len(chunks), limit, head)
  BY DEF SampleCovers
<1>1. chunks \in Seq(ChunkSet)
  BY ChunkFacts
<1>2. Len(chunks) \in Nat /\ Len(chunks) # 0
  BY <1>1
<1>3. Len(chunks) > 0 /\ limit \in Nat /\ head \in Nat /\ head <= Len(chunks)
  BY <1>2
<1> QED
  BY <1>2, <1>3, SpreadCoversAll

\* Of a document that is chunked, and summed up as far as it is, everything has been shown.
LEMMA DocumentShown ==
  ASSUME ChunkInv, MinutesInv
  PROVE  DocumentIsCovered
<1>1. NotesAreKept
  BY DEF MinutesInv
<1> QED
  BY <1>1, WindowsTileHolds, MinutesReadItAllHolds, SampleCoversHolds, SourcesShareHolds DEF DocumentIsCovered

\* The computations on a document keep to what they have read and packed, whichever step
\* of whichever computation is taken.
LEMMA DocumentStep ==
  ASSUME ChunkInv, MinutesInv, [AlgorithmNext]_algorithmVars
  PROVE  ChunkInv' /\ MinutesInv'
<1>1. ChunkNext \/ UNCHANGED chunkVars
  BY DEF AlgorithmNext, algorithmVars, OfDocument
<1>2. ChunkInv'
  BY <1>1, ChunkStep
<1>3. CASE ChunkNext /\ UNCHANGED minutesVars
  BY <1>2, <1>3, MinutesRest
<1>4. CASE MinutesNext /\ UNCHANGED chunkVars
  BY <1>2, <1>4, MinutesStep
<1>5. CASE UNCHANGED chunkVars /\ UNCHANGED minutesVars
  <2>1. /\ doc' = doc /\ chunks' = chunks /\ reading' = reading
        /\ windows' = windows /\ at' = at /\ partials' = partials /\ failed' = failed /\ result' = result
    BY <1>5 DEF chunkVars, minutesVars
  <2>2. Windowed => Windowed'
    <3> SUFFICES ASSUME Windowed PROVE Windowed'
      OBVIOUS
    <3>1. PICK g, e : /\ Sums(g, Lengths) /\ Parted(windows, e, g)
                      /\ e[Len(windows)] = Len(chunks) \/ Len(windows) = MaxWindows
      BY DEF Windowed
    <3>2. Sums(g, Lengths)'
      BY <2>1, <3>1, LengthsRest DEF Sums
    <3>3. Parted(windows, e, g)'
      BY <2>1, <3>1 DEF Parted
    <3> QED
      BY <2>1, <3>1, <3>2, <3>3 DEF Windowed
  <2> QED
    BY <1>2, <2>1, <2>2 DEF MinutesInv, NotesAreKept
<1>6. \/ ChunkNext /\ UNCHANGED minutesVars
      \/ MinutesNext /\ UNCHANGED chunkVars
      \/ UNCHANGED chunkVars /\ UNCHANGED minutesVars
  BY DEF AlgorithmNext, algorithmVars, OfDocument
<1> QED
  BY <1>2, <1>3, <1>4, <1>5, <1>6

\* What a model is shown of a document stands for all of it, or the reader is told that it
\* does not: whatever the document, the size of a call and the number of windows.
THEOREM DocumentCovered == AlgorithmSpec => []DocumentIsCovered
<1>1. AlgorithmInit => ChunkInv /\ MinutesInv
  BY ChunkInit1, MinutesInit1 DEF AlgorithmInit
<1>2. (ChunkInv /\ MinutesInv) /\ [AlgorithmNext]_algorithmVars => (ChunkInv /\ MinutesInv)'
  BY DocumentStep
<1>3. ChunkInv /\ MinutesInv => DocumentIsCovered
  BY DocumentShown
<1> QED
  BY <1>1, <1>2, <1>3, PTL DEF AlgorithmSpec

----
(* Sorting, picking and cutting *)

\* An order on the elements of D, as what comes before each: strict and total.
Ordering(D, b) ==
  /\ b \in [D -> SUBSET D]
  /\ \A i \in D : i \notin b[i]
  /\ \A i, j \in D : i # j => i \in b[j] \/ j \in b[i]
  /\ \A i, j \in D : j \in b[i] => b[j] \subseteq b[i]

\* Counting what comes before an element gives each its place.
Placed(D, b) ==
  /\ \A i \in D : Cardinality(b[i]) \in 0 .. Cardinality(D) - 1
  /\ \A i, j \in D : j \in b[i] <=> Cardinality(b[j]) < Cardinality(b[i])
  /\ \A i, j \in D : Cardinality(b[i]) = Cardinality(b[j]) => i = j
  /\ \A n \in 1 .. Cardinality(D) : \E i \in D : Cardinality(b[i]) = n - 1

\* In a finite set with an order there is one element for every place.
LEMMA PlacedIs ==
  ASSUME NEW D, IsFiniteSet(D), NEW b, Ordering(D, b)
  PROVE  Cardinality(D) \in Nat /\ Placed(D, b)
<1> DEFINE N == Cardinality(D)
           c == [i \in D |-> Cardinality(b[i])]
<1>1. N \in Nat
  BY FS_CardinalityType
<1>2. ASSUME NEW i \in D PROVE IsFiniteSet(b[i]) /\ Cardinality(b[i]) \in Nat /\ Cardinality(b[i]) < N
  <2>1. b[i] \in SUBSET D /\ i \notin b[i]
    BY DEF Ordering
  <2>2. IsFiniteSet(b[i]) /\ Cardinality(b[i]) <= N /\ (N = Cardinality(b[i]) => D = b[i])
    BY <2>1, FS_Subset
  <2>3. Cardinality(b[i]) \in Nat
    BY <2>2, FS_CardinalityType
  <2> QED
    BY <1>1, <2>1, <2>2, <2>3
<1>3. ASSUME NEW i \in D, NEW j \in D, j \in b[i] PROVE Cardinality(b[j]) < Cardinality(b[i])
  <2>1. b[j] \in SUBSET b[i] /\ b[j] # b[i]
    BY <1>3 DEF Ordering
  <2>2. Cardinality(b[j]) <= Cardinality(b[i]) /\ (Cardinality(b[i]) = Cardinality(b[j]) => b[i] = b[j])
    BY <1>2, <2>1, FS_Subset
  <2> QED
    BY <1>2, <2>1, <2>2
<1>4. ASSUME NEW i \in D, NEW j \in D PROVE j \in b[i] <=> Cardinality(b[j]) < Cardinality(b[i])
  <2>1. i # j => i \in b[j] \/ j \in b[i]
    BY DEF Ordering
  <2> QED
    BY <1>2, <1>3, <2>1
<1>5. ASSUME NEW i \in D, NEW j \in D, Cardinality(b[i]) = Cardinality(b[j]) PROVE i = j
  <2>1. i # j => i \in b[j] \/ j \in b[i]
    BY DEF Ordering
  <2> QED
    BY <1>2, <1>3, <1>5, <2>1
<1>6. c \in Injection(D, 0 .. N - 1)
  <2>1. c \in [D -> 0 .. N - 1]
    BY <1>1, <1>2
  <2>2. \A i, j \in D : c[i] = c[j] => i = j
    BY <1>5
  <2> HIDE DEF c
  <2> QED
    BY <2>1, <2>2 DEF Injection, IsInjective
<1>7. IsFiniteSet(0 .. N - 1) /\ Cardinality(0 .. N - 1) = N
  BY <1>1, FS_Interval
<1>8. c \in Surjection(D, 0 .. N - 1)
  <2> HIDE DEF c
  <2> QED
    BY <1>6, <1>7, FS_Injection
<1>9. ASSUME NEW n \in 1 .. N PROVE \E i \in D : Cardinality(b[i]) = n - 1
  <2>1. n - 1 \in 0 .. N - 1
    BY <1>1
  <2>2. \E i \in D : c[i] = n - 1
    <3> HIDE DEF c
    <3> QED
      BY <1>8, <2>1 DEF Surjection
  <2> QED
    BY <2>2
<1>10. \A i \in D : Cardinality(b[i]) \in 0 .. N - 1
  BY <1>1, <1>2
<1> QED
  BY <1>1, <1>4, <1>5, <1>9, <1>10 DEF Placed

\* g goes through P from below.
Through(g, m, P) ==
  /\ m \in Nat /\ g \in [1 .. m -> P]
  /\ \A i, j \in 1 .. m : i < j <=> g[i] < g[j]
  /\ \A k \in P : \E i \in 1 .. m : g[i] = k

\* The n-th numbers of P, one after the other, go through P.
LEMMA NthIs ==
  ASSUME NEW n \in Nat, NEW P \in SUBSET (1 .. n)
  PROVE  /\ IsFiniteSet(P) /\ Cardinality(P) \in 0 .. n
         /\ Through([m \in 1 .. Cardinality(P) |-> Nth(P, m)], Cardinality(P), P)
<1> DEFINE b == [k \in P |-> {j \in P : j < k}]
           N == Cardinality(P)
           g == [m \in 1 .. N |-> Nth(P, m)]
<1>1. IsFiniteSet(1 .. n) /\ Cardinality(1 .. n) = n
  BY FirstNumbers
<1>2. IsFiniteSet(P) /\ Cardinality(P) <= n
  BY <1>1, FS_Subset
<1>3. \A k \in P : k \in Nat
  OBVIOUS
<1>4. Ordering(P, b)
  <2>1. b \in [P -> SUBSET P]
    OBVIOUS
  <2>2. \A i \in P : i \notin b[i]
    BY <1>3
  <2>3. ASSUME NEW i \in P, NEW j \in P, i # j PROVE i \in b[j] \/ j \in b[i]
    <3>1. i \in Nat /\ j \in Nat
      BY <1>3
    <3>2. i < j \/ j < i
      BY <2>3, <3>1
    <3> QED
      BY <3>2
  <2>4. ASSUME NEW i \in P, NEW j \in P, j \in b[i] PROVE b[j] \subseteq b[i]
    <3> SUFFICES ASSUME NEW k \in P, k < j PROVE k < i
      OBVIOUS
    <3>1. i \in Nat /\ j \in Nat /\ k \in Nat /\ j < i
      BY <1>3, <2>4
    <3> QED
      BY <3>1
  <2> HIDE DEF b
  <2> QED
    BY <2>1, <2>2, <2>3, <2>4 DEF Ordering
<1>5. N \in Nat /\ Placed(P, b)
  BY <1>2, <1>4, PlacedIs
<1>6. \A m \in 1 .. N : Nth(P, m) \in P /\ Cardinality(b[Nth(P, m)]) = m - 1
  BY <1>5 DEF Placed, Nth
<1>7. \A i, j \in 1 .. N : i < j <=> g[i] < g[j]
  <2> SUFFICES ASSUME NEW i \in 1 .. N, NEW j \in 1 .. N PROVE i < j <=> g[i] < g[j]
    OBVIOUS
  <2>1. g[i] = Nth(P, i) /\ g[j] = Nth(P, j) /\ Nth(P, i) \in P /\ Nth(P, j) \in P
    BY <1>6
  <2>2. Cardinality(b[g[i]]) = i - 1 /\ Cardinality(b[g[j]]) = j - 1
    BY <1>6, <2>1
  <2>3. g[i] \in b[g[j]] <=> g[i] < g[j]
    BY <2>1
  <2> HIDE DEF g, b
  <2>4. g[i] \in b[g[j]] <=> i - 1 < j - 1
    BY <1>5, <2>1, <2>2 DEF Placed
  <2> QED
    BY <1>5, <2>3, <2>4
<1>8. ASSUME NEW k \in P PROVE \E i \in 1 .. N : g[i] = k
  <2>1. Cardinality(b[k]) \in 0 .. N - 1
    BY <1>5 DEF Placed
  <2>2. PICK i \in 1 .. N : Cardinality(b[k]) = i - 1
    <3>1. \A c \in 0 .. N - 1 : c + 1 \in 1 .. N /\ c = (c + 1) - 1
      BY <1>5
    <3> HIDE DEF b
    <3> QED
      BY <2>1, <3>1
  <2>3. g[i] = Nth(P, i) /\ Nth(P, i) \in P
    BY <1>6
  <2>4. Cardinality(b[Nth(P, i)]) = i - 1
    BY <1>6
  <2> HIDE DEF b
  <2>5. Nth(P, i) = k
    BY <1>5, <2>2, <2>3, <2>4 DEF Placed
  <2> QED
    BY <2>3, <2>5
<1>9. g \in [1 .. N -> P]
  BY <1>6
<1> HIDE DEF g
<1>10. Through(g, N, P)
  BY <1>5, <1>7, <1>8, <1>9 DEF Through
<1> QED
  BY <1>2, <1>5, <1>10 DEF g

\* q consists of the elements of s at the places g.
Along(q, s, g) == \A n \in 1 .. Len(q) : q[n] = s[g[n]]

\* What is picked out of s are the elements at those places, in their order.
LEMMA PickedIs ==
  ASSUME NEW n \in Nat, NEW P \in SUBSET (1 .. n), NEW T, NEW s, \A k \in P : s[k] \in T
  PROVE  /\ Picked(s, P) \in Seq(T) /\ Len(Picked(s, P)) = Cardinality(P) /\ Cardinality(P) \in 0 .. n
         /\ \E g : Through(g, Cardinality(P), P) /\ Along(Picked(s, P), s, g)
<1> DEFINE N == Cardinality(P)
           g == [m \in 1 .. N |-> Nth(P, m)]
           q == Picked(s, P)
<1>1. N \in 0 .. n /\ N \in Nat /\ Through(g, N, P)
  BY NthIs
<1>2. \A m \in 1 .. N : g[m] \in P /\ g[m] = Nth(P, m)
  BY <1>1 DEF Through
<1>3. q = [m \in 1 .. N |-> s[Nth(P, m)]]
  BY DEF Picked
<1> HIDE DEF g, q, N
<1>4. \A m \in 1 .. N : q[m] = s[g[m]] /\ q[m] \in T
  BY <1>2, <1>3
<1>5. q \in Seq(T) /\ Len(q) = N
  BY <1>1, <1>3, <1>4
<1> QED
  BY <1>1, <1>4, <1>5 DEF Along, N, q

\* p is the order of the places 1 .. n by rank.
Sorts(p, n, rank) ==
  /\ p \in [1 .. n -> 1 .. n]
  /\ \A i, j \in 1 .. n : i < j => Outranks(rank, p[i], p[j])
  /\ \A i, j \in 1 .. n : p[i] = p[j] => i = j
  /\ \A k \in 1 .. n : \E i \in 1 .. n : p[i] = k

\* Sorting has all elements, in the order of their ranks.
LEMMA RankedIs ==
  ASSUME NEW T, NEW s \in Seq(T), NEW rank \in [1 .. Len(s) -> Nat]
  PROVE  /\ Ranked(s, rank) \in Seq(T) /\ Len(Ranked(s, rank)) = Len(s)
         /\ \E p : Sorts(p, Len(s), rank) /\ Along(Ranked(s, rank), s, p)
<1> DEFINE N == Len(s)
           D == 1 .. N
           b == [k \in D |-> {j \in D : Outranks(rank, j, k)}]
           place(m) == CHOOSE i \in D : Cardinality({j \in D : Outranks(rank, j, i)}) = m - 1
           p == [m \in D |-> place(m)]
           q == Ranked(s, rank)
<1>1. N \in Nat /\ DOMAIN s = D
  OBVIOUS
<1>2. IsFiniteSet(D) /\ Cardinality(D) = N
  <2>1. \A m \in Nat : IsFiniteSet(1 .. m) /\ Cardinality(1 .. m) = m
    BY FirstNumbers
  <2> QED
    BY <1>1, <2>1
<1>3. Ordering(D, b)
  <2>0. \A i \in D : i \in Nat /\ rank[i] \in Nat
    OBVIOUS
  <2>1. b \in [D -> SUBSET D]
    OBVIOUS
  <2>2. \A i \in D : i \notin b[i]
    BY <2>0 DEF Outranks
  <2>3. \A i, j \in D : i # j => i \in b[j] \/ j \in b[i]
    BY <2>0 DEF Outranks
  <2>4. \A i, j \in D : j \in b[i] => b[j] \subseteq b[i]
    <3> SUFFICES ASSUME NEW i \in D, NEW j \in D, NEW k \in D, Outranks(rank, j, i), Outranks(rank, k, j)
                 PROVE  Outranks(rank, k, i)
      OBVIOUS
    <3>1. rank[i] \in Nat /\ rank[j] \in Nat /\ rank[k] \in Nat
      BY <2>0
    <3> QED
      BY <3>1 DEF Outranks
  <2> HIDE DEF b, D
  <2> QED
    BY <2>1, <2>2, <2>3, <2>4 DEF Ordering
<1>4. Placed(D, b)
  <2> HIDE DEF b, D
  <2> QED
    BY <1>2, <1>3, PlacedIs
<1>5. \A m \in D : place(m) \in D /\ Cardinality(b[place(m)]) = m - 1
  BY <1>2, <1>4 DEF Placed
<1>6. \A m \in D : p[m] \in D /\ Cardinality(b[p[m]]) = m - 1
  BY <1>5
<1>7. q = [m \in D |-> s[p[m]]]
  BY <1>1 DEF Ranked
<1>8. \A i, j \in D : i \in b[j] <=> Outranks(rank, i, j)
  OBVIOUS
<1> HIDE DEF p, b
<1>9. \A i, j \in D : i < j => Outranks(rank, p[i], p[j])
  <2> SUFFICES ASSUME NEW i \in D, NEW j \in D, i < j PROVE Outranks(rank, p[i], p[j])
    OBVIOUS
  <2>1. p[i] \in D /\ p[j] \in D /\ Cardinality(b[p[i]]) = i - 1 /\ Cardinality(b[p[j]]) = j - 1
    BY <1>6
  <2>2. p[i] \in b[p[j]]
    BY <1>4, <2>1 DEF Placed
  <2> QED
    BY <1>8, <2>1, <2>2
<1>10. \A i, j \in D : p[i] = p[j] => i = j
  BY <1>6
<1>11. ASSUME NEW k \in D PROVE \E i \in D : p[i] = k
  <2>1. Cardinality(b[k]) \in 0 .. N - 1
    BY <1>2, <1>4 DEF Placed
  <2>2. Cardinality(b[k]) + 1 \in D
    BY <1>1, <2>1
  <2>3. p[Cardinality(b[k]) + 1] \in D /\ Cardinality(b[p[Cardinality(b[k]) + 1]]) = Cardinality(b[k])
    BY <1>6, <2>1, <2>2
  <2>4. p[Cardinality(b[k]) + 1] = k
    BY <1>4, <2>3 DEF Placed
  <2> QED
    BY <2>2, <2>4
<1>12. p \in [D -> D]
  BY <1>5 DEF p
<1>13. Sorts(p, N, rank)
  BY <1>9, <1>10, <1>11, <1>12 DEF Sorts
<1> HIDE DEF q
<1>14. q \in Seq(T) /\ Len(q) = N /\ \A m \in D : q[m] = s[p[m]]
  BY <1>1, <1>6, <1>7
<1> QED
  BY <1>1, <1>13, <1>14 DEF Along, q

\* The first n elements.
LEMMA CutIs ==
  ASSUME NEW T, NEW s \in Seq(T), NEW n \in Nat
  PROVE  /\ Cut(s, n) \in Seq(T) /\ Len(Cut(s, n)) = Least(Len(s), n) /\ Least(Len(s), n) \in 0 .. Len(s)
         /\ Least(Len(s), n) <= n
         /\ \A k \in 1 .. Least(Len(s), n) : Cut(s, n)[k] = s[k]
         /\ Len(s) <= n => Cut(s, n) = s
<1> DEFINE m == Least(Len(s), n)
<1>1. Len(s) \in Nat /\ m \in Nat /\ m <= Len(s) /\ m <= n /\ m \in 0 .. Len(s)
  BY DEF Least
<1> HIDE DEF m
<1>2. /\ SubSeq(s, 1, m) \in Seq(T) /\ Len(SubSeq(s, 1, m)) = m
      /\ \A k \in 1 .. m : SubSeq(s, 1, m)[k] = s[k]
  BY <1>1
<1>3. Cut(s, n) = SubSeq(s, 1, m)
  BY DEF Cut, m
<1>4. ASSUME Len(s) <= n PROVE SubSeq(s, 1, m) = s
  <2>1. m = Len(s)
    BY <1>1, <1>4 DEF m, Least
  <2> QED
    BY <2>1
<1> QED
  BY <1>1, <1>2, <1>3, <1>4 DEF m

\* Values never rise along the sequence.
Drops(v, n) == \A i, j \in 1 .. n : i < j => v[i] >= v[j]

\* An injection of the first n numbers reaches n or more.
LEMMA Reaches ==
  ASSUME NEW n \in Nat \ {0}, NEW m \in Nat, NEW f \in [1 .. n -> 1 .. m],
         \A i, j \in 1 .. n : f[i] = f[j] => i = j
  PROVE  \E i \in 1 .. n : f[i] >= n
<1>1. SUFFICES ASSUME \A i \in 1 .. n : f[i] < n PROVE FALSE
  <2>1. \A i \in 1 .. n : f[i] \in Nat
    OBVIOUS
  <2> QED
    BY <1>1, <2>1
<1>2. f \in [1 .. n -> 1 .. n - 1]
  BY <1>1
<1>3. \A k \in Nat : IsFiniteSet(1 .. k) /\ Cardinality(1 .. k) = k
  BY FirstNumbers
<1>4. n - 1 \in Nat /\ n \in Nat /\ n - 1 < n
  OBVIOUS
<1>5. Cardinality(1 .. n - 1) < Cardinality(1 .. n) /\ IsFiniteSet(1 .. n - 1) /\ IsFiniteSet(1 .. n)
  BY <1>3, <1>4
<1>6. \E x, y \in 1 .. n : x # y /\ f[x] = f[y]
  <2> DEFINE S == 1 .. n
             U == 1 .. n - 1
  <2>1. f \in [S -> U] /\ IsFiniteSet(S) /\ IsFiniteSet(U) /\ Cardinality(U) < Cardinality(S)
    BY <1>2, <1>5
  <2> HIDE DEF S, U
  <2>2. \E x, y \in S : x # y /\ f[x] = f[y]
    BY ONLY <2>1, FS_PigeonHole
  <2> QED
    BY <2>2 DEF S
<1> QED
  BY <1>6

\* f takes each place of u to a place of v that has as much, and no two to the same.
Dominates(f, u, n, v, m) ==
  /\ f \in [1 .. n -> 1 .. m]
  /\ \A i, j \in 1 .. n : f[i] = f[j] => i = j
  /\ \A i \in 1 .. n : v[f[i]] = u[i]

\* What falls and is covered by what falls is nowhere above it.
LEMMA CoveredBelow ==
  ASSUME NEW n \in Nat, NEW m \in Nat, NEW u \in [1 .. n -> Nat], NEW v \in [1 .. m -> Nat],
         Drops(u, n), Drops(v, m), NEW f, Dominates(f, u, n, v, m)
  PROVE  n <= m /\ \A k \in 1 .. n : u[k] <= v[k]
<1>1. n <= m
  <2>1. CASE n = 0
    BY <2>1
  <2>2. CASE n # 0
    <3>1. \E i \in 1 .. n : f[i] >= n
      BY <2>2, Reaches DEF Dominates
    <3> QED
      BY <3>1 DEF Dominates
  <2> QED
    BY <2>1, <2>2
<1>2. ASSUME NEW k \in 1 .. n PROVE u[k] <= v[k]
  <2> DEFINE h == [i \in 1 .. k |-> f[i]]
  <2>1. k \in Nat \ {0} /\ \A i \in 1 .. k : i \in 1 .. n /\ h[i] = f[i] /\ f[i] \in 1 .. m
    BY DEF Dominates
  <2>2. h \in [1 .. k -> 1 .. m] /\ \A i, j \in 1 .. k : h[i] = h[j] => i = j
    BY <2>1 DEF Dominates
  <2> HIDE DEF h
  <2>3. PICK i \in 1 .. k : h[i] >= k
    BY <2>1, <2>2, Reaches
  <2>4. i \in 1 .. n /\ f[i] \in 1 .. m /\ f[i] >= k /\ v[f[i]] = u[i]
    BY <2>1, <2>3 DEF Dominates
  <2>5. k \in 1 .. m /\ u[i] \in Nat /\ u[k] \in Nat /\ v[k] \in Nat /\ v[f[i]] \in Nat
    BY <1>1, <2>4
  <2>6. u[i] >= u[k]
    BY <2>4, <2>5 DEF Drops
  <2>7. v[k] >= v[f[i]]
    BY <2>4, <2>5 DEF Drops
  <2> QED
    BY <2>4, <2>5, <2>6, <2>7
<1> QED
  BY <1>1, <1>2

\* Two that fall, each covered by the other, are the same.
LEMMA SameFall ==
  ASSUME NEW n \in Nat, NEW m \in Nat, NEW u \in [1 .. n -> Nat], NEW v \in [1 .. m -> Nat],
         Drops(u, n), Drops(v, m), NEW f, Dominates(f, u, n, v, m), NEW g, Dominates(g, v, m, u, n)
  PROVE  n = m /\ u = v
<1>1. n <= m /\ \A k \in 1 .. n : u[k] <= v[k]
  BY CoveredBelow
<1>2. m <= n /\ \A k \in 1 .. m : v[k] <= u[k]
  BY CoveredBelow
<1>3. n = m
  BY <1>1, <1>2
<1>4. ASSUME NEW k \in 1 .. n PROVE u[k] = v[k]
  <2>1. u[k] \in Nat /\ v[k] \in Nat
    BY <1>3
  <2> QED
    BY <1>1, <1>2, <1>3, <2>1
<1> QED
  BY <1>3, <1>4

----
(* What both searches find *)

\* q names members of P, none of them twice.
Names(q, P) ==
  /\ q \in Seq(P)
  /\ \A i, j \in 1 .. Len(q) : q[i] = q[j] => i = j

\* ... and all of them.
AllOf(q, P) == Names(q, P) /\ \A k \in P : \E i \in 1 .. Len(q) : q[i] = k

LEMMA NewestIs ==
  ASSUME NEW n \in Nat, NEW P \in SUBSET (1 .. n)
  PROVE  AllOf(Newest(P), P) /\ Len(Newest(P)) \in 0 .. n
<1> DEFINE m == Cardinality(P)
           t == [k \in 1 .. m |-> Nth(P, k)]
           q == Newest(P)
<1>1. m \in 0 .. n /\ m \in Nat /\ Through(t, m, P)
  BY NthIs
<1>2. t \in Seq(P) /\ Len(t) = m /\ t \in [1 .. m -> P]
  BY <1>1 DEF Through
<1>a. q = Reverse(t)
  BY DEF Newest
<1> HIDE DEF t, q
<1>3. q = [k \in 1 .. m |-> t[(m - k) + 1]]
  BY <1>2, <1>a DEF Reverse
<1>4. \A i, j \in 1 .. m : t[i] = t[j] => i = j
  <2> SUFFICES ASSUME NEW i \in 1 .. m, NEW j \in 1 .. m, i < j PROVE t[i] # t[j]
    BY <1>1
  <2>1. t[i] < t[j] /\ t[i] \in 1 .. n
    BY <1>1, <1>2 DEF Through
  <2> QED
    BY <2>1
<1>5. \A k \in 1 .. m : (m - k) + 1 \in 1 .. m /\ q[k] = t[(m - k) + 1] /\ q[k] \in P
  BY <1>1, <1>2, <1>3
<1>6. q \in Seq(P) /\ Len(q) = m
  BY <1>1, <1>3, <1>5
<1>7. \A i, j \in 1 .. m : q[i] = q[j] => i = j
  <2> SUFFICES ASSUME NEW i \in 1 .. m, NEW j \in 1 .. m, q[i] = q[j] PROVE i = j
    OBVIOUS
  <2>1. (m - i) + 1 = (m - j) + 1
    BY <1>4, <1>5
  <2> QED
    BY <1>1, <2>1
<1>8. ASSUME NEW k \in P PROVE \E i \in 1 .. m : q[i] = k
  <2>1. PICK i \in 1 .. m : t[i] = k
    BY <1>1 DEF Through
  <2>2. (m - i) + 1 \in 1 .. m /\ (m - ((m - i) + 1)) + 1 = i
    BY <1>1
  <2> QED
    BY <1>5, <2>1, <2>2
<1>9. AllOf(q, P) /\ Len(q) \in 0 .. n
  BY <1>1, <1>6, <1>7, <1>8 DEF AllOf, Names
<1> QED
  BY <1>9 DEF q

\* The best n of them are named once each, and all if they are no more than n.
LEMMA BestIs ==
  ASSUME NEW P, NEW q, Names(q, P), NEW rank \in [1 .. Len(q) -> Nat], NEW n \in Nat
  PROVE  /\ Names(Cut(Ranked(q, rank), n), P)
         /\ AllOf(q, P) /\ Len(q) <= n => AllOf(Cut(Ranked(q, rank), n), P)
<1> DEFINE r == Ranked(q, rank)
<1>1. q \in Seq(P) /\ Len(q) \in Nat
  BY DEF Names
<1>2. /\ r \in Seq(P) /\ Len(r) = Len(q)
      /\ \E p : Sorts(p, Len(q), rank) /\ Along(r, q, p)
  BY <1>1, RankedIs
<1> HIDE DEF r
<1>3. PICK p : Sorts(p, Len(q), rank) /\ Along(r, q, p)
  BY <1>2
<1>4. \A i \in 1 .. Len(q) : p[i] \in 1 .. Len(q) /\ r[i] = q[p[i]]
  BY <1>2, <1>3 DEF Sorts, Along
<1>5. Names(r, P)
  <2>1. ASSUME NEW i \in 1 .. Len(q), NEW j \in 1 .. Len(q), r[i] = r[j] PROVE i = j
    <3>1. p[i] \in 1 .. Len(q) /\ p[j] \in 1 .. Len(q) /\ q[p[i]] = q[p[j]]
      BY <1>4, <2>1
    <3>2. p[i] = p[j]
      BY <3>1 DEF Names
    <3> QED
      BY <1>3, <3>2 DEF Sorts
  <2> QED
    BY <1>2, <2>1 DEF Names
<1>6. ASSUME AllOf(q, P), NEW k \in P PROVE \E i \in 1 .. Len(r) : r[i] = k
  <2>1. PICK j \in 1 .. Len(q) : q[j] = k
    BY <1>6 DEF AllOf
  <2>2. PICK i \in 1 .. Len(q) : p[i] = j
    BY <1>3 DEF Sorts
  <2> QED
    BY <1>2, <1>4, <2>1, <2>2
<1> DEFINE c == Cut(r, n)
           m == Least(Len(r), n)
<1>7. /\ c \in Seq(P) /\ Len(c) = m /\ m \in 0 .. Len(r) /\ \A k \in 1 .. m : c[k] = r[k]
      /\ Len(r) <= n => c = r
  BY <1>2, CutIs
<1> HIDE DEF c, m
<1>8. Names(c, P)
  <2>1. \A i \in 1 .. m : i \in 1 .. Len(r)
    BY <1>1, <1>2, <1>7
  <2> QED
    BY <1>5, <1>7, <2>1 DEF Names
<1>9. ASSUME AllOf(q, P), Len(q) <= n PROVE AllOf(c, P)
  <2>1. c = r
    BY <1>2, <1>7, <1>9
  <2> QED
    BY <1>5, <1>6, <1>9, <2>1 DEF AllOf
<1> QED
  BY <1>8, <1>9 DEF c, r

\* A part of what is named is named once.
LEMMA NamesCut ==
  ASSUME NEW P, NEW q, Names(q, P), NEW n \in Nat
  PROVE  /\ Names(Cut(q, n), P) /\ Len(Cut(q, n)) <= n /\ Len(Cut(q, n)) \in 0 .. Len(q)
         /\ AllOf(q, P) /\ Len(q) <= n => AllOf(Cut(q, n), P)
<1> DEFINE c == Cut(q, n)
           m == Least(Len(q), n)
<1>1. /\ c \in Seq(P) /\ Len(c) = m /\ m \in 0 .. Len(q) /\ m <= n /\ \A k \in 1 .. m : c[k] = q[k]
      /\ Len(q) <= n => c = q
  BY CutIs DEF Names
<1> HIDE DEF c, m
<1>2. \A i \in 1 .. m : i \in 1 .. Len(q)
  BY <1>1
<1>3. Names(c, P)
  BY <1>1, <1>2 DEF Names
<1>4. AllOf(q, P) /\ Len(q) <= n => AllOf(c, P)
  BY <1>1
<1> QED
  BY <1>1, <1>3, <1>4 DEF c

\* The chunks of the scope that have the words, and those worth something.
Worded  == {i \in InScope : passages[i].keyword > 0}
Matches == {i \in InScope : Worth(i) > 0}

\* The table, its ids and what its chunks score.
LEMMA TableIs ==
  ASSUME passages \in Seq(Passages)
  PROVE  /\ Len(passages) \in Nat /\ Id = 1 .. Len(passages)
         /\ InScope \in SUBSET (1 .. Len(passages))
         /\ Worded \in SUBSET (1 .. Len(passages))
         /\ \A i \in 1 .. Len(passages) :
              /\ passages[i].vector \in [Probes -> 0 .. Nearest]
              /\ passages[i].keyword \in Nat /\ passages[i].tokens \in Nat
              /\ passages[i].source \in {c.source : c \in Passages}
<1>1. Len(passages) \in Nat /\ Id = 1 .. Len(passages)
  BY DEF Id
<1>2. \A i \in 1 .. Len(passages) : passages[i] \in Passages
  OBVIOUS
<1> QED
  BY <1>1, <1>2, PassageAssumption DEF InScope, Worded

\* Scores are naturals.
LEMMA ScoreIs ==
  ASSUME weights \in Weights, NEW v \in Nat, NEW k \in Nat
  PROVE  Score(v, k) \in Nat
<1>1. PICK a \in Nat : a = weights.vector
  BY WeightAssumption
<1>2. PICK b \in Nat : b = weights.keyword
  BY WeightAssumption
<1>3. a * v \in Nat /\ b * k \in Nat
  OBVIOUS
<1> QED
  BY <1>1, <1>2, <1>3 DEF Score

\* The best of some scores is one of them.
LEMMA BestScore ==
  ASSUME NEW X \in SUBSET (0 .. Nearest), X # {}
  PROVE  Max(X) \in Nat /\ Max(X) \in X
<1> DEFINE Over == {k \in 0 .. Nearest : \A y \in X : y <= k}
<1>0. Nearest \in Nat /\ \A y \in X : y \in 0 .. Nearest
  BY ProbeAssumption
<1>1. Nearest \in Over /\ Over \subseteq Nat /\ Over # {}
  BY <1>0
<1>2. PICK k \in Over : \A j \in Over : k <= j
  <2> HIDE DEF Over
  <2> QED
    BY <1>1, LeastOf
<1>3. k \in X
  <2>1. SUFFICES ASSUME k \notin X PROVE FALSE
    OBVIOUS
  <2>2. k > 0 /\ k - 1 \in 0 .. Nearest
    <3>1. PICK z \in X : z \in 0 .. Nearest
      BY <1>0
    <3>2. z <= k /\ z # k
      BY <1>2, <2>1
    <3> QED
      BY <1>0, <1>2, <3>1, <3>2
  <2>3. k - 1 \in Over
    BY <1>0, <1>2, <2>1, <2>2
  <2> QED
    BY <1>2, <2>2, <2>3
<1>4. \E y \in X : \A z \in X : y >= z
  BY <1>0, <1>2, <1>3
<1>5. Max(X) \in X
  BY <1>4 DEF Max
<1>6. PICK l \in X : l = Max(X)
  BY <1>5
<1> QED
  BY <1>0, <1>5, <1>6

\* How near a chunk is at best.
LEMMA ClosestIs ==
  ASSUME passages \in Seq(Passages), NEW i \in InScope
  PROVE  Closest(i) \in Nat
<1> DEFINE X == {passages[i].vector[q] : q \in Probes}
<1>1. passages[i].vector \in [Probes -> 0 .. Nearest]
  BY TableIs
<1>2. X \in SUBSET (0 .. Nearest) /\ X # {}
  BY <1>1, ProbeAssumption
<1>3. Closest(i) = Max(X)
  BY DEF Closest
<1> HIDE DEF X
<1> QED
  BY <1>2, <1>3, BestScore

\* Entries of chunks in the scope, none twice.
Good(q) ==
  /\ q \in Seq(Entries)
  /\ \A i \in 1 .. Len(q) : q[i].id \in InScope
  /\ \A i, j \in 1 .. Len(q) : q[i].id = q[j].id => i = j

\* ... which score something.
Positive(q) == \A i \in 1 .. Len(q) : q[i].score > 0

\* ... of all chunks of the scope, each with what it is worth.
Everything(q) ==
  /\ \A i \in 1 .. Len(q) : q[i].score = Worth(q[i].id)
  /\ \A k \in InScope : \E i \in 1 .. Len(q) : q[i].id = k

\* ... of those that are worth something.
Complete(q) ==
  /\ \A i \in 1 .. Len(q) : q[i].id \in Matches /\ q[i].score = Worth(q[i].id)
  /\ \A k \in Matches : \E i \in 1 .. Len(q) : q[i].id = k

\* An entry.
LEMMA EntryIs ==
  ASSUME passages \in Seq(Passages), weights \in Weights
  PROVE  /\ \A i \in InScope, n \in Nat : Entry(i, n) \in Entries /\ Entry(i, n).id = i /\ Entry(i, n).score = n
         /\ \A i \in InScope : i \in 1 .. Len(passages) /\ Worth(i) \in Nat
         /\ Worded \subseteq InScope /\ Matches \subseteq InScope
<1>1. \A i \in InScope, n \in Nat : Entry(i, n) \in Entries /\ Entry(i, n).id = i /\ Entry(i, n).score = n
  BY DEF Entry, Entries, InScope
<1>2. ASSUME NEW i \in InScope PROVE i \in 1 .. Len(passages) /\ Worth(i) \in Nat
  <2>1. i \in 1 .. Len(passages) /\ Closest(i) \in Nat /\ passages[i].keyword \in Nat
    BY TableIs, ClosestIs
  <2> QED
    BY <2>1, ScoreIs DEF Worth
<1> QED
  BY <1>1, <1>2 DEF Worded, Matches

\* The entries left when those that score nothing are left out.
LEMMA ScoringIs ==
  ASSUME passages \in Seq(Passages), weights \in Weights, NEW s, Good(s)
  PROVE  /\ Good(Scoring(s)) /\ Positive(Scoring(s))
         /\ Everything(s) => Complete(Scoring(s))
<1> DEFINE n == Len(s)
           P == {k \in DOMAIN s : s[k].score > 0}
           q == Scoring(s)
<1>1. s \in Seq(Entries) /\ n \in Nat /\ DOMAIN s = 1 .. n
  BY DEF Good
<1>2. P \in SUBSET (1 .. n) /\ \A k \in P : s[k] \in Entries /\ s[k].score > 0
  BY <1>1
<1>3. \A k \in 1 .. n : s[k].score > 0 => k \in P
  BY <1>1
<1>4. q = Picked(s, P)
  BY DEF Scoring
<1> HIDE DEF P, q, n
<1>5. /\ q \in Seq(Entries) /\ Len(q) = Cardinality(P) /\ Cardinality(P) \in 0 .. n
      /\ \E g : Through(g, Cardinality(P), P) /\ Along(q, s, g)
  BY <1>1, <1>2, <1>4, PickedIs
<1>6. PICK g : Through(g, Cardinality(P), P) /\ Along(q, s, g)
  BY <1>5
<1> DEFINE m == Len(q)
<1>7. m = Cardinality(P) /\ m \in Nat /\ g \in [1 .. m -> P] /\ \A i \in 1 .. m : q[i] = s[g[i]]
  BY <1>5, <1>6 DEF Through, Along
<1> HIDE DEF m
<1>8. ASSUME NEW i \in 1 .. m
      PROVE  /\ g[i] \in 1 .. n /\ q[i] = s[g[i]] /\ q[i].id \in InScope /\ q[i].score > 0
  <2>1. g[i] \in P /\ g[i] \in 1 .. n /\ q[i] = s[g[i]]
    BY <1>2, <1>7
  <2> QED
    BY <1>2, <2>1 DEF Good, n
<1>9. ASSUME NEW i \in 1 .. m, NEW j \in 1 .. m, q[i].id = q[j].id PROVE i = j
  <2>1. g[i] = g[j]
    BY <1>8, <1>9 DEF Good, n
  <2>2. g[i] \in Nat /\ ~(g[i] < g[j]) /\ ~(g[j] < g[i])
    BY <1>8, <2>1
  <2>3. ~(i < j) /\ ~(j < i)
    BY <1>6, <1>7, <2>2 DEF Through
  <2> QED
    BY <1>7, <2>3
<1>10. Good(q) /\ Positive(q)
  BY <1>5, <1>8, <1>9 DEF Good, Positive, m
<1>11. ASSUME Everything(s) PROVE Complete(q)
  <2>1. ASSUME NEW i \in 1 .. m PROVE q[i].id \in Matches /\ q[i].score = Worth(q[i].id)
    <3>1. q[i].score = Worth(q[i].id)
      BY <1>8, <1>11 DEF Everything, n
    <3> QED
      BY <1>8, <3>1 DEF Matches
  <2>2. ASSUME NEW k \in Matches PROVE \E i \in 1 .. m : q[i].id = k
    <3>1. k \in InScope /\ Worth(k) > 0
      BY DEF Matches
    <3>2. PICK l \in 1 .. n : s[l].id = k /\ s[l].score = Worth(k)
      BY <1>11, <3>1 DEF Everything, n
    <3>3. l \in P
      BY <1>3, <3>1, <3>2
    <3>4. PICK i \in 1 .. m : g[i] = l
      BY <1>6, <1>7, <3>3 DEF Through
    <3> QED
      BY <1>8, <3>2, <3>4
  <2> QED
    BY <2>1, <2>2 DEF Complete, m
<1> QED
  BY <1>10, <1>11 DEF q

\* p takes the places of r to the places of q it has its entries from.
Permutes(p, r, q) ==
  /\ p \in [1 .. Len(q) -> 1 .. Len(q)]
  /\ \A i, j \in 1 .. Len(q) : p[i] = p[j] => i = j
  /\ \A k \in 1 .. Len(q) : \E i \in 1 .. Len(q) : p[i] = k
  /\ \A i \in 1 .. Len(q) : r[i] = q[p[i]]

\* Sorting by score gives a falling sequence of the same entries.
LEMMA ByScoreIs ==
  ASSUME NEW q \in Seq(Entries)
  PROVE  /\ ByScore(q) \in Seq(Entries) /\ Len(ByScore(q)) = Len(q) /\ Len(q) \in Nat /\ Falling(ByScore(q))
         /\ \E p : Permutes(p, ByScore(q), q)
<1> DEFINE n == Len(q)
           rank == [k \in DOMAIN q |-> q[k].score]
           r == ByScore(q)
<1>1. n \in Nat /\ DOMAIN q = 1 .. n
  OBVIOUS
<1>2. \A i \in 1 .. n : q[i] \in Entries /\ q[i].score \in Nat
  <2>1. \A i \in 1 .. n : q[i] \in Entries
    OBVIOUS
  <2> QED
    BY <2>1 DEF Entries
<1>3. rank \in [1 .. n -> Nat]
  BY <1>1, <1>2
<1>4. r = Ranked(q, rank)
  BY DEF ByScore
<1>5. \A i \in 1 .. n : rank[i] = q[i].score
  BY <1>1
<1> HIDE DEF rank, r
<1>6. r \in Seq(Entries) /\ Len(r) = n /\ \E p : Sorts(p, n, rank) /\ Along(r, q, p)
  BY <1>3, <1>4, RankedIs
<1>7. PICK p : Sorts(p, n, rank) /\ Along(r, q, p)
  BY <1>6
<1>8. \A i \in 1 .. n : p[i] \in 1 .. n /\ r[i] = q[p[i]]
  BY <1>6, <1>7 DEF Sorts, Along
<1>9. Permutes(p, r, q)
  BY <1>7, <1>8 DEF Permutes, Sorts
<1>10. Falling(r)
  <2>1. SUFFICES ASSUME NEW i \in 1 .. n, NEW j \in 1 .. n, i < j PROVE r[i].score >= r[j].score
    BY <1>6 DEF Falling
  <2>2. rank[p[i]] > rank[p[j]] \/ rank[p[i]] = rank[p[j]]
    BY <1>7, <2>1 DEF Sorts, Outranks
  <2>3. rank[p[i]] = r[i].score /\ rank[p[j]] = r[j].score /\ rank[p[i]] \in Nat /\ rank[p[j]] \in Nat
    BY <1>3, <1>5, <1>8
  <2> QED
    BY <2>2, <2>3
<1> QED
  BY <1>1, <1>6, <1>9, <1>10 DEF r

\* What one query finds, and that it finds all within the cap.
LEMMA FoundByIs ==
  ASSUME passages \in Seq(Passages), weights \in Weights, NEW q \in Probes
  PROVE  /\ \A e \in FoundBy(q) : e.id \in InScope /\ e.score \in 0 .. Nearest /\ e.score = passages[e.id].vector[q]
         /\ Len(passages) <= Pool =>
              \A i \in InScope : \E e \in FoundBy(q) : e.id = i /\ e.score = passages[i].vector[q]
<1> DEFINE near == Newest(InScope)
           rank == [k \in DOMAIN near |-> passages[near[k]].vector[q]]
           best == Cut(Ranked(near, rank), Pool)
<1>1. AllOf(near, InScope) /\ Len(near) \in 0 .. Len(passages) /\ Len(passages) \in Nat
  BY TableIs, NewestIs
<1>2. \A i \in InScope : passages[i].vector[q] \in 0 .. Nearest /\ passages[i].vector[q] \in Nat
  <2>1. \A i \in InScope : passages[i].vector \in [Probes -> 0 .. Nearest]
    BY TableIs
  <2> QED
    BY <2>1
<1>3. near \in Seq(InScope) /\ DOMAIN near = 1 .. Len(near)
  BY <1>1 DEF AllOf, Names
<1>4. rank \in [1 .. Len(near) -> Nat]
  BY <1>2, <1>3
<1>5. Pool \in Nat
  BY PoolAssumption
<1>6. FoundBy(q) = {Entry(i, passages[i].vector[q]) : i \in ToSet(best)}
  BY DEF FoundBy
<1> HIDE DEF near, rank
<1>7. Names(near, InScope)
  BY <1>1 DEF AllOf
<1>8. Names(best, InScope) /\ (AllOf(near, InScope) /\ Len(near) <= Pool => AllOf(best, InScope))
  BY <1>4, <1>5, <1>7, BestIs
<1> HIDE DEF best
<1>9. ToSet(best) \subseteq InScope /\ (Len(passages) <= Pool => InScope \subseteq ToSet(best))
  <2>1. best \in Seq(InScope) /\ DOMAIN best = 1 .. Len(best)
    BY <1>8 DEF Names
  <2>2. ToSet(best) = {best[k] : k \in 1 .. Len(best)}
    BY <2>1 DEF ToSet
  <2>3. Len(passages) <= Pool => \A k \in InScope : \E i \in 1 .. Len(best) : best[i] = k
    BY <1>1, <1>5, <1>8 DEF AllOf
  <2> QED
    BY <2>1, <2>2, <2>3
<1>10. ASSUME NEW i \in InScope
       PROVE  Entry(i, passages[i].vector[q]).id = i /\ Entry(i, passages[i].vector[q]).score = passages[i].vector[q]
  BY DEF Entry
<1> QED
  BY <1>2, <1>6, <1>9, <1>10

\* The same entries in another order.
LEMMA SortGood ==
  ASSUME NEW s, Good(s)
  PROVE  /\ Good(ByScore(s)) /\ Len(ByScore(s)) = Len(s)
         /\ \A i \in 1 .. Len(s) : \E j \in 1 .. Len(s) : ByScore(s)[i] = s[j]
         /\ \A j \in 1 .. Len(s) : \E i \in 1 .. Len(s) : ByScore(s)[i] = s[j]
<1> DEFINE r == ByScore(s)
           n == Len(s)
<1>1. s \in Seq(Entries)
  BY DEF Good
<1>2. r \in Seq(Entries) /\ Len(r) = n /\ n \in Nat /\ \E p : Permutes(p, r, s)
  BY <1>1, ByScoreIs
<1> HIDE DEF r
<1>3. PICK p : Permutes(p, r, s)
  BY <1>2
<1>4. /\ \A i \in 1 .. n : p[i] \in 1 .. n /\ r[i] = s[p[i]]
      /\ \A i, j \in 1 .. n : p[i] = p[j] => i = j
      /\ \A k \in 1 .. n : \E i \in 1 .. n : p[i] = k
  BY <1>3 DEF Permutes
<1>5. ASSUME NEW i \in 1 .. n, NEW j \in 1 .. n, r[i].id = r[j].id PROVE i = j
  <2>1. p[i] \in 1 .. n /\ p[j] \in 1 .. n /\ s[p[i]].id = s[p[j]].id
    BY <1>4, <1>5
  <2>2. p[i] = p[j]
    BY <2>1 DEF Good
  <2> QED
    BY <1>4, <2>2
<1>6. \A i \in 1 .. n : r[i].id \in InScope
  BY <1>4 DEF Good
<1>7. Good(r)
  BY <1>2, <1>5, <1>6 DEF Good
<1>8. ASSUME NEW j \in 1 .. n PROVE \E i \in 1 .. n : r[i] = s[j]
  <2>1. PICK i \in 1 .. n : p[i] = j
    BY <1>4
  <2> QED
    BY <1>4, <2>1
<1>9. \A i \in 1 .. n : \E j \in 1 .. n : r[i] = s[j]
  BY <1>4
<1> QED
  BY <1>2, <1>7, <1>8, <1>9 DEF r

AllHits == UNION {FoundBy(q) : q \in Probes}

\* The search of the vectors finds chunks of the scope, none twice; within the cap it finds
\* all of them, each as near as it is at best.
LEMMA VectorsAre ==
  ASSUME passages \in Seq(Passages), weights \in Weights
  PROVE  /\ Good(VectorCandidates)
         /\ Len(passages) <= Pool =>
              /\ \A i \in 1 .. Len(VectorCandidates) : VectorCandidates[i].score = Closest(VectorCandidates[i].id)
              /\ \A k \in InScope : \E i \in 1 .. Len(VectorCandidates) : VectorCandidates[i].id = k
<1> DEFINE I == {e.id : e \in AllHits}
           ids == Newest(I)
           n == Len(ids)
           t == [k \in DOMAIN ids |-> Entry(ids[k], BestOf(AllHits, ids[k]))]
           v == VectorCandidates
<1>1. \A e \in AllHits : e.id \in InScope /\ e.score \in 0 .. Nearest
  BY FoundByIs DEF AllHits
<1>2. I \in SUBSET (1 .. Len(passages)) /\ I \subseteq InScope /\ Len(passages) \in Nat
  BY <1>1, TableIs
<1>3. AllOf(ids, I)
  BY <1>2, NewestIs
<1>4. v = ByScore(t)
  BY DEF VectorCandidates, AllHits
<1>5. ASSUME NEW i \in I PROVE BestOf(AllHits, i) \in Nat /\ i \in InScope
  <2> DEFINE X == {e.score : e \in {hit \in AllHits : hit.id = i}}
  <2>1. X \in SUBSET (0 .. Nearest) /\ X # {}
    BY <1>1
  <2>2. BestOf(AllHits, i) = Max(X)
    BY DEF BestOf
  <2> HIDE DEF X
  <2> QED
    BY <1>2, <2>1, <2>2, BestScore
<1>6. ASSUME Len(passages) <= Pool PROVE InScope \subseteq I /\ \A i \in I : BestOf(AllHits, i) = Closest(i)
  <2>1. ASSUME NEW i \in InScope, NEW q \in Probes
        PROVE  \E e \in AllHits : e.id = i /\ e.score = passages[i].vector[q]
    BY <1>6, FoundByIs DEF AllHits
  <2>2. InScope \subseteq I
    BY <2>1, ProbeAssumption
  <2>3. ASSUME NEW i \in I PROVE BestOf(AllHits, i) = Closest(i)
    <3>1. i \in InScope
      BY <1>2
    <3>2. ASSUME NEW e \in AllHits, e.id = i PROVE \E q \in Probes : e.score = passages[i].vector[q]
      <4>1. PICK q \in Probes : e \in FoundBy(q)
        BY DEF AllHits
      <4> QED
        BY <3>2, <4>1, FoundByIs
    <3>3. {e.score : e \in {hit \in AllHits : hit.id = i}} = {passages[i].vector[q] : q \in Probes}
      BY <2>1, <3>1, <3>2
    <3> QED
      BY <3>3 DEF BestOf, Closest
  <2> QED
    BY <2>2, <2>3
<1> HIDE DEF I, ids
<1>7. ids \in Seq(I) /\ n \in Nat /\ DOMAIN ids = 1 .. n
  BY <1>3 DEF AllOf, Names
<1>8. \A i \in 1 .. n : t[i] = Entry(ids[i], BestOf(AllHits, ids[i])) /\ ids[i] \in I
  BY <1>7
<1>9. ASSUME NEW i \in 1 .. n
      PROVE  /\ t[i] \in Entries /\ t[i].id = ids[i] /\ t[i].score = BestOf(AllHits, ids[i])
             /\ ids[i] \in InScope /\ ids[i] \in I
  <2>1. PICK b : b = BestOf(AllHits, ids[i])
    OBVIOUS
  <2>2. b \in Nat /\ ids[i] \in InScope /\ ids[i] \in I /\ t[i] = Entry(ids[i], b)
    BY <1>5, <1>8, <2>1
  <2> QED
    BY <2>1, <2>2, EntryIs
<1>10. t \in Seq(Entries) /\ Len(t) = n
  BY <1>7, <1>9
<1> HIDE DEF t, n
<1>11. Good(t)
  <2>1. \A i, j \in 1 .. n : ids[i] = ids[j] => i = j
    BY <1>3 DEF AllOf, Names, n
  <2> QED
    BY <1>9, <1>10, <2>1 DEF Good
<1>12. /\ Good(v) /\ Len(v) = n
       /\ \A i \in 1 .. n : \E j \in 1 .. n : v[i] = t[j]
       /\ \A j \in 1 .. n : \E i \in 1 .. n : v[i] = t[j]
  BY <1>4, <1>10, <1>11, SortGood
<1> HIDE DEF v
<1>13. ASSUME Len(passages) <= Pool, NEW i \in 1 .. n PROVE v[i].score = Closest(v[i].id)
  <2>1. PICK j \in 1 .. n : v[i] = t[j]
    BY <1>12
  <2>2. BestOf(AllHits, ids[j]) = Closest(ids[j])
    BY <1>6, <1>9, <1>13
  <2> QED
    BY <1>9, <2>1, <2>2
<1>14. ASSUME Len(passages) <= Pool, NEW k \in InScope PROVE \E i \in 1 .. n : v[i].id = k
  <2>1. PICK j \in 1 .. n : ids[j] = k
    BY <1>3, <1>6, <1>14 DEF AllOf, n
  <2>2. PICK i \in 1 .. n : v[i] = t[j]
    BY <1>12
  <2> QED
    BY <1>9, <2>1, <2>2
<1> QED
  BY <1>12, <1>13, <1>14 DEF v

LEMMA KeywordsAre ==
  ASSUME passages \in Seq(Passages)
  PROVE  Names(KeywordCandidates, Worded)
<1> DEFINE all   == Newest(Worded)
           found == Cut(all, 4 * Pool)
           rank  == [k \in DOMAIN found |-> passages[found[k]].keyword]
<1>1. AllOf(all, Worded)
  BY TableIs, NewestIs
<1>2. Pool \in Nat /\ 4 * Pool \in Nat
  BY PoolAssumption
<1> HIDE DEF all
<1>3. Names(found, Worded)
  BY <1>1, <1>2, NamesCut DEF AllOf
<1>4. found \in Seq(Worded) /\ DOMAIN found = 1 .. Len(found)
  BY <1>3 DEF Names
<1> HIDE DEF found
<1>5. rank \in [1 .. Len(found) -> Nat]
  BY <1>4, TableIs
<1>6. KeywordCandidates = Cut(Ranked(found, rank), Pool)
  BY DEF KeywordCandidates, Worded, found, all
<1> HIDE DEF rank
<1> QED
  BY <1>2, <1>3, <1>5, <1>6, BestIs

\* The first part of what is merged.
OfVectors(v) == [k \in DOMAIN v |-> Entry(v[k].id, Score(v[k].score, passages[v[k].id].keyword))]

\* The entries of the vectors.
LEMMA OfVectorsIs ==
  ASSUME passages \in Seq(Passages), weights \in Weights, NEW v, Good(v)
  PROVE  /\ Good(OfVectors(v)) /\ Len(OfVectors(v)) = Len(v) /\ Len(v) \in Nat
         /\ \A i \in 1 .. Len(v) :
              /\ OfVectors(v)[i].id = v[i].id
              /\ OfVectors(v)[i].score = Score(v[i].score, passages[v[i].id].keyword)
<1> DEFINE q == OfVectors(v)
<1>1. v \in Seq(Entries) /\ DOMAIN v = 1 .. Len(v) /\ Len(v) \in Nat
  BY DEF Good
<1>2. q = [k \in 1 .. Len(v) |-> Entry(v[k].id, Score(v[k].score, passages[v[k].id].keyword))]
  BY <1>1 DEF OfVectors
<1> HIDE DEF q
<1>3. ASSUME NEW i \in 1 .. Len(v)
      PROVE  /\ q[i] \in Entries /\ q[i].id = v[i].id /\ v[i].id \in InScope
             /\ q[i].score = Score(v[i].score, passages[v[i].id].keyword)
  <2>1. v[i] \in Entries /\ v[i].id \in InScope
    BY <1>1 DEF Good
  <2>2. v[i].score \in Nat /\ passages[v[i].id].keyword \in Nat
    BY <2>1, EntryIs, TableIs DEF Entries
  <2>3. Score(v[i].score, passages[v[i].id].keyword) \in Nat
    BY <2>2, ScoreIs
  <2>4. q[i] = Entry(v[i].id, Score(v[i].score, passages[v[i].id].keyword))
    BY <1>2
  <2> QED
    BY <2>1, <2>3, <2>4, EntryIs
<1>4. q \in Seq(Entries) /\ Len(q) = Len(v)
  BY <1>1, <1>2, <1>3
<1>5. \A i, j \in 1 .. Len(v) : q[i].id = q[j].id => i = j
  BY <1>3 DEF Good
<1>6. Good(q)
  BY <1>3, <1>4, <1>5 DEF Good
<1> QED
  BY <1>1, <1>3, <1>4, <1>6 DEF q

\* What the keywords alone found.
LEMMA KeywordsOnlyIs ==
  ASSUME passages \in Seq(Passages), weights \in Weights, NEW v, Good(v), NEW w, Names(w, Worded)
  PROVE  LET q == KeywordsOnly(v, w)
         IN Good(q) /\ \A i \in 1 .. Len(q) : \A j \in 1 .. Len(v) : v[j].id # q[i].id
<1> DEFINE known == {v[k].id : k \in DOMAIN v}
           P == {k \in DOMAIN w : w[k] \notin known}
           fresh == Picked(w, P)
           q == KeywordsOnly(v, w)
<1>1. w \in Seq(Worded) /\ DOMAIN w = 1 .. Len(w) /\ Len(w) \in Nat /\ DOMAIN v = 1 .. Len(v)
  BY DEF Names, Good
<1>2. P \in SUBSET (1 .. Len(w))
  BY <1>1
<1>3. \A k \in P : \A j \in 1 .. Len(v) : v[j].id # w[k]
  BY <1>1
<1> HIDE DEF P
<1>4. /\ fresh \in Seq(Worded) /\ Len(fresh) = Cardinality(P) /\ Cardinality(P) \in 0 .. Len(w)
      /\ \E g : Through(g, Cardinality(P), P) /\ Along(fresh, w, g)
  <2>1. \A k \in P : w[k] \in Worded
    BY <1>1, <1>2
  <2> QED
    BY <1>1, <1>2, <2>1, PickedIs
<1>5. q = [k \in DOMAIN fresh |-> Entry(fresh[k], Score(0, passages[fresh[k]].keyword))]
  BY DEF KeywordsOnly, P
<1> HIDE DEF fresh, q, known
<1>6. PICK g : Through(g, Cardinality(P), P) /\ Along(fresh, w, g)
  BY <1>4
<1> DEFINE m == Len(fresh)
<1>7. m \in Nat /\ DOMAIN fresh = 1 .. m
  BY <1>4
<1>8. ASSUME NEW i \in 1 .. m PROVE g[i] \in P /\ g[i] \in 1 .. Len(w) /\ fresh[i] = w[g[i]] /\ fresh[i] \in Worded
  <2>1. i \in 1 .. Cardinality(P)
    BY <1>4
  <2>2. g[i] \in P
    BY <1>6, <2>1 DEF Through
  <2>3. fresh[i] = w[g[i]]
    BY <1>6 DEF Along
  <2>4. fresh[i] \in Worded
    BY <1>4
  <2> QED
    BY <1>2, <2>2, <2>3, <2>4
<1>9. ASSUME NEW i \in 1 .. m
      PROVE  q[i] \in Entries /\ q[i].id = fresh[i] /\ q[i].id \in InScope
  <2>1. fresh[i] \in Worded /\ fresh[i] \in InScope /\ fresh[i] \in 1 .. Len(passages)
    BY <1>8, EntryIs
  <2>2. passages[fresh[i]].keyword \in Nat
    BY <2>1, TableIs
  <2>3. Score(0, passages[fresh[i]].keyword) \in Nat
    BY <2>2, ScoreIs
  <2>4. q[i] = Entry(fresh[i], Score(0, passages[fresh[i]].keyword))
    BY <1>5, <1>7
  <2> QED
    BY <2>1, <2>3, <2>4, EntryIs
<1>10. q \in Seq(Entries) /\ Len(q) = m
  BY <1>5, <1>7, <1>9
<1>11. ASSUME NEW i \in 1 .. m, NEW j \in 1 .. m, q[i].id = q[j].id PROVE i = j
  <2>1. w[g[i]] = w[g[j]] /\ g[i] \in 1 .. Len(w) /\ g[j] \in 1 .. Len(w)
    BY <1>8, <1>9, <1>11
  <2>2. g[i] = g[j]
    BY <2>1 DEF Names
  <2>3. ~(i < j) /\ ~(j < i)
    <3>1. g[i] \in Nat /\ g[j] \in Nat
      BY <2>1
    <3>2. ~(g[i] < g[j]) /\ ~(g[j] < g[i])
      BY <2>2, <3>1
    <3> QED
      BY <1>4, <1>6, <3>2 DEF Through
  <2> QED
    BY <1>7, <2>3
<1>12. Good(q)
  BY <1>9, <1>10, <1>11 DEF Good
<1>13. ASSUME NEW i \in 1 .. m, NEW j \in 1 .. Len(v) PROVE v[j].id # q[i].id
  BY <1>3, <1>8, <1>9
<1> HIDE DEF m
<1> QED
  BY <1>10, <1>12, <1>13 DEF q

\* Merging names each chunk of the scope once, and all that are worth something if the vectors
\* named them all.
LEMMA MergedIs ==
  ASSUME passages \in Seq(Passages), weights \in Weights, NEW v, Good(v), NEW w, Names(w, Worded)
  PROVE  /\ Good(Merged(v, w)) /\ Positive(Merged(v, w))
         /\ (\A i \in 1 .. Len(v) : v[i].score = Closest(v[i].id))
            /\ (\A k \in InScope : \E i \in 1 .. Len(v) : v[i].id = k) => Complete(Merged(v, w))
<1> DEFINE a == OfVectors(v)
           b == KeywordsOnly(v, w)
           q == a \o b
           n == Len(v)
<1>1. Merged(v, w) = Scoring(q)
  BY DEF Merged, OfVectors
<1>2. /\ Good(a) /\ Len(a) = n /\ n \in Nat
      /\ \A i \in 1 .. n : a[i].id = v[i].id /\ a[i].score = Score(v[i].score, passages[v[i].id].keyword)
  BY OfVectorsIs
<1>3. Good(b) /\ \A i \in 1 .. Len(b) : \A j \in 1 .. n : v[j].id # b[i].id
  BY KeywordsOnlyIs
<1> HIDE DEF a, b
<1>4. /\ a \in Seq(Entries) /\ b \in Seq(Entries) /\ Len(b) \in Nat
      /\ q \in Seq(Entries) /\ Len(q) = n + Len(b)
      /\ \A i \in 1 .. Len(q) : IF i <= n THEN q[i] = a[i] /\ i \in 1 .. n ELSE q[i] = b[i - n] /\ i - n \in 1 .. Len(b)
  <2>1. a \in Seq(Entries) /\ b \in Seq(Entries) /\ Len(b) \in Nat
    BY <1>2, <1>3 DEF Good
  <2>2. Len(a) = n /\ n \in Nat
    BY <1>2
  <2> HIDE DEF n
  <2>3. q \in Seq(Entries) /\ Len(q) = n + Len(b)
    BY <2>1, <2>2
  <2>4. \A i \in 1 .. n + Len(b) : q[i] = IF i <= n THEN a[i] ELSE b[i - n]
    BY <2>1, <2>2
  <2> HIDE DEF q
  <2>5. \A i \in 1 .. n + Len(b) : IF i <= n THEN i \in 1 .. n ELSE i - n \in 1 .. Len(b)
    BY <2>1, <2>2
  <2> QED
    BY <2>1, <2>3, <2>4, <2>5
<1> HIDE DEF q, n
<1>6. \A i \in 1 .. Len(q) : q[i].id \in InScope
  BY <1>2, <1>3, <1>4 DEF Good
<1>7. ASSUME NEW i \in 1 .. Len(q), NEW j \in 1 .. Len(q), q[i].id = q[j].id PROVE i = j
  <2>1. CASE i <= n /\ j <= n
    <3>1. i \in 1 .. n /\ j \in 1 .. n /\ q[i] = a[i] /\ q[j] = a[j]
      BY <1>4, <1>7, <2>1
    <3>2. i \in 1 .. Len(a) /\ j \in 1 .. Len(a) /\ a[i].id = a[j].id
      BY <1>2, <1>7, <3>1
    <3> QED
      BY <1>2, <3>2 DEF Good
  <2>2. CASE i <= n /\ ~(j <= n)
    <3>1. i \in 1 .. n /\ j - n \in 1 .. Len(b) /\ q[i] = a[i] /\ q[j] = b[j - n]
      BY <1>4, <2>2
    <3>2. v[i].id = b[j - n].id
      BY <1>2, <1>7, <3>1
    <3> QED
      BY <1>3, <3>1, <3>2
  <2>3. CASE ~(i <= n) /\ j <= n
    <3>1. j \in 1 .. n /\ i - n \in 1 .. Len(b) /\ q[j] = a[j] /\ q[i] = b[i - n]
      BY <1>4, <2>3
    <3>2. v[j].id = b[i - n].id
      BY <1>2, <1>7, <3>1
    <3> QED
      BY <1>3, <3>1, <3>2
  <2>4. CASE ~(i <= n) /\ ~(j <= n)
    <3>1. i - n \in 1 .. Len(b) /\ j - n \in 1 .. Len(b) /\ b[i - n].id = b[j - n].id
      BY <1>4, <1>7, <2>4
    <3>2. i - n = j - n
      BY <1>3, <3>1 DEF Good
    <3> QED
      BY <1>2, <3>2
  <2> QED
    BY <2>1, <2>2, <2>3, <2>4
<1>8. Good(q)
  BY <1>4, <1>6, <1>7 DEF Good
<1>9. ASSUME \A i \in 1 .. n : v[i].score = Closest(v[i].id), \A k \in InScope : \E i \in 1 .. n : v[i].id = k
      PROVE  Everything(q)
  <2>1. ASSUME NEW i \in 1 .. Len(q) PROVE q[i].score = Worth(q[i].id)
    <3>1. i <= n
      <4>1. SUFFICES ASSUME ~(i <= n) PROVE FALSE
        OBVIOUS
      <4>2. i - n \in 1 .. Len(b) /\ q[i] = b[i - n]
        BY <1>4, <4>1
      <4>3. PICK j \in 1 .. n : v[j].id = q[i].id
        BY <1>6, <1>9
      <4> QED
        BY <1>3, <4>2, <4>3
    <3>2. i \in 1 .. n /\ q[i] = a[i]
      BY <1>4, <3>1
    <3> QED
      BY <1>2, <1>9, <3>2 DEF Worth
  <2>2. ASSUME NEW k \in InScope PROVE \E i \in 1 .. Len(q) : q[i].id = k
    <3>1. PICK j \in 1 .. n : v[j].id = k
      BY <1>9
    <3>2. j \in 1 .. Len(q) /\ j <= n
      BY <1>2, <1>4
    <3> QED
      BY <1>2, <1>4, <3>1, <3>2
  <2> QED
    BY <2>1, <2>2 DEF Everything
<1>10. Good(Scoring(q)) /\ Positive(Scoring(q)) /\ (Everything(q) => Complete(Scoring(q)))
  BY <1>8, ScoringIs
<1> QED
  BY <1>1, <1>9, <1>10 DEF n

\* The rows that are read from SQLite, scored.
ScoredRows  == [k \in DOMAIN FallbackRows |-> Entry(FallbackRows[k], Worth(FallbackRows[k]))]
MatchedRows == Scoring(ScoredRows)

\* The fallback names each chunk of the scope once, and all that are worth something if it
\* read them all.
LEMMA MatchedRowsAre ==
  ASSUME passages \in Seq(Passages), weights \in Weights
  PROVE  /\ Good(MatchedRows) /\ Positive(MatchedRows)
         /\ Len(passages) <= FallbackMax => Complete(MatchedRows)
<1> DEFINE all  == Newest(InScope)
           rows == FallbackRows
           n == Len(rows)
<1>1. AllOf(all, InScope) /\ Len(all) \in 0 .. Len(passages) /\ Len(passages) \in Nat
  BY TableIs, NewestIs
<1>2. FallbackMax \in Nat /\ rows = Cut(all, FallbackMax)
  BY PoolAssumption DEF FallbackRows
<1> HIDE DEF all, rows
<1>3. Names(rows, InScope) /\ (AllOf(all, InScope) /\ Len(all) <= FallbackMax => AllOf(rows, InScope))
  BY <1>1, <1>2, NamesCut DEF AllOf
<1>4. rows \in Seq(InScope) /\ DOMAIN rows = 1 .. n /\ n \in Nat
  BY <1>3 DEF Names
<1>5. ScoredRows = [k \in DOMAIN rows |-> Entry(rows[k], Worth(rows[k]))]
  BY DEF ScoredRows, rows
<1>6. \A i \in 1 .. n : rows[i] \in InScope /\ Worth(rows[i]) \in Nat
  BY <1>4, EntryIs
<1>7. \A i \in 1 .. n : ScoredRows[i] = Entry(rows[i], Worth(rows[i]))
  BY <1>4, <1>5
<1>8. \A i \in 1 .. n : ScoredRows[i] \in Entries /\ ScoredRows[i].id = rows[i] /\ ScoredRows[i].score = Worth(rows[i])
  BY <1>6, <1>7, EntryIs
<1>9. ScoredRows \in Seq(Entries) /\ Len(ScoredRows) = n
  BY <1>4, <1>5, <1>8
<1>10. Good(ScoredRows)
  <2>1. \A i, j \in 1 .. n : rows[i] = rows[j] => i = j
    BY <1>3 DEF Names
  <2>2. \A i \in 1 .. n : ScoredRows[i].id \in InScope
    BY <1>6, <1>8
  <2>3. \A i, j \in 1 .. n : ScoredRows[i].id = ScoredRows[j].id => i = j
    BY <1>8, <2>1
  <2> QED
    BY <1>9, <2>2, <2>3 DEF Good
<1>11. ASSUME Len(passages) <= FallbackMax PROVE Everything(ScoredRows)
  <2>1. AllOf(rows, InScope)
    BY <1>1, <1>2, <1>3, <1>11
  <2> QED
    BY <1>8, <1>9, <2>1 DEF Everything, AllOf
<1> QED
  BY <1>10, <1>11, ScoringIs DEF MatchedRows

----
(* Sorting by score, and leaving out what says the same *)

Keeping(r) == [p \in Seq(Entries) \X (1 .. Len(r)) |-> Kept(p[1], r[p[2]])]

\* diversify_candidates as a step of a trace.
LEMMA KeepingIs ==
  ASSUME NEW r \in Seq(Entries)
  PROVE  /\ Closed(Keeping(r), Len(r), Seq(Entries))
         /\ \A a \in Seq(Entries), k \in 1 .. Len(r) : Keeping(r)[<<a, k>>] = Kept(a, r[k])
<1>1. \A k \in 1 .. Len(r) : r[k] \in Entries
  OBVIOUS
<1>2. \A a \in Seq(Entries), k \in 1 .. Len(r) : Keeping(r)[<<a, k>>] = Kept(a, r[k])
  BY DEF Keeping
<1>3. ASSUME NEW a \in Seq(Entries), NEW x \in Entries PROVE Kept(a, x) \in Seq(Entries)
  <2>1. Append(a, x) \in Seq(Entries)
    OBVIOUS
  <2> QED
    BY <2>1 DEF Kept
<1> QED
  BY <1>1, <1>2, <1>3 DEF Closed

\* What is kept of the first k, for every k.
LEMMA KeptTrace ==
  ASSUME NEW r \in Seq(Entries)
  PROVE  \E f : Makes(f, Len(r), Seq(Entries), <<>>, Keeping(r), FoldLeft(Kept, <<>>, r))
<1> DEFINE n == Len(r)
           T == Seq(Entries)
           step == Keeping(r)
<1>1. n \in Nat /\ DOMAIN r = 1 .. n
  OBVIOUS
<1>2. Closed(step, n, T)
  BY KeepingIs
<1>3. \A a \in T, k \in 1 .. n : step[<<a, k>>] = Kept(a, r[k])
  BY KeepingIs
<1>0. <<>> \in T
  OBVIOUS
<1> HIDE DEF n, step, T
<1>4. PICK it \in [SUBSET (1 .. n) -> T] : Iterates(it, n, <<>>, step)
  BY <1>0, <1>1, <1>2, IterExists
<1>5. ASSUME NEW x \in SUBSET (1 .. n), x # {} PROVE Max(x) \in 1 .. n /\ x \ {Max(x)} \in SUBSET (1 .. n)
  BY <1>1, <1>5, MaxIn
<1>6. it = [x \in SUBSET DOMAIN r |-> IF x = {} THEN <<>> ELSE Kept(it[x \ {Max(x)}], r[Max(x)])]
  BY <1>1, <1>3, <1>4, <1>5 DEF Iterates
<1>7. \E h : FoldLeft(Kept, <<>>, r) = h[DOMAIN r] /\
             h = [x \in SUBSET DOMAIN r |-> IF x = {} THEN <<>> ELSE Kept(h[x \ {Max(x)}], r[Max(x)])]
  BY <1>6 DEF FoldLeft, MapThenFoldSet
<1>8. PICK h : FoldLeft(Kept, <<>>, r) = h[DOMAIN r] /\
             h = [x \in SUBSET DOMAIN r |-> IF x = {} THEN <<>> ELSE Kept(h[x \ {Max(x)}], r[Max(x)])]
  BY <1>7
<1>9. h[{}] = <<>> /\ \A x \in SUBSET (1 .. n) : x # {} => h[x] = Kept(h[x \ {Max(x)}], r[Max(x)])
  BY <1>1, <1>8
<1>10. Recurs(h, n, T, <<>>, step)
  BY <1>3, <1>5, <1>9 DEF Recurs
<1>11. \E f : Makes(f, n, T, <<>>, step, h[1 .. n])
  BY <1>0, <1>1, <1>2, <1>10, IterTrace
<1> QED
  BY <1>1, <1>8, <1>11 DEF n, step, T

Words(x) == passages[x.id].words

\* What is kept of the first k of r are the entries at the places e.
Trims(e, kept, r, k) ==
  /\ kept \in Seq(Entries) /\ Len(kept) <= Pool
  /\ e \in [1 .. Len(kept) -> 1 .. k]
  /\ \A i, j \in 1 .. Len(kept) : i < j => e[i] < e[j]
  /\ \A i \in 1 .. Len(kept) : kept[i] = r[e[i]]

\* No two of them say the same.
Unlike(kept) ==
  \A i, j \in 1 .. Len(kept) : i # j /\ Words(kept[i]) = Words(kept[j]) => Words(kept[i]) = Short

\* y says what x says, with no worse a score.
StandsFor(y, x) == y = x \/ (Words(y) = Words(x) /\ Words(x) # Short /\ y.score >= x.score)

\* Each of the first k is there or stood for, unless the pool was full before.
Covering(kept, r, k) ==
  \A l \in 1 .. k : Pool < l \/ \E i \in 1 .. Len(kept) : StandsFor(kept[i], r[l])

TrimOK(kept, r, k) == (\E e : Trims(e, kept, r, k)) /\ Unlike(kept) /\ Covering(kept, r, k)

\* The trace of diversify_candidates begins at an empty list.
LEMMA TrimStart ==
  ASSUME NEW r
  PROVE  TrimOK(<<>>, r, 0)
<1>1. <<>> \in Seq(Entries) /\ Len(<<>>) = 0
  OBVIOUS
<1>2. [i \in {} |-> 0] \in [1 .. 0 -> 1 .. 0]
  OBVIOUS
<1>3. \E e : e \in [1 .. 0 -> 1 .. 0]
  BY <1>2
<1>4. PICK e : e \in [1 .. 0 -> 1 .. 0]
  BY <1>3
<1>5. 0 <= Pool
  BY PoolAssumption
<1>6. Trims(e, <<>>, r, 0)
  BY <1>1, <1>4, <1>5 DEF Trims
<1>7. Unlike(<<>>) /\ Covering(<<>>, r, 0)
  BY <1>1 DEF Unlike, Covering
<1> QED
  BY <1>6, <1>7 DEF TrimOK

\* The turn of one entry.
LEMMA TrimStep ==
  ASSUME NEW r \in Seq(Entries), Falling(r), NEW k \in 1 .. Len(r), NEW kept, TrimOK(kept, r, k - 1)
  PROVE  TrimOK(Kept(kept, r[k]), r, k)
<1>1. PICK e : Trims(e, kept, r, k - 1)
  BY DEF TrimOK
<1> DEFINE n == Len(kept)
           x == r[k]
<1>2. /\ kept \in Seq(Entries) /\ n \in Nat /\ n <= Pool /\ DOMAIN kept = 1 .. n /\ Pool \in Nat
      /\ e \in [1 .. n -> 1 .. k - 1]
      /\ \A i, j \in 1 .. n : i < j => e[i] < e[j]
      /\ \A i \in 1 .. n : kept[i] = r[e[i]]
  <2>1. kept \in Seq(Entries) /\ n <= Pool
    BY <1>1 DEF Trims
  <2>2. /\ e \in [1 .. n -> 1 .. k - 1]
        /\ \A i, j \in 1 .. n : i < j => e[i] < e[j]
        /\ \A i \in 1 .. n : kept[i] = r[e[i]]
    BY <1>1 DEF Trims
  <2>3. n \in Nat /\ DOMAIN kept = 1 .. n /\ Pool \in Nat
    BY <2>1, PoolAssumption
  <2> QED
    BY <2>1, <2>2, <2>3
<1>3. k \in Nat /\ k - 1 \in Nat /\ x \in Entries /\ Len(r) \in Nat /\ DOMAIN r = 1 .. Len(r)
  OBVIOUS
<1>4. \A i \in 1 .. n : e[i] \in 1 .. k - 1 /\ e[i] \in 1 .. Len(r) /\ e[i] \in Nat /\ e[i] < k
  BY <1>2, <1>3
<1> HIDE DEF n, x
<1>5. n <= k - 1
  <2>1. SUFFICES ASSUME n # 0 PROVE n <= k - 1
    BY <1>3
  <2>2. \A i, j \in 1 .. n : e[i] = e[j] => i = j
    <3> SUFFICES ASSUME NEW i \in 1 .. n, NEW j \in 1 .. n, i < j PROVE e[i] # e[j]
      BY <1>2
    <3>1. e[i] < e[j] /\ e[i] \in Nat
      BY <1>2, <1>4
    <3> QED
      BY <3>1
  <2>3. \E i \in 1 .. n : e[i] >= n
    BY <1>2, <1>3, <2>1, <2>2, Reaches
  <2> QED
    BY <1>2, <1>3, <1>4, <2>3
<1>6. \A l \in 1 .. k : l \in 1 .. k - 1 \/ l = k
  BY <1>3
<1>7. ASSUME Pool < k \/ \E i \in 1 .. n : StandsFor(kept[i], x) PROVE TrimOK(kept, r, k)
  <2>1. e \in [1 .. n -> 1 .. k]
    BY <1>2, <1>3
  <2>2. Trims(e, kept, r, k)
    BY <1>2, <2>1 DEF Trims, n
  <2>3. Covering(kept, r, k)
    BY <1>6, <1>7 DEF TrimOK, Covering, x, n
  <2> QED
    BY <2>2, <2>3 DEF TrimOK
<1>8. CASE n >= Pool
  <2>1. Kept(kept, x) = kept
    BY <1>8 DEF Kept, n
  <2>2. Pool < k
    BY <1>2, <1>3, <1>5, <1>8
  <2> QED
    BY <1>7, <2>1, <2>2 DEF x
<1>9. CASE Echoes(x.id, kept)
  <2>1. Kept(kept, x) = kept
    BY <1>9 DEF Kept
  <2>2. PICK i \in 1 .. n : Words(kept[i]) = Words(x) /\ Words(x) # Short
    BY <1>2, <1>9 DEF Echoes, Words
  <2>3. kept[i] = r[e[i]] /\ e[i] \in 1 .. Len(r) /\ e[i] < k /\ k \in 1 .. Len(r)
    BY <1>2, <1>4
  <2>4. kept[i].score >= x.score
    BY <1>3, <2>3 DEF Falling, x
  <2>5. StandsFor(kept[i], x)
    BY <2>2, <2>4 DEF StandsFor
  <2> QED
    BY <1>7, <2>1, <2>5 DEF x
<1>10. CASE ~(n >= Pool) /\ ~Echoes(x.id, kept)
  <2> DEFINE q == Append(kept, x)
             d == [i \in 1 .. n + 1 |-> IF i <= n THEN e[i] ELSE k]
  <2>1. Kept(kept, x) = q
    BY <1>10 DEF Kept, n
  <2>2. /\ q \in Seq(Entries) /\ Len(q) = n + 1 /\ q[n + 1] = x /\ n + 1 \in 1 .. n + 1 /\ ~(n + 1 <= n)
        /\ \A i \in 1 .. n : q[i] = kept[i] /\ i \in 1 .. n + 1 /\ i <= n
        /\ \A i \in 1 .. n + 1 : i \in 1 .. n \/ i = n + 1
    BY <1>2, <1>3 DEF n
  <2>3. d[n + 1] = k /\ \A i \in 1 .. n : d[i] = e[i]
    BY <2>2
  <2>4. d \in [1 .. n + 1 -> 1 .. k]
    BY <1>2, <1>3, <1>4
  <2> HIDE DEF q, d
  <2>5. \A i, j \in 1 .. n + 1 : i < j => d[i] < d[j]
    <3> SUFFICES ASSUME NEW i \in 1 .. n + 1, NEW j \in 1 .. n + 1, i < j PROVE d[i] < d[j]
      OBVIOUS
    <3>1. i \in 1 .. n
      BY <1>2
    <3>2. CASE j \in 1 .. n
      BY <1>2, <2>3, <3>1, <3>2
    <3>3. CASE j = n + 1
      BY <1>4, <2>3, <3>1, <3>3
    <3> QED
      BY <2>2, <3>2, <3>3
  <2>6. ASSUME NEW i \in 1 .. n + 1 PROVE q[i] = r[d[i]]
    <3>1. CASE i \in 1 .. n
      BY <1>2, <2>2, <2>3, <3>1
    <3>2. CASE i = n + 1
      BY <2>2, <2>3, <3>2 DEF x
    <3> QED
      BY <2>2, <3>1, <3>2
  <2>7. Trims(d, q, r, k)
    <3>1. n + 1 <= Pool
      BY <1>2, <1>10
    <3> QED
      BY <2>2, <2>4, <2>5, <2>6, <3>1 DEF Trims
  <2>8. Unlike(q)
    <3>1. \A i \in 1 .. n : Words(kept[i]) = Words(x) => Words(x) = Short
      BY <1>2, <1>10 DEF Echoes, Words
    <3>2. \A i, j \in 1 .. n : i # j /\ Words(kept[i]) = Words(kept[j]) => Words(kept[i]) = Short
      BY DEF TrimOK, Unlike, n
    <3> SUFFICES ASSUME NEW i \in 1 .. n + 1, NEW j \in 1 .. n + 1, i # j, Words(q[i]) = Words(q[j])
                 PROVE  Words(q[i]) = Short
      BY <2>2 DEF Unlike
    <3>3. CASE i \in 1 .. n /\ j \in 1 .. n
      BY <2>2, <3>2, <3>3
    <3>4. CASE i = n + 1 /\ j \in 1 .. n
      BY <2>2, <3>1, <3>4
    <3>5. CASE i \in 1 .. n /\ j = n + 1
      BY <2>2, <3>1, <3>5
    <3> QED
      BY <2>2, <3>3, <3>4, <3>5
  <2>9. Covering(q, r, k)
    <3> SUFFICES ASSUME NEW l \in 1 .. k, ~(Pool < l) PROVE \E i \in 1 .. n + 1 : StandsFor(q[i], r[l])
      BY <2>2 DEF Covering
    <3>1. CASE l \in 1 .. k - 1
      <4>1. PICK i \in 1 .. n : StandsFor(kept[i], r[l])
        BY <3>1 DEF TrimOK, Covering, n
      <4> QED
        BY <2>2, <4>1
    <3>2. CASE l = k
      BY <2>2, <3>2 DEF StandsFor, x
    <3> QED
      BY <1>6, <3>1, <3>2
  <2> QED
    BY <2>1, <2>7, <2>8, <2>9 DEF TrimOK, x
<1> QED
  BY <1>8, <1>9, <1>10

\* d is what is left of q.
Trimmed(d, q) ==
  /\ Good(d) /\ Falling(d) /\ Unlike(d) /\ Len(d) <= Pool
  /\ \A i \in 1 .. Len(d) : \E j \in 1 .. Len(q) : d[i] = q[j]
  /\ Len(q) <= Pool => \A l \in 1 .. Len(q) : \E i \in 1 .. Len(d) : StandsFor(d[i], q[l])

\* What is left of good entries: the best of each text, falling, at most a pool of them.
LEMMA DiversifiedIs ==
  ASSUME NEW q, Good(q)
  PROVE  Trimmed(Diversified(q), q)
<1> DEFINE n == Len(q)
           r == ByScore(q)
           d == Diversified(q)
<1>1. q \in Seq(Entries) /\ n \in Nat
  BY DEF Good
<1>2. r \in Seq(Entries) /\ Len(r) = n /\ Falling(r) /\ \E p : Permutes(p, r, q)
  BY <1>1, ByScoreIs
<1>3. PICK p : Permutes(p, r, q)
  BY <1>2
<1>4. d = FoldLeft(Kept, <<>>, r)
  BY DEF Diversified
<1> HIDE DEF r, d, n
<1>5. PICK f : Makes(f, n, Seq(Entries), <<>>, Keeping(r), d)
  BY <1>2, <1>4, KeptTrace
<1>6. f \in [0 .. n -> Seq(Entries)] /\ Trace(f, n, <<>>, Keeping(r)) /\ f[n] = d
  BY <1>5 DEF Makes
<1> DEFINE S == {k \in 0 .. n : TrimOK(f[k], r, k)}
<1>7. 0 \in S
  BY <1>1, <1>6, TrimStart DEF Trace
<1>8. ASSUME NEW k \in 1 .. n, k - 1 \in S PROVE k \in S
  <2>1. TrimOK(f[k - 1], r, k - 1) /\ k \in 0 .. n /\ k - 1 \in 0 .. n
    BY <1>8
  <2>2. f[k] = Kept(f[k - 1], r[k])
    <3>1. f[k - 1] \in Seq(Entries)
      BY <1>6, <2>1
    <3>2. f[k] = Keeping(r)[<<f[k - 1], k>>]
      BY <1>6 DEF Trace
    <3> QED
      BY <1>2, <3>1, <3>2, KeepingIs
  <2>3. TrimOK(f[k], r, k)
    BY <1>2, <2>1, <2>2, TrimStep
  <2> QED
    BY <2>1, <2>3
<1> HIDE DEF S
<1>9. n \in S
  <2>1. \A k \in 0 .. n : k \in S
    BY <1>1, <1>7, <1>8, UpTo
  <2> QED
    BY <1>1, <2>1
<1>10. TrimOK(d, r, n)
  BY <1>6, <1>9 DEF S
<1>11. PICK e : Trims(e, d, r, n)
  BY <1>10 DEF TrimOK
<1> DEFINE m == Len(d)
<1>12. /\ d \in Seq(Entries) /\ m \in Nat /\ m <= Pool /\ DOMAIN d = 1 .. m
       /\ e \in [1 .. m -> 1 .. n]
       /\ \A i, j \in 1 .. m : i < j => e[i] < e[j]
       /\ \A i \in 1 .. m : d[i] = r[e[i]]
  BY <1>11 DEF Trims
<1> HIDE DEF m
<1>13. \A i \in 1 .. m : e[i] \in 1 .. n /\ e[i] \in Nat /\ p[e[i]] \in 1 .. n /\ d[i] = q[p[e[i]]]
  <2>1. /\ p \in [1 .. n -> 1 .. n]
        /\ \A i \in 1 .. n : r[i] = q[p[i]]
    BY <1>3 DEF Permutes, n
  <2>2. \A i \in 1 .. m : e[i] \in 1 .. n /\ e[i] \in Nat /\ d[i] = r[e[i]]
    BY <1>1, <1>12
  <2> QED
    BY <2>1, <2>2
<1>14. ASSUME NEW i \in 1 .. m, NEW j \in 1 .. m, i < j
       PROVE  d[i].score >= d[j].score /\ p[e[i]] # p[e[j]]
  <2>1. e[i] < e[j] /\ e[i] \in 1 .. n /\ e[j] \in 1 .. n /\ e[i] \in Nat
    BY <1>12, <1>13, <1>14
  <2>2. r[e[i]].score >= r[e[j]].score
    BY <1>2, <2>1 DEF Falling
  <2>3. p[e[i]] # p[e[j]]
    BY <1>3, <2>1 DEF Permutes, n
  <2> QED
    BY <1>12, <2>2, <2>3
<1>15. Falling(d)
  BY <1>12, <1>14 DEF Falling
<1>16. Good(d)
  <2>1. ASSUME NEW i \in 1 .. m, NEW j \in 1 .. m, d[i].id = d[j].id PROVE i = j
    <3>a. /\ d[i] = q[p[e[i]]] /\ p[e[i]] \in 1 .. Len(q)
          /\ d[j] = q[p[e[j]]] /\ p[e[j]] \in 1 .. Len(q)
      BY <1>13, <2>1 DEF n
    <3>1. p[e[i]] = p[e[j]]
      BY <2>1, <3>a DEF Good
    <3>2. ~(i < j) /\ ~(j < i)
      BY <1>14, <3>1
    <3> QED
      BY <1>12, <3>2
  <2>2. \A i \in 1 .. m : d[i].id \in InScope
    BY <1>13 DEF Good, n
  <2> QED
    BY <1>12, <2>1, <2>2 DEF Good, m
<1>17. \A i \in 1 .. m : \E j \in 1 .. n : d[i] = q[j]
  BY <1>13
<1>18. ASSUME n <= Pool, NEW l \in 1 .. n PROVE \E i \in 1 .. m : StandsFor(d[i], q[l])
  <2>1. PICK k \in 1 .. n : p[k] = l
    BY <1>3 DEF Permutes, n
  <2>2. r[k] = q[l]
    BY <1>3, <2>1 DEF Permutes, n
  <2>3. ~(Pool < k)
    BY <1>1, <1>18, PoolAssumption
  <2>4. PICK i \in 1 .. m : StandsFor(d[i], r[k])
    BY <1>10, <2>3 DEF TrimOK, Covering, m
  <2> QED
    BY <2>2, <2>4
<1> QED
  BY <1>10, <1>12, <1>15, <1>16, <1>17, <1>18 DEF Trimmed, TrimOK, d, m, n

\* A complete list is no longer than the table.
LEMMA NoLonger ==
  ASSUME passages \in Seq(Passages), weights \in Weights, NEW q, Good(q)
  PROVE  Len(q) <= Len(passages)
<1> DEFINE n == Len(q)
           N == Len(passages)
           f == [i \in 1 .. n |-> q[i].id]
<1>1. n \in Nat /\ N \in Nat
  BY DEF Good
<1>2. \A i \in 1 .. n : f[i] \in 1 .. N
  BY EntryIs DEF Good
<1>3. \A i, j \in 1 .. n : f[i] = f[j] => i = j
  BY DEF Good
<1>4. f \in [1 .. n -> 1 .. N]
  BY <1>2
<1> HIDE DEF f, n, N
<1>5. n # 0 => \E i \in 1 .. n : f[i] >= n
  BY <1>1, <1>3, <1>4, Reaches
<1>6. n <= N
  BY <1>1, <1>2, <1>5
<1> QED
  BY <1>6 DEF n, N

\* y is found where x is, in another order of equals.
Mirrors(y, x) == y.score = x.score /\ (y.id = x.id \/ (Words(y) = Words(x) /\ Words(x) # Short))

\* What is left of all that match is the same whatever the order they came in, but for
\* which of equals stands for the others.
LEMMA Mirrored ==
  ASSUME passages \in Seq(Passages), weights \in Weights, NEW q, NEW t, Good(q), Good(t), Complete(q), Complete(t),
         NEW d, NEW u, Trimmed(d, q), Trimmed(u, t), Len(q) <= Pool, Len(t) <= Pool,
         NEW i \in 1 .. Len(d)
  PROVE  \E j \in 1 .. Len(u) : Mirrors(u[j], d[i])
<1> DEFINE x == d[i]
<1>1. x.id \in Matches /\ x.score = Worth(x.id) /\ x.id \in InScope
  <2>1. PICK l \in 1 .. Len(q) : x = q[l]
    BY DEF Trimmed
  <2> QED
    BY <2>1 DEF Complete, Good
<1>2. PICK l \in 1 .. Len(t) : t[l].id = x.id
  BY <1>1 DEF Complete
<1>3. t[l].score = x.score /\ Words(t[l]) = Words(x)
  BY <1>1, <1>2 DEF Complete, Words
<1>4. PICK j \in 1 .. Len(u) : StandsFor(u[j], t[l])
  BY DEF Trimmed
<1> HIDE DEF x
<1>5. CASE u[j] = t[l]
  BY <1>2, <1>3, <1>5 DEF Mirrors, x
<1>6. CASE Words(u[j]) = Words(t[l]) /\ Words(t[l]) # Short /\ u[j].score >= t[l].score
  <2> DEFINE y == u[j]
  <2>1. y.id \in Matches /\ y.score = Worth(y.id) /\ y.id \in InScope
    <3>1. PICK k \in 1 .. Len(t) : y = t[k]
      BY DEF Trimmed
    <3> QED
      BY <3>1 DEF Complete, Good
  <2> HIDE DEF y
  <2>2. PICK k \in 1 .. Len(q) : q[k].id = y.id
    BY <2>1 DEF Complete
  <2>3. q[k].score = y.score /\ Words(q[k]) = Words(y)
    BY <2>1, <2>2 DEF Complete, Words
  <2>4. PICK h \in 1 .. Len(d) : StandsFor(d[h], q[k])
    BY DEF Trimmed
  <2>5. Words(d[h]) = Words(x) /\ Words(x) # Short
    BY <1>3, <1>6, <2>3, <2>4 DEF StandsFor, y
  <2>6. h = i
    BY <2>5 DEF Trimmed, Unlike, x
  <2>7. x.score \in Nat /\ y.score \in Nat
    BY <1>1, <2>1, EntryIs
  <2>8. x.score >= y.score
    BY <2>3, <2>4, <2>6, <2>7 DEF StandsFor, x
  <2>9. y.score >= x.score
    BY <1>3, <1>6 DEF y
  <2>10. y.score = x.score
    BY <2>7, <2>8, <2>9
  <2> QED
    BY <1>3, <1>6, <2>5, <2>10 DEF Mirrors, x, y
<1> QED
  BY <1>4, <1>5, <1>6 DEF StandsFor

\* The scores of such a list.
LEMMA ScoresAre ==
  ASSUME NEW d, d \in Seq(Entries), Falling(d)
  PROVE  Scores(d) \in [1 .. Len(d) -> Nat] /\ Drops(Scores(d), Len(d)) /\ Len(d) \in Nat
         /\ \A i \in 1 .. Len(d) : Scores(d)[i] = d[i].score
<1>1. DOMAIN d = 1 .. Len(d) /\ Len(d) \in Nat /\ \A i \in 1 .. Len(d) : d[i] \in Entries
  OBVIOUS
<1>2. \A i \in 1 .. Len(d) : d[i].score \in Nat
  BY <1>1 DEF Entries
<1>3. Scores(d) = [i \in 1 .. Len(d) |-> d[i].score]
  BY <1>1 DEF Scores
<1> QED
  BY <1>1, <1>2, <1>3 DEF Falling, Drops

\* Of two complete lists, what is left of either has a match for each entry of the other.
LEMMA ScoresCovered ==
  ASSUME passages \in Seq(Passages), weights \in Weights, NEW q, NEW t, Good(q), Good(t), Complete(q), Complete(t),
         NEW d, NEW u, Trimmed(d, q), Trimmed(u, t), Len(q) <= Pool, Len(t) <= Pool
  PROVE  \E f : Dominates(f, Scores(d), Len(d), Scores(u), Len(u))
<1> DEFINE f == [i \in 1 .. Len(d) |-> CHOOSE j \in 1 .. Len(u) : Mirrors(u[j], d[i])]
<1>1. \A i \in 1 .. Len(d) : \E j \in 1 .. Len(u) : Mirrors(u[j], d[i])
  BY Mirrored
<1>2. \A i \in 1 .. Len(d) : f[i] \in 1 .. Len(u) /\ Mirrors(u[f[i]], d[i])
  BY <1>1
<1>3. f \in [1 .. Len(d) -> 1 .. Len(u)]
  BY <1>2
<1> HIDE DEF f
<1>4. ASSUME NEW i \in 1 .. Len(d), NEW j \in 1 .. Len(d), f[i] = f[j] PROVE i = j
  <2>1. Mirrors(u[f[i]], d[i]) /\ Mirrors(u[f[i]], d[j])
    BY <1>2, <1>4
  <2>2. Good(d) /\ Unlike(d)
    BY DEF Trimmed
  <2>3. CASE d[i].id = d[j].id
    BY <2>2, <2>3 DEF Good
  <2>4. CASE Words(d[i]) = Words(d[j]) /\ Words(d[i]) # Short
    BY <2>2, <2>4 DEF Unlike
  <2> QED
    BY <2>1, <2>3, <2>4 DEF Mirrors, Words
<1>5. /\ d \in Seq(Entries) /\ Falling(d)
      /\ u \in Seq(Entries) /\ Falling(u)
  BY DEF Trimmed, Good
<1>6. \A i \in 1 .. Len(d) : Scores(u)[f[i]] = Scores(d)[i]
  BY <1>2, <1>5, ScoresAre DEF Mirrors
<1> QED
  BY <1>3, <1>4, <1>6 DEF Dominates

\* The searches find entries of the scope, apart and best first; within the caps, the
\* fallback finds what Chroma would have led to.
LEMMA FoundIs ==
  ASSUME passages \in Seq(Passages), weights \in Weights
  PROVE  /\ Trimmed(FromChroma, Merged(VectorCandidates, KeywordCandidates))
         /\ Good(Merged(VectorCandidates, KeywordCandidates)) /\ Positive(Merged(VectorCandidates, KeywordCandidates))
         /\ Len(passages) <= Pool => Complete(Merged(VectorCandidates, KeywordCandidates))
         /\ Trimmed(FromSqlite, MatchedRows) /\ Good(MatchedRows) /\ Positive(MatchedRows)
         /\ Len(passages) <= FallbackMax => Complete(MatchedRows)
<1> DEFINE v == VectorCandidates
           w == KeywordCandidates
<1>1. /\ Good(v) /\ Names(w, Worded)
      /\ Len(passages) <= Pool => /\ \A i \in 1 .. Len(v) : v[i].score = Closest(v[i].id)
                                  /\ \A k \in InScope : \E i \in 1 .. Len(v) : v[i].id = k
  BY VectorsAre, KeywordsAre
<1>2. FromChroma = Diversified(Merged(v, w))
  BY DEF FromChroma
<1>3. FromSqlite = Diversified(MatchedRows)
  BY DEF FromSqlite, MatchedRows, ScoredRows
<1> HIDE DEF v, w
<1>4. Good(Merged(v, w)) /\ Positive(Merged(v, w)) /\ (Len(passages) <= Pool => Complete(Merged(v, w)))
  BY <1>1, MergedIs
<1>5. Good(MatchedRows) /\ Positive(MatchedRows) /\ (Len(passages) <= FallbackMax => Complete(MatchedRows))
  BY MatchedRowsAre
<1>6. Trimmed(FromChroma, Merged(v, w)) /\ Trimmed(FromSqlite, MatchedRows)
  BY <1>2, <1>3, <1>4, <1>5, DiversifiedIs
<1> QED
  BY <1>4, <1>5, <1>6 DEF v, w

\* Both lists are complete within the caps, so the scores left of them are the same.
LEMMA FallbackAgreesHolds ==
  ASSUME passages \in Seq(Passages), weights \in Weights
  PROVE  FallbackAgrees
<1> DEFINE q == Merged(VectorCandidates, KeywordCandidates)
           t == MatchedRows
           d == FromChroma
           u == FromSqlite
<1>1. SUFFICES ASSUME Len(passages) <= Pool, Len(passages) <= FallbackMax PROVE Scores(d) = Scores(u)
  BY DEF FallbackAgrees
<1>2. Good(q) /\ Good(t) /\ Complete(q) /\ Complete(t) /\ Trimmed(d, q) /\ Trimmed(u, t)
  BY <1>1, FoundIs
<1> HIDE DEF q, t, d, u
<1>3. Len(q) <= Pool /\ Len(t) <= Pool
  <2>1. Len(q) <= Len(passages) /\ Len(t) <= Len(passages)
    BY <1>2, NoLonger
  <2>2. Len(q) \in Nat /\ Len(t) \in Nat /\ Len(passages) \in Nat /\ Pool \in Nat
    BY <1>2, PoolAssumption DEF Good
  <2> QED
    BY <1>1, <2>1, <2>2
<1>4. PICK f : Dominates(f, Scores(d), Len(d), Scores(u), Len(u))
  BY <1>2, <1>3, ScoresCovered
<1>5. PICK g : Dominates(g, Scores(u), Len(u), Scores(d), Len(d))
  BY <1>2, <1>3, ScoresCovered
<1>6. /\ Scores(d) \in [1 .. Len(d) -> Nat] /\ Drops(Scores(d), Len(d)) /\ Len(d) \in Nat
      /\ Scores(u) \in [1 .. Len(u) -> Nat] /\ Drops(Scores(u), Len(u)) /\ Len(u) \in Nat
  BY <1>2, ScoresAre DEF Trimmed, Good
<1> QED
  BY <1>4, <1>5, <1>6, SameFall

----
(* Reranking, and the fit into the window *)

\* What may be cited: entries of the scope, apart, best first.
Proper(s) == Good(s) /\ Unlike(s) /\ Falling(s)

\* Entries taken from such, at different places, are in the scope and apart.
LEMMA TakenFrom ==
  ASSUME NEW s, Good(s), Unlike(s), NEW q \in Seq(Entries), NEW g \in [1 .. Len(q) -> 1 .. Len(s)],
         \A i, j \in 1 .. Len(q) : g[i] = g[j] => i = j,
         \A i \in 1 .. Len(q) : q[i].id = s[g[i]].id
  PROVE  Good(q) /\ Unlike(q)
<1>1. ASSUME NEW i \in 1 .. Len(q) PROVE q[i].id \in InScope /\ g[i] \in 1 .. Len(s) /\ Words(q[i]) = Words(s[g[i]])
  BY DEF Good, Words
<1>2. ASSUME NEW i \in 1 .. Len(q), NEW j \in 1 .. Len(q), q[i].id = q[j].id PROVE i = j
  <2>1. s[g[i]].id = s[g[j]].id /\ g[i] \in 1 .. Len(s) /\ g[j] \in 1 .. Len(s)
    BY <1>1, <1>2
  <2>2. g[i] = g[j]
    BY <2>1 DEF Good
  <2> QED
    BY <2>2
<1>3. Good(q)
  BY <1>1, <1>2 DEF Good
<1>4. ASSUME NEW i \in 1 .. Len(q), NEW j \in 1 .. Len(q), i # j, Words(q[i]) = Words(q[j]) PROVE Words(q[i]) = Short
  <2>1. g[i] # g[j] /\ Words(s[g[i]]) = Words(s[g[j]]) /\ g[i] \in 1 .. Len(s) /\ g[j] \in 1 .. Len(s)
    BY <1>1, <1>4
  <2>2. Words(s[g[i]]) = Short
    BY <2>1 DEF Unlike
  <2> QED
    BY <1>1, <2>2
<1> QED
  BY <1>3, <1>4 DEF Unlike

\* Sorting, cutting and picking keep a list proper: the later stages do nothing else.
LEMMA SortProper ==
  ASSUME NEW s, Good(s), Unlike(s)
  PROVE  Proper(ByScore(s)) /\ Len(ByScore(s)) = Len(s) /\ Len(s) \in Nat
<1> DEFINE r == ByScore(s)
<1>1. s \in Seq(Entries)
  BY DEF Good
<1>2. r \in Seq(Entries) /\ Len(r) = Len(s) /\ Len(s) \in Nat /\ Falling(r) /\ \E p : Permutes(p, r, s)
  BY <1>1, ByScoreIs
<1> HIDE DEF r
<1>3. PICK p : Permutes(p, r, s)
  BY <1>2
<1>4. p \in [1 .. Len(r) -> 1 .. Len(s)] /\ \A i, j \in 1 .. Len(r) : p[i] = p[j] => i = j
  BY <1>2, <1>3 DEF Permutes
<1>5. ASSUME NEW i \in 1 .. Len(r) PROVE r[i].id = s[p[i]].id
  <2>1. r[i] = s[p[i]] /\ p[i] \in 1 .. Len(s)
    BY <1>2, <1>3, <1>4 DEF Permutes
  <2> QED
    BY <2>1 DEF Good
<1>6. Good(r) /\ Unlike(r)
  BY <1>2, <1>4, <1>5, TakenFrom
<1> QED
  BY <1>2, <1>6 DEF Proper, r

LEMMA CutProper ==
  ASSUME NEW s, Proper(s), NEW n \in Nat
  PROVE  /\ Proper(Cut(s, n)) /\ Len(Cut(s, n)) = Least(Len(s), n) /\ Len(Cut(s, n)) <= n
         /\ n > 0 /\ s # <<>> => Cut(s, n) # <<>>
<1> DEFINE c == Cut(s, n)
           m == Least(Len(s), n)
           g == [i \in 1 .. m |-> i]
<1>1. s \in Seq(Entries) /\ Len(s) \in Nat /\ DOMAIN s = 1 .. Len(s)
  BY DEF Proper, Good
<1>2. c \in Seq(Entries) /\ Len(c) = m /\ m \in 0 .. Len(s) /\ m <= n /\ \A k \in 1 .. m : c[k] = s[k]
  BY <1>1, CutIs
<1>3. n > 0 /\ s # <<>> => m > 0
  BY <1>1 DEF Least
<1> HIDE DEF c, m
<1>4. m \in Nat /\ \A i \in 1 .. m : i \in 1 .. Len(s) /\ g[i] = i /\ c[i] = s[i]
  BY <1>1, <1>2
<1>5. g \in [1 .. Len(c) -> 1 .. Len(s)] /\ \A i, j \in 1 .. Len(c) : g[i] = g[j] => i = j
  BY <1>2, <1>4
<1>6. \A i \in 1 .. Len(c) : c[i].id = s[g[i]].id
  BY <1>2, <1>4
<1> HIDE DEF g
<1>7. Good(c) /\ Unlike(c)
  BY <1>2, <1>5, <1>6, TakenFrom DEF Proper
<1>8. Falling(c)
  <2>1. DOMAIN c = 1 .. m
    BY <1>2
  <2> QED
    BY <1>1, <1>4, <2>1 DEF Proper, Falling
<1>9. n > 0 /\ s # <<>> => c # <<>>
  BY <1>2, <1>3
<1> QED
  BY <1>2, <1>7, <1>8, <1>9 DEF Proper, c, m

LEMMA SomeAreThere ==
  ASSUME NEW n \in Nat, NEW P \in SUBSET (1 .. n), P # {}
  PROVE  Cardinality(P) > 0 /\ Cardinality(P) \in Nat
<1>1. IsFiniteSet(P)
  BY NthIs
<1>2. Cardinality(P) \in Nat /\ Cardinality(P) # 0
  BY <1>1, FS_CardinalityType, FS_EmptySet
<1> QED
  BY <1>2

LEMMA PickProper ==
  ASSUME NEW s, Proper(s), NEW P \in SUBSET (1 .. Len(s))
  PROVE  /\ Proper(Picked(s, P)) /\ Len(Picked(s, P)) \in 0 .. Len(s)
         /\ P # {} => Picked(s, P) # <<>>
<1> DEFINE q == Picked(s, P)
           n == Len(s)
<1>1. s \in Seq(Entries) /\ n \in Nat /\ DOMAIN s = 1 .. n
  BY DEF Proper, Good
<1>2. \A k \in P : s[k] \in Entries
  BY <1>1
<1> HIDE DEF n
<1>3. /\ q \in Seq(Entries) /\ Len(q) = Cardinality(P) /\ Cardinality(P) \in 0 .. n
      /\ \E g : Through(g, Cardinality(P), P) /\ Along(q, s, g)
  BY <1>1, <1>2, PickedIs DEF n
<1> HIDE DEF q
<1>4. PICK g : Through(g, Cardinality(P), P) /\ Along(q, s, g)
  BY <1>3
<1>5. g \in [1 .. Len(q) -> P] /\ \A i, j \in 1 .. Len(q) : i < j => g[i] < g[j]
  BY <1>3, <1>4 DEF Through
<1>6. \A i \in 1 .. Len(q) : g[i] \in 1 .. n /\ g[i] \in Nat /\ q[i] = s[g[i]]
  BY <1>1, <1>4, <1>5 DEF Along, n
<1>7. g \in [1 .. Len(q) -> 1 .. n]
  BY <1>5 DEF n
<1>8. \A i, j \in 1 .. Len(q) : g[i] = g[j] => i = j
  <2> SUFFICES ASSUME NEW i \in 1 .. Len(q), NEW j \in 1 .. Len(q), i < j PROVE g[i] # g[j]
    BY <1>3
  <2>1. g[i] < g[j] /\ g[i] \in Nat
    BY <1>5, <1>6
  <2> QED
    BY <2>1
<1>9. \A i \in 1 .. Len(q) : q[i].id = s[g[i]].id
  BY <1>6
<1>10. Good(q) /\ Unlike(q)
  BY <1>3, <1>7, <1>8, <1>9, TakenFrom DEF Proper, n
<1>11. Falling(q)
  <2>1. DOMAIN q = 1 .. Len(q)
    BY <1>3
  <2>2. ASSUME NEW i \in 1 .. Len(q), NEW j \in 1 .. Len(q), i < j PROVE q[i].score >= q[j].score
    <3>1. g[i] < g[j] /\ g[i] \in DOMAIN s /\ g[j] \in DOMAIN s /\ q[i] = s[g[i]] /\ q[j] = s[g[j]]
      BY <1>1, <1>5, <1>6, <2>2
    <3> QED
      BY <3>1 DEF Proper, Falling
  <2> QED
    BY <2>1, <2>2 DEF Falling
<1>12. P # {} => q # <<>>
  <2>1. P # {} => Cardinality(P) > 0
    BY <1>1, SomeAreThere DEF n
  <2> QED
    BY <1>3, <2>1
<1> QED
  BY <1>3, <1>10, <1>11, <1>12 DEF Proper, q, n

\* Without a usable answer, the best of the candidates.
LEMMA FallbackIs ==
  ASSUME Proper(candidates)
  PROVE  Proper(Fallback) /\ Len(Fallback) <= Final /\ (candidates # <<>> => Fallback # <<>>)
<1>1. Final \in Nat /\ Final > 0
  BY PoolAssumption
<1>2. Proper(ByScore(candidates)) /\ Len(ByScore(candidates)) = Len(candidates) /\ Len(candidates) \in Nat
  BY SortProper DEF Proper
<1>3. candidates # <<>> => ByScore(candidates) # <<>>
  <2>1. candidates \in Seq(Entries) /\ ByScore(candidates) \in Seq(Entries)
    BY <1>2 DEF Proper, Good
  <2> QED
    BY <1>2, <2>1
<1> QED
  BY <1>1, <1>2, <1>3, CutProper DEF Fallback

\* The blend of a grade and a score.
LEMMA BlendIs ==
  ASSUME weights \in Weights, NEW g \in Grades, NEW x \in Nat, x > 0
  PROVE  /\ weights.rerank * g + weights.base * x \in Nat
         /\ weights.base # 0 => weights.rerank * g + weights.base * x > 0
<1>1. PICK a \in Nat : a = weights.rerank
  BY WeightAssumption
<1>2. PICK b \in Nat : b = weights.base
  BY WeightAssumption
<1>3. PICK h \in Nat : h = g
  BY GradeAssumption
<1>4. a * h \in Nat /\ b * x \in Nat /\ (b # 0 => b * x > 0)
  OBVIOUS
<1> DEFINE y == a * h
           z == b * x
<1>5. y \in Nat /\ z \in Nat /\ (b # 0 => z > 0)
  BY <1>4
<1> HIDE DEF y, z
<1>6. y + z \in Nat /\ (b # 0 => y + z > 0)
  BY <1>5
<1> QED
  BY <1>1, <1>2, <1>3, <1>6 DEF y, z

\* What the model graded is proper, no longer than asked for, and not empty if the score of
\* the search counts.
LEMMA BlendedIs ==
  ASSUME passages \in Seq(Passages), weights \in Weights, Proper(candidates), Positive(candidates),
         NEW D \in SUBSET (DOMAIN candidates), NEW grades \in [D -> Grades],
         D \cap (1 .. RerankInput) # {}
  PROVE  /\ Proper(Blended(grades)) /\ Len(Blended(grades)) <= Final
         /\ weights.base # 0 => Blended(grades) # <<>>
<1> DEFINE n == Len(candidates)
           blend == [k \in DOMAIN grades |-> Entry(candidates[k].id,
                       weights.rerank * grades[k] + weights.base * candidates[k].score)]
           P == DOMAIN grades \cap (1 .. RerankInput)
           given == Picked(blend, P)
           best  == Cut(ByScore(given), Final)
           Q == {k \in DOMAIN best : best[k].score > 0}
<1>1. candidates \in Seq(Entries) /\ n \in Nat /\ DOMAIN candidates = 1 .. n /\ DOMAIN grades = D
  BY DEF Proper, Good
<1>2. P \in SUBSET (1 .. n) /\ P # {} /\ P \subseteq D
  BY <1>1
<1>3. ASSUME NEW k \in P
      PROVE  /\ blend[k] \in Entries /\ blend[k].id = candidates[k].id
             /\ weights.base # 0 => blend[k].score > 0
  <2>1. k \in D /\ k \in 1 .. n /\ grades[k] \in Grades /\ candidates[k] \in Entries
    BY <1>1, <1>2
  <2>2. candidates[k].score \in Nat /\ candidates[k].score > 0 /\ candidates[k].id \in InScope
    BY <2>1 DEF Proper, Good, Positive, Entries, n
  <2>3. /\ weights.rerank * grades[k] + weights.base * candidates[k].score \in Nat
        /\ weights.base # 0 => weights.rerank * grades[k] + weights.base * candidates[k].score > 0
    BY <2>1, <2>2, BlendIs
  <2>4. blend[k] = Entry(candidates[k].id, weights.rerank * grades[k] + weights.base * candidates[k].score)
    BY <1>1, <2>1
  <2> QED
    BY <2>2, <2>3, <2>4, EntryIs
<1> HIDE DEF blend, P, n
<1>4. /\ given \in Seq(Entries) /\ Len(given) = Cardinality(P)
      /\ \E g : Through(g, Cardinality(P), P) /\ Along(given, blend, g)
  BY <1>1, <1>2, <1>3, PickedIs
<1>5. Len(given) > 0 /\ Len(given) \in Nat
  BY <1>1, <1>2, <1>4, SomeAreThere
<1> HIDE DEF given
<1>6. PICK g : Through(g, Cardinality(P), P) /\ Along(given, blend, g)
  BY <1>4
<1>7. g \in [1 .. Len(given) -> P] /\ \A i, j \in 1 .. Len(given) : i < j => g[i] < g[j]
  BY <1>4, <1>6 DEF Through
<1>8. \A i \in 1 .. Len(given) : g[i] \in P /\ g[i] \in 1 .. n /\ g[i] \in Nat /\ given[i] = blend[g[i]]
  <2> TAKE i \in 1 .. Len(given)
  <2>1. g[i] \in P
    BY <1>7
  <2>2. g[i] \in 1 .. n
    BY <1>2, <2>1
  <2>3. given[i] = blend[g[i]]
    BY <1>6 DEF Along
  <2> QED
    BY <1>1, <2>1, <2>2, <2>3
<1>9. g \in [1 .. Len(given) -> 1 .. n]
  BY <1>2, <1>7
<1>10. \A i, j \in 1 .. Len(given) : g[i] = g[j] => i = j
  <2> SUFFICES ASSUME NEW i \in 1 .. Len(given), NEW j \in 1 .. Len(given), i < j PROVE g[i] # g[j]
    BY <1>5
  <2>1. g[i] < g[j] /\ g[i] \in Nat
    BY <1>7, <1>8
  <2> QED
    BY <2>1
<1>11. \A i \in 1 .. Len(given) : given[i].id = candidates[g[i]].id /\ (weights.base # 0 => given[i].score > 0)
  BY <1>3, <1>8
<1>12. Good(given) /\ Unlike(given)
  BY <1>4, <1>9, <1>10, <1>11, TakenFrom DEF Proper, n
<1> DEFINE r == ByScore(given)
<1>13. /\ Proper(r) /\ Len(r) = Len(given)
       /\ \A i \in 1 .. Len(given) : \E j \in 1 .. Len(given) : r[i] = given[j]
  BY <1>12, SortProper, SortGood
<1> HIDE DEF r
<1>14. r # <<>> /\ r \in Seq(Entries) /\ Len(r) \in Nat /\ (weights.base # 0 => r[1].score > 0)
  <2>1. r \in Seq(Entries) /\ Len(r) \in Nat /\ r # <<>>
    BY <1>5, <1>13 DEF Proper, Good
  <2>2. PICK j \in 1 .. Len(given) : r[1] = given[j]
    BY <1>5, <1>13
  <2> QED
    BY <1>11, <2>1, <2>2
<1>15. Final \in Nat /\ Final > 0
  BY PoolAssumption
<1>16. Proper(best) /\ Len(best) <= Final /\ best # <<>> /\ Len(best) = Least(Len(r), Final)
  BY <1>13, <1>14, <1>15, CutProper DEF r
<1>a. best[1] = r[1]
  <2>1. \A k \in 1 .. Least(Len(r), Final) : best[k] = r[k]
    BY <1>14, <1>15, CutIs DEF r
  <2>2. Len(r) > 0 /\ Len(r) \in Nat
    BY <1>5, <1>13
  <2>3. 1 \in 1 .. Least(Len(r), Final)
    BY <1>15, <2>2 DEF Least
  <2> QED
    BY <2>1, <2>3
<1> HIDE DEF best
<1>17. best \in Seq(Entries) /\ DOMAIN best = 1 .. Len(best) /\ Len(best) \in Nat /\ 1 \in 1 .. Len(best)
  BY <1>16 DEF Proper, Good
<1>18. Q \in SUBSET (1 .. Len(best)) /\ (weights.base # 0 => Q # {})
  BY <1>14, <1>a, <1>17
<1>19. Blended(grades) = Picked(best, Q)
  BY DEF Blended, Scoring, best, given, blend, P
<1> HIDE DEF Q
<1>20. /\ Proper(Picked(best, Q)) /\ Len(Picked(best, Q)) \in 0 .. Len(best)
       /\ Q # {} => Picked(best, Q) # <<>>
  BY <1>16, <1>18, PickProper
<1> QED
  BY <1>15, <1>16, <1>17, <1>18, <1>19, <1>20

----
(* The fit into the window *)

\* What some of the evidence costs is a number.
LEMMA CostNat ==
  ASSUME passages \in Seq(Passages), NEW s \in Seq(Entries)
  PROVE  Cost(s) \in Nat
<1> DEFINE w == [k \in DOMAIN s |-> passages[s[k].id].tokens]
<1>1. ASSUME NEW k \in DOMAIN s PROVE w[k] \in Nat
  <2>1. s[k] \in Entries
    OBVIOUS
  <2>2. s[k].id \in DOMAIN passages
    BY <2>1 DEF Entries, Id
  <2>3. passages[s[k].id] \in Passages
    BY <2>2
  <2> QED
    BY <2>3, PassageAssumption
<1>2. w \in [1 .. Len(s) -> Nat] /\ Len(s) \in Nat
  BY <1>1
<1>3. w \in Seq(Nat)
  BY <1>2
<1> QED
  BY <1>3, TotalNat DEF Cost

\* n chunks of the evidence fit, or there is one only; one more would not.
IsMost(n, room) ==
  /\ n = 1 \/ Cost(Cut(evidence, n)) <= room
  /\ \A m \in n + 1 .. Len(evidence) : Cost(Cut(evidence, m)) > room

\* There is a most that fits, and nothing longer does.
LEMMA MostIs ==
  ASSUME passages \in Seq(Passages), evidence \in Seq(Entries), evidence # <<>>, NEW room \in Nat
  PROVE  Most(room) \in 1 .. Len(evidence) /\ IsMost(Most(room), room)
<1> DEFINE n == Len(evidence)
           Fit == {k \in 1 .. n : k = 1 \/ Cost(Cut(evidence, k)) <= room}
<1>1. n \in Nat /\ n >= 1 /\ 1 \in 1 .. n
  OBVIOUS
<1>2. \A k \in 1 .. n : k \in Nat /\ Cost(Cut(evidence, k)) \in Nat
  <2> TAKE k \in 1 .. n
  <2>1. k \in Nat /\ Cut(evidence, k) \in Seq(Entries)
    BY CutIs
  <2> QED
    BY <2>1, CostNat
<1>3. Fit \in SUBSET (1 .. n) /\ 1 \in Fit
  BY <1>1
<1> DEFINE top == Max(Fit)
<1>4. top \in Fit /\ \A y \in Fit : y <= top
  BY <1>1, <1>3, MaxIn
<1>5. top \in 1 .. n /\ (top = 1 \/ Cost(Cut(evidence, top)) <= room)
  BY <1>4
<1>6. ASSUME NEW m \in top + 1 .. n PROVE Cost(Cut(evidence, m)) > room
  <2>1. m \in 1 .. n /\ m > top /\ top \in Nat
    BY <1>5
  <2>2. m \notin Fit
    BY <1>4, <2>1
  <2>3. ~(Cost(Cut(evidence, m)) <= room)
    BY <2>1, <2>2
  <2> QED
    BY <1>2, <2>1, <2>3
<1> HIDE DEF top, Fit
<1>7. IsMost(top, room)
  BY <1>5, <1>6 DEF IsMost
<1>8. \E k \in 1 .. n : IsMost(k, room)
  BY <1>5, <1>7
<1>9. Most(room) = CHOOSE k \in 1 .. n : IsMost(k, room)
  BY DEF Most, IsMost
<1> HIDE DEF n
<1>10. (CHOOSE k \in 1 .. n : IsMost(k, room)) \in 1 .. n /\ IsMost((CHOOSE k \in 1 .. n : IsMost(k, room)), room)
  BY <1>8
<1> QED
  BY <1>9, <1>10 DEF n

\* The evidence in the prompt is the best of it, one chunk at least.
LEMMA FittedIs ==
  ASSUME passages \in Seq(Passages), Proper(evidence), NEW room \in Rooms
  PROVE  /\ Proper(Fitted(room)) /\ Len(Fitted(room)) <= Len(evidence)
         /\ evidence # <<>> => Fitted(room) # <<>>
         /\ room # 0 /\ evidence # <<>> => Fitted(room) = Cut(evidence, Most(room))
<1>1. room \in Nat
  BY GradeAssumption
<1>2. evidence \in Seq(Entries) /\ Len(evidence) \in Nat
  BY DEF Proper, Good
<1>3. CASE room = 0 \/ evidence = <<>>
  <2>1. Fitted(room) = evidence
    BY <1>3 DEF Fitted
  <2> QED
    BY <1>2, <1>3, <2>1
<1>4. CASE room # 0 /\ evidence # <<>>
  <2>1. Fitted(room) = Cut(evidence, Most(room))
    BY <1>4 DEF Fitted
  <2>2. Most(room) \in 1 .. Len(evidence)
    BY <1>1, <1>2, <1>4, MostIs
  <2>3. Most(room) \in Nat /\ Most(room) > 0 /\ Most(room) <= Len(evidence)
    BY <1>2, <2>2
  <2>4. /\ Proper(Cut(evidence, Most(room))) /\ Len(Cut(evidence, Most(room))) <= Most(room)
        /\ Cut(evidence, Most(room)) # <<>>
    BY <1>4, <2>3, CutProper
  <2>5. Len(Cut(evidence, Most(room))) \in Nat
    BY <2>4 DEF Proper, Good
  <2> QED
    BY <1>2, <2>1, <2>3, <2>4, <2>5
<1> QED
  BY <1>3, <1>4

\* Only what does not fit is dropped, from the end.
LEMMA PromptFits ==
  ASSUME passages \in Seq(Passages), Proper(evidence), NEW room \in Rooms \ {0}, Prompt(room)
  PROVE  /\ IsPrefix(evidence', evidence)
         /\ Len(evidence') < Len(evidence) => Cost(SubSeq(evidence, 1, Len(evidence') + 1)) > room
         /\ Len(evidence') > 1 => Cost(evidence') <= room
<1> DEFINE n == Most(room)
           l == Len(evidence)
<1>1. room \in Nat /\ evidence' = Fitted(room)
  BY GradeAssumption DEF Prompt
<1>2. evidence \in Seq(Entries) /\ l \in Nat
  BY DEF Proper, Good
<1>3. CASE evidence = <<>>
  <2>1. evidence' = <<>> /\ evidence = <<>>
    BY <1>1, <1>3 DEF Fitted
  <2>2. Len(evidence') = 0 /\ Len(evidence) = 0 /\ SubSeq(evidence, 1, 0) = <<>>
    BY <2>1
  <2>3. IsPrefix(evidence', evidence)
    BY <2>1, <2>2 DEF IsPrefix
  <2> QED
    BY <2>2, <2>3
<1>4. CASE evidence # <<>>
  <2>1. evidence' = Cut(evidence, n) /\ n \in 1 .. l /\ IsMost(n, room)
    BY <1>1, <1>2, <1>4, FittedIs, MostIs
  <2> HIDE DEF n
  <2>2. ASSUME NEW m \in 1 .. l PROVE Cut(evidence, m) = SubSeq(evidence, 1, m)
    BY <1>2 DEF Cut, Least
  <2>3. evidence' = SubSeq(evidence, 1, n) /\ Len(evidence') = n /\ n \in Nat /\ n <= l
    BY <1>2, <2>1, <2>2
  <2>4. IsPrefix(evidence', evidence)
    BY <2>3 DEF IsPrefix
  <2>5. ASSUME n < l PROVE Cost(SubSeq(evidence, 1, n + 1)) > room
    <3>1. n + 1 \in n + 1 .. l /\ n + 1 \in 1 .. l
      BY <1>2, <2>1, <2>5
    <3>2. Cost(Cut(evidence, n + 1)) > room
      BY <2>1, <3>1 DEF IsMost
    <3> QED
      BY <2>2, <3>1, <3>2
  <2>6. n > 1 => Cost(evidence') <= room
    BY <2>1, <2>3 DEF IsMost
  <2> QED
    BY <2>3, <2>4, <2>5, <2>6
<1> QED
  BY <1>3, <1>4

----
(* Every answer's evidence *)

\* Between questions nothing is found; while it is searched, nothing either; then there are
\* candidates, and evidence if there is any.
EvidenceInv ==
  /\ passages \in Seq(Passages)
  /\ stage \in {"idle", "search", "rerank", "prompt", "done"}
  /\ weights \in Weights
  /\ Proper(candidates) /\ Positive(candidates) /\ Proper(evidence)
  /\ Len(evidence) <= Final
  /\ stage \in {"idle", "search"} => candidates = <<>>
  /\ stage \in {"idle", "search", "rerank"} => evidence = <<>>
  /\ MatchedIsAnswered

\* An empty list is proper, before a step and after it.
LEMMA NothingIsProper ==
  ASSUME NEW s, s = <<>>
  PROVE  Proper(s)
<1>1. s \in Seq(Entries) /\ DOMAIN s = {} /\ \A i \in 1 .. Len(s) : FALSE
  OBVIOUS
<1> QED
  BY <1>1 DEF Proper, Good, Unlike, Falling

\* Of the same chunks and sources, the same is proper.
LEMMA ProperRest ==
  ASSUME UNCHANGED <<passages, scope>>
  PROVE  /\ Proper(candidates') => Proper(candidates)'
         /\ Proper(evidence') => Proper(evidence)'
<1>1. passages' = passages /\ scope' = scope
  OBVIOUS
<1>2. InScope' = InScope /\ Entries' = Entries
  BY <1>1 DEF InScope, Entries, Id
<1>3. ASSUME Proper(candidates') PROVE Proper(candidates)'
  <2>1. Good(candidates)'
    BY <1>2, <1>3 DEF Proper, Good
  <2>2. Unlike(candidates)'
    BY <1>1, <1>3 DEF Proper, Unlike, Words
  <2>3. Falling(candidates)'
    BY <1>3 DEF Proper, Falling
  <2> QED
    BY <2>1, <2>2, <2>3 DEF Proper
<1>4. ASSUME Proper(evidence') PROVE Proper(evidence)'
  <2>1. Good(evidence)'
    BY <1>2, <1>4 DEF Proper, Good
  <2>2. Unlike(evidence)'
    BY <1>1, <1>4 DEF Proper, Unlike, Words
  <2>3. Falling(evidence)'
    BY <1>4 DEF Proper, Falling
  <2> QED
    BY <2>1, <2>2, <2>3 DEF Proper
<1> QED
  BY <1>3, <1>4

LEMMA NothingStaysProper ==
  /\ candidates' = <<>> => Proper(candidates)'
  /\ evidence' = <<>> => Proper(evidence)'
<1>1. ASSUME candidates' = <<>> PROVE Proper(candidates)'
  <2>1. /\ candidates' \in Seq(Entries') /\ DOMAIN candidates' = {}
        /\ \A i \in 1 .. Len(candidates') : FALSE
    BY <1>1
  <2> QED
    BY <2>1 DEF Proper, Good, Unlike, Falling
<1>2. ASSUME evidence' = <<>> PROVE Proper(evidence)'
  <2>1. /\ evidence' \in Seq(Entries') /\ DOMAIN evidence' = {}
        /\ \A i \in 1 .. Len(evidence') : FALSE
    BY <1>2
  <2> QED
    BY <2>1 DEF Proper, Good, Unlike, Falling
<1> QED
  BY <1>1, <1>2

LEMMA EvidenceInit ==
  ASSUME RetrievalInit
  PROVE  EvidenceInv
<1>1. passages = <<>> /\ stage = "idle" /\ candidates = <<>> /\ evidence = <<>> /\ weights \in Weights
  BY DEF RetrievalInit
<1>2. Proper(candidates) /\ Proper(evidence)
  BY <1>1, NothingIsProper
<1>3. Len(evidence) = 0 /\ Final \in Nat
  BY <1>1, PoolAssumption
<1> QED
  BY <1>1, <1>2, <1>3 DEF EvidenceInv, MatchedIsAnswered, Positive

LEMMA EvidenceIndex ==
  ASSUME EvidenceInv, NEW c \in Passages, Index(c)
  PROVE  EvidenceInv'
<1>1. /\ candidates' = <<>> /\ evidence' = <<>> /\ stage' = "idle" /\ passages' = Append(passages, c)
      /\ weights' = weights /\ weights \in Weights
  BY DEF EvidenceInv, Index
<1>2. Proper(candidates)' /\ Proper(evidence)'
  BY <1>1, NothingStaysProper
<1>3. Len(evidence') = 0 /\ Final \in Nat
  BY <1>1, PoolAssumption
<1>4. passages' \in Seq(Passages)
  BY <1>1 DEF EvidenceInv
<1> QED
  BY <1>1, <1>2, <1>3, <1>4 DEF EvidenceInv, MatchedIsAnswered, Positive

LEMMA EvidenceAsk ==
  ASSUME EvidenceInv, NEW sources, Ask(sources)
  PROVE  EvidenceInv'
<1>1. /\ candidates' = <<>> /\ evidence' = <<>> /\ stage' \in {"done", "search"} /\ passages' = passages
      /\ weights' = weights /\ weights \in Weights
  BY DEF EvidenceInv, Ask
<1>2. Proper(candidates)' /\ Proper(evidence)'
  BY <1>1, NothingStaysProper
<1>3. Len(evidence') = 0 /\ Final \in Nat
  BY <1>1, PoolAssumption
<1> QED
  BY <1>1, <1>2, <1>3 DEF EvidenceInv, MatchedIsAnswered, Positive

LEMMA EvidenceSearch ==
  ASSUME EvidenceInv, NEW ok \in BOOLEAN, Search(ok)
  PROVE  EvidenceInv'
<1>1. /\ candidates' = IF ok THEN FromChroma ELSE FromSqlite
      /\ evidence' = <<>> /\ stage' = "rerank" /\ UNCHANGED <<passages, scope>>
      /\ weights' = weights /\ weights \in Weights
  BY DEF EvidenceInv, Search
<1>2. Proper(FromChroma) /\ Positive(FromChroma) /\ Proper(FromSqlite) /\ Positive(FromSqlite)
  BY FoundIs DEF EvidenceInv, Trimmed, Proper, Positive
<1>3. Proper(candidates') /\ Positive(candidates')
  BY <1>1, <1>2
<1>4. Proper(candidates)' /\ Proper(evidence)'
  BY <1>1, <1>3, ProperRest, NothingStaysProper
<1>5. Len(evidence') = 0 /\ Final \in Nat
  BY <1>1, PoolAssumption
<1>6. passages' \in Seq(Passages)
  BY <1>1 DEF EvidenceInv
<1> QED
  BY <1>1, <1>3, <1>4, <1>5, <1>6 DEF EvidenceInv, MatchedIsAnswered, Positive

\* A step that ends with proper evidence, some of it if there were candidates.
LEMMA EvidenceFound ==
  ASSUME EvidenceInv, NEW found, Proper(found), Len(found) <= Final,
         candidates # <<>> /\ weights.base # 0 => found # <<>>,
         evidence' = found, stage' \in {"prompt", "done"}, UNCHANGED <<weights, passages, scope, candidates>>
  PROVE  EvidenceInv'
<1>1. Proper(candidates)' /\ Proper(evidence)'
  BY ProperRest DEF EvidenceInv
<1>2. passages' \in Seq(Passages)
  BY DEF EvidenceInv
<1> QED
  BY <1>1, <1>2 DEF EvidenceInv, MatchedIsAnswered, Positive

LEMMA EvidenceRerank ==
  ASSUME EvidenceInv, NEW D \in SUBSET (DOMAIN candidates), NEW grades \in [D -> Grades], Rerank(grades)
  PROVE  EvidenceInv'
<1>1. /\ evidence' = Graded(grades) /\ stage' = "prompt" /\ UNCHANGED <<weights, passages, scope, candidates>>
  BY DEF Rerank
<1>2. passages \in Seq(Passages) /\ weights \in Weights /\ Proper(candidates) /\ Positive(candidates)
  BY DEF EvidenceInv
<1>3. DOMAIN grades = D
  OBVIOUS
<1>4. /\ Proper(Graded(grades)) /\ Len(Graded(grades)) <= Final
      /\ candidates # <<>> /\ weights.base # 0 => Graded(grades) # <<>>
  <2>1. CASE D \cap (1 .. RerankInput) = {}
    BY <1>2, <1>3, <2>1, FallbackIs DEF Graded
  <2>2. CASE D \cap (1 .. RerankInput) # {}
    <3>1. /\ Proper(Blended(grades)) /\ Len(Blended(grades)) <= Final
          /\ weights.base # 0 => Blended(grades) # <<>>
      BY <1>2, <2>2, BlendedIs
    <3> QED
      BY <1>3, <2>2, <3>1 DEF Graded
  <2> QED
    BY <2>1, <2>2
<1> QED
  BY <1>1, <1>4, EvidenceFound

LEMMA EvidenceRerankFails ==
  ASSUME EvidenceInv, RerankFails
  PROVE  EvidenceInv'
<1>1. /\ evidence' = Fallback /\ stage' = "prompt" /\ UNCHANGED <<weights, passages, scope, candidates>>
  BY DEF RerankFails
<1>2. Proper(Fallback) /\ Len(Fallback) <= Final /\ (candidates # <<>> => Fallback # <<>>)
  BY FallbackIs DEF EvidenceInv
<1> QED
  BY <1>1, <1>2, EvidenceFound

LEMMA EvidencePrompt ==
  ASSUME EvidenceInv, NEW room \in Rooms, Prompt(room)
  PROVE  EvidenceInv'
<1>1. /\ evidence' = Fitted(room) /\ stage' = "done" /\ UNCHANGED <<weights, passages, scope, candidates>>
      /\ stage = "prompt"
  BY DEF Prompt
<1>2. passages \in Seq(Passages) /\ Proper(evidence) /\ Len(evidence) <= Final
      /\ (candidates # <<>> /\ weights.base # 0 => evidence # <<>>)
  BY <1>1 DEF EvidenceInv, MatchedIsAnswered
<1>3. /\ Proper(Fitted(room)) /\ Len(Fitted(room)) <= Len(evidence)
      /\ evidence # <<>> => Fitted(room) # <<>>
  BY <1>2, FittedIs
<1>4. Len(Fitted(room)) <= Final
  <2>1. Len(Fitted(room)) \in Nat /\ Len(evidence) \in Nat /\ Final \in Nat
    BY <1>2, <1>3, PoolAssumption DEF Proper, Good
  <2> QED
    BY <1>2, <1>3, <2>1
<1> QED
  BY <1>1, <1>2, <1>3, <1>4, EvidenceFound

LEMMA EvidenceRest ==
  ASSUME EvidenceInv, UNCHANGED retrievalVars
  PROVE  EvidenceInv'
<1>1. /\ passages' = passages /\ stage' = stage /\ scope' = scope /\ candidates' = candidates
      /\ evidence' = evidence /\ weights' = weights
  BY DEF retrievalVars
<1>2. Proper(candidates)' /\ Proper(evidence)'
  BY <1>1, ProperRest DEF EvidenceInv
<1> QED
  BY <1>1, <1>2 DEF EvidenceInv, MatchedIsAnswered, Positive

LEMMA EvidenceStep ==
  ASSUME EvidenceInv, RetrievalNext \/ UNCHANGED retrievalVars
  PROVE  EvidenceInv'
<1>1. ASSUME NEW c \in Passages, Index(c) PROVE EvidenceInv'
  BY <1>1, EvidenceIndex
<1>2. ASSUME NEW sources, Ask(sources) PROVE EvidenceInv'
  BY <1>2, EvidenceAsk
<1>3. ASSUME NEW ok \in BOOLEAN, Search(ok) PROVE EvidenceInv'
  BY <1>3, EvidenceSearch
<1>4. ASSUME NEW D \in SUBSET (DOMAIN candidates), NEW grades \in [D -> Grades], Rerank(grades)
      PROVE  EvidenceInv'
  BY <1>4, EvidenceRerank
<1>5. ASSUME RerankFails PROVE EvidenceInv'
  BY <1>5, EvidenceRerankFails
<1>6. ASSUME NEW room \in Rooms, Prompt(room) PROVE EvidenceInv'
  BY <1>6, EvidencePrompt
<1>7. ASSUME UNCHANGED retrievalVars PROVE EvidenceInv'
  BY <1>7, EvidenceRest
<1> QED
  BY <1>1, <1>2, <1>3, <1>4, <1>5, <1>6, <1>7 DEF RetrievalNext

\* What the invariant says of the evidence.
LEMMA EvidenceShown ==
  ASSUME EvidenceInv
  PROVE  Scoped /\ BestFirst /\ MatchedIsAnswered /\ FallbackAgrees
<1>1. /\ passages \in Seq(Passages) /\ Proper(candidates) /\ Proper(evidence) /\ Len(evidence) <= Final
      /\ MatchedIsAnswered /\ weights \in Weights
  BY DEF EvidenceInv
<1>2. Scoped
  <2>1. DOMAIN evidence = 1 .. Len(evidence) /\ \A k \in 1 .. Len(evidence) : evidence[k].id \in InScope
    BY <1>1 DEF Proper, Good
  <2> QED
    BY <2>1 DEF Scoped, InScope
<1>3. ASSUME NEW s, Proper(s)
      PROVE  /\ Falling(s)
             /\ \A j, k \in DOMAIN s : j # k =>
                  /\ s[j].id # s[k].id
                  /\ passages[s[j].id].words = passages[s[k].id].words => passages[s[j].id].words = Short
  <2>1. DOMAIN s = 1 .. Len(s)
    BY <1>3 DEF Proper, Good
  <2> QED
    BY <1>3, <2>1 DEF Proper, Good, Unlike, Words
<1>4. BestFirst
  BY <1>1, <1>3 DEF BestFirst
<1> QED
  BY <1>1, <1>2, <1>4, FallbackAgreesHolds

----
(* The queries *)

\* No query is there twice.
Distinct(q) == \A i, j \in 1 .. Len(q) : q[i] = q[j] => i = j

\* _unique_nonempty adds a query unless it is there, and never moves the first.
LEMMA AddNewIs ==
  ASSUME NEW T, NEW a \in Seq(T), Distinct(a), NEW x \in T
  PROVE  /\ AddNew(a, x) \in Seq(T) /\ Distinct(AddNew(a, x)) /\ AddNew(a, x) # <<>>
         /\ AddNew(a, x)[1] = IF a = <<>> THEN x ELSE a[1]
<1> DEFINE b == Append(a, x)
<1>1. CASE Contains(a, x)
  <2>1. AddNew(a, x) = a
    BY <1>1 DEF AddNew
  <2>2. a # <<>>
    BY <1>1 DEF Contains
  <2> QED
    BY <2>1, <2>2
<1>2. CASE ~Contains(a, x)
  <2>1. AddNew(a, x) = b /\ \A i \in 1 .. Len(a) : a[i] # x
    BY <1>2 DEF AddNew, Contains
  <2>2. b \in Seq(T) /\ Len(b) = Len(a) + 1 /\ Len(a) \in Nat /\ b[Len(a) + 1] = x /\ \A i \in 1 .. Len(a) : b[i] = a[i]
    OBVIOUS
  <2>3. b[1] = IF a = <<>> THEN x ELSE a[1]
    OBVIOUS
  <2> HIDE DEF b
  <2>4. ASSUME NEW i \in 1 .. Len(b), NEW j \in 1 .. Len(b), b[i] = b[j] PROVE i = j
    <3>1. CASE i \in 1 .. Len(a) /\ j \in 1 .. Len(a)
      BY <2>2, <2>4, <3>1 DEF Distinct
    <3>2. CASE i = Len(a) + 1 \/ j = Len(a) + 1
      BY <2>1, <2>2, <2>4, <3>2
    <3> QED
      BY <2>2, <3>1, <3>2
  <2> QED
    BY <2>1, <2>2, <2>3, <2>4 DEF Distinct
<1> QED
  BY <1>1, <1>2

AddingNew(s, T) == [p \in Seq(T) \X (1 .. Len(s)) |-> AddNew(p[1], s[p[2]])]

\* The trace of _unique_nonempty.
LEMMA UniqueTrace ==
  ASSUME NEW T, NEW s \in Seq(T)
  PROVE  \E f : Makes(f, Len(s), Seq(T), <<>>, AddingNew(s, T), UniqueOf(s))
<1> DEFINE n == Len(s)
           A == Seq(T)
           step == AddingNew(s, T)
<1>1. n \in Nat /\ DOMAIN s = 1 .. n /\ \A k \in 1 .. n : s[k] \in T
  OBVIOUS
<1>0. <<>> \in A
  OBVIOUS
<1>3. \A a \in A, k \in 1 .. n : step[<<a, k>>] = AddNew(a, s[k])
  BY DEF AddingNew
<1>2. Closed(step, n, A)
  <2>1. ASSUME NEW a \in A, NEW x \in T PROVE AddNew(a, x) \in A
    BY DEF AddNew
  <2> HIDE DEF A, step, n
  <2> QED
    BY <1>1, <1>3, <2>1 DEF Closed
<1> HIDE DEF n, step, A
<1>4. PICK it \in [SUBSET (1 .. n) -> A] : Iterates(it, n, <<>>, step)
  BY <1>0, <1>1, <1>2, IterExists
<1>5. ASSUME NEW x \in SUBSET (1 .. n), x # {} PROVE Max(x) \in 1 .. n /\ x \ {Max(x)} \in SUBSET (1 .. n)
  BY <1>1, <1>5, MaxIn
<1>6. it = [x \in SUBSET DOMAIN s |-> IF x = {} THEN <<>> ELSE AddNew(it[x \ {Max(x)}], s[Max(x)])]
  BY <1>1, <1>3, <1>4, <1>5 DEF Iterates
<1>7. \E h : UniqueOf(s) = h[DOMAIN s] /\
             h = [x \in SUBSET DOMAIN s |-> IF x = {} THEN <<>> ELSE AddNew(h[x \ {Max(x)}], s[Max(x)])]
  BY <1>6 DEF UniqueOf, FoldLeft, MapThenFoldSet
<1>8. PICK h : UniqueOf(s) = h[DOMAIN s] /\
             h = [x \in SUBSET DOMAIN s |-> IF x = {} THEN <<>> ELSE AddNew(h[x \ {Max(x)}], s[Max(x)])]
  BY <1>7
<1>9. h[{}] = <<>> /\ \A x \in SUBSET (1 .. n) : x # {} => h[x] = AddNew(h[x \ {Max(x)}], s[Max(x)])
  BY <1>1, <1>8
<1>10. Recurs(h, n, A, <<>>, step)
  BY <1>3, <1>5, <1>9 DEF Recurs
<1>11. \E f : Makes(f, n, A, <<>>, step, h[1 .. n])
  BY <1>0, <1>1, <1>2, <1>10, IterTrace
<1> QED
  BY <1>1, <1>8, <1>11 DEF n, step, A

\* What is left of the queries when each is asked once: none twice, and the first of them first.
LEMMA UniqueIs ==
  ASSUME NEW T, NEW s \in Seq(T)
  PROVE  /\ UniqueOf(s) \in Seq(T) /\ Distinct(UniqueOf(s))
         /\ s # <<>> => UniqueOf(s) # <<>> /\ UniqueOf(s)[1] = s[1]
<1> DEFINE n == Len(s)
<1>1. n \in Nat /\ (s # <<>> => n >= 1) /\ \A k \in 1 .. n : s[k] \in T
  OBVIOUS
<1>2. PICK f : Makes(f, n, Seq(T), <<>>, AddingNew(s, T), UniqueOf(s))
  BY UniqueTrace
<1> HIDE DEF n
<1>3. f \in [0 .. n -> Seq(T)] /\ f[0] = <<>> /\ f[n] = UniqueOf(s)
  BY <1>2 DEF Makes, Trace
<1>4. ASSUME NEW k \in 1 .. n PROVE k - 1 \in 0 .. n /\ f[k - 1] \in Seq(T) /\ f[k] = AddNew(f[k - 1], s[k])
  <2>1. k - 1 \in 0 .. n /\ f[k - 1] \in Seq(T)
    BY <1>1, <1>3
  <2>2. f[k] = AddingNew(s, T)[<<f[k - 1], k>>]
    BY <1>2 DEF Makes, Trace
  <2> QED
    BY <2>1, <2>2 DEF AddingNew, n
<1> DEFINE S == {k \in 0 .. n : Distinct(f[k]) /\ (k >= 1 => f[k] # <<>> /\ f[k][1] = s[1])}
<1>5. 0 \in S
  BY <1>1, <1>3 DEF Distinct
<1>6. ASSUME NEW k \in 1 .. n, k - 1 \in S PROVE k \in S
  <2>1. f[k - 1] \in Seq(T) /\ Distinct(f[k - 1]) /\ s[k] \in T /\ f[k] = AddNew(f[k - 1], s[k])
    BY <1>1, <1>4, <1>6
  <2> DEFINE a == f[k - 1]
             x == s[k]
  <2>a. a \in Seq(T) /\ Distinct(a) /\ x \in T /\ f[k] = AddNew(a, x)
    BY <2>1
  <2> HIDE DEF a, x
  <2>b. /\ Distinct(AddNew(a, x)) /\ AddNew(a, x) # <<>>
        /\ AddNew(a, x)[1] = IF a = <<>> THEN x ELSE a[1]
    BY <2>a, AddNewIs
  <2>2. /\ Distinct(f[k]) /\ f[k] # <<>>
        /\ f[k][1] = IF f[k - 1] = <<>> THEN s[k] ELSE f[k - 1][1]
    BY <2>a, <2>b DEF a, x
  <2>3. f[k - 1] = <<>> => k = 1
    BY <1>6
  <2>4. k = 1 => f[k - 1] = <<>>
    BY <1>3
  <2>5. f[k][1] = s[1]
    BY <1>6, <2>2, <2>3, <2>4
  <2> QED
    BY <1>1, <2>2, <2>5
<1> HIDE DEF S
<1>7. \A k \in 0 .. n : k \in S
  BY <1>1, <1>5, <1>6, UpTo
<1>8. n \in 0 .. n
  BY <1>1
<1>9. n \in S
  BY <1>7, <1>8
<1> QED
  BY <1>1, <1>3, <1>8, <1>9 DEF S

\* Queries that are all different are as many as they are.
LEMMA DistinctAreMany ==
  ASSUME NEW T, NEW q \in Seq(T), Distinct(q)
  PROVE  Cardinality(ToSet(q)) = Len(q)
<1> DEFINE n == Len(q)
           D == 1 .. n
           U == ToSet(q)
<1>1. n \in Nat /\ q \in [D -> U] /\ \A y \in U : \E x \in D : q[x] = y
  BY DEF ToSet
<1>2. q \in Bijection(D, U)
  BY <1>1 DEF Bijection, Injection, Surjection, IsInjective, Distinct
<1>3. IsFiniteSet(D) /\ Cardinality(D) = n
  <2>1. \A m \in Nat : IsFiniteSet(1 .. m) /\ Cardinality(1 .. m) = m
    BY FirstNumbers
  <2> QED
    BY <1>1, <2>1
<1> HIDE DEF D, U, n
<1>4. Cardinality(D) = Cardinality(U)
  BY <1>2, <1>3, FS_Bijection DEF ExistsBijection
<1> QED
  BY <1>3, <1>4 DEF U, n

----
(* The hints that match *)

MatchStates == [ids : Seq(Nat), stop : BOOLEAN]

Matching == [p \in MatchStates \X (1 .. Len(hintRows)) |-> Match(p[1], p[2])]

\* Of the first k hints, those in acc: in their order, and the limit is met if it ended there.
TakenSoFar(acc, k) ==
  /\ acc \in MatchStates
  /\ acc.stop => Len(acc.ids) >= MaxMatched
  /\ \A j \in 1 .. Len(acc.ids) : acc.ids[j] \in 1 .. k

LEMMA MatchType ==
  ASSUME NEW a \in MatchStates, NEW k \in Nat
  PROVE  Match(a, k) \in MatchStates
<1> DEFINE ids == Append(a.ids, k)
           stop == Len(a.ids) + 1 >= MaxMatched
<1>1. a.ids \in Seq(Nat)
  BY DEF MatchStates
<1>2. ids \in Seq(Nat) /\ stop \in BOOLEAN
  BY <1>1
<1> HIDE DEF ids, stop
<1>3. [ids |-> ids, stop |-> stop] \in MatchStates
  BY <1>2 DEF MatchStates
<1> QED
  BY <1>3 DEF Match, ids, stop

\* The trace of match_domain_hints.
LEMMA MatchTrace ==
  ASSUME hintRows \in Seq(HintKinds)
  PROVE  \E f : Makes(f, Len(hintRows), MatchStates, NoneMatched, Matching,
                      FoldLeft(Match, NoneMatched, [i \in DOMAIN hintRows |-> i]))
<1> DEFINE n == Len(hintRows)
           s == [i \in DOMAIN hintRows |-> i]
           step == Matching
<1>1. n \in Nat /\ DOMAIN s = 1 .. n /\ \A k \in 1 .. n : k \in Nat /\ s[k] = k
  OBVIOUS
<1>0. NoneMatched \in MatchStates
  <2>1. <<>> \in Seq(Nat)
    OBVIOUS
  <2> QED
    BY <2>1 DEF NoneMatched, MatchStates
<1>b. \A a \in MatchStates, k \in 1 .. n : step[<<a, k>>] = Match(a, k)
  BY DEF Matching
<1>3. \A a \in MatchStates, k \in 1 .. n : step[<<a, k>>] = Match(a, s[k])
  <2> HIDE DEF n, step, s
  <2> TAKE a \in MatchStates, k \in 1 .. n
  <2>1. s[k] = k
    BY <1>1
  <2> QED
    BY <1>b, <2>1
<1>2. Closed(step, n, MatchStates)
  <2> HIDE DEF n, step, s
  <2> QED
    BY <1>1, <1>b, MatchType DEF Closed
<1> HIDE DEF n, step, s
<1>4. PICK it \in [SUBSET (1 .. n) -> MatchStates] : Iterates(it, n, NoneMatched, step)
  BY <1>0, <1>1, <1>2, IterExists
<1>5. ASSUME NEW x \in SUBSET (1 .. n), x # {} PROVE Max(x) \in 1 .. n /\ x \ {Max(x)} \in SUBSET (1 .. n)
  BY <1>1, <1>5, MaxIn
<1>6. it = [x \in SUBSET DOMAIN s |-> IF x = {} THEN NoneMatched ELSE Match(it[x \ {Max(x)}], s[Max(x)])]
  BY <1>1, <1>3, <1>4, <1>5 DEF Iterates
<1>7. \E h : FoldLeft(Match, NoneMatched, s) = h[DOMAIN s] /\
             h = [x \in SUBSET DOMAIN s |-> IF x = {} THEN NoneMatched ELSE Match(h[x \ {Max(x)}], s[Max(x)])]
  BY <1>6 DEF FoldLeft, MapThenFoldSet
<1>8. PICK h : FoldLeft(Match, NoneMatched, s) = h[DOMAIN s] /\
             h = [x \in SUBSET DOMAIN s |-> IF x = {} THEN NoneMatched ELSE Match(h[x \ {Max(x)}], s[Max(x)])]
  BY <1>7
<1>9. h[{}] = NoneMatched /\ \A x \in SUBSET (1 .. n) : x # {} => h[x] = Match(h[x \ {Max(x)}], s[Max(x)])
  BY <1>1, <1>8
<1>10. Recurs(h, n, MatchStates, NoneMatched, step)
  BY <1>3, <1>5, <1>9 DEF Recurs
<1>11. \E f : Makes(f, n, MatchStates, NoneMatched, step, h[1 .. n])
  BY <1>0, <1>1, <1>2, <1>10, IterTrace
<1> QED
  BY <1>1, <1>8, <1>11 DEF n, step, s

\* What a hint does in its turn.
LEMMA MatchIs ==
  ASSUME NEW k \in Nat, k >= 1, NEW a, TakenSoFar(a, k - 1)
  PROVE  /\ TakenSoFar(Match(a, k), k)
         /\ Match(a, k).ids = a.ids \/ Match(a, k).ids = Append(a.ids, k)
         /\ hintRows[k].enabled /\ hintRows[k].found # "no" =>
              \/ Len(a.ids) >= MaxMatched
              \/ HintTokens(a.ids) + hintRows[k].tokens > MaxHintTokens
              \/ Match(a, k).ids = Append(a.ids, k)
<1> DEFINE b == Append(a.ids, k)
           new == [ids |-> b, stop |-> Len(a.ids) + 1 >= MaxMatched]
<1>1. a.ids \in Seq(Nat) /\ a.stop \in BOOLEAN /\ Len(a.ids) \in Nat /\ a \in MatchStates
  BY DEF TakenSoFar, MatchStates
<1>2. b \in Seq(Nat) /\ Len(b) = Len(a.ids) + 1 /\ b[Len(a.ids) + 1] = k /\ \A j \in 1 .. Len(a.ids) : b[j] = a.ids[j]
  BY <1>1
<1>3. TakenSoFar(a, k)
  <2>1. \A j \in 1 .. k - 1 : j \in 1 .. k
    OBVIOUS
  <2> QED
    BY <2>1 DEF TakenSoFar
<1> HIDE DEF b
<1>4. new \in MatchStates /\ new.ids = b /\ (new.stop <=> Len(a.ids) + 1 >= MaxMatched)
  <2> DEFINE full == Len(a.ids) + 1 >= MaxMatched
  <2>1. full \in BOOLEAN
    OBVIOUS
  <2> HIDE DEF full
  <2>2. [ids |-> b, stop |-> full] \in MatchStates
    BY <1>2, <2>1 DEF MatchStates
  <2> QED
    BY <2>2 DEF full
<1>5. TakenSoFar(new, k)
  <2>1. \A j \in 1 .. Len(b) : b[j] \in 1 .. k
    <3> TAKE j \in 1 .. Len(b)
    <3>1. CASE j \in 1 .. Len(a.ids)
      BY <1>2, <1>3, <3>1 DEF TakenSoFar
    <3>2. CASE j = Len(a.ids) + 1
      BY <1>2, <3>2
    <3> QED
      BY <1>1, <1>2, <3>1, <3>2
  <2> HIDE DEF new
  <2>2. new.stop => Len(new.ids) >= MaxMatched
    BY <1>2, <1>4
  <2> QED
    BY <1>4, <2>1, <2>2 DEF TakenSoFar
<1>6. CASE a.stop \/ ~hintRows[k].enabled \/ hintRows[k].found = "no"
  <2>1. Match(a, k) = a
    BY <1>6 DEF Match
  <2> QED
    BY <1>3, <1>6, <2>1 DEF TakenSoFar
<1>7. CASE ~(a.stop \/ ~hintRows[k].enabled \/ hintRows[k].found = "no") /\ HintTokens(a.ids) + hintRows[k].tokens > MaxHintTokens
  <2>1. Match(a, k) = a
    BY <1>7 DEF Match
  <2> QED
    BY <1>3, <1>7, <2>1
<1>8. CASE ~(a.stop \/ ~hintRows[k].enabled \/ hintRows[k].found = "no") /\ ~(HintTokens(a.ids) + hintRows[k].tokens > MaxHintTokens)
  <2>1. Match(a, k) = new
    BY <1>8 DEF Match, b
  <2> HIDE DEF new
  <2> QED
    BY <1>4, <1>5, <2>1 DEF b
<1> QED
  BY <1>6, <1>7, <1>8

\* b has what a has, and then only later hints than the j-th.
GoesOn(a, b, j) ==
  /\ Len(a) <= Len(b)
  /\ \A i \in 1 .. Len(a) : b[i] = a[i]
  /\ \A i \in Len(a) + 1 .. Len(b) : b[i] > j

\* A list of hints that goes on from another still does with one more behind it.
LEMMA GoesOnAppend ==
  ASSUME NEW a \in Seq(Nat), NEW b \in Seq(Nat), NEW j \in Nat, NEW k \in Nat, k > j, GoesOn(a, b, j)
  PROVE  GoesOn(a, Append(b, k), j)
<1> DEFINE c == Append(b, k)
<1>1. /\ Len(c) = Len(b) + 1 /\ c[Len(b) + 1] = k /\ (\A i \in 1 .. Len(b) : c[i] = b[i])
      /\ Len(a) \in Nat /\ Len(b) \in Nat
  OBVIOUS
<1> HIDE DEF c
<1>2. Len(a) <= Len(c) /\ \A i \in 1 .. Len(a) : i \in 1 .. Len(b)
  BY <1>1 DEF GoesOn
<1>3. \A i \in 1 .. Len(a) : c[i] = a[i]
  BY <1>1, <1>2 DEF GoesOn
<1>4. ASSUME NEW i \in Len(a) + 1 .. Len(c) PROVE c[i] > j
  <2>1. CASE i = Len(b) + 1
    BY <1>1, <2>1
  <2>2. CASE i # Len(b) + 1
    <3>1. i \in Len(a) + 1 .. Len(b) /\ i \in 1 .. Len(b)
      BY <1>1, <2>2
    <3> QED
      BY <1>1, <3>1 DEF GoesOn
  <2> QED
    BY <2>1, <2>2
<1> QED
  BY <1>2, <1>3, <1>4 DEF GoesOn, c

\* What was matched after each hint: known up to there, and only added to after.
MatchSteps(f, n) ==
  /\ \A k \in 0 .. n : TakenSoFar(f[k], k)
  /\ \A k \in 1 .. n : f[k] = Match(f[k - 1], k)
  /\ \A j, k \in 0 .. n : j <= k => GoesOn(f[j].ids, f[k].ids, j)

\* What the trace says, hint by hint.
LEMMA MatchStepsExist ==
  ASSUME hintRows \in Seq(HintKinds)
  PROVE  \E f : MatchSteps(f, Len(hintRows)) /\ Matched = f[Len(hintRows)].ids
<1> DEFINE n == Len(hintRows)
<1>1. n \in Nat
  OBVIOUS
<1>2. PICK f : Makes(f, n, MatchStates, NoneMatched, Matching,
                     FoldLeft(Match, NoneMatched, [i \in DOMAIN hintRows |-> i]))
  BY MatchTrace
<1>3. f \in [0 .. n -> MatchStates] /\ f[0] = NoneMatched /\ Matched = f[n].ids
  BY <1>2 DEF Makes, Trace, Matched
<1>4. ASSUME NEW k \in 1 .. n PROVE k - 1 \in 0 .. n /\ k \in 0 .. n /\ f[k] = Match(f[k - 1], k)
  <2>1. k - 1 \in 0 .. n /\ f[k - 1] \in MatchStates
    BY <1>1, <1>3
  <2>2. f[k] = Matching[<<f[k - 1], k>>]
    BY <1>2 DEF Makes, Trace
  <2> QED
    BY <2>1, <2>2 DEF Matching
<1> HIDE DEF n
<1> DEFINE S == {k \in 0 .. n : TakenSoFar(f[k], k)}
<1>5. 0 \in S
  <2>1. TakenSoFar(NoneMatched, 0)
    <3>1. <<>> \in Seq(Nat) /\ Len(<<>>) = 0
      OBVIOUS
    <3> QED
      BY <3>1 DEF TakenSoFar, NoneMatched, MatchStates
  <2> QED
    BY <1>1, <1>3, <2>1
<1>6. ASSUME NEW k \in 1 .. n, k - 1 \in S PROVE k \in S
  <2>1. TakenSoFar(f[k - 1], k - 1) /\ f[k] = Match(f[k - 1], k) /\ k \in Nat /\ k >= 1 /\ k \in 0 .. n
    BY <1>4, <1>6
  <2> QED
    BY <2>1, MatchIs
<1>7. \A k \in 0 .. n : TakenSoFar(f[k], k)
  <2> HIDE DEF S
  <2>1. \A k \in 0 .. n : k \in S
    BY <1>1, <1>5, <1>6, UpTo
  <2> QED
    BY <2>1 DEF S
<1> HIDE DEF S
<1>8. \A k \in 0 .. n : f[k].ids \in Seq(Nat) /\ Len(f[k].ids) \in Nat
  BY <1>7 DEF TakenSoFar, MatchStates
<1>9. ASSUME NEW j \in 0 .. n PROVE \A k \in 0 .. n : j <= k => GoesOn(f[j].ids, f[k].ids, j)
  <2> DEFINE U == {k \in 0 .. n : j <= k => GoesOn(f[j].ids, f[k].ids, j)}
  <2>1. GoesOn(f[j].ids, f[j].ids, j) /\ j \in Nat
    BY <1>8, <1>9 DEF GoesOn
  <2>2. 0 \in U
    <3>1. 0 \in 0 .. n /\ (j <= 0 => j = 0)
      BY <1>1, <1>9
    <3> QED
      BY <2>1, <3>1
  <2>3. ASSUME NEW k \in 1 .. n, k - 1 \in U PROVE k \in U
    <3>1. CASE j > k
      BY <1>4, <2>1, <3>1
    <3>2. CASE j = k
      BY <1>4, <2>1, <3>2
    <3>3. CASE j < k
      <4>1. GoesOn(f[j].ids, f[k - 1].ids, j) /\ k - 1 \in 0 .. n /\ k \in Nat
        BY <2>1, <2>3, <3>3
      <4>2. f[k].ids = f[k - 1].ids \/ f[k].ids = Append(f[k - 1].ids, k)
        <5> DEFINE a == f[k - 1]
        <5>1. k \in Nat /\ k >= 1 /\ TakenSoFar(a, k - 1) /\ f[k] = Match(a, k)
          BY <1>4, <1>7, <4>1
        <5> HIDE DEF a
        <5>2. Match(a, k).ids = a.ids \/ Match(a, k).ids = Append(a.ids, k)
          BY <5>1, MatchIs
        <5> QED
          BY <5>1, <5>2 DEF a
      <4>3. f[j].ids \in Seq(Nat) /\ f[k - 1].ids \in Seq(Nat)
        BY <1>8, <4>1
      <4>4. GoesOn(f[j].ids, f[k].ids, j)
        BY <2>1, <3>3, <4>1, <4>2, <4>3, GoesOnAppend
      <4> QED
        BY <1>4, <4>4
    <3> QED
      BY <2>1, <3>1, <3>2, <3>3
  <2> HIDE DEF U
  <2>4. \A k \in 0 .. n : k \in U
    BY <1>1, <2>2, <2>3, UpTo
  <2> QED
    BY <2>4 DEF U
<1>10. MatchSteps(f, n)
  BY <1>4, <1>7, <1>9 DEF MatchSteps
<1> QED
  BY <1>3, <1>10 DEF n

\* The first places picked give the beginning of a sequence.
LEMMA PickedPrefix ==
  ASSUME NEW T, NEW a \in Seq(T), NEW s, \A i \in 1 .. Len(a) : s[i] = a[i]
  PROVE  Picked(s, 1 .. Len(a)) = a
<1> DEFINE n == Len(a)
           D == 1 .. n
<1>1. n \in Nat /\ a = [i \in D |-> a[i]]
  OBVIOUS
<1>a. \A m \in Nat : IsFiniteSet(1 .. m) /\ Cardinality(1 .. m) = m
  BY FirstNumbers
<1>2. Cardinality(D) = n
  BY <1>1, <1>a
<1>3. ASSUME NEW m \in D PROVE Nth(D, m) = m
  <2>1. ASSUME NEW k \in D PROVE Cardinality({j \in D : j < k}) = k - 1
    <3>1. {j \in D : j < k} = 1 .. k - 1 /\ k - 1 \in Nat
      BY <1>1
    <3> QED
      BY <1>a, <3>1
  <2> HIDE DEF D, n
  <2>2. \A k \in D : Cardinality({j \in D : j < k}) = m - 1 <=> k = m
    BY <1>1, <1>3, <2>1 DEF D
  <2>3. m = CHOOSE k \in D : Cardinality({j \in D : j < k}) = m - 1
    BY <1>3, <2>2
  <2> QED
    BY <2>3 DEF Nth
<1>4. Picked(s, D) = [m \in 1 .. Cardinality(D) |-> s[Nth(D, m)]]
  BY DEF Picked
<1>5. \A m \in D : s[Nth(D, m)] = a[m]
  BY <1>3
<1> HIDE DEF D
<1>6. Picked(s, D) = [m \in D |-> a[m]]
  BY <1>2, <1>4, <1>5 DEF D
<1> QED
  BY <1>1, <1>6 DEF D

\* A hint that is left out met a limit in its turn: what was taken before it is the list then.
LEMMA HintsHaveTheirTurnHolds ==
  ASSUME hintRows \in Seq(HintKinds)
  PROVE  HintsHaveTheirTurn
<1> DEFINE n == Len(hintRows)
           m == Matched
<1>1. n \in Nat /\ DOMAIN hintRows = 1 .. n
  OBVIOUS
<1>2. PICK f : MatchSteps(f, n) /\ m = f[n].ids
  BY MatchStepsExist
<1> HIDE DEF m, n
<1>3. ASSUME NEW i \in 1 .. n, hintRows[i].enabled, hintRows[i].found # "no"
      PROVE  LET before == Picked(m, {k \in DOMAIN m : m[k] < i})
             IN \/ Contains(m, i)
                \/ Len(before) >= MaxMatched
                \/ HintTokens(before) + hintRows[i].tokens > MaxHintTokens
  <2> DEFINE a == f[i - 1]
             b == f[i]
  <2>1. i - 1 \in 0 .. n /\ i \in 0 .. n /\ n \in 0 .. n /\ i \in Nat /\ i >= 1 /\ i - 1 \in Nat
    BY <1>1, <1>3
  <2>2. TakenSoFar(a, i - 1) /\ b = Match(a, i) /\ TakenSoFar(b, i) /\ TakenSoFar(f[n], n)
    BY <1>2, <2>1 DEF MatchSteps
  <2>3. GoesOn(a.ids, m, i - 1) /\ GoesOn(b.ids, m, i)
    BY <1>1, <1>2, <2>1 DEF MatchSteps
  <2>4. a.ids \in Seq(Nat) /\ b.ids \in Seq(Nat) /\ m \in Seq(Nat)
    BY <1>2, <2>2 DEF TakenSoFar, MatchStates
  <2> HIDE DEF a, b
  <2>5. {k \in DOMAIN m : m[k] < i} = 1 .. Len(a.ids)
    <3>1. DOMAIN m = 1 .. Len(m) /\ Len(m) \in Nat /\ Len(a.ids) \in Nat /\ Len(a.ids) <= Len(m)
      BY <2>3, <2>4 DEF GoesOn
    <3>2. ASSUME NEW k \in 1 .. Len(a.ids) PROVE m[k] < i /\ k \in DOMAIN m
      <4>1. m[k] = a.ids[k] /\ a.ids[k] \in 1 .. i - 1
        BY <2>2, <2>3, <3>2 DEF GoesOn, TakenSoFar
      <4> QED
        BY <2>1, <3>1, <4>1
    <3>3. ASSUME NEW k \in Len(a.ids) + 1 .. Len(m) PROVE ~(m[k] < i)
      <4>1. m[k] > i - 1 /\ k \in 1 .. Len(m)
        BY <2>3, <3>1, <3>3 DEF GoesOn
      <4>2. m[k] \in Nat
        BY <2>4, <4>1
      <4> QED
        BY <2>1, <4>1, <4>2
    <3>4. \A k \in 1 .. Len(m) : k \in 1 .. Len(a.ids) \/ k \in Len(a.ids) + 1 .. Len(m)
      BY <3>1
    <3> QED
      BY <3>1, <3>2, <3>3, <3>4
  <2>6. Picked(m, 1 .. Len(a.ids)) = a.ids
    BY <2>3, <2>4, PickedPrefix DEF GoesOn
  <2>7. \/ Len(a.ids) >= MaxMatched
        \/ HintTokens(a.ids) + hintRows[i].tokens > MaxHintTokens
        \/ b.ids = Append(a.ids, i)
    BY <1>3, <2>1, <2>2, MatchIs
  <2>8. b.ids = Append(a.ids, i) => Contains(m, i)
    <3> SUFFICES ASSUME b.ids = Append(a.ids, i) PROVE Contains(m, i)
      OBVIOUS
    <3>1. Len(b.ids) = Len(a.ids) + 1 /\ b.ids[Len(a.ids) + 1] = i /\ Len(a.ids) \in Nat /\ Len(m) \in Nat
      BY <2>4
    <3>2. Len(a.ids) + 1 \in 1 .. Len(b.ids) /\ Len(b.ids) <= Len(m)
      BY <2>3, <3>1 DEF GoesOn
    <3>3. m[Len(a.ids) + 1] = i
      BY <2>3, <3>1, <3>2 DEF GoesOn
    <3> QED
      BY <3>1, <3>2, <3>3 DEF Contains
  <2> QED
    BY <2>5, <2>6, <2>7, <2>8
<1> QED
  BY <1>1, <1>3 DEF HintsHaveTheirTurn, m

----
(* The question is asked *)

\* What may be searched for.
Wanted == {<<"question">>} \cup {<<"with", i>> : i \in 1 .. Len(hintRows)}
          \cup (UNION {ToSet(h.expansions) : h \in HintKinds}) \cup (UNION {ToSet(a) : a \in Answers})

\* Queries, the question first among them.
Asking(q) == q \in Seq(Wanted) /\ q # <<>> /\ q[1] = <<"question">>

\* What hints add to a question leaves it at the front.
LEMMA ExpansionIs ==
  ASSUME hintRows \in Seq(HintKinds), NEW i \in 1 .. Len(hintRows)
  PROVE  Expansion(i) \in Seq(Wanted)
<1> DEFINE h == hintRows[i]
           w == <<"with", i>>
           x == h.expansions
<1>1. h \in HintKinds
  OBVIOUS
<1>2. x \in Seq(ToSet(x))
  BY <1>1, HintAssumption
<1>3. ToSet(x) \subseteq Wanted
  BY <1>1 DEF Wanted
<1>4. x \in Seq(Wanted)
  BY <1>2, <1>3
<1>5. w \in Wanted
  BY DEF Wanted
<1> HIDE DEF w, x
<1>6. <<w>> \in Seq(Wanted) /\ <<>> \in Seq(Wanted)
  BY <1>5
<1>7. <<w>> \o x \in Seq(Wanted) /\ <<>> \o x \in Seq(Wanted)
  BY <1>4, <1>6
<1> QED
  BY <1>7 DEF Expansion, w, x

Expanding(s) == [p \in {q \in Seq(Wanted) : Asking(q)} \X (1 .. Len(s)) |-> Expanded(p[1], s[p[2]])]

LEMMA ExpandedIs ==
  ASSUME hintRows \in Seq(HintKinds), NEW q, Asking(q), NEW i \in 1 .. Len(hintRows)
  PROVE  Asking(Expanded(q, i))
<1> DEFINE x == Expansion(i)
<1>1. x \in Seq(Wanted)
  BY ExpansionIs
<1> HIDE DEF x
<1>2. q \o x \in Seq(Wanted) /\ q \o x # <<>> /\ (q \o x)[1] = <<"question">>
  BY <1>1 DEF Asking
<1> QED
  BY <1>2 DEF Asking, Expanded, x

LEMMA ExpandedAsk ==
  ASSUME hintRows \in Seq(HintKinds), NEW s \in Seq(1 .. Len(hintRows))
  PROVE  Asking(FoldLeft(Expanded, <<<<"question">>>>, s))
<1> DEFINE n == Len(s)
           A == {q \in Seq(Wanted) : Asking(q)}
           start == <<<<"question">>>>
           step == Expanding(s)
<1>1. n \in Nat /\ DOMAIN s = 1 .. n /\ \A k \in 1 .. n : s[k] \in 1 .. Len(hintRows)
  OBVIOUS
<1>0. start \in A
  <2>1. <<"question">> \in Wanted
    BY DEF Wanted
  <2>2. start \in Seq(Wanted) /\ start # <<>> /\ start[1] = <<"question">>
    BY <2>1
  <2> QED
    BY <2>2 DEF Asking
<1>3. \A a \in A, k \in 1 .. n : step[<<a, k>>] = Expanded(a, s[k])
  BY DEF Expanding
<1>2. Closed(step, n, A)
  <2>1. ASSUME NEW a \in A, NEW k \in 1 .. n PROVE Expanded(a, s[k]) \in A
    <3>1. Asking(Expanded(a, s[k]))
      BY <1>1, ExpandedIs
    <3> QED
      BY <3>1 DEF Asking
  <2> HIDE DEF A, step, n
  <2> QED
    BY <1>3, <2>1 DEF Closed
<1> HIDE DEF n, step, A, start
<1>4. PICK it \in [SUBSET (1 .. n) -> A] : Iterates(it, n, start, step)
  BY <1>0, <1>1, <1>2, IterExists
<1>5. ASSUME NEW x \in SUBSET (1 .. n), x # {} PROVE Max(x) \in 1 .. n /\ x \ {Max(x)} \in SUBSET (1 .. n)
  BY <1>1, <1>5, MaxIn
<1>6. it = [x \in SUBSET DOMAIN s |-> IF x = {} THEN start ELSE Expanded(it[x \ {Max(x)}], s[Max(x)])]
  BY <1>1, <1>3, <1>4, <1>5 DEF Iterates
<1>7. \E h : FoldLeft(Expanded, start, s) = h[DOMAIN s] /\
             h = [x \in SUBSET DOMAIN s |-> IF x = {} THEN start ELSE Expanded(h[x \ {Max(x)}], s[Max(x)])]
  BY <1>6 DEF FoldLeft, MapThenFoldSet
<1>8. PICK h : FoldLeft(Expanded, start, s) = h[DOMAIN s] /\
             h = [x \in SUBSET DOMAIN s |-> IF x = {} THEN start ELSE Expanded(h[x \ {Max(x)}], s[Max(x)])]
  BY <1>7
<1>9. h[{}] = start /\ \A x \in SUBSET (1 .. n) : x # {} => h[x] = Expanded(h[x \ {Max(x)}], s[Max(x)])
  BY <1>1, <1>8
<1>10. Recurs(h, n, A, start, step)
  BY <1>3, <1>5, <1>9 DEF Recurs
<1>11. PICK f : Makes(f, n, A, start, step, h[1 .. n])
  BY <1>0, <1>1, <1>2, <1>10, IterTrace
<1>12. h[1 .. n] \in A
  <2>1. n \in 0 .. n
    BY <1>1
  <2> QED
    BY <1>11, <2>1 DEF Makes
<1> QED
  BY <1>1, <1>8, <1>12 DEF A, start

\* Queries to search with: the question first, none twice, no more than the limit.
Fit(q) == Asking(q) /\ Distinct(q) /\ Len(q) <= MaxQueries

\* Unique and cut, the queries still begin with the question.
LEMMA FitQueries ==
  ASSUME NEW q, Asking(q)
  PROVE  Fit(Cut(UniqueOf(q), MaxQueries))
<1> DEFINE u == UniqueOf(q)
           m == MaxQueries
           c == Cut(u, m)
<1>1. q \in Seq(Wanted) /\ q # <<>> /\ q[1] = <<"question">>
  BY DEF Asking
<1>2. u \in Seq(Wanted) /\ Distinct(u) /\ u # <<>> /\ u[1] = <<"question">>
  BY <1>1, UniqueIs
<1>3. m \in Nat /\ m > 0
  BY RewriteAssumption
<1> HIDE DEF u, m
<1>4. /\ c \in Seq(Wanted) /\ Len(c) = Least(Len(u), m) /\ Least(Len(u), m) \in 0 .. Len(u)
      /\ Least(Len(u), m) <= m
      /\ \A k \in 1 .. Least(Len(u), m) : c[k] = u[k]
  BY <1>2, <1>3, CutIs
<1>5. Len(c) >= 1 /\ Len(c) <= m /\ Len(c) \in Nat
  BY <1>2, <1>3, <1>4 DEF Least
<1>6. \A k \in 1 .. Len(c) : c[k] = u[k] /\ k \in 1 .. Len(u)
  BY <1>2, <1>4, <1>5
<1> HIDE DEF c
<1>7. Distinct(c)
  BY <1>2, <1>6 DEF Distinct
<1>8. c # <<>> /\ c[1] = <<"question">>
  <2>1. 1 \in 1 .. Len(c)
    BY <1>5
  <2> QED
    BY <1>2, <1>5, <1>6, <2>1
<1> QED
  BY <1>4, <1>5, <1>7, <1>8 DEF Fit, Asking, c, u, m

\* The queries of the hints, and with what the model returns.
LEMMA QueriesFit ==
  ASSUME hintRows \in Seq(HintKinds)
  PROVE  Fit(HintQueries) /\ \A a \in Answers : Fit(AllQueries(a))
<1>1. Matched \in Seq(1 .. Len(hintRows))
  <2>1. PICK f : MatchSteps(f, Len(hintRows)) /\ Matched = f[Len(hintRows)].ids
    BY MatchStepsExist
  <2>2. Len(hintRows) \in Nat /\ Len(hintRows) \in 0 .. Len(hintRows)
    OBVIOUS
  <2>3. TakenSoFar(f[Len(hintRows)], Len(hintRows))
    BY <2>1, <2>2 DEF MatchSteps
  <2>4. Matched \in Seq(Nat) /\ \A j \in 1 .. Len(Matched) : Matched[j] \in 1 .. Len(hintRows)
    BY <2>1, <2>3 DEF TakenSoFar, MatchStates
  <2> QED
    BY <2>4
<1>2. Asking(FoldLeft(Expanded, <<<<"question">>>>, Matched))
  BY <1>1, ExpandedAsk
<1>3. Fit(HintQueries)
  BY <1>2, FitQueries DEF HintQueries
<1>4. ASSUME NEW a \in Answers PROVE Fit(AllQueries(a))
  <2>a. a \in Seq(ToSet(a))
    BY HintAssumption
  <2>b. ToSet(a) \subseteq Wanted
    BY DEF Wanted
  <2>1. a \in Seq(ToSet(a)) /\ ToSet(a) \subseteq Wanted
    BY <2>a, <2>b
  <2>2. a \in Seq(Wanted)
    BY <2>1
  <2> DEFINE q == HintQueries
  <2>3. Asking(q)
    BY <1>3 DEF Fit
  <2> HIDE DEF q
  <2>4. q \o a \in Seq(Wanted) /\ q \o a # <<>> /\ (q \o a)[1] = <<"question">>
    BY <2>2, <2>3 DEF Asking
  <2>5. Asking(q \o a)
    BY <2>4 DEF Asking
  <2> QED
    BY <2>5, FitQueries DEF AllQueries, q
<1> QED
  BY <1>3, <1>4

LEMMA FitAsks ==
  ASSUME NEW q, Fit(q)
  PROVE  q # <<>> /\ q[1] = <<"question">> /\ Cardinality(ToSet(q)) = Len(q) /\ Len(q) <= MaxQueries
BY DistinctAreMany DEF Fit, Asking

----
(* What the model is shown *)

LEMMA FromIs ==
  ASSUME NEW T, NEW s \in Seq(T), NEW k \in 1 .. Len(s) + 1
  PROVE  /\ From(s, k) \in Seq(T) /\ Len(From(s, k)) = Len(s) - k + 1
         /\ \A i \in 1 .. Len(s) - k + 1 : From(s, k)[i] = s[k + i - 1]
BY DEF From

LEMMA FromSuffix ==
  ASSUME NEW T, NEW s \in Seq(T), NEW k \in 1 .. Len(s) + 1
  PROVE  IsSuffix(From(s, k), s)
<1> DEFINE u == From(s, k)
           n == Len(s)
           m == n - k + 1
           ru == [i \in 1 .. m |-> u[m - i + 1]]
           rs == [i \in 1 .. n |-> s[n - i + 1]]
<1>1. n \in Nat /\ m \in Nat /\ m <= n /\ k \in Nat
  OBVIOUS
<1>2. u \in Seq(T) /\ Len(u) = m /\ \A i \in 1 .. m : u[i] = s[k + i - 1]
  BY FromIs
<1> HIDE DEF u
<1>3. Reverse(u) = ru /\ Reverse(s) = rs
  BY <1>2 DEF Reverse
<1>4. ru \in Seq(T) /\ Len(ru) = m
  <2>1. \A i \in 1 .. m : m - i + 1 \in 1 .. m
    BY <1>1
  <2>2. \A i \in 1 .. m : u[m - i + 1] \in T
    BY <1>2, <2>1
  <2> QED
    BY <1>1, <2>2
<1>5. rs \in Seq(T) /\ Len(rs) = n
  <2>1. \A i \in 1 .. n : n - i + 1 \in 1 .. n
    BY <1>1
  <2>2. \A i \in 1 .. n : s[n - i + 1] \in T
    BY <2>1
  <2> QED
    BY <1>1, <2>2
<1>6. \A i \in 1 .. m : ru[i] = rs[i]
  <2> TAKE i \in 1 .. m
  <2>1. m - i + 1 \in 1 .. m /\ i \in 1 .. n /\ k + (m - i + 1) - 1 = n - i + 1
    BY <1>1
  <2>2. u[m - i + 1] = s[n - i + 1]
    BY <1>2, <2>1
  <2> QED
    BY <2>1, <2>2
<1> HIDE DEF ru, rs, m, n
<1>7. SubSeq(ru, 1, Len(ru)) = SubSeq(rs, 1, Len(ru))
  BY <1>1, <1>4, <1>5, <1>6
<1> QED
  BY <1>1, <1>3, <1>4, <1>5, <1>7 DEF IsSuffix, IsPrefix, u

\* A tail of a tail is a tail.
LEMMA FromFrom ==
  ASSUME NEW T, NEW s \in Seq(T), NEW k \in 1 .. Len(s) + 1, NEW j \in 1 .. Len(s) - k + 2
  PROVE  From(From(s, k), j) = From(s, k + j - 1) /\ k + j - 1 \in 1 .. Len(s) + 1
<1> DEFINE u == From(s, k)
           v == From(u, j)
           w == From(s, k + j - 1)
<1>1. Len(s) \in Nat /\ k \in Nat /\ j \in Nat /\ k + j - 1 \in 1 .. Len(s) + 1
  OBVIOUS
<1>2. u \in Seq(T) /\ Len(u) = Len(s) - k + 1 /\ \A i \in 1 .. Len(s) - k + 1 : u[i] = s[k + i - 1]
  BY FromIs
<1>3. w \in Seq(T) /\ Len(w) = Len(s) - (k + j - 1) + 1
      /\ \A i \in 1 .. Len(s) - (k + j - 1) + 1 : w[i] = s[(k + j - 1) + i - 1]
  BY <1>1, FromIs
<1> HIDE DEF u, w
<1>4. j \in 1 .. Len(u) + 1
  BY <1>1, <1>2
<1>5. v \in Seq(T) /\ Len(v) = Len(u) - j + 1 /\ \A i \in 1 .. Len(u) - j + 1 : v[i] = u[j + i - 1]
  BY <1>2, <1>4, FromIs
<1> HIDE DEF v
<1>6. Len(v) = Len(w)
  BY <1>1, <1>2, <1>3, <1>5
<1>7. ASSUME NEW i \in 1 .. Len(v) PROVE v[i] = w[i]
  <2>1. /\ i \in 1 .. Len(u) - j + 1 /\ j + i - 1 \in 1 .. Len(s) - k + 1
        /\ i \in 1 .. Len(s) - (k + j - 1) + 1 /\ k + (j + i - 1) - 1 = (k + j - 1) + i - 1
    BY <1>1, <1>2, <1>5, <1>7
  <2>2. v[i] = u[j + i - 1] /\ u[j + i - 1] = s[k + (j + i - 1) - 1] /\ w[i] = s[(k + j - 1) + i - 1]
    BY <1>2, <1>3, <1>5, <2>1
  <2> QED
    BY <2>1, <2>2
<1>8. v = w
  <2>1. v = [i \in 1 .. Len(v) |-> v[i]]
    BY <1>5
  <2>2. w = [i \in 1 .. Len(w) |-> w[i]]
    BY <1>3
  <2> QED
    BY <1>6, <1>7, <2>1, <2>2
<1> QED
  BY <1>1, <1>8 DEF u, v, w

\* Tokens of a text are a number: one at most where the text is of one character.
LEMMA TokensNat ==
  ASSUME NEW c \in Nat
  PROVE  Tokens(c) \in Nat /\ (c <= 1 => Tokens(c) <= 1)
<1>1. PICK d \in Nat : d = CharsPerToken /\ d >= 1
  BY RewriteAssumption
<1>2. c + d - 1 \in Nat
  BY <1>1
<1>3. ASSUME NEW x \in Nat PROVE x \div d \in Nat
  BY <1>1
<1>4. (c + d - 1) \div d \in Nat
  BY <1>2, <1>3
<1>5. c <= 1 => (c + d - 1) \div d <= 1
  <2>1. CASE c = 0
    <3>1. (d - 1) \div d = 0
      BY <1>1
    <3> QED
      BY <1>1, <2>1, <3>1
  <2>2. CASE c = 1
    <3>1. d \div d = 1
      BY <1>1
    <3> QED
      BY <1>1, <2>2, <3>1
  <2> QED
    BY <2>1, <2>2
<1> QED
  BY <1>1, <1>4, <1>5 DEF Tokens

LEMMA TokensOfNat ==
  ASSUME NEW s \in Seq(Messages)
  PROVE  TokensOf(s) \in Nat
<1> DEFINE w == [k \in DOMAIN s |-> Tokens(s[k])]
<1>1. ASSUME NEW k \in DOMAIN s PROVE w[k] \in Nat
  <2>1. s[k] \in Nat
    BY RewriteAssumption
  <2> QED
    BY <2>1, TokensNat
<1>2. w \in [1 .. Len(s) -> Nat] /\ Len(s) \in Nat
  BY <1>1
<1>3. w \in Seq(Nat)
  BY <1>2
<1> QED
  BY <1>3, TotalNat DEF TokensOf

\* From the k-th on they fit beside the question, if any do, and from no earlier one.
IsLatest(n, room, k) ==
  /\ k = Len(n) + 1 \/ Tokens(question) + TokensOf(From(n, k)) <= room
  /\ \A j \in 1 .. k - 1 : Tokens(question) + TokensOf(From(n, j)) > room

\* There is a first message from which they all fit, and from an earlier one they do not.
LEMMA LatestIs ==
  ASSUME question \in Questions, NEW n \in Seq(Messages), NEW room \in Nat
  PROVE  \E k \in 1 .. Len(n) + 1 : Latest(n, room) = From(n, k) /\ IsLatest(n, room, k)
<1> DEFINE l == Len(n) + 1
           Fitting == {k \in 1 .. l : k = l \/ Tokens(question) + TokensOf(From(n, k)) <= room}
<1>1. l \in Nat /\ l \in Fitting
  OBVIOUS
<1>2. ASSUME NEW k \in 1 .. l PROVE k \in Nat /\ Tokens(question) + TokensOf(From(n, k)) \in Nat
  <2>1. From(n, k) \in Seq(Messages)
    BY FromIs
  <2>2. TokensOf(From(n, k)) \in Nat
    BY <2>1, TokensOfNat
  <2>3. question \in Nat
    BY RewriteAssumption
  <2>4. Tokens(question) \in Nat
    BY <2>3, TokensNat
  <2> QED
    BY <2>2, <2>4
<1>3. PICK k \in Fitting : \A j \in Fitting : k <= j
  <2>1. Fitting \subseteq Nat /\ Fitting # {}
    BY <1>1
  <2> HIDE DEF Fitting
  <2> QED
    BY <2>1, LeastOf
<1>4. IsLatest(n, room, k) /\ k \in 1 .. l
  <2>1. k \in 1 .. l /\ (k = l \/ Tokens(question) + TokensOf(From(n, k)) <= room)
    BY <1>3
  <2>2. ASSUME NEW j \in 1 .. k - 1 PROVE Tokens(question) + TokensOf(From(n, j)) > room
    <3>1. j \in 1 .. l /\ j < k /\ j # l /\ ~(k <= j)
      BY <1>1, <2>1, <2>2
    <3>2. j \notin Fitting
      BY <1>3, <3>1
    <3>3. ~(Tokens(question) + TokensOf(From(n, j)) <= room)
      BY <3>1, <3>2
    <3> DEFINE x == Tokens(question) + TokensOf(From(n, j))
    <3>4. x \in Nat
      BY <1>2, <3>1
    <3> HIDE DEF x
    <3> QED
      BY <3>3, <3>4 DEF x
  <2> QED
    BY <2>1, <2>2 DEF IsLatest
<1> HIDE DEF Fitting
<1> DEFINE c == CHOOSE j \in 1 .. l : IsLatest(n, room, j)
<1>5. Latest(n, room) = From(n, c)
  BY DEF Latest, IsLatest
<1>6. c \in 1 .. l /\ IsLatest(n, room, c)
  BY <1>4
<1> HIDE DEF c
<1> QED
  BY <1>5, <1>6

\* What is kept of the ends of a question fits, or is one character of each.
LEMMA EndsIs ==
  ASSUME question \in Questions, NEW room \in Nat, room >= 1
  PROVE  /\ Tokens(question) <= room => Ends(room) = 0
         /\ ~(Tokens(question) <= room) =>
              Ends(room) > 0 /\ (Tokens(2 * Ends(room)) <= room \/ Ends(room) = 1)
<1> DEFINE half == question \div 2
           IsEnd(low) == /\ low = 1 \/ Tokens(2 * low) <= room
                         /\ \A more \in low + 1 .. half : Tokens(2 * more) > room
<1>1. question \in Nat /\ question > 0
  BY RewriteAssumption
<1>2. CASE Tokens(question) <= room
  BY <1>2 DEF Ends
<1>3. CASE ~(Tokens(question) <= room)
  <2>1. question >= 2 /\ half \in Nat /\ half >= 1
    <3>1. ~(question <= 1)
      <4>1. Tokens(question) \in Nat /\ (question <= 1 => Tokens(question) <= 1)
        BY <1>1, TokensNat
      <4> QED
        BY <1>3, <4>1
    <3> QED
      BY <1>1, <3>1
  <2> HIDE DEF half
  <2> DEFINE Fitting == {low \in 1 .. half : low = 1 \/ Tokens(2 * low) <= room}
             top == Max(Fitting)
  <2>2. top \in Fitting /\ \A y \in Fitting : y <= top
    <3>1. Fitting \in SUBSET (1 .. half) /\ 1 \in Fitting
      BY <2>1
    <3> HIDE DEF Fitting
    <3> QED
      BY <2>1, <3>1, MaxIn
  <2>3. top \in 1 .. half /\ (top = 1 \/ Tokens(2 * top) <= room)
    BY <2>2
  <2>4. ASSUME NEW more \in top + 1 .. half PROVE Tokens(2 * more) > room
    <3>1. more \in 1 .. half /\ more > top /\ 2 * more \in Nat /\ top \in Nat
      BY <2>1, <2>3, <2>4
    <3>2. more \notin Fitting
      BY <2>2, <3>1
    <3>3. ~(Tokens(2 * more) <= room)
      BY <3>1, <3>2
    <3>4. Tokens(2 * more) \in Nat
      BY <3>1, TokensNat
    <3> QED
      BY <3>3, <3>4
  <2> HIDE DEF top, Fitting
  <2>5. IsEnd(top)
    BY <2>3, <2>4
  <2>6. Ends(room) = CHOOSE low \in 1 .. half : IsEnd(low)
    BY <1>3 DEF Ends, half
  <2> DEFINE e == CHOOSE low \in 1 .. half : IsEnd(low)
  <2>7. e \in 1 .. half /\ IsEnd(e)
    BY <2>3, <2>5
  <2>8. e \in 1 .. half /\ (e = 1 \/ Tokens(2 * e) <= room)
    BY <2>7
  <2> HIDE DEF e
  <2>9. e > 0
    BY <2>8
  <2> QED
    BY <1>3, <2>6, <2>8, <2>9 DEF e
<1> QED
  BY <1>2, <1>3

\* Of a conversation, the model is shown the latest messages that fit, and of a question that
\* is too long, what fits of both ends.
LEMMA RewriteShows ==
  ASSUME history \in Seq(Messages), question \in Questions, NEW budget \in Budgets \ {0},
         NEW answer, Rewrite(budget, answer)
  PROVE  LET kept == shown'.messages
             more == From(history, Len(history) - Len(kept))
         IN /\ IsSuffix(kept, history)
            /\ Tokens(question) + TokensOf(kept) <= budget \/ kept = <<>>
            /\ Len(kept) < Least(HistoryLimit, Len(history)) => Tokens(question) + TokensOf(more) > budget
            /\ IF Tokens(question) <= budget THEN shown'.ends = 0
               ELSE shown'.ends > 0 /\ (Tokens(2 * shown'.ends) <= budget \/ shown'.ends = 1)
<1> DEFINE n == Len(history)
           a == 1 + IF n > HistoryLimit THEN n - HistoryLimit ELSE 0
           recent == From(history, a)
           room == IF budget > 1 THEN budget ELSE 1
           kept == shown'.messages
           more == From(history, n - Len(kept))
<1>1. budget \in Nat /\ budget >= 1 /\ room = budget /\ HistoryLimit \in Nat /\ n \in Nat
  BY RewriteAssumption
<1>2. shown' = [messages |-> Latest(recent, budget), ends |-> Ends(budget)]
  <2>1. shown' = FitInputs(budget)
    BY DEF Rewrite
  <2>2. FitInputs(budget) = [messages |-> Latest(recent, room), ends |-> Ends(room)]
    BY DEF FitInputs
  <2> QED
    BY <1>1, <2>1, <2>2
<1>3. kept = Latest(recent, budget) /\ shown'.ends = Ends(budget)
  BY <1>2
<1>4. a \in 1 .. n + 1 /\ n - a + 1 = Least(HistoryLimit, n) /\ a \in Nat
  BY <1>1 DEF Least
<1> HIDE DEF n, a, room
<1>5. recent \in Seq(Messages) /\ Len(recent) = n - a + 1
  BY <1>4, FromIs DEF n
<1> HIDE DEF recent
<1>6. PICK k \in 1 .. Len(recent) + 1 : Latest(recent, budget) = From(recent, k) /\ IsLatest(recent, budget, k)
  BY <1>1, <1>5, LatestIs
<1>7. /\ k \in Nat /\ k \in 1 .. n - a + 2
      /\ kept = From(recent, k) /\ Len(kept) = Len(recent) - k + 1
  <2>1. kept = From(recent, k)
    BY <1>3, <1>6
  <2>2. Len(From(recent, k)) = Len(recent) - k + 1
    BY <1>5, <1>6, FromIs
  <2>3. k \in Nat /\ k \in 1 .. n - a + 2
    BY <1>1, <1>4, <1>5, <1>6
  <2> QED
    BY <2>1, <2>2, <2>3
<1> HIDE DEF kept
<1>8. \A j \in 1 .. n - a + 2 : From(recent, j) = From(history, a + j - 1) /\ a + j - 1 \in 1 .. n + 1
  BY <1>4, FromFrom DEF n, recent
<1>9. kept = From(history, a + k - 1) /\ a + k - 1 \in 1 .. n + 1
  BY <1>7, <1>8
<1>10. IsSuffix(kept, history)
  BY <1>9, FromSuffix DEF n
<1>11. Tokens(question) + TokensOf(kept) <= budget \/ kept = <<>>
  <2>1. CASE k = Len(recent) + 1
    <3>1. Len(kept) = 0 /\ kept \in Seq(Messages)
      <4>1. kept \in Seq(Messages)
        BY <1>5, <1>6, <1>7, FromIs
      <4>2. Len(recent) \in Nat
        BY <1>5
      <4> QED
        BY <1>7, <2>1, <4>1, <4>2
    <3> QED
      BY <3>1
  <2>2. CASE k # Len(recent) + 1
    BY <1>6, <1>7, <2>2 DEF IsLatest
  <2> QED
    BY <2>1, <2>2
<1>12. Len(kept) < Least(HistoryLimit, n) => Tokens(question) + TokensOf(more) > budget
  <2> SUFFICES ASSUME Len(kept) < Least(HistoryLimit, n) PROVE Tokens(question) + TokensOf(more) > budget
    OBVIOUS
  <2>1. Len(kept) = n - a + 1 - k + 1 /\ Len(kept) < n - a + 1
    <3>1. Len(kept) = Len(recent) - k + 1 /\ Len(recent) = n - a + 1 /\ n - a + 1 = Least(HistoryLimit, n)
      BY <1>4, <1>5, <1>7
    <3> QED
      BY <1>1, <1>4, <1>7, <3>1
  <2>2. k > 1 /\ k - 1 \in 1 .. k - 1 /\ k - 1 \in 1 .. n - a + 2 /\ a + (k - 1) - 1 = n - Len(kept)
    BY <1>1, <1>4, <1>7, <2>1
  <2>3. Tokens(question) + TokensOf(From(recent, k - 1)) > budget
    BY <1>6, <2>2 DEF IsLatest
  <2>4. From(recent, k - 1) = From(history, n - Len(kept))
    BY <1>8, <2>2
  <2> QED
    BY <2>3, <2>4 DEF more
<1>13. IF Tokens(question) <= budget THEN shown'.ends = 0
       ELSE shown'.ends > 0 /\ (Tokens(2 * shown'.ends) <= budget \/ shown'.ends = 1)
  BY <1>1, <1>3, EndsIs
<1> QED
  BY <1>10, <1>11, <1>12, <1>13 DEF kept, more, n

----
(* Every question *)

QuestionInv ==
  /\ hintRows \in Seq(HintKinds) /\ history \in Seq(Messages) /\ question \in Questions
  /\ AsksTheQuestion

LEMMA QuestionInit ==
  ASSUME RewriteInit
  PROVE  QuestionInv
<1>1. hintRows \in Seq(HintKinds) /\ history \in Seq(Messages)
  BY DEF RewriteInit
<1> QED
  BY <1>1 DEF RewriteInit, QuestionInv, AsksTheQuestion

LEMMA QuestionStep ==
  ASSUME QuestionInv, RewriteNext \/ UNCHANGED rewriteVars
  PROVE  QuestionInv'
<1>1. ASSUME NEW h \in HintKinds, AddHint(h) PROVE QuestionInv'
  <2>1. hintRows' \in Seq(HintKinds)
    BY <1>1 DEF QuestionInv, AddHint
  <2>2. history' = history /\ question' = question /\ queries' = <<>>
    BY <1>1 DEF AddHint
  <2> QED
    BY <2>1, <2>2 DEF QuestionInv, AsksTheQuestion
<1>2. ASSUME NEW m \in Messages, AddMessage(m) PROVE QuestionInv'
  <2>1. history' \in Seq(Messages)
    BY <1>2 DEF QuestionInv, AddMessage
  <2>2. hintRows' = hintRows /\ question' = question /\ queries' = <<>>
    BY <1>2 DEF AddMessage
  <2> QED
    BY <2>1, <2>2 DEF QuestionInv, AsksTheQuestion
<1>3. ASSUME hintRows' = hintRows, history' = history, question' = question, Fit(queries') PROVE QuestionInv'
  <2> DEFINE q == queries'
  <2>1. q # <<>> /\ q[1] = <<"question">> /\ Cardinality(ToSet(q)) = Len(q) /\ Len(q) <= MaxQueries
    BY <1>3, FitAsks
  <2>2. AsksTheQuestion'
    BY <2>1 DEF AsksTheQuestion
  <2> QED
    BY <1>3, <2>2 DEF QuestionInv
<1>4. Fit(HintQueries) /\ \A a \in Answers : Fit(AllQueries(a))
  BY QueriesFit DEF QuestionInv
<1>5. ASSUME NEW budget, NEW answer \in Answers, Rewrite(budget, answer) PROVE QuestionInv'
  BY <1>3, <1>4, <1>5 DEF Rewrite
<1>6. ASSUME RewriteWithoutModel PROVE QuestionInv'
  BY <1>3, <1>4, <1>6 DEF RewriteWithoutModel
<1>7. ASSUME UNCHANGED rewriteVars PROVE QuestionInv'
  BY <1>7 DEF rewriteVars, QuestionInv, AsksTheQuestion
<1> QED
  BY <1>1, <1>2, <1>5, <1>6, <1>7 DEF RewriteNext

----
(* The limits that documents need *)

\* The places of the parses that a limit stopped, and of the others.
Stopped(ds) == {k \in DOMAIN ds : ds[k].failed \in {"timeout", "memory"}}
Ended(ds)   == {k \in DOMAIN ds : ds[k].failed \notin {"timeout", "memory"}}

\* The places of the documents that took no longer than v seconds.
Within(ds, v) == {k \in DOMAIN ds : ds[k].seconds <= v}

\* The measured parses and the stopped ones are all.
LEMMA MeasuredIs ==
  ASSUME NEW ds \in Seq(Parsed)
  PROVE  Measured(ds) \in Seq(Parsed) /\ Len(Measured(ds)) + LimitHits(ds) = Len(ds)
<1> DEFINE n == Len(ds)
           D == 1 .. n
           P == Ended(ds)
           Q == Stopped(ds)
<1>1. n \in Nat /\ DOMAIN ds = D
  OBVIOUS
<1>2. P \in SUBSET D /\ Q = D \ P /\ D \cap P = P
  BY DEF Ended, Stopped
<1>3. IsFiniteSet(D) /\ Cardinality(D) = n
  <2>1. \A m \in Nat : IsFiniteSet(1 .. m) /\ Cardinality(1 .. m) = m
    BY FirstNumbers
  <2> QED
    BY <1>1, <2>1
<1>4. Measured(ds) = Picked(ds, P)
  BY DEF Measured, Ended
<1>5. LimitHits(ds) = Cardinality(Q)
  BY DEF LimitHits, Count, Stopped
<1>6. \A k \in P : ds[k] \in Parsed
  BY <1>2
<1> HIDE DEF P, Q
<1>7. Picked(ds, P) \in Seq(Parsed) /\ Len(Picked(ds, P)) = Cardinality(P) /\ Cardinality(P) \in 0 .. n
  BY <1>1, <1>2, <1>6, PickedIs
<1> HIDE DEF D
<1>8. Cardinality(D \ P) = Cardinality(D) - Cardinality(D \cap P)
  BY <1>3, FS_Difference
<1>9. Cardinality(Q) = n - Cardinality(P)
  BY <1>2, <1>3, <1>8
<1> QED
  BY <1>1, <1>4, <1>5, <1>7, <1>9

\* The percentile's place: at least 95 in 100 are up to it.
LEMMA P95PlaceIs ==
  ASSUME NEW n \in Nat, n >= 1
  PROVE  P95Place(n) \in 1 .. n /\ 100 * P95Place(n) >= 95 * n
BY DEF P95Place

\* The place of the 95th percentile has at least 95 in 100 at or before it in rising order.
LEMMA P95Is ==
  ASSUME NEW s \in Seq(Parsed), s # <<>>
  PROVE  /\ \E d \in ToSet(s) : d.seconds = P95(s)
         /\ 100 * Cardinality(Within(s, P95(s))) >= 95 * Len(s)
<1> DEFINE n == Len(s)
           rank == [k \in DOMAIN s |-> s[k].seconds]
           r == Ranked(s, rank)
           m == P95Place(n)
           t == Reverse(r)
           v == P95(s)
           W == Within(s, v)
<1>1. n \in Nat /\ n >= 1 /\ DOMAIN s = 1 .. n /\ \A k \in 1 .. n : s[k] \in Parsed
  OBVIOUS
<1>2. \A k \in 1 .. n : s[k].seconds \in Nat
  BY <1>1, MetricsAssumption
<1>3. rank \in [1 .. n -> Nat] /\ \A k \in 1 .. n : rank[k] = s[k].seconds
  BY <1>1, <1>2
<1>4. m \in 1 .. n /\ 100 * m >= 95 * n /\ m \in Nat
  BY <1>1, P95PlaceIs
<1>5. v = t[m].seconds
  BY DEF P95
<1> HIDE DEF n, rank, m, v
<1>6. r \in Seq(Parsed) /\ Len(r) = n /\ \E p : Sorts(p, n, rank) /\ Along(r, s, p)
  BY <1>3, RankedIs DEF n
<1> HIDE DEF r
<1>7. PICK p : Sorts(p, n, rank) /\ Along(r, s, p)
  BY <1>6
<1>8. /\ p \in [1 .. n -> 1 .. n] /\ \A i, j \in 1 .. n : p[i] = p[j] => i = j
      /\ \A i, j \in 1 .. n : i < j => Outranks(rank, p[i], p[j])
  BY <1>7 DEF Sorts
<1>9. \A i \in 1 .. n : n - i + 1 \in 1 .. n /\ r[i] = s[p[i]]
  BY <1>1, <1>6, <1>7 DEF Along
<1>10. t = [i \in 1 .. n |-> r[n - i + 1]]
  BY <1>6 DEF Reverse
<1> HIDE DEF t
<1> DEFINE g == [i \in 1 .. m |-> p[n - i + 1]]
<1>11. \A i \in 1 .. m : i \in 1 .. n /\ n - i + 1 \in 1 .. n /\ p[n - i + 1] \in 1 .. n
  BY <1>1, <1>4, <1>8
<1>12. v = s[p[n - m + 1]].seconds /\ p[n - m + 1] \in 1 .. n /\ n - m + 1 \in 1 .. n
  <2>1. n - m + 1 \in 1 .. n /\ p[n - m + 1] \in 1 .. n
    BY <1>1, <1>4, <1>8
  <2>2. t[m] = r[n - m + 1]
    BY <1>4, <1>10
  <2>3. r[n - m + 1] = s[p[n - m + 1]]
    BY <1>4, <1>9
  <2> QED
    BY <1>5, <2>1, <2>2, <2>3
<1>13. ASSUME NEW i \in 1 .. m PROVE s[p[n - i + 1]].seconds <= v
  <2>1. CASE i = m
    BY <1>2, <1>12, <2>1
  <2>2. CASE i # m
    <3>1. n - m + 1 < n - i + 1
      BY <1>1, <1>4, <2>2
    <3>2. Outranks(rank, p[n - m + 1], p[n - i + 1])
      BY <1>8, <1>11, <1>12, <3>1
    <3>3. rank[p[n - m + 1]] = v /\ rank[p[n - i + 1]] = s[p[n - i + 1]].seconds
      BY <1>3, <1>11, <1>12
    <3>4. v \in Nat /\ s[p[n - i + 1]].seconds \in Nat
      BY <1>2, <1>11, <1>12
    <3> QED
      BY <3>2, <3>3, <3>4 DEF Outranks
  <2> QED
    BY <2>1, <2>2
<1>14. g \in Injection(1 .. m, W)
  <2>1. \A i \in 1 .. m : g[i] \in W
    BY <1>1, <1>11, <1>13 DEF Within
  <2>2. \A i, j \in 1 .. m : g[i] = g[j] => i = j
    <3> SUFFICES ASSUME NEW i \in 1 .. m, NEW j \in 1 .. m, g[i] = g[j] PROVE i = j
      OBVIOUS
    <3>1. n - i + 1 = n - j + 1
      BY <1>8, <1>11
    <3> QED
      BY <1>1, <1>4, <3>1
  <2> QED
    BY <2>1, <2>2 DEF Injection, IsInjective
<1>15. \A k \in Nat : IsFiniteSet(1 .. k) /\ Cardinality(1 .. k) = k
  BY FirstNumbers
<1>16. IsFiniteSet(W)
  <2>1. W \in SUBSET (1 .. n) /\ IsFiniteSet(1 .. n)
    BY <1>1, <1>15 DEF Within
  <2> HIDE DEF W
  <2> QED
    BY <2>1, FS_Subset
<1>17. Cardinality(1 .. m) <= Cardinality(W)
  <2> DEFINE M == 1 .. m
  <2>1. g \in Injection(M, W)
    BY <1>14
  <2> HIDE DEF g, M, W
  <2>2. Cardinality(M) <= Cardinality(W)
    BY <1>16, <2>1, FS_Injection
  <2> QED
    BY <2>2 DEF M
<1>18. 100 * Cardinality(W) >= 95 * n
  <2>1. Cardinality(W) \in Nat /\ m <= Cardinality(W)
    BY <1>4, <1>15, <1>16, <1>17, FS_CardinalityType
  <2> HIDE DEF W
  <2> QED
    BY <1>1, <1>4, <2>1
<1>19. s[p[n - m + 1]] \in ToSet(s)
  BY <1>1, <1>12 DEF ToSet
<1> QED
  BY <1>12, <1>18, <1>19 DEF n, v

LEMMA StoppedIsNoMeasureHolds ==
  ASSUME diagnostics \in Seq(Parsed)
  PROVE  StoppedIsNoMeasure
<1> DEFINE s == Measured(diagnostics)
<1>1. s \in Seq(Parsed) /\ Len(s) + LimitHits(diagnostics) = Len(diagnostics)
  BY MeasuredIs
<1> HIDE DEF s
<1>2. Count(s, LAMBDA d : d.seconds <= P95(s)) = Cardinality(Within(s, P95(s)))
  BY DEF Count, Within
<1>3. s # <<>> => /\ \E d \in ToSet(s) : d.seconds = P95(s)
                  /\ 100 * Count(s, LAMBDA d : d.seconds <= P95(s)) >= 95 * Len(s)
  BY <1>1, <1>2, P95Is
<1> QED
  BY <1>1, <1>3 DEF StoppedIsNoMeasure, s

----
(* Totals *)

\* A sum is no smaller for larger parts.
LEMMA TotalGrows ==
  ASSUME NEW s \in Seq(Nat), NEW t \in Seq(Nat), Len(t) = Len(s), \A k \in 1 .. Len(s) : s[k] <= t[k]
  PROVE  Total(s) <= Total(t)
<1> DEFINE n == Len(s)
<1>1. PICK f : Sums(f, s) /\ Total(s) = f[n]
  BY SumsExist
<1>2. PICK g : Sums(g, t) /\ Total(t) = g[n]
  BY SumsExist
<1>3. n \in Nat /\ \A k \in 1 .. n : s[k] \in Nat /\ t[k] \in Nat /\ s[k] <= t[k]
  OBVIOUS
<1>4. /\ f \in [0 .. n -> Nat] /\ f[0] = 0 /\ \A k \in 1 .. n : f[k] = f[k - 1] + s[k]
      /\ g \in [0 .. n -> Nat] /\ g[0] = 0 /\ \A k \in 1 .. n : g[k] = g[k - 1] + t[k]
  BY <1>1, <1>2 DEF Sums
<1> HIDE DEF n
<1> DEFINE S == {k \in 0 .. n : f[k] <= g[k]}
<1>5. 0 \in S
  BY <1>3, <1>4
<1>6. ASSUME NEW k \in 1 .. n, k - 1 \in S PROVE k \in S
  <2>1. k - 1 \in 0 .. n /\ k \in 0 .. n /\ f[k - 1] \in Nat /\ g[k - 1] \in Nat /\ f[k - 1] <= g[k - 1]
    BY <1>3, <1>4, <1>6
  <2>2. f[k] = f[k - 1] + s[k] /\ g[k] = g[k - 1] + t[k] /\ s[k] \in Nat /\ t[k] \in Nat /\ s[k] <= t[k]
    BY <1>3, <1>4
  <2>3. f[k] <= g[k]
    BY <2>1, <2>2
  <2> QED
    BY <2>1, <2>3
<1> HIDE DEF S
<1>7. \A k \in 0 .. n : k \in S
  BY <1>3, <1>5, <1>6, UpTo
<1>8. n \in 0 .. n
  BY <1>3
<1>9. n \in S
  BY <1>7, <1>8
<1> QED
  BY <1>1, <1>2, <1>9 DEF S

\* A smaller rank earns no less.
LEMMA DividedLess ==
  ASSUME NEW s \in Nat, NEW a \in Nat, NEW b \in Nat, 0 < a, a <= b
  PROVE  s \div a \in Nat /\ s \div b \in Nat /\ s \div b <= s \div a
<1>1. PICK p \in Nat : p = s \div a
  OBVIOUS
<1>2. PICK q \in Nat : q = s \div b
  OBVIOUS
<1>3. s < a * (p + 1) /\ b * q <= s
  BY <1>1, <1>2
<1>4. ASSUME q > p PROVE FALSE
  <2>1. a * (p + 1) <= a * q
    BY <1>4
  <2>2. a * q <= b * q
    OBVIOUS
  <2>3. a * (p + 1) \in Nat /\ a * q \in Nat /\ b * q \in Nat
    OBVIOUS
  <2> QED
    BY <1>3, <2>1, <2>2, <2>3
<1> QED
  BY <1>1, <1>2, <1>4

\* The result of an item in a run.
ResultRecords == [status : {"hit", "miss", "unscored", "error"}, rank : Nat]
Ranks(r) == r \in ResultRecords /\ (r.status = "hit" => r.rank > 0)

\* Two runs score the same items, unless a retrieval failed.
Alike(b, c) ==
  /\ Ranks(b) /\ Ranks(c)
  /\ b.status = "unscored" => c.status \in {"unscored", "error"}
  /\ c.status = "unscored" => b.status \in {"unscored", "error"}

AlikeRuns(b, c) ==
  /\ b \in Seq(ResultRecords) /\ c \in Seq(ResultRecords) /\ Len(b) = Len(c)
  /\ \A k \in 1 .. Len(b) : Alike(b[k], c[k])

\* Whether a result is unscored depends on the item alone, so two runs over it are alike.
LEMMA ResultIs ==
  ASSUME NEW item, NEW r \in Returned
  PROVE  /\ Ranks(Result(item, r))
         /\ Result(item, r).status # "error"
         /\ Result(item, r).status = "unscored" <=> (item.source = 0 /\ item.chunk = 0 /\ item.texts = {})
<1> DEFINE R == HitRanks(item, r)
           top == CHOOSE k \in R : \A j \in R : k <= j
           none == item.source = 0 /\ item.chunk = 0 /\ item.texts = {}
<1>1. R \subseteq Nat \ {0}
  <2>1. DOMAIN r = 1 .. Len(r) /\ Len(r) \in Nat
    BY MetricsAssumption
  <2> QED
    BY <2>1 DEF HitRanks
<1>2. R # {} => top \in R
  <2> HIDE DEF R
  <2>1. R # {} => \E k \in R : \A j \in R : k <= j
    BY <1>1, LeastOf
  <2> QED
    BY <2>1
<1> HIDE DEF top
<1>3. Result(item, r) = IF none THEN [status |-> "unscored", rank |-> 0]
                        ELSE IF R = {} THEN [status |-> "miss", rank |-> 0]
                        ELSE [status |-> "hit", rank |-> top]
  BY DEF Result, top
<1> HIDE DEF R, none
<1>4. CASE none
  BY <1>3, <1>4 DEF Ranks, ResultRecords, none
<1>5. CASE ~none /\ R = {}
  BY <1>3, <1>5 DEF Ranks, ResultRecords, none
<1>6. CASE ~none /\ R # {}
  <2>1. top \in Nat /\ top > 0
    <3>1. top \in R
      BY <1>2, <1>6
    <3>2. \A k \in R : k \in Nat /\ k > 0
      BY <1>1
    <3> QED
      BY <3>1, <3>2
  <2> QED
    BY <1>3, <1>6, <2>1 DEF Ranks, ResultRecords, none
<1> QED
  BY <1>4, <1>5, <1>6

LEMMA OutcomesAlike ==
  ASSUME NEW item, NEW b \in Outcomes(item), NEW c \in Outcomes(item)
  PROVE  Alike(b, c)
<1> DEFINE none == item.source = 0 /\ item.chunk = 0 /\ item.texts = {}
<1>1. ASSUME NEW x \in Outcomes(item)
      PROVE  Ranks(x) /\ (x.status = "unscored" => none) /\ (none => x.status \in {"unscored", "error"})
  <2>1. CASE x = Failed
    BY <2>1 DEF Failed, Ranks, ResultRecords
  <2>2. CASE \E r \in Returned : x = Result(item, r)
    BY <2>2, ResultIs
  <2> QED
    BY <2>1, <2>2 DEF Outcomes
<1> HIDE DEF none
<1> QED
  BY <1>1 DEF Alike

\* Two results of one item, of which the second is not worse.
LEMMA NotWorse ==
  ASSUME NEW b, NEW c, Alike(b, c), b.status = "error" <=> c.status = "error"
  PROVE  /\ b.status \in {"hit", "miss"} <=> c.status \in {"hit", "miss"}
         /\ Trend(b, c) # "regressed" /\ b.status = "hit" =>
              c.status = "hit" /\ c.rank <= b.rank /\ c.rank \in Nat /\ b.rank \in Nat /\ c.rank > 0
<1>1. /\ b.status \in {"hit", "miss", "unscored", "error"} /\ b.rank \in Nat
      /\ c.status \in {"hit", "miss", "unscored", "error"} /\ c.rank \in Nat
      /\ c.status = "hit" => c.rank > 0
  BY DEF Alike, Ranks, ResultRecords
<1>2. b.status \in {"hit", "miss"} <=> c.status \in {"hit", "miss"}
  BY <1>1 DEF Alike
<1>3. Order["hit"] = 0 /\ Order["miss"] = 1 /\ Order["unscored"] = 2 /\ Order["error"] = 3
  BY DEF Order
<1>4. ASSUME Trend(b, c) # "regressed", b.status = "hit" PROVE c.status = "hit" /\ c.rank <= b.rank
  <2>1. Worse(c, b) \/ ~Worse(b, c)
    BY <1>4 DEF Trend
  <2>2. Order[b.status] = 0 /\ Order[c.status] \in Nat /\ (Order[c.status] = 0 => c.status = "hit")
    BY <1>1, <1>3, <1>4
  <2>3. CASE Worse(c, b)
    <3>1. c.status = b.status /\ b.rank > c.rank
      BY <2>2, <2>3 DEF Worse
    <3> QED
      BY <1>1, <1>4, <3>1
  <2>4. CASE ~Worse(b, c)
    <3>1. ~(Order[c.status] > Order[b.status]) /\ ~(b.status = c.status /\ c.rank > b.rank)
      BY <2>4 DEF Worse
    <3>2. c.status = "hit"
      BY <2>2, <3>1
    <3> QED
      BY <1>1, <1>4, <3>1, <3>2
  <2> QED
    BY <2>1, <2>3, <2>4
<1> QED
  BY <1>1, <1>2, <1>4

ScoredPlaces(r) == {k \in DOMAIN r : r[k].status \in {"hit", "miss"}}
HitPlaces(r)    == {k \in DOMAIN r : r[k].status = "hit"}
Credit(x)       == IF x.status = "hit" THEN Shares \div x.rank ELSE 0
Credits(r)      == [k \in DOMAIN r |-> Credit(r[k])]

\* The totals of a run as sizes of sets of places.
LEMMA ResultCounts ==
  ASSUME NEW r \in Seq(ResultRecords), \A k \in 1 .. Len(r) : Ranks(r[k])
  PROVE  /\ Scored(r) = Cardinality(ScoredPlaces(r)) /\ Scored(r) \in Nat
         /\ Hits(r) = Cardinality(HitPlaces(r)) /\ Hits(r) \in Nat
         /\ Reciprocals(r) = Total(Credits(r)) /\ Credits(r) \in Seq(Nat) /\ Len(Credits(r)) = Len(r)
         /\ IsFiniteSet(ScoredPlaces(r)) /\ IsFiniteSet(HitPlaces(r))
<1> DEFINE D == 1 .. Len(r)
<1>1. DOMAIN r = D /\ Len(r) \in Nat
  OBVIOUS
<1>2. IsFiniteSet(D)
  <2>1. \A m \in Nat : IsFiniteSet(1 .. m)
    BY FirstNumbers
  <2> QED
    BY <1>1, <2>1
<1> HIDE DEF D
<1>3. ScoredPlaces(r) \in SUBSET D /\ HitPlaces(r) \in SUBSET D
  BY <1>1 DEF ScoredPlaces, HitPlaces
<1>4. IsFiniteSet(ScoredPlaces(r)) /\ IsFiniteSet(HitPlaces(r))
  BY <1>2, <1>3, FS_Subset
<1>5. Cardinality(ScoredPlaces(r)) \in Nat /\ Cardinality(HitPlaces(r)) \in Nat
  BY <1>4, FS_CardinalityType
<1>6. Scored(r) = Cardinality(ScoredPlaces(r)) /\ Hits(r) = Cardinality(HitPlaces(r))
  BY DEF Scored, Hits, Count, ScoredPlaces, HitPlaces
<1>7. Reciprocals(r) = Total(Credits(r))
  BY DEF Reciprocals, Credits, Credit
<1>8. ASSUME NEW k \in D PROVE Credit(r[k]) \in Nat
  <2>1. CASE r[k].status = "hit"
    <3>1. PICK a \in Nat : a = r[k].rank /\ a > 0
      BY <1>8, <2>1 DEF Ranks, ResultRecords, D
    <3>2. Shares \in Nat
      BY MetricsAssumption
    <3>3. Shares \div a \in Nat
      BY <3>1, <3>2
    <3> QED
      BY <2>1, <3>1, <3>3 DEF Credit
  <2>2. CASE r[k].status # "hit"
    BY <2>2 DEF Credit
  <2> QED
    BY <2>1, <2>2
<1>9. Credits(r) \in [D -> Nat]
  BY <1>1, <1>8 DEF Credits
<1>10. Credits(r) \in Seq(Nat) /\ Len(Credits(r)) = Len(r)
  BY <1>1, <1>9 DEF D
<1> QED
  BY <1>4, <1>5, <1>6, <1>7, <1>10

\* With the same denominator, the greater total is the greater rate.
LEMMA RateGrows ==
  ASSUME NEW a \in Nat, NEW b \in Nat, b <= a, NEW n \in Nat
  PROVE  RateAtLeast(a, n, b, n)
<1>1. b * n <= a * n /\ b * n \in Nat /\ a * n \in Nat
  OBVIOUS
<1> QED
  BY <1>1 DEF RateAtLeast

\* Of runs over the same items, none worse, the totals are no worse.
LEMMA RunsNotWorse ==
  ASSUME NEW b, NEW c, AlikeRuns(b, c),
         \A k \in DOMAIN b : Trend(b[k], c[k]) # "regressed" /\ (b[k].status = "error" <=> c[k].status = "error")
  PROVE  /\ Scored(c) = Scored(b) /\ Scored(b) \in Nat
         /\ Hits(b) <= Hits(c) /\ Hits(b) \in Nat /\ Hits(c) \in Nat
         /\ Reciprocals(b) <= Reciprocals(c) /\ Reciprocals(b) \in Nat /\ Reciprocals(c) \in Nat
<1> DEFINE n == Len(b)
<1>1. /\ b \in Seq(ResultRecords) /\ c \in Seq(ResultRecords) /\ Len(c) = n /\ n \in Nat
      /\ DOMAIN b = 1 .. n /\ DOMAIN c = 1 .. n
  BY DEF AlikeRuns
<1>2. \A k \in 1 .. n : Ranks(b[k]) /\ Ranks(c[k]) /\ Alike(b[k], c[k])
  BY DEF AlikeRuns, Alike
<1>3. ASSUME NEW k \in 1 .. n
      PROVE  /\ b[k].status \in {"hit", "miss"} <=> c[k].status \in {"hit", "miss"}
             /\ b[k].status = "hit" => c[k].status = "hit" /\ c[k].rank <= b[k].rank /\ c[k].rank \in Nat
                                       /\ b[k].rank \in Nat /\ c[k].rank > 0
  <2> DEFINE x == b[k]
             y == c[k]
  <2>1. Alike(x, y) /\ Trend(x, y) # "regressed" /\ (x.status = "error" <=> y.status = "error")
    BY <1>1, <1>2
  <2> HIDE DEF x, y
  <2>2. /\ x.status \in {"hit", "miss"} <=> y.status \in {"hit", "miss"}
        /\ x.status = "hit" => y.status = "hit" /\ y.rank <= x.rank /\ y.rank \in Nat /\ x.rank \in Nat /\ y.rank > 0
    BY <2>1, NotWorse
  <2> QED
    BY <2>2 DEF x, y
<1>4. /\ Scored(b) = Cardinality(ScoredPlaces(b)) /\ Scored(b) \in Nat
      /\ Hits(b) = Cardinality(HitPlaces(b)) /\ Hits(b) \in Nat
      /\ Reciprocals(b) = Total(Credits(b)) /\ Credits(b) \in Seq(Nat) /\ Len(Credits(b)) = n
  BY <1>1, <1>2, ResultCounts
<1>5. /\ Scored(c) = Cardinality(ScoredPlaces(c)) /\ Scored(c) \in Nat
      /\ Hits(c) = Cardinality(HitPlaces(c)) /\ Hits(c) \in Nat
      /\ Reciprocals(c) = Total(Credits(c)) /\ Credits(c) \in Seq(Nat) /\ Len(Credits(c)) = n
      /\ IsFiniteSet(HitPlaces(c))
  BY <1>1, <1>2, ResultCounts
<1>6. ScoredPlaces(b) = ScoredPlaces(c)
  BY <1>1, <1>3 DEF ScoredPlaces
<1>7. HitPlaces(b) \in SUBSET HitPlaces(c)
  BY <1>1, <1>3 DEF HitPlaces
<1>8. Hits(b) <= Hits(c)
  BY <1>4, <1>5, <1>7, FS_Subset
<1>9. ASSUME NEW k \in 1 .. n PROVE Credits(b)[k] <= Credits(c)[k]
  <2>1. Credits(b)[k] = Credit(b[k]) /\ Credits(c)[k] = Credit(c[k])
    BY <1>1 DEF Credits
  <2>2. CASE b[k].status = "hit"
    <3>1. PICK x \in Nat : x = c[k].rank /\ x > 0
      BY <1>3, <2>2
    <3>2. PICK y \in Nat : y = b[k].rank /\ x <= y
      BY <1>3, <2>2, <3>1
    <3>3. Shares \div y <= Shares \div x
      BY <3>1, <3>2, DividedLess, MetricsAssumption
    <3>4. c[k].status = "hit"
      BY <1>3, <2>2
    <3> QED
      BY <2>1, <2>2, <3>1, <3>2, <3>3, <3>4 DEF Credit
  <2>3. CASE b[k].status # "hit"
    <3>1. Credits(b)[k] = 0 /\ Credits(c)[k] \in Nat
      BY <1>5, <2>1, <2>3 DEF Credit
    <3> QED
      BY <3>1
  <2> QED
    BY <2>2, <2>3
<1>10. Total(Credits(b)) <= Total(Credits(c)) /\ Total(Credits(b)) \in Nat /\ Total(Credits(c)) \in Nat
  <2> DEFINE s == Credits(b)
             t == Credits(c)
  <2>1. s \in Seq(Nat) /\ t \in Seq(Nat) /\ Len(t) = Len(s) /\ \A k \in 1 .. Len(s) : s[k] <= t[k]
    BY <1>4, <1>5, <1>9
  <2> HIDE DEF s, t
  <2>2. Total(s) <= Total(t) /\ Total(s) \in Nat /\ Total(t) \in Nat
    BY <2>1, TotalGrows, TotalNat
  <2> QED
    BY <2>2 DEF s, t
<1> QED
  BY <1>4, <1>5, <1>6, <1>8, <1>10

LEMMA TotalsFollowHolds ==
  ASSUME AlikeRuns(base, candidate)
  PROVE  TotalsFollowQuestions
<1> SUFFICES ASSUME \A k \in DOMAIN base :
                      /\ Trend(base[k], candidate[k]) # "regressed"
                      /\ base[k].status = "error" <=> candidate[k].status = "error"
             PROVE  /\ RateAtLeast(Hits(candidate), Scored(candidate), Hits(base), Scored(base))
                    /\ RateAtLeast(Reciprocals(candidate), Shares * Scored(candidate),
                                   Reciprocals(base), Shares * Scored(base))
  BY DEF TotalsFollowQuestions
<1> DEFINE b == base
           c == candidate
           n == Scored(b)
<1>1. AlikeRuns(b, c) /\ \A k \in DOMAIN b :
        Trend(b[k], c[k]) # "regressed" /\ (b[k].status = "error" <=> c[k].status = "error")
  OBVIOUS
<1> HIDE DEF b, c
<1>2. /\ Scored(c) = n /\ n \in Nat
      /\ Hits(b) <= Hits(c) /\ Hits(b) \in Nat /\ Hits(c) \in Nat
      /\ Reciprocals(b) <= Reciprocals(c) /\ Reciprocals(b) \in Nat /\ Reciprocals(c) \in Nat
  BY <1>1, RunsNotWorse
<1> HIDE DEF n
<1>3. Shares * n \in Nat
  BY <1>2, MetricsAssumption
<1>4. RateAtLeast(Hits(c), n, Hits(b), n)
  BY <1>2, RateGrows
<1>5. RateAtLeast(Reciprocals(c), Shares * n, Reciprocals(b), Shares * n)
  <2> DEFINE m == Shares * n
  <2>1. m \in Nat
    BY <1>3
  <2> HIDE DEF m
  <2>2. RateAtLeast(Reciprocals(c), m, Reciprocals(b), m)
    BY <1>2, <2>1, RateGrows
  <2> QED
    BY <2>2 DEF m
<1> QED
  BY <1>2, <1>4, <1>5 DEF b, c, n

----
(* Every comparison *)

CompareInv ==
  /\ AlikeRuns(base, candidate)
  /\ verdicts \in Seq(Verdicts) /\ diagnostics \in Seq(Parsed)

LEMMA CompareInit ==
  ASSUME MetricsInit
  PROVE  CompareInv
BY DEF MetricsInit, CompareInv, AlikeRuns

\* Runs that are alike stay alike with the next item.
LEMMA AlikeAppend ==
  ASSUME NEW b, NEW c, AlikeRuns(b, c), NEW x, NEW y, Alike(x, y)
  PROVE  AlikeRuns(Append(b, x), Append(c, y))
<1> DEFINE n == Len(b)
           d == Append(b, x)
           e == Append(c, y)
<1>1. b \in Seq(ResultRecords) /\ c \in Seq(ResultRecords) /\ Len(c) = n /\ n \in Nat
  BY DEF AlikeRuns
<1>2. x \in ResultRecords /\ y \in ResultRecords
  BY DEF Alike, Ranks
<1>3. /\ d \in Seq(ResultRecords) /\ Len(d) = n + 1 /\ d[n + 1] = x /\ \A k \in 1 .. n : d[k] = b[k]
      /\ e \in Seq(ResultRecords) /\ Len(e) = n + 1 /\ e[n + 1] = y /\ \A k \in 1 .. n : e[k] = c[k]
  BY <1>1, <1>2
<1> HIDE DEF d, e
<1>4. ASSUME NEW k \in 1 .. n + 1 PROVE Alike(d[k], e[k])
  <2>1. CASE k \in 1 .. n
    <3>1. Alike(b[k], c[k]) /\ d[k] = b[k] /\ e[k] = c[k]
      BY <1>3, <2>1 DEF AlikeRuns
    <3> QED
      BY <3>1
  <2>2. CASE k = n + 1
    BY <1>3, <2>2
  <2> QED
    BY <1>1, <2>1, <2>2
<1> QED
  BY <1>3, <1>4 DEF AlikeRuns, d, e

LEMMA CompareStep ==
  ASSUME CompareInv, MetricsNext \/ UNCHANGED metricsVars
  PROVE  CompareInv'
<1>1. ASSUME NEW item, NEW b \in Outcomes(item), NEW c \in Outcomes(item), RunItem(item, b, c) PROVE CompareInv'
  <2>1. Alike(b, c)
    BY OutcomesAlike
  <2>2. AlikeRuns(Append(base, b), Append(candidate, c))
    BY <2>1, AlikeAppend DEF CompareInv
  <2> QED
    BY <1>1, <2>2 DEF CompareInv, RunItem
<1>2. ASSUME NEW v \in Verdicts, Judge(v) PROVE CompareInv'
  <2>1. verdicts' \in Seq(Verdicts)
    BY <1>2 DEF CompareInv, Judge
  <2> QED
    BY <1>2, <2>1 DEF CompareInv, Judge
<1>3. ASSUME NEW d \in Parsed, Extracted(d) PROVE CompareInv'
  <2>1. diagnostics' \in Seq(Parsed)
    BY <1>3 DEF CompareInv, Extracted
  <2> QED
    BY <1>3, <2>1 DEF CompareInv, Extracted
<1>4. ASSUME UNCHANGED metricsVars PROVE CompareInv'
  BY <1>4 DEF CompareInv, metricsVars
<1> QED
  BY <1>1, <1>2, <1>3, <1>4 DEF MetricsNext

\* A failed retrieval adds nothing to the totals.
LEMMA FailedAddsNothing ==
  ASSUME NEW r \in Seq(ResultRecords), \A k \in 1 .. Len(r) : Ranks(r[k])
  PROVE  LET t == Append(r, Failed)
         IN Scored(t) = Scored(r) /\ Hits(t) = Hits(r) /\ Reciprocals(t) = Reciprocals(r)
<1> DEFINE n == Len(r)
           t == Append(r, Failed)
<1>1. Failed \in ResultRecords /\ Failed.status = "error" /\ Ranks(Failed)
  BY DEF Failed, ResultRecords, Ranks
<1>2. /\ t \in Seq(ResultRecords) /\ Len(t) = n + 1 /\ n \in Nat /\ t[n + 1] = Failed /\ \A k \in 1 .. n : t[k] = r[k]
      /\ DOMAIN r = 1 .. n /\ DOMAIN t = 1 .. n + 1
  BY <1>1
<1> HIDE DEF t, n
<1>3. \A k \in 1 .. n + 1 : k \in 1 .. n \/ k = n + 1
  BY <1>2
<1>4. \A k \in 1 .. Len(t) : Ranks(t[k])
  BY <1>1, <1>2, <1>3 DEF n
<1>5. ScoredPlaces(t) = ScoredPlaces(r) /\ HitPlaces(t) = HitPlaces(r)
  <2>1. \A k \in 1 .. n : k \in 1 .. n + 1
    BY <1>2
  <2>2. t[n + 1].status = "error"
    BY <1>1, <1>2
  <2> QED
    BY <1>2, <1>3, <2>1, <2>2 DEF ScoredPlaces, HitPlaces
<1>6. /\ Scored(r) = Cardinality(ScoredPlaces(r)) /\ Hits(r) = Cardinality(HitPlaces(r))
      /\ Reciprocals(r) = Total(Credits(r)) /\ Credits(r) \in Seq(Nat) /\ Len(Credits(r)) = n
  BY ResultCounts DEF n
<1>7. /\ Scored(t) = Cardinality(ScoredPlaces(t)) /\ Hits(t) = Cardinality(HitPlaces(t))
      /\ Reciprocals(t) = Total(Credits(t)) /\ Credits(t) \in Seq(Nat) /\ Len(Credits(t)) = n + 1
  BY <1>2, <1>4, ResultCounts
<1>8. Credits(t) = Append(Credits(r), 0)
  <2> DEFINE u == Credits(t)
             w == Credits(r)
             z == Append(w, 0)
  <2>1. u \in Seq(Nat) /\ w \in Seq(Nat) /\ Len(u) = n + 1 /\ Len(w) = n
    BY <1>6, <1>7
  <2>2. \A k \in 1 .. n : u[k] = w[k]
    BY <1>2, <1>3 DEF Credits
  <2>3. u[n + 1] = 0
    <3>1. u[n + 1] = Credit(t[n + 1])
      BY <1>2 DEF Credits
    <3> QED
      BY <1>1, <1>2, <3>1 DEF Credit
  <2> HIDE DEF u, w
  <2>4. z \in Seq(Nat) /\ Len(z) = n + 1 /\ z[n + 1] = 0 /\ \A k \in 1 .. n : z[k] = w[k]
    BY <2>1
  <2> HIDE DEF z
  <2>5. u = z
    BY <1>2, <1>3, <2>1, <2>2, <2>3, <2>4
  <2> QED
    BY <2>5 DEF u, w, z
<1>9. Total(Append(Credits(r), 0)) = Total(Credits(r))
  <2>1. Total(Append(Credits(r), 0)) = Total(Credits(r)) + 0 /\ Total(Credits(r)) \in Nat
    BY <1>6, TotalAppend, TotalNat
  <2> QED
    BY <2>1
<1> QED
  BY <1>5, <1>6, <1>7, <1>8, <1>9 DEF t

\* Nor does a grade that is none.
LEMMA UngradedAddsNothing ==
  ASSUME NEW vs \in Seq(Verdicts), NEW v \in Verdicts, v.outcome # "answered" \/ ~v.ok \/ v.label = "not_applicable"
  PROVE  /\ GradedAnswers(Append(vs, v)) = GradedAnswers(vs)
         /\ CorrectAnswers(Append(vs, v)) = CorrectAnswers(vs)
<1> DEFINE n == Len(vs)
           t == Append(vs, v)
           G(x) == {k \in DOMAIN x : Scorable(x[k]) /\ x[k].label # "not_applicable"}
           C(x) == {k \in DOMAIN x : Scorable(x[k]) /\ x[k].label = "correct"}
<1>1. /\ n \in Nat /\ t[n + 1] = v /\ \A k \in 1 .. n : t[k] = vs[k]
      /\ DOMAIN vs = 1 .. n /\ DOMAIN t = 1 .. n + 1
  OBVIOUS
<1>2. ~(Scorable(v) /\ v.label # "not_applicable") /\ ~(Scorable(v) /\ v.label = "correct")
  BY DEF Scorable
<1> HIDE DEF t, n
<1>3. \A k \in 1 .. n + 1 : k \in 1 .. n \/ k = n + 1
  BY <1>1
<1>4. \A k \in 1 .. n : k \in 1 .. n + 1
  BY <1>1
<1>5. G(t) = G(vs)
  BY <1>1, <1>2, <1>3, <1>4
<1>6. C(t) = C(vs)
  BY <1>1, <1>2, <1>3, <1>4
<1>7. GradedAnswers(vs) = Cardinality(G(vs)) /\ GradedAnswers(t) = Cardinality(G(t))
  BY DEF GradedAnswers, Count
<1>8. CorrectAnswers(vs) = Cardinality(C(vs)) /\ CorrectAnswers(t) = Cardinality(C(t))
  BY DEF CorrectAnswers, Count
<1> QED
  BY <1>5, <1>6, <1>7, <1>8 DEF t

LEMMA CompareShown ==
  ASSUME CompareInv
  PROVE  /\ TotalsFollowQuestions /\ StoppedIsNoMeasure
         /\ \A item \in Expected, c \in Results : RunItem(item, Failed, c) =>
              Scored(base') = Scored(base) /\ Hits(base') = Hits(base) /\ Reciprocals(base') = Reciprocals(base)
         /\ \A v \in Verdicts :
              Judge(v) /\ (v.outcome # "answered" \/ ~v.ok \/ v.label = "not_applicable") =>
                GradedAnswers(verdicts') = GradedAnswers(verdicts) /\ CorrectAnswers(verdicts') = CorrectAnswers(verdicts)
<1>1. TotalsFollowQuestions /\ StoppedIsNoMeasure
  BY TotalsFollowHolds, StoppedIsNoMeasureHolds DEF CompareInv
<1>2. ASSUME NEW item, NEW c, RunItem(item, Failed, c)
      PROVE  Scored(base') = Scored(base) /\ Hits(base') = Hits(base) /\ Reciprocals(base') = Reciprocals(base)
  <2>1. base \in Seq(ResultRecords) /\ \A k \in 1 .. Len(base) : Ranks(base[k])
    BY DEF CompareInv, AlikeRuns, Alike
  <2>2. base' = Append(base, Failed)
    BY <1>2 DEF RunItem
  <2> QED
    BY <2>1, <2>2, FailedAddsNothing
<1>3. ASSUME NEW v \in Verdicts, Judge(v), v.outcome # "answered" \/ ~v.ok \/ v.label = "not_applicable"
      PROVE  GradedAnswers(verdicts') = GradedAnswers(verdicts) /\ CorrectAnswers(verdicts') = CorrectAnswers(verdicts)
  <2>1. verdicts \in Seq(Verdicts) /\ verdicts' = Append(verdicts, v)
    BY <1>3 DEF CompareInv, Judge
  <2> QED
    BY <1>3, <2>1, UngradedAddsNothing
<1> QED
  BY <1>1, <1>2, <1>3

\* The evidence of an answer is of the sources asked about, the best of what matches them, none
\* of it twice, and as much of it as fits, on every path that leads to it: with Chroma or
\* without, graded by a model or not, whatever the table, the grades, the window and the weights,
\* those of 0 included. If something matched it is not empty, unless the base weight is 0.
THEOREM EvidenceSound == AlgorithmSpec => EvidenceIsSound
<1>1. AlgorithmInit => EvidenceInv
  BY EvidenceInit DEF AlgorithmInit
<1>2. EvidenceInv /\ [AlgorithmNext]_algorithmVars => EvidenceInv'
  <2>1. ASSUME [AlgorithmNext]_algorithmVars PROVE RetrievalNext \/ UNCHANGED retrievalVars
    BY <2>1 DEF AlgorithmNext, algorithmVars, OfDocument
  <2> QED
    BY <2>1, EvidenceStep
<1>3. EvidenceInv => Scoped /\ BestFirst /\ MatchedIsAnswered /\ FallbackAgrees
  BY EvidenceShown
<1>4. EvidenceInv /\ [AlgorithmNext]_algorithmVars =>
        [\A room \in Rooms \ {0} : Prompt(room) =>
           /\ IsPrefix(evidence', evidence)
           /\ Len(evidence') < Len(evidence) => Cost(SubSeq(evidence, 1, Len(evidence') + 1)) > room
           /\ Len(evidence') > 1 => Cost(evidence') <= room]_retrievalVars
  <2>1. ASSUME EvidenceInv PROVE passages \in Seq(Passages) /\ Proper(evidence)
    BY <2>1 DEF EvidenceInv
  <2> QED
    BY <2>1, PromptFits
<1> QED
  BY <1>1, <1>2, <1>3, <1>4, PTL DEF AlgorithmSpec, EvidenceIsSound, FitsWindow

\* Whatever the hints and the model add, the question is asked, and what is cut for a limit is
\* what may be cut: whatever the hints, the conversation, the answer and the window.
THEOREM QueriesSound == AlgorithmSpec => QueriesAreSound
<1>1. AlgorithmInit => QuestionInv
  BY QuestionInit DEF AlgorithmInit
<1>2. QuestionInv /\ [AlgorithmNext]_algorithmVars => QuestionInv'
  <2>1. ASSUME [AlgorithmNext]_algorithmVars PROVE RewriteNext \/ UNCHANGED rewriteVars
    BY <2>1 DEF AlgorithmNext, algorithmVars, OfDocument
  <2> QED
    BY <2>1, QuestionStep
<1>3. QuestionInv => AsksTheQuestion /\ HintsHaveTheirTurn
  BY HintsHaveTheirTurnHolds DEF QuestionInv
<1>4. QuestionInv /\ [AlgorithmNext]_algorithmVars =>
        [\A budget \in Budgets \ {0}, answer \in Answers : Rewrite(budget, answer) =>
          LET kept == shown'.messages
              more == From(history, Len(history) - Len(kept))
          IN /\ IsSuffix(kept, history)
             /\ Tokens(question) + TokensOf(kept) <= budget \/ kept = <<>>
             /\ Len(kept) < Least(HistoryLimit, Len(history)) => Tokens(question) + TokensOf(more) > budget
             /\ IF Tokens(question) <= budget THEN shown'.ends = 0
                ELSE shown'.ends > 0 /\ (Tokens(2 * shown'.ends) <= budget \/ shown'.ends = 1)]_rewriteVars
  <2>1. ASSUME QuestionInv PROVE history \in Seq(Messages) /\ question \in Questions
    BY <2>1 DEF QuestionInv
  <2> QED
    BY <2>1, RewriteShows
<1> QED
  BY <1>1, <1>2, <1>3, <1>4, PTL DEF AlgorithmSpec, QueriesAreSound, ShownFits

\* A comparison of runs agrees with its questions, a rate with the answers it is of, and a
\* limit with the parses it did not stop, whatever the runs and the documents.
THEOREM TotalsSound == AlgorithmSpec => TotalsAgree
<1>1. AlgorithmInit => CompareInv
  BY CompareInit DEF AlgorithmInit
<1>2. CompareInv /\ [AlgorithmNext]_algorithmVars => CompareInv'
  <2>1. ASSUME [AlgorithmNext]_algorithmVars PROVE MetricsNext \/ UNCHANGED metricsVars
    BY <2>1 DEF AlgorithmNext, algorithmVars, OfDocument
  <2> QED
    BY <2>1, CompareStep
<1>3. CompareInv => TotalsFollowQuestions /\ StoppedIsNoMeasure
  BY CompareShown
<1>4. CompareInv =>
        [\A item \in Expected, c \in Results : RunItem(item, Failed, c) =>
           Scored(base') = Scored(base) /\ Hits(base') = Hits(base) /\ Reciprocals(base') = Reciprocals(base)]_metricsVars
  BY CompareShown
<1>5. CompareInv =>
        [\A v \in Verdicts :
           Judge(v) /\ (v.outcome # "answered" \/ ~v.ok \/ v.label = "not_applicable") =>
             GradedAnswers(verdicts') = GradedAnswers(verdicts) /\ CorrectAnswers(verdicts') = CorrectAnswers(verdicts)]_metricsVars
  BY CompareShown
<1> QED
  BY <1>1, <1>2, <1>3, <1>4, <1>5, PTL DEF AlgorithmSpec, TotalsAgree, ErrorsCountForNothing, GradesCountAlone
=============================================================================
