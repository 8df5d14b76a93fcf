---------------------------- MODULE IngestProofs ----------------------------
(* Proofs about IngestQueue. *)
EXTENDS IngestQueue, TLAPS

-----------------------------------------------------------------------------
(* Lemmas on the shape of the state, used by every proof that follows.     *)

LEMMA NoJobTyped == NoJob \in Job
  BY DEF NoJob, Job, JobStatus

LEMMA IdleTyped == Idle \in Worker /\ Down \in Worker
  BY DEF Idle, Down, Worker, RunPC

\* A fault stays within its bound.
LEMMA FaultTyped ==
  ASSUME faults \in 0 .. MaxFaults, NEW kind, Fault(kind)
  PROVE  faults' \in 0 .. MaxFaults
  BY BoundAssumption DEF Fault

\* Moving a worker to another step of its run keeps its record well formed.
LEMMA GotoTyped ==
  ASSUME worker \in [Workers -> Worker], NEW w \in Workers,
         worker[w].pc \in RunPC, NEW pc \in RunPC, Goto(w, pc)
  PROVE  worker' \in [Workers -> Worker]
<1>. DEFINE next == [worker[w] EXCEPT !.pc = pc]
<1>1. worker[w] \in [pc : RunPC, src : Sources, attempts : Nat, staged : SUBSET Batch]
  BY DEF Worker, RunPC
<1>2. next \in [pc : RunPC, src : Sources, attempts : Nat, staged : SUBSET Batch]
  BY <1>1
<1>3. next \in Worker
  BY <1>2 DEF Worker
<1>4. worker' = [worker EXCEPT ![w] = next]
  BY DEF Goto
<1>. QED
  BY <1>3, <1>4

\* ... and keeps it on its source, and the other workers where they are.
LEMMA GotoKeeps ==
  ASSUME worker \in [Workers -> Worker], NEW w \in Workers,
         worker[w].pc \in RunPC, NEW pc \in RunPC, Goto(w, pc)
  PROVE  /\ worker'[w].src = worker[w].src
         /\ worker'[w].pc = pc
         /\ \A v \in Workers : v # w => worker'[v] = worker[v]
<1>1. worker[w] \in [pc : RunPC, src : Sources, attempts : Nat, staged : SUBSET Batch]
  BY DEF Worker, RunPC
<1>2. worker' = [worker EXCEPT ![w] = [worker[w] EXCEPT !.pc = pc]]
  BY DEF Goto
<1>3. worker'[w] = [worker[w] EXCEPT !.pc = pc]
  BY <1>2
<1>. QED
  BY <1>1, <1>2, <1>3

LEMMA EnqueueTyped ==
  ASSUME TypeOK, NEW r \in Requests, Enqueue(r)
  PROVE  TypeOK'
<1>1. NoRequest \in Request
  BY DEF NoRequest, Request
<1>2. request' \in [Requests -> Request]
  BY <1>1 DEF TypeOK, Enqueue
<1>3. PICK s \in Sources :
        \/ UNCHANGED <<jobs, nextId, began>>
        \/ /\ jobs' = [jobs EXCEPT ![s] =
                 [st |-> "queued", id |-> IF @.st = "none" THEN nextId ELSE @.id,
                  attempts |-> 0, expired |-> FALSE]]
           /\ nextId' = IF jobs[s].st = "none" THEN nextId + 1 ELSE nextId
           /\ began' = [began EXCEPT ![s] = FALSE]
  BY DEF TypeOK, Enqueue, Request
<1>4. jobs' \in [Sources -> Job]
  <2>1. jobs[s].id \in Nat /\ nextId \in Nat
    BY DEF TypeOK, Job
  <2>2. [st |-> "queued", id |-> IF jobs[s].st = "none" THEN nextId ELSE jobs[s].id,
         attempts |-> 0, expired |-> FALSE] \in Job
    BY <2>1 DEF Job, JobStatus
  <2>. QED
    BY <1>3, <2>2 DEF TypeOK
<1>5. nextId' \in Nat
  BY <1>3 DEF TypeOK
<1>6. began' \in [Sources -> BOOLEAN]
  BY <1>3, Zenon DEF TypeOK
<1>. QED
  BY <1>2, <1>4, <1>5, <1>6 DEF TypeOK, Enqueue, asks

LEMMA StoreTyped ==
  ASSUME TypeOK, NEW w \in Workers, Store(w)
  PROVE  TypeOK'
<1>. DEFINE s == worker[w].src
<1>1. worker[w] \in [pc : RunPC, src : Sources, attempts : Nat, staged : SUBSET Batch]
  BY DEF TypeOK, Store, Worker
<1>2. PICK b \in Batches :
        /\ chunks' = chunks \cup {<<s, b>>}
        /\ worker' = [worker EXCEPT ![w].pc = "upsert",
                                    ![w].staged = Of(chunks, s) \cup {<<s, b>>}]
  BY DEF Store, ReadBack, Fresh
<1>. DEFINE new == [worker[w] EXCEPT !.pc = "upsert",
                                     !.staged = Of(chunks, s) \cup {<<s, b>>}]
<1>3. <<s, b>> \in Batch /\ Of(chunks, s) \subseteq Batch
  BY <1>1 DEF TypeOK, Batch, Of
<1>4. new \in [pc : RunPC, src : Sources, attempts : Nat, staged : SUBSET Batch]
  BY <1>1, <1>3 DEF RunPC
<1>5. new \in Worker
  BY <1>4 DEF Worker
<1>6. worker' = [worker EXCEPT ![w] = new]
  BY <1>2
<1>7. worker' \in [Workers -> Worker]
  BY <1>5, <1>6 DEF TypeOK
<1>8. status' \in [Sources -> SourceStatus]
  BY <1>1 DEF TypeOK, Store, SourceStatus
<1>9. chunks' \subseteq Batch
  BY <1>2, <1>3 DEF TypeOK
<1>. QED
  BY <1>7, <1>8, <1>9 DEF TypeOK, Store, asks

-----------------------------------------------------------------------------
\* Every variable keeps its type, for any sets of workers, web threads,
\* sources and notebooks and any bounds.
THEOREM TypeCorrect == Spec => []TypeOK
<1>1. Init => TypeOK
  BY NoJobTyped, IdleTyped, BoundAssumption
     DEF Init, TypeOK, SourceStatus, NoRequest, Request
<1>2. TypeOK /\ [Next]_vars => TypeOK'
  <2> SUFFICES ASSUME TypeOK, [Next]_vars PROVE TypeOK'
    OBVIOUS
  <2>1. ASSUME NEW r \in Requests, NEW s \in Sources, Upload(r, s) PROVE TypeOK'
    BY <2>1 DEF TypeOK, sql, asks, Upload, Request, SourceStatus
  <2>2. ASSUME NEW r \in Requests, NEW s \in Sources, Reindex(r, s) PROVE TypeOK'
    BY <2>2, BoundAssumption DEF TypeOK, sql, asks, Reindex, Request, SourceStatus
  <2>3. ASSUME NEW r \in Requests, NEW s \in Sources, DeleteSource(r, s) PROVE TypeOK'
    BY <2>3, NoJobTyped DEF TypeOK, sql, asks, DeleteSource, RemoveRows, Request, SourceStatus
  <2>4. ASSUME NEW r \in Requests, NEW n \in Notebooks, ListNotebook(r, n) PROVE TypeOK'
    BY <2>4 DEF TypeOK, sql, asks, ListNotebook, Request
  <2>5. ASSUME NEW r \in Requests, Enqueue(r) PROVE TypeOK'
    BY <2>5, EnqueueTyped DEF TypeOK, sql, asks
  <2>6. ASSUME NEW r \in Requests, DropNotebook(r) PROVE TypeOK'
    BY <2>6, NoJobTyped DEF TypeOK, sql, asks, DropNotebook, RemoveRows, Request, NoRequest, SourceStatus
  <2>7. ASSUME NEW r \in Requests, Cleanup(r) PROVE TypeOK'
    <3>. DEFINE next(left) == IF left = {} THEN NoRequest
                              ELSE [request[r] EXCEPT !.todo = left]
    <3>1. PICK s \in request[r].todo :
            request' = [request EXCEPT ![r] = next(request[r].todo \ {s})]
      BY <2>7 DEF Cleanup
    <3>2. next(request[r].todo \ {s}) \in Request
      BY DEF TypeOK, Request, NoRequest
    <3>3. request' \in [Requests -> Request]
      BY <3>1, <3>2 DEF TypeOK
    <3>4. vectors' \subseteq Batch /\ faults' \in 0 .. MaxFaults
      BY <2>7, FaultTyped DEF TypeOK, Cleanup, Of
    <3>. QED
      BY <2>7, <3>3, <3>4 DEF TypeOK, sql, asks, Cleanup
  <2>8. ASSUME NEW r \in Requests, RequestDies(r) PROVE TypeOK'
    BY <2>8, FaultTyped DEF TypeOK, sql, asks, RequestDies, Request, NoRequest
  <2>9. ASSUME NEW w \in Workers, Start(w) PROVE TypeOK'
    BY <2>9, IdleTyped DEF TypeOK, sql, asks, Start
  <2>10. ASSUME NEW w \in Workers, Crash(w) PROVE TypeOK'
    BY <2>10, IdleTyped, FaultTyped DEF TypeOK, sql, asks, Crash
  <2>11. ASSUME NEW w \in Workers, NEW s \in Sources, Claim(w, s) PROVE TypeOK'
    BY <2>11 DEF TypeOK, sql, asks, Claim, Job, JobStatus, Worker, RunPC
  <2>12. ASSUME NEW w \in Workers, Begin(w) PROVE TypeOK'
    BY <2>12, GotoTyped DEF TypeOK, sql, asks, Begin, Restart, Of, SourceStatus, RunPC, HasRow
  <2>13. ASSUME NEW w \in Workers, Unindex(w) PROVE TypeOK'
    BY <2>13, GotoTyped, FaultTyped DEF TypeOK, sql, asks, Unindex, Of, RunPC
  <2>14. ASSUME NEW w \in Workers, Work(w) PROVE TypeOK'
    BY <2>14, GotoTyped DEF TypeOK, sql, asks, Work, RunPC
  <2>15. ASSUME NEW w \in Workers, Store(w) PROVE TypeOK'
    BY <2>15, StoreTyped DEF TypeOK, sql, asks
  <2>16. ASSUME NEW w \in Workers, StoreFails(w) PROVE TypeOK'
    BY <2>16, GotoTyped, FaultTyped DEF TypeOK, sql, asks, StoreFails, RunPC
  <2>17. ASSUME NEW w \in Workers, Upsert(w) PROVE TypeOK'
    BY <2>17, FaultTyped DEF TypeOK, sql, asks, Upsert, Worker, RunPC, Batch
  <2>18. ASSUME NEW w \in Workers, Summarize(w) PROVE TypeOK'
    BY <2>18, GotoTyped DEF TypeOK, sql, asks, Summarize, RunPC
  <2>19. ASSUME NEW w \in Workers, RecordFailure(w) PROVE TypeOK'
    BY <2>19, GotoTyped DEF TypeOK, sql, asks, RecordFailure, SourceStatus, RunPC
  <2>20. ASSUME NEW w \in Workers, Raise(w) PROVE TypeOK'
    BY <2>20, GotoTyped, FaultTyped DEF TypeOK, sql, asks, Raise, RunPC
  <2>21. ASSUME NEW w \in Workers, MarkDone(w) PROVE TypeOK'
    BY <2>21, IdleTyped DEF TypeOK, sql, asks, MarkDone, Job, JobStatus
  <2>22. ASSUME NEW w \in Workers, RequeueOrFail(w) PROVE TypeOK'
    <3>1. worker' \in [Workers -> Worker]
      BY <2>22, IdleTyped DEF TypeOK, RequeueOrFail
    <3>2. jobs' \in [Sources -> Job]
      <4>. DEFINE s == worker[w].src
                  q == [jobs[s] EXCEPT !.st = "queued", !.expired = FALSE]
                  f == [jobs[s] EXCEPT !.st = "failed"]
      <4>1. s \in Sources
        BY <2>22 DEF TypeOK, RequeueOrFail, Worker
      <4>2. q \in Job /\ f \in Job
        BY <4>1 DEF TypeOK, Job, JobStatus
      <4>3. \/ jobs' = jobs
            \/ jobs' = [jobs EXCEPT ![s] = q]
            \/ jobs' = [jobs EXCEPT ![s] = f]
        BY <2>22 DEF RequeueOrFail
      <4>. QED
        BY <4>1, <4>2, <4>3 DEF TypeOK
    <3>3. status' \in [Sources -> SourceStatus]
      BY <2>22 DEF TypeOK, RequeueOrFail, FailUnlessIndexed, SourceStatus
    <3>. QED
      BY <2>22, <3>1, <3>2, <3>3 DEF TypeOK, RequeueOrFail, asks
  <2>23. ASSUME NEW s \in Sources, Expire(s) PROVE TypeOK'
    BY <2>23, FaultTyped DEF TypeOK, sql, asks, Expire, Job
  <2>24. ASSUME AcquireLock PROVE TypeOK'
    BY <2>24, BoundAssumption DEF TypeOK, sql, asks, AcquireLock
  <2>25. ASSUME ReleaseLock PROVE TypeOK'
    BY <2>25 DEF TypeOK, sql, asks, ReleaseLock
  <2>26. ASSUME HolderDies \/ AgeLock PROVE TypeOK'
    BY <2>26, FaultTyped DEF TypeOK, sql, asks, HolderDies, AgeLock
  <2>27. ASSUME UNCHANGED vars PROVE TypeOK'
    BY <2>27 DEF TypeOK, vars, sql, asks
  <2>. QED
    BY <2>1, <2>2, <2>3, <2>4, <2>5, <2>6, <2>7, <2>8, <2>9, <2>10, <2>11, <2>12,
       <2>13, <2>14, <2>15, <2>16, <2>17, <2>18, <2>19, <2>20, <2>21, <2>22, <2>23,
       <2>24, <2>25, <2>26, <2>27
       DEF Next, WebStep, WorkerStep
<1>. QED
  BY <1>1, <1>2, PTL DEF Spec

-----------------------------------------------------------------------------
(* What SQLite says of a source is consistent at every step of every       *)
(* worker and handler.                                                     *)

RowsOK == RowlessIsEmpty /\ IndexedHasChunks

\* A deleted source leaves no chunk and no job behind, and an indexed source
\* always has chunks. The two are inductive together with the types: every
\* transaction that takes chunks away also takes the status 'indexed' away.
THEOREM RowsConsistent == Spec => [](RowlessIsEmpty /\ IndexedHasChunks)
<1>1. Init => RowsOK
  BY DEF Init, RowsOK, RowlessIsEmpty, IndexedHasChunks, Of, NoJob
<1>2. TypeOK /\ RowsOK /\ [Next]_vars => RowsOK'
  <2> SUFFICES ASSUME TypeOK, RowsOK, [Next]_vars PROVE RowsOK'
    OBVIOUS
  <2>a. ASSUME UNCHANGED <<status, jobs, chunks>> PROVE RowsOK'
    BY <2>a DEF RowsOK, RowlessIsEmpty, IndexedHasChunks, HasRow, Of
  <2> USE DEF RowsOK, RowlessIsEmpty, IndexedHasChunks, HasRow, Of
  <2>1. ASSUME NEW r \in Requests, NEW s \in Sources, Upload(r, s) PROVE RowsOK'
    BY <2>1 DEF TypeOK, Upload
  <2>2. ASSUME NEW r \in Requests, NEW s \in Sources, Reindex(r, s) PROVE RowsOK'
    BY <2>2 DEF TypeOK, Reindex
  <2>3. ASSUME NEW r \in Requests, NEW s \in Sources, DeleteSource(r, s) PROVE RowsOK'
    BY <2>3 DEF TypeOK, DeleteSource, RemoveRows, NoJob
  <2>4. ASSUME NEW r \in Requests, Enqueue(r) PROVE RowsOK'
    BY <2>4 DEF TypeOK, Enqueue, Request
  <2>5. ASSUME NEW r \in Requests, DropNotebook(r) PROVE RowsOK'
    BY <2>5 DEF TypeOK, DropNotebook, RemoveRows, NoJob
  <2>6. ASSUME NEW w \in Workers, NEW s \in Sources, Claim(w, s) PROVE RowsOK'
    BY <2>6 DEF TypeOK, Claim, Runnable
  <2>7. ASSUME NEW s \in Sources, Expire(s) PROVE RowsOK'
    BY <2>7 DEF TypeOK, Expire, Job
  <2>8. ASSUME NEW w \in Workers, Begin(w) PROVE RowsOK'
    BY <2>8 DEF TypeOK, Begin, Restart
  <2>9. ASSUME NEW w \in Workers, Store(w) PROVE RowsOK'
    <3>. DEFINE s == worker[w].src
    <3>1. s \in Sources /\ HasRow(s)
      BY <2>9 DEF TypeOK, Store, Worker
    <3>2. PICK b \in Batches : chunks' = chunks \cup {<<s, b>>}
      BY <2>9 DEF Store, Fresh
    <3>3. \A u \in Sources : Of(chunks', u) = IF u = s THEN Of(chunks, u) \cup {<<s, b>>}
                                              ELSE Of(chunks, u)
      BY <3>2
    <3>4. status' = [status EXCEPT ![s] = "indexed"] /\ jobs' = jobs
      BY <2>9 DEF Store
    <3>. QED
      BY <3>1, <3>3, <3>4 DEF TypeOK
  <2>10. ASSUME NEW w \in Workers, RecordFailure(w) PROVE RowsOK'
    BY <2>10 DEF TypeOK, RecordFailure
  <2>11. ASSUME NEW w \in Workers, MarkDone(w) PROVE RowsOK'
    BY <2>11 DEF TypeOK, MarkDone, Job
  <2>12. ASSUME NEW w \in Workers, RequeueOrFail(w) PROVE RowsOK'
    BY <2>12 DEF TypeOK, RequeueOrFail, FailUnlessIndexed, Job
  <2>13. ASSUME \/ UNCHANGED vars
                \/ \E r \in Requests : \/ Cleanup(r) \/ RequestDies(r)
                                        \/ \E n \in Notebooks : ListNotebook(r, n)
                \/ \E w \in Workers : \/ Start(w) \/ Crash(w) \/ Unindex(w) \/ Work(w)
                                       \/ StoreFails(w) \/ Upsert(w) \/ Summarize(w)
                                       \/ Raise(w)
                \/ AcquireLock \/ ReleaseLock \/ HolderDies \/ AgeLock
         PROVE  RowsOK'
    BY <2>13, <2>a DEF vars, sql, Cleanup, RequestDies, ListNotebook, Start, Crash, Unindex,
       Work, StoreFails, Upsert, Summarize, Raise, AcquireLock, ReleaseLock, HolderDies, AgeLock
  <2>. QED
    BY <2>1, <2>2, <2>3, <2>4, <2>5, <2>6, <2>7, <2>8, <2>9, <2>10, <2>11, <2>12, <2>13
       DEF Next, WebStep, WorkerStep
<1>3. RowsOK <=> RowlessIsEmpty /\ IndexedHasChunks
  BY DEF RowsOK
<1>. QED
  BY <1>1, <1>2, <1>3, TypeCorrect, PTL DEF Spec

-----------------------------------------------------------------------------
(* Mutual exclusion. A source is ingested by one worker at a time exactly  *)
(* as long as nobody reindexes a source and no claim outlives the          *)
(* visibility timeout: those are the two ways its row becomes runnable     *)
(* while a worker is still on it.                                          *)

NoRepeats == MaxReindexes = 0 /\ "overrun" \notin FaultKinds

\* A busy worker's job is running under an unexpired claim, unless its source
\* has been deleted.
HoldsClaim ==
  \A w \in Workers : Busy(w) =>
    /\ status[worker[w].src] # "none"
    /\ HasRow(worker[w].src) => /\ jobs[worker[w].src].st = "running"
                                /\ ~jobs[worker[w].src].expired

\* The job a web thread is about to insert is not there yet, and is inserted
\* by that thread alone.
Enqueues(r, s) == request[r].pc = "enqueue" /\ s \in request[r].todo
FirstEnqueue ==
  \A r \in Requests, s \in Sources : Enqueues(r, s) =>
    /\ status[s] # "none"
    /\ jobs[s].st = "none"
    /\ \A q \in Requests : Enqueues(q, s) => q = r

ClaimInv == HoldsClaim /\ FirstEnqueue /\ Exclusive /\ RowlessIsEmpty

LEMMA ClaimInvInductive ==
  ASSUME NoRepeats, TypeOK, TypeOK', ClaimInv, RowlessIsEmpty', [Next]_vars
  PROVE  ClaimInv'
<1> USE DEF ClaimInv, HoldsClaim, FirstEnqueue, Enqueues, Exclusive, Busy, HasRow
<1>a. \A w \in Workers : Busy(w) => worker[w].src \in Sources
  BY DEF TypeOK, Worker, RunPC
<1>b. \A w \in Workers, s \in Sources :
        Busy(w) /\ worker[w].src = s => ~Runnable(s)
  BY <1>a DEF Runnable, RowlessIsEmpty
\* Steps of one worker that leave its source, every row and every job there.
<1>c. ASSUME NEW w \in Workers, UNCHANGED <<jobs, request>>,
             \A s \in Sources : (status'[s] = "none") <=> (status[s] = "none"),
             \A s \in Sources : (status'[s] = "deleted") <=> (status[s] = "deleted"),
             \A v \in Workers : v # w => worker'[v] = worker[v],
             Busy(w)' => Busy(w) /\ worker'[w].src = worker[w].src
      PROVE  ClaimInv'
  <2>1. ASSUME NEW v \in Workers, Busy(v)'
        PROVE  Busy(v) /\ worker'[v].src = worker[v].src /\ worker[v].src \in Sources
    <3>1. CASE v = w
      BY <1>a, <1>c, <2>1, <3>1
    <3>2. CASE v # w
      BY <1>a, <1>c, <2>1, <3>2
    <3>. QED
      BY <3>1, <3>2
  <2>2. HoldsClaim'
    BY <1>c, <2>1
  <2>3. FirstEnqueue'
    BY <1>c
  <2>4. Exclusive'
    BY <2>1
  <2>5. RowlessIsEmpty'
    OBVIOUS
  <2>. QED
    BY <2>2, <2>3, <2>4, <2>5
\* Steps that touch neither rows, jobs nor workers, and enqueue nothing new.
<1>d. ASSUME UNCHANGED <<status, jobs, worker>>,
             \A r \in Requests : request'[r].pc = "enqueue" => request'[r] = request[r]
      PROVE  ClaimInv'
  <2>1. HoldsClaim' /\ Exclusive'
    BY <1>d
  <2>2. FirstEnqueue'
    BY <1>d
  <2>. QED
    BY <2>1, <2>2
<1>1. ASSUME NEW r \in Requests, NEW s \in Sources, Upload(r, s) PROVE ClaimInv'
  BY <1>1, <1>a DEF TypeOK, Upload, RowlessIsEmpty
<1>2. ASSUME NEW r \in Requests, NEW s \in Sources, Reindex(r, s) PROVE ClaimInv'
  BY <1>2 DEF Reindex, NoRepeats, TypeOK
<1>3. ASSUME NEW r \in Requests, NEW s \in Sources, DeleteSource(r, s) PROVE ClaimInv'
  BY <1>3, <1>a DEF TypeOK, DeleteSource, RemoveRows, NoJob
<1>4. ASSUME NEW r \in Requests, Enqueue(r) PROVE ClaimInv'
  <2>1. PICK s \in Sources :
          /\ s \in request[r].todo
          /\ \A u \in Sources : u # s => jobs'[u] = jobs[u]
          /\ ~HasRow(s) => jobs' = jobs
    BY <1>4 DEF TypeOK, Enqueue, Request
  <2>2. /\ UNCHANGED <<status, worker>>
        /\ request' = [request EXCEPT ![r] = NoRequest]
        /\ request[r].pc = "enqueue"
    BY <1>4 DEF Enqueue
  <2>3. \A w \in Workers : Busy(w) /\ worker[w].src = s => ~HasRow(s)
    BY <2>1, <2>2
  <2>4. HoldsClaim'
    <3> SUFFICES ASSUME NEW w \in Workers, Busy(w)
                 PROVE  /\ status[worker[w].src] # "none"
                        /\ HasRow(worker[w].src) => /\ jobs'[worker[w].src].st = "running"
                                                    /\ ~jobs'[worker[w].src].expired
      BY <2>2
    <3>1. CASE worker[w].src = s
      BY <2>3, <3>1
    <3>2. CASE worker[w].src # s
      <4>1. jobs'[worker[w].src] = jobs[worker[w].src]
        BY <1>a, <2>1, <3>2
      <4>2. HoldsClaim
        OBVIOUS
      <4>. QED
        BY <4>1, <4>2, Zenon
    <3>. QED
      BY <3>1, <3>2
  <2>5. FirstEnqueue'
    <3>1. \A q \in Requests, u \in Sources :
            Enqueues(q, u)' => q # r /\ Enqueues(q, u)
      BY <2>2 DEF TypeOK, NoRequest
    <3>2. \A q \in Requests : Enqueues(q, s) => q = r
      BY <2>1, <2>2
    <3>3. \A q \in Requests, u \in Sources :
            Enqueues(q, u)' => u # s /\ jobs'[u] = jobs[u]
      BY <2>1, <3>1, <3>2
    <3>4. FirstEnqueue
      OBVIOUS
    <3>. QED
      BY <2>2, <3>1, <3>3, <3>4
  <2>6. Exclusive'
    BY <2>2
  <2>. QED
    BY <2>4, <2>5, <2>6
<1>5. ASSUME NEW r \in Requests, DropNotebook(r) PROVE ClaimInv'
  BY <1>5, <1>a DEF TypeOK, DropNotebook, RemoveRows, NoJob, NoRequest, Request
<1>6. ASSUME NEW w \in Workers, NEW s \in Sources, Claim(w, s) PROVE ClaimInv'
  BY <1>6, <1>a, <1>b DEF TypeOK, Claim, Runnable, RowlessIsEmpty
<1>7. ASSUME NEW s \in Sources, Expire(s) PROVE ClaimInv'
  BY <1>7, <1>a DEF TypeOK, Expire, WorkedOn, Fault, NoRepeats, Job
<1>8. ASSUME NEW w \in Workers, Begin(w) PROVE ClaimInv'
  <2>1. /\ UNCHANGED <<jobs, request>>
        /\ \A v \in Workers : v # w => worker'[v] = worker[v]
        /\ worker'[w].src = worker[w].src
    <3>1. UNCHANGED <<jobs, request>> /\ (Goto(w, "finish") \/ Goto(w, "unindex"))
      BY <1>8 DEF Begin
    <3>2. worker[w].pc \in RunPC /\ {"finish", "unindex"} \subseteq RunPC
      BY <1>8 DEF Begin, RunPC
    <3>. QED
      BY <3>1, <3>2, GotoKeeps DEF TypeOK
  <2>2. Busy(w)
    BY <1>8 DEF Begin, Restart, RunPC
  <2>3. \A s \in Sources : (status'[s] = "none") <=> (status[s] = "none")
    BY <1>8, <1>a, <2>2 DEF TypeOK, Begin, Restart
  <2>4. \A s \in Sources : (status'[s] = "deleted") <=> (status[s] = "deleted")
    BY <1>8, <1>a, <2>2 DEF TypeOK, Begin, Restart
  <2>. QED
    BY <1>c, <2>1, <2>2, <2>3, <2>4
<1>9. ASSUME NEW w \in Workers, Store(w) PROVE ClaimInv'
  <2>1. /\ UNCHANGED <<jobs, request>>
        /\ \A v \in Workers : v # w => worker'[v] = worker[v]
        /\ worker'[w].src = worker[w].src
    BY <1>9 DEF TypeOK, Store
  <2>2. Busy(w)
    BY <1>9 DEF Store, RunPC
  <2>3. \A s \in Sources : (status'[s] = "none") <=> (status[s] = "none")
    BY <1>9, <1>a, <2>2 DEF TypeOK, Store
  <2>4. \A s \in Sources : (status'[s] = "deleted") <=> (status[s] = "deleted")
    BY <1>9, <1>a, <2>2 DEF TypeOK, Store
  <2>. QED
    BY <1>c, <2>1, <2>2, <2>3, <2>4
<1>10. ASSUME NEW w \in Workers, RecordFailure(w) PROVE ClaimInv'
  <2>1. /\ UNCHANGED <<jobs, request>>
        /\ \A v \in Workers : v # w => worker'[v] = worker[v]
        /\ worker'[w].src = worker[w].src
    BY <1>10 DEF TypeOK, RecordFailure, Goto
  <2>2. Busy(w)
    BY <1>10 DEF RecordFailure, RunPC
  <2>3. \A s \in Sources : (status'[s] = "none") <=> (status[s] = "none")
    BY <1>10, <1>a, <2>2 DEF TypeOK, RecordFailure
  <2>4. \A s \in Sources : (status'[s] = "deleted") <=> (status[s] = "deleted")
    BY <1>10, <1>a, <2>2 DEF TypeOK, RecordFailure
  <2>. QED
    BY <1>c, <2>1, <2>2, <2>3, <2>4
<1>11. ASSUME NEW w \in Workers, MarkDone(w) PROVE ClaimInv'
  BY <1>11, <1>a DEF TypeOK, MarkDone, Idle, RunPC
<1>12. ASSUME NEW w \in Workers, RequeueOrFail(w) PROVE ClaimInv'
  BY <1>12, <1>a DEF TypeOK, RequeueOrFail, FailUnlessIndexed, Idle, RunPC
<1>13. ASSUME NEW w \in Workers,
              \/ Start(w) \/ Crash(w) \/ Unindex(w) \/ Work(w) \/ StoreFails(w)
              \/ Upsert(w) \/ Summarize(w) \/ Raise(w)
       PROVE  ClaimInv'
  <2>1. UNCHANGED <<status, jobs, request>>
    BY <1>13 DEF Start, Crash, Unindex, Work, StoreFails, Upsert, Summarize, Raise, sql
  <2>2. \A v \in Workers : v # w => worker'[v] = worker[v]
    BY <1>13 DEF TypeOK, Start, Crash, Unindex, Work, StoreFails, Upsert, Summarize, Raise, Goto
  <2>3. CASE Start(w) \/ Crash(w)
    <3>1. ~Busy(w)'
      BY <2>3 DEF TypeOK, Start, Crash, Idle, Down, RunPC
    <3>. QED
      BY <1>c, <2>1, <2>2, <3>1
  <2>4. CASE ~(Start(w) \/ Crash(w))
    <3>1. Busy(w)
      BY <1>13, <2>4 DEF Unindex, Work, StoreFails, Upsert, Summarize, Raise, RunPC
    <3>2. \/ Upsert(w)
          \/ \E pc \in RunPC : Goto(w, pc)
      BY <1>13, <2>4 DEF Unindex, Work, StoreFails, Summarize, Raise, RunPC
    <3>3. worker'[w].src = worker[w].src
      <4>1. CASE Upsert(w)
        <5>1. worker[w] \in [pc : RunPC, src : Sources, attempts : Nat, staged : SUBSET Batch]
          BY <3>1 DEF TypeOK, Worker, RunPC
        <5>. QED
          BY <4>1, <5>1 DEF TypeOK, Upsert
      <4>2. CASE \E pc \in RunPC : Goto(w, pc)
        BY <3>1, <4>2, GotoKeeps DEF TypeOK
      <4>. QED
        BY <3>2, <4>1, <4>2
    <3>. QED
      BY <1>c, <2>1, <2>2, <3>1, <3>3
  <2>. QED
    BY <2>3, <2>4
<1>14. ASSUME \/ UNCHANGED vars
              \/ \E r \in Requests : \/ Cleanup(r) \/ RequestDies(r)
                                      \/ \E n \in Notebooks : ListNotebook(r, n)
              \/ AcquireLock \/ ReleaseLock \/ HolderDies \/ AgeLock
       PROVE  ClaimInv'
  BY <1>14, <1>d DEF TypeOK, vars, sql, Cleanup, RequestDies, ListNotebook, NoRequest,
     AcquireLock, ReleaseLock, HolderDies, AgeLock, Request
<1>. QED
  BY <1>1, <1>2, <1>3, <1>4, <1>5, <1>6, <1>7, <1>8, <1>9, <1>10, <1>11, <1>12, <1>13, <1>14
     DEF Next, WebStep, WorkerStep

LEMMA ClaimInvHolds ==
  ASSUME NoRepeats
  PROVE  Spec => []ClaimInv
<1>1. Init => ClaimInv
  <2> SUFFICES ASSUME Init PROVE ClaimInv
    OBVIOUS
  <2>1. \A w \in Workers : ~Busy(w)
    BY DEF Init, Busy, Idle, Down, RunPC
  <2>2. \A r \in Requests, s \in Sources : ~Enqueues(r, s)
    BY DEF Init, Enqueues, NoRequest
  <2>3. RowlessIsEmpty
    BY DEF Init, RowlessIsEmpty, Of, NoJob
  <2>. QED
    BY <2>1, <2>2, <2>3 DEF ClaimInv, HoldsClaim, FirstEnqueue, Exclusive
<1>2. TypeOK /\ TypeOK' /\ ClaimInv /\ RowlessIsEmpty' /\ [Next]_vars => ClaimInv'
  BY ClaimInvInductive
<1>. QED
  BY <1>1, <1>2, TypeCorrect, RowsConsistent, PTL DEF Spec

\* Without reindexes and overrun claims, no source is ever inside
\* process_source twice, whatever crashes, retries and deletes happen.
THEOREM ExclusiveRuns ==
  ASSUME NoRepeats
  PROVE  Spec => []Exclusive
<1>1. ClaimInv => Exclusive
  BY DEF ClaimInv
<1>. QED
  BY <1>1, ClaimInvHolds, PTL

-----------------------------------------------------------------------------
(* The migration barrier. acquire_migration_lock refuses while a job runs  *)
(* and a live lock stops every claim, so under a live lock no job runs.    *)

BarrierHolds == LockLive => \A s \in Sources : jobs[s].st # "running"

\* A worker has read back only chunks of the source it works on.
StagesItsOwn == \A w \in Workers : \A c \in worker[w].staged : c[1] = worker[w].src

LEMMA BarrierInductive ==
  ASSUME TypeOK, BarrierHolds, [Next]_vars
  PROVE  BarrierHolds'
<1> USE DEF BarrierHolds, LockLive
<1>1. ASSUME UNCHANGED <<lock, jobs>> PROVE BarrierHolds'
  BY <1>1
<1>2. ASSUME NEW r \in Requests, Enqueue(r) PROVE BarrierHolds'
  BY <1>2 DEF TypeOK, Enqueue, Request
<1>3. ASSUME NEW r \in Requests, NEW s \in Sources, DeleteSource(r, s) PROVE BarrierHolds'
  BY <1>3 DEF DeleteSource, RemoveRows, NoJob
<1>4. ASSUME NEW r \in Requests, DropNotebook(r) PROVE BarrierHolds'
  BY <1>4 DEF DropNotebook, RemoveRows, NoJob
<1>5. ASSUME NEW w \in Workers, NEW s \in Sources, Claim(w, s) PROVE BarrierHolds'
  BY <1>5 DEF Claim
<1>6. ASSUME NEW s \in Sources, Expire(s) PROVE BarrierHolds'
  BY <1>6 DEF TypeOK, Job, Expire
<1>7. ASSUME NEW w \in Workers, MarkDone(w) PROVE BarrierHolds'
  BY <1>7 DEF TypeOK, Job, MarkDone
<1>8. ASSUME NEW w \in Workers, RequeueOrFail(w) PROVE BarrierHolds'
  BY <1>8 DEF TypeOK, Job, RequeueOrFail
<1>9. ASSUME AcquireLock \/ ReleaseLock \/ HolderDies \/ AgeLock PROVE BarrierHolds'
  BY <1>9 DEF AcquireLock, ReleaseLock, HolderDies, AgeLock, sql
<1>10. ASSUME \/ UNCHANGED vars
              \/ \E r \in Requests : \/ Cleanup(r) \/ RequestDies(r)
                                      \/ \E s \in Sources : Upload(r, s) \/ Reindex(r, s)
                                      \/ \E n \in Notebooks : ListNotebook(r, n)
              \/ \E w \in Workers : \/ Start(w) \/ Crash(w) \/ Begin(w) \/ Unindex(w)
                                     \/ Work(w) \/ Store(w) \/ StoreFails(w) \/ Upsert(w)
                                     \/ Summarize(w) \/ RecordFailure(w) \/ Raise(w)
       PROVE  BarrierHolds'
  BY <1>10, <1>1 DEF vars, sql, Cleanup, RequestDies, Upload, Reindex, ListNotebook, Start,
     Crash, Begin, Restart, Unindex, Work, Store, StoreFails, Upsert, Summarize, RecordFailure, Raise
<1>. QED
  BY <1>2, <1>3, <1>4, <1>5, <1>6, <1>7, <1>8, <1>9, <1>10 DEF Next, WebStep, WorkerStep

LEMMA StagesInductive ==
  ASSUME TypeOK, StagesItsOwn, [Next]_vars
  PROVE  StagesItsOwn'
<1> USE DEF StagesItsOwn
<1>1. ASSUME worker' = worker PROVE StagesItsOwn'
  BY <1>1
<1>2. ASSUME NEW w \in Workers,
             \A v \in Workers : v # w => worker'[v] = worker[v],
             \A c \in worker'[w].staged : c[1] = worker'[w].src
      PROVE  StagesItsOwn'
  BY <1>2
<1>3. ASSUME NEW w \in Workers, NEW next,
             worker' = [worker EXCEPT ![w] = next], next.staged = {}
      PROVE  StagesItsOwn'
  <2>1. worker'[w] = next /\ \A v \in Workers : v # w => worker'[v] = worker[v]
    BY <1>3 DEF TypeOK
  <2>. QED
    BY <1>2, <1>3, <2>1
<1>4. ASSUME NEW w \in Workers, NEW pc \in RunPC, worker[w].pc \in RunPC, Goto(w, pc)
      PROVE  StagesItsOwn'
  <2>1. worker[w] \in [pc : RunPC, src : Sources, attempts : Nat, staged : SUBSET Batch]
    BY <1>4 DEF TypeOK, Worker, RunPC
  <2>2. worker' = [worker EXCEPT ![w] = [worker[w] EXCEPT !.pc = pc]]
    BY <1>4 DEF Goto
  <2>3. worker'[w].staged = worker[w].staged /\ worker'[w].src = worker[w].src
    BY <2>1, <2>2 DEF TypeOK
  <2>4. \A v \in Workers : v # w => worker'[v] = worker[v]
    BY <2>2 DEF TypeOK
  <2>. QED
    BY <1>2, <2>3, <2>4
<1>5. ASSUME NEW w \in Workers, Start(w) \/ Crash(w) \/ MarkDone(w) \/ RequeueOrFail(w)
      PROVE  StagesItsOwn'
  <2>1. \E next \in {Idle, Down} : worker' = [worker EXCEPT ![w] = next]
    BY <1>5 DEF Start, Crash, MarkDone, RequeueOrFail
  <2>2. Idle.staged = {} /\ Down.staged = {}
    BY DEF Idle, Down
  <2>. QED
    BY <1>3, <2>1, <2>2
<1>6. ASSUME NEW w \in Workers, NEW s \in Sources, Claim(w, s) PROVE StagesItsOwn'
  <2>. DEFINE next == [pc |-> "begin", src |-> s, attempts |-> jobs[s].attempts + 1,
                       staged |-> {}]
  <2>1. worker' = [worker EXCEPT ![w] = next] /\ next.staged = {}
    BY <1>6 DEF Claim
  <2>. QED
    BY <1>3, <2>1
<1>7. ASSUME NEW w \in Workers, Store(w) PROVE StagesItsOwn'
  <2>. DEFINE s == worker[w].src
  <2>1. PICK b \in Batches :
          worker' = [worker EXCEPT ![w].pc = "upsert",
                                   ![w].staged = Of(chunks, s) \cup {<<s, b>>}]
    BY <1>7 DEF Store, ReadBack, Fresh
  <2>2. worker[w] \in [pc : RunPC, src : Sources, attempts : Nat, staged : SUBSET Batch]
    BY <1>7 DEF TypeOK, Store, Worker
  <2>. DEFINE new == [worker[w] EXCEPT !.pc = "upsert",
                                       !.staged = Of(chunks, s) \cup {<<s, b>>}]
  <2>3. worker' = [worker EXCEPT ![w] = new]
    BY <2>1
  <2>4. /\ \A v \in Workers : v # w => worker'[v] = worker[v]
        /\ worker'[w] = new
    BY <2>3 DEF TypeOK
  <2>5. new.src = s /\ new.staged = Of(chunks, s) \cup {<<s, b>>}
    BY <2>2
  <2>6. \A c \in Of(chunks, s) \cup {<<s, b>>} : c[1] = s
    BY DEF Of
  <2>7. worker'[w].src = s /\ worker'[w].staged = Of(chunks, s) \cup {<<s, b>>}
    BY <2>4, <2>5
  <2>. HIDE DEF s, new
  <2>. QED
    BY <1>2, <2>4, <2>6, <2>7
<1>8. ASSUME NEW w \in Workers, Upsert(w) PROVE StagesItsOwn'
  <2>1. worker[w] \in [pc : RunPC, src : Sources, attempts : Nat, staged : SUBSET Batch]
    BY <1>8 DEF TypeOK, Upsert, Worker
  <2>2. PICK pc : worker' = [worker EXCEPT ![w].pc = pc, ![w].staged = {}]
    BY <1>8 DEF Upsert
  <2>. DEFINE new == [worker[w] EXCEPT !.pc = pc, !.staged = {}]
  <2>3. worker' = [worker EXCEPT ![w] = new]
    BY <2>2
  <2>4. new.staged = {}
    BY <2>1
  <2>. QED
    BY <1>3, <2>3, <2>4
<1>9. ASSUME NEW w \in Workers,
             \/ Begin(w) \/ Unindex(w) \/ Work(w) \/ StoreFails(w) \/ Summarize(w)
             \/ RecordFailure(w) \/ Raise(w)
      PROVE  StagesItsOwn'
  <2>1. worker[w].pc \in RunPC
    BY <1>9 DEF Begin, Unindex, Work, StoreFails, Summarize, RecordFailure, Raise, RunPC
  <2>2. \E pc \in RunPC : Goto(w, pc)
    BY <1>9 DEF Begin, Unindex, Work, StoreFails, Summarize, RecordFailure, Raise, RunPC
  <2>. QED
    BY <1>4, <2>1, <2>2
<1>10. ASSUME \/ UNCHANGED vars
              \/ \E r \in Requests :
                   \/ WebStep(r) \/ RequestDies(r)
                   \/ \E s \in Sources : Upload(r, s) \/ Reindex(r, s) \/ DeleteSource(r, s)
                   \/ \E n \in Notebooks : ListNotebook(r, n)
              \/ \E s \in Sources : Expire(s)
              \/ AcquireLock \/ ReleaseLock \/ HolderDies \/ AgeLock
       PROVE  StagesItsOwn'
  BY <1>10, <1>1 DEF vars, WebStep, Enqueue, DropNotebook, Cleanup, RequestDies, Upload,
     Reindex, DeleteSource, ListNotebook, Expire, AcquireLock, ReleaseLock, HolderDies, AgeLock
<1>. QED
  BY <1>5, <1>6, <1>7, <1>8, <1>9, <1>10 DEF Next, WorkerStep

\* Without reindexes and overrun claims, what is upserted while a migration
\* holds a live lock belongs to a source deleted while it was ingested.
THEOREM BarrierRespected ==
  ASSUME NoRepeats
  PROVE  Spec => OnlyDeletedUnderLock
<1>. DEFINE A == LockLive => \A c \in vectors' \ vectors : ~HasRow(c[1])
<1>1. Init => BarrierHolds /\ StagesItsOwn
  BY DEF Init, BarrierHolds, LockLive, StagesItsOwn, Idle, Down
<1>2. TypeOK /\ BarrierHolds /\ StagesItsOwn /\ [Next]_vars
        => BarrierHolds' /\ StagesItsOwn'
  BY BarrierInductive, StagesInductive
<1>3. TypeOK /\ ClaimInv /\ BarrierHolds /\ StagesItsOwn /\ [Next]_vars => [A]_vars
  <2> SUFFICES ASSUME TypeOK, ClaimInv, BarrierHolds, StagesItsOwn, [Next]_vars
               PROVE  A
    OBVIOUS
  <2>1. ASSUME vectors' \subseteq vectors PROVE A
    BY <2>1
  <2>2. ASSUME NEW w \in Workers, Upsert(w) PROVE A
    <3> SUFFICES ASSUME LockLive, NEW c \in vectors' \ vectors PROVE ~HasRow(c[1])
      OBVIOUS
    <3>1. c[1] = worker[w].src
      BY <2>2 DEF Upsert, StagesItsOwn
    <3>2. Busy(w) /\ worker[w].src \in Sources
      BY <2>2 DEF TypeOK, Upsert, Busy, Worker, RunPC
    <3>3. jobs[worker[w].src].st # "running"
      BY <3>2 DEF BarrierHolds
    <3>. QED
      BY <3>1, <3>2, <3>3 DEF ClaimInv, HoldsClaim
  <2>3. ASSUME \/ UNCHANGED vars
               \/ \E r \in Requests :
                    \/ WebStep(r) \/ RequestDies(r)
                    \/ \E s \in Sources : Upload(r, s) \/ Reindex(r, s) \/ DeleteSource(r, s)
                    \/ \E n \in Notebooks : ListNotebook(r, n)
               \/ \E w \in Workers :
                    \/ Start(w) \/ Crash(w) \/ Raise(w) \/ Begin(w) \/ Unindex(w) \/ Work(w)
                    \/ Store(w) \/ StoreFails(w) \/ Summarize(w) \/ RecordFailure(w)
                    \/ MarkDone(w) \/ RequeueOrFail(w)
                    \/ \E s \in Sources : Claim(w, s)
               \/ \E s \in Sources : Expire(s)
               \/ AcquireLock \/ ReleaseLock \/ HolderDies \/ AgeLock
        PROVE  A
    <3>1. vectors' \subseteq vectors
      BY <2>3 DEF vars, WebStep, Enqueue, DropNotebook, Cleanup, RequestDies, Upload,
         Reindex, DeleteSource, ListNotebook, Expire, AcquireLock, ReleaseLock, HolderDies, AgeLock,
         Start, Crash, Raise, Begin, Unindex, Work, Store, StoreFails, Summarize,
         RecordFailure, MarkDone, RequeueOrFail, Claim
    <3>. QED
      BY <2>1, <3>1
  <2>. QED
    BY <2>2, <2>3 DEF Next, WorkerStep
<1>4. [][A]_vars <=> OnlyDeletedUnderLock
  BY DEF OnlyDeletedUnderLock
<1>. QED
  BY <1>1, <1>2, <1>3, <1>4, TypeCorrect, ClaimInvHolds, PTL DEF Spec

-----------------------------------------------------------------------------
(* One worker loop. Here a reindex may re-queue a source at any moment,    *)
(* and a claim may be overrun: the job is still never settled by the run   *)
(* that was already under way, because only this worker makes it 'running' *)
(* again.                                                                  *)

OneWorker == \A v, w \in Workers : v = w

\* A run that is past its first transaction and whose job is running is a run
\* that began after the job was last queued.
RunIsFresh ==
  \A w \in Workers :
    Busy(w) /\ worker[w].pc \notin {"begin", "raised"} /\ jobs[worker[w].src].st = "running"
      => began[worker[w].src]

LEMMA RunIsFreshInductive ==
  ASSUME OneWorker, TypeOK, RowlessIsEmpty, RunIsFresh, [Next]_vars
  PROVE  RunIsFresh'
<1> USE DEF RunIsFresh, Busy
<1>a. \A w \in Workers : Busy(w) =>
        worker[w] \in [pc : RunPC, src : Sources, attempts : Nat, staged : SUBSET Batch]
  BY DEF TypeOK, Worker, RunPC
\* Steps that make no job running and forget no run.
<1>b. ASSUME worker' = worker,
             \A s \in Sources : jobs'[s].st = "running" =>
                                jobs[s].st = "running" /\ began'[s] = began[s]
      PROVE  RunIsFresh'
  <2>1. \A w \in Workers : Busy(w) => worker[w].src \in Sources
    BY <1>a
  <2>. QED
    BY <1>b, <2>1
\* Steps after which the worker is not past its first transaction.
<1>c. ASSUME NEW w \in Workers, NEW next, worker' = [worker EXCEPT ![w] = next],
             next.pc \in {"down", "idle", "begin", "raised"}
      PROVE  RunIsFresh'
  <2>1. worker'[w] = next /\ \A v \in Workers : v = w
    BY <1>c DEF TypeOK, OneWorker
  <2>2. next.pc \notin RunPC \/ next.pc \in {"begin", "raised"}
    BY <1>c DEF RunPC
  <2>. QED
    BY <2>1, <2>2
\* Steps that only take the worker further in its run.
<1>d. ASSUME NEW w \in Workers, worker[w].pc \in RunPC \ {"begin", "raised"},
             worker'[w].src = worker[w].src, UNCHANGED <<jobs, began>>
      PROVE  RunIsFresh'
  <2>1. \A v \in Workers : v = w
    BY DEF OneWorker
  <2>. QED
    BY <1>d, <2>1
<1>1. ASSUME NEW r \in Requests, Enqueue(r) PROVE RunIsFresh'
  <2>1. PICK s \in Sources :
          \/ UNCHANGED <<jobs, began>>
          \/ /\ jobs'[s].st = "queued"
             /\ \A u \in Sources : u # s => jobs'[u] = jobs[u] /\ began'[u] = began[u]
    BY <1>1 DEF TypeOK, Enqueue, Request
  <2>2. worker' = worker
    BY <1>1 DEF Enqueue
  <2>3. \A u \in Sources : jobs'[u].st = "running" =>
                            jobs[u].st = "running" /\ began'[u] = began[u]
    BY <2>1
  <2>. QED
    BY <1>b, <2>2, <2>3
<1>2. ASSUME NEW r \in Requests,
             DropNotebook(r) \/ \E s \in Sources : DeleteSource(r, s)
      PROVE  RunIsFresh'
  <2>1. worker' = worker /\ began' = began
    BY <1>2 DEF DropNotebook, DeleteSource
  <2>2. \A s \in Sources : jobs'[s] = jobs[s] \/ jobs'[s] = NoJob
    BY <1>2 DEF DropNotebook, DeleteSource, RemoveRows
  <2>3. NoJob.st # "running"
    BY DEF NoJob
  <2>. QED
    BY <1>b, <2>1, <2>2, <2>3
<1>3. ASSUME NEW w \in Workers, NEW s \in Sources, Claim(w, s) PROVE RunIsFresh'
  <2>. DEFINE next == [pc |-> "begin", src |-> s, attempts |-> jobs[s].attempts + 1,
                       staged |-> {}]
  <2>1. worker' = [worker EXCEPT ![w] = next] /\ next.pc = "begin"
    BY <1>3 DEF Claim
  <2>. QED
    BY <1>c, <2>1
<1>4. ASSUME NEW w \in Workers, Start(w) \/ Crash(w) \/ MarkDone(w) \/ RequeueOrFail(w)
      PROVE  RunIsFresh'
  <2>1. \E next \in {Idle, Down} : worker' = [worker EXCEPT ![w] = next]
    BY <1>4 DEF Start, Crash, MarkDone, RequeueOrFail
  <2>2. Idle.pc = "idle" /\ Down.pc = "down"
    BY DEF Idle, Down
  <2>. QED
    BY <1>c, <2>1, <2>2
<1>5. ASSUME NEW w \in Workers, Raise(w) PROVE RunIsFresh'
  <2>1. worker[w].pc \in RunPC
    BY <1>5 DEF Raise, RunPC
  <2>. DEFINE next == [worker[w] EXCEPT !.pc = "raised"]
  <2>2. worker' = [worker EXCEPT ![w] = next]
    BY <1>5 DEF Raise, Goto
  <2>3. next.pc = "raised"
    BY <1>a, <2>1
  <2>. QED
    BY <1>c, <2>2, <2>3
<1>6. ASSUME NEW w \in Workers, Begin(w) PROVE RunIsFresh'
  <2>. DEFINE s == worker[w].src
  <2>1. worker[w].pc \in RunPC /\ {"finish", "unindex"} \subseteq RunPC
    BY <1>6 DEF Begin, RunPC
  <2>2. s \in Sources
    BY <1>a, <2>1
  <2>3. Goto(w, "finish") \/ Goto(w, "unindex")
    BY <1>6 DEF Begin
  <2>4. worker'[w].src = s /\ \A v \in Workers : v = w
    BY <2>1, <2>3, GotoKeeps DEF TypeOK, OneWorker
  <2>5. jobs' = jobs /\ (jobs[s].st = "running" => began'[s])
    <3>1. CASE HasRow(s)
      BY <1>6, <2>2, <3>1 DEF TypeOK, Begin, Restart
    <3>2. CASE ~HasRow(s)
      BY <1>6, <2>2, <3>2 DEF Begin, RowlessIsEmpty
    <3>. QED
      BY <3>1, <3>2
  <2>. QED
    BY <2>4, <2>5
<1>7. ASSUME NEW w \in Workers, Store(w) \/ Upsert(w) PROVE RunIsFresh'
  <2>1. worker[w].pc \in RunPC \ {"begin", "raised"}
    BY <1>7 DEF Store, Upsert, RunPC
  <2>2. worker[w] \in [pc : RunPC, src : Sources, attempts : Nat, staged : SUBSET Batch]
    BY <1>a, <2>1
  <2>3. \E pc, st : worker' = [worker EXCEPT ![w].pc = pc, ![w].staged = st]
    BY <1>7 DEF Store, Upsert
  <2>4. worker'[w].src = worker[w].src
    BY <2>2, <2>3 DEF TypeOK
  <2>5. UNCHANGED <<jobs, began>>
    BY <1>7 DEF Store, Upsert, sql
  <2>. QED
    BY <1>d, <2>1, <2>4, <2>5
<1>8. ASSUME NEW w \in Workers,
             Unindex(w) \/ Work(w) \/ StoreFails(w) \/ Summarize(w) \/ RecordFailure(w)
      PROVE  RunIsFresh'
  <2>1. worker[w].pc \in RunPC \ {"begin", "raised"}
    BY <1>8 DEF Unindex, Work, StoreFails, Summarize, RecordFailure, RunPC
  <2>2. \E pc \in RunPC : Goto(w, pc)
    BY <1>8 DEF Unindex, Work, StoreFails, Summarize, RecordFailure, RunPC
  <2>3. worker'[w].src = worker[w].src
    BY <2>1, <2>2, GotoKeeps DEF TypeOK
  <2>4. UNCHANGED <<jobs, began>>
    BY <1>8 DEF Unindex, Work, StoreFails, Summarize, RecordFailure, sql
  <2>. QED
    BY <1>d, <2>1, <2>3, <2>4
<1>9. ASSUME NEW s \in Sources, Expire(s) PROVE RunIsFresh'
  <2>1. worker' = worker /\ began' = began /\ \A u \in Sources : jobs'[u].st = jobs[u].st
    BY <1>9 DEF TypeOK, Expire, Job
  <2>. QED
    BY <1>b, <2>1
<1>10. ASSUME \/ UNCHANGED vars
              \/ \E r \in Requests :
                   \/ Cleanup(r) \/ RequestDies(r)
                   \/ \E s \in Sources : Upload(r, s) \/ Reindex(r, s)
                   \/ \E n \in Notebooks : ListNotebook(r, n)
              \/ AcquireLock \/ ReleaseLock \/ HolderDies \/ AgeLock
       PROVE  RunIsFresh'
  <2>1. UNCHANGED <<worker, jobs, began>>
    BY <1>10 DEF vars, sql, Cleanup, RequestDies, Upload, Reindex, ListNotebook,
       AcquireLock, ReleaseLock, HolderDies, AgeLock
  <2>. QED
    BY <1>b, <2>1
<1>. QED
  BY <1>1, <1>2, <1>3, <1>4, <1>5, <1>6, <1>7, <1>8, <1>9, <1>10
     DEF Next, WebStep, WorkerStep

\* With one worker loop a job is marked done only by a run that began after
\* the source was last queued: a reindex is never swallowed by the run that
\* was under way when it was asked for.
THEOREM DoneIsFresh ==
  ASSUME OneWorker
  PROVE  Spec => DoneByFreshRun
<1>. DEFINE A == \A s \in Sources :
                   jobs[s].st # "done" /\ jobs'[s].st = "done" => began[s]
<1>1. Init => RunIsFresh
  BY DEF Init, RunIsFresh, Busy, Idle, Down, RunPC
<1>2. TypeOK /\ RowlessIsEmpty /\ RunIsFresh /\ [Next]_vars => RunIsFresh'
  BY RunIsFreshInductive
<1>3. TypeOK /\ RunIsFresh /\ [Next]_vars => [A]_vars
  <2> SUFFICES ASSUME TypeOK, RunIsFresh, [Next]_vars,
                      NEW s \in Sources, jobs[s].st # "done", jobs'[s].st = "done"
               PROVE  began[s]
    OBVIOUS
  <2>1. ASSUME NEW w \in Workers, MarkDone(w) PROVE began[s]
    <3>1. worker[w].src = s /\ jobs[s].st = "running"
      BY <2>1 DEF TypeOK, MarkDone
    <3>. QED
      BY <2>1, <3>1 DEF MarkDone, RunIsFresh, Busy, RunPC
  <2>2. ASSUME NEW u \in Sources, Expire(u) PROVE FALSE
    BY <2>2 DEF TypeOK, Expire, Job
  <2>3. ASSUME NEW r \in Requests, Enqueue(r) PROVE FALSE
    BY <2>3 DEF TypeOK, Enqueue, Request
  <2>4. ASSUME NEW r \in Requests,
               DropNotebook(r) \/ \E u \in Sources : DeleteSource(r, u)
        PROVE  FALSE
    BY <2>4 DEF DropNotebook, DeleteSource, RemoveRows, NoJob
  <2>5. ASSUME NEW w \in Workers, NEW u \in Sources, Claim(w, u) PROVE FALSE
    BY <2>5 DEF TypeOK, Claim
  <2>6. ASSUME NEW w \in Workers, RequeueOrFail(w) PROVE FALSE
    BY <2>6 DEF TypeOK, RequeueOrFail, Job
  <2>7. ASSUME \/ UNCHANGED vars
               \/ \E r \in Requests :
                    \/ Cleanup(r) \/ RequestDies(r)
                    \/ \E u \in Sources : Upload(r, u) \/ Reindex(r, u)
                    \/ \E n \in Notebooks : ListNotebook(r, n)
               \/ \E w \in Workers :
                    \/ Start(w) \/ Crash(w) \/ Raise(w) \/ Begin(w) \/ Unindex(w) \/ Work(w)
                    \/ Store(w) \/ StoreFails(w) \/ Upsert(w) \/ Summarize(w)
                    \/ RecordFailure(w)
               \/ AcquireLock \/ ReleaseLock \/ HolderDies \/ AgeLock
        PROVE  FALSE
    <3>1. jobs' = jobs
      BY <2>7 DEF vars, sql, Cleanup, RequestDies, Upload, Reindex, ListNotebook, Start,
         Crash, Raise, Begin, Restart, Unindex, Work, Store, StoreFails, Upsert, Summarize,
         RecordFailure, AcquireLock, ReleaseLock, HolderDies, AgeLock
    <3>. QED
      BY <3>1
  <2>. QED
    BY <2>1, <2>2, <2>3, <2>4, <2>5, <2>6, <2>7 DEF Next, WebStep, WorkerStep
<1>4. [][A]_vars <=> DoneByFreshRun
  BY DEF DoneByFreshRun
<1>. QED
  BY <1>1, <1>2, <1>3, <1>4, TypeCorrect, RowsConsistent, PTL DEF Spec

-----------------------------------------------------------------------------
(* What one step does, said once for the proofs below.                     *)

\* A step inside process_source: w stays on its source and touches nothing of
\* any other source, no job and no web thread.
RunStep(w) == \/ Begin(w) \/ Unindex(w) \/ Work(w) \/ Store(w) \/ StoreFails(w)
              \/ Upsert(w) \/ Summarize(w) \/ RecordFailure(w) \/ Raise(w)

LEMMA RunStepFrame ==
  ASSUME TypeOK, NEW w \in Workers, RunStep(w)
  PROVE  /\ worker[w].pc \in RunPC /\ worker[w].src \in Sources
         /\ worker'[w].pc \in RunPC
         /\ worker'[w].src = worker[w].src
         /\ \A v \in Workers : v # w => worker'[v] = worker[v]
         /\ UNCHANGED <<jobs, request>>
         /\ \A t \in Sources : t # worker[w].src =>
              status'[t] = status[t] /\ Of(chunks', t) = Of(chunks, t)
<1>1. worker[w].pc \in RunPC
  BY DEF RunStep, Begin, Unindex, Work, Store, StoreFails, Upsert, Summarize,
     RecordFailure, Raise, RunPC
<1>2. worker[w] \in [pc : RunPC, src : Sources, attempts : Nat, staged : SUBSET Batch]
  BY <1>1 DEF TypeOK, Worker, RunPC
<1>3. \E pc \in RunPC : \E set : \/ Goto(w, pc)
                                 \/ worker' = [worker EXCEPT ![w].pc = pc, ![w].staged = set]
  BY DEF RunStep, Begin, Unindex, Work, Store, StoreFails, Upsert, Summarize,
     RecordFailure, Raise, RunPC
<1>4. /\ worker'[w].pc \in RunPC
      /\ worker'[w].src = worker[w].src
      /\ \A v \in Workers : v # w => worker'[v] = worker[v]
  BY <1>2, <1>3 DEF TypeOK, Goto
<1>5. UNCHANGED <<jobs, request>>
  BY DEF RunStep, Begin, Unindex, Work, Store, StoreFails, Upsert, Summarize,
     RecordFailure, Raise, sql
<1>6. \A t \in Sources : t # worker[w].src => status'[t] = status[t]
  BY DEF TypeOK, RunStep, Begin, Restart, Unindex, Work, Store, StoreFails, Upsert,
     Summarize, RecordFailure, Raise, sql
<1>7. \A t \in Sources : t # worker[w].src => Of(chunks', t) = Of(chunks, t)
  <2>1. \/ UNCHANGED chunks
        \/ chunks' = chunks \ Of(chunks, worker[w].src)
        \/ \E b : chunks' = chunks \cup {<<worker[w].src, b>>}
    BY DEF RunStep, Begin, Restart, Unindex, Work, Store, StoreFails, Upsert,
       Summarize, RecordFailure, Raise, sql
  <2>. QED
    BY <2>1 DEF Of
<1>. QED
  BY <1>1, <1>2, <1>4, <1>5, <1>6, <1>7

\* A step that takes a worker to the top of its loop, or out of it.
Leaves(w) == Start(w) \/ Crash(w) \/ MarkDone(w) \/ RequeueOrFail(w)

LEMMA LeavesFrame ==
  ASSUME TypeOK, NEW w \in Workers, Leaves(w)
  PROVE  /\ worker'[w].pc \notin RunPC /\ worker'[w].staged = {}
         /\ \A v \in Workers : v # w => worker'[v] = worker[v]
         /\ UNCHANGED <<chunks, vectors, request>>
<1>1. \E next \in {Idle, Down} : worker' = [worker EXCEPT ![w] = next]
  BY DEF Leaves, Start, Crash, MarkDone, RequeueOrFail
<1>2. \A next \in {Idle, Down} : next.pc \notin RunPC /\ next.staged = {}
  BY DEF Idle, Down, RunPC
<1>3. UNCHANGED <<chunks, vectors, request>>
  BY DEF Leaves, Start, Crash, MarkDone, RequeueOrFail, sql
<1>. QED
  BY <1>1, <1>2, <1>3 DEF TypeOK

\* Web threads, the clock and the migration leave the workers alone and store
\* no chunk.
Outside == \/ UNCHANGED vars
           \/ \E r \in Requests :
                \/ WebStep(r) \/ RequestDies(r)
                \/ \E s \in Sources : Upload(r, s) \/ Reindex(r, s) \/ DeleteSource(r, s)
                \/ \E n \in Notebooks : ListNotebook(r, n)
           \/ \E s \in Sources : Expire(s)
           \/ AcquireLock \/ ReleaseLock \/ HolderDies \/ AgeLock

LEMMA OutsideFrame ==
  ASSUME TypeOK, Outside
  PROVE  worker' = worker /\ chunks' \subseteq chunks
  BY DEF Outside, WebStep, Enqueue, DropNotebook, Cleanup, RequestDies, Upload, Reindex,
     DeleteSource, RemoveRows, ListNotebook, Expire, AcquireLock, ReleaseLock, HolderDies, AgeLock, vars, sql

LEMMA ClaimFrame ==
  ASSUME TypeOK, NEW w \in Workers, NEW s \in Sources, Claim(w, s)
  PROVE  /\ worker[w].pc = "idle"
         /\ worker'[w].pc = "begin" /\ worker'[w].src = s /\ worker'[w].staged = {}
         /\ \A v \in Workers : v # w => worker'[v] = worker[v]
         /\ jobs[s].st \in {"queued", "running"} /\ jobs'[s].st = "running"
         /\ \A t \in Sources : t # s => jobs'[t] = jobs[t]
         /\ UNCHANGED <<status, chunks, vectors, request>>
  BY DEF TypeOK, Claim, Runnable

LEMMA StepKinds ==
  ASSUME [Next]_vars
  PROVE  \/ \E w \in Workers : RunStep(w) \/ Leaves(w) \/ \E s \in Sources : Claim(w, s)
         \/ Outside
  BY DEF Next, WorkerStep, RunStep, Leaves, Outside

-----------------------------------------------------------------------------
\* Nobody works on a source with another: one worker loop, or no source queued
\* or re-claimed while a worker is on it.
Undisturbed == OneWorker \/ NoRepeats

LEMMA ExclusiveHolds ==
  ASSUME Undisturbed
  PROVE  Spec => []Exclusive
<1>1. CASE NoRepeats
  <2>1. ClaimInv => Exclusive
    BY DEF ClaimInv
  <2>. QED
    BY <1>1, <2>1, ClaimInvHolds, PTL
<1>2. CASE OneWorker
  <2>1. Exclusive
    BY <1>2 DEF OneWorker, Exclusive
  <2>. QED
    BY <2>1, PTL
<1>. QED
  BY <1>1, <1>2 DEF Undisturbed

\* Between its two transactions a run has the source empty.
EmptyBeforeStore ==
  \A w \in Workers : worker[w].pc \in {"unindex", "work", "store"}
                       => Of(chunks, worker[w].src) = {}

LEMMA ChunksOfOneRunInductive ==
  ASSUME TypeOK, Exclusive, EmptyBeforeStore, ChunksOfOneRun, [Next]_vars
  PROVE  EmptyBeforeStore' /\ ChunksOfOneRun'
<1>1. ASSUME NEW w \in Workers, RunStep(w)
      PROVE  EmptyBeforeStore' /\ ChunksOfOneRun'
  <2>. DEFINE s == worker[w].src
  <2>1. ASSUME NEW v \in Workers, v # w, worker[v].pc \in {"unindex", "work", "store"}
        PROVE  Of(chunks', worker[v].src) = {}
    <3>1. worker[v].src # s /\ worker[v].src \in Sources
      BY <1>1, <2>1, RunStepFrame DEF Exclusive, Busy, RunPC, TypeOK, Worker
    <3>. QED
      BY <1>1, <2>1, <3>1, RunStepFrame DEF EmptyBeforeStore
  <2>2. worker'[w].pc \in {"unindex", "work", "store"} => Of(chunks', s) = {}
    <3>1. CASE Begin(w)
      <4>1. \/ worker'[w].pc = "finish"
            \/ chunks' = chunks \ Of(chunks, s)
        BY <3>1, GotoKeeps DEF Begin, Restart, TypeOK, RunPC
      <4>. QED
        BY <4>1 DEF Of
    <3>2. CASE Unindex(w) \/ Work(w)
      BY <3>2 DEF Unindex, Work, EmptyBeforeStore, sql
    <3>3. CASE Store(w) \/ StoreFails(w) \/ Upsert(w) \/ Summarize(w) \/ RecordFailure(w) \/ Raise(w)
      <4>1. \E pc \in {"upsert", "summary", "record", "finish", "raised"} : \E set :
               Goto(w, pc) \/ worker' = [worker EXCEPT ![w].pc = pc, ![w].staged = set]
        BY <3>3 DEF Store, StoreFails, Upsert, Summarize, RecordFailure, Raise
      <4>2. worker[w] \in [pc : RunPC, src : Sources, attempts : Nat, staged : SUBSET Batch]
        BY <1>1, RunStepFrame DEF TypeOK, Worker, RunPC
      <4>. QED
        BY <4>1, <4>2 DEF Goto, TypeOK
    <3>. QED
      BY <1>1, <3>1, <3>2, <3>3 DEF RunStep
  <2>3. EmptyBeforeStore'
    BY <1>1, <2>1, <2>2, RunStepFrame DEF EmptyBeforeStore
  <2>4. ChunksOfOneRun'
    <3>1. CASE Store(w)
      <4>1. PICK b : chunks' = chunks \cup {<<s, b>>}
        BY <3>1 DEF Store
      <4>2. Of(chunks, s) = {}
        BY <3>1 DEF Store, EmptyBeforeStore
      <4>. QED
        BY <4>1, <4>2 DEF ChunksOfOneRun, Of
    <3>2. CASE ~Store(w)
      <4>1. chunks' \subseteq chunks
        BY <1>1, <3>2 DEF RunStep, Begin, Restart, Unindex, Work, StoreFails, Upsert,
           Summarize, RecordFailure, Raise, sql
      <4>. QED
        BY <4>1 DEF ChunksOfOneRun
    <3>. QED
      BY <3>1, <3>2
  <2>. QED
    BY <2>3, <2>4
<1>2. ASSUME NEW w \in Workers, Leaves(w) \/ \E s \in Sources : Claim(w, s)
      PROVE  EmptyBeforeStore' /\ ChunksOfOneRun'
  BY <1>2, LeavesFrame, ClaimFrame DEF EmptyBeforeStore, ChunksOfOneRun, RunPC
<1>3. ASSUME Outside PROVE EmptyBeforeStore' /\ ChunksOfOneRun'
  BY <1>3, OutsideFrame DEF EmptyBeforeStore, ChunksOfOneRun, Of
<1>. QED
  BY <1>1, <1>2, <1>3, StepKinds

\* Undisturbed, no source ever holds the chunks of two runs: the run that is to
\* store them has the source to itself since it emptied it.
THEOREM NoMixedChunks ==
  ASSUME Undisturbed
  PROVE  Spec => []ChunksOfOneRun
<1>1. Init => EmptyBeforeStore /\ ChunksOfOneRun
  BY DEF Init, EmptyBeforeStore, ChunksOfOneRun, Of
<1>2. TypeOK /\ Exclusive /\ EmptyBeforeStore /\ ChunksOfOneRun /\ [Next]_vars
        => EmptyBeforeStore' /\ ChunksOfOneRun'
  BY ChunksOfOneRunInductive
<1>. QED
  BY <1>1, <1>2, TypeCorrect, ExclusiveHolds, PTL DEF Spec

-----------------------------------------------------------------------------
(* What the web threads have in hand.                                      *)

\* Once a source has had a row it is never unborn, and never comes back.
LEMMA StatusSteps ==
  ASSUME TypeOK, [Next]_vars, NEW s \in Sources
  PROVE  /\ status[s] # "none" => status'[s] # "none"
         /\ status[s] = "deleted" => status'[s] = "deleted"
<1>1. ASSUME NEW w \in Workers, RunStep(w)
      PROVE  /\ status[s] # "none" => status'[s] # "none"
             /\ status[s] = "deleted" => status'[s] = "deleted"
  BY <1>1, RunStepFrame DEF RunStep, Begin, Restart, Unindex, Work, Store, StoreFails, Upsert,
     Summarize, RecordFailure, Raise, sql, TypeOK, HasRow
<1>2. ASSUME NEW w \in Workers, Leaves(w) \/ \E t \in Sources : Claim(w, t)
      PROVE  /\ status[s] # "none" => status'[s] # "none"
             /\ status[s] = "deleted" => status'[s] = "deleted"
  BY <1>2 DEF Leaves, Start, Crash, MarkDone, RequeueOrFail, FailUnlessIndexed, Claim, sql,
     TypeOK, HasRow
<1>3. ASSUME Outside
      PROVE  /\ status[s] # "none" => status'[s] # "none"
             /\ status[s] = "deleted" => status'[s] = "deleted"
  BY <1>3 DEF Outside, WebStep, Enqueue, DropNotebook, Cleanup, RequestDies, Upload, Reindex,
     DeleteSource, RemoveRows, ListNotebook, Expire, AcquireLock, ReleaseLock, HolderDies, AgeLock, vars, sql,
     TypeOK, HasRow
<1>. QED
  BY <1>1, <1>2, <1>3, StepKinds

\* A thread is to enqueue the one source it wrote the row of; the sources it is to
\* drop are of its notebook; those it cleans up after are gone for good.
Tasks ==
  \A r \in Requests :
    /\ request[r].pc = "enqueue" => \E s \in Sources : request[r].todo = {s}
    /\ request[r].pc = "drop" =>
         \A s \in request[r].todo : status[s] # "none" /\ NotebookOf[s] = request[r].nb
    /\ request[r].pc = "cleanup" => \A s \in request[r].todo : status[s] = "deleted"

LEMMA TasksInductive ==
  ASSUME TypeOK, Tasks, [Next]_vars
  PROVE  Tasks'
<1>a. \A r \in Requests : request[r] \in Request
  BY DEF TypeOK
<1>1. ASSUME request' = request PROVE Tasks'
  BY <1>1, <1>a, StatusSteps DEF Tasks, Request
<1>2. ASSUME NEW r \in Requests, NEW next,
             request' = [request EXCEPT ![r] = next],
             \/ next.pc = "idle"
             \/ next.pc = "enqueue" /\ \E s \in Sources : next.todo = {s}
             \/ next.pc = "drop" /\ \A s \in next.todo : status'[s] # "none" /\ NotebookOf[s] = next.nb
             \/ next.pc = "cleanup" /\ \A s \in next.todo : status'[s] = "deleted"
      PROVE  Tasks'
  BY <1>2, <1>a, StatusSteps DEF Tasks, Request, TypeOK
<1>3. ASSUME NEW r \in Requests, NEW s \in Sources, Upload(r, s) \/ Reindex(r, s)
      PROVE  Tasks'
  <2>. DEFINE next == [pc |-> "enqueue", nb |-> None, todo |-> {s}]
  <2>1. request' = [request EXCEPT ![r] = next]
    BY <1>3 DEF Upload, Reindex
  <2>. QED
    BY <2>1, <1>2
<1>4. ASSUME NEW r \in Requests, NEW s \in Sources, DeleteSource(r, s) PROVE Tasks'
  <2>. DEFINE next == [pc |-> "cleanup", nb |-> None, todo |-> {s}]
  <2>1. request' = [request EXCEPT ![r] = next] /\ status'[s] = "deleted"
    BY <1>4 DEF DeleteSource, RemoveRows
  <2>. QED
    BY <2>1, <1>2
<1>5. ASSUME NEW r \in Requests, NEW n \in Notebooks, ListNotebook(r, n) PROVE Tasks'
  <2>. DEFINE next == [pc |-> "drop", nb |-> n,
                       todo |-> {s \in Sources : HasRow(s) /\ NotebookOf[s] = n}]
  <2>1. request' = [request EXCEPT ![r] = next] /\ status' = status
    BY <1>5 DEF ListNotebook, sql
  <2>. QED
    BY <2>1, <1>2 DEF HasRow
<1>6. ASSUME NEW r \in Requests, DropNotebook(r) PROVE Tasks'
  <2>1. \A s \in request[r].todo : status'[s] = "deleted"
    BY <1>6, <1>a DEF DropNotebook, RemoveRows, Tasks, HasRow, Request, TypeOK, SourceStatus
  <2>2. request' = [request EXCEPT ![r] = NoRequest]
          \/ request' = [request EXCEPT ![r] = [request[r] EXCEPT !.pc = "cleanup"]]
    BY <1>6 DEF DropNotebook
  <2>3. NoRequest.pc = "idle" /\ [request[r] EXCEPT !.pc = "cleanup"].pc = "cleanup"
          /\ [request[r] EXCEPT !.pc = "cleanup"].todo = request[r].todo
    BY <1>a DEF NoRequest, Request
  <2>. QED
    BY <1>2, <2>1, <2>2, <2>3
<1>7. ASSUME NEW r \in Requests, Cleanup(r) PROVE Tasks'
  <2>. DEFINE next(set) == [request[r] EXCEPT !.todo = set]
  <2>1. PICK set \in SUBSET request[r].todo :
          \/ request' = [request EXCEPT ![r] = NoRequest]
          \/ request' = [request EXCEPT ![r] = next(set)]
    BY <1>7 DEF Cleanup
  <2>2. NoRequest.pc = "idle" /\ next(set).pc = "cleanup" /\ next(set).todo = set
    BY <1>7, <1>a DEF NoRequest, Request, Cleanup
  <2>3. \A s \in set : status'[s] = "deleted"
    BY <1>7 DEF Cleanup, Tasks, sql
  <2>. QED
    BY <1>2, <2>1, <2>2, <2>3
<1>8. ASSUME NEW r \in Requests, Enqueue(r) \/ RequestDies(r) PROVE Tasks'
  <2>1. request' = [request EXCEPT ![r] = NoRequest] /\ NoRequest.pc = "idle"
    BY <1>8 DEF Enqueue, RequestDies, NoRequest
  <2>. QED
    BY <1>2, <2>1
<1>9. ASSUME NEW w \in Workers, RunStep(w) \/ Leaves(w) \/ \E s \in Sources : Claim(w, s)
      PROVE  Tasks'
  BY <1>9, <1>1, RunStepFrame, LeavesFrame, ClaimFrame
<1>10. ASSUME \/ UNCHANGED vars \/ (\E s \in Sources : Expire(s))
              \/ AcquireLock \/ ReleaseLock \/ HolderDies \/ AgeLock
       PROVE  Tasks'
  BY <1>10, <1>1 DEF vars, Expire, AcquireLock, ReleaseLock, HolderDies, AgeLock
<1>. QED
  BY <1>3, <1>4, <1>5, <1>6, <1>7, <1>8, <1>9, <1>10, StepKinds DEF Outside, WebStep

LEMMA TasksHold == Spec => []Tasks
<1>1. Init => Tasks
  BY DEF Init, Tasks, NoRequest
<1>2. TypeOK /\ Tasks /\ [Next]_vars => Tasks'
  BY TasksInductive
<1>. QED
  BY <1>1, <1>2, TypeCorrect, PTL DEF Spec

LEMMA StagesHold == Spec => []StagesItsOwn
<1>1. Init => StagesItsOwn
  BY DEF Init, StagesItsOwn, Down, Idle
<1>2. TypeOK /\ StagesItsOwn /\ [Next]_vars => StagesItsOwn'
  BY StagesInductive
<1>. QED
  BY <1>1, <1>2, TypeCorrect, PTL DEF Spec

-----------------------------------------------------------------------------
(* A source is never left behind. Either nothing makes a run end without   *)
(* its except branch (Calm), or one worker loop runs every job (OneWorker):*)
(* with several workers and such a fault a late worker can settle the job  *)
(* of a source another run has opened again.                               *)

Calm == {"worker_crash", "sqlite"} \cap FaultKinds = {}

Asked(s)  == \E r \in Requests : Enqueues(r, s)
Open(s)   == status[s] \in {"uploaded", "processing"}

\* The steps of a run after which it still writes the outcome of its source.
Undecided == {"begin", "unindex", "work", "store", "record"}
Ahead(s)  == \E w \in Workers : worker[w].src = s /\ worker[w].pc \in Undecided

\* No run of s has written its outcome and is still to settle the job.
NonePast(s) ==
  \A w \in Workers : Busy(w) /\ worker[w].src = s => worker[w].pc \in Undecided \cup {"raised"}

InHand(c) == \E w \in Workers : worker[w].pc = "upsert" /\ c \in worker[w].staged

\* An open source is about to be queued, is queued, or has a run ahead that will
\* close it ...
CalmOpen ==
  \A s \in Sources : Open(s) => Asked(s) \/ jobs[s].st = "queued" \/ Ahead(s)

\* ... or, when a run may vanish, has a job nothing settles before the next run.
LoneOpen ==
  \A s \in Sources :
    Open(s) => \/ Asked(s) \/ jobs[s].st = "queued"
               \/ jobs[s].st = "running" /\ NonePast(s)

\* The job of a source being worked on is not settled under its one worker.
BusyHasJob ==
  \A w \in Workers : Busy(w) =>
    /\ status[worker[w].src] # "none"
    /\ HasRow(worker[w].src) => jobs[worker[w].src].st \in {"queued", "running"}

LEMMA BusyHasJobInductive ==
  ASSUME OneWorker, TypeOK, RowlessIsEmpty, BusyHasJob, [Next]_vars
  PROVE  BusyHasJob'
<1>a. \A w \in Workers : Busy(w) => worker[w].src \in Sources
  BY DEF TypeOK, Worker, RunPC, Busy
<1>1. ASSUME NEW w \in Workers, RunStep(w) PROVE BusyHasJob'
  <2>. DEFINE s == worker[w].src
  <2>1. HasRow(s)' => HasRow(s)
    BY <1>1, RunStepFrame, StatusSteps DEF HasRow, BusyHasJob, Busy
  <2>2. status'[s] # "none"
    BY <1>1, RunStepFrame, StatusSteps DEF BusyHasJob, Busy
  <2>. QED
    BY <1>1, <2>1, <2>2, RunStepFrame DEF BusyHasJob, Busy, OneWorker
<1>2. ASSUME NEW w \in Workers, Leaves(w) PROVE BusyHasJob'
  BY <1>2, LeavesFrame DEF BusyHasJob, Busy, OneWorker
<1>3. ASSUME NEW w \in Workers, NEW s \in Sources, Claim(w, s) PROVE BusyHasJob'
  <2>1. status[s] # "none"
    BY <1>3, ClaimFrame DEF RowlessIsEmpty, HasRow
  <2>. QED
    BY <1>3, <2>1, ClaimFrame DEF BusyHasJob, Busy, OneWorker
<1>4. ASSUME Outside PROVE BusyHasJob'
  <2>1. ASSUME NEW w \in Workers, Busy(w)
        PROVE  /\ status'[worker[w].src] # "none"
               /\ HasRow(worker[w].src)' => jobs'[worker[w].src].st \in {"queued", "running"}
    <3>. DEFINE s == worker[w].src
    <3>1. s \in Sources /\ status[s] # "none"
      BY <1>a, <2>1 DEF BusyHasJob
    <3>2. HasRow(s)' => HasRow(s) /\ jobs[s].st \in {"queued", "running"}
      BY <1>4, <2>1, <3>1, OutsideFrame, StatusSteps DEF HasRow, BusyHasJob
    <3>3. HasRow(s)' => jobs'[s].st \in {jobs[s].st, "queued"}
      BY <1>4, <3>1 DEF Outside, WebStep, Enqueue, DropNotebook, Cleanup, RequestDies, Upload,
         Reindex, DeleteSource, RemoveRows, ListNotebook, Expire, AcquireLock, ReleaseLock,
         HolderDies, AgeLock, vars, sql, TypeOK, Job, HasRow
    <3>. QED
      BY <1>4, <3>1, <3>2, <3>3, StatusSteps, OutsideFrame
  <2>. QED
    BY <1>4, <2>1, OutsideFrame DEF BusyHasJob, Busy
<1>. QED
  BY <1>1, <1>2, <1>3, <1>4, StepKinds

LEMMA BusyHasJobHolds ==
  ASSUME OneWorker
  PROVE  Spec => []BusyHasJob
<1>1. Init => BusyHasJob
  BY DEF Init, BusyHasJob, Busy, RunPC, Down, Idle
<1>2. TypeOK /\ RowlessIsEmpty /\ BusyHasJob /\ [Next]_vars => BusyHasJob'
  BY BusyHasJobInductive
<1>. QED
  BY <1>1, <1>2, TypeCorrect, RowsConsistent, PTL DEF Spec

\* A web step that leaves the workers alone and opens only what it will enqueue.
LEMMA OutsideOpens ==
  ASSUME TypeOK, Tasks, "web_crash" \notin FaultKinds, Outside, NEW s \in Sources,
         Open(s)'
  PROVE  \/ Asked(s)' \/ jobs'[s].st = "queued"
         \/ Open(s) /\ jobs'[s].st = jobs[s].st /\ ~Asked(s)
<1> USE DEF Open, Asked, Enqueues
<1>1. ASSUME NEW r \in Requests, NEW t \in Sources, Upload(r, t) \/ Reindex(r, t)
      PROVE  Asked(s)' \/ (Open(s) /\ jobs' = jobs /\ ~Asked(s))
  BY <1>1 DEF TypeOK, Upload, Reindex
<1>2. ASSUME NEW r \in Requests, Enqueue(r)
      PROVE  Asked(s)' \/ jobs'[s].st = "queued" \/ (Open(s) /\ jobs'[s] = jobs[s] /\ ~Asked(s))
  <2>1. PICK t \in Sources : request[r].todo = {t} /\ status' = status
    BY <1>2 DEF Tasks, Enqueue
  <2>2. CASE s = t
    BY <1>2, <2>1, <2>2 DEF TypeOK, Enqueue, HasRow
  <2>3. CASE s # t
    <3>1. jobs'[s] = jobs[s]
      BY <1>2, <2>1, <2>3 DEF TypeOK, Enqueue
    <3>2. Asked(s) => Asked(s)'
      BY <1>2, <2>1, <2>3 DEF TypeOK, Enqueue
    <3>. QED
      BY <2>1, <3>1, <3>2
  <2>. QED
    BY <2>2, <2>3
<1>3. ASSUME NEW r \in Requests, DropNotebook(r) \/ \E t \in Sources : DeleteSource(r, t)
      PROVE  Asked(s)' \/ (Open(s) /\ jobs'[s] = jobs[s] /\ ~Asked(s))
  <2>1. status'[s] = status[s] /\ jobs'[s] = jobs[s]
    BY <1>3 DEF TypeOK, DropNotebook, DeleteSource, RemoveRows, HasRow
  <2>2. Asked(s) => Asked(s)'
    BY <1>3 DEF TypeOK, DropNotebook, DeleteSource
  <2>. QED
    BY <2>1, <2>2
<1>4. ASSUME NEW r \in Requests, Cleanup(r) \/ \E n \in Notebooks : ListNotebook(r, n)
      PROVE  Asked(s)' \/ (Open(s) /\ jobs' = jobs /\ ~Asked(s))
  BY <1>4 DEF TypeOK, Cleanup, ListNotebook, sql
<1>5. ASSUME NEW r \in Requests, RequestDies(r) PROVE FALSE
  BY <1>5 DEF RequestDies, Fault
<1>6. ASSUME \/ UNCHANGED vars \/ (\E t \in Sources : Expire(t))
             \/ AcquireLock \/ ReleaseLock \/ HolderDies \/ AgeLock
      PROVE  Asked(s)' \/ (Open(s) /\ jobs'[s].st = jobs[s].st /\ ~Asked(s))
  BY <1>6 DEF TypeOK, Job, vars, sql, Expire, AcquireLock, ReleaseLock, HolderDies, AgeLock
<1>. QED
  BY <1>1, <1>2, <1>3, <1>4, <1>5, <1>6 DEF Outside, WebStep

LEMMA CalmOpenInductive ==
  ASSUME Calm, "web_crash" \notin FaultKinds, TypeOK, Tasks, CalmOpen, [Next]_vars
  PROVE  CalmOpen'
<1> SUFFICES ASSUME NEW s \in Sources, Open(s)'
             PROVE  Asked(s)' \/ jobs'[s].st = "queued" \/ Ahead(s)'
  BY DEF CalmOpen
<1>1. ASSUME NEW w \in Workers, RunStep(w)
      PROVE  Asked(s)' \/ jobs'[s].st = "queued" \/ Ahead(s)'
  <2>1. Asked(s)' <=> Asked(s)
    BY <1>1, RunStepFrame DEF Asked, Enqueues
  <2>2. CASE worker[w].src # s
    <3>1. Open(s) /\ jobs'[s] = jobs[s]
      BY <1>1, <2>2, RunStepFrame DEF Open
    <3>2. Ahead(s) => Ahead(s)'
      BY <1>1, <2>2, RunStepFrame DEF Ahead
    <3>. QED
      BY <2>1, <3>1, <3>2 DEF CalmOpen
  <2>3. CASE worker[w].src = s
    <3>1. CASE Begin(w) \/ Unindex(w) \/ Work(w) \/ StoreFails(w)
      <4>1. \/ worker'[w].pc \in Undecided
            \/ Begin(w) /\ ~HasRow(s) /\ status' = status
        BY <2>3, <3>1, GotoKeeps
           DEF Begin, Unindex, Work, StoreFails, Undecided, TypeOK, RunPC
      <4>. QED
        BY <1>1, <2>3, <4>1, RunStepFrame DEF Ahead, Open, HasRow
    <3>2. CASE Upsert(w) \/ Summarize(w)
      <4>1. Open(s) /\ jobs'[s] = jobs[s]
        BY <3>2 DEF Upsert, Summarize, sql, Open
      <4>2. Ahead(s) => Ahead(s)'
        BY <1>1, <3>2, RunStepFrame DEF Ahead, Upsert, Summarize, Undecided
      <4>. QED
        BY <2>1, <4>1, <4>2 DEF CalmOpen
    <3>3. CASE Store(w) \/ RecordFailure(w)
      BY <2>3, <3>3 DEF Store, RecordFailure, Open, TypeOK, HasRow
    <3>4. CASE Raise(w)
      BY <3>4 DEF Raise, Fault, Calm
    <3>. QED
      BY <1>1, <3>1, <3>2, <3>3, <3>4 DEF RunStep
  <2>. QED
    BY <2>2, <2>3
<1>2. ASSUME NEW w \in Workers, Leaves(w)
      PROVE  Asked(s)' \/ jobs'[s].st = "queued" \/ Ahead(s)'
  <2>1. ~Crash(w)
    BY DEF Crash, Fault, Calm
  <2>2. worker[w].pc \notin Undecided
    BY <1>2, <2>1 DEF Leaves, Start, MarkDone, RequeueOrFail, Undecided
  <2>3. Ahead(s) => Ahead(s)'
    BY <1>2, <2>2, LeavesFrame DEF Ahead
  <2>4. Asked(s)' <=> Asked(s)
    BY <1>2, LeavesFrame DEF Asked, Enqueues
  <2>5. Open(s) /\ (jobs[s].st = "queued" => jobs'[s].st = "queued")
    BY <1>2, <2>1 DEF Leaves, Start, MarkDone, RequeueOrFail, FailUnlessIndexed, sql, Open,
       TypeOK, Job
  <2>. QED
    BY <2>3, <2>4, <2>5 DEF CalmOpen
<1>3. ASSUME NEW w \in Workers, NEW t \in Sources, Claim(w, t)
      PROVE  Asked(s)' \/ jobs'[s].st = "queued" \/ Ahead(s)'
  <2>1. s # t => jobs'[s] = jobs[s]
    BY <1>3, ClaimFrame
  <2>2. Ahead(t)'
    BY <1>3, ClaimFrame DEF Ahead, Undecided
  <2>3. Ahead(s) => Ahead(s)'
    BY <1>3, ClaimFrame DEF Ahead, Undecided
  <2>4. Open(s) /\ (Asked(s)' <=> Asked(s))
    BY <1>3, ClaimFrame DEF Open, Asked, Enqueues
  <2>. QED
    BY <2>1, <2>2, <2>3, <2>4 DEF CalmOpen
<1>4. ASSUME Outside
      PROVE  Asked(s)' \/ jobs'[s].st = "queued" \/ Ahead(s)'
  <2>1. Ahead(s)' <=> Ahead(s)
    BY <1>4, OutsideFrame DEF Ahead
  <2>. QED
    BY <1>4, <2>1, OutsideOpens DEF CalmOpen
<1>. QED
  BY <1>1, <1>2, <1>3, <1>4, StepKinds

LEMMA LoneOpenInductive ==
  ASSUME OneWorker, "web_crash" \notin FaultKinds, TypeOK, Tasks, BusyHasJob, LoneOpen, [Next]_vars
  PROVE  LoneOpen'
<1> DEFINE Kept(s) == \/ Asked(s) \/ jobs[s].st = "queued"
                      \/ jobs[s].st = "running" /\ NonePast(s)
<1> SUFFICES ASSUME NEW s \in Sources, Open(s)' PROVE Kept(s)'
  BY DEF LoneOpen
<1>a. Open(s) => Kept(s)
  BY DEF LoneOpen
<1>1. ASSUME NEW w \in Workers, RunStep(w) PROVE Kept(s)'
  <2>1. (Asked(s)' <=> Asked(s)) /\ jobs' = jobs
    BY <1>1, RunStepFrame DEF Asked, Enqueues
  <2>2. CASE worker[w].src # s
    <3>1. Open(s)
      BY <1>1, <2>2, RunStepFrame DEF Open
    <3>2. NonePast(s) => NonePast(s)'
      BY <1>1, <2>2, RunStepFrame DEF NonePast, Busy
    <3>. QED
      BY <1>a, <2>1, <3>1, <3>2
  <2>3. CASE worker[w].src = s
    <3>1. \A v \in Workers : v = w
      BY DEF OneWorker
    <3>2. CASE Begin(w) \/ Unindex(w) \/ Work(w) \/ StoreFails(w) \/ Raise(w)
      <4>1. \/ worker'[w].pc \in Undecided \cup {"raised"} /\ worker[w].pc \in Undecided
            \/ worker'[w].pc = "raised" /\ worker[w].pc = "finish" /\ status' = status
            \/ Begin(w) /\ ~HasRow(s) /\ status' = status
        BY <2>3, <3>2, GotoKeeps
           DEF Begin, Unindex, Work, StoreFails, Raise, Undecided, TypeOK, RunPC, sql
      <4>2. \/ NonePast(s)'
            \/ ~Open(s)' 
        BY <3>1, <4>1 DEF NonePast, Open, HasRow
      <4>3. Open(s) \/ (Begin(w) /\ HasRow(s))
        BY <2>3, <3>2 DEF Begin, Unindex, Work, StoreFails, Raise, Open, sql
      <4>4. Begin(w) /\ HasRow(s) => jobs[s].st \in {"queued", "running"}
        BY <1>1, <2>3, RunStepFrame DEF BusyHasJob, Busy
      <4>. QED
        BY <1>a, <2>1, <4>2, <4>3, <4>4
    <3>3. CASE Upsert(w) \/ Summarize(w)
      <4>1. Open(s) /\ ~NonePast(s)
        BY <2>3, <3>3 DEF Upsert, Summarize, sql, Open, NonePast, Busy, RunPC, Undecided
      <4>. QED
        BY <1>a, <2>1, <4>1
    <3>4. CASE Store(w) \/ RecordFailure(w)
      BY <2>3, <3>4 DEF Store, RecordFailure, Open, TypeOK, HasRow
    <3>. QED
      BY <1>1, <3>2, <3>3, <3>4 DEF RunStep
  <2>. QED
    BY <2>2, <2>3
<1>2. ASSUME NEW w \in Workers, Leaves(w) PROVE Kept(s)'
  <2>1. NonePast(s)'
    BY <1>2, LeavesFrame DEF NonePast, Busy, OneWorker
  <2>2. Asked(s)' <=> Asked(s)
    BY <1>2, LeavesFrame DEF Asked, Enqueues
  <2>3. Open(s)
    BY <1>2 DEF Leaves, Start, Crash, MarkDone, RequeueOrFail, FailUnlessIndexed, sql, Open, TypeOK
  <2>4. CASE Start(w) \/ Crash(w)
    BY <1>a, <2>1, <2>2, <2>3, <2>4 DEF Start, Crash, sql
  <2>5. CASE MarkDone(w)
    <3>1. jobs'[s] = jobs[s] \/ (jobs[s].st = "running" /\ ~NonePast(s))
      BY <2>5 DEF MarkDone, TypeOK, NonePast, Busy, RunPC, Undecided
    <3>. QED
      BY <1>a, <2>1, <2>2, <2>3, <3>1
  <2>6. CASE RequeueOrFail(w)
    <3>1. \/ jobs'[s] = jobs[s] \/ jobs'[s].st = "queued"
          \/ jobs[s].st = "running" /\ FailUnlessIndexed(s)
      BY <2>6 DEF RequeueOrFail, TypeOK, Job
    <3>2. FailUnlessIndexed(s) => ~Open(s)'
      BY DEF FailUnlessIndexed, Open, TypeOK, HasRow, SourceStatus
    <3>. QED
      BY <1>a, <2>1, <2>2, <2>3, <3>1, <3>2
  <2>. QED
    BY <1>2, <2>4, <2>5, <2>6 DEF Leaves
<1>3. ASSUME NEW w \in Workers, NEW t \in Sources, Claim(w, t) PROVE Kept(s)'
  <2>1. CASE s = t
    BY <1>3, <2>1, ClaimFrame DEF NonePast, Busy, OneWorker, Undecided
  <2>2. CASE s # t
    <3>1. jobs'[s] = jobs[s] /\ Open(s) /\ (Asked(s)' <=> Asked(s))
      BY <1>3, <2>2, ClaimFrame DEF Open, Asked, Enqueues
    <3>2. NonePast(s)'
      BY <1>3, <2>2, ClaimFrame DEF NonePast, Busy, OneWorker
    <3>. QED
      BY <1>a, <3>1, <3>2
  <2>. QED
    BY <2>1, <2>2
<1>4. ASSUME Outside PROVE Kept(s)'
  <2>1. NonePast(s)' <=> NonePast(s)
    BY <1>4, OutsideFrame DEF NonePast, Busy
  <2>. QED
    BY <1>a, <1>4, <2>1, OutsideOpens
<1>. QED
  BY <1>1, <1>2, <1>3, <1>4, StepKinds

\* A source never reads 'uploaded' or 'processing' with nothing left that would work
\* on it, whatever it goes through: as long as a web process does not die between
\* writing the row and queueing it, and runs do not vanish under several workers.
THEOREM NeverStranded ==
  ASSUME "web_crash" \notin FaultKinds, OneWorker \/ Calm
  PROVE  Spec => []NotStranded
<1>1. Init => CalmOpen /\ LoneOpen
  BY DEF Init, CalmOpen, LoneOpen, Open
<1>2. CalmOpen \/ LoneOpen => NotStranded
  BY DEF CalmOpen, LoneOpen, NotStranded, Settled, WorkedOn, Open, Asked, Enqueues, Ahead,
     Busy, RunPC, Undecided
<1>3. CASE Calm
  <2>1. TypeOK /\ Tasks /\ CalmOpen /\ [Next]_vars => CalmOpen'
    BY <1>3, CalmOpenInductive
  <2>. QED
    BY <1>1, <1>2, <2>1, TypeCorrect, TasksHold, PTL DEF Spec
<1>4. CASE OneWorker
  <2>1. TypeOK /\ Tasks /\ BusyHasJob /\ LoneOpen /\ [Next]_vars => LoneOpen'
    BY <1>4, LoneOpenInductive
  <2>2. Spec => []BusyHasJob
    BY <1>4, BusyHasJobHolds
  <2>. QED
    BY <1>1, <1>2, <2>1, <2>2, TypeCorrect, TasksHold, PTL DEF Spec
<1>. QED
  BY <1>3, <1>4

-----------------------------------------------------------------------------
(* What reads 'indexed' can be searched.                                   *)

\* Every chunk of an indexed source is in the index, in the hand of the worker that
\* is to put it there, or has a run ahead that starts the source again ...
CalmIndexed ==
  \A s \in Sources : status[s] = "indexed" =>
    \A c \in Of(chunks, s) : c \in vectors \/ InHand(c) \/ Ahead(s)

\* ... or, when a run may vanish, a job that is not done.
LoneIndexed ==
  \A s \in Sources : status[s] = "indexed" =>
    \A c \in Of(chunks, s) :
      \/ c \in vectors \/ InHand(c)
      \/ jobs[s].st \in {"queued", "running", "failed"} /\ NonePast(s)

\* Web threads take no vector of a source that reads 'indexed' and settle no job.
LEMMA OutsideIndexed ==
  ASSUME TypeOK, Tasks, Outside, NEW s \in Sources, status'[s] = "indexed"
  PROVE  /\ status[s] = "indexed"
         /\ Of(chunks', s) \subseteq Of(chunks, s)
         /\ Of(vectors, s) \subseteq vectors'
         /\ jobs'[s].st \in {jobs[s].st, "queued"}
<1>1. status[s] = "indexed" /\ jobs'[s].st \in {jobs[s].st, "queued"}
  BY DEF Outside, WebStep, Enqueue, DropNotebook, Cleanup, RequestDies, Upload, Reindex,
     DeleteSource, RemoveRows, ListNotebook, Expire, AcquireLock, ReleaseLock, HolderDies, AgeLock, vars, sql,
     TypeOK, Job, HasRow
<1>2. Of(chunks', s) \subseteq Of(chunks, s)
  BY OutsideFrame DEF Of
<1>3. CASE \E r \in Requests : Cleanup(r)
  <2>1. PICK r \in Requests : Cleanup(r)
    BY <1>3
  <2>2. PICK t \in request[r].todo : vectors \ Of(vectors, t) \subseteq vectors'
    BY <2>1 DEF Cleanup
  <2>3. t # s
    BY <1>1, <2>1, <2>2 DEF Tasks, Cleanup
  <2>. QED
    BY <1>1, <1>2, <2>2, <2>3 DEF Of
<1>4. CASE ~\E r \in Requests : Cleanup(r)
  <2>1. vectors' = vectors
    BY <1>4 DEF Outside, WebStep, Enqueue, DropNotebook, RequestDies, Upload, Reindex,
     DeleteSource, ListNotebook, Expire, AcquireLock, ReleaseLock, HolderDies, AgeLock, vars, sql
  <2>. QED
    BY <1>1, <1>2, <2>1 DEF Of
<1>. QED
  BY <1>3, <1>4

\* A run takes every chunk its source has by now on to the index.
LEMMA StoreStages ==
  ASSUME TypeOK, NEW w \in Workers, Store(w), NEW c \in Of(chunks', worker[w].src)
  PROVE  InHand(c)'
<1>1. worker[w] \in [pc : RunPC, src : Sources, attempts : Nat, staged : SUBSET Batch]
  BY DEF TypeOK, Store, Worker
<1>2. PICK b : /\ chunks' = chunks \cup {<<worker[w].src, b>>}
               /\ worker' = [worker EXCEPT ![w].pc = "upsert",
                                           ![w].staged = ReadBack(worker[w].src, b)]
  BY DEF Store
<1>3. worker'[w].pc = "upsert" /\ worker'[w].staged = ReadBack(worker[w].src, b)
  BY <1>1, <1>2 DEF TypeOK
<1>. QED
  BY <1>2, <1>3 DEF InHand, ReadBack, Of

\* An upsert that did not reach Chroma takes the run to its except branch.
LEMMA UpsertGoes ==
  ASSUME TypeOK, NEW w \in Workers, Upsert(w), vectors' # vectors \cup worker[w].staged
  PROVE  worker'[w].pc = "record"
<1>1. worker[w] \in [pc : RunPC, src : Sources, attempts : Nat, staged : SUBSET Batch]
  BY DEF TypeOK, Upsert, Worker
<1>2. worker' = [worker EXCEPT ![w].pc = "record", ![w].staged = {}]
  BY DEF Upsert
<1>. QED
  BY <1>1, <1>2 DEF TypeOK

LEMMA CalmIndexedInductive ==
  ASSUME Calm, TypeOK, Tasks, StagesItsOwn, CalmIndexed, [Next]_vars
  PROVE  CalmIndexed'
<1> SUFFICES ASSUME NEW s \in Sources, status'[s] = "indexed", NEW c \in Of(chunks', s)
             PROVE  c \in vectors' \/ InHand(c)' \/ Ahead(s)'
  BY DEF CalmIndexed
<1>a. status[s] = "indexed" /\ c \in Of(chunks, s) => c \in vectors \/ InHand(c) \/ Ahead(s)
  BY DEF CalmIndexed
<1>1. ASSUME NEW w \in Workers, RunStep(w)
      PROVE  c \in vectors' \/ InHand(c)' \/ Ahead(s)'
  <2>1. CASE worker[w].src # s
    <3>1. status[s] = "indexed" /\ c \in Of(chunks, s)
      BY <1>1, <2>1, RunStepFrame
    <3>2. c \in vectors => c \in vectors'
      BY <1>1, <2>1 DEF RunStep, Begin, Unindex, Work, Store, StoreFails, Upsert, Summarize,
         RecordFailure, Raise, sql, Of
    <3>3. (InHand(c) => InHand(c)') /\ (Ahead(s) => Ahead(s)')
      BY <1>1, <2>1, RunStepFrame DEF InHand, Ahead, StagesItsOwn, Of
    <3>. QED
      BY <1>a, <3>1, <3>2, <3>3
  <2>2. CASE worker[w].src = s
    <3>1. CASE Begin(w)
      BY <2>2, <3>1 DEF Begin, Restart, HasRow, TypeOK
    <3>2. CASE Unindex(w) \/ Work(w) \/ StoreFails(w)
      <4>1. worker'[w].pc \in Undecided
        BY <3>2, GotoKeeps DEF Unindex, Work, StoreFails, Undecided, TypeOK, RunPC
      <4>. QED
        BY <1>1, <2>2, <4>1, RunStepFrame DEF Ahead
    <3>3. CASE Store(w)
      BY <2>2, <3>3, StoreStages
    <3>4. CASE Upsert(w)
      <4>1. status[s] = "indexed" /\ c \in Of(chunks, s)
        BY <3>4 DEF Upsert, sql
      <4>2. CASE vectors' = vectors \cup worker[w].staged
        <5>1. (Ahead(s) => Ahead(s)') /\ (InHand(c) => InHand(c)' \/ c \in worker[w].staged)
          BY <1>1, <3>4, RunStepFrame DEF Ahead, InHand, Upsert, Undecided
        <5>. QED
          BY <1>a, <4>1, <4>2, <5>1
      <4>3. CASE vectors' # vectors \cup worker[w].staged
        <5>1. worker'[w].pc = "record"
          BY <3>4, <4>3, UpsertGoes
        <5>. QED
          BY <1>1, <2>2, <5>1, RunStepFrame DEF Ahead, Undecided
      <4>. QED
        BY <4>2, <4>3
    <3>5. CASE Summarize(w)
      <4>1. status[s] = "indexed" /\ c \in Of(chunks, s) /\ vectors' = vectors
        BY <3>5 DEF Summarize, sql
      <4>2. (InHand(c) => InHand(c)') /\ (Ahead(s) => Ahead(s)')
        BY <1>1, <3>5, RunStepFrame DEF InHand, Ahead, Summarize, Undecided
      <4>. QED
        BY <1>a, <4>1, <4>2
    <3>6. CASE RecordFailure(w)
      BY <2>2, <3>6 DEF RecordFailure, TypeOK, HasRow
    <3>7. CASE Raise(w)
      BY <3>7 DEF Raise, Fault, Calm
    <3>. QED
      BY <1>1, <3>1, <3>2, <3>3, <3>4, <3>5, <3>6, <3>7 DEF RunStep
  <2>. QED
    BY <2>1, <2>2
<1>2. ASSUME NEW w \in Workers, Leaves(w)
      PROVE  c \in vectors' \/ InHand(c)' \/ Ahead(s)'
  <2>1. ~Crash(w)
    BY DEF Crash, Fault, Calm
  <2>2. worker[w].pc \notin Undecided \cup {"upsert"}
    BY <1>2, <2>1 DEF Leaves, Start, MarkDone, RequeueOrFail, Undecided
  <2>3. (Ahead(s) => Ahead(s)') /\ (InHand(c) => InHand(c)')
    BY <1>2, <2>2, LeavesFrame DEF Ahead, InHand
  <2>4. status[s] = "indexed"
    BY <1>2, <2>1 DEF Leaves, Start, MarkDone, RequeueOrFail, FailUnlessIndexed, sql, TypeOK
  <2>. QED
    BY <1>2, <1>a, <2>3, <2>4, LeavesFrame
<1>3. ASSUME NEW w \in Workers, NEW t \in Sources, Claim(w, t)
      PROVE  c \in vectors' \/ InHand(c)' \/ Ahead(s)'
  <2>1. (Ahead(s) => Ahead(s)') /\ (InHand(c) => InHand(c)')
    BY <1>3, ClaimFrame DEF Ahead, InHand, Undecided
  <2>. QED
    BY <1>3, <1>a, <2>1, ClaimFrame
<1>4. ASSUME Outside
      PROVE  c \in vectors' \/ InHand(c)' \/ Ahead(s)'
  <2>1. (Ahead(s) => Ahead(s)') /\ (InHand(c) => InHand(c)')
    BY <1>4, OutsideFrame DEF Ahead, InHand
  <2>. QED
    BY <1>4, <1>a, <2>1, OutsideIndexed DEF Of
<1>. QED
  BY <1>1, <1>2, <1>3, <1>4, StepKinds

LEMMA LoneIndexedInductive ==
  ASSUME OneWorker, TypeOK, RowlessIsEmpty, Tasks, StagesItsOwn, BusyHasJob, LoneIndexed,
         [Next]_vars
  PROVE  LoneIndexed'
<1> DEFINE Pending(s) == jobs[s].st \in {"queued", "running", "failed"} /\ NonePast(s)
<1> SUFFICES ASSUME NEW s \in Sources, status'[s] = "indexed", NEW c \in Of(chunks', s)
             PROVE  c \in vectors' \/ InHand(c)' \/ Pending(s)'
  BY DEF LoneIndexed
<1>a. status[s] = "indexed" /\ c \in Of(chunks, s) => c \in vectors \/ InHand(c) \/ Pending(s)
  BY DEF LoneIndexed
<1>b. \A v, w \in Workers : v = w
  BY DEF OneWorker
<1>1. ASSUME NEW w \in Workers, RunStep(w)
      PROVE  c \in vectors' \/ InHand(c)' \/ Pending(s)'
  <2>1. CASE worker[w].src # s
    <3>1. status[s] = "indexed" /\ c \in Of(chunks, s) /\ jobs' = jobs
      BY <1>1, <2>1, RunStepFrame
    <3>2. c \in vectors => c \in vectors'
      BY <1>1, <2>1 DEF RunStep, Begin, Unindex, Work, Store, StoreFails, Upsert, Summarize,
         RecordFailure, Raise, sql, Of
    <3>3. (InHand(c) => InHand(c)') /\ (NonePast(s) => NonePast(s)')
      BY <1>1, <2>1, RunStepFrame DEF InHand, NonePast, Busy, StagesItsOwn, Of
    <3>. QED
      BY <1>a, <3>1, <3>2, <3>3
  <2>2. CASE worker[w].src = s
    <3>1. status[s] = "indexed" => jobs'[s].st \in {"queued", "running"}
      BY <1>1, <2>2, RunStepFrame DEF BusyHasJob, Busy, HasRow
    <3>2. CASE Begin(w)
      BY <2>2, <3>2 DEF Begin, Restart, HasRow, TypeOK
    <3>3. CASE Unindex(w) \/ Work(w) \/ StoreFails(w) \/ Raise(w)
      <4>1. worker'[w].pc \in Undecided \cup {"raised"} /\ status' = status
        BY <3>3, GotoKeeps DEF Unindex, Work, StoreFails, Raise, Undecided, TypeOK, RunPC, sql
      <4>. QED
        BY <1>b, <3>1, <4>1 DEF NonePast
    <3>4. CASE Store(w)
      BY <2>2, <3>4, StoreStages
    <3>5. CASE Upsert(w)
      <4>1. status[s] = "indexed" /\ c \in Of(chunks, s) /\ ~NonePast(s)
        BY <2>2, <3>5 DEF Upsert, sql, NonePast, Busy, RunPC, Undecided
      <4>2. CASE vectors' = vectors \cup worker[w].staged
        <5>1. InHand(c) => c \in worker[w].staged
          BY <1>b DEF InHand
        <5>. QED
          BY <1>a, <4>1, <4>2, <5>1
      <4>3. CASE vectors' # vectors \cup worker[w].staged
        <5>1. worker'[w].pc = "record"
          BY <3>5, <4>3, UpsertGoes
        <5>. QED
          BY <1>b, <3>1, <4>1, <5>1 DEF NonePast, Undecided
      <4>. QED
        BY <4>2, <4>3
    <3>6. CASE Summarize(w)
      <4>1. /\ status[s] = "indexed" /\ c \in Of(chunks, s) /\ vectors' = vectors
            /\ ~NonePast(s) /\ ~InHand(c)
        BY <1>b, <2>2, <3>6 DEF Summarize, sql, NonePast, Busy, RunPC, Undecided, InHand
      <4>. QED
        BY <1>a, <4>1
    <3>7. CASE RecordFailure(w)
      BY <2>2, <3>7 DEF RecordFailure, TypeOK, HasRow
    <3>. QED
      BY <1>1, <3>2, <3>3, <3>4, <3>5, <3>6, <3>7 DEF RunStep
  <2>. QED
    BY <2>1, <2>2
<1>2. ASSUME NEW w \in Workers, Leaves(w)
      PROVE  c \in vectors' \/ InHand(c)' \/ Pending(s)'
  <2>1. NonePast(s)'
    BY <1>2, <1>b, LeavesFrame DEF NonePast, Busy
  <2>2. status[s] = "indexed" /\ c \in Of(chunks, s) /\ vectors' = vectors
    BY <1>2, LeavesFrame DEF Leaves, Start, Crash, MarkDone, RequeueOrFail, FailUnlessIndexed,
       sql, TypeOK
  <2>3. CASE Start(w)
    BY <1>a, <1>b, <2>1, <2>2, <2>3 DEF Start, sql, InHand
  <2>4. CASE Crash(w)
    <3>1. InHand(c) => jobs[s].st \in {"queued", "running"}
      <4>1. ASSUME InHand(c) PROVE Busy(w) /\ worker[w].src = s
        BY <1>b, <2>2, <4>1 DEF InHand, StagesItsOwn, Busy, RunPC, Of
      <4>. QED
        BY <2>2, <4>1 DEF BusyHasJob, HasRow
    <3>. QED
      BY <1>a, <2>1, <2>2, <2>4, <3>1 DEF Crash, sql
  <2>5. CASE MarkDone(w)
    <3>1. ~InHand(c)
      BY <1>b, <2>5 DEF InHand, MarkDone
    <3>2. Pending(s) => jobs'[s] = jobs[s]
      BY <2>5 DEF MarkDone, TypeOK, NonePast, Busy, RunPC, Undecided
    <3>. QED
      BY <1>a, <2>1, <2>2, <3>1, <3>2
  <2>6. CASE RequeueOrFail(w)
    <3>1. ~InHand(c)
      BY <1>b, <2>6 DEF InHand, RequeueOrFail
    <3>2. jobs'[s] = jobs[s] \/ jobs'[s].st \in {"queued", "failed"}
      BY <2>6 DEF RequeueOrFail, TypeOK, Job
    <3>. QED
      BY <1>a, <2>1, <2>2, <3>1, <3>2
  <2>. QED
    BY <1>2, <2>3, <2>4, <2>5, <2>6 DEF Leaves
<1>3. ASSUME NEW w \in Workers, NEW t \in Sources, Claim(w, t)
      PROVE  c \in vectors' \/ InHand(c)' \/ Pending(s)'
  <2>1. NonePast(s)' /\ ~InHand(c)
    BY <1>3, <1>b, ClaimFrame DEF NonePast, Busy, InHand, Undecided
  <2>2. jobs'[s] = jobs[s] \/ jobs'[s].st = "running"
    BY <1>3, ClaimFrame
  <2>. QED
    BY <1>3, <1>a, <2>1, <2>2, ClaimFrame
<1>4. ASSUME Outside
      PROVE  c \in vectors' \/ InHand(c)' \/ Pending(s)'
  <2>1. (NonePast(s) => NonePast(s)') /\ (InHand(c) => InHand(c)')
    BY <1>4, OutsideFrame DEF NonePast, Busy, InHand
  <2>. QED
    BY <1>4, <1>a, <2>1, OutsideIndexed DEF Of
<1>. QED
  BY <1>1, <1>2, <1>3, <1>4, StepKinds

\* Once the job of an indexed source is done, the search finds every chunk SQLite has
\* for it, also when reindexes, retries and deletions met in the source: as long as runs
\* do not vanish under several workers.
THEOREM IndexedFound ==
  ASSUME OneWorker \/ Calm
  PROVE  Spec => []IndexedIsSearchable
<1>1. Init => CalmIndexed /\ LoneIndexed
  BY DEF Init, CalmIndexed, LoneIndexed
<1>2. StagesItsOwn /\ (CalmIndexed \/ LoneIndexed) => IndexedIsSearchable
  <2> SUFFICES ASSUME StagesItsOwn, CalmIndexed \/ LoneIndexed, NEW s \in Sources,
                      Settled(s), jobs[s].st = "done", status[s] = "indexed",
                      NEW c \in Of(chunks, s)
               PROVE  c \in vectors
    BY DEF IndexedIsSearchable
  <2>1. ~Ahead(s)
    BY DEF Settled, WorkedOn, Ahead, Busy, RunPC, Undecided
  <2>2. ~InHand(c)
    BY DEF Settled, WorkedOn, InHand, Busy, RunPC, StagesItsOwn, Of
  <2>. QED
    BY <2>1, <2>2 DEF CalmIndexed, LoneIndexed
<1>3. CASE Calm
  <2>1. TypeOK /\ Tasks /\ StagesItsOwn /\ CalmIndexed /\ [Next]_vars => CalmIndexed'
    BY <1>3, CalmIndexedInductive
  <2>. QED
    BY <1>1, <1>2, <2>1, TypeCorrect, TasksHold, StagesHold, PTL DEF Spec
<1>4. CASE OneWorker
  <2>1. TypeOK /\ RowlessIsEmpty /\ Tasks /\ StagesItsOwn /\ BusyHasJob /\ LoneIndexed /\ [Next]_vars
          => LoneIndexed'
    BY <1>4, LoneIndexedInductive
  <2>2. Spec => []BusyHasJob
    BY <1>4, BusyHasJobHolds
  <2>. QED
    BY <1>1, <1>2, <2>1, <2>2, TypeCorrect, RowsConsistent, TasksHold, StagesHold, PTL DEF Spec
<1>. QED
  BY <1>3, <1>4

\* However runs of a source meet, the last of them leaves it settled and searchable.
THEOREM SourcesEndWell ==
  ASSUME "web_crash" \notin FaultKinds, OneWorker \/ Calm
  PROVE  Spec => []EndsWell
<1>1. NotStranded /\ IndexedIsSearchable => EndsWell
  BY DEF EndsWell
<1>. QED
  BY <1>1, NeverStranded, IndexedFound, PTL

-----------------------------------------------------------------------------
(* The refinement: each step of the queue, seen source by source, is a     *)
(* step of IngestPromise or none at all.                                   *)

\* What IngestPromise sees of a source.
Seen(s) ==
  IF status[s] = "deleted" THEN "void"
  ELSE CASE jobs[s].st \in {"queued", "running"} /\ ~began[s] -> "asked"
         [] jobs[s].st \in {"queued", "running"} /\ began[s]  -> "serving"
         [] jobs[s].st = "done"                               -> "kept"
         [] jobs[s].st = "failed"                             -> "failed"
         [] OTHER                                             -> "none"

LEMMA SeenPromise ==
  /\ PromiseOf = [s \in Sources |-> Seen(s)]
  /\ PromiseOf' = [s \in Sources |-> Seen(s)']
  BY DEF PromiseOf, Seen

LEMMA SeenSame ==
  ASSUME NEW s \in Sources,
         status'[s] = "deleted" <=> status[s] = "deleted",
         \/ jobs'[s].st = jobs[s].st
         \/ {jobs[s].st, jobs'[s].st} \subseteq {"queued", "running"},
         began'[s] = began[s]
  PROVE  Seen(s)' = Seen(s)
<1>1. CASE jobs'[s].st = jobs[s].st
  BY <1>1 DEF Seen
<1>2. CASE {jobs[s].st, jobs'[s].st} \subseteq {"queued", "running"}
  BY <1>2 DEF Seen
<1>. QED
  BY <1>1, <1>2

\* A step seen at one source is a step of the promise.
LEMMA OneSourceStep ==
  ASSUME NEW s \in Sources,
         \A t \in Sources : t # s => Seen(t)' = Seen(t),
         \/ Seen(s)' = Seen(s)
         \/ Seen(s) # "void" /\ Seen(s)' = "asked"
         \/ Seen(s) = "asked" /\ Seen(s)' = "serving"
         \/ Seen(s) = "serving" /\ Seen(s)' = "kept"
         \/ Seen(s) \in {"asked", "serving"} /\ Seen(s)' = "failed"
  PROVE  Promise!Next \/ UNCHANGED PromiseOf
<1>1. \A v : v = Seen(s)' => PromiseOf' = [PromiseOf EXCEPT ![s] = v]
  BY SeenPromise
<1>2. PromiseOf[s] = Seen(s)
  BY SeenPromise
<1>3. CASE Seen(s)' = Seen(s)
  BY <1>3, SeenPromise
<1>4. CASE Seen(s) # "void" /\ Seen(s)' = "asked"
  <2>1. Promise!Ask(s)
    BY <1>1, <1>2, <1>4 DEF Promise!Ask
  <2>. QED
    BY <2>1 DEF Promise!Next
<1>5. CASE Seen(s) = "asked" /\ Seen(s)' = "serving"
  <2>1. Promise!Serve(s)
    BY <1>1, <1>2, <1>5 DEF Promise!Serve
  <2>. QED
    BY <2>1 DEF Promise!Next, Promise!Answer
<1>6. CASE Seen(s) = "serving" /\ Seen(s)' = "kept"
  <2>1. Promise!Keep(s)
    BY <1>1, <1>2, <1>6 DEF Promise!Keep
  <2>. QED
    BY <2>1 DEF Promise!Next, Promise!Answer
<1>7. CASE Seen(s) \in {"asked", "serving"} /\ Seen(s)' = "failed"
  <2>1. Promise!GiveUp(s)
    BY <1>1, <1>2, <1>7 DEF Promise!GiveUp
  <2>. QED
    BY <2>1 DEF Promise!Next, Promise!Answer
<1>. QED
  BY <1>3, <1>4, <1>5, <1>6, <1>7

LEMMA GoneStep ==
  ASSUME NEW gone \in SUBSET Sources,
         \A s \in Sources : Seen(s)' = IF s \in gone THEN "void" ELSE Seen(s)
  PROVE  Promise!Next \/ UNCHANGED PromiseOf
<1>1. CASE gone = {}
  BY <1>1, SeenPromise
<1>2. CASE gone # {}
  <2>1. PromiseOf' = [s \in Sources |-> IF s \in gone THEN "void" ELSE PromiseOf[s]]
    BY SeenPromise
  <2>2. Promise!Void(gone)
    BY <1>2, <2>1 DEF Promise!Void
  <2>. QED
    BY <2>2 DEF Promise!Next
<1>. QED
  BY <1>1, <1>2

LEMMA PromiseStep ==
  ASSUME OneWorker, TypeOK, RowlessIsEmpty, RunIsFresh, BusyHasJob, [Next]_vars
  PROVE  Promise!Next \/ UNCHANGED PromiseOf
<1> DEFINE Promised == Promise!Next \/ UNCHANGED PromiseOf
<1>a. ASSUME \A s \in Sources : Seen(s)' = Seen(s)
      PROVE  Promised
  BY <1>a, SeenPromise
<1>1. ASSUME NEW r \in Requests, Enqueue(r) PROVE Promised
  <2>1. PICK s \in Sources :
          /\ \A t \in Sources : t # s => jobs'[t] = jobs[t] /\ began'[t] = began[t]
          /\ \/ HasRow(s) /\ jobs'[s].st = "queued" /\ ~began'[s]
             \/ UNCHANGED <<jobs, began>>
    BY <1>1 DEF TypeOK, Enqueue, Request
  <2>2. status' = status
    BY <1>1 DEF Enqueue
  <2>3. \A t \in Sources : t # s => Seen(t)' = Seen(t)
    BY <2>1, <2>2, SeenSame
  <2>4. CASE UNCHANGED <<jobs, began>>
    BY <2>2, <2>3, <2>4, SeenSame, <1>a
  <2>5. CASE HasRow(s) /\ jobs'[s].st = "queued" /\ ~began'[s]
    <3>1. Seen(s) # "void" /\ Seen(s)' = "asked"
      BY <2>2, <2>5 DEF Seen, HasRow
    <3>. QED
      BY <2>3, <3>1, OneSourceStep
  <2>. QED
    BY <2>1, <2>4, <2>5
<1>2. ASSUME NEW gone \in SUBSET Sources, RemoveRows(gone), began' = began,
             \A s \in gone : HasRow(s)
      PROVE  Promised
  <2>1. \A s \in gone : status'[s] = "deleted" /\ jobs'[s].st = "none"
    BY <1>2 DEF RemoveRows, NoJob
  <2>2. \A s \in Sources \ gone : status'[s] = status[s] /\ jobs'[s] = jobs[s] /\ began'[s] = began[s]
    BY <1>2 DEF RemoveRows
  <2>3. \A s \in Sources : Seen(s)' = IF s \in gone THEN "void" ELSE Seen(s)
    <3>1. \A s \in gone : Seen(s)' = "void"
      BY <2>1 DEF Seen
    <3>. QED
      BY <2>2, <3>1, SeenSame
  <2>. QED
    BY <2>3, GoneStep
<1>3. ASSUME NEW r \in Requests,
             DropNotebook(r) \/ \E s \in Sources : DeleteSource(r, s)
      PROVE  Promised
  <2>1. \/ \E n : LET gone == {s \in Sources : HasRow(s) /\ NotebookOf[s] = n} IN
                   RemoveRows(gone) /\ began' = began /\ \A s \in gone : HasRow(s)
        \/ \E s \in Sources : RemoveRows({s}) /\ began' = began /\ HasRow(s)
    BY <1>3 DEF DropNotebook, DeleteSource
  <2>. QED
    BY <1>2, <2>1
<1>4. ASSUME NEW w \in Workers, Begin(w) PROVE Promised
  <2>0. PICK s \in Sources : worker[w].src = s
    BY <1>4, RunStepFrame DEF RunStep
  <2>1. /\ jobs' = jobs
        /\ \A t \in Sources : t # s => status'[t] = status[t]
    BY <1>4, <2>0, RunStepFrame DEF RunStep
  <2>2. \A t \in Sources : t # s => began'[t] = began[t]
    BY <1>4, <2>0 DEF Begin, TypeOK
  <2>3. \A t \in Sources : t # s => Seen(t)' = Seen(t)
    BY <2>1, <2>2, SeenSame
  <2>4. CASE ~HasRow(s)
    <3>1. UNCHANGED <<status, began>>
      BY <1>4, <2>0, <2>4 DEF Begin
    <3>. QED
      BY <2>1, <3>1, SeenSame, <1>a
  <2>5. CASE HasRow(s)
    <3>1. status'[s] # "deleted" /\ status[s] # "deleted" /\ began'[s] = TRUE
      BY <1>4, <2>0, <2>1, <2>5 DEF Begin, Restart, TypeOK, HasRow
    <3>2. jobs[s].st \in {"queued", "running"}
      BY <1>4, <2>0, <2>5 DEF BusyHasJob, Busy, Begin, RunPC
    <3>3. Seen(s) \in {"asked", "serving"} /\ Seen(s)' = "serving"
      <4>1. began[s] \in BOOLEAN
        BY <2>1 DEF TypeOK
      <4>. QED
        BY <2>1, <3>1, <3>2, <4>1 DEF Seen
    <3>. QED
      BY <2>1, <2>3, <3>3, OneSourceStep
  <2>. QED
    BY <2>4, <2>5
<1>5. ASSUME NEW w \in Workers, MarkDone(w) PROVE Promised
  <2>0. PICK s \in Sources : worker[w].src = s
    BY <1>5 DEF TypeOK, Worker, MarkDone
  <2>1. UNCHANGED <<status, began>>
    BY <1>5 DEF MarkDone
  <2>2. \A t \in Sources : t # s => jobs'[t] = jobs[t]
    BY <1>5, <2>0 DEF MarkDone, TypeOK
  <2>3. \A t \in Sources : t # s => Seen(t)' = Seen(t)
    BY <2>1, <2>2, SeenSame
  <2>4. CASE jobs[s].st = "running"
    <3>1. jobs'[s].st = "done"
      BY <1>5, <2>0, <2>1, <2>4 DEF MarkDone, TypeOK, Job
    <3>2. began[s] /\ status[s] # "deleted"
      BY <1>5, <2>0, <2>1, <2>4 DEF MarkDone, RunIsFresh, RowlessIsEmpty, HasRow, Busy, RunPC
    <3>3. Seen(s) = "serving" /\ Seen(s)' = "kept"
      BY <2>1, <2>4, <3>1, <3>2 DEF Seen
    <3>. QED
      BY <2>1, <2>3, <3>3, OneSourceStep
  <2>5. CASE jobs[s].st # "running"
    BY <1>5, <2>0, <2>1, <2>5, SeenSame, <1>a DEF MarkDone
  <2>. QED
    BY <2>4, <2>5
<1>6. ASSUME NEW w \in Workers, RequeueOrFail(w) PROVE Promised
  <2>0. PICK s \in Sources : worker[w].src = s
    BY <1>6 DEF TypeOK, Worker, RequeueOrFail
  <2>1. UNCHANGED began
    BY <1>6 DEF RequeueOrFail
  <2>2. \A t \in Sources : t # s => jobs'[t] = jobs[t] /\ status'[t] = status[t]
    BY <1>6, <2>0 DEF RequeueOrFail, FailUnlessIndexed, TypeOK
  <2>3. \A t \in Sources : t # s => Seen(t)' = Seen(t)
    BY <2>1, <2>2, SeenSame
  <2>4. status'[s] = "deleted" <=> status[s] = "deleted"
    BY <1>6, <2>0, <2>1 DEF RequeueOrFail, FailUnlessIndexed, TypeOK, HasRow
  <2>5. \/ jobs'[s] = jobs[s]
        \/ jobs[s].st = "running" /\ jobs'[s].st \in {"queued", "failed"}
    <3>. DEFINE q == [jobs[s] EXCEPT !.st = "queued", !.expired = FALSE]
                f == [jobs[s] EXCEPT !.st = "failed"]
    <3>1. \/ jobs' = jobs
          \/ jobs[s].st = "running" /\ jobs' = [jobs EXCEPT ![s] = q]
          \/ jobs[s].st = "running" /\ jobs' = [jobs EXCEPT ![s] = f]
      BY <1>6, <2>0 DEF RequeueOrFail
    <3>2. q.st = "queued" /\ f.st = "failed"
      BY DEF TypeOK, Job
    <3>. QED
      BY <3>1, <3>2 DEF TypeOK
  <2>6. CASE jobs'[s].st # "failed" \/ jobs'[s] = jobs[s]
    <3>1. Seen(s)' = Seen(s)
      BY <2>1, <2>4, <2>5, <2>6, SeenSame
    <3>. QED
      BY <2>1, <2>3, <3>1, OneSourceStep
  <2>7. CASE jobs[s].st = "running" /\ jobs'[s].st = "failed"
    <3>1. status[s] # "deleted"
      BY <2>1, <2>7 DEF RowlessIsEmpty, HasRow
    <3>2. began[s] \in BOOLEAN
      BY <2>1 DEF TypeOK
    <3>3. Seen(s) \in {"asked", "serving"} /\ Seen(s)' = "failed"
      BY <2>1, <2>4, <2>7, <3>1, <3>2 DEF Seen
    <3>. QED
      BY <2>1, <2>3, <3>3, OneSourceStep
  <2>. QED
    BY <2>5, <2>6, <2>7
<1>7. ASSUME NEW w \in Workers, NEW s \in Sources, Claim(w, s)
      PROVE  Promised
  <2>1. UNCHANGED <<status, began>>
    BY <1>7 DEF Claim
  <2>. QED
    BY <1>7, <2>1, ClaimFrame, SeenSame, <1>a
<1>8. ASSUME NEW s \in Sources, Expire(s) PROVE Promised
  <2>1. UNCHANGED <<status, began>> /\ \A t \in Sources : jobs'[t].st = jobs[t].st
    BY <1>8 DEF Expire, TypeOK, Job
  <2>. QED
    BY <2>1, SeenSame, <1>a
<1>9. ASSUME UNCHANGED <<jobs, began>>,
             \A s \in Sources : status'[s] = "deleted" <=> status[s] = "deleted"
      PROVE  Promised
  BY <1>9, SeenSame, <1>a
<1>10. ASSUME NEW r \in Requests,
              \/ Cleanup(r) \/ RequestDies(r)
              \/ \E s \in Sources : Upload(r, s) \/ Reindex(r, s)
              \/ \E n \in Notebooks : ListNotebook(r, n)
       PROVE  Promised
  <2>1. UNCHANGED <<jobs, began>>
    BY <1>10 DEF sql, Cleanup, RequestDies, Upload, Reindex, ListNotebook
  <2>2. \A s \in Sources : status'[s] = "deleted" <=> status[s] = "deleted"
    BY <1>10 DEF sql, Cleanup, RequestDies, Upload, Reindex, ListNotebook, TypeOK, HasRow
  <2>. QED
    BY <2>1, <2>2, <1>9
<1>11. ASSUME NEW w \in Workers,
              \/ Start(w) \/ Crash(w) \/ Unindex(w) \/ Work(w) \/ Store(w) \/ StoreFails(w)
              \/ Upsert(w) \/ Summarize(w) \/ RecordFailure(w) \/ Raise(w)
       PROVE  Promised
  <2>1. UNCHANGED <<jobs, began>>
    BY <1>11 DEF sql, Start, Crash, Unindex, Work, Store, StoreFails, Upsert, Summarize,
       RecordFailure, Raise
  <2>2. \A s \in Sources : status'[s] = "deleted" <=> status[s] = "deleted"
    BY <1>11 DEF sql, Start, Crash, Unindex, Work, Store, StoreFails, Upsert, Summarize,
       RecordFailure, Raise, TypeOK, HasRow
  <2>. QED
    BY <2>1, <2>2, <1>9
<1>12. ASSUME UNCHANGED vars \/ AcquireLock \/ ReleaseLock \/ HolderDies \/ AgeLock
       PROVE  Promised
  BY <1>12, <1>9 DEF vars, sql, AcquireLock, ReleaseLock, HolderDies, AgeLock
<1>. HIDE DEF Promised
<1>13. ASSUME NEW w \in Workers, RunStep(w) \/ Leaves(w) \/ \E s \in Sources : Claim(w, s)
       PROVE  Promised
  BY <1>13, <1>4, <1>5, <1>6, <1>7, <1>11 DEF RunStep, Leaves
<1>14. ASSUME Outside PROVE Promised
  <2>1. ASSUME NEW r \in Requests, WebStep(r) PROVE Promised
    BY <2>1, <1>1, <1>3, <1>10 DEF WebStep
  <2>2. ASSUME NEW r \in Requests, NEW s \in Sources, DeleteSource(r, s) PROVE Promised
    BY <2>2, <1>3
  <2>. QED
    BY <1>14, <2>1, <2>2, <1>8, <1>10, <1>12 DEF Outside
<1>15. Promised
  BY <1>13, <1>14, StepKinds
<1>. QED
  BY <1>15 DEF Promised

LEMMA FreshHolds ==
  ASSUME OneWorker
  PROVE  Spec => []RunIsFresh
<1>1. Init => RunIsFresh
  BY DEF Init, RunIsFresh, Busy, Idle, Down, RunPC
<1>2. TypeOK /\ RowlessIsEmpty /\ RunIsFresh /\ [Next]_vars => RunIsFresh'
  BY RunIsFreshInductive
<1>. QED
  BY <1>1, <1>2, TypeCorrect, RowsConsistent, PTL DEF Spec

\* The queue implements the safety part of IngestPromise: with one worker loop, every
\* step of it is, source by source, a step of the promise or none.
THEOREM ImplementsPromise ==
  ASSUME OneWorker
  PROVE  Spec => Promise!Init /\ [][Promise!Next]_PromiseOf
<1>1. Init => Promise!Init
  BY SeenPromise DEF Init, Promise!Init, Seen, NoJob
<1>2. TypeOK /\ RowlessIsEmpty /\ RunIsFresh /\ BusyHasJob /\ [Next]_vars
        => [Promise!Next]_PromiseOf
  BY PromiseStep
<1>3. Spec => []BusyHasJob
  BY BusyHasJobHolds
<1>. QED
  BY <1>1, <1>2, <1>3, TypeCorrect, RowsConsistent, FreshHolds, PTL DEF Spec
=============================================================================
