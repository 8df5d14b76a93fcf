---------------------------- MODULE IngestQueue ----------------------------
(***************************************************************************)
(* The ingest pipeline: the ingest_jobs queue (app/jobs.py), the worker    *)
(* loops that drain it (app/worker.py), the stages of process_source       *)
(* (app/ingest.py) and the web handlers that upload, reindex and delete    *)
(* what it works on (app/main.py).                                         *)
(*                                                                         *)
(* SQLite is one store with atomic transactions; Chroma is another, written*)
(* in separate steps, and that gap is where most of the hazards are.       *)
(*                                                                         *)
(* Data is abstracted to what the properties tell apart.                   *)
(*   - The chunks one ingest run inserts are one batch <<source, batch>>.  *)
(*     A batch stands for the chunk rows of SQLite and for the vectors of  *)
(*     the same ids in Chroma. A run takes the lowest batch number nothing *)
(*     refers to any more, which no step can tell from a new one.          *)
(*   - claimed_at is not a number: a claim is "expired" once it is older   *)
(*     than JOB_VISIBILITY_TIMEOUT_S, and time may pass at any step.       *)
(*   - An id of a source or a job is never used twice (AUTOINCREMENT).     *)
(***************************************************************************)
EXTENDS Naturals, FiniteSets

CONSTANTS
  Workers,      \* worker loops: inline ones and `python -m app.worker`
  Requests,     \* web threads serving upload, reindex and delete
  Sources,      \* ids of sources that may be uploaded
  Notebooks,    \* ids of notebooks
  NotebookOf,   \* the notebook each source is uploaded to
  Batches,      \* batch numbers
  None,         \* no source
  MaxAttempts,  \* JOB_MAX_ATTEMPTS
  FaultKinds,   \* the kinds of fault that may happen
  MaxFaults,    \* bound: how many faults happen in a behaviour
  MaxReindexes, \* bound: how many reindexes users ask for
  MaxMigrations \* bound: how many migrations administrators start

ASSUME SourceAssumption == /\ None \notin Sources
                           /\ NotebookOf \in [Sources -> Notebooks]
ASSUME BatchAssumption  == Batches \subseteq Nat
ASSUME BoundAssumption  == /\ MaxAttempts \in Nat \ {0}
                           /\ MaxFaults \in Nat
                           /\ MaxReindexes \in Nat
                           /\ MaxMigrations \in Nat
ASSUME FaultAssumption  ==
  FaultKinds \subseteq {"worker_crash", "web_crash", "overrun", "chroma",
                        "sqlite", "migration_crash"}

VARIABLES
  notebooks,    \* the notebooks that have a row
  status,       \* sources.status; "none" and "deleted" are the absence of a row
  jobs,         \* ingest_jobs, at most one row per source
  nextId,       \* the next ingest_jobs.id
  chunks,       \* SQLite: the batches stored in the chunks table
  vectors,      \* Chroma: the batches that have vectors
  worker,       \* what each worker loop is doing
  request,      \* what each web thread is doing
  lock,         \* the index-migration lock: "left" by a holder that died, "aged"
                \* once it is older than its timeout
  began,        \* history: did a run begin since the source was last queued?
  faults,       \* faults so far
  reindexes,    \* reindexes so far
  migrations    \* migrations so far

sql  == <<notebooks, status, jobs, nextId, chunks, began>>
asks == <<reindexes, migrations>>
vars == <<sql, vectors, worker, request, lock, faults, asks>>

-----------------------------------------------------------------------------
SourceStatus == {"none", "uploaded", "processing", "indexed", "failed", "deleted"}
JobStatus    == {"none", "queued", "running", "done", "failed"}
Job          == [st : JobStatus, id : Nat, attempts : Nat, expired : BOOLEAN]
NoJob        == [st |-> "none", id |-> 0, attempts |-> 0, expired |-> FALSE]

Batch    == Sources \X Batches
RunPC    == {"begin", "unindex", "work", "store", "upsert", "summary", "record",
             "finish", "raised"}
Worker   == [pc : {"down", "idle"}, src : {None}, attempts : {0}, staged : {{}}]
            \cup [pc : RunPC, src : Sources, attempts : Nat, staged : SUBSET Batch]
Idle     == [pc |-> "idle", src |-> None, attempts |-> 0, staged |-> {}]
Down     == [Idle EXCEPT !.pc = "down"]

Request  == [pc : {"idle", "enqueue", "drop", "cleanup"},
             nb : Notebooks \cup {None}, todo : SUBSET Sources]
NoRequest == [pc |-> "idle", nb |-> None, todo |-> {}]

HasRow(s)   == status[s] \notin {"none", "deleted"}
Of(set, s)  == {c \in set : c[1] = s}
Busy(w)     == worker[w].pc \in RunPC
WorkedOn(s) == \E w \in Workers : Busy(w) /\ worker[w].src = s
LockLive    == lock \in {"live", "left"}
Fresh(s)    == {b \in Batches : /\ <<s, b>> \notin chunks \cup vectors
                                /\ \A w \in Workers : <<s, b>> \notin worker[w].staged}

TypeOK ==
  /\ notebooks \subseteq Notebooks
  /\ status \in [Sources -> SourceStatus]
  /\ jobs \in [Sources -> Job]
  /\ nextId \in Nat
  /\ chunks \subseteq Batch
  /\ vectors \subseteq Batch
  /\ worker \in [Workers -> Worker]
  /\ request \in [Requests -> Request]
  /\ lock \in {"free", "live", "left", "aged"}
  /\ began \in [Sources -> BOOLEAN]
  /\ faults \in 0 .. MaxFaults
  /\ reindexes \in 0 .. MaxReindexes
  /\ migrations \in 0 .. MaxMigrations

Init ==
  /\ notebooks = Notebooks
  /\ status = [s \in Sources |-> "none"]
  /\ jobs = [s \in Sources |-> NoJob]
  /\ nextId = 1
  /\ chunks = {}
  /\ vectors = {}
  /\ worker = [w \in Workers |-> Down]
  /\ request = [r \in Requests |-> NoRequest]
  /\ lock = "free"
  /\ began = [s \in Sources |-> FALSE]
  /\ faults = 0
  /\ reindexes = 0
  /\ migrations = 0

Fault(kind) == kind \in FaultKinds /\ faults < MaxFaults /\ faults' = faults + 1

-----------------------------------------------------------------------------
(* The web handlers. Each commits its transaction and only then touches    *)
(* the queue or Chroma, so a request is two steps with anything between.   *)

\* upload_source, one file of the batch: the row first, the job next.
Upload(r, s) ==
  /\ request[r].pc = "idle"
  /\ status[s] = "none"
  /\ NotebookOf[s] \in notebooks
  /\ status' = [status EXCEPT ![s] = "uploaded"]
  /\ request' = [request EXCEPT ![r] = [pc |-> "enqueue", nb |-> None, todo |-> {s}]]
  /\ UNCHANGED <<notebooks, jobs, nextId, chunks, began, vectors, worker, lock, faults, asks>>

\* reindex_source: the status is put back to 'uploaded', whatever it was.
Reindex(r, s) ==
  /\ request[r].pc = "idle"
  /\ HasRow(s)
  /\ reindexes < MaxReindexes
  /\ reindexes' = reindexes + 1
  /\ status' = [status EXCEPT ![s] = "uploaded"]
  /\ request' = [request EXCEPT ![r] = [pc |-> "enqueue", nb |-> None, todo |-> {s}]]
  /\ UNCHANGED <<notebooks, jobs, nextId, chunks, began, vectors, worker, lock, faults,
                 migrations>>

\* enqueue_source: insert the job, or put its row back to 'queued'. Without a
\* source row the foreign key refuses it and the request ends with the error.
Enqueue(r) ==
  /\ request[r].pc = "enqueue"
  /\ request' = [request EXCEPT ![r] = NoRequest]
  /\ \E s \in request[r].todo :
       \/ /\ HasRow(s)
          /\ jobs' = [jobs EXCEPT ![s] =
               [st |-> "queued", id |-> IF @.st = "none" THEN nextId ELSE @.id,
                attempts |-> 0, expired |-> FALSE]]
          /\ nextId' = IF jobs[s].st = "none" THEN nextId + 1 ELSE nextId
          /\ began' = [began EXCEPT ![s] = FALSE]
       \/ /\ ~HasRow(s)
          /\ UNCHANGED <<jobs, nextId, began>>
  /\ UNCHANGED <<notebooks, status, chunks, vectors, worker, lock, faults, asks>>

\* Bug: PRAGMA foreign_keys is off.
RemoveRowsOnly(gone) ==
  /\ status' = [s \in Sources |-> IF s \in gone /\ HasRow(s) THEN "deleted" ELSE status[s]]
  /\ UNCHANGED <<jobs, chunks>>

\* ON DELETE CASCADE: a source's chunks and its job go with its row.
RemoveRows(gone) ==
  /\ status' = [s \in Sources |-> IF s \in gone /\ HasRow(s) THEN "deleted" ELSE status[s]]
  /\ jobs' = [s \in Sources |-> IF s \in gone THEN NoJob ELSE jobs[s]]
  /\ chunks' = {c \in chunks : c[1] \notin gone}

DeleteSource(r, s) ==
  /\ request[r].pc = "idle"
  /\ HasRow(s)
  /\ RemoveRows({s})
  /\ request' = [request EXCEPT ![r] = [pc |-> "cleanup", nb |-> None, todo |-> {s}]]
  /\ UNCHANGED <<notebooks, nextId, began, vectors, worker, lock, faults, asks>>

\* delete_notebook lists the sources to clean up before the transaction that
\* deletes the notebook begins.
ListNotebook(r, n) ==
  /\ request[r].pc = "idle"
  /\ n \in notebooks
  /\ request' = [request EXCEPT ![r] =
       [pc |-> "drop", nb |-> n, todo |-> {s \in Sources : HasRow(s) /\ NotebookOf[s] = n}]]
  /\ UNCHANGED <<sql, vectors, worker, lock, faults, asks>>

\* The delete cascades to every source of the notebook, listed or not.
DropNotebook(r) ==
  /\ request[r].pc = "drop"
  /\ notebooks' = notebooks \ {request[r].nb}
  /\ RemoveRows({s \in Sources : HasRow(s) /\ NotebookOf[s] = request[r].nb})
  /\ request' = [request EXCEPT ![r] =
       IF @.todo = {} THEN NoRequest ELSE [@ EXCEPT !.pc = "cleanup"]]
  /\ UNCHANGED <<nextId, began, vectors, worker, lock, faults, asks>>

\* cleanup_source_artifacts, for one source; a Chroma error is logged and
\* swallowed, and then nothing removes those vectors.
Cleanup(r) ==
  /\ request[r].pc = "cleanup"
  /\ \E s \in request[r].todo :
       /\ \/ vectors' = vectors \ Of(vectors, s) /\ UNCHANGED faults
          \/ Fault("chroma") /\ UNCHANGED vectors
       /\ LET left == request[r].todo \ {s} IN
            request' = [request EXCEPT ![r] =
              IF left = {} THEN NoRequest ELSE [@ EXCEPT !.todo = left]]
  /\ UNCHANGED <<sql, worker, lock, asks>>

\* The web process dies between the steps of a handler.
RequestDies(r) ==
  /\ request[r].pc # "idle"
  /\ Fault("web_crash")
  /\ request' = [request EXCEPT ![r] = NoRequest]
  /\ UNCHANGED <<sql, vectors, worker, lock, asks>>

-----------------------------------------------------------------------------
(* The worker loop.                                                        *)

\* A worker process starts, or is started again by its supervisor.
Start(w) ==
  /\ worker[w].pc = "down"
  /\ worker' = [worker EXCEPT ![w] = Idle]
  /\ UNCHANGED <<sql, vectors, request, lock, faults, asks>>

\* A worker stops wherever it is: killed, out of memory, cancelled at
\* shutdown, or ended by an error the loop does not catch (a claim that
\* raises, a requeue_or_fail that raises). A job it holds stays 'running'.
Crash(w) ==
  /\ worker[w].pc # "down"
  /\ Fault("worker_crash")
  /\ worker' = [worker EXCEPT ![w] = Down]
  /\ UNCHANGED <<sql, vectors, request, lock, asks>>

RunnableAtOnce(s) == jobs[s].st \in {"queued", "running"}

Runnable(s) ==
  \/ jobs[s].st = "queued"
  \/ jobs[s].st = "running" /\ jobs[s].expired

\* claim_next_job: nothing while a migration lock is live; else the runnable
\* job with the lowest id. The attempt count is not looked at.
Claim(w, s) ==
  /\ worker[w].pc = "idle"
  /\ ~LockLive
  /\ Runnable(s)
  /\ \A t \in Sources : Runnable(t) => jobs[s].id <= jobs[t].id
  /\ jobs' = [jobs EXCEPT ![s] = [st |-> "running", id |-> @.id,
                                  attempts |-> @.attempts + 1, expired |-> FALSE]]
  /\ worker' = [worker EXCEPT ![w] = [pc |-> "begin", src |-> s,
                                      attempts |-> jobs[s].attempts + 1, staged |-> {}]]
  /\ UNCHANGED <<notebooks, status, nextId, chunks, began, vectors, request, lock, faults, asks>>

\* JOB_VISIBILITY_TIMEOUT_S passes since the claim. That a live worker is
\* still on the job by then (a slow embedding endpoint) counts as a fault.
Expire(s) ==
  /\ jobs[s].st = "running"
  /\ ~jobs[s].expired
  /\ \/ ~WorkedOn(s) /\ UNCHANGED faults
     \/ WorkedOn(s) /\ Fault("overrun")
  /\ jobs' = [jobs EXCEPT ![s].expired = TRUE]
  /\ UNCHANGED <<notebooks, status, nextId, chunks, began, vectors, worker, request, lock, asks>>

Goto(w, pc) == worker' = [worker EXCEPT ![w].pc = pc]

RestartKeepsChunks(s) == status' = [status EXCEPT ![s] = "processing"] /\ UNCHANGED chunks

Restart(s) ==
  /\ status' = [status EXCEPT ![s] = "processing"]
  /\ chunks' = chunks \ Of(chunks, s)

\* process_source, first transaction. A missing source ends the run.
Begin(w) ==
  /\ worker[w].pc = "begin"
  /\ LET s == worker[w].src IN
       \/ /\ ~HasRow(s)
          /\ Goto(w, "finish")
          /\ UNCHANGED <<status, chunks, began>>
       \/ /\ HasRow(s)
          /\ Restart(s)
          /\ began' = [began EXCEPT ![s] = TRUE]
          /\ Goto(w, "unindex")
  /\ UNCHANGED <<notebooks, jobs, nextId, vectors, request, lock, faults, asks>>

\* The source's old vectors go; an error is logged and swallowed.
Unindex(w) ==
  /\ worker[w].pc = "unindex"
  /\ \/ vectors' = vectors \ Of(vectors, worker[w].src) /\ UNCHANGED faults
     \/ Fault("chroma") /\ UNCHANGED vectors
  /\ Goto(w, "work")
  /\ UNCHANGED <<sql, request, lock, asks>>

\* Extraction, chunking and embedding: awaits that change nothing here and
\* end in the store or, with any error, in the except branch.
Work(w) ==
  /\ worker[w].pc = "work"
  /\ \/ Goto(w, "store")
     \/ Goto(w, "record")
  /\ UNCHANGED <<sql, vectors, request, lock, faults, asks>>

\* Bug: only the chunks just inserted are taken on to the vector index.
ReadBackOwn(s, b) == {<<s, b>>}

ReadBack(s, b) == Of(chunks, s) \cup {<<s, b>>}

\* Second transaction: insert this run's chunks, read back every chunk the
\* source has by now, and mark it indexed.
Store(w) ==
  /\ worker[w].pc = "store"
  /\ LET s == worker[w].src IN
       /\ HasRow(s)
       /\ \E b \in Fresh(s) :
            /\ \A c \in Fresh(s) : b <= c
            /\ chunks' = chunks \cup {<<s, b>>}
            /\ worker' = [worker EXCEPT ![w].pc = "upsert",
                                        ![w].staged = ReadBack(s, b)]
       /\ status' = [status EXCEPT ![s] = "indexed"]
  /\ UNCHANGED <<notebooks, jobs, nextId, began, vectors, request, lock, faults, asks>>

\* The foreign key refuses chunks of a source deleted meanwhile; or SQLite
\* is locked for longer than its busy timeout.
StoreFails(w) ==
  /\ worker[w].pc = "store"
  /\ \/ ~HasRow(worker[w].src) /\ UNCHANGED faults
     \/ HasRow(worker[w].src) /\ Fault("sqlite")
  /\ Goto(w, "record")
  /\ UNCHANGED <<sql, vectors, request, lock, asks>>

\* Bug: an error of Chroma is swallowed here too.
UpsertSwallowed(w) ==
  /\ worker[w].pc = "upsert"
  /\ \/ vectors' = vectors \cup worker[w].staged /\ UNCHANGED faults
     \/ Fault("chroma") /\ UNCHANGED vectors
  /\ worker' = [worker EXCEPT ![w].pc = "summary", ![w].staged = {}]
  /\ UNCHANGED <<sql, request, lock, asks>>

\* upsert_chunks of what the second transaction read back.
Upsert(w) ==
  /\ worker[w].pc = "upsert"
  /\ \/ /\ vectors' = vectors \cup worker[w].staged
        /\ worker' = [worker EXCEPT ![w].pc = "summary", ![w].staged = {}]
        /\ UNCHANGED faults
     \/ /\ Fault("chroma")
        /\ worker' = [worker EXCEPT ![w].pc = "record", ![w].staged = {}]
        /\ UNCHANGED vectors
  /\ UNCHANGED <<sql, request, lock, asks>>

\* The source summary: an LLM call, best effort, no state of this model.
Summarize(w) ==
  /\ worker[w].pc = "summary"
  /\ Goto(w, "finish")
  /\ UNCHANGED <<sql, vectors, request, lock, faults, asks>>

\* The except branch: the source is failed, whatever its status was.
RecordFailure(w) ==
  /\ worker[w].pc = "record"
  /\ LET s == worker[w].src IN
       status' = IF HasRow(s) THEN [status EXCEPT ![s] = "failed"] ELSE status
  /\ Goto(w, "finish")
  /\ UNCHANGED <<notebooks, jobs, nextId, chunks, began, vectors, request, lock, faults, asks>>

\* An error process_source does not swallow, or one of mark_done, reaches
\* the loop.
Raise(w) ==
  /\ worker[w].pc \in {"begin", "record", "finish"}
  /\ Fault("sqlite")
  /\ Goto(w, "raised")
  /\ UNCHANGED <<sql, vectors, request, lock, asks>>

\* Bug: the row is marked done whatever it is.
MarkDoneAlways(w) ==
  /\ worker[w].pc = "finish"
  /\ LET s == worker[w].src IN
       jobs' = IF jobs[s].st # "none" THEN [jobs EXCEPT ![s].st = "done"] ELSE jobs
  /\ worker' = [worker EXCEPT ![w] = Idle]
  /\ UNCHANGED <<notebooks, status, nextId, chunks, began, vectors, request, lock, faults, asks>>

\* mark_done: only a row that is 'running', whoever is running it.
MarkDone(w) ==
  /\ worker[w].pc = "finish"
  /\ LET s == worker[w].src IN
       jobs' = IF jobs[s].st = "running" THEN [jobs EXCEPT ![s].st = "done"] ELSE jobs
  /\ worker' = [worker EXCEPT ![w] = Idle]
  /\ UNCHANGED <<notebooks, status, nextId, chunks, began, vectors, request, lock, faults, asks>>

\* Bug: the source of a job given up is left as it is.
FailQuietly(s)   == UNCHANGED status

Exhausted(w) == worker[w].attempts >= MaxAttempts
FailUnlessIndexed(s) ==
  status' = IF HasRow(s) /\ status[s] # "indexed"
            THEN [status EXCEPT ![s] = "failed"] ELSE status

\* Bug: the job to run again gets the status reindex gives the source, which no
\* claim looks for.
RequeueAsUploaded(w) ==
  /\ worker[w].pc = "raised"
  /\ worker' = [worker EXCEPT ![w] = Idle]
  /\ LET s == worker[w].src IN
       \/ /\ jobs[s].st # "running"
          /\ UNCHANGED <<jobs, status>>
       \/ /\ jobs[s].st = "running"
          /\ jobs' = [jobs EXCEPT ![s].st = IF Exhausted(w) THEN "failed" ELSE "uploaded"]
          /\ IF Exhausted(w) THEN FailUnlessIndexed(s) ELSE UNCHANGED status
  /\ UNCHANGED <<notebooks, nextId, chunks, began, vectors, request, lock, faults, asks>>

\* requeue_or_fail, by the attempt count of this worker's own claim.
RequeueOrFail(w) ==
  /\ worker[w].pc = "raised"
  /\ worker' = [worker EXCEPT ![w] = Idle]
  /\ LET s == worker[w].src IN
       \/ /\ jobs[s].st # "running"
          /\ UNCHANGED <<jobs, status>>
       \/ /\ jobs[s].st = "running"
          /\ ~Exhausted(w)
          /\ jobs' = [jobs EXCEPT ![s] = [@ EXCEPT !.st = "queued", !.expired = FALSE]]
          /\ UNCHANGED status
       \/ /\ jobs[s].st = "running"
          /\ Exhausted(w)
          /\ jobs' = [jobs EXCEPT ![s].st = "failed"]
          /\ FailUnlessIndexed(s)
  /\ UNCHANGED <<notebooks, nextId, chunks, began, vectors, request, lock, faults, asks>>

-----------------------------------------------------------------------------
(* The index migration as the queue sees it: its lock (app/index_migration *)
(* .py). What it does to Chroma while it holds the lock is not modelled    *)
(* here.                                                                   *)

\* Bug: running jobs are not looked at.
AcquireLockAnyway ==
  /\ ~LockLive
  /\ migrations < MaxMigrations
  /\ migrations' = migrations + 1
  /\ lock' = "live"
  /\ UNCHANGED <<sql, vectors, worker, request, faults, reindexes>>

\* acquire_migration_lock: refused while the lock is live or a job runs.
AcquireLock ==
  /\ ~LockLive
  /\ \A s \in Sources : jobs[s].st # "running"
  /\ migrations < MaxMigrations
  /\ migrations' = migrations + 1
  /\ lock' = "live"
  /\ UNCHANGED <<sql, vectors, worker, request, faults, reindexes>>

\* release_migration_lock, unconditional, in the `finally` of run_migration:
\* one that outlived its own lock frees whoever's lock there is.
ReleaseLock ==
  /\ lock # "free"
  /\ lock' = "free"
  /\ UNCHANGED <<sql, vectors, worker, request, faults, asks>>

\* The process that holds the lock dies; its row stays as it is.
HolderDies ==
  /\ lock = "live"
  /\ Fault("migration_crash")
  /\ lock' = "left"
  /\ UNCHANGED <<sql, vectors, worker, request, asks>>

\* Bug: a lock counts as live until it is released.
NeverAge == FALSE /\ UNCHANGED vars

\* The lock gets older than its timeout: nobody is left to release it, or, a
\* fault too, its holder is slower than that.
AgeLock ==
  /\ \/ lock = "left" /\ UNCHANGED faults
     \/ lock = "live" /\ Fault("migration_crash")
  /\ lock' = "aged"
  /\ UNCHANGED <<sql, vectors, worker, request, asks>>

-----------------------------------------------------------------------------
WebStep(r)    == Enqueue(r) \/ DropNotebook(r) \/ Cleanup(r)
WorkerStep(w) == \/ Begin(w) \/ Unindex(w) \/ Work(w) \/ Store(w) \/ StoreFails(w)
                 \/ Upsert(w) \/ Summarize(w) \/ RecordFailure(w) \/ MarkDone(w)
                 \/ RequeueOrFail(w)

Next ==
  \/ \E r \in Requests : \/ WebStep(r)
                         \/ RequestDies(r)
                         \/ \E s \in Sources : \/ Upload(r, s)
                                               \/ Reindex(r, s)
                                               \/ DeleteSource(r, s)
                         \/ \E n \in Notebooks : ListNotebook(r, n)
  \/ \E w \in Workers : \/ Start(w)
                        \/ Crash(w)
                        \/ \E s \in Sources : Claim(w, s)
                        \/ WorkerStep(w)
                        \/ Raise(w)
  \/ \E s \in Sources : Expire(s)
  \/ AcquireLock
  \/ ReleaseLock
  \/ HolderDies
  \/ AgeLock

Spec == Init /\ [][Next]_vars

\* A handler and a worker that are not killed go on; supervisors restart
\* workers, idle workers poll, time passes and a migration that is not killed
\* ends. Nothing is assumed of users, and no fault is ever due.
Fairness ==
  /\ \A r \in Requests : WF_vars(WebStep(r))
  /\ \A w \in Workers : /\ WF_vars(Start(w))
                        /\ WF_vars(\E s \in Sources : Claim(w, s))
                        /\ WF_vars(WorkerStep(w))
  /\ \A s \in Sources : WF_vars(~WorkedOn(s) /\ Expire(s))
  /\ WF_vars(lock = "live" /\ ReleaseLock)
  /\ WF_vars(lock = "left" /\ AgeLock)

FairSpec == Spec /\ Fairness

-----------------------------------------------------------------------------
(* Properties.                                                             *)

\* Nothing is under way for s: no worker, no web thread, no job to run.
Settled(s) ==
  /\ ~WorkedOn(s)
  /\ \A r \in Requests : s \notin request[r].todo
  /\ jobs[s].st \notin {"queued", "running"}

\* A deleted source leaves nothing in SQLite: no chunk and no job survives it
\* or comes back, whatever a worker that is half-way through it still does.
RowlessIsEmpty ==
  \A s \in Sources : ~HasRow(s) => Of(chunks, s) = {} /\ jobs[s].st = "none"

\* A source that reads 'indexed' has chunks in SQLite at every instant, also
\* while other workers restart, finish or fail the same source.
IndexedHasChunks ==
  \A s \in Sources : status[s] = "indexed" => Of(chunks, s) # {}

\* Two workers are never inside process_source for the same source (the claim
\* runs in BEGIN IMMEDIATE "so two workers can't claim the same job").
Exclusive ==
  \A v, w \in Workers :
    Busy(v) /\ Busy(w) /\ worker[v].src = worker[w].src => v = w

\* No source holds the chunks of two runs at once, however runs of it are
\* repeated by reindexes, retries and re-claims.
ChunksOfOneRun ==
  \A c, d \in chunks : c[1] = d[1] => c = d

\* A source never reads 'uploaded' or 'processing' when nothing is left that
\* would work on it: the page would poll for ever.
NotStranded ==
  \A s \in Sources : Settled(s) => status[s] \notin {"uploaded", "processing"}

\* Once the job of an indexed source is done and nothing is under way, every
\* chunk SQLite has for it is in the vector index.
IndexedIsSearchable ==
  \A s \in Sources :
    Settled(s) /\ jobs[s].st = "done" /\ status[s] = "indexed"
      => Of(chunks, s) \subseteq vectors

\* However many runs have met in a source: it does not stay 'processing', and it does
\* not read 'indexed' with chunks the search cannot find (app/ingest.py process_source).
EndsWell == NotStranded /\ IndexedIsSearchable

\* A job becomes 'done' only when a run that began after the source was last
\* queued has ended: mark_done leaves a job queued meanwhile "to run again".
DoneByFreshRun ==
  [][\A s \in Sources :
       jobs[s].st # "done" /\ jobs'[s].st = "done" => began[s]]_vars

\* As long as nobody reindexes a source that is being ingested and no claim is
\* overrun, the only vectors that reach Chroma under a live lock are those of
\* a source deleted while it was ingested.
OnlyDeletedUnderLock ==
  [][LockLive => \A c \in vectors' \ vectors : ~HasRow(c[1])]_vars

\* A source somebody uploaded or reindexed ends up indexed, failed or deleted:
\* no crash of a worker loses it, and no job waits for ever, not even for the
\* lock of a migration whose process is dead.
EverySourceSettles ==
  \A s \in Sources :
    status[s] \in {"uploaded", "processing"}
      ~> status[s] \in {"indexed", "failed", "deleted"}

\* Each source as IngestPromise sees it.
PromiseOf ==
  [s \in Sources |->
     IF status[s] = "deleted" THEN "void"
     ELSE CASE jobs[s].st \in {"queued", "running"} /\ ~began[s] -> "asked"
            [] jobs[s].st \in {"queued", "running"} /\ began[s]  -> "serving"
            [] jobs[s].st = "done"                               -> "kept"
            [] jobs[s].st = "failed"                             -> "failed"
            [] OTHER                                             -> "none"]

Promise == INSTANCE IngestPromise WITH promise <- PromiseOf

\* The queue, with one worker, keeps the promise: no request to ingest is
\* settled by a run that began before it, and every request is answered.
KeepsPromise == Promise!Spec
=============================================================================
