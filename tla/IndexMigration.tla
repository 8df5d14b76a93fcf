--------------------------- MODULE IndexMigration ---------------------------
(***************************************************************************)
(* Changing the width of the embeddings (app/index_migration.py), and the  *)
(* other ways the web process rewrites the whole index (app/admin.py, the  *)
(* startup sync of app/main.py) next to an ingest worker.                  *)
(*                                                                         *)
(* A Chroma collection takes the width of its first vector and keeps it,   *)
(* also when it is emptied; only replacing the collection releases it.     *)
(* SQLite keeps every chunk at the width it was embedded with. A migration *)
(* holds a lock that pauses the queue, replaces the collection, marks the  *)
(* sources whose vectors no longer fit and puts the others back.           *)
(*                                                                         *)
(* There is one web process, whose threads serve the admins, and one worker*)
(* process. A source's chunks all have one width and are one vector here.  *)
(***************************************************************************)
EXTENDS Naturals, FiniteSets

CONSTANTS
  Sources, Dims,
  NoDim,        \* no width: an unlocked collection, a source without chunks
  Threads,      \* threads of the web process
  Kinds,        \* what the admins ask for
  Overlaps,     \* do they ask for a rebuild while a migration is under way?
  MaxTasks,     \* bound: admin requests in a behaviour
  MaxReindexes, \* bound: reindexes
  MaxSaves,     \* bound: saved settings
  MaxCrashes    \* bound: deaths of the web process

ASSUME DimAssumption   == NoDim \notin Dims
ASSUME KindAssumption  == /\ Kinds \subseteq {"migrate", "rebuild", "clear"}
                          /\ Overlaps \in BOOLEAN
ASSUME BoundAssumption == {MaxTasks, MaxReindexes, MaxSaves, MaxCrashes} \subseteq Nat

VARIABLES
  status,       \* sources.status; "refused" is failed with Chroma's width error
  width,        \* the width of the source's chunks in SQLite
  job,          \* ingest_jobs.status, "done" for both final ones
  held,         \* Chroma: the vectors, each a source and a width
  locked,       \* Chroma: the width the collection is locked to
  lock,         \* vector_index_state.locked_at: free, live or past its timeout
  model,        \* the width of the saved embedding model
  tested,       \* the width the last embedding test stored
  saving,       \* the width of a model that passed the settings page's guard
  web,          \* the web process
  task,         \* what each of its threads is doing
  worker,       \* what the worker is doing
  count         \* bounded events so far

sqlite   == <<status, width, job>>
chroma   == <<held, locked>>
settings == <<model, tested, saving>>
vars     == <<sqlite, chroma, lock, settings, web, task, worker, count>>

-----------------------------------------------------------------------------
Width    == Dims \cup {NoDim}
Vector   == Sources \X Dims
Status   == {"uploaded", "processing", "indexed", "failed", "refused", "stale_embedding"}
Task     == [kind : {"none", "migrate", "rebuild", "clear", "startup"},
             pc : {"idle", "lock", "plan", "reset", "apply", "probe", "list", "compare",
                   "delete", "upsert", "release", "remove"},
             target : Width,                    \* the migration's, and sync's expected one
             sync : Width,                      \* the width sync holds rows to
             recovered : SUBSET Sources, stale : SUBSET Sources,
             listed : SUBSET Vector, orphans : SUBSET Vector, ok : BOOLEAN]
NoTask   == [kind |-> "none", pc |-> "idle", target |-> NoDim, sync |-> NoDim,
             recovered |-> {}, stale |-> {}, listed |-> {}, orphans |-> {}, ok |-> FALSE]
Worker   == [pc : {"idle", "begin", "unindex", "embed", "store", "upsert", "settle"},
             source : Sources \cup {NoDim}, width : Width]
Resting  == [pc |-> "idle", source |-> NoDim, width |-> NoDim]
Count    == [tasks : 0 .. MaxTasks, reindexes : 0 .. MaxReindexes,
             saves : 0 .. MaxSaves, crashes : 0 .. MaxCrashes]

TypeOK ==
  /\ status \in [Sources -> Status]
  /\ width \in [Sources -> Width]
  /\ \A s \in Sources : status[s] \in {"indexed", "refused"} => width[s] # NoDim
  /\ job \in [Sources -> {"queued", "running", "done"}]
  /\ held \subseteq Vector
  /\ locked \in Width
  /\ \A v \in held : v[2] = locked
  /\ lock \in {"free", "live", "aged"}
  /\ model \in Dims
  /\ tested \in Width
  /\ saving \in Width
  /\ web \in {"up", "starting", "down"}
  /\ task \in [Threads -> Task]
  /\ worker \in Worker
  /\ count \in Count

Init ==
  /\ status = [s \in Sources |-> "uploaded"]
  /\ width = [s \in Sources |-> NoDim]
  /\ job = [s \in Sources |-> "queued"]
  /\ held = {}
  /\ locked = NoDim
  /\ lock = "free"
  /\ model \in Dims
  /\ tested = NoDim
  /\ saving = NoDim
  /\ web = "up"
  /\ task = [a \in Threads |-> NoTask]
  /\ worker = Resting
  /\ count = [tasks |-> 0, reindexes |-> 0, saves |-> 0, crashes |-> 0]

\* The chunks of indexed sources, as their vectors.
Indexed == {<<s, width[s]>> : s \in {t \in Sources : status[t] = "indexed"}}

\* probe_index_dimension peeks a stored vector: an emptied collection reads None.
Probe == IF held = {} THEN NoDim ELSE locked

\* Chroma takes vectors of the collection's width, any width when it has none.
Accepts(vectors) == \A v \in vectors : locked \in {NoDim, v[2]}

Put(vectors) ==
  /\ held' = held \cup vectors
  /\ locked' = IF vectors = {} THEN locked ELSE (CHOOSE v \in vectors : TRUE)[2]

Goto(a, pc) == task' = [task EXCEPT ![a].pc = pc]

-----------------------------------------------------------------------------
(* The user and the admin's settings page.                                 *)

\* Reindex, of a source that is not being ingested right now.
Reindex(s) ==
  /\ web = "up"
  /\ count.reindexes < MaxReindexes
  /\ job[s] # "running"
  /\ status' = [status EXCEPT ![s] = "uploaded"]
  /\ job' = [job EXCEPT ![s] = "queued"]
  /\ count' = [count EXCEPT !.reindexes = @ + 1]
  /\ UNCHANGED <<width, chroma, lock, settings, web, task, worker>>

\* The embedding test stores the width of the model on the form, saved or not.
TestEmbedding(w) ==
  /\ web = "up"
  /\ tested' = w
  /\ UNCHANGED <<sqlite, chroma, lock, model, saving, web, task, worker, count>>

\* A model of another width than the index reads is refused; otherwise it is
\* saved, whatever the index reads by then.
CheckWidth(w) ==
  /\ web = "up"
  /\ saving = NoDim /\ w # model
  /\ count.saves < MaxSaves
  /\ Probe \in {NoDim, w}
  /\ saving' = w
  /\ count' = [count EXCEPT !.saves = @ + 1]
  /\ UNCHANGED <<sqlite, chroma, lock, model, tested, web, task, worker>>

SaveSettings ==
  /\ saving # NoDim
  /\ model' = saving
  /\ saving' = NoDim
  /\ UNCHANGED <<sqlite, chroma, lock, tested, web, task, worker, count>>

-----------------------------------------------------------------------------
(* The worker: claim_next_job and process_source, one source at a time.    *)

WorkerGoto(pc) == worker' = [worker EXCEPT !.pc = pc]

\* Seeded bug: the barrier is forgotten.
Unpaused == TRUE

\* A migration lock that is live pauses the queue.
Claimable == lock # "live"

Claim(s) ==
  /\ worker.pc = "idle"
  /\ job[s] = "queued"
  /\ Claimable
  /\ job' = [job EXCEPT ![s] = "running"]
  /\ worker' = [pc |-> "begin", source |-> s, width |-> NoDim]
  /\ UNCHANGED <<status, width, chroma, lock, settings, web, task, count>>

Begin ==
  /\ worker.pc = "begin"
  /\ status' = [status EXCEPT ![worker.source] = "processing"]
  /\ width' = [width EXCEPT ![worker.source] = NoDim]
  /\ WorkerGoto("unindex")
  /\ UNCHANGED <<job, chroma, lock, settings, web, task, count>>

Unindex ==
  /\ worker.pc = "unindex"
  /\ held' = {v \in held : v[1] # worker.source}
  /\ WorkerGoto("embed")
  /\ UNCHANGED <<sqlite, locked, lock, settings, web, task, count>>

\* Extraction or the endpoint may fail; otherwise the saved model embeds.
Embed ==
  /\ worker.pc = "embed"
  /\ \/ /\ worker' = [worker EXCEPT !.pc = "store", !.width = model]
        /\ UNCHANGED status
     \/ /\ status' = [status EXCEPT ![worker.source] = "failed"]
        /\ WorkerGoto("settle")
  /\ UNCHANGED <<width, job, chroma, lock, settings, web, task, count>>

Store ==
  /\ worker.pc = "store"
  /\ status' = [status EXCEPT ![worker.source] = "indexed"]
  /\ width' = [width EXCEPT ![worker.source] = worker.width]
  /\ WorkerGoto("upsert")
  /\ UNCHANGED <<job, chroma, lock, settings, web, task, count>>

Upsert ==
  /\ worker.pc = "upsert"
  /\ LET new == {<<worker.source, worker.width>>} IN
       IF Accepts(new) THEN Put(new) /\ UNCHANGED status
       ELSE status' = [status EXCEPT ![worker.source] = "refused"] /\ UNCHANGED chroma
  /\ WorkerGoto("settle")
  /\ UNCHANGED <<width, job, lock, settings, web, task, count>>

Settle ==
  /\ worker.pc = "settle"
  /\ job' = [job EXCEPT ![worker.source] = "done"]
  /\ worker' = Resting
  /\ UNCHANGED <<status, width, chroma, lock, settings, web, task, count>>

Work == (\E s \in Sources : Claim(s)) \/ Begin \/ Unindex \/ Embed \/ Store \/ Upsert \/ Settle

-----------------------------------------------------------------------------
(* The admin's requests.                                                   *)

FirstStep == [migrate |-> "lock", rebuild |-> "probe", clear |-> "list"]

\* A rebuild beside a migration, or a migration beside a rebuild.
Beside(kind) == \/ kind = "rebuild" /\ \E b \in Threads : task[b].kind = "migrate"
                \/ kind = "migrate" /\ \E b \in Threads : task[b].kind = "rebuild"

\* A migration needs a successful test, whose width is its target.
Request(a, kind) ==
  /\ web = "up"
  /\ task[a].pc = "idle"
  /\ kind \in Kinds
  /\ count.tasks < MaxTasks
  /\ kind = "migrate" => tested # NoDim
  /\ Overlaps \/ ~Beside(kind)
  /\ task' = [task EXCEPT ![a] =
       [NoTask EXCEPT !.kind = kind, !.pc = FirstStep[kind],
                      !.target = IF kind = "migrate" THEN tested ELSE NoDim]]
  /\ count' = [count EXCEPT !.tasks = @ + 1]
  /\ UNCHANGED <<sqlite, chroma, lock, settings, web, worker>>

\* acquire_migration_lock: busy while a lock is live or a job is running.
AcquireLock(a) ==
  /\ task[a].pc = "lock"
  /\ IF lock = "live" \/ \E s \in Sources : job[s] = "running"
     THEN task' = [task EXCEPT ![a] = NoTask] /\ UNCHANGED lock
     ELSE lock' = "live" /\ Goto(a, "plan")
  /\ UNCHANGED <<sqlite, chroma, settings, web, worker, count>>

\* Seeded bug: an indexed source counts as reusable whatever its width.
StaleUnlessIndexed(target) == {s \in Sources : status[s] = "stale_embedding"}

\* classify_sources. A stale source stays stale, at the target width or not.
Stale(target) == {s \in Sources : \/ status[s] = "stale_embedding"
                                  \/ status[s] = "indexed" /\ width[s] # target}
Recovered(target) == {s \in Sources : status[s] = "refused" /\ width[s] = target}

Plan(a) ==
  /\ task[a].pc = "plan"
  /\ task' = [task EXCEPT ![a].pc = "reset",
                          ![a].stale = Stale(task[a].target),
                          ![a].recovered = Recovered(task[a].target)]
  /\ UNCHANGED <<sqlite, chroma, lock, settings, web, worker, count>>

\* reset_collection (VectorIndex has its steps).
Reset(a) ==
  /\ task[a].pc = "reset"
  /\ held' = {}
  /\ locked' = NoDim
  /\ Goto(a, "apply")
  /\ UNCHANGED <<sqlite, lock, settings, web, worker, count>>

\* apply_source_states writes what was planned over what the status is now.
Apply(a) ==
  /\ task[a].pc = "apply"
  /\ status' = [s \in Sources |-> IF s \in task[a].stale THEN "stale_embedding"
                                  ELSE IF s \in task[a].recovered THEN "indexed"
                                  ELSE status[s]]
  /\ Goto(a, "probe")
  /\ UNCHANGED <<width, job, chroma, lock, settings, web, worker, count>>

\* The finally of run_migration releases the lock, whoever holds it by now.
Release(a) ==
  /\ task[a].pc = "release"
  /\ lock' = "free"
  /\ task' = [task EXCEPT ![a] = NoTask]
  /\ UNCHANGED <<sqlite, chroma, settings, web, worker, count>>

\* clear_all_vectors: list the ids, then delete them.
ListVectors(a) ==
  /\ task[a].pc = "list" /\ task[a].kind = "clear"
  /\ task' = [task EXCEPT ![a].pc = "remove", ![a].listed = held]
  /\ UNCHANGED <<sqlite, chroma, lock, settings, web, worker, count>>

RemoveVectors(a) ==
  /\ task[a].pc = "remove"
  /\ held' = held \ task[a].listed
  /\ task' = [task EXCEPT ![a] = NoTask]
  /\ UNCHANGED <<sqlite, locked, lock, settings, web, worker, count>>

-----------------------------------------------------------------------------
(* sync_from_sqlite: a migration's last step and the rebuild (full), and   *)
(* the startup of the web process (diff).                                  *)

\* The width that decides is the collection's, else the one the caller expects.
SyncProbe(a) ==
  /\ task[a].pc = "probe"
  /\ task' = [task EXCEPT ![a].pc = "list",
                          ![a].sync = IF Probe = NoDim THEN task[a].target ELSE Probe]
  /\ UNCHANGED <<sqlite, chroma, lock, settings, web, worker, count>>

\* The ids of indexed chunks; a full sync reads the rows and deletes nothing.
SyncList(a) ==
  /\ task[a].pc = "list" /\ task[a].kind # "clear"
  /\ task' = [task EXCEPT ![a].pc = IF task[a].kind = "startup" THEN "compare" ELSE "upsert",
                          ![a].listed = Indexed]
  /\ UNCHANGED <<sqlite, chroma, lock, settings, web, worker, count>>

\* Then the ids in Chroma; the rows it lacks are read if they still exist.
SyncCompare(a) ==
  /\ task[a].pc = "compare"
  /\ task' = [task EXCEPT ![a].pc = "delete",
                          ![a].listed = {v \in @ \ held : width[v[1]] = v[2]},
                          ![a].orphans = held \ task[a].listed]
  /\ UNCHANGED <<sqlite, chroma, lock, settings, web, worker, count>>

SyncDelete(a) ==
  /\ task[a].pc = "delete"
  /\ held' = held \ task[a].orphans
  /\ Goto(a, "upsert")
  /\ UNCHANGED <<sqlite, locked, lock, settings, web, worker, count>>

\* Without any width the first row decides.
Deciding(a) == IF task[a].sync = NoDim /\ task[a].listed # {}
               THEN {v[2] : v \in task[a].listed} ELSE {task[a].sync}

\* Seeded bug: the loop over the batches ends after the first.
FirstBatch(a, w) == LET fitting == {v \in task[a].listed : v[2] = w}
                    IN IF fitting = {} THEN {} ELSE {CHOOSE v \in fitting : TRUE}

\* Rows of another width are skipped.
FittingRows(a, w) == {v \in task[a].listed : v[2] = w}

\* One batch. A startup that Chroma refuses takes the web process down.
SyncUpsert(a) ==
  /\ task[a].pc = "upsert"
  /\ \E w \in Deciding(a) :
       LET rows == FittingRows(a, w)
           ok == Accepts(rows)
       IN
        /\ IF ok THEN Put(rows) ELSE UNCHANGED chroma
        /\ task' = [task EXCEPT ![a] = IF @.kind = "migrate"
                                       THEN [@ EXCEPT !.pc = "release", !.ok = ok]
                                       ELSE NoTask]
        /\ web' = IF task[a].kind # "startup" THEN web ELSE IF ok THEN "up" ELSE "down"
  /\ UNCHANGED <<sqlite, lock, settings, worker, count>>

-----------------------------------------------------------------------------
(* The life of the web process.                                            *)

Crash ==
  /\ web # "down"
  /\ count.crashes < MaxCrashes
  /\ web' = "down"
  /\ task' = [a \in Threads |-> NoTask]
  /\ saving' = NoDim
  /\ count' = [count EXCEPT !.crashes = @ + 1]
  /\ UNCHANGED <<sqlite, chroma, lock, model, tested, worker>>

\* The lifespan syncs before it serves the first request.
Start(a) ==
  /\ web = "down"
  /\ web' = "starting"
  /\ task' = [task EXCEPT ![a] = [NoTask EXCEPT !.kind = "startup", !.pc = "probe"]]
  /\ UNCHANGED <<sqlite, chroma, lock, settings, worker, count>>

\* A lock outlives its timeout when its migration died.
Age ==
  /\ lock = "live"
  /\ \A a \in Threads : task[a].kind = "migrate" => task[a].pc = "lock"
  /\ lock' = "aged"
  /\ UNCHANGED <<sqlite, chroma, settings, web, task, worker, count>>

Serve(a) == \/ \E kind \in Kinds : Request(a, kind)
            \/ AcquireLock(a) \/ Plan(a) \/ Reset(a) \/ Apply(a) \/ Release(a)
            \/ ListVectors(a) \/ RemoveVectors(a)
            \/ SyncProbe(a) \/ SyncList(a) \/ SyncCompare(a) \/ SyncDelete(a) \/ SyncUpsert(a)
            \/ Start(a)

Next == \/ \E s \in Sources : Reindex(s)
        \/ \E w \in Dims : TestEmbedding(w) \/ CheckWidth(w)
        \/ SaveSettings
        \/ Work
        \/ \E a \in Threads : Serve(a)
        \/ Crash \/ Age

Spec == Init /\ [][Next]_vars

-----------------------------------------------------------------------------
(* Properties.                                                             *)

\* A migration that ran to its end leaves the collection at its target width or
\* unlocked, and every source that reads indexed has its chunks at that width.
MigrationLeavesTarget ==
  \A a \in Threads : task[a].pc = "release" /\ task[a].ok =>
    /\ locked \in {NoDim, task[a].target}
    /\ \A s \in Sources : status[s] = "indexed" => width[s] = task[a].target

\* When its sync succeeds the vector of every such source is stored again, the
\* sources an earlier migration left in between included.
MigrationRestores ==
  [][\A a \in Threads :
       task[a].pc = "upsert" /\ task'[a].pc = "release" /\ task'[a].ok
         => Indexed' \subseteq held']_vars

\* A stale source is never found by a search: none of its vectors is stored.
StaleIsUnsearchable ==
  \A v \in held : status[v[1]] # "stale_embedding"
=============================================================================
