--------------------------- MODULE MigrationProofs ---------------------------
(***************************************************************************)
(* What is proved of IndexMigration for every number of sources, widths,   *)
(* threads and requests. A migration past its lock is alone with the index:*)
(* the lock keeps the worker from claiming, and nothing else stores        *)
(* vectors beside it when no rebuild is asked for meanwhile. What it has   *)
(* planned therefore stays true until it has applied it, and what it has   *)
(* applied until it releases the lock.                                     *)
(***************************************************************************)
EXTENDS IndexMigration, TLAPS

\* Nobody asks for a rebuild beside a migration. The code does not forbid it; with it,
\* the properties below do not hold.
Apart == Overlaps = FALSE

\* A migration that has its lock.
Holds(a) == task[a].kind = "migrate" /\ task[a].pc # "lock"

\* The steps of each kind of task.
Formed(t) ==
  /\ t.kind = "none" => t.pc = "idle"
  /\ t.kind = "migrate" => /\ t.target \in Dims
                           /\ t.pc \in {"lock", "plan", "reset", "apply", "probe", "list", "upsert", "release"}
  /\ t.kind = "rebuild" => t.pc \in {"probe", "list", "upsert"}
  /\ t.kind = "clear" => t.pc \in {"list", "remove"}
  /\ t.kind = "startup" => t.pc \in {"probe", "list", "compare", "delete", "upsert"}

\* Startup is alone: the web process serves nothing before it is over.
Webbed ==
  /\ web = "down" => \A a \in Threads : task[a].kind = "none"
  /\ web = "starting" => \A a \in Threads : task[a].kind \in {"none", "startup"}
  /\ web = "up" => \A a \in Threads : task[a].kind # "startup"
  /\ \A a, b \in Threads : task[a].kind = "startup" /\ task[b].kind = "startup" => a = b

\* No rebuild runs beside a migration.
Separate == \A a, b \in Threads : ~(task[a].kind = "migrate" /\ task[b].kind = "rebuild")

\* The lock is live, its holder the only one, and the worker idle.
Barrier ==
  \A a \in Threads : Holds(a) =>
    /\ lock = "live" /\ \A s \in Sources : job[s] # "running"
    /\ \A b \in Threads : Holds(b) => b = a

\* What the worker is about to store it has just embedded.
Working ==
  worker.pc # "idle" =>
    /\ worker.source \in Sources /\ job[worker.source] = "running"
    /\ worker.pc \in {"store", "upsert"} => worker.width \in Dims
    /\ worker.pc = "upsert" => status[worker.source] = "indexed" /\ width[worker.source] = worker.width

\* The plan of a migration holds until it is applied, and its outcome until it is over.
Planned(t) ==
  /\ t.pc \in {"reset", "apply"} =>
       \A s \in Sources : /\ status[s] = "indexed" /\ width[s] # t.target => s \in t.stale
                          /\ s \in t.recovered => width[s] = t.target
  /\ t.pc = "apply" => held = {}
  /\ t.pc \in {"apply", "probe", "list", "upsert", "release"} => locked \in {NoDim, t.target}
  /\ t.pc \in {"probe", "list", "upsert", "release"} =>
       \A s \in Sources : status[s] = "indexed" => width[s] = t.target
  /\ t.pc \in {"list", "upsert"} => t.sync = t.target
  /\ t.pc = "upsert" => \A s \in Sources : status[s] = "indexed" => <<s, width[s]>> \in t.listed

\* What a sync has listed does not become stale before it is stored.
Listed ==
  \A a \in Threads : task[a].pc \in {"compare", "delete", "upsert"} =>
    \A v \in task[a].listed : status[v[1]] # "stale_embedding"

Alone ==
  /\ \A a \in Threads : Formed(task[a])
  /\ Webbed /\ Separate /\ Barrier /\ Working

Inv ==
  /\ TypeOK /\ Alone /\ Listed /\ StaleIsUnsearchable
  /\ \A a \in Threads : task[a].kind = "migrate" => Planned(task[a])

-----------------------------------------------------------------------------
(* Types.                                                                  *)

\* A task that changes keeps its type when its new fields have theirs.
LEMMA TaskType ==
  ASSUME NEW t \in Task, NEW pc, NEW sync \in Width, NEW listed \in SUBSET Vector,
         NEW orphans \in SUBSET Vector, NEW stale \in SUBSET Sources, NEW recovered \in SUBSET Sources,
         NEW ok \in BOOLEAN,
         pc \in {"idle", "lock", "plan", "reset", "apply", "probe", "list", "compare",
                 "delete", "upsert", "release", "remove"}
  PROVE  /\ [t EXCEPT !.pc = pc] \in Task
         /\ [t EXCEPT !.pc = pc, !.stale = stale, !.recovered = recovered] \in Task
         /\ [t EXCEPT !.pc = pc, !.sync = sync] \in Task
         /\ [t EXCEPT !.pc = pc, !.listed = listed] \in Task
         /\ [t EXCEPT !.pc = pc, !.listed = listed, !.orphans = orphans] \in Task
         /\ [t EXCEPT !.pc = pc, !.ok = ok] \in Task
<1> USE DEF Task
<1>1. [t EXCEPT !.pc = pc] \in Task
  OBVIOUS
<1>2. [t EXCEPT !.pc = pc, !.stale = stale, !.recovered = recovered] \in Task
  OBVIOUS
<1>3. [t EXCEPT !.pc = pc, !.sync = sync] \in Task
  OBVIOUS
<1>4. [t EXCEPT !.pc = pc, !.listed = listed] \in Task
  OBVIOUS
<1>5. [t EXCEPT !.pc = pc, !.listed = listed, !.orphans = orphans] \in Task
  OBVIOUS
<1>6. [t EXCEPT !.pc = pc, !.ok = ok] \in Task
  OBVIOUS
<1> QED
  BY <1>1, <1>2, <1>3, <1>4, <1>5, <1>6

LEMMA NoTaskIs == NoTask \in Task /\ NoTask.kind = "none" /\ NoTask.pc = "idle" /\ NoTask.listed = {}
BY DEF NoTask, Task, Width

\* Chroma: what is put in has the collection's width.
LEMMA PutHolds ==
  ASSUME TypeOK, NEW rows \in SUBSET Vector, NEW w \in Width, \A v \in rows : v[2] = w,
         Accepts(rows), Put(rows)
  PROVE  /\ held' \subseteq Vector /\ locked' \in Width /\ \A v \in held' : v[2] = locked'
         /\ held' = held \cup rows
         /\ (rows = {} /\ locked' = locked) \/ (locked' = w /\ w \in Dims)
<1>1. CASE rows = {}
  BY <1>1 DEF Put, TypeOK
<1>2. CASE rows # {}
  <2>1. PICK x \in rows : x = CHOOSE v \in rows : TRUE
    BY <1>2
  <2>2. locked' = w /\ w \in Dims
    <3>1. locked' = x[2]
      BY <1>2, <2>1 DEF Put
    <3>2. x \in Sources \X Dims
      BY DEF Vector
    <3> QED
      BY <3>1, <3>2
  <2>3. \A v \in held : v[2] = w
    <3> SUFFICES ASSUME NEW v \in held PROVE v[2] = w
      OBVIOUS
    <3>1. v[2] = locked /\ v[2] \in Dims
      BY DEF TypeOK, Vector
    <3>2. locked \in {NoDim, x[2]}
      BY DEF Accepts
    <3> QED
      BY <3>1, <3>2, DimAssumption
  <2>4. held' = held \cup rows /\ held \subseteq Vector
    BY DEF Put, TypeOK
  <2> QED
    BY <2>2, <2>3, <2>4 DEF Width
<1> QED
  BY <1>1, <1>2

-----------------------------------------------------------------------------
(* What each group of steps keeps.                                         *)

\* A step that leaves the tasks alone, and of the state they depend on at most takes
\* sources out of service or vectors out of the collection, outside the worker's run.
LEMMA Shrinks ==
  ASSUME Inv, UNCHANGED <<task, width, locked, lock>>, held' \subseteq held,
         \A s \in Sources : status'[s] = "indexed" => status[s] = "indexed",
         \A s \in Sources : status'[s] = "stale_embedding" => status[s] = "stale_embedding"
  PROVE  /\ Listed' /\ StaleIsUnsearchable'
         /\ \A a \in Threads : task'[a].kind = "migrate" => Planned(task[a])'
<1>0. TypeOK
  BY DEF Inv
<1>1. Listed'
  <2> SUFFICES ASSUME NEW a \in Threads, task[a].pc \in {"compare", "delete", "upsert"},
                      NEW v \in task[a].listed
               PROVE  status'[v[1]] # "stale_embedding"
    BY DEF Listed
  <2>1. v[1] \in Sources
    BY <1>0 DEF TypeOK, Task, Vector
  <2> QED
    BY <2>1 DEF Inv, Listed
<1>2. StaleIsUnsearchable'
  <2>1. \A v \in held : v[1] \in Sources
    BY <1>0 DEF TypeOK, Vector
  <2> QED
    BY <2>1 DEF Inv, StaleIsUnsearchable
<1>3. \A a \in Threads : task'[a].kind = "migrate" => Planned(task[a])'
  BY DEF Inv, Planned
<1> QED
  BY <1>1, <1>2, <1>3

LEMMA ReindexHolds ==
  ASSUME Inv, NEW s \in Sources, Reindex(s)
  PROVE  Inv'
<1>1. TypeOK'
  <2>0. TypeOK
    BY DEF Inv
  <2>1. status' \in [Sources -> Status] /\ job' \in [Sources -> {"queued", "running", "done"}]
    BY <2>0 DEF Reindex, TypeOK, Status
  <2>2. \A t \in Sources : status'[t] \in {"indexed", "refused"} => width'[t] # NoDim
    BY <2>0 DEF Reindex, TypeOK
  <2>3. count' \in Count
    BY <2>0, BoundAssumption DEF Reindex, TypeOK, Count
  <2> QED
    BY <2>0, <2>1, <2>2, <2>3 DEF Reindex, TypeOK, chroma, settings
<1>2. Alone'
  <2>1. Barrier'
    BY DEF Inv, TypeOK, Alone, Reindex, Barrier, Holds
  <2>2. Working'
    BY DEF Inv, TypeOK, Alone, Reindex, Working
  <2> QED
    BY <2>1, <2>2 DEF Inv, Alone, Reindex, Webbed, Separate
<1>3. \A t \in Sources : /\ status'[t] = "indexed" => status[t] = "indexed"
                         /\ status'[t] = "stale_embedding" => status[t] = "stale_embedding"
  BY DEF Inv, TypeOK, Reindex
<1> QED
  BY <1>1, <1>2, <1>3, Shrinks DEF Inv, Reindex, chroma

\* The steps of the settings page.
LEMMA SettingsHolds ==
  ASSUME Inv, (\E w \in Dims : TestEmbedding(w) \/ CheckWidth(w)) \/ SaveSettings
  PROVE  Inv'
<1>1. UNCHANGED <<status, width, job, held, locked, lock, web, task, worker>>
  BY DEF TestEmbedding, CheckWidth, SaveSettings, sqlite, chroma
<1>2. TypeOK'
  <2>1. model' \in Dims /\ tested' \in Width /\ saving' \in Width /\ count' \in Count
    <3>0. TypeOK
      BY DEF Inv
    <3>1. CASE \E w \in Dims : TestEmbedding(w)
      BY <3>0, <3>1 DEF TypeOK, TestEmbedding, Width
    <3>2. ASSUME NEW w \in Dims, CheckWidth(w) PROVE model' \in Dims /\ tested' \in Width /\ saving' \in Width /\ count' \in Count
      <4>1. count' \in Count
        BY <3>0, <3>2, BoundAssumption DEF TypeOK, CheckWidth, Count
      <4> QED
        BY <3>0, <3>2, <4>1 DEF TypeOK, CheckWidth, Width
    <3>3. CASE SaveSettings
      BY <3>0, <3>3 DEF TypeOK, SaveSettings, Width
    <3> QED
      BY <3>1, <3>2, <3>3
  <2> QED
    BY <1>1, <2>1 DEF Inv, TypeOK
<1>3. Alone'
  BY <1>1 DEF Inv, Alone, Webbed, Separate, Barrier, Holds, Working
<1> QED
  BY <1>1, <1>2, <1>3, Shrinks DEF Inv

\* The worker: it runs while no migration holds the lock, so that what a migration
\* has planned is not its concern.
LEMMA WorkHolds ==
  ASSUME Inv, Work
  PROVE  Inv'
<1>0. TypeOK /\ Alone /\ Listed /\ StaleIsUnsearchable
  BY DEF Inv
<1>1. UNCHANGED <<lock, web, task, model, tested, saving, count>>
  BY DEF Work, Claim, Begin, Unindex, Embed, Store, Upsert, Settle, settings
<1>2. \A a \in Threads : ~Holds(a)
  <2>1. CASE worker.pc # "idle"
    BY <1>0, <2>1 DEF Alone, Barrier, Working
  <2>2. CASE \E s \in Sources : Claim(s)
    BY <1>0, <2>2 DEF Alone, Barrier, Claim, Claimable
  <2> QED
    BY <2>1, <2>2 DEF Work, Begin, Unindex, Embed, Store, Upsert, Settle
<1>3. /\ \A a \in Threads : Formed(task'[a])
      /\ Webbed' /\ Separate' /\ Barrier'
      /\ \A a \in Threads : task'[a].kind = "migrate" => Planned(task[a])'
  BY <1>0, <1>1, <1>2 DEF Alone, Webbed, Separate, Barrier, Holds, Planned
<1>4. worker.pc # "idle" => worker.source \in Sources /\ job[worker.source] = "running"
  BY <1>0 DEF Alone, Working
<1>5. worker.pc \in {"store", "upsert"} => worker.width \in Dims
  BY <1>0 DEF Alone, Working
<1>t. ASSUME TypeOK' /\ Working' /\ Listed' /\ StaleIsUnsearchable' PROVE Inv'
  BY <1>3, <1>t DEF Inv, Alone
\* The statuses a worker writes are never the stale one.
<1>u. ASSUME \A s \in Sources : status'[s] = "stale_embedding" => status[s] = "stale_embedding",
             held' \subseteq held
      PROVE  Listed' /\ StaleIsUnsearchable'
  <2>1. \A v \in held : v[1] \in Sources
    BY <1>0 DEF TypeOK, Vector
  <2>2. \A a \in Threads : \A v \in task[a].listed : v[1] \in Sources
    BY <1>0 DEF TypeOK, Task, Vector
  <2> QED
    BY <1>0, <1>1, <1>u, <2>1, <2>2 DEF Listed, StaleIsUnsearchable
<1>6. ASSUME NEW s \in Sources, Claim(s) PROVE Inv'
  <2>1. job' \in [Sources -> {"queued", "running", "done"}] /\ job'[s] = "running"
    BY <1>0, <1>6 DEF Claim, TypeOK
  <2>2. worker' \in Worker /\ worker'.pc = "begin" /\ worker'.source = s
    BY <1>6 DEF Claim, Worker, Width
  <2>3. UNCHANGED <<status, width, held, locked>>
    BY <1>6 DEF Claim, chroma
  <2>4. TypeOK'
    BY <1>0, <1>1, <2>1, <2>2, <2>3 DEF TypeOK
  <2>5. Working'
    BY <2>1, <2>2 DEF Working
  <2> QED
    BY <1>t, <1>u, <2>3, <2>4, <2>5
<1>7. CASE Begin
  <2>1. /\ status' \in [Sources -> Status] /\ width' \in [Sources -> Width]
        /\ \A s \in Sources : status'[s] \in {"indexed", "refused"} => width'[s] # NoDim
        /\ \A s \in Sources : status'[s] = "stale_embedding" => status[s] = "stale_embedding"
    BY <1>0, <1>4, <1>7 DEF Begin, TypeOK, Status, Width
  <2>2. worker' \in Worker /\ worker'.pc = "unindex" /\ worker'.source = worker.source
    BY <1>0, <1>7 DEF Begin, WorkerGoto, Worker, TypeOK
  <2>3. UNCHANGED <<job, held, locked>>
    BY <1>7 DEF Begin, chroma
  <2>4. TypeOK'
    BY <1>0, <1>1, <2>1, <2>2, <2>3 DEF TypeOK
  <2>5. Working'
    BY <1>4, <1>7, <2>2, <2>3 DEF Working, Begin
  <2> QED
    BY <1>t, <1>u, <2>1, <2>3, <2>4, <2>5
<1>8. CASE Unindex
  <2>1. held' \subseteq held
    BY <1>8 DEF Unindex
  <2>2. worker' \in Worker /\ worker'.pc = "embed" /\ worker'.source = worker.source
    BY <1>0, <1>8 DEF Unindex, WorkerGoto, Worker, TypeOK
  <2>3. UNCHANGED <<status, width, job, locked>>
    BY <1>8 DEF Unindex, sqlite
  <2>4. TypeOK'
    BY <1>0, <1>1, <2>1, <2>2, <2>3 DEF TypeOK
  <2>5. Working'
    BY <1>4, <1>8, <2>2, <2>3 DEF Working, Unindex
  <2> QED
    BY <1>t, <1>u, <2>1, <2>3, <2>4, <2>5
<1>9. CASE Embed
  <2>1. UNCHANGED <<width, job, held, locked>>
    BY <1>9 DEF Embed, chroma
  <2>2. CASE worker' = [worker EXCEPT !.pc = "store", !.width = model] /\ UNCHANGED status
    <3>1. worker' \in Worker /\ worker'.pc = "store" /\ worker'.source = worker.source /\ worker'.width \in Dims
      BY <1>0, <2>2 DEF Worker, TypeOK, Width
    <3>2. TypeOK'
      BY <1>0, <1>1, <2>1, <2>2, <3>1 DEF TypeOK
    <3>3. Working'
      BY <1>4, <1>9, <2>1, <3>1 DEF Working, Embed
    <3> QED
      BY <1>t, <1>u, <2>1, <2>2, <3>2, <3>3
  <2>3. CASE status' = [status EXCEPT ![worker.source] = "failed"] /\ WorkerGoto("settle")
    <3>1. worker' \in Worker /\ worker'.pc = "settle" /\ worker'.source = worker.source
      BY <1>0, <2>3 DEF Worker, TypeOK, WorkerGoto
    <3>2. /\ status' \in [Sources -> Status]
          /\ \A s \in Sources : status'[s] \in {"indexed", "refused"} => status'[s] = status[s]
          /\ \A s \in Sources : status'[s] = "stale_embedding" => status[s] = "stale_embedding"
      BY <1>0, <1>4, <1>9, <2>3 DEF TypeOK, Status, Embed
    <3>3. TypeOK'
      BY <1>0, <1>1, <2>1, <3>1, <3>2 DEF TypeOK
    <3>4. Working'
      BY <1>4, <1>9, <2>1, <3>1 DEF Working, Embed
    <3> QED
      BY <1>t, <1>u, <2>1, <3>2, <3>3, <3>4
  <2> QED
    BY <1>9, <2>2, <2>3 DEF Embed
<1>10. CASE Store
  <2>1. /\ status' \in [Sources -> Status] /\ width' \in [Sources -> Width]
        /\ \A s \in Sources : status'[s] \in {"indexed", "refused"} => width'[s] # NoDim
        /\ \A s \in Sources : status'[s] = "stale_embedding" => status[s] = "stale_embedding"
        /\ status'[worker.source] = "indexed" /\ width'[worker.source] = worker.width
    BY <1>0, <1>4, <1>5, <1>10, DimAssumption DEF Store, TypeOK, Status, Width
  <2>2. worker' \in Worker /\ worker'.pc = "upsert" /\ worker'.source = worker.source /\ worker'.width = worker.width
    BY <1>0, <1>10 DEF Store, WorkerGoto, Worker, TypeOK
  <2>3. UNCHANGED <<job, held, locked>>
    BY <1>10 DEF Store, chroma
  <2>4. TypeOK'
    BY <1>0, <1>1, <2>1, <2>2, <2>3 DEF TypeOK
  <2>5. Working'
    BY <1>4, <1>5, <1>10, <2>1, <2>2, <2>3 DEF Working, Store
  <2> QED
    BY <1>t, <1>u, <2>1, <2>3, <2>4, <2>5
<1>11. CASE Upsert
  <2> PICK new : new = {<<worker.source, worker.width>>}
    OBVIOUS
  <2>0. /\ worker.source \in Sources /\ worker.width \in Dims /\ worker.pc = "upsert"
        /\ status[worker.source] = "indexed" /\ width[worker.source] = worker.width
    BY <1>0, <1>4, <1>5, <1>11 DEF Upsert, Alone, Working
  <2>1. worker' \in Worker /\ worker'.pc = "settle" /\ worker'.source = worker.source
    BY <1>0, <1>11 DEF Upsert, WorkerGoto, Worker, TypeOK
  <2>2. UNCHANGED <<width, job>>
    BY <1>11 DEF Upsert
  <2>3. Working'
    BY <1>4, <2>0, <2>1, <2>2 DEF Working
  <2>4. CASE Accepts(new) /\ Put(new) /\ UNCHANGED status
    <3>1. new \in SUBSET Vector /\ \A v \in new : v[1] = worker.source /\ v[2] = worker.width
      BY <2>0 DEF Vector
    <3>2. /\ held' \subseteq Vector /\ locked' \in Width /\ \A v \in held' : v[2] = locked'
          /\ held' = held \cup new
      BY <1>0, <2>0, <2>4, <3>1, PutHolds DEF Width
    <3>3. TypeOK'
      BY <1>0, <1>1, <2>1, <2>2, <2>4, <3>2 DEF TypeOK
    <3>4. Listed'
      BY <1>0, <1>1, <2>4 DEF Listed
    <3>5. StaleIsUnsearchable'
      BY <1>0, <2>0, <2>4, <3>1, <3>2 DEF StaleIsUnsearchable
    <3> QED
      BY <1>t, <2>3, <3>3, <3>4, <3>5
  <2>5. CASE status' = [status EXCEPT ![worker.source] = "refused"] /\ UNCHANGED chroma
    <3>1. /\ status' \in [Sources -> Status] /\ UNCHANGED <<held, locked>>
          /\ \A s \in Sources : status'[s] \in {"indexed", "refused"} => width[s] # NoDim
          /\ \A s \in Sources : status'[s] = "stale_embedding" => status[s] = "stale_embedding"
      BY <1>0, <2>0, <2>5, DimAssumption DEF TypeOK, Status, chroma
    <3>2. TypeOK'
      BY <1>0, <1>1, <2>1, <2>2, <3>1 DEF TypeOK
    <3> QED
      BY <1>t, <1>u, <2>3, <3>1, <3>2
  <2> QED
    BY <1>11, <2>4, <2>5 DEF Upsert
<1>12. CASE Settle
  <2>1. job' \in [Sources -> {"queued", "running", "done"}]
    BY <1>0, <1>4, <1>12 DEF Settle, TypeOK
  <2>2. worker' \in Worker /\ worker'.pc = "idle"
    BY <1>12 DEF Settle, Worker, Resting, Width
  <2>3. UNCHANGED <<status, width, held, locked>>
    BY <1>12 DEF Settle, chroma
  <2>4. TypeOK'
    BY <1>0, <1>1, <2>1, <2>2, <2>3 DEF TypeOK
  <2>5. Working'
    BY <2>2 DEF Working
  <2> QED
    BY <1>t, <1>u, <2>3, <2>4, <2>5
<1> QED
  BY <1>6, <1>7, <1>8, <1>9, <1>10, <1>11, <1>12 DEF Work

\* A step of one task, the statuses left alone.
LEMMA TaskHolds ==
  ASSUME Inv, NEW a \in Threads, NEW h \in Task, task' = [task EXCEPT ![a] = h],
         UNCHANGED <<status, width, job, model, tested, saving, worker>>,
         held' \subseteq Vector, locked' \in Width, \A v \in held' : v[2] = locked',
         count' \in Count, web' \in {"up", "starting", "down"}, lock' \in {"free", "live", "aged"},
         StaleIsUnsearchable', Formed(h), Webbed', Separate', Barrier',
         h.kind = "migrate" => Planned(h)',
         \A b \in Threads \ {a} : task[b].kind = "migrate" => Planned(task[b])',
         h.pc \in {"compare", "delete", "upsert"} => \A v \in h.listed : status[v[1]] # "stale_embedding"
  PROVE  Inv'
<1>0. TypeOK /\ Alone /\ Listed
  BY DEF Inv
<1>1. task' \in [Threads -> Task] /\ task'[a] = h /\ \A b \in Threads \ {a} : task'[b] = task[b]
  BY <1>0 DEF TypeOK
<1>2. TypeOK'
  BY <1>0, <1>1 DEF TypeOK
<1>3. (\A b \in Threads : Formed(task[b])) /\ (\A b \in Threads : Formed(task'[b]))
  BY <1>0, <1>1 DEF Alone
<1>4. Working'
  BY <1>0 DEF Alone, Working
<1>5. Listed'
  BY <1>0, <1>1 DEF Listed
<1>6. ASSUME NEW b \in Threads, task'[b].kind = "migrate" PROVE Planned(task[b])'
  <2>1. CASE b = a
    BY <1>1, <1>6, <2>1 DEF Planned
  <2>2. CASE b # a
    BY <1>1, <1>6, <2>2 DEF Planned
  <2> QED
    BY <2>1, <2>2
<1> QED
  BY <1>2, <1>3, <1>4, <1>5, <1>6 DEF Inv, Alone

\* As above, when the collection at most loses vectors.
LEMMA TaskShrinks ==
  ASSUME Inv, NEW a \in Threads, NEW h \in Task, task' = [task EXCEPT ![a] = h],
         UNCHANGED <<status, width, job, model, tested, saving, worker, locked>>, held' \subseteq held,
         count' \in Count, web' \in {"up", "starting", "down"}, lock' \in {"free", "live", "aged"},
         Formed(h), Webbed', Separate', Barrier',
         h.kind = "migrate" => Planned(h)',
         h.pc \in {"compare", "delete", "upsert"} => \A v \in h.listed : status[v[1]] # "stale_embedding"
  PROVE  Inv'
<1>0. TypeOK /\ Alone /\ Listed /\ StaleIsUnsearchable
  BY DEF Inv
<1>1. held' \subseteq Vector /\ locked' \in Width /\ \A v \in held' : v[2] = locked'
  BY <1>0 DEF TypeOK
<1>2. StaleIsUnsearchable'
  BY <1>0 DEF StaleIsUnsearchable
<1>3. ASSUME NEW b \in Threads \ {a}, task[b].kind = "migrate" PROVE Planned(task[b])'
  <2>1. task'[b] = task[b]
    BY <1>0 DEF TypeOK
  <2> QED
    BY <1>3, <2>1 DEF Inv, Planned
<1> QED
  BY <1>1, <1>2, <1>3, TaskHolds

\* A task that stays of its kind, or ends, and takes no lock.
LEMMA SameKind ==
  ASSUME Inv, NEW a \in Threads, NEW h \in Task, task' = [task EXCEPT ![a] = h],
         h.kind = task[a].kind \/ h.kind = "none",
         h.kind = "migrate" => h.pc # "lock" /\ task[a].pc # "lock", UNCHANGED <<web, lock, job>>
  PROVE  Webbed' /\ Separate' /\ Barrier'
<1>0. TypeOK /\ Webbed /\ Separate /\ Barrier
  BY DEF Inv, Alone
<1>1. task'[a] = h /\ \A b \in Threads \ {a} : task'[b] = task[b]
  BY <1>0 DEF TypeOK
<1>2. \A b \in Threads : task'[b].kind = task[b].kind \/ task'[b].kind = "none"
  BY <1>1
<1>3. Webbed'
  BY <1>0, <1>2 DEF Webbed
<1>4. Separate'
  BY <1>0, <1>2 DEF Separate
<1>5. \A b \in Threads : Holds(b)' => Holds(b)
  BY <1>1 DEF Holds
<1>6. Barrier'
  BY <1>0, <1>5 DEF Barrier
<1> QED
  BY <1>3, <1>4, <1>6

LEMMA RequestHolds ==
  ASSUME Inv, Apart, NEW a \in Threads, NEW kind \in Kinds, Request(a, kind)
  PROVE  Inv'
<1>0. TypeOK /\ Alone
  BY DEF Inv
<1>1. kind \in {"migrate", "rebuild", "clear"}
  BY KindAssumption
<1>2. PICK w : w = IF kind = "migrate" THEN tested ELSE NoDim
  OBVIOUS
<1>3. w \in Width /\ (kind = "migrate" => w \in Dims)
  BY <1>0, <1>2 DEF Request, TypeOK, Width
<1>4. PICK pc : pc = FirstStep[kind]
  OBVIOUS
<1>5. /\ kind = "migrate" => pc = "lock"
      /\ kind = "rebuild" => pc = "probe"
      /\ kind = "clear" => pc = "list"
  BY <1>4 DEF FirstStep
<1>6. PICK h : h = [NoTask EXCEPT !.kind = kind, !.pc = pc, !.target = w]
  OBVIOUS
<1>7. h \in Task /\ h.kind = kind /\ h.pc = pc /\ h.target = w
  BY <1>1, <1>3, <1>5, <1>6 DEF NoTask, Task, Width
<1>8. task' = [task EXCEPT ![a] = h]
  BY <1>2, <1>4, <1>6 DEF Request
<1>9. task'[a] = h /\ \A b \in Threads \ {a} : task'[b] = task[b]
  BY <1>0, <1>8 DEF TypeOK
<1>10. Webbed'
  BY <1>0, <1>1, <1>7, <1>9 DEF Alone, Webbed, Request
<1>11. Separate'
  <2>1. ~Beside(kind)
    BY DEF Request, Apart
  <2> QED
    BY <1>0, <1>1, <1>7, <1>9, <2>1 DEF Alone, Separate, Beside
<1>12. \A b \in Threads : Holds(b)' => Holds(b)
  BY <1>5, <1>7, <1>9 DEF Holds
<1>13. Barrier'
  BY <1>0, <1>12 DEF Alone, Barrier, Request, sqlite
<1>14. Formed(h) /\ (h.kind = "migrate" => Planned(h)') /\ h.pc \notin {"compare", "delete", "upsert"}
  BY <1>1, <1>3, <1>5, <1>7 DEF Formed, Planned
<1>15. count' \in Count
  BY <1>0, BoundAssumption DEF Request, TypeOK, Count
<1>16. UNCHANGED <<status, width, job, model, tested, saving, worker, locked, held, web, lock>>
  BY DEF Request, sqlite, chroma, settings
<1>17. web' \in {"up", "starting", "down"} /\ lock' \in {"free", "live", "aged"}
  BY <1>0, <1>16 DEF TypeOK
<1> QED
  BY <1>7, <1>8, <1>10, <1>11, <1>13, <1>14, <1>15, <1>16, <1>17, TaskShrinks

\* The steps of a migration before it swaps the collection, and its last one.
LEMMA LockHolds ==
  ASSUME Inv, NEW a \in Threads, AcquireLock(a)
  PROVE  Inv'
<1>0. TypeOK /\ Alone
  BY DEF Inv
<1>1. UNCHANGED <<status, width, job, model, tested, saving, worker, locked, held, web, count>>
  BY DEF AcquireLock, sqlite, chroma, settings
<1>2. web' \in {"up", "starting", "down"} /\ count' \in Count /\ held' \subseteq held
  BY <1>0, <1>1 DEF TypeOK
<1>3. CASE task' = [task EXCEPT ![a] = NoTask] /\ UNCHANGED lock
  <2>1. Webbed' /\ Separate' /\ Barrier'
    BY <1>1, <1>3, NoTaskIs, SameKind
  <2>2. Formed(NoTask) /\ lock' \in {"free", "live", "aged"}
    BY <1>0, <1>3, NoTaskIs DEF Formed, TypeOK
  <2> QED
    BY <1>1, <1>2, <1>3, <2>1, <2>2, NoTaskIs, TaskShrinks
<1>4. CASE /\ lock # "live" /\ \A s \in Sources : job[s] # "running"
           /\ lock' = "live" /\ Goto(a, "plan")
  <2>1. PICK h : h = [task[a] EXCEPT !.pc = "plan"]
    OBVIOUS
  <2>2. h \in Task /\ h.kind = task[a].kind /\ h.pc = "plan" /\ h.target = task[a].target
    BY <1>0, <2>1 DEF TypeOK, Task
  <2>3. task' = [task EXCEPT ![a] = h]
    BY <1>0, <1>4, <2>1 DEF Goto, TypeOK
  <2>4. task'[a] = h /\ \A b \in Threads \ {a} : task'[b] = task[b]
    BY <1>0, <2>3 DEF TypeOK
  <2>5. task[a].kind = "migrate"
    <3>1. task[a].pc = "lock" /\ Formed(task[a]) /\ task[a].kind \in {"none", "migrate", "rebuild", "clear", "startup"}
      BY <1>0 DEF AcquireLock, Alone, TypeOK, Task
    <3> QED
      BY <3>1 DEF Formed
  <2>6. Webbed' /\ Separate'
    BY <1>0, <1>1, <2>2, <2>4 DEF Alone, Webbed, Separate
  <2>7. \A b \in Threads : Holds(b)' => b = a
    BY <1>0, <1>4, <2>4 DEF Holds, Alone, Barrier
  <2>8. Barrier'
    BY <1>1, <1>4, <2>7 DEF Barrier
  <2>9. Formed(h) /\ Planned(h)'
    BY <1>0, <2>2, <2>5 DEF Alone, Formed, Planned
  <2> QED
    BY <1>1, <1>2, <1>4, <2>2, <2>3, <2>6, <2>8, <2>9, TaskShrinks
<1> QED
  BY <1>3, <1>4 DEF AcquireLock

\* A step of a task only, which keeps its kind and goes on.
LEMMA TaskOnly ==
  ASSUME Inv, NEW a \in Threads, NEW h \in Task, task' = [task EXCEPT ![a] = h],
         UNCHANGED <<status, width, job, model, tested, saving, worker, locked, web, count, lock>>,
         held' \subseteq held, h.kind = task[a].kind \/ h.kind = "none",
         h.kind = "migrate" => h.pc # "lock" /\ task[a].pc # "lock",
         Formed(h), h.kind = "migrate" => Planned(h)',
         h.pc \in {"compare", "delete", "upsert"} => \A v \in h.listed : status[v[1]] # "stale_embedding"
  PROVE  Inv'
<1>1. TypeOK
  BY DEF Inv
<1>2. count' \in Count /\ web' \in {"up", "starting", "down"} /\ lock' \in {"free", "live", "aged"}
  BY <1>1 DEF TypeOK
<1>3. Webbed' /\ Separate' /\ Barrier'
  BY SameKind
<1> QED
  BY <1>2, <1>3, TaskShrinks

\* Which task is at a step that only one kind has.
LEMMA KindAt ==
  ASSUME Inv, NEW a \in Threads
  PROVE  /\ task[a] \in Task /\ Formed(task[a])
         /\ task[a].pc \in {"lock", "plan", "reset", "apply", "release"} => task[a].kind = "migrate"
         /\ task[a].pc \in {"compare", "delete"} => task[a].kind = "startup"
         /\ task[a].pc = "remove" => task[a].kind = "clear"
         /\ task[a].pc \in {"probe", "upsert"} => task[a].kind \in {"migrate", "rebuild", "startup"}
<1>1. task[a] \in Task /\ Formed(task[a])
  BY DEF Inv, TypeOK, Alone
<1>2. task[a].kind \in {"none", "migrate", "rebuild", "clear", "startup"}
  BY <1>1 DEF Task
<1> QED
  BY <1>1, <1>2 DEF Formed

LEMMA PlanHolds ==
  ASSUME Inv, NEW a \in Threads, Plan(a)
  PROVE  Inv'
<1> DEFINE w == task[a].target
<1>0. TypeOK /\ task[a] \in Task /\ Formed(task[a]) /\ task[a].kind = "migrate"
  BY KindAt DEF Inv, Plan
<1>1. UNCHANGED <<status, width, job, model, tested, saving, worker, locked, held, web, count, lock>>
  BY DEF Plan, sqlite, chroma, settings
<1>2. PICK h : h = [task[a] EXCEPT !.pc = "reset", !.stale = Stale(w), !.recovered = Recovered(w)]
  OBVIOUS
<1>3. Stale(w) \in SUBSET Sources /\ Recovered(w) \in SUBSET Sources
  BY DEF Stale, Recovered
<1>4. h \in Task /\ h.kind = "migrate" /\ h.pc = "reset" /\ h.target = w
      /\ h.stale = Stale(w) /\ h.recovered = Recovered(w)
  BY <1>0, <1>2, <1>3 DEF Task
<1>5. task' = [task EXCEPT ![a] = h]
  BY <1>0, <1>2 DEF Plan, TypeOK
<1>6. Planned(h)'
  BY <1>1, <1>4 DEF Planned, Stale, Recovered
<1>7. Formed(h)
  BY <1>0, <1>4 DEF Formed
<1> QED
  BY <1>0, <1>1, <1>4, <1>5, <1>6, <1>7, TaskOnly DEF Plan

LEMMA ResetHolds ==
  ASSUME Inv, NEW a \in Threads, Reset(a)
  PROVE  Inv'
<1>0. TypeOK /\ Alone /\ task[a] \in Task /\ Formed(task[a]) /\ task[a].kind = "migrate"
  BY KindAt DEF Inv, Reset
<1>1. UNCHANGED <<status, width, job, model, tested, saving, worker, web, count, lock>>
      /\ held' = {} /\ locked' = NoDim
  BY DEF Reset, sqlite, settings
<1>2. PICK h : h = [task[a] EXCEPT !.pc = "apply"]
  OBVIOUS
<1>4. h \in Task /\ h.kind = "migrate" /\ h.pc = "apply" /\ h.target = task[a].target
      /\ h.stale = task[a].stale /\ h.recovered = task[a].recovered
  BY <1>0, <1>2 DEF Task
<1>5. task' = [task EXCEPT ![a] = h]
  BY <1>0, <1>2 DEF Reset, Goto, TypeOK
<1>6. Planned(h)'
  BY <1>0, <1>1, <1>4 DEF Planned, Inv, Reset
<1>7. Formed(h)
  BY <1>0, <1>4 DEF Formed
<1>8. \A b \in Threads \ {a} : task[b].kind = "migrate" => task[b].pc = "lock"
  BY <1>0 DEF Alone, Barrier, Holds, Reset
<1>9. \A b \in Threads \ {a} : task[b].kind = "migrate" => Planned(task[b])'
  <2>1. \A b \in Threads \ {a} : task'[b] = task[b]
    BY <1>0, <1>5 DEF TypeOK
  <2> QED
    BY <1>8, <2>1 DEF Planned
<1>10. Webbed' /\ Separate' /\ Barrier'
  BY <1>0, <1>1, <1>4, <1>5, SameKind DEF Reset
<1>11. StaleIsUnsearchable' /\ held' \subseteq Vector /\ locked' \in Width /\ \A v \in held' : v[2] = locked'
  BY <1>1 DEF StaleIsUnsearchable, Width
<1>12. count' \in Count /\ web' \in {"up", "starting", "down"} /\ lock' \in {"free", "live", "aged"}
  BY <1>0, <1>1 DEF TypeOK
<1> QED
  BY <1>1, <1>4, <1>5, <1>6, <1>7, <1>9, <1>10, <1>11, <1>12, TaskHolds

\* What makes a source stale, when the collection is empty and nothing is listed.
LEMMA ApplyHolds ==
  ASSUME Inv, NEW a \in Threads, Apply(a)
  PROVE  Inv'
<1>0. TypeOK /\ Alone /\ Listed /\ task[a] \in Task /\ Formed(task[a]) /\ task[a].kind = "migrate"
      /\ Planned(task[a]) /\ task[a].pc = "apply"
  BY KindAt DEF Inv, Apply
<1>1. UNCHANGED <<width, job, model, tested, saving, worker, held, locked, web, count, lock>>
  BY DEF Apply, chroma, settings
<1>2. PICK h : h = [task[a] EXCEPT !.pc = "probe"]
  OBVIOUS
<1>3. h \in Task /\ h.kind = "migrate" /\ h.pc = "probe" /\ h.target = task[a].target /\ h.target \in Dims
  BY <1>0, <1>2 DEF Task, Formed
<1>4. task' = [task EXCEPT ![a] = h]
  BY <1>0, <1>2 DEF Apply, Goto, TypeOK
<1>5. task' \in [Threads -> Task] /\ task'[a] = h /\ \A b \in Threads \ {a} : task'[b] = task[b]
  BY <1>0, <1>3, <1>4 DEF TypeOK
<1>6. held = {} /\ held' = {}
  BY <1>0, <1>1 DEF Planned
<1>7. \A s \in Sources : status'[s] = IF s \in task[a].stale THEN "stale_embedding"
                                      ELSE IF s \in task[a].recovered THEN "indexed" ELSE status[s]
  BY DEF Apply
<1>8. status' \in [Sources -> Status]
  <2>1. \A s \in Sources : status'[s] \in Status
    BY <1>0, <1>7 DEF TypeOK, Status
  <2> QED
    BY <2>1 DEF Apply
<1>9. \A s \in Sources : status'[s] = "indexed" => width[s] = h.target
  BY <1>0, <1>3, <1>7 DEF Planned
<1>10. \A s \in Sources : status'[s] \in {"indexed", "refused"} => width[s] # NoDim
  <2> SUFFICES ASSUME NEW s \in Sources, status'[s] \in {"indexed", "refused"} PROVE width[s] # NoDim
    OBVIOUS
  <2>1. CASE status'[s] = "indexed"
    BY <1>3, <1>9, <2>1, DimAssumption
  <2>2. CASE status'[s] = "refused"
    <3>1. status[s] = "refused"
      BY <1>7, <2>2
    <3> QED
      BY <1>0, <3>1 DEF TypeOK
  <2> QED
    BY <2>1, <2>2
<1>11. TypeOK'
  BY <1>0, <1>1, <1>5, <1>8, <1>10 DEF TypeOK
<1>12. Webbed' /\ Separate' /\ Barrier'
  BY <1>0, <1>1, <1>3, <1>4, SameKind
\* The holder of the lock is alone.
<1>13. /\ worker.pc = "idle"
       /\ \A b \in Threads \ {a} : task[b].kind = "migrate" => task[b].pc = "lock"
       /\ \A b \in Threads : task[b].pc \notin {"compare", "delete", "upsert"}
  <2>1. worker.pc = "idle" /\ \A b \in Threads \ {a} : task[b].kind = "migrate" => task[b].pc = "lock"
    BY <1>0 DEF Alone, Barrier, Holds, Working
  <2>2. web = "up"
    BY <1>0 DEF Alone, Webbed, TypeOK
  <2>3. ASSUME NEW b \in Threads, task[b].pc \in {"compare", "delete", "upsert"} PROVE FALSE
    <3>1. task[b].kind \in {"migrate", "rebuild", "startup"}
      BY <2>3, KindAt
    <3>2. task[b].kind # "startup" /\ task[b].kind # "rebuild"
      BY <1>0, <2>2 DEF Alone, Webbed, Separate
    <3>3. b # a
      BY <1>0, <2>3
    <3> QED
      BY <2>1, <2>3, <3>1, <3>2, <3>3
  <2> QED
    BY <2>1, <2>3
<1>14. Working'
  BY <1>1, <1>13 DEF Working
<1>15. Listed'
  BY <1>3, <1>5, <1>13 DEF Listed
<1>16. StaleIsUnsearchable'
  BY <1>6 DEF StaleIsUnsearchable
<1>17. \A b \in Threads : Formed(task'[b])
  BY <1>0, <1>3, <1>5 DEF Alone, Formed
<1>18. ASSUME NEW b \in Threads, task'[b].kind = "migrate" PROVE Planned(task[b])'
  <2>1. CASE b = a
    BY <1>0, <1>1, <1>3, <1>5, <1>9, <2>1 DEF Planned
  <2>2. CASE b # a
    BY <1>5, <1>13, <1>18, <2>2 DEF Planned
  <2> QED
    BY <2>1, <2>2
<1> QED
  BY <1>11, <1>12, <1>14, <1>15, <1>16, <1>17, <1>18 DEF Inv, Alone

LEMMA ReleaseHolds ==
  ASSUME Inv, NEW a \in Threads, Release(a)
  PROVE  Inv'
<1>0. TypeOK /\ Alone /\ task[a].kind = "migrate" /\ task[a].pc = "release"
  BY KindAt DEF Inv, Release
<1>1. /\ UNCHANGED <<status, width, job, model, tested, saving, worker, locked, held, web, count>>
      /\ task' = [task EXCEPT ![a] = NoTask] /\ lock' = "free"
  BY DEF Release, sqlite, chroma, settings
<1>2. task'[a] = NoTask /\ \A b \in Threads \ {a} : task'[b] = task[b]
  BY <1>0, <1>1 DEF TypeOK
<1>3. \A b \in Threads : ~Holds(b)'
  BY <1>0, <1>2, NoTaskIs DEF Alone, Barrier, Holds
<1>4. Barrier'
  BY <1>3 DEF Barrier
<1>5. Webbed' /\ Separate' /\ Formed(NoTask)
  BY <1>0, <1>1, <1>2, NoTaskIs DEF Alone, Webbed, Separate, Formed
<1>6. count' \in Count /\ web' \in {"up", "starting", "down"} /\ lock' \in {"free", "live", "aged"}
  BY <1>0, <1>1 DEF TypeOK
<1> QED
  BY <1>1, <1>4, <1>5, <1>6, NoTaskIs, TaskShrinks

\* The clearing of the index.
LEMMA ClearHolds ==
  ASSUME Inv, NEW a \in Threads, ListVectors(a) \/ RemoveVectors(a)
  PROVE  Inv'
<1>0. TypeOK /\ task[a] \in Task /\ Formed(task[a])
  BY KindAt DEF Inv
<1>1. UNCHANGED <<status, width, job, model, tested, saving, worker, locked, web, count, lock>>
  BY DEF ListVectors, RemoveVectors, sqlite, chroma, settings
<1>2. CASE ListVectors(a)
  <2>1. PICK h : h = [task[a] EXCEPT !.pc = "remove", !.listed = held]
    OBVIOUS
  <2>2. h \in Task /\ h.kind = "clear" /\ h.pc = "remove"
    BY <1>0, <1>2, <2>1 DEF Task, TypeOK, ListVectors
  <2>3. task' = [task EXCEPT ![a] = h] /\ held' = held
    BY <1>0, <1>2, <2>1 DEF ListVectors, TypeOK, chroma
  <2>4. Formed(h)
    BY <2>2 DEF Formed
  <2> QED
    BY <1>1, <1>2, <2>2, <2>3, <2>4, TaskOnly DEF ListVectors
<1>3. CASE RemoveVectors(a)
  <2>1. task' = [task EXCEPT ![a] = NoTask] /\ held' \subseteq held
    BY <1>3 DEF RemoveVectors
  <2>2. Formed(NoTask)
    BY NoTaskIs DEF Formed
  <2> QED
    BY <1>1, <2>1, <2>2, NoTaskIs, TaskOnly
<1> QED
  BY <1>2, <1>3

\* A sync reads the width and the rows.
LEMMA SyncReads ==
  ASSUME Inv, NEW a \in Threads, SyncProbe(a) \/ SyncList(a)
  PROVE  Inv'
<1>0. TypeOK /\ Listed /\ task[a] \in Task /\ Formed(task[a])
  BY KindAt DEF Inv
<1>1. UNCHANGED <<status, width, job, model, tested, saving, worker, held, locked, web, count, lock>>
  BY DEF SyncProbe, SyncList, sqlite, chroma, settings
<1>2. task[a].kind = "migrate" => Planned(task[a])
  BY DEF Inv
<1>3. CASE SyncProbe(a)
  <2>1. PICK w : w = IF Probe = NoDim THEN task[a].target ELSE Probe
    OBVIOUS
  <2>2. w \in Width
    BY <1>0, <2>1 DEF Probe, TypeOK, Task
  <2>3. task[a].kind = "migrate" => w = task[a].target
    <3>1. CASE held = {}
      BY <2>1, <3>1 DEF Probe
    <3>2. CASE held # {} /\ task[a].kind = "migrate"
      <4>1. PICK v \in held : v[2] = locked /\ v[2] \in Dims
        BY <1>0, <3>2 DEF TypeOK, Vector
      <4>2. locked = task[a].target
        BY <1>2, <1>3, <3>2, <4>1, DimAssumption DEF Planned, SyncProbe
      <4> QED
        BY <2>1, <4>2 DEF Probe
    <3> QED
      BY <3>1, <3>2
  <2>4. PICK h : h = [task[a] EXCEPT !.pc = "list", !.sync = w]
    OBVIOUS
  <2>5. h \in Task /\ h.kind = task[a].kind /\ h.pc = "list" /\ h.sync = w /\ h.target = task[a].target
    BY <1>0, <2>2, <2>4 DEF Task
  <2>6. task' = [task EXCEPT ![a] = h]
    BY <1>0, <1>3, <2>1, <2>4 DEF SyncProbe, TypeOK
  <2>7. Formed(h)
    BY <1>0, <1>3, <2>5, KindAt DEF Formed, SyncProbe
  <2>8. h.kind = "migrate" => Planned(h)'
    BY <1>1, <1>2, <1>3, <2>3, <2>5 DEF Planned, SyncProbe
  <2> QED
    BY <1>1, <1>3, <2>5, <2>6, <2>7, <2>8, TaskOnly DEF SyncProbe
<1>4. CASE SyncList(a)
  <2>1. PICK pc \in {"compare", "upsert"} : pc = IF task[a].kind = "startup" THEN "compare" ELSE "upsert"
    OBVIOUS
  <2>2. \A v \in Indexed : v \in Vector /\ status[v[1]] = "indexed"
    BY <1>0, DimAssumption DEF Indexed, TypeOK, Vector, Width
  <2>3. \A s \in Sources : status[s] = "indexed" => <<s, width[s]>> \in Indexed
    BY DEF Indexed
  <2>4. PICK h : h = [task[a] EXCEPT !.pc = pc, !.listed = Indexed]
    OBVIOUS
  <2>5. Indexed \in SUBSET Vector
    BY <2>2
  <2>6. h \in Task /\ h.kind = task[a].kind /\ h.pc = pc /\ h.sync = task[a].sync /\ h.target = task[a].target
        /\ h.listed = Indexed
    BY <1>0, <2>1, <2>4, <2>5 DEF Task
  <2>7. task' = [task EXCEPT ![a] = h]
    BY <1>0, <1>4, <2>1, <2>4 DEF SyncList, TypeOK
  <2>8. task[a].kind \in {"migrate", "rebuild", "startup"}
    BY <1>0, <1>4 DEF SyncList, Task, Formed
  <2>9. Formed(h)
    BY <1>0, <2>1, <2>6, <2>8 DEF Formed
  <2>10. h.kind = "migrate" => Planned(h)'
    BY <1>1, <1>2, <1>4, <2>1, <2>3, <2>6 DEF Planned, SyncList
  <2> QED
    BY <1>1, <1>4, <2>1, <2>2, <2>6, <2>7, <2>9, <2>10, TaskOnly DEF SyncList
<1> QED
  BY <1>3, <1>4

\* The startup's sync compares and deletes what Chroma has too much.
LEMMA SyncDiffers ==
  ASSUME Inv, NEW a \in Threads, SyncCompare(a) \/ SyncDelete(a)
  PROVE  Inv'
<1>0. TypeOK /\ Listed /\ task[a] \in Task /\ Formed(task[a]) /\ task[a].kind = "startup"
  BY KindAt DEF Inv, SyncCompare, SyncDelete
<1>1. UNCHANGED <<status, width, job, model, tested, saving, worker, locked, web, count, lock>>
  BY DEF SyncCompare, SyncDelete, sqlite, chroma, settings
<1>2. CASE SyncCompare(a)
  <2>1. PICK l : l = {v \in task[a].listed \ held : width[v[1]] = v[2]}
    OBVIOUS
  <2>2. PICK o : o = held \ task[a].listed
    OBVIOUS
  <2>3. l \in SUBSET Vector /\ o \in SUBSET Vector /\ l \subseteq task[a].listed
    BY <1>0, <2>1, <2>2 DEF TypeOK, Task
  <2>4. PICK h : h = [task[a] EXCEPT !.pc = "delete", !.listed = l, !.orphans = o]
    OBVIOUS
  <2>5. h \in Task /\ h.kind = "startup" /\ h.pc = "delete" /\ h.listed = l
    BY <1>0, <2>3, <2>4 DEF Task
  <2>6. task' = [task EXCEPT ![a] = h] /\ held' = held
    BY <1>0, <1>2, <2>1, <2>2, <2>4 DEF SyncCompare, TypeOK, chroma
  <2>7. Formed(h)
    BY <2>5 DEF Formed
  <2>8. \A v \in h.listed : status[v[1]] # "stale_embedding"
    BY <1>0, <1>2, <2>3, <2>5 DEF Listed, SyncCompare
  <2> QED
    BY <1>0, <1>1, <2>5, <2>6, <2>7, <2>8, TaskOnly
<1>3. CASE SyncDelete(a)
  <2>1. PICK h : h = [task[a] EXCEPT !.pc = "upsert"]
    OBVIOUS
  <2>2. h \in Task /\ h.kind = "startup" /\ h.pc = "upsert" /\ h.listed = task[a].listed
    BY <1>0, <2>1 DEF Task
  <2>3. task' = [task EXCEPT ![a] = h] /\ held' \subseteq held
    BY <1>0, <1>3, <2>1 DEF SyncDelete, Goto, TypeOK
  <2>4. Formed(h)
    BY <2>2 DEF Formed
  <2>5. \A v \in h.listed : status[v[1]] # "stale_embedding"
    BY <1>0, <1>3, <2>2 DEF Listed, SyncDelete
  <2> QED
    BY <1>0, <1>1, <2>2, <2>3, <2>4, <2>5, TaskOnly
<1> QED
  BY <1>2, <1>3

\* What a sync stores: the rows of the width that decides. A migration stores the rows
\* of its target.
LEMMA RowsStored ==
  ASSUME Inv, NEW a \in Threads, task[a].pc = "upsert", NEW w \in Deciding(a)
  PROVE  /\ w \in Width /\ FittingRows(a, w) \in SUBSET Vector /\ \A v \in FittingRows(a, w) : v[2] = w
         /\ \A v \in FittingRows(a, w) : status[v[1]] # "stale_embedding"
         /\ task[a].kind = "migrate" =>
              /\ w = task[a].target
              /\ \A s \in Sources : status[s] = "indexed" => <<s, width[s]>> \in FittingRows(a, w)
<1>0. TypeOK /\ Listed /\ task[a] \in Task /\ Formed(task[a])
  BY KindAt DEF Inv
<1>1. task[a].listed \subseteq Vector /\ task[a].sync \in Width
  BY <1>0 DEF Task
<1>2. w \in Width
  BY <1>1 DEF Deciding, Vector, Width
<1>3. ASSUME task[a].kind = "migrate"
      PROVE  /\ w = task[a].target
             /\ \A s \in Sources : status[s] = "indexed" => <<s, width[s]>> \in FittingRows(a, w)
  <2>1. Planned(task[a]) /\ task[a].target \in Dims
    BY <1>0, <1>3 DEF Inv, Formed
  <2>2. w = task[a].target
    BY <2>1, DimAssumption DEF Planned, Deciding
  <2> QED
    BY <2>1, <2>2 DEF Planned, FittingRows
<1> QED
  BY <1>0, <1>1, <1>2, <1>3 DEF FittingRows, Listed

LEMMA SyncHolds ==
  ASSUME Inv, NEW a \in Threads, SyncUpsert(a)
  PROVE  Inv'
<1>0. TypeOK /\ Alone /\ task[a] \in Task /\ Formed(task[a]) /\ StaleIsUnsearchable
      /\ task[a].kind \in {"migrate", "rebuild", "startup"} /\ task[a].pc = "upsert"
  BY KindAt DEF Inv, SyncUpsert
<1>1. UNCHANGED <<status, width, job, model, tested, saving, worker, count, lock>>
  BY DEF SyncUpsert, sqlite, settings
<1>2. PICK w \in Deciding(a) :
        /\ IF Accepts(FittingRows(a, w)) THEN Put(FittingRows(a, w)) ELSE UNCHANGED chroma
        /\ task' = [task EXCEPT ![a] = IF @.kind = "migrate"
                                       THEN [@ EXCEPT !.pc = "release", !.ok = Accepts(FittingRows(a, w))]
                                       ELSE NoTask]
        /\ web' = IF task[a].kind # "startup" THEN web
                  ELSE IF Accepts(FittingRows(a, w)) THEN "up" ELSE "down"
  BY DEF SyncUpsert
<1>3. PICK rows : rows = FittingRows(a, w)
  OBVIOUS
<1>4. /\ w \in Width /\ rows \in SUBSET Vector /\ \A v \in rows : v[2] = w /\ status[v[1]] # "stale_embedding"
      /\ task[a].kind = "migrate" => w = task[a].target
  BY <1>0, <1>2, <1>3, RowsStored
<1>5. /\ held' \subseteq Vector /\ locked' \in Width /\ \A v \in held' : v[2] = locked'
      /\ held' \subseteq held \cup rows
      /\ (locked' = locked /\ held' = held) \/ locked' = w
  <2>1. CASE Accepts(rows)
    BY <1>0, <1>2, <1>3, <1>4, <2>1, PutHolds DEF Put
  <2>2. CASE ~Accepts(rows)
    BY <1>0, <1>2, <1>3, <2>2 DEF chroma, TypeOK
  <2> QED
    BY <2>1, <2>2
<1>6. StaleIsUnsearchable'
  BY <1>0, <1>1, <1>4, <1>5 DEF StaleIsUnsearchable
<1>7. count' \in Count /\ web' \in {"up", "starting", "down"} /\ lock' \in {"free", "live", "aged"}
  BY <1>0, <1>1, <1>2 DEF TypeOK
\* Beside a migration that has applied its plan, no other task stores anything.
<1>8. \A b \in Threads \ {a} : task[b].kind = "migrate" => task[b].pc = "lock" \/ task[a].kind # "migrate"
  BY <1>0 DEF Alone, Barrier, Holds
<1>9. \A b \in Threads \ {a} : task[b].kind = "migrate" => task[b].pc = "lock"
  <2>1. CASE task[a].kind = "migrate"
    BY <1>8, <2>1
  <2>2. CASE task[a].kind = "rebuild"
    BY <1>0, <2>2 DEF Alone, Separate
  <2>3. CASE task[a].kind = "startup"
    BY <1>0, <2>3 DEF Alone, Webbed, TypeOK
  <2> QED
    BY <1>0, <2>1, <2>2, <2>3
<1>10. ASSUME NEW h \in Task, task' = [task EXCEPT ![a] = h], h.kind = task[a].kind \/ h.kind = "none",
              h.kind = "migrate" => h.pc = "release" /\ h.target = task[a].target,
              h.kind = "startup" => FALSE, h.pc \in {"release", "idle"}, Formed(h), Webbed',
              h.kind = "migrate" => Planned(h)'
       PROVE  Inv'
  <2>1. task'[a] = h /\ \A b \in Threads \ {a} : task'[b] = task[b]
    BY <1>0, <1>10 DEF TypeOK
  <2>2. Separate'
    BY <1>0, <1>10, <2>1 DEF Alone, Separate
  <2>3. \A b \in Threads : Holds(b)' => Holds(b)
    BY <1>0, <1>10, <2>1 DEF Holds
  <2>4. Barrier'
    BY <1>0, <1>1, <2>3 DEF Alone, Barrier
  <2>5. \A b \in Threads \ {a} : task[b].kind = "migrate" => Planned(task[b])'
    BY <1>9, <2>1 DEF Planned
  <2> QED
    BY <1>1, <1>5, <1>6, <1>7, <1>10, <2>2, <2>4, <2>5, TaskHolds
<1>11. CASE task[a].kind = "migrate"
  <2>1. PICK b \in BOOLEAN : b = Accepts(FittingRows(a, w))
    BY DEF Accepts
  <2>2. PICK h : h = [task[a] EXCEPT !.pc = "release", !.ok = b]
    OBVIOUS
  <2>3. h \in Task /\ h.kind = "migrate" /\ h.pc = "release" /\ h.target = task[a].target
    BY <1>0, <1>11, <2>2 DEF Task
  <2>4. task' = [task EXCEPT ![a] = h]
    BY <1>0, <1>2, <1>11, <2>1, <2>2 DEF TypeOK
  <2>5. Formed(h)
    BY <1>0, <1>11, <2>3 DEF Formed
  <2>6. web' = web
    BY <1>2, <1>11
  <2>7. Webbed'
    <3>1. \A c \in Threads : task'[c].kind = task[c].kind
      BY <1>0, <1>11, <2>3, <2>4 DEF TypeOK
    <3> QED
      BY <1>0, <2>6, <3>1 DEF Alone, Webbed
  <2>8. Planned(h)'
    <3>1. Planned(task[a])
      BY <1>11 DEF Inv
    <3> QED
      BY <1>0, <1>1, <1>4, <1>5, <1>11, <2>3, <3>1 DEF Planned
  <2> QED
    BY <1>10, <1>11, <2>3, <2>4, <2>5, <2>7, <2>8
<1>12. CASE task[a].kind # "migrate"
  <2>1. task' = [task EXCEPT ![a] = NoTask]
    BY <1>0, <1>2, <1>12 DEF TypeOK
  <2>2. Formed(NoTask)
    BY NoTaskIs DEF Formed
  <2>3. Webbed'
    <3>1. task'[a].kind = "none" /\ \A c \in Threads \ {a} : task'[c] = task[c]
      BY <1>0, <2>1, NoTaskIs DEF TypeOK
    <3>2. CASE task[a].kind = "rebuild"
      BY <1>0, <1>2, <3>1, <3>2 DEF Alone, Webbed
    <3>3. CASE task[a].kind = "startup"
      <4>1. web = "starting"
        BY <1>0, <3>3 DEF Alone, Webbed, TypeOK
      <4> QED
        BY <1>0, <1>2, <3>1, <3>3, <4>1 DEF Alone, Webbed
    <3> QED
      BY <1>0, <1>12, <3>2, <3>3
  <2> QED
    BY <1>10, <2>1, <2>2, <2>3, NoTaskIs
<1> QED
  BY <1>11, <1>12

\* The life of the web process, and of a lock.
LEMMA LifeHolds ==
  ASSUME Inv, Crash \/ (\E a \in Threads : Start(a)) \/ Age
  PROVE  Inv'
<1>0. TypeOK /\ Alone /\ Listed /\ StaleIsUnsearchable
  BY DEF Inv
<1>1. UNCHANGED <<status, width, job, held, locked, model, tested, worker>>
  BY DEF Crash, Start, Age, sqlite, chroma, settings
<1>2. Working' /\ StaleIsUnsearchable'
  BY <1>0, <1>1 DEF Alone, Working, StaleIsUnsearchable
<1>3. CASE Crash
  <2>1. task' = [a \in Threads |-> NoTask] /\ \A a \in Threads : task'[a] = NoTask
    BY <1>3 DEF Crash
  <2>2. TypeOK'
    <3>1. count' \in Count
      BY <1>0, <1>3, BoundAssumption DEF Crash, TypeOK, Count
    <3>2. task' \in [Threads -> Task] /\ saving' = NoDim /\ web' = "down" /\ lock' = lock
      BY <1>3, <2>1, NoTaskIs DEF Crash
    <3> QED
      BY <1>0, <1>1, <3>1, <3>2 DEF TypeOK, Width
  <2>3. Webbed' /\ Separate' /\ Barrier' /\ \A a \in Threads : Formed(task'[a])
    BY <1>3, <2>1, NoTaskIs DEF Crash, Webbed, Separate, Barrier, Holds, Formed
  <2>4. Listed' /\ \A a \in Threads : task'[a].kind = "migrate" => Planned(task[a])'
    BY <2>1, NoTaskIs DEF Listed
  <2> QED
    BY <1>2, <2>2, <2>3, <2>4 DEF Inv, Alone
<1>4. ASSUME NEW a \in Threads, Start(a) PROVE Inv'
  <2>1. PICK h : h = [NoTask EXCEPT !.kind = "startup", !.pc = "probe"]
    OBVIOUS
  <2>2. h \in Task /\ h.kind = "startup" /\ h.pc = "probe"
    BY <2>1 DEF NoTask, Task, Width
  <2>3. task' = [task EXCEPT ![a] = h] /\ web' = "starting" /\ web = "down"
    BY <1>4, <2>1 DEF Start
  <2>4. task'[a] = h /\ \A b \in Threads \ {a} : task'[b] = task[b] /\ task[b].kind = "none"
    BY <1>0, <2>3 DEF TypeOK, Alone, Webbed
  <2>5. Webbed' /\ Separate' /\ Barrier'
    BY <2>2, <2>3, <2>4 DEF Webbed, Separate, Barrier, Holds
  <2>6. Formed(h)
    BY <2>2 DEF Formed
  <2>7. UNCHANGED <<saving, lock, count>>
    BY <1>4 DEF Start, settings
  <2>8. count' \in Count /\ lock' \in {"free", "live", "aged"}
    BY <1>0, <2>7 DEF TypeOK
  <2> QED
    BY <1>1, <2>2, <2>3, <2>5, <2>6, <2>7, <2>8, TaskShrinks
<1>5. CASE Age
  <2>1. UNCHANGED <<task, web, count, saving>> /\ lock' = "aged" /\ \A a \in Threads : ~Holds(a)
    BY <1>5 DEF Age, Holds, settings
  <2>2. TypeOK'
    BY <1>0, <1>1, <2>1 DEF TypeOK
  <2>3. Webbed' /\ Separate' /\ Barrier' /\ \A a \in Threads : Formed(task'[a])
    BY <1>0, <2>1 DEF Alone, Webbed, Separate, Barrier, Holds
  <2>4. Listed' /\ \A a \in Threads : task'[a].kind = "migrate" => Planned(task[a])'
    BY <1>0, <1>1, <2>1 DEF Inv, Listed, Planned
  <2> QED
    BY <1>2, <2>2, <2>3, <2>4 DEF Inv, Alone
<1> QED
  BY <1>3, <1>4, <1>5

-----------------------------------------------------------------------------
(* The theorems.                                                           *)

LEMMA InitHolds == Init => Inv
<1> SUFFICES ASSUME Init PROVE Inv
  OBVIOUS
<1>1. TypeOK
  <2>1. count \in Count
    BY BoundAssumption DEF Init, Count
  <2>2. worker \in Worker
    BY DEF Init, Resting, Worker, Width
  <2>3. task \in [Threads -> Task]
    BY NoTaskIs DEF Init
  <2> QED
    BY <2>1, <2>2, <2>3 DEF Init, TypeOK, Status, Width
<1>2. \A a \in Threads : task[a] = NoTask
  BY DEF Init
<1>3. Alone
  BY <1>2, NoTaskIs DEF Init, Alone, Formed, Webbed, Separate, Barrier, Holds, Working, Resting
<1>4. Listed /\ StaleIsUnsearchable /\ \A a \in Threads : task[a].kind = "migrate" => Planned(task[a])
  BY <1>2, NoTaskIs DEF Init, Listed, StaleIsUnsearchable
<1> QED
  BY <1>1, <1>3, <1>4 DEF Inv

LEMMA NextHolds ==
  ASSUME Apart, Inv, [Next]_vars
  PROVE  Inv'
<1>1. CASE UNCHANGED vars
  <2>1. UNCHANGED <<status, width, job, held, locked, lock, model, tested, saving, web, task, worker, count>>
    BY <1>1 DEF vars, sqlite, chroma, settings
  <2>2. TypeOK'
    BY <2>1 DEF Inv, TypeOK
  <2>3. Alone'
    BY <2>1 DEF Inv, Alone, Webbed, Separate, Barrier, Holds, Working
  <2> QED
    BY <2>1, <2>2, <2>3, Shrinks DEF Inv
<1>2. CASE \E s \in Sources : Reindex(s)
  BY <1>2, ReindexHolds
<1>3. CASE (\E w \in Dims : TestEmbedding(w) \/ CheckWidth(w)) \/ SaveSettings
  BY <1>3, SettingsHolds
<1>4. CASE Work
  BY <1>4, WorkHolds
<1>5. ASSUME NEW a \in Threads, Serve(a) PROVE Inv'
  <2>1. ASSUME NEW kind \in Kinds, Request(a, kind) PROVE Inv'
    BY <2>1, RequestHolds
  <2>2. CASE AcquireLock(a)
    BY <2>2, LockHolds
  <2>3. CASE Plan(a)
    BY <2>3, PlanHolds
  <2>4. CASE Reset(a)
    BY <2>4, ResetHolds
  <2>5. CASE Apply(a)
    BY <2>5, ApplyHolds
  <2>6. CASE Release(a)
    BY <2>6, ReleaseHolds
  <2>7. CASE ListVectors(a) \/ RemoveVectors(a)
    BY <2>7, ClearHolds
  <2>8. CASE SyncProbe(a) \/ SyncList(a)
    BY <2>8, SyncReads
  <2>9. CASE SyncCompare(a) \/ SyncDelete(a)
    BY <2>9, SyncDiffers
  <2>10. CASE SyncUpsert(a)
    BY <2>10, SyncHolds
  <2>11. CASE Start(a)
    BY <2>11, LifeHolds
  <2> QED
    BY <1>5, <2>1, <2>2, <2>3, <2>4, <2>5, <2>6, <2>7, <2>8, <2>9, <2>10, <2>11 DEF Serve
<1>6. CASE Crash \/ Age
  BY <1>6, LifeHolds
<1> QED
  BY <1>1, <1>2, <1>3, <1>4, <1>5, <1>6 DEF Next

\* Every reachable state of the syncs, when the domains' records differ: one
\* sync at a time, its list is of what the index held, and a source marked
\* stale is one no search can reach (vector_store.py, migrate and sync).
THEOREM InvHolds == ASSUME Apart PROVE Spec => []Inv
<1>1. Inv /\ [Next]_vars => Inv'
  BY NextHolds
<1> QED
  BY <1>1, InitHolds, PTL DEF Spec

\* The types, and with them what SQLite and Chroma promise: an indexed source has a
\* width, and every vector has its collection's.
THEOREM TypeCorrect == ASSUME Apart PROVE Spec => []TypeOK
<1>1. Inv => TypeOK
  BY DEF Inv
<1> QED
  BY <1>1, InvHolds, PTL

\* A migration that is over has left the collection at its target width or unlocked,
\* and every source that reads indexed at that width, whatever died before it and
\* whatever was asked for beside it, rebuilds excepted (app/index_migration.py
\* run_migration).
THEOREM TargetLeft == ASSUME Apart PROVE Spec => []MigrationLeavesTarget
<1>1. Inv => MigrationLeavesTarget
  <2> SUFFICES ASSUME Inv, NEW a \in Threads, task[a].pc = "release", task[a].ok
               PROVE  /\ locked \in {NoDim, task[a].target}
                      /\ \A s \in Sources : status[s] = "indexed" => width[s] = task[a].target
    BY DEF MigrationLeavesTarget
  <2>1. Planned(task[a])
    BY KindAt DEF Inv
  <2> QED
    BY <2>1 DEF Planned
<1> QED
  BY <1>1, InvHolds, PTL

\* No vector of a stale source is stored, so that none is found (app/index_migration.py
\* apply_source_states, app/vector_store.py sync_from_sqlite).
THEOREM StaleNeverFound == ASSUME Apart PROVE Spec => []StaleIsUnsearchable
<1>1. Inv => StaleIsUnsearchable
  BY DEF Inv
<1> QED
  BY <1>1, InvHolds, PTL

\* The sync that ends a migration stores the vector of every source that reads indexed
\* again, those an earlier migration left in between included (app/vector_store.py
\* sync_from_sqlite).
THEOREM VectorsRestored == ASSUME Apart PROVE Spec => MigrationRestores
<1>1. ASSUME Inv, [Next]_vars, NEW a \in Threads, task[a].pc = "upsert", task'[a].pc = "release", task'[a].ok
      PROVE  Indexed' \subseteq held'
  <2>1. task[a] \in Task /\ task[a].kind \in {"migrate", "rebuild", "startup"}
    BY <1>1, KindAt
  <2>2. SyncUpsert(a)
    <3>1. task \in [Threads -> Task]
      BY <1>1 DEF Inv, TypeOK
    <3>2. task' # task
      BY <1>1
    <3>3. ASSUME NEW b \in Threads, Serve(b) PROVE SyncUpsert(a)
      <4>1. CASE b = a
        <5>1. task[a].pc \notin {"idle", "lock", "plan", "reset", "apply", "release", "list", "remove", "probe",
                                 "compare", "delete"}
          BY <1>1
        <5>2. ~Start(a)
          <6> SUFFICES ASSUME Start(a) PROVE FALSE
            OBVIOUS
          <6>1. web = "down"
            BY DEF Start
          <6> QED
            BY <1>1, <2>1, <6>1 DEF Inv, Alone, Webbed
        <5> QED
          BY <3>3, <4>1, <5>1, <5>2 DEF Serve, Request, AcquireLock, Plan, Reset, Apply, Release, ListVectors,
                                        RemoveVectors, SyncProbe, SyncList, SyncCompare, SyncDelete
      <4>2. CASE b # a
        <5>1. task'[a] = task[a]
          BY <3>1, <3>3, <4>2 DEF Serve, Request, AcquireLock, Plan, Reset, Apply, Release, ListVectors,
                                  RemoveVectors, SyncProbe, SyncList, SyncCompare, SyncDelete, SyncUpsert,
                                  Start, Goto
        <5> QED
          BY <1>1, <5>1
      <4> QED
        BY <4>1, <4>2
    <3>4. ~Crash
      <4> SUFFICES ASSUME Crash PROVE FALSE
        OBVIOUS
      <4>1. task'[a] = NoTask
        BY DEF Crash
      <4> QED
        BY <1>1, <4>1, NoTaskIs
    <3>5. CASE \E b \in Threads : Serve(b)
      BY <3>3, <3>5
    <3>6. CASE ~\E b \in Threads : Serve(b)
      <4>1. UNCHANGED task
        BY <1>1, <3>4, <3>6 DEF Next, vars, Reindex, TestEmbedding, CheckWidth, SaveSettings, Work, Claim, Begin,
                                Unindex, Embed, Store, Upsert, Settle, Age
      <4> QED
        BY <3>2, <4>1
    <3> QED
      BY <3>5, <3>6
  <2>3. PICK w \in Deciding(a) :
          /\ IF Accepts(FittingRows(a, w)) THEN Put(FittingRows(a, w)) ELSE UNCHANGED chroma
          /\ task' = [task EXCEPT ![a] = IF @.kind = "migrate"
                                         THEN [@ EXCEPT !.pc = "release", !.ok = Accepts(FittingRows(a, w))]
                                         ELSE NoTask]
    BY <2>2 DEF SyncUpsert
  <2>4. task \in [Threads -> Task]
    BY <1>1 DEF Inv, TypeOK
  <2>5. task[a].kind = "migrate"
    <3>1. CASE task[a].kind # "migrate"
      <4>1. task'[a] = NoTask
        BY <2>3, <2>4, <3>1
      <4> QED
        BY <1>1, <4>1, NoTaskIs
    <3> QED
      BY <3>1
  <2>6. Accepts(FittingRows(a, w))
    <3>1. task'[a] = [task[a] EXCEPT !.pc = "release", !.ok = Accepts(FittingRows(a, w))]
      BY <2>3, <2>4, <2>5
    <3>2. task'[a].ok = Accepts(FittingRows(a, w))
      BY <2>1, <3>1 DEF Task
    <3> QED
      BY <1>1, <3>2
  <2>7. held' = held \cup FittingRows(a, w) /\ UNCHANGED <<status, width>>
    BY <2>2, <2>3, <2>6 DEF Put, SyncUpsert, sqlite
  <2>8. \A s \in Sources : status[s] = "indexed" => <<s, width[s]>> \in FittingRows(a, w)
    BY <1>1, <2>5, RowsStored
  <2>9. Indexed' = Indexed
    BY <2>7 DEF Indexed
  <2>10. Indexed \subseteq FittingRows(a, w)
    BY <2>8 DEF Indexed
  <2> QED
    BY <2>7, <2>9, <2>10
<1>2. Inv /\ [Next]_vars =>
        [\A a \in Threads : task[a].pc = "upsert" /\ task'[a].pc = "release" /\ task'[a].ok
           => Indexed' \subseteq held']_vars
  BY <1>1
<1> QED
  BY <1>2, InvHolds, PTL DEF Spec, MigrationRestores
=============================================================================
