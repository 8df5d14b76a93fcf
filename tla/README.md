# rag-notebook in TLA+

A verification project for rag-notebook, a NotebookLM-like question-answering
application: a FastAPI web server, a background ingest worker, one SQLite file
and one Chroma vector store. The modules here model what the program does where its correctness
depends on the order in which processes, threads, requests, crashes and errors
happen to meet, and the algorithms it relies on; TLC checks them on small
instances and TLAPS proves the results that hold for every instance.

Paths are relative to the repository: `app/jobs.py` is `src/app/jobs.py`.

## 1. The system

Usually two processes share a data directory: the web process
(`uvicorn app.main:app`) and an ingest worker (`python -m app.worker`). With
`NOTEBOOKLM_INLINE_WORKER=1`, the default, the worker is a task of the web
process instead. There may be several of either. They share nothing but files.

| Component | State | Operations | Interacts with |
|---|---|---|---|
| Ingest queue, `app/jobs.py` | `ingest_jobs`: one row per source, its status, attempts, claim time | enqueue, claim, mark done, requeue or fail | web handlers, worker loop, migration lock |
| Worker loop, `app/worker.py` | the job it holds | poll, run, report | queue, pipeline |
| Ingest pipeline, `app/ingest.py` | `sources.status`, `chunks`, the vectors | process_source: restart, unindex, extract and embed, store, upsert, summarise, record a failure | queue, Chroma, child process, LLM endpoint |
| Source and notebook handlers, `app/main.py` | `sources`, `notebooks` | upload, reindex, delete source, delete notebook | queue, Chroma |
| Vector index, `app/vector_store.py` | the collection; `vector_index_state.generation` and `write_seq`; per process a client, a handle and an index in memory | collection, upsert, delete, query, clear, reset, sync | every process |
| Dimension migration, `app/index_migration.py` | the lock in `vector_index_state`; `stale_embedding` | acquire, classify, swap, mark, restore, release | queue, vector index, settings, startup |
| LLM settings and diagnostics, `app/settings.py`, `app/llm.py` | `llm_settings`, with what tests measured of a connection | test a connection, save | migration target, width guard, every LLM request |
| LLM client, `app/llm.py` | none; a call's attempts and text | complete, stream, embed, probe | chat, studio, pipeline, evaluation; usage rows |
| Accounts and sessions, `app/main.py`, `app/admin.py`, `app/security.py` | `users`, `external_identities`, the signed cookie's password version | sign in, by password, proxy or OIDC; change password, promote, demote, delete | every request |
| Sign-in limiter, `app/main.py` | `login_rate_limits`, `login_verification_leases` | check, lease, count a failure, clear | web processes |
| Notebooks and chat, `app/main.py`, `app/feedback.py` | `notebooks`, `conversations`, `messages`, `notes`, `message_feedback`, `llm_usage_events` | ask, stream, pin, rate, rename, delete | retrieval, LLM client |
| Studio, `app/main.py` | `briefing_locks`, the cached briefing and suggestions | acquire with a timeout, generate, keep, release; run a tool | LLM client |
| Retrieval and query rewriting, `app/retrieval.py`, `app/llm.py` | the active profile, a module global per process | rewrite, embed, query, merge, rerank, fall back to SQLite | vector index, domain configuration, evaluation |
| Domain configuration, `app/domain_policy.py` | per notebook a policy, hints, one revision number | edit hints, edit the policy, freeze | retrieval, evaluation |
| Evaluation workbench, `app/evals.py` | `eval_sets`, `eval_items`, `eval_runs`, their results, `retrieval_profiles` | run, judge, compare, apply a profile | retrieval, LLM client |
| Extraction, `app/ingest.py`, `app/extract_child.py` | the child process and its deadline | start, wait, kill, reap | pipeline |
| Chunking and meeting minutes, `app/ingest.py`, `app/llm.py` | none | chunk sections; pack windows, sample a document | pipeline, studio |
| Ingest settings, `app/system_settings.py` | overrides of the deployment's limits | submit, reset | extraction |
| Worker health, `app/worker_health.py` | a port that answers while the loop runs | serve | the container's supervisor |
| Governance, administrators' pages, break-glass script, translations | append-only rows, none | | operators |

What is hard in it:

* **Two stores without a common transaction.** SQLite commits first, Chroma is
  written afterwards; a crash, an error or another handler can come in between.
* **Runs that overlap.** A reindex re-queues a source that is being ingested, a
  claim can outlive its visibility timeout, several workers may be up.
* **Caches of other processes' data.** Chroma keeps an index in memory that
  another process's write does not reach; two counters tell a cache it is old.
* **Operations longer than one transaction.** A migration, a startup sync and a
  notebook delete read, decide, and write later.
* **Deaths.** Workers are killed by parsers, web processes by deploys; jobs and
  locks they hold are recovered by timeouts only.

* **Requests that read, wait for a model, and write.** Minutes pass between the
  checks of a handler and its writes; SELECTs open no transaction.

What makes each component correct, in short: every source somebody uploaded
settles, and what reads *indexed* is in the vector index (ingest); a parse is
over before its job can be claimed again and leaves no child behind
(extraction); a process never answers from an index it should know to be old
(vector index); a completed migration leaves one width, whatever earlier ones
left behind (migration); a revoked cookie stays revoked and every failed
password counts (accounts, limiter); what a client was told is stored, once, and
refers to rows that exist (chat); one generation per notebook at a time
(studio); what was measured of one connection shapes no other's requests, and a
stream is told once (LLM client); a run is one experiment, the one its row
describes (evaluation); no text is lost and evidence is in scope (algorithms).

`PROJECT.json` lists the hazards, each at its line, with the properties that
would notice it going wrong.

## 2. The modules

| Module | What it is |
|---|---|
| `IngestQueue` | The queue, the worker loops, the pipeline and the handlers that upload, reindex and delete. |
| `IngestPromise` | What the queue promises about one request, without queue, worker or attempt. `IngestQueue` implements it. |
| `MCIngestQueue` | Instances of `IngestQueue`. |
| `IngestProofs` | Theorems of `IngestQueue`. |
| `VectorIndex`, `MCVectorIndex` | How processes and their threads share one Chroma store. |
| `IndexMigration`, `MCIndexMigration` | Migrations, rebuilds, clears and startup syncs next to a worker. |
| `SignIn`, `MCSignIn` | Accounts, session cookies, the sign-in limiter, external identities. |
| `SignInProofs` | Theorems of `SignIn`. |
| `NotebookState`, `Conversation`, `Studio`, `Notebook`, `MCNotebook` | A notebook's tables; questions, answers, notes and feedback; the briefing and the tools; all of them together. |
| `NotebookProofs` | Theorems of `Notebook`. |
| `LlmSettings`, `LlmCalls`, `LlmClient`, `MCLlmClient` | The settings row, the tests of a connection, the requests shaped by them; a call with its retries, its usage row and the abstention gate. |
| `LlmProofs` | Theorems of `LlmClient`, and what they need to know of texts. |
| `DomainPolicy`, `RetrievalProfiles`, `EvalRuns`, `EvalWorkbench`, `MCEvalWorkbench` | The evaluation workbench: a notebook's hints and policy, the profiles of retrieval, the runs that freeze both, and all of it together. |
| `EvalProofs` | Theorems of `EvalWorkbench`. |
| `IngestSettings`, `Extraction`, `MCExtraction` | The limits of a parse as administrators edit them, and the parse itself: child, deadline, orphan, worker loop and health port. |
| `ExtractionProofs` | Theorems of `Extraction` and `IngestSettings`. |
| `Lists`, `Chunking`, `Minutes`, `Retrieval`, `Rewriting`, `Metrics`, `Algorithms`, `MCAlgorithms` | What they do with lists, and the computations of single handlers: chunks of a document, windows and samples of it, the evidence of a question, the queries it becomes, what runs are compared by; and all of them over bounded inputs. |

The first three large modules overlap on purpose. `IngestQueue` has the migration only
as a lock; `IndexMigration` has the worker's run only as far as widths matter and
takes a reset to be one step; `VectorIndex` has the steps of that reset, and
knows neither queue nor widths. Each is small enough to check because the others
carry the rest. `Notebook`, `LlmClient`, `EvalWorkbench`, `Extraction` and
`Algorithms` compose the modules named before them in their rows: each has the
state of one data store or one computation, and the last runs their actions
together.

Operators whose comment begins with *Bug* or *Seeded bug* are not part of the
model. Each is a faulty variant of the definition after it (a guard dropped, a
reset forgotten) and nothing uses it; put in place of that definition it must
break a property, which shows the property depends on the code being right.

### IngestQueue

SQLite is `notebooks`, `status`, `jobs`, `chunks`; Chroma is `vectors`. A
transaction is one action. A worker is a program counter in `process_source`
with the attempt number of its own claim and the chunks it has read back
(`staged`); a web thread is the rest of its handler (`request`).

| Actions | Code |
|---|---|
| `Upload`, `Reindex`, then `Enqueue` | `upload_source`, `reindex_source`, `enqueue_source` |
| `DeleteSource`; `ListNotebook`, `DropNotebook`; then `Cleanup` | the delete handlers and `cleanup_source_artifacts` |
| `Claim`, `Expire` | `claim_next_job`; the visibility timeout as time passing |
| `Begin`, `Unindex`, `Work`, `Store` or `StoreFails`, `Upsert`, `Summarize`, `RecordFailure` | the stages of `process_source` |
| `Raise`, `MarkDone`, `RequeueOrFail` | the `try` of `run_worker_loop`, `mark_done`, `requeue_or_fail` |
| `Start`, `Crash`, `RequestDies` | processes |
| `AcquireLock`, `ReleaseLock`, `HolderDies`, `AgeLock` | the migration lock as the queue sees it: taken, released, left behind by a process that died, older than its timeout |

The chunks of one run are one *batch*; SQLite rows and Chroma vectors of the
same ids are the same batch in two sets. A run takes the lowest batch number no
set and no worker refers to, so eight numbers are enough in every run: the
instances never run out, which would show as a `Store` that cannot happen.
`began` is the only history variable: has a run begun since the source was last
queued?

`PromiseOf` maps a source to the states of `IngestPromise` (asked, serving,
kept, failed, void); `KeepsPromise` says the queue refines it, fairness included.

### VectorIndex

`coll` is the identity of the collection (0 while there is none), `records` what
it holds, `generation` and `write_seq` the two counters of
`vector_index_state`. Each process has a `handle`, the counters it was built at,
and a `view`: what the index behind it knows. Each thread has a program counter
in `collection()` and in its caller: `Call` reads both counters, `Reuse` or
`Reopen` returns a collection object, then the caller uses it, and `Bump` and
`Mark` are the two halves of `bump_write_seq`. A thread keeps the object it got;
when another thread of its process reopens the client, the first one is
`detached`: it goes on writing to the store, but no longer through the index its
process reads. `Crash` remembers in `lost` what died uncounted.

### IndexMigration

A source has a `status` and the `width` its chunks were embedded with; a vector
is a pair of the two. `held` and `locked` are the collection; `Probe` is what
the code can find out about `locked`. Each web thread runs one `task`:

* `migrate`: `AcquireLock`, `Plan` (classify_sources), `Reset`, `Apply`, then a
  full sync with the target as the expected width, then `Release`;
* `rebuild`: a full sync; `clear`: `ListVectors`, `RemoveVectors`;
* `startup`: a diff sync, `SyncProbe`, `SyncList`, `SyncCompare`, `SyncDelete`,
  `SyncUpsert`, before the web process serves anything.

The worker claims, unindexes, embeds with the saved `model`, stores and upserts;
Chroma refuses a vector of another width than the collection's. Saving another
model is two steps, `CheckWidth` (the guard reads the index) and `SaveSettings`.
`Overlaps` says whether a rebuild may run beside a migration, which the code does
not prevent; it is FALSE in every run (section 5 says what happens otherwise).

### SignIn

`account` is a row of `users` with its external identity, `bucket` the failure
counter of an account, `leases` the verification row each request has inserted.
Time is what has run out: `expired` leases, the `window` and `blocked` of a
counter. `sessions` are cookies, account and `password_version`; nothing on the
server remembers them. A request is one thread with a program counter that moves
once per transaction: `BeginLogin`, `AcquireLease`, `Recheck`, `Verify`,
`CountFailure` or `ClearBucket`, `ReleaseLease`, `IssueSession` are `login`;
`Confirm` and `ChangePassword`, `ReadTarget` and `ToggleAdmin` or `DeleteUser`
are the two halves of handlers that read, decide and write; `LookUp`,
`Provision`, `MapRole` are `_external_auth_login`, entered by a proxy's headers
or through `BeginOidc`, `Callback`, `Exchange`. `Die` takes a request's process,
`Restart` is `init_db` of a deployment with a real secret. `alone` and `stale`
are history: whether a lease has been kept, and whether roles a handler has read
have changed since (`Outdated`): an administrator lost one, or its own target
got one.

### NotebookState, Conversation, Studio, Notebook

`NotebookState` has the tables and what a request carries between transactions;
`Cut` and `Unlinked` are the foreign keys. `Conversation` is `ask` and
`ask_stream`, one chain of steps (`Mark`, `Prepare`, `Retrieve`, `Generate`,
`SaveAnswer`, `Attach`, `Render`) in the order of each handler; `Failed` is where
an exception leads, which is where the two differ. `Studio` is the briefing
(`Acquire`, `Summaries`, `Brief`, `KeepBriefing`, `Release`, and the reader's
`BeginPeek`, `Unlock`), suggestions and the tools. `Notebook` runs both over one
pool of requests. `Leave` ends a request anywhere: a client of a stream that
leaves, or a process that dies. Usage rows are those of answers; the answer's
text is `LlmClient`'s. `overlap` and `loose` are history.

### LlmSettings, LlmCalls, LlmClient

`row` is `llm_settings` without its diagnostics, which are `probes`: per
connection the fingerprint of what was tested and what was measured. Provider,
address, version, model and timeout are chosen together and are one value,
`model` or `embedder`. `Support`, `StructuredShape`, `ChatBudget`,
`EmbeddingBudget` and `ChatRequest` are the functions of `llm.py` of those names
or nearly; `Sampling`, `Measured`, `Structured`, `ChatWindow` are the probes,
each a function of the endpoint and of the set of requests that were lost. A
test is `BeginTest`, `Probe`, `Merge`, `Store`; a save is `BeginUpdate`,
`TryWidth` when an embedding connection changes, `Write`.

`call` is one call. `Accepted`, `OptionRefused`, `Busy`, `Refused`, `Dropped`,
`Delta`, `Malformed` and the ends of the five kinds are what the endpoint and the
reader may do; `Received` and `Closed` are the gate of `generate_answer_stream`,
over texts of single letters and a short marker with the "[[" of the real one.

### DomainPolicy, RetrievalProfiles, EvalRuns, EvalWorkbench

`config` and `hints` are the two tables of a notebook's domain configuration;
`Snapshot` is what a run keeps of them. Two terms are the same to the check if
they casefold alike (`Casefold`), and to the unique index if NOCASE makes them
alike (`NoCase`), which is less; `WriteEdit` rolls back what the index refuses,
which the proof shows is nothing as long as check and write are one transaction. `profile` is `retrieval_profiles`, and
`active` the parameters in the memory of each web process. `set`, `item`, `run`
and `result` are the tables of the workbench; `job` is `run_eval_job`, a task of
the process that was asked for the run. A handler whose reads and writes are not
one transaction is a `Begin...` and an action after it: the SELECTs of a
connection open none. `writer` is SQLite's write lock where code takes it before
it reads (`BeginImmediate`, `Freeze`); every write waits for it.

`behind` says which processes cannot know the profile in force, `raced` which
runs lost a result with an item that was checked before the result was there.

### IngestSettings, Extraction

`override` is `system_settings`, `form` the submissions of the form with what
was in force when it was shown and what stands in it (`Shown` rounds as the page does); `conf` is `config.toml`, which `Deploy` replaces while everything is
down. `proc` holds for the web process (`inline`) and the worker (`standalone`)
where its loop is and its call of `_extract_isolated`: age, deadline, child,
outcome. `orphan` is the child of a killed process, `health` the worker's port.

Time is a clock that ticks only when nothing is due: timers and kills are served
within a tick, which is what the tenth below the visibility timeout is for. The
job ages with the clock and is claimable again once older than `conf.vis`; the
phase after the parse has no deadline and may outlive the claim, as in the code.
A child works or hangs; it may write its result, half of it, or nothing, and the
moment its parent gives up may come before, between or after.

### Chunking, Minutes, Retrieval, Rewriting, Metrics, Algorithms

Loops of one process, a step of the loop per action, so that their invariants
are invariants of a state machine. `Chunking` reads a document (`doc`) sentence
by sentence into `current` and flushes `chunks`; a chunk is a sequence of spans
of sentences, counted in characters. `Overlong`, `Turn`, `Full`, `Fits` are the
branches of `chunk_sections` in their order, `Pieces` is
`_split_long_sentence`. `Minutes` packs chunks into `windows`, makes the call
of each (`Portion`), and joins the `partials`; `SpreadSample` and `RoundRobin`
are functions, compared with what a sample has to cover. `Retrieval` is one
question: `Ask`, `Search` in Chroma or by the fallback to SQLite, `Rerank`,
`Prompt`, with `candidates` and `evidence` between them. Each of the `Probes` (the
embeddings of the queries) finds its nearest chunks and a chunk counts with the
best of them; the `weights` are of any profile that can be saved, zeros among them,
and a chunk that scores nothing is left out (`Scoring`) of the merge, of the
fallback and of the blend. Chroma's order of chunks equally near is its own; the
model has the newest first. `Rewriting` has the
notebook's `hintRows` and the messages before the question; `Rewrite` answers
with `queries` and records what the model was `shown`. `Metrics` adds the
results of two runs, judged answers and extraction diagnostics one by one and
relates what is computed of them before and after.

`Algorithms` composes them; a behaviour follows one `topic` and the others rest.
`Lists` has what they share: sums, cutting, picking, and sorting by counting what
comes before an element, which a proof can expand; similarity of texts is equality of a
word, a language model's answer any member of a small set.

## 3. The runs

Every run is expected to pass. Where a comment or a document of the repository
promises more than the code keeps, section 5 says so and the properties state
what is kept. A property with a general name (`TranscriptHolds`, `LeavesNoFalseTrace`,
`ChunkingIsSound`) is a conjunction of named parts, which stand above it, each with
its own comment. The modules state their type invariants too, which section 4 proves;
only that of `IngestQueue` is among the properties of a run.

| Run | Bounds | Shows |
|---|---|---|
| `ingest_single` | 1 worker, 2 web threads, 2 sources, 2 faults, 1 reindex | With one worker loop a source ends settled, an indexed one is searchable, its chunks are of one run, and a job is settled only by a run begun after its last request. |
| `ingest_pool` | 2 workers, 2 sources, 2 faults (a dying web process among them), 2 migrations, no reindex | A deleted source keeps no row. No source is ingested twice at once; under a live lock only a deleted source's vectors still arrive. |
| `ingest_races` | 3 workers in one source, 2 overrun claims, 2 reindexes | Even so a source nobody works on any more has a final status, and an indexed one is in the vector index with all its chunks. |
| `ingest_live` | 1 worker, 2 sources, 1 fault (the death of a migration among them), 1 reindex, 1 migration, fairness | Every upload settles, also one whose worker dies or that a dead migration's lock holds up, and `IngestPromise` is implemented. |
| `vector_readers` | 1 reader, 1 process of 2 writing threads, 2 records, 3 writes, 1 crash | When the counters agree, the reader's collection is live and its index complete. |
| `migration_repair` | 2 admins, 2 requests, 2 sources, 2 widths, 1 reindex, 1 save, 1 crash with restart | A completed migration leaves its target and restores every indexed source, whatever a died migration left; stale sources have no vectors. |
| `sign_in` | 2 requests at a time, 3 in all; 4 accounts, 2 of them administrators from the start; 1 identity, 2 OIDC attempts, 2 failures to a cooldown, 1 verification at a time, 1 restart | A refused cookie stays refused and a password change refuses all the earlier ones; verifications that keep their lease are serial and every failure counts; an identity has one account; nobody removes the last administrator alone. |
| `notebook` | 2 requests besides an earlier one that died with an old lock, 1 failing statement, 2 notebooks, two sources of one and one of the other; a question is sent without a selection or with one source of each notebook (so that a deletion can empty what is left of it), a comparison with any | What a client is told is stored, once, after its question, and refers to rows that exist; usage is attributed to its own answer or an overlapping one; an answer is pinned once but by an overlap, and notes outlive conversations; a selection is never widened; one briefing at a time unless a request outlived its lock or lost it to a reader that had seen an older one. |
| `llm_client` | 2 administrators, 3 tests or saves, 1 lost request; 2 chat models, 2 embedders; or 1 call of up to 3 attempts with texts of up to 5 letters, pieces of 1 or 2, a marker of 4 with 3 reserved, 3 gates | What was measured of a connection is applied to it alone and to no other; the marker stays hidden however it is cut, and what was shown is what is saved; a call ends, tells its text once and leaves one usage row at most. |
| `eval_runs` | 2 processes, 3 requests of several steps and 2 edits, 3 together, 1 restart, failure or deletion of the notebook; 2 runs, 2 items (none or both there at first), 2 profiles, 2 models, at most 2 hints, of 3 terms, two of which are spellings of one word that the database's index tells apart | A run is made with what its row says although all of it is edited, applied and deleted meanwhile; comparisons show every difference; a run ends unless its process dies. |
| `extract` | one job; 2 processes, 1 form and 2 edits or deployments, 1 signal, kill or exception of a loop; visibility of 2 and 4 ticks, deadlines of 1 and 3, a memory cap shown rounded, values refused | Whatever is stored and deployed, a parse is over before its job can be claimed again; no child outlives a call but by SIGKILL; verdicts are true; the health port speaks for a loop; the job gets done unless the only loop was the inline one and it has died. |
| `algorithms` | documents of 4 sentences of 6 kinds, target 6, overlap 1, windows of 8, 3 windows; tables of 4 chunks, 2 queries, 2 profiles of weights, one with zeros, pool of 3, 2 chosen, 3 by the fallback; 4 hints and messages, 3 queries; 3 results, verdicts and diagnostics | No text is lost or doubled but by the overlap and chunks keep their target and kind; minutes read what they do not say they left out; evidence is in scope, best first, and of the same order from either search; the question is always asked; totals agree with what they are of. |

**Why the bounds are enough.** The hazards are meetings of two actors at one
source, of three at most (two runs and a delete, two runs and a reindex); the
runs have that many. Two sources are there where order between jobs or widths
between sources matters. `MaxAttempts` is 2, the least value with a retry before
the cap. A second fault may hit the recovery from the first. The later runs have two
requests or processes at a time, which is what their hazards need, and a third
in sequence where something stale must be left behind first (an earlier cookie, a
lock of a dead process, a revision). In `algorithms` inputs are as long as the
branches of the loops require: a chunk that is full, carries a sentence over and is
full again; more windows than calls; more candidates than the pool and more graded
than are answered from. The deadlock check is on in `vector_readers` and
`migration_repair` (a reader can always query, an administrator always test a
model); it is off elsewhere because a system whose bounded events are spent, or a
computation that is finished, really stops.

**Faults.** In the ingest runs `FaultKinds` names what may go wrong in a run: `worker_crash`,
`web_crash`, `overrun` (a claim outlives the timeout while its worker lives),
`chroma` and `sqlite` errors, `migration_crash` (a migration dies and leaves its lock, or is slower than its timeout).
`web_crash` is in `ingest_pool`; it is left out where `NotStranded` or `EverySourceSettles` is checked:
a web process that dies between inserting a source and enqueueing it strands it,
and nothing in the code claims otherwise. The other runs' faults are in their rows:
dying processes in all but `llm_client` and `algorithms`, which instead have lost
requests, endpoints that refuse and streams that break.

**Fairness.** Two runs have liveness properties. `ingest_live` (`FairSpec`): a
handler that is not killed finishes; a worker that is down is restarted by its
supervisor (Docker's restart policy) and an idle one polls (the loop of `run_worker_loop`); the stages of `process_source` end because
extraction, HTTP calls and SQLite have timeouts; time passes, so an abandoned
claim expires; a living migration releases its lock in `finally`, and the lock of a
dead one gets older than its timeout, when `migration_lock_is_live` no longer counts it. `extract` (`Fairness`): a process that has something to do does it and one
that is down boots, the kernel ends a child that is killed or over its CPU limit,
and time passes. A parser is never assumed to finish. Each is weak fairness of one
process's next step. No user action and no fault is assumed ever to happen.

## 4. The proofs

Eight modules hold theorems, one per component but for `SearchProofs`, whose two
parts, about the vector index and about the computations on documents, share nothing.
Each theorem is for every value of the constants: any sets of processes, requests,
sources, accounts or widths, and any bounds (which only ever forbid steps). Every
property of the twelve runs is proved, but for liveness; the table says under which
assumption, where there is one.

| Module | Theorems | Properties | Assumption |
|---|---|---|---|
| `IngestProofs` | `TypeCorrect`, `RowsConsistent` | `TypeOK`, `RowlessIsEmpty`, `IndexedHasChunks` | |
| | `ExclusiveRuns`, `BarrierRespected` | `Exclusive`, `OnlyDeletedUnderLock` | no reindex, no overrun claim (`NoRepeats`) |
| | `NoMixedChunks` | `ChunksOfOneRun` | one worker loop, or `NoRepeats` |
| | `NeverStranded`, `SourcesEndWell` | `NotStranded`, `EndsWell` | no web process dies in a handler, and: one worker loop, or `Calm` |
| | `IndexedFound` | `IndexedIsSearchable` | one worker loop, or `Calm` |
| | `DoneIsFresh`, `ImplementsPromise` | `DoneByFreshRun`, the safety half of `KeepsPromise` | one worker loop |
| `SignInProofs` | `LimiterCorrect`, `CookiesRevoked`, `LastAdminStays`, `IdentitiesOwned`, `TypeCorrect` | `LimiterHolds`, `RevokedForGood`, `LastAdminGuard`, `OwnIdentity` | |
| `NotebookProofs` | `Transcript`, `Scope`, `Serial`, `KeptForGood`, `Usage`, `TypeCorrect` | `TranscriptHolds`, `ScopeNeverWidens`, `BriefingSerial`, `KeptOnceForGood`, `UsageOfItsOwn` | |
| `LlmProofs` | `MarkerNeverSeen`, `OneCallOneRow`, `MeasurementsFit` | `GateHolds`, `RetriesAreSafe`, `MeasuredIsItsOwn` | |
| `EvalProofs` | `OneExperimentEach`, `StatusTrue`, `ConfigurationStays`, `TypeCorrect` | `OneExperiment`, `StatusIsTrue`, `ConfigurationHolds` | |
| `ExtractionProofs` | `ParsesAlone`, `TraceIsTrue`, `FormsTrue`, `TypeCorrect` | `ParsedOnce`, `LeavesNoFalseTrace`, `FormsHold` | |
| `MigrationProofs` | `TargetLeft`, `StaleNeverFound`, `VectorsRestored`, `TypeCorrect` | `MigrationLeavesTarget`, `StaleIsUnsearchable`, `MigrationRestores` | no rebuild beside a migration (`Apart`) |
| `SearchProofs` | `HandlesNamed`, `TypeCorrect` | `GenerationNamesCollection` | |
| | `ReadersSeeAll` | `ReadersFresh` | no uncounted delete (`AllCount`) |
| | `ChunkingSound`, `DocumentCovered` | `ChunkingIsSound`, `DocumentIsCovered` | |
| | `EvidenceSound`, `QueriesSound`, `TotalsSound` | `EvidenceIsSound`, `QueriesAreSound`, `TotalsAgree` | |

**What the assumptions exclude, and why they are needed.** Each is a behaviour of
section 5: without the assumption TLC finds the property violated. `NoRepeats`: with
one reindex a migration starts beside a busy worker. `OneWorker`: with a second
worker a run that a reindex interrupted marks the new job done. `Calm` says that no
worker is killed and no transaction fails inside a run (`worker_crash`, `sqlite`),
so that every run reaches its end or its `except`; Chroma errors, overrun claims and
web processes that die are still there. With several workers and a run that
vanishes, a late one can settle a job whose source another run had opened again. A
web process that dies between the row and its job strands the source (`web_crash`).
`Apart`: a rebuild that has read the old width may lock the migrated collection at
it. `AllCount`: the orphan delete of `sync_from_sqlite` is not counted
(`app/vector_store.py` 509); in a deployment that is the startup sync of a web
process next to a worker that runs already. `HandlesNamed` does not need it: resets
are all counted.

**Constants.** The modules assume of their constants what the code gives them: ids
in the order of `AUTOINCREMENT` (`IdAssumption`), a marker longer than the part of
it that is reserved (`CallsAssumption`), deployments whose timeouts are numbers and
whose deadline is not zero (`DeploymentsAssumption`, `TimeAssumption`), finitely
many requests (`PoolAssumption`), a `None` that is no value of a column
(`RowAssumption`, `WithAssumption`, `SettingsAssumption`), scores, grades and lengths
that are natural numbers, limits of at least one (`PassageAssumption`,
`GradeAssumption`, `HintAssumption`), and ranks whose reciprocals are whole shares
(`MetricsAssumption`).

### The arguments

**Ingest.** Every insert of a chunk or job re-checks the source row, the cascade
removes both, and the restart of a run clears status and chunks in one transaction:
with the types the two conjuncts of `RowsConsistent` are inductive. `Exclusive` is
not: that a claim of a runnable job finds no worker on it needs `HoldsClaim`
(whoever works on a source that still has its row holds its job, running and
unexpired) and `FirstEnqueue`. Under a live lock whoever is busy is on a deleted
source (`BarrierHolds`), and stages its own source's chunks (`StagesItsOwn`). A run
that has the source to itself has it empty between its two transactions
(`EmptyBeforeStore`), so what it stores is all there is. `NotStranded` needs that a
source that is not settled has something ahead of it. Where no run vanishes
(`CalmOpen`) that is an enqueue about to be done, a queued job, or a run whose
outcome is yet to be written. With one worker, whose runs may vanish (`LoneOpen`),
it is a job that is still *running*, which nothing settles before the next claim of
it: `BusyHasJob` keeps the job open while the worker is on its source. `CalmIndexed`
and `LoneIndexed` say the same of every chunk of an indexed source that is not in
Chroma yet. `RunIsFresh` carries `DoneIsFresh`: when the only worker is past `Begin`
and its job is *running*, the run began after the source was last queued.

`ImplementsPromise` goes action by action: under `PromiseOf`, the same mapping that
the run `ingest_live` uses, each step of the queue is, source by source, a step of
`IngestPromise` or none; `RunIsFresh` is what makes `MarkDone` a kept
promise and not a swallowed one. The liveness half, that each promise is kept or
failed in the end, stays with TLC.

**Accounts.** `LimiterInv`: a verification that has not outlived its lease has its
row (`HoldsLease`), the rows are at most `MaxConcurrency` and one per account
(`LeasesFit`), and between the second look at the cooldown and the count nobody else
brings the cooldown about (`Unblocked`). Revocation rests on versions that only grow
and on ids that no account gets twice (`Known`). That the last administrator is not
removed alone is `OthersLeft`: a handler that has found another administrator, and
whose reading no change of roles has overtaken, still has one when it writes. An
account has the one identity it was provisioned with, and the cookie of a browser is
its last attempt's (`CookieIsLast`).

**Notebooks.** Three invariants: what the tables say of one another (`Linked`:
foreign keys, ids, counters), what the messages of one request are to one another
(`Told`), and per request what it carries between its transactions (`Faithful`: a
question that is stored unless its conversation is gone, a watermark above which
every usage row is its own or overlaps it, a note about to be taken). A step of
another request can only disturb what `Quiet` says, and one lemma shows that
`Faithful` survives that; each action then has to prove its own request's part.
`LockInv` ties the lock's row to who keeps it, until the release and not only while
generating. `Apart` and `Owed` keep the numbers of requests and conversations
distinct and within bounds.

**LLM.** The gate needs a fact about texts: if the marker is neither in what was
received so far nor in the withheld end with the next piece, it is not in the two
together, because whatever could still grow into the marker is withheld
(`NothingStraddles`, with `HeldIs` for what `_split_emittable` withholds). It is
proved for sequences of any length, not for the five letters of the run.
`SettingsInv`: a stored result is true of the model or embedder whose fingerprint it
bears (`ChatTrue`, `EmbeddingTrue`), whoever stored it and whatever was saved
meanwhile, and so is what each handler holds (`HandlerTrue`). Nothing relates a
result to the row in force except the fingerprint, which is why the invariant is
about results.

**Evaluation.** Three invariants, hardly related. `DomainInv`: what an edit has read
under the write lock is what it writes against, so that a revision names one
content. `ProfileInv`: what a handler has read of a profile is what the row says as
long as the row is there; `OneActive` had to be stated for two active rows, which
exist for a while when a page inserts the default beside one just applied. `RunInv`:
the task of a run, its row and its results keep in step, question by question.

**Extraction.** A call that holds the job is as old as its claim, and its deadline
ends below the visibility timeout of the deployment it began in (`Sound`), so no
second claim succeeds before it has ended (`Alone`). For forms (`Faithful`): what a
form has not written and nothing else has moved is in force as it was when the page
was shown, so that what a comparison lets through differs from it.

**Migration.** While a migration has its lock no other has, and the worker is idle
(`Barrier`); what it has planned therefore holds until it is applied, and what it
applied until it is over (`Planned`). What a sync has listed does not become stale
before it is stored (`Listed`), also by a startup sync, because no migration runs
beside that.

**Vector index.** `Named`: a handle of the current generation is on the collection
there is, unless a reset is not counted yet. It rests on `Behind` (no counter kept
is ahead of SQLite's) and `Held`. `Fresh` adds that the index behind the handle has
every record; each step that changes records without counting is by a thread that
still has to count, so that its hypothesis `AllCounted` fails meanwhile.

**Documents.** `ChunkInv` says what the chunks flushed so far and the one being
filled are of the sentences read so far: each follows the one before it, cut pieces
of one sentence end to end, or a run of whole sentences that starts again at most
`Overlap` before the last one ended (`Link`); the sentences that wait are the last
ones read and their price is known (`Waiting`). All four parts of `ChunkingIsSound`
follow from it. `MinutesInv` has the windows as an ordered partition of the chunks
into intervals, each with its sum (`Parted`), which `Pack` keeps at every chunk; when
the split is done the last interval ends at the last chunk or the windows are as many
as may be. The samples are functions of their inputs: `SpacedIs` shows that rounding
never leaves a gap of more than one beyond the even spacing, and `SpreadCoversAll`
that filling up keeps the count. None of this is induction over data as the library
has it. A fold is replaced by its trace, the function of what it has made of the
first k elements: `IterExists` gives the trace, `Recurs` its recurrence, and `UpTo`,
induction on k over a set, does the rest, for sums (`TotalIs`), the cuts of a long
sentence (`PiecesTile`) and the packing of windows (`PackingTrace`).

**Evidence.** `EvidenceInv` keeps the candidates and the evidence *proper*: entries
of chunks in scope, no chunk twice, no copies, scores falling. The
last stages only sort, pick and cut, which keep that (`SortProper`, `PickProper`,
`CutProper`); the first needs the trace of `diversify_candidates` (`TrimOK`), which
says that each of the first `Pool` candidates is kept, or is a copy of one that is
kept and no worse. Sorting and picking are defined by counting what comes before an element, and
one lemma says that such a count visits every place once (`PlacedIs`), from which
`RankedIs` and `PickedIs` follow. `FallbackAgrees` compares two lists made in
different ways. Within the caps each is complete: all that matches is in it, with the
same worth. So what is left of one has an entry of the same score for each of the
other's (`ScoresCovered`), and two falling lists of which that is true both ways are
equal.

**Questions.** The trace of `match_domain_hints` says, hint by hint, what was taken
before its turn (`MatchSteps`). What `HintsHaveTheirTurn` calls the hints before it is
picked from the end result; that it is the list of that moment follows because later
hints only go behind (`GoesOn`). What the model is shown is the greatest that fits,
and the lemmas are that there is one (`LatestIs`, `EndsIs`).

**Totals.** Two results of one item are alike: unscored in both runs or in neither,
but for failures (`Alike`). If no question got worse, the hits of the one run are
among the hits of the other and the scored ones are the same, so that sizes of sets
and sums compare place by place. `P95Is` counts the places at or before the
percentile's in the order that sorting gives.

**Model-checked only.**

* Liveness: `EverySourceSettles`, the fairness half of `KeepsPromise` and
  `EverythingEnds`. Liveness under fairness is out of the prover's reach.
* `TypeOK` of `LlmClient` and the types of the algorithms' modules bound texts by
  what the instances need. `LlmProofs` proves the types of a call with texts of any
  length (`call \in Form` in `CallInv`).

Two properties were restated when larger bounds, tried before the proofs, refuted
them: `BriefingSerial`, because a reader that has seen an old lock may delete the
fresh one of a later request, and `NotesKept`, which says what may take a note away.

## 5. What is not modelled

* What extractors, embedding models, rerankers and language models compute.
  Success, failure and the kinds of answer the code tells apart are choices.
* `VectorIndex`: the ranking of a query's answers, `index_status`, and the
  fallback when Chroma cannot be imported.
* `IndexMigration`: syncs of more than one batch of rows, sources whose chunks
  have several widths, a source deleted during a sync, a reindex of a source that
  is being ingested (`IngestQueue` has that one), a migration that outlives its
  own lock, more than one web process, the first row's id order (any row may come
  first).
* `SignIn`: hashing, the signature of a cookie, the OIDC provider's messages.
  `Notebook`: the order of citations and the layout of streamed pieces.
  `LlmSettings`: the verdicts of a test that only the administrator reads.
  `Extraction`: memory limits of the child beside its outcome. `Retrieval`: the
  similarity of two texts (equality of a word here) and the digits of a score.
* Components marked `not_modelled` in `PROJECT.json`, each with its reason.

**Met while modelling.** Behaviours of the code that its own text, or a reader,
would not expect. The properties are stated so that they allow exactly these.

Ingest, index and migration:

* `acquire_migration_lock` counts *running* rows only; a reindex hides a busy
  worker from it, which then upserts under the lock (`app/index_migration.py` 292,
  against 272-274).
* With two workers, the run that a reindex interrupted marks the job of the
  reindex done once another worker has claimed it (`app/jobs.py` 115, against
  109-110).
* A job whose worker dies is claimed again without a look at `JOB_MAX_ATTEMPTS`
  (`app/jobs.py` 81-99); only `requeue_or_fail` compares attempts with it.
* A worker already inside a source writes *indexed* over the *uploaded* a
  reindex has just written (`app/ingest.py` 2344), so the page of a source whose
  job is queued stops polling (`app/main.py` 2700).
* A delete between the second transaction and the upsert of an ingest leaves the
  vectors in Chroma until the next startup sync (`app/ingest.py` 2348). So does
  an upload between the listing and the transaction of a notebook's delete.
* `bump_write_seq` marks its process's own cache current, also when another
  process wrote since the cache was opened; the other's records stay missing from
  its index (`app/vector_store.py` 134, against 88-89).
* A process that dies between a write to Chroma and `bump_write_seq` leaves the
  others' indexes old until anyone's next write (`app/vector_store.py` 242).
* A migration that outlives the lock's timeout frees the lock of the next one when
  it ends (`app/index_migration.py` 401).
* The orphan delete of a startup sync is not counted by `bump_write_seq`
  (`app/vector_store.py` 509), so other processes keep the ids in their index.
* A startup sync lists the ids of SQLite before those of Chroma, and deletes the
  vectors of a source indexed in between as orphans (`app/vector_store.py` 494,
  against 463-464).
* A crash between the swap of a migration and its status changes lets the startup
  sync lock the new collection at the old width (`app/index_migration.py` 386,
  against 376-379).
* A migration does not change the saved model, so queued jobs that run after it
  and before the save still embed at the old width (`app/index_migration.py` 383,
  against 272-274).
* A rebuild may run during a migration (`app/admin.py` 306): the lock pauses
  `claim_next_job` only. A rebuild that has read the old width may lock the new
  collection at it.
* The settings page checks the width before it saves it (`app/settings.py` 685); a
  first upsert in between locks the collection at the width of the settings before.
* A collection that was emptied reads as having no width (`app/vector_store.py`
  394) and is still locked to one. The settings page then accepts a width Chroma
  refuses, and a startup sync can choose one, in which case the app does not start.

Accounts:

* `_set_session_cookie` reads `password_version` again after the password was
  verified, so a sign-in overtaken by a password change gets a valid cookie.
* Two overlapping removals of administrators can leave none (`app/admin.py` 622).
* A second OIDC tab invalidates the first one's attempt.

Notebooks:

* Two overlapping pins of one answer make two notes; `app/main.py` 3521 calls the
  request idempotent.
* A failure of `ask_stream` after its answer was saved adds an error answer as a
  second row; if the conversation is gone by then, the generator ends without an
  *error* or *done* event. `ask_stream` with the id of another notebook's
  conversation saves its error answer there. `ask` with a given conversation
  stores the error answer of a failed preparation without the question.
* Overlapping questions of one conversation share the attribution of usage rows,
  and a stream that fails before it reads its watermark attaches older orphans.
* The page that shows a briefing deletes a fresh lock, and `_release` deletes
  whoever's lock there is. The chat threshold is read after the retrieval.

LLM settings and calls:

* `compact_diagnostic_capabilities` drops the `shape`, `bound` and
  `max_input_tokens` a test found, so structured output can never be switched on
  and `chat_window_budget` is 0 after a stored test.
* `update_settings` reads the keys before it awaits the embedding endpoint and
  writes them after; `store_llm_diagnostic` loses one of two concurrent results.
* The prefixes are part of the embedding fingerprint and not of
  `embedding_changed`; of a key a fingerprint knows only whether it is set.
* A reply too long for the gate (`app/llm.py` 1973) and an abandoned stream leave
  no usage row. `embed_text_batch` writes *succeeded* before it looks at the
  vectors.

Evaluation:

* A run whose process dies stays *queued* or *running* and blocks the deletion of
  its set. Applying a profile changes the memory of one process only.
* A run freezes its models when it is created and reads the settings when its task
  begins. A frozen configuration over 160,000 characters, or with more hints than
  a limit lowered since, is invalid, and the run silently uses none.
* Several handlers read and then write without a transaction (apply and delete of
  a profile, delete of an item or a set).
* `compare_runs` calls an error that became a miss *improved*, while recall
  falls. An error of the generation on a question that should be answered counts
  as a right decision not to refuse.

Extraction and its settings:

* The settings page shows a value with six significant digits (`f"{value:g}"`,
  `app/settings.py` 71) and the form compares exactly. Sending it back untouched
  therefore writes the rounded value of a longer one as an override, whose docstring
  (500) promises that re-saving does not "turn an untouched deployment default into a
  pinned admin override". `PinsNothing` states what is kept: the value in force, sent
  back exactly, is not written.
* A settings page left open across a deployment pins the old value as an
  override. After a lower visibility timeout the form refuses every save until the
  shown deadline is lowered.
* The CPU limit never ends an orphan that hangs without using any. The health port
  answers for an inline loop that has died.
* A parse that ends the moment its time is up is reported as a timeout. A job
  whose embedding outlives the visibility timeout is claimed again.

Algorithms:

* `fit_rewrite_inputs` does not price the joiner of the two ends it keeps, so a
  cut question may be longer than the original; the comment above says it "never
  grows the string".
* `_split_long_sentence` drops the commas and semicolons it splits at and joins
  what they parted. `chunk_sections` leaves one character of the target unused.
* `spread_sample` returns one item more than `limit` where the limit is one above
  the head it keeps.
* A portion of the minutes whose call failed is left out without the note that
  the coverage is partial; the marker of an empty portion is recognised only when
  there are several.
* A failing keyword search counts as a failure of the vector search
  (`app/retrieval.py` 201), and hints can take the places of all the model's
  queries.
* A retrieval profile may give any weight as 0 (`app/retrieval.py` 581). With a
  base weight of 0, a reranker that grades every candidate 0 leaves no evidence
  (`app/llm.py` 2393) although chunks matched; where the reranker fails, the
  candidates are kept. `MatchedIsAnswered` excepts that weight. (`nan` passes the
  check of a weight too; the model has numbers only.)
* A merged text of the minutes that reads as a refusal becomes one
  (`app/main.py` 4874); the model has no such text.

## 6. Plan

The models are complete but for section 5, and every safety property is proved,
under the assumptions of section 4. What is left, in order:

1. `KeepsPromise` without fairness for several workers: the promise needs a state
   for a request that another run's end has swallowed.
2. `ReadersFresh` with the startup sync: a weaker property that allows for orphans a
   process keeps in its index, and its proof.
3. The rows of `PROJECT.json` marked `partly`: the ranking of a query's answers and
   `index_status`, a source whose chunks have several widths, a source deleted
   during a sync.
