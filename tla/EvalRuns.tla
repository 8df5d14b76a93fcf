------------------------------ MODULE EvalRuns ------------------------------
(***************************************************************************)
(* An eval set, its items and its runs (app/evals.py). A run is a row that *)
(* freezes what it is to be made with, and a background task of the web    *)
(* process that was asked for it. One set of one notebook, whose deletion  *)
(* takes everything below it along; scores are left out.                   *)
(***************************************************************************)
EXTENDS RetrievalProfiles

CONSTANTS
  FirstModel, \* the models that are configured at first
  Modes,      \* bound: the boxes of the form that are ticked together
  AtFirst     \* bound: how many questions a set may have at first

ASSUME ModelAssumption == FirstModel \in Models
ASSUME ModeAssumption  == Modes \subseteq [judge : BOOLEAN, hints : BOOLEAN, policy : BOOLEAN]
ASSUME SetAssumption   == AtFirst \subseteq Nat

VARIABLES
  set,    \* eval_sets
  item,   \* eval_items
  run,    \* eval_runs
  result, \* eval_results, by run and item: what the question was asked with
  job,    \* run_eval_job, by run
  llm,    \* llm_settings, as capability_snapshot sees them
  raced   \* history: results that went with an item deleted since it was checked

book == <<set, item, run, result, job, llm, raced>>
vars == <<domain, request, writer, used, workbench, book>>

-----------------------------------------------------------------------------
Counts == 0 .. Cardinality(Items)
With   == [params : Params, hints : SUBSET Hint, policy : BOOLEAN, llm : Models]
Run    == [st : {"unused", "queued", "running", "succeeded", "failed", "deleted"},
           current : Counts, total : Counts, params : Params, snapshot : Snapshots, llm : Models,
           judge : BOOLEAN, hints : BOOLEAN, policy : BOOLEAN, metrics : Counts]
Job    == [pc : {"none", "load", "next", "retrieving", "judging", "ended"}, proc : Procs \cup {None},
           todo : SUBSET Items, all : SUBSET Items, judge : BOOLEAN, with : With \cup {None},
           done : Counts]

ASSUME WithAssumption == None \notin With

Nothing == [revision |-> 0, hintsOn |-> FALSE, hints |-> {}, policy |-> FALSE]
NoRun   == [st |-> "unused", current |-> 0, total |-> 0, params |-> Base, snapshot |-> Nothing,
            llm |-> FirstModel, judge |-> FALSE, hints |-> FALSE, policy |-> FALSE, metrics |-> 0]
NoJob   == [pc |-> "none", proc |-> None, todo |-> {}, all |-> {}, judge |-> FALSE, with |-> None,
            done |-> 0]
NoResults == [i \in Items |-> None]

Stored(x)   == run[x].st \in {"queued", "running", "succeeded", "failed"}
Approved    == {i \in Items : item[i] = "approved"}
UsedIn(i)   == {x \in Runs : result[x][i] # None}
Results(x)  == {i \in Items : result[x][i] # None}
NewItem     == {i \in Items : item[i] = "unused" /\ \A j \in Items : j < i => item[j] # "unused"}
NewRun      == {x \in Runs : run[x].st = "unused" /\ \A y \in Runs : y < x => run[y].st # "unused"}
Aside       == UNCHANGED <<domain, workbench>>

-----------------------------------------------------------------------------
(* The set and its items.                                                  *)

\* admin_add_eval_item: what an administrator writes is approved.
AddItem ==
  /\ Unlocked /\ set = "live" /\ Budget("requests", MaxRequests)
  /\ used' = [used EXCEPT !.requests = @ + 1]
  /\ \E i \in NewItem : item' = [item EXCEPT ![i] = "approved"]
  /\ Aside /\ UNCHANGED <<request, writer, set, run, result, job, llm, raced>>

\* admin_generate_eval_items reads the set and the chunks no item expects yet.
BeginGenerate(r) ==
  /\ set = "live" /\ Begin(r, [Rest EXCEPT !.pc = "generate"])
  /\ Aside /\ UNCHANGED <<writer, book>>

\* admin_generate_eval_items_llm: the set, the chunks, and the model's answer.
BeginAuthoring(r) ==
  /\ set = "live" /\ Begin(r, [Rest EXCEPT !.pc = "generate"])
  /\ Aside /\ UNCHANGED <<writer, book>>

\* What neither could be used nor is new is skipped.
WriteDrafts(r) ==
  /\ request[r].pc = "generate" /\ Unlocked
  /\ \/ UNCHANGED item
     \/ set = "live" /\ \E i \in NewItem : item' = [item EXCEPT ![i] = "draft"]
  /\ End(r)
  /\ Aside /\ UNCHANGED <<writer, used, set, run, result, job, llm, raced>>

ApproveItem(i) ==
  /\ Unlocked /\ set = "live" /\ item[i] = "draft"
  /\ item' = [item EXCEPT ![i] = "approved"]
  /\ Aside /\ UNCHANGED <<request, writer, used, set, run, result, job, llm, raced>>

\* Seeded bug: the results are not looked at.
BeginDropAny(r, i) ==
  /\ set = "live" /\ item[i] \in {"draft", "approved"}
  /\ Begin(r, [Rest EXCEPT !.pc = "dropItem", !.item = i, !.seen = UsedIn(i)])
  /\ Aside /\ UNCHANGED <<writer, book>>

\* admin_delete_eval_item: an item with results stays.
BeginDropItem(r, i) ==
  /\ set = "live" /\ item[i] \in {"draft", "approved"}
  /\ UsedIn(i) = {}
  /\ Begin(r, [Rest EXCEPT !.pc = "dropItem", !.item = i, !.seen = UsedIn(i)])
  /\ Aside /\ UNCHANGED <<writer, book>>

\* The results of the meantime go with the item.
DropItem(r) ==
  /\ request[r].pc = "dropItem" /\ Unlocked
  /\ LET i == request[r].item IN
       /\ item' = [item EXCEPT ![i] = "deleted"]
       /\ result' = [x \in Runs |-> [result[x] EXCEPT ![i] = None]]
       /\ raced' = raced \cup (UsedIn(i) \ request[r].seen)
  /\ End(r)
  /\ Aside /\ UNCHANGED <<writer, used, set, run, job, llm>>

Cascade ==
  /\ set' = "deleted"
  /\ item' = [i \in Items |-> IF item[i] = "unused" THEN "unused" ELSE "deleted"]
  /\ run' = [x \in Runs |-> IF Stored(x) THEN [NoRun EXCEPT !.st = "deleted"] ELSE run[x]]
  /\ result' = [x \in Runs |-> NoResults]

\* admin_delete_eval_set: refused while a run is queued or running.
BeginDropSet(r) ==
  /\ set = "live" /\ \A x \in Runs : run[x].st \notin {"queued", "running"}
  /\ Begin(r, [Rest EXCEPT !.pc = "dropSet"])
  /\ Aside /\ UNCHANGED <<writer, book>>

DropSet(r) ==
  /\ request[r].pc = "dropSet" /\ Unlocked
  /\ Cascade
  /\ End(r)
  /\ Aside /\ UNCHANGED <<writer, used, job, llm, raced>>

-----------------------------------------------------------------------------
(* Starting a run.                                                         *)

\* admin_start_eval_run: the set, the profile, the number of items.
BeginRun(r, p, i) ==
  /\ set = "live" /\ Live(i) /\ Approved # {}
  /\ \E m \in Modes :
       /\ m.policy => m.judge
       /\ Begin(r, [Rest EXCEPT !.pc = "freeze", !.proc = p, !.profile = i, !.params = profile[i].params,
                      !.judge = m.judge, !.hints = m.hints, !.policy = m.policy,
                      !.total = Cardinality(Approved)])
  /\ Aside /\ UNCHANGED <<writer, book>>

\* Seeded bug: the two reads and the row are no transaction.
FreezeUnlocked(r) ==
  /\ request[r].pc = "freeze" /\ Unlocked
  /\ request' = [request EXCEPT ![r].pc = "insert", ![r].config = config]
  /\ Aside /\ UNCHANGED <<writer, used, book>>

\* BEGIN IMMEDIATE, and the first of load_domain_config's two reads.
Freeze(r) ==
  /\ request[r].pc = "freeze" /\ Unlocked
  /\ writer' = r
  /\ request' = [request EXCEPT ![r].pc = "insert", ![r].config = config]
  /\ Aside /\ UNCHANGED <<used, book>>

\* The second, the models, and the row, if its set and its profile are still there.
InsertRun(r) ==
  /\ request[r].pc = "insert" /\ writer \in {r, None}
  /\ LET q == request[r] IN
       \/ /\ set = "live" /\ Live(q.profile)
          /\ \E x \in NewRun :
               /\ run' = [run EXCEPT ![x] = [NoRun EXCEPT !.st = "queued", !.total = q.total,
                            !.params = q.params, !.snapshot = Snapshot(q.config, hints), !.llm = llm,
                            !.judge = q.judge, !.hints = q.hints, !.policy = q.policy]]
               /\ job' = [job EXCEPT ![x] = [NoJob EXCEPT !.pc = "load", !.proc = q.proc]]
       \/ ~(set = "live" /\ Live(q.profile)) /\ UNCHANGED <<run, job>>
  /\ writer' = None
  /\ End(r)
  /\ Aside /\ UNCHANGED <<used, set, item, result, llm, raced>>

-----------------------------------------------------------------------------
(* The task.                                                               *)

Ends(x) == job' = [job EXCEPT ![x] = [NoJob EXCEPT !.pc = "ended"]]

\* Only a row that is there is updated.
Becomes(x, row) == run' = IF Stored(x) THEN [run EXCEPT ![x] = row] ELSE run

\* What every question is asked with: the parameters of resolve_retrieval_params,
\* the hints and the policy of _run_domain_context, and the models that are
\* configured as the task begins. The policy reaches the judged answers alone.
Frozen(x) ==
  [params |-> run[x].params,
   hints  |-> IF run[x].hints /\ Readable(run[x].snapshot) THEN run[x].snapshot.hints ELSE {},
   policy |-> run[x].judge /\ run[x].policy /\ Readable(run[x].snapshot) /\ run[x].snapshot.policy,
   llm    |-> llm]

\* run_eval_job: a run deleted before it began is nothing to do.
LoadRun(x) ==
  /\ job[x].pc = "load" /\ Unlocked
  /\ IF Stored(x)
     THEN /\ job' = [job EXCEPT ![x].pc = "next", ![x].todo = Approved, ![x].all = Approved, ![x].judge = run[x].judge,
                             ![x].with = Frozen(x)]
          /\ Becomes(x, [run[x] EXCEPT !.st = "running", !.total = Cardinality(Approved), !.current = 0])
     ELSE Ends(x) /\ UNCHANGED run
  /\ Aside /\ UNCHANGED <<request, writer, used, set, item, result, llm, raced>>

\* No item is approved any more, or no source is indexed.
NothingToDo(x) ==
  /\ job[x].pc = "next" /\ Unlocked
  /\ \/ job[x].all = {}
     \/ job[x].todo = job[x].all /\ used.faults < MaxFaults
  /\ Becomes(x, [run[x] EXCEPT !.st = "failed"])
  /\ Ends(x)
  /\ used' = [used EXCEPT !.faults = IF job[x].all = {} THEN @ ELSE @ + 1]
  /\ Aside /\ UNCHANGED <<request, writer, set, item, result, llm, raced>>

\* The progress, and _retrieve_for_eval, which goes on for a run that was deleted.
Retrieve(x) ==
  /\ job[x].pc = "next" /\ job[x].todo # {} /\ Unlocked
  /\ job' = [job EXCEPT ![x].pc = "retrieving"]
  /\ Becomes(x, [run[x] EXCEPT !.current = job[x].done])
  /\ Aside /\ UNCHANGED <<request, writer, used, set, item, result, llm, raced>>

\* judge_eval_item, for what could be retrieved. It never fails.
Judge(x) ==
  /\ job[x].pc = "retrieving" /\ job[x].judge
  /\ job' = [job EXCEPT ![x].pc = "judging"]
  /\ Aside /\ UNCHANGED <<request, writer, used, set, item, run, result, llm, raced>>

Current(x) == CHOOSE i \in job[x].todo : \A j \in job[x].todo : i <= j

\* The result, be it an error or not yet judged for one, and the progress; without
\* the run or the item there is no row, and that error ends the run.
StoreResult(x) ==
  /\ job[x].pc \in {"retrieving", "judging"} /\ Unlocked
  /\ LET i == Current(x) IN
       IF Stored(x) /\ item[i] # "deleted"
       THEN /\ result' = [result EXCEPT ![x][i] = job[x].with]
            /\ job' = [job EXCEPT ![x].pc = "next", ![x].todo = @ \ {i}, ![x].done = @ + 1]
            /\ Becomes(x, [run[x] EXCEPT !.current = job[x].done + 1])
       ELSE /\ Becomes(x, [run[x] EXCEPT !.st = "failed"])
            /\ Ends(x)
            /\ UNCHANGED result
  /\ Aside /\ UNCHANGED <<request, writer, used, set, item, llm, raced>>

FinishRun(x) ==
  /\ job[x].pc = "next" /\ job[x].todo = {} /\ job[x].all # {} /\ Unlocked
  /\ Becomes(x, [run[x] EXCEPT !.st = "succeeded", !.current = run[x].total, !.metrics = job[x].done])
  /\ Ends(x)
  /\ Aside /\ UNCHANGED <<request, writer, used, set, item, result, llm, raced>>

JobStep(x) ==
  \/ LoadRun(x) \/ NothingToDo(x) \/ Retrieve(x) \/ Judge(x) \/ StoreResult(x) \/ FinishRun(x)

EvalStep(r) ==
  \/ BeginGenerate(r) \/ BeginAuthoring(r) \/ WriteDrafts(r) \/ DropItem(r) \/ BeginDropSet(r) \/ DropSet(r)
  \/ Freeze(r) \/ InsertRun(r)
  \/ \E i \in Items : BeginDropItem(r, i)
  \/ \E p \in Procs, i \in Profiles : BeginRun(r, p, i)
=============================================================================
