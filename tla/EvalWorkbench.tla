---------------------------- MODULE EvalWorkbench ----------------------------
(***************************************************************************)
(* The evaluation workbench: what its requests, the tasks of its runs, the *)
(* owner of the notebook and the other administrators do to one another.   *)
(***************************************************************************)
EXTENDS EvalRuns

TypeOK ==
  /\ config \in Config /\ hints \in [Hints -> Hint \cup {None}]
  /\ request \in [Requests -> Request] /\ writer \in Requests \cup {None} /\ used \in Used
  /\ profile \in [Profiles -> Profile] /\ active \in [Procs -> Params] /\ behind \subseteq Procs
  /\ set \in {"live", "deleted"} /\ item \in [Items -> {"unused", "draft", "approved", "deleted"}]
  /\ run \in [Runs -> Run] /\ result \in [Runs -> [Items -> With \cup {None}]]
  /\ job \in [Runs -> Job] /\ llm \in Models /\ raced \subseteq Runs

\* A workbench that was never opened, and one in use: the default profile in force
\* and a candidate, hints switched on; each with some questions, or none yet.
NewBook == [config |-> EmptyConfig, hints |-> [i \in Hints |-> None],
            profile |-> [i \in Profiles |-> Unused]]
OldBook ==
  [config |-> [revision |-> 1, hintsOn |-> TRUE, policyOn |-> TRUE, policy |-> TRUE],
   hints |-> [i \in Hints |-> IF i = 1 THEN [term |-> FirstTerm, enabled |-> TRUE] ELSE None],
   profile |-> [i \in Profiles |->
                  CASE i = 1 -> [st |-> "live", params |-> Base, isDefault |-> TRUE, isActive |-> TRUE]
                    [] i = 2 -> [Unused EXCEPT !.st = "live", !.params = Candidate]
                    [] OTHER -> Unused]]

Init ==
  /\ \E b \in {NewBook, OldBook} :
       config = b.config /\ hints = b.hints /\ profile = b.profile
  /\ request = [r \in Requests |-> Rest] /\ writer = None
  /\ used = [requests |-> 0, edits |-> 0, faults |-> 0]
  /\ active = [p \in Procs |-> Base] /\ behind = {}
  /\ set = "live" /\ item \in {[i \in Items |-> IF i <= n THEN "approved" ELSE "unused"] : n \in AtFirst}
  /\ run = [x \in Runs |-> NoRun] /\ result = [x \in Runs |-> NoResults]
  /\ job = [x \in Runs |-> NoJob] /\ llm = FirstModel /\ raced = {}

-----------------------------------------------------------------------------
\* Another model is saved (LlmSettings has the details).
ChangeModel ==
  /\ Unlocked /\ Budget("edits", MaxEdits)
  /\ used' = [used EXCEPT !.edits = @ + 1]
  /\ llm' \in Models \ {llm}
  /\ Aside /\ UNCHANGED <<request, writer, set, item, run, result, job, raced>>

\* A notebook takes its sets along, whatever runs.
DeleteNotebook ==
  /\ Unlocked /\ set = "live" /\ used.faults < MaxFaults
  /\ used' = [used EXCEPT !.faults = @ + 1]
  /\ Cascade
  /\ Aside /\ UNCHANGED <<request, writer, job, llm, raced>>

\* A process dies with its requests and tasks, and starts again.
Restart(p) ==
  /\ used.faults < MaxFaults
  /\ used' = [used EXCEPT !.faults = @ + 1]
  /\ request' = [r \in Requests |-> IF request[r].proc = p THEN Rest ELSE request[r]]
  /\ writer' = IF writer # None /\ request[writer].proc = p THEN None ELSE writer
  /\ job' = [x \in Runs |-> IF job[x].proc = p THEN NoJob ELSE job[x]]
  /\ active' = LoadActive(p) /\ behind' = behind \ {p}
  /\ UNCHANGED <<domain, profile, set, item, run, result, llm, raced>>

\* An exception anywhere in the task but in a question: the run has failed.
TaskRaises(x) ==
  /\ job[x].pc \in {"load", "next"} /\ Unlocked /\ used.faults < MaxFaults
  /\ used' = [used EXCEPT !.faults = @ + 1]
  /\ Becomes(x, [run[x] EXCEPT !.st = "failed"])
  /\ Ends(x)
  /\ Aside /\ UNCHANGED <<request, writer, set, item, result, llm, raced>>

Next ==
  \/ \E r \in Requests :
       \/ DomainEdit(r) /\ UNCHANGED <<workbench, book>>
       \/ ProfileStep(r) /\ UNCHANGED book
       \/ EvalStep(r)
  \/ CreateProfile /\ UNCHANGED book
  \/ AddItem \/ ChangeModel \/ DeleteNotebook
  \/ \E i \in Items : ApproveItem(i)
  \/ \E x \in Runs : JobStep(x) \/ TaskRaises(x)
  \/ \E p \in Procs : Restart(p)

Spec == Init /\ [][Next]_vars

-----------------------------------------------------------------------------
Succeeded(x) == run[x].st = "succeeded"

\* The revision is all that compare_runs and the audit trail show of a domain
\* configuration: two that were frozen, or one that was and the one in force, are
\* the same if their revisions are. A run must not freeze the row of one edit with
\* the hints of the next, and no edit may leave the revision as it was.
RevisionNamesContent ==
  \A x \in {y \in Runs : Stored(y)} :
    LET s == run[x].snapshot IN
      /\ s.revision = config.revision => s = Snapshot(config, hints)
      /\ \A y \in Runs : Stored(y) /\ run[y].snapshot.revision = s.revision => run[y].snapshot = s

\* What compare_runs_context shows of a run, and what its questions were asked
\* with. Only the models are read later than they are frozen.
Shown(x) == <<run[x].params, run[x].snapshot.revision, Readable(run[x].snapshot),
              run[x].hints /\ run[x].snapshot.hintsOn, run[x].policy /\ run[x].snapshot.policy, run[x].judge>>
Asked(x) == {[result[x][i] EXCEPT !.llm = FirstModel] : i \in Results(x)}

\* Two succeeded runs of a set that the comparison shows no difference between were
\* made with the same parameters, hints and policy, whatever was applied and edited
\* between their creation and their questions; and one run with one of each.
NoUnshownDifference ==
  \A x, y \in Runs : Succeeded(x) /\ Succeeded(y) /\ Shown(x) = Shown(y) =>
    \A a \in Asked(x), b \in Asked(y) : a = b

\* Models saved while a run goes on do not reach its later questions.
OneModelPerRun ==
  \A x \in Runs : \A i, j \in Results(x) : result[x][i].llm = result[x][j].llm

\* The metrics of a run are of the results that are there to be looked at: items
\* are kept from the moment a run has asked about them, unless the check was made
\* before.
SucceededIsComplete ==
  \A x \in Runs : Succeeded(x) /\ x \notin raced =>
    /\ run[x].metrics = run[x].total /\ run[x].current = run[x].total
    /\ Cardinality(Results(x)) = run[x].total

\* A run that is queued or running has a task, or its process has died: no other
\* way out of the task leaves it waiting, which would also keep its set from ever
\* being deleted.
WaitsForATask ==
  \A x \in Runs : run[x].st \in {"queued", "running"} /\ job[x].pc \notin {"load", "next", "retrieving", "judging"}
    => job[x] = NoJob /\ used.faults > 0

\* A run is one experiment, the one its row describes: asked with one model, one set of
\* parameters, hints and policy, and with another one than a run that reads alike only
\* if the comparison shows it (app/evals.py run_eval_job, compare_runs).
OneExperiment == RevisionNamesContent /\ NoUnshownDifference /\ OneModelPerRun

\* The status of a run is true: one that reads succeeded is complete, one that reads
\* queued or running has a task (app/evals.py run_eval_job).
StatusIsTrue == SucceededIsComplete /\ WaitsForATask

\* The configuration runs are frozen from: one hint per term, one active profile, and in
\* memory the profile in force, in every process that can know it
\* (app/domain_policy.py, app/retrieval.py).
ConfigurationHolds == HintRules /\ OneActive /\ MemoryFollowsRow
=============================================================================
