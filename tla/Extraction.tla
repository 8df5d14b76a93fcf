------------------------------ MODULE Extraction ------------------------------
(***************************************************************************)
(* The parse of a source (app/ingest.py _extract_isolated,                 *)
(* app/extract_child.py) as the worker's loop runs it (app/worker.py),     *)
(* in the web process or in a process of its own (app/worker_health.py),   *)
(* under the limits of IngestSettings.                                     *)
(*                                                                         *)
(* A child process parses; its parent ends it at the deadline and reads    *)
(* the file it left. A killed parent leaves an orphan, which only the      *)
(* kernel's limit on CPU time ends. The queue holds one job, queued once:  *)
(* reindexing and attempts are IngestQueue's.                              *)
(*                                                                         *)
(* Time is counted in ticks. A timer that is due is served within a tick,  *)
(* the tenth that _extract_timeout_s leaves below the visibility timeout.  *)
(* extract_isolation = false is left out: nothing can stop a thread.       *)
(***************************************************************************)
EXTENDS IngestSettings

CONSTANTS
  Grace,     \* _EXTRACT_CPU_GRACE_S
  MaxFaults, \* bound: signals, kills, exceptions of the loop
  MaxAge     \* bound: ticks after which a claim or a parse is simply old

ASSUME TimeAssumption ==
  /\ {Grace, MaxFaults, MaxAge} \subseteq Nat /\ Grace > 0
  /\ \A d \in Deployments : d.vis < MaxAge /\ (9 * d.vis) \div 10 > 0

Procs == {"inline", "standalone"}

VARIABLES
  proc,   \* what each process is doing, and its call of _extract_isolated
  job,    \* the row of ingest_jobs
  orphan, \* the child a killed process left behind
  health, \* whether the worker's health port answers
  faults  \* history: how many faults there were

vars == <<settings, proc, job, orphan, health, faults>>

\* The child: whether it works or hangs, whether it still runs, what it wrote.
\* "half": it died while writing. "exhausted": MemoryError, or a peak near the cap.
Files == {"none", "half", "parsed", "refused", "exhausted"}
Child == [life : {"none", "busy", "stuck", "exited", "killed"}, file : Files, noise : BOOLEAN, cpu : Nat]
NoChild == [life |-> "none", file |-> "none", noise |-> FALSE, cpu |-> 0]
Alive(c) == c.life \in {"busy", "stuck"}

Call == [pc : {"down", "serving", "poll", "claimed", "waiting", "ending", "after", "leaving", "dead"}, stop : BOOLEAN,
         age : 0..MaxAge, deadline : Nat, memory : Nat, child : Child,
         outcome : {"ok", "timeout", "cancelled"}, says : {"nothing", "result", "error", "timeout", "memory", "crashed"}]
Free == [pc |-> "poll", stop |-> FALSE, age |-> 0, deadline |-> 0, memory |-> 0, child |-> NoChild,
         outcome |-> "ok", says |-> "nothing"]
Gone == [Free EXCEPT !.pc = "down"]

At(p, pc)  == proc[p].pc = pc
Faulty     == faults < MaxFaults /\ faults' = faults + 1
Web        == ~At("inline", "down")

-----------------------------------------------------------------------------
\* The limits, read for each parse.

\* Seeded bug: the deadline is what the administrator or the deployment says.
DeadlineAsSet == Effective["timeout"]
\* _extract_timeout_s
Deadline ==
  IF Effective["timeout"] <= 0 \/ Effective["timeout"] > Ceiling THEN Ceiling ELSE Effective["timeout"]

\* _extract_child_argv
CpuLimit(deadline) == deadline + Grace

-----------------------------------------------------------------------------
\* The loop.

\* Seeded bug: a job that is running is never taken again.
RunnableQueued == job.st = "queued"
\* claim_next_job
Runnable == job.st = "queued" \/ (job.st = "running" /\ job.age > conf.vis)

Claim(p) ==
  /\ At(p, "poll") /\ ~proc[p].stop /\ Runnable
  /\ job' = [st |-> "running", age |-> 0]
  /\ proc' = [proc EXCEPT ![p] = [Free EXCEPT !.pc = "claimed"]]
  /\ UNCHANGED <<settings, orphan, health, faults>>

\* process_source gets as far as the parse: the child is started.
StartChild(p) ==
  /\ At(p, "claimed")
  /\ \E life \in {"busy", "stuck"} :
       proc' = [proc EXCEPT ![p].pc = "waiting", ![p].age = 0, ![p].deadline = Deadline,
                  ![p].memory = Effective["memory"],
                  ![p].child = [NoChild EXCEPT !.life = life, !.cpu = CpuLimit(Deadline)]]
  /\ UNCHANGED <<settings, job, orphan, health, faults>>

\* extract_child.main: the parse ends, the result is written, the child exits;
\* or it dies before or during that. "stuck" may also come after the writing.
ChildWrites(p) ==
  /\ At(p, "waiting") /\ proc[p].child.life = "busy" /\ proc[p].child.file = "none"
  /\ \E file \in Files \ {"none"}, life \in {"busy", "stuck"} :
       proc' = [proc EXCEPT ![p].child.file = file, ![p].child.life = IF file = "half" THEN "exited" ELSE life]
  /\ UNCHANGED <<settings, job, orphan, health, faults>>

ChildExits(p) ==
  /\ At(p, "waiting") /\ proc[p].child.life = "busy"
  /\ \E noise \in IF proc[p].child.file = "none" THEN BOOLEAN ELSE {FALSE} :
       proc' = [proc EXCEPT ![p].child.life = "exited", ![p].child.noise = noise]
  /\ UNCHANGED <<settings, job, orphan, health, faults>>

Due(p) == At(p, "waiting") /\ proc[p].age >= proc[p].deadline

\* communicate() returns.
Drained(p) ==
  /\ At(p, "waiting") /\ proc[p].child.life = "exited"
  /\ proc' = [proc EXCEPT ![p].pc = "ending", ![p].outcome = "ok"]
  /\ UNCHANGED <<settings, job, orphan, health, faults>>

\* Seeded bug: the child is only waited for.
SparedChild(c) == c
\* The finally of _extract_isolated: proc.kill() unless it has exited.
KilledChild(c) == IF Alive(c) THEN [c EXCEPT !.life = "killed"] ELSE c

\* wait_for gives up. The child may have exited just before.
TimeUp(p) ==
  /\ Due(p)
  /\ proc' = [proc EXCEPT ![p].pc = "ending", ![p].outcome = "timeout", ![p].child = KilledChild(@)]
  /\ UNCHANGED <<settings, job, orphan, health, faults>>

\* What _extract_isolated returns or raises.
Says(c) ==
  IF c.outcome = "timeout" THEN "timeout"
  ELSE IF c.outcome = "ok" /\ c.child.file = "parsed" THEN "result"
  ELSE IF c.outcome = "ok" /\ c.child.file = "refused" THEN "error"
  ELSE IF c.outcome = "ok" /\ (c.child.file = "exhausted" \/ (c.child.noise /\ c.memory > 0)) THEN "memory"
  ELSE "crashed"

\* proc.wait() returns, the file is read, the temporary directory removed.
Report(p) ==
  /\ At(p, "ending") /\ ~Alive(proc[p].child) /\ proc[p].outcome # "cancelled"
  /\ proc' = [proc EXCEPT ![p] = [Free EXCEPT !.pc = "after", !.stop = proc[p].stop, !.says = Says(proc[p])]]
  /\ UNCHANGED <<settings, job, orphan, health, faults>>

\* The rest of process_source, which has no deadline, and mark_done.
Finish(p) ==
  /\ At(p, "after")
  /\ job' = IF job.st = "running" THEN [st |-> "done", age |-> 0] ELSE job
  /\ proc' = [proc EXCEPT ![p] = [Free EXCEPT !.stop = proc[p].stop]]
  /\ UNCHANGED <<settings, orphan, health, faults>>

\* claim_next_job or requeue_or_fail raises: nothing catches it. The inline
\* task is over, and nobody looks at it; the standalone process goes down.
LoopFails(p) ==
  /\ proc[p].pc \in {"poll", "after"} /\ Faulty
  /\ proc' = [proc EXCEPT ![p] = [Free EXCEPT !.pc = IF p = "inline" THEN "dead" ELSE "leaving"]]
  /\ UNCHANGED <<settings, job, orphan, health>>

-----------------------------------------------------------------------------
\* The processes.

\* lifespan, _run_standalone
Boot(p) ==
  /\ At(p, "down") /\ (p = "inline" \/ p \in conf.loops)
  /\ proc' = [proc EXCEPT ![p] = [Free EXCEPT !.pc = IF p \in conf.loops THEN "poll" ELSE "serving"]]
  /\ health' = (health \/ p = "standalone")
  /\ UNCHANGED <<settings, job, orphan, faults>>

\* SIGTERM of the standalone worker: the job in hand is finished first.
Terminate ==
  /\ proc["standalone"].pc \notin {"down", "leaving"} /\ ~proc["standalone"].stop /\ Faulty
  /\ proc' = [proc EXCEPT !["standalone"].stop = TRUE]
  /\ UNCHANGED <<settings, job, orphan, health>>

LoopEnds ==
  /\ At("standalone", "poll") /\ proc["standalone"].stop
  /\ proc' = [proc EXCEPT !["standalone"].pc = "leaving"]
  /\ UNCHANGED <<settings, job, orphan, health, faults>>

\* The finally of _run_standalone.
Exit ==
  /\ At("standalone", "leaving")
  /\ health' = FALSE
  /\ proc' = [proc EXCEPT !["standalone"] = Gone]
  /\ UNCHANGED <<settings, job, orphan, faults>>

\* The web process is stopped: its task is cancelled where it awaits. A call
\* that waits for its child goes through its finally first.
Shutdown ==
  /\ Web /\ proc["inline"].pc # "claimed" /\ proc["inline"].outcome # "cancelled" /\ Faulty
  /\ proc' = [proc EXCEPT !["inline"] =
       IF @.pc \in {"waiting", "ending"} THEN [@ EXCEPT !.pc = "ending", !.outcome = "cancelled",
                                                      !.child = KilledChild(proc["inline"].child)]
       ELSE Gone]
  /\ Lost /\ UNCHANGED <<conf, override, edits, job, orphan, health>>

Cancelled ==
  /\ At("inline", "ending") /\ proc["inline"].outcome = "cancelled" /\ ~Alive(proc["inline"].child)
  /\ proc' = [proc EXCEPT !["inline"] = Gone]
  /\ UNCHANGED <<settings, job, orphan, health, faults>>

\* SIGKILL: the child is nobody's.
Kill(p) ==
  /\ ~At(p, "down") /\ ~Alive(orphan[p]) /\ Faulty
  /\ orphan' = [orphan EXCEPT ![p] = IF Alive(proc[p].child)
                                          THEN [proc[p].child EXCEPT !.file = "none"] ELSE NoChild]
  /\ proc' = [proc EXCEPT ![p] = Gone]
  /\ health' = (health /\ p # "standalone")
  /\ IF p = "inline" THEN Lost ELSE UNCHANGED form
  /\ UNCHANGED <<conf, override, edits, job>>

\* RLIMIT_CPU of _limit_cpu. A child that hangs uses none.
KernelEnds(p) ==
  /\ orphan[p].life = "busy" /\ orphan[p].cpu > 0
  /\ orphan' = [orphan EXCEPT ![p] = NoChild]
  /\ UNCHANGED <<settings, proc, job, health, faults>>

\* Everything was stopped and is started with another config.toml.
Deploy ==
  /\ \A p \in Procs : At(p, "down")
  /\ edits < MaxEdits /\ edits' = edits + 1
  /\ \E d \in Deployments \ {conf} :
       /\ conf' = d
       /\ form' = [r \in Requests |-> [form[r] EXCEPT !.moved = Fields]]
  /\ UNCHANGED <<override, proc, job, orphan, health, faults>>

Older(n) == IF n < MaxAge THEN n + 1 ELSE n

\* What is due is served before the clock goes on.
Tick ==
  /\ \A p \in Procs : ~At(p, "claimed") /\ ~At(p, "ending") /\ ~Due(p)
  /\ job' = IF job.st = "running" THEN [job EXCEPT !.age = Older(@)] ELSE job
  /\ proc' = [p \in Procs |-> IF At(p, "waiting") THEN [proc[p] EXCEPT !.age = Older(@)] ELSE proc[p]]
  /\ UNCHANGED <<settings, orphan, health, faults>>

-----------------------------------------------------------------------------
Init ==
  /\ SettingsInit
  /\ proc = [p \in Procs |-> Gone]
  /\ job = [st |-> "queued", age |-> 0]
  /\ orphan = [p \in Procs |-> NoChild]
  /\ health = FALSE
  /\ faults = 0

Edit ==
  /\ Web
  /\ \/ \E r \in Requests : Show(r) \/ Submit(r) \/ Compare(r) \/ SetOverride(r) \/ Leave(r)
     \/ \E f \in Fields : ClearOverride(f)
  /\ UNCHANGED <<proc, job, orphan, health, faults>>

Work(p) == Claim(p) \/ StartChild(p) \/ Drained(p) \/ TimeUp(p) \/ Report(p) \/ Finish(p)
Parse(p) == ChildWrites(p) \/ ChildExits(p)
Ends == LoopEnds \/ Exit \/ Cancelled

Next ==
  \/ Edit
  \/ \E p \in Procs : Work(p) \/ Parse(p) \/ LoopFails(p) \/ Boot(p) \/ Kill(p) \/ KernelEnds(p)
  \/ Terminate \/ Shutdown \/ Ends \/ Deploy \/ Tick

\* The loops run, processes that are down are started again (restart:
\* unless-stopped), time passes, the kernel keeps its limits. Parses, faults
\* and administrators owe nothing.
Fairness ==
  /\ \A p \in Procs : WF_vars(Work(p)) /\ WF_vars(Boot(p)) /\ WF_vars(KernelEnds(p))
  /\ WF_vars(Ends) /\ WF_vars(Tick)

Spec == Init /\ [][Next]_vars /\ Fairness

-----------------------------------------------------------------------------
TypeOK ==
  /\ SettingsTypeOK
  /\ proc \in [Procs -> Call]
  /\ job \in [st : {"queued", "running", "done"}, age : 0..MaxAge]
  /\ orphan \in [Procs -> Child]
  /\ health \in BOOLEAN /\ faults \in 0..MaxFaults

\* No job is claimed again while a parse of it still runs under its parent:
\* whatever an administrator stored, and whatever deployment came after, the
\* child is ended first (app/ingest.py _extract_timeout_s).
ParsedOnce ==
  Cardinality({p \in Procs : Alive(proc[p].child)}) <= 1

\* A child outlives its call only when its parent was killed: not when the time
\* is up, not at a shutdown (app/ingest.py _extract_isolated, the finally).
NoChildOutlives ==
  \A p \in Procs : Alive(proc[p].child) => At(p, "waiting")

\* What the source is told is what happened: a result is one a child wrote
\* whole and left; an exhausted memory needs a cap or the parser's own word; a
\* timeout is nothing but the deadline (app/ingest.py _extract_isolated).
SaysWhatHappened ==
  [][\A p \in Procs : At(p, "ending") /\ proc'[p].pc = "after" =>
       LET c == proc[p]  says == proc'[p].says IN
       /\ says = "result" => c.child.file = "parsed" /\ c.child.life = "exited"
       /\ says = "memory" => c.child.file = "exhausted" \/ c.memory > 0
       /\ says = "timeout" => c.age >= c.deadline
       /\ says \in {"memory", "crashed", "error"} => c.child.life # "killed"]_vars

\* The health port answers only for a process whose loop has not ended, or that
\* is on its way out (app/worker_health.py, app/worker.py _run_standalone).
HealthyMeansLooping ==
  health => proc["standalone"].pc \in {"poll", "claimed", "waiting", "ending", "after", "leaving"}

\* A parse ends, even of a file its parser hangs on, or its parent is gone
\* (app/ingest.py _extract_isolated).
ParsesEnd == \A p \in Procs : At(p, "waiting") ~> (~At(p, "waiting") /\ ~At(p, "ending"))

\* An orphan that works is ended (app/extract_child.py _limit_cpu).
BusyOrphansEnd == \A p \in Procs : (orphan[p].life = "busy") ~> (orphan[p].life # "busy")

\* The job is done in the end, unless the only loop is the web process's and it
\* has ended under a web process that still serves (app/worker.py run_worker_loop).
JobIsDone ==
  <>(job.st = "done" \/ (At("inline", "dead") /\ "standalone" \notin conf.loops))

\* What others see of a worker is so, whichever of the deadline, the child's end and the
\* process's end comes first: a call leaves no child and says what happened to it, and
\* the port answers for a loop (app/ingest.py _extract_isolated, app/worker.py).
LeavesNoFalseTrace == [](NoChildOutlives /\ HealthyMeansLooping) /\ SaysWhatHappened

\* Nothing goes on for ever: no parse, no orphan that works, no job while a loop is left.
EverythingEnds == ParsesEnd /\ BusyOrphansEnd /\ JobIsDone
=============================================================================
