--------------------------- MODULE ExtractionProofs ---------------------------
(***************************************************************************)
(* What is proved of Extraction and of the settings it reads, for every    *)
(* set of deployments, typed values, forms and bounds. A call that holds   *)
(* the job has spent as much of the visibility timeout as of its own       *)
(* deadline, and the deadline ends below it: so nothing else can claim.    *)
(***************************************************************************)
EXTENDS Extraction, FiniteSetTheorems, TLAPS

\* A call from its claim to its report.
InHand == {"claimed", "waiting", "ending"}

\* A call that holds the job shares its clock with the claim; when it ends it knows
\* how its child did; a child works for a call that waits for it.
Sound(c) ==
  /\ c.pc \in InHand =>
       /\ c.age <= c.deadline /\ c.deadline <= conf.vis
       /\ c.pc = "claimed" => c.age = 0
       /\ job.st = "done" \/ (job.st = "running" /\ job.age = c.age)
  /\ c.pc = "ending" =>
       /\ c.outcome = "ok" => c.child.life = "exited"
       /\ c.outcome = "timeout" => c.age >= c.deadline
  /\ Alive(c.child) => c.pc = "waiting"

Alone == \A p, q \in Procs : proc[p].pc \in InHand /\ proc[q].pc \in InHand => p = q

CallType ==
  /\ proc \in [Procs -> Call]
  /\ job \in [st : {"queued", "running", "done"}, age : 0..MaxAge]
  /\ orphan \in [Procs -> Child]
  /\ health \in BOOLEAN /\ faults \in 0..MaxFaults

CallInv == CallType /\ (\A p \in Procs : Sound(proc[p])) /\ Alone /\ HealthyMeansLooping

\* The field a form stores next.
Upcoming(x) == IF "timeout" \in x.todo THEN "timeout" ELSE "memory"

\* A form that does not save has written nothing. What it has not written, and nothing
\* else has moved, is in force as it was then. The deadline comes first, and the memory
\* cap that was let in is let in for good. What is about to be written differs from
\* what was in force then, or was moved since.
Faithful(x) ==
  /\ x.pc \in {"idle", "shown", "refused"} => x.wrote = {}
  /\ x.pc \in {"shown", "saving", "writing"} =>
       \A f \in Fields \ (x.moved \cup x.wrote) : Effective[f] = x.seen[f]
  /\ x.pc \in {"saving", "writing"} =>
       /\ x.todo \cap x.wrote = {}
       /\ "timeout" \in x.todo => x.wrote = {}
       /\ Allowed("memory", x.typed["memory"])
  /\ x.pc = "writing" =>
       x.todo # {} /\ (Upcoming(x) \in x.moved \/ x.typed[Upcoming(x)] # x.seen[Upcoming(x)])
  /\ \A f \in x.wrote \ x.moved : x.typed[f] # x.seen[f]

FormInv == SettingsTypeOK /\ \A r \in Requests : Faithful(form[r])

Inv == CallInv /\ FormInv

-----------------------------------------------------------------------------
(* Types.                                                                  *)

LEMMA Blanks ==
  /\ NoChild \in Child /\ ~Alive(NoChild) /\ NoChild.life = "none" /\ NoChild.file = "none"
  /\ Free \in Call /\ Free.pc = "poll" /\ Free.age = 0 /\ Free.deadline = 0 /\ Free.child = NoChild
  /\ Gone \in Call /\ Gone.pc = "down" /\ Gone.child = NoChild
<1>1. NoChild \in Child /\ ~Alive(NoChild) /\ NoChild.life = "none" /\ NoChild.file = "none"
  BY DEF NoChild, Child, Files, Alive
<1>2. Free \in Call /\ Free.pc = "poll" /\ Free.age = 0 /\ Free.deadline = 0 /\ Free.child = NoChild
  BY <1>1, TimeAssumption DEF Free, Call
<1> QED
  BY <1>1, <1>2 DEF Gone, Call

\* The limits a parse reads are numbers, and its deadline ends below the visibility timeout.
LEMMA Limits ==
  ASSUME SettingsTypeOK
  PROVE  /\ conf \in [vis : Nat \ {0}, timeout : Nat, memory : Nat, loops : SUBSET {"inline", "standalone"}]
         /\ Effective \in [Fields -> Nat]
         /\ Deadline \in Nat /\ Deadline <= conf.vis
         /\ CpuLimit(Deadline) \in Nat
<1>1. conf \in [vis : Nat \ {0}, timeout : Nat, memory : Nat, loops : SUBSET {"inline", "standalone"}]
  BY DeploymentsAssumption DEF SettingsTypeOK
<1>2. Effective \in [Fields -> Nat]
  <2> SUFFICES ASSUME NEW f \in Fields
               PROVE  (IF override[f] = None THEN Default[f] ELSE override[f]) \in Nat
    BY DEF Effective
  <2>1. override[f] \in Nat \cup {None}
    BY DEF SettingsTypeOK
  <2>2. Default[f] \in Nat
    BY <1>1 DEF Default, Fields
  <2> QED
    BY <2>1, <2>2
<1>3. Ceiling \in Nat /\ Ceiling <= conf.vis
  BY <1>1 DEF Ceiling
<1>4. Effective["timeout"] \in Nat
  BY <1>2 DEF Fields
<1>5. Deadline \in Nat /\ Deadline <= conf.vis
  BY <1>3, <1>4, <1>1 DEF Deadline
<1> QED
  BY <1>1, <1>2, <1>5, TimeAssumption DEF CpuLimit

-----------------------------------------------------------------------------
(* The calls.                                                              *)

Looping == {"poll", "claimed", "waiting", "ending", "after", "leaving"}

\* A step of one process that touches no clock.
LEMMA OneCall ==
  ASSUME CallInv, NEW p \in Procs, NEW c \in Call, proc' = [proc EXCEPT ![p] = c],
         UNCHANGED <<conf, job>>, Sound(c), c.pc \in InHand => proc[p].pc \in InHand,
         health' => IF p = "standalone" THEN c.pc \in Looping ELSE health
  PROVE  /\ proc' \in [Procs -> Call]
         /\ (\A q \in Procs : Sound(proc[q]))' /\ Alone' /\ HealthyMeansLooping'
<1>1. proc \in [Procs -> Call]
  BY DEF CallInv, CallType
<1>2. /\ proc' \in [Procs -> Call] /\ proc'[p] = c
      /\ \A q \in Procs : q # p => proc'[q] = proc[q]
  BY <1>1
<1>3. ASSUME NEW q \in Procs PROVE Sound(proc[q])'
  <2>1. Sound(proc'[q])
    BY <1>2 DEF CallInv
  <2> QED
    BY <2>1 DEF Sound
<1>4. Alone'
  BY <1>2 DEF CallInv, Alone
<1>5. HealthyMeansLooping'
  BY <1>2 DEF CallInv, HealthyMeansLooping, Looping, Procs
<1> QED
  BY <1>2, <1>3, <1>4, <1>5

\* The same, with the types of what such a step may change besides.
LEMMA Kept ==
  ASSUME CallInv, NEW p \in Procs, NEW c \in Call, proc' = [proc EXCEPT ![p] = c],
         UNCHANGED <<conf, job>>, Sound(c), c.pc \in InHand => proc[p].pc \in InHand,
         health' => IF p = "standalone" THEN c.pc \in Looping ELSE health,
         orphan' \in [Procs -> Child], health' \in BOOLEAN, faults' \in 0..MaxFaults
  PROVE  CallInv'
<1>1. CallType'
  BY OneCall DEF CallInv, CallType
<1> QED
  BY <1>1, OneCall DEF CallInv

LEMMA ClaimStep ==
  ASSUME FormInv, CallInv, NEW p \in Procs, Claim(p)
  PROVE  CallInv'
<1>1. proc \in [Procs -> Call] /\ job \in [st : {"queued", "running", "done"}, age : 0..MaxAge]
  BY DEF CallInv, CallType
<1>2. PICK c : c = [Free EXCEPT !.pc = "claimed"]
  OBVIOUS
<1>3. c \in Call /\ c.pc = "claimed" /\ c.age = 0 /\ c.deadline = 0 /\ ~Alive(c.child)
  BY <1>2, Blanks DEF Call
<1>4. proc' = [proc EXCEPT ![p] = c]
  BY <1>2 DEF Claim
<1>5. /\ proc' \in [Procs -> Call] /\ proc'[p] = c
      /\ \A q \in Procs : q # p => proc'[q] = proc[q]
  BY <1>1, <1>3, <1>4
<1>6. job'.st = "running" /\ job'.age = 0 /\ conf' = conf
      /\ job' \in [st : {"queued", "running", "done"}, age : 0..MaxAge]
  BY TimeAssumption DEF Claim, settings
<1>7. conf.vis \in Nat
  BY Limits DEF FormInv
<1>8. ASSUME NEW q \in Procs PROVE proc[q].pc \notin InHand
  <2>1. proc[q].age \in Nat /\ proc[q].deadline \in Nat /\ job.age \in Nat
    BY <1>1, TimeAssumption DEF Call
  <2>2. Sound(proc[q])
    BY DEF CallInv
  <2> QED
    BY <2>1, <2>2, <1>7 DEF Claim, Runnable, Sound
<1>9. ASSUME NEW q \in Procs PROVE Sound(proc[q])'
  <2>1. CASE q = p
    BY <2>1, <1>3, <1>5, <1>6, <1>7 DEF Sound
  <2>2. CASE q # p
    <3>1. Sound(proc[q]) /\ proc'[q] = proc[q] /\ proc[q].pc \notin InHand
      BY <2>2, <1>5, <1>8 DEF CallInv
    <3> QED
      BY <3>1 DEF Sound, InHand
  <2> QED
    BY <2>1, <2>2
<1>10. Alone'
  BY <1>5, <1>8 DEF Alone
<1>11. HealthyMeansLooping'
  BY <1>3, <1>5 DEF Claim, At, CallInv, HealthyMeansLooping, Procs
<1>12. CallType'
  BY <1>5, <1>6 DEF CallType, CallInv, Claim
<1> QED
  BY <1>9, <1>10, <1>11, <1>12 DEF CallInv

LEMMA StartChildStep ==
  ASSUME FormInv, CallInv, NEW p \in Procs, StartChild(p)
  PROVE  CallInv'
<1>1. proc \in [Procs -> Call] /\ proc[p] \in Call
  BY DEF CallInv, CallType
<1>2. /\ Deadline \in Nat /\ Deadline <= conf.vis /\ CpuLimit(Deadline) \in Nat
      /\ Effective["memory"] \in Nat
  BY Limits DEF FormInv, Fields
<1>3. PICK life \in {"busy", "stuck"} :
        proc' = [proc EXCEPT ![p].pc = "waiting", ![p].age = 0, ![p].deadline = Deadline,
                   ![p].memory = Effective["memory"],
                   ![p].child = [NoChild EXCEPT !.life = life, !.cpu = CpuLimit(Deadline)]]
  BY DEF StartChild
<1>4. PICK d : d = Deadline
  OBVIOUS
<1>5. PICK m : m = Effective["memory"]
  OBVIOUS
<1>6. PICK k : k = [NoChild EXCEPT !.life = life, !.cpu = CpuLimit(Deadline)]
  OBVIOUS
<1>7. k \in Child
  BY <1>2, <1>6, Blanks DEF Child
<1>8. PICK c : c = [proc[p] EXCEPT !.pc = "waiting", !.age = 0, !.deadline = d, !.memory = m, !.child = k]
  OBVIOUS
<1>9. c \in Call /\ c.pc = "waiting" /\ c.age = 0 /\ c.deadline = d /\ c.child = k
  <2>1. 0 \in 0 .. MaxAge /\ d \in Nat /\ m \in Nat
    BY <1>2, <1>4, <1>5, TimeAssumption
  <2> QED
    BY <1>1, <1>7, <1>8, <2>1 DEF Call
<1>10. proc' = [proc EXCEPT ![p] = c]
  BY <1>1, <1>3, <1>4, <1>5, <1>6, <1>8
<1>11. proc[p].pc = "claimed" /\ UNCHANGED <<conf, job, orphan, health, faults>>
  BY DEF StartChild, At, settings
<1>12. Sound(proc[p])
  BY DEF CallInv
<1>13. proc[p].age = 0 /\ (job.st = "done" \/ (job.st = "running" /\ job.age = 0))
  BY <1>11, <1>12 DEF Sound, InHand
<1>14. Sound(c)
  BY <1>2, <1>4, <1>9, <1>13 DEF Sound
<1>15. /\ proc' \in [Procs -> Call]
       /\ (\A q \in Procs : Sound(proc[q]))' /\ Alone' /\ HealthyMeansLooping'
  <2>1. health' => IF p = "standalone" THEN c.pc \in Looping ELSE health
    BY <1>9, <1>11 DEF Looping
  <2>2. proc[p].pc \in InHand
    BY <1>11 DEF InHand
  <2> QED
    BY <1>9, <1>10, <1>11, <1>14, <2>1, <2>2, OneCall
<1> QED
  BY <1>11, <1>15 DEF CallInv, CallType

\* The steps of a call that wait for no clock, one lemma each.
LEMMA ChildSteps ==
  ASSUME CallInv, NEW p \in Procs, ChildWrites(p) \/ ChildExits(p)
  PROVE  CallInv'
<1>1. proc \in [Procs -> Call] /\ proc[p] \in Call /\ proc[p].child \in Child /\ Sound(proc[p])
  BY DEF CallInv, CallType, Call
<1>2. proc[p].pc = "waiting" /\ UNCHANGED <<conf, job, orphan, health, faults>>
  BY DEF ChildWrites, ChildExits, At, settings
<1>3. \E k \in Child : proc' = [proc EXCEPT ![p].child = k]
  <2>1. CASE ChildWrites(p)
    <3>1. PICK file \in Files \ {"none"}, life \in {"busy", "stuck"} :
            proc' = [proc EXCEPT ![p].child.file = file, ![p].child.life = IF file = "half" THEN "exited" ELSE life]
      BY <2>1 DEF ChildWrites
    <3>2. PICK end : end = IF file = "half" THEN "exited" ELSE life
      OBVIOUS
    <3>3. PICK k : k = [proc[p].child EXCEPT !.file = file, !.life = end]
      OBVIOUS
    <3>4. k \in Child
      BY <1>1, <3>2, <3>3 DEF Child
    <3>5. proc' = [proc EXCEPT ![p].child = k]
      BY <1>1, <3>1, <3>2, <3>3 DEF Call
    <3> QED
      BY <3>4, <3>5
  <2>2. CASE ChildExits(p)
    <3>1. PICK noise \in BOOLEAN :
            proc' = [proc EXCEPT ![p].child.life = "exited", ![p].child.noise = noise]
      BY <2>2 DEF ChildExits
    <3>2. PICK k : k = [proc[p].child EXCEPT !.life = "exited", !.noise = noise]
      OBVIOUS
    <3>3. k \in Child
      BY <1>1, <3>2 DEF Child
    <3>4. proc' = [proc EXCEPT ![p].child = k]
      BY <1>1, <3>1, <3>2 DEF Call
    <3> QED
      BY <3>3, <3>4
  <2> QED
    BY <2>1, <2>2
<1>4. PICK k \in Child : proc' = [proc EXCEPT ![p].child = k]
  BY <1>3
<1>5. PICK c : c = [proc[p] EXCEPT !.child = k]
  OBVIOUS
<1>6. /\ c \in Call /\ c.pc = "waiting" /\ c.age = proc[p].age /\ c.deadline = proc[p].deadline
      /\ proc' = [proc EXCEPT ![p] = c]
  BY <1>1, <1>2, <1>4, <1>5 DEF Call
<1>7. Sound(c)
  BY <1>1, <1>2, <1>6 DEF Sound, InHand
<1> QED
  BY <1>2, <1>6, <1>7, Kept DEF InHand, Looping, CallInv, CallType

LEMMA DrainedStep ==
  ASSUME CallInv, NEW p \in Procs, Drained(p)
  PROVE  CallInv'
<1>1. proc \in [Procs -> Call] /\ proc[p] \in Call /\ Sound(proc[p])
  BY DEF CallInv, CallType
<1>2. /\ proc[p].pc = "waiting" /\ proc[p].child.life = "exited"
      /\ UNCHANGED <<conf, job, orphan, health, faults>>
  BY DEF Drained, At, settings
<1>3. PICK c : c = [proc[p] EXCEPT !.pc = "ending", !.outcome = "ok"]
  OBVIOUS
<1>4. /\ c \in Call /\ c.pc = "ending" /\ c.outcome = "ok" /\ c.age = proc[p].age
      /\ c.deadline = proc[p].deadline /\ c.child = proc[p].child
  BY <1>1, <1>3 DEF Call
<1>5. proc' = [proc EXCEPT ![p] = c]
  BY <1>1, <1>3 DEF Drained
<1>6. Sound(c)
  BY <1>1, <1>2, <1>4 DEF Sound, InHand, Alive
<1> QED
  BY <1>2, <1>4, <1>5, <1>6, Kept DEF InHand, Looping, CallInv, CallType

LEMMA Killed ==
  ASSUME NEW k \in Child
  PROVE  KilledChild(k) \in Child /\ ~Alive(KilledChild(k))
BY DEF KilledChild, Child, Alive

LEMMA TimeUpStep ==
  ASSUME CallInv, NEW p \in Procs, TimeUp(p)
  PROVE  CallInv'
<1>1. proc \in [Procs -> Call] /\ proc[p] \in Call /\ proc[p].child \in Child /\ Sound(proc[p])
  BY DEF CallInv, CallType, Call
<1>2. /\ proc[p].pc = "waiting" /\ proc[p].age >= proc[p].deadline
      /\ UNCHANGED <<conf, job, orphan, health, faults>>
  BY DEF TimeUp, Due, At, settings
<1>3. PICK k : k = KilledChild(proc[p].child)
  OBVIOUS
<1>4. k \in Child /\ ~Alive(k)
  BY <1>1, <1>3, Killed
<1>5. PICK c : c = [proc[p] EXCEPT !.pc = "ending", !.outcome = "timeout", !.child = k]
  OBVIOUS
<1>6. /\ c \in Call /\ c.pc = "ending" /\ c.outcome = "timeout" /\ c.age = proc[p].age
      /\ c.deadline = proc[p].deadline /\ c.child = k
  BY <1>1, <1>4, <1>5 DEF Call
<1>7. proc' = [proc EXCEPT ![p] = c]
  BY <1>1, <1>3, <1>5 DEF TimeUp
<1>8. Sound(c)
  BY <1>1, <1>2, <1>4, <1>6 DEF Sound, InHand
<1> QED
  BY <1>2, <1>6, <1>7, <1>8, Kept DEF InHand, Looping, CallInv, CallType

LEMMA ReportStep ==
  ASSUME CallInv, NEW p \in Procs, Report(p)
  PROVE  CallInv'
<1>1. proc \in [Procs -> Call] /\ proc[p] \in Call
  BY DEF CallInv, CallType
<1>2. proc[p].pc = "ending" /\ UNCHANGED <<conf, job, orphan, health, faults>>
  BY DEF Report, At, settings
<1>3. PICK says : says = Says(proc[p])
  OBVIOUS
<1>4. says \in {"timeout", "result", "error", "memory", "crashed"}
  BY <1>3 DEF Says
<1>5. PICK stop : stop = proc[p].stop
  OBVIOUS
<1>6. stop \in BOOLEAN
  BY <1>1, <1>5 DEF Call
<1>7. PICK c : c = [Free EXCEPT !.pc = "after", !.stop = stop, !.says = says]
  OBVIOUS
<1>8. c \in Call /\ c.pc = "after" /\ c.child = NoChild
  BY <1>4, <1>6, <1>7, Blanks DEF Call
<1>9. proc' = [proc EXCEPT ![p] = c]
  BY <1>3, <1>5, <1>7 DEF Report
<1>10. Sound(c)
  BY <1>8, Blanks DEF Sound, InHand
<1> QED
  BY <1>2, <1>8, <1>9, <1>10, Kept DEF InHand, Looping, CallInv, CallType

LEMMA FinishStep ==
  ASSUME CallInv, NEW p \in Procs, Finish(p)
  PROVE  CallInv'
<1>1. proc \in [Procs -> Call] /\ proc[p] \in Call
  BY DEF CallInv, CallType
<1>2. proc[p].pc = "after" /\ UNCHANGED <<conf, orphan, health, faults>>
  BY DEF Finish, At, settings
<1>3. PICK stop : stop = proc[p].stop
  OBVIOUS
<1>4. PICK c : c = [Free EXCEPT !.stop = stop]
  OBVIOUS
<1>5. stop \in BOOLEAN
  BY <1>1, <1>3 DEF Call
<1>6. c \in Call /\ c.pc = "poll" /\ c.child = NoChild
  BY <1>4, <1>5, Blanks DEF Call
<1>7. proc' = [proc EXCEPT ![p] = c]
  BY <1>3, <1>4 DEF Finish
<1>8. /\ proc' \in [Procs -> Call] /\ proc'[p] = c
      /\ \A q \in Procs : q # p => proc'[q] = proc[q]
  BY <1>1, <1>6, <1>7
<1>9. /\ job' \in [st : {"queued", "running", "done"}, age : 0..MaxAge]
      /\ job'.st = "done" \/ job' = job
      /\ job.st # "running" => job' = job
  BY TimeAssumption DEF Finish, CallInv, CallType
<1>10. ASSUME NEW q \in Procs PROVE Sound(proc[q])'
  <2>1. CASE q = p
    BY <2>1, <1>6, <1>8, Blanks DEF Sound, InHand
  <2>2. CASE q # p
    <3>1. Sound(proc[q]) /\ proc'[q] = proc[q]
      BY <2>2, <1>8 DEF CallInv
    <3> QED
      BY <3>1, <1>2, <1>9 DEF Sound
  <2> QED
    BY <2>1, <2>2
<1>11. Alone'
  BY <1>6, <1>8 DEF Alone, InHand, CallInv
<1>12. HealthyMeansLooping'
  BY <1>2, <1>6, <1>8 DEF CallInv, HealthyMeansLooping, Procs
<1>13. CallType'
  BY <1>2, <1>8, <1>9 DEF CallType, CallInv
<1> QED
  BY <1>10, <1>11, <1>12, <1>13 DEF CallInv

\* Calls and processes that are over: what is left of them holds nothing.
LEMMA OverStep ==
  ASSUME CallInv, NEW p \in Procs, NEW c \in Call, proc' = [proc EXCEPT ![p] = c],
         c.pc \notin InHand, ~Alive(c.child), UNCHANGED <<conf, job>>,
         health' => IF p = "standalone" THEN c.pc \in Looping ELSE health,
         orphan' \in [Procs -> Child], health' \in BOOLEAN, faults' \in 0..MaxFaults
  PROVE  CallInv'
<1>1. Sound(c)
  BY DEF Sound, InHand
<1> QED
  BY <1>1, Kept

LEMMA Fault == ASSUME CallType, Faulty PROVE faults' \in 0..MaxFaults
BY TimeAssumption DEF Faulty, CallType

LEMMA LoopFailsStep ==
  ASSUME CallInv, NEW p \in Procs, LoopFails(p)
  PROVE  CallInv'
<1>1. PICK pc : pc = IF p = "inline" THEN "dead" ELSE "leaving"
  OBVIOUS
<1>2. PICK c : c = [Free EXCEPT !.pc = pc]
  OBVIOUS
<1>3. c \in Call /\ c.pc = pc /\ c.child = NoChild
  BY <1>1, <1>2, Blanks DEF Call
<1>4. proc' = [proc EXCEPT ![p] = c]
  BY <1>1, <1>2 DEF LoopFails
<1>5. UNCHANGED <<conf, job, orphan, health>> /\ faults' \in 0..MaxFaults
  BY Fault DEF LoopFails, settings, CallInv
<1>6. health' => IF p = "standalone" THEN c.pc \in Looping ELSE health
  BY <1>1, <1>3, <1>5 DEF Looping
<1>7. c.pc \notin InHand /\ ~Alive(c.child)
  BY <1>1, <1>3, Blanks DEF InHand
<1> QED
  BY <1>3, <1>4, <1>5, <1>6, <1>7, OverStep DEF CallInv, CallType

LEMMA BootStep ==
  ASSUME CallInv, NEW p \in Procs, Boot(p)
  PROVE  CallInv'
<1>1. PICK pc : pc = IF p \in conf.loops THEN "poll" ELSE "serving"
  OBVIOUS
<1>2. PICK c : c = [Free EXCEPT !.pc = pc]
  OBVIOUS
<1>3. c \in Call /\ c.pc = pc /\ c.child = NoChild
  BY <1>1, <1>2, Blanks DEF Call
<1>4. proc' = [proc EXCEPT ![p] = c]
  BY <1>1, <1>2 DEF Boot
<1>5. UNCHANGED <<conf, job, orphan, faults>> /\ health' = (health \/ p = "standalone")
  BY DEF Boot, settings
<1>6. health' => IF p = "standalone" THEN c.pc \in Looping ELSE health
  BY <1>1, <1>3, <1>5 DEF Looping, Boot
<1>7. c.pc \notin InHand /\ ~Alive(c.child)
  BY <1>1, <1>3, Blanks DEF InHand
<1>8. health' \in BOOLEAN
  BY <1>5
<1> QED
  BY <1>3, <1>4, <1>5, <1>6, <1>7, <1>8, OverStep DEF CallInv, CallType

LEMMA TerminateStep ==
  ASSUME CallInv, Terminate
  PROVE  CallInv'
<1>1. "standalone" \in Procs /\ proc \in [Procs -> Call] /\ proc["standalone"] \in Call
  BY DEF CallInv, CallType, Procs
<1>2. PICK c : c = [proc["standalone"] EXCEPT !.stop = TRUE]
  OBVIOUS
<1>3. /\ c \in Call /\ c.pc = proc["standalone"].pc /\ c.child = proc["standalone"].child
      /\ c.age = proc["standalone"].age /\ c.deadline = proc["standalone"].deadline
      /\ c.outcome = proc["standalone"].outcome
  BY <1>1, <1>2 DEF Call
<1>4. proc' = [proc EXCEPT !["standalone"] = c]
  BY <1>1, <1>2 DEF Terminate
<1>5. UNCHANGED <<conf, job, orphan, health>> /\ faults' \in 0..MaxFaults
  BY Fault DEF Terminate, settings, CallInv
<1>6. Sound(proc["standalone"])
  BY <1>1 DEF CallInv
<1>7. Sound(c)
  BY <1>3, <1>6 DEF Sound
<1>8. health' => c.pc \in Looping
  BY <1>3, <1>5 DEF CallInv, HealthyMeansLooping, Looping
<1> QED
  BY <1>1, <1>3, <1>4, <1>5, <1>7, <1>8, Kept DEF CallInv, CallType

LEMMA EndsStep ==
  ASSUME CallInv, Ends
  PROVE  CallInv'
<1>1. "standalone" \in Procs /\ "inline" \in Procs /\ "inline" # "standalone" /\ proc \in [Procs -> Call]
  BY DEF CallInv, CallType, Procs
<1>2. CASE LoopEnds
  <2>1. PICK c : c = [proc["standalone"] EXCEPT !.pc = "leaving"]
    OBVIOUS
  <2>2. c \in Call /\ c.pc = "leaving" /\ c.child = proc["standalone"].child
    BY <1>1, <2>1 DEF Call
  <2>3. proc' = [proc EXCEPT !["standalone"] = c]
    BY <1>1, <1>2, <2>1 DEF LoopEnds
  <2>4. ~Alive(c.child)
    <3>1. Sound(proc["standalone"])
      BY <1>1 DEF CallInv
    <3> QED
      BY <1>2, <2>2, <3>1 DEF Sound, LoopEnds, At
  <2>5. UNCHANGED <<conf, job, orphan, health, faults>>
    BY <1>2 DEF LoopEnds, settings
  <2> QED
    BY <1>1, <2>2, <2>3, <2>4, <2>5, OverStep DEF InHand, Looping, CallInv, CallType
<1>3. CASE Exit
  <2>1. UNCHANGED <<conf, job, orphan, faults>> /\ health' = FALSE
    BY <1>3 DEF Exit, settings
  <2>2. proc' = [proc EXCEPT !["standalone"] = Gone]
    BY <1>3 DEF Exit
  <2> QED
    BY <1>1, <2>1, <2>2, OverStep, Blanks DEF InHand, CallInv, CallType
<1>4. CASE Cancelled
  <2>1. UNCHANGED <<conf, job, orphan, health, faults>>
    BY <1>4 DEF Cancelled, settings
  <2>2. proc' = [proc EXCEPT !["inline"] = Gone]
    BY <1>4 DEF Cancelled
  <2> QED
    BY <1>1, <2>1, <2>2, OverStep, Blanks DEF InHand, CallInv, CallType
<1> QED
  BY <1>2, <1>3, <1>4 DEF Ends

LEMMA ShutdownStep ==
  ASSUME CallInv, Shutdown
  PROVE  CallInv'
<1>1. /\ "inline" \in Procs /\ "inline" # "standalone" /\ proc \in [Procs -> Call]
      /\ proc["inline"] \in Call /\ proc["inline"].child \in Child /\ Sound(proc["inline"])
  BY DEF CallInv, CallType, Procs, Call
<1>2. UNCHANGED <<conf, job, orphan, health>> /\ faults' \in 0..MaxFaults
  BY Fault DEF Shutdown, CallInv
<1>3. CASE proc["inline"].pc \in {"waiting", "ending"}
  <2>1. PICK k : k = KilledChild(proc["inline"].child)
    OBVIOUS
  <2>2. k \in Child /\ ~Alive(k)
    BY <1>1, <2>1, Killed
  <2>3. PICK c : c = [proc["inline"] EXCEPT !.pc = "ending", !.outcome = "cancelled", !.child = k]
    OBVIOUS
  <2>4. /\ c \in Call /\ c.pc = "ending" /\ c.outcome = "cancelled" /\ c.child = k
        /\ c.age = proc["inline"].age /\ c.deadline = proc["inline"].deadline
    BY <1>1, <2>2, <2>3 DEF Call
  <2>5. proc' = [proc EXCEPT !["inline"] = c]
    BY <1>3, <2>1, <2>3 DEF Shutdown
  <2>6. Sound(c)
    BY <1>1, <1>3, <2>2, <2>4 DEF Sound, InHand
  <2> QED
    BY <1>1, <1>2, <1>3, <2>4, <2>5, <2>6, Kept DEF InHand, CallInv, CallType
<1>4. CASE proc["inline"].pc \notin {"waiting", "ending"}
  <2>1. proc' = [proc EXCEPT !["inline"] = Gone]
    BY <1>4 DEF Shutdown
  <2> QED
    BY <1>1, <1>2, <2>1, OverStep, Blanks DEF InHand, CallInv, CallType
<1> QED
  BY <1>3, <1>4

LEMMA KillStep ==
  ASSUME CallInv, NEW p \in Procs, Kill(p)
  PROVE  CallInv'
<1>1. orphan \in [Procs -> Child] /\ proc \in [Procs -> Call] /\ proc[p].child \in Child
  BY DEF CallInv, CallType, Call
<1>2. UNCHANGED <<conf, job>> /\ faults' \in 0..MaxFaults
  BY Fault DEF Kill, CallInv
<1>3. orphan' \in [Procs -> Child]
  <2>1. PICK k : k = IF Alive(proc[p].child) THEN [proc[p].child EXCEPT !.file = "none"] ELSE NoChild
    OBVIOUS
  <2>2. k \in Child
    BY <1>1, <2>1, Blanks DEF Child, Files
  <2>3. orphan' = [orphan EXCEPT ![p] = k]
    BY <2>1 DEF Kill
  <2> QED
    BY <1>1, <2>2, <2>3
<1>4. PICK c : c = Gone
  OBVIOUS
<1>5. proc' = [proc EXCEPT ![p] = c] /\ c \in Call /\ c.pc \notin InHand /\ ~Alive(c.child)
  BY <1>4, Blanks DEF Kill, InHand
<1>6. health' \in BOOLEAN /\ (health' => IF p = "standalone" THEN c.pc \in Looping ELSE health)
  BY DEF Kill, CallInv, CallType
<1> QED
  BY <1>2, <1>3, <1>5, <1>6, OverStep

LEMMA KernelStep ==
  ASSUME CallInv, NEW p \in Procs, KernelEnds(p)
  PROVE  CallInv'
<1>1. orphan' \in [Procs -> Child] /\ UNCHANGED <<conf, proc, job, health, faults>>
  BY Blanks DEF KernelEnds, settings, CallInv, CallType
<1> QED
  BY <1>1 DEF CallInv, CallType, Sound, Alone, HealthyMeansLooping

LEMMA DeployStep ==
  ASSUME CallInv, Deploy
  PROVE  CallInv'
<1>1. UNCHANGED <<proc, job, orphan, health, faults>> /\ \A p \in Procs : proc[p].pc = "down"
  BY DEF Deploy, At
<1> QED
  BY <1>1 DEF CallInv, CallType, Sound, InHand, Alone, HealthyMeansLooping

LEMMA TickStep ==
  ASSUME CallInv, Tick
  PROVE  CallInv'
<1>1. proc \in [Procs -> Call] /\ job \in [st : {"queued", "running", "done"}, age : 0..MaxAge]
  BY DEF CallInv, CallType
<1>2. UNCHANGED <<conf, orphan, health, faults>>
  BY DEF Tick, settings
<1>3. ASSUME NEW n \in 0..MaxAge PROVE Older(n) \in 0..MaxAge /\ Older(n) <= n + 1
  BY TimeAssumption DEF Older
<1>4. ASSUME NEW p \in Procs
      PROVE  /\ proc'[p] = IF proc[p].pc = "waiting" THEN [proc[p] EXCEPT !.age = Older(proc[p].age)] ELSE proc[p]
             /\ proc[p].pc \notin {"claimed", "ending"}
             /\ proc[p].pc = "waiting" => proc[p].age < proc[p].deadline
  <2>1. proc[p].age \in Nat /\ proc[p].deadline \in Nat
    BY <1>1, TimeAssumption DEF Call
  <2> QED
    BY <2>1 DEF Tick, At, Due
<1>5. ASSUME NEW p \in Procs
      PROVE  /\ proc'[p] \in Call /\ proc'[p].pc = proc[p].pc /\ proc'[p].child = proc[p].child
             /\ proc'[p].deadline = proc[p].deadline
             /\ proc[p].pc = "waiting" => proc'[p].age = Older(proc[p].age)
  <2>1. proc[p] \in Call /\ proc[p].age \in 0..MaxAge
    BY <1>1 DEF Call
  <2>2. CASE proc[p].pc = "waiting"
    <3>1. PICK n : n = Older(proc[p].age)
      OBVIOUS
    <3>2. n \in 0..MaxAge
      BY <1>3, <2>1, <3>1
    <3>3. proc'[p] = [proc[p] EXCEPT !.age = n]
      BY <1>4, <2>2, <3>1
    <3> QED
      BY <2>1, <3>1, <3>2, <3>3 DEF Call
  <2>3. CASE proc[p].pc # "waiting"
    BY <1>4, <2>1, <2>3
  <2> QED
    BY <2>2, <2>3
<1>6. proc' \in [Procs -> Call]
  <2>1. proc' = [p \in Procs |-> proc'[p]]
    BY DEF Tick
  <2> QED
    BY <1>5, <2>1
<1>7. /\ job' \in [st : {"queued", "running", "done"}, age : 0..MaxAge] /\ job'.st = job.st
      /\ job.st = "running" => job'.age = Older(job.age)
  <2>1. PICK n : n = Older(job.age)
    OBVIOUS
  <2>2. n \in 0..MaxAge
    BY <1>1, <1>3, <2>1
  <2>3. job' = IF job.st = "running" THEN [job EXCEPT !.age = n] ELSE job
    BY <2>1 DEF Tick
  <2> QED
    BY <1>1, <2>1, <2>2, <2>3
<1>8. ASSUME NEW p \in Procs PROVE Sound(proc[p])'
  <2>1. Sound(proc[p])
    BY DEF CallInv
  <2>2. CASE proc[p].pc = "waiting"
    <3>1. proc[p].age \in 0..MaxAge /\ proc[p].age \in Nat /\ proc[p].deadline \in Nat
      BY <1>1, TimeAssumption DEF Call
    <3>2. Older(proc[p].age) <= proc[p].deadline
      <4>1. PICK n : n = Older(proc[p].age)
        OBVIOUS
      <4>2. n \in Nat /\ n <= proc[p].age + 1
        BY <1>3, <3>1, <4>1, TimeAssumption
      <4>3. proc[p].age < proc[p].deadline
        BY <1>4, <2>2
      <4>4. n <= proc[p].deadline
        BY <3>1, <4>2, <4>3
      <4> QED
        BY <4>1, <4>4
    <3> QED
      BY <1>2, <1>5, <1>7, <2>1, <2>2, <3>2 DEF Sound, InHand
  <2>3. CASE proc[p].pc # "waiting"
    <3>1. proc'[p] = proc[p] /\ proc[p].pc \notin InHand /\ ~Alive(proc[p].child)
      BY <1>4, <2>1, <2>3 DEF Sound, InHand
    <3> QED
      BY <3>1 DEF Sound, InHand
  <2> QED
    BY <2>2, <2>3
<1>9. Alone' /\ HealthyMeansLooping'
  BY <1>2, <1>5 DEF CallInv, Alone, HealthyMeansLooping, Procs
<1> QED
  BY <1>2, <1>6, <1>7, <1>8, <1>9 DEF CallInv, CallType

\* Editing the settings changes no call: the deployment stays.
LEMMA EditStep ==
  ASSUME CallInv, Edit \/ UNCHANGED vars
  PROVE  CallInv'
<1>1. UNCHANGED <<conf, proc, job, orphan, health, faults>>
  BY DEF Edit, vars, settings, Show, Submit, Compare, SetOverride, Leave, ClearOverride
<1> QED
  BY <1>1 DEF CallInv, CallType, Sound, Alone, HealthyMeansLooping

-----------------------------------------------------------------------------
(* The forms.                                                              *)

LEMMA BlankIs == Blank \in Form /\ Faithful(Blank) /\ Faithful(Blank)'
<1>1. Blank \in Form
  BY DEF Blank, Form
<1>2. Blank.pc = "idle" /\ Blank.wrote = {}
  BY DEF Blank
<1> QED
  BY <1>1, <1>2 DEF Faithful

\* The bound of the memory cap is no deployment's.
LEMMA MemoryBound ==
  ASSUME NEW v \in Nat
  PROVE  /\ Allowed("memory", v) <=> (v = 0 \/ v >= 2)
         /\ Allowed("memory", v)' <=> (v = 0 \/ v >= 2)
BY DEF Allowed, Minimum

\* What is in force, field by field.
LEMMA InForce ==
  ASSUME NEW f \in Fields, conf' = conf, override'[f] = override[f]
  PROVE  Effective'[f] = Effective[f]
BY DEF Effective, Default

\* The forms that one step leaves alone.
LEMMA SameForm ==
  ASSUME NEW x \in Form, Faithful(x), UNCHANGED <<conf, override>>
  PROVE  Faithful(x)'
<1>1. \A f \in Fields : Effective'[f] = Effective[f]
  BY InForce
<1>2. Allowed("memory", x.typed["memory"])' <=> Allowed("memory", x.typed["memory"])
  BY MemoryBound DEF Form, Fields
<1> QED
  BY <1>1, <1>2 DEF Faithful, Upcoming

\* A step of one form.
LEMMA OneForm ==
  ASSUME FormInv, NEW r \in Requests, NEW x \in Form, form' = [form EXCEPT ![r] = x],
         UNCHANGED <<conf, override>>, Faithful(x), edits' \in 0..MaxEdits
  PROVE  FormInv'
<1>1. form \in [Requests -> Form]
  BY DEF FormInv, SettingsTypeOK
<1>2. /\ form' \in [Requests -> Form] /\ form'[r] = x
      /\ \A q \in Requests : q # r => form'[q] = form[q]
  BY <1>1
<1>3. ASSUME NEW q \in Requests PROVE Faithful(form[q])'
  <2>1. form'[q] \in Form /\ Faithful(form'[q])
    BY <1>2 DEF FormInv
  <2>2. PICK y : y = form'[q]
    OBVIOUS
  <2>3. Faithful(y)'
    BY <2>1, <2>2, SameForm
  <2> QED
    BY <2>2, <2>3 DEF Faithful, Upcoming
<1> QED
  BY <1>2, <1>3 DEF FormInv, SettingsTypeOK

\* What the page shows is a number, and a short value as it is.
LEMMA ShownIs ==
  ASSUME NEW v \in Nat
  PROVE  Shown(v) \in Nat /\ (v < Precise => Shown(v) = v)
<1>1. PICK n : n = (v + Coarse \div 2) \div Coarse
  OBVIOUS
<1>2. Coarse \div 2 \in Nat
  BY DigitsAssumption
<1>3. PICK m \in Nat : m = v + Coarse \div 2
  BY <1>2
<1>4. m \div Coarse \in Nat
  BY DigitsAssumption
<1>5. Coarse * n \in Nat
  BY <1>1, <1>3, <1>4, DigitsAssumption
<1> QED
  BY <1>1, <1>5 DEF Shown

LEMMA ShowStep ==
  ASSUME FormInv, NEW r \in Requests, Show(r)
  PROVE  FormInv'
<1>1. Effective \in [Fields -> Nat]
  BY Limits DEF FormInv
<1>2. PICK e : e = Effective
  OBVIOUS
<1>a. PICK d : d = [f \in Fields |-> Shown(e[f])]
  OBVIOUS
<1>b. d \in [Fields -> Nat]
  BY <1>1, <1>2, <1>a, ShownIs
<1>3. PICK x : x = [Blank EXCEPT !.pc = "shown", !.seen = e, !.typed = d]
  OBVIOUS
<1>4. x \in Form /\ x.pc = "shown" /\ x.seen = e /\ x.wrote = {}
  BY <1>1, <1>2, <1>b, <1>3, BlankIs DEF Form, Blank
<1>5. form' = [form EXCEPT ![r] = x]
  BY <1>2, <1>a, <1>3 DEF Show
<1>6. Faithful(x)
  BY <1>2, <1>4 DEF Faithful
<1>7. UNCHANGED <<conf, override>> /\ edits' \in 0..MaxEdits
  BY DeploymentsAssumption DEF Show, FormInv, SettingsTypeOK
<1> QED
  BY <1>4, <1>5, <1>6, <1>7, OneForm

LEMMA SubmitStep ==
  ASSUME FormInv, NEW r \in Requests, Submit(r)
  PROVE  FormInv'
<1>1. form[r] \in Form /\ Faithful(form[r]) /\ form[r].pc = "shown"
  BY DEF Submit, FormInv, SettingsTypeOK
<1>2. UNCHANGED <<conf, override>> /\ edits' \in 0..MaxEdits
  BY DEF Submit, FormInv, SettingsTypeOK
<1>3. PICK typed \in [Fields -> UNION {Values[f] : f \in Fields} \cup {form[r].typed[f] : f \in Fields}] :
        /\ \A f \in Fields : typed[f] \in Values[f] \cup {form[r].typed[f]}
        /\ \/ ~Valid(typed) /\ form' = [form EXCEPT ![r] = [Blank EXCEPT !.pc = "refused"]]
           \/ Valid(typed) /\ form' = [form EXCEPT ![r].pc = "saving", ![r].typed = typed, ![r].todo = Fields]
  BY DEF Submit
<1>4. typed \in [Fields -> Nat]
  <2>1. \A f \in Fields : Values[f] \subseteq Nat /\ form[r].typed[f] \in Nat
    BY <1>1, ValuesAssumption DEF Form
  <2>2. \A f \in Fields : typed[f] \in Nat
    BY <1>3, <2>1
  <2> QED
    BY <1>3, <2>2
<1>5. CASE form' = [form EXCEPT ![r] = [Blank EXCEPT !.pc = "refused"]]
  <2>1. PICK x : x = [Blank EXCEPT !.pc = "refused"]
    OBVIOUS
  <2>2. x \in Form /\ x.pc = "refused" /\ x.wrote = {}
    BY <2>1, BlankIs DEF Form, Blank
  <2>3. Faithful(x)
    BY <2>2 DEF Faithful
  <2> QED
    BY <1>2, <1>5, <2>1, <2>2, <2>3, OneForm
<1>6. CASE Valid(typed) /\ form' = [form EXCEPT ![r].pc = "saving", ![r].typed = typed, ![r].todo = Fields]
  <2>1. PICK x : x = [form[r] EXCEPT !.pc = "saving", !.typed = typed, !.todo = Fields]
    OBVIOUS
  <2>2. /\ x \in Form /\ x.pc = "saving" /\ x.typed = typed /\ x.wrote = form[r].wrote
        /\ x.seen = form[r].seen /\ x.moved = form[r].moved /\ x.todo = Fields
    BY <1>1, <1>4, <2>1 DEF Form
  <2>3. form' = [form EXCEPT ![r] = x]
    BY <1>1, <1>6, <2>1 DEF FormInv, SettingsTypeOK
  <2>4. Allowed("memory", typed["memory"])
    BY <1>6 DEF Valid, Fields
  <2>5. Faithful(x)
    BY <1>1, <2>2, <2>4 DEF Faithful
  <2> QED
    BY <1>2, <2>2, <2>3, <2>5, OneForm
<1> QED
  BY <1>3, <1>5, <1>6

LEMMA UpcomingIs ==
  ASSUME NEW r \in Requests
  PROVE  Turn(r) = Upcoming(form[r])
BY DEF Turn, Upcoming

LEMMA CompareStep ==
  ASSUME FormInv, NEW r \in Requests, Compare(r)
  PROVE  FormInv'
<1>1. form[r] \in Form /\ Faithful(form[r]) /\ form[r].pc = "saving" /\ form[r].todo # {}
  BY DEF Compare, FormInv, SettingsTypeOK
<1>2. UNCHANGED <<conf, override>> /\ edits' \in 0..MaxEdits
  BY DEF Compare, FormInv, SettingsTypeOK
<1>3. PICK t : t = Turn(r)
  OBVIOUS
<1>4. t = Upcoming(form[r]) /\ t \in form[r].todo /\ t \in Fields
  BY <1>1, <1>3, UpcomingIs DEF Upcoming, Form, Fields
<1>5. CASE Differs(r)
  <2>1. PICK x : x = [form[r] EXCEPT !.pc = "writing", !.todo = form[r].todo]
    OBVIOUS
  <2>2. /\ x \in Form /\ x.pc = "writing" /\ x.typed = form[r].typed /\ x.wrote = form[r].wrote
        /\ x.seen = form[r].seen /\ x.moved = form[r].moved /\ x.todo = form[r].todo
    BY <1>1, <2>1 DEF Form
  <2>3. form' = [form EXCEPT ![r] = x]
    BY <1>1, <1>5, <2>1 DEF FormInv, SettingsTypeOK, Compare
  <2>4. Upcoming(x) = t
    BY <1>4, <2>2 DEF Upcoming
  <2>5. form[r].typed[t] # Effective[t]
    BY <1>3, <1>5 DEF Differs
  <2>6. t \notin form[r].moved => form[r].typed[t] # form[r].seen[t]
    BY <1>1, <1>4, <2>5 DEF Faithful
  <2>7. Faithful(x)
    BY <1>1, <2>2, <2>4, <2>6 DEF Faithful
  <2> QED
    BY <1>2, <2>2, <2>3, <2>7, OneForm
<1>6. CASE ~Differs(r)
  <2>1. PICK x : x = [form[r] EXCEPT !.pc = "saving", !.todo = form[r].todo \ {t}]
    OBVIOUS
  <2>2. /\ x \in Form /\ x.pc = "saving" /\ x.typed = form[r].typed /\ x.wrote = form[r].wrote
        /\ x.seen = form[r].seen /\ x.moved = form[r].moved /\ x.todo = form[r].todo \ {t}
    BY <1>1, <2>1 DEF Form
  <2>3. form' = [form EXCEPT ![r] = x]
    BY <1>1, <1>3, <1>6, <2>1 DEF FormInv, SettingsTypeOK, Compare
  <2>4. Faithful(x)
    BY <1>1, <2>2 DEF Faithful
  <2> QED
    BY <1>2, <2>2, <2>3, <2>4, OneForm
<1> QED
  BY <1>5, <1>6

LEMMA LeaveStep ==
  ASSUME FormInv, NEW r \in Requests, Leave(r)
  PROVE  FormInv'
<1>1. UNCHANGED <<conf, override>> /\ edits' \in 0..MaxEdits /\ form' = [form EXCEPT ![r] = Blank]
  BY DEF Leave, FormInv, SettingsTypeOK
<1> QED
  BY <1>1, BlankIs, OneForm

\* The row of a field is written: the form that wrote it, and the others.
LEMMA StoreStep ==
  ASSUME FormInv, NEW f \in Fields, NEW v \in Nat \cup {None}, NEW r, Store(f, v, r), conf' = conf,
         edits' \in 0..MaxEdits,
         r \in Requests => /\ form[r].pc = "writing" /\ f = Upcoming(form[r])
  PROVE  FormInv'
<1>1. form \in [Requests -> Form] /\ override \in [Fields -> Nat \cup {None}]
  BY DEF FormInv, SettingsTypeOK
<1>2. /\ override' \in [Fields -> Nat \cup {None}]
      /\ \A g \in Fields : g # f => Effective'[g] = Effective[g]
  <2>1. override' = [override EXCEPT ![f] = v]
    BY DEF Store
  <2> QED
    BY <1>1, <2>1, InForce
<1>3. ASSUME NEW q \in Requests, q # r, form[q].pc \in {"shown", "saving", "writing"}
      PROVE  form'[q] \in Form /\ Faithful(form[q])'
  <2>1. form[q] \in Form /\ Faithful(form[q])
    BY <1>1 DEF FormInv
  <2>2. PICK x : x = [form[q] EXCEPT !.moved = form[q].moved \cup {f}]
    OBVIOUS
  <2>3. /\ x \in Form /\ x.pc = form[q].pc /\ x.typed = form[q].typed /\ x.wrote = form[q].wrote
        /\ x.seen = form[q].seen /\ x.moved = form[q].moved \cup {f} /\ x.todo = form[q].todo
    BY <2>1, <2>2 DEF Form
  <2>4. form'[q] = x
    BY <1>3, <2>2 DEF Store
  <2>5. Allowed("memory", x.typed["memory"])' <=> Allowed("memory", x.typed["memory"])
    BY <2>3, MemoryBound DEF Form, Fields
  <2>6. Upcoming(x) = Upcoming(form[q])
    BY <2>3 DEF Upcoming
  <2>7. Faithful(x)'
    BY <1>2, <1>3, <2>1, <2>3, <2>5, <2>6 DEF Faithful, Upcoming
  <2> QED
    BY <2>3, <2>4, <2>7 DEF Faithful, Upcoming
<1>4. ASSUME NEW q \in Requests, q # r, form[q].pc \notin {"shown", "saving", "writing"}
      PROVE  form'[q] \in Form /\ Faithful(form[q])'
  <2>1. form[q] \in Form /\ Faithful(form[q]) /\ form'[q] = form[q]
    BY <1>1, <1>4 DEF FormInv, Store
  <2> QED
    BY <2>1, <1>4 DEF Faithful, Upcoming
<1>5. ASSUME r \in Requests
      PROVE  form'[r] \in Form /\ Faithful(form[r])'
  <2>1. form[r] \in Form /\ Faithful(form[r]) /\ form[r].pc = "writing" /\ f = Upcoming(form[r])
    BY <1>1, <1>5 DEF FormInv
  <2>2. PICK x : x = [form[r] EXCEPT !.pc = "saving", !.todo = form[r].todo \ {f}, !.wrote = form[r].wrote \cup {f}]
    OBVIOUS
  <2>3. /\ x \in Form /\ x.pc = "saving" /\ x.typed = form[r].typed /\ x.wrote = form[r].wrote \cup {f}
        /\ x.seen = form[r].seen /\ x.moved = form[r].moved /\ x.todo = form[r].todo \ {f}
    BY <2>1, <2>2 DEF Form
  <2>4. form'[r] = x
    BY <1>5, <2>2 DEF Store
  <2>5. /\ Allowed("memory", x.typed["memory"])' <=> Allowed("memory", x.typed["memory"])
        /\ form[r].todo \subseteq Fields
    BY <2>1, <2>3, MemoryBound DEF Form, Fields
  <2>6. "timeout" \notin x.todo
    BY <2>1, <2>3 DEF Upcoming
  <2>7. f \in form[r].moved \/ form[r].typed[f] # form[r].seen[f]
    BY <2>1 DEF Faithful
  <2>8. Faithful(x)'
    BY <1>2, <2>1, <2>3, <2>5, <2>6, <2>7 DEF Faithful, Upcoming
  <2> QED
    BY <2>3, <2>4, <2>8 DEF Faithful, Upcoming
<1>6. form' \in [Requests -> Form]
  <2>1. form' = [q \in Requests |-> form'[q]]
    BY DEF Store
  <2> QED
    BY <1>3, <1>4, <1>5, <2>1
<1> QED
  BY <1>2, <1>3, <1>4, <1>5, <1>6 DEF FormInv, SettingsTypeOK

LEMMA SetOverrideStep ==
  ASSUME FormInv, NEW r \in Requests, SetOverride(r)
  PROVE  FormInv'
<1>1. form[r] \in Form /\ Faithful(form[r]) /\ form[r].pc = "writing" /\ form[r].todo # {}
  BY DEF SetOverride, FormInv, SettingsTypeOK, Faithful
<1>2. conf' = conf /\ edits' \in 0..MaxEdits
  BY DEF SetOverride, FormInv, SettingsTypeOK
<1>3. PICK t : t = Turn(r)
  OBVIOUS
<1>4. t = Upcoming(form[r]) /\ t \in form[r].todo /\ t \in Fields
  BY <1>1, <1>3, UpcomingIs DEF Upcoming, Form, Fields
<1>5. CASE Allowed(t, form[r].typed[t])
  <2>1. form[r].typed[t] \in Nat
    BY <1>1, <1>4 DEF Form
  <2>2. Store(t, form[r].typed[t], r)
    BY <1>3, <1>5 DEF SetOverride
  <2> QED
    BY <1>1, <1>2, <1>4, <2>1, <2>2, StoreStep
<1>6. CASE ~Allowed(t, form[r].typed[t])
  <2>1. PICK x : x = [Blank EXCEPT !.pc = "refused", !.wrote = form[r].wrote]
    OBVIOUS
  <2>2. x \in Form /\ x.pc = "refused" /\ x.wrote = form[r].wrote
    BY <1>1, <2>1, BlankIs DEF Form, Blank
  <2>3. form' = [form EXCEPT ![r] = x] /\ override' = override
    BY <1>3, <1>6, <2>1 DEF SetOverride
  <2>4. t # "memory"
    BY <1>1, <1>6 DEF Faithful
  <2>5. form[r].wrote = {}
    BY <1>1, <1>4, <2>4 DEF Faithful, Fields
  <2>6. Faithful(x)
    BY <2>2, <2>5 DEF Faithful
  <2> QED
    BY <1>2, <2>2, <2>3, <2>6, OneForm
<1> QED
  BY <1>5, <1>6

LEMMA ClearOverrideStep ==
  ASSUME FormInv, NEW f \in Fields, ClearOverride(f)
  PROVE  FormInv'
<1>1. conf' = conf /\ edits' \in 0..MaxEdits /\ Store(f, None, None)
  BY DeploymentsAssumption DEF ClearOverride, FormInv, SettingsTypeOK
<1>2. None \notin Requests
  BY DeploymentsAssumption
<1> QED
  BY <1>1, <1>2, StoreStep

LEMMA LostStep ==
  ASSUME FormInv, Lost, UNCHANGED <<conf, override, edits>>
  PROVE  FormInv'
<1>1. ASSUME NEW r \in Requests PROVE form'[r] \in Form /\ Faithful(form[r])'
  <2>1. form[r] \in Form /\ Faithful(form[r])
    BY DEF FormInv, SettingsTypeOK
  <2>2. form'[r] = IF form[r].pc = "shown" THEN form[r] ELSE Blank
    BY DEF Lost
  <2>3. PICK y : y = form'[r]
    OBVIOUS
  <2>4. y \in Form /\ Faithful(y)
    BY <2>1, <2>2, <2>3, BlankIs
  <2>5. Faithful(y)'
    BY <2>4, SameForm
  <2> QED
    BY <2>3, <2>4, <2>5 DEF Faithful, Upcoming
<1>2. form' \in [Requests -> Form]
  <2>1. form' = [r \in Requests |-> form'[r]]
    BY DEF Lost
  <2> QED
    BY <1>1, <2>1
<1> QED
  BY <1>1, <1>2 DEF FormInv, SettingsTypeOK

LEMMA DeployForms ==
  ASSUME FormInv, Deploy
  PROVE  FormInv'
<1>1. conf' \in Deployments /\ override' = override /\ edits' \in 0..MaxEdits
  BY DeploymentsAssumption DEF Deploy, FormInv, SettingsTypeOK
<1>2. form' = [r \in Requests |-> [form[r] EXCEPT !.moved = Fields]]
  BY DEF Deploy
<1>3. ASSUME NEW r \in Requests PROVE form'[r] \in Form /\ Faithful(form[r])'
  <2>1. form[r] \in Form /\ Faithful(form[r])
    BY DEF FormInv, SettingsTypeOK
  <2>2. PICK x : x = [form[r] EXCEPT !.moved = Fields]
    OBVIOUS
  <2>3. /\ x \in Form /\ x.pc = form[r].pc /\ x.typed = form[r].typed /\ x.wrote = form[r].wrote
        /\ x.seen = form[r].seen /\ x.moved = Fields /\ x.todo = form[r].todo
    BY <2>1, <2>2 DEF Form
  <2>4. form'[r] = x
    BY <1>2, <2>2
  <2>5. Allowed("memory", x.typed["memory"])' <=> Allowed("memory", x.typed["memory"])
    BY <2>3, MemoryBound DEF Form, Fields
  <2>6. x.wrote \subseteq Fields /\ x.todo \subseteq Fields
    BY <2>3 DEF Form
  <2>7. Faithful(x)'
    BY <2>1, <2>3, <2>5, <2>6 DEF Faithful, Upcoming, Fields
  <2> QED
    BY <2>3, <2>4, <2>7 DEF Faithful, Upcoming
<1> QED
  BY <1>1, <1>2, <1>3 DEF FormInv, SettingsTypeOK

-----------------------------------------------------------------------------
(* The whole.                                                              *)

LEMMA InitInv == Init => Inv
<1> SUFFICES ASSUME Init PROVE Inv
  OBVIOUS
<1>1. SettingsTypeOK
  BY BlankIs, DeploymentsAssumption DEF Init, SettingsInit, SettingsTypeOK
<1>2. FormInv
  BY <1>1, BlankIs DEF Init, SettingsInit, FormInv
<1>3. CallType
  <2>1. 0 \in 0..MaxAge /\ 0 \in 0..MaxFaults
    BY TimeAssumption
  <2>2. Gone \in Call /\ NoChild \in Child
    BY Blanks
  <2>3. [st |-> "queued", age |-> 0] \in [st : {"queued", "running", "done"}, age : 0..MaxAge]
    BY <2>1
  <2> QED
    BY <2>1, <2>2, <2>3 DEF Init, CallType
<1>4. \A p \in Procs : proc[p] = Gone
  BY DEF Init
<1>5. CallInv
  BY <1>3, <1>4, Blanks DEF CallInv, Sound, InHand, Alone, HealthyMeansLooping, Init
<1> QED
  BY <1>2, <1>5 DEF Inv

LEMMA NextInv == Inv /\ [Next]_vars => Inv'
<1> SUFFICES ASSUME Inv, [Next]_vars PROVE CallInv' /\ FormInv'
  BY DEF Inv
<1>0. CallInv /\ FormInv
  BY DEF Inv
<1>1. ASSUME UNCHANGED settings PROVE FormInv'
  BY <1>0, <1>1 DEF settings, FormInv, SettingsTypeOK, Faithful, Upcoming, Effective, Default, Allowed, Ceiling
<1>2. CASE UNCHANGED vars
  <2>1. UNCHANGED settings
    BY <1>2 DEF vars
  <2> QED
    BY <1>0, <1>1, <1>2, <2>1, EditStep
<1>3. CASE Edit
  <2>1. CallInv'
    BY <1>0, <1>3, EditStep
  <2>2. FormInv'
    <3>1. ASSUME NEW r \in Requests, Show(r) \/ Submit(r) \/ Compare(r) \/ SetOverride(r) \/ Leave(r)
          PROVE  FormInv'
      BY <1>0, <3>1, ShowStep, SubmitStep, CompareStep, SetOverrideStep, LeaveStep
    <3> QED
      BY <1>0, <1>3, <3>1, ClearOverrideStep DEF Edit
  <2> QED
    BY <2>1, <2>2
<1>4. ASSUME NEW p \in Procs, Work(p) \/ Parse(p) \/ LoopFails(p) \/ Boot(p) \/ KernelEnds(p)
      PROVE  CallInv' /\ FormInv'
  <2>1. UNCHANGED settings
    BY <1>4 DEF Work, Parse, Claim, StartChild, Drained, TimeUp, Report, Finish, ChildWrites, ChildExits,
                LoopFails, Boot, KernelEnds
  <2>2. CASE Work(p)
    BY <1>0, <1>1, <2>1, <2>2, ClaimStep, StartChildStep, DrainedStep, TimeUpStep, ReportStep, FinishStep DEF Work
  <2>3. CASE Parse(p)
    BY <1>0, <1>1, <2>1, <2>3, ChildSteps DEF Parse
  <2>4. CASE LoopFails(p) \/ Boot(p) \/ KernelEnds(p)
    BY <1>0, <1>1, <2>1, <2>4, LoopFailsStep, BootStep, KernelStep
  <2> QED
    BY <1>4, <2>2, <2>3, <2>4
<1>5. ASSUME NEW p \in Procs, Kill(p) PROVE CallInv' /\ FormInv'
  <2>1. CASE p = "inline"
    <3>1. Lost /\ UNCHANGED <<conf, override, edits>>
      BY <1>5, <2>1 DEF Kill
    <3> QED
      BY <1>0, <1>5, <3>1, KillStep, LostStep
  <2>2. CASE p # "inline"
    <3>1. UNCHANGED settings
      BY <1>5, <2>2 DEF Kill, settings
    <3> QED
      BY <1>0, <1>1, <1>5, <3>1, KillStep
  <2> QED
    BY <2>1, <2>2
<1>6. CASE Terminate
  <2>1. UNCHANGED settings
    BY <1>6 DEF Terminate
  <2> QED
    BY <1>0, <1>1, <1>6, <2>1, TerminateStep
<1>7. CASE Shutdown
  <2>1. Lost /\ UNCHANGED <<conf, override, edits>>
    BY <1>7 DEF Shutdown
  <2> QED
    BY <1>0, <1>7, <2>1, ShutdownStep, LostStep
<1>8. CASE Ends
  <2>1. UNCHANGED settings
    BY <1>8 DEF Ends, LoopEnds, Exit, Cancelled
  <2> QED
    BY <1>0, <1>1, <1>8, <2>1, EndsStep
<1>9. CASE Deploy
  BY <1>0, <1>9, DeployStep, DeployForms
<1>10. CASE Tick
  <2>1. UNCHANGED settings
    BY <1>10 DEF Tick
  <2> QED
    BY <1>0, <1>1, <1>10, <2>1, TickStep
<1> QED
  BY <1>2, <1>3, <1>4, <1>5, <1>6, <1>7, <1>8, <1>9, <1>10 DEF Next

\* Every reachable state of the worker, its calls and their children, whatever
\* the numbers of slots, forms and ticks: the invariant both parts argue from.
THEOREM InvHolds == Spec => []Inv
BY InitInv, NextInv, PTL DEF Spec

\* Every variable keeps its type (app/ingest.py, app/worker.py, app/system_settings.py).
THEOREM TypeCorrect == Spec => []TypeOK
<1>1. Inv => TypeOK
  BY DEF Inv, CallInv, CallType, FormInv, TypeOK
<1> QED
  BY <1>1, InvHolds, PTL

\* No second parse of the job starts while one runs under its parent, whatever the
\* deployments and the overrides are (app/ingest.py _extract_timeout_s).
THEOREM ParsesAlone == Spec => []ParsedOnce
<1>1. Inv => ParsedOnce
  <2> SUFFICES ASSUME Inv PROVE Cardinality({p \in Procs : Alive(proc[p].child)}) <= 1
    BY DEF ParsedOnce
  <2>1. \A p \in Procs : Alive(proc[p].child) => proc[p].pc \in InHand
    BY DEF Inv, CallInv, Sound, InHand
  <2>2. \A p, q \in Procs : Alive(proc[p].child) /\ Alive(proc[q].child) => p = q
    BY <2>1 DEF Inv, CallInv, Alone
  <2>3. CASE \E p \in Procs : Alive(proc[p].child)
    <3>1. PICK p \in Procs : Alive(proc[p].child)
      BY <2>3
    <3>2. {q \in Procs : Alive(proc[q].child)} = {p}
      BY <2>2, <3>1
    <3>3. Cardinality({p}) = 1
      BY FS_Singleton
    <3> QED
      BY <3>2, <3>3
  <2>4. CASE ~ \E p \in Procs : Alive(proc[p].child)
    <3>1. {q \in Procs : Alive(proc[q].child)} = {}
      BY <2>4
    <3>2. Cardinality({}) = 0
      BY FS_EmptySet
    <3> QED
      BY <3>1, <3>2
  <2> QED
    BY <2>3, <2>4
<1> QED
  BY <1>1, InvHolds, PTL

\* A call is over when it is reported.
LEMMA ReportOnly ==
  ASSUME proc \in [Procs -> Call], Next, NEW p \in Procs, proc[p].pc = "ending", proc'[p].pc = "after"
  PROVE  Report(p)
<1>1. ASSUME NEW q \in Procs, q # p, Work(q) \/ Parse(q) \/ LoopFails(q) \/ Boot(q) \/ Kill(q)
      PROVE  proc'[p] = proc[p]
  BY <1>1 DEF Work, Claim, StartChild, Drained, TimeUp, Report, Finish, Parse, ChildWrites, ChildExits,
              LoopFails, Boot, Kill
<1>2. Work(p) => Report(p)
  BY DEF Work, Claim, StartChild, Drained, TimeUp, Finish, At, Due
<1>3. ~Parse(p) /\ ~LoopFails(p) /\ ~Boot(p)
  BY DEF Parse, ChildWrites, ChildExits, LoopFails, Boot, At
<1>4. ~Kill(p)
  BY Blanks DEF Kill
<1>5. ~Edit /\ ~Deploy /\ \A q \in Procs : ~KernelEnds(q)
  BY DEF Edit, Deploy, KernelEnds, At
<1>6. ~Terminate
  <2>1. ASSUME proc' = [proc EXCEPT !["standalone"].stop = TRUE] PROVE FALSE
    <3>1. proc[p] \in Call /\ "standalone" \in Procs
      BY DEF Procs
    <3>2. PICK c : c = [proc[p] EXCEPT !.stop = TRUE]
      OBVIOUS
    <3>3. c.pc = "ending"
      BY <3>1, <3>2 DEF Call
    <3>4. proc'[p] = IF p = "standalone" THEN c ELSE proc[p]
      BY <2>1, <3>1, <3>2
    <3> QED
      BY <3>3, <3>4
  <2> QED
    BY <2>1 DEF Terminate
<1>7. ~Ends
  BY Blanks DEF Ends, LoopEnds, Exit, Cancelled, At
<1>8. ~Shutdown
  <2> SUFFICES ASSUME Shutdown PROVE FALSE
    OBVIOUS
  <2>2. p # "inline" => proc'[p] = proc[p]
    BY DEF Shutdown
  <2>3. CASE p = "inline"
    <3>1. PICK k : k = KilledChild(proc["inline"].child)
      OBVIOUS
    <3>2. PICK c : c = [proc[p] EXCEPT !.pc = "ending", !.outcome = "cancelled", !.child = k]
      OBVIOUS
    <3>3. c.pc = "ending"
      BY <3>2 DEF Call
    <3>4. proc' = [proc EXCEPT ![p] = c]
      BY <2>3, <3>1, <3>2 DEF Shutdown
    <3> QED
      BY <3>3, <3>4
  <2> QED
    BY <2>2, <2>3
<1>9. ~Tick
  BY DEF Tick, At
<1> QED
  BY <1>1, <1>2, <1>3, <1>4, <1>5, <1>6, <1>7, <1>8, <1>9 DEF Next

\* A call leaves no child behind, tells the source what happened to it, and the health port
\* answers for a loop that runs (app/ingest.py _extract_isolated, app/worker.py).
THEOREM TraceIsTrue == Spec => LeavesNoFalseTrace
<1>1. Inv => NoChildOutlives /\ HealthyMeansLooping
  BY DEF Inv, CallInv, Sound, NoChildOutlives, At
<1> DEFINE Told(p) ==
       At(p, "ending") /\ proc'[p].pc = "after" =>
         LET c == proc[p]  says == proc'[p].says IN
         /\ says = "result" => c.child.file = "parsed" /\ c.child.life = "exited"
         /\ says = "memory" => c.child.file = "exhausted" \/ c.memory > 0
         /\ says = "timeout" => c.age >= c.deadline
         /\ says \in {"memory", "crashed", "error"} => c.child.life # "killed"
<1>2. Inv /\ [Next]_vars => [\A p \in Procs : Told(p)]_vars
  <2> SUFFICES ASSUME Inv, Next, NEW p \in Procs, At(p, "ending"), proc'[p].pc = "after" PROVE Told(p)
    OBVIOUS
  <2>1. proc \in [Procs -> Call] /\ Sound(proc[p])
    BY DEF Inv, CallInv, CallType
  <2>2. Report(p)
    BY ReportOnly DEF Inv, CallInv, CallType, At
  <2>3. PICK says : says = Says(proc[p])
    OBVIOUS
  <2>4. PICK stop : stop = proc[p].stop
    OBVIOUS
  <2>5. PICK c : c = [Free EXCEPT !.pc = "after", !.stop = stop, !.says = says]
    OBVIOUS
  <2>6. c.says = says
    BY <2>5 DEF Free
  <2>7. proc' = [proc EXCEPT ![p] = c]
    BY <2>2, <2>3, <2>4, <2>5 DEF Report
  <2>8. proc'[p].says = Says(proc[p])
    BY <2>1, <2>3, <2>6, <2>7
  <2>9. proc[p].outcome \in {"ok", "timeout"}
    BY <2>1, <2>2 DEF Report, Call
  <2>10. /\ proc[p].pc = "ending"
         /\ proc[p].outcome = "ok" => proc[p].child.life = "exited"
         /\ proc[p].outcome = "timeout" => proc[p].age >= proc[p].deadline
    BY <2>1 DEF Sound, At
  <2> QED
    BY <2>8, <2>9, <2>10 DEF Says
<1> QED
  BY <1>1, <1>2, InvHolds, PTL DEF Spec, LeavesNoFalseTrace, SaysWhatHappened

\* A form writes only what it sends back differently from what was in force, so that an
\* untouched field is written only when it moved or its value was shown rounded; and all
\* of that or nothing (app/settings.py update_ingest_settings).
THEOREM FormsTrue == Spec => []FormsHold
<1>1. ASSUME Inv PROVE FormsHold
  <2>1. ASSUME NEW r \in Requests, NEW f \in form[r].wrote \ form[r].moved
        PROVE  /\ form[r].typed[f] # form[r].seen[f]
               /\ form[r].typed[f] = Shown(form[r].seen[f]) => form[r].seen[f] >= Precise
    <3>1. form[r] \in Form /\ Faithful(form[r])
      BY <1>1 DEF Inv, FormInv, SettingsTypeOK
    <3>2. form[r].typed[f] # form[r].seen[f] /\ form[r].seen[f] \in Nat
      BY <2>1, <3>1 DEF Faithful, Form
    <3> QED
      BY <3>2, ShownIs, DigitsAssumption
  <2>2. RefusedIsUntouched
    BY <1>1 DEF Inv, FormInv, Faithful, RefusedIsUntouched
  <2> QED
    BY <2>1, <2>2 DEF FormsHold, PinsNothing
<1> QED
  BY <1>1, InvHolds, PTL
=============================================================================
