------------------------------ MODULE EvalProofs ------------------------------
(***************************************************************************)
(* What is proved of EvalWorkbench for every number of requests, processes,*)
(* profiles, runs, items and hints and every bound. Three invariants carry *)
(* it: what an edit has read under the write lock stays so until it has    *)
(* written; what a handler has read of a profile is what the row says as   *)
(* long as there is one; and the task of a run, its row and its results    *)
(* keep in step, question by question.                                     *)
(***************************************************************************)
EXTENDS EvalWorkbench, FiniteSetTheorems, WellFoundedInduction, TLAPS

\* The write lock is held by the request that is in its transaction.
Locked == \A r \in Requests : request[r].pc \in {"edit", "insert"} <=> writer = r

\* The hint fits among the others, and there is room for it or a row to change.
Fits(i, h) ==
  /\ IF i = 0 THEN h # None /\ Cardinality(Present(hints)) < MaxHints ELSE i \in Present(hints)
  /\ h # None => \A j \in Present(hints) \ {i} : Casefold[hints[j].term] # Casefold[h.term]

\* What the transaction has read is what it writes against.
Reading(q) ==
  /\ q.pc = "edit" =>
       /\ q.edit.revision = config.revision + 1 /\ q.edit.revision <= used.edits + 1
       /\ q.edit.to = "hint" => Fits(q.edit.id, q.edit.hint)
  /\ q.pc = "insert" => q.config = config

DomainInv ==
  /\ Locked /\ \A r \in Requests : Reading(request[r])
  /\ config.revision <= used.edits + 1
  /\ HintRules

\* What a handler carries from its reads to its writes.
Carried(q) ==
  /\ q.pc \in {"apply", "announce", "drop", "freeze", "insert"} => q.profile \in Profiles /\ q.proc \in Procs
  /\ q.pc \in {"apply", "announce", "freeze", "insert"} => q.params \in Params
  /\ q.pc \in {"apply", "announce", "drop"} => profile[q.profile].st # "unused"
  /\ q.pc \in {"apply", "announce"} => (Live(q.profile) => q.params = profile[q.profile].params)
  /\ q.pc = "dropItem" => q.item \in Items /\ q.seen = {}

\* Ids are given out in order.
Ordered == \A i, j \in Profiles : j < i /\ profile[i].st # "unused" => profile[j].st # "unused"

ProfileInv ==
  /\ Ordered /\ \A r \in Requests : Carried(request[r])
  /\ OneActive /\ MemoryFollowsRow

Asking == {"next", "retrieving", "judging"}

\* A question was asked with what the row of the run says.
OfRow(x, w) ==
  /\ w.params = run[x].params
  /\ w.hints = (IF run[x].hints /\ Readable(run[x].snapshot) THEN run[x].snapshot.hints ELSE {})
  /\ w.policy = (run[x].judge /\ run[x].policy /\ Readable(run[x].snapshot) /\ run[x].snapshot.policy)

\* The task of a run, its row and its results.
Working(x) ==
  /\ job[x].pc = "load" => run[x].st \in {"queued", "deleted"} /\ job[x].done = 0
  /\ job[x].pc \in Asking =>
       /\ run[x].st \in {"running", "deleted"}
       /\ job[x].with \in With /\ job[x].todo \subseteq job[x].all
       /\ job[x].pc # "next" => job[x].todo # {}
       /\ job[x].done = Cardinality(job[x].all \ job[x].todo)
       /\ \A i \in Results(x) : result[x][i] = job[x].with
       /\ Stored(x) => /\ run[x].total = Cardinality(job[x].all)
                       /\ x \notin raced => Results(x) = job[x].all \ job[x].todo
                       /\ OfRow(x, job[x].with)

Recorded(x) ==
  /\ run[x].st \in {"unused", "queued"} => Results(x) = {}
  /\ run[x].st = "unused" => job[x] = NoJob
  /\ \A i, j \in Results(x) : result[x][i] = result[x][j]
  /\ Stored(x) => /\ \A i \in Results(x) : OfRow(x, result[x][i])
                  /\ run[x].snapshot.revision <= config.revision
                  /\ ~run[x].snapshot.hintsOn => run[x].snapshot.hints = {}

Ended(x) ==
  /\ run[x].st = "succeeded" /\ x \notin raced =>
       /\ run[x].metrics = run[x].total /\ run[x].current = run[x].total
       /\ Cardinality(Results(x)) = run[x].total
  /\ run[x].st \in {"queued", "running"} /\ job[x].pc \notin {"load"} \cup Asking =>
       job[x] = NoJob /\ used.faults > 0

RunInv(x) == Working(x) /\ Recorded(x) /\ Ended(x)

Inv ==
  /\ TypeOK /\ DomainInv /\ ProfileInv
  /\ \A x \in Runs : RunInv(x)
  /\ RevisionNamesContent

-----------------------------------------------------------------------------
(* Types.                                                                  *)

\* Ids are numbers from 1 on, and few.
LEMMA IdsAre ==
  ASSUME NEW S \in {Profiles, Runs, Items, Hints}
  PROVE  /\ S \subseteq Nat \ {0} /\ IsFiniteSet(S)
         /\ Cardinality(S) \in Nat
<1>1. IsFiniteSet(S) /\ S = 1 .. Cardinality(S)
  BY IdAssumption
<1>2. Cardinality(S) \in Nat
  BY <1>1, FS_CardinalityType
<1> QED
  BY <1>1, <1>2

LEMMA CountIs ==
  ASSUME NEW S \in SUBSET Items
  PROVE  IsFiniteSet(S) /\ Cardinality(S) \in Counts /\ Cardinality(S) \in Nat
<1>1. IsFiniteSet(Items) /\ Cardinality(Items) \in Nat
  BY IdsAre
<1> QED
  BY <1>1, FS_Subset, FS_CardinalityType DEF Counts

LEMMA RestIs ==
  /\ Rest \in Request /\ Rest.pc = "idle" /\ Rest.proc = None
  /\ EmptyConfig \in Config /\ NoEdit \in Edit /\ NoEdit.id = 0 /\ NoEdit.to = "nothing"
<1>1. EmptyConfig \in Config /\ 0 \in Revisions
  BY BoundAssumption DEF EmptyConfig, Config, Revisions
<1>2. NoEdit \in Edit /\ NoEdit.id = 0 /\ NoEdit.to = "nothing"
  BY <1>1 DEF NoEdit, Edit
<1>3. 0 \in 0 .. Cardinality(Items)
  BY IdsAre
<1> HIDE DEF NoEdit, EmptyConfig
<1>4. Rest \in Request /\ Rest.pc = "idle" /\ Rest.proc = None
  BY <1>1, <1>2, <1>3 DEF Rest, Request
<1> QED
  BY <1>1, <1>2, <1>4

LEMMA OneRequest ==
  ASSUME TypeOK, NEW r \in Requests, NEW q \in Request, request' = [request EXCEPT ![r] = q]
  PROVE  /\ request' \in [Requests -> Request] /\ request'[r] = q
         /\ \A o \in Requests : o # r => request'[o] = request[o]
BY DEF TypeOK

LEMMA EndIs ==
  ASSUME TypeOK, NEW r \in Requests, End(r)
  PROVE  /\ request' \in [Requests -> Request] /\ request'[r] = Rest
         /\ \A o \in Requests : o # r => request'[o] = request[o]
BY RestIs, OneRequest DEF End

\* What is counted of a behaviour only grows.
Counted == used' \in Used /\ used.edits <= used'.edits /\ used.faults <= used'.faults

LEMMA CountedRequest ==
  ASSUME TypeOK, used' = [used EXCEPT !.requests = @ + 1], Budget("requests", MaxRequests)
  PROVE  Counted /\ used'.edits = used.edits /\ used'.faults = used.faults
<1>1. /\ used \in [requests : 0 .. MaxRequests, edits : 0 .. MaxEdits, faults : 0 .. MaxFaults]
      /\ used.requests < MaxRequests /\ used.requests \in Nat
  BY BoundAssumption DEF TypeOK, Used, Budget
<1>2. PICK n : n = used.requests + 1
  OBVIOUS
<1>3. n \in 0 .. MaxRequests
  BY <1>1, <1>2, BoundAssumption
<1>4. used' = [used EXCEPT !.requests = n]
  BY <1>2
<1> QED
  BY <1>1, <1>3, <1>4, BoundAssumption DEF Counted, Used

LEMMA CountedEdit ==
  ASSUME TypeOK, used' = [used EXCEPT !.edits = @ + 1], Budget("edits", MaxEdits)
  PROVE  Counted /\ used'.edits = used.edits + 1 /\ used'.edits <= MaxEdits
<1>1. /\ used \in [requests : 0 .. MaxRequests, edits : 0 .. MaxEdits, faults : 0 .. MaxFaults]
      /\ used.edits < MaxEdits /\ used.edits \in Nat
  BY BoundAssumption DEF TypeOK, Used, Budget
<1>2. PICK n : n = used.edits + 1
  OBVIOUS
<1>3. n \in 0 .. MaxEdits
  BY <1>1, <1>2, BoundAssumption
<1>4. used' = [used EXCEPT !.edits = n]
  BY <1>2
<1>5. used' \in Used /\ used'.edits = n /\ used'.faults = used.faults
  BY <1>1, <1>3, <1>4 DEF Used
<1> QED
  BY <1>1, <1>2, <1>3, <1>5, BoundAssumption DEF Counted

LEMMA CountedFault ==
  ASSUME TypeOK, used' = [used EXCEPT !.faults = @ + 1], used.faults < MaxFaults
  PROVE  Counted /\ used'.edits = used.edits /\ used'.faults > 0
<1>1. /\ used \in [requests : 0 .. MaxRequests, edits : 0 .. MaxEdits, faults : 0 .. MaxFaults]
      /\ used.faults \in Nat
  BY BoundAssumption DEF TypeOK, Used
<1>2. PICK n : n = used.faults + 1
  OBVIOUS
<1>3. n \in 0 .. MaxFaults /\ n > 0 /\ used.faults <= n
  BY <1>1, <1>2, BoundAssumption
<1>4. used' = [used EXCEPT !.faults = n]
  BY <1>2
<1>5. used' \in Used /\ used'.edits = used.edits /\ used'.faults = n
  BY <1>1, <1>3, <1>4 DEF Used
<1> QED
  BY <1>1, <1>3, <1>5 DEF Counted

LEMMA CountedNot == ASSUME TypeOK, UNCHANGED used PROVE Counted
<1>1. used.edits \in Nat /\ used.faults \in Nat
  BY BoundAssumption DEF TypeOK, Used
<1> QED
  BY <1>1 DEF Counted, TypeOK

LEMMA Numbers ==
  ASSUME TypeOK
  PROVE  /\ config.revision \in Nat /\ used.edits \in Nat /\ used.faults \in Nat
         /\ \A x \in Runs : run[x].snapshot.revision \in Nat
<1>1. Revisions \subseteq Nat
  BY BoundAssumption DEF Revisions
<1>2. config.revision \in Nat
  BY <1>1 DEF TypeOK, Config
<1>3. ASSUME NEW x \in Runs PROVE run[x].snapshot.revision \in Nat
  <2>1. run[x] \in Run
    BY DEF TypeOK
  <2>2. run[x].snapshot \in Snapshots
    BY <2>1 DEF Run
  <2> QED
    BY <1>1, <2>2 DEF Snapshots
<1>4. used.edits \in Nat /\ used.faults \in Nat
  BY BoundAssumption DEF TypeOK, Used
<1> QED
  BY <1>2, <1>3, <1>4

-----------------------------------------------------------------------------
(* What steps leave as it is.                                              *)

InTransaction == {"edit", "insert"}

LEMMA DomainSame ==
  ASSUME TypeOK, DomainInv, UNCHANGED <<domain, writer>>, Counted,
         \A r \in Requests : \/ request'[r] = request[r]
                             \/ request[r].pc \notin InTransaction /\ request'[r].pc \notin InTransaction
  PROVE  DomainInv'
<1>1. config' = config /\ hints' = hints
  BY DEF domain
<1>2. Locked'
  BY DEF DomainInv, Locked, InTransaction
<1>3. ASSUME NEW r \in Requests PROVE Reading(request[r])'
  <2>1. CASE request'[r] = request[r]
    <3>1. Reading(request[r])
      BY DEF DomainInv
    <3>2. request[r].edit.revision <= used.edits + 1 => request[r].edit.revision <= used'.edits + 1
      <4>1. request[r] \in Request
        BY DEF TypeOK
      <4>2. request[r].edit \in Edit
        BY <4>1 DEF Request
      <4>3. request[r].edit.revision \in Nat
        BY <4>2, BoundAssumption DEF Edit, Revisions
      <4>4. used'.edits \in Nat /\ used.edits \in Nat /\ used.edits <= used'.edits
        BY BoundAssumption DEF Counted, Used, TypeOK
      <4> QED
        BY <4>3, <4>4
    <3> QED
      BY <1>1, <2>1, <3>1, <3>2 DEF Reading, Fits, Present
  <2>2. CASE request'[r].pc \notin InTransaction
    BY <2>2 DEF Reading, InTransaction
  <2> QED
    BY <2>1, <2>2
<1>4. config'.revision <= used'.edits + 1
  <2>1. used'.edits \in Nat
    BY BoundAssumption DEF Counted, Used
  <2> QED
    BY <1>1, <2>1, Numbers DEF DomainInv, Counted
<1>5. HintRules'
  BY <1>1 DEF DomainInv, HintRules, Present
<1> QED
  BY <1>2, <1>3, <1>4, <1>5 DEF DomainInv

LEMMA ProfilesSame ==
  ASSUME ProfileInv, UNCHANGED workbench,
         \A r \in Requests : request'[r] = request[r] \/ Carried(request'[r])
  PROVE  ProfileInv'
<1>1. UNCHANGED <<profile, active, behind>>
  BY DEF workbench
<1>2. ASSUME NEW r \in Requests PROVE Carried(request[r])'
  <2>1. Carried(request'[r])
    BY DEF ProfileInv
  <2> QED
    BY <1>1, <2>1 DEF Carried, Live
<1>3. Ordered' /\ OneActive'
  BY <1>1 DEF ProfileInv, Ordered, OneActive, Actives, Live
<1>4. MemoryFollowsRow'
  BY <1>1 DEF ProfileInv, MemoryFollowsRow, InForce, First, Actives, Live
<1> QED
  BY <1>2, <1>3, <1>4 DEF ProfileInv

\* A run of which nothing changed.
LEMMA SameRun ==
  ASSUME TypeOK, NEW x \in Runs, RunInv(x), Counted,
         run'[x] = run[x], job'[x] = job[x], result'[x] = result[x], x \in raced' <=> x \in raced,
         config'.revision \in Nat, config.revision <= config'.revision
  PROVE  RunInv(x)'
<1>1. Working(x)'
  BY DEF RunInv, Working, Asking, Results, Stored, OfRow, Readable
<1>2. Recorded(x)'
  <2>1. run[x].snapshot.revision <= config.revision => run[x].snapshot.revision <= config'.revision
    BY Numbers
  <2> QED
    BY <2>1 DEF RunInv, Recorded, Results, Stored, OfRow, Readable
<1>3. Ended(x)'
  <2>1. used'.faults \in Nat
    BY BoundAssumption DEF Counted, Used
  <2>2. used.faults > 0 => used'.faults > 0
    BY <2>1, Numbers DEF Counted
  <2> QED
    BY <2>2 DEF RunInv, Ended, Results
<1> QED
  BY <1>1, <1>2, <1>3 DEF RunInv

LEMMA NamedSame ==
  ASSUME RevisionNamesContent, UNCHANGED domain,
         \A x \in Runs : Stored(x)' => Stored(x) /\ run'[x].snapshot = run[x].snapshot
  PROVE  RevisionNamesContent'
<1>1. config' = config /\ hints' = hints
  BY DEF domain
<1>2. \A x \in Runs : Stored(x) =>
        /\ run[x].snapshot.revision = config.revision => run[x].snapshot = Snapshot(config, hints)
        /\ \A y \in Runs : Stored(y) /\ run[y].snapshot.revision = run[x].snapshot.revision
              => run[y].snapshot = run[x].snapshot
  BY DEF RevisionNamesContent
<1>3. Snapshot(config, hints)' = Snapshot(config, hints)
  BY <1>1 DEF Snapshot, Enabled, Present
<1>4. ASSUME NEW x \in Runs, Stored(x)'
      PROVE  /\ run'[x].snapshot.revision = config'.revision => run'[x].snapshot = Snapshot(config, hints)'
             /\ \A y \in Runs : Stored(y)' /\ run'[y].snapshot.revision = run'[x].snapshot.revision
                  => run'[y].snapshot = run'[x].snapshot
  BY <1>1, <1>2, <1>3, <1>4
<1> QED
  BY <1>4 DEF RevisionNamesContent

\* Steps that touch neither the domain nor the profiles nor the runs.
LEMMA Elsewhere ==
  ASSUME Inv, UNCHANGED <<domain, writer, workbench, run, result, job, raced>>, Counted, TypeOK',
         \A r \in Requests : \/ request'[r] = request[r]
                             \/ /\ request[r].pc \notin InTransaction /\ request'[r].pc \notin InTransaction
                                /\ Carried(request'[r])
  PROVE  Inv'
<1>1. DomainInv'
  <2>1. TypeOK /\ DomainInv /\ UNCHANGED <<domain, writer>>
    BY DEF Inv
  <2> QED
    BY <2>1, DomainSame
<1>2. ProfileInv'
  BY ProfilesSame DEF Inv
<1>3. ASSUME NEW x \in Runs PROVE RunInv(x)'
  <2>1. config'.revision \in Nat /\ config.revision <= config'.revision
    BY Numbers DEF domain, Inv
  <2> QED
    BY <2>1, SameRun DEF Inv
<1>4. RevisionNamesContent'
  BY NamedSame DEF Inv, Stored
<1> QED
  BY <1>1, <1>2, <1>3, <1>4 DEF Inv

-----------------------------------------------------------------------------
(* The requests.                                                           *)

\* The first step of a handler: it has read, and holds no lock.
LEMMA BeginStep ==
  ASSUME Inv, NEW r \in Requests, NEW q \in Request, Begin(r, q), q.pc \notin InTransaction, Carried(q),
         UNCHANGED <<domain, writer, workbench, book>>
  PROVE  Inv'
<1>1. TypeOK
  BY DEF Inv
<1>2. /\ request' \in [Requests -> Request] /\ request'[r] = q
      /\ \A o \in Requests : o # r => request'[o] = request[o]
  BY <1>1, OneRequest DEF Begin
<1>3. Counted
  BY <1>1, CountedRequest DEF Begin
<1>4. request[r].pc \notin InTransaction
  BY RestIs DEF Begin, InTransaction
<1>5. TypeOK'
  BY <1>1, <1>2, <1>3 DEF TypeOK, Counted, domain, workbench, book
<1>6. UNCHANGED <<domain, writer, workbench, run, result, job, raced>>
  BY DEF book
<1> QED
  BY <1>2, <1>3, <1>4, <1>5, <1>6, Elsewhere

LEMMA BeginDefaultStep ==
  ASSUME Inv, NEW r \in Requests, NEW p \in Procs, BeginDefault(r, p), UNCHANGED book
  PROVE  Inv'
<1>1. PICK q : q = [Rest EXCEPT !.pc = "default", !.proc = p]
  OBVIOUS
<1>2. q \in Request /\ q.pc = "default"
  BY <1>1, RestIs DEF Request
<1>3. Carried(q) /\ q.pc \notin InTransaction
  BY <1>2 DEF Carried, InTransaction
<1> QED
  BY <1>1, <1>2, <1>3, BeginStep DEF BeginDefault

LEMMA BeginDropStep ==
  ASSUME Inv, NEW r \in Requests, NEW p \in Procs, NEW i \in Profiles, BeginDrop(r, p, i), UNCHANGED book
  PROVE  Inv'
<1>1. PICK q : q = [Rest EXCEPT !.pc = "drop", !.proc = p, !.profile = i]
  OBVIOUS
<1>2. q \in Request /\ q.pc = "drop" /\ q.proc = p /\ q.profile = i
  BY <1>1, RestIs DEF Request
<1>3. Carried(q) /\ q.pc \notin InTransaction
  BY <1>2 DEF Carried, InTransaction, BeginDrop, Live
<1> QED
  BY <1>1, <1>2, <1>3, BeginStep DEF BeginDrop

LEMMA ParamsAre ==
  ASSUME TypeOK, NEW i \in Profiles
  PROVE  profile[i] \in Profile /\ profile[i].params \in Params
BY DEF TypeOK, Profile

LEMMA BeginApplyStep ==
  ASSUME Inv, NEW r \in Requests, NEW p \in Procs, NEW i \in Profiles, BeginApply(r, p, i), UNCHANGED book
  PROVE  Inv'
<1>1. PICK v : v = profile[i].params
  OBVIOUS
<1>2. v \in Params
  BY <1>1, ParamsAre DEF Inv
<1>3. PICK q : q = [Rest EXCEPT !.pc = "apply", !.proc = p, !.profile = i, !.params = v]
  OBVIOUS
<1>4. q \in Request /\ q.pc = "apply" /\ q.proc = p /\ q.profile = i /\ q.params = v
  BY <1>2, <1>3, RestIs DEF Request
<1>5. Carried(q) /\ q.pc \notin InTransaction
  BY <1>1, <1>2, <1>4 DEF Carried, InTransaction, BeginApply, Live
<1> QED
  BY <1>1, <1>3, <1>4, <1>5, BeginStep DEF BeginApply

LEMMA BeginGenerateStep ==
  ASSUME Inv, NEW r \in Requests, BeginGenerate(r) \/ BeginAuthoring(r)
  PROVE  Inv'
<1>1. PICK q : q = [Rest EXCEPT !.pc = "generate"]
  OBVIOUS
<1>2. q \in Request /\ q.pc = "generate"
  BY <1>1, RestIs DEF Request
<1>3. Carried(q) /\ q.pc \notin InTransaction
  BY <1>2 DEF Carried, InTransaction
<1> QED
  BY <1>1, <1>2, <1>3, BeginStep DEF BeginGenerate, BeginAuthoring, Aside

LEMMA BeginDropItemStep ==
  ASSUME Inv, NEW r \in Requests, NEW i \in Items, BeginDropItem(r, i)
  PROVE  Inv'
<1>1. PICK q : q = [Rest EXCEPT !.pc = "dropItem", !.item = i, !.seen = {}]
  OBVIOUS
<1>2. q \in Request /\ q.pc = "dropItem" /\ q.item = i /\ q.seen = {}
  BY <1>1, RestIs DEF Request
<1>3. Carried(q) /\ q.pc \notin InTransaction
  BY <1>2 DEF Carried, InTransaction
<1>4. Begin(r, q)
  BY <1>1 DEF BeginDropItem
<1> QED
  BY <1>2, <1>3, <1>4, BeginStep DEF BeginDropItem, Aside

LEMMA BeginDropSetStep ==
  ASSUME Inv, NEW r \in Requests, BeginDropSet(r)
  PROVE  Inv'
<1>1. PICK q : q = [Rest EXCEPT !.pc = "dropSet"]
  OBVIOUS
<1>2. q \in Request /\ q.pc = "dropSet"
  BY <1>1, RestIs DEF Request
<1>3. Carried(q) /\ q.pc \notin InTransaction
  BY <1>2 DEF Carried, InTransaction
<1> QED
  BY <1>1, <1>2, <1>3, BeginStep DEF BeginDropSet, Aside

LEMMA BeginRunStep ==
  ASSUME Inv, NEW r \in Requests, NEW p \in Procs, NEW i \in Profiles, BeginRun(r, p, i)
  PROVE  Inv'
<1>1. PICK m \in Modes :
        Begin(r, [Rest EXCEPT !.pc = "freeze", !.proc = p, !.profile = i, !.params = profile[i].params,
                    !.judge = m.judge, !.hints = m.hints, !.policy = m.policy,
                    !.total = Cardinality(Approved)])
  BY DEF BeginRun
<1>2. PICK v : v = profile[i].params
  OBVIOUS
<1>3. PICK n : n = Cardinality(Approved)
  OBVIOUS
<1>4. PICK b1 : b1 = m.judge
  OBVIOUS
<1>5. PICK b2 : b2 = m.hints
  OBVIOUS
<1>6. PICK b3 : b3 = m.policy
  OBVIOUS
<1>7. v \in Params /\ {b1, b2, b3} \subseteq BOOLEAN
  BY <1>2, <1>4, <1>5, <1>6, ParamsAre, ModeAssumption DEF Inv
<1>8. n \in 0 .. Cardinality(Items)
  BY <1>3, CountIs DEF Approved, Counts
<1>9. PICK q : q = [Rest EXCEPT !.pc = "freeze", !.proc = p, !.profile = i, !.params = v,
                      !.judge = b1, !.hints = b2, !.policy = b3, !.total = n]
  OBVIOUS
<1>10. q \in Request /\ q.pc = "freeze" /\ q.proc = p /\ q.profile = i /\ q.params = v
  BY <1>7, <1>8, <1>9, RestIs DEF Request
<1>11. Begin(r, q)
  BY <1>1, <1>2, <1>3, <1>4, <1>5, <1>6, <1>9
<1>12. Carried(q) /\ q.pc \notin InTransaction
  BY <1>7, <1>10 DEF Carried, InTransaction
<1> QED
  BY <1>10, <1>11, <1>12, BeginStep DEF BeginRun, Aside

\* The last step of a handler that touches neither the domain nor the profiles nor the runs.
LEMMA WriteDraftsStep ==
  ASSUME Inv, NEW r \in Requests, WriteDrafts(r)
  PROVE  Inv'
<1>1. TypeOK
  BY DEF Inv
<1>2. /\ request' \in [Requests -> Request] /\ request'[r] = Rest
      /\ \A o \in Requests : o # r => request'[o] = request[o]
  BY <1>1, EndIs DEF WriteDrafts
<1>3. Carried(Rest) /\ Rest.pc \notin InTransaction /\ request[r].pc \notin InTransaction
  BY RestIs DEF Carried, InTransaction, WriteDrafts
<1>4. UNCHANGED <<domain, workbench, writer, used, set, run, result, job, llm, raced>>
  BY DEF WriteDrafts, Aside
<1>5. Counted
  BY <1>1, <1>4, CountedNot
<1>6. item' \in [Items -> {"unused", "draft", "approved", "deleted"}]
  BY <1>1 DEF WriteDrafts, TypeOK
<1>7. TypeOK'
  BY <1>1, <1>2, <1>4, <1>6 DEF TypeOK, domain, workbench
<1> QED
  BY <1>2, <1>3, <1>4, <1>5, <1>7, Elsewhere

\* Items and models are read by steps of the tasks, and by nothing that is to stay so.
LEMMA ItemSteps ==
  ASSUME Inv, AddItem \/ (\E i \in Items : ApproveItem(i)) \/ ChangeModel
  PROVE  Inv'
<1>1. TypeOK
  BY DEF Inv
<1>2. UNCHANGED <<domain, workbench, writer, request, set, run, result, job, raced>>
  BY DEF AddItem, ApproveItem, ChangeModel, Aside
<1>3. Counted
  <2>1. CASE AddItem
    BY <1>1, <2>1, CountedRequest DEF AddItem
  <2>2. CASE \E i \in Items : ApproveItem(i)
    BY <1>1, <2>2, CountedNot DEF ApproveItem
  <2>3. CASE ChangeModel
    BY <1>1, <2>3, CountedEdit DEF ChangeModel
  <2> QED
    BY <2>1, <2>2, <2>3
<1>4. item' \in [Items -> {"unused", "draft", "approved", "deleted"}] /\ llm' \in Models
  BY <1>1 DEF AddItem, ApproveItem, ChangeModel, TypeOK
<1>5. TypeOK'
  BY <1>1, <1>2, <1>3, <1>4 DEF TypeOK, Counted, domain, workbench
<1> QED
  BY <1>2, <1>3, <1>5, Elsewhere

-----------------------------------------------------------------------------
(* The profiles.                                                           *)

\* Ids that are there have a least one.
LEMMA Least ==
  ASSUME NEW S, S \subseteq Nat, S # {}
  PROVE  \E i \in S : \A j \in S : i <= j
<1>1. \E x \in S : \A y \in S : ~(<<y, x>> \in OpToRel(<, Nat))
  BY WFMin, NatLessThanWellFounded
<1>2. PICK x \in S : \A y \in S : ~(y < x)
  BY <1>1 DEF OpToRel
<1> QED
  BY <1>2

LEMMA FirstIs ==
  ASSUME Actives # {}
  PROVE  First \in Actives /\ \A j \in Actives : First <= j
<1>1. Actives \subseteq Nat
  BY IdsAre DEF Actives
<1>2. \E i \in Actives : \A j \in Actives : i <= j
  BY <1>1, Least
<1> QED
  BY <1>2 DEF First

LEMMA FirstIsThat ==
  ASSUME NEW i \in Actives, \A j \in Actives : i <= j
  PROVE  First = i
<1>1. First \in Actives /\ First <= i
  BY FirstIs
<1>2. i <= First
  BY <1>1
<1>3. i \in Nat /\ First \in Nat
  BY <1>1, IdsAre DEF Actives
<1> QED
  BY <1>1, <1>2, <1>3

\* Steps that touch the profiles alone.
LEMMA Besides ==
  ASSUME Inv, UNCHANGED <<domain, writer, book>>, Counted, TypeOK', ProfileInv',
         \A r \in Requests : \/ request'[r] = request[r]
                             \/ request[r].pc \notin InTransaction /\ request'[r].pc \notin InTransaction
  PROVE  Inv'
<1>1. DomainInv'
  <2>1. TypeOK /\ DomainInv /\ UNCHANGED <<domain, writer>>
    BY DEF Inv
  <2> QED
    BY <2>1, DomainSame
<1>2. UNCHANGED <<run, job, result, raced>>
  BY DEF book
<1>3. ASSUME NEW x \in Runs PROVE RunInv(x)'
  <2>1. config'.revision \in Nat /\ config.revision <= config'.revision
    BY Numbers DEF domain, Inv
  <2> QED
    BY <1>2, <2>1, SameRun DEF Inv
<1>4. RevisionNamesContent'
  BY <1>2, NamedSame DEF Inv, Stored
<1> QED
  BY <1>1, <1>3, <1>4 DEF Inv

\* The same rows are active, with the same parameters.
LEMMA SameActives ==
  ASSUME Actives' = Actives, \A i \in Actives : profile'[i].params = profile[i].params
  PROVE  InForce' = InForce
<1>1. First' = First
  BY DEF First
<1>2. Actives # {} => First \in Actives
  BY FirstIs
<1> QED
  BY <1>1, <1>2 DEF InForce

LEMMA UnusedIs ==
  Unused \in Profile /\ Unused.st = "unused" /\ ~Unused.isActive /\ Unused.params = Base
BY BaseAssumption DEF Unused, Profile

LEMMA CreateProfileStep ==
  ASSUME Inv, CreateProfile, UNCHANGED book
  PROVE  Inv'
<1>1. TypeOK /\ ProfileInv
  BY DEF Inv
<1>2. PICK i \in NewProfile, v \in Params :
        profile' = [profile EXCEPT ![i] = [Unused EXCEPT !.st = "live", !.params = v]]
  BY DEF CreateProfile
<1>3. PICK q : q = [Unused EXCEPT !.st = "live", !.params = v]
  OBVIOUS
<1>4. q \in Profile /\ q.st = "live" /\ ~q.isActive
  BY <1>3, UnusedIs DEF Profile
<1>5. /\ i \in Profiles /\ profile[i].st = "unused" /\ \A j \in Profiles : j < i => profile[j].st # "unused"
  BY DEF NewProfile
<1>6. /\ profile' \in [Profiles -> Profile] /\ profile'[i] = q
      /\ \A j \in Profiles : j # i => profile'[j] = profile[j]
  BY <1>1, <1>2, <1>3, <1>4, <1>5 DEF TypeOK
<1>7. UNCHANGED <<domain, request, writer, active, behind>>
  BY DEF CreateProfile
<1>8. Counted
  BY <1>1, CountedRequest DEF CreateProfile
<1>9. TypeOK'
  BY <1>1, <1>6, <1>7, <1>8 DEF TypeOK, Counted, domain, book
<1>10. Actives' = Actives
  BY <1>4, <1>5, <1>6 DEF Actives, Live
<1>11. \A j \in Actives : j # i /\ profile'[j] = profile[j]
  BY <1>5, <1>6 DEF Actives, Live
<1>12. ProfileInv'
  <2>1. Ordered'
    BY <1>1, <1>4, <1>5, <1>6 DEF ProfileInv, Ordered
  <2>2. OneActive'
    BY <1>1, <1>10, <1>11 DEF ProfileInv, OneActive
  <2>3. MemoryFollowsRow'
    BY <1>1, <1>7, <1>10, <1>11, SameActives DEF ProfileInv, MemoryFollowsRow
  <2>4. ASSUME NEW r \in Requests PROVE Carried(request[r])'
    <3>1. Carried(request[r])
      BY <1>1 DEF ProfileInv
    <3> QED
      BY <1>5, <1>6, <1>7, <3>1 DEF Carried, Live
  <2> QED
    BY <2>1, <2>2, <2>3, <2>4 DEF ProfileInv
<1> QED
  BY <1>7, <1>8, <1>9, <1>12, Besides

LEMMA InsertDefaultStep ==
  ASSUME Inv, NEW r \in Requests, InsertDefault(r), UNCHANGED book
  PROVE  Inv'
<1>1. TypeOK /\ ProfileInv
  BY DEF Inv
<1>2. PICK q : q = [st |-> "live", params |-> Base, isDefault |-> TRUE, isActive |-> TRUE]
  OBVIOUS
<1>3. PICK i \in NewProfile : profile' = [profile EXCEPT ![i] = q]
  BY <1>2 DEF InsertDefault
<1>4. q \in Profile /\ q.st = "live" /\ q.isActive /\ q.isDefault /\ q.params = Base
  BY <1>2, BaseAssumption DEF Profile
<1>5. /\ i \in Profiles /\ profile[i].st = "unused" /\ \A j \in Profiles : j < i => profile[j].st # "unused"
  BY DEF NewProfile
<1>6. /\ profile' \in [Profiles -> Profile] /\ profile'[i] = q
      /\ \A j \in Profiles : j # i => profile'[j] = profile[j]
  BY <1>1, <1>3, <1>4, <1>5 DEF TypeOK
<1>7. UNCHANGED <<domain, writer, used, active, behind>>
  BY DEF InsertDefault
<1>8. Counted
  BY <1>1, <1>7, CountedNot
<1>9. /\ request' \in [Requests -> Request] /\ request'[r] = Rest
      /\ \A o \in Requests : o # r => request'[o] = request[o]
  BY <1>1, EndIs DEF InsertDefault
<1>10. TypeOK'
  BY <1>1, <1>6, <1>7, <1>9 DEF TypeOK, domain, book
<1>11. Actives' = Actives \cup {i}
  BY <1>4, <1>5, <1>6 DEF Actives, Live
<1>12. \A j \in Actives : j # i /\ j < i /\ profile'[j] = profile[j]
  <2> SUFFICES ASSUME NEW j \in Actives PROVE j # i /\ j < i /\ profile'[j] = profile[j]
    OBVIOUS
  <2>1. j \in Profiles /\ profile[j].st = "live" /\ j # i
    BY <1>5 DEF Actives, Live
  <2>2. ~(i < j)
    BY <1>1, <1>5, <2>1 DEF ProfileInv, Ordered
  <2>3. i \in Nat /\ j \in Nat
    BY <1>5, <2>1, IdsAre
  <2> QED
    BY <1>6, <2>1, <2>2, <2>3
<1>13. InForce' = InForce
  <2>1. CASE Actives = {}
    <3>1. Actives' = {i}
      BY <1>11, <2>1
    <3>2. First' = i
      BY <3>1 DEF First
    <3> QED
      BY <1>4, <1>6, <2>1, <3>1, <3>2 DEF InForce
  <2>2. CASE Actives # {}
    <3>1. First \in Actives /\ \A j \in Actives : First <= j
      BY <2>2, FirstIs
    <3>2. First \in Actives' /\ \A j \in Actives' : First <= j
      <4>1. First < i /\ i \in Nat /\ First \in Nat
        BY <1>5, <1>12, <3>1, IdsAre DEF Actives
      <4> QED
        BY <1>11, <3>1, <4>1
    <3>3. \A j \in Actives' : (\A k \in Actives' : j <= k) => j = First
      <4> SUFFICES ASSUME NEW j \in Actives', \A k \in Actives' : j <= k PROVE j = First
        OBVIOUS
      <4>1. j <= First /\ First <= j
        BY <3>2
      <4>2. j \in Nat /\ First \in Nat
        BY <1>5, <1>11, <3>1, IdsAre DEF Actives
      <4> QED
        BY <4>1, <4>2
    <3>4. First' = First
      <4>1. PICK c : c = First
        OBVIOUS
      <4>2. First' = CHOOSE j \in Actives' : \A k \in Actives' : j <= k
        BY DEF First
      <4>3. c \in Actives' /\ (\A j \in Actives' : c <= j)
            /\ \A j \in Actives' : (\A k \in Actives' : j <= k) => j = c
        BY <3>2, <3>3, <4>1
      <4>4. (CHOOSE j \in Actives' : \A k \in Actives' : j <= k) = c
        BY <4>3
      <4> QED
        BY <4>1, <4>2, <4>4
    <3> QED
      BY <1>11, <1>12, <2>2, <3>1, <3>4 DEF InForce
  <2> QED
    BY <2>1, <2>2
<1>14. ProfileInv'
  <2>1. Ordered'
    BY <1>1, <1>4, <1>5, <1>6 DEF ProfileInv, Ordered
  <2>2. OneActive'
    <3> SUFFICES ASSUME NEW a \in Actives', NEW b \in Actives', a < b
                 PROVE  profile'[b].isDefault /\ profile'[b].params = Base
      BY DEF OneActive
    <3>1. CASE b = i
      BY <1>4, <1>6, <3>1
    <3>2. CASE b # i
      <4>1. b \in Actives /\ b < i
        BY <1>11, <1>12, <3>2
      <4>2. a # i
        BY <1>5, <4>1, IdsAre DEF Actives
      <4> QED
        BY <1>1, <1>11, <1>12, <4>1, <4>2 DEF ProfileInv, OneActive
    <3> QED
      BY <3>1, <3>2
  <2>3. MemoryFollowsRow'
    BY <1>1, <1>7, <1>13 DEF ProfileInv, MemoryFollowsRow
  <2>4. ASSUME NEW o \in Requests PROVE Carried(request[o])'
    <3>1. CASE o = r
      BY <1>9, <3>1, RestIs DEF Carried
    <3>2. CASE o # r
      <4>1. Carried(request[o])
        BY <1>1 DEF ProfileInv
      <4> QED
        BY <1>5, <1>6, <1>9, <3>2, <4>1 DEF Carried, Live
    <3> QED
      BY <3>1, <3>2
  <2> QED
    BY <2>1, <2>2, <2>3, <2>4 DEF ProfileInv
<1>15. request[r].pc \notin InTransaction /\ request'[r].pc \notin InTransaction
  BY <1>9, RestIs DEF InsertDefault, InTransaction
<1> QED
  BY <1>7, <1>8, <1>9, <1>10, <1>14, <1>15, Besides

LEMMA DropProfileStep ==
  ASSUME Inv, NEW r \in Requests, DropProfile(r), UNCHANGED book
  PROVE  Inv'
<1>1. TypeOK /\ ProfileInv
  BY DEF Inv
<1>2. PICK i : i = request[r].profile
  OBVIOUS
<1>3. i \in Profiles /\ profile[i].st # "unused" /\ request[r].pc = "drop"
  <2>1. Carried(request[r]) /\ request[r].pc = "drop"
    BY <1>1 DEF ProfileInv, DropProfile
  <2> QED
    BY <1>2, <2>1 DEF Carried
<1>4. PICK q : q = [Unused EXCEPT !.st = "deleted"]
  OBVIOUS
<1>5. q \in Profile /\ q.st = "deleted"
  BY <1>4, UnusedIs DEF Profile
<1>6. profile' = [profile EXCEPT ![i] = q] /\ behind' = IF i \in Actives THEN Procs ELSE behind
  BY <1>2, <1>4 DEF DropProfile
<1>7. /\ profile' \in [Profiles -> Profile] /\ profile'[i] = q
      /\ \A j \in Profiles : j # i => profile'[j] = profile[j]
  BY <1>1, <1>3, <1>5, <1>6 DEF TypeOK
<1>8. UNCHANGED <<domain, writer, used, active>>
  BY DEF DropProfile
<1>9. Counted
  BY <1>1, <1>8, CountedNot
<1>10. /\ request' \in [Requests -> Request] /\ request'[r] = Rest
       /\ \A o \in Requests : o # r => request'[o] = request[o]
  BY <1>1, EndIs DEF DropProfile
<1>11. behind' \subseteq Procs
  BY <1>1, <1>6 DEF TypeOK
<1>12. TypeOK'
  BY <1>1, <1>7, <1>8, <1>10, <1>11 DEF TypeOK, domain, book
<1>13. Actives' = Actives \ {i} /\ \A j \in Actives \ {i} : profile'[j] = profile[j]
  BY <1>3, <1>5, <1>7 DEF Actives, Live
<1>14. ProfileInv'
  <2>1. Ordered'
    BY <1>1, <1>3, <1>5, <1>7 DEF ProfileInv, Ordered
  <2>2. OneActive'
    BY <1>1, <1>13 DEF ProfileInv, OneActive
  <2>3. MemoryFollowsRow'
    <3>1. CASE i \in Actives
      BY <1>6, <3>1 DEF MemoryFollowsRow
    <3>2. CASE i \notin Actives
      <4>1. Actives' = Actives /\ \A j \in Actives : profile'[j].params = profile[j].params
        BY <1>13, <3>2
      <4>2. InForce' = InForce
        BY <4>1, SameActives
      <4> QED
        BY <1>1, <1>6, <1>8, <3>2, <4>2 DEF ProfileInv, MemoryFollowsRow
    <3> QED
      BY <3>1, <3>2
  <2>4. ASSUME NEW o \in Requests PROVE Carried(request[o])'
    <3>1. CASE o = r
      BY <1>10, <3>1, RestIs DEF Carried
    <3>2. CASE o # r
      <4>1. Carried(request[o])
        BY <1>1 DEF ProfileInv
      <4> QED
        BY <1>5, <1>7, <1>10, <3>2, <4>1 DEF Carried, Live
    <3> QED
      BY <3>1, <3>2
  <2> QED
    BY <2>1, <2>2, <2>3, <2>4 DEF ProfileInv
<1>15. request[r].pc \notin InTransaction /\ request'[r].pc \notin InTransaction
  BY <1>3, <1>10, RestIs DEF InTransaction
<1> QED
  BY <1>8, <1>9, <1>10, <1>12, <1>14, <1>15, Besides

LEMMA GotoIs ==
  ASSUME TypeOK, NEW r \in Requests, NEW pc, Goto(r, pc),
         pc \in {"idle", "edit", "default", "apply", "announce", "drop", "generate",
                 "dropItem", "dropSet", "freeze", "insert"}
  PROVE  /\ request' \in [Requests -> Request]
         /\ request'[r].pc = pc /\ request'[r].profile = request[r].profile
         /\ request'[r].proc = request[r].proc /\ request'[r].params = request[r].params
         /\ \A o \in Requests : o # r => request'[o] = request[o]
<1>1. request[r] \in Request
  BY DEF TypeOK
<1>2. PICK q : q = [request[r] EXCEPT !.pc = pc]
  OBVIOUS
<1>3. /\ q \in Request /\ q.pc = pc /\ q.profile = request[r].profile
      /\ q.proc = request[r].proc /\ q.params = request[r].params
  BY <1>1, <1>2 DEF Request
<1>4. request' = [request EXCEPT ![r] = q]
  BY <1>1, <1>2 DEF Goto, TypeOK
<1> QED
  BY <1>3, <1>4, OneRequest

LEMMA ActivateStep ==
  ASSUME Inv, NEW r \in Requests, Activate(r), UNCHANGED book
  PROVE  Inv'
<1>1. TypeOK /\ ProfileInv /\ Carried(request[r]) /\ request[r].pc = "apply"
  BY DEF Inv, ProfileInv, Activate
<1>2. PICK i : i = request[r].profile
  OBVIOUS
<1>3. profile' = [j \in Profiles |-> [profile[j] EXCEPT !.isActive = (j = i /\ Live(i))]]
  BY <1>2 DEF Activate
<1>4. ASSUME NEW j \in Profiles
      PROVE  /\ profile'[j] \in Profile /\ profile'[j].st = profile[j].st
             /\ profile'[j].params = profile[j].params
             /\ profile'[j].isActive => j = i
  <2>1. PICK b \in BOOLEAN : b = (j = i /\ Live(i))
    OBVIOUS
  <2>2. profile'[j] = [profile[j] EXCEPT !.isActive = b]
    BY <1>3, <2>1
  <2>3. profile[j] \in Profile
    BY <1>1 DEF TypeOK
  <2>4. /\ profile'[j] \in Profile /\ profile'[j].st = profile[j].st
        /\ profile'[j].params = profile[j].params /\ profile'[j].isActive = b
    BY <2>2, <2>3 DEF Profile
  <2> QED
    BY <2>1, <2>4
<1>5. profile' \in [Profiles -> Profile]
  BY <1>3, <1>4
<1>6. UNCHANGED <<domain, writer, used, active>> /\ behind' = Procs
  BY DEF Activate
<1>7. Counted
  BY <1>1, <1>6, CountedNot
<1>8. /\ request' \in [Requests -> Request]
      /\ request'[r].pc = "announce" /\ request'[r].profile = request[r].profile
      /\ request'[r].proc = request[r].proc /\ request'[r].params = request[r].params
      /\ \A o \in Requests : o # r => request'[o] = request[o]
  BY <1>1, GotoIs DEF Activate
<1>9. TypeOK'
  BY <1>1, <1>5, <1>6, <1>8 DEF TypeOK, domain, book
<1>10. ProfileInv'
  <2>1. Ordered'
    BY <1>1, <1>4 DEF ProfileInv, Ordered
  <2>2. OneActive'
    <3>1. \A a, b \in Actives' : a = i /\ b = i
      BY <1>4 DEF Actives
    <3>2. \A a \in Actives' : a \in Nat
      BY IdsAre DEF Actives
    <3> QED
      BY <3>1, <3>2 DEF OneActive
  <2>3. MemoryFollowsRow'
    BY <1>6 DEF MemoryFollowsRow
  <2>4. ASSUME NEW o \in Requests PROVE Carried(request[o])'
    <3>1. Carried(request[o])
      BY <1>1 DEF ProfileInv
    <3>2. CASE o = r
      BY <1>1, <1>4, <1>8, <3>2 DEF Carried, Live
    <3>3. CASE o # r
      BY <1>4, <1>8, <3>1, <3>3 DEF Carried, Live
    <3> QED
      BY <3>2, <3>3
  <2> QED
    BY <2>1, <2>2, <2>3, <2>4 DEF ProfileInv
<1>11. request[r].pc \notin InTransaction /\ request'[r].pc \notin InTransaction
  BY <1>1, <1>8 DEF InTransaction
<1> QED
  BY <1>6, <1>7, <1>8, <1>9, <1>10, <1>11, Besides

LEMMA AnnounceStep ==
  ASSUME Inv, NEW r \in Requests, Announce(r), UNCHANGED book
  PROVE  Inv'
<1>1. TypeOK /\ ProfileInv /\ Carried(request[r]) /\ request[r].pc = "announce"
  BY DEF Inv, ProfileInv, Announce
<1>2. PICK p : p = request[r].proc
  OBVIOUS
<1>3. PICK v : v = request[r].params
  OBVIOUS
<1>4. p \in Procs /\ v \in Params
  BY <1>1, <1>2, <1>3 DEF Carried
<1>5. /\ active' = [active EXCEPT ![p] = v]
      /\ behind' = IF Actives # {} /\ First = request[r].profile THEN behind \ {p} ELSE behind \cup {p}
  BY <1>2, <1>3 DEF Announce
<1>6. /\ active' \in [Procs -> Params] /\ behind' \subseteq Procs /\ active'[p] = v
      /\ \A o \in Procs : o # p => active'[o] = active[o]
  BY <1>1, <1>4, <1>5 DEF TypeOK
<1>7. UNCHANGED <<domain, writer, used, profile>>
  BY DEF Announce
<1>8. Counted
  BY <1>1, <1>7, CountedNot
<1>9. /\ request' \in [Requests -> Request] /\ request'[r] = Rest
      /\ \A o \in Requests : o # r => request'[o] = request[o]
  BY <1>1, EndIs DEF Announce
<1>10. TypeOK'
  BY <1>1, <1>6, <1>7, <1>9 DEF TypeOK, domain, book
<1>11. Actives' = Actives /\ InForce' = InForce
  BY <1>7, SameActives DEF Actives, Live
<1>12. ProfileInv'
  <2>1. Ordered' /\ OneActive'
    BY <1>1, <1>7, <1>11 DEF ProfileInv, Ordered, OneActive
  <2>2. MemoryFollowsRow'
    <3> SUFFICES ASSUME NEW o \in Procs \ behind' PROVE active'[o] = InForce
      BY <1>11 DEF MemoryFollowsRow
    <3>1. CASE o = p
      <4>1. Actives # {} /\ First = request[r].profile
        BY <1>5, <3>1
      <4>2. Live(request[r].profile)
        BY <4>1, FirstIs DEF Actives
      <4> QED
        BY <1>1, <1>3, <1>6, <3>1, <4>1, <4>2 DEF Carried, InForce
    <3>2. CASE o # p
      BY <1>1, <1>5, <1>6, <3>2 DEF ProfileInv, MemoryFollowsRow
    <3> QED
      BY <3>1, <3>2
  <2>3. ASSUME NEW o \in Requests PROVE Carried(request[o])'
    <3>1. CASE o = r
      BY <1>9, <3>1, RestIs DEF Carried
    <3>2. CASE o # r
      <4>1. Carried(request[o])
        BY <1>1 DEF ProfileInv
      <4> QED
        BY <1>7, <1>9, <3>2, <4>1 DEF Carried, Live
    <3> QED
      BY <3>1, <3>2
  <2> QED
    BY <2>1, <2>2, <2>3 DEF ProfileInv
<1>13. request[r].pc \notin InTransaction /\ request'[r].pc \notin InTransaction
  BY <1>1, <1>9, RestIs DEF InTransaction
<1> QED
  BY <1>7, <1>8, <1>9, <1>10, <1>12, <1>13, Besides

-----------------------------------------------------------------------------
(* The domain.                                                             *)

\* Steps that change nothing but the lock and one request in a transaction.
LEMMA Transaction ==
  ASSUME Inv, NEW r \in Requests, NEW q \in Request, request' = [request EXCEPT ![r] = q],
         UNCHANGED <<domain, workbench, book>>, Counted, writer = None, writer' = r,
         q.pc \in InTransaction, Carried(q), Reading(q)'
  PROVE  Inv'
<1>1. TypeOK /\ DomainInv /\ ProfileInv
  BY DEF Inv
<1>2. /\ request' \in [Requests -> Request] /\ request'[r] = q
      /\ \A o \in Requests : o # r => request'[o] = request[o]
  BY <1>1, OneRequest
<1>3. TypeOK'
  BY <1>1, <1>2 DEF TypeOK, Counted, domain, workbench, book
<1>4. \A o \in Requests : request[o].pc \notin InTransaction
  BY <1>1, NoneAssumption DEF DomainInv, Locked, InTransaction
<1>5. Locked'
  BY <1>2, <1>4 DEF Locked, InTransaction
<1>6. ASSUME NEW o \in Requests PROVE Reading(request[o])'
  <2>1. CASE o = r
    BY <1>2, <2>1 DEF Reading
  <2>2. CASE o # r
    BY <1>2, <1>4, <2>2 DEF Reading, InTransaction
  <2> QED
    BY <2>1, <2>2
<1>7. config'.revision <= used'.edits + 1 /\ HintRules'
  <2>1. used'.edits \in Nat /\ config' = config /\ hints' = hints
    BY BoundAssumption DEF Counted, Used, domain
  <2>2. config'.revision <= used'.edits + 1
    BY <1>1, <2>1, Numbers DEF DomainInv, Counted
  <2> QED
    BY <1>1, <2>1, <2>2 DEF DomainInv, HintRules, Present
<1>8. ProfileInv'
  BY <1>1, <1>2, ProfilesSame
<1>9. UNCHANGED <<run, job, result, raced>>
  BY DEF book
<1>10. ASSUME NEW x \in Runs PROVE RunInv(x)'
  <2>1. config'.revision \in Nat /\ config.revision <= config'.revision
    BY <1>1, Numbers DEF domain
  <2> QED
    BY <1>9, <2>1, SameRun DEF Inv
<1>11. RevisionNamesContent'
  BY <1>9, NamedSame DEF Inv, Stored
<1> QED
  BY <1>3, <1>5, <1>6, <1>7, <1>8, <1>10, <1>11 DEF Inv, DomainInv

\* An edit begins: what it is about to write fits what is there.
LEMMA OpensStep ==
  ASSUME Inv, NEW r \in Requests, BeginImmediate(r), UNCHANGED <<workbench, book>>, NEW e \in Edit, Opens(r, e),
         e.to = "hint" => Fits(e.id, e.hint)
  PROVE  Inv'
<1>1. TypeOK /\ config.revision <= used.edits + 1
  BY DEF Inv, DomainInv
<1>2. Counted /\ used'.edits = used.edits + 1 /\ used'.edits <= MaxEdits
  BY <1>1, CountedEdit DEF BeginImmediate
<1>3. PICK n : n = config.revision + 1
  OBVIOUS
<1>4. n \in Revisions /\ n <= used'.edits + 1
  BY <1>1, <1>2, <1>3, Numbers, BoundAssumption DEF Revisions
<1>5. PICK f : f = [e EXCEPT !.revision = n]
  OBVIOUS
<1>6. f \in Edit /\ f.revision = n /\ f.to = e.to /\ f.id = e.id /\ f.hint = e.hint
  BY <1>4, <1>5 DEF Edit
<1>7. PICK q : q = [Rest EXCEPT !.pc = "edit", !.edit = f]
  OBVIOUS
<1>8. q \in Request /\ q.pc = "edit" /\ q.edit = f
  BY <1>6, <1>7, RestIs DEF Request
<1>9. request' = [request EXCEPT ![r] = q]
  BY <1>3, <1>5, <1>7 DEF Opens
<1>10. UNCHANGED domain /\ writer = None /\ writer' = r
  BY DEF BeginImmediate, Unlocked
<1>11. Reading(q)'
  BY <1>3, <1>4, <1>6, <1>8, <1>10 DEF Reading, Fits, domain, Present
<1>12. Carried(q) /\ q.pc \in InTransaction
  BY <1>8 DEF Carried, InTransaction
<1> QED
  BY <1>2, <1>8, <1>9, <1>10, <1>11, <1>12, Transaction

LEMMA SaveConfigStep ==
  ASSUME Inv, NEW r \in Requests, SaveConfig(r), UNCHANGED <<workbench, book>>
  PROVE  Inv'
<1>1. PICK f \in Forms : Opens(r, [NoEdit EXCEPT !.to = "config", !.form = f])
  BY DEF SaveConfig
<1>2. PICK e : e = [NoEdit EXCEPT !.to = "config", !.form = f]
  OBVIOUS
<1>3. e \in Edit /\ e.to = "config"
  BY <1>2, RestIs, FormAssumption DEF Edit
<1> QED
  BY <1>1, <1>2, <1>3, OpensStep DEF SaveConfig

LEMMA HintEdit ==
  ASSUME NEW i \in Hints \cup {0}, NEW h \in Hint \cup {None}
  PROVE  /\ [NoEdit EXCEPT !.to = "hint", !.id = i, !.hint = h] \in Edit
         /\ [NoEdit EXCEPT !.to = "hint", !.id = i, !.hint = h].to = "hint"
         /\ [NoEdit EXCEPT !.to = "hint", !.id = i, !.hint = h].id = i
         /\ [NoEdit EXCEPT !.to = "hint", !.id = i, !.hint = h].hint = h
BY RestIs DEF Edit

LEMMA CreateHintStep ==
  ASSUME Inv, NEW r \in Requests, CreateHint(r), UNCHANGED <<workbench, book>>
  PROVE  Inv'
<1>1. PICK h \in Hint : ~Taken(h.term, 0) /\ Opens(r, [NoEdit EXCEPT !.to = "hint", !.hint = h])
  BY DEF CreateHint
<1>2. PICK e : e = [NoEdit EXCEPT !.to = "hint", !.hint = h]
  OBVIOUS
<1>3. e \in Edit /\ e.to = "hint" /\ e.id = 0 /\ e.hint = h
  BY <1>2, RestIs DEF Edit, NoEdit
<1>4. Fits(0, h)
  BY <1>1, RowAssumption DEF Fits, Taken, CreateHint
<1> QED
  BY <1>1, <1>2, <1>3, <1>4, OpensStep DEF CreateHint

LEMMA UpdateHintStep ==
  ASSUME Inv, NEW r \in Requests, UpdateHint(r), UNCHANGED <<workbench, book>>
  PROVE  Inv'
<1>1. PICK i \in Present(hints), h \in Hint :
        /\ ~Taken(h.term, i)
        /\ Opens(r, [NoEdit EXCEPT !.to = "hint", !.id = i, !.hint = h])
  BY DEF UpdateHint
<1>2. i \in Hints
  BY DEF Present
<1>3. PICK e : e = [NoEdit EXCEPT !.to = "hint", !.id = i, !.hint = h]
  OBVIOUS
<1>4. e \in Edit /\ e.id = i /\ e.hint = h
  BY <1>2, <1>3, HintEdit
<1>5. Fits(i, h)
  <2>1. i # 0
    BY <1>2, IdsAre
  <2> QED
    BY <1>1, <2>1 DEF Fits, Taken
<1> QED
  BY <1>1, <1>3, <1>4, <1>5, OpensStep DEF UpdateHint

LEMMA DeleteHintStep ==
  ASSUME Inv, NEW r \in Requests, DeleteHint(r), UNCHANGED <<workbench, book>>
  PROVE  Inv'
<1>1. PICK i \in Present(hints) : Opens(r, [NoEdit EXCEPT !.to = "hint", !.id = i])
  BY DEF DeleteHint
<1>2. i \in Hints
  BY DEF Present
<1>3. PICK e : e = [NoEdit EXCEPT !.to = "hint", !.id = i]
  OBVIOUS
<1>4. e \in Edit /\ e.id = i /\ e.hint = None
  BY <1>2, <1>3, RestIs DEF Edit, NoEdit
<1>5. Fits(i, None)
  BY <1>1, <1>2, IdsAre DEF Fits
<1> QED
  BY <1>1, <1>3, <1>4, <1>5, OpensStep DEF DeleteHint

\* The row of a hint is written.
LEMMA HintWritten ==
  ASSUME TypeOK, HintRules, NEW i \in Hints, NEW h \in Hint \cup {None}, hints' = [hints EXCEPT ![i] = h],
         h # None => /\ \A j \in Present(hints) \ {i} : Casefold[hints[j].term] # Casefold[h.term]
                     /\ i \in Present(hints) \/ Cardinality(Present(hints)) < MaxHints
  PROVE  HintRules'
<1>1. /\ hints'[i] = h /\ \A j \in Hints : j # i => hints'[j] = hints[j]
  BY DEF TypeOK
<1>2. IsFiniteSet(Present(hints)) /\ Cardinality(Present(hints)) \in Nat /\ MaxHints \in Nat
  BY IdsAre, FS_Subset, FS_CardinalityType, BoundAssumption DEF Present
<1>3. Present(hints)' = IF h = None THEN Present(hints) \ {i} ELSE Present(hints) \cup {i}
  BY <1>1 DEF Present
<1>4. \A j, k \in Present(hints)' : j # k => Casefold[hints'[j].term] # Casefold[hints'[k].term]
  <2> SUFFICES ASSUME NEW j \in Present(hints)', NEW k \in Present(hints)', j # k
               PROVE  Casefold[hints'[j].term] # Casefold[hints'[k].term]
    OBVIOUS
  <2>1. j \in Hints /\ k \in Hints
    BY DEF Present
  <2>2. CASE j # i /\ k # i
    BY <1>1, <1>3, <2>1, <2>2 DEF HintRules
  <2>3. CASE j = i
    BY <1>1, <1>3, <2>1, <2>3
  <2>4. CASE k = i
    BY <1>1, <1>3, <2>1, <2>4
  <2> QED
    BY <2>2, <2>3, <2>4
<1>5. Cardinality(Present(hints)') <= MaxHints
  <2>1. Cardinality(Present(hints)) <= MaxHints
    BY DEF HintRules
  <2>2. CASE h = None
    <3>1. Cardinality(Present(hints) \ {i}) <= Cardinality(Present(hints))
          /\ Cardinality(Present(hints) \ {i}) \in Nat
      BY <1>2, FS_Subset, FS_CardinalityType
    <3>2. Present(hints)' = Present(hints) \ {i}
      BY <1>3, <2>2
    <3>3. Cardinality(Present(hints)') = Cardinality(Present(hints) \ {i})
      BY <3>2
    <3> QED
      BY <1>2, <2>1, <3>1, <3>3
  <2>3. CASE h # None /\ i \in Present(hints)
    <3>1. Present(hints)' = Present(hints)
      BY <1>3, <2>3
    <3> QED
      BY <2>1, <3>1
  <2>4. CASE h # None /\ i \notin Present(hints)
    <3>1. Cardinality(Present(hints) \cup {i}) = Cardinality(Present(hints)) + 1
      BY <1>2, <2>4, FS_AddElement
    <3>2. Cardinality(Present(hints)) < MaxHints
      BY <2>4
    <3>3. Present(hints)' = Present(hints) \cup {i}
      BY <1>3, <2>4
    <3>4. Cardinality(Present(hints)') = Cardinality(Present(hints) \cup {i})
      BY <3>3
    <3> QED
      BY <1>2, <3>1, <3>2, <3>4
  <2> QED
    BY <2>2, <2>3, <2>4
<1> QED
  BY <1>4, <1>5 DEF HintRules, Present

\* Under the write lock the index never has to refuse: it is finer than the check.
LEMMA NotRefused ==
  ASSUME TypeOK, NEW e \in Edit, Fits(e.id, e.hint)
  PROVE  ~Refused(e)
<1>1. e.id # 0 => hints[e.id] # None
  BY DEF Fits, Present
<1>2. ASSUME e.hint # None, NEW j \in Present(hints) \ {e.id}
      PROVE  NoCase[hints[j].term] # NoCase[e.hint.term]
  <2>1. hints[j] \in Hint /\ e.hint \in Hint
    BY <1>2 DEF TypeOK, Present, Edit
  <2>2. hints[j].term \in Terms /\ e.hint.term \in Terms
    BY <2>1 DEF Hint
  <2>3. Casefold[hints[j].term] # Casefold[e.hint.term]
    BY <1>2 DEF Fits
  <2> QED
    BY <2>2, <2>3, TermAssumption
<1> QED
  BY <1>1, <1>2 DEF Refused

LEMMA WriteEditStep ==
  ASSUME Inv, NEW r \in Requests, WriteEdit(r), UNCHANGED <<workbench, book>>
  PROVE  Inv'
<1>1. TypeOK /\ DomainInv /\ ProfileInv /\ Reading(request[r]) /\ request[r].pc = "edit"
  BY DEF Inv, DomainInv, WriteEdit
<1>2. PICK e : e = request[r].edit
  OBVIOUS
<1>3. e \in Edit
  <2>1. request[r] \in Request
    BY <1>1 DEF TypeOK
  <2> QED
    BY <1>2, <2>1 DEF Request
<1>4. /\ e.revision = config.revision + 1 /\ e.revision <= used.edits + 1
      /\ e.to = "hint" => Fits(e.id, e.hint)
  BY <1>1, <1>2 DEF Reading
<1>20. ~(e.to = "hint" /\ Refused(e))
  BY <1>1, <1>3, <1>4, NotRefused
<1>21. PICK i \in (IF e.to = "hint" /\ e.id = 0 THEN FreeHint ELSE {e.id}) :
         hints' = IF e.to = "hint" THEN [hints EXCEPT ![i] = e.hint] ELSE hints
  BY <1>2, <1>20 DEF WriteEdit
<1>22. e.to = "hint" =>
         /\ i \in Hints
         /\ e.hint # None => /\ \A j \in Present(hints) \ {i} : Casefold[hints[j].term] # Casefold[e.hint.term]
                             /\ i \in Present(hints) \/ Cardinality(Present(hints)) < MaxHints
  <2>1. CASE e.to = "hint" /\ e.id = 0
    <3>1. i \in Hints /\ hints[i] = None
      BY <1>21, <2>1 DEF FreeHint
    <3>2. 0 \notin Hints
      BY IdsAre
    <3> QED
      BY <1>4, <2>1, <3>1, <3>2 DEF Fits, Present
  <2>2. CASE e.to = "hint" /\ e.id # 0
    BY <1>4, <1>21, <2>2 DEF Fits, Present
  <2> QED
    BY <2>1, <2>2
<1>5. /\ hints' = IF e.to = "hint" THEN [hints EXCEPT ![i] = e.hint] ELSE hints
      /\ config' = [(IF e.to = "config" THEN e.form ELSE config) EXCEPT !.revision = e.revision]
      /\ writer' = None /\ End(r) /\ UNCHANGED used
  BY <1>2, <1>20, <1>21 DEF WriteEdit
<1>6. config' \in Config /\ config'.revision = e.revision
  <2>1. PICK c : c = IF e.to = "config" THEN e.form ELSE config
    OBVIOUS
  <2>2. c \in Config
    BY <1>1, <1>3, <2>1 DEF Edit, TypeOK
  <2>3. PICK n : n = e.revision
    OBVIOUS
  <2>4. n \in Revisions
    BY <1>3, <2>3 DEF Edit
  <2>5. config' = [c EXCEPT !.revision = n]
    BY <1>5, <2>1, <2>3
  <2> QED
    BY <2>2, <2>3, <2>4, <2>5 DEF Config
<1>7. hints' \in [Hints -> Hint \cup {None}]
  BY <1>1, <1>3, <1>5, <1>22 DEF Edit, TypeOK
<1>8. /\ request' \in [Requests -> Request] /\ request'[r] = Rest
      /\ \A o \in Requests : o # r => request'[o] = request[o]
  BY <1>1, <1>5, EndIs
<1>9. TypeOK'
  BY <1>1, <1>5, <1>6, <1>7, <1>8 DEF TypeOK, workbench, book
<1>10. \A o \in Requests : o # r => request[o].pc \notin InTransaction
  BY <1>1 DEF DomainInv, Locked, InTransaction
<1>11. \A o \in Requests : request'[o].pc \notin InTransaction
  BY <1>8, <1>10, RestIs DEF InTransaction
<1>12. Locked' /\ \A o \in Requests : Reading(request[o])'
  BY <1>5, <1>11, NoneAssumption DEF Locked, Reading, InTransaction
<1>13. config'.revision <= used'.edits + 1
  BY <1>4, <1>5, <1>6
<1>14. HintRules'
  <2>1. CASE e.to = "hint"
    <3>1. HintRules /\ e.hint \in Hint \cup {None} /\ i \in Hints /\ hints' = [hints EXCEPT ![i] = e.hint]
      BY <1>1, <1>3, <1>5, <1>22, <2>1 DEF DomainInv, Edit
    <3> QED
      BY <1>1, <1>22, <2>1, <3>1, HintWritten
  <2>2. CASE e.to # "hint"
    BY <1>1, <1>5, <2>2 DEF DomainInv, HintRules, Present
  <2> QED
    BY <2>1, <2>2
<1>15. ProfileInv'
  <2>1. Carried(Rest)
    BY RestIs DEF Carried
  <2> QED
    BY <1>1, <1>8, <2>1, ProfilesSame
<1>16. UNCHANGED <<run, job, result, raced>>
  BY DEF book
<1>17. config.revision \in Nat /\ config'.revision \in Nat /\ config.revision < config'.revision
  BY <1>1, <1>4, <1>6, Numbers
<1>18. ASSUME NEW x \in Runs PROVE RunInv(x)'
  <2>1. Counted /\ config.revision <= config'.revision
    BY <1>1, <1>5, <1>17, CountedNot
  <2> QED
    BY <1>1, <1>16, <1>17, <2>1, SameRun DEF Inv
<1>19. RevisionNamesContent'
  <2>1. \A x \in Runs : Stored(x) => /\ run[x].snapshot.revision <= config.revision
                                     /\ run[x].snapshot.revision \in Nat
    BY <1>1, Numbers DEF Inv, RunInv, Recorded
  <2>2. \A x \in Runs : Stored(x) => run[x].snapshot.revision # config'.revision
    BY <1>17, <2>1
  <2> QED
    BY <1>16, <2>2 DEF Inv, RevisionNamesContent, Stored
<1> QED
  BY <1>9, <1>12, <1>13, <1>14, <1>15, <1>18, <1>19 DEF Inv, DomainInv

LEMMA FreezeStep ==
  ASSUME Inv, NEW r \in Requests, Freeze(r)
  PROVE  Inv'
<1>1. TypeOK /\ Carried(request[r]) /\ request[r].pc = "freeze" /\ request[r] \in Request
  BY DEF Inv, ProfileInv, Freeze, TypeOK
<1>2. PICK c : c = config
  OBVIOUS
<1>3. c \in Config
  BY <1>1, <1>2 DEF TypeOK
<1>4. PICK q : q = [request[r] EXCEPT !.pc = "insert", !.config = c]
  OBVIOUS
<1>5. /\ q \in Request /\ q.pc = "insert" /\ q.config = c
      /\ q.profile = request[r].profile /\ q.proc = request[r].proc /\ q.params = request[r].params
  BY <1>1, <1>3, <1>4 DEF Request
<1>6. request' = [request EXCEPT ![r] = q]
  BY <1>1, <1>2, <1>4 DEF Freeze, TypeOK
<1>7. UNCHANGED <<domain, workbench, book, used>> /\ writer = None /\ writer' = r
  BY DEF Freeze, Unlocked, Aside
<1>8. Carried(q) /\ q.pc \in InTransaction
  BY <1>1, <1>5 DEF Carried, InTransaction
<1>9. Reading(q)'
  BY <1>2, <1>5, <1>7 DEF Reading, domain
<1>10. Counted
  BY <1>1, <1>7, CountedNot
<1> QED
  BY <1>5, <1>6, <1>7, <1>8, <1>9, <1>10, Transaction

-----------------------------------------------------------------------------
(* The tasks.                                                              *)

\* A step of one task changes its job, its row and its results.
LEMMA OneRun ==
  ASSUME Inv, NEW x \in Runs, UNCHANGED <<domain, writer, workbench, request, raced>>, Counted, TypeOK',
         \A y \in Runs : y # x => run'[y] = run[y] /\ job'[y] = job[y] /\ result'[y] = result[y],
         Stored(x)' => Stored(x) /\ run'[x].snapshot = run[x].snapshot,
         RunInv(x)'
  PROVE  Inv'
<1>1. DomainInv'
  <2>1. TypeOK /\ DomainInv /\ UNCHANGED <<domain, writer>>
    BY DEF Inv
  <2> QED
    BY <2>1, DomainSame
<1>2. ProfileInv'
  BY ProfilesSame DEF Inv
<1>3. ASSUME NEW y \in Runs PROVE RunInv(y)'
  <2>1. CASE y = x
    BY <2>1
  <2>2. CASE y # x
    <3>1. TypeOK /\ RunInv(y) /\ UNCHANGED <<domain, raced>>
      BY DEF Inv
    <3>2. config'.revision \in Nat /\ config.revision <= config'.revision
      BY <3>1, Numbers DEF domain
    <3>3. run'[y] = run[y] /\ job'[y] = job[y] /\ result'[y] = result[y] /\ (y \in raced' <=> y \in raced)
      BY <2>2, <3>1
    <3> QED
      BY <3>1, <3>2, <3>3, SameRun
  <2> QED
    BY <2>1, <2>2
<1>4. RevisionNamesContent'
  <2>1. ASSUME NEW y \in Runs, Stored(y)' PROVE Stored(y) /\ run'[y].snapshot = run[y].snapshot
    <3>1. CASE y = x
      BY <2>1, <3>1
    <3>2. CASE y # x
      BY <2>1, <3>2 DEF Stored
    <3> QED
      BY <3>1, <3>2
  <2> QED
    BY <2>1, NamedSame DEF Inv
<1> QED
  BY <1>1, <1>2, <1>3, <1>4 DEF Inv

LEMMA BecomesIs ==
  ASSUME TypeOK, NEW x \in Runs, NEW row \in Run, Becomes(x, row)
  PROVE  /\ run' \in [Runs -> Run] /\ \A y \in Runs : y # x => run'[y] = run[y]
         /\ Stored(x) => run'[x] = row
         /\ ~Stored(x) => run'[x] = run[x]
BY DEF Becomes, TypeOK

LEMMA NoJobIs ==
  /\ NoJob \in Job /\ NoJob.pc = "none" /\ NoJob.proc = None /\ NoJob.done = 0
  /\ [NoJob EXCEPT !.pc = "ended"] \in Job /\ [NoJob EXCEPT !.pc = "ended"].pc = "ended"
<1>1. 0 \in Counts
  BY IdsAre DEF Counts
<1> QED
  BY <1>1 DEF NoJob, Job

LEMMA EndsIs ==
  ASSUME TypeOK, NEW x \in Runs, Ends(x)
  PROVE  /\ job' \in [Runs -> Job] /\ \A y \in Runs : y # x => job'[y] = job[y]
         /\ job'[x].pc = "ended"
<1>1. PICK j : j = [NoJob EXCEPT !.pc = "ended"]
  OBVIOUS
<1>2. j \in Job /\ j.pc = "ended" /\ job' = [job EXCEPT ![x] = j]
  BY <1>1, NoJobIs DEF Ends
<1> QED
  BY <1>2 DEF TypeOK

\* What a row says of the questions that are asked for it.
SameTerms(x) ==
  /\ run'[x].params = run[x].params /\ run'[x].snapshot = run[x].snapshot
  /\ run'[x].judge = run[x].judge /\ run'[x].hints = run[x].hints /\ run'[x].policy = run[x].policy

\* A task that is over leaves a row that has failed, or none.
LEMMA TaskOver ==
  ASSUME Inv, NEW x \in Runs, Ends(x), NEW row \in Run, row = [run[x] EXCEPT !.st = "failed"], Becomes(x, row),
         job[x].pc \in {"load"} \cup Asking,
         UNCHANGED <<domain, writer, workbench, request, set, item, result, llm, raced>>, Counted
  PROVE  Inv'
<1>1. TypeOK /\ RunInv(x) /\ run[x] \in Run
  BY DEF Inv, TypeOK
<1>2. /\ run' \in [Runs -> Run] /\ \A y \in Runs : y # x => run'[y] = run[y]
      /\ Stored(x) => run'[x] = row
      /\ ~Stored(x) => run'[x] = run[x]
  BY <1>1, BecomesIs
<1>3. /\ job' \in [Runs -> Job] /\ \A y \in Runs : y # x => job'[y] = job[y]
      /\ job'[x].pc = "ended"
  BY <1>1, EndsIs
<1>4. TypeOK'
  BY <1>1, <1>2, <1>3 DEF TypeOK, Counted, domain, workbench
<1>5. run[x].st # "unused"
  BY <1>1, NoJobIs DEF RunInv, Recorded, Asking
<1>6. SameTerms(x)
  BY <1>1, <1>2 DEF SameTerms, Run
<1>7. /\ Stored(x) => run'[x].st = "failed"
      /\ ~Stored(x) => run'[x].st = run[x].st
      /\ Stored(x)' => Stored(x)
  BY <1>1, <1>2 DEF Run, Stored
<1>8. run'[x].st \notin {"unused", "queued", "running", "succeeded"}
  BY <1>1, <1>5, <1>7 DEF Stored, Run
<1>9. Working(x)'
  BY <1>3 DEF Working, Asking
<1>10. Recorded(x)'
  BY <1>1, <1>6, <1>7, <1>8 DEF RunInv, Recorded, SameTerms, OfRow, Readable, Results, domain
<1>11. Ended(x)'
  BY <1>8 DEF Ended
<1>12. Stored(x)' => Stored(x) /\ run'[x].snapshot = run[x].snapshot
  BY <1>6, <1>7 DEF SameTerms
<1>13. RunInv(x)'
  BY <1>9, <1>10, <1>11 DEF RunInv
<1> QED
  BY <1>2, <1>3, <1>4, <1>12, <1>13, OneRun

LEMMA FailedIs ==
  ASSUME TypeOK, NEW x \in Runs
  PROVE  [run[x] EXCEPT !.st = "failed"] \in Run
BY DEF TypeOK, Run

LEMMA NothingToDoStep ==
  ASSUME Inv, NEW x \in Runs, NothingToDo(x)
  PROVE  Inv'
<1>1. TypeOK
  BY DEF Inv
<1>2. PICK row : row = [run[x] EXCEPT !.st = "failed"]
  OBVIOUS
<1>3. row \in Run
  BY <1>1, <1>2, FailedIs
<1>4. Counted
  <2>1. CASE job[x].all = {}
    <3>1. used' = [used EXCEPT !.faults = used.faults]
      BY <2>1 DEF NothingToDo
    <3>2. used' = used
      BY <1>1, <3>1 DEF TypeOK, Used
    <3> QED
      BY <1>1, <3>2, CountedNot
  <2>2. CASE job[x].all # {}
    <3>1. used' = [used EXCEPT !.faults = @ + 1] /\ used.faults < MaxFaults
      BY <2>2 DEF NothingToDo
    <3> QED
      BY <1>1, <3>1, CountedFault
  <2> QED
    BY <2>1, <2>2
<1>5. Becomes(x, row) /\ Ends(x) /\ job[x].pc \in {"load"} \cup Asking
  BY <1>2 DEF NothingToDo, Asking
<1>6. UNCHANGED <<domain, writer, workbench, request, set, item, result, llm, raced>>
  BY DEF NothingToDo, Aside
<1> QED
  BY <1>2, <1>3, <1>4, <1>5, <1>6, TaskOver

LEMMA TaskRaisesStep ==
  ASSUME Inv, NEW x \in Runs, TaskRaises(x)
  PROVE  Inv'
<1>1. TypeOK
  BY DEF Inv
<1>2. PICK row : row = [run[x] EXCEPT !.st = "failed"]
  OBVIOUS
<1>3. row \in Run
  BY <1>1, <1>2, FailedIs
<1>4. Counted
  BY <1>1, CountedFault DEF TaskRaises
<1>5. Becomes(x, row) /\ Ends(x) /\ job[x].pc \in {"load"} \cup Asking
  BY <1>2 DEF TaskRaises, Asking
<1>6. UNCHANGED <<domain, writer, workbench, request, set, item, result, llm, raced>>
  BY DEF TaskRaises, Aside
<1> QED
  BY <1>2, <1>3, <1>4, <1>5, <1>6, TaskOver

\* A step from one part of a question to the next: the row keeps its terms, its status and its total.
LEMMA WithinQuestion ==
  ASSUME Inv, NEW x \in Runs, NEW pc \in Asking, job' = [job EXCEPT ![x].pc = pc],
         job[x].pc \in Asking, pc # "next" => job[x].todo # {},
         run' \in [Runs -> Run], \A y \in Runs : y # x => run'[y] = run[y],
         SameTerms(x), run'[x].st = run[x].st, run'[x].total = run[x].total,
         UNCHANGED <<domain, writer, workbench, request, used, set, item, result, llm, raced>>
  PROVE  Inv'
<1>1. TypeOK /\ RunInv(x) /\ run[x] \in Run
  BY DEF Inv, TypeOK
<1>2. /\ job' \in [Runs -> Job] /\ \A y \in Runs : y # x => job'[y] = job[y]
      /\ job'[x].pc = pc /\ job'[x].todo = job[x].todo /\ job'[x].all = job[x].all
      /\ job'[x].with = job[x].with /\ job'[x].done = job[x].done
  BY <1>1 DEF TypeOK, Job, Asking
<1>3. Counted
  BY <1>1, CountedNot
<1>4. TypeOK'
  BY <1>1, <1>2 DEF TypeOK, domain, workbench
<1>5. run[x].st \in {"running", "deleted"} /\ (Stored(x)' <=> Stored(x))
  BY <1>1 DEF RunInv, Working, Stored
<1>6. Working(x)'
  BY <1>1, <1>2, <1>5 DEF RunInv, Working, SameTerms, OfRow, Readable, Results, Asking
<1>7. Recorded(x)'
  BY <1>1, <1>5 DEF RunInv, Recorded, SameTerms, OfRow, Readable, Results, domain
<1>8. Ended(x)'
  BY <1>2, <1>5 DEF Ended
<1>9. Stored(x)' => Stored(x) /\ run'[x].snapshot = run[x].snapshot
  BY <1>5 DEF SameTerms
<1>10. RunInv(x)'
  BY <1>6, <1>7, <1>8 DEF RunInv
<1> QED
  BY <1>2, <1>3, <1>4, <1>9, <1>10, OneRun

LEMMA RetrieveStep ==
  ASSUME Inv, NEW x \in Runs, Retrieve(x)
  PROVE  Inv'
<1>1. TypeOK /\ RunInv(x) /\ run[x] \in Run /\ job[x] \in Job
  BY DEF Inv, TypeOK
<1>2. PICK n : n = job[x].done
  OBVIOUS
<1>3. n \in Counts
  BY <1>1, <1>2 DEF Job
<1>4. PICK row : row = [run[x] EXCEPT !.current = n]
  OBVIOUS
<1>5. /\ row \in Run /\ row.st = run[x].st /\ row.total = run[x].total
      /\ row.params = run[x].params /\ row.snapshot = run[x].snapshot
      /\ row.judge = run[x].judge /\ row.hints = run[x].hints /\ row.policy = run[x].policy
  BY <1>1, <1>3, <1>4 DEF Run
<1>6. Becomes(x, row)
  BY <1>2, <1>4 DEF Retrieve
<1>7. /\ run' \in [Runs -> Run] /\ \A y \in Runs : y # x => run'[y] = run[y]
      /\ run'[x] = row \/ run'[x] = run[x]
  BY <1>1, <1>5, <1>6, BecomesIs
<1>8. SameTerms(x) /\ run'[x].st = run[x].st /\ run'[x].total = run[x].total
  BY <1>5, <1>7 DEF SameTerms
<1>9. /\ job' = [job EXCEPT ![x].pc = "retrieving"] /\ job[x].todo # {}
      /\ job[x].pc \in Asking /\ "retrieving" \in Asking
      /\ UNCHANGED <<domain, writer, workbench, request, used, set, item, result, llm, raced>>
  BY DEF Retrieve, Asking, Aside
<1> QED
  BY <1>7, <1>8, <1>9, WithinQuestion

LEMMA JudgeStep ==
  ASSUME Inv, NEW x \in Runs, Judge(x)
  PROVE  Inv'
<1>1. TypeOK /\ RunInv(x)
  BY DEF Inv
<1>2. /\ job' = [job EXCEPT ![x].pc = "judging"] /\ job[x].pc = "retrieving"
      /\ UNCHANGED <<domain, writer, workbench, request, used, set, item, run, result, llm, raced>>
  BY DEF Judge, Aside
<1>3. job[x].pc \in Asking /\ "judging" \in Asking /\ job[x].todo # {}
  BY <1>1, <1>2 DEF Asking, RunInv, Working
<1>4. run' \in [Runs -> Run] /\ SameTerms(x) /\ \A y \in Runs : run'[y] = run[y]
  BY <1>1, <1>2 DEF TypeOK, SameTerms
<1> QED
  BY <1>2, <1>3, <1>4, WithinQuestion

LEMMA FinishRunStep ==
  ASSUME Inv, NEW x \in Runs, FinishRun(x)
  PROVE  Inv'
<1>1. TypeOK /\ RunInv(x) /\ run[x] \in Run /\ job[x] \in Job
  BY DEF Inv, TypeOK
<1>2. job[x].pc = "next" /\ job[x].todo = {} /\ Ends(x)
  BY DEF FinishRun
<1>3. PICK n : n = job[x].done
  OBVIOUS
<1>4. PICK t : t = run[x].total
  OBVIOUS
<1>5. n \in Counts /\ t \in Counts
  BY <1>1, <1>3, <1>4 DEF Job, Run
<1>6. PICK row : row = [run[x] EXCEPT !.st = "succeeded", !.current = t, !.metrics = n]
  OBVIOUS
<1>7. /\ row \in Run /\ row.st = "succeeded" /\ row.current = t /\ row.total = t /\ row.metrics = n
      /\ row.params = run[x].params /\ row.snapshot = run[x].snapshot
      /\ row.judge = run[x].judge /\ row.hints = run[x].hints /\ row.policy = run[x].policy
  BY <1>1, <1>4, <1>5, <1>6 DEF Run
<1>8. Becomes(x, row) /\ UNCHANGED <<domain, writer, workbench, request, used, set, item, result, llm, raced>>
  BY <1>3, <1>4, <1>6 DEF FinishRun, Aside
<1>9. /\ run' \in [Runs -> Run] /\ \A y \in Runs : y # x => run'[y] = run[y]
      /\ Stored(x) => run'[x] = row
      /\ ~Stored(x) => run'[x] = run[x]
  BY <1>1, <1>7, <1>8, BecomesIs
<1>10. /\ job' \in [Runs -> Job] /\ \A y \in Runs : y # x => job'[y] = job[y]
       /\ job'[x].pc = "ended"
  BY <1>1, <1>2, EndsIs
<1>11. TypeOK' /\ Counted
  <2>1. Counted
    BY <1>1, <1>8, CountedNot
  <2>2. TypeOK'
    BY <1>1, <1>8, <1>9, <1>10 DEF TypeOK, domain, workbench
  <2> QED
    BY <2>1, <2>2
<1>12. SameTerms(x)
  BY <1>7, <1>9 DEF SameTerms
<1>13. run[x].st \in {"running", "deleted"}
  BY <1>1, <1>2 DEF RunInv, Working, Asking
<1>14. Stored(x)' => Stored(x) /\ run'[x].st = "succeeded"
  BY <1>7, <1>9, <1>13 DEF Stored
<1>15. ~Stored(x) => run'[x].st = "deleted"
  BY <1>9, <1>13 DEF Stored
<1>16. Working(x)'
  BY <1>10 DEF Working, Asking
<1>17. Recorded(x)'
  <2>1. run'[x].st \in {"succeeded", "deleted"}
    BY <1>7, <1>9, <1>15
  <2> QED
    BY <1>1, <1>8, <1>12, <1>14, <2>1 DEF RunInv, Recorded, SameTerms, OfRow, Readable, Results, domain
<1>18. Ended(x)'
  <2>1. CASE Stored(x)
    <3>1. /\ n = Cardinality(job[x].all \ job[x].todo) /\ t = Cardinality(job[x].all)
          /\ x \notin raced => Results(x) = job[x].all \ job[x].todo
      BY <1>1, <1>2, <1>3, <1>4, <2>1 DEF RunInv, Working, Asking
    <3>2. n = t /\ (x \notin raced => Cardinality(Results(x)) = t)
      BY <1>2, <3>1
    <3> QED
      BY <1>7, <1>8, <1>9, <2>1, <3>2 DEF Ended, Results
  <2>2. CASE ~Stored(x)
    BY <1>15, <2>2 DEF Ended
  <2> QED
    BY <2>1, <2>2
<1>19. Stored(x)' => Stored(x) /\ run'[x].snapshot = run[x].snapshot
  BY <1>12, <1>14 DEF SameTerms
<1>20. RunInv(x)'
  BY <1>16, <1>17, <1>18 DEF RunInv
<1> QED
  BY <1>8, <1>9, <1>10, <1>11, <1>19, <1>20, OneRun

\* What a task begins with is what the row says and a model that is configured.
LEMMA FrozenIs ==
  ASSUME TypeOK, NEW x \in Runs
  PROVE  Frozen(x) \in With /\ OfRow(x, Frozen(x))
<1>1. run[x] \in Run /\ llm \in Models
  BY DEF TypeOK
<1>2. /\ run[x].params \in Params /\ run[x].snapshot \in Snapshots
      /\ {run[x].judge, run[x].hints, run[x].policy} \subseteq BOOLEAN
  BY <1>1 DEF Run
<1>3. run[x].snapshot.hints \in SUBSET Hint /\ run[x].snapshot.policy \in BOOLEAN
  BY <1>2 DEF Snapshots
<1>4. PICK hs : hs = IF run[x].hints /\ Readable(run[x].snapshot) THEN run[x].snapshot.hints ELSE {}
  OBVIOUS
<1>5. PICK b : b = (run[x].judge /\ run[x].policy /\ Readable(run[x].snapshot) /\ run[x].snapshot.policy)
  OBVIOUS
<1>6. PICK p : p = run[x].params
  OBVIOUS
<1>7. hs \in SUBSET Hint /\ p \in Params
  BY <1>2, <1>3, <1>4, <1>6
<1>8. b \in BOOLEAN
  BY <1>5
<1>9. Frozen(x) = [params |-> p, hints |-> hs, policy |-> b, llm |-> llm]
  BY <1>4, <1>5, <1>6, Zenon DEF Frozen
<1>10. /\ Frozen(x) \in With /\ Frozen(x).params = p /\ Frozen(x).hints = hs
       /\ Frozen(x).policy = b
  BY <1>1, <1>7, <1>8, <1>9 DEF With
<1> QED
  BY <1>4, <1>5, <1>6, <1>10 DEF OfRow

LEMMA LoadRunStep ==
  ASSUME Inv, NEW x \in Runs, LoadRun(x)
  PROVE  Inv'
<1>1. TypeOK /\ RunInv(x) /\ run[x] \in Run /\ job[x] \in Job /\ job[x].pc = "load"
  BY DEF Inv, TypeOK, LoadRun
<1>2. UNCHANGED <<domain, writer, workbench, request, used, set, item, result, llm, raced>>
  BY DEF LoadRun, Aside
<1>3. Counted
  BY <1>1, <1>2, CountedNot
<1>4. CASE ~Stored(x)
  <2>1. Ends(x) /\ run' = run
    BY <1>4 DEF LoadRun
  <2>2. /\ job' \in [Runs -> Job] /\ \A y \in Runs : y # x => job'[y] = job[y]
        /\ job'[x].pc = "ended"
    BY <1>1, <2>1, EndsIs
  <2>3. TypeOK'
    BY <1>1, <1>2, <2>1, <2>2 DEF TypeOK, domain, workbench
  <2>4. run[x].st = "deleted"
    BY <1>1, <1>4 DEF RunInv, Working, Stored
  <2>5. RunInv(x)'
    BY <1>1, <1>2, <2>1, <2>2, <2>4 DEF RunInv, Working, Recorded, Ended, Results, Stored, Asking
  <2>6. Stored(x)' => Stored(x) /\ run'[x].snapshot = run[x].snapshot
    BY <2>1 DEF Stored
  <2> QED
    BY <1>2, <1>3, <2>1, <2>2, <2>3, <2>5, <2>6, OneRun
<1>5. CASE Stored(x)
  <2>1. PICK A : A = Approved
    OBVIOUS
  <2>2. PICK n : n = Cardinality(A)
    OBVIOUS
  <2>3. PICK b : b = run[x].judge
    OBVIOUS
  <2>4. PICK w : w = Frozen(x)
    OBVIOUS
  <2>5. A \in SUBSET Items /\ n \in Counts /\ b \in BOOLEAN /\ w \in With /\ 0 \in Counts /\ OfRow(x, w)
    BY <1>1, <2>1, <2>2, <2>3, <2>4, CountIs, FrozenIs, IdsAre DEF Approved, Run, Counts
  <2>6. PICK j : j = [job[x] EXCEPT !.pc = "next", !.todo = A, !.all = A, !.judge = b, !.with = w]
    OBVIOUS
  <2>7. /\ j \in Job /\ j.pc = "next" /\ j.todo = A /\ j.all = A /\ j.with = w /\ j.done = job[x].done
    BY <1>1, <2>5, <2>6 DEF Job
  <2>8. PICK row : row = [run[x] EXCEPT !.st = "running", !.total = n, !.current = 0]
    OBVIOUS
  <2>9. /\ row \in Run /\ row.st = "running" /\ row.total = n
        /\ row.params = run[x].params /\ row.snapshot = run[x].snapshot
        /\ row.judge = run[x].judge /\ row.hints = run[x].hints /\ row.policy = run[x].policy
    BY <1>1, <2>5, <2>8 DEF Run
  <2>10. job' = [job EXCEPT ![x].pc = "next", ![x].todo = A, ![x].all = A, ![x].judge = b, ![x].with = w]
    BY <1>5, <2>1, <2>3, <2>4 DEF LoadRun
  <2>11. job' \in [Runs -> Job] /\ job'[x] = j /\ \A y \in Runs : y # x => job'[y] = job[y]
    BY <1>1, <2>6, <2>7, <2>10 DEF TypeOK
  <2>12. run' \in [Runs -> Run] /\ run'[x] = row /\ \A y \in Runs : y # x => run'[y] = run[y]
    <3>1. Becomes(x, row)
      BY <1>5, <2>1, <2>2, <2>8 DEF LoadRun
    <3> QED
      BY <1>1, <1>5, <2>9, <3>1, BecomesIs
  <2>13. TypeOK'
    BY <1>1, <1>2, <2>11, <2>12 DEF TypeOK, domain, workbench
  <2>14. Results(x) = {} /\ Results(x)' = {} /\ A \ A = {} /\ Cardinality({}) = 0 /\ job[x].done = 0
    BY <1>1, <1>2, <1>5, FS_EmptySet DEF RunInv, Working, Recorded, Results, Stored
  <2>15. OfRow(x, w)'
    BY <2>5, <2>9, <2>12 DEF OfRow, Readable
  <2>16. Working(x)'
    BY <2>2, <2>5, <2>7, <2>9, <2>11, <2>12, <2>14, <2>15 DEF Working, Asking
  <2>17. Recorded(x)'
    BY <1>1, <1>2, <1>5, <2>9, <2>12, <2>14 DEF RunInv, Recorded, Stored, domain
  <2>18. Ended(x)'
    BY <2>7, <2>9, <2>11, <2>12 DEF Ended, Asking
  <2>19. RunInv(x)'
    BY <2>16, <2>17, <2>18 DEF RunInv
  <2>20. Stored(x)' => Stored(x) /\ run'[x].snapshot = run[x].snapshot
    BY <1>5, <2>9, <2>12
  <2> QED
    BY <1>2, <1>3, <2>11, <2>12, <2>13, <2>19, <2>20, OneRun
<1> QED
  BY <1>4, <1>5

LEMMA CurrentIs ==
  ASSUME TypeOK, NEW x \in Runs, job[x].todo # {}
  PROVE  Current(x) \in job[x].todo
<1>1. job[x].todo \subseteq Items
  BY DEF TypeOK, Job
<1>2. job[x].todo \subseteq Nat
  BY <1>1, IdsAre
<1>3. \E i \in job[x].todo : \A j \in job[x].todo : i <= j
  BY <1>2, Least
<1> QED
  BY <1>3 DEF Current

LEMMA StoreResultStep ==
  ASSUME Inv, NEW x \in Runs, StoreResult(x)
  PROVE  Inv'
<1>1. TypeOK /\ RunInv(x) /\ run[x] \in Run /\ job[x] \in Job /\ job[x].pc \in {"retrieving", "judging"}
  BY DEF Inv, TypeOK, StoreResult
<1>2. UNCHANGED <<domain, writer, workbench, request, used, set, item, llm, raced>>
  BY DEF StoreResult, Aside
<1>3. Counted
  BY <1>1, <1>2, CountedNot
<1>4. PICK i : i = Current(x)
  OBVIOUS
<1>5. /\ run[x].st \in {"running", "deleted"} /\ job[x].with \in With /\ job[x].todo \subseteq job[x].all
      /\ job[x].todo # {} /\ job[x].done = Cardinality(job[x].all \ job[x].todo)
      /\ \A k \in Results(x) : result[x][k] = job[x].with
      /\ Stored(x) => /\ run[x].total = Cardinality(job[x].all)
                      /\ x \notin raced => Results(x) = job[x].all \ job[x].todo
                      /\ OfRow(x, job[x].with)
  BY <1>1 DEF RunInv, Working, Asking
<1>6. i \in job[x].todo
  BY <1>1, <1>4, <1>5, CurrentIs
<1>7. job[x].todo \subseteq Items /\ job[x].all \subseteq Items /\ i \in Items
  BY <1>1, <1>6 DEF Job
<1>8. CASE Stored(x) /\ item[i] # "deleted"
  <2>1. PICK w : w = job[x].with
    OBVIOUS
  <2>2. PICK t : t = job[x].todo \ {i}
    OBVIOUS
  <2>3. PICK n : n = job[x].done + 1
    OBVIOUS
  <2>4. /\ t \in SUBSET Items /\ t \subseteq job[x].all /\ job[x].all \ t = (job[x].all \ job[x].todo) \cup {i}
        /\ i \notin job[x].all \ job[x].todo /\ i \in job[x].all
    BY <1>5, <1>6, <1>7, <2>2
  <2>5. n = Cardinality(job[x].all \ t) /\ n \in Counts
    <3>1. IsFiniteSet(job[x].all \ job[x].todo) /\ Cardinality(job[x].all \ t) \in Counts
      BY <1>7, CountIs
    <3>2. Cardinality((job[x].all \ job[x].todo) \cup {i}) = Cardinality(job[x].all \ job[x].todo) + 1
      BY <2>4, <3>1, FS_AddElement
    <3> QED
      BY <1>5, <2>3, <2>4, <3>1, <3>2
  <2>6. PICK j : j = [job[x] EXCEPT !.pc = "next", !.todo = t, !.done = n]
    OBVIOUS
  <2>7. j \in Job /\ j.pc = "next" /\ j.todo = t /\ j.all = job[x].all /\ j.with = w /\ j.done = n
    BY <1>1, <2>1, <2>4, <2>5, <2>6 DEF Job
  <2>8. PICK row : row = [run[x] EXCEPT !.current = n]
    OBVIOUS
  <2>9. /\ row \in Run /\ row.st = run[x].st /\ row.total = run[x].total
        /\ row.params = run[x].params /\ row.snapshot = run[x].snapshot
        /\ row.judge = run[x].judge /\ row.hints = run[x].hints /\ row.policy = run[x].policy
    BY <1>1, <2>5, <2>8 DEF Run
  <2>10. /\ result' = [result EXCEPT ![x][i] = w]
         /\ job' = [job EXCEPT ![x].pc = "next", ![x].todo = t, ![x].done = n]
         /\ Becomes(x, row)
    BY <1>4, <1>8, <2>1, <2>2, <2>3, <2>8 DEF StoreResult
  <2>11. job' \in [Runs -> Job] /\ job'[x] = j /\ \A y \in Runs : y # x => job'[y] = job[y]
    BY <1>1, <2>6, <2>7, <2>10 DEF TypeOK
  <2>12. run' \in [Runs -> Run] /\ run'[x] = row /\ \A y \in Runs : y # x => run'[y] = run[y]
    BY <1>1, <1>8, <2>9, <2>10, BecomesIs
  <2>13. /\ result' \in [Runs -> [Items -> With \cup {None}]]
         /\ \A y \in Runs : y # x => result'[y] = result[y]
         /\ result'[x][i] = w /\ \A k \in Items : k # i => result'[x][k] = result[x][k]
    BY <1>1, <1>5, <1>7, <2>1, <2>10 DEF TypeOK
  <2>14. TypeOK'
    BY <1>1, <1>2, <2>11, <2>12, <2>13 DEF TypeOK, domain, workbench
  <2>15. w # None /\ w \in With
    BY <1>5, <2>1, WithAssumption
  <2>16. Results(x)' = Results(x) \cup {i}
    BY <1>7, <2>13, <2>15 DEF Results
  <2>17. \A k \in Results(x)' : result'[x][k] = w
    <3> SUFFICES ASSUME NEW k \in Results(x)' PROVE result'[x][k] = w
      OBVIOUS
    <3>1. CASE k = i
      BY <2>13, <3>1
    <3>2. CASE k # i
      <4>1. k \in Results(x) /\ k \in Items
        BY <2>16, <3>2 DEF Results
      <4> QED
        BY <1>5, <2>1, <2>13, <3>2, <4>1
    <3> QED
      BY <3>1, <3>2
  <2>18. OfRow(x, w) /\ OfRow(x, w)'
    BY <1>5, <1>8, <2>1, <2>9, <2>12 DEF OfRow, Readable
  <2>19. Working(x)'
    <3>1. x \notin raced => Results(x)' = job[x].all \ t
      BY <1>5, <1>8, <2>4, <2>16
    <3>2. run'[x].st \in {"running", "deleted"} /\ run'[x].total = Cardinality(job[x].all)
      BY <1>5, <1>8, <2>9, <2>12
    <3> QED
      BY <1>2, <2>4, <2>5, <2>7, <2>11, <2>15, <2>17, <2>18, <3>1, <3>2 DEF Working, Asking
  <2>20. Recorded(x)'
    <3>1. run'[x].st = "running"
      BY <1>5, <1>8, <2>9, <2>12 DEF Stored
    <3>2. /\ run[x].snapshot.revision <= config.revision
          /\ ~run[x].snapshot.hintsOn => run[x].snapshot.hints = {}
      BY <1>1, <1>8 DEF RunInv, Recorded
    <3> QED
      BY <1>2, <2>9, <2>12, <2>17, <2>18, <3>1, <3>2 DEF Recorded, domain
  <2>21. Ended(x)'
    BY <1>5, <2>7, <2>9, <2>11, <2>12 DEF Ended, Asking
  <2>22. RunInv(x)'
    BY <2>19, <2>20, <2>21 DEF RunInv
  <2>23. Stored(x)' => Stored(x) /\ run'[x].snapshot = run[x].snapshot
    BY <1>8, <2>9, <2>12
  <2> QED
    BY <1>2, <1>3, <2>11, <2>12, <2>13, <2>14, <2>22, <2>23, OneRun
<1>9. CASE ~(Stored(x) /\ item[i] # "deleted")
  <2>1. PICK row : row = [run[x] EXCEPT !.st = "failed"]
    OBVIOUS
  <2>2. row \in Run
    BY <1>1, <2>1, FailedIs
  <2>3. Becomes(x, row) /\ Ends(x) /\ UNCHANGED result
    BY <1>4, <1>9, <2>1 DEF StoreResult
  <2>4. job[x].pc \in {"load"} \cup Asking
    BY <1>1 DEF Asking
  <2> QED
    BY <1>2, <1>3, <2>1, <2>2, <2>3, <2>4, TaskOver
<1> QED
  BY <1>8, <1>9

-----------------------------------------------------------------------------
(* What deletes results.                                                   *)

\* A run that has lost one of its results.
LEMMA DropItemStep ==
  ASSUME Inv, NEW r \in Requests, DropItem(r)
  PROVE  Inv'
<1>1. TypeOK /\ Carried(request[r]) /\ request[r].pc = "dropItem" /\ ProfileInv
  BY DEF Inv, ProfileInv, DropItem
<1>2. PICK i : i = request[r].item
  OBVIOUS
<1>3. i \in Items /\ request[r].seen = {}
  BY <1>1, <1>2 DEF Carried
<1>4. /\ item' = [item EXCEPT ![i] = "deleted"]
      /\ result' = [x \in Runs |-> [result[x] EXCEPT ![i] = None]]
      /\ raced' = raced \cup UsedIn(i)
      /\ End(r) /\ UNCHANGED <<domain, workbench, writer, used, set, run, job, llm>>
  BY <1>2, <1>3 DEF DropItem, Aside
<1>5. /\ request' \in [Requests -> Request] /\ request'[r] = Rest
      /\ \A o \in Requests : o # r => request'[o] = request[o]
  BY <1>1, <1>4, EndIs
<1>6. Counted
  BY <1>1, <1>4, CountedNot
<1>7. TypeOK'
  <2>1. result' \in [Runs -> [Items -> With \cup {None}]]
    BY <1>1, <1>4 DEF TypeOK
  <2>2. item' \in [Items -> {"unused", "draft", "approved", "deleted"}] /\ raced' \subseteq Runs
    BY <1>1, <1>4 DEF TypeOK, UsedIn
  <2> QED
    BY <1>1, <1>4, <1>5, <2>1, <2>2 DEF TypeOK, domain, workbench
<1>8. request[r].pc \notin InTransaction /\ request'[r].pc \notin InTransaction /\ Carried(Rest)
  BY <1>1, <1>5, RestIs DEF InTransaction, Carried
<1>9. DomainInv'
  <2>1. TypeOK /\ DomainInv /\ UNCHANGED <<domain, writer>>
    BY <1>1, <1>4 DEF Inv
  <2> QED
    BY <1>5, <1>6, <1>8, <2>1, DomainSame
<1>10. ProfileInv'
  BY <1>1, <1>4, <1>5, <1>8, ProfilesSame
<1>11. ASSUME NEW x \in Runs PROVE RunInv(x)'
  <2>1. RunInv(x) /\ run'[x] = run[x] /\ job'[x] = job[x] /\ config' = config
    BY <1>4 DEF Inv, domain
  <2>2. CASE x \notin UsedIn(i)
    <3>1. result[x][i] = None /\ result[x] \in [Items -> With \cup {None}]
      BY <1>1, <2>2 DEF UsedIn, TypeOK
    <3>2. result'[x] = result[x]
      BY <1>3, <1>4, <3>1
    <3>3. (x \in raced' <=> x \in raced) /\ config'.revision \in Nat /\ config.revision <= config'.revision
      BY <1>1, <1>4, <2>1, <2>2, Numbers
    <3> QED
      BY <1>1, <1>6, <2>1, <3>2, <3>3, SameRun
  <2>3. CASE x \in UsedIn(i)
    <3>1. x \in raced'
      BY <1>4, <2>3
    <3>2. \A k \in Items : result'[x][k] = IF k = i THEN None ELSE result[x][k]
      BY <1>1, <1>3, <1>4 DEF TypeOK
    <3>3. /\ Results(x)' \subseteq Results(x) /\ Results(x) \subseteq Items
          /\ \A k \in Results(x)' : result'[x][k] = result[x][k]
      BY <3>2 DEF Results
    <3>4. Working(x)'
      BY <2>1, <3>1, <3>3 DEF RunInv, Working, Stored, OfRow, Readable
    <3>5. Recorded(x)'
      BY <2>1, <3>3 DEF RunInv, Recorded, Stored, OfRow, Readable
    <3>6. Ended(x)'
      BY <1>4, <2>1, <3>1 DEF RunInv, Ended
    <3> QED
      BY <3>4, <3>5, <3>6 DEF RunInv
  <2> QED
    BY <2>2, <2>3
<1>12. RevisionNamesContent'
  BY <1>4, NamedSame DEF Inv, Stored
<1> QED
  BY <1>7, <1>9, <1>10, <1>11, <1>12 DEF Inv

LEMMA NothingIs == NoRun \in Run /\ NoResults \in [Items -> With \cup {None}]
<1>1. /\ 0 \in Counts /\ 0 \in Revisions /\ Base \in Params /\ FirstModel \in Models
  BY IdsAre, BoundAssumption, BaseAssumption, ModelAssumption DEF Counts, Revisions
<1>2. Nothing \in Snapshots
  BY <1>1 DEF Nothing, Snapshots
<1> HIDE DEF Nothing
<1>3. NoRun \in Run
  BY <1>1, <1>2 DEF NoRun, Run
<1>4. NoResults \in [Items -> With \cup {None}]
  BY DEF NoResults
<1> QED
  BY <1>3, <1>4

\* The set goes, with everything below it.
LEMMA CascadeStep ==
  ASSUME Inv, Cascade, UNCHANGED <<domain, writer, workbench, job, llm, raced>>, Counted,
         request' \in [Requests -> Request],
         \A r \in Requests : \/ request'[r] = request[r]
                             \/ /\ request[r].pc \notin InTransaction /\ request'[r].pc \notin InTransaction
                                /\ Carried(request'[r])
  PROVE  Inv'
<1>1. TypeOK /\ DomainInv /\ ProfileInv
  BY DEF Inv
<1>2. PICK gone : gone = [NoRun EXCEPT !.st = "deleted"]
  OBVIOUS
<1>3. gone \in Run /\ gone.st = "deleted"
  BY <1>2, NothingIs DEF Run
<1>4. /\ \A x \in Runs : run'[x] = IF Stored(x) THEN gone ELSE run[x]
      /\ run' \in [Runs -> Run]
  BY <1>1, <1>2, <1>3 DEF Cascade, TypeOK
<1>5. result' \in [Runs -> [Items -> With \cup {None}]] /\ \A x \in Runs : Results(x)' = {}
  BY NothingIs DEF Cascade, NoResults, Results
<1>6. TypeOK'
  <2>1. item' \in [Items -> {"unused", "draft", "approved", "deleted"}] /\ set' \in {"live", "deleted"}
    BY <1>1 DEF TypeOK, Cascade
  <2> QED
    BY <1>1, <1>4, <1>5, <2>1 DEF TypeOK, Counted, domain, workbench
<1>7. DomainInv'
  BY <1>1, DomainSame
<1>8. ProfileInv'
  BY <1>1, ProfilesSame
<1>9. \A x \in Runs : ~Stored(x)'
  BY <1>3, <1>4 DEF Stored
<1>10. ASSUME NEW x \in Runs PROVE RunInv(x)'
  <2>1. RunInv(x) /\ job'[x] = job[x]
    BY DEF Inv
  <2>2. ~Stored(x)' /\ Results(x)' = {} /\ run'[x].st \notin {"queued", "running", "succeeded"}
    BY <1>5, <1>9 DEF Stored
  <2>3. run'[x].st = "unused" => run[x].st = "unused"
    BY <1>3, <1>4
  <2>4. run[x].st \in {"queued", "running", "deleted"} => run'[x].st = "deleted"
    BY <1>3, <1>4 DEF Stored
  <2>5. Working(x)'
    BY <2>1, <2>2, <2>4 DEF RunInv, Working, Asking
  <2>6. Recorded(x)'
    BY <2>1, <2>2, <2>3 DEF RunInv, Recorded
  <2>7. Ended(x)'
    BY <2>2 DEF Ended
  <2> QED
    BY <2>5, <2>6, <2>7 DEF RunInv
<1>11. RevisionNamesContent'
  BY <1>9, NamedSame DEF Inv
<1> QED
  BY <1>6, <1>7, <1>8, <1>10, <1>11 DEF Inv

LEMMA DropSetStep ==
  ASSUME Inv, NEW r \in Requests, DropSet(r)
  PROVE  Inv'
<1>1. TypeOK
  BY DEF Inv
<1>2. /\ request' \in [Requests -> Request] /\ request'[r] = Rest
      /\ \A o \in Requests : o # r => request'[o] = request[o]
  BY <1>1, EndIs DEF DropSet
<1>3. request[r].pc \notin InTransaction /\ Rest.pc \notin InTransaction /\ Carried(Rest)
  BY RestIs DEF DropSet, InTransaction, Carried
<1>4. Cascade /\ UNCHANGED <<domain, writer, workbench, job, llm, raced>> /\ Counted
  BY <1>1, CountedNot DEF DropSet, Aside
<1> QED
  BY <1>2, <1>3, <1>4, CascadeStep

LEMMA DeleteNotebookStep ==
  ASSUME Inv, DeleteNotebook
  PROVE  Inv'
<1>1. TypeOK
  BY DEF Inv
<1>2. Counted
  BY <1>1, CountedFault DEF DeleteNotebook
<1>3. request' \in [Requests -> Request] /\ \A r \in Requests : request'[r] = request[r]
  BY <1>1 DEF TypeOK, DeleteNotebook
<1>4. Cascade /\ UNCHANGED <<domain, writer, workbench, job, llm, raced>>
  BY DEF DeleteNotebook, Aside
<1> QED
  BY <1>2, <1>3, <1>4, CascadeStep

-----------------------------------------------------------------------------
(* The row of a run, and the restart of a process.                         *)

LEMMA SnapshotIs ==
  ASSUME TypeOK
  PROVE  /\ Snapshot(config, hints) \in Snapshots
         /\ Snapshot(config, hints).revision = config.revision
         /\ ~Snapshot(config, hints).hintsOn => Snapshot(config, hints).hints = {}
<1>1. config \in Config /\ Enabled(hints) \subseteq Hint
  BY DEF TypeOK, Enabled, Present
<1>2. PICK n : n = config.revision
  OBVIOUS
<1>3. PICK on : on = (config.hintsOn /\ Enabled(hints) # {})
  OBVIOUS
<1>4. PICK hs : hs = IF on THEN Enabled(hints) ELSE {}
  OBVIOUS
<1>5. PICK b : b = (config.policyOn /\ config.policy)
  OBVIOUS
<1>6. n \in Revisions /\ hs \in SUBSET Hint
  BY <1>1, <1>2, <1>4 DEF Config
<1>7. on \in BOOLEAN /\ b \in BOOLEAN
  BY <1>3, <1>5
<1>8. Snapshot(config, hints) = [revision |-> n, hintsOn |-> on, hints |-> hs, policy |-> b]
  BY <1>2, <1>3, <1>4, <1>5, Zenon DEF Snapshot
<1>9. ~on => hs = {}
  BY <1>4
<1> HIDE DEF Snapshot
<1> QED
  BY <1>2, <1>6, <1>7, <1>8, <1>9 DEF Snapshots

LEMMA InsertRunStep ==
  ASSUME Inv, NEW r \in Requests, InsertRun(r)
  PROVE  Inv'
<1>1. /\ TypeOK /\ DomainInv /\ ProfileInv /\ Carried(request[r]) /\ Reading(request[r])
      /\ request[r].pc = "insert" /\ request[r] \in Request
  BY DEF Inv, DomainInv, ProfileInv, InsertRun, TypeOK
<1>2. request[r].config = config /\ request[r].params \in Params /\ request[r].proc \in Procs
  BY <1>1 DEF Reading, Carried
<1>3. UNCHANGED <<domain, workbench, used, set, item, result, llm, raced>> /\ writer' = None /\ End(r)
  BY DEF InsertRun, Aside
<1>4. /\ request' \in [Requests -> Request] /\ request'[r] = Rest
      /\ \A o \in Requests : o # r => request'[o] = request[o]
  BY <1>1, <1>3, EndIs
<1>5. Counted /\ config' = config /\ hints' = hints
  BY <1>1, <1>3, CountedNot DEF domain
<1>6. DomainInv'
  <2>1. \A o \in Requests : o # r => request[o].pc \notin InTransaction
    BY <1>1 DEF DomainInv, Locked, InTransaction
  <2>2. \A o \in Requests : request'[o].pc \notin InTransaction
    BY <1>4, <2>1, RestIs DEF InTransaction
  <2>3. Locked' /\ \A o \in Requests : Reading(request[o])'
    BY <1>3, <2>2, NoneAssumption DEF Locked, Reading, InTransaction
  <2>4. config'.revision <= used'.edits + 1 /\ HintRules'
    BY <1>1, <1>3, <1>5 DEF DomainInv, HintRules, Present
  <2> QED
    BY <2>3, <2>4 DEF DomainInv
<1>7. ProfileInv'
  <2>1. Carried(Rest)
    BY RestIs DEF Carried
  <2> QED
    BY <1>1, <1>3, <1>4, <2>1, ProfilesSame
<1>8. CASE UNCHANGED <<run, job>>
  <2>1. TypeOK'
    BY <1>1, <1>3, <1>4, <1>8 DEF TypeOK, domain, workbench
  <2>2. ASSUME NEW x \in Runs PROVE RunInv(x)'
    <3>1. config'.revision \in Nat /\ config.revision <= config'.revision
      BY <1>1, <1>5, Numbers
    <3> QED
      BY <1>1, <1>3, <1>5, <1>8, <3>1, SameRun DEF Inv
  <2>3. RevisionNamesContent'
    BY <1>3, <1>8, NamedSame DEF Inv, Stored
  <2> QED
    BY <1>6, <1>7, <2>1, <2>2, <2>3 DEF Inv
<1>9. CASE ~UNCHANGED <<run, job>>
  <2>1. PICK s : s = Snapshot(config, hints)
    OBVIOUS
  <2>2. PICK x \in NewRun :
          /\ run' = [run EXCEPT ![x] = [NoRun EXCEPT !.st = "queued", !.total = request[r].total,
                       !.params = request[r].params, !.snapshot = s, !.llm = llm,
                       !.judge = request[r].judge, !.hints = request[r].hints, !.policy = request[r].policy]]
          /\ job' = [job EXCEPT ![x] = [NoJob EXCEPT !.pc = "load", !.proc = request[r].proc]]
    BY <1>2, <1>9, <2>1 DEF InsertRun
  <2>3. s \in Snapshots /\ s.revision = config.revision /\ (~s.hintsOn => s.hints = {})
    BY <1>1, <2>1, SnapshotIs
  <2>4. x \in Runs /\ run[x].st = "unused" /\ RunInv(x)
    BY <2>2 DEF NewRun, Inv
  <2>5. PICK p : p = request[r].proc
    OBVIOUS
  <2>6. PICK j : j = [NoJob EXCEPT !.pc = "load", !.proc = p]
    OBVIOUS
  <2>7. j \in Job /\ j.pc = "load" /\ j.done = 0
    BY <1>2, <2>5, <2>6, NoJobIs DEF Job
  <2>8. job' \in [Runs -> Job] /\ job'[x] = j /\ \A y \in Runs : y # x => job'[y] = job[y]
    BY <1>1, <2>2, <2>4, <2>5, <2>6, <2>7 DEF TypeOK
  <2>9. PICK n : n = request[r].total
    OBVIOUS
  <2>10. PICK v : v = request[r].params
    OBVIOUS
  <2>11. PICK b1 : b1 = request[r].judge
    OBVIOUS
  <2>12. PICK b2 : b2 = request[r].hints
    OBVIOUS
  <2>13. PICK b3 : b3 = request[r].policy
    OBVIOUS
  <2>14. n \in Counts /\ v \in Params /\ {b1, b2, b3} \subseteq BOOLEAN /\ llm \in Models
    BY <1>1, <1>2, <2>9, <2>10, <2>11, <2>12, <2>13 DEF Request, Counts, TypeOK
  <2>15. PICK row : row = [NoRun EXCEPT !.st = "queued", !.total = n, !.params = v, !.snapshot = s, !.llm = llm,
                             !.judge = b1, !.hints = b2, !.policy = b3]
    OBVIOUS
  <2>16. row \in Run /\ row.st = "queued" /\ row.snapshot = s
    BY <2>3, <2>14, <2>15, NothingIs DEF Run
  <2>17. run' \in [Runs -> Run] /\ run'[x] = row /\ \A y \in Runs : y # x => run'[y] = run[y]
    BY <1>1, <2>2, <2>4, <2>9, <2>10, <2>11, <2>12, <2>13, <2>15, <2>16 DEF TypeOK
  <2>18. TypeOK'
    BY <1>1, <1>3, <1>4, <2>8, <2>17 DEF TypeOK, domain, workbench
  <2>19. ASSUME NEW y \in Runs PROVE RunInv(y)'
    <3>1. CASE y # x
      <4>1. config'.revision \in Nat /\ config.revision <= config'.revision
        BY <1>1, <1>5, Numbers
      <4> QED
        BY <1>1, <1>3, <1>5, <2>8, <2>17, <3>1, <4>1, SameRun DEF Inv
    <3>2. CASE y = x
      <4>1. Results(x)' = {}
        BY <1>3, <2>4 DEF RunInv, Recorded, Results
      <4>2. Working(x)'
        BY <2>7, <2>8, <2>16, <2>17 DEF Working, Asking
      <4>3. config'.revision \in Nat /\ s.revision <= config'.revision
        BY <1>1, <1>5, <2>3, Numbers
      <4>4. Recorded(x)'
        BY <2>3, <2>16, <2>17, <4>1, <4>3 DEF Recorded
      <4>5. Ended(x)'
        BY <2>7, <2>8, <2>16, <2>17 DEF Ended
      <4> QED
        BY <3>2, <4>2, <4>4, <4>5 DEF RunInv
    <3> QED
      BY <3>1, <3>2
  <2>20. RevisionNamesContent'
    <3>1. \A y \in Runs : y # x /\ Stored(y)' => Stored(y) /\ run'[y].snapshot = run[y].snapshot
      BY <2>17 DEF Stored
    <3>2. run'[x].snapshot = s
      BY <2>16, <2>17
    <3>3. Snapshot(config, hints)' = s
      BY <1>5, <2>1 DEF Snapshot, Enabled, Present
    <3>4. /\ \A y \in Runs : Stored(y) /\ run[y].snapshot.revision = config.revision => run[y].snapshot = s
          /\ \A y, z \in Runs : Stored(y) /\ Stored(z) /\ run[z].snapshot.revision = run[y].snapshot.revision
                => run[z].snapshot = run[y].snapshot
      BY <2>1 DEF Inv, RevisionNamesContent
    <3>5. ASSUME NEW y \in Runs, Stored(y)'
          PROVE  run'[y].snapshot.revision = config'.revision => run'[y].snapshot = s
      <4>1. CASE y = x
        BY <3>2, <4>1
      <4>2. CASE y # x
        BY <1>5, <3>1, <3>4, <3>5, <4>2
      <4> QED
        BY <4>1, <4>2
    <3>6. ASSUME NEW y \in Runs, Stored(y)', NEW z \in Runs, Stored(z)',
                 run'[z].snapshot.revision = run'[y].snapshot.revision
          PROVE  run'[z].snapshot = run'[y].snapshot
      <4>1. CASE y # x /\ z # x
        BY <3>1, <3>4, <3>6, <4>1
      <4>2. CASE y = x \/ z = x
        <5>1. run'[y].snapshot.revision = config'.revision /\ run'[z].snapshot.revision = config'.revision
          BY <1>5, <2>3, <3>2, <3>6, <4>2
        <5> QED
          BY <3>5, <3>6, <5>1
      <4> QED
        BY <4>1, <4>2
    <3> QED
      BY <3>3, <3>5, <3>6 DEF RevisionNamesContent
  <2> QED
    BY <1>6, <1>7, <2>18, <2>19, <2>20 DEF Inv
<1> QED
  BY <1>8, <1>9

LEMMA RestartStep ==
  ASSUME Inv, NEW p \in Procs, Restart(p)
  PROVE  Inv'
<1>1. TypeOK /\ DomainInv /\ ProfileInv
  BY DEF Inv
<1>2. /\ request' = [r \in Requests |-> IF request[r].proc = p THEN Rest ELSE request[r]]
      /\ writer' = IF writer # None /\ request[writer].proc = p THEN None ELSE writer
      /\ job' = [x \in Runs |-> IF job[x].proc = p THEN NoJob ELSE job[x]]
      /\ active' = [active EXCEPT ![p] = InForce] /\ behind' = behind \ {p}
      /\ UNCHANGED <<domain, profile, set, item, run, result, llm, raced>>
  BY DEF Restart, LoadActive
<1>3. Counted /\ used'.edits = used.edits /\ used'.faults > 0 /\ used'.edits \in Nat /\ used'.faults \in Nat
  <2>1. Counted /\ used'.edits = used.edits /\ used'.faults > 0
    BY <1>1, CountedFault DEF Restart
  <2> QED
    BY <2>1, BoundAssumption DEF Counted, Used
<1>4. InForce \in Params /\ InForce' = InForce
  <2>1. Actives # {} => First \in Profiles
    BY FirstIs DEF Actives
  <2>2. InForce \in Params
    BY <1>1, <2>1, BaseAssumption, ParamsAre DEF InForce
  <2>3. InForce' = InForce
    BY <1>2 DEF InForce, First, Actives, Live
  <2> QED
    BY <2>2, <2>3
<1>5. TypeOK'
  <2>1. request' \in [Requests -> Request] /\ job' \in [Runs -> Job] /\ writer' \in Requests \cup {None}
    BY <1>1, <1>2, RestIs, NoJobIs DEF TypeOK
  <2>2. active' \in [Procs -> Params] /\ behind' \subseteq Procs
    BY <1>1, <1>2, <1>4 DEF TypeOK
  <2> QED
    BY <1>1, <1>2, <1>3, <2>1, <2>2 DEF TypeOK, Counted, domain
<1>6. DomainInv'
  <2>1. Locked'
    <3> SUFFICES ASSUME NEW r \in Requests PROVE request'[r].pc \in InTransaction <=> writer' = r
      BY DEF Locked, InTransaction
    <3>1. (request[r].pc \in InTransaction <=> writer = r) /\ r # None
      BY <1>1, NoneAssumption DEF DomainInv, Locked, InTransaction
    <3>2. CASE request[r].proc = p
      BY <1>2, <3>1, <3>2, RestIs DEF InTransaction
    <3>3. CASE request[r].proc # p
      BY <1>2, <3>1, <3>3
    <3> QED
      BY <3>2, <3>3
  <2>2. ASSUME NEW r \in Requests PROVE Reading(request[r])'
    <3>1. CASE request[r].proc = p
      BY <1>2, <3>1, RestIs DEF Reading
    <3>2. CASE request[r].proc # p
      <4>1. Reading(request[r]) /\ request'[r] = request[r] /\ config' = config /\ hints' = hints
        BY <1>1, <1>2, <3>2 DEF DomainInv, domain
      <4> QED
        BY <1>3, <4>1 DEF Reading, Fits, Present
    <3> QED
      BY <3>1, <3>2
  <2>3. config'.revision <= used'.edits + 1 /\ HintRules'
    BY <1>1, <1>2, <1>3 DEF DomainInv, HintRules, Present, domain
  <2> QED
    BY <2>1, <2>2, <2>3 DEF DomainInv
<1>7. ProfileInv'
  <2>1. Ordered' /\ OneActive'
    BY <1>1, <1>2 DEF ProfileInv, Ordered, OneActive, Actives, Live
  <2>2. MemoryFollowsRow'
    BY <1>1, <1>2, <1>4 DEF ProfileInv, MemoryFollowsRow, TypeOK
  <2>3. ASSUME NEW r \in Requests PROVE Carried(request[r])'
    <3>1. Carried(request'[r])
      BY <1>1, <1>2, RestIs DEF ProfileInv, Carried
    <3> QED
      BY <1>2, <3>1 DEF Carried, Live
  <2> QED
    BY <2>1, <2>2, <2>3 DEF ProfileInv
<1>8. ASSUME NEW x \in Runs PROVE RunInv(x)'
  <2>1. RunInv(x) /\ config'.revision \in Nat /\ config.revision <= config'.revision
    BY <1>1, <1>2, Numbers DEF Inv, domain
  <2>2. CASE job[x].proc # p
    <3>1. job'[x] = job[x] /\ run'[x] = run[x] /\ result'[x] = result[x] /\ (x \in raced' <=> x \in raced)
      BY <1>2, <2>2
    <3> QED
      BY <1>1, <1>3, <2>1, <3>1, SameRun
  <2>3. CASE job[x].proc = p
    <3>1. job'[x] = NoJob /\ run' = run /\ result' = result /\ raced' = raced /\ config' = config
      BY <1>2, <2>3 DEF domain
    <3>2. Working(x)'
      BY <3>1, NoJobIs DEF Working, Asking
    <3>3. Recorded(x)'
      BY <2>1, <3>1 DEF RunInv, Recorded, Results, Stored, OfRow, Readable
    <3>4. Ended(x)'
      BY <1>3, <2>1, <3>1 DEF RunInv, Ended, Results
    <3> QED
      BY <3>2, <3>3, <3>4 DEF RunInv
  <2> QED
    BY <2>2, <2>3
<1>9. RevisionNamesContent'
  BY <1>2, NamedSame DEF Inv, Stored
<1> QED
  BY <1>5, <1>6, <1>7, <1>8, <1>9 DEF Inv

-----------------------------------------------------------------------------
(* The invariant holds.                                                    *)

LEMMA FewHints ==
  ASSUME NEW n, \A i \in Hints : hints[i] # None => i = n
  PROVE  HintRules
<1>1. \A i, j \in Present(hints) : i = j
  BY DEF Present
<1>2. Present(hints) \subseteq {n} /\ Cardinality({n}) = 1 /\ IsFiniteSet({n})
  BY FS_Singleton DEF Present
<1>3. Cardinality(Present(hints)) <= 1 /\ Cardinality(Present(hints)) \in Nat
  BY <1>2, FS_Subset, FS_CardinalityType
<1>4. Cardinality(Present(hints)) <= MaxHints
  BY <1>3, BoundAssumption
<1> QED
  BY <1>1, <1>4 DEF HintRules

LEMMA InitInv == Init => Inv
<1> SUFFICES ASSUME Init PROVE Inv
  OBVIOUS
<1>1. /\ request = [r \in Requests |-> Rest] /\ writer = None
      /\ used = [requests |-> 0, edits |-> 0, faults |-> 0]
      /\ active = [p \in Procs |-> Base] /\ behind = {}
      /\ set = "live" /\ item \in {[i \in Items |-> IF i <= n THEN "approved" ELSE "unused"] : n \in AtFirst}
      /\ run = [x \in Runs |-> NoRun] /\ result = [x \in Runs |-> NoResults]
      /\ job = [x \in Runs |-> NoJob] /\ llm = FirstModel /\ raced = {}
  BY DEF Init
<1>2. PICK b \in {NewBook, OldBook} :
        config = b.config /\ hints = b.hints /\ profile = b.profile
  BY DEF Init
<1>3. /\ config \in Config /\ hints \in [Hints -> Hint \cup {None}] /\ profile \in [Profiles -> Profile]
      /\ config.revision <= 1 /\ Ordered /\ HintRules
      /\ \A i \in Profiles : Live(i) /\ profile[i].isActive => i = 1 /\ profile[i].params = Base
  <2>1. 0 \in Revisions /\ 1 \in Revisions
    BY BoundAssumption DEF Revisions
  <2>2. CASE b = NewBook
    <3>1. config = EmptyConfig /\ hints = [i \in Hints |-> None] /\ profile = [i \in Profiles |-> Unused]
      BY <1>2, <2>2 DEF NewBook
    <3>2. config \in Config /\ config.revision <= 1
      BY <3>1, RestIs DEF EmptyConfig
    <3>3. HintRules
      BY <3>1, FewHints
    <3> QED
      BY <3>1, <3>2, <3>3, UnusedIs DEF Ordered, Live
  <2>3. CASE b = OldBook
    <3>1. PICK h : h = [term |-> FirstTerm, enabled |-> TRUE]
      OBVIOUS
    <3>2. h \in Hint
      BY <3>1, TermAssumption DEF Hint
    <3>3. /\ config = [revision |-> 1, hintsOn |-> TRUE, policyOn |-> TRUE, policy |-> TRUE]
          /\ hints = [i \in Hints |-> IF i = 1 THEN h ELSE None]
          /\ profile = [i \in Profiles |->
               CASE i = 1 -> [st |-> "live", params |-> Base, isDefault |-> TRUE, isActive |-> TRUE]
                 [] i = 2 -> [Unused EXCEPT !.st = "live", !.params = Candidate]
                 [] OTHER -> Unused]
      BY <1>2, <2>3, <3>1 DEF OldBook
    <3>4. config \in Config /\ config.revision <= 1
      BY <2>1, <3>3 DEF Config
    <3>5. hints \in [Hints -> Hint \cup {None}] /\ \A i \in Hints : hints[i] # None => i = 1
      BY <3>2, <3>3
    <3>6. HintRules
      BY <3>5, FewHints
    <3>7. PICK d : d = [st |-> "live", params |-> Base, isDefault |-> TRUE, isActive |-> TRUE]
      OBVIOUS
    <3>8. PICK c : c = [Unused EXCEPT !.st = "live", !.params = Candidate]
      OBVIOUS
    <3>9. d \in Profile /\ c \in Profile /\ d.st = "live" /\ c.st = "live" /\ ~c.isActive /\ d.params = Base
      BY <3>7, <3>8, BaseAssumption, UnusedIs DEF Profile
    <3>10. \A i \in Profiles : profile[i] = IF i = 1 THEN d ELSE IF i = 2 THEN c ELSE Unused
      BY <3>3, <3>7, <3>8
    <3>11. profile \in [Profiles -> Profile]
      BY <3>3, <3>7, <3>8, <3>9, UnusedIs
    <3>12. Profiles \subseteq Nat \ {0}
      BY IdsAre
    <3>13. Ordered
      <4>1. \A i \in Profiles : profile[i].st # "unused" => i = 1 \/ i = 2
        BY <3>10, UnusedIs
      <4>2. ASSUME NEW i \in Profiles, NEW j \in Profiles, j < i, profile[i].st # "unused"
            PROVE  profile[j].st # "unused"
        <5>1. i \in Nat \ {0} /\ j \in Nat \ {0}
          BY <3>12
        <5>2. j = 1
          BY <4>1, <4>2, <5>1
        <5> QED
          BY <3>9, <3>10, <5>2
      <4> QED
        BY <4>2 DEF Ordered
    <3>14. \A i \in Profiles : Live(i) /\ profile[i].isActive => i = 1 /\ profile[i].params = Base
      BY <3>9, <3>10, UnusedIs DEF Live
    <3> QED
      BY <3>4, <3>5, <3>6, <3>11, <3>13, <3>14
  <2> QED
    BY <1>2, <2>2, <2>3
<1>4. TypeOK
  <2>1. /\ 0 \in 0 .. MaxRequests /\ 0 \in 0 .. MaxEdits /\ 0 \in 0 .. MaxFaults
        /\ item \in [Items -> {"unused", "draft", "approved", "deleted"}]
    BY <1>1, BoundAssumption
  <2>2. used \in Used
    BY <1>1, <2>1 DEF Used
  <2> QED
    BY <1>1, <1>3, <2>1, <2>2, RestIs, NothingIs, NoJobIs, BaseAssumption, ModelAssumption DEF TypeOK
<1>5. DomainInv
  <2>1. Locked /\ \A r \in Requests : Reading(request[r])
    BY <1>1, RestIs, NoneAssumption DEF Locked, Reading
  <2>2. config.revision <= used.edits + 1
    BY <1>1, <1>3, <1>4, Numbers
  <2> QED
    BY <1>3, <2>1, <2>2 DEF DomainInv
<1>6. ProfileInv
  <2>1. OneActive
    <3>1. \A i \in Actives : i = 1
      BY <1>3 DEF Actives
    <3> QED
      BY <3>1 DEF OneActive
  <2>2. InForce = Base
    BY <1>3, FirstIs DEF InForce, Actives
  <2>3. MemoryFollowsRow
    BY <1>1, <2>2 DEF MemoryFollowsRow
  <2>4. \A r \in Requests : Carried(request[r])
    BY <1>1, RestIs DEF Carried
  <2> QED
    BY <1>3, <2>1, <2>3, <2>4 DEF ProfileInv
<1>7. \A x \in Runs : run[x].st = "unused" /\ job[x] = NoJob /\ Results(x) = {}
  BY <1>1 DEF NoRun, NoResults, Results
<1>8. \A x \in Runs : RunInv(x)
  BY <1>7, NoJobIs DEF RunInv, Working, Recorded, Ended, Stored, Asking
<1>9. RevisionNamesContent
  BY <1>7 DEF RevisionNamesContent, Stored
<1> QED
  BY <1>4, <1>5, <1>6, <1>8, <1>9 DEF Inv

LEMMA StutterInv == Inv /\ UNCHANGED vars => Inv'
<1> SUFFICES ASSUME Inv, UNCHANGED vars PROVE Inv'
  OBVIOUS
<1>1. /\ UNCHANGED <<domain, writer, workbench, run, result, job, raced>>
      /\ UNCHANGED <<request, used, set, item, llm>>
  BY DEF vars, book
<1>2. TypeOK' /\ Counted
  <2>1. TypeOK
    BY DEF Inv
  <2>2. TypeOK'
    BY <1>1, <2>1 DEF TypeOK, domain, workbench
  <2> QED
    BY <1>1, <2>1, <2>2, CountedNot
<1> QED
  BY <1>1, <1>2, Elsewhere

LEMMA NextInv == Inv /\ Next => Inv'
<1> SUFFICES ASSUME Inv, Next PROVE Inv'
  OBVIOUS
<1>1. ASSUME NEW r \in Requests, DomainEdit(r), UNCHANGED <<workbench, book>> PROVE Inv'
  BY <1>1, SaveConfigStep, CreateHintStep, UpdateHintStep, DeleteHintStep, WriteEditStep DEF DomainEdit
<1>2. ASSUME NEW r \in Requests, ProfileStep(r), UNCHANGED book PROVE Inv'
  <2>1. ASSUME NEW p \in Procs,
               BeginDefault(r, p) \/ \E i \in Profiles : BeginDrop(r, p, i) \/ BeginApply(r, p, i)
        PROVE  Inv'
    BY <1>2, <2>1, BeginDefaultStep, BeginDropStep, BeginApplyStep
  <2> QED
    BY <1>2, <2>1, InsertDefaultStep, DropProfileStep, ActivateStep, AnnounceStep DEF ProfileStep
<1>3. ASSUME NEW r \in Requests, EvalStep(r) PROVE Inv'
  <2>1. ASSUME NEW i \in Items, BeginDropItem(r, i) PROVE Inv'
    BY <2>1, BeginDropItemStep
  <2>2. ASSUME NEW p \in Procs, NEW i \in Profiles, BeginRun(r, p, i) PROVE Inv'
    BY <2>2, BeginRunStep
  <2> QED
    BY <1>3, <2>1, <2>2, BeginGenerateStep, WriteDraftsStep, DropItemStep, BeginDropSetStep, DropSetStep,
       FreezeStep, InsertRunStep DEF EvalStep
<1>4. ASSUME NEW x \in Runs, JobStep(x) \/ TaskRaises(x) PROVE Inv'
  BY <1>4, LoadRunStep, NothingToDoStep, RetrieveStep, JudgeStep, StoreResultStep, FinishRunStep,
     TaskRaisesStep DEF JobStep
<1>5. ASSUME NEW p \in Procs, Restart(p) PROVE Inv'
  BY <1>5, RestartStep
<1>6. CASE CreateProfile /\ UNCHANGED book
  BY <1>6, CreateProfileStep
<1>7. CASE AddItem \/ ChangeModel \/ \E i \in Items : ApproveItem(i)
  BY <1>7, ItemSteps
<1>8. CASE DeleteNotebook
  BY <1>8, DeleteNotebookStep
<1> QED
  BY <1>1, <1>2, <1>3, <1>4, <1>5, <1>6, <1>7, <1>8 DEF Next

\* What the requests, the tasks, the edits and the restarts keep between them.
THEOREM InvHolds == Spec => []Inv
<1>1. Inv /\ [Next]_vars => Inv'
  BY NextInv, StutterInv
<1> QED
  BY InitInv, <1>1, PTL DEF Spec

\* Every variable keeps its type: no id, bound or row leaves its range.
THEOREM TypeCorrect == Spec => []TypeOK
<1>1. Inv => TypeOK
  BY DEF Inv
<1> QED
  BY <1>1, InvHolds, PTL

\* The rules of the hints, the one active profile and the parameters in memory outlive every
\* interleaving of the pages that edit, create, apply and delete, and every restart
\* (app/domain_policy.py, app/retrieval.py, app/evals.py).
THEOREM ConfigurationStays == Spec => []ConfigurationHolds
<1>1. Inv => ConfigurationHolds
  BY DEF Inv, DomainInv, ProfileInv, ConfigurationHolds
<1> QED
  BY <1>1, InvHolds, PTL

\* A run that reads succeeded is complete, one that reads queued or running has its task or
\* lost it with its process (app/evals.py run_eval_job).
THEOREM StatusTrue == Spec => []StatusIsTrue
<1>1. ASSUME Inv PROVE StatusIsTrue
  <2>1. SucceededIsComplete
    BY <1>1 DEF Inv, RunInv, Ended, SucceededIsComplete, Succeeded
  <2>2. WaitsForATask
    BY <1>1 DEF Inv, RunInv, Ended, WaitsForATask, Asking
  <2> QED
    BY <2>1, <2>2 DEF StatusIsTrue
<1> QED
  BY <1>1, InvHolds, PTL

\* Rows that the comparison shows no difference between have asked for the same.
LEMMA SameShown ==
  ASSUME Inv, NEW x \in Runs, NEW y \in Runs, Succeeded(x), Succeeded(y), Shown(x) = Shown(y),
         NEW v, NEW w, OfRow(x, v), OfRow(y, w)
  PROVE  v.params = w.params /\ v.hints = w.hints /\ v.policy = w.policy
<1>1. /\ run[x].params = run[y].params
      /\ run[x].snapshot.revision = run[y].snapshot.revision
      /\ (run[x].hints /\ run[x].snapshot.hintsOn) = (run[y].hints /\ run[y].snapshot.hintsOn)
      /\ (run[x].policy /\ run[x].snapshot.policy) = (run[y].policy /\ run[y].snapshot.policy)
      /\ run[x].judge = run[y].judge
  BY DEF Shown
<1>2. Stored(x) /\ Stored(y)
  BY DEF Succeeded, Stored
<1>3. run[x].snapshot = run[y].snapshot
  BY <1>1, <1>2 DEF Inv, RevisionNamesContent
<1>4. ~run[x].snapshot.hintsOn => run[x].snapshot.hints = {}
  BY <1>2 DEF Inv, RunInv, Recorded
<1>5. v.params = w.params
  BY <1>1 DEF OfRow
<1>6. v.hints = w.hints
  BY <1>1, <1>3, <1>4 DEF OfRow, Readable
<1>7. v.policy = w.policy
  BY <1>1, <1>3 DEF OfRow, Readable
<1> QED
  BY <1>5, <1>6, <1>7

\* A run is one experiment, the one its row describes: a revision names one content, two
\* succeeded runs that read alike were asked alike, and a run was asked with one model
\* (app/evals.py run_eval_job, compare_runs).
THEOREM OneExperimentEach == Spec => []OneExperiment
<1>1. ASSUME Inv PROVE OneExperiment
  <2>1. RevisionNamesContent
    BY <1>1 DEF Inv
  <2>2. OneModelPerRun
    BY <1>1 DEF Inv, RunInv, Recorded, OneModelPerRun
  <2>3. NoUnshownDifference
    <3> SUFFICES ASSUME NEW x \in Runs, NEW y \in Runs, Succeeded(x), Succeeded(y), Shown(x) = Shown(y),
                        NEW i \in Results(x), NEW k \in Results(y)
                 PROVE  [result[x][i] EXCEPT !.llm = FirstModel] = [result[y][k] EXCEPT !.llm = FirstModel]
      BY DEF NoUnshownDifference, Asked
    <3>1. PICK v : v = result[x][i]
      OBVIOUS
    <3>2. PICK w : w = result[y][k]
      OBVIOUS
    <3>3. v \in With /\ w \in With
      BY <1>1, <3>1, <3>2 DEF Inv, TypeOK, Results
    <3>4. OfRow(x, v) /\ OfRow(y, w)
      BY <1>1, <3>1, <3>2 DEF Inv, RunInv, Recorded, Succeeded, Stored
    <3>5. v.params = w.params /\ v.hints = w.hints /\ v.policy = w.policy
      BY <1>1, <3>4, SameShown
    <3>6. [v EXCEPT !.llm = FirstModel] = [w EXCEPT !.llm = FirstModel]
      BY <3>3, <3>5 DEF With
    <3> QED
      BY <3>1, <3>2, <3>6
  <2> QED
    BY <2>1, <2>2, <2>3 DEF OneExperiment
<1> QED
  BY <1>1, InvHolds, PTL
=============================================================================
