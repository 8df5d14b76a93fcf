---------------------------- MODULE DomainPolicy ----------------------------
(***************************************************************************)
(* The hints and the answer policy of one notebook (app/domain_policy.py,  *)
(* and the handlers of app/main.py that edit them), with the requests of   *)
(* the workbench's administrators, which freeze them into runs.            *)
(*                                                                         *)
(* The version token is a fresh random value whenever the revision goes    *)
(* up, so that the two say the same thing of one notebook: one number      *)
(* stands for both. A term is what is left of it after strip.               *)
(***************************************************************************)
EXTENDS Naturals, FiniteSets

CONSTANTS
  Requests,    \* requests that are open at a time
  Procs,       \* web processes
  Profiles, Runs, Items, \* ids, as AUTOINCREMENT gives them: 1 .. n
  Params,      \* the values a profile's parameters may have together
  Models,      \* what capability_snapshot tells apart
  Terms, Hints,\* the terms, as they are spelled; the ids of the hints: 1 .. n
  Casefold, NoCase, \* what str.casefold makes of a term, and SQLite's NOCASE, which
                    \* folds the letters of ASCII only
  FirstTerm,   \* a term somebody has defined already
  MaxHints,    \* domain_policy.max_hints
  Room,        \* hints whose frozen JSON stays within MAX_SNAPSHOT_JSON_CHARS
  Forms,       \* bound: the configurations an owner saves
  None,
  MaxRequests, \* bound: requests of several steps in a behaviour
  MaxEdits,    \* bound: edits of the hints and the policy
  MaxEvents,   \* bound: both together
  MaxFaults    \* bound: restarts and failing statements

ASSUME IdAssumption    == \A S \in {Profiles, Runs, Items, Hints} : IsFiniteSet(S) /\ S = 1 .. Cardinality(S)
ASSUME BoundAssumption == {MaxHints, Room, MaxRequests, MaxEdits, MaxEvents, MaxFaults} \subseteq Nat /\ MaxHints > 0
ASSUME TermAssumption  == FirstTerm \in Terms /\ \A s, t \in Terms :
                            NoCase[s] = NoCase[t] => Casefold[s] = Casefold[t]
ASSUME NoneAssumption  == None \notin Requests \cup Procs \cup Params \cup Models \cup Terms

VARIABLES
  config,  \* notebook_domain_config
  hints,   \* notebook_domain_hints by id, None where there is none
  request, \* what each request is doing
  writer,  \* the request whose transaction holds SQLite's write lock, or None
  used     \* bounded events so far

domain == <<config, hints>>

-----------------------------------------------------------------------------
Revisions == 0 .. MaxEdits + 1
Config  == [revision : Revisions, hintsOn : BOOLEAN, policyOn : BOOLEAN, policy : BOOLEAN]
Hint    == [term : Terms, enabled : BOOLEAN]
Edit    == [to : {"config", "hint", "nothing"}, id : Hints \cup {0}, hint : Hint \cup {None},
            form : Config, revision : Revisions]
Request == [pc : {"idle", "edit", "default", "apply", "announce", "drop", "generate",
                  "dropItem", "dropSet", "freeze", "insert"},
            proc : Procs \cup {None}, profile : Profiles \cup {0}, params : Params \cup {None},
            item : Items \cup {0}, seen : SUBSET Runs, config : Config, edit : Edit,
            judge : BOOLEAN, hints : BOOLEAN, policy : BOOLEAN, total : 0 .. Cardinality(Items)]
Used    == [requests : 0 .. MaxRequests, edits : 0 .. MaxEdits, faults : 0 .. MaxFaults]

\* empty_domain_config, which load_domain_config starts from.
EmptyConfig == [revision |-> 0, hintsOn |-> FALSE, policyOn |-> FALSE, policy |-> FALSE]

NoEdit == [to |-> "nothing", id |-> 0, hint |-> None, form |-> EmptyConfig, revision |-> 0]
Rest == [pc |-> "idle", proc |-> None, profile |-> 0, params |-> None, item |-> 0, seen |-> {},
         config |-> EmptyConfig, edit |-> NoEdit, judge |-> FALSE, hints |-> FALSE,
         policy |-> FALSE, total |-> 0]

\* Every transaction that writes waits for the one that holds the lock.
Budget(kind, max) == used[kind] < max /\ used.requests + used.edits < MaxEvents
Unlocked    == writer = None
End(r)      == request' = [request EXCEPT ![r] = Rest]
Goto(r, pc) == request' = [request EXCEPT ![r].pc = pc]
Begin(r, q) ==
  /\ request[r] = Rest /\ Budget("requests", MaxRequests)
  /\ used' = [used EXCEPT !.requests = @ + 1]
  /\ request' = [request EXCEPT ![r] = q]

ASSUME FormAssumption == \A f \in Forms : f \in Config /\ f.revision = 0
ASSUME RowAssumption  == None \notin Hint

-----------------------------------------------------------------------------
(* Freezing.                                                               *)

Present(hs) == {i \in Hints : hs[i] # None}
Enabled(hs) == {hs[i] : i \in {j \in Present(hs) : hs[j].enabled}}

\* snapshot_domain_config, with both uses asked for as all its callers do.
Snapshot(c, hs) ==
  LET on == c.hintsOn /\ Enabled(hs) # {}
  IN [revision |-> c.revision, hintsOn |-> on, hints |-> IF on THEN Enabled(hs) ELSE {},
      policy |-> c.policyOn /\ c.policy]

Snapshots == [revision : Revisions, hintsOn : BOOLEAN, hints : SUBSET Hint, policy : BOOLEAN]

\* What is too long to be read back is invalid, and nothing of it is used.
Readable(s) == Cardinality(s.hints) <= Room

-----------------------------------------------------------------------------
(* Editing: the checks and the write of one edit are one transaction.      *)

\* _assert_unique_term, of the other hints.
Taken(term, i) == \E j \in Present(hints) \ {i} : Casefold[hints[j].term] = Casefold[term]

\* What fails at the write: the unique index on the term, which is finer than the
\* check before (an IntegrityError, told as duplicate_term), or the row is gone.
Refused(e) ==
  \/ e.id # 0 /\ hints[e.id] = None
  \/ e.hint # None /\ \E j \in Present(hints) \ {e.id} : NoCase[hints[j].term] = NoCase[e.hint.term]

\* No transaction keeps an id for a later one, so that a free one may come again.
FreeHint == {i \in Hints : hints[i] = None /\ \A j \in Hints : j < i => hints[j] # None}

Opens(r, e) ==
  request' = [request EXCEPT ![r] = [Rest EXCEPT !.pc = "edit",
                !.edit = [e EXCEPT !.revision = config.revision + 1]]]

\* Seeded bug: the transaction begins with the write.
BeginLate(r) ==
  /\ request[r] = Rest /\ Budget("edits", MaxEdits) /\ Unlocked
  /\ used' = [used EXCEPT !.edits = @ + 1]
  /\ UNCHANGED <<config, hints, writer>>

\* _begin_immediate_if_needed, before anything the edit depends on is read.
BeginImmediate(r) ==
  /\ request[r] = Rest /\ Budget("edits", MaxEdits) /\ Unlocked
  /\ writer' = r
  /\ used' = [used EXCEPT !.edits = @ + 1]
  /\ UNCHANGED domain

SaveConfig(r) ==
  /\ BeginImmediate(r)
  /\ \E f \in Forms : Opens(r, [NoEdit EXCEPT !.to = "config", !.form = f])

CreateHint(r) ==
  /\ BeginImmediate(r)
  /\ Cardinality(Present(hints)) < MaxHints
  /\ \E h \in Hint :
       /\ ~Taken(h.term, 0)
       /\ Opens(r, [NoEdit EXCEPT !.to = "hint", !.hint = h])

UpdateHint(r) ==
  /\ BeginImmediate(r)
  /\ \E i \in Present(hints), h \in Hint :
       /\ ~Taken(h.term, i)
       /\ Opens(r, [NoEdit EXCEPT !.to = "hint", !.id = i, !.hint = h])

DeleteHint(r) ==
  /\ BeginImmediate(r)
  /\ \E i \in Present(hints) : Opens(r, [NoEdit EXCEPT !.to = "hint", !.id = i])

\* The row of the hint or of the configuration, and with it the revision; or the
\* transaction is rolled back. An insertion takes its id now.
WriteEdit(r) ==
  /\ request[r].pc = "edit" /\ writer \in {r, None}
  /\ LET e == request[r].edit IN
       IF e.to = "hint" /\ Refused(e) THEN UNCHANGED domain
       ELSE /\ \E i \in IF e.to = "hint" /\ e.id = 0 THEN FreeHint ELSE {e.id} :
                 hints' = IF e.to = "hint" THEN [hints EXCEPT ![i] = e.hint] ELSE hints
            /\ config' = [(IF e.to = "config" THEN e.form ELSE config) EXCEPT !.revision = e.revision]
  /\ writer' = None
  /\ End(r)
  /\ UNCHANGED used

DomainEdit(r) == SaveConfig(r) \/ CreateHint(r) \/ UpdateHint(r) \/ DeleteHint(r) \/ WriteEdit(r)

-----------------------------------------------------------------------------
\* Two hints of one term would be matched twice. The unique index of the database
\* forbids them as long as their spellings differ in the case of ASCII letters only;
\* for all other letters, and for the number of the hints, the reads of
\* create_domain_hint and update_domain_hint and their writes must be one
\* transaction.
HintRules ==
  /\ \A i, j \in Present(hints) : i # j => Casefold[hints[i].term] # Casefold[hints[j].term]
  /\ Cardinality(Present(hints)) <= MaxHints
=============================================================================
