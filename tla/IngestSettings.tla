---------------------------- MODULE IngestSettings ----------------------------
(***************************************************************************)
(* The two limits of a parse an administrator can set while the program    *)
(* runs (app/system_settings.py, app/settings.py): a row of                *)
(* system_settings overrides what the deployment says, and the worker      *)
(* reads the limit for each parse, in whichever process it runs. The form  *)
(* shows both limits and sends both back.                                  *)
(*                                                                         *)
(* The handlers compare and write in transactions of their own. A new      *)
(* deployment changes the values below the rows and the bound they were    *)
(* checked against. Durations are in ticks of the worker's clock, see      *)
(* Extraction.                                                             *)
(***************************************************************************)
EXTENDS Naturals, FiniteSets

CONSTANTS
  Deployments, \* what config.toml may say
  Values,      \* what an administrator types
  Requests,    \* submissions of the form that are under way at a time
  None,        \* no row, nothing chosen
  Precise,     \* values below this one are shown as they are
  Coarse,      \* the last digit the page shows of the others
  MaxEdits     \* bound: submissions, resets and deployments

Fields == {"timeout", "memory"} \* INGEST_FIELDS

ASSUME DeploymentsAssumption ==
  /\ Deployments # {} /\ None \notin Nat \cup Requests /\ MaxEdits \in Nat
  /\ Deployments \subseteq [vis : Nat \ {0}, timeout : Nat, memory : Nat, loops : SUBSET {"inline", "standalone"}]
ASSUME ValuesAssumption == Values \in [Fields -> SUBSET Nat]
ASSUME DigitsAssumption == Precise \in Nat /\ Coarse \in Nat \ {0}

VARIABLES
  conf,     \* the deployment: config.jobs, and which processes run the worker's loop
  override, \* system_settings: the row of each field, or None
  form,     \* the submissions of the form
  edits     \* history: how many edits there were

settings == <<conf, override, form, edits>>

\* A form: what was in force when it was shown, what stands in it, the fields still
\* to store. History: what it wrote, and what moved after it was shown.
Form == [pc : {"idle", "shown", "saving", "writing", "refused"}, seen : [Fields -> Nat], typed : [Fields -> Nat],
         todo : SUBSET Fields, wrote : SUBSET Fields, moved : SUBSET Fields]
Blank == [pc |-> "idle", seen |-> [f \in Fields |-> 0], typed |-> [f \in Fields |-> 0],
          todo |-> {}, wrote |-> {}, moved |-> {}]

Ceiling   == (9 * conf.vis) \div 10
Minimum   == [timeout |-> 1, memory |-> 2]
Default   == [timeout |-> conf.timeout, memory |-> conf.memory]
Effective == [f \in Fields |-> IF override[f] = None THEN Default[f] ELSE override[f]]

\* The page shows a value with six significant digits (f"{value:g}"), so that a value
\* with more digits is rounded: here a value of Precise or more, to a multiple of Coarse.
Shown(v) == IF v < Precise THEN v ELSE Coarse * ((v + Coarse \div 2) \div Coarse)

\* validate: within the bounds; the memory cap can be switched off.
Allowed(f, v) ==
  \/ (f = "memory" /\ v = 0)
  \/ (v >= Minimum[f] /\ (f = "timeout" => v <= Ceiling))

\* The row of a field is written; the forms that show the page note it.
Store(f, v, r) ==
  /\ override' = [override EXCEPT ![f] = v]
  /\ form' = [q \in Requests |->
       IF q = r THEN [form[q] EXCEPT !.pc = "saving", !.todo = @ \ {f}, !.wrote = @ \cup {f}]
       ELSE IF form[q].pc \in {"shown", "saving", "writing"} THEN [form[q] EXCEPT !.moved = @ \cup {f}]
       ELSE form[q]]

-----------------------------------------------------------------------------
\* The settings page.
Show(r) ==
  /\ form[r].pc = "idle" /\ edits < MaxEdits
  /\ edits' = edits + 1
  /\ form' = [form EXCEPT ![r] = [Blank EXCEPT !.pc = "shown", !.seen = Effective,
                                     !.typed = [f \in Fields |-> Shown(Effective[f])]]]
  /\ UNCHANGED <<conf, override>>

\* update_ingest_settings: every field is checked before one is stored. A field
\* is sent as it was shown, or as it was retyped.
Valid(typed) == \A f \in Fields : Allowed(f, typed[f])

Submit(r) ==
  /\ form[r].pc = "shown"
  /\ \E typed \in [Fields -> UNION {Values[f] : f \in Fields} \cup {form[r].typed[f] : f \in Fields}] :
       /\ \A f \in Fields : typed[f] \in Values[f] \cup {form[r].typed[f]}
       /\ \/ ~Valid(typed) /\ form' = [form EXCEPT ![r] = [Blank EXCEPT !.pc = "refused"]]
          \/ Valid(typed) /\ form' = [form EXCEPT ![r].pc = "saving", ![r].typed = typed, ![r].todo = Fields]
  /\ UNCHANGED <<conf, override, edits>>

\* The fields are stored in the order of INGEST_FIELDS.
Turn(r) == IF "timeout" \in form[r].todo THEN "timeout" ELSE "memory"

\* Seeded bug: every field of the form is stored.
DiffersAlways(r) == r \in Requests
\* Only what differs from what is in force is stored.
Differs(r) == form[r].typed[Turn(r)] # Effective[Turn(r)]

Compare(r) ==
  /\ form[r].pc = "saving" /\ form[r].todo # {}
  /\ form' = [form EXCEPT ![r].pc = IF Differs(r) THEN "writing" ELSE "saving",
                         ![r].todo = IF Differs(r) THEN @ ELSE @ \ {Turn(r)}]
  /\ UNCHANGED <<conf, override, edits>>

\* set_override checks the value again, and writes the row.
SetOverride(r) ==
  /\ form[r].pc = "writing"
  /\ IF Allowed(Turn(r), form[r].typed[Turn(r)]) THEN Store(Turn(r), form[r].typed[Turn(r)], r)
     ELSE /\ form' = [form EXCEPT ![r] = [Blank EXCEPT !.pc = "refused", !.wrote = form[r].wrote]]
          /\ UNCHANGED override
  /\ UNCHANGED <<conf, edits>>

\* reset_ingest_settings: the deployment's value applies again.
ClearOverride(f) ==
  /\ edits < MaxEdits /\ edits' = edits + 1
  /\ Store(f, None, None)
  /\ UNCHANGED conf

\* The answer.
Leave(r) ==
  /\ form[r].pc \in {"shown", "refused"} \/ (form[r].pc = "saving" /\ form[r].todo = {})
  /\ form' = [form EXCEPT ![r] = Blank]
  /\ UNCHANGED <<conf, override, edits>>

\* The web process ends: requests under way are gone, pages in browsers and rows are not.
Lost == form' = [r \in Requests |-> IF form[r].pc = "shown" THEN form[r] ELSE Blank]

-----------------------------------------------------------------------------
SettingsInit ==
  /\ conf \in Deployments
  /\ override = [f \in Fields |-> None]
  /\ form = [r \in Requests |-> Blank]
  /\ edits = 0

SettingsTypeOK ==
  /\ conf \in Deployments
  /\ override \in [Fields -> Nat \cup {None}]
  /\ form \in [Requests -> Form]
  /\ edits \in 0..MaxEdits

-----------------------------------------------------------------------------
\* A form writes no field it sends back equal to what was in force when it was shown,
\* unless the row or the deployment changed since. So a field nobody retyped becomes an
\* override only when it moved, or when its value has more digits than the page
\* shows: then the rounded value is written (app/settings.py update_ingest_settings).
PinsNothing ==
  \A r \in Requests : \A f \in form[r].wrote \ form[r].moved :
    /\ form[r].typed[f] # form[r].seen[f]
    /\ form[r].typed[f] = Shown(form[r].seen[f]) => form[r].seen[f] >= Precise

\* A form that is refused has stored none of its fields
\* (app/settings.py update_ingest_settings).
RefusedIsUntouched ==
  \A r \in Requests : form[r].pc = "refused" => form[r].wrote = {}

\* A form writes only what it sends back differently from what was in force, and all of
\* that or nothing (app/settings.py update_ingest_settings).
FormsHold == PinsNothing /\ RefusedIsUntouched
=============================================================================
