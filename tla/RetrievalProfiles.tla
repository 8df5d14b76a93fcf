-------------------------- MODULE RetrievalProfiles --------------------------
(***************************************************************************)
(* The retrieval profiles (app/evals.py, app/retrieval.py): rows of the    *)
(* database, of which one is active, and the parameters each web process   *)
(* has in memory. Applying a profile sets the row, and after its           *)
(* transaction the memory of the process that served the request.          *)
(*                                                                         *)
(* A SELECT opens no transaction: what it finds may have changed when the  *)
(* statement after it writes.                                              *)
(***************************************************************************)
EXTENDS DomainPolicy

CONSTANTS
  Base,     \* what app/config.py says: RETRIEVAL_PARAM_DEFAULTS
  Candidate \* the parameters of a candidate there is at first

ASSUME BaseAssumption == {Base, Candidate} \subseteq Params

VARIABLES
  profile, \* retrieval_profiles
  active,  \* ACTIVE_RETRIEVAL_PARAMS of each process
  behind   \* history: processes whose parameters are not of the last apply

workbench == <<profile, active, behind>>

Profile == [st : {"unused", "live", "deleted"}, params : Params, isDefault : BOOLEAN, isActive : BOOLEAN]

Unused  == [st |-> "unused", params |-> Base, isDefault |-> FALSE, isActive |-> FALSE]
Live(i) == profile[i].st = "live"
Lives   == {i \in Profiles : Live(i)}
Actives == {i \in Profiles : Live(i) /\ profile[i].isActive}
NewProfile == {i \in Profiles : profile[i].st = "unused" /\ \A j \in Profiles : j < i => profile[j].st # "unused"}

\* What load_active_retrieval_profile finds: the first active row, or the defaults.
First   == CHOOSE i \in Actives : \A j \in Actives : i <= j
InForce == IF Actives = {} THEN Base ELSE profile[First].params

-----------------------------------------------------------------------------
\* admin_create_profile: a candidate, of parameters coerce_profile_params admits.
CreateProfile ==
  /\ Unlocked /\ Budget("requests", MaxRequests)
  /\ used' = [used EXCEPT !.requests = @ + 1]
  /\ \E i \in NewProfile, p \in Params :
       profile' = [profile EXCEPT ![i] = [Unused EXCEPT !.st = "live", !.params = p]]
  /\ UNCHANGED <<domain, request, writer, active, behind>>

\* ensure_default_retrieval_profile finds no profile at all. (A run that is
\* started before any page of the workbench was seen is this, then the run.)
BeginDefault(r, p) ==
  /\ Lives = {} /\ Begin(r, [Rest EXCEPT !.pc = "default", !.proc = p])
  /\ UNCHANGED <<domain, writer, workbench>>

InsertDefault(r) ==
  /\ request[r].pc = "default" /\ Unlocked
  /\ \E i \in NewProfile :
       profile' = [profile EXCEPT ![i] = [st |-> "live", params |-> Base, isDefault |-> TRUE, isActive |-> TRUE]]
  /\ End(r)
  /\ UNCHANGED <<domain, writer, used, active, behind>>

\* admin_delete_profile: the checks, and later the row. Runs keep their snapshot.
BeginDrop(r, p, i) ==
  /\ Live(i) /\ ~profile[i].isDefault /\ ~profile[i].isActive
  /\ Begin(r, [Rest EXCEPT !.pc = "drop", !.proc = p, !.profile = i])
  /\ UNCHANGED <<domain, writer, workbench>>

DropProfile(r) ==
  /\ request[r].pc = "drop" /\ Unlocked
  /\ LET i == request[r].profile IN
       /\ profile' = [profile EXCEPT ![i] = [Unused EXCEPT !.st = "deleted"]]
       /\ behind' = IF i \in Actives THEN Procs ELSE behind
  /\ End(r)
  /\ UNCHANGED <<domain, writer, used, active>>

\* admin_apply_profile reads the row, marks it active, and sets the parameters it
\* has read. None of the rows there are requires a reindex.
BeginApply(r, p, i) ==
  /\ Live(i)
  /\ Begin(r, [Rest EXCEPT !.pc = "apply", !.proc = p, !.profile = i, !.params = profile[i].params])
  /\ UNCHANGED <<domain, writer, workbench>>

Activate(r) ==
  /\ request[r].pc = "apply" /\ Unlocked
  /\ LET i == request[r].profile IN
       profile' = [j \in Profiles |-> [profile[j] EXCEPT !.isActive = (j = i /\ Live(i))]]
  /\ behind' = Procs
  /\ Goto(r, "announce")
  /\ UNCHANGED <<domain, writer, used, active>>

\* set_active_retrieval_params. It is in step with the rows when the one it has
\* read is the one a restart would find now.
Announce(r) ==
  /\ request[r].pc = "announce"
  /\ LET p == request[r].proc IN
       /\ active' = [active EXCEPT ![p] = request[r].params]
       /\ behind' = IF Actives # {} /\ First = request[r].profile THEN behind \ {p} ELSE behind \cup {p}
  /\ End(r)
  /\ UNCHANGED <<domain, writer, used, profile>>

\* load_active_retrieval_profile, at every start of a process.
LoadActive(p) == [active EXCEPT ![p] = InForce]

ProfileStep(r) ==
  \/ \E p \in Procs : BeginDefault(r, p) \/ \E i \in Profiles : BeginDrop(r, p, i) \/ BeginApply(r, p, i)
  \/ InsertDefault(r) \/ DropProfile(r) \/ Activate(r) \/ Announce(r)

-----------------------------------------------------------------------------
\* A process that applied the profile in force, or that has started since it was
\* applied, answers with its parameters.
MemoryFollowsRow == \A p \in Procs \ behind : active[p] = InForce

\* Two active rows leave the parameters after a restart to their ids. Only the
\* default, inserted by a page that found no profile while another was created and
\* applied, may stand beside the active one, and it comes later: it is never found.
OneActive == \A i, j \in Actives : i < j => profile[j].isDefault /\ profile[j].params = Base
=============================================================================
