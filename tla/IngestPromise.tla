--------------------------- MODULE IngestPromise ---------------------------
(***************************************************************************)
(* What the ingest queue promises about each source, with no queue, worker *)
(* or attempt in sight: every request to ingest a source is answered by a  *)
(* run that began after the request was made, or is given up openly, or is *)
(* void because the source was deleted. IngestQueue implements it.         *)
(***************************************************************************)
CONSTANT Sources

VARIABLE promise

States == {"none", "asked", "serving", "kept", "failed", "void"}

Init == promise = [s \in Sources |-> "none"]

\* A source is queued, or queued again at any time: whatever was being done
\* for it no longer counts.
Ask(s) ==
  /\ promise[s] # "void"
  /\ promise' = [promise EXCEPT ![s] = "asked"]

\* A run that will answer the latest request begins.
Serve(s) ==
  /\ promise[s] = "asked"
  /\ promise' = [promise EXCEPT ![s] = "serving"]

\* Only such a run can settle the request.
Keep(s) ==
  /\ promise[s] = "serving"
  /\ promise' = [promise EXCEPT ![s] = "kept"]

GiveUp(s) ==
  /\ promise[s] \in {"asked", "serving"}
  /\ promise' = [promise EXCEPT ![s] = "failed"]

\* Deleting a notebook voids the promises of all its sources at once.
Void(gone) ==
  /\ gone # {}
  /\ promise' = [s \in Sources |-> IF s \in gone THEN "void" ELSE promise[s]]

Answer(s) == Serve(s) \/ Keep(s) \/ GiveUp(s)

Next == \/ \E s \in Sources : Ask(s) \/ Answer(s)
        \/ \E gone \in SUBSET Sources : Void(gone)

Spec == Init /\ [][Next]_promise /\ \A s \in Sources : WF_promise(Answer(s))
=============================================================================
