------------------------------ MODULE LlmClient ------------------------------
(***************************************************************************)
(* The model client: the settings row with its tests, and a call. A call   *)
(* reads the row once, when it begins, and writes nothing the settings     *)
(* read, so that the two are interleaved at that one point.                *)
(***************************************************************************)
EXTENDS LlmSettings, LlmCalls

vars == <<settings, call>>

TypeOK ==
  /\ row \in Row /\ probes \in Probes /\ admin \in [Admins -> Admin]
  /\ used.edits \in 0 .. MaxEdits /\ used.faults \in 0 .. MaxFaults
  /\ call \in Call

Init == SettingsInit /\ call = NoCall

Change == Settings /\ UNCHANGED call

\* Bound: a call takes the place of all the edits.
Begin ==
  /\ call.pc = "idle" /\ used.edits = 0
  /\ used' = [used EXCEPT !.edits = MaxEdits]
  /\ \E kind \in CallKinds : Open(kind)
  /\ UNCHANGED <<row, probes, admin>>

Next == Change \/ Begin \/ (Attempt /\ UNCHANGED settings)

Spec == Init /\ [][Next]_vars
=============================================================================
