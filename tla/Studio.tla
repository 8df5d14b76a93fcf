------------------------------- MODULE Studio -------------------------------
(***************************************************************************)
(* The notebook itself, its briefing and its tools (app/main.py): what is  *)
(* generated from the summaries of a notebook's sources.                   *)
(***************************************************************************)
EXTENDS NotebookState

CreateNotebook(n) ==
  /\ notebook[n].st = "unused"
  /\ Counted
  /\ notebook' = [notebook EXCEPT ![n].st = "live"]
  /\ UNCHANGED <<source, chat, shelf, studio, request, overlap>>

\* rename_notebook carries the switch of the follow-up questions.
RenameNotebook(n) ==
  /\ Live(n)
  /\ Counted
  /\ \E on \in BOOLEAN : notebook' = [notebook EXCEPT ![n].followups = on]
  /\ UNCHANGED <<source, chat, shelf, studio, request, overlap>>

\* The row, and everything that cascades from it.
DeleteNotebook(n) ==
  /\ Live(n)
  /\ Counted
  /\ notebook' = [notebook EXCEPT ![n] = [Empty EXCEPT !.st = "deleted"]]
  /\ source' = [s \in Sources |-> IF Home[s] = n THEN "gone" ELSE source[s]]
  /\ Cut({c \in Conversations : conversation[c].notebook = n}, n)
  /\ notes' = {x \in notes : x.notebook # n}
  /\ lock' = [lock EXCEPT ![n] = 0] /\ stale' = stale \ {n}
  /\ UNCHANGED <<loose, request, overlap>>

\* A source is uploaded or deleted by a request, and indexed by a worker
\* (IngestQueue has the details).
SourceChanges(s) ==
  /\ Live(Home[s])
  /\ \/ source[s] = "none" /\ source' = [source EXCEPT ![s] = "other"] /\ Counted
     \/ source[s] \in {"other", "indexed"} /\ source' = [source EXCEPT ![s] = "gone"] /\ Counted
     \/ source[s] = "other" /\ source' = [source EXCEPT ![s] = "indexed"] /\ UNCHANGED count
  /\ UNCHANGED <<notebook, chat, shelf, studio, request, overlap>>

-----------------------------------------------------------------------------
(* The briefing.                                                           *)

Holds(r, n) == request[r].notebook = n /\ request[r].pc \in {"summaries", "brief", "keep"}

\* The lock it took is still to be released.
Keeps(r, n) == Holds(r, n) \/ (request[r].notebook = n /\ request[r].pc = "release")
Kept(n)     == \E r \in Requests : Keeps(r, n)

\* _briefing_state: a fresh briefing is the answer unless another is asked for.
BeginBriefing(r, n) ==
  /\ Live(n)
  /\ \E force \in BOOLEAN :
       /\ force \/ notebook[n].briefing # "fresh"
       /\ Begin(r, [Rest EXCEPT !.kind = "briefing", !.pc = "acquire", !.notebook = n])
  /\ UNCHANGED <<notebook, source, chat, shelf, studio>>

\* Seeded bug: the row is replaced, whatever its age.
AcquireAnyway(r) ==
  /\ request[r].pc = "acquire"
  /\ lock' = [lock EXCEPT ![request[r].notebook] = request[r].no]
  /\ stale' = stale \ {request[r].notebook}
  /\ Goto(r, "summaries")
  /\ UNCHANGED <<notebook, source, chat, shelf, loose, count, overlap>>

\* _acquire_briefing_lock, one immediate transaction: the row is taken when there
\* is none or when it is too old; a row for a deleted notebook cannot be.
Acquire(r) ==
  /\ request[r].pc = "acquire"
  /\ LET n == request[r].notebook IN
       IF Live(n) /\ (lock[n] = 0 \/ n \in stale)
       THEN /\ lock' = [lock EXCEPT ![n] = request[r].no]
            /\ stale' = stale \ {n}
            /\ Goto(r, "summaries")
       ELSE End(r) /\ UNCHANGED <<lock, stale>>
  /\ UNCHANGED <<notebook, source, chat, shelf, loose, count, overlap>>

\* Nothing to brief, or no chat model, is an answer too.
Summaries(r) ==
  /\ request[r].pc = "summaries"
  /\ \/ Goto(r, "release")
     \/ Indexed(request[r].notebook) # {} /\ Goto(r, "brief")
  /\ UNCHANGED <<notebook, source, chat, shelf, studio, count, overlap>>

\* The model's briefing, an empty one, or an error.
Brief(r) ==
  /\ request[r].pc = "brief"
  /\ Goto(r, "keep") \/ Goto(r, "release")
  /\ UNCHANGED <<notebook, source, chat, shelf, studio, count, overlap>>

KeepBriefing(r) ==
  /\ request[r].pc = "keep"
  /\ notebook' = [notebook EXCEPT ![request[r].notebook].briefing =
                    IF Live(request[r].notebook) THEN "fresh" ELSE @]
  /\ Goto(r, "release")
  /\ UNCHANGED <<source, chat, shelf, studio, count, overlap>>

\* The finally of notebook_briefing: the row goes, whoever inserted it.
Release(r) ==
  /\ request[r].pc = "release"
  /\ lock' = [lock EXCEPT ![request[r].notebook] = 0]
  /\ stale' = stale \ {request[r].notebook}
  /\ End(r)
  /\ UNCHANGED <<notebook, source, chat, shelf, loose, count, overlap>>

\* A row is older than the timeout, whether its request works on or has died.
LockAges(n) ==
  /\ lock[n] # 0 /\ n \notin stale
  /\ stale' = stale \cup {n}
  /\ loose' = IF Kept(n) THEN loose \cup {n} ELSE loose
  /\ UNCHANGED <<notebook, source, chat, shelf, lock, request, count, overlap>>

CacheAges(n) ==
  /\ \/ notebook[n].briefing = "fresh" /\ notebook' = [notebook EXCEPT ![n].briefing = "old"]
     \/ notebook[n].suggestions = "fresh"
        /\ notebook' = [notebook EXCEPT ![n].suggestions = "old"]
  /\ UNCHANGED <<source, chat, shelf, studio, request, count, overlap>>

\* briefing_partial without a briefing looks at the lock and finds it too old.
BeginPeek(r, n) ==
  /\ Live(n) /\ notebook[n].briefing # "fresh" /\ n \in stale
  /\ Begin(r, [Rest EXCEPT !.kind = "peek", !.pc = "unlock", !.notebook = n])
  /\ UNCHANGED <<notebook, source, chat, shelf, studio>>

\* The second statement of _briefing_locked: the row goes, whatever its age now.
Unlock(r) ==
  /\ request[r].pc = "unlock"
  /\ LET n == request[r].notebook IN
       /\ lock' = [lock EXCEPT ![n] = 0] /\ stale' = stale \ {n}
       /\ loose' = IF Kept(n) THEN loose \cup {n} ELSE loose
  /\ End(r)
  /\ UNCHANGED <<notebook, source, chat, shelf, count, overlap>>

-----------------------------------------------------------------------------
(* Starter questions and the tools.                                        *)

BeginSuggest(r, n) ==
  /\ Live(n) /\ Indexed(n) # {}
  /\ Begin(r, [Rest EXCEPT !.kind = "suggest", !.pc = "suggest", !.notebook = n])
  /\ UNCHANGED <<notebook, source, chat, shelf, studio>>

SaveSuggestions(r) ==
  /\ request[r].pc = "suggest"
  /\ \/ UNCHANGED notebook
     \/ notebook' = [notebook EXCEPT ![request[r].notebook].suggestions =
                       IF Live(request[r].notebook) THEN "fresh" ELSE @]
  /\ End(r)
  /\ UNCHANGED <<source, chat, shelf, studio, count, overlap>>

\* _fetch_source_summaries: an empty selection is empty.
Selected(n, picked) == picked \cap Indexed(n)

\* The comparison, of any selection that leaves two at least, searches each source
\* for its topic when it has one.
BeginCompare(r, n) ==
  /\ Live(n)
  /\ \E picked \in SUBSET Sources, topic \in BOOLEAN :
       LET scope == Selected(n, picked) IN
       /\ Cardinality(scope) \in 2 .. (IF topic THEN TopicMax ELSE SummaryMax)
       /\ Begin(r, [Rest EXCEPT !.kind = "compare", !.pc = IF topic THEN "evidence" ELSE "model",
                                !.notebook = n, !.picked = picked, !.scope = scope])
  /\ UNCHANGED <<notebook, source, chat, shelf, studio>>

Evidence(r) ==
  /\ request[r].pc = "evidence"
  /\ \E s \in request[r].scope :
       request' = [request EXCEPT ![r].scope = @ \ {s},
                     ![r].pc = IF request[r].scope = {s} THEN "model" ELSE @]
  /\ UNCHANGED <<notebook, source, chat, shelf, studio, count, overlap>>

BeginArtifact(r, n) ==
  /\ Live(n)
  /\ \E picked \in Picks :
       /\ Selected(n, picked) # {}
       /\ Begin(r, [Rest EXCEPT !.kind = "artifact", !.pc = "model", !.notebook = n,
                                !.picked = picked, !.scope = Selected(n, picked)])
  /\ UNCHANGED <<notebook, source, chat, shelf, studio>>

\* One source: its summary to translate, or its whole text to make minutes of.
BeginTranslate(r, n, s) ==
  /\ Live(n) /\ Selected(n, {s}) # {}
  /\ Begin(r, [Rest EXCEPT !.kind = "translate", !.pc = "model", !.notebook = n,
                           !.picked = {s}, !.scope = {s}])
  /\ UNCHANGED <<notebook, source, chat, shelf, studio>>

BeginMinutes(r, n, s) ==
  /\ Live(n) /\ Selected(n, {s}) # {}
  /\ Begin(r, [Rest EXCEPT !.kind = "minutes", !.pc = "model", !.notebook = n,
                           !.picked = {s}, !.scope = {s}])
  /\ UNCHANGED <<notebook, source, chat, shelf, studio>>

\* A tool shows what the model wrote and saves nothing.
Tool(r) ==
  /\ request[r].pc = "model"
  /\ End(r)
  /\ UNCHANGED <<notebook, source, chat, shelf, studio, count, overlap>>
=============================================================================
