----------------------------- MODULE LlmSettings -----------------------------
(***************************************************************************)
(* The one row of llm_settings (app/settings.py) and what app/llm.py makes *)
(* of it: connections, the capabilities a test of them measured, and the   *)
(* requests shaped by those. Several administrators, several web           *)
(* processes; a handler is one thread with a program counter.              *)
(***************************************************************************)
EXTENDS Integers, FiniteSets

CONSTANTS
  None,
  Deployed,           \* the embedder at the start
  Models, Embedders,  \* what is chosen together: provider, address, version, model, timeout
  Endpoint,           \* per model: which parameters its endpoint takes (external)
  Window,             \* per embedder: the tokens it takes (external)
  ProbeText,          \* the tokens of the oversized input a test sends
  Budget,             \* diagnostics.embedding_token_budget
  Keys, TextPrefixes,
  Efforts, Semantic,  \* REASONING_EFFORT_VALUES, and those that an intent asks for
  Admins,             \* threads
  MaxEdits, MaxFaults

ASSUME SettingsAssumption ==
  /\ Deployed \in Embedders /\ Semantic \subseteq Efforts /\ None \notin Efforts
  /\ Budget \in Nat \ {0} /\ ProbeText \in Nat \ {0}
  /\ Endpoint \in [Models -> [temperature : BOOLEAN,
                              fields : SUBSET {"max_tokens", "max_completion_tokens"},
                              efforts : SUBSET Efforts, shapes : SUBSET {"response_format", "guided_json"},
                              window : Nat \ {0}]]
  /\ Window \in [Embedders -> Nat \ {0}]
  /\ MaxEdits \in Nat /\ MaxFaults \in Nat

VARIABLES
  row,      \* llm_settings without its diagnostics
  probes,   \* diagnostics_json
  admin,    \* the handler each administrator has under way
  used      \* edits and faults so far

settings == <<row, probes, admin, used>>

Modes == {"auto", "provider_default", "fixed"}
Row   == [model : Models, key : Keys \cup {None}, mode : Modes, effort : Efforts,
          structured : BOOLEAN, embedder : Embedders, secret : Keys \cup {None}, prefix : TextPrefixes]
Kinds == {"chat", "embedding"}

\* Seeded bugs: a fingerprint that forgets what the connection leads to.
ModelMissing(s)    == [mode |-> s.mode, effort |-> s.effort, key |-> s.key # None]

\* chat_settings_fingerprint and embedding_settings_fingerprint: a key counts as set
\* or not set.
ChatPrint(s)      == [model |-> s.model, key |-> s.key # None, mode |-> s.mode, effort |-> s.effort]
EmbeddingPrint(s) == [embedder |-> s.embedder, key |-> s.secret # None, prefix |-> s.prefix]

ChatResult ==
  [print : [model : Models, key : BOOLEAN, mode : Modes, effort : Efforts],
   temperature : {"succeeded", "failed", "not_tested"}, efforts : SUBSET Efforts,
   field : {"max_tokens", "max_completion_tokens"}, shape : {"", "response_format", "guided_json"},
   window : Nat, bound : {"", "at_least", "exact"}]
EmbeddingResult ==
  [print : [embedder : Embedders, key : BOOLEAN, prefix : TextPrefixes], window : Nat]
Probes == [chat : ChatResult \cup {None}, embedding : EmbeddingResult \cup {None}]

-----------------------------------------------------------------------------
(* Requests.                                                               *)

\* A request is what it carries beside its messages; Plain is what an endpoint is sent
\* that nothing is known of.
Plain == [temperature |-> TRUE, field |-> "max_tokens", effort |-> None, shape |-> ""]

Takes(m, q) ==
  /\ q.temperature => Endpoint[m].temperature
  /\ q.field \in Endpoint[m].fields
  /\ q.effort # None => q.effort \in Endpoint[m].efforts
  /\ q.shape # "" => q.shape \in Endpoint[m].shapes

\* chat_sampling_support: what the last test measured, if it was of this connection.
Support(s, p) ==
  IF p.chat # None /\ p.chat.print = ChatPrint(s)
  THEN [temperature |-> p.chat.temperature # "failed", field |-> p.chat.field, efforts |-> p.chat.efforts]
  ELSE [temperature |-> TRUE, field |-> "max_tokens", efforts |-> {}]

\* structured_output_shape and chat_window_budget.
StructuredShape(s, p) ==
  IF s.structured /\ p.chat # None /\ p.chat.print = ChatPrint(s) THEN p.chat.shape ELSE ""

ChatBudget(s, p) ==
  IF p.chat # None /\ p.chat.print = ChatPrint(s) /\ p.chat.bound = "exact" THEN p.chat.window ELSE 0

\* embedding_window_budget: the tokens a text may have before it is cut.
EmbeddingBudget(s, p) ==
  IF p.embedding # None /\ p.embedding.print = EmbeddingPrint(s) /\ p.embedding.window > 0
  THEN p.embedding.window ELSE Budget

\* build_chat_request, for a call whose intent asks for an effort, or None, and whose
\* reply is parsed as JSON or is not.
ChatRequest(s, p, intent, json) ==
  LET support == Support(s, p)
      wanted  == CASE support.temperature  -> None
                   [] s.mode = "fixed" /\ ~support.temperature -> s.effort
                   [] s.mode = "auto" /\ ~support.temperature  -> intent
                   [] OTHER -> None
  IN [temperature |-> support.temperature, field |-> support.field,
      effort |-> IF wanted \in support.efforts THEN wanted ELSE None,
      shape |-> IF json THEN StructuredShape(s, p) ELSE ""]

-----------------------------------------------------------------------------
(* Tests. "lost" names the requests of a test that fail for a reason that   *)
(* is not the parameter they try.                                          *)

Tries(s, lost, name, q) == name \notin lost /\ Takes(s.model, q)
Bare(field)             == [Plain EXCEPT !.temperature = FALSE, !.field = field]

\* The efforts that were answered: the two of the intents and a fixed one.
Measured(s, lost, field) ==
  LET asked == Semantic \cup (IF s.mode = "fixed" THEN {s.effort} ELSE {})
  IN {e \in asked : Tries(s, lost, e, [Bare(field) EXCEPT !.effort = e])}

\* _probe_sampling_params: temperature and max_tokens together; when a parameter is
\* refused, the newer limit, then the older one, without temperature.
Sampling(s, lost) ==
  LET found(st, field, efforts) == [temperature |-> st, field |-> field, efforts |-> efforts]
      new == "max_completion_tokens"
  IN IF Tries(s, lost, "both", Plain) THEN found("succeeded", "max_tokens", {})
     ELSE IF "both" \in lost THEN found("not_tested", "max_tokens", {})
     ELSE IF Tries(s, lost, "new", Bare(new)) THEN found("failed", new, Measured(s, lost, new))
     ELSE IF Tries(s, lost, "old", Bare("max_tokens"))
       THEN found("failed", "max_tokens", Measured(s, lost, "max_tokens"))
     ELSE found("not_tested", "max_tokens", {})

\* _probe_structured_output: the current spelling, then the older one.
Structured(s, lost, field) ==
  LET works(shape) == Tries(s, lost, shape, [Bare(field) EXCEPT !.shape = shape])
  IN CASE works("response_format") -> "response_format"
       [] ~works("response_format") /\ works("guided_json") -> "guided_json"
       [] OTHER -> ""

\* _probe_chat_window: the limit is read out of the refusal of an oversized prompt.
ChatWindow(s, lost) ==
  CASE "window" \in lost -> [window |-> 0, bound |-> ""]
    [] "window" \notin lost /\ Endpoint[s.model].window < ProbeText
         -> [window |-> Endpoint[s.model].window, bound |-> "exact"]
    [] OTHER -> [window |-> ProbeText, bound |-> "at_least"]

\* compact_diagnostic_capabilities keeps what it lists: neither the shape nor the
\* window of a chat model is among it.
Compact(result) == [result EXCEPT !.shape = "", !.window = 0, !.bound = ""]

\* probe_chat_diagnostics of the settings on the form, and the fingerprint of those.
ChatProbe(s, lost) ==
  LET sampling == Sampling(s, lost)
      window   == ChatWindow(s, lost)
  IN Compact([print |-> ChatPrint(s), temperature |-> sampling.temperature,
              field |-> sampling.field, efforts |-> sampling.efforts,
              shape |-> Structured(s, lost, sampling.field),
              window |-> window.window, bound |-> window.bound])

\* probe_embedding_window: the limit a refusal names, or the size that was taken.
EmbeddingWindow(s) == IF Window[s.embedder] < ProbeText THEN Window[s.embedder] ELSE ProbeText

\* probe_embedding_diagnostics: the connection first, then its window.
EmbeddingProbe(s, lost) ==
  [print |-> EmbeddingPrint(s), window |-> IF lost # {} THEN 0 ELSE EmbeddingWindow(s)]

-----------------------------------------------------------------------------
(* Handlers.                                                               *)

Rest  == [pc |-> "idle", kind |-> "chat", form |-> None, result |-> None, read |-> None,
          typed |-> {}]
Admin == [pc : {"idle", "probing", "merge", "store", "width", "write"}, kind : Kinds,
          form : Row \cup {None}, result : ChatResult \cup EmbeddingResult \cup {None},
          read : Probes \cup {None}, typed : SUBSET {"key", "secret"}]

Budgeted == used.edits < MaxEdits /\ used' = [used EXCEPT !.edits = @ + 1]

\* The forms of a page: it shows the row, and one thing on it is changed. A key field
\* is blank, which keeps the key, or holds a key.
Forms ==
     {[row EXCEPT !.model = m] : m \in Models}
  \cup {[row EXCEPT !.mode = x[1], !.effort = x[2]] : x \in Modes \X Efforts}
  \cup {[row EXCEPT !.structured = b] : b \in BOOLEAN}
  \cup {[row EXCEPT !.embedder = m] : m \in Embedders}
  \cup {[row EXCEPT !.prefix = x] : x \in TextPrefixes}

\* candidate_settings_from_form, over the row as it is read now.
Candidates == {[form |-> f, typed |-> {}] : f \in Forms}
         \cup {[form |-> [row EXCEPT !.key = k], typed |-> {"key"}] : k \in Keys}
         \cup {[form |-> [row EXCEPT !.secret = k], typed |-> {"secret"}] : k \in Keys}

BeginTest(a, kind) ==
  /\ admin[a].pc = "idle" /\ Budgeted
  /\ \E c \in Candidates :
       admin' = [admin EXCEPT ![a] = [Rest EXCEPT !.pc = "probing", !.kind = kind, !.form = c.form]]
  /\ UNCHANGED <<row, probes>>

\* The requests of a test.
Names(kind) == IF kind = "chat"
               THEN {"both", "new", "old", "window", "response_format", "guided_json"} \cup Semantic
               ELSE {"window"}

Probe(a) ==
  /\ admin[a].pc = "probing"
  /\ \E lost \in SUBSET Names(admin[a].kind) :
       /\ used.faults + Cardinality(lost) <= MaxFaults
       /\ used' = [used EXCEPT !.faults = @ + Cardinality(lost)]
       /\ admin' = [admin EXCEPT ![a].pc = "merge", ![a].result =
                      IF admin[a].kind = "chat" THEN ChatProbe(admin[a].form, lost)
                      ELSE EmbeddingProbe(admin[a].form, lost)]
  /\ UNCHANGED <<row, probes>>

\* store_llm_diagnostic reads all diagnostics and writes all of them, not in one
\* transaction: another process's result in between is lost to this one.
Merge(a) ==
  /\ admin[a].pc = "merge"
  /\ admin' = [admin EXCEPT ![a].pc = "store", ![a].read = probes]
  /\ UNCHANGED <<row, probes, used>>

Store(a) ==
  /\ admin[a].pc = "store"
  /\ probes' = [admin[a].read EXCEPT ![admin[a].kind] = admin[a].result]
  /\ admin' = [admin EXCEPT ![a] = Rest]
  /\ UNCHANGED <<row, used>>

\* A schema and a fixed effort are refused unless a test of this very form, as it
\* would be stored, has found that the endpoint takes them.
Verified(c) ==
  /\ c.structured => StructuredShape(c, probes) # ""
  /\ c.mode = "fixed" => c.effort \in Support(c, probes).efforts

\* update_settings up to its first await. The keys to write are settled here.
BeginUpdate(a) ==
  /\ admin[a].pc = "idle" /\ Budgeted
  /\ \E c \in Candidates :
       /\ Verified(c.form)
       /\ admin' = [admin EXCEPT ![a] =
            [Rest EXCEPT !.form = c.form, !.typed = c.typed,
               !.pc = IF c.form.embedder # row.embedder \/ "secret" \in c.typed
                      THEN "width" ELSE "write"]]
  /\ UNCHANGED <<row, probes>>

\* A new embedding connection is tried first; IndexMigration has the width guard.
TryWidth(a) ==
  /\ admin[a].pc = "width"
  /\ admin' = [admin EXCEPT ![a].pc = "write"] \/ admin' = [admin EXCEPT ![a] = Rest]
  /\ UNCHANGED <<row, probes, used>>

\* The UPDATE: every column but the diagnostics.
Write(a) ==
  /\ admin[a].pc = "write"
  /\ row' = admin[a].form
  /\ admin' = [admin EXCEPT ![a] = Rest]
  /\ UNCHANGED <<probes, used>>

SettingsInit ==
  /\ row \in {r \in Row : /\ r.key = None /\ r.secret = None /\ r.mode = "auto" /\ ~r.structured
                          /\ r.effort \in Semantic /\ r.embedder = Deployed /\ r.prefix = ""}
  /\ probes = [chat |-> None, embedding |-> None]
  /\ admin = [a \in Admins |-> Rest]
  /\ used = [edits |-> 0, faults |-> 0]

Settings ==
  \E a \in Admins :
    \/ \E kind \in Kinds : BeginTest(a, kind)
    \/ Probe(a) \/ Merge(a) \/ Store(a) \/ BeginUpdate(a) \/ TryWidth(a) \/ Write(a)

-----------------------------------------------------------------------------
(* Properties.                                                             *)

\* Whatever was tested and saved in whatever order: a request carries nothing the
\* endpoint of the connection in force refuses. The one exception is the default
\* request of a connection that no test has come to a conclusion about.
RequestsFit ==
  \A intent \in Semantic \cup {None}, json \in BOOLEAN :
    LET q         == ChatRequest(row, probes, intent, json)
        concluded == /\ probes.chat # None /\ probes.chat.print = ChatPrint(row)
                     /\ probes.chat.temperature \in {"succeeded", "failed"}
    IN Takes(row.model, q) \/ (q = Plain /\ ~concluded)

\* A test that failed for another reason changes nothing: only an endpoint that
\* refuses the default request is sent another one.
DepartsOnlyIfRefused ==
  \A intent \in Semantic \cup {None} :
    ChatRequest(row, probes, intent, FALSE) # Plain => ~Takes(row.model, Plain)

\* A fixed effort is in force only where the endpoint takes it.
FixedEffortWorks == row.mode = "fixed" => row.effort \in Endpoint[row.model].efforts

\* A text is cut to the configured budget or to a window this very embedder has, so
\* that after a test no text is refused for its length.
WindowOfItsOwn ==
  LET tested == probes.embedding # None /\ probes.embedding.print = EmbeddingPrint(row)
                /\ probes.embedding.window > 0
  IN \/ EmbeddingBudget(row, probes) <= Window[row.embedder]
     \/ EmbeddingBudget(row, probes) = Budget /\ ~tested

\* What a test measured shapes the requests of the very connection it measured, and
\* nothing else does, in any order of tests and saves and whichever requests of a test
\* were lost (app/llm.py chat_sampling_support, embedding_window_budget).
MeasuredIsItsOwn == RequestsFit /\ DepartsOnlyIfRefused /\ FixedEffortWorks /\ WindowOfItsOwn

=============================================================================
