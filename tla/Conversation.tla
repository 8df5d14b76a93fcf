---------------------------- MODULE Conversation ----------------------------
(***************************************************************************)
(* Questions and answers, the notes taken of them and the feedback on them *)
(* (app/main.py, app/feedback.py).                                         *)
(***************************************************************************)
EXTENDS NotebookState

\* Seeded bug: a selection of which nothing is left is no selection.
ResolveAnyway(n, picked) ==
  IF picked \cap Of(n) = {} THEN Indexed(n) ELSE picked \cap Of(n)

\* _resolve_question_scope: the picked sources of this notebook, or all that are
\* indexed when the form has no selection of its own. Nothing left is a refusal.
Resolve(n, picked) == IF picked = {} THEN Indexed(n) ELSE picked \cap Of(n)

Refused(n, picked, selected) ==
  IF picked = {} THEN selected ELSE Resolve(n, picked) = {}

BeginAsk(r, n, c) ==
  /\ Live(n) /\ (c # 0 => There(c))
  /\ \E kind \in {"ask", "stream"}, picked \in Picks :
     \E selected \in IF picked = {} THEN BOOLEAN ELSE {TRUE} :
       Begin(r, [Rest EXCEPT !.kind = kind, !.pc = IF kind = "ask" THEN "mark" ELSE "prepare",
                             !.notebook = n, !.conversation = c, !.picked = picked,
                             !.selected = selected])
  /\ UNCHANGED <<notebook, source, chat, shelf, studio>>

\* Seeded bug: the question is prepared again whatever failed.
FailedAgain(r, http) ==
  LET q == request[r] IN
  IF q.error \/ (q.kind = "ask" /\ (http \/ q.pc \in {"mark", "save", "attach"})) THEN End(r)
  ELSE request' = [request EXCEPT ![r].error = TRUE, ![r].pc = "again"]

\* Where an exception of a handler leads. ask raises an HTTPException again and
\* fails with what its own handling raises; ask_stream catches both, once, and
\* what its handling raises ends the stream without a word.
Failed(r, http) ==
  LET q == request[r] IN
  IF q.error \/ (q.kind = "ask" /\ (http \/ q.pc \in {"mark", "save", "attach"})) THEN End(r)
  ELSE request' = [request EXCEPT ![r].error = TRUE,
                     ![r].pc = IF q.conversation = 0 THEN "again" ELSE "save"]

Breaks(r) ==
  /\ request[r].pc \in {"mark", "prepare", "again", "save", "attach"}
  /\ Fault
  /\ Failed(r, FALSE)
  /\ UNCHANGED <<notebook, source, chat, shelf, studio, overlap>>

\* Seeded bug: every event of the conversation counts as later.
MarkNothing(r) ==
  /\ request[r].pc = "mark"
  /\ Goto(r, IF request[r].kind = "ask" THEN "prepare" ELSE "context")
  /\ UNCHANGED <<notebook, source, chat, shelf, studio, count, overlap>>

\* _llm_usage_event_watermark. A refused question has its answer already.
Mark(r) ==
  /\ request[r].pc = "mark"
  /\ request' = [request EXCEPT ![r].mark = count.events,
                   ![r].pc = IF request[r].kind = "ask" THEN "prepare"
                             ELSE IF request[r].refused THEN "save" ELSE "context"]
  /\ UNCHANGED <<notebook, source, chat, shelf, studio, count, overlap>>

\* _prepare_question, and once more without a conversation after a failure.
Prepare(r) ==
  /\ request[r].pc \in {"prepare", "again"}
  /\ LET q == request[r]
         c == IF q.conversation = 0 THEN count.conversations + 1 ELSE q.conversation
         refused == Refused(q.notebook, q.picked, q.selected)
         known == Live(q.notebook) /\ (q.conversation # 0 =>
                                         conversation[c].notebook = q.notebook)
     IN \/ /\ ~known /\ Failed(r, TRUE)
           /\ UNCHANGED <<chat, count>>
        \/ /\ known
           /\ conversation' = IF q.conversation # 0 THEN conversation
                ELSE [conversation EXCEPT ![c] = [notebook |-> q.notebook, title |-> "question"]]
           /\ messages' = messages \cup
                {[id |-> count.messages + 1, conversation |-> c, role |-> "user", error |-> FALSE,
                  followups |-> FALSE, kind |-> q.kind, by |-> q.no]}
           /\ count' = [count EXCEPT !.messages = @ + 1,
                          !.conversations = IF q.conversation = 0 THEN c ELSE @]
           /\ request' = [request EXCEPT ![r].conversation = c, ![r].refused = refused,
                            ![r].scope = IF refused THEN {} ELSE Resolve(q.notebook, q.picked),
                            ![r].pc = IF q.pc = "again" THEN "save"
                                      ELSE IF q.kind = "stream" THEN "mark"
                                      ELSE IF refused THEN "save" ELSE "context"]
           /\ UNCHANGED events
  /\ UNCHANGED <<notebook, source, shelf, studio, overlap>>

Searched(r, pc) ==
  request' = [request EXCEPT ![r].pc = pc, ![r].scope = {}, ![r].picked = {},
                             ![r].selected = FALSE]

\* _effective_domain_context finds the notebook gone, or retrieval begins: nothing
\* to search or nothing found is an abstention, and it may fail.
Retrieve(r) ==
  /\ request[r].pc = "context"
  /\ \/ ~Live(request[r].notebook) /\ Failed(r, TRUE)
     \/ Live(request[r].notebook) /\ Searched(r, "save")
     \/ Live(request[r].notebook) /\ request[r].scope # {} /\ Searched(r, "generate")
     \/ Live(request[r].notebook) /\ request[r].scope # {} /\ Failed(r, FALSE)
  /\ UNCHANGED <<notebook, source, chat, shelf, studio, count, overlap>>

\* The model answers, abstains or fails, and the call is recorded; a row that
\* would refer to a deleted conversation is dropped with a warning.
Generate(r) ==
  /\ request[r].pc = "generate"
  /\ LET q == request[r] IN
       IF Live(q.notebook) /\ There(q.conversation)
       THEN /\ count' = [count EXCEPT !.events = @ + 1]
            /\ events' = events \cup
                 {[id |-> count.events + 1, notebook |-> q.notebook, message |-> 0,
                   conversation |-> q.conversation, kind |-> q.kind, by |-> q.no]}
       ELSE UNCHANGED <<count, events>>
  /\ \/ Goto(r, "save")
     \/ Failed(r, FALSE)
  /\ UNCHANGED <<notebook, source, conversation, messages, shelf, studio, overlap>>

\* A conversation that still has a default title takes the question's.
Title(c) == IF conversation[c].title = "default" THEN "question" ELSE conversation[c].title

\* Seeded bug: the row is inserted without its conversation.
SaveAnyway(r) ==
  /\ request[r].pc = "save"
  /\ LET q == request[r] IN
       /\ messages' = messages \cup
            {[id |-> count.messages + 1, conversation |-> q.conversation, role |-> "assistant",
              error |-> q.error, followups |-> FALSE, kind |-> q.kind, by |-> q.no]}
       /\ count' = [count EXCEPT !.messages = @ + 1]
       /\ request' = [request EXCEPT ![r].pc = "attach", ![r].message = count.messages + 1]
  /\ UNCHANGED <<notebook, source, conversation, events, shelf, studio, overlap>>

\* _save_assistant_message: the conversation may have been deleted meanwhile.
SaveAnswer(r) ==
  /\ request[r].pc = "save"
  /\ LET q == request[r] IN
       IF There(q.conversation)
       THEN /\ messages' = messages \cup
                 {[id |-> count.messages + 1, conversation |-> q.conversation,
                   role |-> "assistant", error |-> q.error, followups |-> FALSE,
                   kind |-> q.kind, by |-> q.no]}
            /\ conversation' = [conversation EXCEPT ![q.conversation].title =
                                  Title(q.conversation)]
            /\ count' = [count EXCEPT !.messages = @ + 1]
            /\ request' = [request EXCEPT ![r].pc = "attach", ![r].message = count.messages + 1]
       ELSE Failed(r, FALSE) /\ UNCHANGED <<messages, conversation, count>>
  /\ UNCHANGED <<notebook, source, events, shelf, studio, overlap>>

\* _attach_usage_events_to_message; the message may have been deleted meanwhile,
\* and then there are no events of its conversation either.
Attached(r, e) ==
  LET q == request[r] IN
  /\ e.id > q.mark /\ e.message = 0 /\ e.kind = q.kind
  /\ e.notebook = q.notebook /\ e.conversation = q.conversation

Attach(r) ==
  /\ request[r].pc = "attach"
  /\ events' = {IF Attached(r, e) THEN [e EXCEPT !.message = request[r].message] ELSE e :
                e \in events}
  /\ Goto(r, "render")
  /\ UNCHANGED <<notebook, source, conversation, messages, shelf, studio, count, overlap>>

\* The page, or the done event; neither is there for a deleted notebook.
Render(r) ==
  /\ request[r].pc = "render"
  /\ End(r)
  /\ UNCHANGED <<notebook, source, chat, shelf, studio, count, overlap>>

\* The client of a stream leaves, or the request's process dies.
Leave(r) ==
  /\ request[r].pc # "idle"
  /\ End(r)
  /\ UNCHANGED <<notebook, source, chat, shelf, studio, count, overlap>>

-----------------------------------------------------------------------------
(* Conversations.                                                          *)

NewConversation(n) ==
  /\ Live(n)
  /\ count.requests < MaxRequests
  /\ LET c == count.conversations + 1 IN
       /\ conversation' = [conversation EXCEPT ![c].notebook = n]
       /\ count' = [count EXCEPT !.requests = @ + 1, !.conversations = c]
  /\ UNCHANGED <<notebook, source, messages, events, shelf, studio, request, overlap>>

\* A blank title is the default one.
RenameConversation(c) ==
  /\ There(c)
  /\ Counted
  /\ \E title \in {"default", "user"} :
       conversation' = [conversation EXCEPT ![c].title = title]
  /\ UNCHANGED <<notebook, source, messages, events, shelf, studio, request, overlap>>

DeleteConversation(c) ==
  /\ There(c)
  /\ Counted
  /\ Cut({c}, None)
  /\ notes' = Unlinked({c})
  /\ UNCHANGED <<notebook, source, studio, request, overlap>>

-----------------------------------------------------------------------------
(* Notes, feedback and follow-up questions.                                *)

Answers(n) == {m \in messages : m.role = "assistant" /\ conversation[m.conversation].notebook = n}

\* pin_note reads the message and looks for a note of it before it writes one.
BeginPin(r, m) ==
  /\ \E n \in Notebooks :
       /\ m \in Answers(n)
       /\ \A x \in notes : x.notebook # n \/ x.message # m.id
       /\ Begin(r, [Rest EXCEPT !.kind = "pin", !.pc = "pin", !.notebook = n, !.message = m.id])
  /\ UNCHANGED <<notebook, source, chat, shelf, studio>>

\* The insert, which refers to a notebook and a message that may be gone.
Pin(r) ==
  /\ request[r].pc = "pin"
  /\ LET q == request[r] IN
       IF Live(q.notebook) /\ Exists(q.message)
       THEN /\ notes' = notes \cup {[id |-> count.notes + 1, notebook |-> q.notebook,
                                     message |-> q.message, text |-> "answer", by |-> q.no]}
            /\ count' = [count EXCEPT !.notes = @ + 1]
       ELSE UNCHANGED <<notes, count>>
  /\ End(r)
  /\ UNCHANGED <<notebook, source, chat, feedback, studio, overlap>>

AddNote(n) ==
  /\ Live(n)
  /\ count.requests < MaxRequests
  /\ notes' = notes \cup {[id |-> count.notes + 1, notebook |-> n, message |-> 0,
                           text |-> "own", by |-> count.requests + 1]}
  /\ count' = [count EXCEPT !.requests = @ + 1, !.notes = @ + 1]
  /\ UNCHANGED <<notebook, source, chat, feedback, studio, request, overlap>>

EditNote(x) ==
  /\ Counted
  /\ notes' = (notes \ {x}) \cup {[x EXCEPT !.text = "own"]}
  /\ UNCHANGED <<notebook, source, chat, feedback, studio, request, overlap>>

DeleteNote(x) ==
  /\ Counted
  /\ notes' = notes \ {x}
  /\ UNCHANGED <<notebook, source, chat, feedback, studio, request, overlap>>

\* save_feedback: reasons that go with a usable answer are dropped; one row per message.
Upsert(m, rating, reasons) ==
  {f \in feedback : f.message # m} \cup
  {[message |-> m, rating |-> rating, reasons |-> reasons /\ rating # "usable"]}

SubmitFeedback(m) ==
  /\ m.role = "assistant"
  /\ Counted
  /\ \E rating \in {"usable", "unusable"}, reasons \in BOOLEAN :
       feedback' = Upsert(m.id, rating, reasons)
  /\ UNCHANGED <<notebook, source, chat, notes, studio, request, overlap>>

\* _followups_context: nothing when the notebook has them off, a cached set as it
\* is, and nothing without a question before the answer.
BeginFollowups(r, m) ==
  /\ \E n \in Notebooks :
       /\ m \in Answers(n) /\ notebook[n].followups /\ ~m.followups
       /\ \E x \in messages : x.conversation = m.conversation /\ x.role = "user" /\ x.id < m.id
       /\ Begin(r, [Rest EXCEPT !.kind = "followups", !.pc = "followups", !.notebook = n,
                                !.message = m.id])
  /\ UNCHANGED <<notebook, source, chat, shelf, studio>>

\* The model may have none; the cache is one key of the row, if it is still there.
SaveFollowups(r) ==
  /\ request[r].pc = "followups"
  /\ End(r)
  /\ \/ UNCHANGED messages
     \/ messages' = {[x EXCEPT !.followups = @ \/ x.id = request[r].message] : x \in messages}
  /\ UNCHANGED <<notebook, source, conversation, events, shelf, studio, count, overlap>>
=============================================================================
