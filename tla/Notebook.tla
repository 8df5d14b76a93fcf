------------------------------ MODULE Notebook ------------------------------
(***************************************************************************)
(* A notebook's workspace: conversations and the studio side by side, over *)
(* the same tables, with requests that die and statements that fail.       *)
(***************************************************************************)
EXTENDS Conversation, Studio

\* A workspace in use: a question that was answered and whose answer is pinned, a
\* conversation renamed to a blank, the usage of a stream whose client left, and the
\* lock of a request (the first one counted) that died with it, too old by now.
Init ==
  /\ notebook = [n \in Notebooks |-> IF n = First THEN [Empty EXCEPT !.st = "live"] ELSE Empty]
  /\ source = [s \in Sources |-> IF Home[s] = First THEN "indexed" ELSE "none"]
  /\ conversation = [c \in Conversations |->
                       IF c = 1 THEN [notebook |-> First, title |-> "default"]
                       ELSE NoConversation]
  /\ messages = {[id |-> 1, conversation |-> 1, role |-> "user", error |-> FALSE,
                  followups |-> FALSE, kind |-> "ask", by |-> 0],
                 [id |-> 2, conversation |-> 1, role |-> "assistant", error |-> FALSE,
                  followups |-> FALSE, kind |-> "ask", by |-> 0]}
  /\ notes = {[id |-> 1, notebook |-> First, message |-> 2, text |-> "answer", by |-> 0]}
  /\ feedback = {}
  /\ events = {[id |-> 1, notebook |-> First, conversation |-> 1, message |-> 0,
                kind |-> "stream", by |-> 0]}
  /\ lock = [n \in Notebooks |-> IF n = First THEN 1 ELSE 0]
  /\ stale = {First} /\ loose = {}
  /\ request = [r \in Requests |-> Rest]
  /\ count = [requests |-> 1, faults |-> 0, conversations |-> 1, messages |-> 2,
              notes |-> 1, events |-> 1]
  /\ overlap = {}

Ask ==
  \E r \in Requests :
    \/ \E n \in Notebooks, c \in 0 .. count.conversations : BeginAsk(r, n, c)
    \/ Mark(r) \/ Prepare(r) \/ Retrieve(r) \/ Generate(r) \/ SaveAnswer(r) \/ Attach(r)
    \/ Render(r) \/ Breaks(r) \/ Leave(r)

Chat ==
  \/ \E n \in Notebooks : NewConversation(n) \/ AddNote(n)
  \/ \E c \in Conversations : RenameConversation(c) \/ DeleteConversation(c)
  \/ \E x \in notes : EditNote(x) \/ DeleteNote(x)
  \/ \E m \in messages : SubmitFeedback(m)
  \/ \E r \in Requests, m \in messages : BeginPin(r, m) \/ BeginFollowups(r, m)
  \/ \E r \in Requests : Pin(r) \/ SaveFollowups(r)

Tables ==
  \/ \E n \in Notebooks : CreateNotebook(n) \/ RenameNotebook(n) \/ DeleteNotebook(n)
  \/ \E n \in Notebooks : LockAges(n) \/ CacheAges(n)
  \/ \E s \in Sources : SourceChanges(s)

Briefing ==
  \E r \in Requests :
    \/ \E n \in Notebooks : BeginBriefing(r, n) \/ BeginPeek(r, n)
    \/ Acquire(r) \/ Summaries(r) \/ Brief(r) \/ KeepBriefing(r) \/ Release(r) \/ Unlock(r)

Tools ==
  \E r \in Requests :
    \/ \E n \in Notebooks : BeginSuggest(r, n) \/ BeginCompare(r, n) \/ BeginArtifact(r, n)
    \/ \E n \in Notebooks, s \in Sources : BeginTranslate(r, n, s) \/ BeginMinutes(r, n, s)
    \/ SaveSuggestions(r) \/ Evidence(r) \/ Tool(r)

Next == Ask \/ Chat \/ Tables \/ Briefing \/ Tools

Spec == Init /\ [][Next]_vars

-----------------------------------------------------------------------------
(* Properties.                                                             *)

Overlapped(j, k) == <<j, k>> \in overlap \/ <<k, j>> \in overlap
By(k, role)      == {m \in messages : m.by = k /\ m.role = role}

\* The page or the done event of a question comes when its answer, or the error
\* in its place, is in the database: only a deletion in between takes it away.
AnswerBeforeDone ==
  \A r \in Requests :
    request[r].pc = "render" /\ There(request[r].conversation) =>
      By(request[r].no, "assistant") # {}

\* An answer follows the question it is for, in one conversation. Only the error
\* of a stream that could not prepare its question, or of a statement that failed
\* in the preparation, is saved without one.
AnswersFollowQuestions ==
  \A m \in messages :
    m.role = "assistant" =>
      \/ \E q \in messages : /\ q.role = "user" /\ q.by = m.by
                             /\ q.conversation = m.conversation /\ q.id < m.id
      \/ m.error /\ (m.kind = "stream" \/ count.faults > 0)

\* A question is stored once, the second preparation of a handler included.
QuestionOnce == \A k \in 1 .. MaxRequests : Cardinality(By(k, "user")) <= 1

\* A question has one answer. Only a stream whose bookkeeping failed after the
\* answer was saved adds an error to it.
OneAnswer ==
  \A k \in 1 .. MaxRequests :
    LET answers == By(k, "assistant") IN
    /\ Cardinality({m \in answers : m.error = TRUE}) <= 1
    /\ Cardinality({m \in answers : m.error = FALSE}) <= 1
    /\ Cardinality(answers) = 2 => count.faults > 0

\* Usage is attributed to an answer only if its own request caused it, or one that
\* was under way meanwhile. (A stream that fails before it has read the last event
\* takes older ones along.)
UsageOfItsOwn ==
  [][\A e \in events, x \in events' :
       e.id = x.id /\ e.message = 0 /\ x.message # 0 =>
         \E r \in Requests :
           /\ request[r].pc = "attach" /\ request'[r].pc = "render"
           /\ \/ e.by = request[r].no \/ Overlapped(e.by, request[r].no)
              \/ request[r].error /\ count.faults > 0]_vars

\* An answer is pinned once, however often and from however many tabs, except by
\* two requests that overlap.
PinnedOnce ==
  \A x, y \in notes :
    x # y /\ x.message # 0 /\ x.message = y.message => Overlapped(x.by, y.by)

\* Notes outlive the conversation they were taken of: they go one by one, with no
\* conversation, or with their notebook.
NotesKept ==
  [][\A x \in notes :
       Live(x.notebook)' =>
         \/ \E y \in notes' : y.id = x.id
         \/ /\ conversation' = conversation
            /\ \A z \in notes : z.id # x.id /\ Live(z.notebook)' => \E y \in notes' : y.id = z.id]_vars

\* No message is without its conversation, no note, feedback or event refers to a
\* message that is gone, whatever was deleted while the answer was being written.
References ==
  /\ \A m \in messages : There(m.conversation)
  /\ \A x \in notes : Live(x.notebook) /\ (x.message # 0 => Exists(x.message))
  /\ \A f \in feedback : Exists(f.message)
  /\ \A e \in events : e.message # 0 => Exists(e.message)

\* What is searched or read is never wider than what was picked, and never of
\* another notebook; a form whose selection is empty searches nothing.
ScopeNeverWidens ==
  \A r \in Requests :
    LET q == request[r] IN
    /\ \A s \in q.scope : Home[s] = q.notebook
    /\ q.picked # {} => q.scope \subseteq q.picked
    /\ q.picked = {} /\ q.scope # {} => q.kind \in {"ask", "stream"} /\ ~q.selected

\* While no request outlived its lock, or lost it to a reader that had seen an older
\* one, one at a time generates the briefing of a notebook: regenerating twice does
\* not pay twice.
BriefingSerial ==
  \A q, r \in Requests, n \in Notebooks :
    Holds(q, n) /\ Holds(r, n) /\ q # r => n \in loose

\* What a conversation shows is what was told: every question at most once, its answer
\* after it and stored before the reader is told it is done, and no second answer but
\* the error of a stream whose bookkeeping failed (app/main.py ask, ask_stream).
TranscriptHolds == AnswerBeforeDone /\ AnswersFollowQuestions /\ QuestionOnce /\ OneAnswer

\* Whatever is written, pinned and deleted at the same time, nothing refers to a row that
\* is gone, and what a user keeps is kept, once (app/db.py init_db, app/main.py pin_note).
KeptOnceForGood == [](References /\ PinnedOnce) /\ NotesKept
=============================================================================
