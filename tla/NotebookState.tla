--------------------------- MODULE NotebookState ---------------------------
(***************************************************************************)
(* The tables of a notebook's workspace (app/db.py) as one user's requests *)
(* see them, and what a request carries from one transaction to the next.  *)
(*                                                                         *)
(* A request is a coroutine or a thread of some web process: what happens  *)
(* within one connection's transaction is a step, and between two steps    *)
(* any other request may run, or the process may die. Conversations,       *)
(* messages, notes and usage events have the numbers AUTOINCREMENT gives   *)
(* them; 0 is NULL.                                                        *)
(***************************************************************************)
EXTENDS Naturals, FiniteSets

CONSTANTS
  Notebooks, Sources, Requests, None,
  First,       \* the notebook there is at first
  Home,        \* the notebook a source is uploaded to
  Picks,       \* the selections a question or an artifact may be sent with
  MaxRequests, \* bound: requests in a behaviour
  MaxFaults,   \* bound: statements that fail
  TopicMax,    \* TOPIC_COMPARE_MAX_SOURCES
  SummaryMax   \* SUMMARY_COMPARE_MAX_SOURCES

ASSUME TableAssumption == Home \in [Sources -> Notebooks] /\ None \notin Notebooks
                           /\ First \in Notebooks
ASSUME PickAssumption  == Picks \subseteq SUBSET Sources
ASSUME BoundAssumption == {MaxRequests, MaxFaults, TopicMax, SummaryMax} \subseteq Nat /\ MaxRequests > 0
ASSUME PoolAssumption  == IsFiniteSet(Requests)

VARIABLES
  notebook,     \* notebooks, a row per id
  source,       \* the status of each source
  conversation, \* conversations, by number
  messages, notes, feedback,
  events,       \* llm_usage_events of answers
  lock,         \* briefing_locks: the request that inserted the row, or 0
  stale,        \* the notebooks whose row is older than BRIEFING_LOCK_TIMEOUT_S
  request,      \* what each request is doing
  count,        \* numbers given out, and bounded events so far
  overlap,      \* history: requests of which one began before the other ended
  loose         \* history: notebooks whose lock was lost to time

chat    == <<conversation, messages, events>>
shelf   == <<notes, feedback>>
studio  == <<lock, stale, loose>>
vars    == <<notebook, source, chat, shelf, studio, request, count, overlap>>

-----------------------------------------------------------------------------
Number        == 0 .. MaxRequests
Conversations == 1 .. MaxRequests + 1
MessageNo     == Nat
Cache         == {"none", "fresh", "old"}
Notebook      == [st : {"unused", "live", "deleted"}, followups : BOOLEAN,
                  briefing : Cache, suggestions : Cache]
Conversation  == [notebook : Notebooks \cup {None}, title : {"default", "question", "user"}]
Message       == [id : MessageNo, conversation : Conversations,
                  role : {"user", "assistant"}, error : BOOLEAN, followups : BOOLEAN,
                  kind : {"ask", "stream"}, by : Number]
Note          == [id : Nat, notebook : Notebooks, message : MessageNo,
                  text : {"answer", "own"}, by : Number]
Feedback      == [message : MessageNo, rating : {"usable", "unusable"}, reasons : BOOLEAN]
Event         == [id : Nat, notebook : Notebooks \cup {None},
                  conversation : 0 .. MaxRequests + 1, message : MessageNo,
                  kind : {"ask", "stream"}, by : Number]
Request       == [kind : {"none", "ask", "stream", "pin", "followups", "briefing", "peek",
                          "suggest", "compare", "artifact", "translate", "minutes"},
                  pc : {"idle", "mark", "prepare", "again", "context", "generate", "save",
                        "attach", "render", "pin", "followups", "acquire", "summaries",
                        "brief", "keep", "release", "unlock", "suggest", "evidence", "model"},
                  notebook : Notebooks \cup {None},
                  conversation : 0 .. MaxRequests + 1,
                  message : MessageNo,
                  picked : SUBSET Sources, selected : BOOLEAN,
                  scope : SUBSET Sources,  \* the sources to search or to read
                  refused : BOOLEAN,       \* the selection is unusable
                  mark : Nat,              \* the last usage event there was
                  error : BOOLEAN,         \* in the except block of the handler
                  no : Number]             \* which request it is
Rest          == [kind |-> "none", pc |-> "idle", notebook |-> None, conversation |-> 0,
                  message |-> 0, picked |-> {}, selected |-> FALSE, scope |-> {},
                  refused |-> FALSE, mark |-> 0, error |-> FALSE, no |-> 0]
Empty         == [st |-> "unused", followups |-> TRUE, briefing |-> "none",
                  suggestions |-> "none"]
NoConversation == [notebook |-> None, title |-> "default"]

TypeOK ==
  /\ notebook \in [Notebooks -> Notebook]
  /\ source \in [Sources -> {"none", "other", "indexed", "gone"}]
  /\ conversation \in [Conversations -> Conversation]
  /\ messages \subseteq Message /\ notes \subseteq Note
  /\ feedback \subseteq Feedback /\ events \subseteq Event
  /\ \A f, g \in feedback : f.message = g.message => f = g
  /\ lock \in [Notebooks -> Number]
  /\ stale \subseteq {n \in Notebooks : lock[n] # 0} /\ loose \subseteq Notebooks
  /\ request \in [Requests -> Request]
  /\ count \in [requests : Number, faults : 0 .. MaxFaults, conversations : Conversations,
                messages : MessageNo, notes : Nat, events : Nat]
  /\ overlap \subseteq Number \X Number

-----------------------------------------------------------------------------
Live(n)     == notebook[n].st = "live"
Of(n)       == {s \in Sources : Home[s] = n /\ source[s] \in {"other", "indexed"}}
Indexed(n)  == {s \in Of(n) : source[s] = "indexed"}
There(c)    == c # 0 /\ conversation[c].notebook # None
Row(m)      == CHOOSE x \in messages : x.id = m
Exists(m)   == \E x \in messages : x.id = m

\* get_notebook and the reads of a handler, then the first step that may wait.
Begin(r, new) ==
  /\ request[r].pc = "idle"
  /\ count.requests < MaxRequests
  /\ request' = [request EXCEPT ![r] = [new EXCEPT !.no = count.requests + 1]]
  /\ count' = [count EXCEPT !.requests = @ + 1]
  /\ overlap' = overlap \cup {<<request[q].no, count.requests + 1>> :
                              q \in {p \in Requests : request[p].pc # "idle"}}

\* A handler that is one transaction.
Counted ==
  /\ count.requests < MaxRequests
  /\ count' = [count EXCEPT !.requests = @ + 1]

Goto(r, pc) == request' = [request EXCEPT ![r].pc = pc]
End(r)      == request' = [request EXCEPT ![r] = Rest]

\* A statement fails: the database is locked, the disk is full.
Fault == count.faults < MaxFaults /\ count' = [count EXCEPT !.faults = @ + 1]

\* What the foreign keys do when conversations go, alone or with a notebook:
\* messages and their feedback go along, notes and events are kept without them.
Cut(gone, n) ==
  LET lost == {m \in messages : m.conversation \in gone}
      ids  == {m.id : m \in lost}
  IN /\ messages' = messages \ lost
     /\ feedback' = {f \in feedback : f.message \notin ids}
     /\ events' = {[e EXCEPT !.conversation = IF @ \in gone THEN 0 ELSE @,
                             !.message = IF @ \in ids THEN 0 ELSE @,
                             !.notebook = IF @ = n THEN None ELSE @] : e \in events}
     /\ conversation' = [c \in Conversations |->
                           IF c \in gone THEN NoConversation ELSE conversation[c]]

Unlinked(gone) ==
  {[x EXCEPT !.message = IF \E m \in messages : m.id = x.message /\ m.conversation \in gone
                         THEN 0 ELSE @] : x \in notes}
=============================================================================
