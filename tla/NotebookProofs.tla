---------------------------- MODULE NotebookProofs ----------------------------
(***************************************************************************)
(* What is proved of Notebook for every number of notebooks, sources and   *)
(* requests and every bound. Three invariants carry it: what the tables    *)
(* say of one another (Linked), what the messages of one request are to    *)
(* one another (Told), and, for each request, what it carries between its  *)
(* transactions (Faithful). A step of one request disturbs another only as *)
(* far as Quiet says, and Faithful survives that.                          *)
(***************************************************************************)
EXTENDS Notebook, FiniteSetTheorems, TLAPS

\* What the tables say of one another.
Linked ==
  /\ \A c \in Conversations : There(c) => c <= count.conversations /\ Live(conversation[c].notebook)
  /\ \A m \in messages : m.id \in 1 .. count.messages /\ There(m.conversation) /\ m.by <= count.requests
  /\ \A x \in notes :
       /\ x.id \in 1 .. count.notes /\ Live(x.notebook)
       /\ x.message # 0 => \E m \in messages : m.id = x.message /\ conversation[m.conversation].notebook = x.notebook
  /\ \A f \in feedback : Exists(f.message)
  /\ \A e \in events :
       /\ e.id \in 1 .. count.events
       /\ e.message # 0 => Exists(e.message)
       /\ e.conversation # 0 => There(e.conversation) /\ conversation[e.conversation].notebook = e.notebook
  /\ \A m, k \in messages : m.id = k.id => m = k
  /\ \A x, y \in notes : x.id = y.id => x = y
  /\ \A d, e \in events : d.id = e.id => d = e

Broken == count.faults > 0

\* What the messages of one request are to one another.
Told ==
  /\ \A m, k \in messages : m.role = "user" /\ k.role = "user" /\ m.by = k.by /\ m.by # 0 => m = k
  /\ \A m, k \in messages :
       m.role = "assistant" /\ k.role = "assistant" /\ m.by = k.by /\ m.by # 0 /\ m # k => m.error # k.error /\ Broken
  /\ AnswersFollowQuestions
  /\ PinnedOnce

Asking == {"mark", "prepare", "again", "context", "generate", "save", "attach", "render"}
Before(q) == q.pc \in {"prepare", "again"} \/ (q.pc = "mark" /\ q.kind = "ask")
After(q)  == q.pc \in {"context", "generate", "save", "attach", "render"} \/ (q.pc = "mark" /\ q.kind = "stream")

Asked(q)  == There(q.conversation) =>
               \E m \in messages : m.by = q.no /\ m.role = "user" /\ m.conversation = q.conversation
Inside(q) == There(q.conversation) => conversation[q.conversation].notebook = q.notebook
Marked(q) == \A e \in events : e.id > q.mark => e.by = q.no \/ Overlapped(e.by, q.no)
Gone(q)   == notebook[q.notebook].st = "deleted"

\* A question on its way.
Question(q) ==
  /\ q.kind \in {"ask", "stream"} /\ q.conversation <= count.conversations
  /\ q.pc \in {"mark", "prepare", "context", "generate"} => ~q.error
  /\ q.pc = "again" => q.error /\ q.conversation = 0
  /\ Before(q) => \A m \in messages : m.by # q.no
  /\ After(q) =>
       /\ q.conversation # 0
       /\ ~q.error => Asked(q) /\ Inside(q)
       /\ q.error => Asked(q) \/ q.kind = "stream" \/ Broken
  /\ q.pc \in {"mark", "context", "generate", "save"} =>
       \A m \in messages : m.by = q.no /\ m.role = "assistant" => q.error /\ ~m.error /\ Broken
  /\ q.pc \in {"attach", "render"} =>
       /\ There(q.conversation) =>
            \E m \in messages : /\ m.by = q.no /\ m.role = "assistant" /\ m.id = q.message
                                /\ m.conversation = q.conversation
       /\ ~q.error => \A m \in messages : m.by = q.no /\ m.role = "assistant" => ~m.error

\* The usage rows it will take for its own.
Watermark(q) ==
  /\ q.pc \in {"context", "generate"} \/ (q.kind = "ask" /\ q.pc # "mark") => Marked(q)
  /\ q.pc = "again" => Marked(q) \/ Broken \/ Gone(q)
  /\ q.pc \in {"save", "attach"} =>
       Marked(q) \/ (q.error /\ (Broken \/ conversation[q.conversation].notebook # q.notebook))

\* A note that is about to be taken.
Pinning(q) ==
  q.pc = "pin" =>
    /\ q.message \in 1 .. count.messages
    /\ \A m \in messages : m.id = q.message => conversation[m.conversation].notebook = q.notebook
    /\ \A x \in notes : x.message = q.message => Overlapped(x.by, q.no)

\* What is searched or read.
Scoped(q) ==
  /\ \A s \in q.scope : Home[s] = q.notebook
  /\ q.picked # {} => q.scope \subseteq q.picked
  /\ q.picked = {} /\ q.scope # {} => q.kind \in {"ask", "stream"} /\ ~q.selected

Faithful(q) ==
  /\ q.no <= count.requests
  /\ q.pc = "idle" => q = Rest
  /\ q.pc # "idle" => q.no # 0 /\ q.notebook \in Notebooks /\ notebook[q.notebook].st # "unused"
  /\ q.pc \in Asking => Question(q) /\ Watermark(q)
  /\ Pinning(q) /\ Scoped(q)

\* Requests have numbers of their own, and those that are open at a time overlap.
Apart ==
  \A q, r \in Requests :
    q # r /\ request[q].pc # "idle" /\ request[r].pc # "idle" =>
      request[q].no # request[r].no /\ Overlapped(request[q].no, request[r].no)

\* The row of the lock is of the request that keeps it.
LockInv ==
  /\ \A r \in Requests, n \in Notebooks :
       Keeps(r, n) /\ n \notin loose /\ Live(n) => lock[n] = request[r].no /\ n \notin stale
  /\ \A q, r \in Requests, n \in Notebooks : Keeps(q, n) /\ Keeps(r, n) /\ q # r => n \in loose

\* Conversations are numbered by the requests that may open one.
Owing == {r \in Requests : request[r].kind \in {"ask", "stream"} /\ request[r].conversation = 0}
Owed  == count.conversations + Cardinality(Owing) <= count.requests

Inv ==
  /\ TypeOK /\ Linked /\ Told /\ Apart /\ LockInv /\ Owed
  /\ \A r \in Requests : Faithful(request[r])

-----------------------------------------------------------------------------
(* Types.                                                                  *)

LEMMA Numbers ==
  ASSUME TypeOK
  PROVE  /\ count.requests \in Nat /\ count.faults \in Nat /\ count.conversations \in Nat
         /\ count.messages \in Nat /\ count.notes \in Nat /\ count.events \in Nat
         /\ count.conversations \in Conversations /\ count.requests \in Number
<1>1. /\ count.requests \in Number /\ count.faults \in 0 .. MaxFaults /\ count.conversations \in Conversations
      /\ count.messages \in MessageNo /\ count.notes \in Nat /\ count.events \in Nat
  BY DEF TypeOK
<1> QED
  BY <1>1, BoundAssumption DEF Number, Conversations, MessageNo

LEMMA NumbersNext ==
  ASSUME TypeOK'
  PROVE  /\ count'.requests \in Nat /\ count'.faults \in Nat /\ count'.conversations \in Nat
         /\ count'.messages \in Nat /\ count'.notes \in Nat /\ count'.events \in Nat
<1>1. /\ count'.requests \in Number /\ count'.faults \in 0 .. MaxFaults /\ count'.conversations \in Conversations
      /\ count'.messages \in MessageNo /\ count'.notes \in Nat /\ count'.events \in Nat
  BY DEF TypeOK
<1> QED
  BY <1>1, BoundAssumption DEF Number, Conversations, MessageNo

LEMMA RestIs ==
  /\ Rest \in Request /\ Rest.pc = "idle" /\ Rest.kind = "none" /\ Rest.scope = {} /\ Rest.no = 0
  /\ Rest.conversation = 0 /\ Rest.message = 0 /\ Rest.picked = {} /\ ~Rest.selected /\ ~Rest.error
  /\ Rest.mark = 0 /\ ~Rest.refused
<1>1. 0 \in Number /\ 0 \in 0 .. MaxRequests + 1 /\ 0 \in MessageNo /\ 0 \in Nat
  BY BoundAssumption DEF Number, MessageNo
<1> QED
  BY <1>1 DEF Rest, Request

\* The request of a step, and the others.
LEMMA OneRequest ==
  ASSUME TypeOK, NEW r \in Requests, NEW q \in Request, request' = [request EXCEPT ![r] = q]
  PROVE  /\ request' \in [Requests -> Request] /\ request'[r] = q
         /\ \A o \in Requests : o # r => request'[o] = request[o]
BY DEF TypeOK

LEMMA EndIs ==
  ASSUME TypeOK, NEW r \in Requests, End(r)
  PROVE  request' = [request EXCEPT ![r] = Rest]
BY DEF End

-----------------------------------------------------------------------------
(* What a step of another request, or of none, may do.                     *)

Same(m, k) ==
  m.id = k.id /\ m.conversation = k.conversation /\ m.role = k.role /\ m.error = k.error /\ m.kind = k.kind /\ m.by = k.by

Grown ==
  /\ overlap \subseteq overlap'
  /\ count.requests <= count'.requests /\ count.faults <= count'.faults
  /\ count.conversations <= count'.conversations /\ count.messages <= count'.messages

Quiet(k) ==
  /\ \A c \in Conversations :
       c <= count.conversations => conversation'[c].notebook \in {conversation[c].notebook, None}
  /\ \A m \in messages' : m.by = k \/ m.id <= count.messages => \E o \in messages : Same(o, m)
  /\ \A m \in messages : There(m.conversation)' => \E o \in messages' : Same(o, m)
  /\ \A e \in events' : \/ e.by = k \/ Overlapped(e.by, k)'
                        \/ \E o \in events : o.id = e.id /\ o.by = e.by
  /\ \A x \in notes' : \/ x.message = 0 \/ Overlapped(x.by, k)'
                       \/ \E o \in notes : o.message = x.message /\ o.by = x.by
  /\ \A n \in Notebooks : /\ notebook[n].st = "deleted" => notebook'[n].st = "deleted"
                          /\ notebook[n].st # "unused" => notebook'[n].st # "unused"

\* What a request that is open sees of the step.
Untouched(o) == request[o].pc # "idle" => \A k \in Number : k = request[o].no => Quiet(k)

LEMMA Sees ==
  ASSUME NEW o \in Requests, Untouched(o), NEW q \in Request, q = request[o]
  PROVE  q.pc # "idle" => Quiet(q.no)
<1>1. q.no \in Number
  BY DEF Request
<1> QED
  BY <1>1 DEF Untouched

LEMMA RestFaithful == ASSUME TypeOK PROVE Faithful(Rest)
<1>1. 0 <= count.requests
  BY Numbers
<1> QED
  BY <1>1, RestIs DEF Faithful, Pinning, Scoped, Asking

LEMMA RestAfter == ASSUME TypeOK' PROVE Faithful(Rest)'
<1>1. 0 <= count'.requests
  BY NumbersNext
<1> QED
  BY <1>1, RestIs DEF Faithful, Pinning, Scoped, Asking

\* A conversation that is there now was there, in the same notebook.
LEMMA ThereStill ==
  ASSUME TypeOK, NEW k, Quiet(k), NEW c \in 0 .. MaxRequests + 1, c <= count.conversations, There(c)'
  PROVE  There(c) /\ conversation'[c].notebook = conversation[c].notebook
<1>1. c \in Conversations
  BY BoundAssumption DEF There, Conversations
<1> QED
  BY <1>1 DEF Quiet, There

LEMMA QuestionStays ==
  ASSUME TypeOK, TypeOK', Grown, NEW q \in Request, Quiet(q.no), Question(q)
  PROVE  Question(q)'
<1>1. q.conversation \in 0 .. MaxRequests + 1 /\ q.conversation <= count.conversations
  BY DEF Question, Request
<1>2. There(q.conversation)' => There(q.conversation) /\ conversation'[q.conversation].notebook = conversation[q.conversation].notebook
  BY <1>1, ThereStill
<1>3. Asked(q) => Asked(q)'
  <2> SUFFICES ASSUME Asked(q), There(q.conversation)'
               PROVE  \E m \in messages' : m.by = q.no /\ m.role = "user" /\ m.conversation = q.conversation
    BY DEF Asked
  <2>1. PICK m \in messages : m.by = q.no /\ m.role = "user" /\ m.conversation = q.conversation
    BY <1>2 DEF Asked
  <2>2. PICK o \in messages' : Same(o, m)
    BY <2>1 DEF Quiet
  <2> QED
    BY <2>1, <2>2 DEF Same
<1>4. Inside(q) => Inside(q)'
  BY <1>2 DEF Inside
<1>5. Broken => Broken'
  BY Numbers, NumbersNext DEF Broken, Grown
<1>6. \A m \in messages' : m.by = q.no => \E o \in messages : Same(o, m)
  BY DEF Quiet
<1>7. q.conversation <= count'.conversations
  <2>1. count'.conversations \in Nat /\ count.conversations \in Nat /\ q.conversation \in Nat
    BY <1>1, Numbers, NumbersNext, BoundAssumption
  <2> QED
    BY <1>1, <2>1 DEF Grown
<1>8. Before(q) => \A m \in messages' : m.by # q.no
  BY <1>6 DEF Question, Same
<1>9. After(q) =>
       /\ q.conversation # 0
       /\ ~q.error => Asked(q)' /\ Inside(q)'
       /\ q.error => Asked(q)' \/ q.kind = "stream" \/ Broken'
  BY <1>3, <1>4, <1>5 DEF Question
<1>10. q.pc \in {"mark", "context", "generate", "save"} =>
        \A m \in messages' : m.by = q.no /\ m.role = "assistant" => q.error /\ ~m.error /\ Broken'
  BY <1>5, <1>6 DEF Question, Same
<1>11. q.pc \in {"attach", "render"} /\ There(q.conversation)' =>
         \E m \in messages' : /\ m.by = q.no /\ m.role = "assistant" /\ m.id = q.message
                              /\ m.conversation = q.conversation
  <2> SUFFICES ASSUME q.pc \in {"attach", "render"}, There(q.conversation)'
               PROVE  \E m \in messages' : /\ m.by = q.no /\ m.role = "assistant" /\ m.id = q.message
                                           /\ m.conversation = q.conversation
    OBVIOUS
  <2>1. PICK m \in messages : /\ m.by = q.no /\ m.role = "assistant" /\ m.id = q.message
                              /\ m.conversation = q.conversation
    BY <1>2 DEF Question
  <2>2. PICK o \in messages' : Same(o, m)
    BY <2>1 DEF Quiet
  <2> QED
    BY <2>1, <2>2 DEF Same
<1>12. q.pc \in {"attach", "render"} /\ ~q.error => \A m \in messages' : m.by = q.no /\ m.role = "assistant" => ~m.error
  BY <1>6 DEF Question, Same
<1> QED
  BY <1>7, <1>8, <1>9, <1>10, <1>11, <1>12 DEF Question, Before, After

LEMMA WatermarkStays ==
  ASSUME TypeOK, TypeOK', Grown, NEW q \in Request, Quiet(q.no), Question(q), Watermark(q),
         q.notebook \in Notebooks
  PROVE  Watermark(q)'
<1>1. Marked(q) => Marked(q)'
  <2> SUFFICES ASSUME Marked(q), NEW e \in events', e.id > q.mark
               PROVE  e.by = q.no \/ Overlapped(e.by, q.no)'
    BY DEF Marked
  <2>1. CASE e.by = q.no \/ Overlapped(e.by, q.no)'
    BY <2>1
  <2>2. CASE \E o \in events : o.id = e.id /\ o.by = e.by
    <3>1. e.by = q.no \/ Overlapped(e.by, q.no)
      BY <2>2 DEF Marked
    <3> QED
      BY <3>1 DEF Overlapped, Grown
  <2> QED
    BY <2>1, <2>2 DEF Quiet
<1>2. Broken => Broken'
  BY Numbers, NumbersNext DEF Broken, Grown
<1>3. Gone(q) => Gone(q)'
  BY DEF Gone, Quiet
<1>4. q.conversation # 0 /\ conversation[q.conversation].notebook # q.notebook => conversation'[q.conversation].notebook # q.notebook
  <2>1. q.conversation \in 0 .. MaxRequests + 1 /\ q.conversation <= count.conversations
    BY DEF Question, Request
  <2>2. q.conversation # 0 => conversation'[q.conversation].notebook \in {conversation[q.conversation].notebook, None}
    BY <2>1, BoundAssumption DEF Quiet, Conversations
  <2> QED
    BY <2>2, TableAssumption
<1>5. q.pc \in {"save", "attach"} => q.conversation # 0
  BY DEF Question, After
<1> QED
  BY <1>1, <1>2, <1>3, <1>4, <1>5 DEF Watermark

LEMMA PinningStays ==
  ASSUME TypeOK, TypeOK', Linked, Linked', Grown, NEW q \in Request, Quiet(q.no), Pinning(q)
  PROVE  Pinning(q)'
<1> SUFFICES ASSUME q.pc = "pin"
             PROVE  /\ q.message \in 1 .. count'.messages
                    /\ \A m \in messages' : m.id = q.message => conversation'[m.conversation].notebook = q.notebook
                    /\ \A x \in notes' : x.message = q.message => Overlapped(x.by, q.no)'
  BY DEF Pinning
<1>1. /\ q.message \in 1 .. count.messages
      /\ \A m \in messages : m.id = q.message => conversation[m.conversation].notebook = q.notebook
      /\ \A x \in notes : x.message = q.message => Overlapped(x.by, q.no)
  BY DEF Pinning
<1>2. q.message \in 1 .. count'.messages
  BY <1>1, Numbers, NumbersNext DEF Grown
<1>3. ASSUME NEW m \in messages', m.id = q.message PROVE conversation'[m.conversation].notebook = q.notebook
  <2>1. PICK o \in messages : Same(o, m)
    BY <1>1, <1>3 DEF Quiet
  <2>2. o.conversation \in Conversations /\ There(o.conversation) /\ There(m.conversation)'
    BY DEF TypeOK, Message, Linked
  <2>3. o.conversation <= count.conversations /\ m.conversation = o.conversation
    BY <2>1, <2>2 DEF Linked, Same
  <2>4. conversation'[m.conversation].notebook = conversation[o.conversation].notebook
    BY <2>2, <2>3 DEF Quiet, There
  <2> QED
    BY <1>1, <1>3, <2>1, <2>4 DEF Same
<1>4. ASSUME NEW x \in notes', x.message = q.message PROVE Overlapped(x.by, q.no)'
  <2>1. x.message # 0
    BY <1>1, <1>4
  <2>2. Overlapped(x.by, q.no)' \/ \E o \in notes : o.message = x.message /\ o.by = x.by
    BY <2>1 DEF Quiet
  <2>3. ASSUME NEW o \in notes, o.message = x.message, o.by = x.by PROVE Overlapped(x.by, q.no)'
    BY <1>1, <1>4, <2>3 DEF Overlapped, Grown
  <2> QED
    BY <2>2, <2>3
<1> QED
  BY <1>2, <1>3, <1>4

LEMMA Stays ==
  ASSUME TypeOK, TypeOK', Linked, Linked', Grown, NEW q \in Request, Faithful(q), q.pc # "idle" => Quiet(q.no)
  PROVE  Faithful(q)'
<1>1. CASE q.pc = "idle"
  <2>1. q = Rest
    BY <1>1 DEF Faithful
  <2>2. Faithful(Rest)'
    BY RestAfter
  <2> QED
    BY <2>1, <2>2
<1>2. CASE q.pc # "idle"
  <2>1. q.no \in Nat /\ q.no <= count.requests /\ q.no # 0 /\ q.notebook \in Notebooks /\ notebook[q.notebook].st # "unused"
    BY <1>2 DEF Faithful, Request, Number
  <2>2. q.no <= count'.requests /\ notebook'[q.notebook].st # "unused"
    BY <1>2, <2>1, Numbers, NumbersNext DEF Grown, Quiet
  <2>3. q.pc \in Asking => Question(q)' /\ Watermark(q)'
    BY <1>2, <2>1, QuestionStays, WatermarkStays DEF Faithful
  <2>4. Pinning(q)'
    BY <1>2, PinningStays DEF Faithful
  <2>5. Scoped(q)'
    BY DEF Faithful, Scoped
  <2> QED
    BY <1>2, <2>1, <2>2, <2>3, <2>4, <2>5 DEF Faithful
<1> QED
  BY <1>1, <1>2

-----------------------------------------------------------------------------
(* Steps.                                                                  *)

Tables0 == <<notebook, conversation, messages, notes, feedback, events>>
Numbers0 == <<count.conversations, count.messages, count.notes, count.events>>

LEMMA QuietTables ==
  ASSUME UNCHANGED <<notebook, conversation, messages, notes, events>>
  PROVE  \A o \in Requests : Untouched(o)
BY DEF Untouched, Quiet, Same

LEMMA LinkedSame ==
  ASSUME TypeOK, TypeOK', Linked, UNCHANGED Tables0, UNCHANGED Numbers0, Grown
  PROVE  Linked'
<1>1. UNCHANGED <<notebook, conversation, messages, notes, feedback, events>>
  BY DEF Tables0
<1>2. UNCHANGED <<count.conversations, count.messages, count.notes, count.events>>
  BY DEF Numbers0
<1>3. \A m \in messages : m.by <= count'.requests
  <2> SUFFICES ASSUME NEW m \in messages PROVE m.by <= count'.requests
    OBVIOUS
  <2>1. m.by \in Nat /\ m.by <= count.requests
    BY BoundAssumption DEF TypeOK, Message, Number, Linked
  <2> QED
    BY <2>1, Numbers, NumbersNext DEF Grown
<1>4. \A c \in Conversations : There(c)' <=> There(c)
  BY <1>1 DEF There
<1>5. \A n \in Notebooks : Live(n)' <=> Live(n)
  BY <1>1 DEF Live
<1>6. \A m \in messages : There(m.conversation)' <=> There(m.conversation)
  BY <1>1 DEF There
<1>7. \A f \in feedback : Exists(f.message)' <=> Exists(f.message)
  BY <1>1 DEF Exists
<1>8. \A e \in events : (Exists(e.message)' <=> Exists(e.message)) /\ (There(e.conversation)' <=> There(e.conversation))
  BY <1>1 DEF Exists, There
<1>9. \A c \in Conversations : Live(conversation[c].notebook)' <=> Live(conversation[c].notebook)
  BY <1>1 DEF Live
<1>10. \A x \in notes : Live(x.notebook)' <=> Live(x.notebook)
  BY <1>1 DEF Live
<1> QED
  BY <1>1, <1>2, <1>3, <1>4, <1>6, <1>7, <1>8, <1>9, <1>10 DEF Linked

LEMMA BrokenStays == ASSUME TypeOK, TypeOK', Grown, Broken PROVE Broken'
BY Numbers, NumbersNext DEF Broken, Grown

LEMMA ToldSame ==
  ASSUME TypeOK, TypeOK', Told, UNCHANGED <<messages, notes>>, Grown
  PROVE  Told'
<1>1. Broken => Broken'
  BY BrokenStays
<1>2. AnswersFollowQuestions'
  <2>1. AnswersFollowQuestions
    BY DEF Told
  <2> QED
    BY <1>1, <2>1 DEF AnswersFollowQuestions, Broken
<1>3. PinnedOnce'
  BY DEF Told, PinnedOnce, Overlapped, Grown
<1> QED
  BY <1>1, <1>2, <1>3 DEF Told

LEMMA LockSame ==
  ASSUME LockInv, UNCHANGED <<lock, stale, loose>>,
         \A n \in Notebooks : Live(n)' => Live(n),
         \A o \in Requests, n \in Notebooks : Keeps(o, n)' => Keeps(o, n) /\ request'[o].no = request[o].no
  PROVE  LockInv'
BY DEF LockInv

LEMMA OwedSame ==
  ASSUME TypeOK, TypeOK', Owed, Owing' \subseteq Owing, Grown, count'.conversations = count.conversations
  PROVE  Owed'
<1>1. IsFiniteSet(Owing) /\ IsFiniteSet(Owing')
  BY PoolAssumption, FS_Subset DEF Owing
<1>2. Cardinality(Owing') <= Cardinality(Owing) /\ Cardinality(Owing') \in Nat /\ Cardinality(Owing) \in Nat
  BY <1>1, FS_Subset, FS_CardinalityType
<1> QED
  BY <1>2, Numbers, NumbersNext DEF Owed, Grown

LEMMA ApartOne ==
  ASSUME Apart, Grown, NEW r \in Requests, \A o \in Requests : o # r => request'[o] = request[o],
         request'[r].pc = "idle" \/ (request'[r].no = request[r].no /\ request[r].pc # "idle")
  PROVE  Apart'
BY DEF Apart, Overlapped, Grown

\* Every part of the invariant after a step.
LEMMA Together ==
  ASSUME Inv, TypeOK', Linked', Told', LockInv', Owed', Apart', Grown,
         \A o \in Requests : \/ request'[o] = request[o] /\ Untouched(o)
                             \/ Faithful(request[o])'
  PROVE  Inv'
<1>1. ASSUME NEW o \in Requests PROVE Faithful(request[o])'
  <2>1. CASE request'[o] = request[o] /\ Untouched(o)
    <3>1. TypeOK /\ Linked /\ Faithful(request[o]) /\ request[o] \in Request
      BY DEF Inv, TypeOK
    <3>2. PICK q \in Request : q = request[o]
      BY <3>1
    <3>3. Faithful(q)'
      BY <2>1, <3>1, <3>2, Sees, Stays
    <3>4. request'[o] = q
      BY <2>1, <3>2
    <3> QED
      BY <3>3, <3>4 DEF Faithful, Question, Watermark, Pinning, Scoped, Before, After, Asked, Inside, Marked, Gone
  <2>2. CASE Faithful(request[o])'
    BY <2>2
  <2> QED
    BY <2>1, <2>2
<1> QED
  BY <1>1 DEF Inv

\* A step of an open request that writes nothing.
LEMMA Turn ==
  ASSUME Inv, NEW r \in Requests, NEW q \in Request, request' = [request EXCEPT ![r] = q],
         UNCHANGED <<Tables0, Numbers0, source, studio, count, overlap>>,
         q.pc = "idle" \/ (q.no = request[r].no /\ request[r].pc # "idle"),
         \A n \in Notebooks : Keeps(r, n)' => Keeps(r, n) /\ q.no = request[r].no,
         q.kind \in {"ask", "stream"} /\ q.conversation = 0 => r \in Owing,
         Faithful(q)
  PROVE  Inv'
<1>1. TypeOK /\ Linked /\ Told /\ Apart /\ LockInv /\ Owed
  BY DEF Inv
<1>2. /\ request' \in [Requests -> Request] /\ request'[r] = q
      /\ \A o \in Requests : o # r => request'[o] = request[o]
  BY <1>1, OneRequest
<1>3. UNCHANGED <<notebook, conversation, messages, notes, feedback, events, lock, stale, loose>>
  BY DEF Tables0, studio
<1>4. TypeOK'
  BY <1>1, <1>2, <1>3 DEF TypeOK
<1>5. Grown
  BY <1>1, Numbers DEF Grown
<1>6. Linked' /\ Told'
  BY <1>1, <1>3, <1>4, <1>5, LinkedSame, ToldSame
<1>7. LockInv'
  <2>1. \A n \in Notebooks : Live(n)' => Live(n)
    BY <1>3 DEF Live
  <2>2. ASSUME NEW o \in Requests, NEW n \in Notebooks, Keeps(o, n)'
        PROVE  Keeps(o, n) /\ request'[o].no = request[o].no
    <3>1. CASE o = r
      BY <1>2, <2>2, <3>1
    <3>2. CASE o # r
      BY <1>2, <2>2, <3>2 DEF Keeps, Holds
    <3> QED
      BY <3>1, <3>2
  <2> QED
    BY <1>1, <1>3, <2>1, <2>2, LockSame
<1>8. Owed'
  <2>1. Owing' \subseteq Owing
    <3> SUFFICES ASSUME NEW o \in Owing' PROVE o \in Owing
      OBVIOUS
    <3>1. o \in Requests /\ request'[o].kind \in {"ask", "stream"} /\ request'[o].conversation = 0
      BY DEF Owing
    <3>2. CASE o = r
      BY <1>2, <3>1, <3>2
    <3>3. CASE o # r
      BY <1>2, <3>1, <3>3 DEF Owing
    <3> QED
      BY <3>2, <3>3
  <2> QED
    BY <1>1, <1>4, <1>5, <2>1, OwedSame
<1>9. Apart'
  BY <1>1, <1>2, <1>5, ApartOne
<1>10. Faithful(request[r])'
  BY <1>2, <1>3 DEF Faithful, Question, Watermark, Pinning, Scoped, Before, After, Asked, Inside, Marked, Gone, There, Broken, Overlapped
<1>11. \A o \in Requests : o # r => request'[o] = request[o] /\ Untouched(o)
  BY <1>2, <1>3, QuietTables
<1> QED
  BY <1>4, <1>5, <1>6, <1>7, <1>8, <1>9, <1>10, <1>11, Together

\* A request begins.
LEMMA Opened ==
  ASSUME Inv, NEW r \in Requests, NEW new \in Request, Begin(r, new),
         UNCHANGED <<notebook, source, chat, shelf, studio>>,
         new.notebook \in Notebooks, Live(new.notebook),
         new.pc \notin {"idle", "summaries", "brief", "keep", "release"},
         new.pc \in Asking => /\ new.pc = IF new.kind = "ask" THEN "mark" ELSE "prepare"
                              /\ new.kind \in {"ask", "stream"} /\ ~new.error
                              /\ new.conversation <= count.conversations,
         new.pc = "pin" => /\ new.message \in 1 .. count.messages
                           /\ \A m \in messages : m.id = new.message => conversation[m.conversation].notebook = new.notebook
                           /\ \A x \in notes : x.message # new.message,
         Scoped(new)
  PROVE  Inv'
<1>1. TypeOK /\ Linked /\ Told /\ Apart /\ LockInv /\ Owed /\ \A o \in Requests : Faithful(request[o])
  BY DEF Inv
<1>2. PICK k : k = count.requests + 1
  OBVIOUS
<1>3. k \in Number /\ k # 0 /\ k \in Nat /\ k > count.requests /\ count.requests \in Nat
  BY <1>1, <1>2, Numbers, BoundAssumption DEF Begin, Number
<1>4. PICK q : q = [new EXCEPT !.no = k]
  OBVIOUS
<1>5. /\ q \in Request /\ q.no = k /\ q.kind = new.kind /\ q.pc = new.pc /\ q.notebook = new.notebook
      /\ q.conversation = new.conversation /\ q.message = new.message /\ q.picked = new.picked
      /\ q.selected = new.selected /\ q.scope = new.scope /\ q.error = new.error /\ q.mark = new.mark
  BY <1>3, <1>4 DEF Request
<1>6. request' = [request EXCEPT ![r] = q] /\ request[r].pc = "idle"
  BY <1>2, <1>4 DEF Begin
<1>7. /\ request' \in [Requests -> Request] /\ request'[r] = q
      /\ \A o \in Requests : o # r => request'[o] = request[o]
  BY <1>1, <1>5, <1>6, OneRequest
<1>8. count' = [count EXCEPT !.requests = k]
  BY <1>2 DEF Begin
<1>9. /\ count'.requests = k /\ count'.faults = count.faults /\ count'.conversations = count.conversations
      /\ count'.messages = count.messages /\ count'.notes = count.notes /\ count'.events = count.events
      /\ count' \in [requests : Number, faults : 0 .. MaxFaults, conversations : Conversations,
                messages : MessageNo, notes : Nat, events : Nat]
  BY <1>1, <1>3, <1>8 DEF TypeOK
<1>10. overlap' = overlap \cup {<<request[o].no, k>> : o \in {p \in Requests : request[p].pc # "idle"}}
  BY <1>2 DEF Begin
<1>11. /\ UNCHANGED <<notebook, source, conversation, messages, events, notes, feedback, lock, stale, loose>>
  BY DEF chat, shelf, studio
<1>12. TypeOK'
  <2>1. overlap' \subseteq Number \X Number
    BY <1>1, <1>3, <1>10 DEF TypeOK, Request
  <2> QED
    BY <1>1, <1>7, <1>9, <1>11, <2>1 DEF TypeOK
<1>13. Grown
  BY <1>1, <1>3, <1>9, <1>10, Numbers DEF Grown
<1>14. Linked' /\ Told'
  BY <1>1, <1>9, <1>11, <1>12, <1>13, LinkedSame, ToldSame DEF Tables0, Numbers0
<1>15. LockInv'
  <2>1. \A n \in Notebooks : Live(n)' => Live(n)
    BY <1>11 DEF Live
  <2>2. ASSUME NEW o \in Requests, NEW n \in Notebooks, Keeps(o, n)'
        PROVE  Keeps(o, n) /\ request'[o].no = request[o].no
    <3>1. o # r
      BY <1>5, <1>7, <2>2 DEF Keeps, Holds
    <3> QED
      BY <1>7, <2>2, <3>1 DEF Keeps, Holds
  <2> QED
    BY <1>1, <1>11, <2>1, <2>2, LockSame
<1>16. Owed'
  <2>1. Owing' \subseteq Owing \cup {r}
    BY <1>7 DEF Owing
  <2>2. IsFiniteSet(Owing) /\ IsFiniteSet(Owing \cup {r})
    BY PoolAssumption, FS_Subset, FS_AddElement DEF Owing
  <2>3. Cardinality(Owing \cup {r}) <= Cardinality(Owing) + 1 /\ Cardinality(Owing) \in Nat
    BY <2>2, FS_AddElement, FS_CardinalityType
  <2>4. Cardinality(Owing') <= Cardinality(Owing \cup {r}) /\ Cardinality(Owing') \in Nat /\ Cardinality(Owing \cup {r}) \in Nat
    BY <2>1, <2>2, FS_Subset, FS_CardinalityType
  <2> QED
    BY <1>1, <1>2, <1>9, <2>3, <2>4, Numbers DEF Owed
<1>17. Apart'
  <2> SUFFICES ASSUME NEW a \in Requests, NEW b \in Requests, a # b, request'[a].pc # "idle", request'[b].pc # "idle"
               PROVE  request'[a].no # request'[b].no /\ Overlapped(request[a].no, request[b].no)'
    BY DEF Apart, Overlapped
  <2>1. ASSUME NEW o \in Requests, o # r, request[o].pc # "idle"
        PROVE  request[o].no # k /\ <<request[o].no, k>> \in overlap'
    <3>1. request[o].no <= count.requests /\ request[o].no \in Nat
      BY <1>1, BoundAssumption DEF Faithful, TypeOK, Request, Number
    <3> QED
      BY <1>3, <1>10, <2>1, <3>1
  <2>2. CASE a # r /\ b # r
    BY <1>1, <1>7, <1>13, <2>2 DEF Apart, Overlapped, Grown
  <2>3. CASE a = r
    BY <1>5, <1>7, <2>1, <2>3 DEF Overlapped
  <2>4. CASE b = r
    BY <1>5, <1>7, <2>1, <2>4 DEF Overlapped
  <2> QED
    BY <2>2, <2>3, <2>4
<1>18. Faithful(q)'
  <2>1. q.no <= count'.requests /\ q.pc # "idle" /\ q.no # 0 /\ q.notebook \in Notebooks /\ notebook'[q.notebook].st # "unused"
    BY <1>3, <1>5, <1>9, <1>11 DEF Live
  <2>2. \A m \in messages : m.by # k
    <3> SUFFICES ASSUME NEW m \in messages PROVE m.by # k
      OBVIOUS
    <3>1. m.by <= count.requests /\ m.by \in Nat
      BY <1>1, BoundAssumption DEF Linked, TypeOK, Message, Number
    <3> QED
      BY <1>3, <3>1
  <2>3. q.pc \in Asking => Question(q)' /\ Watermark(q)'
    BY <1>5, <1>9, <1>11, <2>2 DEF Question, Watermark, Before, After
  <2>4. Pinning(q)'
    BY <1>5, <1>9, <1>11 DEF Pinning
  <2>5. Scoped(q)'
    BY <1>5 DEF Scoped
  <2> QED
    BY <2>1, <2>3, <2>4, <2>5 DEF Faithful
<1>19. Faithful(request[r])'
  BY <1>7, <1>18 DEF Faithful, Question, Watermark, Pinning, Scoped, Before, After, Asked, Inside, Marked, Gone
<1>20. \A o \in Requests : o # r => request'[o] = request[o] /\ Untouched(o)
  BY <1>7, <1>11, QuietTables
<1> QED
  BY <1>12, <1>13, <1>14, <1>15, <1>16, <1>17, <1>19, <1>20, Together

LEMMA BeginAskStep ==
  ASSUME Inv, NEW r \in Requests, NEW n \in Notebooks, NEW c \in 0 .. count.conversations, BeginAsk(r, n, c)
  PROVE  Inv'
<1>1. PICK kind \in {"ask", "stream"}, picked \in Picks, selected \in BOOLEAN :
        Begin(r, [Rest EXCEPT !.kind = kind, !.pc = IF kind = "ask" THEN "mark" ELSE "prepare",
                              !.notebook = n, !.conversation = c, !.picked = picked, !.selected = selected])
  BY DEF BeginAsk
<1>2. PICK pc : pc = IF kind = "ask" THEN "mark" ELSE "prepare"
  OBVIOUS
<1>3. PICK new : new = [Rest EXCEPT !.kind = kind, !.pc = pc, !.notebook = n, !.conversation = c,
                                    !.picked = picked, !.selected = selected]
  OBVIOUS
<1>4. c \in 0 .. MaxRequests + 1 /\ c <= count.conversations
  BY Numbers, BoundAssumption DEF Inv, Conversations
<1>5. /\ new \in Request /\ new.kind = kind /\ new.pc = pc /\ new.notebook = n /\ new.conversation = c
      /\ new.picked = picked /\ new.selected = selected /\ new.scope = {} /\ ~new.error
  BY <1>2, <1>3, <1>4, RestIs, PickAssumption DEF Request
<1>6. Begin(r, new)
  BY <1>1, <1>2, <1>3
<1>7. Scoped(new)
  BY <1>5 DEF Scoped
<1> QED
  BY <1>2, <1>4, <1>5, <1>6, <1>7, Opened DEF BeginAsk

LEMMA BeginPinStep ==
  ASSUME Inv, NEW r \in Requests, NEW m \in messages, BeginPin(r, m)
  PROVE  Inv'
<1>1. PICK n \in Notebooks :
        /\ m \in Answers(n)
        /\ \A x \in notes : x.notebook # n \/ x.message # m.id
        /\ Begin(r, [Rest EXCEPT !.kind = "pin", !.pc = "pin", !.notebook = n, !.message = m.id])
  BY DEF BeginPin
<1>2. PICK new : new = [Rest EXCEPT !.kind = "pin", !.pc = "pin", !.notebook = n, !.message = m.id]
  OBVIOUS
<1>3. m.id \in MessageNo /\ m.id \in 1 .. count.messages
  BY DEF Inv, TypeOK, Message, Linked
<1>4. /\ new \in Request /\ new.kind = "pin" /\ new.pc = "pin" /\ new.notebook = n /\ new.message = m.id
      /\ new.scope = {} /\ new.picked = {}
  BY <1>2, <1>3, RestIs DEF Request
<1>5. conversation[m.conversation].notebook = n /\ There(m.conversation) /\ m.conversation \in Conversations
  BY <1>1 DEF Answers, Inv, Linked, TypeOK, Message
<1>6. Live(n)
  BY <1>5 DEF Inv, Linked
<1>7. \A k \in messages : k.id = m.id => conversation[k.conversation].notebook = n
  BY <1>5 DEF Inv, Linked
<1>8. \A x \in notes : x.message # m.id
  <2> SUFFICES ASSUME NEW x \in notes, x.message = m.id PROVE FALSE
    OBVIOUS
  <2>1. PICK k \in messages : k.id = x.message /\ conversation[k.conversation].notebook = x.notebook
    BY <1>3, Numbers DEF Inv, Linked
  <2> QED
    BY <1>1, <1>7, <2>1
<1>9. Scoped(new)
  BY <1>4 DEF Scoped
<1> QED
  BY <1>1, <1>2, <1>3, <1>4, <1>6, <1>7, <1>8, <1>9, Opened DEF BeginPin, Asking

\* A request that asks no question and pins nothing.
LEMMA Other ==
  ASSUME Inv, NEW r \in Requests, NEW new \in Request,
         UNCHANGED <<notebook, source, chat, shelf, studio>>,
         new.pc \in {"followups", "acquire", "unlock", "suggest", "evidence", "model"},
         new.notebook \in Notebooks, Live(new.notebook),
         new.scope \subseteq new.picked, \A s \in new.scope : Home[s] = new.notebook,
         Begin(r, new)
  PROVE  Inv'
<1>1. Scoped(new)
  BY DEF Scoped
<1> QED
  BY <1>1, Opened DEF Asking

LEMMA ScopesOf ==
  ASSUME TypeOK, NEW n, NEW picked
  PROVE  Selected(n, picked) \subseteq picked /\ Selected(n, picked) \subseteq Sources
         /\ \A s \in Selected(n, picked) : Home[s] = n
BY DEF Selected, Indexed, Of

LEMMA BeginBriefingStep ==
  ASSUME Inv, NEW r \in Requests, NEW n \in Notebooks, BeginBriefing(r, n)
  PROVE  Inv'
<1>1. PICK new : new = [Rest EXCEPT !.kind = "briefing", !.pc = "acquire", !.notebook = n]
  OBVIOUS
<1>2. new \in Request /\ new.pc = "acquire" /\ new.notebook = n /\ new.picked = {} /\ new.scope = {}
  BY <1>1, RestIs DEF Request
<1>3. Begin(r, new)
  BY <1>1 DEF BeginBriefing
<1> QED
  BY <1>2, <1>3, Other DEF BeginBriefing

LEMMA BeginPeekStep ==
  ASSUME Inv, NEW r \in Requests, NEW n \in Notebooks, BeginPeek(r, n)
  PROVE  Inv'
<1>1. PICK new : new = [Rest EXCEPT !.kind = "peek", !.pc = "unlock", !.notebook = n]
  OBVIOUS
<1>2. new \in Request /\ new.pc = "unlock" /\ new.notebook = n /\ new.picked = {} /\ new.scope = {}
  BY <1>1, RestIs DEF Request
<1>3. Begin(r, new)
  BY <1>1 DEF BeginPeek
<1> QED
  BY <1>2, <1>3, Other DEF BeginPeek

LEMMA BeginSuggestStep ==
  ASSUME Inv, NEW r \in Requests, NEW n \in Notebooks, BeginSuggest(r, n)
  PROVE  Inv'
<1>1. PICK new : new = [Rest EXCEPT !.kind = "suggest", !.pc = "suggest", !.notebook = n]
  OBVIOUS
<1>2. new \in Request /\ new.pc = "suggest" /\ new.notebook = n /\ new.picked = {} /\ new.scope = {}
  BY <1>1, RestIs DEF Request
<1>3. Begin(r, new)
  BY <1>1 DEF BeginSuggest
<1> QED
  BY <1>2, <1>3, Other DEF BeginSuggest

LEMMA BeginCompareStep ==
  ASSUME Inv, NEW r \in Requests, NEW n \in Notebooks, BeginCompare(r, n)
  PROVE  Inv'
<1>1. PICK picked \in SUBSET Sources, topic \in BOOLEAN :
        Begin(r, [Rest EXCEPT !.kind = "compare", !.pc = IF topic THEN "evidence" ELSE "model",
                              !.notebook = n, !.picked = picked, !.scope = Selected(n, picked)])
  BY DEF BeginCompare
<1>2. PICK pc \in {"evidence", "model"} : pc = IF topic THEN "evidence" ELSE "model"
  OBVIOUS
<1>3. PICK scope : scope = Selected(n, picked)
  OBVIOUS
<1>4. PICK new : new = [Rest EXCEPT !.kind = "compare", !.pc = pc, !.notebook = n, !.picked = picked, !.scope = scope]
  OBVIOUS
<1>5. scope \subseteq picked /\ scope \subseteq Sources /\ \A s \in scope : Home[s] = n
  BY <1>3, ScopesOf DEF Inv
<1>6. new \in Request /\ new.pc = pc /\ new.notebook = n /\ new.picked = picked /\ new.scope = scope
  BY <1>4, <1>5, RestIs, PickAssumption DEF Request
<1>7. Begin(r, new)
  BY <1>1, <1>2, <1>3, <1>4
<1> QED
  BY <1>5, <1>6, <1>7, Other DEF BeginCompare

LEMMA BeginArtifactStep ==
  ASSUME Inv, NEW r \in Requests, NEW n \in Notebooks, BeginArtifact(r, n)
  PROVE  Inv'
<1>1. PICK picked \in Picks :
        Begin(r, [Rest EXCEPT !.kind = "artifact", !.pc = "model", !.notebook = n,
                              !.picked = picked, !.scope = Selected(n, picked)])
  BY DEF BeginArtifact
<1>2. PICK scope : scope = Selected(n, picked)
  OBVIOUS
<1>3. PICK new : new = [Rest EXCEPT !.kind = "artifact", !.pc = "model", !.notebook = n, !.picked = picked,
                                    !.scope = scope]
  OBVIOUS
<1>4. scope \subseteq picked /\ scope \subseteq Sources /\ \A s \in scope : Home[s] = n
  BY <1>2, ScopesOf DEF Inv
<1>5. new \in Request /\ new.pc = "model" /\ new.notebook = n /\ new.picked = picked /\ new.scope = scope
  BY <1>3, <1>4, RestIs, PickAssumption DEF Request
<1>6. Begin(r, new)
  BY <1>1, <1>2, <1>3
<1> QED
  BY <1>4, <1>5, <1>6, Other DEF BeginArtifact

LEMMA BeginOneSourceStep ==
  ASSUME Inv, NEW r \in Requests, NEW n \in Notebooks, NEW s \in Sources, BeginTranslate(r, n, s) \/ BeginMinutes(r, n, s)
  PROVE  Inv'
<1>1. PICK kind \in {"translate", "minutes"} :
        Begin(r, [Rest EXCEPT !.kind = kind, !.pc = "model", !.notebook = n, !.picked = {s}, !.scope = {s}])
  BY DEF BeginTranslate, BeginMinutes
<1>2. PICK new : new = [Rest EXCEPT !.kind = kind, !.pc = "model", !.notebook = n, !.picked = {s}, !.scope = {s}]
  OBVIOUS
<1>3. new \in Request /\ new.pc = "model" /\ new.notebook = n /\ new.picked = {s} /\ new.scope = {s}
  BY <1>2, RestIs DEF Request
<1>4. Live(n) /\ Home[s] = n /\ UNCHANGED <<notebook, source, chat, shelf, studio>>
  BY DEF BeginTranslate, BeginMinutes, Selected, Indexed, Of
<1>5. Begin(r, new)
  BY <1>1, <1>2
<1> QED
  BY <1>3, <1>4, <1>5, Other

LEMMA BeginFollowupsStep ==
  ASSUME Inv, NEW r \in Requests, NEW m \in messages, BeginFollowups(r, m)
  PROVE  Inv'
<1>1. PICK n \in Notebooks :
        /\ m \in Answers(n)
        /\ Begin(r, [Rest EXCEPT !.kind = "followups", !.pc = "followups", !.notebook = n, !.message = m.id])
  BY DEF BeginFollowups
<1>2. PICK new : new = [Rest EXCEPT !.kind = "followups", !.pc = "followups", !.notebook = n, !.message = m.id]
  OBVIOUS
<1>3. conversation[m.conversation].notebook = n /\ There(m.conversation) /\ m.conversation \in Conversations
      /\ m.id \in MessageNo
  BY <1>1 DEF Answers, Inv, Linked, TypeOK, Message
<1>4. new \in Request /\ new.pc = "followups" /\ new.notebook = n /\ new.picked = {} /\ new.scope = {}
  BY <1>2, <1>3, RestIs DEF Request
<1>5. Live(n)
  BY <1>3 DEF Inv, Linked
<1>6. Begin(r, new)
  BY <1>1, <1>2
<1> QED
  BY <1>4, <1>5, <1>6, Other DEF BeginFollowups

-----------------------------------------------------------------------------
(* A request's own steps.                                                  *)

\* A step of an open request that takes no lock.
LEMMA Act ==
  ASSUME Inv, NEW r \in Requests, request[r].pc # "idle",
         NEW q \in Request, request' = [request EXCEPT ![r] = q],
         q.pc = "idle" \/ q.no = request[r].no,
         q.pc \in {"summaries", "brief", "keep", "release"} =>
           /\ q.notebook = request[r].notebook /\ q.no = request[r].no
           /\ request[r].pc \in {"summaries", "brief", "keep", "release"},
         UNCHANGED <<lock, stale, loose>>, \A n \in Notebooks : Live(n)' => Live(n),
         TypeOK', Linked', Told', Owed', Grown, Faithful(q)',
         \A o \in Requests : o # r => Untouched(o)
  PROVE  Inv'
<1>1. TypeOK /\ Apart /\ LockInv
  BY DEF Inv
<1>2. /\ request' \in [Requests -> Request] /\ request'[r] = q
      /\ \A o \in Requests : o # r => request'[o] = request[o]
  BY <1>1, OneRequest
<1>3. LockInv'
  <2>1. ASSUME NEW o \in Requests, NEW n \in Notebooks, Keeps(o, n)'
        PROVE  Keeps(o, n) /\ request'[o].no = request[o].no
    <3>1. CASE o = r
      BY <1>2, <2>1, <3>1 DEF Keeps, Holds
    <3>2. CASE o # r
      BY <1>2, <2>1, <3>2 DEF Keeps, Holds
    <3> QED
      BY <3>1, <3>2
  <2> QED
    BY <1>1, <2>1, LockSame
<1>4. Apart'
  BY <1>1, <1>2, ApartOne
<1>5. Faithful(request[r])'
  BY <1>2 DEF Faithful, Question, Watermark, Pinning, Scoped, Before, After, Asked, Inside, Marked, Gone
<1>6. \A o \in Requests : o # r => request'[o] = request[o]
  BY <1>2
<1> QED
  BY <1>3, <1>4, <1>5, <1>6, Together

LEMMA OwingSame ==
  ASSUME TypeOK, TypeOK', Owed, NEW r \in Requests, NEW q \in Request, request' = [request EXCEPT ![r] = q],
         q.kind \in {"ask", "stream"} /\ q.conversation = 0 => r \in Owing,
         Grown, count'.conversations = count.conversations
  PROVE  Owed'
<1>1. /\ request' \in [Requests -> Request] /\ request'[r] = q
      /\ \A o \in Requests : o # r => request'[o] = request[o]
  BY OneRequest
<1>2. Owing' \subseteq Owing
  <2> SUFFICES ASSUME NEW o \in Owing' PROVE o \in Owing
    OBVIOUS
  <2>1. o \in Requests /\ request'[o].kind \in {"ask", "stream"} /\ request'[o].conversation = 0
    BY DEF Owing
  <2>2. CASE o = r
    BY <1>1, <2>1, <2>2
  <2>3. CASE o # r
    BY <1>1, <2>1, <2>3 DEF Owing
  <2> QED
    BY <2>2, <2>3
<1> QED
  BY <1>2, OwedSame

\* The end of a request.
LEMMA Ends ==
  ASSUME Inv, NEW r \in Requests, request[r].pc # "idle", End(r),
         UNCHANGED <<lock, stale, loose>>, \A n \in Notebooks : Live(n)' => Live(n),
         TypeOK', Linked', Told', Grown, count'.conversations = count.conversations,
         \A o \in Requests : o # r => Untouched(o)
  PROVE  Inv'
<1>1. request' = [request EXCEPT ![r] = Rest]
  BY EndIs DEF Inv
<1>2. Owed'
  BY <1>1, RestIs, OwingSame DEF Inv
<1> QED
  BY <1>1, <1>2, RestIs, RestAfter, Act

LEMMA Finish ==
  ASSUME Inv, NEW r \in Requests, request[r].pc # "idle", End(r),
         UNCHANGED <<notebook, source, chat, shelf, studio, count, overlap>>
  PROVE  Inv'
<1>1. request' = [request EXCEPT ![r] = Rest]
  BY EndIs DEF Inv
<1>2. Faithful(Rest)
  BY RestFaithful DEF Inv
<1>3. \A n \in Notebooks : ~Keeps(r, n)'
  <2>1. request'[r] = Rest
    BY <1>1, RestIs, OneRequest DEF Inv
  <2> QED
    BY <2>1, RestIs DEF Keeps, Holds
<1>4. UNCHANGED <<Tables0, Numbers0>>
  BY DEF Tables0, Numbers0, chat, shelf
<1> QED
  BY <1>1, <1>2, <1>3, <1>4, RestIs, Turn

\* Where an exception leads.
Failing(q, f) ==
  /\ f.error = TRUE /\ f.pc = IF q.conversation = 0 THEN "again" ELSE "save"
  /\ f.no = q.no /\ f.kind = q.kind /\ f.notebook = q.notebook /\ f.conversation = q.conversation
  /\ f.message = q.message /\ f.picked = q.picked /\ f.selected = q.selected /\ f.scope = q.scope /\ f.mark = q.mark

LEMMA FailedIs ==
  ASSUME TypeOK, NEW r \in Requests, NEW http \in BOOLEAN, Failed(r, http)
  PROVE  \/ End(r)
         \/ /\ ~request[r].error
            /\ request[r].kind = "ask" => ~http /\ request[r].pc \notin {"mark", "save", "attach"}
            /\ \E f \in Request : request' = [request EXCEPT ![r] = f] /\ Failing(request[r], f)
<1> SUFFICES ASSUME ~End(r)
             PROVE  /\ ~request[r].error
                    /\ request[r].kind = "ask" => ~http /\ request[r].pc \notin {"mark", "save", "attach"}
                    /\ \E f \in Request : request' = [request EXCEPT ![r] = f] /\ Failing(request[r], f)
  OBVIOUS
<1>1. PICK q \in Request : q = request[r]
  BY DEF TypeOK
<1>2. /\ ~(q.error \/ (q.kind = "ask" /\ (http \/ q.pc \in {"mark", "save", "attach"})))
      /\ request' = [request EXCEPT ![r].error = TRUE, ![r].pc = IF q.conversation = 0 THEN "again" ELSE "save"]
  BY <1>1 DEF Failed
<1>3. PICK pc \in {"again", "save"} : pc = IF q.conversation = 0 THEN "again" ELSE "save"
  OBVIOUS
<1>4. PICK f : f = [q EXCEPT !.error = TRUE, !.pc = pc]
  OBVIOUS
<1>5. f \in Request
  BY <1>4 DEF Request
<1>6. Failing(q, f)
  BY <1>3, <1>4 DEF Failing, Request
<1>7. request' = [request EXCEPT ![r] = f]
  BY <1>1, <1>2, <1>3, <1>4 DEF TypeOK
<1> QED
  BY <1>1, <1>2, <1>5, <1>6, <1>7

LEMMA FailingFaithful ==
  ASSUME TypeOK, TypeOK', NEW q \in Request, NEW f \in Request, Failing(q, f), Faithful(q)', ~q.error,
         q.pc \in {"mark", "prepare", "again", "context", "generate", "save", "attach"},
         q.pc \in {"mark", "attach"} => Broken',
         q.pc = "mark" => q.kind = "stream",
         q.pc = "prepare" => /\ q.kind = "stream" \/ Broken'
                             /\ \/ Broken'
                                \/ IF q.conversation = 0 THEN notebook'[q.notebook].st = "deleted"
                                   ELSE conversation'[q.conversation].notebook # q.notebook
  PROVE  Faithful(f)'
<1>1. Question(q)' /\ Watermark(q)' /\ q.pc # "again"
  BY DEF Faithful, Asking, Question
<1>2. f.pc \in {"again", "save"} /\ f.error /\ (f.pc = "again" <=> q.conversation = 0) /\ f.kind \in {"ask", "stream"}
      /\ f.conversation <= count'.conversations
  BY <1>1 DEF Failing, Question
<1>3. f.pc = "again" => \A m \in messages' : m.by # f.no
  BY <1>1, <1>2 DEF Failing, Question, Before, After
<1>4. f.pc = "save" => f.conversation # 0 /\ (Asked(f)' \/ f.kind = "stream" \/ Broken')
  BY <1>1, <1>2 DEF Failing, Question, Before, After, Asked
<1>5. f.pc = "save" => \A m \in messages' : m.by = f.no /\ m.role = "assistant" => f.error /\ ~m.error /\ Broken'
  BY <1>1, <1>2 DEF Failing, Question, Before
<1>6. Question(f)'
  BY <1>2, <1>3, <1>4, <1>5 DEF Question, Before, After, Failing
<1>7. Marked(f)' <=> Marked(q)'
  BY DEF Failing, Marked
<1>8. Watermark(f)'
  BY <1>1, <1>2, <1>7 DEF Watermark, Failing, Gone, Question, After
<1>9. Pinning(f)' /\ Scoped(f)'
  BY <1>2 DEF Faithful, Pinning, Scoped, Failing
<1>10. /\ f.no <= count'.requests
       /\ f.pc # "idle" => f.no # 0 /\ f.notebook \in Notebooks /\ notebook'[f.notebook].st # "unused"
  BY DEF Faithful, Failing
<1> QED
  BY <1>2, <1>6, <1>8, <1>9, <1>10 DEF Faithful

\* The step of an exception, with what is written on the way.
LEMMA FailedStep ==
  ASSUME Inv, NEW r \in Requests, NEW http \in BOOLEAN, Failed(r, http),
         UNCHANGED <<lock, stale, loose>>, \A n \in Notebooks : Live(n)' => Live(n),
         request' \in [Requests -> Request] => TypeOK', TypeOK' => Linked' /\ Told',
         TypeOK' => Grown, count'.conversations = count.conversations,
         \A o \in Requests : Untouched(o),
         request[r].pc \in {"mark", "prepare", "again", "context", "generate", "save", "attach"},
         request[r].pc \in {"mark", "attach"} => Broken' /\ ~http,
         request[r].pc = "prepare" =>
           /\ http \/ Broken'
           /\ \/ Broken'
              \/ IF request[r].conversation = 0 THEN notebook'[request[r].notebook].st = "deleted"
                 ELSE conversation'[request[r].conversation].notebook # request[r].notebook
  PROVE  Inv'
<1>1. TypeOK /\ Linked /\ Owed /\ Faithful(request[r]) /\ request[r] \in Request
  BY DEF Inv, TypeOK
<1>2. CASE End(r)
  <2>1. TypeOK'
    BY <1>1, <1>2, EndIs, RestIs, OneRequest
  <2> QED
    BY <1>2, <2>1, Ends
<1>3. CASE ~End(r)
  <2>1. PICK q \in Request : q = request[r]
    BY <1>1
  <2>2. PICK f \in Request : request' = [request EXCEPT ![r] = f] /\ Failing(q, f)
    BY <1>1, <1>3, <2>1, FailedIs
  <2>3. ~q.error /\ (q.kind = "ask" => ~http /\ q.pc \notin {"mark", "save", "attach"})
    BY <1>1, <1>3, <2>1, FailedIs
  <2>4. TypeOK'
    BY <1>1, <2>2, OneRequest
  <2>5. Linked' /\ Told' /\ Grown
    BY <2>4
  <2>6. q.kind \in {"ask", "stream"}
    BY <1>1, <2>1 DEF Faithful, Asking, Question
  <2>7. Faithful(q)'
    BY <1>1, <2>1, <2>4, <2>5, Sees, Stays
  <2>8. Faithful(f)'
    BY <1>1, <2>1, <2>2, <2>3, <2>4, <2>6, <2>7, FailingFaithful
  <2>9. Owed'
    <3>1. f.kind \in {"ask", "stream"} /\ f.conversation = 0 => r \in Owing
      BY <2>1, <2>2 DEF Owing, Failing
    <3> QED
      BY <1>1, <2>2, <2>4, <2>5, <3>1, OwingSame
  <2>10. f.pc \in {"again", "save"} /\ f.no = request[r].no
    BY <2>1, <2>2 DEF Failing
  <2> QED
    BY <2>2, <2>4, <2>5, <2>8, <2>9, <2>10, Act
<1> QED
  BY <1>2, <1>3

LEMMA NothingWritten ==
  ASSUME UNCHANGED <<notebook, source, chat, shelf, studio, count, overlap>>
  PROVE  /\ UNCHANGED <<Tables0, Numbers0, source, studio, count, overlap>>
         /\ UNCHANGED <<notebook, conversation, messages, notes, events, feedback, lock, stale, loose>>
BY DEF Tables0, Numbers0, chat, shelf, studio

LEMMA FailedQuietly ==
  ASSUME Inv, NEW r \in Requests, NEW http \in BOOLEAN, Failed(r, http),
         UNCHANGED <<notebook, source, chat, shelf, studio, count, overlap>>,
         request[r].pc \in {"prepare", "again", "context", "generate", "save"},
         request[r].pc = "prepare" =>
           /\ http
           /\ IF request[r].conversation = 0 THEN notebook[request[r].notebook].st = "deleted"
              ELSE conversation[request[r].conversation].notebook # request[r].notebook
  PROVE  Inv'
<1>1. UNCHANGED <<notebook, source, conversation, messages, notes, events, feedback, lock, stale, loose, count, overlap>>
  BY NothingWritten
<1>2. TypeOK /\ Linked /\ Told
  BY DEF Inv
<1>3. request' \in [Requests -> Request] => TypeOK'
  BY <1>1, <1>2 DEF TypeOK
<1>4. Grown
  BY <1>1, <1>2, Numbers DEF Grown
<1>5. TypeOK' => Linked' /\ Told'
  BY <1>1, <1>2, <1>4, LinkedSame, ToldSame DEF Tables0, Numbers0
<1>6. \A o \in Requests : Untouched(o)
  BY <1>1, QuietTables
<1>7. \A n \in Notebooks : Live(n)' => Live(n)
  BY <1>1 DEF Live
<1> QED
  BY <1>1, <1>3, <1>4, <1>5, <1>6, <1>7, FailedStep

LEMMA BreaksStep == ASSUME Inv, NEW r \in Requests, Breaks(r) PROVE Inv'
<1>1. UNCHANGED <<notebook, source, conversation, messages, notes, events, feedback, lock, stale, loose, overlap>>
  BY DEF Breaks, chat, shelf, studio
<1>2. TypeOK /\ Linked /\ Told
  BY DEF Inv
<1>3. PICK k : k = count.faults + 1
  OBVIOUS
<1>4. k \in 0 .. MaxFaults /\ k > 0 /\ count.faults <= k
  BY <1>2, <1>3, Numbers, BoundAssumption DEF Breaks, Fault
<1>5. count' = [count EXCEPT !.faults = k]
  BY <1>3 DEF Breaks, Fault
<1>6. /\ count'.requests = count.requests /\ count'.faults = k /\ count'.conversations = count.conversations
      /\ count'.messages = count.messages /\ count'.notes = count.notes /\ count'.events = count.events
      /\ count' \in [requests : Number, faults : 0 .. MaxFaults, conversations : Conversations,
                messages : MessageNo, notes : Nat, events : Nat]
  BY <1>2, <1>4, <1>5 DEF TypeOK
<1>7. request' \in [Requests -> Request] => TypeOK'
  BY <1>1, <1>2, <1>6 DEF TypeOK
<1>8. Grown /\ Broken'
  BY <1>1, <1>2, <1>4, <1>6, Numbers DEF Grown, Broken
<1>9. TypeOK' => Linked' /\ Told'
  BY <1>1, <1>2, <1>6, <1>8, LinkedSame, ToldSame DEF Tables0, Numbers0
<1>10. \A o \in Requests : Untouched(o)
  BY <1>1, QuietTables
<1>11. \A n \in Notebooks : Live(n)' => Live(n)
  BY <1>1 DEF Live
<1>12. Failed(r, FALSE) /\ request[r].pc \in {"mark", "prepare", "again", "save", "attach"}
  BY DEF Breaks
<1> QED
  BY <1>1, <1>6, <1>7, <1>8, <1>9, <1>10, <1>11, <1>12, FailedStep

LEMMA MarkStep == ASSUME Inv, NEW r \in Requests, Mark(r) PROVE Inv'
<1>1. TypeOK /\ Linked /\ Faithful(request[r])
  BY DEF Inv
<1>2. PICK q \in Request : q = request[r]
  BY <1>1 DEF TypeOK
<1>3. PICK pc \in {"prepare", "save", "context"} :
        pc = IF q.kind = "ask" THEN "prepare" ELSE IF q.refused THEN "save" ELSE "context"
  OBVIOUS
<1>4. PICK k \in Nat : k = count.events
  BY <1>1, Numbers
<1>5. PICK f : f = [q EXCEPT !.mark = k, !.pc = pc]
  OBVIOUS
<1>6. /\ f \in Request /\ f.mark = k /\ f.pc = pc /\ f.kind = q.kind /\ f.no = q.no /\ f.notebook = q.notebook
      /\ f.conversation = q.conversation /\ f.message = q.message /\ f.picked = q.picked
      /\ f.selected = q.selected /\ f.scope = q.scope /\ f.error = q.error
  BY <1>5 DEF Request
<1>7. request' = [request EXCEPT ![r] = f]
  BY <1>1, <1>2, <1>3, <1>4, <1>5 DEF Mark, TypeOK
<1>8. q.pc = "mark" /\ Question(q) /\ q.kind \in {"ask", "stream"}
  BY <1>1, <1>2 DEF Mark, Faithful, Asking, Question
<1>9. Question(f)
  BY <1>3, <1>6, <1>8 DEF Question, Before, After, Asked, Inside
<1>10. Marked(f)
  <2>1. \A e \in events : ~(e.id > k)
    BY <1>1, <1>4, Numbers DEF Linked
  <2> QED
    BY <1>6, <2>1 DEF Marked
<1>11. Watermark(f)
  BY <1>3, <1>6, <1>10 DEF Watermark
<1>12. Faithful(f)
  BY <1>1, <1>2, <1>3, <1>6, <1>8, <1>9, <1>11 DEF Faithful, Pinning, Scoped
<1>13. UNCHANGED <<Tables0, Numbers0, source, studio, count, overlap>>
  BY NothingWritten DEF Mark
<1>14. \A n \in Notebooks : ~Keeps(r, n)'
  <2>1. request'[r] = f
    BY <1>1, <1>6, <1>7, OneRequest
  <2> QED
    BY <1>6, <2>1 DEF Keeps, Holds
<1>15. f.conversation = 0 /\ f.kind \in {"ask", "stream"} => r \in Owing
  BY <1>2, <1>6 DEF Owing
<1> QED
  BY <1>2, <1>6, <1>7, <1>8, <1>12, <1>13, <1>14, <1>15, Turn

LEMMA SearchedStep ==
  ASSUME Inv, NEW r \in Requests, request[r].pc = "context", NEW pc \in {"save", "generate"}, Searched(r, pc),
         UNCHANGED <<notebook, source, chat, shelf, studio, count, overlap>>
  PROVE  Inv'
<1>1. TypeOK /\ Faithful(request[r])
  BY DEF Inv
<1>2. PICK q \in Request : q = request[r]
  BY <1>1 DEF TypeOK
<1>3. PICK f : f = [q EXCEPT !.pc = pc, !.scope = {}, !.picked = {}, !.selected = FALSE]
  OBVIOUS
<1>4. /\ f \in Request /\ f.mark = q.mark /\ f.pc = pc /\ f.kind = q.kind /\ f.no = q.no /\ f.notebook = q.notebook
      /\ f.conversation = q.conversation /\ f.message = q.message /\ f.picked = {}
      /\ f.selected = FALSE /\ f.scope = {} /\ f.error = q.error
  BY <1>3 DEF Request
<1>5. request' = [request EXCEPT ![r] = f]
  BY <1>1, <1>2, <1>3 DEF Searched, TypeOK
<1>6. q.pc = "context" /\ Question(q) /\ Marked(q)
  BY <1>1, <1>2 DEF Faithful, Asking, Watermark
<1>7. Question(f)
  BY <1>4, <1>6 DEF Question, Before, After, Asked, Inside
<1>8. Watermark(f)
  BY <1>4, <1>6 DEF Watermark, Marked
<1>9. Faithful(f)
  BY <1>1, <1>2, <1>4, <1>6, <1>7, <1>8 DEF Faithful, Pinning, Scoped
<1>10. UNCHANGED <<Tables0, Numbers0, source, studio, count, overlap>>
  BY NothingWritten
<1>11. \A n \in Notebooks : ~Keeps(r, n)'
  <2>1. request'[r] = f
    BY <1>1, <1>4, <1>5, OneRequest
  <2> QED
    BY <1>4, <2>1 DEF Keeps, Holds
<1>12. f.conversation = 0 /\ f.kind \in {"ask", "stream"} => r \in Owing
  BY <1>2, <1>4 DEF Owing
<1> QED
  BY <1>2, <1>4, <1>5, <1>6, <1>9, <1>10, <1>11, <1>12, Turn

LEMMA RetrieveStep == ASSUME Inv, NEW r \in Requests, Retrieve(r) PROVE Inv'
<1>1. request[r].pc = "context" /\ UNCHANGED <<notebook, source, chat, shelf, studio, count, overlap>>
  BY DEF Retrieve
<1>2. \/ Failed(r, TRUE) \/ Failed(r, FALSE) \/ Searched(r, "save") \/ Searched(r, "generate")
  BY DEF Retrieve
<1> QED
  BY <1>1, <1>2, FailedQuietly, SearchedStep

LEMMA GotoIs ==
  ASSUME TypeOK, NEW r \in Requests, NEW pc, pc \in {"prepare", "context", "save", "render", "release", "brief", "keep", "summaries"},
         Goto(r, pc)
  PROVE  \E f \in Request :
           /\ request' = [request EXCEPT ![r] = f]
           /\ f = [request[r] EXCEPT !.pc = pc]
           /\ f.pc = pc /\ f.kind = request[r].kind /\ f.no = request[r].no /\ f.notebook = request[r].notebook
           /\ f.conversation = request[r].conversation /\ f.message = request[r].message
           /\ f.picked = request[r].picked /\ f.selected = request[r].selected /\ f.scope = request[r].scope
           /\ f.error = request[r].error /\ f.mark = request[r].mark
<1>1. PICK q \in Request : q = request[r]
  BY DEF TypeOK
<1>2. PICK f : f = [q EXCEPT !.pc = pc]
  OBVIOUS
<1>3. /\ f \in Request /\ f.mark = q.mark /\ f.pc = pc /\ f.kind = q.kind /\ f.no = q.no /\ f.notebook = q.notebook
      /\ f.conversation = q.conversation /\ f.message = q.message /\ f.picked = q.picked
      /\ f.selected = q.selected /\ f.scope = q.scope /\ f.error = q.error
  BY <1>2 DEF Request
<1>4. request' = [request EXCEPT ![r] = f]
  BY <1>1, <1>2 DEF Goto, TypeOK
<1> QED
  BY <1>1, <1>2, <1>3, <1>4

\* The lock is kept on the way.
LEMMA StudioGoto ==
  ASSUME Inv, NEW r \in Requests, request[r].pc \in {"summaries", "brief"}, NEW pc \in {"brief", "keep", "release"}, Goto(r, pc),
         UNCHANGED <<notebook, source, chat, shelf, studio, count, overlap>>
  PROVE  Inv'
<1>1. TypeOK /\ Faithful(request[r])
  BY DEF Inv
<1>2. PICK f \in Request :
           /\ request' = [request EXCEPT ![r] = f]
           /\ f.pc = pc /\ f.kind = request[r].kind /\ f.no = request[r].no /\ f.notebook = request[r].notebook
           /\ f.conversation = request[r].conversation
           /\ f.picked = request[r].picked /\ f.selected = request[r].selected /\ f.scope = request[r].scope
  BY <1>1, GotoIs
<1>3. request'[r] = f
  BY <1>1, <1>2, OneRequest
<1>4. Faithful(f)
  BY <1>1, <1>2 DEF Faithful, Pinning, Scoped, Asking
<1>5. UNCHANGED <<Tables0, Numbers0, source, studio, count, overlap>>
  BY NothingWritten
<1>6. \A n \in Notebooks : Keeps(r, n)' => Keeps(r, n) /\ f.no = request[r].no
  BY <1>2, <1>3 DEF Keeps, Holds
<1>7. f.conversation = 0 /\ f.kind \in {"ask", "stream"} => r \in Owing
  BY <1>2 DEF Owing
<1> QED
  BY <1>2, <1>4, <1>5, <1>6, <1>7, Turn

LEMMA SummariesStep == ASSUME Inv, NEW r \in Requests, Summaries(r) PROVE Inv'
BY StudioGoto DEF Summaries

LEMMA BriefStep == ASSUME Inv, NEW r \in Requests, Brief(r) PROVE Inv'
BY StudioGoto DEF Brief

LEMMA EvidenceStep == ASSUME Inv, NEW r \in Requests, Evidence(r) PROVE Inv'
<1>1. TypeOK /\ Faithful(request[r])
  BY DEF Inv
<1>2. PICK q \in Request : q = request[r]
  BY <1>1 DEF TypeOK
<1>3. PICK s \in q.scope :
        request' = [request EXCEPT ![r].scope = @ \ {s}, ![r].pc = IF q.scope = {s} THEN "model" ELSE @]
  BY <1>2 DEF Evidence
<1>4. q.pc = "evidence"
  BY <1>2 DEF Evidence
<1>5. PICK pc \in {"model", "evidence"} : pc = IF q.scope = {s} THEN "model" ELSE q.pc
  BY <1>4
<1>6. PICK scope \in SUBSET Sources : scope = q.scope \ {s}
  BY DEF Request
<1>7. PICK f : f = [q EXCEPT !.scope = scope, !.pc = pc]
  OBVIOUS
<1>8. /\ f \in Request /\ f.pc = pc /\ f.kind = q.kind /\ f.no = q.no /\ f.notebook = q.notebook
      /\ f.conversation = q.conversation /\ f.picked = q.picked /\ f.selected = q.selected /\ f.scope = scope
  BY <1>7 DEF Request
<1>9. request' = [request EXCEPT ![r] = f]
  BY <1>1, <1>2, <1>3, <1>5, <1>6, <1>7 DEF TypeOK
<1>10. Scoped(f)
  BY <1>1, <1>2, <1>6, <1>8 DEF Faithful, Scoped
<1>11. Faithful(f)
  BY <1>1, <1>2, <1>4, <1>8, <1>10 DEF Faithful, Pinning, Asking
<1>12. UNCHANGED <<Tables0, Numbers0, source, studio, count, overlap>>
  BY NothingWritten DEF Evidence
<1>13. \A n \in Notebooks : ~Keeps(r, n)'
  <2>1. request'[r] = f
    BY <1>1, <1>8, <1>9, OneRequest
  <2> QED
    BY <1>8, <2>1 DEF Keeps, Holds
<1>14. f.conversation = 0 /\ f.kind \in {"ask", "stream"} => r \in Owing
  BY <1>2, <1>8 DEF Owing
<1> QED
  BY <1>2, <1>4, <1>8, <1>9, <1>11, <1>12, <1>13, <1>14, Turn

LEMMA EndSteps == ASSUME Inv, NEW r \in Requests, Render(r) \/ Leave(r) \/ Tool(r) PROVE Inv'
BY Finish DEF Render, Leave, Tool

-----------------------------------------------------------------------------
(* Questions and answers.                                                  *)

LEMMA AttachStep == ASSUME Inv, NEW r \in Requests, Attach(r) PROVE Inv'
<1>1. TypeOK /\ Linked /\ Told /\ Owed /\ Faithful(request[r])
  BY DEF Inv
<1>2. PICK q \in Request : q = request[r]
  BY <1>1 DEF TypeOK
<1>3. PICK f \in Request :
           /\ request' = [request EXCEPT ![r] = f]
           /\ f.pc = "render" /\ f.kind = q.kind /\ f.no = q.no /\ f.notebook = q.notebook
           /\ f.conversation = q.conversation /\ f.message = q.message
           /\ f.picked = q.picked /\ f.selected = q.selected /\ f.scope = q.scope
           /\ f.error = q.error /\ f.mark = q.mark
  BY <1>1, <1>2, GotoIs DEF Attach
<1>4. /\ UNCHANGED <<notebook, source, conversation, messages, notes, feedback, lock, stale, loose, count, overlap>>
      /\ events' = {IF Attached(r, e) THEN [e EXCEPT !.message = q.message] ELSE e : e \in events}
  BY <1>2 DEF Attach, shelf, studio
<1>5. q.message \in MessageNo /\ q.pc = "attach" /\ Question(q)
  BY <1>1, <1>2 DEF Request, Attach, Faithful, Asking
<1>6. \A x \in events' : \E e \in events :
        /\ x \in Event /\ x.id = e.id /\ x.by = e.by /\ x.notebook = e.notebook /\ x.conversation = e.conversation
        /\ x = e \/ (Attached(r, e) /\ x = [e EXCEPT !.message = q.message] /\ x.message = q.message)
  <2> SUFFICES ASSUME NEW x \in events'
               PROVE  \E e \in events :
                        /\ x \in Event /\ x.id = e.id /\ x.by = e.by /\ x.notebook = e.notebook /\ x.conversation = e.conversation
                        /\ x = e \/ (Attached(r, e) /\ x = [e EXCEPT !.message = q.message] /\ x.message = q.message)
    OBVIOUS
  <2>1. PICK e \in events : x = IF Attached(r, e) THEN [e EXCEPT !.message = q.message] ELSE e
    BY <1>4
  <2>2. e \in Event
    BY <1>1 DEF TypeOK
  <2>3. CASE ~Attached(r, e)
    BY <2>1, <2>2, <2>3
  <2>4. CASE Attached(r, e)
    <3>1. x = [e EXCEPT !.message = q.message]
      BY <2>1, <2>4
    <3>2. x \in Event /\ x.id = e.id /\ x.by = e.by /\ x.notebook = e.notebook /\ x.conversation = e.conversation /\ x.message = q.message
      BY <1>5, <2>2, <3>1 DEF Event
    <3> QED
      BY <2>4, <3>1, <3>2
  <2> QED
    BY <2>3, <2>4
<1>7. TypeOK'
  <2>1. events' \subseteq Event
    BY <1>6
  <2>2. request' \in [Requests -> Request]
    BY <1>1, <1>3, OneRequest
  <2> QED
    BY <1>1, <1>4, <2>1, <2>2 DEF TypeOK
<1>8. Grown
  BY <1>1, <1>4, Numbers DEF Grown
<1>9. Told'
  BY <1>1, <1>4, <1>7, <1>8, ToldSame
<1>10. Linked'
  <2>1. \A x \in events' : x.message # 0 => Exists(x.message)'
    <3> SUFFICES ASSUME NEW x \in events', x.message # 0 PROVE \E m \in messages' : m.id = x.message
      BY DEF Exists
    <3>1. PICK e \in events : x.id = e.id /\ x.conversation = e.conversation
            /\ (x = e \/ (Attached(r, e) /\ x.message = q.message))
      BY <1>6
    <3>2. CASE x = e
      BY <1>1, <1>4, <3>2 DEF Linked, Exists
    <3>3. CASE Attached(r, e) /\ x.message = q.message
      <4>1. e.conversation = q.conversation /\ q.conversation # 0
        BY <1>2, <1>5, <3>3 DEF Attached, Question, After
      <4>2. There(q.conversation)
        BY <1>1, <4>1 DEF Linked
      <4> QED
        BY <1>4, <1>5, <3>3, <4>2 DEF Question
    <3> QED
      BY <3>1, <3>2, <3>3
  <2>2. \A x \in events' : /\ x.id \in 1 .. count'.events
                           /\ x.conversation # 0 => There(x.conversation)' /\ conversation'[x.conversation].notebook = x.notebook
    <3> SUFFICES ASSUME NEW x \in events'
                 PROVE /\ x.id \in 1 .. count'.events
                       /\ x.conversation # 0 => There(x.conversation)' /\ conversation'[x.conversation].notebook = x.notebook
      OBVIOUS
    <3>1. PICK e \in events : x.id = e.id /\ x.notebook = e.notebook /\ x.conversation = e.conversation
      BY <1>6
    <3>2. /\ e.id \in 1 .. count.events
          /\ e.conversation # 0 => There(e.conversation) /\ conversation[e.conversation].notebook = e.notebook
      BY <1>1 DEF Linked
    <3> QED
      BY <1>4, <3>1, <3>2 DEF There
  <2>3. \A d, e \in events' : d.id = e.id => d = e
    <3> SUFFICES ASSUME NEW d \in events', NEW e \in events', d.id = e.id PROVE d = e
      OBVIOUS
    <3>1. PICK a \in events : a.id = d.id /\ d = IF Attached(r, a) THEN [a EXCEPT !.message = q.message] ELSE a
      BY <1>4, <1>6
    <3>2. PICK b \in events : b.id = e.id /\ e = IF Attached(r, b) THEN [b EXCEPT !.message = q.message] ELSE b
      BY <1>4, <1>6
    <3>3. a = b
      BY <1>1, <3>1, <3>2 DEF Linked
    <3> QED
      BY <3>1, <3>2, <3>3
  <2>4. /\ \A c \in Conversations : There(c)' => There(c)
        /\ \A m \in messages : There(m.conversation) => There(m.conversation)'
        /\ \A x \in notes : Live(x.notebook) => Live(x.notebook)'
        /\ \A c \in Conversations : Live(conversation[c].notebook) => Live(conversation[c].notebook)'
        /\ \A f1 \in feedback : Exists(f1.message) => Exists(f1.message)'
    BY <1>4 DEF There, Live, Exists
  <2> QED
    BY <1>1, <1>4, <2>1, <2>2, <2>3, <2>4 DEF Linked
<1>11. \A o \in Requests : Untouched(o)
  <2>1. \A x \in events' : \E e \in events : e.id = x.id /\ e.by = x.by
    BY <1>6
  <2> QED
    BY <1>4, <2>1 DEF Untouched, Quiet, Same
<1>12. Owed'
  <2>1. f.conversation = 0 /\ f.kind \in {"ask", "stream"} => r \in Owing
    BY <1>2, <1>3 DEF Owing
  <2> QED
    BY <1>1, <1>3, <1>4, <1>7, <1>8, <2>1, OwingSame
<1>13. Faithful(q)'
  BY <1>1, <1>2, <1>7, <1>8, <1>10, <1>11, Sees, Stays
<1>14. Faithful(f)'
  BY <1>3, <1>5, <1>13 DEF Faithful, Question, Watermark, Pinning, Scoped, Before, After, Asked, Inside, Asking, Marked, Gone
<1>15. \A n \in Notebooks : Live(n)' => Live(n)
  BY <1>4 DEF Live
<1> QED
  BY <1>2, <1>3, <1>4, <1>5, <1>7, <1>8, <1>9, <1>10, <1>11, <1>12, <1>14, <1>15, Act

LEMMA Recorded ==
  ASSUME Inv, NEW r \in Requests, Generate(r), request' \in [Requests -> Request]
  PROVE  /\ TypeOK' /\ Linked' /\ Told' /\ Grown /\ count'.conversations = count.conversations
         /\ UNCHANGED <<lock, stale, loose>> /\ \A n \in Notebooks : Live(n)' => Live(n)
         /\ \A o \in Requests : Untouched(o)
<1>1. TypeOK /\ Linked /\ Told /\ Apart /\ Faithful(request[r])
  BY DEF Inv
<1>2. PICK q \in Request : q = request[r]
  BY <1>1 DEF TypeOK
<1>3. UNCHANGED <<notebook, source, conversation, messages, notes, feedback, lock, stale, loose, overlap>>
  BY DEF Generate, shelf, studio
<1>4. PICK k \in Nat : k = count.events + 1
  BY <1>1, Numbers
<1>5. PICK e : e = [id |-> k, notebook |-> q.notebook, message |-> 0,
                    conversation |-> q.conversation, kind |-> q.kind, by |-> q.no]
  OBVIOUS
<1>6. q.pc = "generate" /\ q.kind \in {"ask", "stream"} /\ q.no <= count.requests
  BY <1>1, <1>2 DEF Generate, Faithful, Asking, Question
<1>7. /\ e \in Event /\ e.id = k /\ e.notebook = q.notebook /\ e.message = 0 /\ e.conversation = q.conversation
      /\ e.by = q.no
  BY <1>5, <1>6 DEF Event, Request, MessageNo
<1>8. CASE ~(Live(q.notebook) /\ There(q.conversation))
  <2>1. UNCHANGED <<count, events>>
    BY <1>2, <1>8 DEF Generate
  <2>2. TypeOK'
    BY <1>1, <1>3, <2>1 DEF TypeOK
  <2>3. Grown
    BY <1>1, <1>3, <2>1, Numbers DEF Grown
  <2>4. Linked' /\ Told'
    BY <1>1, <1>3, <2>1, <2>2, <2>3, LinkedSame, ToldSame DEF Tables0, Numbers0
  <2> QED
    BY <1>3, <2>1, <2>2, <2>3, <2>4, QuietTables DEF Live
<1>9. CASE Live(q.notebook) /\ There(q.conversation)
  <2>1. count' = [count EXCEPT !.events = k] /\ events' = events \cup {e}
    BY <1>2, <1>4, <1>5, <1>9 DEF Generate
  <2>2. /\ count'.requests = count.requests /\ count'.faults = count.faults /\ count'.conversations = count.conversations
        /\ count'.messages = count.messages /\ count'.notes = count.notes /\ count'.events = k
        /\ count' \in [requests : Number, faults : 0 .. MaxFaults, conversations : Conversations,
                messages : MessageNo, notes : Nat, events : Nat]
    BY <1>1, <1>4, <2>1 DEF TypeOK
  <2>3. TypeOK'
    BY <1>1, <1>3, <1>7, <2>1, <2>2 DEF TypeOK
  <2>4. Grown
    BY <1>1, <1>3, <2>2, Numbers DEF Grown
  <2>5. Told'
    BY <1>1, <1>3, <2>3, <2>4, ToldSame
  <2>6. conversation[q.conversation].notebook = q.notebook
    BY <1>1, <1>2, <1>6, <1>9 DEF Faithful, Asking, Question, After, Inside
  <2>7. Linked'
    <3>1. \A x \in events' :
            /\ x.id \in 1 .. count'.events
            /\ x.message # 0 => Exists(x.message)'
            /\ x.conversation # 0 => There(x.conversation)' /\ conversation'[x.conversation].notebook = x.notebook
      <4>1. \A x \in events : x.id \in 1 .. k
        BY <1>1, <1>4, Numbers DEF Linked
      <4>2. k \in 1 .. k
        BY <1>1, <1>4, Numbers
      <4>3. \A x \in events : /\ x.message # 0 => Exists(x.message)'
                              /\ x.conversation # 0 => There(x.conversation)' /\ conversation'[x.conversation].notebook = x.notebook
        BY <1>1, <1>3 DEF Linked, Exists, There
      <4>4. There(q.conversation)'
        BY <1>3, <1>9 DEF There
      <4> QED
        BY <1>3, <1>7, <2>1, <2>2, <2>6, <4>1, <4>2, <4>3, <4>4
    <3>2. \A a, b \in events' : a.id = b.id => a = b
      <4>1. \A x \in events : x.id # k
        BY <1>1, <1>4, Numbers DEF Linked
      <4> QED
        BY <1>1, <1>7, <2>1, <4>1 DEF Linked
    <3>3. /\ \A c \in Conversations : There(c)' => There(c)
          /\ \A m \in messages : There(m.conversation) => There(m.conversation)'
          /\ \A x \in notes : Live(x.notebook) => Live(x.notebook)'
          /\ \A c \in Conversations : Live(conversation[c].notebook) => Live(conversation[c].notebook)'
          /\ \A f1 \in feedback : Exists(f1.message) => Exists(f1.message)'
      BY <1>3 DEF There, Live, Exists
    <3> QED
      BY <1>1, <1>3, <2>2, <3>1, <3>2, <3>3 DEF Linked
  <2>8. ASSUME NEW o \in Requests, request[o].pc # "idle", NEW j \in Number, j = request[o].no PROVE Quiet(j)
    <3>1. \A x \in events' : \/ x.by = j \/ Overlapped(x.by, j)'
                             \/ \E y \in events : y.id = x.id /\ y.by = x.by
      <4>1. o # r => Overlapped(q.no, j)'
        <5>1. o # r => Overlapped(q.no, j)
          BY <1>1, <1>2, <1>6, <2>8 DEF Apart, Overlapped
        <5> QED
          BY <1>3, <5>1 DEF Overlapped
      <4>2. o = r => e.by = j
        BY <1>2, <1>7, <2>8
      <4> QED
        BY <1>7, <2>1, <4>1, <4>2 DEF Overlapped
    <3> QED
      BY <1>3, <3>1 DEF Quiet, Same
  <2> QED
    BY <1>3, <2>2, <2>3, <2>4, <2>5, <2>7, <2>8 DEF Live, Untouched
<1> QED
  BY <1>8, <1>9

LEMMA GenerateStep == ASSUME Inv, NEW r \in Requests, Generate(r) PROVE Inv'
<1>1. TypeOK /\ Linked /\ Owed /\ Faithful(request[r])
  BY DEF Inv
<1>2. PICK q \in Request : q = request[r]
  BY <1>1 DEF TypeOK
<1>3. q.pc = "generate"
  BY <1>2 DEF Generate
<1>4. CASE Goto(r, "save")
  <2>1. PICK f \in Request :
           /\ request' = [request EXCEPT ![r] = f]
           /\ f.pc = "save" /\ f.kind = q.kind /\ f.no = q.no /\ f.notebook = q.notebook
           /\ f.conversation = q.conversation /\ f.message = q.message
           /\ f.picked = q.picked /\ f.selected = q.selected /\ f.scope = q.scope
           /\ f.error = q.error /\ f.mark = q.mark
    BY <1>1, <1>2, <1>4, GotoIs
  <2>2. request' \in [Requests -> Request]
    BY <1>1, <2>1, OneRequest
  <2>3. Faithful(q)'
    BY <1>1, <1>2, <1>3, <2>2, Recorded, Sees, Stays
  <2>4. Faithful(f)'
    BY <1>3, <2>1, <2>3 DEF Faithful, Question, Watermark, Pinning, Scoped, Before, After, Asked, Inside, Asking, Marked, Gone
  <2>5. Owed'
    <3>1. f.conversation = 0 /\ f.kind \in {"ask", "stream"} => r \in Owing
      BY <1>2, <2>1 DEF Owing
    <3> QED
      BY <1>1, <2>1, <2>2, <3>1, Recorded, OwingSame
  <2> QED
    BY <1>2, <1>3, <2>1, <2>2, <2>4, <2>5, Recorded, Act
<1>5. CASE Failed(r, FALSE)
  <2>1. request' \in [Requests -> Request]
    <3>1. CASE End(r)
      BY <1>1, <3>1, EndIs, RestIs, OneRequest
    <3>2. CASE ~End(r)
      <4>1. PICK f \in Request : request' = [request EXCEPT ![r] = f]
        BY <1>1, <1>5, <3>2, FailedIs
      <4> QED
        BY <1>1, <4>1, OneRequest
    <3> QED
      BY <3>1, <3>2
  <2> QED
    BY <1>2, <1>3, <1>5, <2>1, Recorded, FailedStep
<1> QED
  BY <1>4, <1>5 DEF Generate

\* A message more, in a conversation that is there.
LEMMA Sent ==
  ASSUME Inv, TypeOK', NEW r \in Requests, NEW q \in Request, q = request[r], q.pc # "idle",
         NEW k, k = count.messages + 1, NEW m \in Message, m.id = k, m.by = q.no,
         messages' = messages \cup {m}, There(m.conversation)',
         UNCHANGED <<notebook, notes, feedback, events, overlap>>,
         count'.requests = count.requests, count'.faults = count.faults, count'.messages = k,
         count'.notes = count.notes, count'.events = count.events, count.conversations <= count'.conversations,
         \A c \in Conversations : c <= count.conversations => conversation'[c].notebook = conversation[c].notebook,
         \A c \in Conversations : There(c)' => c <= count'.conversations /\ Live(conversation[c].notebook)'
  PROVE  /\ Linked' /\ Grown /\ PinnedOnce'
         /\ \A o \in Requests : o # r => Untouched(o)
<1>1. TypeOK /\ Linked /\ Told /\ Apart /\ Faithful(q)
  BY DEF Inv
<1>2. k \in Nat /\ k \notin 1 .. count.messages /\ k \in 1 .. k /\ 1 .. count.messages \subseteq 1 .. k /\ count.messages <= k
  BY <1>1, Numbers
<1>3. Grown
  BY <1>1, <1>2, Numbers DEF Grown
<1>4. PinnedOnce'
  BY <1>1 DEF Told, PinnedOnce, Overlapped
<1>5. \A o \in messages : o.id \in 1 .. count.messages /\ o.id # k
  BY <1>1, <1>2 DEF Linked
<1>6. \A o \in messages : There(o.conversation)' /\ conversation'[o.conversation].notebook = conversation[o.conversation].notebook
  <2> SUFFICES ASSUME NEW o \in messages
               PROVE  There(o.conversation)' /\ conversation'[o.conversation].notebook = conversation[o.conversation].notebook
    OBVIOUS
  <2>1. o.conversation \in Conversations /\ There(o.conversation) /\ o.conversation <= count.conversations
    BY <1>1 DEF TypeOK, Message, Linked
  <2> QED
    BY <2>1 DEF There
<1>7. Linked'
  <2>1. \A o \in messages' : o.id \in 1 .. count'.messages /\ There(o.conversation)' /\ o.by <= count'.requests
    BY <1>1, <1>2, <1>5, <1>6 DEF Linked, Faithful
  <2>2. \A x \in notes' :
       /\ x.id \in 1 .. count'.notes /\ Live(x.notebook)'
       /\ x.message # 0 => \E o \in messages' : o.id = x.message /\ conversation'[o.conversation].notebook = x.notebook
    <3>1. \A x \in notes : Live(x.notebook) => Live(x.notebook)'
      BY DEF Live
    <3> QED
      BY <1>1, <1>6, <3>1 DEF Linked
  <2>3. \A f \in feedback' : Exists(f.message)'
    BY <1>1 DEF Linked, Exists
  <2>4. \A e \in events' :
       /\ e.id \in 1 .. count'.events
       /\ e.message # 0 => Exists(e.message)'
       /\ e.conversation # 0 => There(e.conversation)' /\ conversation'[e.conversation].notebook = e.notebook
    <3> SUFFICES ASSUME NEW e \in events
                 PROVE  /\ e.id \in 1 .. count'.events
                        /\ e.message # 0 => Exists(e.message)'
                        /\ e.conversation # 0 => There(e.conversation)' /\ conversation'[e.conversation].notebook = e.notebook
      OBVIOUS
    <3>1. e.id \in 1 .. count'.events /\ (e.message # 0 => Exists(e.message)')
      BY <1>1 DEF Linked, Exists
    <3>2. e.conversation # 0 => There(e.conversation) /\ conversation[e.conversation].notebook = e.notebook
                                /\ e.conversation \in Conversations
      BY <1>1, BoundAssumption DEF Linked, TypeOK, Event, Conversations
    <3>3. e.conversation # 0 => e.conversation <= count.conversations
      BY <1>1, <3>2 DEF Linked
    <3> QED
      BY <3>1, <3>2, <3>3 DEF There
  <2>5. \A a, b \in messages' : a.id = b.id => a = b
    BY <1>1, <1>5 DEF Linked
  <2>6. \A c \in Conversations : There(c)' => c <= count'.conversations /\ Live(conversation[c].notebook)'
    OBVIOUS
  <2>7. /\ \A x, y \in notes' : x.id = y.id => x = y
        /\ \A d, e \in events' : d.id = e.id => d = e
    BY <1>1 DEF Linked
  <2> QED
    BY <2>1, <2>2, <2>3, <2>4, <2>5, <2>6, <2>7 DEF Linked
<1>8. ASSUME NEW o \in Requests, o # r, request[o].pc # "idle", NEW j \in Number, j = request[o].no PROVE Quiet(j)
  <2>1. m.by # j
    BY <1>1, <1>8 DEF Inv, Apart
  <2>2. ~(m.id <= count.messages)
    BY <1>1, <1>2, Numbers
  <2>3. \A a \in messages' : a.by = j \/ a.id <= count.messages => \E b \in messages : Same(b, a)
    BY <2>1, <2>2 DEF Same
  <2>4. \A a \in messages : \E b \in messages' : Same(b, a)
    BY DEF Same
  <2> QED
    BY <2>3, <2>4 DEF Quiet
<1> QED
  BY <1>3, <1>4, <1>7, <1>8 DEF Untouched

LEMMA SaveAnswerStep == ASSUME Inv, NEW r \in Requests, SaveAnswer(r) PROVE Inv'
<1>1. TypeOK /\ Linked /\ Told /\ Owed /\ Faithful(request[r])
  BY DEF Inv
<1>2. PICK q \in Request : q = request[r]
  BY <1>1 DEF TypeOK
<1>3. q.pc = "save" /\ Question(q) /\ q.kind \in {"ask", "stream"} /\ q.no # 0 /\ q.conversation # 0
      /\ q.no <= count.requests /\ Watermark(q)
  BY <1>1, <1>2 DEF SaveAnswer, Faithful, Asking, Question, After
<1>4. UNCHANGED <<notebook, source, events, notes, feedback, lock, stale, loose, overlap>>
  BY DEF SaveAnswer, shelf, studio
<1>5. CASE ~There(q.conversation)
  <2>1. Failed(r, FALSE) /\ UNCHANGED <<messages, conversation, count>>
    BY <1>2, <1>5 DEF SaveAnswer
  <2> QED
    BY <1>2, <1>3, <1>4, <2>1, FailedQuietly DEF chat, shelf, studio
<1>6. CASE There(q.conversation)
  <2>1. PICK k \in Nat : k = count.messages + 1
    BY <1>1, Numbers
  <2>2. PICK m : m = [id |-> k, conversation |-> q.conversation, role |-> "assistant", error |-> q.error,
                      followups |-> FALSE, kind |-> q.kind, by |-> q.no]
    OBVIOUS
  <2>3. q.conversation \in Conversations
    BY <1>3, BoundAssumption DEF Request, Conversations
  <2>4. /\ m \in Message /\ m.id = k /\ m.conversation = q.conversation /\ m.role = "assistant"
        /\ m.error = q.error /\ m.kind = q.kind /\ m.by = q.no
    BY <1>3, <2>2, <2>3 DEF Message, Request, MessageNo
  <2>5. PICK title : title = Title(q.conversation)
    OBVIOUS
  <2>6. PICK f : f = [q EXCEPT !.pc = "attach", !.message = k]
    OBVIOUS
  <2>7. /\ f \in Request /\ f.mark = q.mark /\ f.pc = "attach" /\ f.kind = q.kind /\ f.no = q.no /\ f.notebook = q.notebook
        /\ f.conversation = q.conversation /\ f.message = k /\ f.picked = q.picked
        /\ f.selected = q.selected /\ f.scope = q.scope /\ f.error = q.error
    BY <2>1, <2>6 DEF Request, MessageNo
  <2>8. /\ messages' = messages \cup {m}
        /\ conversation' = [conversation EXCEPT ![q.conversation].title = title]
        /\ count' = [count EXCEPT !.messages = k]
        /\ request' = [request EXCEPT ![r] = f]
    <3>1. /\ messages' = messages \cup {m}
          /\ conversation' = [conversation EXCEPT ![q.conversation].title = title]
          /\ count' = [count EXCEPT !.messages = k]
          /\ request' = [request EXCEPT ![r].pc = "attach", ![r].message = k]
      BY <1>2, <1>6, <2>1, <2>2, <2>5 DEF SaveAnswer
    <3> QED
      BY <1>1, <1>2, <2>6, <3>1 DEF TypeOK
  <2>9. title \in {"default", "question", "user"}
    BY <1>1, <2>3, <2>5 DEF Title, TypeOK, Conversation
  <2>10. /\ conversation' \in [Conversations -> Conversation]
         /\ \A c \in Conversations : conversation'[c].notebook = conversation[c].notebook
    BY <1>1, <2>3, <2>8, <2>9 DEF TypeOK, Conversation
  <2>11. /\ count'.requests = count.requests /\ count'.faults = count.faults /\ count'.conversations = count.conversations
         /\ count'.messages = k /\ count'.notes = count.notes /\ count'.events = count.events
         /\ count' \in [requests : Number, faults : 0 .. MaxFaults, conversations : Conversations,
                 messages : MessageNo, notes : Nat, events : Nat]
    BY <1>1, <2>1, <2>8 DEF TypeOK, MessageNo
  <2>12. TypeOK'
    <3>1. request' \in [Requests -> Request]
      BY <1>1, <2>7, <2>8, OneRequest
    <3> QED
      BY <1>1, <1>4, <2>4, <2>8, <2>10, <2>11, <3>1 DEF TypeOK
  <2>13. \A c \in Conversations : There(c)' <=> There(c)
    BY <2>10 DEF There
  <2>14. There(m.conversation)'
    BY <1>6, <2>3, <2>4, <2>13
  <2>15. \A c \in Conversations : There(c)' => c <= count'.conversations /\ Live(conversation[c].notebook)'
    BY <1>1, <1>4, <2>10, <2>11, <2>13 DEF Linked, Live
  <2>16. count.conversations <= count'.conversations
    BY <1>1, <2>11, Numbers
  <2>17. Linked' /\ Grown /\ PinnedOnce' /\ \A o \in Requests : o # r => Untouched(o)
    BY <1>2, <1>3, <1>4, <2>1, <2>4, <2>8, <2>10, <2>11, <2>12, <2>14, <2>15, <2>16, Sent
  <2>18. Asked(q) \/ (q.error /\ (q.kind = "stream" \/ Broken))
    BY <1>3 DEF Question, After
  <2>19. Broken' <=> Broken
    BY <2>11 DEF Broken
  <2>20. Told'
    <3>1. \A a, b \in messages' : a.role = "user" /\ b.role = "user" /\ a.by = b.by /\ a.by # 0 => a = b
      BY <1>1, <2>4, <2>8 DEF Told
    <3>2. \A b \in messages : b.role = "assistant" /\ b.by = m.by => m.error # b.error /\ Broken
      <4> SUFFICES ASSUME NEW b \in messages, b.role = "assistant", b.by = m.by PROVE m.error # b.error /\ Broken
        OBVIOUS
      <4>1. q.error /\ ~b.error /\ Broken
        BY <1>3, <2>4 DEF Question
      <4> QED
        BY <2>4, <4>1
    <3>3. \A a, b \in messages' :
            a.role = "assistant" /\ b.role = "assistant" /\ a.by = b.by /\ a.by # 0 /\ a # b => a.error # b.error /\ Broken'
      BY <1>1, <2>4, <2>8, <2>19, <3>2 DEF Told
    <3>4. AnswersFollowQuestions'
      <4> SUFFICES ASSUME NEW a \in messages', a.role = "assistant"
                   PROVE  \/ \E b \in messages' : b.role = "user" /\ b.by = a.by /\ b.conversation = a.conversation /\ b.id < a.id
                          \/ a.error /\ (a.kind = "stream" \/ Broken')
        BY DEF AnswersFollowQuestions, Broken
      <4>1. CASE a \in messages
        BY <1>1, <2>8, <2>19, <4>1 DEF Told, AnswersFollowQuestions, Broken
      <4>2. CASE a = m /\ Asked(q)
        <5>1. PICK b \in messages : b.by = q.no /\ b.role = "user" /\ b.conversation = q.conversation
          BY <1>6, <4>2 DEF Asked
        <5>2. b.id < k
          BY <1>1, <2>1, Numbers DEF Linked
        <5> QED
          BY <2>4, <2>8, <4>2, <5>1, <5>2
      <4>3. CASE a = m /\ q.error /\ (q.kind = "stream" \/ Broken)
        BY <2>4, <2>19, <4>3
      <4> QED
        BY <2>8, <2>18, <4>1, <4>2, <4>3
    <3> QED
      BY <2>17, <3>1, <3>3, <3>4 DEF Told
  <2>21. Faithful(f)'
    <3>1. Asked(q) => Asked(f)'
      BY <2>3, <2>7, <2>8, <2>13 DEF Asked
    <3>2. Inside(q) => Inside(f)'
      BY <2>3, <2>7, <2>10, <2>13 DEF Inside
    <3>3. ~f.error => \A a \in messages' : a.by = f.no /\ a.role = "assistant" => ~a.error
      BY <1>3, <2>4, <2>7, <2>8 DEF Question
    <3>4. f.conversation <= count'.conversations
      BY <1>3, <2>7, <2>11 DEF Question
    <3>5. /\ ~f.error => Asked(f)' /\ Inside(f)'
          /\ f.error => Asked(f)' \/ f.kind = "stream" \/ Broken'
      BY <1>3, <2>7, <2>19, <3>1, <3>2 DEF Question, After
    <3>6. m \in messages' /\ m.by = f.no /\ m.role = "assistant" /\ m.id = f.message /\ m.conversation = f.conversation
      BY <2>4, <2>7, <2>8
    <3>7. Question(f)'
      BY <1>3, <2>7, <3>3, <3>4, <3>5, <3>6 DEF Question, Before, After
    <3>8. Marked(f)' <=> Marked(q)
      BY <1>4, <2>7 DEF Marked, Overlapped
    <3>9. Watermark(f)'
      BY <1>3, <2>3, <2>7, <2>10, <2>19, <3>8 DEF Watermark
    <3>10. Pinning(f)' /\ Scoped(f)'
      BY <1>1, <1>2, <2>7 DEF Faithful, Pinning, Scoped
    <3>11. /\ f.no <= count'.requests /\ f.pc # "idle" /\ f.no # 0
           /\ f.notebook \in Notebooks /\ notebook'[f.notebook].st # "unused"
      BY <1>1, <1>2, <1>3, <1>4, <2>7, <2>11 DEF Faithful
    <3> QED
      BY <3>7, <3>9, <3>10, <3>11 DEF Faithful
  <2>22. Owed'
    <3>1. f.conversation # 0
      BY <1>3, <2>7
    <3> QED
      BY <1>1, <2>7, <2>8, <2>11, <2>12, <2>17, <3>1, OwingSame
  <2>23. \A n \in Notebooks : Live(n)' => Live(n)
    BY <1>4 DEF Live
  <2> QED
    BY <1>2, <1>3, <1>4, <2>7, <2>8, <2>12, <2>17, <2>20, <2>21, <2>22, <2>23, Act
<1> QED
  BY <1>5, <1>6

\* What a known question of a living notebook is, once it is prepared.
LEMMA PrepareStep == ASSUME Inv, NEW r \in Requests, Prepare(r) PROVE Inv'
<1>1. TypeOK /\ Linked /\ Told /\ Owed /\ Faithful(request[r])
  BY DEF Inv
<1>2. PICK q \in Request : q = request[r]
  BY <1>1 DEF TypeOK
<1>3. /\ q.pc \in {"prepare", "again"} /\ Question(q) /\ q.kind \in {"ask", "stream"} /\ q.no # 0 /\ Watermark(q)
      /\ q.no <= count.requests /\ q.notebook \in Notebooks /\ notebook[q.notebook].st # "unused" /\ Scoped(q)
      /\ q.conversation <= count.conversations
  BY <1>1, <1>2 DEF Prepare, Faithful, Asking, Question
<1>4. UNCHANGED <<notebook, source, notes, feedback, lock, stale, loose, overlap>>
  BY DEF Prepare, shelf, studio
<1>5. PICK c : c = IF q.conversation = 0 THEN count.conversations + 1 ELSE q.conversation
  OBVIOUS
<1>6. PICK refused \in BOOLEAN : refused = Refused(q.notebook, q.picked, q.selected)
  BY DEF Refused, Request
<1> DEFINE known == Live(q.notebook) /\ (q.conversation # 0 => conversation[c].notebook = q.notebook)
<1>7. CASE ~known
  <2>1. Failed(r, TRUE) /\ UNCHANGED <<chat, count>>
    BY <1>2, <1>5, <1>7 DEF Prepare
  <2>2. q.pc = "prepare" => IF q.conversation = 0 THEN notebook[q.notebook].st = "deleted"
                            ELSE conversation[q.conversation].notebook # q.notebook
    <3>1. CASE q.conversation = 0
      <4>1. notebook[q.notebook] \in Notebook
        BY <1>1, <1>3 DEF TypeOK
      <4> QED
        BY <1>3, <1>7, <3>1, <4>1 DEF Live, Notebook
    <3>2. CASE q.conversation # 0 /\ conversation[q.conversation].notebook = q.notebook
      <4>1. q.conversation \in Conversations
        BY <3>2, BoundAssumption DEF Request, Conversations
      <4>2. There(q.conversation)
        BY <1>3, <3>2, TableAssumption DEF There
      <4> QED
        BY <1>1, <1>5, <1>7, <3>2, <4>1, <4>2 DEF Linked
    <3> QED
      BY <3>1, <3>2
  <2> QED
    BY <1>2, <1>3, <1>4, <2>1, <2>2, FailedQuietly DEF shelf, studio
<1>8. CASE known
  <2>1. PICK k \in Nat : k = count.messages + 1
    BY <1>1, Numbers
  <2>2. c \in Conversations /\ c # 0 /\ (q.conversation = 0 => c > count.conversations)
        /\ (q.conversation # 0 => c = q.conversation /\ c <= count.conversations)
    <3>1. CASE q.conversation = 0
      <4>1. r \in Owing
        BY <1>2, <1>3, <3>1 DEF Owing
      <4>2. IsFiniteSet(Owing)
        BY PoolAssumption, FS_Subset DEF Owing
      <4>3. Cardinality(Owing) \in Nat /\ Cardinality(Owing) # 0
        BY <4>1, <4>2, FS_CardinalityType, FS_EmptySet
      <4>4. count.conversations + 1 <= count.requests /\ count.requests \in 0 .. MaxRequests /\ count.conversations \in Nat
        BY <1>1, <4>3, Numbers DEF Owed, Number
      <4> QED
        BY <1>5, <3>1, <4>4, BoundAssumption DEF Conversations
    <3>2. CASE q.conversation # 0
      BY <1>3, <1>5, <3>2, BoundAssumption DEF Request, Conversations
    <3> QED
      BY <3>1, <3>2
  <2>3. PICK m : m = [id |-> k, conversation |-> c, role |-> "user", error |-> FALSE,
                      followups |-> FALSE, kind |-> q.kind, by |-> q.no]
    OBVIOUS
  <2>4. /\ m \in Message /\ m.id = k /\ m.conversation = c /\ m.role = "user" /\ m.by = q.no
    BY <1>3, <2>2, <2>3 DEF Message, Request, MessageNo
  <2>5. PICK pc \in {"save", "mark", "context"} :
          pc = IF q.pc = "again" THEN "save" ELSE IF q.kind = "stream" THEN "mark" ELSE IF refused THEN "save" ELSE "context"
    OBVIOUS
  <2>6. PICK scope : scope = IF refused THEN {} ELSE Resolve(q.notebook, q.picked)
    OBVIOUS
  <2>7. /\ scope \subseteq Sources /\ \A s \in scope : Home[s] = q.notebook
        /\ q.picked # {} => scope \subseteq q.picked
        /\ q.picked = {} /\ scope # {} => ~q.selected
    BY <1>6, <2>6 DEF Refused, Resolve, Indexed, Of
  <2>8. PICK f : f = [q EXCEPT !.conversation = c, !.refused = refused, !.scope = scope, !.pc = pc]
    OBVIOUS
  <2>9. /\ f \in Request /\ f.mark = q.mark /\ f.pc = pc /\ f.kind = q.kind /\ f.no = q.no /\ f.notebook = q.notebook
        /\ f.conversation = c /\ f.picked = q.picked
        /\ f.selected = q.selected /\ f.scope = scope /\ f.error = q.error
    <3>1. c \in 0 .. MaxRequests + 1
      BY <2>2, BoundAssumption DEF Conversations
    <3>2. scope \in SUBSET Sources
      BY <2>7
    <3> HIDE DEF known
    <3> QED
      BY <2>8, <3>1, <3>2 DEF Request
  <2>10. PICK j : j = IF q.conversation = 0 THEN c ELSE count.conversations
    OBVIOUS
  <2>11. /\ messages' = messages \cup {m}
         /\ conversation' = IF q.conversation # 0 THEN conversation
                            ELSE [conversation EXCEPT ![c] = [notebook |-> q.notebook, title |-> "question"]]
         /\ count' = [count EXCEPT !.messages = k, !.conversations = j]
         /\ request' = [request EXCEPT ![r] = f]
         /\ UNCHANGED events
    <3>1. /\ messages' = messages \cup {m}
          /\ conversation' = IF q.conversation # 0 THEN conversation
                            ELSE [conversation EXCEPT ![c] = [notebook |-> q.notebook, title |-> "question"]]
          /\ count' = [count EXCEPT !.messages = k, !.conversations = j]
          /\ request' = [request EXCEPT ![r].conversation = c, ![r].refused = refused, ![r].scope = scope, ![r].pc = pc]
          /\ UNCHANGED events
      BY <1>2, <1>5, <1>6, <1>8, <2>1, <2>3, <2>5, <2>6, <2>10 DEF Prepare
    <3> QED
      BY <1>1, <1>2, <2>8, <3>1 DEF TypeOK
  <2>12. /\ conversation' \in [Conversations -> Conversation]
         /\ \A d \in Conversations : d <= count.conversations => conversation'[d].notebook = conversation[d].notebook
         /\ conversation'[c].notebook = q.notebook
         /\ \A d \in Conversations : d # c => conversation'[d] = conversation[d]
    <3>1. CASE q.conversation # 0
      BY <1>1, <1>8, <2>2, <2>11, <3>1 DEF TypeOK
    <3>2. CASE q.conversation = 0
      <4>1. PICK new : new = [notebook |-> q.notebook, title |-> "question"]
        OBVIOUS
      <4>2. new \in Conversation /\ new.notebook = q.notebook
        BY <1>3, <4>1 DEF Conversation
      <4>3. conversation' = [conversation EXCEPT ![c] = new]
        BY <2>11, <3>2, <4>1
      <4>4. \A d \in Conversations : d <= count.conversations => d # c
        BY <1>1, <2>2, <3>2, Numbers, BoundAssumption DEF Conversations
      <4> QED
        BY <1>1, <2>2, <4>2, <4>3, <4>4 DEF TypeOK
    <3> QED
      BY <3>1, <3>2
  <2>13. j \in Conversations /\ count.conversations <= j /\ c <= j
    BY <1>1, <2>2, <2>10, Numbers, BoundAssumption DEF Conversations
  <2>14. /\ count'.requests = count.requests /\ count'.faults = count.faults /\ count'.conversations = j
         /\ count'.messages = k /\ count'.notes = count.notes /\ count'.events = count.events
         /\ count' \in [requests : Number, faults : 0 .. MaxFaults, conversations : Conversations,
                 messages : MessageNo, notes : Nat, events : Nat]
    BY <1>1, <2>1, <2>11, <2>13 DEF TypeOK, MessageNo
  <2>15. TypeOK'
    <3>1. request' \in [Requests -> Request]
      BY <1>1, <2>9, <2>11, OneRequest
    <3> QED
      BY <1>1, <1>4, <2>4, <2>11, <2>12, <2>14, <3>1 DEF TypeOK
  <2>16. There(m.conversation)'
    BY <1>3, <2>2, <2>4, <2>12, TableAssumption DEF There
  <2>17. \A d \in Conversations : There(d)' => d <= count'.conversations /\ Live(conversation[d].notebook)'
    <3> SUFFICES ASSUME NEW d \in Conversations, There(d)'
                 PROVE  d <= count'.conversations /\ Live(conversation[d].notebook)'
      OBVIOUS
    <3>1. CASE d = c
      BY <1>4, <1>8, <2>12, <2>13, <2>14, <3>1 DEF Live
    <3>2. CASE d # c
      <4>1. There(d) /\ conversation'[d] = conversation[d]
        BY <2>12, <3>2 DEF There
      <4>2. d <= count.conversations /\ Live(conversation[d].notebook)
        BY <1>1, <4>1 DEF Linked
      <4>3. d <= j
        BY <1>1, <2>13, <4>2, Numbers, BoundAssumption DEF Conversations
      <4> QED
        BY <1>4, <2>14, <4>1, <4>2, <4>3 DEF Live
    <3> QED
      BY <3>1, <3>2
  <2>18. Linked' /\ Grown /\ PinnedOnce' /\ \A o \in Requests : o # r => Untouched(o)
    BY <1>2, <1>3, <1>4, <2>1, <2>4, <2>11, <2>12, <2>13, <2>14, <2>15, <2>16, <2>17, Sent
  <2>19. \A a \in messages : a.by # q.no
    BY <1>3 DEF Question, Before
  <2>20. Broken' <=> Broken
    BY <2>14 DEF Broken
  <2>21. Told'
    <3>1. \A a, b \in messages' : a.role = "user" /\ b.role = "user" /\ a.by = b.by /\ a.by # 0 => a = b
      BY <1>1, <2>4, <2>11, <2>19 DEF Told
    <3>2. \A a, b \in messages' :
            a.role = "assistant" /\ b.role = "assistant" /\ a.by = b.by /\ a.by # 0 /\ a # b => a.error # b.error /\ Broken'
      BY <1>1, <2>4, <2>11, <2>20 DEF Told
    <3>3. AnswersFollowQuestions'
      BY <1>1, <2>4, <2>11, <2>20 DEF Told, AnswersFollowQuestions, Broken
    <3> QED
      BY <2>18, <3>1, <3>2, <3>3 DEF Told
  <2>22. Faithful(f)'
    <3>1. Asked(f)' /\ Inside(f)'
      BY <2>4, <2>9, <2>11, <2>12 DEF Asked, Inside
    <3>2. \A a \in messages' : a.by = f.no => a.role # "assistant"
      BY <2>4, <2>9, <2>11, <2>19
    <3>3. f.pc = "mark" => f.kind = "stream" /\ ~f.error
      BY <1>3, <2>5, <2>9 DEF Question
    <3>4. f.pc = "context" => ~f.error
      BY <1>3, <2>5, <2>9 DEF Question
    <3>5. Question(f)'
      BY <1>3, <2>2, <2>5, <2>9, <2>13, <2>14, <3>1, <3>2, <3>3, <3>4 DEF Question, Before, After
    <3>6. Marked(f)' <=> Marked(q)
      BY <1>4, <2>9, <2>11 DEF Marked, Overlapped
    <3>7. ~Gone(q)
      BY <1>8 DEF Gone, Live
    <3>8. Watermark(f)'
      BY <1>3, <2>5, <2>9, <2>20, <3>3, <3>6, <3>7 DEF Watermark, Question
    <3>9. Pinning(f)' /\ Scoped(f)'
      BY <1>3, <2>7, <2>9 DEF Pinning, Scoped
    <3>10. /\ f.no <= count'.requests /\ f.pc # "idle" /\ f.no # 0
           /\ f.notebook \in Notebooks /\ notebook'[f.notebook].st # "unused"
      BY <1>3, <1>4, <2>9, <2>14
    <3> QED
      BY <3>5, <3>8, <3>9, <3>10 DEF Faithful
  <2>23. Owed'
    <3>1. CASE q.conversation # 0
      <4>1. j = count.conversations /\ f.conversation # 0
        BY <2>2, <2>9, <2>10, <3>1
      <4> QED
        BY <1>1, <2>9, <2>11, <2>14, <2>15, <2>18, <4>1, OwingSame
    <3>2. CASE q.conversation = 0
      <4>1. r \in Owing
        BY <1>2, <1>3, <3>2 DEF Owing
      <4>2. Owing' = Owing \ {r}
        <5>1. /\ request'[r] = f /\ \A o \in Requests : o # r => request'[o] = request[o]
          BY <1>1, <2>9, <2>11, OneRequest
        <5> QED
          BY <2>2, <2>9, <5>1 DEF Owing
      <4>3. IsFiniteSet(Owing)
        BY PoolAssumption, FS_Subset DEF Owing
      <4>4. Cardinality(Owing \ {r}) = Cardinality(Owing) - 1 /\ Cardinality(Owing) \in Nat
        BY <4>1, <4>3, FS_RemoveElement, FS_CardinalityType
      <4>5. Cardinality(Owing') = Cardinality(Owing \ {r})
        BY <4>2
      <4>6. j = count.conversations + 1
        BY <1>5, <2>10, <3>2
      <4> QED
        BY <1>1, <2>14, <4>4, <4>5, <4>6, Numbers DEF Owed
    <3> QED
      BY <3>1, <3>2
  <2>24. \A n \in Notebooks : Live(n)' => Live(n)
    BY <1>4 DEF Live
  <2> QED
    BY <1>2, <1>3, <1>4, <2>5, <2>9, <2>11, <2>15, <2>18, <2>21, <2>22, <2>23, <2>24, Act
<1> QED
  BY <1>7, <1>8

-----------------------------------------------------------------------------
(* Steps of no request: a handler that is one transaction, or time.        *)

LEMMA Edited ==
  ASSUME Inv, UNCHANGED request, TypeOK', Linked', Told', LockInv', Grown,
         count'.conversations + count.requests <= count.conversations + count'.requests,
         \A o \in Requests : Untouched(o)
  PROVE  Inv'
<1>1. TypeOK /\ Apart /\ Owed
  BY DEF Inv
<1>2. Owed'
  <2>1. Owing' = Owing
    BY DEF Owing
  <2>2. IsFiniteSet(Owing)
    BY PoolAssumption, FS_Subset DEF Owing
  <2>3. Cardinality(Owing) \in Nat /\ Cardinality(Owing') = Cardinality(Owing)
    BY <2>1, <2>2, FS_CardinalityType
  <2> QED
    BY <1>1, <2>3, Numbers, NumbersNext DEF Owed
<1>3. Apart'
  BY <1>1 DEF Apart, Overlapped, Grown
<1> QED
  BY <1>2, <1>3, Together

LEMMA LockStays ==
  ASSUME Inv, UNCHANGED <<request, lock, stale, loose>>, \A n \in Notebooks : Live(n)' => Live(n)
  PROVE  LockInv'
<1>1. \A o \in Requests, n \in Notebooks : Keeps(o, n)' => Keeps(o, n) /\ request'[o].no = request[o].no
  BY DEF Keeps, Holds
<1> QED
  BY <1>1, LockSame DEF Inv

LEMMA CountedIs ==
  ASSUME TypeOK, Counted
  PROVE  /\ count'.requests = count.requests + 1 /\ count'.faults = count.faults /\ count'.conversations = count.conversations
         /\ count'.messages = count.messages /\ count'.notes = count.notes /\ count'.events = count.events
         /\ count' \in [requests : Number, faults : 0 .. MaxFaults, conversations : Conversations,
                messages : MessageNo, notes : Nat, events : Nat]
<1>1. PICK k : k = count.requests + 1
  OBVIOUS
<1>2. k \in Number
  BY <1>1, Numbers, BoundAssumption DEF Counted, Number
<1>3. count' = [count EXCEPT !.requests = k]
  BY <1>1 DEF Counted
<1> QED
  BY <1>1, <1>2, <1>3 DEF TypeOK

LEMMA CountedGrows == ASSUME TypeOK, Counted, overlap \subseteq overlap' PROVE Grown
BY CountedIs, Numbers DEF Grown

\* Rows keep what they refer to when conversations and notebooks stay where they are.
LEMMA LinkedKept ==
  ASSUME TypeOK, TypeOK', Linked, UNCHANGED <<messages, notes, feedback, events>>, Grown,
         count'.messages = count.messages, count'.notes = count.notes, count'.events = count.events,
         \A c \in Conversations : c <= count.conversations => conversation'[c].notebook = conversation[c].notebook,
         \A c \in Conversations : There(c)' => c <= count'.conversations /\ Live(conversation[c].notebook)',
         \A n \in Notebooks : Live(n) => Live(n)'
  PROVE  Linked'
<1>1. \A o \in messages : There(o.conversation)' /\ conversation'[o.conversation].notebook = conversation[o.conversation].notebook
  <2> SUFFICES ASSUME NEW o \in messages
               PROVE  There(o.conversation)' /\ conversation'[o.conversation].notebook = conversation[o.conversation].notebook
    OBVIOUS
  <2>1. o.conversation \in Conversations /\ There(o.conversation) /\ o.conversation <= count.conversations
    BY DEF TypeOK, Message, Linked
  <2> QED
    BY <2>1 DEF There
<1>2. \A o \in messages : o.id \in 1 .. count'.messages /\ o.by <= count'.requests
  <2> SUFFICES ASSUME NEW o \in messages PROVE o.id \in 1 .. count'.messages /\ o.by <= count'.requests
    OBVIOUS
  <2>1. o.id \in 1 .. count.messages /\ o.by <= count.requests /\ o.by \in Nat
    BY BoundAssumption DEF Linked, TypeOK, Message, Number
  <2> QED
    BY <2>1, Numbers, NumbersNext DEF Grown
<1>3. \A x \in notes' :
     /\ x.id \in 1 .. count'.notes /\ Live(x.notebook)'
     /\ x.message # 0 => \E o \in messages' : o.id = x.message /\ conversation'[o.conversation].notebook = x.notebook
  <2>1. \A x \in notes : x.notebook \in Notebooks
    BY DEF TypeOK, Note
  <2> QED
    BY <1>1, <2>1 DEF Linked
<1>4. \A f \in feedback' : Exists(f.message)'
  BY DEF Linked, Exists
<1>5. \A e \in events' :
     /\ e.id \in 1 .. count'.events
     /\ e.message # 0 => Exists(e.message)'
     /\ e.conversation # 0 => There(e.conversation)' /\ conversation'[e.conversation].notebook = e.notebook
  <2> SUFFICES ASSUME NEW e \in events
               PROVE  /\ e.id \in 1 .. count'.events
                      /\ e.message # 0 => Exists(e.message)'
                      /\ e.conversation # 0 => There(e.conversation)' /\ conversation'[e.conversation].notebook = e.notebook
    OBVIOUS
  <2>1. e.id \in 1 .. count'.events /\ (e.message # 0 => Exists(e.message)')
    BY DEF Linked, Exists
  <2>2. e.conversation # 0 => There(e.conversation) /\ conversation[e.conversation].notebook = e.notebook
                              /\ e.conversation \in Conversations
    BY BoundAssumption DEF Linked, TypeOK, Event, Conversations
  <2>3. e.conversation # 0 => e.conversation <= count.conversations
    BY <2>2 DEF Linked
  <2> QED
    BY <2>1, <2>2, <2>3 DEF There
<1>6. /\ \A a, b \in messages' : a.id = b.id => a = b
      /\ \A x, y \in notes' : x.id = y.id => x = y
      /\ \A d, e \in events' : d.id = e.id => d = e
  BY DEF Linked
<1> QED
  BY <1>1, <1>2, <1>3, <1>4, <1>5, <1>6 DEF Linked

LEMMA NewConversationStep == ASSUME Inv, NEW n \in Notebooks, NewConversation(n) PROVE Inv'
<1>1. TypeOK /\ Linked /\ Told /\ Owed
  BY DEF Inv
<1>2. UNCHANGED <<notebook, source, messages, events, notes, feedback, lock, stale, loose, request, overlap>>
  BY DEF NewConversation, shelf, studio
<1>3. PICK c : c = count.conversations + 1
  OBVIOUS
<1>4. PICK k : k = count.requests + 1
  OBVIOUS
<1>5. k \in Number
  BY <1>1, <1>4, Numbers, BoundAssumption DEF NewConversation, Number
<1>6. c \in Conversations /\ c > count.conversations
  <2>1. Cardinality(Owing) \in Nat
    BY PoolAssumption, FS_Subset, FS_CardinalityType DEF Owing
  <2>2. count.conversations <= count.requests
    BY <1>1, <2>1, Numbers DEF Owed
  <2> QED
    BY <1>1, <1>3, <1>4, <1>5, <2>2, Numbers, BoundAssumption DEF Conversations, Number
<1>7. /\ conversation' = [conversation EXCEPT ![c].notebook = n]
      /\ count' = [count EXCEPT !.requests = k, !.conversations = c]
  BY <1>3, <1>4 DEF NewConversation
<1>8. /\ count'.requests = k /\ count'.faults = count.faults /\ count'.conversations = c
      /\ count'.messages = count.messages /\ count'.notes = count.notes /\ count'.events = count.events
      /\ count' \in [requests : Number, faults : 0 .. MaxFaults, conversations : Conversations,
              messages : MessageNo, notes : Nat, events : Nat]
  BY <1>1, <1>5, <1>6, <1>7 DEF TypeOK
<1>9. /\ conversation' \in [Conversations -> Conversation]
      /\ conversation'[c].notebook = n
      /\ \A d \in Conversations : d # c => conversation'[d] = conversation[d]
  BY <1>1, <1>6, <1>7 DEF TypeOK, Conversation
<1>10. TypeOK'
  BY <1>1, <1>2, <1>8, <1>9 DEF TypeOK
<1>11. Grown
  BY <1>1, <1>2, <1>3, <1>4, <1>8, Numbers DEF Grown
<1>12. \A d \in Conversations : d <= count.conversations => conversation'[d].notebook = conversation[d].notebook
  BY <1>6, <1>9, <1>1, Numbers, BoundAssumption DEF Conversations
<1>13. \A d \in Conversations : There(d)' => d <= count'.conversations /\ Live(conversation[d].notebook)'
  <2> SUFFICES ASSUME NEW d \in Conversations, There(d)' PROVE d <= count'.conversations /\ Live(conversation[d].notebook)'
    OBVIOUS
  <2>1. CASE d = c
    BY <1>2, <1>6, <1>8, <1>9, <2>1, BoundAssumption DEF Conversations, NewConversation, Live
  <2>2. CASE d # c
    <3>1. There(d) /\ conversation'[d] = conversation[d]
      BY <1>9, <2>2 DEF There
    <3>2. d <= count.conversations /\ Live(conversation[d].notebook)
      BY <1>1, <3>1 DEF Linked
    <3>3. d <= c
      BY <1>1, <1>3, <3>2, Numbers, BoundAssumption DEF Conversations
    <3> QED
      BY <1>2, <1>8, <3>1, <3>2, <3>3 DEF Live
  <2> QED
    BY <2>1, <2>2
<1>14. \A o \in Notebooks : Live(o)' <=> Live(o)
  BY <1>2 DEF Live
<1>15. Linked'
  BY <1>1, <1>2, <1>8, <1>10, <1>11, <1>12, <1>13, <1>14, LinkedKept
<1>16. Told'
  BY <1>1, <1>2, <1>10, <1>11, ToldSame
<1>17. LockInv'
  BY <1>2, <1>14, LockStays
<1>18. \A o \in Requests : Untouched(o)
  BY <1>2, <1>12 DEF Untouched, Quiet, Same
<1>19. count'.conversations + count.requests <= count.conversations + count'.requests
  BY <1>1, <1>3, <1>4, <1>8, Numbers
<1> QED
  BY <1>2, <1>10, <1>11, <1>15, <1>16, <1>17, <1>18, <1>19, Edited

\* Names, switches, caches and statuses of sources: nothing refers to them.
LEMMA Renamed ==
  ASSUME Inv, UNCHANGED <<request, lock, stale, loose, messages, notes, feedback, events, overlap>>,
         conversation' \in [Conversations -> Conversation], notebook' \in [Notebooks -> Notebook],
         source' \in [Sources -> {"none", "other", "indexed", "gone"}],
         \A c \in Conversations : conversation'[c].notebook = conversation[c].notebook,
         \A n \in Notebooks : notebook'[n].st = notebook[n].st,
         Counted \/ UNCHANGED count
  PROVE  Inv'
<1>1. TypeOK /\ Linked /\ Told
  BY DEF Inv
<1>2. /\ count'.requests \in {count.requests, count.requests + 1}
      /\ count'.faults = count.faults /\ count'.conversations = count.conversations
      /\ count'.messages = count.messages /\ count'.notes = count.notes /\ count'.events = count.events
      /\ count' \in [requests : Number, faults : 0 .. MaxFaults, conversations : Conversations,
              messages : MessageNo, notes : Nat, events : Nat]
  <2>1. CASE Counted
    BY <1>1, <2>1, CountedIs
  <2>2. CASE UNCHANGED count
    BY <1>1, <2>2 DEF TypeOK
  <2> QED
    BY <2>1, <2>2
<1>3. TypeOK'
  BY <1>1, <1>2 DEF TypeOK
<1>4. Grown
  BY <1>1, <1>2, Numbers DEF Grown
<1>5. \A n \in Notebooks : Live(n)' <=> Live(n)
  BY DEF Live
<1>6. \A c \in Conversations : There(c)' => c <= count'.conversations /\ Live(conversation[c].notebook)'
  <2> SUFFICES ASSUME NEW c \in Conversations, There(c)' PROVE c <= count'.conversations /\ Live(conversation[c].notebook)'
    OBVIOUS
  <2>1. There(c) /\ conversation'[c].notebook = conversation[c].notebook
    BY DEF There
  <2>2. c <= count.conversations /\ Live(conversation[c].notebook) /\ conversation[c].notebook \in Notebooks
    BY <1>1, <2>1 DEF Linked, TypeOK, Conversation, There
  <2> QED
    BY <1>2, <2>1, <2>2 DEF Live
<1>7. Linked'
  BY <1>1, <1>2, <1>3, <1>4, <1>5, <1>6, LinkedKept
<1>8. Told'
  BY <1>1, <1>3, <1>4, ToldSame
<1>9. LockInv'
  BY <1>5, LockStays
<1>10. \A o \in Requests : Untouched(o)
  BY DEF Untouched, Quiet, Same
<1>11. count'.conversations + count.requests <= count.conversations + count'.requests
  BY <1>1, <1>2, Numbers
<1> QED
  BY <1>3, <1>4, <1>7, <1>8, <1>9, <1>10, <1>11, Edited

LEMMA RenameConversationStep == ASSUME Inv, NEW c \in Conversations, RenameConversation(c) PROVE Inv'
<1>1. UNCHANGED <<notebook, source, messages, events, notes, feedback, lock, stale, loose, request, overlap>>
  BY DEF RenameConversation, shelf, studio
<1>2. TypeOK
  BY DEF Inv
<1>3. PICK title \in {"default", "user"} : conversation' = [conversation EXCEPT ![c].title = title]
  BY DEF RenameConversation
<1>4. /\ conversation' \in [Conversations -> Conversation]
      /\ \A d \in Conversations : conversation'[d].notebook = conversation[d].notebook
  BY <1>2, <1>3 DEF TypeOK, Conversation
<1>5. notebook' \in [Notebooks -> Notebook] /\ source' \in [Sources -> {"none", "other", "indexed", "gone"}]
  BY <1>1, <1>2 DEF TypeOK
<1> QED
  BY <1>1, <1>4, <1>5, Renamed DEF RenameConversation

LEMMA RenameNotebookStep == ASSUME Inv, NEW n \in Notebooks, RenameNotebook(n) PROVE Inv'
<1>1. UNCHANGED <<source, conversation, messages, events, notes, feedback, lock, stale, loose, request, overlap>>
  BY DEF RenameNotebook, chat, shelf, studio
<1>2. TypeOK
  BY DEF Inv
<1>3. PICK on \in BOOLEAN : notebook' = [notebook EXCEPT ![n].followups = on]
  BY DEF RenameNotebook
<1>4. /\ notebook' \in [Notebooks -> Notebook]
      /\ \A d \in Notebooks : notebook'[d].st = notebook[d].st
  BY <1>2, <1>3 DEF TypeOK, Notebook
<1>5. conversation' \in [Conversations -> Conversation] /\ source' \in [Sources -> {"none", "other", "indexed", "gone"}]
  BY <1>1, <1>2 DEF TypeOK
<1> QED
  BY <1>1, <1>4, <1>5, Renamed DEF RenameNotebook

LEMMA CacheAgesStep == ASSUME Inv, NEW n \in Notebooks, CacheAges(n) PROVE Inv'
<1>1. UNCHANGED <<source, conversation, messages, events, notes, feedback, lock, stale, loose, request, overlap, count>>
  BY DEF CacheAges, chat, shelf, studio
<1>2. TypeOK
  BY DEF Inv
<1>3. \/ notebook' = [notebook EXCEPT ![n].briefing = "old"]
      \/ notebook' = [notebook EXCEPT ![n].suggestions = "old"]
  BY DEF CacheAges
<1>4. /\ notebook' \in [Notebooks -> Notebook]
      /\ \A d \in Notebooks : notebook'[d].st = notebook[d].st
  <2>1. CASE notebook' = [notebook EXCEPT ![n].briefing = "old"]
    BY <1>2, <2>1 DEF TypeOK, Notebook, Cache
  <2>2. CASE notebook' = [notebook EXCEPT ![n].suggestions = "old"]
    BY <1>2, <2>2 DEF TypeOK, Notebook, Cache
  <2> QED
    BY <1>3, <2>1, <2>2
<1>5. conversation' \in [Conversations -> Conversation] /\ source' \in [Sources -> {"none", "other", "indexed", "gone"}]
  BY <1>1, <1>2 DEF TypeOK
<1> QED
  BY <1>1, <1>4, <1>5, Renamed

LEMMA SourceChangesStep == ASSUME Inv, NEW s \in Sources, SourceChanges(s) PROVE Inv'
<1>1. UNCHANGED <<notebook, conversation, messages, events, notes, feedback, lock, stale, loose, request, overlap>>
  BY DEF SourceChanges, chat, shelf, studio
<1>2. TypeOK
  BY DEF Inv
<1>3. \E st \in {"none", "other", "indexed", "gone"} : source' = [source EXCEPT ![s] = st]
  BY DEF SourceChanges
<1>4. notebook' \in [Notebooks -> Notebook] /\ conversation' \in [Conversations -> Conversation]
      /\ source' \in [Sources -> {"none", "other", "indexed", "gone"}]
  BY <1>1, <1>2, <1>3 DEF TypeOK
<1>5. Counted \/ UNCHANGED count
  BY DEF SourceChanges
<1> QED
  BY <1>1, <1>4, <1>5, Renamed

LEMMA CreateNotebookStep == ASSUME Inv, NEW n \in Notebooks, CreateNotebook(n) PROVE Inv'
<1>1. TypeOK /\ Linked /\ Told /\ LockInv /\ \A o \in Requests : Faithful(request[o])
  BY DEF Inv
<1>2. UNCHANGED <<source, conversation, messages, events, notes, feedback, lock, stale, loose, request, overlap>>
  BY DEF CreateNotebook, chat, shelf, studio
<1>3. notebook[n].st = "unused" /\ notebook' = [notebook EXCEPT ![n].st = "live"] /\ Counted
  BY DEF CreateNotebook
<1>4. /\ notebook' \in [Notebooks -> Notebook] /\ notebook'[n].st = "live"
      /\ \A d \in Notebooks : d # n => notebook'[d] = notebook[d]
  BY <1>1, <1>3 DEF TypeOK, Notebook
<1>5. TypeOK'
  BY <1>1, <1>2, <1>3, <1>4, CountedIs DEF TypeOK
<1>6. Grown
  BY <1>1, <1>2, <1>3, CountedGrows
<1>7. \A d \in Notebooks : Live(d) => Live(d)'
  BY <1>4 DEF Live
<1>8. \A c \in Conversations : There(c)' => c <= count'.conversations /\ Live(conversation[c].notebook)'
  <2> SUFFICES ASSUME NEW c \in Conversations, There(c)' PROVE c <= count'.conversations /\ Live(conversation[c].notebook)'
    OBVIOUS
  <2>1. There(c) /\ conversation'[c].notebook = conversation[c].notebook
    BY <1>2 DEF There
  <2>2. c <= count.conversations /\ Live(conversation[c].notebook) /\ conversation[c].notebook \in Notebooks
    BY <1>1, <2>1 DEF Linked, TypeOK, Conversation, There
  <2>3. c <= count'.conversations
    BY <1>1, <1>3, <2>2, CountedIs
  <2> QED
    BY <1>7, <2>1, <2>2, <2>3 DEF Live
<1>9. Linked'
  BY <1>1, <1>2, <1>3, <1>5, <1>6, <1>7, <1>8, CountedIs, LinkedKept
<1>10. Told'
  BY <1>1, <1>2, <1>5, <1>6, ToldSame
<1>11. LockInv'
  <2>1. ASSUME NEW o \in Requests, NEW d \in Notebooks, Keeps(o, d)' PROVE Keeps(o, d) /\ d # n
    <3>1. Keeps(o, d)
      BY <1>2, <2>1 DEF Keeps, Holds
    <3>2. request[o].pc # "idle" /\ request[o].notebook = d
      BY <3>1 DEF Keeps, Holds
    <3>3. notebook[d].st # "unused"
      BY <1>1, <3>2 DEF Faithful
    <3> QED
      BY <1>3, <3>1, <3>3
  <2>2. \A d \in Notebooks : d # n => (Live(d)' <=> Live(d))
    BY <1>4 DEF Live
  <2> QED
    BY <1>1, <1>2, <2>1, <2>2 DEF LockInv
<1>12. \A o \in Requests : Untouched(o)
  BY <1>2, <1>3, <1>4 DEF Untouched, Quiet, Same
<1>13. count'.conversations + count.requests <= count.conversations + count'.requests
  BY <1>1, <1>3, CountedIs, Numbers
<1> QED
  BY <1>2, <1>5, <1>6, <1>9, <1>10, <1>11, <1>12, <1>13, Edited

LEMMA LockAgesStep == ASSUME Inv, NEW n \in Notebooks, LockAges(n) PROVE Inv'
<1>1. TypeOK /\ Linked /\ Told /\ LockInv
  BY DEF Inv
<1>2. UNCHANGED <<notebook, source, conversation, messages, events, notes, feedback, lock, request, overlap, count>>
  BY DEF LockAges, chat, shelf
<1>3. /\ lock[n] # 0 /\ stale' = stale \cup {n}
      /\ loose' = IF Kept(n) THEN loose \cup {n} ELSE loose
  BY DEF LockAges
<1>4. TypeOK'
  BY <1>1, <1>2, <1>3 DEF TypeOK
<1>5. Grown
  BY <1>1, <1>2, Numbers DEF Grown
<1>6. Linked' /\ Told'
  BY <1>1, <1>2, <1>4, <1>5, LinkedSame, ToldSame DEF Tables0, Numbers0
<1>7. LockInv'
  <2>1. \A o \in Requests, d \in Notebooks : Keeps(o, d)' <=> Keeps(o, d)
    BY <1>2 DEF Keeps, Holds
  <2>2. \A o \in Requests, d \in Notebooks : Keeps(o, d) /\ d \notin loose' => d # n /\ d \notin loose
    BY <1>3 DEF Kept
  <2>3. \A d \in Notebooks : (Live(d)' <=> Live(d)) /\ (d \in loose => d \in loose')
    BY <1>2, <1>3 DEF Live
  <2> QED
    BY <1>1, <1>2, <1>3, <2>1, <2>2, <2>3 DEF LockInv
<1>8. \A o \in Requests : Untouched(o)
  BY <1>2, QuietTables
<1>9. count'.conversations + count.requests <= count.conversations + count'.requests
  BY <1>1, <1>2, Numbers
<1> QED
  BY <1>2, <1>4, <1>5, <1>6, <1>7, <1>8, <1>9, Edited

LEMMA SubmitFeedbackStep == ASSUME Inv, NEW m \in messages, SubmitFeedback(m) PROVE Inv'
<1>1. TypeOK /\ Linked /\ Told
  BY DEF Inv
<1>2. UNCHANGED <<notebook, source, conversation, messages, events, notes, lock, stale, loose, request, overlap>> /\ Counted
  BY DEF SubmitFeedback, chat, studio
<1>3. PICK rating \in {"usable", "unusable"}, reasons \in BOOLEAN : feedback' = Upsert(m.id, rating, reasons)
  BY DEF SubmitFeedback
<1>4. PICK b \in BOOLEAN : b = (reasons /\ rating # "usable")
  OBVIOUS
<1>5. PICK new : new = [message |-> m.id, rating |-> rating, reasons |-> b]
  OBVIOUS
<1>6. new \in Feedback /\ new.message = m.id
  BY <1>1, <1>5 DEF Feedback, TypeOK, Message
<1>7. feedback' = {f \in feedback : f.message # m.id} \cup {new}
  BY <1>3, <1>4, <1>5 DEF Upsert
<1>8. TypeOK'
  BY <1>1, <1>2, <1>6, <1>7, CountedIs DEF TypeOK
<1>9. Grown
  BY <1>1, <1>2, CountedGrows
<1>10. Linked'
  <2>1. \A f \in feedback' : Exists(f.message)'
    BY <1>1, <1>2, <1>6, <1>7 DEF Linked, Exists
  <2>2. \A o \in messages : o.by <= count'.requests
    <3> SUFFICES ASSUME NEW o \in messages PROVE o.by <= count'.requests
      OBVIOUS
    <3>1. o.by <= count.requests /\ o.by \in Nat
      BY <1>1, BoundAssumption DEF Linked, TypeOK, Message, Number
    <3> QED
      BY <1>1, <1>2, <3>1, CountedIs, Numbers
  <2>3. /\ \A c \in Conversations : There(c)' => There(c)
        /\ \A o \in messages : There(o.conversation) => There(o.conversation)'
        /\ \A x \in notes : Live(x.notebook) => Live(x.notebook)'
        /\ \A c \in Conversations : Live(conversation[c].notebook) => Live(conversation[c].notebook)'
        /\ \A e \in events : /\ Exists(e.message) => Exists(e.message)'
                             /\ There(e.conversation) => There(e.conversation)'
    BY <1>2 DEF There, Live, Exists
  <2> QED
    BY <1>1, <1>2, <2>1, <2>2, <2>3, CountedIs DEF Linked
<1>11. Told'
  BY <1>1, <1>2, <1>8, <1>9, ToldSame
<1>12. LockInv'
  BY <1>2, LockStays DEF Live
<1>13. \A o \in Requests : Untouched(o)
  BY <1>2, QuietTables
<1>14. count'.conversations + count.requests <= count.conversations + count'.requests
  BY <1>1, <1>2, CountedIs, Numbers
<1> QED
  BY <1>2, <1>8, <1>9, <1>10, <1>11, <1>12, <1>13, <1>14, Edited

-----------------------------------------------------------------------------
(* Notes.                                                                  *)

LEMMA NotesLinked ==
  ASSUME TypeOK, TypeOK', Linked, Grown, UNCHANGED <<notebook, conversation, messages, feedback, events>>,
         count'.conversations = count.conversations, count'.messages = count.messages, count'.events = count.events,
         \A x \in notes' :
           /\ x.id \in 1 .. count'.notes /\ Live(x.notebook)
           /\ x.message # 0 => \E m \in messages : m.id = x.message /\ conversation[m.conversation].notebook = x.notebook,
         \A x, y \in notes' : x.id = y.id => x = y
  PROVE  Linked'
<1>1. \A o \in messages : o.by <= count'.requests
  <2> SUFFICES ASSUME NEW o \in messages PROVE o.by <= count'.requests
    OBVIOUS
  <2>1. o.by <= count.requests /\ o.by \in Nat
    BY BoundAssumption DEF Linked, TypeOK, Message, Number
  <2> QED
    BY <2>1, Numbers, NumbersNext DEF Grown
<1>2. /\ \A c \in Conversations : There(c)' => There(c)
      /\ \A o \in messages : There(o.conversation) => There(o.conversation)'
      /\ \A x \in notes' : Live(x.notebook) => Live(x.notebook)'
      /\ \A c \in Conversations : Live(conversation[c].notebook) => Live(conversation[c].notebook)'
      /\ \A e \in events : /\ Exists(e.message) => Exists(e.message)'
                           /\ There(e.conversation) => There(e.conversation)'
      /\ \A f \in feedback : Exists(f.message) => Exists(f.message)'
  BY DEF There, Live, Exists
<1> QED
  BY <1>1, <1>2 DEF Linked

\* Messages are the same, and pinned notes are among those there were.
LEMMA ToldNotes ==
  ASSUME TypeOK, TypeOK', Linked', Told, UNCHANGED messages, Grown,
         \A x \in notes' : x.message # 0 => \E o \in notes : o.id = x.id /\ o.message = x.message /\ o.by = x.by
  PROVE  Told'
<1>1. Broken => Broken'
  BY BrokenStays
<1>2. AnswersFollowQuestions'
  BY <1>1 DEF Told, AnswersFollowQuestions, Broken
<1>3. PinnedOnce'
  <2> SUFFICES ASSUME NEW x \in notes', NEW y \in notes', x # y, x.message # 0, x.message = y.message
               PROVE  Overlapped(x.by, y.by)'
    BY DEF PinnedOnce
  <2>1. x.id # y.id
    BY DEF Linked
  <2>2. PICK a \in notes : a.id = x.id /\ a.message = x.message /\ a.by = x.by
    OBVIOUS
  <2>3. PICK b \in notes : b.id = y.id /\ b.message = y.message /\ b.by = y.by
    OBVIOUS
  <2>4. Overlapped(a.by, b.by)
    BY <2>1, <2>2, <2>3 DEF Told, PinnedOnce
  <2> QED
    BY <2>2, <2>3, <2>4 DEF Overlapped, Grown
<1> QED
  BY <1>1, <1>2, <1>3 DEF Told

\* What a handler that is one transaction does to the notes.
LEMMA NotesEdited ==
  ASSUME Inv, UNCHANGED <<notebook, source, conversation, messages, events, feedback, lock, stale, loose, request, overlap>>,
         notes' \subseteq Note,
         count'.requests = count.requests + 1, count'.faults = count.faults, count'.conversations = count.conversations,
         count'.messages = count.messages, count'.events = count.events,
         count' \in [requests : Number, faults : 0 .. MaxFaults, conversations : Conversations,
                messages : MessageNo, notes : Nat, events : Nat],
         \A x \in notes' : /\ x.id \in 1 .. count'.notes /\ Live(x.notebook)
                           /\ x.message # 0 => \E o \in notes : /\ o.id = x.id /\ o.message = x.message /\ o.by = x.by
                                                                /\ o.notebook = x.notebook,
         \A x, y \in notes' : x.id = y.id => x = y
  PROVE  Inv'
<1>1. TypeOK /\ Linked /\ Told
  BY DEF Inv
<1>2. TypeOK'
  BY <1>1 DEF TypeOK
<1>3. Grown
  BY <1>1, Numbers DEF Grown
<1>4. Linked'
  <2>1. \A x \in notes' :
          x.message # 0 => \E m \in messages : m.id = x.message /\ conversation[m.conversation].notebook = x.notebook
    BY <1>1 DEF Linked
  <2> QED
    BY <1>1, <1>2, <1>3, <2>1, NotesLinked
<1>5. Told'
  BY <1>1, <1>2, <1>3, <1>4, ToldNotes
<1>6. LockInv'
  BY LockStays DEF Live
<1>7. \A o \in Requests : Untouched(o)
  BY DEF Untouched, Quiet, Same
<1>8. count'.conversations + count.requests <= count.conversations + count'.requests
  BY <1>1, Numbers
<1> QED
  BY <1>2, <1>3, <1>4, <1>5, <1>6, <1>7, <1>8, Edited

LEMMA AddNoteStep == ASSUME Inv, NEW n \in Notebooks, AddNote(n) PROVE Inv'
<1>1. TypeOK /\ Linked
  BY DEF Inv
<1>2. UNCHANGED <<notebook, source, conversation, messages, events, feedback, lock, stale, loose, request, overlap>>
  BY DEF AddNote, chat, studio
<1>3. PICK k \in Nat : k = count.notes + 1
  BY <1>1, Numbers
<1>4. PICK j : j = count.requests + 1
  OBVIOUS
<1>5. j \in Number
  BY <1>1, <1>4, Numbers, BoundAssumption DEF AddNote, Number
<1>6. PICK x : x = [id |-> k, notebook |-> n, message |-> 0, text |-> "own", by |-> j]
  OBVIOUS
<1>7. x \in Note /\ x.id = k /\ x.notebook = n /\ x.message = 0
  BY <1>5, <1>6 DEF Note, MessageNo
<1>8. notes' = notes \cup {x} /\ count' = [count EXCEPT !.requests = j, !.notes = k] /\ Live(n)
  BY <1>3, <1>4, <1>6 DEF AddNote
<1>9. /\ count'.requests = j /\ count'.faults = count.faults /\ count'.conversations = count.conversations
      /\ count'.messages = count.messages /\ count'.notes = k /\ count'.events = count.events
      /\ count' \in [requests : Number, faults : 0 .. MaxFaults, conversations : Conversations,
              messages : MessageNo, notes : Nat, events : Nat]
  BY <1>1, <1>3, <1>5, <1>8 DEF TypeOK
<1>10. notes' \subseteq Note
  BY <1>1, <1>7, <1>8 DEF TypeOK
<1>11. k \in 1 .. k /\ k \notin 1 .. count.notes /\ 1 .. count.notes \subseteq 1 .. k
  BY <1>1, <1>3, Numbers
<1>12. \A y \in notes' : /\ y.id \in 1 .. count'.notes /\ Live(y.notebook)
                         /\ y.message # 0 => \E o \in notes : /\ o.id = y.id /\ o.message = y.message /\ o.by = y.by
                                                              /\ o.notebook = y.notebook
  BY <1>1, <1>7, <1>8, <1>9, <1>11 DEF Linked
<1>13. \A a, b \in notes' : a.id = b.id => a = b
  BY <1>1, <1>7, <1>8, <1>11 DEF Linked
<1> QED
  BY <1>2, <1>4, <1>9, <1>10, <1>12, <1>13, NotesEdited

LEMMA EditNoteStep == ASSUME Inv, NEW x \in notes, EditNote(x) PROVE Inv'
<1>1. TypeOK /\ Linked
  BY DEF Inv
<1>2. UNCHANGED <<notebook, source, conversation, messages, events, feedback, lock, stale, loose, request, overlap>> /\ Counted
  BY DEF EditNote, chat, studio
<1>3. PICK z : z = [x EXCEPT !.text = "own"]
  OBVIOUS
<1>4. z \in Note /\ z.id = x.id /\ z.notebook = x.notebook /\ z.message = x.message /\ z.by = x.by
  BY <1>1, <1>3 DEF Note, TypeOK
<1>5. notes' = (notes \ {x}) \cup {z}
  BY <1>3 DEF EditNote
<1>6. notes' \subseteq Note
  BY <1>1, <1>4, <1>5 DEF TypeOK
<1>7. count'.notes = count.notes
  BY <1>1, <1>2, CountedIs
<1>8. \A y \in notes' : \E o \in notes : /\ o.id = y.id /\ o.message = y.message /\ o.by = y.by
                                         /\ o.notebook = y.notebook
  BY <1>4, <1>5
<1>9. \A y \in notes' : /\ y.id \in 1 .. count'.notes /\ Live(y.notebook)
                        /\ y.message # 0 => \E o \in notes : /\ o.id = y.id /\ o.message = y.message /\ o.by = y.by
                                                             /\ o.notebook = y.notebook
  BY <1>1, <1>7, <1>8 DEF Linked
<1>10. \A a, b \in notes' : a.id = b.id => a = b
  BY <1>1, <1>4, <1>5 DEF Linked
<1> QED
  BY <1>1, <1>2, <1>6, <1>9, <1>10, CountedIs, NotesEdited

LEMMA DeleteNoteStep == ASSUME Inv, NEW x \in notes, DeleteNote(x) PROVE Inv'
<1>1. TypeOK /\ Linked
  BY DEF Inv
<1>2. UNCHANGED <<notebook, source, conversation, messages, events, feedback, lock, stale, loose, request, overlap>> /\ Counted
  BY DEF DeleteNote, chat, studio
<1>3. notes' = notes \ {x}
  BY DEF DeleteNote
<1>4. notes' \subseteq Note
  BY <1>1, <1>3 DEF TypeOK
<1>5. count'.notes = count.notes
  BY <1>1, <1>2, CountedIs
<1>6. \A y \in notes' : /\ y.id \in 1 .. count'.notes /\ Live(y.notebook)
                        /\ y.message # 0 => \E o \in notes : /\ o.id = y.id /\ o.message = y.message /\ o.by = y.by
                                                             /\ o.notebook = y.notebook
  BY <1>1, <1>3, <1>5 DEF Linked
<1>7. \A a, b \in notes' : a.id = b.id => a = b
  BY <1>1, <1>3 DEF Linked
<1> QED
  BY <1>1, <1>2, <1>4, <1>6, <1>7, CountedIs, NotesEdited

LEMMA PinStep == ASSUME Inv, NEW r \in Requests, Pin(r) PROVE Inv'
<1>1. TypeOK /\ Linked /\ Told /\ Apart /\ Faithful(request[r])
  BY DEF Inv
<1>2. PICK q \in Request : q = request[r]
  BY <1>1 DEF TypeOK
<1>3. /\ q.pc = "pin" /\ Pinning(q) /\ End(r) /\ q.no \in Number /\ q.no <= count.requests
      /\ q.notebook \in Notebooks
  BY <1>1, <1>2 DEF Pin, Faithful, Request
<1>4. UNCHANGED <<notebook, source, conversation, messages, events, feedback, lock, stale, loose, overlap>>
  BY DEF Pin, chat, studio
<1>5. request' \in [Requests -> Request]
  BY <1>1, <1>3, EndIs, RestIs, OneRequest
<1>6. CASE ~(Live(q.notebook) /\ Exists(q.message))
  <2>1. UNCHANGED <<notes, count>>
    BY <1>2, <1>6 DEF Pin
  <2> QED
    BY <1>2, <1>3, <1>4, <2>1, Finish DEF chat, shelf, studio
<1>7. CASE Live(q.notebook) /\ Exists(q.message)
  <2>1. PICK k \in Nat : k = count.notes + 1
    BY <1>1, Numbers
  <2>2. PICK x : x = [id |-> k, notebook |-> q.notebook, message |-> q.message, text |-> "answer", by |-> q.no]
    OBVIOUS
  <2>3. x \in Note /\ x.id = k /\ x.notebook = q.notebook /\ x.message = q.message /\ x.by = q.no
    BY <1>3, <2>2 DEF Note, Request
  <2>4. notes' = notes \cup {x} /\ count' = [count EXCEPT !.notes = k]
    BY <1>2, <1>7, <2>1, <2>2 DEF Pin
  <2>5. /\ count'.requests = count.requests /\ count'.faults = count.faults /\ count'.conversations = count.conversations
        /\ count'.messages = count.messages /\ count'.notes = k /\ count'.events = count.events
        /\ count' \in [requests : Number, faults : 0 .. MaxFaults, conversations : Conversations,
                messages : MessageNo, notes : Nat, events : Nat]
    BY <1>1, <2>1, <2>4 DEF TypeOK
  <2>6. TypeOK'
    BY <1>1, <1>4, <1>5, <2>3, <2>4, <2>5 DEF TypeOK
  <2>7. Grown
    BY <1>1, <1>4, <2>5, Numbers DEF Grown
  <2>8. k \in 1 .. k /\ k \notin 1 .. count.notes /\ 1 .. count.notes \subseteq 1 .. k
    BY <1>1, <2>1, Numbers
  <2>9. Linked'
    <3>1. PICK m \in messages : m.id = q.message
      BY <1>7 DEF Exists
    <3>2. conversation[m.conversation].notebook = q.notebook
      BY <1>3, <3>1 DEF Pinning
    <3>3. \A y \in notes' :
           /\ y.id \in 1 .. count'.notes /\ Live(y.notebook)
           /\ y.message # 0 => \E o \in messages : o.id = y.message /\ conversation[o.conversation].notebook = y.notebook
      BY <1>1, <1>7, <2>3, <2>4, <2>5, <2>8, <3>1, <3>2 DEF Linked
    <3>4. \A a, b \in notes' : a.id = b.id => a = b
      BY <1>1, <2>3, <2>4, <2>8 DEF Linked
    <3> QED
      BY <1>1, <1>4, <2>5, <2>6, <2>7, <3>3, <3>4, NotesLinked
  <2>10. Told'
    <3>1. Broken => Broken'
      BY <1>1, <2>6, <2>7, BrokenStays
    <3>2. AnswersFollowQuestions'
      BY <1>1, <1>4, <3>1 DEF Told, AnswersFollowQuestions, Broken
    <3>3. PinnedOnce'
      BY <1>1, <1>3, <1>4, <2>3, <2>4 DEF Told, PinnedOnce, Pinning, Overlapped
    <3> QED
      BY <1>1, <1>4, <3>1, <3>2, <3>3 DEF Told
  <2>11. ASSUME NEW o \in Requests, o # r, request[o].pc # "idle", NEW j \in Number, j = request[o].no PROVE Quiet(j)
    <3>1. Overlapped(q.no, j)
      BY <1>1, <1>2, <1>3, <2>11 DEF Apart, Overlapped
    <3>2. Overlapped(q.no, j)'
      BY <1>4, <3>1 DEF Overlapped
    <3> QED
      BY <1>4, <2>3, <2>4, <3>2 DEF Quiet, Same
  <2> QED
    BY <1>2, <1>3, <1>4, <2>5, <2>6, <2>7, <2>9, <2>10, <2>11, Ends DEF Untouched, Live
<1> QED
  BY <1>6, <1>7

-----------------------------------------------------------------------------
(* Deletions.                                                              *)

LEMMA CutIs ==
  ASSUME TypeOK, Linked, NEW gone \in SUBSET Conversations, NEW n, Cut(gone, n)
  PROVE  /\ messages' = {m \in messages : m.conversation \notin gone}
         /\ feedback' \subseteq feedback /\ \A f \in feedback' : \E m \in messages' : m.id = f.message
         /\ \A x \in events' : \E e \in events :
              /\ x \in Event /\ x.id = e.id /\ x.by = e.by
              /\ x.message # 0 => \E m \in messages' : m.id = x.message
              /\ x.conversation # 0 => x.conversation = e.conversation /\ e.conversation \notin gone
              /\ x.notebook = IF e.notebook = n THEN None ELSE e.notebook
         /\ \A d, e \in events' : d.id = e.id => d = e
         /\ conversation' \in [Conversations -> Conversation]
         /\ \A c \in Conversations : /\ c \in gone => conversation'[c] = NoConversation
                                     /\ c \notin gone => conversation'[c] = conversation[c]
<1> DEFINE lost == {m \in messages : m.conversation \in gone}
           ids == {m.id : m \in lost}
           Left(e) == [e EXCEPT !.conversation = IF @ \in gone THEN 0 ELSE @,
                                !.message = IF @ \in ids THEN 0 ELSE @,
                                !.notebook = IF @ = n THEN None ELSE @]
<1>1. /\ messages' = messages \ lost
      /\ feedback' = {f \in feedback : f.message \notin ids}
      /\ events' = {Left(e) : e \in events}
      /\ conversation' = [c \in Conversations |-> IF c \in gone THEN NoConversation ELSE conversation[c]]
  BY DEF Cut
<1>2. messages' = {m \in messages : m.conversation \notin gone}
  BY <1>1
<1>3. \A i : i \notin ids /\ (\E m \in messages : m.id = i) => \E m \in messages' : m.id = i
  BY <1>1
<1>4. feedback' \subseteq feedback /\ \A f \in feedback' : \E m \in messages' : m.id = f.message
  BY <1>1, <1>3 DEF Linked, Exists
<1>5. ASSUME NEW e \in events
      PROVE  /\ Left(e) \in Event /\ Left(e).id = e.id /\ Left(e).by = e.by
             /\ Left(e).message # 0 => Left(e).message = e.message /\ e.message \notin ids
             /\ Left(e).conversation # 0 => Left(e).conversation = e.conversation /\ e.conversation \notin gone
             /\ Left(e).notebook = IF e.notebook = n THEN None ELSE e.notebook
  <2>1. e \in Event /\ 0 \in 0 .. MaxRequests + 1 /\ 0 \in MessageNo
    BY BoundAssumption DEF TypeOK, MessageNo
  <2>2. PICK c : c = IF e.conversation \in gone THEN 0 ELSE e.conversation
    OBVIOUS
  <2>3. PICK m : m = IF e.message \in ids THEN 0 ELSE e.message
    OBVIOUS
  <2>4. PICK b : b = IF e.notebook = n THEN None ELSE e.notebook
    OBVIOUS
  <2>5. Left(e) = [e EXCEPT !.conversation = c, !.message = m, !.notebook = b]
    BY <2>2, <2>3, <2>4
  <2>6. PICK x : x = [e EXCEPT !.conversation = c, !.message = m, !.notebook = b]
    OBVIOUS
  <2>7. c \in 0 .. MaxRequests + 1 /\ m \in MessageNo /\ b \in Notebooks \cup {None}
    BY <2>1, <2>2, <2>3, <2>4 DEF Event
  <2>8. x \in Event /\ x.id = e.id /\ x.by = e.by /\ x.message = m /\ x.conversation = c /\ x.notebook = b
    BY <2>1, <2>6, <2>7 DEF Event
  <2>9. Left(e) = x
    BY <2>5, <2>6
  <2> HIDE DEF Left
  <2> QED
    BY <2>2, <2>3, <2>4, <2>8, <2>9
<1> HIDE DEF Left
<1>6. \A x \in events' : \E e \in events :
        /\ x \in Event /\ x.id = e.id /\ x.by = e.by
        /\ x.message # 0 => \E m \in messages' : m.id = x.message
        /\ x.conversation # 0 => x.conversation = e.conversation /\ e.conversation \notin gone
        /\ x.notebook = IF e.notebook = n THEN None ELSE e.notebook
  <2> SUFFICES ASSUME NEW x \in events'
               PROVE  \E e \in events :
                        /\ x \in Event /\ x.id = e.id /\ x.by = e.by
                        /\ x.message # 0 => \E m \in messages' : m.id = x.message
                        /\ x.conversation # 0 => x.conversation = e.conversation /\ e.conversation \notin gone
                        /\ x.notebook = IF e.notebook = n THEN None ELSE e.notebook
    OBVIOUS
  <2>1. PICK e \in events : x = Left(e)
    BY <1>1
  <2>2. x.message # 0 => \E m \in messages' : m.id = x.message
    <3>1. e.message # 0 => \E m \in messages : m.id = e.message
      BY DEF Linked, Exists
    <3> QED
      BY <1>3, <1>5, <2>1, <3>1
  <2> QED
    BY <1>5, <2>1, <2>2
<1>7. \A d, e \in events' : d.id = e.id => d = e
  <2> SUFFICES ASSUME NEW d \in events', NEW e \in events', d.id = e.id PROVE d = e
    OBVIOUS
  <2>1. PICK a \in events : d = Left(a)
    BY <1>1
  <2>2. PICK b \in events : e = Left(b)
    BY <1>1
  <2>3. a.id = b.id
    BY <1>5, <2>1, <2>2
  <2> QED
    BY <2>1, <2>2, <2>3 DEF Linked
<1>8. /\ conversation' \in [Conversations -> Conversation]
      /\ \A c \in Conversations : /\ c \in gone => conversation'[c] = NoConversation
                                  /\ c \notin gone => conversation'[c] = conversation[c]
  BY <1>1 DEF TypeOK, NoConversation, Conversation
<1> QED
  BY <1>2, <1>4, <1>6, <1>7, <1>8

\* What is left is as it was, and whole.
LEMMA Cuts ==
  ASSUME Inv, NEW gone \in SUBSET Conversations, NEW n, Cut(gone, n), Counted,
         UNCHANGED <<loose, request, overlap>>,
         notebook' \in [Notebooks -> Notebook], source' \in [Sources -> {"none", "other", "indexed", "gone"}],
         \A e \in events : e.notebook = n /\ e.conversation # 0 => e.notebook = None \/ e.conversation \in gone,
         \A c \in Conversations : There(c) /\ c \notin gone => Live(conversation[c].notebook)',
         \A d \in Notebooks : (Live(d)' => Live(d)) /\ notebook'[d].st \in {notebook[d].st, "deleted"},
         lock' \in [Notebooks -> Number], stale' \subseteq {d \in Notebooks : lock'[d] # 0},
         \A d \in Notebooks : Live(d)' => lock'[d] = lock[d] /\ (d \in stale' => d \in stale),
         notes' \subseteq Note, \A x, y \in notes' : x.id = y.id => x = y,
         \A x \in notes' : Live(x.notebook)' /\
           \E o \in notes : /\ o.id = x.id /\ o.by = x.by /\ o.notebook = x.notebook
                            /\ x.message # 0 =>
                                 /\ o.message = x.message
                                 /\ \A m \in messages : m.id = x.message => m.conversation \notin gone
  PROVE  Inv'
<1>1. TypeOK /\ Linked /\ Told /\ LockInv
  BY DEF Inv
<1>2. /\ messages' = {m \in messages : m.conversation \notin gone}
      /\ feedback' \subseteq feedback /\ \A f \in feedback' : \E m \in messages' : m.id = f.message
      /\ \A x \in events' : \E e \in events :
           /\ x \in Event /\ x.id = e.id /\ x.by = e.by
           /\ x.message # 0 => \E m \in messages' : m.id = x.message
           /\ x.conversation # 0 => x.conversation = e.conversation /\ e.conversation \notin gone
           /\ x.notebook = IF e.notebook = n THEN None ELSE e.notebook
      /\ \A d, e \in events' : d.id = e.id => d = e
      /\ conversation' \in [Conversations -> Conversation]
      /\ \A c \in Conversations : /\ c \in gone => conversation'[c] = NoConversation
                                  /\ c \notin gone => conversation'[c] = conversation[c]
  BY <1>1, CutIs
<1>3. /\ count'.requests = count.requests + 1 /\ count'.faults = count.faults /\ count'.conversations = count.conversations
      /\ count'.messages = count.messages /\ count'.notes = count.notes /\ count'.events = count.events
      /\ count' \in [requests : Number, faults : 0 .. MaxFaults, conversations : Conversations,
             messages : MessageNo, notes : Nat, events : Nat]
  BY <1>1, CountedIs
<1>4. TypeOK'
  <2>1. events' \subseteq Event
    BY <1>2
  <2> QED
    BY <1>1, <1>2, <1>3, <2>1 DEF TypeOK
<1>5. Grown
  BY <1>1, CountedGrows
<1>6. \A c \in Conversations : There(c)' => There(c) /\ c \notin gone
  BY <1>2 DEF There, NoConversation
<1>7. \A c \in Conversations : There(c) /\ c \notin gone => There(c)' /\ conversation'[c] = conversation[c]
  BY <1>2 DEF There
<1>8. Linked'
  <2>1. \A c \in Conversations : There(c)' => c <= count'.conversations /\ Live(conversation[c].notebook)'
    <3> SUFFICES ASSUME NEW c \in Conversations, There(c)' PROVE c <= count'.conversations /\ Live(conversation[c].notebook)'
      OBVIOUS
    <3>1. There(c) /\ c \notin gone /\ conversation'[c] = conversation[c]
      BY <1>2, <1>6
    <3> QED
      BY <1>1, <1>3, <3>1 DEF Linked, Live
  <2>2. \A m \in messages' : m.id \in 1 .. count'.messages /\ There(m.conversation)' /\ m.by <= count'.requests
    <3> SUFFICES ASSUME NEW m \in messages'
                 PROVE  m.id \in 1 .. count'.messages /\ There(m.conversation)' /\ m.by <= count'.requests
      OBVIOUS
    <3>1. m \in messages /\ m.conversation \notin gone /\ m.conversation \in Conversations /\ m.by \in Nat
      BY <1>1, <1>2, BoundAssumption DEF TypeOK, Message, Number
    <3>2. m.by <= count'.requests
      BY <1>1, <1>3, <3>1, Numbers DEF Linked
    <3> QED
      BY <1>1, <1>3, <1>7, <3>1, <3>2 DEF Linked
  <2>3. \A x \in notes' :
         /\ x.id \in 1 .. count'.notes /\ Live(x.notebook)'
         /\ x.message # 0 => \E m \in messages' : m.id = x.message /\ conversation'[m.conversation].notebook = x.notebook
    <3> SUFFICES ASSUME NEW x \in notes'
                 PROVE  /\ x.id \in 1 .. count'.notes /\ Live(x.notebook)'
                        /\ x.message # 0 => \E m \in messages' : m.id = x.message /\ conversation'[m.conversation].notebook = x.notebook
      OBVIOUS
    <3>1. PICK o \in notes : /\ o.id = x.id /\ o.by = x.by /\ o.notebook = x.notebook
                             /\ x.message # 0 =>
                                  /\ o.message = x.message
                                  /\ \A m \in messages : m.id = x.message => m.conversation \notin gone
      OBVIOUS
    <3>2. ASSUME x.message # 0 PROVE \E m \in messages' : m.id = x.message /\ conversation'[m.conversation].notebook = x.notebook
      <4>1. PICK m \in messages : m.id = x.message /\ conversation[m.conversation].notebook = x.notebook
        BY <1>1, <3>1, <3>2 DEF Linked
      <4>2. m \in messages' /\ m.conversation \in Conversations /\ m.conversation \notin gone
        BY <1>1, <1>2, <3>1, <3>2, <4>1 DEF TypeOK, Message
      <4> QED
        BY <1>2, <4>1, <4>2
    <3> QED
      BY <1>1, <1>3, <3>1, <3>2 DEF Linked
  <2>4. \A f \in feedback' : Exists(f.message)'
    BY <1>2 DEF Exists
  <2>5. \A x \in events' :
         /\ x.id \in 1 .. count'.events
         /\ x.message # 0 => Exists(x.message)'
         /\ x.conversation # 0 => There(x.conversation)' /\ conversation'[x.conversation].notebook = x.notebook
    <3> SUFFICES ASSUME NEW x \in events'
                 PROVE  /\ x.id \in 1 .. count'.events
                        /\ x.message # 0 => Exists(x.message)'
                        /\ x.conversation # 0 => There(x.conversation)' /\ conversation'[x.conversation].notebook = x.notebook
      OBVIOUS
    <3>1. PICK e \in events :
           /\ x.id = e.id
           /\ x.message # 0 => \E m \in messages' : m.id = x.message
           /\ x.conversation # 0 => x.conversation = e.conversation /\ e.conversation \notin gone
           /\ x.notebook = IF e.notebook = n THEN None ELSE e.notebook
      BY <1>2
    <3>2. x.conversation # 0 => There(x.conversation)' /\ conversation'[x.conversation].notebook = x.notebook
      <4> SUFFICES ASSUME x.conversation # 0
                   PROVE  There(x.conversation)' /\ conversation'[x.conversation].notebook = x.notebook
        OBVIOUS
      <4>1. /\ There(e.conversation) /\ conversation[e.conversation].notebook = e.notebook
            /\ e.conversation \in Conversations /\ e.conversation \notin gone
        BY <1>1, <3>1, BoundAssumption DEF Linked, TypeOK, Event, Conversations
      <4>2. x.notebook = e.notebook
        BY <3>1, <4>1
      <4> QED
        BY <1>7, <3>1, <4>1, <4>2
    <3> QED
      BY <1>1, <1>3, <3>1, <3>2 DEF Linked, Exists
  <2>6. /\ \A a, b \in messages' : a.id = b.id => a = b
        /\ \A d, e \in events' : d.id = e.id => d = e
    BY <1>1, <1>2 DEF Linked
  <2> QED
    BY <2>1, <2>2, <2>3, <2>4, <2>5, <2>6 DEF Linked
<1>9. Told'
  <2>1. Broken' <=> Broken
    BY <1>3 DEF Broken
  <2>2. AnswersFollowQuestions'
    BY <1>1, <1>2, <2>1 DEF Told, AnswersFollowQuestions, Broken
  <2>3. PinnedOnce'
    <3> SUFFICES ASSUME NEW x \in notes', NEW y \in notes', x # y, x.message # 0, x.message = y.message
                 PROVE  Overlapped(x.by, y.by)'
      BY DEF PinnedOnce
    <3>1. x.id # y.id
      OBVIOUS
    <3>2. PICK a \in notes : a.id = x.id /\ a.message = x.message /\ a.by = x.by
      OBVIOUS
    <3>3. PICK b \in notes : b.id = y.id /\ b.message = y.message /\ b.by = y.by
      OBVIOUS
    <3>4. Overlapped(a.by, b.by)
      BY <1>1, <3>1, <3>2, <3>3 DEF Told, PinnedOnce
    <3> QED
      BY <3>2, <3>3, <3>4 DEF Overlapped
  <2>4. /\ \A m, k \in messages' : m.role = "user" /\ k.role = "user" /\ m.by = k.by /\ m.by # 0 => m = k
        /\ \A m, k \in messages' :
             m.role = "assistant" /\ k.role = "assistant" /\ m.by = k.by /\ m.by # 0 /\ m # k => m.error # k.error /\ Broken'
    BY <1>1, <1>2, <2>1 DEF Told
  <2> QED
    BY <2>2, <2>3, <2>4 DEF Told
<1>10. LockInv'
  <2>1. \A o \in Requests, d \in Notebooks : Keeps(o, d)' <=> Keeps(o, d)
    BY DEF Keeps, Holds
  <2> QED
    BY <1>1, <2>1 DEF LockInv
<1>11. \A o \in Requests : Untouched(o)
  <2> SUFFICES ASSUME NEW o \in Requests, NEW k \in Number, k = request[o].no PROVE Quiet(k)
    BY DEF Untouched
  <2>1. \A c \in Conversations :
          c <= count.conversations => conversation'[c].notebook \in {conversation[c].notebook, None}
    BY <1>2 DEF NoConversation
  <2>2. \A m \in messages' : \E a \in messages : Same(a, m)
    BY <1>2 DEF Same
  <2>3. \A m \in messages : There(m.conversation)' => \E a \in messages' : Same(a, m)
    <3> SUFFICES ASSUME NEW m \in messages, There(m.conversation)' PROVE m \in messages'
      BY DEF Same
    <3>1. m.conversation \in Conversations
      BY <1>1 DEF TypeOK, Message
    <3> QED
      BY <1>2, <1>6, <3>1
  <2>4. \A e \in events' : \E a \in events : a.id = e.id /\ a.by = e.by
    BY <1>2
  <2>5. \A x \in notes' : x.message = 0 \/ \E a \in notes : a.message = x.message /\ a.by = x.by
    OBVIOUS
  <2>6. \A d \in Notebooks : /\ notebook[d].st = "deleted" => notebook'[d].st = "deleted"
                             /\ notebook[d].st # "unused" => notebook'[d].st # "unused"
    OBVIOUS
  <2> QED
    BY <2>1, <2>2, <2>3, <2>4, <2>5, <2>6 DEF Quiet
<1>12. count'.conversations + count.requests <= count.conversations + count'.requests
  BY <1>1, <1>3, Numbers
<1> QED
  BY <1>4, <1>5, <1>8, <1>9, <1>10, <1>11, <1>12, Edited

LEMMA DeleteConversationStep == ASSUME Inv, NEW c \in Conversations, DeleteConversation(c) PROVE Inv'
<1>1. TypeOK /\ Linked
  BY DEF Inv
<1>2. /\ UNCHANGED <<notebook, source, lock, stale, loose, request, overlap>>
      /\ Counted /\ Cut({c}, None) /\ notes' = Unlinked({c})
  BY DEF DeleteConversation, studio
<1> DEFINE Left(x) == [x EXCEPT !.message = IF \E m \in messages : m.id = x.message /\ m.conversation \in {c} THEN 0 ELSE @]
<1>3. notes' = {Left(x) : x \in notes}
  BY <1>2 DEF Unlinked
<1>4. ASSUME NEW x \in notes
      PROVE  /\ Left(x) \in Note /\ Left(x).id = x.id /\ Left(x).by = x.by /\ Left(x).notebook = x.notebook
             /\ Left(x).message # 0 =>
                  Left(x).message = x.message /\ \A m \in messages : m.id = x.message => m.conversation \notin {c}
  <2>1. x \in Note /\ 0 \in MessageNo
    BY <1>1 DEF TypeOK, MessageNo
  <2>2. PICK i : i = IF \E m \in messages : m.id = x.message /\ m.conversation \in {c} THEN 0 ELSE x.message
    OBVIOUS
  <2>3. PICK y : y = [x EXCEPT !.message = i]
    OBVIOUS
  <2>4. i \in MessageNo
    BY <2>1, <2>2 DEF Note
  <2>5. y \in Note /\ y.id = x.id /\ y.by = x.by /\ y.notebook = x.notebook /\ y.message = i
    BY <2>1, <2>3, <2>4 DEF Note
  <2>6. Left(x) = y
    BY <2>2, <2>3
  <2> HIDE DEF Left
  <2> QED
    BY <2>2, <2>5, <2>6
<1> HIDE DEF Left
<1>5. notes' \subseteq Note
  BY <1>3, <1>4
<1>6. \A x, y \in notes' : x.id = y.id => x = y
  <2> SUFFICES ASSUME NEW x \in notes', NEW y \in notes', x.id = y.id PROVE x = y
    OBVIOUS
  <2>1. PICK a \in notes : x = Left(a)
    BY <1>3
  <2>2. PICK b \in notes : y = Left(b)
    BY <1>3
  <2>3. a.id = b.id
    BY <1>4, <2>1, <2>2
  <2> QED
    BY <1>1, <2>1, <2>2, <2>3 DEF Linked
<1>7. \A x \in notes' : Live(x.notebook)' /\
           \E o \in notes : /\ o.id = x.id /\ o.by = x.by /\ o.notebook = x.notebook
                            /\ x.message # 0 =>
                                 /\ o.message = x.message
                                 /\ \A m \in messages : m.id = x.message => m.conversation \notin {c}
  <2> SUFFICES ASSUME NEW x \in notes'
               PROVE  Live(x.notebook)' /\
                        \E o \in notes : /\ o.id = x.id /\ o.by = x.by /\ o.notebook = x.notebook
                                         /\ x.message # 0 =>
                                              /\ o.message = x.message
                                              /\ \A m \in messages : m.id = x.message => m.conversation \notin {c}
    OBVIOUS
  <2>1. PICK a \in notes : x = Left(a)
    BY <1>3
  <2>2. Live(a.notebook)
    BY <1>1 DEF Linked
  <2>3. Live(x.notebook)'
    BY <1>2, <1>4, <2>1, <2>2 DEF Live
  <2> QED
    BY <1>4, <2>1, <2>3
<1>8. {c} \in SUBSET Conversations
  OBVIOUS
<1>9. /\ notebook' \in [Notebooks -> Notebook] /\ source' \in [Sources -> {"none", "other", "indexed", "gone"}]
      /\ lock' \in [Notebooks -> Number] /\ stale' \subseteq {d \in Notebooks : lock'[d] # 0}
  BY <1>1, <1>2 DEF TypeOK
<1>10. /\ \A e \in events : e.notebook = None /\ e.conversation # 0 => e.notebook = None \/ e.conversation \in {c}
       /\ \A d \in Notebooks : (Live(d)' => Live(d)) /\ notebook'[d].st \in {notebook[d].st, "deleted"}
       /\ \A d \in Notebooks : Live(d)' => lock'[d] = lock[d] /\ (d \in stale' => d \in stale)
  BY <1>2 DEF Live
<1>11. \A d \in Conversations : There(d) /\ d \notin {c} => Live(conversation[d].notebook)'
  <2> SUFFICES ASSUME NEW d \in Conversations, There(d), d # c PROVE Live(conversation[d].notebook)'
    OBVIOUS
  <2>1. Live(conversation[d].notebook)
    BY <1>1 DEF Linked
  <2>2. PICK gone \in SUBSET Conversations : gone = {c}
    BY <1>8
  <2>3. Cut(gone, None)
    BY <1>2, <2>2
  <2>4. conversation'[d] = conversation[d]
    BY <1>1, <2>2, <2>3, CutIs
  <2> QED
    BY <1>2, <2>1, <2>4 DEF Live
<1> QED
  BY <1>2, <1>5, <1>6, <1>7, <1>8, <1>9, <1>10, <1>11, Cuts

LEMMA DeleteNotebookStep == ASSUME Inv, NEW n \in Notebooks, DeleteNotebook(n) PROVE Inv'
<1>1. TypeOK /\ Linked
  BY DEF Inv
<1>2. PICK gone \in SUBSET Conversations : gone = {c \in Conversations : conversation[c].notebook = n}
  OBVIOUS
<1>3. /\ Counted /\ Cut(gone, n) /\ notes' = {x \in notes : x.notebook # n}
      /\ notebook' = [notebook EXCEPT ![n] = [Empty EXCEPT !.st = "deleted"]]
      /\ source' = [s \in Sources |-> IF Home[s] = n THEN "gone" ELSE source[s]]
      /\ lock' = [lock EXCEPT ![n] = 0] /\ stale' = stale \ {n}
      /\ UNCHANGED <<loose, request, overlap>>
  BY <1>2 DEF DeleteNotebook
<1>4. PICK e0 : e0 = [Empty EXCEPT !.st = "deleted"]
  OBVIOUS
<1>5. e0 \in Notebook /\ e0.st = "deleted"
  BY <1>4 DEF Empty, Notebook, Cache
<1>6. /\ notebook' \in [Notebooks -> Notebook] /\ notebook'[n].st = "deleted"
      /\ \A d \in Notebooks : d # n => notebook'[d] = notebook[d]
  BY <1>1, <1>3, <1>4, <1>5 DEF TypeOK
<1>7. source' \in [Sources -> {"none", "other", "indexed", "gone"}]
  BY <1>1, <1>3 DEF TypeOK
<1>8. /\ lock' \in [Notebooks -> Number] /\ lock'[n] = 0 /\ \A d \in Notebooks : d # n => lock'[d] = lock[d]
  BY <1>1, <1>3, BoundAssumption DEF TypeOK, Number
<1>9. stale' \subseteq {d \in Notebooks : lock'[d] # 0}
  BY <1>1, <1>3, <1>8 DEF TypeOK
<1>10. /\ \A d \in Notebooks : (Live(d)' => Live(d)) /\ notebook'[d].st \in {notebook[d].st, "deleted"}
       /\ \A d \in Notebooks : Live(d)' => lock'[d] = lock[d] /\ (d \in stale' => d \in stale)
  BY <1>3, <1>6, <1>8 DEF Live
<1>11. \A e \in events : e.notebook = n /\ e.conversation # 0 => e.notebook = None \/ e.conversation \in gone
  <2> SUFFICES ASSUME NEW e \in events, e.notebook = n, e.conversation # 0 PROVE e.conversation \in gone
    OBVIOUS
  <2>1. conversation[e.conversation].notebook = n /\ e.conversation \in Conversations
    BY <1>1, BoundAssumption DEF Linked, TypeOK, Event, Conversations
  <2> QED
    BY <1>2, <2>1
<1>12. \A c \in Conversations : There(c) /\ c \notin gone => Live(conversation[c].notebook)'
  <2> SUFFICES ASSUME NEW c \in Conversations, There(c), c \notin gone PROVE Live(conversation[c].notebook)'
    OBVIOUS
  <2>1. Live(conversation[c].notebook) /\ conversation[c].notebook \in Notebooks /\ conversation[c].notebook # n
    BY <1>1, <1>2 DEF Linked, TypeOK, Conversation, There
  <2>2. conversation'[c] = conversation[c]
    BY <1>1, <1>3, CutIs
  <2> QED
    BY <1>6, <2>1, <2>2 DEF Live
<1>13. notes' \subseteq Note /\ \A x, y \in notes' : x.id = y.id => x = y
  BY <1>1, <1>3 DEF TypeOK, Linked
<1>14. \A x \in notes' : Live(x.notebook)' /\
           \E o \in notes : /\ o.id = x.id /\ o.by = x.by /\ o.notebook = x.notebook
                            /\ x.message # 0 =>
                                 /\ o.message = x.message
                                 /\ \A m \in messages : m.id = x.message => m.conversation \notin gone
  <2> SUFFICES ASSUME NEW x \in notes'
               PROVE  /\ Live(x.notebook)'
                      /\ x.message # 0 => \A m \in messages : m.id = x.message => m.conversation \notin gone
    BY <1>3
  <2>1. x \in notes /\ x.notebook # n /\ x.notebook \in Notebooks /\ Live(x.notebook)
    BY <1>1, <1>3 DEF TypeOK, Note, Linked
  <2>2. ASSUME x.message # 0, NEW m \in messages, m.id = x.message PROVE m.conversation \notin gone
    <3>1. PICK k \in messages : k.id = x.message /\ conversation[k.conversation].notebook = x.notebook
      BY <1>1, <2>1, <2>2 DEF Linked
    <3>2. k = m
      BY <1>1, <2>2, <3>1 DEF Linked
    <3> QED
      BY <1>2, <2>1, <3>1, <3>2
  <2> QED
    BY <1>6, <2>1, <2>2 DEF Live
<1> QED
  BY <1>3, <1>6, <1>7, <1>8, <1>9, <1>10, <1>11, <1>12, <1>13, <1>14, Cuts

LEMMA SaveFollowupsStep == ASSUME Inv, NEW r \in Requests, SaveFollowups(r) PROVE Inv'
<1>1. TypeOK /\ Linked /\ Told
  BY DEF Inv
<1>2. /\ UNCHANGED <<notebook, source, conversation, events, notes, feedback, lock, stale, loose, count, overlap>>
      /\ request[r].pc = "followups" /\ End(r)
  BY DEF SaveFollowups, shelf, studio
<1>3. CASE UNCHANGED messages
  BY <1>2, <1>3, Finish DEF chat, shelf, studio
<1>4. CASE messages' = {[x EXCEPT !.followups = @ \/ x.id = request[r].message] : x \in messages}
  <2> DEFINE Kept1(x) == [x EXCEPT !.followups = @ \/ x.id = request[r].message]
  <2>1. messages' = {Kept1(x) : x \in messages}
    BY <1>4
  <2>2. ASSUME NEW x \in messages PROVE Kept1(x) \in Message /\ Same(Kept1(x), x)
    <3>1. x \in Message
      BY <1>1 DEF TypeOK
    <3>2. PICK b \in BOOLEAN : b = (x.followups \/ x.id = request[r].message)
      BY <3>1 DEF Message
    <3>3. PICK y : y = [x EXCEPT !.followups = b]
      OBVIOUS
    <3>4. y \in Message /\ Same(y, x)
      BY <3>1, <3>3 DEF Message, Same
    <3>5. Kept1(x) = y
      BY <3>2, <3>3
    <3> HIDE DEF Kept1
    <3> QED
      BY <3>4, <3>5
  <2> HIDE DEF Kept1
  <2>3. \A y \in messages' : \E x \in messages : Same(x, y) /\ Same(y, x) /\ y = Kept1(x)
    BY <2>1, <2>2 DEF Same
  <2>4. \A x \in messages : \E y \in messages' : Same(x, y) /\ Same(y, x)
    BY <2>1, <2>2 DEF Same
  <2>5. messages' \subseteq Message
    BY <2>1, <2>2
  <2>6. request' = [request EXCEPT ![r] = Rest]
    BY <1>1, <1>2, EndIs
  <2>7. TypeOK'
    BY <1>1, <1>2, <2>5, <2>6, RestIs, OneRequest DEF TypeOK
  <2>8. Grown
    BY <1>1, <1>2, Numbers DEF Grown
  <2>9. \A y, z \in messages' : y.id = z.id => y = z
    <3> SUFFICES ASSUME NEW y \in messages', NEW z \in messages', y.id = z.id PROVE y = z
      OBVIOUS
    <3>1. PICK a \in messages : Same(a, y) /\ y = Kept1(a)
      BY <2>3
    <3>2. PICK b \in messages : Same(b, z) /\ z = Kept1(b)
      BY <2>3
    <3>3. a = b
      BY <1>1, <3>1, <3>2 DEF Same, Linked
    <3> QED
      BY <3>1, <3>2, <3>3
  <2>10. \A i : Exists(i) => Exists(i)'
    BY <2>4 DEF Exists, Same
  <2>11. Linked'
    <3>1. \A m \in messages' : m.id \in 1 .. count'.messages /\ There(m.conversation)' /\ m.by <= count'.requests
      BY <1>1, <1>2, <2>3 DEF Linked, Same, There
    <3>2. \A x \in notes' :
            x.message # 0 => \E m \in messages' : m.id = x.message /\ conversation'[m.conversation].notebook = x.notebook
      <4> SUFFICES ASSUME NEW x \in notes, x.message # 0
                   PROVE  \E m \in messages' : m.id = x.message /\ conversation'[m.conversation].notebook = x.notebook
        BY <1>2
      <4>1. PICK m \in messages : m.id = x.message /\ conversation[m.conversation].notebook = x.notebook
        BY <1>1 DEF Linked
      <4>2. PICK y \in messages' : Same(m, y)
        BY <2>4
      <4> QED
        BY <1>2, <4>1, <4>2 DEF Same
    <3>3. \A f \in feedback' : Exists(f.message)'
      BY <1>1, <1>2, <2>10 DEF Linked
    <3>4. \A e \in events' :
            /\ e.id \in 1 .. count'.events
            /\ e.message # 0 => Exists(e.message)'
            /\ e.conversation # 0 => There(e.conversation)' /\ conversation'[e.conversation].notebook = e.notebook
      BY <1>1, <1>2, <2>10 DEF Linked, There
    <3>5. /\ \A c \in Conversations : There(c)' => c <= count'.conversations /\ Live(conversation[c].notebook)'
          /\ \A x \in notes' : x.id \in 1 .. count'.notes /\ Live(x.notebook)'
      BY <1>1, <1>2 DEF Linked, There, Live
    <3>6. /\ \A x, y \in notes' : x.id = y.id => x = y
          /\ \A d, e \in events' : d.id = e.id => d = e
      BY <1>1, <1>2 DEF Linked
    <3> QED
      BY <2>9, <3>1, <3>2, <3>3, <3>4, <3>5, <3>6 DEF Linked
  <2>12. Told'
    <3>1. Broken' <=> Broken
      BY <1>2 DEF Broken
    <3>2. \A m, k \in messages' : m.role = "user" /\ k.role = "user" /\ m.by = k.by /\ m.by # 0 => m = k
      <4> SUFFICES ASSUME NEW m \in messages', NEW k \in messages', m.role = "user", k.role = "user", m.by = k.by, m.by # 0
                   PROVE  m = k
        OBVIOUS
      <4>1. PICK a \in messages : Same(a, m) /\ m = Kept1(a)
        BY <2>3
      <4>2. PICK b \in messages : Same(b, k) /\ k = Kept1(b)
        BY <2>3
      <4>3. a = b
        BY <1>1, <4>1, <4>2 DEF Same, Told
      <4> QED
        BY <4>1, <4>2, <4>3
    <3>3. \A m, k \in messages' :
            m.role = "assistant" /\ k.role = "assistant" /\ m.by = k.by /\ m.by # 0 /\ m # k => m.error # k.error /\ Broken'
      <4> SUFFICES ASSUME NEW m \in messages', NEW k \in messages', m.role = "assistant", k.role = "assistant",
                          m.by = k.by, m.by # 0, m # k
                   PROVE  m.error # k.error /\ Broken
        BY <3>1
      <4>1. PICK a \in messages : Same(a, m) /\ m = Kept1(a)
        BY <2>3
      <4>2. PICK b \in messages : Same(b, k) /\ k = Kept1(b)
        BY <2>3
      <4>3. a # b
        BY <4>1, <4>2
      <4> QED
        BY <1>1, <4>1, <4>2, <4>3 DEF Same, Told
    <3>4. AnswersFollowQuestions'
      <4> SUFFICES ASSUME NEW m \in messages', m.role = "assistant"
                   PROVE  \/ \E q \in messages' : /\ q.role = "user" /\ q.by = m.by
                                                  /\ q.conversation = m.conversation /\ q.id < m.id
                          \/ m.error /\ (m.kind = "stream" \/ count'.faults > 0)
        BY DEF AnswersFollowQuestions
      <4>1. PICK a \in messages : Same(a, m)
        BY <2>3
      <4>2. CASE a.error /\ (a.kind = "stream" \/ count.faults > 0)
        BY <1>2, <4>1, <4>2 DEF Same
      <4>3. CASE \E q \in messages : q.role = "user" /\ q.by = a.by /\ q.conversation = a.conversation /\ q.id < a.id
        <5>1. PICK q \in messages : q.role = "user" /\ q.by = a.by /\ q.conversation = a.conversation /\ q.id < a.id
          BY <4>3
        <5>2. PICK p \in messages' : Same(q, p)
          BY <2>4
        <5> QED
          BY <4>1, <5>1, <5>2 DEF Same
      <4>4. a.role = "assistant"
        BY <4>1 DEF Same
      <4> QED
        BY <1>1, <4>2, <4>3, <4>4 DEF Told, AnswersFollowQuestions
    <3>5. PinnedOnce'
      BY <1>1, <1>2 DEF Told, PinnedOnce, Overlapped
    <3> QED
      BY <3>2, <3>3, <3>4, <3>5 DEF Told
  <2>13. \A o \in Requests : o # r => Untouched(o)
    BY <1>2, <2>3, <2>4 DEF Untouched, Quiet
  <2>14. \A n \in Notebooks : Live(n)' => Live(n)
    BY <1>2 DEF Live
  <2> QED
    BY <1>2, <2>7, <2>8, <2>11, <2>12, <2>13, <2>14, Ends
<1> QED
  BY <1>2, <1>3, <1>4 DEF SaveFollowups

-----------------------------------------------------------------------------
(* What is kept of a notebook, and the lock.                               *)

\* Only what is cached of a notebook is new.
LEMMA Cached ==
  ASSUME Inv, notebook' \in [Notebooks -> Notebook], \A d \in Notebooks : notebook'[d].st = notebook[d].st,
         UNCHANGED <<source, conversation, messages, events, notes, feedback, count, overlap, lock, stale, loose>>,
         request' \in [Requests -> Request]
  PROVE  /\ TypeOK' /\ Linked' /\ Told' /\ Grown
         /\ \A d \in Notebooks : Live(d)' <=> Live(d)
         /\ \A o \in Requests : Untouched(o)
<1>1. TypeOK /\ Linked /\ Told
  BY DEF Inv
<1>2. TypeOK'
  BY <1>1 DEF TypeOK
<1>3. Grown
  BY <1>1, Numbers DEF Grown
<1>4. \A d \in Notebooks : Live(d)' <=> Live(d)
  BY DEF Live
<1>5. \A c \in Conversations : There(c)' => c <= count'.conversations /\ Live(conversation[c].notebook)'
  <2> SUFFICES ASSUME NEW c \in Conversations, There(c)' PROVE c <= count'.conversations /\ Live(conversation[c].notebook)'
    OBVIOUS
  <2>1. There(c) /\ conversation'[c].notebook = conversation[c].notebook
    BY DEF There
  <2>2. c <= count.conversations /\ Live(conversation[c].notebook) /\ conversation[c].notebook \in Notebooks
    BY <1>1, <2>1 DEF Linked, TypeOK, Conversation, There
  <2> QED
    BY <1>4, <2>1, <2>2 DEF Live
<1>6. Linked'
  BY <1>1, <1>2, <1>3, <1>4, <1>5, LinkedKept
<1>7. Told'
  BY <1>1, <1>2, <1>3, ToldSame
<1>8. \A o \in Requests : Untouched(o)
  BY DEF Untouched, Quiet, Same
<1> QED
  BY <1>2, <1>3, <1>4, <1>6, <1>7, <1>8

LEMMA KeepBriefingStep == ASSUME Inv, NEW r \in Requests, KeepBriefing(r) PROVE Inv'
<1>1. TypeOK /\ Owed /\ Faithful(request[r])
  BY DEF Inv
<1>2. /\ request[r].pc = "keep" /\ Goto(r, "release")
      /\ UNCHANGED <<source, conversation, messages, events, notes, feedback, lock, stale, loose, count, overlap>>
  BY DEF KeepBriefing, chat, shelf, studio
<1>3. PICK n \in Notebooks : n = request[r].notebook
  BY <1>1, <1>2 DEF Faithful
<1>4. PICK b : b = IF Live(n) THEN "fresh" ELSE notebook[n].briefing
  OBVIOUS
<1>5. notebook' = [notebook EXCEPT ![n].briefing = b] /\ b \in Cache
  BY <1>1, <1>3, <1>4 DEF KeepBriefing, TypeOK, Notebook, Cache
<1>6. notebook' \in [Notebooks -> Notebook] /\ \A d \in Notebooks : notebook'[d].st = notebook[d].st
  BY <1>1, <1>5 DEF TypeOK, Notebook
<1>7. PICK f \in Request :
           /\ request' = [request EXCEPT ![r] = f]
           /\ f.pc = "release" /\ f.kind = request[r].kind /\ f.no = request[r].no /\ f.notebook = request[r].notebook
           /\ f.conversation = request[r].conversation
           /\ f.picked = request[r].picked /\ f.selected = request[r].selected /\ f.scope = request[r].scope
  BY <1>1, <1>2, GotoIs
<1>8. request' \in [Requests -> Request] /\ request'[r] = f
  BY <1>1, <1>7, OneRequest
<1>9. /\ TypeOK' /\ Linked' /\ Told' /\ Grown
      /\ \A d \in Notebooks : Live(d)' <=> Live(d)
      /\ \A o \in Requests : Untouched(o)
  BY <1>2, <1>6, <1>8, Cached
<1>10. f.no <= count'.requests /\ f.no # 0 /\ f.notebook \in Notebooks /\ notebook'[f.notebook].st # "unused"
  BY <1>1, <1>2, <1>3, <1>6, <1>7 DEF Faithful
<1>11. Faithful(f)'
  <2>1. Scoped(f)
    BY <1>1, <1>7 DEF Faithful, Scoped
  <2>2. Scoped(f)'
    BY <2>1 DEF Scoped
  <2> QED
    BY <1>7, <1>10, <2>2 DEF Faithful, Pinning, Asking
<1>12. Owed'
  <2>1. f.kind \in {"ask", "stream"} /\ f.conversation = 0 => r \in Owing
    BY <1>7 DEF Owing
  <2> QED
    BY <1>1, <1>2, <1>7, <1>9, <2>1, OwingSame
<1> QED
  BY <1>2, <1>7, <1>9, <1>11, <1>12, Act

LEMMA SaveSuggestionsStep == ASSUME Inv, NEW r \in Requests, SaveSuggestions(r) PROVE Inv'
<1>1. TypeOK /\ Faithful(request[r])
  BY DEF Inv
<1>2. /\ request[r].pc = "suggest" /\ End(r)
      /\ UNCHANGED <<source, conversation, messages, events, notes, feedback, lock, stale, loose, count, overlap>>
  BY DEF SaveSuggestions, chat, shelf, studio
<1>3. PICK n \in Notebooks : n = request[r].notebook
  BY <1>1, <1>2 DEF Faithful
<1>4. PICK b : b = IF Live(n) THEN "fresh" ELSE notebook[n].suggestions
  OBVIOUS
<1>5. b \in Cache /\ (UNCHANGED notebook \/ notebook' = [notebook EXCEPT ![n].suggestions = b])
  BY <1>1, <1>3, <1>4 DEF SaveSuggestions, TypeOK, Notebook, Cache
<1>6. notebook' \in [Notebooks -> Notebook] /\ \A d \in Notebooks : notebook'[d].st = notebook[d].st
  <2>1. CASE UNCHANGED notebook
    BY <1>1, <2>1 DEF TypeOK
  <2>2. CASE notebook' = [notebook EXCEPT ![n].suggestions = b]
    BY <1>1, <1>5, <2>2 DEF TypeOK, Notebook
  <2> QED
    BY <1>5, <2>1, <2>2
<1>7. request' \in [Requests -> Request]
  BY <1>1, <1>2, EndIs, RestIs, OneRequest
<1>8. /\ TypeOK' /\ Linked' /\ Told' /\ Grown
      /\ \A d \in Notebooks : Live(d)' <=> Live(d)
      /\ \A o \in Requests : Untouched(o)
  BY <1>2, <1>6, <1>7, Cached
<1> QED
  BY <1>2, <1>8, Ends

\* A step of an open request that writes the lock only.
LEMMA Locked ==
  ASSUME Inv, NEW r \in Requests, request[r].pc # "idle", NEW q \in Request, request' = [request EXCEPT ![r] = q],
         UNCHANGED <<notebook, source, chat, shelf, count, overlap>>,
         q.pc = "idle" \/ q.no = request[r].no,
         q.kind \in {"ask", "stream"} /\ q.conversation = 0 => r \in Owing,
         lock' \in [Notebooks -> Number], stale' \subseteq {d \in Notebooks : lock'[d] # 0}, loose' \subseteq Notebooks,
         LockInv', Faithful(q)
  PROVE  Inv'
<1>1. TypeOK /\ Linked /\ Told /\ Apart /\ Owed
  BY DEF Inv
<1>2. /\ request' \in [Requests -> Request] /\ request'[r] = q
      /\ \A o \in Requests : o # r => request'[o] = request[o]
  BY <1>1, OneRequest
<1>3. UNCHANGED <<notebook, source, conversation, messages, notes, feedback, events, count, overlap>>
  BY DEF chat, shelf
<1>4. TypeOK'
  BY <1>1, <1>2, <1>3 DEF TypeOK
<1>5. Grown
  BY <1>1, <1>3, Numbers DEF Grown
<1>6. Linked' /\ Told'
  BY <1>1, <1>3, <1>4, <1>5, LinkedSame, ToldSame DEF Tables0, Numbers0
<1>7. Owed'
  BY <1>1, <1>3, <1>4, <1>5, OwingSame
<1>8. Apart'
  BY <1>1, <1>2, <1>5, ApartOne
<1>9. Faithful(request[r])'
  BY <1>2, <1>3 DEF Faithful, Question, Watermark, Pinning, Scoped, Before, After, Asked, Inside, Marked, Gone, There, Broken, Overlapped
<1>10. \A o \in Requests : o # r => request'[o] = request[o] /\ Untouched(o)
  BY <1>2, <1>3, QuietTables
<1> QED
  BY <1>4, <1>5, <1>6, <1>7, <1>8, <1>9, <1>10, Together

LEMMA AcquireStep == ASSUME Inv, NEW r \in Requests, Acquire(r) PROVE Inv'
<1>1. TypeOK /\ LockInv /\ \A o \in Requests : Faithful(request[o])
  BY DEF Inv
<1>2. request[r].pc = "acquire" /\ UNCHANGED <<notebook, source, chat, shelf, loose, count, overlap>>
  BY DEF Acquire
<1>3. PICK n \in Notebooks : n = request[r].notebook
  BY <1>1, <1>2 DEF Faithful
<1>4. CASE Live(n) /\ (lock[n] = 0 \/ n \in stale)
  <2>1. /\ lock' = [lock EXCEPT ![n] = request[r].no] /\ stale' = stale \ {n} /\ Goto(r, "summaries")
    BY <1>3, <1>4 DEF Acquire
  <2>2. PICK f \in Request :
           /\ request' = [request EXCEPT ![r] = f]
           /\ f.pc = "summaries" /\ f.kind = request[r].kind /\ f.no = request[r].no /\ f.notebook = request[r].notebook
           /\ f.conversation = request[r].conversation
           /\ f.picked = request[r].picked /\ f.selected = request[r].selected /\ f.scope = request[r].scope
    BY <1>1, <2>1, GotoIs
  <2>3. /\ request' \in [Requests -> Request] /\ request'[r] = f
        /\ \A o \in Requests : o # r => request'[o] = request[o]
    BY <1>1, <2>2, OneRequest
  <2>4. f.no \in Number /\ f.no # 0
    BY <1>1, <1>2, <2>2 DEF Request, Faithful
  <2>5. /\ lock' \in [Notebooks -> Number] /\ lock'[n] = f.no
        /\ \A d \in Notebooks : d # n => lock'[d] = lock[d]
    BY <1>1, <2>1, <2>2, <2>4 DEF TypeOK
  <2>6. stale' \subseteq {d \in Notebooks : lock'[d] # 0} /\ loose' \subseteq Notebooks
    BY <1>1, <1>2, <2>1, <2>4, <2>5 DEF TypeOK
  <2>7. Faithful(f)
    <3>1. Scoped(f)
      BY <1>1, <2>2 DEF Faithful, Scoped
    <3> QED
      BY <1>1, <1>2, <2>2, <3>1 DEF Faithful, Pinning, Asking
  <2>8. \A o \in Requests, d \in Notebooks : o # r /\ Keeps(o, d)' => Keeps(o, d) /\ request'[o].no = request[o].no
    BY <2>3 DEF Keeps, Holds
  <2>9. \A d \in Notebooks : Keeps(r, d)' => d = n
    BY <1>3, <2>2, <2>3 DEF Keeps, Holds
  <2>10. \A o \in Requests : o # r /\ Keeps(o, n) => n \in loose
    <3> SUFFICES ASSUME NEW o \in Requests, o # r, Keeps(o, n), n \notin loose PROVE FALSE
      OBVIOUS
    <3>1. lock[n] = request[o].no /\ n \notin stale
      BY <1>1, <1>4 DEF LockInv
    <3>2. request[o].pc # "idle"
      BY DEF Keeps, Holds
    <3>3. request[o].no # 0
      BY <1>1, <3>2 DEF Faithful
    <3> QED
      BY <1>4, <3>1, <3>3
  <2>11. LockInv'
    <3>1. ASSUME NEW o \in Requests, NEW d \in Notebooks, Keeps(o, d)', d \notin loose, Live(d)'
          PROVE  lock'[d] = request'[o].no /\ d \notin stale'
      <4>1. CASE o = r
        BY <2>1, <2>2, <2>3, <2>5, <2>9, <3>1, <4>1
      <4>2. CASE o # r
        <5>1. Keeps(o, d) /\ request'[o].no = request[o].no /\ Live(d)
          BY <1>2, <2>8, <3>1, <4>2 DEF Live
        <5>2. d # n
          BY <2>10, <3>1, <4>2, <5>1
        <5> QED
          BY <1>1, <2>1, <2>5, <3>1, <5>1, <5>2 DEF LockInv
      <4> QED
        BY <4>1, <4>2
    <3>2. ASSUME NEW o \in Requests, NEW p \in Requests, NEW d \in Notebooks, Keeps(o, d)', Keeps(p, d)', o # p
          PROVE  d \in loose
      <4>1. CASE o = r
        BY <2>8, <2>9, <2>10, <3>2, <4>1
      <4>2. CASE p = r
        BY <2>8, <2>9, <2>10, <3>2, <4>2
      <4>3. CASE o # r /\ p # r
        BY <1>1, <2>8, <3>2, <4>3 DEF LockInv
      <4> QED
        BY <4>1, <4>2, <4>3
    <3> QED
      BY <1>2, <3>1, <3>2 DEF LockInv
  <2>12. f.kind \in {"ask", "stream"} /\ f.conversation = 0 => r \in Owing
    BY <2>2 DEF Owing
  <2> QED
    BY <1>2, <2>2, <2>5, <2>6, <2>7, <2>11, <2>12, Locked
<1>5. CASE ~(Live(n) /\ (lock[n] = 0 \/ n \in stale))
  <2>1. End(r) /\ UNCHANGED <<lock, stale>>
    BY <1>3, <1>5 DEF Acquire
  <2> QED
    BY <1>2, <2>1, Finish DEF studio
<1> QED
  BY <1>4, <1>5

\* The row goes with the request that ends: those that keep it without holding it are known.
LEMMA RowGoes ==
  ASSUME Inv, NEW r \in Requests, request[r].pc # "idle", NEW n \in Notebooks, End(r),
         UNCHANGED <<notebook, source, chat, shelf, count, overlap>>,
         lock' = [lock EXCEPT ![n] = 0], stale' = stale \ {n}, loose' \subseteq Notebooks, loose \subseteq loose',
         \A o \in Requests : o # r /\ Keeps(o, n) => n \in loose'
  PROVE  Inv'
<1>1. TypeOK /\ LockInv
  BY DEF Inv
<1>2. request' = [request EXCEPT ![r] = Rest]
  BY <1>1, EndIs
<1>3. /\ request' \in [Requests -> Request] /\ request'[r] = Rest
      /\ \A o \in Requests : o # r => request'[o] = request[o]
  BY <1>1, <1>2, RestIs, OneRequest
<1>4. /\ lock' \in [Notebooks -> Number] /\ lock'[n] = 0 /\ \A d \in Notebooks : d # n => lock'[d] = lock[d]
  BY <1>1, BoundAssumption DEF TypeOK, Number
<1>5. stale' \subseteq {d \in Notebooks : lock'[d] # 0}
  BY <1>1, <1>4 DEF TypeOK
<1>6. \A o \in Requests, d \in Notebooks : Keeps(o, d)' => o # r /\ Keeps(o, d) /\ request'[o].no = request[o].no
  <2> SUFFICES ASSUME NEW o \in Requests, NEW d \in Notebooks, Keeps(o, d)'
               PROVE  o # r /\ Keeps(o, d) /\ request'[o].no = request[o].no
    OBVIOUS
  <2>1. o # r
    BY <1>3, RestIs DEF Keeps, Holds
  <2> QED
    BY <1>3, <2>1 DEF Keeps, Holds
<1>7. LockInv'
  <2>1. ASSUME NEW o \in Requests, NEW d \in Notebooks, Keeps(o, d)', d \notin loose', Live(d)'
        PROVE  lock'[d] = request'[o].no /\ d \notin stale'
    <3>1. Keeps(o, d) /\ request'[o].no = request[o].no /\ Live(d) /\ d # n
      BY <1>6, <2>1 DEF Live
    <3> QED
      BY <1>1, <1>4, <2>1, <3>1 DEF LockInv
  <2>2. \A o, p \in Requests, d \in Notebooks : Keeps(o, d)' /\ Keeps(p, d)' /\ o # p => d \in loose'
    BY <1>1, <1>6 DEF LockInv
  <2> QED
    BY <2>1, <2>2 DEF LockInv
<1>8. Faithful(Rest)
  BY <1>1, RestFaithful
<1> QED
  BY <1>2, <1>4, <1>5, <1>7, <1>8, RestIs, Locked

LEMMA ReleaseStep == ASSUME Inv, NEW r \in Requests, Release(r) PROVE Inv'
<1>1. TypeOK /\ LockInv /\ Faithful(request[r])
  BY DEF Inv
<1>2. request[r].pc = "release" /\ End(r) /\ UNCHANGED <<notebook, source, chat, shelf, loose, count, overlap>>
  BY DEF Release
<1>3. PICK n \in Notebooks : n = request[r].notebook
  BY <1>1, <1>2 DEF Faithful
<1>4. lock' = [lock EXCEPT ![n] = 0] /\ stale' = stale \ {n}
  BY <1>3 DEF Release
<1>5. \A o \in Requests : o # r /\ Keeps(o, n) => n \in loose'
  BY <1>1, <1>2, <1>3 DEF LockInv, Keeps
<1> QED
  BY <1>1, <1>2, <1>4, <1>5, RowGoes DEF TypeOK

LEMMA UnlockStep == ASSUME Inv, NEW r \in Requests, Unlock(r) PROVE Inv'
<1>1. TypeOK /\ Faithful(request[r])
  BY DEF Inv
<1>2. request[r].pc = "unlock" /\ End(r) /\ UNCHANGED <<notebook, source, chat, shelf, count, overlap>>
  BY DEF Unlock
<1>3. PICK n \in Notebooks : n = request[r].notebook
  BY <1>1, <1>2 DEF Faithful
<1>4. /\ lock' = [lock EXCEPT ![n] = 0] /\ stale' = stale \ {n}
      /\ loose' = IF Kept(n) THEN loose \cup {n} ELSE loose
  BY <1>3 DEF Unlock
<1>5. \A o \in Requests : o # r /\ Keeps(o, n) => n \in loose'
  BY <1>4 DEF Kept
<1>6. loose' \subseteq Notebooks /\ loose \subseteq loose'
  BY <1>1, <1>4 DEF TypeOK
<1> QED
  BY <1>2, <1>4, <1>5, <1>6, RowGoes

-----------------------------------------------------------------------------
(* The invariant.                                                          *)

LEMMA InitInv == ASSUME Init PROVE Inv
<1>1. /\ 0 \in Number /\ 1 \in Number /\ 1 \in Conversations /\ 0 \in 0 .. MaxFaults /\ 1 \in 0 .. MaxRequests + 1
      /\ 0 \in MessageNo /\ 1 \in MessageNo /\ 2 \in MessageNo
      /\ First \in Notebooks /\ Home \in [Sources -> Notebooks]
  BY BoundAssumption, TableAssumption DEF Number, Conversations, MessageNo
<1>2. PICK m1 : m1 = [id |-> 1, conversation |-> 1, role |-> "user", error |-> FALSE,
                      followups |-> FALSE, kind |-> "ask", by |-> 0]
  OBVIOUS
<1>3. PICK m2 : m2 = [id |-> 2, conversation |-> 1, role |-> "assistant", error |-> FALSE,
                      followups |-> FALSE, kind |-> "ask", by |-> 0]
  OBVIOUS
<1>4. PICK x1 : x1 = [id |-> 1, notebook |-> First, message |-> 2, text |-> "answer", by |-> 0]
  OBVIOUS
<1>5. PICK e1 : e1 = [id |-> 1, notebook |-> First, conversation |-> 1, message |-> 0, kind |-> "stream", by |-> 0]
  OBVIOUS
<1>6. m1 \in Message /\ m1.id = 1 /\ m1.conversation = 1 /\ m1.role = "user" /\ m1.by = 0
  BY <1>1, <1>2 DEF Message
<1>7. m2 \in Message /\ m2.id = 2 /\ m2.conversation = 1 /\ m2.role = "assistant" /\ m2.by = 0
  BY <1>1, <1>3 DEF Message
<1>8. x1 \in Note /\ x1.id = 1 /\ x1.notebook = First /\ x1.message = 2 /\ x1.by = 0
  BY <1>1, <1>4 DEF Note
<1>9. e1 \in Event /\ e1.id = 1 /\ e1.notebook = First /\ e1.conversation = 1 /\ e1.message = 0
  BY <1>1, <1>5 DEF Event
<1>10. messages = {m1, m2} /\ notes = {x1} /\ events = {e1} /\ feedback = {} /\ overlap = {} /\ stale = {First} /\ loose = {}
  BY <1>2, <1>3, <1>4, <1>5 DEF Init
<1>11. /\ count.requests = 1 /\ count.faults = 0 /\ count.conversations = 1 /\ count.messages = 2
       /\ count.notes = 1 /\ count.events = 1
       /\ count \in [requests : Number, faults : 0 .. MaxFaults, conversations : Conversations,
                     messages : MessageNo, notes : Nat, events : Nat]
  BY <1>1 DEF Init, MessageNo
<1>12. notebook \in [Notebooks -> Notebook] /\ notebook[First].st = "live"
  <2>1. PICK e0 : e0 = [Empty EXCEPT !.st = "live"]
    OBVIOUS
  <2>2. e0 \in Notebook /\ e0.st = "live" /\ Empty \in Notebook
    BY <2>1 DEF Empty, Notebook, Cache
  <2>3. notebook = [n \in Notebooks |-> IF n = First THEN e0 ELSE Empty]
    BY <2>1 DEF Init
  <2> QED
    BY <1>1, <2>2, <2>3
<1>13. /\ conversation \in [Conversations -> Conversation] /\ conversation[1].notebook = First
       /\ \A c \in Conversations : c # 1 => conversation[c].notebook = None
  <2>1. PICK c1 : c1 = [notebook |-> First, title |-> "default"]
    OBVIOUS
  <2>2. c1 \in Conversation /\ c1.notebook = First /\ NoConversation \in Conversation /\ NoConversation.notebook = None
    BY <1>1, <2>1 DEF Conversation, NoConversation
  <2>3. conversation = [c \in Conversations |-> IF c = 1 THEN c1 ELSE NoConversation]
    BY <2>1 DEF Init
  <2> QED
    BY <1>1, <2>2, <2>3
<1>14. source \in [Sources -> {"none", "other", "indexed", "gone"}] /\ lock \in [Notebooks -> Number]
  BY <1>1 DEF Init
<1>a. stale \subseteq {n \in Notebooks : lock[n] # 0}
  BY <1>1, <1>10 DEF Init
<1>15. request \in [Requests -> Request] /\ \A r \in Requests : request[r] = Rest
  BY RestIs DEF Init
<1>16. TypeOK
  BY <1>6, <1>7, <1>8, <1>9, <1>10, <1>11, <1>12, <1>13, <1>14, <1>15, <1>a DEF TypeOK
<1>17. There(1) /\ Live(First)
  BY <1>1, <1>12, <1>13, TableAssumption DEF There, Live
<1>18. Linked
  <2>1. \A c \in Conversations : There(c) => c <= count.conversations /\ Live(conversation[c].notebook)
    BY <1>11, <1>13, <1>17 DEF There
  <2> QED
    BY <1>6, <1>7, <1>8, <1>9, <1>10, <1>11, <1>13, <1>17, <2>1 DEF Linked
<1>19. Told
  <2>1. AnswersFollowQuestions
    BY <1>6, <1>7, <1>10 DEF AnswersFollowQuestions
  <2>2. PinnedOnce
    BY <1>10 DEF PinnedOnce
  <2> QED
    BY <1>6, <1>7, <1>10, <2>1, <2>2 DEF Told
<1>20. Apart /\ LockInv
  BY <1>15, RestIs DEF Apart, LockInv, Keeps, Holds
<1>21. Owed
  <2>1. Owing = {}
    BY <1>15, RestIs DEF Owing
  <2> QED
    BY <1>11, <2>1, FS_EmptySet DEF Owed
<1> QED
  BY <1>15, <1>16, <1>18, <1>19, <1>20, <1>21, RestFaithful DEF Inv

LEMMA StutterInv == ASSUME Inv, UNCHANGED vars PROVE Inv'
<1>1. UNCHANGED <<notebook, source, conversation, messages, events, notes, feedback, lock, stale, loose, request, count, overlap>>
  BY DEF vars, chat, shelf, studio
<1>2. TypeOK' /\ LockInv'
  BY <1>1, LockStays DEF Inv, TypeOK, Live
<1>3. Grown
  BY <1>1, Numbers DEF Grown, Inv
<1>4. Linked' /\ Told'
  BY <1>1, <1>2, <1>3, LinkedSame, ToldSame DEF Inv, Tables0, Numbers0
<1>5. \A o \in Requests : Untouched(o)
  BY <1>1, QuietTables
<1>6. count'.conversations + count.requests <= count.conversations + count'.requests
  BY <1>1, Numbers DEF Inv
<1> QED
  BY <1>1, <1>2, <1>3, <1>4, <1>5, <1>6, Edited

LEMMA NextInv == ASSUME Inv, Next PROVE Inv'
<1>1. CASE Ask
  BY <1>1, BeginAskStep, MarkStep, PrepareStep, RetrieveStep, GenerateStep, SaveAnswerStep, AttachStep, BreaksStep,
     EndSteps DEF Ask
<1>2. CASE Chat
  BY <1>2, NewConversationStep, AddNoteStep, RenameConversationStep, DeleteConversationStep, EditNoteStep,
     DeleteNoteStep, SubmitFeedbackStep, BeginPinStep, BeginFollowupsStep, PinStep, SaveFollowupsStep DEF Chat
<1>3. CASE Tables
  BY <1>3, CreateNotebookStep, RenameNotebookStep, DeleteNotebookStep, LockAgesStep, CacheAgesStep,
     SourceChangesStep DEF Tables
<1>4. CASE Briefing
  BY <1>4, BeginBriefingStep, BeginPeekStep, AcquireStep, SummariesStep, BriefStep, KeepBriefingStep, ReleaseStep,
     UnlockStep DEF Briefing
<1>5. CASE Tools
  BY <1>5, BeginSuggestStep, BeginCompareStep, BeginArtifactStep, BeginOneSourceStep, SaveSuggestionsStep,
     EvidenceStep, EndSteps DEF Tools
<1> QED
  BY <1>1, <1>2, <1>3, <1>4, <1>5 DEF Next

\* The tables refer to rows that are there, the messages of a request are what its handler
\* tells, and what a handler carries between its transactions stays true or is told to be
\* out of date (app/db.py init_db; app/main.py ask, ask_stream, pin_note, notebook_briefing).
THEOREM InvHolds == Spec => []Inv
<1>1. Init => Inv
  BY InitInv
<1>2. Inv /\ [Next]_vars => Inv'
  BY StutterInv, NextInv
<1> QED
  BY <1>1, <1>2, PTL DEF Spec

\* Every table holds the rows it is declared for, and the counters stay within their bounds.
THEOREM TypeCorrect == Spec => []TypeOK
<1>1. Inv => TypeOK
  BY DEF Inv
<1> QED
  BY <1>1, InvHolds, PTL

-----------------------------------------------------------------------------
(* What follows.                                                           *)

LEMMA AtMostOne ==
  ASSUME NEW S, \A a, b \in S : a = b
  PROVE  Cardinality(S) \in {0, 1}
<1>1. CASE S = {}
  BY <1>1, FS_EmptySet
<1>2. CASE S # {}
  <2>1. PICK a \in S : TRUE
    BY <1>2
  <2>2. S = {a}
    BY <2>1
  <2> QED
    BY <2>2, FS_Singleton
<1> QED
  BY <1>1, <1>2

LEMMA TranscriptOf == ASSUME Inv PROVE TranscriptHolds
<1>1. TypeOK /\ Told /\ \A r \in Requests : Faithful(request[r])
  BY DEF Inv
<1>2. AnswerBeforeDone
  <2> SUFFICES ASSUME NEW r \in Requests, request[r].pc = "render", There(request[r].conversation)
               PROVE  By(request[r].no, "assistant") # {}
    BY DEF AnswerBeforeDone
  <2>1. \E m \in messages : m.by = request[r].no /\ m.role = "assistant"
    BY <1>1 DEF Faithful, Question, Asking
  <2> QED
    BY <2>1 DEF By
<1>3. ASSUME NEW k \in 1 .. MaxRequests PROVE Cardinality(By(k, "user")) <= 1
  <2>1. k # 0
    BY BoundAssumption
  <2>2. \A a, b \in By(k, "user") : a = b
    BY <1>1, <2>1 DEF By, Told
  <2>3. Cardinality(By(k, "user")) \in {0, 1}
    BY <2>2, AtMostOne
  <2> QED
    BY <2>3
<1>4. ASSUME NEW k \in 1 .. MaxRequests
      PROVE  LET answers == By(k, "assistant") IN
             /\ Cardinality({m \in answers : m.error = TRUE}) <= 1
             /\ Cardinality({m \in answers : m.error = FALSE}) <= 1
             /\ Cardinality(answers) = 2 => count.faults > 0
  <2> DEFINE answers == By(k, "assistant")
  <2>1. k # 0
    BY BoundAssumption
  <2>2. \A a, b \in answers : a # b => a.error # b.error /\ Broken
    BY <1>1, <2>1 DEF By, Told
  <2> HIDE DEF answers
  <2>3. Cardinality({m \in answers : m.error = TRUE}) \in {0, 1}
    BY <2>2, AtMostOne
  <2>4. Cardinality({m \in answers : m.error = FALSE}) \in {0, 1}
    BY <2>2, AtMostOne
  <2>5. ASSUME Cardinality(answers) = 2 PROVE count.faults > 0
    <3>1. CASE \A a, b \in answers : a = b
      <4>1. Cardinality(answers) \in {0, 1}
        BY <3>1, AtMostOne
      <4> QED
        BY <2>5, <4>1
    <3>2. CASE \E a, b \in answers : a # b
      BY <2>2, <3>2 DEF Broken
    <3> QED
      BY <3>1, <3>2
  <2>6. /\ Cardinality({m \in answers : m.error = TRUE}) <= 1
        /\ Cardinality({m \in answers : m.error = FALSE}) <= 1
    BY <2>3, <2>4
  <2> QED
    BY <2>5, <2>6 DEF answers
<1>5. QuestionOnce
  BY <1>3 DEF QuestionOnce
<1>6. OneAnswer
  BY <1>4 DEF OneAnswer
<1> QED
  BY <1>1, <1>2, <1>5, <1>6 DEF TranscriptHolds, Told

\* What a conversation shows is what was told: a question at most once, its answer after it
\* and stored before the reader is told it is done, and no second answer but the error of a
\* stream whose bookkeeping failed, whatever is deleted meanwhile (ask, ask_stream,
\* _prepare_question, _save_assistant_message in app/main.py).
THEOREM Transcript == Spec => []TranscriptHolds
<1>1. Inv => TranscriptHolds
  BY TranscriptOf
<1> QED
  BY <1>1, InvHolds, PTL

\* What is searched or read is never wider than what was picked, and never of another
\* notebook (_resolve_question_scope, _fetch_source_summaries in app/main.py).
THEOREM Scope == Spec => []ScopeNeverWidens
<1>1. Inv => ScopeNeverWidens
  BY DEF Inv, Faithful, Scoped, ScopeNeverWidens
<1> QED
  BY <1>1, InvHolds, PTL

\* One request at a time generates the briefing of a notebook, unless one outlived its lock or
\* lost it to a reader that had seen an older one (_acquire_briefing_lock, _briefing_locked,
\* notebook_briefing in app/main.py).
THEOREM Serial == Spec => []BriefingSerial
<1>1. Inv => BriefingSerial
  BY DEF Inv, LockInv, Keeps, BriefingSerial
<1> QED
  BY <1>1, InvHolds, PTL

LEMMA ReferencesOf == ASSUME Inv PROVE References /\ PinnedOnce
<1>1. Linked /\ Told
  BY DEF Inv
<1>2. \A x \in notes : Live(x.notebook) /\ (x.message # 0 => Exists(x.message))
  BY <1>1 DEF Linked, Exists
<1> QED
  BY <1>1, <1>2 DEF Linked, Told, References

\* What a step does to the notes.
LEMMA NotesOf ==
  ASSUME Next
  PROVE  \/ notes' = notes
         \/ \E r \in Requests : Pin(r)
         \/ \E n \in Notebooks : AddNote(n) \/ DeleteNotebook(n)
         \/ \E c \in Conversations : DeleteConversation(c)
         \/ \E x \in notes : EditNote(x) \/ DeleteNote(x)
<1>1. CASE Ask
  BY <1>1 DEF Ask, BeginAsk, Mark, Prepare, Retrieve, Generate, SaveAnswer, Attach, Render, Breaks, Leave, shelf
<1>2. CASE Chat
  BY <1>2 DEF Chat, NewConversation, RenameConversation, SubmitFeedback, BeginPin, BeginFollowups, SaveFollowups, shelf
<1>3. CASE Tables
  BY <1>3 DEF Tables, CreateNotebook, RenameNotebook, LockAges, CacheAges, SourceChanges, shelf
<1>4. CASE Briefing
  BY <1>4 DEF Briefing, BeginBriefing, BeginPeek, Acquire, Summaries, Brief, KeepBriefing, Release, Unlock, shelf
<1>5. CASE Tools
  BY <1>5 DEF Tools, BeginSuggest, BeginCompare, BeginArtifact, BeginTranslate, BeginMinutes, SaveSuggestions, Evidence,
     Tool, shelf
<1> QED
  BY <1>1, <1>2, <1>3, <1>4, <1>5 DEF Next

KeepsNotes ==
  \A x \in notes :
    Live(x.notebook)' =>
      \/ \E y \in notes' : y.id = x.id
      \/ /\ conversation' = conversation
         /\ \A z \in notes : z.id # x.id /\ Live(z.notebook)' => \E y \in notes' : y.id = z.id

LEMMA NotesStay == ASSUME Inv, Next PROVE KeepsNotes
<1>1. TypeOK /\ Linked
  BY DEF Inv
<1>2. CASE notes \subseteq notes'
  BY <1>2 DEF KeepsNotes
<1>3. ASSUME NEW r \in Requests, Pin(r) PROVE notes \subseteq notes'
  <2>1. CASE Live(request[r].notebook) /\ Exists(request[r].message)
    BY <1>3, <2>1 DEF Pin
  <2>2. CASE ~(Live(request[r].notebook) /\ Exists(request[r].message))
    BY <1>3, <2>2 DEF Pin
  <2> QED
    BY <2>1, <2>2
<1>4. ASSUME NEW n \in Notebooks, AddNote(n) PROVE notes \subseteq notes'
  BY <1>4 DEF AddNote
<1>5. ASSUME NEW n \in Notebooks, DeleteNotebook(n) PROVE KeepsNotes
  <2>1. notes' = {x \in notes : x.notebook # n} /\ notebook' = [notebook EXCEPT ![n] = [Empty EXCEPT !.st = "deleted"]]
    BY <1>5 DEF DeleteNotebook
  <2>2. PICK e0 : e0 = [Empty EXCEPT !.st = "deleted"]
    OBVIOUS
  <2>3. e0.st = "deleted"
    BY <2>2 DEF Empty
  <2>4. ~Live(n)'
    BY <1>1, <2>1, <2>2, <2>3 DEF TypeOK, Live
  <2>5. \A x \in notes : Live(x.notebook)' => x \in notes'
    BY <2>1, <2>4
  <2> QED
    BY <2>5 DEF KeepsNotes
<1>6. ASSUME NEW c \in Conversations, DeleteConversation(c) PROVE KeepsNotes
  <2> DEFINE Left(x) == [x EXCEPT !.message = IF \E m \in messages : m.id = x.message /\ m.conversation \in {c} THEN 0 ELSE @]
  <2>1. notes' = {Left(x) : x \in notes}
    BY <1>6 DEF DeleteConversation, Unlinked
  <2>2. \A x \in notes : Left(x).id = x.id
    BY <1>1 DEF TypeOK, Note
  <2> HIDE DEF Left
  <2>3. \A x \in notes : \E y \in notes' : y.id = x.id
    BY <2>1, <2>2
  <2> QED
    BY <2>3 DEF KeepsNotes
<1>7. ASSUME NEW x \in notes, EditNote(x) PROVE KeepsNotes
  <2>1. PICK z : z = [x EXCEPT !.text = "own"]
    OBVIOUS
  <2>2. z.id = x.id /\ notes' = (notes \ {x}) \cup {z}
    BY <1>1, <1>7, <2>1 DEF EditNote, TypeOK, Note
  <2>3. \A y \in notes : \E w \in notes' : w.id = y.id
    BY <2>2
  <2> QED
    BY <2>3 DEF KeepsNotes
<1>8. ASSUME NEW x \in notes, DeleteNote(x) PROVE KeepsNotes
  <2>1. notes' = notes \ {x} /\ conversation' = conversation
    BY <1>8 DEF DeleteNote, chat
  <2> QED
    BY <2>1 DEF KeepsNotes
<1> QED
  BY <1>2, <1>3, <1>4, <1>5, <1>6, <1>7, <1>8, NotesOf

\* Whatever is written, pinned and deleted at the same time, nothing refers to a row that is
\* gone; an answer is pinned once, except by requests that overlap; and a note goes only by
\* itself or with its notebook (the foreign keys of app/db.py init_db; pin_note,
\* delete_conversation and delete_note in app/main.py).
THEOREM KeptForGood == Spec => KeptOnceForGood
<1>1. Inv => References /\ PinnedOnce
  BY ReferencesOf
<1>2. Inv /\ [Next]_vars =>
        [\A x \in notes :
           Live(x.notebook)' =>
             \/ \E y \in notes' : y.id = x.id
             \/ /\ conversation' = conversation
                /\ \A z \in notes : z.id # x.id /\ Live(z.notebook)' => \E y \in notes' : y.id = z.id]_vars
  BY NotesStay DEF KeepsNotes
<1> QED
  BY <1>1, <1>2, InvHolds, PTL DEF Spec, KeptOnceForGood, NotesKept

\* What a step does to the usage rows.
LEMMA EventsOf ==
  ASSUME Next
  PROVE  \/ events' = events
         \/ \E r \in Requests : Generate(r) \/ Attach(r)
         \/ \E gone, n : Cut(gone, n)
<1>1. CASE Ask
  BY <1>1 DEF Ask, BeginAsk, Mark, Prepare, Retrieve, SaveAnswer, Render, Breaks, Leave, chat
<1>2. CASE Chat
  BY <1>2 DEF Chat, NewConversation, RenameConversation, DeleteConversation, AddNote, EditNote, DeleteNote, Pin,
     SubmitFeedback, BeginPin, BeginFollowups, SaveFollowups, chat
<1>3. CASE Tables
  BY <1>3 DEF Tables, CreateNotebook, RenameNotebook, DeleteNotebook, LockAges, CacheAges, SourceChanges, chat
<1>4. CASE Briefing
  BY <1>4 DEF Briefing, BeginBriefing, BeginPeek, Acquire, Summaries, Brief, KeepBriefing, Release, Unlock, chat
<1>5. CASE Tools
  BY <1>5 DEF Tools, BeginSuggest, BeginCompare, BeginArtifact, BeginTranslate, BeginMinutes, SaveSuggestions, Evidence,
     Tool, chat
<1> QED
  BY <1>1, <1>2, <1>3, <1>4, <1>5 DEF Next

OwnUsage ==
  \A e \in events, x \in events' :
    e.id = x.id /\ e.message = 0 /\ x.message # 0 =>
      \E r \in Requests :
        /\ request[r].pc = "attach" /\ request'[r].pc = "render"
        /\ \/ e.by = request[r].no \/ Overlapped(e.by, request[r].no)
           \/ request[r].error /\ count.faults > 0

LEMMA UsageOf == ASSUME Inv, Next PROVE OwnUsage
<1>1. TypeOK /\ Linked /\ \A r \in Requests : Faithful(request[r])
  BY DEF Inv
<1>2. CASE events' = events
  BY <1>1, <1>2 DEF OwnUsage, Linked
<1>3. ASSUME NEW r \in Requests, Generate(r) PROVE OwnUsage
  <2>1. CASE UNCHANGED events
    BY <1>2, <2>1
  <2>2. CASE Live(request[r].notebook) /\ There(request[r].conversation)
    <3>1. PICK k : k = count.events + 1
      OBVIOUS
    <3>2. PICK y : y = [id |-> k, notebook |-> request[r].notebook, message |-> 0,
                        conversation |-> request[r].conversation, kind |-> request[r].kind, by |-> request[r].no]
      OBVIOUS
    <3>3. y.message = 0 /\ events' = events \cup {y}
      BY <1>3, <2>2, <3>1, <3>2 DEF Generate
    <3>4. \A x \in events' : x.message # 0 => x \in events
      BY <3>3
    <3> QED
      BY <1>1, <3>4 DEF OwnUsage, Linked
  <2> QED
    BY <1>3, <2>1, <2>2 DEF Generate
<1>4. ASSUME NEW r \in Requests, Attach(r) PROVE OwnUsage
  <2> SUFFICES ASSUME NEW e \in events, NEW x \in events', e.id = x.id, e.message = 0, x.message # 0
               PROVE  /\ request[r].pc = "attach" /\ request'[r].pc = "render"
                      /\ \/ e.by = request[r].no \/ Overlapped(e.by, request[r].no)
                         \/ request[r].error /\ count.faults > 0
    BY DEF OwnUsage
  <2> DEFINE Got(a) == IF Attached(r, a) THEN [a EXCEPT !.message = request[r].message] ELSE a
  <2>1. events' = {Got(a) : a \in events}
    BY <1>4 DEF Attach
  <2>2. \A a \in events : Got(a).id = a.id /\ (~Attached(r, a) => Got(a) = a)
    BY <1>1 DEF TypeOK, Event
  <2> HIDE DEF Got
  <2>3. PICK a \in events : x = Got(a)
    BY <2>1
  <2>4. a = e
    BY <1>1, <2>2, <2>3 DEF Linked
  <2>5. Attached(r, e)
    BY <2>2, <2>3, <2>4
  <2>6. PICK q \in Request : q = request[r]
    BY <1>1 DEF TypeOK
  <2>7. q.pc = "attach" /\ Watermark(q) /\ Question(q)
    BY <1>1, <1>4, <2>6 DEF Attach, Faithful, Asking
  <2>8. request'[r].pc = "render"
    BY <1>1, <1>4, OneRequest, GotoIs DEF Attach
  <2>9. e.id > q.mark /\ e.notebook = q.notebook /\ e.conversation = q.conversation
    BY <2>5, <2>6 DEF Attached
  <2>10. CASE Marked(q)
    BY <2>6, <2>7, <2>8, <2>9, <2>10 DEF Marked
  <2>11. CASE q.error /\ Broken
    BY <2>6, <2>7, <2>8, <2>11 DEF Broken
  <2>12. CASE conversation[q.conversation].notebook # q.notebook
    <3>1. q.conversation # 0
      BY <2>7 DEF Question, After
    <3>2. conversation[e.conversation].notebook = e.notebook
      BY <1>1, <2>9, <3>1 DEF Linked
    <3> QED
      BY <2>9, <2>12, <3>2
  <2> QED
    BY <2>7, <2>10, <2>11, <2>12 DEF Watermark
<1>5. ASSUME NEW gone, NEW n, Cut(gone, n) PROVE OwnUsage
  <2> SUFFICES ASSUME NEW e \in events, NEW x \in events', e.id = x.id, e.message = 0 PROVE x.message = 0
    BY DEF OwnUsage
  <2> DEFINE ids == {m.id : m \in {m \in messages : m.conversation \in gone}}
             Left(a) == [a EXCEPT !.conversation = IF @ \in gone THEN 0 ELSE @,
                                  !.message = IF @ \in ids THEN 0 ELSE @,
                                  !.notebook = IF @ = n THEN None ELSE @]
  <2>1. events' = {Left(a) : a \in events}
    BY <1>5 DEF Cut
  <2>2. ASSUME NEW a \in events PROVE Left(a).id = a.id /\ (a.message = 0 => Left(a).message = 0)
    <3>1. a \in Event
      BY <1>1 DEF TypeOK
    <3>2. PICK c : c = IF a.conversation \in gone THEN 0 ELSE a.conversation
      OBVIOUS
    <3>3. PICK m : m = IF a.message \in ids THEN 0 ELSE a.message
      OBVIOUS
    <3>4. PICK b : b = IF a.notebook = n THEN None ELSE a.notebook
      OBVIOUS
    <3>5. PICK y : y = [a EXCEPT !.conversation = c, !.message = m, !.notebook = b]
      OBVIOUS
    <3>6. y.id = a.id /\ y.message = m
      BY <3>1, <3>5 DEF Event
    <3>7. Left(a) = y
      BY <3>2, <3>3, <3>4, <3>5
    <3> HIDE DEF Left
    <3> QED
      BY <3>3, <3>6, <3>7
  <2> HIDE DEF Left
  <2>3. PICK a \in events : x = Left(a)
    BY <2>1
  <2>4. a = e
    BY <1>1, <2>2, <2>3 DEF Linked
  <2> QED
    BY <2>2, <2>3, <2>4
<1> QED
  BY <1>2, <1>3, <1>4, <1>5, EventsOf

\* Usage is attributed to an answer only if the answer's own request caused it, or one that was
\* under way meanwhile; a stream that failed before it had read the last event takes older ones
\* along (_llm_usage_event_watermark, _attach_usage_events_to_message in app/main.py).
THEOREM Usage == Spec => UsageOfItsOwn
<1>1. Inv /\ [Next]_vars =>
        [\A e \in events, x \in events' :
           e.id = x.id /\ e.message = 0 /\ x.message # 0 =>
             \E r \in Requests :
               /\ request[r].pc = "attach" /\ request'[r].pc = "render"
               /\ \/ e.by = request[r].no \/ Overlapped(e.by, request[r].no)
                  \/ request[r].error /\ count.faults > 0]_vars
  BY UsageOf DEF OwnUsage
<1> QED
  BY <1>1, InvHolds, PTL DEF Spec, UsageOfItsOwn
=============================================================================
