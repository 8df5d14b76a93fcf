------------------------------ MODULE Rewriting ------------------------------
(***************************************************************************)
(* The queries a question is searched with: the question, what the         *)
(* notebook's hints make of it, and what the chat model adds               *)
(* (match_domain_hints and deterministic_hint_queries of                   *)
(* app/domain_policy.py, rewrite_search_queries and fit_rewrite_inputs of  *)
(* app/llm.py). Texts are known by name and by their length.               *)
(***************************************************************************)
EXTENDS Lists

CONSTANTS
  HintKinds,     \* hints: [enabled, found ("term", "synonym", "no"), tokens, expansions]
  Messages,      \* lengths of the messages of a conversation
  Questions,     \* lengths a question may have
  Answers,       \* the sequences of queries the chat model returns
  Budgets,       \* chat_window_budget, less its reserve; 0 if it was never measured
  CharsPerToken,
  HistoryLimit,  \* messages that are shown to the model at all
  MaxHintTokens, MaxMatched, MaxQueries, \* max_hint_tokens, max_matched_hints, max_rewrite_queries
  MaxNotes       \* bound: hints and messages

ASSUME RewriteAssumption ==
  /\ {CharsPerToken, MaxMatched, MaxQueries} \subseteq Nat \ {0}
  /\ Questions \subseteq Nat \ {0}
  /\ Messages \cup Budgets \cup {HistoryLimit, MaxHintTokens, MaxNotes} \subseteq Nat
ASSUME HintAssumption ==
  /\ \A h \in HintKinds : h.tokens \in Nat /\ h.expansions \in Seq(ToSet(h.expansions))
  /\ \A a \in Answers : a \in Seq(ToSet(a))

VARIABLES
  hintRows, \* the notebook's hints, in their order
  history,  \* the lengths of the messages before the question
  question, \* its length
  shown,    \* what the model saw: the messages, and how much of each end of the question; 0: all
  queries   \* the queries; <<>> before the question is asked

rewriteVars == <<hintRows, history, question, shown, queries>>

-----------------------------------------------------------------------------
Tokens(chars) == (chars + CharsPerToken - 1) \div CharsPerToken
TokensOf(lengths) == Total([k \in DOMAIN lengths |-> Tokens(lengths[k])])
HintTokens(ids) == Total([k \in DOMAIN ids |-> hintRows[ids[k]].tokens])

\* unique_nonempty
AddNew(acc, q) == IF Contains(acc, q) THEN acc ELSE Append(acc, q)
UniqueOf(s) == FoldLeft(AddNew, <<>>, s)

\* Seeded bug: a hint that finds no room ends the search for those behind it.
MatchOrStop(acc, i) ==
  IF acc.stop \/ ~hintRows[i].enabled \/ hintRows[i].found = "no" THEN acc
  ELSE IF HintTokens(acc.ids) + hintRows[i].tokens > MaxHintTokens THEN [acc EXCEPT !.stop = TRUE]
  ELSE [ids |-> Append(acc.ids, i), stop |-> Len(acc.ids) + 1 >= MaxMatched]

\* One hint in turn: one that finds no room is passed over, the limit on their number ends it.
Match(acc, i) ==
  IF acc.stop \/ ~hintRows[i].enabled \/ hintRows[i].found = "no" THEN acc
  ELSE IF HintTokens(acc.ids) + hintRows[i].tokens > MaxHintTokens THEN acc
  ELSE [ids |-> Append(acc.ids, i), stop |-> Len(acc.ids) + 1 >= MaxMatched]

\* match_domain_hints
NoneMatched == [ids |-> <<>>, stop |-> FALSE]
Matched == FoldLeft(Match, NoneMatched, [i \in DOMAIN hintRows |-> i]).ids

\* deterministic_hint_queries: what a hint adds to the question itself.
Expansion(i) ==
  (IF hintRows[i].found = "synonym" THEN <<<<"with", i>>>> ELSE <<>>) \o hintRows[i].expansions
Expanded(acc, i) == acc \o Expansion(i)
HintQueries == Cut(UniqueOf(FoldLeft(Expanded, <<<<"question">>>>, Matched)), MaxQueries)

\* The queries of the hints come first; what the model returns fills the rest.
AllQueries(answer) == Cut(UniqueOf(HintQueries \o answer), MaxQueries)

\* The messages from the k-th on.
From(s, k) == SubSeq(s, k, Len(s))
\* The latest messages that fit beside the question: the oldest go first.
Latest(n, room) ==
  LET k == CHOOSE k \in 1 .. Len(n) + 1 :
             /\ k = Len(n) + 1 \/ Tokens(question) + TokensOf(From(n, k)) <= room
             /\ \A j \in 1 .. k - 1 : Tokens(question) + TokensOf(From(n, j)) > room
  IN From(n, k)

\* How much is kept of each end of a question that alone is too long: 0 is all of it.
Ends(room) ==
  IF Tokens(question) <= room THEN 0
  ELSE CHOOSE low \in 1 .. question \div 2 :
         /\ low = 1 \/ Tokens(2 * low) <= room
         /\ \A more \in low + 1 .. question \div 2 : Tokens(2 * more) > room

\* fit_rewrite_inputs, of the last messages.
FitInputs(budget) ==
  LET recent == From(history, 1 + IF Len(history) > HistoryLimit THEN Len(history) - HistoryLimit ELSE 0)
      room   == IF budget > 1 THEN budget ELSE 1
  IN IF budget = 0 THEN [messages |-> recent, ends |-> 0]
     ELSE [messages |-> Latest(recent, room), ends |-> Ends(room)]

-----------------------------------------------------------------------------
AddHint(h) ==
  /\ queries = <<>> /\ Len(hintRows) + Len(history) < MaxNotes
  /\ hintRows' = Append(hintRows, h)
  /\ UNCHANGED <<history, question, shown, queries>>

AddMessage(n) ==
  /\ queries = <<>> /\ Len(hintRows) + Len(history) < MaxNotes
  /\ history' = Append(history, n)
  /\ UNCHANGED <<hintRows, question, shown, queries>>

\* rewrite_search_queries. The call may fail or be of no use: its answer is <<>> then.
\* Without a chat model, nothing is shown to one.
Rewrite(budget, answer) ==
  /\ queries = <<>>
  /\ queries' = AllQueries(answer)
  /\ shown'   = FitInputs(budget)
  /\ UNCHANGED <<hintRows, history, question>>

RewriteWithoutModel ==
  /\ queries = <<>>
  /\ queries' = HintQueries
  /\ UNCHANGED <<hintRows, history, question, shown>>

RewriteInit ==
  /\ hintRows = <<>>
  /\ history = <<>>
  /\ question \in Questions
  /\ shown = [messages |-> <<>>, ends |-> 0]
  /\ queries = <<>>

RewriteNext ==
  \/ \E h \in HintKinds : AddHint(h)
  \/ \E n \in Messages : AddMessage(n)
  \/ \E budget \in Budgets, answer \in Answers : Rewrite(budget, answer)
  \/ RewriteWithoutModel

-----------------------------------------------------------------------------
RewriteTypeOK ==
  /\ hintRows \in Seq(HintKinds) /\ history \in Seq(Messages)
  /\ question \in Questions
  /\ shown.messages \in Seq(Messages) /\ shown.ends \in 0 .. question
  /\ \A q \in ToSet(queries) : q \in UNION ({ToSet(a) : a \in Answers} \cup {ToSet(h.expansions) : h \in HintKinds})
                               \/ q = <<"question">> \/ q \in {<<"with", i>> : i \in DOMAIN hintRows}

\* Whatever the hints and the model add, the question is searched for as it was asked, and
\* nothing is searched for twice or beyond the limit.
AsksTheQuestion == queries # <<>> =>
  /\ queries[1] = <<"question">>
  /\ Cardinality(ToSet(queries)) = Len(queries)
  /\ Len(queries) <= MaxQueries

\* A matching hint is left out only for a limit that it meets when its turn comes: one that
\* is too long does not keep a shorter one behind it from being used.
HintsHaveTheirTurn == \A i \in DOMAIN hintRows :
  LET before == Picked(Matched, {k \in DOMAIN Matched : Matched[k] < i})
  IN hintRows[i].enabled /\ hintRows[i].found # "no" =>
       \/ Contains(Matched, i)
       \/ Len(before) >= MaxMatched
       \/ HintTokens(before) + hintRows[i].tokens > MaxHintTokens

\* What the model is shown: the latest messages, as many as the room allows, beside the
\* whole question; a question too long for it stands alone, cut in the middle to what fits.
\* (The mark that joins the two ends is not counted.)
ShownFits == [][\A budget \in Budgets \ {0}, answer \in Answers : Rewrite(budget, answer) =>
  LET kept == shown'.messages
      more == From(history, Len(history) - Len(kept))
  IN /\ IsSuffix(kept, history)
     /\ Tokens(question) + TokensOf(kept) <= budget \/ kept = <<>>
     /\ Len(kept) < Least(HistoryLimit, Len(history)) => Tokens(question) + TokensOf(more) > budget
     /\ IF Tokens(question) <= budget THEN shown'.ends = 0
        ELSE shown'.ends > 0 /\ (Tokens(2 * shown'.ends) <= budget \/ shown'.ends = 1)]_rewriteVars

\* Limits on hints, queries and the model's window cut what may be cut and never the
\* question itself (app/domain_policy.py match_domain_hints, app/llm.py rewrite_search_queries).
QueriesAreSound == [](AsksTheQuestion /\ HintsHaveTheirTurn) /\ ShownFits
=============================================================================
