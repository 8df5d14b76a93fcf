------------------------------ MODULE Retrieval ------------------------------
(***************************************************************************)
(* Which chunks a question is answered from (retrieve of app/retrieval.py, *)
(* rerank_chunks and fit_answer_chunks of app/llm.py), one stage per step. *)
(*                                                                         *)
(* A chunk is its source, how near it is to each query as a vector and how *)
(* well it matches them by its words (small numbers for scores), the words *)
(* it is compared by, and its length in tokens. Its id is its place in the *)
(* table.                                                                  *)
(***************************************************************************)
EXTENDS Lists

CONSTANTS
  Probes,        \* the queries, each with its embedding
  Nearest,       \* the score of a vector that is a query's own
  Passages,      \* chunks there may be: [source, vector, keyword, words, tokens]
  Short,         \* the words of a chunk too short to be compared
  Weights,       \* the weights a retrieval profile may give, as whole numbers
  Pool,          \* candidate_pool_size
  Final,         \* final_chunk_count
  FallbackMax,   \* FALLBACK_MAX_CHUNKS
  RerankInput,   \* RERANK_INPUT_SIZE
  Grades,        \* the scores the reranker gives
  Rooms,         \* what is left of the model's window for the chunks; 0 if it was never measured
  MaxPassages    \* bound: chunks in the table

\* coerce_profile_params: none is negative, any may be 0.
ASSUME WeightAssumption == Weights \subseteq [vector : Nat, keyword : Nat, rerank : Nat, base : Nat]
ASSUME ProbeAssumption == Probes # {} /\ Nearest \in Nat
ASSUME PoolAssumption ==
  {Pool, Final, FallbackMax, RerankInput} \subseteq Nat \ {0} /\ MaxPassages \in Nat
ASSUME PassageAssumption ==
  \A c \in Passages : c.vector \in [Probes -> 0 .. Nearest] /\ {c.keyword, c.tokens} \subseteq Nat
ASSUME GradeAssumption == Grades \cup Rooms \subseteq Nat

VARIABLES
  weights,    \* of the profile in force
  passages,   \* the chunks of the user's sources
  stage,      \* "idle", "search", "rerank", "prompt", "done"
  scope,      \* source_ids
  candidates, \* what the stage before found, best first: [id, score]
  evidence    \* what the answer is made from

retrievalVars == <<weights, passages, stage, scope, candidates, evidence>>

-----------------------------------------------------------------------------
Id      == DOMAIN passages
Entry(id, score) == [id |-> id, score |-> score]

ByScore(entries) == Ranked(entries, [k \in DOMAIN entries |-> entries[k].score])

\* The chunks in ids, newest first.
Newest(ids) == Reverse([n \in 1 .. Cardinality(ids) |-> Nth(ids, n)])

\* The chunks of the sources asked about.
InScope == {i \in Id : passages[i].source \in scope}

\* query_vectors: for each query the nearest chunks of the sources asked about (equals
\* newest first, where Chroma's order is its own), then all of them by the best score a
\* query found them with.
FoundBy(q) ==
  LET near == Newest(InScope)
      best == Cut(Ranked(near, [k \in DOMAIN near |-> passages[near[k]].vector[q]]), Pool)
  IN {Entry(i, passages[i].vector[q]) : i \in ToSet(best)}
BestOf(hits, i) == Max({e.score : e \in {hit \in hits : hit.id = i}})
VectorCandidates ==
  LET hits == UNION {FoundBy(q) : q \in Probes}
      ids  == Newest({e.id : e \in hits})
  IN ByScore([k \in DOMAIN ids |-> Entry(ids[k], BestOf(hits, ids[k]))])

\* keyword_candidates_from_sqlite: the newest matches, then the best of those.
KeywordCandidates ==
  LET found == Cut(Newest({i \in InScope : passages[i].keyword > 0}), 4 * Pool)
  IN Cut(Ranked(found, [k \in DOMAIN found |-> passages[found[k]].keyword]), Pool)

Score(vector, keyword) == weights.vector * vector + weights.keyword * keyword

\* What scores nothing is left out.
Scoring(entries) == Picked(entries, {k \in DOMAIN entries : entries[k].score > 0})

KeywordsOnly(vectors, keywords) ==
  LET known == {vectors[k].id : k \in DOMAIN vectors}
      fresh == Picked(keywords, {k \in DOMAIN keywords : keywords[k] \notin known})
  IN [k \in DOMAIN fresh |-> Entry(fresh[k], Score(0, passages[fresh[k]].keyword))]

\* merge_candidates: one entry per chunk, with the better of its scores; one that only the
\* keywords found counts nothing as a vector.
Merged(vectors, keywords) ==
  Scoring([k \in DOMAIN vectors |->
             Entry(vectors[k].id, Score(vectors[k].score, passages[vectors[k].id].keyword))]
          \o KeywordsOnly(vectors, keywords))

Echoes(id, kept) ==
  /\ passages[id].words # Short
  /\ \E k \in DOMAIN kept : passages[kept[k].id].words = passages[id].words

\* diversify_candidates: nearly the same text as a better candidate's is left out.
Kept(kept, e) == IF Len(kept) >= Pool \/ Echoes(e.id, kept) THEN kept ELSE Append(kept, e)

Diversified(entries) ==
  FoldLeft(Kept, <<>>, ByScore(entries))

FromChroma == Diversified(Merged(VectorCandidates, KeywordCandidates))

\* Seeded bug: the fallback reads the newest chunks of the user, whatever was asked about.
FallbackRowsOfAll == Cut(Newest(Id), FallbackMax)
\* fetch_candidate_rows
FallbackRows == Cut(Newest(InScope), FallbackMax)

\* The degraded path scores each row by the nearest of all queries.
Closest(i) == Max({passages[i].vector[q] : q \in Probes})
Worth(i)   == Score(Closest(i), passages[i].keyword)
FromSqlite == Diversified(Scoring([k \in DOMAIN FallbackRows |-> Entry(FallbackRows[k], Worth(FallbackRows[k]))]))

\* rerank_chunks without a usable answer: the hybrid scores.
Fallback == Cut(ByScore(candidates), Final)

\* The candidates the model graded, by the blend.
Blended(grades) ==
  LET blend == [k \in DOMAIN grades |-> Entry(candidates[k].id,
                  weights.rerank * grades[k] + weights.base * candidates[k].score)]
  IN Scoring(Cut(ByScore(Picked(blend, DOMAIN grades \cap (1 .. RerankInput))), Final))

\* An answer that grades none of them was of no use.
Graded(grades) == IF DOMAIN grades \cap (1 .. RerankInput) = {} THEN Fallback ELSE Blended(grades)

Cost(entries) == Total([k \in DOMAIN entries |-> passages[entries[k].id].tokens])
Most(room) == CHOOSE n \in 1 .. Len(evidence) :
                /\ n = 1 \/ Cost(Cut(evidence, n)) <= room
                /\ \A m \in n + 1 .. Len(evidence) : Cost(Cut(evidence, m)) > room

\* fit_answer_chunks: the most of the best chunks that fit, and never none of them.
Fitted(room) == IF room = 0 \/ evidence = <<>> THEN evidence ELSE Cut(evidence, Most(room))

-----------------------------------------------------------------------------
\* A chunk is indexed (external to retrieve: the ingest pipeline).
Index(c) ==
  /\ stage = "idle"
  /\ Len(passages) < MaxPassages
  /\ passages' = Append(passages, c)
  /\ UNCHANGED <<weights, stage, scope, candidates, evidence>>

\* A user's question about no source is refused rather than asked of every notebook.
Ask(sources) ==
  /\ stage = "idle"
  /\ scope' = sources
  /\ stage' = IF sources = {} THEN "done" ELSE "search"
  /\ UNCHANGED <<weights, passages, candidates, evidence>>

\* Both searches answer, or one of them fails and SQLite's rows are ranked instead.
Search(ok) ==
  /\ stage = "search"
  /\ candidates' = IF ok THEN FromChroma ELSE FromSqlite
  /\ stage' = "rerank"
  /\ UNCHANGED <<weights, passages, scope, evidence>>

\* The model grades some of the candidates, or the call fails, or there is no model.
Rerank(grades) ==
  /\ stage = "rerank"
  /\ evidence' = Graded(grades)
  /\ stage' = "prompt"
  /\ UNCHANGED <<weights, passages, scope, candidates>>

RerankFails ==
  /\ stage = "rerank"
  /\ evidence' = Fallback
  /\ stage' = "prompt"
  /\ UNCHANGED <<weights, passages, scope, candidates>>

Prompt(room) ==
  /\ stage = "prompt"
  /\ evidence' = Fitted(room)
  /\ stage' = "done"
  /\ UNCHANGED <<weights, passages, scope, candidates>>

RetrievalInit ==
  /\ weights \in Weights
  /\ passages = <<>>
  /\ stage = "idle"
  /\ scope = {}
  /\ candidates = <<>>
  /\ evidence = <<>>

RetrievalNext ==
  \/ \E c \in Passages : Index(c)
  \/ \E sources \in SUBSET {c.source : c \in Passages} : Ask(sources)
  \/ \E ok \in BOOLEAN : Search(ok)
  \/ \E some \in SUBSET (DOMAIN candidates) : \E grades \in [some -> Grades] : Rerank(grades)
  \/ RerankFails
  \/ \E room \in Rooms : Prompt(room)

-----------------------------------------------------------------------------
Entries == [id : Id, score : Nat]

RetrievalTypeOK ==
  /\ weights \in Weights
  /\ passages \in Seq(Passages)
  /\ stage \in {"idle", "search", "rerank", "prompt", "done"}
  /\ scope \subseteq {c.source : c \in Passages}
  /\ candidates \in Seq(Entries) /\ evidence \in Seq(Entries)

\* The evidence is of the sources asked about, on whichever path it was found: this is all
\* that keeps one notebook's text out of another's answers. No source, no evidence.
Scoped == \A k \in DOMAIN evidence : passages[evidence[k].id].source \in scope

Falling(s) == \A j, k \in DOMAIN s : j < k => s[j].score >= s[k].score

\* What is cited first matches best, nothing is cited twice, not even as a copy of the same
\* text in another chunk, and no more is cited than was asked for.
BestFirst ==
  /\ Len(evidence) <= Final
  /\ \A s \in {candidates, evidence} :
       /\ Falling(s)
       /\ \A j, k \in DOMAIN s : j # k =>
            /\ s[j].id # s[k].id
            /\ passages[s[j].id].words = passages[s[k].id].words => passages[s[j].id].words = Short

\* Whatever the reranker answers or the window leaves, a question that something matched
\* is answered from something, as long as the profile lets the score of the search count in
\* the blend. Without that weight a reranker that gives every candidate 0 leaves nothing.
MatchedIsAnswered ==
  stage \in {"prompt", "done"} /\ candidates # <<>> /\ evidence = <<>> => weights.base = 0

Scores(s) == [k \in DOMAIN s |-> s[k].score]

\* While all chunks are within the caps, the answers without Chroma rank as with it: the
\* fallback loses chunks by its cap alone, never by another way of scoring.
FallbackAgrees ==
  stage = "search" /\ Len(passages) <= Pool /\ Len(passages) <= FallbackMax =>
    Scores(FromChroma) = Scores(FromSqlite)

\* The evidence in the prompt fits the window unless it is a single chunk, and only what does
\* not fit was dropped, from the end.
FitsWindow == [][\A room \in Rooms \ {0} : Prompt(room) =>
  /\ IsPrefix(evidence', evidence)
  /\ Len(evidence') < Len(evidence) => Cost(SubSeq(evidence, 1, Len(evidence') + 1)) > room
  /\ Len(evidence') > 1 => Cost(evidence') <= room]_retrievalVars

\* The evidence of an answer is of the sources asked about, the best of them, and as much
\* as fits, on every path that leads to it (app/retrieval.py retrieve, app/llm.py
\* rerank_chunks, fit_answer_chunks).
EvidenceIsSound == [](Scoped /\ BestFirst /\ MatchedIsAnswered /\ FallbackAgrees) /\ FitsWindow
=============================================================================
