------------------------------- MODULE Metrics -------------------------------
(***************************************************************************)
(* What two evaluation runs over the same items are compared by            *)
(* (app/evals.py), and what the page of the ingest limits says of the last *)
(* extractions (app/system_settings.py). Each step adds the results of one *)
(* item, or one document's diagnostics.                                    *)
(*                                                                         *)
(* A rate is a pair of whole numbers here; the four digits it is rounded   *)
(* to are left out.                                                        *)
(***************************************************************************)
EXTENDS Lists

CONSTANTS
  Expected,   \* what items expect: [source, chunk, texts], 0 and {} where they expect nothing
  Returned,   \* what retrieval returns for an item: sequences of [source, chunk, text]
  Verdicts,   \* an answer's outcome: [outcome, ok, label]
  Parsed,     \* a document's diagnostics: [failed, seconds]
  Shares,     \* a number every rank divides
  MaxResults  \* bound: results of a run

ASSUME MetricsAssumption ==
  /\ Shares \in Nat \ {0} /\ MaxResults \in Nat
  /\ \A r \in Returned : r \in Seq(ToSet(r)) /\ \A k \in DOMAIN r : Shares % k = 0
  /\ \A d \in Parsed : d.seconds \in Nat

VARIABLES
  base, candidate, \* the results of the two runs: [status, rank], item by item
  verdicts,        \* the judged results of one run
  diagnostics      \* the diagnostics of the last documents

metricsVars == <<base, candidate, verdicts, diagnostics>>

-----------------------------------------------------------------------------
(* One item *)

Meets(item, c) ==
  /\ item.source # 0 => c.source = item.source
  /\ item.chunk # 0 => c.chunk = item.chunk
  /\ item.texts # {} => c.text \in item.texts


HitRanks(item, retrieved) == {k \in DOMAIN retrieved : Meets(item, retrieved[k])}

\* eval_item_hit_rank, and the status run_eval_job makes of it.
Result(item, retrieved) ==
  LET ranks == HitRanks(item, retrieved)
  IN IF item.source = 0 /\ item.chunk = 0 /\ item.texts = {} THEN [status |-> "unscored", rank |-> 0]
     ELSE IF ranks = {} THEN [status |-> "miss", rank |-> 0]
     ELSE [status |-> "hit", rank |-> CHOOSE k \in ranks : \A j \in ranks : k <= j]

Failed == [status |-> "error", rank |-> 0]

-----------------------------------------------------------------------------
(* run_metrics_from_results *)

Count(results, Test(_)) == Cardinality({k \in DOMAIN results : Test(results[k])})

Scored(results) == Count(results, LAMBDA r : r.status \in {"hit", "miss"})
Hits(results)   == Count(results, LAMBDA r : r.status = "hit")

\* recall_at_k = Hits / Scored, mrr = Reciprocals / (Shares * Scored)
Reciprocals(results) ==
  Total([k \in DOMAIN results |-> IF results[k].status = "hit" THEN Shares \div results[k].rank ELSE 0])

RateAtLeast(a, m, b, n) == IF n = 0 THEN TRUE ELSE m # 0 /\ a * n >= b * m

-----------------------------------------------------------------------------
(* compare_runs *)

Order == [hit |-> 0, miss |-> 1, unscored |-> 2, error |-> 3]

\* Seeded bug: of two hits, the smaller rank is taken for the worse one.
WorseRising(b, c) == Order[c.status] > Order[b.status] \/ (b.status = c.status /\ c.rank < b.rank)
Worse(b, c) == Order[c.status] > Order[b.status] \/ (b.status = c.status /\ c.rank > b.rank)
Trend(b, c) == IF Worse(c, b) THEN "improved" ELSE IF Worse(b, c) THEN "regressed" ELSE "unchanged"

-----------------------------------------------------------------------------
(* judge_metrics_from_results *)

Scorable(v) == v.outcome = "answered" /\ v.ok
GradedAnswers(vs)  == Count(vs, LAMBDA v : Scorable(v) /\ v.label # "not_applicable")
CorrectAnswers(vs) == Count(vs, LAMBDA v : Scorable(v) /\ v.label = "correct")

-----------------------------------------------------------------------------
(* recent_extract_stats and _p95 *)

\* A parse the limit stopped says what the limit is, not what the file needs.
Measured(ds) == Picked(ds, {k \in DOMAIN ds : ds[k].failed \notin {"timeout", "memory"}})

\* The value at the 95th percentile of n sorted ones: ceil(0.95 n), at most n.
P95Place(n) == (95 * n + 99) \div 100
P95(ds) ==
  LET sorted == Reverse(Ranked(ds, [k \in DOMAIN ds |-> ds[k].seconds]))
  IN sorted[P95Place(Len(ds))].seconds
LimitHits(ds) == Count(ds, LAMBDA d : d.failed \in {"timeout", "memory"})

-----------------------------------------------------------------------------
\* Both runs reach the next item; each retrieval may fail.
RunItem(item, b, c) ==
  /\ verdicts = <<>> /\ diagnostics = <<>>
  /\ Len(base) < MaxResults
  /\ base'      = Append(base, b)
  /\ candidate' = Append(candidate, c)
  /\ UNCHANGED <<verdicts, diagnostics>>

Judge(v) ==
  /\ base = <<>> /\ diagnostics = <<>>
  /\ Len(verdicts) < MaxResults
  /\ verdicts' = Append(verdicts, v)
  /\ UNCHANGED <<base, candidate, diagnostics>>

Extracted(d) ==
  /\ base = <<>> /\ verdicts = <<>>
  /\ Len(diagnostics) < MaxResults
  /\ diagnostics' = Append(diagnostics, d)
  /\ UNCHANGED <<base, candidate, verdicts>>

MetricsInit ==
  /\ base = <<>> /\ candidate = <<>>
  /\ verdicts = <<>>
  /\ diagnostics = <<>>

Outcomes(item) == {Result(item, r) : r \in Returned} \cup {Failed}

MetricsNext ==
  \/ \E item \in Expected : \E b, c \in Outcomes(item) : RunItem(item, b, c)
  \/ \E v \in Verdicts : Judge(v)
  \/ \E d \in Parsed : Extracted(d)

-----------------------------------------------------------------------------
Results == [status : {"hit", "miss", "unscored", "error"}, rank : 0 .. Shares]

MetricsTypeOK ==
  /\ base \in Seq(Results) /\ candidate \in Seq(Results) /\ Len(base) = Len(candidate)
  /\ \A k \in DOMAIN base : base[k].rank > 0 <=> base[k].status = "hit"
  /\ verdicts \in Seq(Verdicts) /\ diagnostics \in Seq(Parsed)

\* The questions and the totals of a comparison tell one story: if no question got worse
\* and the runs scored the same ones, neither recall nor MRR did. (Where a retrieval failed
\* in one run alone, the totals are over different questions and may disagree with this.)
TotalsFollowQuestions ==
  (\A k \in DOMAIN base : /\ Trend(base[k], candidate[k]) # "regressed"
                          /\ base[k].status = "error" <=> candidate[k].status = "error") =>
    /\ RateAtLeast(Hits(candidate), Scored(candidate), Hits(base), Scored(base))
    /\ RateAtLeast(Reciprocals(candidate), Shares * Scored(candidate), Reciprocals(base), Shares * Scored(base))

\* An item whose retrieval failed says nothing of retrieval: it leaves recall and MRR alone.
ErrorsCountForNothing == [][
  \A item \in Expected, c \in Results : RunItem(item, Failed, c) =>
    Scored(base') = Scored(base) /\ Hits(base') = Hits(base) /\ Reciprocals(base') = Reciprocals(base)]_metricsVars

\* The rate of correct answers is over the answers that could be graded: one refused, failed,
\* without a reference answer, or whose judge could not be read, leaves it alone.
GradesCountAlone == [][\A v \in Verdicts :
  Judge(v) /\ (v.outcome # "answered" \/ ~v.ok \/ v.label = "not_applicable") =>
    GradedAnswers(verdicts') = GradedAnswers(verdicts) /\ CorrectAnswers(verdicts') = CorrectAnswers(verdicts)]_metricsVars

\* The limits are judged by parses that ended by themselves: one the limit stopped changes
\* neither the longest nor the 95th percentile, which at least 95 in 100 stay within.
StoppedIsNoMeasure ==
  LET ms == Measured(diagnostics)
  IN /\ Len(ms) + LimitHits(diagnostics) = Len(diagnostics)
     /\ ms # <<>> =>
          /\ \E d \in ToSet(ms) : d.seconds = P95(ms)
          /\ 100 * Count(ms, LAMBDA d : d.seconds <= P95(ms)) >= 95 * Len(ms)

\* Totals agree with what they are totals of: comparisons with their questions, rates with
\* the answers that can be rated, limits with the parses they did not stop
\* (app/evals.py run_metrics_from_results, compare_runs, app/system_settings.py).
TotalsAgree == [](TotalsFollowQuestions /\ StoppedIsNoMeasure) /\ ErrorsCountForNothing /\ GradesCountAlone
=============================================================================
