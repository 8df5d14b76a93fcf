---------------------------- MODULE MCAlgorithms ----------------------------
(* Small inputs of Algorithms for TLC. *)
EXTENDS Algorithms

\* A chunk holds 6 characters: sentences of one, two and three fill it in every way; a table
\* row turns the kind; two long ones are cut at their soft marks, and hard.
MCSentences == {
  [loc |-> "p1", kind |-> "body",  frags |-> <<1>>],
  [loc |-> "p2", kind |-> "body",  frags |-> <<2>>],
  [loc |-> "p2", kind |-> "body",  frags |-> <<3>>],
  [loc |-> "t1", kind |-> "table", frags |-> <<2>>],
  [loc |-> "p3", kind |-> "body",  frags |-> <<3, 2, 4>>],
  [loc |-> "p3", kind |-> "body",  frags |-> <<15>>]}

\* Two queries. Chunks of two sources: near to one, to the other, to both or to none, with and
\* without the words; two that say the same with another text between them in rank, and a
\* short one.
MCPassages == {
  [source |-> 1, vector |-> <<2, 0>>, keyword |-> 0, words |-> "a", tokens |-> 2],
  [source |-> 1, vector |-> <<0, 0>>, keyword |-> 1, words |-> "a", tokens |-> 1],
  [source |-> 1, vector |-> <<0, 1>>, keyword |-> 1, words |-> "b", tokens |-> 1],
  [source |-> 2, vector |-> <<1, 1>>, keyword |-> 0, words |-> "short", tokens |-> 1],
  [source |-> 2, vector |-> <<0, 0>>, keyword |-> 0, words |-> "b", tokens |-> 2]}
\* The usual weights; words alone, and nothing but the reranker's grade.
MCWeights == {
  [vector |-> 2, keyword |-> 1, rerank |-> 2, base |-> 1],
  [vector |-> 0, keyword |-> 1, rerank |-> 1, base |-> 0]}

\* Hints of one and two tokens, found by their term or a synonym, or not; one switched off.
MCHints == {
  [enabled |-> TRUE,  found |-> "term",    tokens |-> 2, expansions |-> <<<<"more">>>>],
  [enabled |-> TRUE,  found |-> "synonym", tokens |-> 1, expansions |-> <<>>],
  [enabled |-> TRUE,  found |-> "no",      tokens |-> 1, expansions |-> <<<<"more">>>>],
  [enabled |-> FALSE, found |-> "term",    tokens |-> 1, expansions |-> <<>>]}
\* No usable answer, the question again, and new queries.
MCAnswers == {<<>>, <<<<"question">>, <<"other">>>>, <<<<"other">>, <<"more">>, <<"third">>>>}

\* An item that expects a source, a chunk of it, a text, or nothing.
MCExpected == {
  [source |-> 1, chunk |-> 0, texts |-> {}],
  [source |-> 1, chunk |-> 2, texts |-> {}],
  [source |-> 0, chunk |-> 0, texts |-> {"x"}],
  [source |-> 0, chunk |-> 0, texts |-> {}]}
MCReturned ==
  LET c1 == [source |-> 1, chunk |-> 1, text |-> "x"]
      c2 == [source |-> 1, chunk |-> 2, text |-> "y"]
      c3 == [source |-> 2, chunk |-> 3, text |-> "x"]
  IN {<<>>, <<c1, c2>>, <<c3, c2, c1>>, <<c3>>}
MCVerdicts == [outcome : {"answered", "abstained", "error"}, ok : BOOLEAN,
               label : {"correct", "incorrect", "not_applicable"}]
MCParsed == [failed : {"no", "timeout", "memory"}, seconds : {1, 5}]
=============================================================================
