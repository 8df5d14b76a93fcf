----------------------------- MODULE MCLlmClient -----------------------------
(* A small instance of LlmClient for TLC. *)
EXTENDS LlmClient, TLC

CONSTANTS a1, a2, plain, reasoning

\* The marker with the "[[" it begins with, and letters that start it over.
Abstain == <<"[", "[", "R", "R">>
Pieces  == {<<"[">>, <<"R">>, <<"x">>, <<"[", "[">>, <<"[", "R">>, <<"R", "x">>}

\* An endpoint that takes everything, and one of a reasoning model.
Endpoints == (plain :> [temperature |-> TRUE, fields |-> {"max_tokens"},
                        efforts |-> {}, shapes |-> {"response_format"}, window |-> 20])
          @@ (reasoning :> [temperature |-> FALSE, fields |-> {"max_completion_tokens"},
                            efforts |-> {"low"}, shapes |-> {"guided_json"}, window |-> 6])
Windows == "narrow" :> 4 @@ "wide" :> 20

Alike == Permutations({a1, a2})
=============================================================================
