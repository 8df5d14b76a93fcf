----------------------------- MODULE Algorithms -----------------------------
(***************************************************************************)
(* The computations the handlers rely on, side by side: a document is      *)
(* chunked and summed up as minutes, a question is rewritten, its evidence *)
(* is retrieved, and runs are compared. Each behaviour follows one of them *)
(* over every bounded input; the others are at rest.                       *)
(***************************************************************************)
EXTENDS Minutes, Retrieval, Rewriting, Metrics

VARIABLE topic \* the computation of this behaviour

Topics == {"document", "evidence", "question", "metrics"}

algorithmVars == <<topic, chunkVars, minutesVars, retrievalVars, rewriteVars, metricsVars>>

AlgorithmInit ==
  /\ topic \in Topics
  /\ ChunkInit
  /\ MinutesInit
  /\ RetrievalInit
  /\ topic # "evidence" => weights = CHOOSE w \in Weights : TRUE
  /\ RewriteInit
  /\ topic # "question" => question = CHOOSE q \in Questions : TRUE
  /\ MetricsInit

OfDocument == topic = "document" /\ UNCHANGED <<retrievalVars, rewriteVars, metricsVars>>

AlgorithmNext ==
  /\ UNCHANGED topic
  /\ \/ OfDocument /\ ChunkNext /\ UNCHANGED minutesVars
     \/ OfDocument /\ MinutesNext /\ UNCHANGED chunkVars
     \/ /\ topic = "evidence" /\ RetrievalNext
        /\ UNCHANGED <<chunkVars, minutesVars, rewriteVars, metricsVars>>
     \/ /\ topic = "question" /\ RewriteNext
        /\ UNCHANGED <<chunkVars, minutesVars, retrievalVars, metricsVars>>
     \/ /\ topic = "metrics" /\ MetricsNext
        /\ UNCHANGED <<chunkVars, minutesVars, retrievalVars, rewriteVars>>

AlgorithmSpec == AlgorithmInit /\ [][AlgorithmNext]_algorithmVars

-----------------------------------------------------------------------------
\* The variables of each computation are well typed.
AlgorithmTypeOK ==
  /\ topic \in Topics
  /\ ChunkTypeOK
  /\ MinutesTypeOK
  /\ RetrievalTypeOK
  /\ RewriteTypeOK
  /\ MetricsTypeOK
=============================================================================
