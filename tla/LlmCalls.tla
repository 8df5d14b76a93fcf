------------------------------ MODULE LlmCalls ------------------------------
(***************************************************************************)
(* One call to a model endpoint (app/llm.py): the retries of a posted and  *)
(* of a streamed request, the usage row it leaves, and the prefix gate     *)
(* between a streamed answer and the browser. What the endpoint does is    *)
(* chosen step by step.                                                    *)
(***************************************************************************)
EXTENDS Integers, Sequences, FiniteSets, SequencesExt

CONSTANTS
  MaxAttempts,   \* llm_retry.max_attempts
  Marker,        \* ABSTAIN_MARKER, letter by letter
  Reserved,      \* the length from which a prefix of the marker is reserved
  Deltas,        \* the pieces of text an endpoint sends
  Gates,         \* the values of answer_stream_gate_chars; 0 buffers everything
  MaxBuffer      \* MAX_STREAM_BUFFER_CHARS

ASSUME CallsAssumption ==
  /\ MaxAttempts \in Nat \ {0} /\ MaxBuffer \in Nat /\ Gates \subseteq Nat
  /\ Reserved \in 1 .. Len(Marker) - 1
  /\ Marker \in Seq(Range(Marker)) /\ \A d \in Deltas : d \in Seq(Range(d))
  /\ <<>> \notin Deltas

VARIABLE call    \* the call under way, or the last one

\* "answer" is generate_answer_stream; "stream" a stream that nothing reads before the
\* browser; "probe" the one of the settings page; "post" a completion that is not
\* streamed, "embed" a batch of embeddings.
CallKinds == {"answer", "stream", "probe", "post", "embed"}
Ended     == {"done", "failed", "gone"}
Letters   == UNION {Range(d) : d \in Deltas}
Texts     == BoundedSeq(Letters, MaxBuffer + 2)

Call == [kind : CallKinds \cup {"none"}, pc : {"idle", "asking", "reading"} \cup Ended,
         attempt : 0 .. MaxAttempts + 1,
         option : BOOLEAN,          \* stream_options are still in the request
         begun : Nat,               \* characters received when the attempt began
         gate : Gates \cup {0}, text : Texts, pending : Texts, shown : Texts,
         emitting : BOOLEAN, suppressed : BOOLEAN, discard : BOOLEAN,
         rows : BoundedSeq({"succeeded", "failed"}, 1)]   \* usage rows

NoCall == [kind |-> "none", pc |-> "idle", attempt |-> 0, option |-> FALSE, begun |-> 0, gate |-> 0,
           text |-> <<>>, pending |-> <<>>, shown |-> <<>>, emitting |-> FALSE,
           suppressed |-> FALSE, discard |-> FALSE, rows |-> <<>>]

Streamed == call.kind \in {"answer", "stream", "probe"}

-----------------------------------------------------------------------------
(* The reserved marker.                                                    *)

\* _contains_abstain_protocol: the marker, or a prefix of it that is long enough.
Protocol(text) ==
  \E i \in 1 .. Len(text) : \E n \in Reserved .. Len(Marker) :
    i + n - 1 <= Len(text) /\ SubSeq(text, i, i + n - 1) = SubSeq(Marker, 1, n)

\* Seeded bug: a suffix of one letter is let through.
HeldButOne(text) ==
  LET held == {n \in 2 .. Len(Marker) - 1 :
                 n <= Len(text) /\ IsSuffix(SubSeq(Marker, 1, n), text)}
  IN Max(held \cup {0})

\* _split_emittable: how many letters at the end could still grow into the marker.
Held(text) ==
  LET held == {n \in 1 .. Len(Marker) - 1 :
                 n <= Len(text) /\ IsSuffix(SubSeq(Marker, 1, n), text)}
  IN Max(held \cup {0})

-----------------------------------------------------------------------------
(* The gate: what one more piece does to the answer.                       *)

Received(c, d) ==
  LET text    == c.text \o d
      pending == c.pending \o d
      begins  == c.emitting \/ Len(pending) >= c.gate
      held    == Held(pending)
      emitted == SubSeq(pending, 1, Len(pending) - held)
      next    == [c EXCEPT !.text = text]
  IN IF c.kind # "answer" THEN [next EXCEPT !.shown = @ \o d]
     ELSE IF c.suppressed THEN next
     ELSE IF ~begins THEN [next EXCEPT !.pending = pending]
     ELSE IF Protocol(pending)
       THEN [next EXCEPT !.emitting = TRUE, !.suppressed = TRUE, !.pending = <<>>]
     ELSE [next EXCEPT !.emitting = TRUE, !.shown = @ \o emitted,
                       !.pending = SubSeq(pending, Len(pending) - held + 1, Len(pending))]

\* The end of the stream: parse_answer_result on the whole text. An abstention takes
\* back what was shown; otherwise the rest of the text follows.
Closed(c) ==
  IF c.kind # "answer" THEN c
  ELSE IF Protocol(c.text) THEN [c EXCEPT !.discard = c.shown # <<>>]
  ELSE [c EXCEPT !.shown = @ \o SubSeq(c.text, Len(c.shown) + 1, Len(c.text))]

-----------------------------------------------------------------------------
(* Attempts.                                                               *)

\* The request is built and the first attempt begins.
Open(kind) ==
  \E gate \in Gates :
    call' = [NoCall EXCEPT !.kind = kind, !.pc = "asking", !.attempt = 1, !.gate = gate,
                           !.option = kind \notin {"post", "embed"},
                           !.suppressed = kind = "answer" /\ gate = 0]

Ends(c, status) == [c EXCEPT !.pc = IF status = "succeeded" THEN "done" ELSE "failed",
                             !.rows = Append(@, status)]
Retries         == [call EXCEPT !.pc = "asking", !.attempt = @ + 1, !.begun = Len(call.text)]

Accepted ==
  /\ call.pc = "asking"
  /\ call' = [call EXCEPT !.pc = "reading"]

\* An error status: retried when it is one of the transient ones, once more without
\* the usage option when it may be what the endpoint objects to.
OptionRefused ==
  /\ call.pc = "asking" /\ call.option
  /\ call' = [Retries EXCEPT !.option = FALSE]

\* Seeded bug: the exception of the last attempt is raised before the row is written.
BusyUnseen ==
  /\ call.pc = "asking" /\ call.kind # "probe"
  /\ call' = IF call.attempt < MaxAttempts THEN Retries ELSE [call EXCEPT !.pc = "failed"]

Busy ==
  /\ call.pc = "asking" /\ call.kind # "probe"
  /\ call' = IF call.attempt < MaxAttempts THEN Retries ELSE Ends(call, "failed")

Refused ==
  /\ call.pc = "asking" /\ call.kind # "probe"
  /\ call' = Ends(call, "failed")

\* The connection fails or times out: retried unless this attempt has yielded text.
Dropped ==
  /\ call.pc \in {"asking", "reading"} /\ call.kind # "probe"
  /\ call' = IF Len(call.text) = call.begun /\ call.attempt < MaxAttempts
             THEN Retries ELSE Ends(call, "failed")

\* Something else goes wrong with the response.
Malformed ==
  /\ call.pc = "reading" /\ call.kind # "probe"
  /\ call' = Ends(call, "failed")

\* The stream of a test is not retried: any failure is its result.
ProbeFails ==
  /\ call.pc \in {"asking", "reading"} /\ call.kind = "probe"
  /\ call' = Ends(call, "failed")

ProbeDone ==
  /\ call.pc = "reading" /\ call.kind = "probe"
  /\ call' = Ends(call, "succeeded")

\* A piece arrives. Past the buffer the answer's generator gives up, and the closed
\* stream below it records nothing.
Delta(d) ==
  /\ call.pc = "reading" /\ Streamed /\ Len(call.text) <= MaxBuffer
  /\ call' = IF call.kind = "answer" /\ Len(call.text \o d) > MaxBuffer
             THEN [call EXCEPT !.pc = "gone"] ELSE Received(call, d)

StreamDone ==
  /\ call.pc = "reading" /\ call.kind \in {"answer", "stream"}
  /\ call' = Ends(Closed(call), "succeeded")

\* A completion without content is a failure, whatever its status.
PostDone ==
  /\ call.pc = "reading" /\ call.kind = "post"
  /\ call' = Ends(call, "succeeded")

EmptyContent ==
  /\ call.pc = "reading" /\ call.kind = "post"
  /\ call' = Ends(call, "failed")

\* The row is written before the vectors are taken out of the response, which may
\* still fail.
EmbedDone ==
  /\ call.pc = "reading" /\ call.kind = "embed"
  /\ \E pc \in {"done", "failed"} : call' = [Ends(call, "succeeded") EXCEPT !.pc = pc]

\* The reader goes away, while it waits for the next attempt too: no row.
Abandon ==
  /\ call.pc \in {"asking", "reading"} /\ call.kind \in {"answer", "stream"}
  /\ call' = [call EXCEPT !.pc = "gone"]

Attempt ==
  \/ Accepted \/ OptionRefused \/ Busy \/ Refused \/ Dropped \/ Malformed \/ Abandon
  \/ ProbeFails \/ ProbeDone \/ StreamDone \/ PostDone \/ EmptyContent \/ EmbedDone
  \/ \E d \in Deltas : Delta(d)

-----------------------------------------------------------------------------
(* Properties.                                                             *)

\* The reserved marker never reaches the browser, nor enough of it to be recognised,
\* at any moment of the stream and however the endpoint cuts its text.
MarkerHidden == call.kind = "answer" => ~Protocol(call.shown)

\* What the user has read when an answer ends is what is saved of it, letter by
\* letter, or the page is told to take it back.
ShownIsSaved ==
  call.pc = "done" /\ call.kind = "answer" =>
    IF Protocol(call.text) THEN call.shown # <<>> => call.discard
    ELSE call.shown = call.text /\ ~call.discard

\* Text the user has seen is never followed by a second attempt at it.
NoSecondTelling == call.attempt > 1 => call.begun = 0

\* A call ends after so many attempts; one more only without the usage option.
AttemptsBounded ==
  call.attempt > MaxAttempts => call.attempt = MaxAttempts + 1 /\ Streamed /\ ~call.option

\* A call that ends leaves one usage row of that outcome, whichever way it ends; one
\* that is abandoned leaves none. Only embeddings may be counted and then be unusable.
OneUsageRow ==
  CASE call.pc = "done"   -> call.rows = <<"succeeded">>
    [] call.pc = "failed" -> \/ call.rows = <<"failed">>
                             \/ call.kind = "embed" /\ call.rows = <<"succeeded">>
    [] OTHER -> call.rows = <<>>

\* The gate between the endpoint and the reader: the marker is never seen, and what was
\* seen is what is saved (app/llm.py generate_answer_stream).
GateHolds == MarkerHidden /\ ShownIsSaved

\* Whatever the endpoint does at whichever attempt, a text is told once, the attempts
\* end, and the call is counted once (app/llm.py chat_completion_stream, _post_json_with_retry).
RetriesAreSafe == NoSecondTelling /\ AttemptsBounded /\ OneUsageRow
=============================================================================
