------------------------------- MODULE Minutes -------------------------------
(***************************************************************************)
(* What the chat model is shown of a document that has been chunked: all   *)
(* of it, window by window, for meeting minutes (stream_meeting_minutes of *)
(* app/llm.py, _minutes_flow of app/main.py), or a sample spread over it   *)
(* (spread_sample).                                                        *)
(***************************************************************************)
EXTENDS Chunking

CONSTANTS
  Context,    \* MEETING_MINUTES_CONTEXT_CHARS
  MaxWindows  \* MEETING_MINUTES_MAX_WINDOWS

ASSUME WindowAssumption == Context \in Nat \ {0} /\ MaxWindows \in Nat \ {0, 1}

VARIABLES
  windows,  \* the chunks of each call: sets of places in chunks
  at,       \* the window whose call comes next; 0 before they are split
  partials, \* the windows whose notes are kept
  failed,   \* the windows whose call failed
  result    \* "none" so far, "minutes", "notes" (the parts joined), "declined" or "empty"

minutesVars == <<windows, at, partials, failed, result>>

-----------------------------------------------------------------------------
(* split_minutes_windows *)


\* Chunk k opens the next window, of which used characters are taken.
Open(acc, k, used) ==
  [windows |-> Append(acc.windows, acc.window), window |-> {k}, used |-> used,
   full |-> Len(acc.windows) + 1 >= MaxWindows]
Closes(acc, k) == acc.window # {} /\ acc.used + ChunkChars(chunks[k]) > Context

\* A chunk that does not fit closes the window; after the last window the rest is not read.
Pack(acc, k) ==
  IF acc.full THEN acc
  ELSE IF Closes(acc, k) THEN Open(acc, k, ChunkChars(chunks[k]))
  ELSE [acc EXCEPT !.window = @ \cup {k}, !.used = @ + ChunkChars(chunks[k])]

Split ==
  LET acc == FoldLeftDomain(Pack, [windows |-> <<>>, window |-> {}, used |-> 0, full |-> FALSE], chunks)
  IN IF acc.full \/ acc.window = {} THEN acc.windows ELSE Append(acc.windows, acc.window)

Selected  == UNION {windows[w] : w \in DOMAIN windows}

\* Seeded bug: the note waits for more windows than there ever are.
IsPartialLate == Len(windows) > MaxWindows
\* select_minutes_chunks; the reader is told when it is not the whole document.
IsPartial == Cardinality(Selected) < Len(chunks)

-----------------------------------------------------------------------------
BeginMinutes ==
  /\ ~reading /\ chunks # <<>>
  /\ at = 0
  /\ windows' = Split
  /\ at' = 1
  /\ UNCHANGED <<partials, failed, result>>

\* One window: its answer is the minutes, or there are none.
SingleWindow(answer) ==
  /\ at = 1 /\ Len(windows) = 1
  /\ result = "none"
  /\ result'   = IF answer = "failed" THEN "empty" ELSE IF answer = "declined" THEN answer ELSE "minutes"
  /\ partials' = IF answer = "failed" THEN {} ELSE {1}
  /\ failed'   = {1} \ partials'
  /\ UNCHANGED <<windows, at>>


\* One of several: notes, nothing worth noting, a failure, or no meeting at all, which ends it.
Portion(answer) ==
  /\ at \in DOMAIN windows /\ Len(windows) > 1
  /\ result = "none"
  /\ IF answer = "declined"
     THEN result' = "declined" /\ UNCHANGED <<at, partials, failed>>
     ELSE /\ at' = at + 1
          /\ partials' = IF answer = "notes" THEN partials \cup {at} ELSE partials
          /\ failed'   = IF answer = "failed" THEN failed \cup {at} ELSE failed
          /\ UNCHANGED result
  /\ UNCHANGED windows

\* All portions done: one more call merges the notes; if it fails they are joined as they are.
MergePortions(ok) ==
  /\ at = Len(windows) + 1 /\ Len(windows) > 1
  /\ result = "none"
  /\ result' = IF partials = {} THEN "empty" ELSE IF ok THEN "minutes" ELSE "notes"
  /\ UNCHANGED <<windows, at, partials, failed>>

MinutesInit ==
  /\ windows = <<>>
  /\ at = 0
  /\ partials = {}
  /\ failed = {}
  /\ result = "none"

MinutesNext ==
  \/ BeginMinutes
  \/ \E answer \in {"notes", "nothing", "failed", "declined"} : SingleWindow(answer) \/ Portion(answer)
  \/ \E ok \in BOOLEAN : MergePortions(ok)

-----------------------------------------------------------------------------
(* spread_sample: the places of the items it picks out of n. *)

\* round(a / b), halves to the even neighbour.
Rounded(a, b) ==
  LET down == a \div b
      rest == 2 * (a % b)
  IN IF rest < b \/ (rest = b /\ down % 2 = 0) THEN down ELSE down + 1

\* The places after the head, evenly up to the last one.
Spaced(n, head, count) ==
  IF count = 0 \/ head >= n THEN {}
  ELSE {n} \cup {head + 1 + (IF count = 1 THEN 0 ELSE Rounded(p * (n - head - 1), count - 1)) :
                   p \in 0 .. count - 1}

\* The first places not taken yet make up for those that rounding made coincide.
ToppedUp(places, n, limit) ==
  LET free == (1 .. n) \ places
  IN places \cup {i \in free : Cardinality({j \in free : j < i}) + Cardinality(places) < limit}

SpreadSample(n, limit, head) ==
  IF limit = 0 THEN {}
  ELSE IF n <= limit THEN 1 .. n
  ELSE ToppedUp((1 .. Least(head, limit)) \cup Spaced(n, Least(head, limit), limit - Least(head, limit)),
                n, limit)

-----------------------------------------------------------------------------
(* _round_robin_chunk_ids: sizes are the numbers of chunks of the sources. *)

\* Chunk p of source s comes no later than chunk q of source t.
InTurn(s, p, t, q) == p < q \/ (p = q /\ s <= t)

PoolSize(size, share) == Cardinality(SpreadSample(size, IF share = 0 THEN 1 ELSE share, 0))

\* How many chunks each source contributes.
RoundRobin(sizes, limit) ==
  LET pool  == [s \in DOMAIN sizes |-> PoolSize(sizes[s], limit \div Len(sizes))]
      picks == UNION {{<<s, p>> : p \in 1 .. pool[s]} : s \in DOMAIN sizes}
      early == {x \in picks : Cardinality({y \in picks : InTurn(y[1], y[2], x[1], x[2])}) <= limit}
  IN [s \in DOMAIN sizes |-> Cardinality({x \in early : x[1] = s})]

-----------------------------------------------------------------------------
MinutesTypeOK ==
  /\ windows \in Seq((SUBSET (1 .. Len(chunks))) \ {{}})
  /\ at \in 0 .. Len(windows) + 1
  /\ partials \cup failed \subseteq DOMAIN windows /\ partials \cap failed = {}
  /\ result \in {"none", "minutes", "notes", "declined", "empty"}

WindowChars(w) == Total([i \in 1 .. Cardinality(w) |->
                          ChunkChars(chunks[CHOOSE k \in w : Cardinality({j \in w : j <= k}) = i])])
First(w) == CHOOSE k \in w : \A j \in w : k <= j

\* The windows are the document in its order: each fits one call unless it is a single
\* chunk, none could have taken the next chunk too, and only the limit on their number
\* leaves chunks out, at the end.
WindowsTile ==
  /\ Selected = 1 .. Cardinality(Selected)
  /\ \A w \in DOMAIN windows : Cardinality(windows[w]) > 1 => WindowChars(windows[w]) <= Context
  /\ \A w \in 1 .. Len(windows) - 1 :
       /\ \A j \in windows[w], k \in windows[w + 1] : j < k
       /\ WindowChars(windows[w]) + ChunkChars(chunks[First(windows[w + 1])]) > Context
  /\ at > 0 /\ IsPartial => Len(windows) = MaxWindows

\* Minutes without a note of partial coverage are of the whole document, but for the
\* portions whose call failed: every sentence was in a window that was read.
MinutesReadItAll ==
  result \in {"minutes", "notes"} /\ ~IsPartial =>
    \A i \in 1 .. Len(doc) : \E w \in DOMAIN windows, k \in Selected :
      /\ k \in windows[w]
      /\ w \in failed \/ w < at \/ Len(windows) = 1
      /\ \E p \in DOMAIN chunks[k].body : chunks[k].body[p].unit = i

\* Notes that a portion gave are never lost: the run ends without a result only if no
\* portion gave any, unless a later one says that this is no meeting.
NotesAreKept == /\ (result = "empty" => partials = {})
                /\ (result \in {"minutes", "notes"} => partials # {})

\* A sample begins at the document's beginning and ends at its end, has as many items as
\* may be, and leaves out no stretch longer than an even spacing would; with a limit of
\* one more than the head it has one more.
SpreadCovers(n, limit, head) ==
  LET sample == SpreadSample(n, limit, head)
      step   == (n - head) \div (limit - head - 1) + 2
  IN limit > head + 1 =>
       /\ Cardinality(sample) = Least(n, limit)
       /\ {1, n} \subseteq sample
       /\ \A i \in 1 .. n : \E j \in sample : i <= j /\ j < i + step

\* So does every sample of the document's chunks, for a summary as for questions.
SampleCovers == ~reading /\ chunks # <<>> =>
  \A limit \in 1 .. Len(chunks), head \in 0 .. 1 : SpreadCovers(Len(chunks), limit, head)

\* However large one document is among the others, it takes at most one more chunk than
\* another that has more to give, and nobody is left out while there is a place for each.
SourcesShare == ~reading /\ at = 0 /\ chunks # <<>> =>
  \A other \in {1, 3}, limit \in 1 .. 6 :
    LET sizes == <<Len(chunks), other, 1>>
        taken == RoundRobin(sizes, limit)
    IN /\ Total(taken) <= limit
       /\ \A s, t \in DOMAIN sizes : taken[s] >= Least(sizes[s], taken[t] - 1)
       /\ limit >= Len(sizes) => \A s \in DOMAIN sizes : taken[s] > 0

\* What a model is shown of a document stands for all of it, or the reader is told that it
\* does not (app/llm.py stream_meeting_minutes, spread_sample, app/main.py _minutes_flow).
DocumentIsCovered == WindowsTile /\ MinutesReadItAll /\ NotesAreKept /\ SampleCovers /\ SourcesShare
=============================================================================
