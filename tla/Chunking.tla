------------------------------ MODULE Chunking ------------------------------
(***************************************************************************)
(* How a document's sections become the chunks that are indexed            *)
(* (chunk_sections of app/ingest.py), one sentence per step.               *)
(*                                                                         *)
(* A sentence is what split_sentences and the trimming of blanks leave: a  *)
(* location, the kind _section_kind gives it, and the lengths of its       *)
(* fragments, which single soft marks (commas, semicolons) part. A chunk's *)
(* text is a sequence of spans of sentences, counted in characters other   *)
(* than the marks; a blank joins two spans. Blanks around a cut, which     *)
(* strip removes, are left out.                                            *)
(***************************************************************************)
EXTENDS Lists

CONSTANTS
  Sentences,   \* what a document may consist of: [loc, kind, frags]
  Target,      \* target_chars
  Overlap,     \* overlap_sentences
  MaxSentences \* bound: sentences of a document

ASSUME SentencesAssumption == \A s \in Sentences : s.frags \in Seq(Nat \ {0}) /\ s.frags # <<>>
ASSUME TargetAssumption    == Target \in Nat \ {0} /\ Overlap \in Nat /\ MaxSentences \in Nat

VARIABLES
  doc,     \* the sentences read so far
  chunks,  \* the chunks flushed
  current, \* the sentences of the chunk being filled, by their place in doc
  length,  \* current_len
  reading  \* FALSE once the last chunk is flushed

chunkVars == <<doc, chunks, current, length, reading>>

-----------------------------------------------------------------------------
Letters(s) == Total(s.frags)                   \* without the soft marks
Chars(s)   == Letters(s) + Len(s.frags) - 1    \* with them

Whole(i) == [unit |-> i, from |-> 0, to |-> Letters(doc[i]), cut |-> FALSE]

\* What a span adds to a text: the soft marks are gone from a sentence that was cut.
SpanChars(p) == IF p.cut THEN p.to - p.from ELSE Chars(doc[p.unit])
ChunkChars(c) == Total([k \in DOMAIN c.body |-> SpanChars(c.body[k])]) + Len(c.body) - 1

\* _span_label: a chunk is labelled with the first and the last location of its sentences.
Label(ids) == <<doc[Head(ids)].loc, doc[Last(ids)].loc>>

\* flush()
Flushed == IF current = <<>> THEN chunks
           ELSE Append(chunks, [label |-> Label(current),
                                body  |-> [k \in DOMAIN current |-> Whole(current[k])]])

-----------------------------------------------------------------------------
(* _split_long_sentence *)

\* A fragment that would bring the buffer up to the target starts a buffer of its own.
SoftStep(acc, n) ==
  IF acc.to - acc.from + n >= Target
  THEN [pieces |-> IF acc.from = acc.to THEN acc.pieces ELSE Append(acc.pieces, <<acc.from, acc.to>>),
        from |-> acc.to, to |-> acc.to + n]
  ELSE [acc EXCEPT !.to = @ + n]

SoftPieces(s) ==
  LET acc == FoldLeft(SoftStep, [pieces |-> <<>>, from |-> 0, to |-> 0], s.frags)
  IN Append(acc.pieces, <<acc.from, acc.to>>)

\* A piece that is still too long is cut every target_chars characters.
HardCut(piece) ==
  [k \in 1 .. (piece[2] - piece[1] + Target - 1) \div Target |->
     <<piece[1] + (k - 1) * Target, Least(piece[2], piece[1] + k * Target)>>]

Pieces(s) == FlattenSeq([k \in DOMAIN SoftPieces(s) |-> HardCut(SoftPieces(s)[k])])

-----------------------------------------------------------------------------
(* One turn of the loop over the sentences: which of the four it takes. *)

Here == Len(doc) + 1 \* the place in doc of the sentence being read

IsLong(s)  == Chars(s) > Target
Turns(s)   == current # <<>> /\ s.kind # doc[Last(current)].kind
Exceeds(s, n) == n + Chars(s) + 1 > Target

\* Seeded bug: the sentences that wait in current are flushed after the long one.
OverlongAlone(s) ==
  /\ IsLong(s)
  /\ chunks' = chunks \o [k \in DOMAIN Pieces(s) |->
                 [label |-> <<s.loc, s.loc>>,
                  body  |-> <<[unit |-> Here, from |-> Pieces(s)[k][1], to |-> Pieces(s)[k][2],
                               cut |-> TRUE]>>]]
  /\ UNCHANGED <<current, length>>

\* A sentence longer than a chunk: its pieces are chunks of their own.
Overlong(s) ==
  /\ IsLong(s)
  /\ chunks' = Flushed \o [k \in DOMAIN Pieces(s) |->
                 [label |-> <<s.loc, s.loc>>,
                  body  |-> <<[unit |-> Here, from |-> Pieces(s)[k][1], to |-> Pieces(s)[k][2],
                               cut |-> TRUE]>>]]
  /\ current' = <<>>
  /\ length'  = 0

\* Another kind of section: nothing is carried over.
Turn(s) ==
  /\ ~IsLong(s)
  /\ Turns(s)
  /\ chunks'  = Flushed
  /\ current' = <<Here>>
  /\ length'  = Chars(s) + 1

LastOf(n) == SubSeq(current, Len(current) - Least(n, Len(current)) + 1, Len(current))
Priced(ids) == Total([k \in DOMAIN ids |-> Chars(doc[ids[k]]) + 1])

\* current[-overlap_sentences:], or nothing where the sentence would not fit beside it.
Carried(s) ==
  IF Exceeds(s, Priced(LastOf(Overlap))) THEN <<>> ELSE LastOf(Overlap)

\* current_len of the chunk that begins with the carried sentences.
PricedAfter(s) == Priced(Carried(s)) + Chars(s) + 1

\* No room left: the next chunk begins with the last sentences of this one.
Full(s) ==
  /\ ~IsLong(s) /\ ~Turns(s)
  /\ current # <<>>
  /\ Exceeds(s, length)
  /\ chunks'  = Flushed
  /\ current' = Append(Carried(s), Here)
  /\ length'  = PricedAfter(s)

Fits(s) ==
  /\ ~IsLong(s) /\ ~Turns(s)
  /\ current = <<>> \/ ~Exceeds(s, length)
  /\ current' = Append(current, Here)
  /\ length'  = length + Chars(s) + 1
  /\ UNCHANGED chunks

Read(s) ==
  /\ reading
  /\ Len(doc) < MaxSentences
  /\ doc' = Append(doc, s)
  /\ \/ Overlong(s)
     \/ Turn(s)
     \/ Full(s)
     \/ Fits(s)
  /\ UNCHANGED reading

\* The last flush.
Finish ==
  /\ reading
  /\ reading' = FALSE
  /\ chunks'  = Flushed
  /\ current' = <<>>
  /\ length'  = 0
  /\ UNCHANGED doc

ChunkInit ==
  /\ doc = <<>>
  /\ chunks = <<>>
  /\ current = <<>>
  /\ length = 0
  /\ reading = TRUE

ChunkNext ==
  \/ \E s \in Sentences : Read(s)
  \/ Finish

-----------------------------------------------------------------------------
Spans == [unit : 1 .. Len(doc), from : Nat, to : Nat, cut : BOOLEAN]

\* The state is well typed, and current_len prices exactly the sentences in current
\* (chunk_sections adds to it in one place and recomputes it in another).
ChunkTypeOK ==
  /\ doc \in Seq(Sentences)
  /\ \A k \in DOMAIN chunks : chunks[k].body \in Seq(Spans) /\ chunks[k].body # <<>>
  /\ current \in Seq(1 .. Len(doc))
  /\ length = Priced(current)
  /\ reading \in BOOLEAN

KindOf(c) == doc[c.body[1].unit].kind
Place(p) == <<p.unit, p.from>>
Before(p, q) == p.unit < q.unit \/ (p.unit = q.unit /\ p.to <= q.from)
Follows(p, q) == \/ q.unit = p.unit /\ q.from = p.to
                 \/ q.unit = p.unit + 1 /\ q.from = 0 /\ p.to = Letters(doc[p.unit])
\* The spans of chunk k that its predecessor has too.
Shared(k) == {j \in DOMAIN chunks[k].body : k > 1 /\ Contains(chunks[k - 1].body, chunks[k].body[j])}

\* The chunks, without what each repeats of the one before, are the document in its order:
\* no sentence is lost, doubled or moved by a flush, a cut or an overlap.
NothingLost ==
  /\ \A k \in DOMAIN chunks :
       LET body == chunks[k].body
           new  == DOMAIN body \ Shared(k)
       IN /\ \A j \in 1 .. Len(body) - 1 : Follows(body[j], body[j + 1])
          /\ new # {}
          /\ \A j \in new, i \in Shared(k) : i < j
          /\ k > 1 => Follows(Last(chunks[k - 1].body), body[Cardinality(Shared(k)) + 1])
          /\ k = 1 => Place(body[1]) = <<1, 0>>
  /\ ~reading /\ doc # <<>> =>
       LET end == Last(Last(chunks).body)
       IN end.unit = Len(doc) /\ end.to = Letters(Last(doc))

\* No chunk is longer than the target: the embedding model's window is measured for it.
FitsTarget == \A k \in DOMAIN chunks : ChunkChars(chunks[k]) <= Target

\* A chunk holds sentences of one kind of section, the repeated ones included, and repeats
\* at most overlap_sentences of them.
OneKind == \A k \in DOMAIN chunks :
  /\ \A j \in DOMAIN chunks[k].body : doc[chunks[k].body[j].unit].kind = KindOf(chunks[k])
  /\ Cardinality(Shared(k)) <= Overlap

\* Chunks are filled: one of whole sentences ends only where the next sentence of its
\* kind would not fit, one character short of the target, or would be cut.
FilledUp == \A k \in 1 .. Len(chunks) - 1 :
  LET next == doc[Last(chunks[k].body).unit + 1]
  IN ~Last(chunks[k].body).cut /\ next.kind = KindOf(chunks[k]) =>
       ChunkChars(chunks[k]) + 1 + Chars(next) >= Target

\* The chunks are the document, no less and no more, in pieces the embedding model takes
\* and a citation can name (app/ingest.py chunk_sections).
ChunkingIsSound == NothingLost /\ FitsTarget /\ OneKind /\ FilledUp
=============================================================================
