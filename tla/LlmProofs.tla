------------------------------ MODULE LlmProofs ------------------------------
(***************************************************************************)
(* What is proved of LlmClient for every marker, every way an endpoint     *)
(* cuts its text, every gate and every number of attempts. The gate needs  *)
(* one fact about texts: a marker that is not in the text so far and not   *)
(* in what is withheld of it with the next piece is not in the two         *)
(* together, because what could still grow into the marker is withheld.    *)
(***************************************************************************)
EXTENDS LlmClient, SequenceTheorems, WellFoundedInduction, TLAPS

Alphabet == Letters \cup Range(Marker)
Told     == Seq(Alphabet)

\* The first n letters of the marker stand in a text from place i on.
Tells(text, i, n) == \A j \in 1 .. n : text[i + j - 1] = Marker[j]

\* The text ends with a proper prefix of the marker, of n letters.
Grows(text, n) == n \in 1 .. Len(Marker) - 1 /\ n <= Len(text) /\ Tells(text, Len(text) - n + 1, n)

-----------------------------------------------------------------------------
(* Texts.                                                                  *)

\* The letters of the pieces and of the marker.
LEMMA Typing ==
  /\ Marker \in Told /\ Deltas \subseteq Told
  /\ \A d \in Deltas : Len(d) \in Nat \ {0}
  /\ Len(Marker) \in Nat /\ Reserved \in Nat \ {0} /\ Reserved < Len(Marker)
<1>1. Marker \in Told
  BY CallsAssumption, SeqMonotonic DEF Told, Alphabet
<1>2. ASSUME NEW d \in Deltas PROVE d \in Told /\ Len(d) \in Nat \ {0}
  <2>1. Range(d) \subseteq Alphabet
    BY DEF Alphabet, Letters
  <2>2. d \in Told
    BY <2>1, CallsAssumption, SeqMonotonic DEF Told
  <2>3. d # <<>>
    BY CallsAssumption
  <2> QED
    BY <2>2, <2>3, EmptySeq DEF Told
<1>3. Len(Marker) \in Nat
  BY <1>1, LenProperties DEF Told
<1> QED
  BY <1>1, <1>2, <1>3, CallsAssumption

\* A part of a text is a text.
LEMMA Part ==
  ASSUME NEW s \in Told, NEW m \in Nat \ {0}, NEW n \in 0 .. Len(s)
  PROVE  /\ SubSeq(s, m, n) \in Told
         /\ Len(SubSeq(s, m, n)) = IF m <= n THEN n - m + 1 ELSE 0
         /\ \A i \in 1 .. n - m + 1 : SubSeq(s, m, n)[i] = s[m + i - 1]
<1>1. \A i \in m .. n : s[i] \in Alphabet
  BY ElementOfSeq DEF Told
<1> QED
  BY <1>1, SubSeqProperties DEF Told

\* What it is to hold the marker, letter by letter.
LEMMA ProtocolIs ==
  ASSUME NEW s \in Told
  PROVE  Protocol(s) <=> \E i \in 1 .. Len(s) : \E n \in Reserved .. Len(Marker) :
                            i + n - 1 <= Len(s) /\ Tells(s, i, n)
<1>1. Len(s) \in Nat
  BY LenProperties DEF Told
<1>2. ASSUME NEW i \in 1 .. Len(s), NEW n \in Reserved .. Len(Marker), i + n - 1 <= Len(s)
      PROVE  SubSeq(s, i, i + n - 1) = SubSeq(Marker, 1, n) <=> Tells(s, i, n)
  <2>0. n \in Nat \ {0} /\ i \in Nat \ {0} /\ i + n - 1 \in 0 .. Len(s)
    BY <1>1, <1>2, Typing
  <2>1. /\ SubSeq(s, i, i + n - 1) \in Told /\ Len(SubSeq(s, i, i + n - 1)) = n
        /\ \A j \in 1 .. n : SubSeq(s, i, i + n - 1)[j] = s[i + j - 1]
    BY <2>0, Part, <1>1
  <2>2. /\ SubSeq(Marker, 1, n) \in Told /\ Len(SubSeq(Marker, 1, n)) = n
        /\ \A j \in 1 .. n : SubSeq(Marker, 1, n)[j] = Marker[j]
    <3>1. n \in 0 .. Len(Marker)
      BY <2>0, Typing
    <3> QED
      BY <2>0, <3>1, Part, Typing
  <2>3. CASE Tells(s, i, n)
    BY <2>1, <2>2, <2>3, SeqEqual DEF Tells, Told
  <2>4. CASE SubSeq(s, i, i + n - 1) = SubSeq(Marker, 1, n)
    BY <2>1, <2>2, <2>4 DEF Tells
  <2> QED
    BY <2>3, <2>4
<1> QED
  BY <1>2 DEF Protocol

\* The end of a text is its suffix.
LEMMA SuffixIs ==
  ASSUME NEW s \in Told, NEW n \in 1 .. Len(Marker) - 1, n <= Len(s)
  PROVE  IsSuffix(SubSeq(Marker, 1, n), s) <=> Tells(s, Len(s) - n + 1, n)
<1> DEFINE m == SubSeq(Marker, 1, n)
           back == [i \in 1 .. Len(s) |-> s[(Len(s) - i) + 1]]
           mark == [i \in 1 .. n |-> m[(n - i) + 1]]
<1>1. Len(s) \in Nat /\ n \in Nat \ {0} /\ n \in 0 .. Len(Marker) /\ Len(Marker) \in Nat
  BY LenProperties, Typing DEF Told
<1>2. m \in Told /\ Len(m) = n /\ \A j \in 1 .. n : m[j] = Marker[j]
  BY <1>1, Part, Typing
<1>3. \A i \in 1 .. Len(s) : s[(Len(s) - i) + 1] \in Alphabet
  <2> TAKE i \in 1 .. Len(s)
  <2>1. (Len(s) - i) + 1 \in 1 .. Len(s)
    BY <1>1
  <2> QED
    BY <2>1, ElementOfSeq DEF Told
<1>4. back \in Told /\ Len(back) = Len(s) /\ \A i \in 1 .. Len(s) : back[i] = s[(Len(s) - i) + 1]
  BY <1>1, <1>3 DEF Told
<1>5. \A i \in 1 .. n : m[(n - i) + 1] \in Alphabet
  <2> TAKE i \in 1 .. n
  <2>1. (n - i) + 1 \in 1 .. Len(m)
    BY <1>1, <1>2
  <2> QED
    BY <1>2, <2>1, ElementOfSeq DEF Told
<1>6. mark \in Told /\ Len(mark) = n /\ \A i \in 1 .. n : mark[i] = m[(n - i) + 1]
  <2> HIDE DEF m
  <2> QED
    BY <1>1, <1>5 DEF Told
<1>7. Reverse(m) = mark /\ Reverse(s) = back
  BY <1>2 DEF Reverse
<1> HIDE DEF m, back, mark
<1>8. /\ SubSeq(mark, 1, n) \in Told /\ Len(SubSeq(mark, 1, n)) = n
      /\ \A j \in 1 .. n : SubSeq(mark, 1, n)[j] = mark[j]
  BY <1>1, <1>6, Part
<1>9. /\ SubSeq(back, 1, n) \in Told /\ Len(SubSeq(back, 1, n)) = n
      /\ \A j \in 1 .. n : SubSeq(back, 1, n)[j] = back[j]
  BY <1>1, <1>4, Part
<1>10. IsSuffix(m, s) <=> SubSeq(mark, 1, n) = SubSeq(back, 1, n)
  BY <1>1, <1>4, <1>6, <1>7 DEF IsSuffix, IsPrefix
<1>11. SubSeq(mark, 1, n) = SubSeq(back, 1, n) <=> \A j \in 1 .. n : mark[j] = back[j]
  <2>1. ASSUME \A j \in 1 .. n : mark[j] = back[j] PROVE SubSeq(mark, 1, n) = SubSeq(back, 1, n)
    BY <1>8, <1>9, <2>1, SeqEqual DEF Told
  <2>2. ASSUME SubSeq(mark, 1, n) = SubSeq(back, 1, n) PROVE \A j \in 1 .. n : mark[j] = back[j]
    BY <1>8, <1>9, <2>2
  <2> QED
    BY <2>1, <2>2
<1>12. \A j \in 1 .. n : mark[j] = Marker[(n - j) + 1] /\ back[j] = s[(Len(s) - j) + 1]
  <2> TAKE j \in 1 .. n
  <2>1. (n - j) + 1 \in 1 .. n /\ j \in 1 .. Len(s)
    BY <1>1
  <2> QED
    BY <1>2, <1>4, <1>6, <2>1
<1>13. (\A j \in 1 .. n : Marker[(n - j) + 1] = s[(Len(s) - j) + 1]) <=> Tells(s, Len(s) - n + 1, n)
  <2>1. ASSUME Tells(s, Len(s) - n + 1, n), NEW j \in 1 .. n
        PROVE  Marker[(n - j) + 1] = s[(Len(s) - j) + 1]
    <3>1. (n - j) + 1 \in 1 .. n /\ (Len(s) - n + 1) + ((n - j) + 1) - 1 = (Len(s) - j) + 1
      BY <1>1
    <3> QED
      BY <2>1, <3>1 DEF Tells
  <2>2. ASSUME \A j \in 1 .. n : Marker[(n - j) + 1] = s[(Len(s) - j) + 1], NEW i \in 1 .. n
        PROVE  s[(Len(s) - n + 1) + i - 1] = Marker[i]
    <3>1. /\ (n - i) + 1 \in 1 .. n /\ (n - ((n - i) + 1)) + 1 = i
          /\ (Len(s) - ((n - i) + 1)) + 1 = (Len(s) - n + 1) + i - 1
      BY <1>1
    <3> QED
      BY <2>2, <3>1
  <2> QED
    BY <2>1, <2>2 DEF Tells
<1> QED
  BY <1>10, <1>11, <1>12, <1>13 DEF m

\* A bounded set of numbers that has a member has a greatest one.
LEMMA Greatest ==
  ASSUME NEW b \in Nat, NEW S, S \subseteq 0 .. b, S # {}
  PROVE  Max(S) \in S /\ \A y \in S : Max(S) >= y
<1> DEFINE T == {b - x : x \in S}
<1>1. T \subseteq Nat /\ T # {}
  <2>1. \A x \in S : x \in 0 .. b
    OBVIOUS
  <2>2. \A x \in S : b - x \in Nat
    BY <2>1
  <2> QED
    BY <2>2
<1>2. \E x \in T : \A y \in T : ~(<<y, x>> \in OpToRel(<, Nat))
  BY <1>1, WFMin, NatLessThanWellFounded
<1>3. \E x \in T : \A y \in T : ~(y < x)
  BY <1>1, <1>2 DEF OpToRel
<1>4. PICK z \in S : \A y \in S : ~(b - y < b - z)
  BY <1>3
<1>5. \A y \in S : z >= y
  BY <1>4
<1> QED
  BY <1>5 DEF Max

\* What _split_emittable withholds: the longest end of the text that grows into the marker.
LEMMA HeldIs ==
  ASSUME NEW s \in Told
  PROVE  /\ Held(s) \in 0 .. Len(s)
         /\ \A n \in Nat : Grows(s, n) => n <= Held(s)
<1> DEFINE held == {n \in 1 .. Len(Marker) - 1 : n <= Len(s) /\ IsSuffix(SubSeq(Marker, 1, n), s)}
<1>1. Len(s) \in Nat /\ Len(Marker) \in Nat
  BY LenProperties, Typing DEF Told
<1>2. held \cup {0} \subseteq 0 .. Len(s)
  BY <1>1
<1>3. \A n \in Nat : Grows(s, n) => n \in held
  BY SuffixIs DEF Grows
<1>4. Held(s) = Max(held \cup {0})
  BY DEF Held
<1> HIDE DEF held
<1>5. Max(held \cup {0}) \in held \cup {0} /\ \A y \in held \cup {0} : Max(held \cup {0}) >= y
  BY <1>1, <1>2, Greatest
<1> QED
  BY <1>1, <1>2, <1>3, <1>4, <1>5

\* The marker cannot come together out of two texts that do not hold it, when all that
\* could grow into it is on the side of the second.
LEMMA NothingStraddles ==
  ASSUME NEW shown \in Told, NEW pending \in Told, NEW d \in Told,
         ~Protocol(shown \o pending),
         \A n \in Nat : Grows(shown \o pending, n) => n <= Len(pending),
         ~Protocol(pending \o d)
  PROVE  /\ ~Protocol(shown \o (pending \o d))
         /\ \A n \in Nat : Grows(shown \o (pending \o d), n) /\ Len(d) > 0 =>
                           n <= Len(pending \o d) /\ Grows(pending \o d, n)
<1> DEFINE text == shown \o pending
           rest == pending \o d
           both == shown \o rest
<1>1. /\ Len(shown) \in Nat /\ Len(pending) \in Nat /\ Len(d) \in Nat /\ Len(Marker) \in Nat
      /\ Reserved \in Nat \ {0}
  BY LenProperties, Typing DEF Told
<1>2. text \in Told /\ Len(text) = Len(shown) + Len(pending)
      /\ \A i \in 1 .. Len(text) : text[i] = IF i <= Len(shown) THEN shown[i] ELSE pending[i - Len(shown)]
  BY ConcatProperties DEF Told
<1>3. rest \in Told /\ Len(rest) = Len(pending) + Len(d)
      /\ \A i \in 1 .. Len(rest) : rest[i] = IF i <= Len(pending) THEN pending[i] ELSE d[i - Len(pending)]
  BY ConcatProperties DEF Told
<1> HIDE DEF text, rest
<1>4. both \in Told /\ Len(both) = Len(shown) + Len(rest)
      /\ \A i \in 1 .. Len(both) : both[i] = IF i <= Len(shown) THEN shown[i] ELSE rest[i - Len(shown)]
  <2>1. rest \in Told
    BY <1>3
  <2> QED
    BY <2>1, ConcatProperties DEF Told
<1> HIDE DEF both
<1>5. \A i \in 1 .. Len(text) : both[i] = text[i]
  <2> TAKE i \in 1 .. Len(text)
  <2>1. i \in 1 .. Len(both)
    BY <1>1, <1>2, <1>3, <1>4
  <2>2. CASE i <= Len(shown)
    BY <1>2, <1>4, <2>1, <2>2
  <2>3. CASE ~(i <= Len(shown))
    <3>1. i - Len(shown) \in 1 .. Len(rest) /\ i - Len(shown) <= Len(pending)
      BY <1>1, <1>2, <1>3, <2>3
    <3> QED
      BY <1>2, <1>3, <1>4, <2>1, <2>3, <3>1
  <2> QED
    BY <2>2, <2>3
<1>6. \A i \in 1 .. Len(rest) : both[Len(shown) + i] = rest[i]
  <2> TAKE i \in 1 .. Len(rest)
  <2>1. /\ Len(shown) + i \in 1 .. Len(both) /\ ~(Len(shown) + i <= Len(shown))
        /\ (Len(shown) + i) - Len(shown) = i
    BY <1>1, <1>3, <1>4
  <2> QED
    BY <1>4, <2>1
\* A marker that begins in what is shown and goes beyond the text makes the text grow.
<1>7. ASSUME NEW i \in 1 .. Len(shown), NEW n \in 1 .. Len(Marker), Tells(both, i, n),
             i + n - 1 <= Len(both), i + n - 1 > Len(text)
      PROVE  FALSE
  <2>1. Len(text) - i + 1 \in Nat \ {0} /\ Len(text) - i + 1 < n /\ Len(text) - i + 1 > Len(pending)
        /\ Len(text) - i + 1 <= Len(text) /\ Len(text) - i + 1 \in 1 .. Len(Marker) - 1
        /\ Len(text) - (Len(text) - i + 1) + 1 = i
    BY <1>1, <1>2, <1>7
  <2>2. Tells(text, i, Len(text) - i + 1)
    <3> SUFFICES ASSUME NEW j \in 1 .. Len(text) - i + 1 PROVE text[i + j - 1] = Marker[j]
      BY DEF Tells
    <3>1. j \in 1 .. n /\ i + j - 1 \in 1 .. Len(text)
      BY <1>1, <1>2, <2>1
    <3> QED
      BY <1>5, <1>7, <3>1 DEF Tells
  <2>3. Grows(text, Len(text) - i + 1)
    BY <2>1, <2>2 DEF Grows
  <2> QED
    BY <2>1, <2>3, <1>1, <1>2 DEF text
<1>8. ~Protocol(both)
  <2> SUFFICES ASSUME Protocol(both) PROVE FALSE
    OBVIOUS
  <2>1. PICK i \in 1 .. Len(both), n \in Reserved .. Len(Marker) : i + n - 1 <= Len(both) /\ Tells(both, i, n)
    BY <1>4, ProtocolIs
  <2>0. n \in 1 .. Len(Marker) /\ i \in Nat /\ n \in Nat
    BY <1>1
  <2>2. CASE i <= Len(shown) /\ i + n - 1 > Len(text)
    <3>1. i \in 1 .. Len(shown)
      BY <2>2, <1>1, <2>0
    <3> QED
      BY <1>7, <2>0, <2>1, <2>2, <3>1
  <2>3. CASE i + n - 1 <= Len(text)
    <3>1. i \in 1 .. Len(text)
      BY <1>1, <1>2, <2>0, <2>3
    <3>2. Tells(text, i, n)
      <4> SUFFICES ASSUME NEW j \in 1 .. n PROVE text[i + j - 1] = Marker[j]
        BY DEF Tells
      <4>1. i + j - 1 \in 1 .. Len(text)
        BY <1>1, <1>2, <2>0, <2>3
      <4> QED
        BY <1>5, <2>1, <4>1 DEF Tells
    <3> QED
      BY <1>2, <2>3, <3>1, <3>2, ProtocolIs DEF text
  <2>4. CASE i > Len(shown)
    <3>1. i - Len(shown) \in 1 .. Len(rest) /\ (i - Len(shown)) + n - 1 <= Len(rest)
      BY <1>1, <1>3, <1>4, <2>0, <2>1, <2>4
    <3>2. Tells(rest, i - Len(shown), n)
      <4> SUFFICES ASSUME NEW j \in 1 .. n PROVE rest[(i - Len(shown)) + j - 1] = Marker[j]
        BY DEF Tells
      <4>1. (i - Len(shown)) + j - 1 \in 1 .. Len(rest)
            /\ Len(shown) + ((i - Len(shown)) + j - 1) = i + j - 1
        BY <1>1, <1>3, <2>0, <2>4, <3>1
      <4> QED
        BY <1>6, <2>1, <4>1 DEF Tells
    <3> QED
      BY <1>3, <3>1, <3>2, ProtocolIs DEF rest
  <2> QED
    BY <2>2, <2>3, <2>4, <1>1, <1>2, <2>0
<1>9. ASSUME NEW n \in Nat, Grows(both, n), Len(d) > 0
      PROVE  n <= Len(rest) /\ Grows(rest, n)
  <2>1. n \in 1 .. Len(Marker) - 1 /\ n <= Len(both) /\ Tells(both, Len(both) - n + 1, n)
    BY <1>9 DEF Grows
  <2>2. n <= Len(rest)
    <3> SUFFICES ASSUME n > Len(rest) PROVE FALSE
      BY <1>1, <1>3
    <3>1. /\ Len(both) - n + 1 \in 1 .. Len(shown) /\ (Len(both) - n + 1) + n - 1 <= Len(both)
          /\ (Len(both) - n + 1) + n - 1 > Len(text) /\ n \in 1 .. Len(Marker)
      BY <1>1, <1>2, <1>3, <1>4, <1>9, <2>1
    <3> QED
      BY <1>7, <2>1, <3>1
  <2>3. Tells(rest, Len(rest) - n + 1, n)
    <3> SUFFICES ASSUME NEW j \in 1 .. n PROVE rest[(Len(rest) - n + 1) + j - 1] = Marker[j]
      BY DEF Tells
    <3>1. (Len(rest) - n + 1) + j - 1 \in 1 .. Len(rest)
          /\ Len(shown) + ((Len(rest) - n + 1) + j - 1) = (Len(both) - n + 1) + j - 1
      BY <1>1, <1>3, <1>4, <2>1, <2>2
    <3> QED
      BY <1>6, <2>1, <3>1 DEF Tells
  <2> QED
    BY <2>1, <2>2, <2>3 DEF Grows
<1> QED
  BY <1>8, <1>9 DEF both, rest

\* A part of a text without the marker is without it.
LEMMA PrefixIsClean ==
  ASSUME NEW s \in Told, NEW n \in 0 .. Len(s), ~Protocol(s)
  PROVE  ~Protocol(SubSeq(s, 1, n))
<1>1. Len(s) \in Nat /\ Len(Marker) \in Nat /\ Reserved \in Nat \ {0}
  BY LenProperties, Typing DEF Told
<1>2. /\ SubSeq(s, 1, n) \in Told /\ Len(SubSeq(s, 1, n)) = n
      /\ \A i \in 1 .. n : SubSeq(s, 1, n)[i] = s[i]
  <2>1. 1 \in Nat \ {0} /\ (IF 1 <= n THEN n - 1 + 1 ELSE 0) = n /\ n - 1 + 1 = n
    BY <1>1
  <2>2. \A i \in 1 .. n : 1 + i - 1 = i
    OBVIOUS
  <2> QED
    BY <2>1, <2>2, Part
<1> SUFFICES ASSUME Protocol(SubSeq(s, 1, n)) PROVE FALSE
  OBVIOUS
<1>3. PICK i \in 1 .. n, m \in Reserved .. Len(Marker) : i + m - 1 <= n /\ Tells(SubSeq(s, 1, n), i, m)
  BY <1>2, ProtocolIs
<1>4. Tells(s, i, m)
  <2> SUFFICES ASSUME NEW j \in 1 .. m PROVE s[i + j - 1] = Marker[j]
    BY DEF Tells
  <2>1. i + j - 1 \in 1 .. n
    BY <1>1, <1>3
  <2> QED
    BY <1>2, <1>3, <2>1 DEF Tells
<1>5. i \in 1 .. Len(s) /\ i + m - 1 <= Len(s)
  BY <1>1, <1>3
<1> QED
  BY <1>4, <1>5, ProtocolIs

-----------------------------------------------------------------------------
(* The invariant of a call.                                                *)

Form == [kind : CallKinds \cup {"none"}, pc : {"idle", "asking", "reading"} \cup Ended,
         attempt : Nat, option : BOOLEAN, begun : Nat, gate : Nat,
         text : Told, pending : Told, shown : Told,
         emitting : BOOLEAN, suppressed : BOOLEAN, discard : BOOLEAN, rows : Seq({"succeeded", "failed"})]

\* A text that begins with another.
Opens(part, whole) == Len(part) <= Len(whole) /\ SubSeq(whole, 1, Len(part)) = part

\* The gate of an answer under way: nothing is emitted before it opens; from then on
\* the text is what was shown and what is withheld, without the marker, and what could
\* grow into the marker is withheld; a suppressed answer shows no more of its text.
Gate(c) ==
  /\ ~Protocol(c.shown)
  /\ c.pc \in {"asking", "reading", "gone", "failed"} => ~c.discard /\ Opens(c.shown, c.text)
  /\ c.pc \in {"asking", "reading"} /\ ~c.suppressed /\ ~c.emitting => c.shown = <<>> /\ c.pending = c.text
  /\ c.pc \in {"asking", "reading"} /\ ~c.suppressed /\ c.emitting =>
       /\ c.text = c.shown \o c.pending /\ ~Protocol(c.text)
       /\ \A n \in Nat : Grows(c.text, n) => n <= Len(c.pending)

\* An attempt begins with nothing received, so that no attempt after it tells a text
\* again; the usage option is in the request for as long as it may be taken out.
Fresh(c) ==
  /\ c.begun = 0 /\ (c.pc = "asking" => c.text = <<>>)
  /\ c.attempt <= MaxAttempts + 1
  /\ c.option => c.attempt <= MaxAttempts /\ c.kind \in {"answer", "stream", "probe"}

CallInv ==
  /\ call \in Form /\ (call.pc = "idle" => call = NoCall)
  /\ Fresh(call) /\ RetriesAreSafe
  /\ call.kind = "answer" => Gate(call)
  /\ ShownIsSaved

\* The empty text.
LEMMA NothingTold ==
  /\ <<>> \in Told /\ Len(<<>>) = 0 /\ ~Protocol(<<>>) /\ Opens(<<>>, <<>>)
  /\ \A s \in Told : Opens(<<>>, s) /\ <<>> \o s = s /\ (Len(s) = 0 => s = <<>>)
<1>1. <<>> \in Told /\ Len(<<>>) = 0
  BY EmptySeq DEF Told
<1>2. ASSUME NEW s \in Told PROVE Opens(<<>>, s) /\ <<>> \o s = s /\ (Len(s) = 0 => s = <<>>)
  <2>1. <<>> \o s = s
    BY ConcatEmptySeq DEF Told
  <2>2. Len(s) \in Nat /\ SubSeq(s, 1, 0) = <<>>
    BY LenProperties, SubSeqEmpty DEF Told
  <2>3. Len(s) = 0 => s = <<>>
    BY <1>1, EmptySeq DEF Told
  <2> QED
    BY <1>1, <2>1, <2>2, <2>3 DEF Opens
<1>3. ~Protocol(<<>>)
  BY <1>1 DEF Protocol
<1> QED
  BY <1>1, <1>2, <1>3

\* A text begins with the first of the two it is put together from.
LEMMA FirstOpens ==
  ASSUME NEW s \in Told, NEW t \in Told
  PROVE  Opens(s, s \o t)
<1>1. Len(s) \in Nat /\ Len(t) \in Nat /\ s \o t \in Told /\ Len(s \o t) = Len(s) + Len(t)
  BY LenProperties, ConcatProperties DEF Told
<1>2. CASE Len(s) = 0
  BY <1>1, <1>2, NothingTold
<1>3. CASE Len(s) # 0
  <2>1. 1 \in 1 .. Len(s) /\ Len(s) \in 1 .. Len(s)
    BY <1>1, <1>3
  <2>2. SubSeq(s \o t, 1, Len(s)) = SubSeq(s, 1, Len(s))
    BY <2>1, SubSeqOfConcat1 DEF Told
  <2>3. SubSeq(s, 1, Len(s)) = s
    BY SubSeqFull DEF Told
  <2> QED
    BY <1>1, <2>2, <2>3 DEF Opens
<1> QED
  BY <1>2, <1>3

\* A text goes on to begin with what it began with.
LEMMA StillOpens ==
  ASSUME NEW p \in Told, NEW s \in Told, NEW t \in Told, Opens(p, s)
  PROVE  Opens(p, s \o t)
<1>1. Len(p) \in Nat /\ Len(s) \in Nat /\ Len(t) \in Nat /\ Len(s \o t) = Len(s) + Len(t) /\ s \o t \in Told
  BY LenProperties, ConcatProperties DEF Told
<1>2. CASE Len(p) = 0
  BY <1>1, <1>2, NothingTold
<1>3. CASE Len(p) # 0
  <2>1. 1 \in 1 .. Len(s) /\ Len(p) \in 1 .. Len(s)
    BY <1>1, <1>3 DEF Opens
  <2>2. SubSeq(s \o t, 1, Len(p)) = SubSeq(s, 1, Len(p))
    BY <2>1, SubSeqOfConcat1 DEF Told
  <2> QED
    BY <1>1, <2>2 DEF Opens
<1> QED
  BY <1>2, <1>3

\* Three texts put together.
LEMMA Assoc ==
  ASSUME NEW s \in Told, NEW t \in Told, NEW u \in Told
  PROVE  (s \o t) \o u = s \o (t \o u) /\ s \o t \in Told
BY ConcatAssociative, ConcatProperties DEF Told

\* What a piece does to an open gate: what is emitted of it and what is withheld.
LEMMA Emitted ==
  ASSUME NEW shown \in Told, NEW pending \in Told, NEW d \in Deltas, NEW text,
         text = shown \o pending, shown = <<>> \/ ~Protocol(text),
         shown = <<>> \/ \A n \in Nat : Grows(text, n) => n <= Len(pending),
         ~Protocol(pending \o d),
         NEW rest, rest = pending \o d, NEW held, held = Held(rest)
  PROVE  LET out  == shown \o SubSeq(rest, 1, Len(rest) - held)
             left == SubSeq(rest, Len(rest) - held + 1, Len(rest))
         IN /\ out \in Told /\ left \in Told /\ text \o d = out \o left
            /\ ~Protocol(text \o d) /\ ~Protocol(out) /\ Opens(out, text \o d)
            /\ \A n \in Nat : Grows(text \o d, n) => n <= Len(left)
<1> DEFINE emitted == SubSeq(rest, 1, Len(rest) - held)
           left == SubSeq(rest, Len(rest) - held + 1, Len(rest))
           out  == shown \o emitted
<1>1. d \in Told /\ Len(d) > 0
  BY Typing
<1>2. rest \in Told /\ text \in Told /\ Len(rest) \in Nat
  BY <1>1, ConcatProperties, LenProperties DEF Told
<1>3. held \in 0 .. Len(rest) /\ \A n \in Nat : Grows(rest, n) => n <= held
  BY <1>2, HeldIs
<1>4. emitted \in Told /\ left \in Told /\ Len(left) = held
  <2>1. Len(rest) - held \in 0 .. Len(rest) /\ 1 \in Nat \ {0} /\ Len(rest) - held + 1 \in Nat \ {0}
        /\ Len(rest) \in 0 .. Len(rest)
    BY <1>2, <1>3
  <2>2. emitted \in Told
    BY <1>2, <2>1, Part
  <2>3. left \in Told /\ Len(left) = IF Len(rest) - held + 1 <= Len(rest)
                                     THEN Len(rest) - (Len(rest) - held + 1) + 1 ELSE 0
    <3> DEFINE m == Len(rest) - held + 1
               n == Len(rest)
    <3>1. m \in Nat \ {0} /\ n \in 0 .. Len(rest)
      BY <2>1
    <3> HIDE DEF m, n
    <3>2. SubSeq(rest, m, n) \in Told /\ Len(SubSeq(rest, m, n)) = IF m <= n THEN n - m + 1 ELSE 0
      BY <1>2, <3>1, Part
    <3> QED
      BY <3>2 DEF m, n
  <2> QED
    BY <1>2, <1>3, <2>2, <2>3
<1>5. emitted \o left = rest
  <2>1. 1 \in 1 .. Len(rest) + 1 /\ Len(rest) - held \in 1 - 1 .. Len(rest)
        /\ Len(rest) \in Len(rest) - held .. Len(rest)
    BY <1>2, <1>3
  <2>2. emitted \o left = SubSeq(rest, 1, Len(rest))
    BY <1>2, <2>1, ConcatAdjacentSubSeq DEF Told
  <2> QED
    BY <1>2, <2>2, SubSeqFull DEF Told
<1> HIDE DEF emitted, left
<1>6. text \o d = shown \o rest
  <2>1. (shown \o pending) \o d = shown \o (pending \o d)
    BY <1>1, Assoc
  <2> QED
    BY <2>1
<1>7. out \in Told /\ shown \o rest = out \o left
  <2>1. (shown \o emitted) \o left = shown \o (emitted \o left)
    BY <1>4, Assoc
  <2>2. shown \o emitted \in Told
    BY <1>4, ConcatProperties DEF Told
  <2> QED
    BY <1>5, <2>1, <2>2
<1>8. ~Protocol(text \o d) /\ \A n \in Nat : Grows(text \o d, n) => Grows(rest, n)
  <2>1. CASE shown = <<>>
    BY <1>2, <1>6, <2>1, NothingTold
  <2>2. CASE shown # <<>>
    <3>1. /\ ~Protocol(shown \o pending) /\ ~Protocol(pending \o d)
          /\ \A n \in Nat : Grows(shown \o pending, n) => n <= Len(pending)
      BY <2>2
    <3>2. /\ ~Protocol(shown \o (pending \o d))
          /\ \A n \in Nat : Grows(shown \o (pending \o d), n) /\ Len(d) > 0 =>
                            n <= Len(pending \o d) /\ Grows(pending \o d, n)
      BY <1>1, <3>1, NothingStraddles
    <3> QED
      BY <1>1, <1>6, <3>2
  <2> QED
    BY <2>1, <2>2
<1>9. text \o d = out \o left /\ Opens(out, text \o d)
  BY <1>4, <1>6, <1>7, FirstOpens
<1>10. text \o d \in Told
  BY <1>1, <1>2, ConcatProperties DEF Told
<1>11. ~Protocol(out)
  <2>1. Len(out) \in 0 .. Len(text \o d)
    <3>1. Len(out) \in Nat /\ Len(text \o d) \in Nat
      BY <1>7, <1>10, LenProperties DEF Told
    <3> QED
      BY <1>9, <3>1 DEF Opens
  <2>2. ~Protocol(SubSeq(text \o d, 1, Len(out)))
    BY <1>8, <1>10, <2>1, PrefixIsClean
  <2> QED
    BY <1>9, <2>2 DEF Opens
<1>12. \A n \in Nat : Grows(text \o d, n) => n <= Len(left)
  BY <1>3, <1>4, <1>8
<1> HIDE DEF out
<1>13. /\ out \in Told /\ left \in Told /\ text \o d = out \o left
       /\ ~Protocol(text \o d) /\ ~Protocol(out) /\ Opens(out, text \o d)
       /\ \A n \in Nat : Grows(text \o d, n) => n <= Len(left)
  BY <1>4, <1>7, <1>8, <1>9, <1>11, <1>12
<1> QED
  BY <1>13 DEF out, emitted, left

-----------------------------------------------------------------------------
(* The steps.                                                              *)

\* What a piece leaves alone of a call.
SameCall(c, e) ==
  /\ e.kind = c.kind /\ e.pc = c.pc /\ e.attempt = c.attempt /\ e.option = c.option
  /\ e.begun = c.begun /\ e.discard = c.discard /\ e.rows = c.rows

\* A piece that arrives: the answer's gate keeps its promise.
LEMMA PieceHolds ==
  ASSUME NEW c \in Form, NEW d \in Deltas, c.pc = "reading", c.kind = "answer" => Gate(c)
  PROVE  /\ Received(c, d) \in Form /\ SameCall(c, Received(c, d))
         /\ c.kind = "answer" => Gate(Received(c, d))
<1> DEFINE rest == c.pending \o d
           held == Held(rest)
           more == c.text \o d
           emitted == SubSeq(rest, 1, Len(rest) - held)
           left == SubSeq(rest, Len(rest) - held + 1, Len(rest))
<1>1. c.text \in Told /\ c.pending \in Told /\ c.shown \in Told /\ d \in Told
  BY Typing DEF Form
<1>2. rest \in Told /\ more \in Told /\ c.shown \o d \in Told
  BY <1>1, ConcatProperties DEF Told
<1>3. CASE c.kind # "answer"
  <2>1. Received(c, d) = [c EXCEPT !.text = more, !.shown = c.shown \o d]
    BY <1>3 DEF Received, Form
  <2> HIDE DEF more
  <2>2. Received(c, d) \in Form
    BY <1>2, <2>1 DEF Form
  <2>3. SameCall(c, Received(c, d))
    BY <2>1 DEF SameCall, Form
  <2> QED
    BY <1>3, <2>2, <2>3
<1>4. CASE c.kind = "answer" /\ c.suppressed
  <2>1. Received(c, d) = [c EXCEPT !.text = more]
    BY <1>4 DEF Received, Form
  <2>2. Opens(c.shown, more)
    BY <1>1, <1>4, StillOpens DEF Gate
  <2> HIDE DEF more
  <2>3. Received(c, d) \in Form
    BY <1>2, <2>1 DEF Form
  <2>4. SameCall(c, Received(c, d))
    BY <2>1 DEF SameCall, Form
  <2>5. Gate(Received(c, d))
    BY <1>4, <2>1, <2>2 DEF Gate, Form
  <2> QED
    BY <2>3, <2>4, <2>5
<1>5. CASE c.kind = "answer" /\ ~c.suppressed
  <2>0. /\ c.text = c.shown \o c.pending /\ ~Protocol(c.shown) /\ ~c.discard /\ Opens(c.shown, c.text)
        /\ c.shown = <<>> \/ ~Protocol(c.text)
        /\ c.shown = <<>> \/ \A n \in Nat : Grows(c.text, n) => n <= Len(c.pending)
    BY <1>1, <1>5, NothingTold DEF Gate, Form
  <2>00. Opens(c.shown, more)
    BY <1>1, <2>0, StillOpens
  <2>1. CASE ~(c.emitting \/ Len(rest) >= c.gate)
    <3>1. Received(c, d) = [c EXCEPT !.text = more, !.pending = rest]
      BY <1>5, <2>1 DEF Received, Form
    <3>2. c.shown = <<>> /\ more = rest
      BY <1>5, <2>1 DEF Gate, Form
    <3> HIDE DEF more, rest
    <3>3. Received(c, d) \in Form
      BY <1>2, <3>1 DEF Form
    <3>4. SameCall(c, Received(c, d))
      BY <3>1 DEF SameCall, Form
    <3>5. Gate(Received(c, d))
      BY <1>5, <2>0, <2>00, <2>1, <3>1, <3>2 DEF Gate, Form
    <3> QED
      BY <3>3, <3>4, <3>5
  <2>2. CASE (c.emitting \/ Len(rest) >= c.gate) /\ Protocol(rest)
    <3>1. Received(c, d) = [c EXCEPT !.text = more, !.emitting = TRUE, !.suppressed = TRUE, !.pending = <<>>]
      BY <1>5, <2>2 DEF Received, Form
    <3> HIDE DEF more, rest
    <3>3. Received(c, d) \in Form
      BY <1>2, <3>1, NothingTold DEF Form
    <3>4. SameCall(c, Received(c, d))
      BY <3>1 DEF SameCall, Form
    <3>5. Gate(Received(c, d))
      BY <1>5, <2>0, <2>00, <3>1 DEF Gate, Form
    <3> QED
      BY <3>3, <3>4, <3>5
  <2>3. CASE (c.emitting \/ Len(rest) >= c.gate) /\ ~Protocol(rest)
    <3>1. Received(c, d) = [c EXCEPT !.text = more, !.emitting = TRUE, !.shown = c.shown \o emitted,
                                     !.pending = left]
      BY <1>5, <2>3 DEF Received, Form
    <3>2. /\ c.shown \o emitted \in Told /\ left \in Told /\ more = (c.shown \o emitted) \o left
          /\ ~Protocol(more) /\ ~Protocol(c.shown \o emitted) /\ Opens(c.shown \o emitted, more)
          /\ \A n \in Nat : Grows(more, n) => n <= Len(left)
      BY <1>1, <2>0, <2>3, Emitted
    <3> DEFINE out == c.shown \o emitted
    <3>0. out = c.shown \o emitted
      OBVIOUS
    <3> HIDE DEF more, rest, left, out, emitted
    <3>3. Received(c, d) \in Form
      BY <1>2, <3>0, <3>1, <3>2 DEF Form
    <3>4. SameCall(c, Received(c, d))
      BY <3>1 DEF SameCall, Form
    <3>5. Gate(Received(c, d))
      BY <1>5, <2>0, <3>0, <3>1, <3>2 DEF Gate, Form
    <3> QED
      BY <3>3, <3>4, <3>5
  <2> QED
    BY <2>1, <2>2, <2>3
<1> QED
  BY <1>3, <1>4, <1>5 DEF Form

\* The end of an answer that went through the gate.
LEMMA CloseHolds ==
  ASSUME NEW c \in Form, c.kind = "answer", c.pc = "reading", Gate(c)
  PROVE  LET e == Closed(c)
         IN /\ e \in Form /\ SameCall([c EXCEPT !.discard = e.discard], e) /\ e.text = c.text
            /\ ~Protocol(e.shown)
            /\ IF Protocol(e.text) THEN e.shown # <<>> => e.discard
               ELSE e.shown = e.text /\ ~e.discard
<1> DEFINE rest == SubSeq(c.text, Len(c.shown) + 1, Len(c.text))
<1>1. c.text \in Told /\ c.shown \in Told /\ Len(c.text) \in Nat /\ Len(c.shown) \in Nat
  BY LenProperties DEF Form, Told
<1>2. Len(c.shown) <= Len(c.text) /\ SubSeq(c.text, 1, Len(c.shown)) = c.shown /\ ~c.discard /\ ~Protocol(c.shown)
  BY DEF Gate, Opens
<1>3. c.shown \o rest = c.text
  <2>1. 1 \in 1 .. Len(c.text) + 1 /\ Len(c.shown) \in 1 - 1 .. Len(c.text)
        /\ Len(c.text) \in Len(c.shown) .. Len(c.text)
    BY <1>1, <1>2
  <2>2. SubSeq(c.text, 1, Len(c.shown)) \o rest = SubSeq(c.text, 1, Len(c.text))
    BY <1>1, <2>1, ConcatAdjacentSubSeq DEF Told
  <2> QED
    BY <1>1, <1>2, <2>2, SubSeqFull DEF Told
<1>4. CASE Protocol(c.text)
  <2> DEFINE b == c.shown # <<>>
  <2>1. Closed(c) = [c EXCEPT !.discard = b]
    BY <1>4 DEF Closed
  <2>2. b \in BOOLEAN
    OBVIOUS
  <2>3. b <=> c.shown # <<>>
    OBVIOUS
  <2> HIDE DEF b
  <2>4. Closed(c) \in Form /\ Closed(c).discard = b /\ Closed(c).shown = c.shown /\ Closed(c).text = c.text
    BY <2>1, <2>2 DEF Form
  <2>5. SameCall([c EXCEPT !.discard = Closed(c).discard], Closed(c))
    BY <2>1, <2>4 DEF SameCall, Form
  <2> QED
    BY <1>2, <1>4, <2>3, <2>4, <2>5
<1>5. CASE ~Protocol(c.text)
  <2>1. Closed(c) = [c EXCEPT !.shown = c.text]
    BY <1>3, <1>5 DEF Closed, Form
  <2>2. Closed(c) \in Form /\ Closed(c).discard = c.discard /\ Closed(c).shown = c.text /\ Closed(c).text = c.text
    BY <1>1, <2>1 DEF Form
  <2>3. SameCall([c EXCEPT !.discard = Closed(c).discard], Closed(c))
    BY <2>1, <2>2 DEF SameCall, Form
  <2> QED
    BY <1>2, <1>5, <2>2, <2>3
<1> QED
  BY <1>4, <1>5

-----------------------------------------------------------------------------
(* The invariant is kept.                                                  *)

Asking == call.pc \in {"asking", "reading"}

\* Another attempt, of a call that has received nothing.
LEMMA RetryHolds ==
  ASSUME CallInv, Asking, Len(call.text) = 0, NEW b \in BOOLEAN,
         IF b THEN call.option /\ call' = [Retries EXCEPT !.option = FALSE]
         ELSE call.attempt < MaxAttempts /\ call' = Retries
  PROVE  CallInv'
<1> DEFINE e == call'
<1>1. call \in Form /\ Fresh(call) /\ call.text = <<>> /\ call.rows = <<>> /\ MaxAttempts \in Nat
  BY NothingTold, CallsAssumption DEF CallInv, Asking, RetriesAreSafe, OneUsageRow, Form
<1> PICK o \in BOOLEAN : o = IF b THEN FALSE ELSE call.option
  BY <1>1 DEF Form
<1> PICK a \in Nat : a = call.attempt + 1
  BY <1>1 DEF Form
<1>2. Retries = [call EXCEPT !.pc = "asking", !.attempt = a, !.begun = 0]
  <2>1. Len(call.text) = 0
    OBVIOUS
  <2> QED
    BY <2>1 DEF Retries
<1>5. /\ e \in Form
      /\ e.pc = "asking" /\ e.attempt = call.attempt + 1 /\ e.begun = 0 /\ e.option = o
      /\ e.kind = call.kind /\ e.text = call.text /\ e.pending = call.pending /\ e.shown = call.shown
      /\ e.emitting = call.emitting /\ e.suppressed = call.suppressed /\ e.discard = call.discard
      /\ e.rows = call.rows
  <2>1. CASE b
    <3>1. e = [call EXCEPT !.pc = "asking", !.attempt = a, !.begun = 0, !.option = FALSE]
      BY <1>1, <1>2, <2>1 DEF Form
    <3> QED
      BY <1>1, <2>1, <3>1 DEF Form
  <2>2. CASE ~b
    <3>1. e = [call EXCEPT !.pc = "asking", !.attempt = a, !.begun = 0]
      BY <1>2, <2>2
    <3> QED
      BY <1>1, <2>2, <3>1 DEF Form
  <2> QED
    BY <2>1, <2>2
<1>4. e \in Form
  BY <1>5
<1> HIDE DEF e
<1>6. Fresh(e)
  BY <1>1, <1>4, <1>5 DEF Fresh, Form
<1>7. call.kind = "answer" => Gate(e)
  BY <1>1, <1>5 DEF Gate, CallInv, Asking
<1>8. RetriesAreSafe'
  <2>1. NoSecondTelling'
    BY <1>5 DEF NoSecondTelling, e
  <2>2. AttemptsBounded'
    BY <1>1, <1>5 DEF AttemptsBounded, Streamed, Fresh, Form, e
  <2>3. OneUsageRow'
    BY <1>1, <1>5 DEF OneUsageRow, e
  <2> QED
    BY <2>1, <2>2, <2>3 DEF RetriesAreSafe
<1>9. ShownIsSaved'
  BY <1>5 DEF ShownIsSaved, e
<1> QED
  BY <1>4, <1>5, <1>6, <1>7, <1>8, <1>9 DEF CallInv, e

\* A call that fails, or that succeeds without having been an answer.
LEMMA EndHolds ==
  ASSUME CallInv, Asking, NEW pc \in {"done", "failed"}, NEW status \in {"succeeded", "failed"},
         call' = [call EXCEPT !.pc = pc, !.rows = Append(@, status)],
         pc = "done" => status = "succeeded" /\ call.kind # "answer",
         pc = "failed" => status = "failed" \/ call.kind = "embed"
  PROVE  CallInv'
<1> DEFINE e == call'
<1>1. call \in Form /\ Fresh(call) /\ call.rows = <<>>
  BY DEF CallInv, Asking, RetriesAreSafe, OneUsageRow, Form
<1>2. Append(call.rows, status) = <<status>> /\ <<status>> \in Seq({"succeeded", "failed"})
  BY <1>1
<1>3. e = [call EXCEPT !.pc = pc, !.rows = <<status>>]
  BY <1>1, <1>2 DEF Form
<1>4. e \in Form
  BY <1>1, <1>2, <1>3 DEF Form, Ended
<1>5. /\ e.pc = pc /\ e.attempt = call.attempt /\ e.begun = call.begun /\ e.option = call.option
      /\ e.kind = call.kind /\ e.text = call.text /\ e.pending = call.pending /\ e.shown = call.shown
      /\ e.emitting = call.emitting /\ e.suppressed = call.suppressed /\ e.discard = call.discard
      /\ e.rows = <<status>>
  BY <1>1, <1>3 DEF Form
<1> HIDE DEF e
<1>6. Fresh(e)
  BY <1>1, <1>4, <1>5 DEF Fresh
<1>7. call.kind = "answer" => Gate(e)
  BY <1>1, <1>5 DEF Gate, CallInv, Asking
<1>8. RetriesAreSafe'
  <2>1. NoSecondTelling'
    BY <1>1, <1>5 DEF NoSecondTelling, Fresh, e
  <2>2. AttemptsBounded'
    BY <1>1, <1>5 DEF AttemptsBounded, Streamed, RetriesAreSafe, CallInv, e
  <2>3. OneUsageRow'
    BY <1>1, <1>5 DEF OneUsageRow, e
  <2> QED
    BY <2>1, <2>2, <2>3 DEF RetriesAreSafe
<1>9. ShownIsSaved'
  BY <1>5 DEF ShownIsSaved, e
<1> QED
  BY <1>4, <1>5, <1>6, <1>7, <1>8, <1>9 DEF CallInv, e

\* A step of a call that is still read, or is given up, without a row.
LEMMA ReadHolds ==
  ASSUME CallInv, NEW c \in Form, call' = c, Asking, c.pc \in {"reading", "gone"},
         c.attempt = call.attempt, c.begun = call.begun, c.option = call.option, c.kind = call.kind,
         c.rows = call.rows, c.kind = "answer" => Gate(c)
  PROVE  CallInv'
<1>1. call \in Form /\ Fresh(call) /\ call.rows = <<>>
  BY DEF CallInv, Asking, RetriesAreSafe, OneUsageRow, Form
<1>2. Fresh(c)
  BY <1>1 DEF Fresh
<1>3. RetriesAreSafe'
  <2>1. NoSecondTelling'
    BY <1>1 DEF NoSecondTelling, Fresh
  <2>2. AttemptsBounded'
    BY <1>1 DEF AttemptsBounded, Streamed, RetriesAreSafe, CallInv
  <2>3. OneUsageRow'
    BY <1>1 DEF OneUsageRow
  <2> QED
    BY <2>1, <2>2, <2>3 DEF RetriesAreSafe
<1>4. ShownIsSaved'
  BY DEF ShownIsSaved
<1> QED
  BY <1>2, <1>3, <1>4 DEF CallInv

LEMMA OpenHolds ==
  ASSUME NEW kind \in CallKinds, Open(kind)
  PROVE  CallInv'
<1>1. PICK gate \in Gates :
        call' = [NoCall EXCEPT !.kind = kind, !.pc = "asking", !.attempt = 1, !.gate = gate,
                               !.option = kind \notin {"post", "embed"},
                               !.suppressed = kind = "answer" /\ gate = 0]
  BY DEF Open
<1> DEFINE e == call'
<1>2. PICK o \in BOOLEAN : o = (kind \notin {"post", "embed"})
  OBVIOUS
<1>3. PICK u \in BOOLEAN : u = (kind = "answer" /\ gate = 0)
  OBVIOUS
<1>4. e = [NoCall EXCEPT !.kind = kind, !.pc = "asking", !.attempt = 1, !.gate = gate, !.option = o,
                         !.suppressed = u]
  BY <1>1, <1>2, <1>3
<1>5. e = [kind |-> kind, pc |-> "asking", attempt |-> 1, option |-> o, begun |-> 0, gate |-> gate,
           text |-> <<>>, pending |-> <<>>, shown |-> <<>>, emitting |-> FALSE,
           suppressed |-> u, discard |-> FALSE, rows |-> <<>>]
  BY <1>4 DEF NoCall
<1>6. gate \in Nat /\ MaxAttempts \in Nat \ {0}
  BY CallsAssumption
<1>7. e \in Form
  BY <1>5, <1>6, NothingTold DEF Form
<1> HIDE DEF e
<1>8. Fresh(e) /\ Gate(e)
  <2>1. /\ e.pc = "asking" /\ e.kind = kind /\ e.attempt = 1 /\ e.option = o /\ e.begun = 0 /\ e.text = <<>>
        /\ e.pending = <<>> /\ e.shown = <<>> /\ ~e.emitting /\ ~e.discard
    BY <1>5
  <2>2. Fresh(e)
    <3>1. e.attempt <= MaxAttempts /\ e.attempt <= MaxAttempts + 1
      BY <1>6, <2>1
    <3>2. o => kind \in {"answer", "stream", "probe"}
      BY <1>2 DEF CallKinds
    <3> QED
      BY <2>1, <3>1, <3>2 DEF Fresh
  <2>3. Gate(e)
    BY <2>1, NothingTold DEF Gate
  <2> QED
    BY <2>2, <2>3
<1>9. RetriesAreSafe'
  <2>1. NoSecondTelling' /\ AttemptsBounded'
    BY <1>5, <1>6 DEF NoSecondTelling, AttemptsBounded, e
  <2>2. OneUsageRow'
    BY <1>5 DEF OneUsageRow, e
  <2> QED
    BY <2>1, <2>2 DEF RetriesAreSafe
<1>10. ShownIsSaved' /\ e.pc = "asking"
  BY <1>5 DEF ShownIsSaved, e
<1> QED
  BY <1>7, <1>8, <1>9, <1>10 DEF CallInv, e

LEMMA AttemptHolds ==
  ASSUME CallInv, Attempt
  PROVE  CallInv'
<1>0. call \in Form /\ (call.kind = "answer" => Gate(call)) /\ Fresh(call)
  BY DEF CallInv
<1>1. call.pc = "asking" => Len(call.text) = 0
  BY <1>0, NothingTold DEF Fresh
<1>2. CASE Accepted
  <2> PICK c : c = [call EXCEPT !.pc = "reading"]
    OBVIOUS
  <2>1. call.pc = "asking" /\ call' = c
    BY <1>2 DEF Accepted
  <2>2. c \in Form
    BY <1>0 DEF Form
  <2>3. /\ c.pc = "reading" /\ c.attempt = call.attempt /\ c.begun = call.begun /\ c.option = call.option
        /\ c.kind = call.kind /\ c.rows = call.rows
        /\ c.text = call.text /\ c.pending = call.pending /\ c.shown = call.shown
        /\ c.emitting = call.emitting /\ c.suppressed = call.suppressed /\ c.discard = call.discard
    BY <1>0 DEF Form
  <2>4. c.kind = "answer" => Gate(c)
    BY <1>0, <2>1, <2>3 DEF Gate
  <2> QED
    BY <2>1, <2>2, <2>3, <2>4, ReadHolds DEF Asking
<1>3. CASE OptionRefused
  BY <1>1, <1>3, RetryHolds DEF OptionRefused, Asking
<1>4. CASE Busy
  <2>1. CASE call.attempt < MaxAttempts
    BY <1>1, <1>4, <2>1, RetryHolds DEF Busy, Asking
  <2>2. CASE ~(call.attempt < MaxAttempts)
    BY <1>4, <2>2, EndHolds DEF Busy, Ends, Asking
  <2> QED
    BY <2>1, <2>2
<1>5. CASE Refused
  BY <1>5, EndHolds DEF Refused, Ends, Asking
<1>6. CASE Dropped
  <2>1. CASE Len(call.text) = call.begun /\ call.attempt < MaxAttempts
    BY <1>0, <1>6, <2>1, RetryHolds DEF Dropped, Asking, Fresh
  <2>2. CASE ~(Len(call.text) = call.begun /\ call.attempt < MaxAttempts)
    BY <1>6, <2>2, EndHolds DEF Dropped, Ends, Asking
  <2> QED
    BY <2>1, <2>2
<1>7. CASE Malformed
  BY <1>7, EndHolds DEF Malformed, Ends, Asking
<1>8. CASE ProbeFails
  BY <1>8, EndHolds DEF ProbeFails, Ends, Asking
<1>9. CASE ProbeDone
  BY <1>9, EndHolds DEF ProbeDone, Ends, Asking
<1>10. CASE PostDone
  BY <1>10, EndHolds DEF PostDone, Ends, Asking
<1>11. CASE EmptyContent
  BY <1>11, EndHolds DEF EmptyContent, Ends, Asking
<1>12. CASE EmbedDone
  <2>1. PICK pc \in {"done", "failed"} : call' = [Ends(call, "succeeded") EXCEPT !.pc = pc]
    BY <1>12 DEF EmbedDone
  <2>2. call' = [call EXCEPT !.pc = pc, !.rows = Append(@, "succeeded")]
    BY <1>0, <2>1 DEF Ends, Form
  <2> QED
    BY <1>12, <2>2, EndHolds DEF EmbedDone, Asking
<1>13. CASE Abandon
  <2> PICK c : c = [call EXCEPT !.pc = "gone"]
    OBVIOUS
  <2>1. Asking /\ call' = c
    BY <1>13 DEF Abandon, Asking
  <2>2. c \in Form
    BY <1>0 DEF Form, Ended
  <2>3. /\ c.pc = "gone" /\ c.attempt = call.attempt /\ c.begun = call.begun /\ c.option = call.option
        /\ c.kind = call.kind /\ c.rows = call.rows
        /\ c.text = call.text /\ c.pending = call.pending /\ c.shown = call.shown
        /\ c.emitting = call.emitting /\ c.suppressed = call.suppressed /\ c.discard = call.discard
    BY <1>0 DEF Form
  <2>4. c.kind = "answer" => Gate(c)
    BY <1>0, <2>1, <2>3 DEF Gate, Asking
  <2> QED
    BY <2>1, <2>2, <2>3, <2>4, ReadHolds
<1>14. ASSUME NEW d \in Deltas, Delta(d) PROVE CallInv'
  <2>1. call.pc = "reading"
    BY <1>14 DEF Delta
  <2>2. CASE call.kind = "answer" /\ Len(call.text \o d) > MaxBuffer
    <3> PICK c : c = [call EXCEPT !.pc = "gone"]
      OBVIOUS
    <3>1. Asking /\ call' = c
      BY <1>14, <2>2 DEF Delta, Asking
    <3>2. c \in Form
      BY <1>0 DEF Form, Ended
    <3>3. /\ c.pc = "gone" /\ c.attempt = call.attempt /\ c.begun = call.begun /\ c.option = call.option
          /\ c.kind = call.kind /\ c.rows = call.rows
          /\ c.text = call.text /\ c.pending = call.pending /\ c.shown = call.shown
          /\ c.emitting = call.emitting /\ c.suppressed = call.suppressed /\ c.discard = call.discard
      BY <1>0 DEF Form
    <3>4. c.kind = "answer" => Gate(c)
      BY <1>0, <2>1, <3>3 DEF Gate
    <3> QED
      BY <3>1, <3>2, <3>3, <3>4, ReadHolds
  <2>3. CASE ~(call.kind = "answer" /\ Len(call.text \o d) > MaxBuffer)
    <3>1. call' = Received(call, d)
      BY <1>14, <2>3 DEF Delta
    <3>2. /\ Received(call, d) \in Form /\ SameCall(call, Received(call, d))
          /\ call.kind = "answer" => Gate(Received(call, d))
      BY <1>0, <2>1, PieceHolds
    <3> QED
      BY <2>1, <3>1, <3>2, ReadHolds DEF SameCall, Asking
  <2> QED
    BY <2>2, <2>3
<1>15. CASE StreamDone
  <2> PICK c : c = Closed(call)
    OBVIOUS
  <2>0. call.pc = "reading" /\ call' = Ends(c, "succeeded")
    BY <1>15 DEF StreamDone
  <2>1. CASE call.kind # "answer"
    <3>1. c = call
      BY <2>1 DEF Closed
    <3> QED
      BY <2>0, <2>1, <3>1, EndHolds DEF Ends, Asking
  <2>2. CASE call.kind = "answer"
    <3>1. /\ c \in Form /\ SameCall([call EXCEPT !.discard = c.discard], c) /\ c.text = call.text
          /\ ~Protocol(c.shown)
          /\ IF Protocol(c.text) THEN c.shown # <<>> => c.discard ELSE c.shown = c.text /\ ~c.discard
      BY <1>0, <2>0, <2>2, CloseHolds
    <3>2. c.rows = <<>> /\ c.attempt = call.attempt /\ c.begun = 0 /\ c.option = call.option /\ c.kind = "answer"
      BY <1>0, <2>0, <2>2, <3>1 DEF SameCall, Form, CallInv, RetriesAreSafe, OneUsageRow, Fresh
    <3>3. Append(c.rows, "succeeded") = <<"succeeded">> /\ <<"succeeded">> \in Seq({"succeeded", "failed"})
      BY <3>2
    <3>4. call' = [c EXCEPT !.pc = "done", !.rows = <<"succeeded">>]
      BY <2>0, <3>1, <3>3 DEF Ends, Form
    <3> DEFINE e == call'
    <3>5. e \in Form
      BY <3>1, <3>3, <3>4 DEF Form, Ended
    <3>6. /\ e.pc = "done" /\ e.rows = <<"succeeded">> /\ e.attempt = call.attempt /\ e.begun = 0
          /\ e.option = call.option /\ e.kind = "answer" /\ e.text = c.text /\ e.shown = c.shown
          /\ e.discard = c.discard
      BY <3>1, <3>2, <3>4 DEF Form
    <3> HIDE DEF e
    <3>7. Fresh(e) /\ Gate(e)
      BY <1>0, <2>2, <3>1, <3>6 DEF Fresh, Gate
    <3>8. ShownIsSaved'
      BY <3>1, <3>6 DEF ShownIsSaved, e
    <3>9. RetriesAreSafe'
      <4>1. NoSecondTelling'
        BY <3>6 DEF NoSecondTelling, e
      <4>2. AttemptsBounded'
        BY <2>2, <3>6 DEF AttemptsBounded, Streamed, RetriesAreSafe, CallInv, e
      <4>3. OneUsageRow'
        BY <3>6 DEF OneUsageRow, e
      <4> QED
        BY <4>1, <4>2, <4>3 DEF RetriesAreSafe
    <3> QED
      BY <3>5, <3>6, <3>7, <3>8, <3>9 DEF CallInv, e
  <2> QED
    BY <2>1, <2>2
<1> QED
  BY <1>2, <1>3, <1>4, <1>5, <1>6, <1>7, <1>8, <1>9, <1>10, <1>11, <1>12, <1>13, <1>14, <1>15 DEF Attempt

\* A call that has not begun.
LEMMA InitHolds == Init => CallInv
<1> SUFFICES ASSUME call = NoCall PROVE CallInv
  BY DEF Init
<1>1. call = [kind |-> "none", pc |-> "idle", attempt |-> 0, option |-> FALSE, begun |-> 0, gate |-> 0,
              text |-> <<>>, pending |-> <<>>, shown |-> <<>>, emitting |-> FALSE,
              suppressed |-> FALSE, discard |-> FALSE, rows |-> <<>>]
  BY DEF NoCall
<1>2. call \in Form
  BY <1>1, NothingTold DEF Form
<1>3. Fresh(call)
  BY <1>1, CallsAssumption DEF Fresh
<1>4. RetriesAreSafe
  <2>1. call.pc = "idle" /\ call.attempt = 0 /\ call.rows = <<>> /\ MaxAttempts \in Nat
    BY <1>1, CallsAssumption
  <2>2. NoSecondTelling
    BY <2>1 DEF NoSecondTelling
  <2>3. AttemptsBounded
    BY <2>1 DEF AttemptsBounded
  <2>4. OneUsageRow
    BY <2>1 DEF OneUsageRow
  <2> QED
    BY <2>2, <2>3, <2>4 DEF RetriesAreSafe
<1> QED
  BY <1>1, <1>2, <1>3, <1>4 DEF CallInv, ShownIsSaved

\* Every step of a call, a retry, a streamed delta, a failure, the usage row or
\* the end, keeps what is known of the call (llm.py, the client's methods).
THEOREM CallKept == Spec => []CallInv
<1>1. CallInv /\ [Next]_vars => CallInv'
  <2> SUFFICES ASSUME CallInv, [Next]_vars PROVE CallInv'
    OBVIOUS
  <2>1. CASE UNCHANGED call
    BY <2>1 DEF CallInv, RetriesAreSafe, NoSecondTelling, AttemptsBounded, OneUsageRow, Streamed, ShownIsSaved
  <2>2. CASE Begin
    BY <2>2, OpenHolds DEF Begin
  <2>3. CASE Attempt
    BY <2>3, AttemptHolds
  <2> QED
    BY <2>1, <2>2, <2>3 DEF Next, Change, vars
<1> QED
  BY <1>1, InitHolds, PTL DEF Spec

\* The reserved marker never reaches the reader of an answer, nor enough of it to be
\* recognised, however the endpoint cuts its text and whatever the gate is; and what the
\* reader has at the end is the text that is saved, or the page is told to take it back
\* (app/llm.py generate_answer_stream).
THEOREM MarkerNeverSeen == Spec => []GateHolds
<1>1. CallInv => GateHolds
  BY DEF CallInv, GateHolds, MarkerHidden, Gate
<1> QED
  BY <1>1, CallKept, PTL

\* Of any number of attempts, at most one has told the reader anything; the attempts end;
\* and a call that ends leaves the one usage row of its outcome (app/llm.py
\* chat_completion_stream, _post_json_with_retry).
THEOREM OneCallOneRow == Spec => []RetriesAreSafe
<1>1. CallInv => RetriesAreSafe
  BY DEF CallInv
<1> QED
  BY <1>1, CallKept, PTL

-----------------------------------------------------------------------------
(* Tests and saves: what a stored measurement says is true of the model or *)
(* the embedder whose print it bears, whoever stored it and whatever was   *)
(* saved in between.                                                       *)

Carries(field, e) == [temperature |-> FALSE, field |-> field, effort |-> e, shape |-> ""]

\* A result of a test of a chat model.
ChatTrue(r) ==
  /\ r \in ChatResult /\ r.shape = "" /\ r.bound = ""
  /\ r.temperature # "failed" => r.field = "max_tokens" /\ r.efforts = {}
  /\ r.temperature = "succeeded" => Takes(r.print.model, Plain)
  /\ r.temperature = "failed" =>
       /\ ~Takes(r.print.model, Plain) /\ Takes(r.print.model, Carries(r.field, None))
       /\ \A e \in r.efforts : Takes(r.print.model, Carries(r.field, e))

\* A result of a test of an embedder.
EmbeddingTrue(r) == r \in EmbeddingResult /\ (r.window > 0 => r.window <= Window[r.print.embedder])

ResultTrue(kind, r) == IF kind = "chat" THEN ChatTrue(r) ELSE EmbeddingTrue(r)

ProbesTrue(p) ==
  p \in Probes /\ (p.chat = None \/ ChatTrue(p.chat)) /\ (p.embedding = None \/ EmbeddingTrue(p.embedding))

EffortWorks(s) == s \in Row /\ (s.mode = "fixed" => s.effort \in Endpoint[s.model].efforts)

HandlerTrue(h) ==
  /\ h.pc = "probing" => h.form \in Row
  /\ h.pc \in {"merge", "store"} => ResultTrue(h.kind, h.result)
  /\ h.pc = "store" => ProbesTrue(h.read)
  /\ h.pc \in {"width", "write"} => EffortWorks(h.form)

SettingsInv ==
  /\ EffortWorks(row) /\ ProbesTrue(probes)
  /\ admin \in [Admins -> Admin] /\ \A a \in Admins : HandlerTrue(admin[a])

\* What is kept of a test.
LEMMA CompactIs ==
  ASSUME NEW p, NEW t, NEW f, NEW e, NEW s, NEW w, NEW b
  PROVE  Compact([print |-> p, temperature |-> t, field |-> f, efforts |-> e, shape |-> s, window |-> w,
                  bound |-> b])
           \in [print : {p}, temperature : {t}, field : {f}, efforts : {e}, shape : {""}, window : {0},
                bound : {""}]
BY DEF Compact

\* What a test of a chat model finds.
LEMMA ChatProbeTrue ==
  ASSUME NEW s \in Row, NEW lost
  PROVE  ChatTrue(ChatProbe(s, lost))
<1> DEFINE new == "max_completion_tokens"
           found(st, field, efforts) == [temperature |-> st, field |-> field, efforts |-> efforts]
<1> DEFINE Good(f) ==
      /\ f.temperature \in {"succeeded", "failed", "not_tested"} /\ f.efforts \in SUBSET Efforts
      /\ f.field \in {"max_tokens", "max_completion_tokens"}
      /\ f.temperature # "failed" => f.field = "max_tokens" /\ f.efforts = {}
      /\ f.temperature = "succeeded" => Takes(s.model, Plain)
      /\ f.temperature = "failed" =>
           /\ ~Takes(s.model, Plain) /\ Takes(s.model, Carries(f.field, None))
           /\ \A e \in f.efforts : Takes(s.model, Carries(f.field, e))
<1>1. ASSUME NEW field PROVE Takes(s.model, Bare(field)) <=> Takes(s.model, Carries(field, None))
  BY DEF Bare, Plain, Carries, Takes
<1>2. ASSUME NEW field
      PROVE  /\ Measured(s, lost, field) \in SUBSET Efforts
             /\ \A e \in Measured(s, lost, field) : Takes(s.model, Carries(field, e))
  <2>1. s.effort \in Efforts /\ Semantic \subseteq Efforts
    BY SettingsAssumption DEF Row
  <2>2. \A e : Takes(s.model, [Bare(field) EXCEPT !.effort = e]) <=> Takes(s.model, Carries(field, e))
    BY DEF Bare, Plain, Carries, Takes
  <2> QED
    BY <2>1, <2>2 DEF Measured, Tries
<1>3. Good(Sampling(s, lost))
  <2>1. CASE Tries(s, lost, "both", Plain)
    <3>1. Sampling(s, lost) = found("succeeded", "max_tokens", {})
      BY <2>1 DEF Sampling
    <3> QED
      BY <2>1, <3>1 DEF Tries
  <2>2. CASE ~Tries(s, lost, "both", Plain) /\ "both" \in lost
    <3>1. Sampling(s, lost) = found("not_tested", "max_tokens", {})
      BY <2>2 DEF Sampling
    <3> QED
      BY <3>1
  <2>3. CASE ~Tries(s, lost, "both", Plain) /\ "both" \notin lost
    <3>0. ~Takes(s.model, Plain)
      BY <2>3 DEF Tries
    <3>1. CASE Tries(s, lost, "new", Bare(new))
      <4>1. Sampling(s, lost) = found("failed", new, Measured(s, lost, new))
        BY <2>3, <3>1 DEF Sampling
      <4>2. Takes(s.model, Carries(new, None))
        BY <1>1, <3>1 DEF Tries
      <4> QED
        BY <1>2, <3>0, <4>1, <4>2
    <3>2. CASE ~Tries(s, lost, "new", Bare(new)) /\ Tries(s, lost, "old", Bare("max_tokens"))
      <4>1. Sampling(s, lost) = found("failed", "max_tokens", Measured(s, lost, "max_tokens"))
        BY <2>3, <3>2 DEF Sampling
      <4>2. Takes(s.model, Carries("max_tokens", None))
        BY <1>1, <3>2 DEF Tries
      <4> QED
        BY <1>2, <3>0, <4>1, <4>2
    <3>3. CASE ~Tries(s, lost, "new", Bare(new)) /\ ~Tries(s, lost, "old", Bare("max_tokens"))
      <4>1. Sampling(s, lost) = found("not_tested", "max_tokens", {})
        BY <2>3, <3>3 DEF Sampling
      <4> QED
        BY <4>1
    <3> QED
      BY <3>1, <3>2, <3>3
  <2> QED
    BY <2>1, <2>2, <2>3
<1> DEFINE f == Sampling(s, lost)
           r == ChatProbe(s, lost)
<1>4. r \in [print : {ChatPrint(s)}, temperature : {f.temperature}, field : {f.field},
             efforts : {f.efforts}, shape : {""}, window : {0}, bound : {""}]
  <2> DEFINE sh == Structured(s, lost, f.field)
             w == ChatWindow(s, lost)
  <2>1. r = Compact([print |-> ChatPrint(s), temperature |-> f.temperature, field |-> f.field,
                     efforts |-> f.efforts, shape |-> sh, window |-> w.window, bound |-> w.bound])
    BY DEF ChatProbe
  <2> HIDE DEF f, r, sh, w
  <2>2. Compact([print |-> ChatPrint(s), temperature |-> f.temperature, field |-> f.field,
                 efforts |-> f.efforts, shape |-> sh, window |-> w.window, bound |-> w.bound])
          \in [print : {ChatPrint(s)}, temperature : {f.temperature}, field : {f.field},
               efforts : {f.efforts}, shape : {""}, window : {0}, bound : {""}]
    BY DEF Compact
  <2> QED
    BY <2>1, <2>2, Zenon
<1>5. ChatPrint(s) \in [model : Models, key : BOOLEAN, mode : Modes, effort : Efforts]
      /\ ChatPrint(s).model = s.model
  <2> PICK b \in BOOLEAN : b = (s.key # None)
    OBVIOUS
  <2>1. ChatPrint(s) = [model |-> s.model, key |-> b, mode |-> s.mode, effort |-> s.effort]
    BY DEF ChatPrint
  <2> QED
    BY <2>1 DEF Row
<1>8. Good(f)
  BY <1>3
<1> HIDE DEF f, r
<1>6. r \in ChatResult
  <2>1. /\ r.print = ChatPrint(s) /\ r.temperature = f.temperature /\ r.field = f.field
        /\ r.efforts = f.efforts /\ r.shape = "" /\ r.window = 0 /\ r.bound = ""
    BY <1>4
  <2> DEFINE Prints == [model : Models, key : BOOLEAN, mode : Modes, effort : Efforts]
  <2> HIDE DEF Prints
  <2>2. /\ r.print \in Prints /\ r.efforts \in SUBSET Efforts
        /\ r.temperature \in {"succeeded", "failed", "not_tested"}
        /\ r.field \in {"max_tokens", "max_completion_tokens"}
        /\ r.shape \in {"", "response_format", "guided_json"} /\ r.window \in Nat
        /\ r.bound \in {"", "at_least", "exact"}
    <3>1. f.efforts \in SUBSET Efforts /\ f.temperature \in {"succeeded", "failed", "not_tested"}
          /\ f.field \in {"max_tokens", "max_completion_tokens"}
      BY <1>8, Zenon
    <3>2. ChatPrint(s) \in Prints
      BY <1>5, Zenon DEF Prints
    <3>3. r.print \in Prints /\ r.efforts \in SUBSET Efforts
      BY <2>1, <3>1, <3>2, Zenon
    <3>4. /\ r.temperature \in {"succeeded", "failed", "not_tested"}
          /\ r.field \in {"max_tokens", "max_completion_tokens"}
      BY <2>1, <3>1, Zenon
    <3>5. r.shape \in {"", "response_format", "guided_json"} /\ r.bound \in {"", "at_least", "exact"}
      BY <2>1, Zenon
    <3>6. r.window \in Nat
      <4>1. r.window = 0
        BY <2>1, Zenon
      <4> QED
        BY <4>1
    <3> QED
      BY <3>3, <3>4, <3>5, <3>6
  <2>3. r \in [print : Prints, temperature : {"succeeded", "failed", "not_tested"},
               efforts : SUBSET Efforts, field : {"max_tokens", "max_completion_tokens"},
               shape : {"", "response_format", "guided_json"}, window : Nat,
               bound : {"", "at_least", "exact"}]
    BY <1>4, <2>2
  <2> QED
    BY <2>3 DEF ChatResult, Prints
<1>7. ChatTrue(r)
  BY <1>4, <1>5, <1>6, <1>8 DEF ChatTrue
<1> QED
  BY <1>7 DEF r

\* What a test of an embedder finds.
LEMMA EmbeddingProbeTrue ==
  ASSUME NEW s \in Row, NEW lost
  PROVE  EmbeddingTrue(EmbeddingProbe(s, lost))
<1>1. EmbeddingPrint(s) \in [embedder : Embedders, key : BOOLEAN, prefix : TextPrefixes]
      /\ EmbeddingPrint(s).embedder = s.embedder
  <2> PICK b \in BOOLEAN : b = (s.secret # None)
    OBVIOUS
  <2>1. EmbeddingPrint(s) = [embedder |-> s.embedder, key |-> b, prefix |-> s.prefix]
    BY DEF EmbeddingPrint
  <2> QED
    BY <2>1 DEF Row
<1>2. EmbeddingWindow(s) \in Nat /\ EmbeddingWindow(s) <= Window[s.embedder]
  <2>1. Window[s.embedder] \in Nat /\ ProbeText \in Nat
    BY SettingsAssumption DEF Row
  <2> QED
    BY <2>1 DEF EmbeddingWindow
<1>3. PICK w : w = IF lost # {} THEN 0 ELSE EmbeddingWindow(s)
  OBVIOUS
<1>4. w \in Nat /\ (w > 0 => w <= Window[s.embedder])
  BY <1>2, <1>3
<1>5. EmbeddingProbe(s, lost) = [print |-> EmbeddingPrint(s), window |-> w]
  BY <1>3 DEF EmbeddingProbe
<1> QED
  BY <1>1, <1>4, <1>5 DEF EmbeddingTrue, EmbeddingResult

\* A row that is saved with a fixed effort has one its endpoint takes.
LEMMA VerifiedWorks ==
  ASSUME ProbesTrue(probes), NEW c \in Row, Verified(c)
  PROVE  EffortWorks(c)
<1> SUFFICES ASSUME c.mode = "fixed" PROVE c.effort \in Endpoint[c.model].efforts
  BY DEF EffortWorks
<1>1. c.effort \in Support(c, probes).efforts /\ c.effort \in Efforts
  BY DEF Verified, Row
<1>2. probes.chat # None /\ probes.chat.print = ChatPrint(c) /\ c.effort \in probes.chat.efforts
  BY <1>1 DEF Support
<1>3. ChatTrue(probes.chat) /\ probes.chat.print.model = c.model
  BY <1>2 DEF ProbesTrue, ChatPrint
<1>4. Takes(c.model, Carries(probes.chat.field, c.effort))
  BY <1>2, <1>3 DEF ChatTrue, ChatResult
<1>5. c.effort # None
  BY <1>1, SettingsAssumption
<1> QED
  BY <1>4, <1>5 DEF Takes, Carries

\* The forms of a page are rows.
LEMMA CandidatesAreRows ==
  ASSUME row \in Row, NEW c \in Candidates
  PROVE  c.form \in Row /\ c.typed \in SUBSET {"key", "secret"}
<1>1. ASSUME NEW f \in Forms PROVE f \in Row
  <2>1. CASE f \in {[row EXCEPT !.model = m] : m \in Models}
    BY <2>1 DEF Row
  <2>2. CASE f \in {[row EXCEPT !.mode = x[1], !.effort = x[2]] : x \in Modes \X Efforts}
    BY <2>2 DEF Row
  <2>3. CASE f \in {[row EXCEPT !.structured = b] : b \in BOOLEAN}
    BY <2>3 DEF Row
  <2>4. CASE f \in {[row EXCEPT !.embedder = m] : m \in Embedders}
    BY <2>4 DEF Row
  <2>5. CASE f \in {[row EXCEPT !.prefix = x] : x \in TextPrefixes}
    BY <2>5 DEF Row
  <2> QED
    BY <1>1, <2>1, <2>2, <2>3, <2>4, <2>5 DEF Forms
<1>2. \A k \in Keys : [row EXCEPT !.key = k] \in Row /\ [row EXCEPT !.secret = k] \in Row
  BY DEF Row
<1>3. CASE \E f \in Forms : c = [form |-> f, typed |-> {}]
  BY <1>1, <1>3
<1>4. CASE \E k \in Keys : c = [form |-> [row EXCEPT !.key = k], typed |-> {"key"}]
  <2>1. PICK k \in Keys : c = [form |-> [row EXCEPT !.key = k], typed |-> {"key"}]
    BY <1>4
  <2>2. c.form = [row EXCEPT !.key = k] /\ c.typed = {"key"}
    BY <2>1
  <2> QED
    BY <1>2, <2>2
<1>5. CASE \E k \in Keys : c = [form |-> [row EXCEPT !.secret = k], typed |-> {"secret"}]
  <2>1. PICK k \in Keys : c = [form |-> [row EXCEPT !.secret = k], typed |-> {"secret"}]
    BY <1>5
  <2>2. c.form = [row EXCEPT !.secret = k] /\ c.typed = {"secret"}
    BY <2>1
  <2> QED
    BY <1>2, <2>2
<1> QED
  BY <1>3, <1>4, <1>5 DEF Candidates

LEMMA SettingsStep ==
  ASSUME SettingsInv, Settings
  PROVE  SettingsInv'
<1>0. row \in Row /\ ProbesTrue(probes) /\ admin \in [Admins -> Admin]
      /\ \A a \in Admins : HandlerTrue(admin[a])
  BY DEF SettingsInv, EffortWorks
<1>r. Rest \in Admin /\ HandlerTrue(Rest) /\ Rest.pc = "idle"
  BY DEF Rest, Admin, Kinds, HandlerTrue
<1>k. ASSUME NEW a \in Admins, NEW h \in Admin, HandlerTrue(h), admin' = [admin EXCEPT ![a] = h],
             UNCHANGED <<row, probes>>
      PROVE  SettingsInv'
  BY <1>0, <1>k DEF SettingsInv, EffortWorks
<1> SUFFICES ASSUME NEW a \in Admins,
                    \/ \E kind \in Kinds : BeginTest(a, kind)
                    \/ Probe(a) \/ Merge(a) \/ Store(a) \/ BeginUpdate(a) \/ TryWidth(a) \/ Write(a)
             PROVE  SettingsInv'
  BY DEF Settings
<1>a. admin[a] \in Admin /\ HandlerTrue(admin[a])
  BY <1>0
<1>1. ASSUME NEW kind \in Kinds, BeginTest(a, kind) PROVE SettingsInv'
  <2>1. PICK c \in Candidates :
          admin' = [admin EXCEPT ![a] = [Rest EXCEPT !.pc = "probing", !.kind = kind, !.form = c.form]]
    BY <1>1 DEF BeginTest
  <2>2. PICK h : h = [Rest EXCEPT !.pc = "probing", !.kind = kind, !.form = c.form]
    OBVIOUS
  <2>3. h \in Admin /\ HandlerTrue(h)
    BY <1>0, <2>2, CandidatesAreRows DEF Rest, Admin, Kinds, HandlerTrue
  <2> QED
    BY <1>1, <1>k, <2>1, <2>2, <2>3 DEF BeginTest
<1>2. CASE Probe(a)
  <2>1. PICK lost :
          admin' = [admin EXCEPT ![a].pc = "merge", ![a].result =
                      IF admin[a].kind = "chat" THEN ChatProbe(admin[a].form, lost)
                      ELSE EmbeddingProbe(admin[a].form, lost)]
    BY <1>2 DEF Probe
  <2>2. PICK r : r = IF admin[a].kind = "chat" THEN ChatProbe(admin[a].form, lost)
                     ELSE EmbeddingProbe(admin[a].form, lost)
    OBVIOUS
  <2>3. admin[a].form \in Row
    BY <1>2, <1>a DEF Probe, HandlerTrue
  <2>4. ResultTrue(admin[a].kind, r)
    BY <2>2, <2>3, ChatProbeTrue, EmbeddingProbeTrue DEF ResultTrue
  <2>5. r \in ChatResult \cup EmbeddingResult
    BY <2>4 DEF ResultTrue, ChatTrue, EmbeddingTrue
  <2>6. PICK h : h = [admin[a] EXCEPT !.pc = "merge", !.result = r]
    OBVIOUS
  <2>7. h \in Admin
    BY <1>a, <2>5, <2>6 DEF Admin
  <2>8. h.pc = "merge" /\ h.kind = admin[a].kind /\ h.result = r
    BY <1>a, <2>6 DEF Admin
  <2>9. HandlerTrue(h)
    BY <2>4, <2>8 DEF HandlerTrue
  <2>10. admin' = [admin EXCEPT ![a] = h]
    BY <1>0, <2>1, <2>2, <2>6
  <2> QED
    BY <1>2, <1>k, <2>7, <2>9, <2>10 DEF Probe
<1>3. CASE Merge(a)
  <2>1. PICK h : h = [admin[a] EXCEPT !.pc = "store", !.read = probes]
    OBVIOUS
  <2>2. h \in Admin
    BY <1>0, <1>a, <2>1 DEF Admin, ProbesTrue
  <2>3. h.pc = "store" /\ h.kind = admin[a].kind /\ h.result = admin[a].result /\ h.read = probes
    BY <1>a, <2>1 DEF Admin
  <2>4. HandlerTrue(h)
    BY <1>0, <1>3, <1>a, <2>3 DEF HandlerTrue, Merge
  <2>5. admin' = [admin EXCEPT ![a] = h]
    BY <1>0, <1>3, <2>1 DEF Merge
  <2> QED
    BY <1>3, <1>k, <2>2, <2>4, <2>5 DEF Merge
<1>4. CASE Store(a)
  <2>1. ResultTrue(admin[a].kind, admin[a].result) /\ ProbesTrue(admin[a].read)
    BY <1>4, <1>a DEF Store, HandlerTrue
  <2>2. admin[a].kind \in Kinds
    BY <1>a DEF Admin
  <2>3. probes' = [admin[a].read EXCEPT ![admin[a].kind] = admin[a].result]
    BY <1>4 DEF Store
  <2>4. CASE admin[a].kind = "chat"
    <3>1. ChatTrue(admin[a].result)
      BY <2>1, <2>4 DEF ResultTrue
    <3>2. probes' = [admin[a].read EXCEPT !.chat = admin[a].result]
      BY <2>3, <2>4
    <3>3. probes' \in Probes /\ probes'.chat = admin[a].result /\ probes'.embedding = admin[a].read.embedding
      BY <2>1, <3>1, <3>2 DEF ProbesTrue, Probes, ChatTrue
    <3> QED
      BY <1>0, <1>4, <1>r, <2>1, <3>1, <3>3 DEF SettingsInv, Store, ProbesTrue, EffortWorks
  <2>5. CASE admin[a].kind = "embedding"
    <3>1. EmbeddingTrue(admin[a].result)
      BY <2>1, <2>5 DEF ResultTrue
    <3>2. probes' = [admin[a].read EXCEPT !.embedding = admin[a].result]
      BY <2>3, <2>5
    <3>3. probes' \in Probes /\ probes'.embedding = admin[a].result /\ probes'.chat = admin[a].read.chat
      BY <2>1, <3>1, <3>2 DEF ProbesTrue, Probes, EmbeddingTrue
    <3> QED
      BY <1>0, <1>4, <1>r, <2>1, <3>1, <3>3 DEF SettingsInv, Store, ProbesTrue, EffortWorks
  <2> QED
    BY <2>2, <2>4, <2>5 DEF Kinds
<1>5. CASE BeginUpdate(a)
  <2>1. PICK c \in Candidates :
          /\ Verified(c.form)
          /\ admin' = [admin EXCEPT ![a] =
               [Rest EXCEPT !.form = c.form, !.typed = c.typed,
                  !.pc = IF c.form.embedder # row.embedder \/ "secret" \in c.typed
                         THEN "width" ELSE "write"]]
    BY <1>5 DEF BeginUpdate
  <2>2. PICK pc \in {"width", "write"} : pc = IF c.form.embedder # row.embedder \/ "secret" \in c.typed
                                              THEN "width" ELSE "write"
    OBVIOUS
  <2>3. PICK h : h = [Rest EXCEPT !.form = c.form, !.typed = c.typed, !.pc = pc]
    OBVIOUS
  <2>4. c.form \in Row /\ c.typed \in SUBSET {"key", "secret"}
    BY <1>0, CandidatesAreRows
  <2>5. h \in Admin
    BY <2>3, <2>4 DEF Rest, Admin, Kinds
  <2>6. HandlerTrue(h)
    BY <1>0, <2>1, <2>2, <2>3, <2>4, VerifiedWorks DEF HandlerTrue, Rest
  <2> QED
    BY <1>5, <1>k, <2>1, <2>2, <2>3, <2>5, <2>6 DEF BeginUpdate
<1>6. CASE TryWidth(a)
  <2>1. CASE admin' = [admin EXCEPT ![a] = Rest]
    BY <1>6, <1>k, <1>r, <2>1 DEF TryWidth
  <2>2. CASE admin' = [admin EXCEPT ![a].pc = "write"]
    <3>1. PICK h : h = [admin[a] EXCEPT !.pc = "write"]
      OBVIOUS
    <3>2. h \in Admin /\ h.pc = "write" /\ h.form = admin[a].form
      BY <1>a, <3>1 DEF Admin
    <3>3. HandlerTrue(h)
      BY <1>6, <1>a, <3>2 DEF HandlerTrue, TryWidth
    <3>4. admin' = [admin EXCEPT ![a] = h]
      BY <1>0, <2>2, <3>1
    <3> QED
      BY <1>6, <1>k, <3>2, <3>3, <3>4 DEF TryWidth
  <2> QED
    BY <1>6, <2>1, <2>2 DEF TryWidth
<1>7. CASE Write(a)
  BY <1>0, <1>7, <1>a, <1>r DEF Write, SettingsInv, HandlerTrue
<1> QED
  BY <1>1, <1>2, <1>3, <1>4, <1>5, <1>6, <1>7

LEMMA SettingsStart == SettingsInit => SettingsInv
<1> SUFFICES ASSUME SettingsInit PROVE SettingsInv
  OBVIOUS
<1>1. EffortWorks(row)
  BY DEF SettingsInit, EffortWorks
<1>2. ProbesTrue(probes)
  BY DEF SettingsInit, ProbesTrue, Probes
<1>3. Rest \in Admin /\ HandlerTrue(Rest)
  BY DEF Rest, Admin, Kinds, HandlerTrue
<1> QED
  BY <1>1, <1>2, <1>3 DEF SettingsInit, SettingsInv

\* What follows of the requests.
LEMMA SettingsFit == SettingsInv => MeasuredIsItsOwn
<1> SUFFICES ASSUME SettingsInv PROVE MeasuredIsItsOwn
  OBVIOUS
<1>0. EffortWorks(row) /\ ProbesTrue(probes) /\ row \in Row
  BY DEF SettingsInv, EffortWorks
<1> DEFINE known == probes.chat # None /\ probes.chat.print = ChatPrint(row)
<1>1. known => ChatTrue(probes.chat) /\ probes.chat.print.model = row.model
  BY <1>0 DEF ProbesTrue, ChatPrint
<1>2. StructuredShape(row, probes) = ""
  BY <1>1 DEF StructuredShape, ChatTrue
<1>3. ASSUME NEW intent \in Semantic \cup {None}, NEW json \in BOOLEAN
      PROVE  LET q == ChatRequest(row, probes, intent, json)
             IN CASE known /\ probes.chat.temperature = "failed" ->
                       /\ Takes(row.model, q) /\ ~Takes(row.model, Plain)
                  [] known /\ probes.chat.temperature = "succeeded" -> q = Plain /\ Takes(row.model, Plain)
                  [] OTHER -> q = Plain
  <2> DEFINE q == ChatRequest(row, probes, intent, json)
             support == Support(row, probes)
  <2>0. PICK e : e = q.effort /\ (e = None \/ e \in support.efforts)
    BY DEF ChatRequest
  <2>1. q = [temperature |-> support.temperature, field |-> support.field, effort |-> e, shape |-> ""]
    BY <1>2, <2>0 DEF ChatRequest
  <2>2. CASE known /\ probes.chat.temperature = "failed"
    <3>1. ~support.temperature /\ support.field = probes.chat.field /\ support.efforts = probes.chat.efforts
      BY <2>2 DEF Support
    <3>2. q = Carries(probes.chat.field, e)
      <4>1. support.temperature = FALSE
        BY <2>2 DEF Support
      <4> HIDE DEF q, support
      <4> QED
        BY <2>1, <3>1, <4>1 DEF Carries
    <3>3. Takes(row.model, Carries(probes.chat.field, e)) /\ ~Takes(row.model, Plain)
      BY <1>1, <2>0, <2>2, <3>1 DEF ChatTrue
    <3> QED
      BY <2>2, <3>2, <3>3
  <2>3. CASE known /\ probes.chat.temperature # "failed"
    <3>1. support.temperature /\ support.field = "max_tokens" /\ support.efforts = {}
      BY <1>1, <2>3 DEF Support, ChatTrue
    <3>2. q = Plain
      BY <2>0, <2>1, <3>1 DEF Plain
    <3> QED
      BY <1>1, <2>3, <3>2 DEF ChatTrue
  <2>4. CASE ~known
    <3>1. support.temperature /\ support.field = "max_tokens" /\ support.efforts = {}
      BY <2>4 DEF Support
    <3>2. q = Plain
      BY <2>0, <2>1, <3>1 DEF Plain
    <3> QED
      BY <2>4, <3>2
  <2> QED
    BY <2>2, <2>3, <2>4
<1>4. RequestsFit
  BY <1>1, <1>3 DEF RequestsFit, ChatTrue
<1>5. DepartsOnlyIfRefused
  BY <1>3 DEF DepartsOnlyIfRefused
<1>6. FixedEffortWorks
  BY <1>0 DEF FixedEffortWorks, EffortWorks
<1>7. WindowOfItsOwn
  BY <1>0 DEF WindowOfItsOwn, EmbeddingBudget, EmbeddingPrint, ProbesTrue, EmbeddingTrue
<1> QED
  BY <1>4, <1>5, <1>6, <1>7 DEF MeasuredIsItsOwn

\* Whatever is tested and saved by however many administrators, and whichever requests of
\* a test are lost: no request carries what the endpoint of the connection in force was
\* found to refuse, and no text is longer than a measured window (app/llm.py
\* chat_sampling_support, embedding_window_budget).
THEOREM MeasurementsFit == Spec => []MeasuredIsItsOwn
<1>1. SettingsInv /\ [Next]_vars => SettingsInv'
  <2> SUFFICES ASSUME SettingsInv, [Next]_vars PROVE SettingsInv'
    OBVIOUS
  <2>1. CASE UNCHANGED <<row, probes, admin>>
    BY <2>1 DEF SettingsInv
  <2>2. CASE Settings
    BY <2>2, SettingsStep
  <2> QED
    BY <2>1, <2>2 DEF Next, Change, Begin, vars, settings
<1>2. Init => SettingsInv
  BY SettingsStart DEF Init
<1> QED
  BY <1>1, <1>2, SettingsFit, PTL DEF Spec
=============================================================================
