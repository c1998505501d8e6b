-------------------------- MODULE DocumentText_proofs --------------------------
(***************************************************************************)
(* The chunks say all of the text, once and in order, and a component      *)
(* without evidence has a wrapped or a cut lead; for any text, max_chars   *)
(* and length of a lead.                                                   *)
(*                                                                         *)
(* The steps are the turns of the code's loops, so the argument is one     *)
(* invariant for each loop: the paragraphs found so far have all that is   *)
(* printed before start, and an end of a line between any two (SplitInv);  *)
(* each of those packed is pending, in a chunk, or cut in windows that     *)
(* begin at multiples of max_chars (PackedInv, CutInv), while every chunk  *)
(* is one and they are in order (SpansInv); and a bullet jumps in the text *)
(* at the ends of lines only (BulletInv).  A lead on one line is therefore *)
(* in one paragraph, and a lead that is not cut in one part of one chunk.  *)
(***************************************************************************)
EXTENDS DocumentText, FiniteSetTheorems, WellFoundedInduction, TLAPS

\* A set of naturals has a least member, Min(S); a bounded one a greatest.
LEMMA LeastOf ==
    ASSUME NEW S \in SUBSET Nat, S # {}
    PROVE  Min(S) \in S /\ \A x \in S : Min(S) <= x
<1>1. IsWellFoundedOn(OpToRel(<, Nat), Nat)
  BY NatLessThanWellFounded
<1>2. PICK least \in S : \A x \in S : ~ (<<x, least>> \in OpToRel(<, Nat))
  BY <1>1, WFMin, Zenon
<1>3. \A x \in S : least <= x
  <2>1. OpToRel(<, Nat) = {pair \in Nat \X Nat : pair[1] < pair[2]}
    BY Zenon DEF OpToRel
  <2>2. \A x \in S : <<x, least>> \notin {pair \in Nat \X Nat : pair[1] < pair[2]}
    BY <1>2, <2>1, Zenon
  <2>3. ASSUME NEW x \in S, ~ (least <= x)
        PROVE  <<x, least>> \in {pair \in Nat \X Nat : pair[1] < pair[2]}
    <3>1. x \in Nat /\ least \in Nat /\ x < least
      BY <2>3
    <3>. QED
      BY <3>1
  <2>. QED
    BY <2>2, <2>3
<1>. QED
  BY <1>3 DEF Min

LEMMA GreatestOf ==
    ASSUME NEW S \in SUBSET Nat, S # {}, NEW bound \in Nat, \A x \in S : x <= bound
    PROVE  Max(S) \in S /\ \A x \in S : x <= Max(S)
<1>. DEFINE T == {bound - x : x \in S}
<1>1. T \in SUBSET Nat /\ T # {}
  <2>1. \A x \in S : x \in Nat /\ x <= bound
    OBVIOUS
  <2>2. \A x \in S : bound - x \in Nat
    BY <2>1
  <2>3. \A d \in T : d \in Nat
    BY <2>2
  <2>. QED
    BY <2>3
<1>2. PICK greatest \in S : Min(T) = bound - greatest
  BY <1>1, LeastOf
<1>3. \A x \in S : bound - greatest <= bound - x
  BY <1>1, <1>2, LeastOf
<1>4. \A x \in S : greatest >= x
  BY <1>3
<1>. QED
  BY <1>4 DEF Max

----------------------------------------------------------------------------
Piece == [start : Nat, end : Nat]

Span == [index : Nat, start : Nat, end : Nat, parts : Seq(Piece)]

Symbol == {Letter, Blank, LineEnd, Word, NamedBullet, PlainBullet, Heading, OtherHeading}

TypeOK ==
    /\ text \in Seq(Symbol) /\ max_chars \in MaxChars
    /\ stage \in {"typing", "chunking", "chunked"}
    /\ start \in Nat /\ paragraphs \in Seq(Piece)
    /\ packed \in Nat /\ sub_start \in Nat
    /\ spans \in Seq(Span) /\ parts \in Seq(Piece)
    /\ line \in Nat /\ bullets \in Seq(Seq(Nat))

\* A paragraph begins and ends with a letter.
IsParagraph(piece) ==
    /\ piece.start < piece.end /\ piece.end <= start
    /\ piece.start \in Ink(0, n) /\ piece.end - 1 \in Ink(0, n)

EndsLine(offset) == text[offset + 1] = LineEnd

\* What _split_paragraphs_with_offsets has found when it goes on at start:
\* all that is printed before, with the end of a line between any two.
SplitInv ==
    /\ start <= n
    /\ \A i \in DOMAIN paragraphs : IsParagraph(paragraphs[i])
    /\ \A i, j \in DOMAIN paragraphs :
          i < j => \E offset \in paragraphs[i].end..(paragraphs[j].start - 1) : EndsLine(offset)
    /\ start < n => \A i \in DOMAIN paragraphs :
                       \E offset \in paragraphs[i].end..(start - 1) : EndsLine(offset)
    /\ \A offset \in Ink(0, start) : \E i \in DOMAIN paragraphs :
          offset \in paragraphs[i].start..(paragraphs[i].end - 1)

StageInv ==
    /\ stage = "typing" => start = 0 /\ paragraphs = <<>>
    /\ stage = "typing" \/ start < n =>
          packed = 0 /\ sub_start = 0 /\ spans = <<>> /\ parts = <<>>
    /\ stage = "chunked" => start = n /\ packed = Len(paragraphs) /\ parts = <<>>
    /\ packed <= Len(paragraphs)

\* A window of a paragraph that says the letter at an offset.
IsWindow(span, paragraph, offset) ==
    /\ paragraph.start <= span.start /\ span.start <= offset
    /\ offset < span.end /\ span.end <= paragraph.end
    /\ span.end = paragraph.end \/ (span.end - paragraph.start) % max_chars = 0
    /\ span.parts = IF Ink(span.start, span.end) = {} THEN <<>>
                    ELSE <<Stripped(span.start, span.end)>>

\* What one chunk must be.
IsChunk(span) ==
    /\ span.start <= span.end /\ span.end <= n
    /\ InkOf(span) = Ink(span.start, span.end)
    /\ \A i \in DOMAIN span.parts :
          span.start <= span.parts[i].start /\ span.parts[i].start < span.parts[i].end
    /\ \A i, j \in DOMAIN span.parts : i < j => span.parts[i].end <= span.parts[j].start
    /\ Cardinality(Covered(span.parts)) <= max_chars

\* The paragraphs pending are the last ones packed, and fit.
PartsInv ==
    /\ Len(parts) <= packed
    /\ \A i \in DOMAIN parts :
          parts[i] = paragraphs[packed - Len(parts) + i] /\ ~IsLong(parts[i])
    /\ Pending <= max_chars

\* The offsets from a paragraph's start up to another are in windows.
IsCut(paragraph, to, chunks) ==
    \A offset \in paragraph.start..(to - 1) :
        \E k \in DOMAIN chunks : IsWindow(chunks[k], paragraph, offset)

\* The cutting of a long paragraph goes on at a multiple of max_chars.
CutInv ==
    /\ sub_start % max_chars = 0
    /\ sub_start > 0 =>
          /\ packed < Len(paragraphs) /\ parts = <<>>
          /\ IsLong(Current) /\ sub_start < Size(Current)
          /\ IsCut(Current, Current.start + sub_start, spans)

AreChunks(chunks) ==
    /\ \A k \in DOMAIN chunks : chunks[k].index = k - 1 /\ IsChunk(chunks[k])
    /\ \A k, l \in DOMAIN chunks : k < l => chunks[k].end <= chunks[l].start

\* Chunks end before the paragraphs that are still to be packed.
ArePassed(chunks, count, offset) ==
    \A k \in DOMAIN chunks, i \in DOMAIN paragraphs :
        i > count => chunks[k].end <= paragraphs[i].start + offset

SpansInv ==
    /\ AreChunks(spans) /\ ArePassed(spans, packed, sub_start)
    /\ parts # <<>> => \A k \in DOMAIN spans : spans[k].end <= parts[1].start

\* A paragraph is pending, in a chunk or cut in windows.
IsPlaced(paragraph, chunks, pieces) ==
    IF IsLong(paragraph)
    THEN IsCut(paragraph, paragraph.end, chunks)
    ELSE \/ paragraph \in ToSet(pieces)
         \/ \E k \in DOMAIN chunks : paragraph \in ToSet(chunks[k].parts)

PackedInv == \A i \in 1..packed : IsPlaced(paragraphs[i], spans, parts)

ChunkInv ==
    /\ TypeOK /\ SplitInv /\ StageInv
    /\ PartsInv /\ CutInv /\ SpansInv /\ PackedInv

----------------------------------------------------------------------------
LEMMA Positive == \A m \in MaxChars : m \in Nat /\ m > 0
  BY ChunkingAssumption

LEMMA InkBounds ==
    ASSUME NEW from \in Nat, NEW to \in Nat
    PROVE  Ink(from, to) \in SUBSET Nat /\ \A offset \in Ink(from, to) : from <= offset /\ offset <= to - 1
  BY DEF Ink

\* str.strip() leaves all that is printed, from the first letter to the last.
LEMMA StrippedFacts ==
    ASSUME NEW from \in Nat, NEW to \in Nat, Ink(from, to) # {}
    PROVE  LET piece == Stripped(from, to)
           IN  /\ piece \in Piece
               /\ from <= piece.start /\ piece.start < piece.end /\ piece.end <= to
               /\ piece.start \in Ink(from, to) /\ piece.end - 1 \in Ink(from, to)
               /\ Ink(piece.start, piece.end) = Ink(from, to)
<1>. DEFINE first == Min(Ink(from, to))
            last == Max(Ink(from, to))
<1>1. first \in Ink(from, to) /\ \A offset \in Ink(from, to) : first <= offset
  BY InkBounds, LeastOf
<1>2. to \in Nat /\ \A offset \in Ink(from, to) : offset <= to
  BY InkBounds
<1>3. last \in Ink(from, to) /\ \A offset \in Ink(from, to) : offset <= last
  BY <1>2, InkBounds, GreatestOf
<1>4. /\ first \in Nat /\ last \in Nat
      /\ from <= first /\ first <= last /\ last <= to - 1
  BY <1>1, <1>3, InkBounds
<1>5. Stripped(from, to) = [start |-> first, end |-> last + 1]
  BY DEF Stripped
<1>. HIDE DEF first, last
<1>6. Ink(first, last + 1) = Ink(from, to)
  BY <1>1, <1>3, <1>4 DEF Ink
<1>. QED
  BY <1>1, <1>3, <1>4, <1>5, <1>6 DEF Piece

LEMMA BreakFacts ==
    ASSUME TypeOK, NEW from \in Nat, from < n, Breaks(from) # {}
    PROVE  /\ Min(Breaks(from)) \in from..(n - 2)
           /\ EndsLine(Min(Breaks(from))) /\ EndsLine(Min(Breaks(from)) + 1)
<1>1. n \in Nat /\ Breaks(from) \in SUBSET Nat
  BY DEF TypeOK, Breaks, n
<1>2. Min(Breaks(from)) \in Breaks(from)
  BY <1>1, LeastOf
<1>. QED
  BY <1>1, <1>2 DEF Breaks, EndsLine

\* The next piece of text, up to a blank line, is one more paragraph.
LEMMA SplitKeepsSplitInv ==
    ASSUME ChunkInv, Split
    PROVE  SplitInv' /\ start' \in Nat /\ paragraphs' \in Seq(Piece) /\ start' <= n
<1>. DEFINE end == IF Breaks(start) = {} THEN n ELSE Min(Breaks(start))
            new == Stripped(start, end)
            next == start'
<1>1. /\ text \in Seq(Symbol) /\ n \in Nat /\ start \in Nat /\ start < n
      /\ paragraphs \in Seq(Piece)
      /\ text' = text /\ n' = n
  BY DEF ChunkInv, TypeOK, Split, n, text_vars
<1>2. /\ start <= end /\ end <= n /\ end \in Nat
      /\ next \in Nat /\ end <= next /\ next <= n /\ start < next
      /\ next < n => end < next /\ EndsLine(end)
      /\ \A offset \in end..(next - 1) : EndsLine(offset)
  <2>1. CASE Breaks(start) = {}
    BY <2>1, <1>1 DEF Split, next
  <2>2. CASE Breaks(start) # {}
    <3>1. /\ Min(Breaks(start)) \in start..(n - 2)
          /\ EndsLine(Min(Breaks(start))) /\ EndsLine(Min(Breaks(start)) + 1)
      BY <2>2, <1>1, BreakFacts DEF ChunkInv
    <3>2. next = Min(Breaks(start)) + 2
      BY <2>2 DEF Split, next
    <3>. QED
      BY <2>2, <3>1, <3>2, <1>1
  <2>. QED
    BY <2>1, <2>2
<1>3. paragraphs' = IF Ink(start, end) = {} THEN paragraphs ELSE Append(paragraphs, new)
  BY DEF Split
<1>. HIDE DEF end, new, next
<1>4. \A a, b \in Nat : Ink(a, b)' = Ink(a, b)
  BY <1>1 DEF Ink
<1>5. \A offset : EndsLine(offset)' = EndsLine(offset)
  BY <1>1 DEF EndsLine
<1>6. \A offset \in Ink(0, next) : offset \in Ink(0, start) \/ offset \in Ink(start, end)
  <2>1. SUFFICES ASSUME NEW offset, offset \in Ink(0, next), offset \notin Ink(0, start),
                        offset \notin Ink(start, end)
                 PROVE  FALSE
    OBVIOUS
  <2>2. offset \in end..(next - 1)
    <3>1. start \in Nat /\ end \in Nat /\ next \in Nat
      BY <1>1, <1>2
    <3>2. offset \in 0..(next - 1) /\ text[offset + 1] \notin {Blank, LineEnd}
      BY <2>1 DEF Ink
    <3>3. offset \notin 0..(start - 1) /\ offset \notin start..(end - 1)
      BY <2>1, <3>2 DEF Ink
    <3>4. offset \in end..(next - 1)
      BY <3>1, <3>2, <3>3
    <3>. QED
      BY <3>4
  <2>3. EndsLine(offset)
    BY <2>2, <1>2
  <2>. QED
    BY <2>1, <2>3 DEF Ink, EndsLine
<1>7. /\ \A i \in DOMAIN paragraphs : IsParagraph(paragraphs[i])
      /\ \A i, j \in DOMAIN paragraphs :
            i < j => \E offset \in paragraphs[i].end..(paragraphs[j].start - 1) : EndsLine(offset)
      /\ \A i \in DOMAIN paragraphs :
            \E offset \in paragraphs[i].end..(start - 1) : EndsLine(offset)
      /\ \A offset \in Ink(0, start) : \E i \in DOMAIN paragraphs :
            offset \in paragraphs[i].start..(paragraphs[i].end - 1)
  BY <1>1 DEF ChunkInv, SplitInv
<1>8. /\ \A i \in DOMAIN paragraphs : paragraphs[i] \in Piece
      /\ \A piece \in Piece : piece.start \in Nat /\ piece.end \in Nat
  <2>1. \A i \in DOMAIN paragraphs : paragraphs[i] \in Piece
    BY <1>1
  <2>. QED
    BY <2>1 DEF Piece
<1>9. \A piece \in Piece : IsParagraph(piece) => IsParagraph(piece)'
  <2>1. Ink(0, n)' = Ink(0, n)
    BY <1>1 DEF Ink
  <2>. QED
    BY <2>1, <1>8, <1>1, <1>2 DEF IsParagraph, next
<1>10. \A i \in DOMAIN paragraphs :
          next < n => \E offset \in paragraphs[i].end..(next - 1) : EndsLine(offset)
  <2>1. SUFFICES ASSUME NEW i \in DOMAIN paragraphs
                 PROVE  \E offset \in paragraphs[i].end..(next - 1) : EndsLine(offset)
    OBVIOUS
  <2>2. PICK offset \in paragraphs[i].end..(start - 1) : EndsLine(offset)
    BY <1>7
  <2>3. offset \in paragraphs[i].end..(next - 1)
    BY <2>2, <1>1, <1>2, <1>8
  <2>. QED
    BY <2>2, <2>3
<1>11. CASE Ink(start, end) = {}
  <2>1. paragraphs' = paragraphs
    BY <1>11, <1>3
  <2>2. (\A i \in DOMAIN paragraphs : IsParagraph(paragraphs[i]))'
    BY <2>1, <1>7, <1>8, <1>9
  <2>3. SplitInv'
    BY <2>1, <2>2, <1>1, <1>2, <1>4, <1>5, <1>6, <1>7, <1>10, <1>11 DEF SplitInv, next
  <2>. QED
    BY <2>1, <2>3, <1>1, <1>2 DEF next
<1>12. CASE Ink(start, end) # {}
  <2>. DEFINE len == Len(paragraphs)
  <2>1. paragraphs' = Append(paragraphs, new)
    BY <1>12, <1>3
  <2>2. /\ new \in Piece /\ new.start \in Nat /\ new.end \in Nat
        /\ start <= new.start /\ new.start < new.end /\ new.end <= end
        /\ new.start \in Ink(start, end) /\ new.end - 1 \in Ink(start, end)
        /\ Ink(new.start, new.end) = Ink(start, end)
    BY <1>12, <1>1, <1>2, StrippedFacts DEF Piece, new
  <2>3. /\ paragraphs' \in Seq(Piece) /\ len \in Nat /\ DOMAIN paragraphs = 1..len
        /\ DOMAIN paragraphs' = 1..(len + 1)
        /\ paragraphs'[len + 1] = new
        /\ \A i \in 1..len : paragraphs'[i] = paragraphs[i]
    BY <2>1, <2>2, <1>1
  <2>. HIDE DEF len
  <2>4. \A piece : piece = new => IsParagraph(piece)'
    <3>1. new.start \in Ink(0, n) /\ new.end - 1 \in Ink(0, n)
      BY <2>2, <1>1, <1>2 DEF Ink
    <3>2. Ink(0, n)' = Ink(0, n)
      BY <1>1 DEF Ink
    <3>. QED
      BY <3>1, <3>2, <2>2, <1>1, <1>2 DEF IsParagraph, next
  <2>5. (\A i \in DOMAIN paragraphs : IsParagraph(paragraphs[i]))'
    BY <2>3, <2>4, <1>7, <1>8, <1>9
  <2>6. \A i, j \in DOMAIN paragraphs' :
          i < j => \E offset \in paragraphs'[i].end..(paragraphs'[j].start - 1) : EndsLine(offset)
    <3>1. SUFFICES ASSUME NEW i \in 1..(len + 1), NEW j \in 1..(len + 1), i < j
                   PROVE  \E offset \in paragraphs'[i].end..(paragraphs'[j].start - 1) : EndsLine(offset)
      BY <2>3
    <3>2. CASE j \in 1..len
      <4>1. i \in 1..len /\ paragraphs'[i] = paragraphs[i] /\ paragraphs'[j] = paragraphs[j]
        BY <3>1, <3>2, <2>3
      <4>. QED
        BY <4>1, <3>1, <3>2, <2>3, <1>7
    <3>3. CASE j = len + 1
      <4>1. i \in 1..len /\ paragraphs'[i] = paragraphs[i] /\ paragraphs[i].end \in Nat
        BY <3>1, <3>3, <2>3, <1>8
      <4>2. PICK offset \in paragraphs[i].end..(start - 1) : EndsLine(offset)
        BY <4>1, <2>3, <1>7
      <4>3. offset \in paragraphs[i].end..(new.start - 1)
        BY <4>1, <4>2, <2>2, <1>1
      <4>. QED
        BY <4>1, <4>2, <4>3, <3>3, <2>3
    <3>. QED
      BY <3>1, <3>2, <3>3, <2>3
  <2>7. next < n => \A i \in DOMAIN paragraphs' :
                         \E offset \in paragraphs'[i].end..(next - 1) : EndsLine(offset)
    <3>1. SUFFICES ASSUME next < n, NEW i \in 1..(len + 1)
                   PROVE  \E offset \in paragraphs'[i].end..(next - 1) : EndsLine(offset)
      BY <2>3
    <3>2. CASE i \in 1..len
      BY <3>1, <3>2, <2>3, <1>10
    <3>3. CASE i = len + 1
      <4>1. new.end \in Nat /\ end \in Nat /\ end \in new.end..(next - 1) /\ EndsLine(end)
        BY <3>1, <2>2, <1>2
      <4>. QED
        BY <4>1, <3>3, <2>3
    <3>. QED
      BY <3>1, <3>2, <3>3, <2>3
  <2>8. \A offset \in Ink(0, next) : \E i \in DOMAIN paragraphs' :
           offset \in paragraphs'[i].start..(paragraphs'[i].end - 1)
    <3>1. SUFFICES ASSUME NEW offset \in Ink(0, next)
                   PROVE  \E i \in 1..(len + 1) :
                             offset \in paragraphs'[i].start..(paragraphs'[i].end - 1)
      BY <2>3
    <3>2. CASE offset \in Ink(0, start)
      <4>1. PICK i \in 1..len : offset \in paragraphs[i].start..(paragraphs[i].end - 1)
        BY <3>2, <2>3, <1>7
      <4>. QED
        BY <4>1, <2>3
    <3>3. CASE offset \in Ink(start, end)
      <4>1. offset \in new.start..(new.end - 1)
        BY <3>3, <2>2 DEF Ink
      <4>. QED
        BY <4>1, <2>3
    <3>. QED
      BY <3>1, <3>2, <3>3, <1>6
  <2>9. Ink(0, start)' = Ink(0, next)
    BY <1>1 DEF Ink, next
  <2>. QED
    BY <2>3, <2>5, <2>6, <2>7, <2>8, <2>9, <1>1, <1>2, <1>5 DEF SplitInv, next
<1>. QED
  BY <1>11, <1>12

\* Paragraphs are in order, apart from each other.
LEMMA ParagraphFacts ==
    ASSUME ChunkInv
    PROVE  /\ \A i \in DOMAIN paragraphs :
                 /\ paragraphs[i] \in Piece
                 /\ paragraphs[i].start \in Nat /\ paragraphs[i].end \in Nat
                 /\ paragraphs[i].start < paragraphs[i].end /\ paragraphs[i].end <= n
           /\ \A i, j \in DOMAIN paragraphs : i < j => paragraphs[i].end <= paragraphs[j].start
           /\ DOMAIN paragraphs = 1..Len(paragraphs) /\ Len(paragraphs) \in Nat
           /\ n \in Nat
<1>1. paragraphs \in Seq(Piece) /\ n \in Nat /\ start \in Nat /\ start <= n
  BY DEF ChunkInv, TypeOK, SplitInv, n
<1>2. \A i \in DOMAIN paragraphs : paragraphs[i] \in Piece
  BY <1>1
<1>3. \A i \in DOMAIN paragraphs : paragraphs[i].start \in Nat /\ paragraphs[i].end \in Nat
  BY <1>2 DEF Piece
<1>4. \A i \in DOMAIN paragraphs :
         paragraphs[i].start < paragraphs[i].end /\ paragraphs[i].end <= start
  BY DEF ChunkInv, SplitInv, IsParagraph
<1>5. ASSUME NEW i \in DOMAIN paragraphs, NEW j \in DOMAIN paragraphs, i < j
      PROVE  paragraphs[i].end <= paragraphs[j].start
  <2>1. PICK offset \in paragraphs[i].end..(paragraphs[j].start - 1) : EndsLine(offset)
    BY <1>5 DEF ChunkInv, SplitInv
  <2>. QED
    BY <2>1, <1>3
<1>. QED
  BY <1>1, <1>2, <1>3, <1>4, <1>5

LEMMA CoveredFacts ==
    ASSUME NEW pieces \in Seq(Piece), NEW piece \in Piece
    PROVE  /\ Covered(<<>>) = {}
           /\ Covered(<<piece>>) = piece.start..(piece.end - 1)
           /\ Covered(Append(pieces, piece)) = Covered(pieces) \cup piece.start..(piece.end - 1)
<1>1. /\ ToSet(<<>>) = {} /\ ToSet(<<piece>>) = {piece}
      /\ ToSet(Append(pieces, piece)) = ToSet(pieces) \cup {piece}
  BY DEF ToSet
<1>. QED
  BY <1>1, Zenon DEF Covered

LEMMA IntervalSize ==
    ASSUME NEW a \in Nat, NEW b \in Nat, a <= b
    PROVE  IsFiniteSet(a..(b - 1)) /\ Cardinality(a..(b - 1)) = b - a
<1>1. CASE a = b
  <2>1. a..(b - 1) = {}
    BY <1>1
  <2>. QED
    BY <1>1, <2>1, FS_EmptySet
<1>2. CASE a < b
  <2>1. a \in Int /\ b - 1 \in Int /\ a <= b - 1
    BY <1>2
  <2>2. IsFiniteSet(a..(b - 1)) /\ Cardinality(a..(b - 1)) = (b - 1) - a + 1
    BY <2>1, FS_Interval
  <2>. QED
    BY <2>2
<1>. QED
  BY <1>1, <1>2

LEMMA NextMultiple ==
    ASSUME NEW m \in Nat, m > 0, NEW a \in Nat, a % m = 0
    PROVE  (a + m) % m = 0
<1>1. a = m * (a \div m)
  BY SMTT(30)
<1>2. a \div m \in Nat
  OBVIOUS
<1>3. PICK q \in Nat : a = m * q
  BY <1>1, <1>2
<1>4. PICK k \in Nat : a + m = k * m
  <2>1. q + 1 \in Nat /\ a + m = (q + 1) * m
    BY <1>3
  <2>. QED
    BY <2>1
<1>5. (k * m) % m = 0
  OBVIOUS
<1>. QED
  BY <1>4, <1>5, Zenon

\* What is pending makes a chunk.
LEMMA PendingIsChunk ==
    ASSUME ChunkInv, start = n, parts # <<>>
    PROVE  LET span == [index |-> Len(spans), start |-> parts[1].start, end |-> Last(parts).end,
                        parts |-> parts]
           IN  span \in Span /\ IsChunk(span)
<1>. DEFINE span == [index |-> Len(spans), start |-> parts[1].start, end |-> Last(parts).end,
                     parts |-> parts]
            len == Len(parts)
            before == packed - len
<1>1. /\ parts \in Seq(Piece) /\ spans \in Seq(Span) /\ len \in Nat /\ len > 0
      /\ DOMAIN parts = 1..len
      /\ packed \in Nat /\ len <= packed /\ before \in Nat
      /\ packed <= Len(paragraphs) /\ Pending <= max_chars
  BY DEF ChunkInv, TypeOK, PartsInv, StageInv
<1>2. Last(parts) = parts[len]
  BY DEF Last
<1>3. \A i \in 1..len : before + i \in DOMAIN paragraphs /\ parts[i] = paragraphs[before + i]
  <2>1. \A i \in 1..len : parts[i] = paragraphs[before + i]
    BY <1>1 DEF ChunkInv, PartsInv
  <2>. QED
    BY <2>1, <1>1, ParagraphFacts
<1>. HIDE DEF len, before
<1>4. \A i \in 1..len : /\ parts[i].start \in Nat /\ parts[i].end \in Nat
                        /\ parts[i].start < parts[i].end /\ parts[i].end <= n
  BY <1>3, ParagraphFacts
<1>5. \A i, j \in 1..len : i < j => parts[i].end <= parts[j].start
  <2>1. SUFFICES ASSUME NEW i \in 1..len, NEW j \in 1..len, i < j
                 PROVE  parts[i].end <= parts[j].start
    OBVIOUS
  <2>2. before + i < before + j
    BY <2>1, <1>1
  <2>. QED
    BY <2>2, <1>3, ParagraphFacts
<1>6. /\ 1 \in 1..len /\ len \in 1..len
      /\ \A i \in 1..len : parts[1].start <= parts[i].start /\ parts[i].end <= parts[len].end
  <2>1. 1 \in 1..len /\ len \in 1..len
    BY <1>1
  <2>2. ASSUME NEW i \in 1..len
        PROVE  parts[1].start <= parts[i].start /\ parts[i].end <= parts[len].end
    <3>1. i = 1 \/ parts[1].end <= parts[i].start
      BY <2>1, <1>5
    <3>2. i = len \/ parts[i].end <= parts[len].start
      BY <2>1, <1>1, <1>5
    <3>3. /\ parts[1].start \in Nat /\ parts[1].end \in Nat /\ parts[1].start < parts[1].end
          /\ parts[i].start \in Nat /\ parts[i].end \in Nat
          /\ parts[len].start \in Nat /\ parts[len].end \in Nat
          /\ parts[len].start < parts[len].end
      BY <2>1, <1>4
    <3>4. parts[1].start <= parts[i].start
      BY <3>1, <3>3
    <3>5. parts[i].end <= parts[len].end
      BY <3>2, <3>3
    <3>. QED
      BY <3>4, <3>5
  <2>. QED
    BY <2>1, <2>2
<1>7. /\ span \in Span /\ span.start = parts[1].start /\ span.end = parts[len].end
      /\ span.parts = parts
  BY <1>1, <1>2, <1>4, <1>6 DEF Span
<1>. HIDE DEF span
<1>8. InkOf(span) \subseteq Ink(span.start, span.end)
  <2>1. SUFFICES ASSUME NEW i \in 1..len, NEW offset \in Ink(parts[i].start, parts[i].end)
                 PROVE  offset \in Ink(parts[1].start, parts[len].end)
    BY <1>1, <1>7 DEF InkOf, ToSet
  <2>2. parts[1].start <= parts[i].start /\ parts[i].end <= parts[len].end
    BY <1>6
  <2>. QED
    BY <2>1, <2>2, <1>4, <1>6 DEF Ink
<1>9. Ink(span.start, span.end) \subseteq InkOf(span)
  <2>1. SUFFICES ASSUME NEW offset \in Ink(parts[1].start, parts[len].end)
                 PROVE  \E j \in 1..len : offset \in Ink(parts[j].start, parts[j].end)
    BY <1>1, <1>7 DEF InkOf, ToSet
  <2>2. /\ offset \in Nat /\ parts[1].start <= offset /\ offset < parts[len].end
        /\ offset \in Ink(0, start) /\ text[offset + 1] \notin {Blank, LineEnd}
    BY <2>1, <1>4, <1>6, ParagraphFacts DEF Ink
  <2>3. PICK i \in DOMAIN paragraphs : offset \in paragraphs[i].start..(paragraphs[i].end - 1)
    BY <2>2 DEF ChunkInv, SplitInv
  <2>4. i \in Nat /\ paragraphs[i].start \in Nat /\ paragraphs[i].end \in Nat
    BY ParagraphFacts
  <2>5. i > before
    <3>1. SUFFICES ASSUME i < before + 1 PROVE FALSE
      BY <2>4, <1>1
    <3>2. paragraphs[i].end <= parts[1].start
      BY <3>1, <1>3, <1>6, ParagraphFacts
    <3>. QED
      BY <3>2, <2>2, <2>3, <2>4, <1>4, <1>6
  <2>6. i <= before + len
    <3>1. SUFFICES ASSUME before + len < i PROVE FALSE
      BY <2>4, <1>1
    <3>2. parts[len].end <= paragraphs[i].start
      BY <3>1, <1>3, <1>6, ParagraphFacts
    <3>. QED
      BY <3>2, <2>2, <2>3, <2>4, <1>4, <1>6
  <2>7. i - before \in 1..len /\ parts[i - before] = paragraphs[i]
    <3>1. i - before \in 1..len /\ before + (i - before) = i
      BY <2>4, <2>5, <2>6, <1>1
    <3>. QED
      BY <3>1, <1>3
  <2>8. offset \in Ink(paragraphs[i].start, paragraphs[i].end)
    BY <2>2, <2>3 DEF Ink
  <2>. QED
    BY <2>7, <2>8
<1>10. Cardinality(Covered(span.parts)) <= max_chars
  BY <1>1, <1>7 DEF Pending
<1>11. /\ span.start <= span.end /\ span.end <= n
       /\ \A i \in DOMAIN span.parts :
             span.start <= span.parts[i].start /\ span.parts[i].start < span.parts[i].end
       /\ \A i, j \in DOMAIN span.parts : i < j => span.parts[i].end <= span.parts[j].start
  BY <1>1, <1>4, <1>5, <1>6, <1>7
<1>. QED
  BY <1>7, <1>8, <1>9, <1>10, <1>11 DEF IsChunk, span

\* flush() leaves the chunks in order, with all that was pending in them.
LEMMA FlushedFacts ==
    ASSUME ChunkInv, start = n
    PROVE  /\ Flushed \in Seq(Span) /\ AreChunks(Flushed)
           /\ ArePassed(Flushed, packed, sub_start)
           /\ \A k \in DOMAIN spans : k \in DOMAIN Flushed /\ Flushed[k] = spans[k]
           /\ \A part \in ToSet(parts) : \E k \in DOMAIN Flushed : part \in ToSet(Flushed[k].parts)
<1>1. /\ parts \in Seq(Piece) /\ spans \in Seq(Span) /\ packed \in Nat /\ sub_start \in Nat
      /\ AreChunks(spans) /\ ArePassed(spans, packed, sub_start)
      /\ parts # <<>> => \A k \in DOMAIN spans : spans[k].end <= parts[1].start
  BY DEF ChunkInv, TypeOK, SpansInv
<1>2. CASE parts = <<>>
  BY <1>1, <1>2 DEF Flushed, ToSet
<1>3. CASE parts # <<>>
  <2>. DEFINE span == [index |-> Len(spans), start |-> parts[1].start, end |-> Last(parts).end,
                       parts |-> parts]
              len == Len(spans)
  <2>1. span \in Span /\ IsChunk(span)
    BY <1>3, PendingIsChunk
  <2>2. Flushed = Append(spans, span)
    BY <1>3 DEF Flushed
  <2>3. /\ span.index = len /\ span.start = parts[1].start /\ span.end = Last(parts).end
        /\ span.parts = parts
    OBVIOUS
  <2>. HIDE DEF span
  <2>4. /\ Flushed \in Seq(Span) /\ len \in Nat /\ DOMAIN spans = 1..len
        /\ DOMAIN Flushed = 1..(len + 1) /\ Flushed[len + 1] = span
        /\ \A k \in 1..len : Flushed[k] = spans[k]
    BY <1>1, <2>1, <2>2
  <2>. HIDE DEF len
  <2>5. AreChunks(Flushed)
    <3>1. ASSUME NEW k \in 1..(len + 1)
          PROVE  Flushed[k].index = k - 1 /\ IsChunk(Flushed[k])
      <4>1. CASE k \in 1..len
        BY <4>1, <2>4, <1>1 DEF AreChunks
      <4>2. CASE k = len + 1
        BY <4>2, <2>1, <2>3, <2>4
      <4>. QED
        BY <4>1, <4>2, <2>4
    <3>2. ASSUME NEW k \in 1..(len + 1), NEW l \in 1..(len + 1), k < l
          PROVE  Flushed[k].end <= Flushed[l].start
      <4>1. k \in 1..len
        BY <3>2, <2>4
      <4>2. CASE l \in 1..len
        BY <4>1, <4>2, <3>2, <2>4, <1>1 DEF AreChunks
      <4>3. CASE l = len + 1
        BY <4>1, <4>3, <2>3, <2>4, <1>1, <1>3
      <4>. QED
        BY <4>2, <4>3, <2>4
    <3>. QED
      BY <3>1, <3>2, <2>4 DEF AreChunks
  <2>6. ArePassed(Flushed, packed, sub_start)
    <3>1. SUFFICES ASSUME NEW k \in 1..(len + 1), NEW i \in DOMAIN paragraphs, i > packed
                   PROVE  Flushed[k].end <= paragraphs[i].start + sub_start
      BY <2>4 DEF ArePassed
    <3>2. CASE k \in 1..len
      BY <3>1, <3>2, <2>4, <1>1 DEF ArePassed
    <3>3. CASE k = len + 1
      <4>1. /\ Len(parts) \in Nat /\ Len(parts) > 0 /\ Len(parts) <= packed
            /\ Len(parts) \in DOMAIN parts
        BY <1>1, <1>3 DEF ChunkInv, PartsInv
      <4>2. Last(parts) = paragraphs[packed]
        BY <4>1, <1>1 DEF ChunkInv, PartsInv, Last
      <4>3. packed \in DOMAIN paragraphs
        BY <4>1, <1>1, ParagraphFacts DEF ChunkInv, StageInv
      <4>4. paragraphs[packed].end <= paragraphs[i].start
        BY <3>1, <4>3, ParagraphFacts
      <4>. QED
        BY <3>3, <4>2, <4>3, <4>4, <2>3, <2>4, <1>1, ParagraphFacts
    <3>. QED
      BY <3>2, <3>3, <2>4
  <2>7. \A part \in ToSet(parts) : \E k \in DOMAIN Flushed : part \in ToSet(Flushed[k].parts)
    BY <2>3, <2>4
  <2>. QED
    BY <2>4, <2>5, <2>6, <2>7
<1>. QED
  BY <1>2, <1>3

\* What does not read the chunks stays as it is while they are made.
LEMMA TextStays ==
    ASSUME text' = text, max_chars' = max_chars
    PROVE  /\ \A span : IsChunk(span) => IsChunk(span)'
           /\ \A span, paragraph, offset :
                 IsWindow(span, paragraph, offset) => IsWindow(span, paragraph, offset)'
           /\ \A piece : IsLong(piece)' = IsLong(piece)
           /\ n' = n
  BY DEF IsChunk, IsWindow, IsLong, InkOf, Ink, Stripped, Covered, Size, n

LEMMA PlacesStay ==
    ASSUME text' = text, max_chars' = max_chars, paragraphs' = paragraphs
    PROVE  /\ \A paragraph, to, chunks : IsCut(paragraph, to, chunks) => IsCut(paragraph, to, chunks)'
           /\ \A paragraph, chunks, pieces :
                 IsPlaced(paragraph, chunks, pieces) => IsPlaced(paragraph, chunks, pieces)'
           /\ \A chunks : AreChunks(chunks) => AreChunks(chunks)'
           /\ \A chunks, count, offset :
                 ArePassed(chunks, count, offset) => ArePassed(chunks, count, offset)'
<1>1. \A paragraph, to, chunks : IsCut(paragraph, to, chunks) => IsCut(paragraph, to, chunks)'
  BY TextStays DEF IsCut
<1>2. \A paragraph, chunks, pieces :
         IsPlaced(paragraph, chunks, pieces) => IsPlaced(paragraph, chunks, pieces)'
  BY <1>1, TextStays DEF IsPlaced
<1>3. \A chunks : AreChunks(chunks) => AreChunks(chunks)'
  BY TextStays DEF AreChunks
<1>4. \A chunks, count, offset :
         ArePassed(chunks, count, offset) => ArePassed(chunks, count, offset)'
  BY DEF ArePassed
<1>. QED
  BY <1>1, <1>2, <1>3, <1>4

LEMMA SplitInvStays ==
    ASSUME SplitInv, text' = text, start' = start, paragraphs' = paragraphs
    PROVE  SplitInv'
  BY DEF SplitInv, IsParagraph, EndsLine, Ink, n

LEMMA LesserOf ==
    ASSUME NEW a \in Nat, NEW b \in Nat
    PROVE  Min({a, b}) = IF a <= b THEN a ELSE b
<1>1. Min({a, b}) \in {a, b} /\ \A x \in {a, b} : Min({a, b}) <= x
  BY LeastOf
<1>. QED
  BY <1>1

\* A window is a chunk of the letters between its offsets, if it has any.
LEMMA WindowIsChunk ==
    ASSUME ChunkInv, NEW from \in Nat, NEW to \in Nat, from <= to, to <= n, to - from <= max_chars,
           NEW index \in Nat
    PROVE  LET span == [index |-> index, start |-> from, end |-> to,
                        parts |-> IF Ink(from, to) = {} THEN <<>> ELSE <<Stripped(from, to)>>]
           IN  span \in Span /\ IsChunk(span)
<1>. DEFINE span == [index |-> index, start |-> from, end |-> to,
                     parts |-> IF Ink(from, to) = {} THEN <<>> ELSE <<Stripped(from, to)>>]
<1>0. max_chars \in Nat
  BY Positive DEF ChunkInv, TypeOK
<1>1. CASE Ink(from, to) = {}
  <2>1. span = [index |-> index, start |-> from, end |-> to, parts |-> <<>>]
    BY <1>1
  <2>. HIDE DEF span
  <2>2. span \in Span
    BY <2>1 DEF Span
  <2>3. InkOf(span) = {}
    BY <2>1 DEF InkOf, ToSet
  <2>4. Covered(span.parts) = {}
    BY <2>1 DEF Covered, ToSet
  <2>5. Cardinality(Covered(span.parts)) <= max_chars
    BY <2>4, <1>0, FS_EmptySet
  <2>6. IsChunk(span)
    <3>1. span.start = from /\ span.end = to /\ DOMAIN span.parts = {}
      BY <2>1
    <3>. QED
      BY <3>1, <2>3, <2>5, <1>1 DEF IsChunk
  <2>. QED
    BY <2>2, <2>6 DEF span
<1>2. CASE Ink(from, to) # {}
  <2>. DEFINE piece == Stripped(from, to)
  <2>1. /\ piece \in Piece /\ piece.start \in Nat /\ piece.end \in Nat
        /\ from <= piece.start /\ piece.start < piece.end /\ piece.end <= to
        /\ Ink(piece.start, piece.end) = Ink(from, to)
    BY <1>2, StrippedFacts DEF Piece
  <2>2. span = [index |-> index, start |-> from, end |-> to, parts |-> <<piece>>]
    BY <1>2
  <2>. HIDE DEF span, piece
  <2>3. span \in Span
    BY <2>1, <2>2 DEF Span
  <2>4. ToSet(span.parts) = {piece} /\ DOMAIN span.parts = {1} /\ span.parts[1] = piece
    BY <2>2 DEF ToSet
  <2>5. InkOf(span) = Ink(from, to)
    BY <2>1, <2>4 DEF InkOf
  <2>6. Covered(span.parts) = piece.start..(piece.end - 1)
    BY <2>4 DEF Covered
  <2>7. Cardinality(Covered(span.parts)) = piece.end - piece.start
    BY <2>1, <2>6, IntervalSize
  <2>8. IsChunk(span)
    BY <2>1, <2>2, <2>4, <2>5, <2>7, <1>0 DEF IsChunk
  <2>. QED
    BY <2>3, <2>8 DEF span
<1>. QED
  BY <1>1, <1>2

\* What is placed stays placed as chunks are added.
LEMMA PlacedStays ==
    ASSUME NEW chunks, NEW more, \A k \in DOMAIN chunks : k \in DOMAIN more /\ more[k] = chunks[k],
           NEW pieces, NEW others,
           \A part \in ToSet(pieces) :
              part \in ToSet(others) \/ \E k \in DOMAIN more : part \in ToSet(more[k].parts)
    PROVE  /\ \A paragraph, to : IsCut(paragraph, to, chunks) => IsCut(paragraph, to, more)
           /\ \A paragraph : IsPlaced(paragraph, chunks, pieces) => IsPlaced(paragraph, more, others)
<1>1. ASSUME NEW paragraph, NEW to, IsCut(paragraph, to, chunks)
      PROVE  IsCut(paragraph, to, more)
  BY <1>1 DEF IsCut
<1>2. ASSUME NEW paragraph, IsPlaced(paragraph, chunks, pieces)
      PROVE  IsPlaced(paragraph, more, others)
  <2>1. CASE IsLong(paragraph)
    BY <2>1, <1>1, <1>2 DEF IsPlaced
  <2>2. CASE ~IsLong(paragraph)
    BY <2>2, <1>2 DEF IsPlaced
  <2>. QED
    BY <2>1, <2>2
<1>. QED
  BY <1>1, <1>2

LEMMA CutWindowKeepsChunkInv ==
    ASSUME ChunkInv, CutWindow
    PROVE  /\ sub_start' \in Nat /\ packed' \in Nat /\ spans' \in Seq(Span) /\ parts' \in Seq(Piece)
           /\ StageInv' /\ PartsInv' /\ CutInv' /\ SpansInv' /\ PackedInv'
<1>. DEFINE m == max_chars
            from == Current.start + sub_start
            to == Min({from + m, Current.end})
            len == Len(Flushed)
            window == [index |-> len, start |-> from, end |-> to,
                       parts |-> IF Ink(from, to) = {} THEN <<>> ELSE <<Stripped(from, to)>>]
            more == Append(Flushed, window)
            done == IF to = Current.end THEN packed + 1 ELSE packed
            cut == IF to = Current.end THEN 0 ELSE sub_start + m
<1>1. /\ packed \in Nat /\ sub_start \in Nat /\ m \in Nat /\ m > 0
      /\ stage = "chunking" /\ start = n /\ n \in Nat
      /\ packed < Len(paragraphs) /\ IsLong(Current)
      /\ packed + 1 \in DOMAIN paragraphs
  BY Positive, ParagraphFacts DEF ChunkInv, TypeOK, SplitInv, CutWindow, Packing
<1>2. /\ text' = text /\ max_chars' = max_chars /\ stage' = stage
      /\ start' = start /\ paragraphs' = paragraphs
      /\ spans' = more /\ packed' = done /\ sub_start' = cut /\ parts' = <<>>
  BY DEF CutWindow, text_vars, split_vars
<1>3. /\ Current \in Piece /\ Current.start \in Nat /\ Current.end \in Nat
      /\ Current.end <= n /\ Current.end - Current.start > m
  BY <1>1, ParagraphFacts DEF Current, IsLong, Size
<1>4. /\ from \in Nat /\ to \in Nat /\ from < to /\ to <= Current.end /\ to - from <= m
      /\ to # Current.end => to = from + m
  <2>1. from \in Nat /\ from + m \in Nat
    BY <1>1, <1>3
  <2>2. to = IF from + m <= Current.end THEN from + m ELSE Current.end
    BY <2>1, <1>3, LesserOf
  <2>3. sub_start < Current.end - Current.start
    BY <1>1, <1>3 DEF ChunkInv, CutInv, Size
  <2>4. from = Current.start + sub_start
    OBVIOUS
  <2>5. /\ Current.start \in Nat /\ Current.end \in Nat /\ sub_start \in Nat
        /\ m \in Nat /\ m > 0
    BY <1>1, <1>3
  <2>. HIDE DEF from, to, m
  <2>6. from < Current.end
    BY <2>1, <2>3, <2>4, <2>5
  <2>7. CASE from + m <= Current.end
    BY <2>1, <2>2, <2>5, <2>6, <2>7
  <2>8. CASE ~(from + m <= Current.end)
    BY <2>1, <2>2, <2>5, <2>6, <2>8
  <2>. QED
    BY <2>7, <2>8
<1>5. /\ Flushed \in Seq(Span) /\ AreChunks(Flushed) /\ len \in Nat
      /\ ArePassed(Flushed, packed, sub_start)
      /\ \A k \in DOMAIN spans : k \in DOMAIN Flushed /\ Flushed[k] = spans[k]
      /\ \A part \in ToSet(parts) : \E k \in DOMAIN Flushed : part \in ToSet(Flushed[k].parts)
  BY <1>1, FlushedFacts
<1>. HIDE DEF m, from, to, len, done, cut
<1>6. window \in Span /\ IsChunk(window)
  <2>1. from <= to /\ to <= n /\ to - from <= max_chars
    BY <1>1, <1>3, <1>4 DEF m
  <2>. QED
    BY <2>1, <1>4, <1>5, WindowIsChunk
<1>7. /\ window.index = len /\ window.start = from /\ window.end = to
      /\ window.parts = IF Ink(from, to) = {} THEN <<>> ELSE <<Stripped(from, to)>>
  OBVIOUS
<1>. HIDE DEF window
<1>8. /\ more \in Seq(Span) /\ DOMAIN Flushed = 1..len
      /\ DOMAIN more = 1..(len + 1) /\ more[len + 1] = window
      /\ \A k \in 1..len : more[k] = Flushed[k]
  BY <1>5, <1>6 DEF len
<1>. HIDE DEF more
<1>9. done \in Nat /\ packed <= done /\ done <= Len(paragraphs) /\ cut \in Nat
  BY <1>1, ParagraphFacts DEF done, cut
<1>10. \A k \in 1..len : Flushed[k].end <= from
  <2>1. \A k \in 1..len : Flushed[k].end <= paragraphs[packed + 1].start + sub_start
    BY <1>1, <1>5, <1>8 DEF ArePassed
  <2>. QED
    BY <2>1 DEF from, Current
<1>11. AreChunks(more)
  <2>1. ASSUME NEW k \in 1..(len + 1)
        PROVE  more[k].index = k - 1 /\ IsChunk(more[k])
    <3>1. CASE k \in 1..len
      BY <3>1, <1>5, <1>8 DEF AreChunks
    <3>2. CASE k = len + 1
      BY <3>2, <1>5, <1>6, <1>7, <1>8
    <3>. QED
      BY <3>1, <3>2, <1>5
  <2>2. ASSUME NEW k \in 1..(len + 1), NEW l \in 1..(len + 1), k < l
        PROVE  more[k].end <= more[l].start
    <3>1. k \in 1..len
      BY <2>2, <1>5
    <3>2. CASE l \in 1..len
      BY <2>2, <3>1, <3>2, <1>5, <1>8 DEF AreChunks
    <3>3. CASE l = len + 1
      BY <3>1, <3>3, <1>7, <1>8, <1>10
    <3>. QED
      BY <3>2, <3>3, <1>5
  <2>. QED
    BY <2>1, <2>2, <1>8 DEF AreChunks
<1>12. ArePassed(more, done, cut)
  <2>1. SUFFICES ASSUME NEW k \in 1..(len + 1), NEW i \in DOMAIN paragraphs, i > done
                 PROVE  more[k].end <= paragraphs[i].start + cut
    BY <1>8 DEF ArePassed
  <2>2. more[k].end \in Nat /\ more[k].end <= to
    <3>1. CASE k \in 1..len
      <4>1. Flushed[k] \in Span
        BY <3>1, <1>5, <1>8
      <4>. QED
        BY <3>1, <4>1, <1>4, <1>8, <1>10 DEF Span
    <3>2. CASE k = len + 1
      BY <3>2, <1>4, <1>7, <1>8
    <3>. QED
      BY <3>1, <3>2, <1>5
  <2>3. i \in Nat /\ paragraphs[i].start \in Nat
    BY ParagraphFacts
  <2>4. CASE to = Current.end
    <3>1. Current.end <= paragraphs[i].start
      BY <2>1, <2>3, <2>4, <1>1, ParagraphFacts DEF done, Current
    <3>. QED
      BY <3>1, <2>2, <2>3, <2>4, <1>4 DEF cut
  <2>5. CASE to # Current.end
    <3>1. i = packed + 1 \/ Current.end <= paragraphs[i].start
      BY <2>1, <2>3, <2>5, <1>1, ParagraphFacts DEF done, Current
    <3>2. Current.start <= paragraphs[i].start
      BY <3>1, <2>3, <1>1, <1>3 DEF Current
    <3>3. to = Current.start + sub_start + m /\ cut = sub_start + m
      BY <2>5, <1>1, <1>3, <1>4 DEF from, cut
    <3>4. /\ Current.start \in Nat /\ paragraphs[i].start \in Nat /\ cut \in Nat
          /\ more[k].end \in Nat /\ sub_start \in Nat /\ m \in Nat
      BY <2>2, <2>3, <1>1, <1>3, <1>9
    <3>5. more[k].end <= Current.start + cut
      BY <3>3, <3>4, <2>2
    <3>. QED
      BY <3>2, <3>4, <3>5
  <2>. QED
    BY <2>4, <2>5
<1>13. /\ \A paragraph, limit : IsCut(paragraph, limit, spans) => IsCut(paragraph, limit, more)
       /\ \A paragraph : IsPlaced(paragraph, spans, parts) => IsPlaced(paragraph, more, <<>>)
  <2>1. \A k \in DOMAIN spans : k \in DOMAIN more /\ more[k] = spans[k]
    BY <1>5, <1>8
  <2>2. \A part \in ToSet(parts) : \E k \in DOMAIN more : part \in ToSet(more[k].parts)
    BY <1>5, <1>8
  <2>. QED
    BY <2>1, <2>2, PlacedStays, Zenon
<1>14. IsCut(Current, to, more)
  <2>1. SUFFICES ASSUME NEW offset \in Current.start..(to - 1)
                 PROVE  \E k \in DOMAIN more : IsWindow(more[k], Current, offset)
    BY DEF IsCut
  <2>2. CASE offset < from
    <3>1. sub_start > 0
      BY <2>1, <2>2, <1>1, <1>3 DEF from
    <3>2. IsCut(Current, from, more)
      BY <3>1, <1>13 DEF ChunkInv, CutInv, from
    <3>3. offset \in Current.start..(from - 1)
      BY <2>1, <2>2, <1>3, <1>4
    <3>. QED
      BY <3>2, <3>3 DEF IsCut
  <2>3. CASE from <= offset
    <3>1. to = Current.end \/ (to - Current.start) % m = 0
      <4>1. SUFFICES ASSUME to # Current.end
                     PROVE  (to - Current.start) % m = 0
        OBVIOUS
      <4>2. to = Current.start + sub_start + m
        BY <4>1, <1>1, <1>3, <1>4 DEF from
      <4>3. to - Current.start = sub_start + m
        BY <4>2, <1>1, <1>3
      <4>4. (sub_start + m) % m = 0
        BY <1>1, NextMultiple DEF ChunkInv, CutInv, m
      <4>. QED
        BY <4>3, <4>4, Zenon
    <3>2. IsWindow(window, Current, offset)
      BY <2>1, <2>3, <3>1, <1>1, <1>3, <1>4, <1>7 DEF IsWindow, from, m
    <3>. QED
      BY <3>2, <1>5, <1>8
  <2>. QED
    BY <2>1, <2>2, <2>3, <1>3, <1>4
<1>15. \A i \in 1..done : IsPlaced(paragraphs[i], more, <<>>)
  <2>1. SUFFICES ASSUME NEW i \in 1..done
                 PROVE  IsPlaced(paragraphs[i], more, <<>>)
    OBVIOUS
  <2>2. CASE i \in 1..packed
    <3>1. IsPlaced(paragraphs[i], spans, parts)
      BY <2>2 DEF ChunkInv, PackedInv
    <3>. QED
      BY <3>1, <1>13
  <2>3. CASE i \notin 1..packed
    <3>1. i = packed + 1 /\ to = Current.end
      BY <2>1, <2>3, <1>1 DEF done
    <3>. QED
      BY <3>1, <1>1, <1>14 DEF IsPlaced, Current
  <2>. QED
    BY <2>2, <2>3
<1>16. /\ \A paragraph, limit, chunks : IsCut(paragraph, limit, chunks) => IsCut(paragraph, limit, chunks)'
       /\ \A paragraph, chunks, pieces :
             IsPlaced(paragraph, chunks, pieces) => IsPlaced(paragraph, chunks, pieces)'
       /\ \A chunks : AreChunks(chunks) => AreChunks(chunks)'
       /\ \A chunks, count, offset :
             ArePassed(chunks, count, offset) => ArePassed(chunks, count, offset)'
       /\ \A piece : IsLong(piece)' = IsLong(piece)
       /\ n' = n
  BY <1>2, PlacesStay, TextStays
<1>17. StageInv'
  BY <1>1, <1>2, <1>9, <1>16 DEF StageInv
<1>18. PartsInv'
  <2>1. Pending' = 0
    BY <1>2, FS_EmptySet DEF Pending, Covered, ToSet
  <2>. QED
    BY <2>1, <1>1, <1>2, <1>9 DEF PartsInv, m
<1>19. CutInv'
  <2>1. CASE to = Current.end
    <3>1. sub_start' = 0
      BY <2>1, <1>2 DEF cut
    <3>2. 0 % m = 0
      BY <1>1
    <3>. QED
      BY <3>1, <3>2, <1>2 DEF CutInv, m
  <2>2. CASE to # Current.end
    <3>1. done = packed /\ cut = sub_start + m /\ to = Current.start + cut
      BY <2>2, <1>1, <1>3, <1>4 DEF done, cut, from
    <3>2. cut % m = 0
      <4>1. sub_start % m = 0
        BY DEF ChunkInv, CutInv, m
      <4>. QED
        BY <4>1, <3>1, <1>1, NextMultiple
    <3>3. Current' = Current /\ packed' = packed /\ sub_start' = cut /\ max_chars' = m
      BY <3>1, <1>2 DEF Current, m
    <3>4. IsCut(Current, Current.start + cut, more)
      BY <3>1, <1>14
    <3>5. IsCut(Current, Current.start + sub_start, spans)'
      BY <3>3, <3>4, <1>2, <1>16
    <3>6. cut < Size(Current)
      BY <2>2, <3>1, <1>3, <1>4, <1>9 DEF Size
    <3>. QED
      BY <3>2, <3>3, <3>5, <3>6, <1>1, <1>2, <1>16 DEF CutInv, Size
  <2>. QED
    BY <2>1, <2>2
<1>20. SpansInv'
  <2>1. AreChunks(spans)' /\ ArePassed(spans, packed, sub_start)'
    BY <1>2, <1>11, <1>12, <1>16
  <2>. QED
    BY <2>1, <1>2 DEF SpansInv
<1>21. PackedInv'
  <2>1. (\A i \in 1..packed : IsPlaced(paragraphs[i], spans, parts))'
    BY <1>15, <1>16, <1>2
  <2>. QED
    BY <2>1 DEF PackedInv
<1>. QED
  BY <1>2, <1>8, <1>9, <1>17, <1>18, <1>19, <1>20, <1>21

\* A paragraph that fits joins what is pending; one that does not comes after
\* it, in a chunk of its own.
LEMMA PackKeepsChunkInv ==
    ASSUME ChunkInv, Pack
    PROVE  /\ packed' \in Nat /\ spans' \in Seq(Span) /\ parts' \in Seq(Piece)
           /\ StageInv' /\ PartsInv' /\ CutInv' /\ SpansInv' /\ PackedInv'
<1>. DEFINE m == max_chars
            flushing == parts # <<>> /\ Pending + Size(Current) > m
            kept == IF flushing THEN <<>> ELSE parts
            pieces == Append(kept, Current)
            chunks == IF flushing THEN Flushed ELSE spans
            len == Len(kept)
<1>1. /\ packed \in Nat /\ sub_start \in Nat /\ m \in Nat /\ m > 0
      /\ stage = "chunking" /\ start = n /\ n \in Nat
      /\ parts \in Seq(Piece) /\ spans \in Seq(Span)
      /\ packed < Len(paragraphs) /\ ~IsLong(Current)
      /\ packed + 1 \in DOMAIN paragraphs
  BY Positive, ParagraphFacts DEF ChunkInv, TypeOK, SplitInv, Pack, Packing
<1>2. /\ text' = text /\ max_chars' = max_chars /\ stage' = stage
      /\ start' = start /\ paragraphs' = paragraphs /\ sub_start' = sub_start
      /\ spans' = chunks /\ packed' = packed + 1
  BY DEF Pack, text_vars, split_vars
<1>3. parts' = pieces
  <2>1. CASE flushing
    <3>1. pieces = <<Current>>
      BY <2>1
    <3>. QED
      BY <2>1, <3>1 DEF Pack
  <2>2. CASE ~flushing
    BY <2>2 DEF Pack
  <2>. QED
    BY <2>1, <2>2
<1>4. /\ Current \in Piece /\ Current.start \in Nat /\ Current.end \in Nat
      /\ Current.start < Current.end /\ Current.end <= n /\ Current.end - Current.start <= m
  BY <1>1, ParagraphFacts DEF Current, IsLong, Size
<1>5. sub_start = 0
  BY <1>1 DEF ChunkInv, CutInv
<1>6. /\ Flushed \in Seq(Span) /\ AreChunks(Flushed) /\ ArePassed(Flushed, packed, sub_start)
      /\ \A k \in DOMAIN spans : k \in DOMAIN Flushed /\ Flushed[k] = spans[k]
      /\ \A part \in ToSet(parts) : \E k \in DOMAIN Flushed : part \in ToSet(Flushed[k].parts)
  BY <1>1, FlushedFacts
<1>7. /\ AreChunks(spans) /\ ArePassed(spans, packed, sub_start)
      /\ parts # <<>> => \A k \in DOMAIN spans : spans[k].end <= parts[1].start
  BY DEF ChunkInv, SpansInv
<1>8. /\ Len(parts) <= packed /\ Pending <= m
      /\ \A i \in DOMAIN parts :
            parts[i] = paragraphs[packed - Len(parts) + i] /\ ~IsLong(parts[i])
  BY DEF ChunkInv, PartsInv
<1>9. /\ kept \in Seq(Piece) /\ len \in Nat /\ len <= packed
      /\ kept # <<>> => kept = parts /\ chunks = spans
  BY <1>1, <1>8
<1>10. /\ chunks \in Seq(Span) /\ AreChunks(chunks) /\ ArePassed(chunks, packed, sub_start)
  BY <1>1, <1>6, <1>7
<1>11. \A part \in ToSet(parts) :
          part \in ToSet(kept) \/ \E k \in DOMAIN chunks : part \in ToSet(chunks[k].parts)
  BY <1>6
<1>12. \A k \in DOMAIN spans : k \in DOMAIN chunks /\ chunks[k] = spans[k]
  BY <1>6
<1>13. IsFiniteSet(Covered(kept)) /\ Cardinality(Covered(kept)) + Size(Current) <= m
  <2>1. IsFiniteSet(Covered(parts))
    <3>1. IsFiniteSet(0..(n - 1))
      BY <1>1, IntervalSize
    <3>2. \A i \in DOMAIN parts : /\ parts[i].start \in Nat /\ parts[i].end \in Nat
                                   /\ parts[i].end <= n
      <4>1. SUFFICES ASSUME NEW i \in DOMAIN parts
                     PROVE  packed - Len(parts) + i \in DOMAIN paragraphs
        BY <1>8, ParagraphFacts
      <4>2. i \in 1..Len(parts) /\ Len(parts) \in Nat
        BY <1>1
      <4>. QED
        BY <4>2, <1>1, <1>8, ParagraphFacts
    <3>3. Covered(parts) \subseteq 0..(n - 1)
      BY <3>2, <1>1 DEF Covered, ToSet
    <3>. QED
      BY <3>1, <3>3, FS_Subset
  <2>2. CASE flushing
    <3>1. Covered(kept) = {}
      BY <2>2 DEF Covered, ToSet
    <3>2. Cardinality(Covered(kept)) = 0 /\ IsFiniteSet(Covered(kept))
      BY <3>1, FS_EmptySet
    <3>3. Size(Current) \in Nat /\ Size(Current) <= m
      BY <1>1, <1>4 DEF Size
    <3>. QED
      BY <3>2, <3>3, <1>1
  <2>3. CASE ~flushing /\ parts = <<>>
    <3>1. Covered(kept) = {}
      BY <2>3 DEF Covered, ToSet
    <3>2. Cardinality(Covered(kept)) = 0 /\ IsFiniteSet(Covered(kept))
      BY <3>1, FS_EmptySet
    <3>3. Size(Current) \in Nat /\ Size(Current) <= m
      BY <1>1, <1>4 DEF Size
    <3>. QED
      BY <3>2, <3>3, <1>1
  <2>4. CASE ~flushing /\ parts # <<>>
    <3>1. kept = parts /\ Cardinality(Covered(parts)) \in Nat
      BY <2>1, <2>4, FS_CardinalityType
    <3>. QED
      BY <2>1, <2>4, <3>1, <1>1, <1>4 DEF Pending, Size
  <2>. QED
    BY <2>2, <2>3, <2>4
<1>. HIDE DEF m, flushing, kept, chunks
<1>14. /\ pieces \in Seq(Piece) /\ Len(pieces) = len + 1 /\ DOMAIN pieces = 1..(len + 1)
       /\ pieces[len + 1] = Current /\ \A i \in 1..len : pieces[i] = kept[i]
       /\ ToSet(pieces) = ToSet(kept) \cup {Current}
  <2>1. /\ pieces \in Seq(Piece) /\ Len(pieces) = len + 1 /\ DOMAIN pieces = 1..(len + 1)
        /\ pieces[len + 1] = Current /\ \A i \in 1..len : pieces[i] = kept[i]
        /\ DOMAIN kept = 1..len
    BY <1>4, <1>9
  <2>. HIDE DEF pieces
  <2>2. ToSet(pieces) = ToSet(kept) \cup {Current}
    BY <2>1, <1>9 DEF ToSet
  <2>. QED
    BY <2>1, <2>2
<1>15. Cardinality(Covered(pieces)) <= m
  <2>. DEFINE own == Current.start..(Current.end - 1)
  <2>1. Covered(pieces) = Covered(kept) \cup own
    BY <1>4, <1>9, CoveredFacts
  <2>2. IsFiniteSet(own) /\ Cardinality(own) = Size(Current)
    BY <1>4, IntervalSize DEF Size
  <2>3. Cardinality(Covered(pieces))
           = Cardinality(Covered(kept)) + Cardinality(own) - Cardinality(Covered(kept) \cap own)
    BY <2>1, <2>2, <1>13, FS_Union
  <2>4. Cardinality(Covered(kept) \cap own) \in Nat
    BY <2>2, <1>13, FS_Intersection, FS_CardinalityType
  <2>5. Cardinality(Covered(kept)) \in Nat
    BY <1>13, FS_CardinalityType
  <2>. QED
    BY <2>2, <2>3, <2>4, <2>5, <1>1, <1>4, <1>13 DEF Size
<1>. HIDE DEF pieces
<1>16. \A i \in 1..(len + 1) :
          pieces[i] = paragraphs[(packed + 1) - (len + 1) + i] /\ ~IsLong(pieces[i])
  <2>1. SUFFICES ASSUME NEW i \in 1..(len + 1)
                 PROVE  pieces[i] = paragraphs[(packed + 1) - (len + 1) + i] /\ ~IsLong(pieces[i])
    OBVIOUS
  <2>2. CASE i = len + 1
    <3>1. (packed + 1) - (len + 1) + i = packed + 1
      BY <2>2, <1>1, <1>9
    <3>. QED
      BY <2>2, <3>1, <1>1, <1>14 DEF Current
  <2>3. CASE i \in 1..len
    <3>1. kept = parts
      BY <2>3, <1>9
    <3>2. (packed + 1) - (len + 1) + i = packed - Len(parts) + i /\ i \in DOMAIN parts
      BY <2>3, <3>1, <1>1, <1>9
    <3>. QED
      BY <2>3, <3>1, <3>2, <1>8, <1>14
  <2>. QED
    BY <2>2, <2>3, <1>9
<1>17. \A k \in DOMAIN chunks : chunks[k].end <= pieces[1].start
  <2>1. CASE kept = <<>>
    <3>1. pieces[1] = paragraphs[packed + 1]
      BY <2>1, <1>14 DEF Current
    <3>. QED
      BY <3>1, <1>1, <1>4, <1>5, <1>10 DEF ArePassed, Current
  <2>2. CASE kept # <<>>
    <3>1. kept = parts /\ chunks = spans /\ parts # <<>> /\ 1 \in 1..len
      BY <2>2, <1>9
    <3>. QED
      BY <3>1, <1>7, <1>14
  <2>. QED
    BY <2>1, <2>2
<1>18. ArePassed(chunks, packed + 1, sub_start)
  BY <1>1, <1>10, ParagraphFacts DEF ArePassed
<1>19. \A i \in 1..(packed + 1) : IsPlaced(paragraphs[i], chunks, pieces)
  <2>1. SUFFICES ASSUME NEW i \in 1..(packed + 1)
                 PROVE  IsPlaced(paragraphs[i], chunks, pieces)
    OBVIOUS
  <2>2. CASE i \in 1..packed
    <3>1. IsPlaced(paragraphs[i], spans, parts)
      BY <2>2 DEF ChunkInv, PackedInv
    <3>2. \A part \in ToSet(parts) :
             part \in ToSet(pieces) \/ \E k \in DOMAIN chunks : part \in ToSet(chunks[k].parts)
      BY <1>11, <1>14
    <3>. QED
      BY <3>1, <3>2, <1>12, PlacedStays, Zenon
  <2>3. CASE i = packed + 1
    BY <2>3, <1>1, <1>14 DEF IsPlaced, Current
  <2>. QED
    BY <2>2, <2>3, <1>1
<1>20. /\ \A paragraph, ks, ps : IsPlaced(paragraph, ks, ps) => IsPlaced(paragraph, ks, ps)'
       /\ \A ks : AreChunks(ks) => AreChunks(ks)'
       /\ \A ks, count, offset : ArePassed(ks, count, offset) => ArePassed(ks, count, offset)'
       /\ \A piece : IsLong(piece)' = IsLong(piece)
       /\ n' = n
  BY <1>2, PlacesStay, TextStays
<1>21. StageInv'
  BY <1>1, <1>2, <1>20, ParagraphFacts DEF StageInv
<1>22. PartsInv'
  <2>1. Pending' = Cardinality(Covered(pieces))
    BY <1>3 DEF Pending, Covered, ToSet
  <2>2. \A i \in DOMAIN pieces :
           pieces[i] = paragraphs[(packed + 1) - Len(pieces) + i] /\ ~IsLong(pieces[i])
    <3>1. SUFFICES ASSUME NEW i \in 1..(len + 1)
                   PROVE  pieces[i] = paragraphs[(packed + 1) - Len(pieces) + i] /\ ~IsLong(pieces[i])
      BY <1>14
    <3>2. pieces[i] = paragraphs[(packed + 1) - (len + 1) + i] /\ ~IsLong(pieces[i])
      BY <1>16
    <3>3. Len(pieces) = len + 1
      BY <1>14
    <3>. QED
      BY <3>2, <3>3, Zenon
  <2>3. (\A i \in DOMAIN parts :
           parts[i] = paragraphs[packed - Len(parts) + i] /\ ~IsLong(parts[i]))'
    BY <2>2, <1>2, <1>3, <1>20
  <2>. QED
    BY <2>1, <2>3, <1>1, <1>2, <1>3, <1>9, <1>14, <1>15 DEF PartsInv, m
<1>23. CutInv'
  BY <1>2, <1>5 DEF ChunkInv, CutInv
<1>24. SpansInv'
  <2>1. AreChunks(spans)' /\ ArePassed(spans, packed, sub_start)'
    BY <1>2, <1>10, <1>18, <1>20
  <2>. QED
    BY <2>1, <1>2, <1>3, <1>17 DEF SpansInv
<1>25. PackedInv'
  <2>1. (\A i \in 1..packed : IsPlaced(paragraphs[i], spans, parts))'
    BY <1>19, <1>20, <1>2, <1>3
  <2>. QED
    BY <2>1 DEF PackedInv
<1>. QED
  BY <1>1, <1>2, <1>3, <1>10, <1>14, <1>21, <1>22, <1>23, <1>24, <1>25

LEMMA FlushLastKeepsChunkInv ==
    ASSUME ChunkInv, FlushLast
    PROVE  /\ stage' = "chunked" /\ spans' \in Seq(Span) /\ parts' = <<>>
           /\ StageInv' /\ PartsInv' /\ CutInv' /\ SpansInv' /\ PackedInv'
<1>1. /\ packed \in Nat /\ sub_start \in Nat /\ max_chars \in Nat
      /\ start = n /\ n \in Nat /\ packed = Len(paragraphs)
  BY Positive, ParagraphFacts DEF ChunkInv, TypeOK, SplitInv, n, FlushLast
<1>2. /\ text' = text /\ max_chars' = max_chars /\ stage' = "chunked"
      /\ start' = start /\ paragraphs' = paragraphs /\ sub_start' = sub_start
      /\ spans' = Flushed /\ packed' = packed /\ parts' = <<>>
  BY DEF FlushLast, text_vars, split_vars
<1>3. /\ Flushed \in Seq(Span) /\ AreChunks(Flushed) /\ ArePassed(Flushed, packed, sub_start)
      /\ \A k \in DOMAIN spans : k \in DOMAIN Flushed /\ Flushed[k] = spans[k]
      /\ \A part \in ToSet(parts) : \E k \in DOMAIN Flushed : part \in ToSet(Flushed[k].parts)
  BY <1>1, FlushedFacts
<1>4. \A i \in 1..packed : IsPlaced(paragraphs[i], Flushed, <<>>)
  <2>1. \A i \in 1..packed : IsPlaced(paragraphs[i], spans, parts)
    BY DEF ChunkInv, PackedInv
  <2>. QED
    BY <2>1, <1>3, PlacedStays, Zenon
<1>5. /\ \A paragraph, ks, ps : IsPlaced(paragraph, ks, ps) => IsPlaced(paragraph, ks, ps)'
      /\ \A ks : AreChunks(ks) => AreChunks(ks)'
      /\ \A ks, count, offset : ArePassed(ks, count, offset) => ArePassed(ks, count, offset)'
      /\ n' = n
  BY <1>2, PlacesStay, TextStays
<1>6. StageInv'
  BY <1>1, <1>2, <1>5 DEF StageInv
<1>7. PartsInv'
  <2>1. Pending' = 0
    BY <1>2, FS_EmptySet DEF Pending, Covered, ToSet
  <2>. QED
    BY <2>1, <1>1, <1>2 DEF PartsInv
<1>8. CutInv'
  BY <1>1, <1>2 DEF ChunkInv, CutInv
<1>9. SpansInv'
  <2>1. AreChunks(spans)' /\ ArePassed(spans, packed, sub_start)'
    BY <1>2, <1>3, <1>5
  <2>. QED
    BY <2>1, <1>2 DEF SpansInv
<1>10. PackedInv'
  <2>1. (\A i \in 1..packed : IsPlaced(paragraphs[i], spans, parts))'
    BY <1>4, <1>5, <1>2
  <2>. QED
    BY <2>1 DEF PackedInv
<1>. QED
  BY <1>2, <1>3, <1>6, <1>7, <1>8, <1>9, <1>10

\* Before there is a paragraph there is nothing to hold of one.
LEMMA UnpackedIsChunkInv ==
    max_chars \in MaxChars /\ packed = 0 /\ sub_start = 0 /\ spans = <<>> /\ parts = <<>>
        => PartsInv /\ CutInv /\ SpansInv /\ PackedInv
<1>. SUFFICES ASSUME max_chars \in MaxChars, packed = 0, sub_start = 0, spans = <<>>, parts = <<>>
              PROVE  PartsInv /\ CutInv /\ SpansInv /\ PackedInv
  OBVIOUS
<1>1. max_chars \in Nat /\ max_chars > 0
  BY Positive
<1>2. Pending = 0
  BY FS_EmptySet DEF Pending, Covered, ToSet
<1>3. PartsInv
  BY <1>1, <1>2 DEF PartsInv
<1>4. CutInv
  BY <1>1 DEF CutInv
<1>5. SpansInv
  BY DEF SpansInv, AreChunks, ArePassed
<1>6. PackedInv
  BY DEF PackedInv
<1>. QED
  BY <1>3, <1>4, <1>5, <1>6

LEMMA UntypedIsSplitInv ==
    text \in Seq(Symbol) /\ start = 0 /\ paragraphs = <<>> => SplitInv
  BY DEF SplitInv, Ink, n

LEMMA SplitKeepsChunkInv ==
    ASSUME ChunkInv, Split
    PROVE  /\ start' \in Nat /\ paragraphs' \in Seq(Piece) /\ SplitInv'
           /\ StageInv' /\ PartsInv' /\ CutInv' /\ SpansInv' /\ PackedInv'
<1>1. SplitInv' /\ start' \in Nat /\ paragraphs' \in Seq(Piece) /\ start' <= n
  BY SplitKeepsSplitInv
<1>2. /\ stage = "chunking" /\ stage' = stage /\ start < n
      /\ text' = text /\ max_chars' = max_chars /\ max_chars \in MaxChars
      /\ packed' = packed /\ sub_start' = sub_start /\ spans' = spans /\ parts' = parts
  BY DEF ChunkInv, TypeOK, Split, text_vars, pack_vars
<1>3. packed = 0 /\ sub_start = 0 /\ spans = <<>> /\ parts = <<>>
  BY <1>2 DEF ChunkInv, StageInv
<1>4. (PartsInv /\ CutInv /\ SpansInv /\ PackedInv)'
  <2>1. (max_chars \in MaxChars /\ packed = 0 /\ sub_start = 0 /\ spans = <<>> /\ parts = <<>>)'
    BY <1>2, <1>3
  <2>. QED
    BY <2>1, UnpackedIsChunkInv, PTL
<1>5. StageInv'
  BY <1>1, <1>2, <1>3 DEF StageInv
<1>. QED
  BY <1>1, <1>4, <1>5

----------------------------------------------------------------------------
(***************************************************************************)
(* What is read of the section.                                            *)
(***************************************************************************)
LEMMA OffsetsFacts ==
    ASSUME NEW from \in Nat, NEW to \in Nat
    PROVE  /\ Offsets(from, to) \in Seq(Nat)
           /\ from <= to => Len(Offsets(from, to)) = to - from
           /\ DOMAIN Offsets(from, to) = 1..(to - from)
           /\ \A i \in 1..(to - from) : Offsets(from, to)[i] = from + i - 1
<1>1. \A i \in 1..(to - from) : from + i - 1 \in Nat
  OBVIOUS
<1>2. CASE from <= to
  BY <1>1, <1>2 DEF Offsets
<1>3. CASE to < from
  <2>1. 1..(to - from) = {}
    BY <1>3
  <2>2. Offsets(from, to) = <<>>
    BY <2>1 DEF Offsets
  <2>. QED
    BY <2>1, <2>2, <1>3
<1>. QED
  BY <1>2, <1>3

\* A bullet jumps in the text at the ends of lines only.
IsBullet(b) ==
    /\ b \in Seq(Nat) /\ b # <<>>
    /\ \A i \in DOMAIN b : b[i] < n
    /\ \A i, j \in DOMAIN b :
          i < j /\ (\A k \in i..j : ~EndsLine(b[k])) => b[j] = b[i] + (j - i)

LEMMA OffsetsAreBullet ==
    ASSUME NEW from \in Nat, NEW to \in Nat, from < to, to <= n, n \in Nat
    PROVE  IsBullet(Offsets(from, to))
<1>1. /\ Offsets(from, to) \in Seq(Nat) /\ Len(Offsets(from, to)) = to - from
      /\ DOMAIN Offsets(from, to) = 1..(to - from)
      /\ \A i \in 1..(to - from) : Offsets(from, to)[i] = from + i - 1
  BY OffsetsFacts
<1>2. Offsets(from, to) # <<>>
  BY <1>1
<1>3. \A i \in 1..(to - from) : Offsets(from, to)[i] < n
  BY <1>1
<1>4. \A i, j \in 1..(to - from) : Offsets(from, to)[j] = Offsets(from, to)[i] + (j - i)
  BY <1>1
<1>. QED
  BY <1>1, <1>2, <1>3, <1>4 DEF IsBullet

\* A line that goes on with a bullet is joined at the end of the line before.
LEMMA ContinuedIsBullet ==
    ASSUME n \in Nat, NEW b, IsBullet(b), NEW joint \in Nat, joint < n, EndsLine(joint),
           NEW from \in Nat, NEW to \in Nat, from < to, to <= n
    PROVE  IsBullet(b \o <<joint>> \o Offsets(from, to))
<1>. DEFINE tail == Offsets(from, to)
            head == b \o <<joint>>
            c == head \o tail
            len == Len(b)
            size == to - from
<1>1. /\ tail \in Seq(Nat) /\ Len(tail) = size /\ size \in Nat
      /\ \A i \in 1..size : tail[i] = from + i - 1
  <2>1. from <= to /\ size \in Nat
    OBVIOUS
  <2>. QED
    BY <2>1, OffsetsFacts, Zenon
<1>2. b \in Seq(Nat) /\ len \in Nat /\ DOMAIN b = 1..len
  BY DEF IsBullet
<1>. HIDE DEF tail, size
<1>3. /\ c \in Seq(Nat) /\ DOMAIN c = 1..(len + 1 + size) /\ c # <<>>
      /\ \A i \in 1..len : c[i] = b[i]
      /\ c[len + 1] = joint
      /\ \A i \in 1..size : c[len + 1 + i] = tail[i]
  <2>1. /\ head \in Seq(Nat) /\ Len(head) = len + 1 /\ head[len + 1] = joint
        /\ \A i \in 1..len : head[i] = b[i]
    BY <1>2
  <2>. HIDE DEF head, len
  <2>2. c \in Seq(Nat) /\ Len(c) = len + 1 + size
    <3>1. head \in Seq(Nat) /\ tail \in Seq(Nat) /\ Len(head) = len + 1 /\ Len(tail) = size
      BY <2>1, <1>1
    <3>2. c \in Seq(Nat) /\ Len(c) = Len(head) + Len(tail)
      BY <3>1
    <3>. QED
      BY <3>1, <3>2
  <2>3. \A i \in 1..(len + 1) : c[i] = head[i]
    BY <2>1, <1>1, <1>2
  <2>4. \A i \in 1..size : c[len + 1 + i] = tail[i]
    BY <2>1, <1>1, <1>2
  <2>. QED
    BY <2>1, <2>2, <2>3, <2>4, <1>1, <1>2
<1>. HIDE DEF c, len
<1>4. \A i \in (len + 2)..(len + 1 + size) : c[i] = from + (i - len - 1) - 1
  <2>1. SUFFICES ASSUME NEW i \in (len + 2)..(len + 1 + size)
                 PROVE  c[i] = from + (i - len - 1) - 1
    OBVIOUS
  <2>2. i - len - 1 \in 1..size /\ len + 1 + (i - len - 1) = i
    BY <1>1, <1>2
  <2>. QED
    BY <2>2, <1>1, <1>3
<1>5. \A i \in 1..(len + 1 + size) : c[i] < n
  <2>1. SUFFICES ASSUME NEW i \in 1..(len + 1 + size)
                 PROVE  c[i] < n
    OBVIOUS
  <2>2. CASE i \in 1..len
    BY <2>2, <1>2, <1>3 DEF IsBullet
  <2>3. CASE i = len + 1
    BY <2>3, <1>3
  <2>4. CASE i \in (len + 2)..(len + 1 + size)
    BY <2>4, <1>1, <1>2, <1>4 DEF size
  <2>. QED
    BY <2>1, <2>2, <2>3, <2>4, <1>1, <1>2
<1>6. ASSUME NEW i \in 1..(len + 1 + size), NEW j \in 1..(len + 1 + size), i < j,
             \A k \in i..j : ~EndsLine(c[k])
      PROVE  c[j] = c[i] + (j - i)
  <2>1. len + 1 \notin i..j
    BY <1>3, <1>6
  <2>2. CASE j <= len
    <3>1. i \in 1..len /\ j \in 1..len
      BY <2>2, <1>2, <1>6
    <3>2. \A k \in i..j : ~EndsLine(b[k])
      BY <3>1, <1>2, <1>3, <1>6
    <3>. QED
      BY <3>1, <3>2, <1>2, <1>3, <1>6 DEF IsBullet
  <2>3. CASE len + 1 < i
    <3>1. i \in (len + 2)..(len + 1 + size) /\ j \in (len + 2)..(len + 1 + size)
      BY <2>3, <1>1, <1>2, <1>6
    <3>. QED
      BY <3>1, <1>2, <1>4
  <2>. QED
    BY <2>1, <2>2, <2>3, <1>2, <1>6
<1>. QED
  BY <1>3, <1>5, <1>6 DEF IsBullet, c, head, tail

LEMMA LineEndFacts ==
    ASSUME TypeOK, NEW from \in Nat, from < n
    PROVE  /\ n \in Nat /\ LineEndsAt(from) \in from..n
           /\ ~EndsLine(from) => from < LineEndsAt(from)
<1>. DEFINE S == {i \in from..(n - 1) : text[i + 1] = LineEnd} \cup {n}
<1>1. n \in Nat
  BY DEF TypeOK, n
<1>2. S \in SUBSET Nat /\ S # {} /\ \A x \in S : from <= x /\ x <= n
  BY <1>1
<1>3. LineEndsAt(from) = Min(S)
  BY DEF LineEndsAt
<1>4. ~EndsLine(from) => from \notin S
  BY <1>1 DEF EndsLine
<1>5. Min(S) \in S
  BY <1>2, LeastOf
<1>. HIDE DEF S
<1>6. Min(S) \in Nat /\ from <= Min(S) /\ Min(S) <= n
  BY <1>2, <1>5
<1>7. ~EndsLine(from) => Min(S) # from
  BY <1>4, <1>5
<1>. QED
  BY <1>1, <1>3, <1>6, <1>7

LEMMA SectionFacts ==
    ASSUME TypeOK
    PROVE  \A from \in Section :
              from \in Nat /\ 0 < from /\ from < n /\ EndsLine(from - 1)
<1>. SUFFICES ASSUME NEW from \in Section
              PROVE  from \in Nat /\ 0 < from /\ from < n /\ EndsLine(from - 1)
  OBVIOUS
<1>. DEFINE headings == {at \in LineStarts : Begins(at, {Heading})}
<1>1. LineStarts \in SUBSET Nat
  BY DEF LineStarts, TypeOK, n
<1>2. headings # {} /\ Min(headings) < from /\ from < n /\ from \in LineStarts
  BY DEF Section
<1>3. Min(headings) \in Nat
  BY <1>1, <1>2, LeastOf
<1>. HIDE DEF headings
<1>4. from \in Nat /\ from # 0
  BY <1>1, <1>2, <1>3
<1>5. PICK i \in 0..(n - 1) : from = i + 1 /\ text[i + 1] = LineEnd
  BY <1>2, <1>4 DEF LineStarts
<1>6. from - 1 = i
  BY <1>5
<1>. QED
  BY <1>2, <1>4, <1>5, <1>6 DEF EndsLine

BulletInv ==
    /\ stage # "chunked" => bullets = <<>>
    /\ \A b \in ToSet(bullets) : IsBullet(b)

\* A line adds a bullet or goes on with the last one.
LEMMA JoinedAreBullets ==
    ASSUME TypeOK, BulletInv, NEW from \in Section
    PROVE  Joined(from) \in Seq(Seq(Nat)) /\ \A b \in ToSet(Joined(from)) : IsBullet(b)
<1>. DEFINE end == LineEndsAt(from)
            words == Stripped(from, end)
            len == Len(bullets)
<1>1. /\ from \in Nat /\ 0 < from /\ from < n /\ EndsLine(from - 1) /\ n \in Nat
      /\ end \in Nat /\ from <= end /\ end <= n
      /\ ~EndsLine(from) => from < end
  BY SectionFacts, LineEndFacts
<1>2. /\ bullets \in Seq(Seq(Nat)) /\ len \in Nat /\ DOMAIN bullets = 1..len
      /\ \A i \in 1..len : IsBullet(bullets[i])
  BY DEF TypeOK, BulletInv, ToSet
<1>. HIDE DEF end, len
<1>3. CASE Begins(from, {NamedBullet, PlainBullet})
  <2>1. ~EndsLine(from)
    BY <1>3 DEF Begins, EndsLine, NamedBullet, PlainBullet, LineEnd
  <2>2. IsBullet(Offsets(from, end)) /\ Offsets(from, end) \in Seq(Nat)
    <3>1. IsBullet(Offsets(from, end))
      BY <2>1, <1>1, OffsetsAreBullet
    <3>. QED
      BY <3>1 DEF IsBullet
  <2>3. Joined(from) = Append(bullets, Offsets(from, end))
    BY <1>3 DEF Joined, end
  <2>. QED
    BY <2>2, <2>3, <1>2 DEF ToSet, len
<1>4. CASE /\ ~Begins(from, {NamedBullet, PlainBullet})
           /\ bullets = <<>> \/ Ink(from, end) = {}
  <2>1. Joined(from) = bullets
    BY <1>4 DEF Joined, end
  <2>. QED
    BY <2>1, <1>2 DEF BulletInv
<1>5. CASE /\ ~Begins(from, {NamedBullet, PlainBullet})
           /\ bullets # <<>> /\ Ink(from, end) # {}
  <2>. DEFINE more == bullets[len] \o <<from - 1>> \o Offsets(words.start, words.end)
  <2>1. /\ words.start \in Nat /\ words.end \in Nat /\ words.start < words.end /\ words.end <= n
    <3>1. words \in Piece /\ words.start < words.end /\ words.end <= end
      BY <1>1, <1>5, StrippedFacts
    <3>. HIDE DEF words
    <3>2. words.start \in Nat /\ words.end \in Nat
      BY <3>1 DEF Piece
    <3>. QED
      BY <3>1, <3>2, <1>1
  <2>2. len \in 1..len
    BY <1>2, <1>5 DEF len
  <2>3. from - 1 \in Nat /\ from - 1 < n
    BY <1>1
  <2>. HIDE DEF words
  <2>4. IsBullet(more)
    BY <2>1, <2>2, <2>3, <1>1, <1>2, ContinuedIsBullet
  <2>5. more \in Seq(Nat)
    BY <2>4 DEF IsBullet
  <2>6. Joined(from) = [bullets EXCEPT ![len] = more]
    BY <1>5 DEF Joined, end, words, len
  <2>. HIDE DEF more
  <2>7. /\ Joined(from) \in Seq(Seq(Nat)) /\ DOMAIN Joined(from) = 1..len
        /\ \A i \in 1..len : Joined(from)[i] = IF i = len THEN more ELSE bullets[i]
    BY <2>2, <2>5, <2>6, <1>2
  <2>. QED
    BY <2>4, <2>7, <1>2 DEF ToSet
<1>. QED
  BY <1>3, <1>4, <1>5

----------------------------------------------------------------------------
Inv == ChunkInv /\ BulletInv

LEMMA ChunksStay ==
    ASSUME ChunkInv, UNCHANGED <<text_vars, split_vars, pack_vars>>
    PROVE  (SplitInv /\ PartsInv /\ CutInv /\ SpansInv /\ PackedInv)'
<1>1. /\ text' = text /\ max_chars' = max_chars /\ start' = start /\ paragraphs' = paragraphs
      /\ packed' = packed /\ sub_start' = sub_start /\ spans' = spans /\ parts' = parts
  BY DEF text_vars, split_vars, pack_vars
<1>2. /\ SplitInv /\ PartsInv /\ CutInv /\ SpansInv /\ PackedInv
  BY DEF ChunkInv
<1>3. /\ \A paragraph, to, chunks : IsCut(paragraph, to, chunks) => IsCut(paragraph, to, chunks)'
      /\ \A paragraph, chunks, pieces :
            IsPlaced(paragraph, chunks, pieces) => IsPlaced(paragraph, chunks, pieces)'
      /\ \A chunks : AreChunks(chunks) => AreChunks(chunks)'
      /\ \A chunks, count, offset :
            ArePassed(chunks, count, offset) => ArePassed(chunks, count, offset)'
      /\ \A piece : IsLong(piece)' = IsLong(piece)
      /\ n' = n
  BY <1>1, PlacesStay, TextStays
<1>4. SplitInv'
  BY <1>1, <1>2, SplitInvStays
<1>5. PartsInv'
  BY <1>1, <1>2, <1>3 DEF PartsInv, Pending, Covered, ToSet
<1>6. CutInv'
  <2>1. Current' = Current
    BY <1>1 DEF Current
  <2>2. IsCut(Current, Current.start + sub_start, spans)
           => IsCut(Current, Current.start + sub_start, spans)'
    BY <2>1, <1>1, <1>3
  <2>. QED
    BY <2>1, <2>2, <1>1, <1>2, <1>3 DEF CutInv, Size
<1>7. SpansInv'
  BY <1>1, <1>2, <1>3 DEF SpansInv
<1>8. PackedInv'
  <2>1. (\A i \in 1..packed : IsPlaced(paragraphs[i], spans, parts))'
    BY <1>1, <1>2, <1>3 DEF PackedInv
  <2>. QED
    BY <2>1 DEF PackedInv
<1>. QED
  BY <1>4, <1>5, <1>6, <1>7, <1>8

LEMMA BulletsStay ==
    ASSUME BulletInv, text' = text, bullets' = bullets,
           stage' = "chunked" \/ stage # "chunked"
    PROVE  BulletInv'
<1>1. \A b : IsBullet(b) => IsBullet(b)'
  BY DEF IsBullet, EndsLine, n
<1>2. (\A b \in ToSet(bullets) : IsBullet(b))'
  BY <1>1 DEF BulletInv, ToSet
<1>. QED
  BY <1>2 DEF BulletInv

LEMMA InitIsInv == DocumentInit => Inv
<1>. SUFFICES ASSUME DocumentInit PROVE Inv
  OBVIOUS
<1>1. /\ text \in Seq(Symbol) /\ max_chars \in MaxChars /\ stage = "typing" /\ start = 0
      /\ paragraphs = <<>> /\ packed = 0 /\ sub_start = 0 /\ spans = <<>> /\ parts = <<>>
      /\ line = 0 /\ bullets = <<>> /\ n \in Nat
  <2>1. <<>> \in Seq(Symbol) /\ <<Heading, LineEnd>> \in Seq(Symbol)
    BY DEF Symbol
  <2>. QED
    BY <2>1 DEF DocumentInit, Unchunked, n
<1>2. TypeOK
  BY <1>1 DEF TypeOK
<1>3. SplitInv
  BY <1>1, UntypedIsSplitInv
<1>4. PartsInv /\ CutInv /\ SpansInv /\ PackedInv
  BY <1>1, UnpackedIsChunkInv
<1>5. StageInv
  BY <1>1 DEF StageInv
<1>6. BulletInv
  BY <1>1 DEF BulletInv, ToSet
<1>. QED
  BY <1>2, <1>3, <1>4, <1>5, <1>6 DEF Inv, ChunkInv

LEMMA TypeKeepsInv ==
    ASSUME Inv, NEW char \in Symbol, Type(char), UNCHANGED reading_vars
    PROVE  Inv'
<1>1. /\ text' = Append(text, char) /\ text \in Seq(Symbol) /\ max_chars \in MaxChars
      /\ max_chars' = max_chars /\ stage = "typing" /\ stage' = stage
      /\ start' = start /\ paragraphs' = paragraphs /\ packed' = packed
      /\ sub_start' = sub_start /\ spans' = spans /\ parts' = parts
      /\ line' = line /\ bullets' = bullets
  BY DEF Inv, ChunkInv, TypeOK, Type, split_vars, pack_vars, reading_vars
<1>2. /\ start = 0 /\ paragraphs = <<>> /\ packed = 0 /\ sub_start = 0
      /\ spans = <<>> /\ parts = <<>> /\ bullets = <<>>
  BY <1>1 DEF Inv, ChunkInv, StageInv, BulletInv
<1>3. TypeOK'
  BY <1>1 DEF Inv, ChunkInv, TypeOK
<1>4. SplitInv'
  <2>1. (text \in Seq(Symbol) /\ start = 0 /\ paragraphs = <<>>)'
    BY <1>1, <1>2
  <2>. QED
    BY <2>1, UntypedIsSplitInv, PTL
<1>5. (PartsInv /\ CutInv /\ SpansInv /\ PackedInv)'
  <2>1. (max_chars \in MaxChars /\ packed = 0 /\ sub_start = 0 /\ spans = <<>> /\ parts = <<>>)'
    BY <1>1, <1>2
  <2>. QED
    BY <2>1, UnpackedIsChunkInv, PTL
<1>6. StageInv'
  BY <1>1, <1>2 DEF StageInv
<1>7. BulletInv'
  BY <1>1, <1>2 DEF BulletInv, ToSet
<1>. QED
  BY <1>3, <1>4, <1>5, <1>6, <1>7 DEF Inv, ChunkInv

LEMMA ChunkTextKeepsInv ==
    ASSUME Inv, ChunkText, UNCHANGED reading_vars
    PROVE  Inv'
<1>1. /\ stage = "typing" /\ stage' = "chunking" /\ UNCHANGED <<text_vars, split_vars, pack_vars>>
      /\ line' = line /\ bullets' = bullets
  BY DEF ChunkText, reading_vars
<1>2. TypeOK'
  BY <1>1 DEF Inv, ChunkInv, TypeOK, text_vars, split_vars, pack_vars
<1>3. (SplitInv /\ PartsInv /\ CutInv /\ SpansInv /\ PackedInv)'
  BY <1>1, ChunksStay DEF Inv
<1>4. StageInv'
  BY <1>1 DEF Inv, ChunkInv, StageInv, text_vars, split_vars, pack_vars
<1>5. BulletInv'
  BY <1>1, BulletsStay DEF Inv, text_vars
<1>. QED
  BY <1>2, <1>3, <1>4, <1>5 DEF Inv, ChunkInv

LEMMA ReadLineKeepsInv ==
    ASSUME Inv, ReadLine
    PROVE  Inv'
<1>. DEFINE from == Min(Unread)
<1>1. /\ stage = "chunked" /\ Unread # {} /\ bullets' = Joined(from) /\ line' = from + 1
      /\ UNCHANGED <<text_vars, split_vars, pack_vars>> /\ stage' = stage
      /\ TypeOK /\ BulletInv
  BY DEF ReadLine, chunking_vars, Inv, ChunkInv
<1>2. from \in Section /\ from \in Nat
  <2>1. Unread \in SUBSET Nat /\ Unread \in SUBSET Section
    BY <1>1, SectionFacts DEF Unread
  <2>. QED
    BY <2>1, <1>1, LeastOf
<1>. HIDE DEF from
<1>3. Joined(from) \in Seq(Seq(Nat)) /\ \A b \in ToSet(Joined(from)) : IsBullet(b)
  BY <1>1, <1>2, JoinedAreBullets
<1>4. TypeOK'
  BY <1>1, <1>2, <1>3 DEF TypeOK, text_vars, split_vars, pack_vars
<1>5. (SplitInv /\ PartsInv /\ CutInv /\ SpansInv /\ PackedInv)'
  BY <1>1, ChunksStay DEF Inv
<1>6. StageInv'
  BY <1>1 DEF Inv, ChunkInv, StageInv, n, text_vars, split_vars, pack_vars
<1>7. BulletInv'
  <2>1. \A b : IsBullet(b) => IsBullet(b)'
    BY <1>1 DEF IsBullet, EndsLine, n, text_vars
  <2>2. (\A b \in ToSet(bullets) : IsBullet(b))'
    BY <2>1, <1>1, <1>3 DEF ToSet
  <2>. QED
    BY <2>2, <1>1 DEF BulletInv
<1>. QED
  BY <1>4, <1>5, <1>6, <1>7 DEF Inv, ChunkInv

LEMMA ChunkingKeepsInv ==
    ASSUME Inv, Split \/ CutWindow \/ Pack \/ FlushLast, UNCHANGED reading_vars
    PROVE  Inv'
<1>1. /\ line' = line /\ bullets' = bullets /\ ChunkInv /\ TypeOK /\ SplitInv
  BY DEF Inv, ChunkInv, reading_vars
<1>2. BulletInv'
  <2>1. text' = text /\ stage # "chunked"
    BY DEF Split, CutWindow, Pack, FlushLast, Packing, text_vars
  <2>. QED
    BY <2>1, <1>1, BulletsStay DEF Inv
<1>3. CASE Split
  <2>1. /\ start' \in Nat /\ paragraphs' \in Seq(Piece) /\ SplitInv'
        /\ StageInv' /\ PartsInv' /\ CutInv' /\ SpansInv' /\ PackedInv'
    BY <1>1, <1>3, SplitKeepsChunkInv
  <2>2. TypeOK'
    BY <2>1, <1>1, <1>3 DEF TypeOK, Split, text_vars, pack_vars
  <2>. QED
    BY <2>1, <2>2, <1>2 DEF Inv, ChunkInv
<1>4. CASE CutWindow
  <2>1. /\ sub_start' \in Nat /\ packed' \in Nat /\ spans' \in Seq(Span) /\ parts' \in Seq(Piece)
        /\ StageInv' /\ PartsInv' /\ CutInv' /\ SpansInv' /\ PackedInv'
    BY <1>1, <1>4, CutWindowKeepsChunkInv
  <2>2. /\ text' = text /\ max_chars' = max_chars /\ stage' = stage
        /\ start' = start /\ paragraphs' = paragraphs
    BY <1>4 DEF CutWindow, text_vars, split_vars
  <2>3. TypeOK'
    BY <2>1, <2>2, <1>1 DEF TypeOK
  <2>4. SplitInv'
    BY <2>2, <1>1, SplitInvStays
  <2>. QED
    BY <2>1, <2>3, <2>4, <1>2 DEF Inv, ChunkInv
<1>5. CASE Pack
  <2>1. /\ packed' \in Nat /\ spans' \in Seq(Span) /\ parts' \in Seq(Piece)
        /\ StageInv' /\ PartsInv' /\ CutInv' /\ SpansInv' /\ PackedInv'
    BY <1>1, <1>5, PackKeepsChunkInv
  <2>2. /\ text' = text /\ max_chars' = max_chars /\ stage' = stage
        /\ start' = start /\ paragraphs' = paragraphs /\ sub_start' = sub_start
    BY <1>5 DEF Pack, text_vars, split_vars
  <2>3. TypeOK'
    BY <2>1, <2>2, <1>1 DEF TypeOK
  <2>4. SplitInv'
    BY <2>2, <1>1, SplitInvStays
  <2>. QED
    BY <2>1, <2>3, <2>4, <1>2 DEF Inv, ChunkInv
<1>6. CASE FlushLast
  <2>1. /\ stage' = "chunked" /\ spans' \in Seq(Span) /\ parts' = <<>>
        /\ StageInv' /\ PartsInv' /\ CutInv' /\ SpansInv' /\ PackedInv'
    BY <1>1, <1>6, FlushLastKeepsChunkInv
  <2>2. /\ text' = text /\ max_chars' = max_chars /\ packed' = packed
        /\ start' = start /\ paragraphs' = paragraphs /\ sub_start' = sub_start
    BY <1>6 DEF FlushLast, text_vars, split_vars
  <2>3. TypeOK'
    BY <2>1, <2>2, <1>1 DEF TypeOK
  <2>4. SplitInv'
    BY <2>2, <1>1, SplitInvStays
  <2>. QED
    BY <2>1, <2>3, <2>4, <1>2 DEF Inv, ChunkInv
<1>. QED
  BY <1>3, <1>4, <1>5, <1>6

LEMMA StepKeepsInv == Inv /\ [DocumentNext]_<<chunking_vars, reading_vars>> => Inv'
<1>. SUFFICES ASSUME Inv, [DocumentNext]_<<chunking_vars, reading_vars>>
              PROVE  Inv'
  OBVIOUS
<1>1. ASSUME NEW char \in {Letter, Blank, LineEnd, Word, NamedBullet, PlainBullet, OtherHeading},
             Type(char), UNCHANGED reading_vars
      PROVE  Inv'
  <2>1. char \in Symbol
    BY DEF Symbol
  <2>. QED
    BY <2>1, <1>1, TypeKeepsInv
<1>2. CASE Next /\ UNCHANGED reading_vars
  BY <1>1, <1>2, ChunkTextKeepsInv, ChunkingKeepsInv DEF Next
<1>3. CASE /\ n > 0 /\ text[1] = Heading
           /\ \/ Type(Word)
              \/ n \in LineStarts
                 /\ \E char \in {NamedBullet, PlainBullet, OtherHeading} : Type(char)
           /\ UNCHANGED reading_vars
  BY <1>1, <1>3
<1>4. CASE ReadLine
  BY <1>4, ReadLineKeepsInv
<1>5. CASE UNCHANGED <<chunking_vars, reading_vars>>
  <2>1. /\ UNCHANGED <<text_vars, split_vars, pack_vars>> /\ stage' = stage
        /\ line' = line /\ bullets' = bullets /\ text' = text
    BY <1>5 DEF chunking_vars, reading_vars, text_vars
  <2>2. TypeOK'
    BY <2>1 DEF Inv, ChunkInv, TypeOK, text_vars, split_vars, pack_vars
  <2>3. (SplitInv /\ PartsInv /\ CutInv /\ SpansInv /\ PackedInv)'
    BY <2>1, ChunksStay DEF Inv
  <2>4. StageInv'
    BY <2>1 DEF Inv, ChunkInv, StageInv, n, text_vars, split_vars, pack_vars
  <2>5. BulletInv'
    BY <2>1, BulletsStay DEF Inv
  <2>. QED
    BY <2>2, <2>3, <2>4, <2>5 DEF Inv, ChunkInv
<1>. QED
  BY <1>2, <1>3, <1>4, <1>5 DEF DocumentNext

LEMMA InvHolds == DocumentSpec => []Inv
  BY InitIsInv, StepKeepsInv, PTL DEF DocumentSpec

----------------------------------------------------------------------------
(***************************************************************************)
(* What has been made of the text.                                         *)
(***************************************************************************)
LEMMA ChunksAreSpans ==
    ASSUME Inv, stage = "chunked"
    PROVE  /\ \A chunk \in Chunks : \E k \in DOMAIN spans : chunk = spans[k]
           /\ \A k \in DOMAIN spans : spans[k].parts # <<>> => spans[k] \in Chunks
           /\ \A k \in DOMAIN spans :
                 /\ k \in Nat /\ spans[k] \in Span
                 /\ spans[k].start \in Nat /\ spans[k].end \in Nat
                 /\ spans[k].index = k - 1 /\ IsChunk(spans[k])
           /\ \A k, l \in DOMAIN spans : k < l => spans[k].end <= spans[l].start
<1>1. /\ spans \in Seq(Span) /\ \A k \in DOMAIN spans : spans[k].index = k - 1 /\ IsChunk(spans[k])
      /\ \A k, l \in DOMAIN spans : k < l => spans[k].end <= spans[l].start
  BY DEF Inv, ChunkInv, TypeOK, SpansInv, AreChunks
<1>2. \A k \in DOMAIN spans : k \in Nat /\ spans[k] \in Span
  BY <1>1
<1>3. \A k \in DOMAIN spans : spans[k].start \in Nat /\ spans[k].end \in Nat
  BY <1>2 DEF Span
<1>4. /\ \A chunk \in Chunks : \E k \in DOMAIN spans : chunk = spans[k]
      /\ \A k \in DOMAIN spans : spans[k].parts # <<>> => spans[k] \in Chunks
  BY DEF Chunks, ToSet
<1>. QED
  BY <1>1, <1>2, <1>3, <1>4

\* What is printed is in a paragraph, that is in a chunk or cut in windows.
LEMMA PrintedIsPlaced ==
    ASSUME Inv, stage = "chunked", NEW offset \in Ink(0, n)
    PROVE  \E i \in DOMAIN paragraphs :
              /\ offset \in paragraphs[i].start..(paragraphs[i].end - 1)
              /\ IF IsLong(paragraphs[i])
                 THEN \E k \in DOMAIN spans : IsWindow(spans[k], paragraphs[i], offset)
                 ELSE \E k \in DOMAIN spans : paragraphs[i] \in ToSet(spans[k].parts)
<1>1. start = n /\ packed = Len(paragraphs) /\ parts = <<>> /\ ChunkInv
  BY DEF Inv, ChunkInv, StageInv
<1>2. PICK i \in DOMAIN paragraphs : offset \in paragraphs[i].start..(paragraphs[i].end - 1)
  BY <1>1 DEF ChunkInv, SplitInv
<1>3. i \in 1..packed
  BY <1>1, <1>2, ParagraphFacts
<1>4. IsPlaced(paragraphs[i], spans, parts)
  BY <1>1, <1>3 DEF ChunkInv, PackedInv
<1>5. paragraphs[i] \notin ToSet(parts)
  BY <1>1 DEF ToSet
<1>. QED
  BY <1>2, <1>4, <1>5 DEF IsPlaced, IsCut

\* So it is in a chunk.
LEMMA PrintedIsInChunk ==
    ASSUME Inv, stage = "chunked", NEW offset \in Ink(0, n)
    PROVE  \E chunk \in Chunks : offset \in InkOf(chunk)
<1>1. PICK i \in DOMAIN paragraphs :
         /\ offset \in paragraphs[i].start..(paragraphs[i].end - 1)
         /\ IF IsLong(paragraphs[i])
            THEN \E k \in DOMAIN spans : IsWindow(spans[k], paragraphs[i], offset)
            ELSE \E k \in DOMAIN spans : paragraphs[i] \in ToSet(spans[k].parts)
  BY PrintedIsPlaced
<1>2. offset \in Nat /\ text[offset + 1] \notin {Blank, LineEnd}
  BY ParagraphFacts DEF Inv, Ink
<1>3. CASE IsLong(paragraphs[i])
  <2>1. PICK k \in DOMAIN spans : IsWindow(spans[k], paragraphs[i], offset)
    BY <1>1, <1>3
  <2>2. offset \in Ink(spans[k].start, spans[k].end)
    BY <2>1, <1>2, ChunksAreSpans DEF IsWindow, Ink
  <2>3. spans[k].parts # <<>>
    BY <2>1, <2>2 DEF IsWindow
  <2>4. offset \in InkOf(spans[k])
    BY <2>1, <2>2, ChunksAreSpans DEF IsChunk
  <2>. QED
    BY <2>1, <2>3, <2>4, ChunksAreSpans
<1>4. CASE ~IsLong(paragraphs[i])
  <2>1. PICK k \in DOMAIN spans : paragraphs[i] \in ToSet(spans[k].parts)
    BY <1>1, <1>4
  <2>2. offset \in Ink(paragraphs[i].start, paragraphs[i].end)
    BY <1>1, <1>2 DEF Ink
  <2>3. spans[k].parts # <<>>
    BY <2>1 DEF ToSet
  <2>4. offset \in InkOf(spans[k])
    BY <2>1, <2>2 DEF InkOf
  <2>. QED
    BY <2>1, <2>3, <2>4, ChunksAreSpans
<1>. QED
  BY <1>3, <1>4

LEMMA InvPartitions == Inv => ChunksPartitionText
<1>. SUFFICES ASSUME Inv, stage = "chunked"
              PROVE  ChunksPartitionText
  BY DEF ChunksPartitionText
<1>1. n \in Nat
  BY DEF Inv, ChunkInv, TypeOK, n
<1>2. \A k \in DOMAIN spans : InkOf(spans[k]) \subseteq Ink(0, n)
  BY <1>1, ChunksAreSpans DEF IsChunk, Ink
<1>3. UNION {InkOf(chunk) : chunk \in Chunks} = Ink(0, n)
  <2>1. UNION {InkOf(chunk) : chunk \in Chunks} \subseteq Ink(0, n)
    BY <1>2, ChunksAreSpans
  <2>2. Ink(0, n) \subseteq UNION {InkOf(chunk) : chunk \in Chunks}
    BY PrintedIsInChunk
  <2>. QED
    BY <2>1, <2>2
<1>4. ASSUME NEW chunk \in Chunks
      PROVE  /\ InkOf(chunk) = Ink(chunk.start, chunk.end)
             /\ \A i, j \in DOMAIN chunk.parts :
                   i < j => chunk.parts[i].end <= chunk.parts[j].start
             /\ Cardinality(Covered(chunk.parts)) <= max_chars
  BY ChunksAreSpans DEF IsChunk
<1>5. ASSUME NEW chunk \in Chunks, NEW other \in Chunks
      PROVE  /\ other.index = chunk.index => other = chunk
             /\ other.index < chunk.index => other.end <= chunk.start
  <2>1. PICK k \in DOMAIN spans : chunk = spans[k]
    BY ChunksAreSpans
  <2>2. PICK l \in DOMAIN spans : other = spans[l]
    BY ChunksAreSpans
  <2>3. k \in Nat /\ l \in Nat /\ chunk.index = k - 1 /\ other.index = l - 1
    BY <2>1, <2>2, ChunksAreSpans
  <2>. QED
    BY <2>1, <2>2, <2>3, ChunksAreSpans
<1>. QED
  BY <1>3, <1>4, <1>5 DEF ChunksPartitionText

\* ChunksPartitionText for any text, any bounds and any max_chars: chunk_text
\* loses and repeats nothing (chunking.py).
THEOREM ChunksSayAllOfTheText == DocumentSpec => []ChunksPartitionText
  BY InvHolds, InvPartitions, PTL

----------------------------------------------------------------------------
(***************************************************************************)
(* The evidence of a component.                                            *)
(***************************************************************************)
LEMMA PartOfBullet ==
    ASSUME n \in Nat, NEW b, IsBullet(b), NEW lo \in Nat, NEW hi \in Nat,
           1 <= lo, lo <= hi, hi <= Len(b)
    PROVE  /\ IsBullet(SubSeq(b, lo, hi)) /\ Len(SubSeq(b, lo, hi)) = hi - lo + 1
           /\ \A i \in 1..(hi - lo + 1) : SubSeq(b, lo, hi)[i] = b[lo + i - 1]
<1>. DEFINE c == SubSeq(b, lo, hi)
            len == hi - lo + 1
<1>1. b \in Seq(Nat) /\ Len(b) \in Nat /\ DOMAIN b = 1..Len(b)
  BY DEF IsBullet
<1>2. /\ c \in Seq(Nat) /\ Len(c) = len /\ DOMAIN c = 1..len /\ len \in Nat /\ len > 0
      /\ \A i \in 1..len : c[i] = b[lo + i - 1]
  BY <1>1
<1>. HIDE DEF c
<1>3. \A i \in 1..len : lo + i - 1 \in DOMAIN b
  BY <1>1
<1>4. c # <<>>
  BY <1>2
<1>5. \A i \in DOMAIN c : c[i] < n
  BY <1>2, <1>3 DEF IsBullet
<1>6. ASSUME NEW i \in 1..len, NEW j \in 1..len, i < j, \A k \in i..j : ~EndsLine(c[k])
      PROVE  c[j] = c[i] + (j - i)
  <2>1. /\ lo + i - 1 \in DOMAIN b /\ lo + j - 1 \in DOMAIN b /\ lo + i - 1 < lo + j - 1
        /\ (lo + j - 1) - (lo + i - 1) = j - i
    BY <1>3, <1>6
  <2>2. ASSUME NEW k \in (lo + i - 1)..(lo + j - 1)
        PROVE  ~EndsLine(b[k])
    <3>1. k - lo + 1 \in i..j /\ k - lo + 1 \in 1..len /\ lo + (k - lo + 1) - 1 = k
      BY <1>6
    <3>. QED
      BY <3>1, <1>2, <1>6
  <2>3. b[lo + j - 1] = b[lo + i - 1] + ((lo + j - 1) - (lo + i - 1))
    BY <2>1, <2>2 DEF IsBullet
  <2>. QED
    BY <2>1, <2>3, <1>2
<1>. QED
  BY <1>2, <1>4, <1>5, <1>6 DEF IsBullet, c

\* A description begins and ends with a letter.
LEMMA ComponentFacts ==
    ASSUME Inv, NEW c \in Components, c # <<>>
    PROVE  IsBullet(c) /\ Len(c) \in Nat /\ Len(c) > 0 /\ ~IsBlank(c[1]) /\ ~IsBlank(c[Len(c)])
<1>1. PICK b \in ToSet(bullets) : c = StrippedBullet(Tail(b))
  BY DEF Components
<1>2. n \in Nat /\ IsBullet(b) /\ b \in Seq(Nat) /\ b # <<>> /\ Len(b) \in Nat
  BY <1>1, ParagraphFacts DEF Inv, BulletInv, IsBullet
<1>. DEFINE t == Tail(b)
            inked == {i \in DOMAIN t : ~IsBlank(t[i])}
            lo == Min(inked)
            hi == Max(inked)
<1>3. t \in Seq(Nat) /\ Len(t) = Len(b) - 1 /\ \A i \in 1..Len(t) : t[i] = b[i + 1]
  BY <1>2
<1>4. inked # {} /\ c = SubSeq(t, lo, hi)
  BY <1>1 DEF StrippedBullet
<1>. HIDE DEF t
<1>5. inked \in SUBSET Nat /\ Len(t) \in Nat /\ \A i \in inked : 1 <= i /\ i <= Len(t)
  BY <1>3
<1>6. lo \in inked /\ hi \in inked /\ lo <= hi
  BY <1>4, <1>5, LeastOf, GreatestOf
<1>7. /\ lo \in Nat /\ hi \in Nat /\ 1 <= lo /\ lo <= hi /\ hi <= Len(t)
      /\ ~IsBlank(t[lo]) /\ ~IsBlank(t[hi])
  BY <1>5, <1>6
<1>. HIDE DEF inked, lo, hi
<1>8. t # <<>>
  BY <1>7
<1>9. t = SubSeq(b, 2, Len(b)) /\ 2 <= Len(b)
  BY <1>2, <1>3, <1>7 DEF t
<1>10. IsBullet(t)
  BY <1>2, <1>9, PartOfBullet
<1>11. /\ IsBullet(c) /\ Len(c) = hi - lo + 1
       /\ \A i \in 1..(hi - lo + 1) : c[i] = t[lo + i - 1]
  BY <1>2, <1>4, <1>7, <1>10, PartOfBullet
<1>12. c[1] = t[lo] /\ c[Len(c)] = t[hi]
  <2>1. 1 \in 1..(hi - lo + 1) /\ hi - lo + 1 \in 1..(hi - lo + 1)
    BY <1>7
  <2>2. lo + 1 - 1 = lo /\ lo + (hi - lo + 1) - 1 = hi
    BY <1>7
  <2>. QED
    BY <2>1, <2>2, <1>11
<1>. QED
  BY <1>7, <1>11, <1>12

\* The reach of a description covers its lead and ends with a letter.
LEMMA ReachFacts ==
    ASSUME Inv, NEW c \in Components, c # <<>>
    PROVE  \E r \in 1..Len(c), l \in 1..Len(c) :
              /\ l <= r /\ ~IsBlank(c[r])
              /\ Reach(c) = SubSeq(c, 1, r) /\ Lead(c) = SubSeq(c, 1, l)
<1>1. /\ IsBullet(c) /\ c \in Seq(Nat) /\ Len(c) \in Nat /\ Len(c) > 0 /\ ~IsBlank(c[Len(c)])
      /\ LeadLength \in Nat /\ LeadLength > 0
  BY ComponentFacts, LeadAssumption DEF IsBullet
<1>. DEFINE S == {i \in DOMAIN c : i >= LeadLength /\ ~IsBlank(c[i])} \cup {Len(c)}
            r == Min(S)
            l == Min({LeadLength, Len(c)})
<1>2. S \in SUBSET Nat /\ S # {} /\ \A i \in S : i \in 1..Len(c) /\ ~IsBlank(c[i])
  BY <1>1
<1>3. \A i \in S : i = Len(c) \/ i >= LeadLength
  OBVIOUS
<1>4. r \in S
  BY <1>2, LeastOf
<1>5. l = IF LeadLength <= Len(c) THEN LeadLength ELSE Len(c)
  BY <1>1, LesserOf
<1>6. Reach(c) = SubSeq(c, 1, r) /\ Lead(c) = SubSeq(c, 1, l)
  BY DEF Reach, Lead
<1>. HIDE DEF S, r, l
<1>7. r \in 1..Len(c) /\ ~IsBlank(c[r])
  BY <1>2, <1>4
<1>8. l \in 1..Len(c) /\ l <= r
  BY <1>1, <1>3, <1>4, <1>5, <1>7
<1>. QED
  BY <1>6, <1>7, <1>8

\* A part that has the offsets of a needle holds it.
LEMMA PartHolds ==
    ASSUME NEW chunk, NEW part \in ToSet(chunk.parts), part.start \in Nat, part.end \in Nat,
           n \in Nat, part.end <= n,
           text \in Seq(Symbol), NEW at \in Nat, NEW needle, NEW len \in Nat,
           needle \in Seq(Symbol), Len(needle) = len,
           \A i \in 1..len : needle[i] = text[at + i],
           part.start <= at, at + len <= part.end
    PROVE  Holds(chunk, needle)
<1>1. Len(text) = n
  BY DEF n
<1>2. /\ SubSeq(text, at + 1, at + len) \in Seq(Symbol)
      /\ Len(SubSeq(text, at + 1, at + len)) = len
      /\ \A i \in 1..len : SubSeq(text, at + 1, at + len)[i] = text[at + i]
  BY <1>1
<1>3. SubSeq(text, at + 1, at + len) = needle
  BY <1>2
<1>4. at \in part.start..(part.end - Len(needle))
  OBVIOUS
<1>. QED
  BY <1>3, <1>4 DEF Holds

\* The first of the chunks that are found begins no later than the others.
LEMMA FirstFound ==
    ASSUME Inv, stage = "chunked", NEW found \in SUBSET Chunks, NEW chunk \in found
    PROVE  \E first \in found :
              first.start <= chunk.start /\ \A other \in found : first.index <= other.index
<1>. DEFINE indexes == {other.index : other \in found}
<1>1. \A other \in found : \E k \in DOMAIN spans :
         other = spans[k] /\ k \in Nat /\ k > 0 /\ other.index = k - 1
  <2>1. SUFFICES ASSUME NEW other \in found
                 PROVE  \E k \in DOMAIN spans :
                           other = spans[k] /\ k \in Nat /\ k > 0 /\ other.index = k - 1
    OBVIOUS
  <2>2. PICK k \in DOMAIN spans : other = spans[k]
    BY ChunksAreSpans
  <2>3. k \in Nat /\ k > 0
    BY DEF Inv, ChunkInv, TypeOK
  <2>. QED
    BY <2>2, <2>3, ChunksAreSpans
<1>2. indexes \in SUBSET Nat /\ indexes # {}
  <2>1. \A other \in found : other.index \in Nat
    BY <1>1
  <2>. QED
    BY <2>1
<1>3. PICK first \in found : \A other \in found : first.index <= other.index
  <2>1. Min(indexes) \in indexes /\ \A index \in indexes : Min(indexes) <= index
    BY <1>2, LeastOf
  <2>. QED
    BY <2>1
<1>4. PICK k \in DOMAIN spans : first = spans[k] /\ k \in Nat /\ k > 0 /\ first.index = k - 1
  BY <1>1
<1>5. PICK l \in DOMAIN spans : chunk = spans[l] /\ l \in Nat /\ l > 0 /\ chunk.index = l - 1
  BY <1>1
<1>6. k <= l
  BY <1>3, <1>4, <1>5
<1>7. first.start <= chunk.start
  <2>1. CASE k = l
    BY <2>1, <1>4, <1>5, ChunksAreSpans
  <2>2. CASE k < l
    <3>1. spans[k].end <= spans[l].start /\ spans[k].start <= spans[k].end
      BY <2>2, ChunksAreSpans DEF IsChunk
    <3>. QED
      BY <3>1, <1>4, <1>5, ChunksAreSpans
  <2>. QED
    BY <2>1, <2>2, <1>4, <1>5, <1>6
<1>. QED
  BY <1>3, <1>7

\* A lead on one line that no window cuts stands in one part of a chunk: the
\* line is in one paragraph, and the paragraph or the window is in the chunk.
LEMMA UncutLeadIsHeld ==
    ASSUME Inv, stage = "chunked", NEW c \in Components, c # <<>>,
           OnOneLine(Reach(c)), ~Cut(Reach(c))
    PROVE  \E chunk \in Chunks : Holds(chunk, Said(Lead(c))) /\ chunk.start <= c[1]
<1>1. /\ IsBullet(c) /\ c \in Seq(Nat) /\ Len(c) \in Nat /\ Len(c) > 0 /\ DOMAIN c = 1..Len(c)
      /\ ~IsBlank(c[1]) /\ n \in Nat /\ text \in Seq(Symbol) /\ max_chars \in Nat
  BY ComponentFacts, ParagraphFacts, Positive DEF IsBullet, Inv, ChunkInv, TypeOK
<1>2. PICK r \in 1..Len(c), l \in 1..Len(c) :
         /\ l <= r /\ ~IsBlank(c[r])
         /\ Reach(c) = SubSeq(c, 1, r) /\ Lead(c) = SubSeq(c, 1, l)
  BY ReachFacts
<1>. DEFINE a == c[1]
            z == c[r]
            needle == Said(Lead(c))
<1>3. /\ Len(Reach(c)) = r /\ DOMAIN Reach(c) = 1..r /\ \A i \in 1..r : Reach(c)[i] = c[i]
      /\ Len(Lead(c)) = l /\ DOMAIN Lead(c) = 1..l /\ \A i \in 1..l : Lead(c)[i] = c[i]
  BY <1>1, <1>2
<1>4. \A i \in 1..r : ~EndsLine(c[i])
  BY <1>3 DEF OnOneLine, EndsLine
<1>5. a \in Nat /\ a < n /\ \A i \in 1..r : c[i] = a + (i - 1) /\ c[i] \in Nat /\ c[i] < n
  <2>1. \A i \in 1..r : c[i] \in Nat /\ c[i] < n
    BY <1>1, <1>2 DEF IsBullet
  <2>2. ASSUME NEW i \in 1..r, 1 < i
        PROVE  c[i] = c[1] + (i - 1)
    <3>1. \A k \in 1..i : ~EndsLine(c[k])
      BY <1>4, <2>2
    <3>2. 1 \in DOMAIN c /\ i \in DOMAIN c
      BY <1>1, <1>2
    <3>. QED
      BY <2>2, <3>1, <3>2, <1>1 DEF IsBullet
  <2>3. 1 \in 1..r
    BY <1>2
  <2>. QED
    BY <2>1, <2>2, <2>3
<1>. HIDE DEF a, z, needle
<1>6. z = a + (r - 1) /\ z \in Nat /\ z < n /\ a <= z /\ r \in Nat /\ l \in Nat /\ r > 0 /\ l > 0
  <2>1. r \in 1..r /\ r \in Nat /\ l \in Nat /\ r > 0 /\ l > 0
    BY <1>1, <1>2
  <2>. QED
    BY <2>1, <1>5 DEF z
<1>7. \A offset \in a..z : offset - a + 1 \in 1..r /\ c[offset - a + 1] = offset
  BY <1>5, <1>6
<1>8. a \in Ink(0, n) /\ z \in Ink(0, n)
  <2>1. ~IsBlank(a) /\ ~IsBlank(z)
    BY <1>1, <1>2 DEF a, z
  <2>. QED
    BY <2>1, <1>1, <1>5, <1>6 DEF Ink, IsBlank
<1>9. /\ needle \in Seq(Symbol) /\ Len(needle) = l
      /\ \A i \in 1..l : needle[i] = text[a + i]
  <2>1. ASSUME NEW i \in 1..l
        PROVE  Lead(c)[i] = a + (i - 1) /\ ~EndsLine(Lead(c)[i]) /\ Lead(c)[i] + 1 = a + i
    <3>1. i \in 1..r
      BY <1>2, <1>6
    <3>. QED
      BY <3>1, <1>3, <1>4, <1>5
  <2>2. \A i \in 1..l : needle[i] = text[a + i]
    BY <2>1, <1>3 DEF needle, Said, EndsLine
  <2>3. \A i \in 1..l : text[a + i] \in Symbol
    <3>1. ASSUME NEW i \in 1..l
          PROVE  a + i \in 1..Len(text)
      BY <1>2, <1>5, <1>6 DEF n
    <3>. QED
      BY <3>1, <1>1
  <2>4. needle = [i \in 1..l |-> text[a + i]]
    BY <2>2, <1>3 DEF needle, Said
  <2>. QED
    BY <2>2, <2>3, <2>4, <1>6
<1>10. PICK i \in DOMAIN paragraphs :
          /\ a \in paragraphs[i].start..(paragraphs[i].end - 1)
          /\ IF IsLong(paragraphs[i])
             THEN \E k \in DOMAIN spans : IsWindow(spans[k], paragraphs[i], a)
             ELSE \E k \in DOMAIN spans : paragraphs[i] \in ToSet(spans[k].parts)
  BY <1>8, PrintedIsPlaced
<1>11. /\ paragraphs[i] \in Piece /\ paragraphs[i].start \in Nat /\ paragraphs[i].end \in Nat
       /\ paragraphs[i].end <= n /\ paragraphs[i].start <= a /\ a < paragraphs[i].end
  BY <1>5, <1>10, ParagraphFacts DEF Inv
<1>12. z < paragraphs[i].end
  <2>1. PICK j \in DOMAIN paragraphs : z \in paragraphs[j].start..(paragraphs[j].end - 1)
    BY <1>8, PrintedIsPlaced
  <2>2. /\ i \in Nat /\ j \in Nat /\ paragraphs[j].start \in Nat /\ paragraphs[j].end \in Nat
        /\ paragraphs[j].start <= z /\ z < paragraphs[j].end
    BY <2>1, <1>6, ParagraphFacts DEF Inv
  <2>3. CASE i < j
    <3>1. PICK offset \in paragraphs[i].end..(paragraphs[j].start - 1) : EndsLine(offset)
      BY <2>3 DEF Inv, ChunkInv, SplitInv
    <3>2. offset \in a..z
      BY <3>1, <2>2, <1>5, <1>6, <1>11
    <3>. QED
      BY <3>1, <3>2, <1>4, <1>7
  <2>4. CASE j < i
    <3>1. paragraphs[j].end <= paragraphs[i].start
      BY <2>4, ParagraphFacts DEF Inv
    <3>. QED
      BY <3>1, <2>2, <1>5, <1>6, <1>11
  <2>5. CASE i = j
    BY <2>2, <2>5
  <2>. QED
    BY <2>2, <2>3, <2>4, <2>5
<1>13. CASE ~IsLong(paragraphs[i])
  <2>1. PICK k \in DOMAIN spans : paragraphs[i] \in ToSet(spans[k].parts)
    BY <1>10, <1>13
  <2>2. a + l <= paragraphs[i].end
    BY <1>2, <1>5, <1>6, <1>11, <1>12
  <2>3. Holds(spans[k], needle)
    <3>. DEFINE part == paragraphs[i]
    <3>1. /\ part \in ToSet(spans[k].parts) /\ part.start \in Nat /\ part.end \in Nat
          /\ part.end <= n /\ part.start <= a /\ a + l <= part.end
      BY <2>1, <2>2, <1>11
    <3>. HIDE DEF part
    <3>. QED
      BY <3>1, <1>1, <1>5, <1>6, <1>9, PartHolds
  <2>4. spans[k].parts # <<>> /\ spans[k].start <= paragraphs[i].start
    BY <2>1, ChunksAreSpans DEF IsChunk, ToSet
  <2>5. spans[k].start <= a
    BY <2>4, <1>5, <1>11, ChunksAreSpans
  <2>. QED
    BY <2>3, <2>4, <2>5, ChunksAreSpans DEF needle, a
<1>14. CASE IsLong(paragraphs[i])
  <2>1. PICK k \in DOMAIN spans : IsWindow(spans[k], paragraphs[i], a)
    BY <1>10, <1>14
  <2>. DEFINE from == spans[k].start
              to == spans[k].end
              part == Stripped(from, to)
  <2>2. /\ from \in Nat /\ to \in Nat /\ from <= a /\ a < to /\ to <= paragraphs[i].end
        /\ paragraphs[i].start <= from
        /\ to = paragraphs[i].end \/ (to - paragraphs[i].start) % max_chars = 0
        /\ spans[k].parts = IF Ink(from, to) = {} THEN <<>> ELSE <<part>>
    BY <2>1, ChunksAreSpans DEF IsWindow
  <2>. HIDE DEF from, to, part
  <2>3. z < to
    <3>1. SUFFICES ASSUME to <= z PROVE FALSE
      BY <2>2, <1>6
    <3>2. (to - paragraphs[i].start) % max_chars = 0
      BY <3>1, <2>2, <1>6, <1>11, <1>12
    <3>3. to \in a..z /\ to - a + 1 \in 2..r
      BY <3>1, <2>2, <1>5, <1>6
    <3>4. Reach(c)[to - a + 1] = to /\ to - a + 1 \in 2..Len(Reach(c))
      BY <3>3, <1>3, <1>7
    <3>5. paragraphs[i] \in ToSet(paragraphs) /\ to \in paragraphs[i].start..(paragraphs[i].end - 1)
      <4>1. to < paragraphs[i].end /\ paragraphs[i].start <= to
        BY <3>1, <2>2, <1>5, <1>6, <1>11, <1>12
      <4>2. paragraphs[i] \in ToSet(paragraphs)
        BY DEF ToSet
      <4>. QED
        BY <4>1, <4>2, <2>2, <1>11
    <3>6. Cut(Reach(c))
      BY <3>2, <3>4, <3>5, <1>14 DEF Cut
    <3>. QED
      BY <3>6
  <2>4. a \in Ink(from, to) /\ z \in Ink(from, to)
    BY <2>2, <2>3, <1>5, <1>6, <1>8 DEF Ink
  <2>5. /\ part \in Piece /\ part.start \in Nat /\ part.end \in Nat /\ part.end <= to
        /\ from <= part.start /\ Ink(part.start, part.end) = Ink(from, to)
    <3>1. /\ part \in Piece /\ part.end <= to /\ from <= part.start
          /\ Ink(part.start, part.end) = Ink(from, to)
      BY <2>2, <2>4, StrippedFacts DEF part
    <3>. QED
      BY <3>1 DEF Piece
  <2>6. part.start <= a /\ z < part.end
    <3>1. a \in Ink(part.start, part.end) /\ z \in Ink(part.start, part.end)
      BY <2>4, <2>5
    <3>2. a \in part.start..(part.end - 1) /\ z \in part.start..(part.end - 1)
      BY <3>1 DEF Ink
    <3>. QED
      BY <3>2, <2>5, <1>5, <1>6
  <2>7. spans[k].parts = <<part>> /\ part \in ToSet(spans[k].parts)
    BY <2>2, <2>4 DEF ToSet
  <2>8. a + l <= part.end /\ part.end <= n
    <3>1. a + l <= z + 1
      BY <1>2, <1>5, <1>6
    <3>2. z + 1 <= part.end
      BY <2>5, <2>6, <1>6
    <3>3. part.end <= paragraphs[i].end
      BY <2>2, <2>5, <1>11
    <3>4. part.end <= n
      BY <3>3, <2>5, <1>1, <1>11
    <3>. QED
      BY <3>1, <3>2, <3>4, <2>5, <1>5, <1>6
  <2>9. Holds(spans[k], needle)
    BY <2>5, <2>6, <2>7, <2>8, <1>1, <1>5, <1>6, <1>9, PartHolds
  <2>10. spans[k] \in Chunks /\ spans[k].start <= a
    <3>1. spans[k].parts # <<>>
      BY <2>7
    <3>2. spans[k].start <= a
      BY <2>2 DEF from
    <3>. QED
      BY <3>1, <3>2, ChunksAreSpans
  <2>. QED
    BY <2>9, <2>10 DEF needle, a
<1>. QED
  BY <1>13, <1>14

LEMMA EmptyNeedleIsHeld ==
    ASSUME Inv, stage = "chunked"
    PROVE  \A chunk \in Chunks : Holds(chunk, Said(Lead(<<>>)))
<1>1. Lead(<<>>) = <<>>
  <2>1. Min({LeadLength, Len(<<>>)}) = 0
    BY LesserOf, LeadAssumption
  <2>. QED
    BY <2>1 DEF Lead
<1>2. Said(<<>>) = <<>>
  BY DEF Said
<1>3. SUFFICES ASSUME NEW k \in DOMAIN spans, spans[k].parts # <<>>
               PROVE  Holds(spans[k], <<>>)
  <2>1. \A chunk \in Chunks : \E k \in DOMAIN spans : chunk = spans[k] /\ spans[k].parts # <<>>
    BY ChunksAreSpans DEF Chunks
  <2>. QED
    BY <2>1, <1>1, <1>2, <1>3
<1>. DEFINE part == spans[k].parts[1]
<1>4. spans[k] \in Span /\ IsChunk(spans[k])
  BY ChunksAreSpans
<1>5. spans[k].parts \in Seq(Piece)
  BY <1>4 DEF Span
<1>6. 1 \in DOMAIN spans[k].parts /\ part \in Piece /\ part \in ToSet(spans[k].parts)
  BY <1>3, <1>5 DEF ToSet
<1>7. part.start \in Nat /\ part.end \in Nat /\ part.start < part.end
  BY <1>4, <1>6 DEF Piece, IsChunk
<1>8. part.start \in part.start..(part.end - Len(<<>>))
  BY <1>7
<1>9. SubSeq(text, part.start + 1, part.start + Len(<<>>)) = <<>>
  BY <1>7 DEF Inv, ChunkInv, TypeOK
<1>. QED
  BY <1>6, <1>8, <1>9 DEF Holds

LEMMA InvFindsEvidence == Inv => EvidenceMissesOnlyCutLeads
<1>. SUFFICES ASSUME Inv, stage = "chunked", NEW c \in Components
              PROVE  IF c = <<>>
                     THEN \E chunk \in Evidence(c) : \A other \in Chunks : chunk.index <= other.index
                     ELSE OnOneLine(Reach(c)) /\ ~Cut(Reach(c)) =>
                             \E chunk \in Evidence(c) : chunk.start <= c[1]
  BY DEF EvidenceMissesOnlyCutLeads
<1>. DEFINE found == {chunk \in Chunks : Holds(chunk, Said(Lead(c)))}
<1>1. Evidence(c) = {chunk \in found : \A other \in found : chunk.index <= other.index}
  BY DEF Evidence
<1>2. CASE c = <<>>
  <2>1. found = Chunks
    BY <1>2, EmptyNeedleIsHeld
  <2>2. PICK b \in ToSet(bullets) : text[b[1] + 1] = NamedBullet
    BY DEF Components
  <2>3. IsBullet(b) /\ n \in Nat
    BY <2>2, ParagraphFacts DEF Inv, BulletInv
  <2>4. b[1] \in Nat /\ b[1] < n
    BY <2>3 DEF IsBullet
  <2>5. b[1] \in Ink(0, n)
    <3>1. NamedBullet \notin {Blank, LineEnd}
      BY DEF NamedBullet, Blank, LineEnd
    <3>2. b[1] \in 0..(n - 1)
      BY <2>3, <2>4
    <3>. QED
      BY <2>2, <3>1, <3>2 DEF Ink
  <2>6. PICK chunk \in Chunks : b[1] \in InkOf(chunk)
    BY <2>5, PrintedIsInChunk
  <2>7. \E first \in Chunks : \A other \in Chunks : first.index <= other.index
    BY <2>6, FirstFound
  <2>. QED
    BY <1>1, <1>2, <2>1, <2>7
<1>3. CASE c # <<>>
  <2>1. SUFFICES ASSUME OnOneLine(Reach(c)), ~Cut(Reach(c))
                 PROVE  \E chunk \in Evidence(c) : chunk.start <= c[1]
    BY <1>3
  <2>2. PICK chunk \in found : chunk.start <= c[1]
    BY <1>3, <2>1, UncutLeadIsHeld
  <2>3. PICK first \in found :
           first.start <= chunk.start /\ \A other \in found : first.index <= other.index
    BY FirstFound
  <2>4. first.start \in Nat /\ chunk.start \in Nat /\ c[1] \in Nat
    <3>1. c[1] \in Nat
      BY <1>3, ComponentFacts DEF IsBullet
    <3>2. \A span \in Chunks : span.start \in Nat
      BY ChunksAreSpans
    <3>. QED
      BY <3>1, <3>2
  <2>. QED
    BY <1>1, <2>2, <2>3, <2>4
<1>. QED
  BY <1>2, <1>3

\* EvidenceMissesOnlyCutLeads for any text, max_chars and length of a lead:
\* find_evidence_chunk (service.py) misses wrapped and cut leads only.
THEOREM UncutLeadsHaveEvidence == DocumentSpec => []EvidenceMissesOnlyCutLeads
  BY InvHolds, InvFindsEvidence, PTL
===============================================================================
