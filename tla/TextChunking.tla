------------------------------ MODULE TextChunking ------------------------------
(***************************************************************************)
(* chunk_text: a text is split into paragraphs, which are packed into      *)
(* chunks, in order, while they fit; a paragraph that does not fit by      *)
(* itself is cut into windows.                                             *)
(*                                                                         *)
(* Source: app/ingestion/chunking.py.  A text is a sequence of letters,    *)
(* blanks and line ends; offsets count from 0, and a piece of text is the  *)
(* offsets of its beginning and its end.  Any other symbol is a letter.    *)
(*                                                                         *)
(* The state machine types every text up to a length; it may be chunked    *)
(* at any time, by steps that are the turns of the code's three loops.     *)
(*                                                                         *)
(* An operator X_Y is X with the seeded fault its comment names.           *)
(***************************************************************************)
EXTENDS Naturals, FiniteSets, SequencesExt

CONSTANTS
    MaxChars,      \* the values of max_chars
    MaxLength      \* bound on the length of a text

ASSUME ChunkingAssumption == MaxChars \subseteq Nat \ {0} /\ MaxLength \in Nat

VARIABLES
    text, max_chars,
    stage,         \* "typing", then "chunking", then "chunked"
    start,         \* where the splitting goes on
    paragraphs,    \* those found: [start, end]
    packed,        \* how many of them are packed
    sub_start,     \* where the cutting of the next one goes on
    spans,         \* the chunks so far: [index, start, end, parts]
    parts          \* the paragraphs of the chunk being packed

text_vars == <<text, max_chars>>
split_vars == <<start, paragraphs>>
pack_vars == <<packed, sub_start, spans, parts>>

Letter == "x"
Blank == " "
LineEnd == "newline"

n == Len(text)

\* The offsets of what is printed, and str.strip().
Ink(from, to) == {offset \in from..(to - 1) : text[offset + 1] \notin {Blank, LineEnd}}

Stripped(from, to) == [start |-> Min(Ink(from, to)), end |-> Max(Ink(from, to)) + 1]

Size(piece) == piece.end - piece.start

(***************************************************************************)
(* _split_paragraphs_with_offsets.                                         *)
(***************************************************************************)
Breaks(from) == {i \in from..(n - 2) : text[i + 1] = LineEnd /\ text[i + 2] = LineEnd}

Split ==
    /\ stage = "chunking" /\ start < n
    /\ LET end == IF Breaks(start) = {} THEN n ELSE Min(Breaks(start))
       IN  /\ paragraphs' = IF Ink(start, end) = {} THEN paragraphs
                            ELSE Append(paragraphs, Stripped(start, end))
           /\ start' = IF Breaks(start) = {} THEN n ELSE end + 2
    /\ UNCHANGED <<text_vars, stage, pack_vars>>

(***************************************************************************)
(* The loop over paragraphs.                                               *)
(***************************************************************************)
Covered(pieces) == UNION {piece.start..(piece.end - 1) : piece \in ToSet(pieces)}

\* sum(len(p) for p in current_parts): paragraphs do not overlap.
Pending == Cardinality(Covered(parts))

\* flush(): "\n\n".join(current_parts) becomes one more chunk.
Flushed ==
    IF parts = <<>> THEN spans
    ELSE Append(spans, [index |-> Len(spans), start |-> parts[1].start, end |-> Last(parts).end,
                        parts |-> parts])

Current == paragraphs[packed + 1]

Packing == stage = "chunking" /\ start >= n /\ packed < Len(paragraphs)

IsLong(paragraph) == Size(paragraph) > max_chars

\* Fault: what is pending is dropped when a long paragraph comes.
CutWindow_LosesPending ==
    /\ Packing /\ IsLong(Current)
    /\ LET from == Current.start + sub_start
           to == Min({from + max_chars, Current.end})
       IN  /\ spans' = Append(spans,
                  [index |-> Len(spans), start |-> from, end |-> to,
                   parts |-> IF Ink(from, to) = {} THEN <<>> ELSE <<Stripped(from, to)>>])
           /\ sub_start' = IF to = Current.end THEN 0 ELSE sub_start + max_chars
           /\ packed' = IF to = Current.end THEN packed + 1 ELSE packed
    /\ parts' = <<>>
    /\ UNCHANGED <<text_vars, stage, split_vars>>

\* The next window of a long paragraph, before the first of which what is
\* pending is flushed; its text is stripped, its offsets are not.
CutWindow ==
    /\ Packing /\ IsLong(Current)
    /\ LET from == Current.start + sub_start
           to == Min({from + max_chars, Current.end})
       IN  /\ spans' = Append(Flushed,
                  [index |-> Len(Flushed), start |-> from, end |-> to,
                   parts |-> IF Ink(from, to) = {} THEN <<>> ELSE <<Stripped(from, to)>>])
           /\ sub_start' = IF to = Current.end THEN 0 ELSE sub_start + max_chars
           /\ packed' = IF to = Current.end THEN packed + 1 ELSE packed
    /\ parts' = <<>>
    /\ UNCHANGED <<text_vars, stage, split_vars>>

Pack ==
    /\ Packing /\ ~IsLong(Current)
    /\ IF parts # <<>> /\ Pending + Size(Current) > max_chars
       THEN spans' = Flushed /\ parts' = <<Current>>
       ELSE spans' = spans /\ parts' = Append(parts, Current)
    /\ packed' = packed + 1
    /\ UNCHANGED <<text_vars, stage, split_vars, sub_start>>

\* What is pending at the end is the last chunk.
FlushLast ==
    /\ stage = "chunking" /\ start >= n /\ packed = Len(paragraphs)
    /\ spans' = Flushed /\ parts' = <<>>
    /\ stage' = "chunked"
    /\ UNCHANGED <<text_vars, split_vars, packed, sub_start>>

\* Windows that are all blank are dropped after they have been given an index.
Chunks == {span \in ToSet(spans) : span.parts # <<>>}

----------------------------------------------------------------------------
Unchunked ==
    /\ stage = "typing"
    /\ start = 0 /\ paragraphs = <<>>
    /\ packed = 0 /\ sub_start = 0 /\ spans = <<>> /\ parts = <<>>

Init == text = <<>> /\ max_chars \in MaxChars /\ Unchunked

Type(char) ==
    /\ stage = "typing"
    /\ n < MaxLength
    /\ text' = Append(text, char)
    /\ UNCHANGED <<max_chars, stage, split_vars, pack_vars>>

ChunkText ==
    /\ stage = "typing"
    /\ stage' = "chunking"
    /\ UNCHANGED <<text_vars, split_vars, pack_vars>>

Next ==
    \/ \E char \in {Letter, Blank, LineEnd} : Type(char)
    \/ ChunkText \/ Split \/ CutWindow \/ Pack \/ FlushLast

Spec == Init /\ [][Next]_<<text_vars, stage, split_vars, pack_vars>>

----------------------------------------------------------------------------
(***************************************************************************)
(* Properties.                                                             *)
(***************************************************************************)
InkOf(span) == UNION {Ink(part.start, part.end) : part \in ToSet(span.parts)}

\* The chunks say all of the text once and in order: each offset of a letter
\* is in one chunk; each chunk says exactly the letters between its offsets,
\* a paragraph after the other; offsets never overlap; indexes increase, so
\* that the constraint uq_chunks_document_chunk_index (models.py) holds,
\* though they may have gaps; and a chunk is no longer than max_chars, but
\* for the separators between its paragraphs, which the code does not count.
ChunksPartitionText ==
    stage = "chunked" =>
        /\ UNION {InkOf(chunk) : chunk \in Chunks} = Ink(0, n)
        /\ \A chunk \in Chunks :
              /\ InkOf(chunk) = Ink(chunk.start, chunk.end)
              /\ \A i, j \in DOMAIN chunk.parts :
                    i < j => chunk.parts[i].end <= chunk.parts[j].start
              /\ Cardinality(Covered(chunk.parts)) <= max_chars
              /\ \A other \in Chunks :
                    /\ other.index = chunk.index => other = chunk
                    /\ other.index < chunk.index => other.end <= chunk.start
===============================================================================
