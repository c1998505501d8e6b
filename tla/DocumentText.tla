----------------------------- MODULE DocumentText -----------------------------
(***************************************************************************)
(* One text read twice: at its upload it is cut into chunks, and at an     *)
(* extraction its "## Components" section is read bullet by bullet, and    *)
(* each component is given the first chunk that holds the beginning of its *)
(* description.  Nothing but that search joins the two readings.           *)
(*                                                                         *)
(* Sources: _section, _bullets and _extract_components of                  *)
(* app/graph/extraction.py, find_evidence_chunk and its use in             *)
(* app/graph/service.py.  A bullet is the offsets of its characters in the *)
(* text; where two lines were joined by a blank, that of the line end      *)
(* before the second.                                                      *)
(*                                                                         *)
(* An operator X_Y is X with the seeded fault its comment names.           *)
(***************************************************************************)
EXTENDS TextChunking

CONSTANT LeadLength       \* how much of a description is searched for

ASSUME LeadAssumption == LeadLength \in Nat \ {0}

VARIABLES
    line,          \* where the reading of the section goes on
    bullets        \* those read so far, the last of which may go on

chunking_vars == <<text_vars, stage, split_vars, pack_vars>>
reading_vars == <<line, bullets>>

\* What a line can begin with, one symbol each: a component's bullet, a
\* bullet without a name, the heading of the section, and another heading.
NamedBullet == "- **name**:"
PlainBullet == "- "
Heading == "## Components"
OtherHeading == "## Other"

Word == "y"      \* a letter besides Letter

LineStarts == {0} \cup {i + 1 : i \in {j \in 0..(n - 1) : text[j + 1] = LineEnd}}

LineEndsAt(from) == Min({i \in from..(n - 1) : text[i + 1] = LineEnd} \cup {n})

Offsets(from, to) == [i \in 1..(to - from) |-> from + i - 1]

Begins(from, symbols) == from < n /\ text[from + 1] \in symbols

\* The lines after the first heading of the name, up to the next heading.
Section ==
    LET headings == {from \in LineStarts : Begins(from, {Heading})}
        Ends(from) == from > Min(headings) /\ Begins(from, {Heading, OtherHeading})
    IN  {from \in LineStarts :
            /\ headings # {} /\ Min(headings) < from /\ from < n
            /\ \A end \in LineStarts : Ends(end) => from < end}

\* _bullets: a line that is not blank goes on with the bullet before it,
\* whatever blank lines come between.
Joined(from) ==
    LET end == LineEndsAt(from)
        words == Stripped(from, end)
    IN  IF Begins(from, {NamedBullet, PlainBullet}) THEN Append(bullets, Offsets(from, end))
        ELSE IF bullets = <<>> \/ Ink(from, end) = {} THEN bullets
        ELSE [bullets EXCEPT ![Len(bullets)] =
                 @ \o <<from - 1>> \o Offsets(words.start, words.end)]

Unread == {from \in Section : from >= line}

ReadLine ==
    /\ stage = "chunked" /\ Unread # {}
    /\ bullets' = Joined(Min(Unread))
    /\ line' = Min(Unread) + 1
    /\ UNCHANGED chunking_vars

IsBlank(offset) == text[offset + 1] \in {Blank, LineEnd}

StrippedBullet(bullet) ==
    LET inked == {i \in DOMAIN bullet : ~IsBlank(bullet[i])}
    IN  IF inked = {} THEN <<>> ELSE SubSeq(bullet, Min(inked), Max(inked))

\* _extract_components: the descriptions of the bullets with a name.
Components ==
    {StrippedBullet(Tail(bullet)) :
        bullet \in {b \in ToSet(bullets) : text[b[1] + 1] = NamedBullet}}

\* What a component's offsets say, a joint being a blank.
Said(offsets) ==
    [i \in DOMAIN offsets |-> IF text[offsets[i] + 1] = LineEnd THEN Blank ELSE text[offsets[i] + 1]]

Lead(component) == SubSeq(component, 1, Min({LeadLength, Len(component)}))

\* A chunk's text is its parts joined by "\n\n", which no needle spans.
Holds(chunk, needle) ==
    \E part \in ToSet(chunk.parts) : \E at \in part.start..(part.end - Len(needle)) :
        SubSeq(text, at + 1, at + Len(needle)) = needle

\* Fault: the search does not stop at the first.
Evidence_Last(component) ==
    LET found == {chunk \in Chunks : Holds(chunk, Said(Lead(component)))}
    IN  {chunk \in found : \A other \in found : chunk.index >= other.index}

\* find_evidence_chunk(chunks, comp.description[:40]): the first chunk that
\* has it, or none.
Evidence(component) ==
    LET found == {chunk \in Chunks : Holds(chunk, Said(Lead(component)))}
    IN  {chunk \in found : \A other \in found : chunk.index <= other.index}

\* An empty text, to which only letters are typed, or the section's heading.
DocumentInit ==
    /\ text \in {<<>>, <<Heading, LineEnd>>} /\ max_chars \in MaxChars /\ Unchunked
    /\ line = 0 /\ bullets = <<>>

\* Inside of a line, "-" and "#" are letters like others.
DocumentNext ==
    \/ Next /\ UNCHANGED reading_vars
    \/ /\ n > 0 /\ text[1] = Heading
       /\ \/ Type(Word)
          \/ n \in LineStarts /\ \E char \in {NamedBullet, PlainBullet, OtherHeading} : Type(char)
       /\ UNCHANGED reading_vars
    \/ ReadLine

DocumentSpec == DocumentInit /\ [][DocumentNext]_<<chunking_vars, reading_vars>>

----------------------------------------------------------------------------
(***************************************************************************)
(* Properties.                                                             *)
(***************************************************************************)
\* The lead of a description and, where that ends in blanks, the letter
\* after them.
Reach(component) ==
    SubSeq(component, 1, Min({i \in DOMAIN component : i >= LeadLength /\ ~IsBlank(component[i])}
                             \cup {Len(component)}))

OnOneLine(offsets) == \A i \in DOMAIN offsets : text[offsets[i] + 1] # LineEnd

\* A window begins in the middle.
Cut(offsets) ==
    \E paragraph \in ToSet(paragraphs), j \in 2..Len(offsets) :
        /\ IsLong(paragraph)
        /\ offsets[j] \in paragraph.start..(paragraph.end - 1)
        /\ (offsets[j] - paragraph.start) % max_chars = 0

\* A component whose lead stands on one line, and is not cut by a window,
\* has evidence: the chunk of its bullet, or one before it that says the
\* same; the first one, if it has no description.  So a component without
\* evidence, which no review can cite, has a wrapped or a cut lead.
EvidenceMissesOnlyCutLeads ==
    stage = "chunked" /\ Unread = {} =>
        \A component \in Components :
            IF component = <<>>
            THEN \E chunk \in Evidence(component) :
                    \A other \in Chunks : chunk.index <= other.index
            ELSE OnOneLine(Reach(component)) /\ ~Cut(Reach(component)) =>
                    \E chunk \in Evidence(component) : chunk.start <= component[1]
===============================================================================
