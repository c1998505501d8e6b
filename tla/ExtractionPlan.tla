---------------------------- MODULE ExtractionPlan ----------------------------
(***************************************************************************)
(* What one graph extraction is going to write, as a function of the       *)
(* document: the components in the order they are upserted, the            *)
(* relationships in the order they are merged, and the owner.              *)
(*                                                                         *)
(* Sources: app/graph/extraction.py (the rules that read a text),          *)
(* app/graph/service.py and app/multimodal/graph.py (evidence chunks).     *)
(*                                                                         *)
(* A text is abstracted to what the rules look for in it: its component    *)
(* bullets and its "accepts events ... reach" statements.  A chunk is the  *)
(* set of names and phrases it contains; a caption also has its arrow      *)
(* lines.  A name matched without regard to case may be a spelling that is *)
(* no component's name.                                                    *)
(***************************************************************************)
EXTENDS Naturals, Sequences, SequencesExt

CONSTANT None   \* no chunk, no owner, no name

(***************************************************************************)
(* extraction.py                                                           *)
(*                                                                         *)
(* A bullet: [name, description, lead (the first words of the              *)
(* description), from (the name after "from", or None), after (the names   *)
(* after the following "to"/"into"), mentions (the names in the            *)
(* description, in order), calls_it].  A statement: [source, reached].     *)
(* A component's type is a function of its description, and left out.      *)
(***************************************************************************)
FirstName(mentions, exclude) ==
    LET others == SelectSeq(mentions, LAMBDA n : n # exclude)
    IN  IF others = <<>> THEN None ELSE Head(others)

Link(source, target, kind) == [source |-> source, target |-> target, kind |-> kind]

\* Rule 1: "from A ... to B" in C's bullet makes C the mediator, A -> C -> B.
MediatorLinks(b) ==
    LET into == FirstName(b.after, b.name)
    IN  IF b.from = None THEN <<>>
        ELSE (IF b.from # b.name THEN <<Link(b.from, b.name, "SENDS_DATA_TO")>> ELSE <<>>)
             \o (IF into # None THEN <<Link(b.name, into, "SENDS_DATA_TO")>> ELSE <<>>)

\* Rule 2: "A calls it" in C's bullet makes A depend on C.
CallerLinks(b) ==
    LET caller == FirstName(b.mentions, b.name)
    IN  IF b.calls_it /\ caller # None
        THEN <<Link(caller, b.name, "DEPENDS_ON")>> ELSE <<>>

\* Rule 3: "S accepts events ... reach A and B", anywhere in the text.
AcceptLinks(st) ==
    LET targets == SelectSeq(st.reached, LAMBDA n : n # st.source)
    IN  [i \in DOMAIN targets |-> Link(st.source, targets[i], "SENDS_DATA_TO")]

ForEach(Rule(_), seq) == FlattenSeq([i \in DOMAIN seq |-> Rule(seq[i])])

\* The first occurrence of each relationship is kept.
WithoutRepeats(links) ==
    FoldLeft(LAMBDA kept, link : IF link \in ToSet(kept) THEN kept ELSE Append(kept, link),
             <<>>, links)

ExtractRelationships(bullets, statements) ==
    IF Len(bullets) < 2 THEN <<>>
    ELSE WithoutRepeats(ForEach(MediatorLinks, bullets)
                        \o ForEach(CallerLinks, bullets)
                        \o ForEach(AcceptLinks, statements))

(***************************************************************************)
(* service.py: the plan for a text.  A chunk id is its position in the     *)
(* document; the evidence for a fact is the first chunk that contains      *)
(* everything the fact names, if there is one.                             *)
(***************************************************************************)
FindEvidenceChunk(chunks, needles) ==
    LET hits == {i \in DOMAIN chunks : needles \subseteq chunks[i].contains}
    IN  IF hits = {} THEN None ELSE CHOOSE i \in hits : \A j \in hits : i <= j

TextComponents(text, chunks) ==
    [i \in DOMAIN text.bullets |->
        [name |-> text.bullets[i].name, description |-> text.bullets[i].description,
         chunk |-> FindEvidenceChunk(chunks, {text.bullets[i].lead})]]

\* "stated" names the chunk a claim was read from, where the code knows it:
\* a rule matches the whole text, so for a text it is None.
TextRelationships(text, chunks) ==
    LET links == ExtractRelationships(text.bullets, text.statements)
    IN  [i \in DOMAIN links |->
            [source |-> links[i].source, target |-> links[i].target, kind |-> links[i].kind,
             chunk |-> FindEvidenceChunk(chunks, {links[i].source, links[i].target}),
             stated |-> None]]

\* The owner of the document is linked to the first component listed.
TextOwner(text, chunks) ==
    IF text.owner = None \/ text.bullets = <<>>
    THEN [team |-> None, component |-> None, chunk |-> None]
    ELSE [team |-> text.owner, component |-> text.bullets[1].name,
          chunk |-> FindEvidenceChunk(chunks, {"Owned by the", text.owner})]

(***************************************************************************)
(* multimodal/graph.py: the plan for a diagram.  Labels is the sorted      *)
(* sequence of all names; component names are read from OCR chunks only,   *)
(* relationships from caption chunks only.                                 *)
(***************************************************************************)
CandidateNames(chunks, Labels) ==
    SelectSeq(Labels, LAMBDA n :
        \E i \in DOMAIN chunks : chunks[i].modality = "image_ocr" /\ chunks[i].label = n)

VisualComponents(chunks, Labels) ==
    LET names == CandidateNames(chunks, Labels)
    IN  [i \in DOMAIN names |->
            [name |-> names[i], description |-> "labeled in a diagram",
             chunk |-> FindEvidenceChunk(chunks, {names[i]})]]

\* An arrow is kept only if OCR has read both of its ends.
ParseVisionRelationships(caption, known) ==
    SelectSeq(caption.arrows, LAMBDA a :
        /\ a[1] # a[2]
        /\ a[1] \in ToSet(known) /\ a[2] \in ToSet(known))

\* Every arrow is filed under the first caption, whichever caption said it.
VisualRelationships(chunks, Labels) ==
    LET order == SelectSeq([i \in DOMAIN chunks |-> i],
                           LAMBDA i : chunks[i].modality = "image_caption")
        known == CandidateNames(chunks, Labels)
        parsed(i) == LET arrows == ParseVisionRelationships(chunks[i], known)
                     IN  [k \in DOMAIN arrows |->
                             [source |-> arrows[k][1], target |-> arrows[k][2],
                              kind |-> "SENDS_DATA_TO", chunk |-> order[1], stated |-> i]]
    IN  ForEach(parsed, order)

NoOwner == [team |-> None, component |-> None, chunk |-> None]
===============================================================================
