-------------------------- MODULE MCGraphExtraction --------------------------
(***************************************************************************)
(* Instances of GraphExtraction whose plans are computed, as the code does, *)
(* from the content of two documents.                                      *)
(***************************************************************************)
EXTENDS GraphExtraction

CONSTANTS
    dText,        \* prose: two bullets for each of two components, an edge, an
                  \* edge to a misspelt name, and an owner
    dDiagram,     \* a two-page diagram; the edge is drawn on the second page
    nApi, nDb, nApiUpper, nCache,
    tPlatform

Plan == INSTANCE ExtractionPlan

MCNames == {nApi, nDb, nApiUpper, nCache}
MCLabels == <<nApi, nCache, nDb>>
MCTeams == {tPlatform}
MCKinds == {"SENDS_DATA_TO", "DEPENDS_ON"}
MCChunkIds == 1..4

Bullet(name, description, lead, from, mentions) ==
    [name |-> name, description |-> description, lead |-> lead, from |-> from,
     after |-> <<>>, mentions |-> mentions, calls_it |-> FALSE]

\* The second bullet for the api has new words and evidence of its own; the
\* one for the db begins like the first, and so cites the same chunk.
Prose ==
    [bullets |-> <<Bullet(nApi, "api is v1", "api is", None, <<>>),
                   Bullet(nDb, "db is fed", "db is", nApi, <<nApi>>),
                   Bullet(nApi, "api has v2", "api has", None, <<>>),
                   Bullet(nDb, "db is big", "db is", None, <<>>)>>,
     statements |-> <<[source |-> nApiUpper, reached |-> <<nDb>>]>>,
     owner |-> tPlatform]

MCDescriptions == {Prose.bullets[i].description : i \in 1..4} \cup {"labeled in a diagram"}

Chunk(modality, label, contains, arrows) ==
    [modality |-> modality, label |-> label, contains |-> contains, arrows |-> arrows]

ProseChunks ==
    <<Chunk("text", None, {nApi, nDb, "api is"}, <<>>),
      Chunk("text", None, {"api has", "db is", "Owned by the", tPlatform}, <<>>)>>

DiagramChunks ==
    <<Chunk("image_ocr", nApi, {nApi}, <<>>),
      Chunk("image_caption", None, {}, <<>>),
      Chunk("image_ocr", nCache, {nCache}, <<>>),
      Chunk("image_caption", None, {nApi, nCache}, <<<<nApi, nCache>>, <<nApi, nDb>>>>)>>

(***************************************************************************)
(* The plans, written out; the assumption below checks that they are what  *)
(* the rules compute.  TLC would compute them anew whenever it decides     *)
(* whether an action is enabled, which a liveness check does in every      *)
(* state.                                                                  *)
(***************************************************************************)
Entry(name, description, chunk) ==
    [name |-> name, description |-> description, chunk |-> chunk]
Label(name, chunk) == Entry(name, "labeled in a diagram", chunk)

MCComponents ==
    [d \in Documents |->
        IF d = dText
        THEN <<Entry(nApi, "api is v1", 1), Entry(nDb, "db is fed", 2),
               Entry(nApi, "api has v2", 2), Entry(nDb, "db is big", 2)>>
        ELSE <<Label(nApi, 1), Label(nCache, 3)>>]

Edge(source, target, chunk, stated) ==
    [source |-> source, target |-> target, kind |-> "SENDS_DATA_TO",
     chunk |-> chunk, stated |-> stated]

MCRelationships ==
    [d \in Documents |->
        IF d = dText THEN <<Edge(nApi, nDb, 1, None), Edge(nApiUpper, nDb, None, None)>>
                     ELSE <<Edge(nApi, nCache, 2, 4)>>]

MCOwner ==
    [d \in Documents |->
        IF d = dText THEN [team |-> tPlatform, component |-> nApi, chunk |-> 2]
                     ELSE [team |-> None, component |-> None, chunk |-> None]]

ASSUME PlansAreComputed ==
    \A d \in Documents :
        IF d = dText
        THEN /\ MCComponents[d] = Plan!TextComponents(Prose, ProseChunks)
             /\ MCRelationships[d] = Plan!TextRelationships(Prose, ProseChunks)
             /\ MCOwner[d] = Plan!TextOwner(Prose, ProseChunks)
        ELSE /\ MCComponents[d] = Plan!VisualComponents(DiagramChunks, MCLabels)
             /\ MCRelationships[d] = Plan!VisualRelationships(DiagramChunks, MCLabels)
             /\ MCOwner[d] = Plan!NoOwner
(***************************************************************************)
(* The arrow was read from the caption of the second page, and is filed    *)
(* under that of the first: it is not "the chunk the relationship claim    *)
(* was extracted from" (app/graph/service.py:14).                          *)
(***************************************************************************)
ASSUME ArrowIsMiscited ==
    LET arrow == Plan!VisualRelationships(DiagramChunks, MCLabels)[1]
    IN  arrow.chunk = 2 /\ arrow.stated = 4
==============================================================================
