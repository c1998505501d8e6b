------------------------------- MODULE MCReview -------------------------------
(***************************************************************************)
(* Instances of Review: two documents that share a component, and reviews  *)
(* that differ in their bounds and in the components they name.            *)
(***************************************************************************)
EXTENDS Review

CONSTANTS
    dText, dOther,             \* api -> db in one document, db -> queue in the other
    nApi, nDb, nQueue,
    cGap, cControl, cNoise     \* chunks that deny, affirm, and do neither

MCNames == {nApi, nDb, nQueue}
MCKinds == {"SENDS_DATA_TO"}
MCChunkIds == 1..2

MCDescriptions == {"described"}

Entry(name) == [name |-> name, description |-> "described", chunk |-> 1]

\* dText has two bullets for its api.
MCComponents == [d \in Documents |-> IF d = dText THEN <<Entry(nApi), Entry(nDb), Entry(nApi)>>
                                                  ELSE <<Entry(nDb), Entry(nQueue)>>]

Edge(source, target) ==
    <<[source |-> source, target |-> target, kind |-> "SENDS_DATA_TO",
       chunk |-> 1, stated |-> None]>>

MCRelationships ==
    [d \in Documents |-> IF d = dText THEN Edge(nApi, nDb) ELSE Edge(nDb, nQueue)]

MCOwner == [d \in Documents |-> [team |-> None, component |-> None, chunk |-> None]]

MCKeywords == {"rate", "limit", "queue"}

Sentence(words, negated, affirmed) ==
    [words |-> words, header |-> FALSE, negated |-> negated, affirmed |-> affirmed,
     grave |-> FALSE, opens |-> FALSE, closes |-> FALSE]

MCCorpus == {cGap, cControl, cNoise}
MCText ==
    [c \in MCCorpus |->
        CASE c = cGap -> <<Sentence({"rate", "limit"}, TRUE, FALSE)>>
          [] c = cControl -> <<Sentence({"rate", "limit", "queue"}, FALSE, TRUE)>>
          [] c = cNoise -> <<Sentence({"rate"}, TRUE, TRUE)>>]

\* No name is a marker.
MCVocabulary == [w \in MCNames \cup MCKinds |-> Sentence({"queue"}, FALSE, FALSE)]

\* nQueue is called "unfiltered-limit-queue", which contains a marker.
MarkedVocabulary ==
    [w \in MCNames \cup MCKinds |->
        IF w = nQueue THEN Sentence({"limit", "queue"}, TRUE, FALSE)
                      ELSE Sentence({}, FALSE, FALSE)]

Chain == [keywords |-> MCKeywords, intent |-> TRUE, mentions |-> MCNames,
          top_k |-> 1, max_hops |-> 2, max_steps |-> 4]

\* A chain question, one that stops after one graph query, one that can use its
\* last step for the last query, and one that does not ask about relationships.
MCRequests == {Chain, [Chain EXCEPT !.max_steps = 2], [Chain EXCEPT !.max_steps = 3],
               [Chain EXCEPT !.intent = FALSE]}

ChainRequests == {Chain}
===============================================================================
