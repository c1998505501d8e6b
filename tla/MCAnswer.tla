-------------------------------- MODULE MCAnswer --------------------------------
(* Two documents, four chunks: rankings that disagree, a tie, a chunk the  *)
(* query does not match, one without significant words, one with a rule in *)
(* its middle and one that says there is no context.                       *)
EXTENDS Answer

CONSTANTS dOld, dNew, cGate, cQueue, cTable, cArrow, wRate, wOrder, wOther

MCDocuments == {dOld, dNew}
MCChunks == {cGate, cQueue, cTable, cArrow}
MCChunksOf == [d \in MCDocuments |-> IF d = dOld THEN {cGate, cQueue} ELSE {cTable, cArrow}]

MCTextRank == [c \in MCChunks |-> CASE c = cGate -> 3 [] c = cQueue -> 2 [] c = cTable -> 2 [] OTHER -> 0]
MCDistance == [c \in MCChunks |-> CASE c = cGate -> 1 [] c = cQueue -> 4 [] c = cTable -> 2 [] OTHER -> 1]
MCRelevance == [c \in MCChunks |-> CASE c = cGate -> 2 [] c = cQueue -> 5 [] c = cTable -> 1 [] OTHER -> 2]

MCWords == [c \in MCChunks |-> CASE c = cGate -> {wRate, wOrder} [] c = cQueue -> {wOrder}
                                 [] c = cTable -> {wRate} [] OTHER -> {}]

MCOpening == [MCWords EXCEPT ![cGate] = {wRate}]

MCMarked == {cTable}

MCRequests == [top_k : {1, 3}, mode : {"lexical", "vector", "hybrid"},
               within : {MCChunks, MCChunks \ {cQueue}}, question : {"plain"}]
              \cup [top_k : {1}, mode : {"hybrid"}, within : {MCChunks},
                    question : {"marker", "item"}]

MCSettings == [provider : {"template", "ollama"}, rerank_enabled : BOOLEAN,
               rerank_candidate_pool : {2, 4}]
===============================================================================
