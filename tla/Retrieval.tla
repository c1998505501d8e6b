------------------------------- MODULE Retrieval -------------------------------
(***************************************************************************)
(* How chunks are ranked: the lexical and the vector query, reciprocal     *)
(* rank fusion of their rankings, and the cross-encoder's reordering.      *)
(*                                                                         *)
(* Sources: app/retrieval/lexical.py, vector.py, hybrid.py, filters.py and *)
(* rerank.py, and the indexes of app/models.py.  Postgres' text rank, the  *)
(* embedding distance and the cross-encoder are external: each is a number *)
(* per chunk, for one fixed question.                                      *)
(*                                                                         *)
(* An operator X_Y is X with the seeded fault its comment names.           *)
(***************************************************************************)
EXTENDS Naturals, SequencesExt

CONSTANTS
    Chunks,
    TextRank,           \* Chunks -> ts_rank_cd, 0 where the query does not match
    Distance,           \* Chunks -> cosine distance
    Relevance,          \* Chunks -> the cross-encoder's score
    Multiplier,         \* CANDIDATE_POOL_MULTIPLIER
    MinCandidates,      \* MIN_CANDIDATE_POOL
    RrfK                \* DEFAULT_RRF_K

ASSUME RetrievalAssumption ==
    /\ TextRank \in [Chunks -> Nat] /\ Distance \in [Chunks -> Nat] /\ Relevance \in [Chunks -> Nat]
    /\ Multiplier \in Nat \ {0} /\ MinCandidates \in Nat /\ RrfK \in Nat

First(list, n) == SubSeq(list, 1, IF n < Len(list) THEN n ELSE Len(list))

AtLeast(a, b) == IF a > b THEN a ELSE b

\* The elements of S in a sequence, as precedes says where it says anything.
Orders(S, precedes) ==
    {list \in SetToSeqs(S) :
        \A i, j \in DOMAIN list : <<list[i], list[j]>> \in precedes => i < j}

\* SELECT ... ORDER BY ... LIMIT: what no pair of precedes orders comes in any order.
Select(S, precedes, limit) == {First(list, limit) : list \in Orders(S, precedes)}

\* sorted(): precedes orders every two elements.
Sorted(S, precedes) == CHOOSE list \in Orders(S, precedes) : TRUE

LexicalSearch(visible, limit) ==
    LET matching == {c \in visible : TextRank[c] > 0}
    IN  Select(matching, {p \in matching \X matching : TextRank[p[1]] > TextRank[p[2]]}, limit)

\* Served by an approximate index, hnsw (vector_cosine_ops), and filtered
\* after its scan: what comes is in the order of distance, but any chunk may
\* be missing, however near, and there may be fewer than limit.
VectorSearch(visible, limit) ==
    UNION {Select(some, {p \in some \X some : Distance[p[1]] < Distance[p[2]]}, limit) :
              some \in SUBSET visible}

CandidatePool(limit) == AtLeast(limit * Multiplier, MinCandidates)

(***************************************************************************)
(* Reciprocal rank fusion, with exact fractions <<numerator, denominator>> *)
(* for the floats.                                                         *)
(***************************************************************************)
RankIn(list, c) == CHOOSE i \in DOMAIN list : list[i] = c

Share(list, c) == IF c \in ToSet(list) THEN <<1, RrfK + RankIn(list, c)>> ELSE <<0, 1>>

Score(lexical, vector, c) ==
    LET p == Share(lexical, c)
        q == Share(vector, c)
    IN  <<p[1] * q[2] + q[1] * p[2], p[2] * q[2]>>

Higher(p, q) == p[1] * q[2] > q[1] * p[2]

\* The order in which a chunk first got a score, which sorted() keeps in ties.
Insertion(lexical, vector, c) ==
    IF c \in ToSet(lexical) THEN RankIn(lexical, c) ELSE Len(lexical) + RankIn(vector, c)

\* Fault: sorted without reverse=True.
Ahead_Ascending(lexical, vector, c, d) ==
    \/ Higher(Score(lexical, vector, d), Score(lexical, vector, c))
    \/ /\ ~Higher(Score(lexical, vector, c), Score(lexical, vector, d))
       /\ Insertion(lexical, vector, c) < Insertion(lexical, vector, d)

\* Ranked by score, and by insertion where the scores are equal.
Ahead(lexical, vector, c, d) ==
    \/ Higher(Score(lexical, vector, c), Score(lexical, vector, d))
    \/ /\ ~Higher(Score(lexical, vector, d), Score(lexical, vector, c))
       /\ Insertion(lexical, vector, c) < Insertion(lexical, vector, d)

ReciprocalRankFusion(lexical, vector) ==
    LET found == ToSet(lexical) \cup ToSet(vector)
    IN  Sorted(found, {p \in found \X found : Ahead(lexical, vector, p[1], p[2])})

\* Only the first top_n are scored; the sort is stable.
RerankResults(results, top_n) ==
    LET head == First(results, top_n)
        places == DOMAIN head
        order == Sorted(places, {p \in places \X places :
                    \/ Relevance[head[p[1]]] > Relevance[head[p[2]]]
                    \/ Relevance[head[p[1]]] = Relevance[head[p[2]]] /\ p[1] < p[2]})
    IN  IF Len(results) <= 1 \/ top_n = 0
        THEN results
        ELSE [i \in places |-> head[order[i]]] \o SubSeq(results, Len(head) + 1, Len(results))
===============================================================================
