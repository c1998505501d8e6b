---------------------------- MODULE Answer_proofs ----------------------------
(***************************************************************************)
(* Proofs about Answer and the rankings it is built from: what a query, a  *)
(* fusion and a reranking do to the order of chunks, for any scores; then, *)
(* whatever commits between its queries, that an answer's sources are the  *)
(* ones they should be, and are stored with it, whole, as the client is    *)
(* told.                                                                   *)
(***************************************************************************)
EXTENDS Answer, FunctionTheorems, FiniteSetTheorems, TLAPS

(***************************************************************************)
(* Rankings: lists that name no element twice.                             *)
(***************************************************************************)
Rankings(S) == {list \in Seq(S) : IsInjective(list)}

\* An ordering of a set has each element once, and nothing more.
LEMMA OrdersAreRankings ==
    ASSUME NEW S, IsFiniteSet(S), NEW precedes, NEW list \in Orders(S, precedes)
    PROVE  /\ list \in Rankings(S) /\ Len(list) = Cardinality(S) /\ ToSet(list) = S
           /\ \A i, j \in DOMAIN list : <<list[i], list[j]>> \in precedes => i < j
<1> DEFINE D == 1..Cardinality(S)
<1>1. /\ Cardinality(S) \in Nat /\ list \in [D -> S]
      /\ \A i, j \in D : i # j => list[i] # list[j]
      /\ \A i, j \in DOMAIN list : <<list[i], list[j]>> \in precedes => i < j
    BY FS_CardinalityType DEF Orders, SetToSeqs
<1>2. list \in Seq(S) /\ Len(list) = Cardinality(S) /\ DOMAIN list = D /\ IsInjective(list)
    BY <1>1 DEF IsInjective
<1>3. list \in Injection(D, S)
    BY <1>1, Fun_IsInj
<1>4. Cardinality(D) = Cardinality(S)
    <2>1. 1 \in Int /\ Cardinality(S) \in Int
        BY <1>1
    <2> QED BY <1>1, <2>1, FS_Interval
<1>5. \A x \in S : \E i \in D : list[i] = x
    <2> HIDE DEF D
    <2> QED BY <1>3, <1>4, FS_Injection, Fun_SurjectionProperties
<1> QED BY <1>1, <1>2, <1>5 DEF ToSet, Rankings

\* LIMIT and slices keep the first elements, in their places.
LEMMA FirstOf ==
    ASSUME NEW S, NEW list \in Rankings(S), NEW n \in Nat
    PROVE  /\ First(list, n) \in Rankings(S)
           /\ Len(First(list, n)) = IF n < Len(list) THEN n ELSE Len(list)
           /\ Len(list) \in Nat
           /\ \A i \in 1..Len(First(list, n)) : First(list, n)[i] = list[i]
           /\ ToSet(First(list, n)) \subseteq ToSet(list)
<1> DEFINE m == IF n < Len(list) THEN n ELSE Len(list)
           first == SubSeq(list, 1, m)
<1>1. list \in Seq(S) /\ Len(list) \in Nat /\ m \in 0..Len(list) /\ DOMAIN list = 1..Len(list)
    BY DEF Rankings
<1>2. \A i \in 1..m : list[i] \in S
    BY <1>1
<1> HIDE DEF m
<1>3. first = [i \in 1..m |-> list[i]]
    BY <1>1
<1>4. first \in Seq(S) /\ Len(first) = m /\ DOMAIN first = 1..m
      /\ \A i \in 1..m : first[i] = list[i]
    BY <1>1, <1>2, <1>3
<1>5. IsInjective(first) /\ ToSet(first) \subseteq ToSet(list)
    <2> HIDE DEF first
    <2> QED BY <1>1, <1>4 DEF IsInjective, Rankings, ToSet
<1>6. First(list, n) = first
    BY DEF First, m
<1> HIDE DEF first
<1> QED BY <1>1, <1>4, <1>5, <1>6 DEF Rankings, m

(***************************************************************************)
(* Where precedes is a strict total order there is a list in that order:   *)
(* each element has its place by how many precede it.                      *)
(***************************************************************************)
StrictOrder(S, precedes) ==
    /\ \A x \in S : <<x, x>> \notin precedes
    /\ \A x, y \in S : x = y \/ <<x, y>> \in precedes \/ <<y, x>> \in precedes
    /\ \A x, y, z \in S :
          <<x, y>> \in precedes /\ <<y, z>> \in precedes => <<x, z>> \in precedes

\* sorted() returns such an ordering.
LEMMA SortedOrders ==
    ASSUME NEW S, IsFiniteSet(S), NEW precedes, StrictOrder(S, precedes)
    PROVE  Sorted(S, precedes) \in Orders(S, precedes)
<1> DEFINE n == Cardinality(S)
           Places == 0..(n - 1)
           Before(x) == {y \in S : <<y, x>> \in precedes}
           rank == [x \in S |-> Cardinality(Before(x))]
<1>1. n \in Nat
    BY FS_CardinalityType
<1>2. ASSUME NEW x \in S
      PROVE  IsFiniteSet(Before(x)) /\ Cardinality(Before(x)) \in Places
    <2>1. Before(x) \in SUBSET S /\ Before(x) # S
        BY DEF StrictOrder
    <2> HIDE DEF Before
    <2>2. /\ IsFiniteSet(Before(x)) /\ Cardinality(Before(x)) \in Nat
          /\ Cardinality(Before(x)) <= n /\ Cardinality(Before(x)) # n
        BY <2>1, FS_Subset, FS_CardinalityType
    <2> QED BY <1>1, <2>2
<1>3. ASSUME NEW x \in S, NEW y \in S, <<x, y>> \in precedes
      PROVE  rank[x] < rank[y]
    <2>1. Before(x) \in SUBSET Before(y) /\ x \in Before(y) /\ x \notin Before(x)
        BY <1>3 DEF StrictOrder
    <2>2. /\ IsFiniteSet(Before(x)) /\ IsFiniteSet(Before(y))
          /\ Cardinality(Before(x)) \in Nat /\ Cardinality(Before(y)) \in Nat
        BY <1>1, <1>2
    <2>3. Cardinality(Before(x)) < Cardinality(Before(y))
        <3> HIDE DEF Before
        <3> QED BY <2>1, <2>2, FS_Subset
    <2> QED BY <2>3
<1>4. rank \in [S -> Places]
    BY <1>2
<1>5. \A x, y \in S : rank[x] = rank[y] => x = y
    <2> SUFFICES ASSUME NEW x \in S, NEW y \in S, rank[x] = rank[y], x # y PROVE FALSE
        OBVIOUS
    <2>1. rank[x] \in Nat /\ rank[y] \in Nat
        BY <1>1, <1>4
    <2>2. <<x, y>> \in precedes \/ <<y, x>> \in precedes
        BY DEF StrictOrder
    <2> HIDE DEF rank
    <2> QED BY <1>3, <2>1, <2>2
<1>6. Cardinality(Places) = n /\ IsFiniteSet(Places)
    <2>1. 0 \in Int /\ n - 1 \in Int
        BY <1>1
    <2> QED BY <1>1, <2>1, FS_Interval
<1>7. \A p \in Places : \E x \in S : rank[x] = p
    <2> HIDE DEF rank, Places
    <2>1. rank \in Injection(S, Places)
        BY <1>4, <1>5, Fun_IsInj
    <2>2. rank \in Surjection(S, Places)
        BY <1>6, <2>1, FS_Injection
    <2> QED BY <2>2, Fun_SurjectionProperties
<1> DEFINE list == [i \in 1..n |-> CHOOSE x \in S : rank[x] = i - 1]
<1>8. ASSUME NEW i \in 1..n PROVE list[i] \in S /\ rank[list[i]] = i - 1
    <2>1. i - 1 \in Places
        BY <1>1
    <2> HIDE DEF rank, Places
    <2> QED BY <1>7, <2>1
<1> HIDE DEF rank
<1>9. list \in [1..n -> S] /\ DOMAIN list = 1..n
    BY <1>8
<1> HIDE DEF list
<1>10. \A i, j \in 1..n : i # j => list[i] # list[j]
    BY <1>1, <1>8
<1>11. \A i, j \in 1..n : <<list[i], list[j]>> \in precedes => i < j
    BY <1>1, <1>3, <1>8
<1>12. list \in Orders(S, precedes)
    BY <1>9, <1>10, <1>11 DEF Orders, SetToSeqs
<1> QED BY <1>12 DEF Sorted

(***************************************************************************)
(* Reciprocal rank fusion.                                                 *)
(***************************************************************************)
LEMMA RankInList ==
    ASSUME NEW S, NEW list \in Rankings(S), NEW i \in 1..Len(list)
    PROVE  list[i] \in ToSet(list) /\ RankIn(list, list[i]) = i
<1>1. DOMAIN list = 1..Len(list) /\ IsInjective(list)
    BY DEF Rankings
<1>2. \A j \in DOMAIN list : list[j] = list[i] => j = i
    BY <1>1 DEF IsInjective
<1> QED BY <1>1, <1>2 DEF RankIn, ToSet

\* What is in a ranking has a place in it.
LEMMA InList ==
    ASSUME NEW S, NEW list \in Rankings(S), NEW c \in ToSet(list)
    PROVE  RankIn(list, c) \in 1..Len(list) /\ list[RankIn(list, c)] = c /\ c \in S
<1>1. list \in Seq(S) /\ DOMAIN list = 1..Len(list)
    BY DEF Rankings
<1>2. PICK i \in 1..Len(list) : list[i] = c
    BY <1>1 DEF ToSet
<1>3. RankIn(list, c) = i
    BY <1>2, RankInList
<1> QED BY <1>1, <1>2, <1>3

\* A fraction a/b is <<a, b>>.
Fractions == Nat \X (Nat \ {0})

\* A common factor keeps the order.
LEMMA ProductsOrder ==
    ASSUME NEW a \in Nat, NEW b \in Nat, NEW c \in Nat
    PROVE  /\ a * c \in Nat /\ a >= b => a * c >= b * c
           /\ c # 0 => (a > b <=> a * c > b * c)
OBVIOUS

\* From a/b > c/d >= e/f, or a/b >= c/d > e/f, follows a/b > e/f.
LEMMA CrossProducts ==
    ASSUME NEW a \in Nat, NEW b \in Nat \ {0}, NEW c \in Nat, NEW d \in Nat \ {0},
           NEW e \in Nat, NEW f \in Nat \ {0},
           a * d >= c * b, c * f >= e * d, a * d > c * b \/ c * f > e * d
    PROVE  a * f > e * b
<1>1. /\ a * d \in Nat /\ c * b \in Nat /\ c * f \in Nat /\ e * d \in Nat
      /\ a * f \in Nat /\ e * b \in Nat
    OBVIOUS
<1>2. (a * d) * f = (a * f) * d /\ (c * b) * f = (c * f) * b /\ (e * d) * b = (e * b) * d
    OBVIOUS
<1>3. /\ (a * d) * f >= (c * b) * f /\ (c * f) * b >= (e * d) * b
      /\ (a * d) * f > (c * b) * f \/ (c * f) * b > (e * d) * b
    BY <1>1, ProductsOrder
<1>4. (a * f) * d > (e * b) * d
    <2>1. /\ (a * d) * f \in Nat /\ (c * b) * f \in Nat /\ (c * f) * b \in Nat
          /\ (e * d) * b \in Nat
        BY <1>1, ProductsOrder
    <2> QED BY <1>2, <1>3, <2>1
<1> QED BY <1>1, <1>4, ProductsOrder

\* Higher is what > is to fractions.
LEMMA HigherOrders ==
    ASSUME NEW p \in Fractions, NEW q \in Fractions, NEW r \in Fractions
    PROVE  /\ ~Higher(p, p) /\ ~(Higher(p, q) /\ Higher(q, p))
           /\ Higher(p, q) /\ ~Higher(r, q) => Higher(p, r)
           /\ ~Higher(q, p) /\ Higher(q, r) => Higher(p, r)
<1>1. /\ p[1] \in Nat /\ q[1] \in Nat /\ r[1] \in Nat
      /\ p[2] \in Nat \ {0} /\ q[2] \in Nat \ {0} /\ r[2] \in Nat \ {0}
    BY DEF Fractions
<1>2. \A x, y \in {p, q, r} : x[1] * y[2] \in Nat
    BY <1>1
<1>3. ~Higher(p, p) /\ ~(Higher(p, q) /\ Higher(q, p))
    BY <1>2 DEF Higher
<1>4. ASSUME Higher(p, q), ~Higher(r, q) PROVE Higher(p, r)
    <2>1. /\ p[1] * q[2] >= q[1] * p[2] /\ q[1] * r[2] >= r[1] * q[2]
          /\ p[1] * q[2] > q[1] * p[2]
        BY <1>2, <1>4 DEF Higher
    <2> QED BY <1>1, <2>1, CrossProducts DEF Higher
<1>5. ASSUME ~Higher(q, p), Higher(q, r) PROVE Higher(p, r)
    <2>1. /\ p[1] * q[2] >= q[1] * p[2] /\ q[1] * r[2] >= r[1] * q[2]
          /\ q[1] * r[2] > r[1] * q[2]
        BY <1>2, <1>5 DEF Higher
    <2> QED BY <1>1, <2>1, CrossProducts DEF Higher
<1> QED BY <1>3, <1>4, <1>5

\* A larger fraction added to one that is no less.
LEMMA SumsOrder ==
    ASSUME NEW a \in Nat, NEW b \in Nat \ {0}, NEW c \in Nat, NEW d \in Nat \ {0},
           NEW e \in Nat, NEW f \in Nat \ {0}, NEW g \in Nat, NEW h \in Nat \ {0},
           a * d >= c * b, e * h >= g * f, a * d > c * b \/ e * h > g * f
    PROVE  Higher(<<a * f + e * b, b * f>>, <<c * h + g * d, d * h>>)
<1>1. /\ a * d \in Nat /\ c * b \in Nat /\ e * h \in Nat /\ g * f \in Nat
      /\ f * h \in Nat \ {0} /\ b * d \in Nat \ {0}
    BY ProductsOrder
<1>2. (a * f + e * b) * (d * h) = (a * d) * (f * h) + (e * h) * (b * d)
    OBVIOUS
<1>3. (c * h + g * d) * (b * f) = (c * b) * (f * h) + (g * f) * (b * d)
    OBVIOUS
<1>4. /\ (a * d) * (f * h) >= (c * b) * (f * h) /\ (e * h) * (b * d) >= (g * f) * (b * d)
      /\ \/ (a * d) * (f * h) > (c * b) * (f * h)
         \/ (e * h) * (b * d) > (g * f) * (b * d)
      /\ (a * d) * (f * h) \in Nat /\ (c * b) * (f * h) \in Nat
      /\ (e * h) * (b * d) \in Nat /\ (g * f) * (b * d) \in Nat
    BY <1>1, ProductsOrder
<1>5. (a * d) * (f * h) + (e * h) * (b * d) > (c * b) * (f * h) + (g * f) * (b * d)
    BY <1>4
<1> QED BY <1>2, <1>3, <1>5 DEF Higher

\* A chunk's shares and its score are fractions.
LEMMA Scores ==
    ASSUME NEW S, NEW lexical \in Rankings(S), NEW vector \in Rankings(S), NEW c
    PROVE  /\ Share(lexical, c)[1] \in Nat /\ Share(lexical, c)[2] \in Nat \ {0}
           /\ Share(vector, c)[1] \in Nat /\ Share(vector, c)[2] \in Nat \ {0}
           /\ Score(lexical, vector, c) \in Fractions
<1>1. ASSUME NEW list \in Rankings(S)
      PROVE  Share(list, c)[1] \in Nat /\ Share(list, c)[2] \in Nat \ {0}
    <2>1. c \in ToSet(list) => RrfK + RankIn(list, c) \in Nat \ {0}
        BY InList, RetrievalAssumption
    <2>2. CASE c \in ToSet(list)
        BY <2>1, <2>2 DEF Share
    <2>3. CASE c \notin ToSet(list)
        BY <2>3 DEF Share
    <2> QED BY <2>2, <2>3
<1> HIDE DEF Share
<1>2. \A p1, q1 \in Nat : \A p2, q2 \in Nat \ {0} :
         <<p1 * q2 + q1 * p2, p2 * q2>> \in Fractions
    BY ProductsOrder DEF Fractions
<1> QED BY <1>1, <1>2 DEF Score

\* Fusion ranks what either search has found, as Ahead says.
LEMMA FusionIsSorted ==
    ASSUME NEW S, IsFiniteSet(S), NEW lexical \in Rankings(S), NEW vector \in Rankings(S)
    PROVE  LET found == ToSet(lexical) \cup ToSet(vector)
               fused == ReciprocalRankFusion(lexical, vector)
           IN  /\ found \subseteq S /\ fused \in Rankings(S) /\ ToSet(fused) = found
               /\ \A i, j \in DOMAIN fused : Ahead(lexical, vector, fused[i], fused[j]) => i < j
<1> DEFINE found == ToSet(lexical) \cup ToSet(vector)
           order == {p \in found \X found : Ahead(lexical, vector, p[1], p[2])}
           fused == ReciprocalRankFusion(lexical, vector)
           score(c) == Score(lexical, vector, c)
           place(c) == Insertion(lexical, vector, c)
<1>1. found \subseteq S /\ IsFiniteSet(found)
    <2>1. found \subseteq S
        BY InList
    <2> QED BY <2>1, FS_Subset
<1>2. ASSUME NEW c \in found PROVE score(c) \in Fractions /\ place(c) \in Nat
    <2>1. place(c) \in Nat
        BY InList DEF Insertion, Rankings
    <2> QED BY <2>1, Scores
<1>3. ASSUME NEW c \in found, NEW d \in found, c # d PROVE place(c) # place(d)
    <2>1. Len(lexical) \in Nat
        BY DEF Rankings
    <2>2. \A list \in {lexical, vector} : c \in ToSet(list) /\ d \in ToSet(list) =>
             RankIn(list, c) # RankIn(list, d)
        BY <1>3, InList
    <2> QED BY <2>1, <2>2, InList DEF Insertion
<1>4. \A c, d \in found : <<c, d>> \in order <=> 
         Higher(score(c), score(d)) \/ (~Higher(score(d), score(c)) /\ place(c) < place(d))
    BY DEF Ahead
<1> HIDE DEF score, place
<1>5. StrictOrder(found, order)
    <2>1. \A c \in found : <<c, c>> \notin order
        BY <1>2, <1>4, HigherOrders
    <2>2. \A c, d \in found : c = d \/ <<c, d>> \in order \/ <<d, c>> \in order
        <3> SUFFICES ASSUME NEW c \in found, NEW d \in found, c # d
                     PROVE  <<c, d>> \in order \/ <<d, c>> \in order
            OBVIOUS
        <3>1. place(c) < place(d) \/ place(d) < place(c)
            BY <1>2, <1>3
        <3>2. \/ Higher(score(c), score(d)) \/ Higher(score(d), score(c))
              \/ ~Higher(score(c), score(d)) /\ ~Higher(score(d), score(c))
            OBVIOUS
        <3> HIDE DEF order, found
        <3> QED BY <1>4, <3>1, <3>2
    <2>3. ASSUME NEW c \in found, NEW d \in found, NEW e \in found,
                 <<c, d>> \in order, <<d, e>> \in order
          PROVE  <<c, e>> \in order
        <3> HIDE DEF order, found
        <3>1. /\ score(c) \in Fractions /\ score(d) \in Fractions /\ score(e) \in Fractions
              /\ place(c) \in Nat /\ place(d) \in Nat /\ place(e) \in Nat
            BY <1>2
        <3>2. CASE Higher(score(c), score(d)) \/ Higher(score(d), score(e))
            <4>1. Higher(score(c), score(e))
                BY <1>4, <2>3, <3>1, <3>2, HigherOrders
            <4> QED BY <1>4, <4>1
        <3>3. CASE ~Higher(score(c), score(d)) /\ ~Higher(score(d), score(e))
            <4>1. ~Higher(score(e), score(c))
                BY <1>4, <2>3, <3>1, <3>3, HigherOrders
            <4>2. place(c) < place(e)
                BY <1>4, <2>3, <3>1, <3>3
            <4> QED BY <1>4, <4>1, <4>2
        <3> QED BY <3>2, <3>3
    <2> HIDE DEF order
    <2> QED BY <2>1, <2>2, <2>3 DEF StrictOrder
<1>6. fused \in Orders(found, order)
    <2>1. fused = Sorted(found, order)
        BY DEF ReciprocalRankFusion
    <2> HIDE DEF fused, order, found
    <2> QED BY <1>1, <1>5, <2>1, SortedOrders
<1>7. /\ fused \in Rankings(found) /\ ToSet(fused) = found
      /\ \A i, j \in DOMAIN fused : <<fused[i], fused[j]>> \in order => i < j
    <2> HIDE DEF fused, order, found
    <2> QED BY <1>1, <1>6, OrdersAreRankings
<1>8. \A i, j \in DOMAIN fused : Ahead(lexical, vector, fused[i], fused[j]) => i < j
    <2>1. \A i \in DOMAIN fused : fused[i] \in found
        <3> HIDE DEF fused, found
        <3> QED BY <1>7 DEF Rankings
    <2> HIDE DEF fused, found
    <2> QED BY <1>7, <2>1 DEF order
<1>9. fused \in Rankings(S)
    <2> HIDE DEF fused, found
    <2> QED BY <1>1, <1>7 DEF Rankings
<1> QED BY <1>1, <1>7, <1>8, <1>9

\* What a SELECT returns: no row twice, none without those that come before
\* it, and every row if there are no more than its limit.
LEMMA Selected ==
    ASSUME NEW S, IsFiniteSet(S), NEW precedes, NEW limit \in Nat,
           NEW list \in Select(S, precedes, limit)
    PROVE  /\ list \in Rankings(S) /\ Len(list) <= limit /\ ToSet(list) \subseteq S
           /\ \A c \in S, d \in ToSet(list) : <<c, d>> \in precedes =>
                 c \in ToSet(list) /\ RankIn(list, c) < RankIn(list, d)
           /\ Cardinality(S) <= limit => ToSet(list) = S
<1>1. PICK all \in Orders(S, precedes) : list = First(all, limit)
    BY DEF Select
<1>2. /\ all \in Rankings(S) /\ Len(all) = Cardinality(S) /\ ToSet(all) = S
      /\ \A i, j \in DOMAIN all : <<all[i], all[j]>> \in precedes => i < j
    BY <1>1, OrdersAreRankings
<1>3. /\ list \in Rankings(S) /\ Len(all) \in Nat
      /\ Len(list) = IF limit < Len(all) THEN limit ELSE Len(all)
      /\ \A i \in 1..Len(list) : list[i] = all[i]
      /\ ToSet(list) \subseteq S
    BY <1>1, <1>2, FirstOf
<1>4. DOMAIN all = 1..Len(all) /\ DOMAIN list = 1..Len(list)
    BY <1>2, <1>3 DEF Rankings
<1>5. ASSUME NEW c \in S, NEW d \in ToSet(list), <<c, d>> \in precedes
      PROVE  c \in ToSet(list) /\ RankIn(list, c) < RankIn(list, d)
    <2>1. PICK i \in 1..Len(all) : all[i] = c
        BY <1>2, <1>4 DEF ToSet
    <2>2. PICK j \in 1..Len(list) : list[j] = d
        BY <1>4 DEF ToSet
    <2>3. j \in 1..Len(all) /\ all[j] = d
        BY <1>3, <2>2
    <2>4. i < j
        BY <1>2, <1>4, <1>5, <2>1, <2>3
    <2>5. i \in 1..Len(list)
        BY <1>3, <2>4
    <2>6. list[i] = c
        BY <1>3, <2>1, <2>5
    <2>7. RankIn(list, list[i]) = i /\ RankIn(list, list[j]) = j /\ list[i] \in ToSet(list)
        BY <1>3, <2>5, RankInList
    <2> QED BY <2>2, <2>4, <2>6, <2>7
<1>6. ASSUME Cardinality(S) <= limit PROVE ToSet(list) = S
    <2>1. Len(list) = Len(all)
        BY <1>2, <1>3, <1>6
    <2> QED BY <1>2, <1>3, <1>4, <2>1 DEF ToSet
<1>7. Len(list) <= limit
    BY <1>3
<1> QED BY <1>3, <1>5, <1>6, <1>7

\* A ranking has as many places as elements.
LEMMA RankingLength ==
    ASSUME NEW S, NEW list \in Rankings(S)
    PROVE  IsFiniteSet(ToSet(list)) /\ Cardinality(ToSet(list)) = Len(list)
<1>1. Len(list) \in Nat /\ DOMAIN list = 1..Len(list) /\ IsInjective(list)
    BY DEF Rankings
<1>2. list \in Bijection(1..Len(list), ToSet(list))
    <2>1. list \in [1..Len(list) -> ToSet(list)]
        BY <1>1 DEF Rankings, ToSet
    <2> QED BY <1>1, <2>1 DEF Bijection, Injection, Surjection, IsInjective, ToSet
<1>3. ExistsBijection(1..Len(list), ToSet(list))
    BY <1>2 DEF ExistsBijection
<1> QED BY <1>1, <1>3, FS_CountingElements, FS_Bijection, FS_Interval

\* A ranking of a set's elements is one of any larger set's.
LEMMA WiderRankings ==
    ASSUME NEW S, NEW T, S \subseteq T
    PROVE  Rankings(S) \subseteq Rankings(T)
BY DEF Rankings

(***************************************************************************)
(* Reranking.                                                              *)
(***************************************************************************)
\* A list whose head is put into another order is the same ranking otherwise.
LEMMA Reordered ==
    ASSUME NEW S, NEW list \in Rankings(S), NEW n \in Nat, Len(list) = n, NEW m \in 0..n,
           NEW order \in Rankings(1..m), Len(order) = m, ToSet(order) = 1..m,
           NEW other \in Seq(S), Len(other) = n,
           \A i \in 1..m : other[i] = list[order[i]],
           \A i \in (m + 1)..n : other[i] = list[i]
    PROVE  other \in Rankings(S) /\ ToSet(other) = ToSet(list)
<1>1. /\ IsInjective(list) /\ DOMAIN list = 1..n /\ DOMAIN other = 1..n
      /\ \A i \in 1..n : list[i] \in S
    BY DEF Rankings
<1>2. /\ IsInjective(order) /\ DOMAIN order = 1..m
      /\ \A i \in 1..m : order[i] \in 1..m
    BY DEF Rankings
<1>3. ASSUME NEW k \in 1..m PROVE \E i \in 1..m : order[i] = k
    <2>1. k \in ToSet(order)
        OBVIOUS
    <2>2. \A x : x \in ToSet(order) => \E i \in DOMAIN order : order[i] = x
        BY DEF ToSet
    <2> QED BY <1>2, <2>1, <2>2
<1>12. PICK perm : perm = [i \in 1..n |-> IF i <= m THEN order[i] ELSE i]
    OBVIOUS
<1>13. ASSUME NEW i \in 1..n
       PROVE  /\ other[i] = list[perm[i]] /\ perm[i] \in 1..n
              /\ i <= m => perm[i] = order[i] /\ perm[i] \in 1..m /\ i \in 1..m
              /\ i > m => perm[i] = i
    <2>1. CASE i <= m
        <3>1. i \in 1..m /\ perm[i] = order[i]
            BY <1>12, <2>1
        <3>2. order[i] \in 1..m /\ order[i] \in 1..n
            BY <1>2, <3>1
        <3> QED BY <2>1, <3>1, <3>2
    <2>2. CASE i > m
        <3>1. i \in (m + 1)..n /\ perm[i] = i
            BY <1>12, <2>2
        <3> QED BY <2>2, <3>1
    <2> QED BY <2>1, <2>2
<1>14. ASSUME NEW i \in 1..n, NEW j \in 1..n, perm[i] = perm[j] PROVE i = j
    <2>1. CASE i <= m /\ j <= m
        <3>1. \A a, b \in 1..m : order[a] = order[b] => a = b
            BY <1>2 DEF IsInjective
        <3> QED BY <1>13, <1>14, <2>1, <3>1
    <2>2. CASE ~(i <= m /\ j <= m)
        BY <1>13, <1>14, <2>2
    <2> QED BY <2>1, <2>2
<1>15. ASSUME NEW k \in 1..n PROVE \E i \in 1..n : perm[i] = k
    <2>1. CASE k <= m
        <3>1. k \in 1..m
            BY <2>1
        <3>2. PICK i \in 1..m : order[i] = k
            BY <1>3, <3>1
        <3>3. i \in 1..n /\ i <= m
            OBVIOUS
        <3> QED BY <1>13, <3>2, <3>3
    <2>2. CASE k > m
        BY <1>13, <2>2
    <2> QED BY <2>1, <2>2
<1>16. IsInjective(other)
    <2>1. \A i, j \in 1..n : list[i] = list[j] => i = j
        BY <1>1 DEF IsInjective
    <2> SUFFICES ASSUME NEW i \in 1..n, NEW j \in 1..n, other[i] = other[j] PROVE i = j
        BY <1>1 DEF IsInjective
    <2>2. perm[i] = perm[j]
        BY <1>13, <2>1
    <2> QED BY <1>14, <2>2
<1>17. ToSet(other) = ToSet(list)
    <2>1. ASSUME NEW x \in ToSet(list) PROVE x \in ToSet(other)
        <3>1. PICK k \in 1..n : list[k] = x
            BY <1>1, <2>1 DEF ToSet
        <3>2. PICK i \in 1..n : perm[i] = k
            BY <1>15
        <3>3. other[i] = x
            BY <1>13, <3>1, <3>2
        <3> QED BY <1>1, <3>3 DEF ToSet
    <2>2. ASSUME NEW x \in ToSet(other) PROVE x \in ToSet(list)
        <3>1. PICK i \in 1..n : other[i] = x
            BY <1>1, <2>2 DEF ToSet
        <3>2. perm[i] \in 1..n /\ list[perm[i]] = x
            BY <1>13, <3>1
        <3> QED BY <1>1, <3>2 DEF ToSet
    <2> QED BY <2>1, <2>2
<1> QED BY <1>16, <1>17 DEF Rankings

\* Reranking reorders the first top_n, by relevance.
LEMMA Reranked ==
    ASSUME NEW S, NEW results \in Rankings(S), NEW top_n \in Nat,
           \A c \in S : Relevance[c] \in Nat
    PROVE  LET ranked == RerankResults(results, top_n)
           IN  /\ ranked \in Rankings(S) /\ Len(ranked) = Len(results)
               /\ ToSet(ranked) = ToSet(results)
               /\ Len(results) <= top_n =>
                     \A i, j \in 1..Len(ranked) : i < j =>
                         Relevance[ranked[i]] >= Relevance[ranked[j]]
<1> DEFINE ranked == RerankResults(results, top_n)
<1>1. PICK n : n = Len(results)
    OBVIOUS
<1>2. PICK head : head = First(results, top_n)
    OBVIOUS
<1>3. PICK m : m = Len(head)
    OBVIOUS
<1>4. /\ results \in Seq(S) /\ n \in Nat /\ \A i \in 1..n : results[i] \in S
    BY <1>1 DEF Rankings
<1>5. /\ head \in Rankings(S) /\ m = (IF top_n < n THEN top_n ELSE n)
      /\ \A i \in 1..m : head[i] = results[i]
    BY <1>1, <1>2, <1>3, FirstOf
<1>6. m \in 0..n /\ DOMAIN head = 1..m /\ \A i \in 1..m : head[i] \in S
    <2>1. m \in 0..n
        BY <1>4, <1>5
    <2>2. head \in Seq(S) /\ Len(head) = m
        BY <1>3, <1>5 DEF Rankings
    <2> QED BY <2>1, <2>2
<1>7. CASE n <= 1 \/ top_n = 0
    <2>1. ranked = results
        BY <1>1, <1>7 DEF RerankResults
    <2>2. n <= top_n => n <= 1
        BY <1>4, <1>7
    <2> QED BY <1>1, <1>4, <2>1, <2>2
<1>8. CASE ~(n <= 1 \/ top_n = 0)
    <2>1. PICK precedes : precedes =
              {p \in (1..m) \X (1..m) :
                  \/ Relevance[head[p[1]]] > Relevance[head[p[2]]]
                  \/ Relevance[head[p[1]]] = Relevance[head[p[2]]] /\ p[1] < p[2]}
        OBVIOUS
    <2>2. PICK order : order = Sorted(1..m, precedes)
        OBVIOUS
    <2>3. ranked = [i \in 1..m |-> head[order[i]]] \o SubSeq(results, m + 1, n)
        BY <1>1, <1>2, <1>3, <1>6, <1>8, <2>1, <2>2 DEF RerankResults
    <2>4. \A i, j \in 1..m : <<i, j>> \in precedes <=>
             \/ Relevance[head[i]] > Relevance[head[j]]
             \/ Relevance[head[i]] = Relevance[head[j]] /\ i < j
        BY <2>1
    <2>5. \A i \in 1..m : Relevance[head[i]] \in Nat
        BY <1>6
    <2>6. StrictOrder(1..m, precedes)
        BY <2>4, <2>5 DEF StrictOrder
    <2>7. IsFiniteSet(1..m) /\ Cardinality(1..m) = m
        BY <1>4, <1>6, FS_Interval
    <2>8. order \in Orders(1..m, precedes)
        BY <2>2, <2>6, <2>7, SortedOrders
    <2>9. /\ order \in Rankings(1..m) /\ Len(order) = m /\ ToSet(order) = 1..m
          /\ \A i, j \in DOMAIN order : <<order[i], order[j]>> \in precedes => i < j
        BY <2>7, <2>8, OrdersAreRankings
    <2>10. \A i \in 1..m : order[i] \in 1..m
        BY <2>9 DEF Rankings
    <2>11. ranked = [i \in 1..m |-> results[order[i]]] \o SubSeq(results, m + 1, n)
        <3>1. [i \in 1..m |-> head[order[i]]] = [i \in 1..m |-> results[order[i]]]
            BY <1>5, <2>10
        <3> QED BY <2>3, <3>1
    <2> HIDE DEF ranked
    <2>12. /\ ranked \in Seq(S) /\ Len(ranked) = n
           /\ \A i \in 1..m : ranked[i] = results[order[i]]
           /\ \A i \in (m + 1)..n : ranked[i] = results[i]
        <3>1. PICK first : first = [i \in 1..m |-> results[order[i]]]
            OBVIOUS
        <3>2. first \in Seq(S) /\ Len(first) = m /\ \A i \in 1..m : first[i] = results[order[i]]
            <4>1. \A i \in 1..m : results[order[i]] \in S
                BY <1>4, <1>6, <2>10
            <4> QED BY <1>6, <3>1, <4>1
        <3>3. PICK rest : rest = SubSeq(results, m + 1, n)
            OBVIOUS
        <3>4. /\ rest \in Seq(S) /\ Len(rest) = n - m
              /\ \A i \in 1..(n - m) : rest[i] = results[m + i]
            BY <1>1, <1>4, <1>6, <3>3
        <3>5. /\ first \o rest \in Seq(S) /\ Len(first \o rest) = n
              /\ \A i \in 1..m : (first \o rest)[i] = first[i]
              /\ \A i \in (m + 1)..n : (first \o rest)[i] = rest[i - m]
            <4>1. first \o rest \in Seq(S) /\ Len(first \o rest) = n
                <5>1. m + (n - m) = n
                    BY <1>4, <1>6
                <5>2. Len(first \o rest) = Len(first) + Len(rest)
                    <6>1. first \in Seq(S) /\ rest \in Seq(S)
                        BY <3>2, <3>4
                    <6> QED BY <6>1
                <5> QED BY <3>2, <3>4, <5>1, <5>2
            <4>2. \A i \in 1..m : (first \o rest)[i] = first[i]
                BY <1>4, <1>6, <3>2, <3>4
            <4>3. \A i \in (m + 1)..n : (first \o rest)[i] = rest[i - m]
                BY <1>4, <1>6, <3>2, <3>4
            <4> QED BY <4>1, <4>2, <4>3, Zenon
        <3>6. ranked = first \o rest
            BY <2>11, <3>1, <3>3
        <3>7. \A i \in (m + 1)..n : i - m \in 1..(n - m) /\ m + (i - m) = i
            BY <1>4, <1>6
        <3>8. \A i \in (m + 1)..n : rest[i - m] = results[i]
            BY <3>4, <3>7
        <3>9. /\ \A i \in 1..m : (first \o rest)[i] = results[order[i]]
              /\ \A i \in (m + 1)..n : (first \o rest)[i] = results[i]
            BY <3>2, <3>5, <3>8
        <3> HIDE DEF ranked
        <3> QED BY <3>5, <3>6, <3>9, Zenon
    <2>14. ranked \in Rankings(S) /\ ToSet(ranked) = ToSet(results)
        BY <1>1, <1>4, <1>6, <2>9, <2>12, Reordered
    <2>13. ASSUME n <= top_n, NEW i \in 1..n, NEW j \in 1..n, i < j
           PROVE  Relevance[ranked[i]] >= Relevance[ranked[j]]
        <3>1. m = n /\ i \in 1..m /\ j \in 1..m
            BY <1>4, <1>5, <2>13
        <3>2. /\ ranked[i] = head[order[i]] /\ ranked[j] = head[order[j]]
              /\ order[i] \in 1..m /\ order[j] \in 1..m
            BY <1>5, <2>10, <2>12, <3>1
        <3>3. <<order[j], order[i]>> \notin precedes
            <4>1. DOMAIN order = 1..m
                BY <2>9 DEF Rankings
            <4>2. ~(j < i)
                BY <2>13
            <4> QED BY <2>9, <3>1, <4>1, <4>2
        <3>4. ~(Relevance[head[order[j]]] > Relevance[head[order[i]]])
            BY <2>4, <3>2, <3>3
        <3>5. Relevance[head[order[i]]] \in Nat /\ Relevance[head[order[j]]] \in Nat
            BY <2>5, <3>2
        <3> QED BY <3>2, <3>4, <3>5
    <2> QED BY <1>1, <2>12, <2>13, <2>14 DEF ranked
<1> QED BY <1>7, <1>8

(***************************************************************************)
(* The inductive invariant.                                                *)
(***************************************************************************)
Asked == ChunksIn(before) \cap request.within

Typed ==
    /\ request \in Requests /\ settings \in Settings
    /\ published \subseteq Documents /\ before \subseteq published
    /\ task \in [stage : Stages, lexical : Rankings(Chunks), vector : Rankings(Chunks),
                 results : Rankings(Chunks),
                 answer : [unknown : BOOLEAN, words : SUBSET Vocabulary]]
    /\ Len(task.results) <= request.top_k

\* Which searches are ahead of the request.
Underway ==
    /\ task.stage = "idle" => task.lexical = <<>>
    /\ task.stage = "idle" \/ request.mode = "lexical" => task.vector = <<>>
    /\ task.stage = "lexical" => request.mode # "vector"
    /\ task.stage = "vector" => request.mode # "lexical"

\* The text query misses no chunk that was there when the question was asked
\* and comes before one it has found, and no match at all if there is room for
\* all; what the vector query returned is in its order.
Searched ==
    /\ ToSet(task.lexical) \cup ToSet(task.vector) \subseteq Visible
    /\ \A c \in Asked, d \in ToSet(task.lexical) : TextRank[c] > TextRank[d] =>
          c \in ToSet(task.lexical) /\ RankIn(task.lexical, c) < RankIn(task.lexical, d)
    /\ \A c, d \in ToSet(task.vector) : Distance[c] < Distance[d] =>
          RankIn(task.vector, c) < RankIn(task.vector, d)
    /\ /\ task.stage \in {"vector", "rank"} /\ request.mode # "vector"
       /\ Cardinality(Visible) <= Limit
       => \A c \in Asked : TextRank[c] > 0 => c \in ToSet(task.lexical)

Whole == [finding |-> {FindingRow}, evidence |-> EvidenceRows, audit |-> {AuditRow}]

\* The rows of the transaction and the tables, by the stage.
Rows ==
    /\ task.stage \in Stages \ {"add", "commit"} => pending = NoRows
    /\ task.stage = "add" => pending = [NoRows EXCEPT !.finding = {FindingRow}]
    /\ task.stage = "commit" => pending = Whole
    /\ task.stage \in Stages \ {"refresh", "done"} => stored = NoRows
    /\ task.stage = "refresh" => stored = Whole
    /\ stored \in {NoRows, Whole}

Told ==
    /\ task.stage # "done" => reply = NoReply
    /\ reply.status = 200 =>
          /\ stored = Whole /\ reply.citations = task.results
          /\ reply.grounded <=> Scored >= MinScore
    /\ reply.status # 200 => ~reply.grounded
    /\ reply.status = 502 => stored = NoRows

AInv == /\ Typed /\ Underway /\ Searched /\ Rows /\ Told
        /\ FusionKeepsDominance /\ RerankingReachesThePool

\* What the assumptions say of a request and its settings.
LEMMA RequestTypes ==
    ASSUME AInv
    PROVE  /\ request.top_k \in 1..20 /\ request.mode \in {"lexical", "vector", "hybrid"}
           /\ settings.rerank_enabled \in BOOLEAN /\ settings.rerank_candidate_pool \in Nat
           /\ CandidateK \in Nat /\ Limit \in Nat
           /\ request.top_k <= CandidateK /\ CandidateK <= Limit
           /\ settings.rerank_enabled => settings.rerank_candidate_pool <= CandidateK
           /\ ~settings.rerank_enabled => CandidateK = request.top_k
<1>1. /\ request.top_k \in 1..20 /\ request.mode \in {"lexical", "vector", "hybrid"}
      /\ settings.rerank_enabled \in BOOLEAN /\ settings.rerank_candidate_pool \in Nat
    BY AnswerAssumption DEF AInv, Typed
<1>2. /\ CandidateK \in Nat /\ request.top_k <= CandidateK
      /\ settings.rerank_enabled => settings.rerank_candidate_pool <= CandidateK
      /\ ~settings.rerank_enabled => CandidateK = request.top_k
    BY <1>1 DEF CandidateK, AtLeast
<1>3. CandidatePool(CandidateK) \in Nat /\ CandidateK <= CandidatePool(CandidateK)
    <2>1. CandidateK * Multiplier \in Nat /\ CandidateK <= CandidateK * Multiplier
        <3>1. \A a \in Nat, b \in Nat \ {0} : a * b \in Nat /\ a <= a * b
            BY ProductsOrder
        <3> QED BY <1>2, <3>1, RetrievalAssumption
    <2> QED BY <1>2, <2>1, RetrievalAssumption DEF CandidatePool, AtLeast
<1>4. Limit \in Nat /\ CandidateK <= Limit
    BY <1>2, <1>3 DEF Limit
<1> QED BY <1>1, <1>2, <1>4

\* Uploads only add to what is visible, and there is room for what there was.
LEMMA VisibleGrows ==
    ASSUME AInv, UNCHANGED request, published \subseteq published', published' \subseteq Documents
    PROVE  /\ Visible \subseteq Visible' /\ Visible' \subseteq Chunks
           /\ IsFiniteSet(Visible') /\ IsFiniteSet(Visible)
           /\ Cardinality(Visible) \in Nat /\ Cardinality(Visible') \in Nat
           /\ Cardinality(Visible) <= Cardinality(Visible')
<1>1. Visible \subseteq Visible'
    BY DEF Visible, ChunksIn
<1>2. \A d \in Documents : ChunksOf[d] \subseteq Chunks
    BY AnswerAssumption
<1>3. Visible' \subseteq Chunks
    BY <1>2 DEF Visible, ChunksIn
<1>4. IsFiniteSet(Visible')
    BY <1>3, FS_Subset, AnswerAssumption
<1> QED BY <1>1, <1>3, <1>4, FS_Subset, FS_CardinalityType

\* What was there when the question was asked is visible.
LEMMA AskedIsVisible ==
    ASSUME AInv
    PROVE  Asked \subseteq Visible /\ Visible \subseteq Chunks /\ IsFiniteSet(Visible)
           /\ Cardinality(Visible) \in Nat
<1>1. Asked \subseteq Visible
    BY DEF AInv, Typed, Asked, Visible, ChunksIn
<1>2. \A d \in Documents : ChunksOf[d] \subseteq Chunks
    BY AnswerAssumption
<1>3. Visible \subseteq Chunks
    BY <1>2 DEF AInv, Typed, Visible, ChunksIn
<1> QED BY <1>1, <1>3, FS_Subset, FS_CardinalityType, AnswerAssumption

\* The fields of the handler's task keep their types.
LEMMA TaskFields ==
    ASSUME AInv
    PROVE  /\ task.stage \in Stages
           /\ task.lexical \in Rankings(Chunks) /\ task.vector \in Rankings(Chunks)
           /\ task.results \in Rankings(Chunks)
           /\ task.answer.unknown \in BOOLEAN /\ task.answer.words \subseteq Vocabulary
BY DEF AInv, Typed

(***************************************************************************)
(* Steps that leave the searches and their results alone.                  *)
(***************************************************************************)
LEMMA StageStep ==
    ASSUME AInv, NEW s \in {"add", "commit", "refresh", "done"}, Goto(s),
           UNCHANGED <<request, settings, published, before>>
    PROVE  /\ Typed' /\ Underway' /\ Searched'
           /\ FusionKeepsDominance' /\ RerankingReachesThePool'
           /\ task'.stage = s /\ task'.results = task.results /\ task'.answer = task.answer
           /\ Scored' = Scored /\ FindingRow' = FindingRow /\ EvidenceRows' = EvidenceRows
           /\ AuditRow' = AuditRow /\ Whole' = Whole
<1>1. /\ task'.stage = s /\ task'.results = task.results /\ task'.answer = task.answer
      /\ task'.lexical = task.lexical /\ task'.vector = task.vector
      /\ task' \in [stage : Stages, lexical : Rankings(Chunks), vector : Rankings(Chunks),
                    results : Rankings(Chunks),
                    answer : [unknown : BOOLEAN, words : SUBSET Vocabulary]]
    BY DEF AInv, Typed, Goto, Stages
<1>2. Typed'
    BY <1>1 DEF AInv, Typed
<1>3. Underway' /\ FusionKeepsDominance' /\ RerankingReachesThePool'
    BY <1>1 DEF AInv, Underway, FusionKeepsDominance, RerankingReachesThePool
<1>4. Searched'
    BY <1>1 DEF AInv, Searched, Visible, Asked, ChunksIn
<1>5. Scored' = Scored /\ FindingRow' = FindingRow /\ EvidenceRows' = EvidenceRows
      /\ AuditRow' = AuditRow
    BY <1>1 DEF Scored, FindingRow, EvidenceRows, AuditRow, Confidence
<1> QED BY <1>1, <1>2, <1>3, <1>4, <1>5 DEF Whole

\* The flush adds the finding to the transaction.
LEMMA FlushFindingInv ==
    ASSUME AInv, FlushFinding PROVE AInv'
<1>1. /\ task.stage = "flush" /\ Goto("add") /\ pending = NoRows /\ reply = NoReply
      /\ stored = NoRows
      /\ pending' = [pending EXCEPT !.finding = {FindingRow}]
      /\ UNCHANGED <<request, settings, published, before, stored, reply>>
    BY DEF FlushFinding, AInv, Rows, Told, Stages
<1>2. Rows'
    BY <1>1, StageStep DEF Rows, Stages
<1>3. Told'
    BY <1>1, StageStep DEF Told, NoReply
<1> QED BY <1>1, <1>2, <1>3, StageStep DEF AInv

\* With its evidence and its audit row the transaction is whole.
LEMMA AddRowsInv ==
    ASSUME AInv, AddRows PROVE AInv'
<1>1. /\ task.stage = "add" /\ Goto("commit") /\ pending = [NoRows EXCEPT !.finding = {FindingRow}]
      /\ reply = NoReply /\ stored = NoRows
      /\ pending' = [pending EXCEPT !.evidence = EvidenceRows, !.audit = {AuditRow}]
      /\ UNCHANGED <<request, settings, published, before, stored, reply>>
    BY DEF AddRows, AInv, Rows, Told, Stages
<1>2. pending' = Whole
    BY <1>1 DEF NoRows, Whole
<1>3. Rows'
    BY <1>1, <1>2, StageStep DEF Rows, Stages
<1>4. Told'
    BY <1>1, StageStep DEF Told, NoReply
<1> QED BY <1>1, <1>3, <1>4, StageStep DEF AInv

\* What a commit publishes over empty tables is the transaction.
LEMMA PublishedWhole ==
    ASSUME stored = NoRows, pending = Whole
    PROVE  Published(pending) = Whole
<1>1. DOMAIN Whole = {"finding", "evidence", "audit"}
    BY DEF Whole
<1>2. \A table \in {"finding", "evidence", "audit"} : NoRows[table] \cup Whole[table] = Whole[table]
    BY DEF NoRows
<1> QED BY <1>1, <1>2 DEF Published, Whole

\* uq_finding_evidence_finding_chunk is never violated.
LEMMA WholeCitesOnce ==
    ASSUME AInv
    PROVE  CitesOnce(EvidenceRows)
BY TaskFields DEF CitesOnce, EvidenceRows, Rankings, IsInjective

\* COMMIT finds no duplicate and publishes the whole transaction.
LEMMA CommitInv ==
    ASSUME AInv, Commit PROVE AInv'
<1>1. /\ task.stage = "commit" /\ pending = Whole /\ stored = NoRows /\ reply = NoReply
      /\ UNCHANGED <<request, settings, published, before>> /\ pending' = NoRows
    BY DEF Commit, AInv, Rows, Told, Stages
<1>2. CitesOnce(pending.evidence)
    BY <1>1, WholeCitesOnce DEF Whole
<1>3. stored' = Whole /\ Goto("refresh") /\ UNCHANGED reply
    BY <1>1, <1>2, PublishedWhole DEF Commit
<1>4. Rows'
    BY <1>1, <1>3, StageStep DEF Rows, Stages
<1>5. Told'
    BY <1>1, <1>3, StageStep DEF Told, NoReply
<1> QED BY <1>1, <1>3, <1>4, <1>5, StageStep DEF AInv

\* So does the COMMIT whose acknowledgement is lost.
LEMMA CommitUnacknowledgedInv ==
    ASSUME AInv, CommitUnacknowledged PROVE AInv'
<1>1. /\ task.stage = "commit" /\ pending = Whole /\ stored = NoRows /\ reply = NoReply
      /\ UNCHANGED <<request, settings, published, before>> /\ pending' = NoRows
      /\ Goto("done") /\ reply' = [reply EXCEPT !.status = 500]
    BY DEF CommitUnacknowledged, AInv, Rows, Told, Stages, Reply
<1>2. stored' = Whole
    BY <1>1, PublishedWhole DEF CommitUnacknowledged
<1>3. Rows'
    BY <1>1, <1>2, StageStep DEF Rows, Stages
<1>4. Told'
    BY <1>1, <1>2, StageStep DEF Told, NoReply
<1> QED BY <1>1, <1>3, <1>4, StageStep DEF AInv

\* The response tells what is stored.
LEMMA RespondInv ==
    ASSUME AInv, Respond PROVE AInv'
<1>1. /\ task.stage = "refresh" /\ pending = NoRows /\ stored = Whole /\ Goto("done")
      /\ UNCHANGED <<request, settings, published, before, pending, stored>>
      /\ reply' = [status |-> 200, citations |-> task.results, grounded |-> Scored >= MinScore]
    BY DEF Respond, AInv, Rows, Stages
<1>2. Rows'
    BY <1>1, StageStep DEF Rows, Stages
<1>3. Told'
    <2>1. /\ reply'.status = 200 /\ reply'.citations = task.results
          /\ reply'.grounded = (Scored >= MinScore)
        BY <1>1
    <2>2. /\ task'.stage = "done" /\ task'.results = task.results /\ Scored' = Scored
          /\ stored' = Whole /\ Whole' = Whole
        BY <1>1, StageStep
    <2>3. reply'.citations = task'.results /\ (reply'.grounded <=> Scored' >= MinScore)
        BY <2>1, <2>2
    <2> QED BY <2>1, <2>2, <2>3 DEF Told
<1> QED BY <1>1, <1>2, <1>3, StageStep DEF AInv

\* A rollback leaves what was committed; HTTP 502 is sent before anything is.
LEMMA RollbackInv ==
    ASSUME AInv, ProviderFails \/ Abort PROVE AInv'
<1>1. PICK status \in {0, 500, 502} : Rollback(status) /\ (status = 502 => task.stage = "generate")
    BY DEF ProviderFails, Abort
<1>2. task.stage # "done"
    BY DEF ProviderFails, Abort
<1>3. /\ Goto("done") /\ pending' = NoRows /\ reply = NoReply
      /\ reply' = [reply EXCEPT !.status = status]
      /\ UNCHANGED <<request, settings, published, before, stored>>
      /\ stored \in {NoRows, Whole} /\ (status = 502 => stored = NoRows)
    BY <1>1, <1>2 DEF Rollback, Reply, AInv, Told, Rows, Stages
<1>4. Rows'
    BY <1>3, StageStep DEF Rows, Stages
<1>5. Told'
    BY <1>3, StageStep DEF Told, NoReply
<1> QED BY <1>3, <1>4, <1>5, StageStep DEF AInv

\* Before the question.
LEMMA AnswerInitInv ==
    ASSUME AnswerInit PROVE AInv
<1>1. <<>> \in Rankings(Chunks) /\ ToSet(<<>>) = {}
    BY DEF Rankings, IsInjective, ToSet
<1>2. /\ task.stage = "idle" /\ task.lexical = <<>> /\ task.vector = <<>> /\ task.results = <<>>
      /\ task \in [stage : Stages, lexical : Rankings(Chunks), vector : Rankings(Chunks),
                   results : Rankings(Chunks),
                   answer : [unknown : BOOLEAN, words : SUBSET Vocabulary]]
    BY <1>1 DEF AnswerInit, Stages, NoAnswer
<1>3. Typed
    <2>1. request.top_k \in 1..20
        BY AnswerAssumption DEF AnswerInit
    <2> QED BY <1>2, <2>1 DEF Typed, AnswerInit
<1>4. Underway /\ Rows /\ Told /\ FusionKeepsDominance /\ RerankingReachesThePool
    BY <1>2 DEF AnswerInit, Underway, Rows, Told, FusionKeepsDominance, RerankingReachesThePool,
                Stages, NoReply
<1>5. Searched
    BY <1>1, <1>2 DEF Searched
<1> QED BY <1>3, <1>4, <1>5 DEF AInv

\* Before the transaction: a step that changes the task and nothing stored.
LEMMA QuietRows ==
    ASSUME AInv, UNCHANGED <<pending, stored, reply>>,
           {task.stage, task'.stage}
               \subseteq {"idle", "lexical", "vector", "rank", "generate", "flush"}
    PROVE  Rows' /\ Told'
<1>1. /\ pending = NoRows /\ stored = NoRows /\ reply = NoReply /\ task.stage \in Stages
      /\ task'.stage \in Stages
    BY DEF AInv, Rows, Told, Stages
<1> QED BY <1>1 DEF Rows, Told, Stages, NoReply

\* The question is asked: nothing has been searched yet.
LEMMA AskInv ==
    ASSUME AInv, Ask PROVE AInv'
<1>1. /\ task.stage = "idle" /\ task.lexical = <<>> /\ task.vector = <<>>
      /\ before' = published
      /\ UNCHANGED <<request, settings, published, pending, stored, reply>>
    BY DEF Ask, AInv, Underway
<1>2. /\ task'.stage = IF request.mode = "vector" THEN "vector" ELSE "lexical"
      /\ task'.lexical = <<>> /\ task'.vector = <<>> /\ task'.results = task.results
      /\ task' \in [stage : Stages, lexical : Rankings(Chunks), vector : Rankings(Chunks),
                    results : Rankings(Chunks),
                    answer : [unknown : BOOLEAN, words : SUBSET Vocabulary]]
    BY <1>1 DEF Ask, AInv, Typed, Goto, Stages
<1>3. Typed'
    BY <1>1, <1>2 DEF AInv, Typed
<1>4. Underway' /\ FusionKeepsDominance' /\ RerankingReachesThePool'
    BY <1>1, <1>2 DEF Underway, FusionKeepsDominance, RerankingReachesThePool
<1>5. Searched'
    <2>1. ToSet(<<>>) = {}
        BY DEF ToSet
    <2>2. /\ ToSet(task'.lexical) = {} /\ ToSet(task'.vector) = {} /\ task'.stage # "rank"
          /\ task'.stage = "vector" => request'.mode = "vector"
        BY <1>1, <1>2, <2>1
    <2> QED BY <2>2 DEF Searched
<1> QED BY <1>1, <1>2, <1>3, <1>4, <1>5, QuietRows DEF AInv

\* The lexical query sees all that was there when the question was asked.
LEMMA SelectLexicalInv ==
    ASSUME AInv, SelectLexical PROVE AInv'
<1>1. /\ task.stage = "lexical" /\ request.mode # "vector"
      /\ UNCHANGED <<request, settings, published, before, pending, stored, reply>>
    BY DEF SelectLexical, AInv, Underway
<1>2. PICK hits \in LexicalSearch(Visible, Limit) :
         task' = [task EXCEPT !.lexical = hits,
                              !.stage = IF request.mode = "hybrid" THEN "vector" ELSE "rank"]
    BY DEF SelectLexical
<1>3. PICK matching : matching = {c \in Visible : TextRank[c] > 0}
    OBVIOUS
<1>4. PICK precedes :
         precedes = {p \in matching \X matching : TextRank[p[1]] > TextRank[p[2]]}
    OBVIOUS
<1>5. hits \in Select(matching, precedes, Limit)
    BY <1>2, <1>3, <1>4 DEF LexicalSearch
<1>6. /\ matching \subseteq Visible /\ matching \subseteq Chunks /\ IsFiniteSet(matching)
      /\ Cardinality(matching) \in Nat /\ Cardinality(matching) <= Cardinality(Visible)
    BY <1>3, AskedIsVisible, FS_Subset, FS_CardinalityType
<1>7. Limit \in Nat
    BY RequestTypes
<1>8. /\ hits \in Rankings(matching) /\ ToSet(hits) \subseteq matching
      /\ \A c \in matching, d \in ToSet(hits) : <<c, d>> \in precedes =>
            c \in ToSet(hits) /\ RankIn(hits, c) < RankIn(hits, d)
      /\ Cardinality(matching) <= Limit => ToSet(hits) = matching
    BY <1>5, <1>6, <1>7, Selected
<1>9. hits \in Rankings(Chunks)
    BY <1>6, <1>8, WiderRankings
<1>10. /\ task'.stage = IF request.mode = "hybrid" THEN "vector" ELSE "rank"
       /\ task'.lexical = hits /\ task'.vector = task.vector /\ task'.results = task.results
       /\ task' \in [stage : Stages, lexical : Rankings(Chunks), vector : Rankings(Chunks),
                     results : Rankings(Chunks),
                     answer : [unknown : BOOLEAN, words : SUBSET Vocabulary]]
    BY <1>2, <1>9 DEF AInv, Typed, Stages
<1>11. Typed'
    BY <1>1, <1>10 DEF AInv, Typed
<1>12. Underway' /\ FusionKeepsDominance' /\ RerankingReachesThePool'
    BY <1>1, <1>10 DEF AInv, Underway, FusionKeepsDominance, RerankingReachesThePool
<1>13. Searched'
    <2>1. Visible' = Visible /\ Asked' = Asked /\ Limit' = Limit
        BY <1>1 DEF Visible, Asked, ChunksIn, Limit, CandidateK
    <2>2. ASSUME NEW c \in Asked, NEW d \in ToSet(hits), TextRank[c] > TextRank[d]
          PROVE  c \in ToSet(hits) /\ RankIn(hits, c) < RankIn(hits, d)
        <3>1. d \in matching /\ TextRank[d] > 0 /\ TextRank[d] \in Nat /\ TextRank[c] \in Nat
            BY <1>3, <1>6, <1>8, AskedIsVisible, RetrievalAssumption
        <3>2. c \in matching
            BY <1>3, <2>2, <3>1, AskedIsVisible
        <3> QED BY <1>4, <1>8, <2>2, <3>1, <3>2
    <2>3. ASSUME Cardinality(Visible) <= Limit, NEW c \in Asked, TextRank[c] > 0
          PROVE  c \in ToSet(hits)
        <3>1. ToSet(hits) = matching
            BY <1>6, <1>7, <1>8, <2>3, AskedIsVisible
        <3> QED BY <1>3, <2>3, <3>1, AskedIsVisible
    <2>4. ToSet(hits) \subseteq Visible /\ ToSet(task.vector) \subseteq Visible
        BY <1>6, <1>8 DEF AInv, Searched
    <2>5. \A c, d \in ToSet(task.vector) : Distance[c] < Distance[d] =>
             RankIn(task.vector, c) < RankIn(task.vector, d)
        BY DEF AInv, Searched
    <2> QED BY <1>1, <1>10, <2>1, <2>2, <2>3, <2>4, <2>5 DEF Searched
<1> QED BY <1>1, <1>10, <1>11, <1>12, <1>13, QuietRows DEF AInv

\* The vector query orders what it returns of what has been committed since.
LEMMA SelectVectorInv ==
    ASSUME AInv, SelectVector PROVE AInv'
<1>1. /\ task.stage = "vector" /\ request.mode # "lexical"
      /\ UNCHANGED <<request, settings, published, before, pending, stored, reply>>
    BY DEF SelectVector, AInv, Underway
<1>2. PICK hits \in VectorSearch(Visible, Limit) :
         task' = [task EXCEPT !.vector = hits, !.stage = "rank"]
    BY DEF SelectVector
<1>3. PICK some \in SUBSET Visible :
         hits \in Select(some, {p \in some \X some : Distance[p[1]] < Distance[p[2]]}, Limit)
    BY <1>2 DEF VectorSearch
<1>4. PICK precedes :
         precedes = {p \in some \X some : Distance[p[1]] < Distance[p[2]]}
    OBVIOUS
<1>5. Limit \in Nat /\ IsFiniteSet(some) /\ some \subseteq Visible /\ some \subseteq Chunks
    BY RequestTypes, AskedIsVisible, FS_Subset
<1>6. /\ hits \in Rankings(some) /\ ToSet(hits) \subseteq some
      /\ \A c \in some, d \in ToSet(hits) : <<c, d>> \in precedes =>
            c \in ToSet(hits) /\ RankIn(hits, c) < RankIn(hits, d)
    BY <1>3, <1>4, <1>5, Selected
<1>7. hits \in Rankings(Chunks)
    BY <1>5, <1>6, WiderRankings
<1>8. /\ task'.stage = "rank"
      /\ task'.lexical = task.lexical /\ task'.vector = hits /\ task'.results = task.results
      /\ task' \in [stage : Stages, lexical : Rankings(Chunks), vector : Rankings(Chunks),
                    results : Rankings(Chunks),
                    answer : [unknown : BOOLEAN, words : SUBSET Vocabulary]]
    BY <1>2, <1>7 DEF AInv, Typed, Stages
<1>9. Typed'
    BY <1>1, <1>8 DEF AInv, Typed
<1>10. Underway' /\ FusionKeepsDominance' /\ RerankingReachesThePool'
    BY <1>1, <1>8 DEF Underway, FusionKeepsDominance, RerankingReachesThePool
<1>11. Searched'
    <2>1. Visible' = Visible /\ Asked' = Asked /\ Limit' = Limit
        BY <1>1 DEF Visible, Asked, ChunksIn, Limit, CandidateK
    <2>2. \A c, d \in ToSet(hits) : Distance[c] < Distance[d] =>
             RankIn(hits, c) < RankIn(hits, d)
        BY <1>4, <1>6
    <2>3. request.mode # "vector" /\ Cardinality(Visible) <= Limit =>
             \A c \in Asked : TextRank[c] > 0 => c \in ToSet(task.lexical)
        BY <1>1 DEF AInv, Searched
    <2>4. ToSet(hits) \subseteq Visible /\ ToSet(task.lexical) \subseteq Visible
        BY <1>5, <1>6 DEF AInv, Searched
    <2>5. \A c \in Asked, d \in ToSet(task.lexical) : TextRank[c] > TextRank[d] =>
             c \in ToSet(task.lexical) /\ RankIn(task.lexical, c) < RankIn(task.lexical, d)
        BY DEF AInv, Searched
    <2> QED BY <1>1, <1>8, <2>1, <2>2, <2>3, <2>4, <2>5 DEF Searched
<1> QED BY <1>1, <1>8, <1>9, <1>10, <1>11, QuietRows DEF AInv

\* A commit of an upload makes more visible, and moves no result.
LEMMA PublishInv ==
    ASSUME AInv, NEW d \in Documents, Publish(d) PROVE AInv'
<1>1. /\ published' = published \cup {d}
      /\ UNCHANGED <<request, settings, before, task, pending, stored, reply>>
    BY DEF Publish
<1>2. published' \subseteq Documents /\ published \subseteq published'
    BY <1>1 DEF AInv, Typed
<1>3. Typed'
    BY <1>1, <1>2 DEF AInv, Typed
<1>4. Underway' /\ FusionKeepsDominance'
    BY <1>1 DEF AInv, Underway, FusionKeepsDominance, NearerFound, ChunksIn
<1>5. /\ Visible \subseteq Visible' /\ Cardinality(Visible) \in Nat /\ Cardinality(Visible') \in Nat
      /\ Cardinality(Visible) <= Cardinality(Visible')
    BY <1>1, <1>2, VisibleGrows
<1>6. Limit' = Limit /\ Asked' = Asked /\ Limit \in Nat /\ settings.rerank_candidate_pool \in Nat
    BY <1>1, RequestTypes DEF Limit, CandidateK, Asked, ChunksIn
<1>7. Searched'
    <2>1. Cardinality(Visible') <= Limit => Cardinality(Visible) <= Limit
        BY <1>5, <1>6
    <2> QED BY <1>1, <1>5, <1>6, <2>1 DEF AInv, Searched
<1>8. RerankingReachesThePool'
    <2>1. Cardinality(Visible') <= settings.rerank_candidate_pool =>
             Cardinality(Visible) <= settings.rerank_candidate_pool
        BY <1>5, <1>6
    <2> QED BY <1>1, <2>1 DEF AInv, RerankingReachesThePool, Offered, ChunksIn
<1>9. Rows' /\ Told'
    <2>1. Scored' = Scored /\ FindingRow' = FindingRow /\ EvidenceRows' = EvidenceRows
          /\ AuditRow' = AuditRow
        BY <1>1 DEF FindingRow, EvidenceRows, AuditRow, Scored
    <2>2. Whole' = Whole
        BY <2>1 DEF Whole
    <2> QED BY <1>1, <2>1, <2>2 DEF AInv, Rows, Told
<1> QED BY <1>3, <1>4, <1>7, <1>8, <1>9 DEF AInv

\* The answer is written of words there are.
LEMMA GenerateInv ==
    ASSUME AInv, Generate PROVE AInv'
<1>1. /\ task.stage = "generate"
      /\ UNCHANGED <<request, settings, published, before, pending, stored, reply>>
    BY DEF Generate
<1>2. PICK answer \in Answers : task' = [task EXCEPT !.answer = answer, !.stage = "flush"]
    BY DEF Generate
<1>3. answer \in [unknown : BOOLEAN, words : SUBSET Vocabulary]
    <2>1. ASSUME task.results # <<>>
          PROVE  [unknown |-> FALSE, words |-> Opening[task.results[1]]]
                     \in [unknown : BOOLEAN, words : SUBSET Vocabulary]
        <3>1. task.results[1] \in Chunks
            BY <2>1, TaskFields DEF Rankings
        <3>2. Opening[task.results[1]] \subseteq Vocabulary
            BY <3>1, AnswerAssumption DEF Vocabulary
        <3> QED BY <3>2
    <2>2. Unknown \in [unknown : BOOLEAN, words : SUBSET Vocabulary]
          /\ Anything \subseteq [unknown : BOOLEAN, words : SUBSET Vocabulary]
        BY DEF Unknown, Anything
    <2> QED BY <2>1, <2>2 DEF Answers, FirstPassage
<1>4. /\ task'.stage = "flush"
      /\ task'.lexical = task.lexical /\ task'.vector = task.vector /\ task'.results = task.results
      /\ task' \in [stage : Stages, lexical : Rankings(Chunks), vector : Rankings(Chunks),
                    results : Rankings(Chunks),
                    answer : [unknown : BOOLEAN, words : SUBSET Vocabulary]]
    BY <1>2, <1>3 DEF AInv, Typed, Stages
<1>5. Typed'
    BY <1>1, <1>4 DEF AInv, Typed
<1>6. Underway' /\ FusionKeepsDominance' /\ RerankingReachesThePool'
    BY <1>1, <1>4 DEF AInv, Underway, FusionKeepsDominance, RerankingReachesThePool
<1>7. Searched'
    BY <1>1, <1>4 DEF AInv, Searched, Visible, Asked, ChunksIn
<1> QED BY <1>1, <1>4, <1>5, <1>6, <1>7, QuietRows DEF AInv

\* A chunk a search prefers to another gets no smaller share from it, and a
\* larger one if the search has found the other.
LEMMA SharesOrder ==
    ASSUME NEW S, NEW list \in Rankings(S), NEW c, NEW d,
           d \in ToSet(list) => c \in ToSet(list) /\ RankIn(list, c) < RankIn(list, d)
    PROVE  /\ Share(list, c)[1] * Share(list, d)[2] >= Share(list, d)[1] * Share(list, c)[2]
           /\ d \in ToSet(list) =>
                 Share(list, c)[1] * Share(list, d)[2] > Share(list, d)[1] * Share(list, c)[2]
<1>1. CASE d \in ToSet(list)
    <2>1. /\ RankIn(list, c) \in Nat /\ RankIn(list, d) \in Nat
          /\ RrfK + RankIn(list, c) < RrfK + RankIn(list, d) /\ RrfK \in Nat
        <3>1. RankIn(list, c) \in 1..Len(list) /\ RankIn(list, d) \in 1..Len(list)
            BY <1>1, InList
        <3> QED BY <1>1, <3>1, RetrievalAssumption
    <2>2. Share(list, c) = <<1, RrfK + RankIn(list, c)>> /\ Share(list, d) = <<1, RrfK + RankIn(list, d)>>
        BY <1>1 DEF Share
    <2> QED BY <2>1, <2>2
<1>2. CASE d \notin ToSet(list)
    <2>1. Share(list, d) = <<0, 1>>
        BY <1>2 DEF Share
    <2>2. Share(list, c)[1] \in Nat /\ Share(list, c)[2] \in Nat
        BY Scores
    <2> HIDE DEF Share
    <2>3. \A a, b \in Nat : a * 1 >= 0 * b
        OBVIOUS
    <2> QED BY <1>2, <2>1, <2>2, <2>3
<1> QED BY <1>1, <1>2

\* A chunk that matches the text better than one they have found, and that the
\* vector query does not put behind it, is ahead of it.
LEMMA Dominates ==
    ASSUME AInv, NEW c \in Asked, NEW d \in ToSet(task.lexical) \cup ToSet(task.vector),
           TextRank[c] > TextRank[d], NearerFound(c, d)
    PROVE  /\ c \in ToSet(task.lexical) \cup ToSet(task.vector)
           /\ Ahead(task.lexical, task.vector, c, d)
<1>1. /\ d \in ToSet(task.lexical) =>
            c \in ToSet(task.lexical) /\ RankIn(task.lexical, c) < RankIn(task.lexical, d)
      /\ d \in ToSet(task.vector) =>
            c \in ToSet(task.vector) /\ RankIn(task.vector, c) < RankIn(task.vector, d)
    BY DEF AInv, Searched, NearerFound
<1>2. task.lexical \in Rankings(Chunks) /\ task.vector \in Rankings(Chunks)
    BY TaskFields
<1>3. PICK p, q, r, s : /\ p = Share(task.lexical, c) /\ q = Share(task.vector, c)
                        /\ r = Share(task.lexical, d) /\ s = Share(task.vector, d)
    OBVIOUS
<1>4. /\ p[1] \in Nat /\ p[2] \in Nat \ {0} /\ q[1] \in Nat /\ q[2] \in Nat \ {0}
      /\ r[1] \in Nat /\ r[2] \in Nat \ {0} /\ s[1] \in Nat /\ s[2] \in Nat \ {0}
    BY <1>2, <1>3, Scores
<1>5. /\ p[1] * r[2] >= r[1] * p[2] /\ q[1] * s[2] >= s[1] * q[2]
      /\ p[1] * r[2] > r[1] * p[2] \/ q[1] * s[2] > s[1] * q[2]
    BY <1>1, <1>2, <1>3, SharesOrder
<1>6. Higher(<<p[1] * q[2] + q[1] * p[2], p[2] * q[2]>>, <<r[1] * s[2] + s[1] * r[2], r[2] * s[2]>>)
    BY <1>4, <1>5, SumsOrder
<1>7. Higher(Score(task.lexical, task.vector, c), Score(task.lexical, task.vector, d))
    BY <1>3, <1>6 DEF Score
<1> QED BY <1>1, <1>7 DEF Ahead

\* What a hybrid search retrieves.
LEMMA Fused ==
    ASSUME AInv
    PROVE  LET fused == ReciprocalRankFusion(task.lexical, task.vector)
           IN  /\ fused \in Rankings(Chunks)
               /\ ToSet(fused) = ToSet(task.lexical) \cup ToSet(task.vector)
               /\ \A i, j \in 1..Len(fused) :
                     Ahead(task.lexical, task.vector, fused[i], fused[j]) => i < j
<1>1. PICK fused : fused = ReciprocalRankFusion(task.lexical, task.vector)
    OBVIOUS
<1>2. /\ fused \in Rankings(Chunks)
      /\ ToSet(fused) = ToSet(task.lexical) \cup ToSet(task.vector)
      /\ \A i, j \in DOMAIN fused :
            Ahead(task.lexical, task.vector, fused[i], fused[j]) => i < j
    BY <1>1, TaskFields, FusionIsSorted, AnswerAssumption
<1>3. DOMAIN fused = 1..Len(fused)
    BY <1>2 DEF Rankings
<1> QED BY <1>1, <1>2, <1>3

\* What is retrieved is visible, each chunk once.
LEMMA RetrievedChunks ==
    ASSUME AInv
    PROVE  /\ Retrieved \in Rankings(Chunks) /\ ToSet(Retrieved) \subseteq Visible
           /\ Len(Retrieved) \in Nat /\ Len(Retrieved) <= Cardinality(Visible)
<1>1. Retrieved \in Rankings(Chunks) /\ ToSet(Retrieved) \subseteq Visible
    <2>1. /\ task.lexical \in Rankings(Chunks) /\ ToSet(task.lexical) \subseteq Visible
          /\ task.vector \in Rankings(Chunks) /\ ToSet(task.vector) \subseteq Visible
        BY TaskFields DEF AInv, Searched
    <2>2. PICK fused : fused = ReciprocalRankFusion(task.lexical, task.vector)
        OBVIOUS
    <2>3. fused \in Rankings(Chunks) /\ ToSet(fused) \subseteq Visible
        BY <2>1, <2>2, Fused
    <2>4. First(fused, CandidateK) \in Rankings(Chunks) /\ ToSet(First(fused, CandidateK)) \subseteq Visible
        BY <2>3, FirstOf, RequestTypes
    <2>5. \/ Retrieved = task.lexical \/ Retrieved = task.vector
          \/ Retrieved = First(fused, CandidateK)
        BY <2>2, RequestTypes DEF Retrieved
    <2> QED BY <2>1, <2>4, <2>5
<1>2. Cardinality(ToSet(Retrieved)) = Len(Retrieved)
    BY <1>1, RankingLength
<1>3. Len(Retrieved) \in Nat
    BY <1>1 DEF Rankings
<1>4. Cardinality(ToSet(Retrieved)) <= Cardinality(Visible)
    BY <1>1, AskedIsVisible, FS_Subset
<1> QED BY <1>1, <1>2, <1>3, <1>4

\* Where there is room for all, retrieval misses nothing that is on offer.
LEMMA RetrievedIsComplete ==
    ASSUME AInv, task.stage = "rank", Cardinality(Visible) <= CandidateK, NEW c \in Offered
    PROVE  c \in ToSet(Retrieved)
<1>1. Cardinality(Visible) <= Limit
    BY RequestTypes, AskedIsVisible
<1>2. /\ c \in ToSet(task.lexical) \cup ToSet(task.vector)
      /\ request.mode = "lexical" => c \in ToSet(task.lexical)
      /\ request.mode = "vector" => c \in ToSet(task.vector)
    <2>1. ToSet(<<>>) = {}
        BY DEF ToSet
    <2>2. request.mode # "vector" /\ c \in Asked /\ TextRank[c] > 0 => c \in ToSet(task.lexical)
        BY <1>1 DEF AInv, Searched
    <2> QED BY <2>1, <2>2 DEF Offered, Asked, AInv, Underway
<1>3. CASE request.mode # "hybrid"
    BY <1>2, <1>3, RequestTypes DEF Retrieved
<1>4. CASE request.mode = "hybrid"
    <2>1. PICK fused : fused = ReciprocalRankFusion(task.lexical, task.vector)
        OBVIOUS
    <2>2. /\ fused \in Rankings(Chunks) /\ c \in ToSet(fused)
          /\ ToSet(fused) \subseteq Visible
        <3>1. ToSet(task.lexical) \cup ToSet(task.vector) \subseteq Visible
            BY DEF AInv, Searched
        <3> QED BY <1>2, <1>4, <2>1, <3>1, Fused
    <2>3. Len(fused) \in Nat /\ Len(fused) <= Cardinality(Visible)
        <3>1. Cardinality(ToSet(fused)) = Len(fused)
            BY <2>2, RankingLength
        <3>2. Cardinality(ToSet(fused)) <= Cardinality(Visible)
            BY <2>2, AskedIsVisible, FS_Subset
        <3> QED BY <2>2, <3>1, <3>2 DEF Rankings
    <2>4. CandidateK \in Nat /\ Len(fused) <= CandidateK
        BY <2>3, RequestTypes, AskedIsVisible
    <2>5. PICK i \in 1..Len(fused) : fused[i] = c
        BY <2>2, InList
    <2>6. PICK first : first = First(fused, CandidateK)
        OBVIOUS
    <2>7. first \in Rankings(Chunks) /\ Len(first) = Len(fused) /\ first[i] = c
        BY <2>2, <2>3, <2>4, <2>5, <2>6, FirstOf
    <2>8. c \in ToSet(first)
        BY <2>5, <2>7, RankInList
    <2> QED BY <1>4, <2>1, <2>6, <2>8 DEF Retrieved
<1> QED BY <1>3, <1>4

\* Reranking leaves a ranking of the same chunks, by relevance if it had
\* room for all of them.
LEMMA RankedChunks ==
    ASSUME AInv, NEW ranked,
           ranked = IF settings.rerank_enabled
                    THEN RerankResults(Retrieved, settings.rerank_candidate_pool) ELSE Retrieved
    PROVE  /\ ranked \in Rankings(Chunks) /\ Len(ranked) = Len(Retrieved)
           /\ ToSet(ranked) = ToSet(Retrieved)
           /\ settings.rerank_enabled /\ Len(Retrieved) <= settings.rerank_candidate_pool =>
                 \A i, j \in 1..Len(ranked) : i < j =>
                     Relevance[ranked[i]] >= Relevance[ranked[j]]
<1>1. Retrieved \in Rankings(Chunks) /\ settings.rerank_candidate_pool \in Nat
    BY RetrievedChunks, RequestTypes
<1>2. \A c \in Chunks : Relevance[c] \in Nat
    BY RetrievalAssumption
<1> QED BY <1>1, <1>2, Reranked

\* Ranking establishes what is promised of the results: if they were fused
\* and not reranked, and if they were reranked.
LEMMA RankInv ==
    ASSUME AInv, Rank PROVE AInv'
<1>1. /\ task.stage = "rank"
      /\ UNCHANGED <<request, settings, published, before, pending, stored, reply>>
    BY DEF Rank
<1>2. PICK ranked :
         ranked = IF settings.rerank_enabled
                  THEN RerankResults(Retrieved, settings.rerank_candidate_pool) ELSE Retrieved
    OBVIOUS
<1>3. PICK results : results = First(ranked, request.top_k)
    OBVIOUS
<1>4. task' = [task EXCEPT !.results = results, !.stage = "generate"]
    BY <1>2, <1>3 DEF Rank
<1>5. /\ ranked \in Rankings(Chunks) /\ ToSet(ranked) = ToSet(Retrieved)
      /\ Len(ranked) = Len(Retrieved) /\ Len(ranked) \in Nat
    BY <1>2, RankedChunks, RetrievedChunks
<1>6. request.top_k \in Nat
    BY RequestTypes
<1>7. /\ results \in Rankings(Chunks)
      /\ Len(results) = IF request.top_k < Len(ranked) THEN request.top_k ELSE Len(ranked)
      /\ \A i \in 1..Len(results) : results[i] = ranked[i]
    BY <1>3, <1>5, <1>6, FirstOf
<1>8. /\ task'.stage = "generate" /\ task'.results = results
      /\ task'.lexical = task.lexical /\ task'.vector = task.vector
      /\ task' \in [stage : Stages, lexical : Rankings(Chunks), vector : Rankings(Chunks),
                    results : Rankings(Chunks),
                    answer : [unknown : BOOLEAN, words : SUBSET Vocabulary]]
    BY <1>4, <1>7 DEF AInv, Typed, Stages
<1>9. Typed'
    <2>1. Len(results) <= request.top_k
        BY <1>5, <1>6, <1>7
    <2> QED BY <1>1, <1>8, <2>1 DEF AInv, Typed
<1>10. Underway'
    BY <1>1, <1>8 DEF AInv, Underway
<1>11. Searched'
    BY <1>1, <1>8 DEF AInv, Searched, Visible, Asked, ChunksIn
<1>12. DOMAIN results = 1..Len(results) /\ Len(results) \in Nat
    BY <1>7 DEF Rankings
<1>13. FusionKeepsDominance'
    <2> SUFFICES ASSUME request.mode = "hybrid", ~settings.rerank_enabled,
                        NEW i \in 1..Len(results), NEW c \in Asked,
                        TextRank[c] > TextRank[results[i]], NearerFound(c, results[i])
                 PROVE  c \in ToSet(First(results, i))
        BY <1>1, <1>8, <1>12 DEF FusionKeepsDominance, NearerFound, Asked, ChunksIn
    <2>1. PICK fused : fused = ReciprocalRankFusion(task.lexical, task.vector)
        OBVIOUS
    <2>2. ranked = First(fused, request.top_k)
        BY <1>2, <2>1, RequestTypes DEF Retrieved
    <2>3. /\ fused \in Rankings(Chunks)
          /\ ToSet(fused) = ToSet(task.lexical) \cup ToSet(task.vector)
          /\ \A k, l \in 1..Len(fused) :
                Ahead(task.lexical, task.vector, fused[k], fused[l]) => k < l
        BY <2>1, Fused
    <2>4. /\ Len(ranked) = IF request.top_k < Len(fused) THEN request.top_k ELSE Len(fused)
          /\ \A k \in 1..Len(ranked) : ranked[k] = fused[k]
          /\ Len(fused) \in Nat
        BY <1>6, <2>2, <2>3, FirstOf
    <2>5. /\ 1..Len(results) \subseteq 1..Len(ranked) /\ 1..Len(results) \subseteq 1..Len(fused)
        BY <1>5, <1>6, <1>7, <2>4
    <2>6. \A k \in 1..Len(results) : results[k] = fused[k]
        BY <1>7, <2>4, <2>5
    <2>7. results[i] = fused[i] /\ i \in 1..Len(fused) /\ results[i] \in ToSet(fused)
        BY <2>3, <2>5, <2>6, RankInList
    <2>8. c \in ToSet(fused) /\ Ahead(task.lexical, task.vector, c, results[i])
        BY <2>3, <2>7, Dominates
    <2>9. PICK j \in 1..Len(fused) : fused[j] = c
        BY <2>3, <2>8, InList
    <2>10. j < i
        BY <2>3, <2>7, <2>8, <2>9
    <2>11. j \in 1..Len(results) /\ i \in Nat /\ i <= Len(results)
        BY <1>12, <2>10
    <2>12. results[j] = c
        BY <2>6, <2>9, <2>11
    <2>13. PICK first : first = First(results, i)
        OBVIOUS
    <2>14. /\ first \in Rankings(Chunks) /\ Len(first) = i
           /\ \A k \in 1..Len(first) : first[k] = results[k]
        <3>1. Len(first) = IF i < Len(results) THEN i ELSE Len(results)
            BY <1>7, <2>11, <2>13, FirstOf
        <3> QED BY <1>7, <1>12, <2>11, <2>13, <3>1, FirstOf
    <2>15. j \in 1..Len(first) /\ first[j] = c
        BY <2>10, <2>11, <2>12, <2>14
    <2>16. c \in ToSet(first)
        BY <2>14, <2>15, RankInList
    <2> QED BY <2>13, <2>16
<1>14. RerankingReachesThePool'
    <2> SUFFICES ASSUME settings.rerank_enabled,
                        Cardinality(Visible) <= settings.rerank_candidate_pool,
                        NEW c \in Offered, c \notin ToSet(results)
                 PROVE  /\ Len(results) = request.top_k
                        /\ \A d \in ToSet(results) : Relevance[d] >= Relevance[c]
        BY <1>1, <1>8 DEF RerankingReachesThePool, Offered, Visible, ChunksIn
    <2>1. Cardinality(Visible) <= CandidateK
        BY RequestTypes, AskedIsVisible
    <2>2. c \in ToSet(ranked)
        BY <1>1, <1>5, <2>1, RetrievedIsComplete
    <2>3. Len(Retrieved) <= settings.rerank_candidate_pool
        BY RetrievedChunks, RequestTypes, AskedIsVisible
    <2>4. \A i, j \in 1..Len(ranked) : i < j => Relevance[ranked[i]] >= Relevance[ranked[j]]
        BY <1>2, <2>3, RankedChunks
    <2>5. PICK k \in 1..Len(ranked) : ranked[k] = c
        BY <1>5, <2>2, InList
    <2>6. k \notin 1..Len(results)
        <3> SUFFICES ASSUME k \in 1..Len(results) PROVE FALSE
            OBVIOUS
        <3>1. results[k] = c
            BY <1>7, <2>5
        <3> QED BY <1>7, <3>1, RankInList
    <2>7. Len(results) = request.top_k /\ request.top_k < k
        BY <1>5, <1>6, <1>7, <2>6
    <2>8. ASSUME NEW d \in ToSet(results) PROVE Relevance[d] >= Relevance[c]
        <3>1. PICK i \in 1..Len(results) : results[i] = d
            BY <1>7, InList
        <3>2. i \in 1..Len(ranked) /\ i < k /\ ranked[i] = d
            BY <1>5, <1>6, <1>7, <2>5, <2>7, <3>1
        <3> QED BY <2>4, <2>5, <3>2
    <2> QED BY <2>7, <2>8
<1> QED BY <1>1, <1>8, <1>9, <1>10, <1>11, <1>13, <1>14, QuietRows DEF AInv

\* The invariant is inductive.
LEMMA AnswerInvariant == AnswerSpec => []AInv
<1>1. AnswerInit => AInv
    BY AnswerInitInv
<1>2. AInv /\ [AnswerNext]_answer_vars => AInv'
    <2> SUFFICES ASSUME AInv, [AnswerNext]_answer_vars PROVE AInv'
        OBVIOUS
    <2>1. CASE Ask
        BY <2>1, AskInv
    <2>2. CASE SelectLexical
        BY <2>2, SelectLexicalInv
    <2>3. CASE SelectVector
        BY <2>3, SelectVectorInv
    <2>4. CASE Rank
        BY <2>4, RankInv
    <2>5. CASE Generate
        BY <2>5, GenerateInv
    <2>6. CASE FlushFinding
        BY <2>6, FlushFindingInv
    <2>7. CASE AddRows
        BY <2>7, AddRowsInv
    <2>8. CASE Commit
        BY <2>8, CommitInv
    <2>9. CASE Respond
        BY <2>9, RespondInv
    <2>10. CASE ProviderFails \/ Abort
        BY <2>10, RollbackInv
    <2>11. CASE CommitUnacknowledged
        BY <2>11, CommitUnacknowledgedInv
    <2>12. ASSUME NEW d \in Documents, Publish(d) PROVE AInv'
        BY <2>12, PublishInv
    <2>13. CASE UNCHANGED answer_vars
        <3>1. UNCHANGED <<request, settings, published, before, task, pending, stored, reply>>
            BY <2>13 DEF answer_vars
        <3>2. Typed' /\ Underway' /\ FusionKeepsDominance' /\ RerankingReachesThePool'
            BY <3>1 DEF AInv, Typed, Underway, FusionKeepsDominance, RerankingReachesThePool,
                        NearerFound, Offered, Visible, ChunksIn
        <3>3. Searched'
            BY <3>1 DEF AInv, Searched, Visible, Asked, ChunksIn, Limit, CandidateK
        <3>4. Scored' = Scored /\ FindingRow' = FindingRow /\ EvidenceRows' = EvidenceRows
              /\ AuditRow' = AuditRow
            BY <3>1 DEF FindingRow, EvidenceRows, AuditRow, Scored
        <3>5. Rows' /\ Told'
            BY <3>1, <3>4 DEF AInv, Rows, Told, Whole
        <3> QED BY <3>2, <3>3, <3>5 DEF AInv
    <2> QED BY <2>1, <2>2, <2>3, <2>4, <2>5, <2>6, <2>7, <2>8, <2>9, <2>10, <2>11, <2>12, <2>13
            DEF AnswerNext, AnswerStep
<1> QED BY <1>1, <1>2, PTL DEF AnswerSpec

(***************************************************************************)
(* What the invariant says of the rows and the reply.                      *)
(***************************************************************************)
LEMMA WordsAreFinite ==
    ASSUME AInv PROVE IsFiniteSet(task.answer.words)
<1> DEFINE texts == {Words[c] : c \in Chunks}
<1>1. IsFiniteSet(texts)
    <2>1. [c \in Chunks |-> Words[c]] \in Surjection(Chunks, texts)
        BY DEF Surjection
    <2> HIDE DEF texts
    <2> QED BY <2>1, FS_Surjection, AnswerAssumption
<1>2. \A T \in texts : IsFiniteSet(T)
    BY AnswerAssumption
<1>3. Vocabulary = (UNION texts) \cup Foreign
    BY DEF Vocabulary
<1> HIDE DEF texts
<1>4. IsFiniteSet(UNION texts)
    BY <1>1, <1>2, FS_UNION
<1>5. IsFiniteSet((UNION texts) \cup Foreign)
    BY <1>4, FS_Union, AnswerAssumption
<1> QED BY <1>3, <1>5, TaskFields, FS_Subset

\* Groundedness is a percentage, and 0 without evidence.
LEMMA ConfidenceIsAPercentage ==
    ASSUME AInv
    PROVE  /\ Scored \in 0..100
           /\ task.results = <<>> /\ ~task.answer.unknown => Scored = 0
<1>1. PICK words, cited, n, k :
         /\ words = task.answer.words /\ cited = UNION {Words[c] : c \in ToSet(task.results)}
         /\ n = Cardinality(words) /\ k = Cardinality(words \cap cited)
    OBVIOUS
<1>2. IsFiniteSet(words) /\ n \in Nat /\ k \in Nat /\ k <= n /\ (words # {} => n # 0)
    BY <1>1, WordsAreFinite, FS_CardinalityType, FS_Intersection, FS_EmptySet
<1>3. Scored = IF task.answer.unknown THEN 100 ELSE IF words = {} THEN 0 ELSE (100 * k) \div n
    BY <1>1 DEF Scored, Confidence
<1>4. n # 0 => (100 * k) \div n \in 0..100
    BY <1>2
<1>5. ASSUME task.results = <<>> PROVE k = 0
    <2>1. ToSet(task.results) = {}
        BY <1>5 DEF ToSet
    <2>2. words \cap cited = {}
        BY <1>1, <2>1
    <2> QED BY <1>1, <2>2, FS_EmptySet
<1>6. n # 0 => (100 * 0) \div n = 0
    BY <1>2
<1> QED BY <1>2, <1>3, <1>4, <1>5, <1>6, TaskFields

\* The evidence of an answer is its results, each at its rank.
LEMMA EvidenceIsRanked ==
    ASSUME AInv
    PROVE  /\ {e.rank : e \in EvidenceRows} = 1..Len(task.results)
           /\ Cardinality(EvidenceRows) = Len(task.results)
           /\ EvidenceRows = {} <=> task.results = <<>>
<1>1. PICK list, n : list = task.results /\ n = Len(task.results)
    OBVIOUS
<1>2. list \in Rankings(Chunks) /\ n \in Nat /\ n = Len(list) /\ DOMAIN list = 1..n
    BY <1>1, TaskFields DEF Rankings
<1>3. EvidenceRows = {[chunk |-> list[i], rank |-> i] : i \in 1..n}
    BY <1>1, <1>2 DEF EvidenceRows
<1>4. {e.rank : e \in EvidenceRows} = 1..n
    <2>1. \A e \in EvidenceRows : e.rank \in 1..n
        BY <1>3
    <2>2. \A i \in 1..n : [chunk |-> list[i], rank |-> i] \in EvidenceRows
        BY <1>3
    <2>3. \A i \in 1..n : \E e \in EvidenceRows : e.rank = i
        BY <2>2
    <2> QED BY <2>1, <2>3
<1>5. PICK row : row = [i \in 1..n |-> [chunk |-> list[i], rank |-> i]]
    OBVIOUS
<1>6. row \in Bijection(1..n, EvidenceRows)
    <2>1. row \in [1..n -> EvidenceRows]
        BY <1>3, <1>5
    <2>2. \A i, j \in 1..n : row[i] = row[j] => i = j
        <3>1. \A i \in 1..n : row[i].rank = i
            BY <1>5
        <3> QED BY <3>1
    <2>3. \A e \in EvidenceRows : \E i \in 1..n : row[i] = e
        BY <1>3, <1>5
    <2> QED BY <2>1, <2>2, <2>3 DEF Bijection, Injection, Surjection, IsInjective
<1>7. IsFiniteSet(1..n) /\ Cardinality(1..n) = n
    <2>1. 1 \in Int /\ n \in Int
        BY <1>2
    <2>2. IsFiniteSet(1..n) /\ Cardinality(1..n) = IF 1 > n THEN 0 ELSE n - 1 + 1
        BY <2>1, FS_Interval
    <2> QED BY <1>2, <2>2
<1>8. Cardinality(EvidenceRows) = n
    BY <1>6, <1>7, FS_Bijection DEF ExistsBijection
<1>9. EvidenceRows = {} <=> list = <<>>
    <2>1. EvidenceRows = {} <=> n = 0
        <3>1. n # 0 => 1 \in 1..n
            BY <1>2
        <3>2. n = 0 => 1..n = {}
            BY <1>2
        <3> QED BY <1>3, <3>1, <3>2
    <2>2. n = 0 <=> list = <<>>
        BY <1>2 DEF Rankings
    <2> QED BY <2>1, <2>2
<1> QED BY <1>1, <1>4, <1>8, <1>9

\* A finding, its evidence and its audit row are committed together or not at
\* all, and no flush can run into the tables' constraints (Answer).
THEOREM AnswersStayWhole == AnswerSpec => []AnswersAreWhole
<1>1. ASSUME AInv PROVE AnswersAreWhole
    <2>1. CitesOnce(pending.evidence)
        <3>1. CitesOnce({})
            BY DEF CitesOnce
        <3>2. pending.evidence \in {{}, EvidenceRows}
            BY <1>1 DEF AInv, Typed, Rows, NoRows, Whole
        <3> QED BY <1>1, <3>1, <3>2, WholeCitesOnce
    <2>2. \A row \in pending.finding : row.confidence \in 0..100
        <3>1. pending.finding \in {{}, {FindingRow}}
            BY <1>1 DEF AInv, Typed, Rows, NoRows, Whole
        <3>2. FindingRow.confidence \in 0..100
            BY <1>1, ConfidenceIsAPercentage DEF FindingRow
        <3> QED BY <3>1, <3>2
    <2>3. CASE stored = NoRows
        BY <2>1, <2>2, <2>3, FS_EmptySet DEF AnswersAreWhole, NoRows
    <2>4. CASE stored = Whole
        <3>1. /\ stored.finding = {FindingRow} /\ stored.audit = {AuditRow}
              /\ stored.evidence = EvidenceRows
            BY <2>4 DEF Whole
        <3>2. AuditRow.evidence_count = Len(task.results)
            BY DEF AuditRow
        <3>3. Cardinality(stored.finding) = Cardinality(stored.audit)
            BY <3>1, FS_Singleton
        <3> QED BY <1>1, <2>1, <2>2, <3>1, <3>2, <3>3, EvidenceIsRanked DEF AnswersAreWhole
    <2> QED BY <1>1, <2>3, <2>4 DEF AInv, Rows
<1> QED BY <1>1, AnswerInvariant, PTL

\* What the client is told is what is stored (Answer).
THEOREM RepliesTellTheStore == AnswerSpec => []RepliesMatchStore
<1>1. ASSUME AInv PROVE RepliesMatchStore
    <2>1. ASSUME reply.status = 200
          PROVE  /\ stored.finding = {FindingRow} /\ stored.evidence = EvidenceRows
                 /\ reply.citations = task.results /\ (reply.grounded <=> Scored >= MinScore)
        BY <1>1, <2>1 DEF AInv, Told, Whole
    <2>2. ASSUME reply.status = 200
          PROVE  /\ stored.finding # {} /\ IsInjective(reply.citations)
                 /\ Len(reply.citations) <= request.top_k
                 /\ stored.evidence = {[chunk |-> reply.citations[i], rank |-> i] :
                                          i \in DOMAIN reply.citations}
        <3>1. PICK list : list = task.results
            OBVIOUS
        <3>2. reply.citations = list /\ stored.evidence = EvidenceRows /\ stored.finding # {}
            BY <2>1, <2>2, <3>1
        <3>3. EvidenceRows = {[chunk |-> list[i], rank |-> i] : i \in DOMAIN list}
            BY <3>1 DEF EvidenceRows
        <3>4. IsInjective(list)
            BY <1>1, <3>1, TaskFields DEF Rankings
        <3>5. Len(list) <= request.top_k
            BY <1>1, <3>1 DEF AInv, Typed
        <3> QED BY <3>2, <3>3, <3>4, <3>5, Zenon
    <2>3. reply.status = 502 => stored = NoRows
        BY <1>1 DEF AInv, Told
    <2>4. ASSUME MinScore > 0, reply.grounded
          PROVE  stored.evidence # {} \/ \E row \in stored.finding : row.unknown
        <3>1. reply.status = 200
            BY <1>1, <2>4 DEF AInv, Told
        <3>2. Scored # 0
            BY <1>1, <2>1, <2>4, <3>1, AnswerAssumption
        <3>3. CASE task.results # <<>>
            BY <1>1, <2>1, <3>1, <3>3, EvidenceIsRanked
        <3>4. CASE task.results = <<>>
            <4>1. task.answer.unknown
                BY <1>1, <3>2, <3>4, ConfidenceIsAPercentage
            <4>2. FindingRow \in stored.finding /\ FindingRow.unknown
                BY <2>1, <3>1, <4>1 DEF FindingRow
            <4> QED BY <4>2
        <3> QED BY <3>3, <3>4
    <2> QED BY <2>2, <2>3, <2>4 DEF RepliesMatchStore
<1> QED BY <1>1, AnswerInvariant, PTL

\* Fusion never prefers a chunk to one that matches the text better, if the
\* vector query returned that one nearer or this one not at all: whatever the
\* rankings and their lengths, whatever the approximate query misses, and
\* whatever is committed between the two (Answer, Retrieval).
THEOREM FusionRespectsDominance == AnswerSpec => []FusionKeepsDominance
<1>1. AInv => FusionKeepsDominance
    BY DEF AInv
<1> QED BY <1>1, AnswerInvariant, PTL

\* Where the pool has room, reranking leaves out nothing the two queries have
\* to offer for a less relevant chunk (Answer, Retrieval).
THEOREM RerankingChoosesThePool == AnswerSpec => []RerankingReachesThePool
<1>1. AInv => RerankingReachesThePool
    BY DEF AInv
<1> QED BY <1>1, AnswerInvariant, PTL
===============================================================================
