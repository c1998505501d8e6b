-------------------------- MODULE Review_proofs --------------------------
(***************************************************************************)
(* Proofs about Review, on top of those about GraphExtraction: reviews     *)
(* leave the stores alone, so what is proved of extractions stays true     *)
(* beside them; a finding is readable whole or not at all; a review keeps  *)
(* its bounds and tells when one cut it short; and what its separate reads *)
(* of two changing stores find.                                            *)
(***************************************************************************)
EXTENDS Review, GraphExtraction_proofs, FiniteSetTheorems

\* No step of a review changes a store of the extractions.
LEMMA ReviewsOnlyRead == [ReviewNext]_all_vars => [Next]_vars
BY DEF ReviewNext, all_vars

\* What is proved of extractions alone holds while reviews run beside them.
THEOREM ReviewsLeaveTheStores == ReviewSpec => Spec
BY ReviewsOnlyRead, PTL DEF ReviewSpec, ReviewInit, Spec

(***************************************************************************)
(* The inductive invariant.  First what holds of one review r.             *)
(***************************************************************************)
AgentFields == {"stage", "found", "paths", "steps", "todo", "queried", "missed", "late", "hit"}

AgentTypes(r) ==
    /\ DOMAIN agent[r] = AgentFields
    /\ agent[r].stage \in Stage
    /\ agent[r].found \subseteq Corpus
    /\ agent[r].steps \in Nat
    /\ agent[r].todo \in Seq(ComponentNames)
    /\ agent[r].late \in BOOLEAN

\* What it has seen committed or answered stays so.
Remembered(r) ==
    /\ before[r].names \subseteq CommittedNames
    /\ before[r].acked \subseteq acked
    /\ agent[r].stage \in {"idle", "search", "bounds", "names"} => agent[r].queried = {}

\* It has a step left while it queries the graph.
Budget(r) ==
    /\ agent[r].steps <= Max({1, request[r].max_steps})
    /\ agent[r].stage = "paths" =>
          agent[r].steps < request[r].max_steps /\ agent[r].todo # <<>>

\* These names answer for the components the question names.
Reached(r, names) ==
    \/ before[r].names \cap request[r].mentions \subseteq names
    \/ Cardinality(names) = MaxGraphCandidates

\* Between them the names queried and those still to be queried do; the loop
\* ends early only on a bound, and the flags say so.
Covered(r) ==
    /\ agent[r].stage \in {"tool", "paths"} =>
          Reached(r, agent[r].queried \cup ToSet(agent[r].todo))
    /\ agent[r].stage = "finish" /\ request[r].intent =>
          BoundsHit(r) # NoBound \/ Reached(r, agent[r].queried)
    /\ agent[r].stage \in {"persist", "commit"} =>
          /\ agent[r].hit = BoundsHit(r)
          /\ request[r].intent /\ agent[r].hit = NoBound => Reached(r, agent[r].queried)

\* Every name it is about to query is that of a node, and none was missed.
Found(r) ==
    /\ agent[r].missed = {}
    /\ agent[r].stage \in {"tool", "paths"} =>
          \A n \in ToSet(agent[r].todo) : ComponentExists(nodes, n)

\* AcknowledgedLinksAreSeen, of one review.
LinksSeen(r) ==
    \A d \in before[r].acked : \A i \in DOMAIN Relationships[d] :
        LET rel == Relationships[d][i]
        IN  /\ {rel.source, rel.target} \subseteq PlanNames(d)
            /\ {rel.source, rel.target} \cap agent[r].queried # {}
            => \E path \in agent[r].paths : \E h \in DOMAIN path :
                  /\ path[h].kind = rel.kind /\ path[h].document = d
                  /\ path[h].source = rel.source /\ path[h].target = rel.target

\* Before its commit it has no row.
Unwritten(r) ==
    agent[r].stage \notin {"refresh", "done", "failed"} =>
        \A row \in findings \cup evidence \cup audited : row.review # r

ReviewInv(r) ==
    /\ AgentTypes(r) /\ Remembered(r) /\ Budget(r) /\ Covered(r)
    /\ Found(r) /\ LinksSeen(r) /\ Unwritten(r)

\* What BoundsAreKeptAndReported says of the audit rows.
BoundsReported ==
    /\ \A a \in audited : a.hit.step <=> a.agent_steps >= request[a.review].max_steps
    /\ \A a \in audited :
          request[a.review].intent /\ a.hit = NoBound => Reached(a.review, agent[a.review].queried)

Shape ==
    /\ request \in [Reviews -> Requests]
    /\ DOMAIN agent = Reviews /\ DOMAIN before = Reviews
    /\ \A row \in findings \cup evidence \cup audited : row.review \in Reviews

RInv == Shape /\ FindingsAreWhole /\ BoundsReported /\ \A r \in Reviews : ReviewInv(r)

\* What is known of the stores (proved of Spec).
Stores == IInv /\ AckedExtractionIsComplete

----------------------------------------------------------------------------
(***************************************************************************)
(* Lemmas about the operators.                                             *)
(***************************************************************************)

LEMMA MaxOfTwo ==
    ASSUME NEW a \in Nat, NEW b \in Nat
    PROVE  Max({a, b}) \in Nat /\ a <= Max({a, b}) /\ b <= Max({a, b})
<1>1. \E x \in {a, b} : \A y \in {a, b} : x >= y
  BY a >= b \/ b >= a
<1>2. Max({a, b}) \in {a, b} /\ \A y \in {a, b} : Max({a, b}) >= y
  BY <1>1 DEF Max
<1> QED  BY <1>2

\* No bound is hit while there are steps and time left.
LEMMA NoBoundHit ==
    ASSUME NEW r, agent[r].steps \in Nat, request[r].max_steps \in Nat, agent[r].late \in BOOLEAN
    PROVE  BoundsHit(r) = NoBound <=> agent[r].steps < request[r].max_steps /\ ~agent[r].late
<1>1. \A a, b \in BOOLEAN : [step |-> a, time |-> b] = [step |-> FALSE, time |-> FALSE] <=> ~a /\ ~b
  <2>1. ASSUME NEW a \in BOOLEAN, NEW b \in BOOLEAN,
               [step |-> a, time |-> b] = [step |-> FALSE, time |-> FALSE]
        PROVE  a = FALSE /\ b = FALSE
    <3>1. [step |-> a, time |-> b].step = [step |-> FALSE, time |-> FALSE].step
      BY <2>1
    <3>2. [step |-> a, time |-> b].time = [step |-> FALSE, time |-> FALSE].time
      BY <2>1
    <3> QED  BY <3>1, <3>2
  <2> QED  BY <2>1
<1>2. (agent[r].steps >= request[r].max_steps) \in BOOLEAN
      /\ ((agent[r].steps >= request[r].max_steps) <=> ~ (agent[r].steps < request[r].max_steps))
  OBVIOUS
<1> QED  BY <1>1, <1>2 DEF BoundsHit, NoBound

LEMMA RequestTypes ==
    ASSUME Shape, NEW r \in Reviews
    PROVE  /\ request[r].intent \in BOOLEAN /\ request[r].mentions \subseteq ComponentNames
           /\ request[r].max_hops \in Nat /\ request[r].max_steps \in Nat
           /\ Max({1, request[r].max_steps}) \in Nat
           /\ 1 <= Max({1, request[r].max_steps})
           /\ request[r].max_steps <= Max({1, request[r].max_steps})
<1>1. request[r] \in ReviewRequest
  BY ReviewAssumption DEF Shape
<1>2. /\ request[r].intent \in BOOLEAN /\ request[r].mentions \subseteq ComponentNames
      /\ request[r].max_hops \in Nat /\ request[r].max_steps \in Nat
  BY <1>1 DEF ReviewRequest
<1> QED  BY <1>2, MaxOfTwo

\* Taking the head off a list moves it from one set to the other.
LEMMA HeadAndTail ==
    ASSUME NEW S, NEW list \in Seq(S), list # <<>>
    PROVE  /\ Head(list) \in S /\ Head(list) \in ToSet(list)
           /\ Tail(list) \in Seq(S) /\ ToSet(list) = {Head(list)} \cup ToSet(Tail(list))
<1>1. /\ Len(list) \in Nat \ {0} /\ DOMAIN list = 1..Len(list) /\ Head(list) = list[1]
      /\ DOMAIN Tail(list) = 1..(Len(list) - 1)
      /\ \A i \in 1..(Len(list) - 1) : Tail(list)[i] = list[i + 1]
      /\ Tail(list) \in Seq(S) /\ Head(list) \in S
  OBVIOUS
<1>2. ToSet(list) \subseteq {Head(list)} \cup ToSet(Tail(list))
  <2>1. ASSUME NEW i \in 1..Len(list) PROVE list[i] \in {Head(list)} \cup ToSet(Tail(list))
    <3>1. CASE i = 1
      BY <1>1, <3>1
    <3>2. CASE i # 1
      <4>1. i - 1 \in DOMAIN Tail(list) /\ Tail(list)[i - 1] = list[i]
        BY <1>1, <2>1, <3>2
      <4> QED  BY <4>1 DEF ToSet
    <3> QED  BY <3>1, <3>2
  <2> QED  BY <1>1, <2>1 DEF ToSet
<1>3. {Head(list)} \cup ToSet(Tail(list)) \subseteq ToSet(list)
  <2>1. \A i \in DOMAIN Tail(list) : i + 1 \in DOMAIN list /\ Tail(list)[i] = list[i + 1]
    BY <1>1
  <2>2. 1 \in DOMAIN list
    BY <1>1
  <2> QED  BY <1>1, <2>1, <2>2 DEF ToSet
<1> QED  BY <1>1, <1>2, <1>3 DEF ToSet

\* The names the agent takes are all that are mentioned, or as many as it may.
LEMMA Candidates ==
    ASSUME NEW S, IsFiniteSet(S), NEW count,
           count = IF Cardinality(S) < MaxGraphCandidates THEN Cardinality(S)
                   ELSE MaxGraphCandidates,
           NEW c \in [1..count -> S], \A i, j \in 1..count : c[i] = c[j] => i = j
    PROVE  /\ c \in Seq(S) /\ ToSet(c) \subseteq S
           /\ S \subseteq ToSet(c) \/ Cardinality(ToSet(c)) = MaxGraphCandidates
<1>1. count \in Nat /\ Cardinality(S) \in Nat
  BY FS_CardinalityType DEF MaxGraphCandidates
<1>2. c \in Seq(S) /\ ToSet(c) \subseteq S
  BY <1>1 DEF ToSet
<1>3. CASE Cardinality(S) = 0
  BY <1>2, <1>3, FS_EmptySet
<1>4. CASE Cardinality(S) = 1
  <2>1. PICK x : S = {x}
    BY <1>4, FS_Singleton
  <2>2. 1 \in DOMAIN c /\ c[1] = x
    BY <1>4, <2>1 DEF MaxGraphCandidates
  <2> QED  BY <1>2, <2>1, <2>2 DEF ToSet
<1>5. CASE Cardinality(S) >= 2
  <2>1. count = 2 /\ 1..count = {1, 2}
    BY <1>1, <1>5 DEF MaxGraphCandidates
  <2>2. ToSet(c) = {c[1]} \cup {c[2]} /\ c[2] # c[1]
    BY <2>1 DEF ToSet
  <2>3. \A x, y : x # y => Cardinality({x} \cup {y}) = 2
    <3> SUFFICES ASSUME NEW x, NEW y, x # y PROVE Cardinality({x} \cup {y}) = 2
      OBVIOUS
    <3>1. IsFiniteSet({x}) /\ Cardinality({x}) = 1 /\ y \notin {x}
      BY FS_Singleton
    <3>2. \A T : IsFiniteSet(T) /\ Cardinality(T) = 1 /\ y \notin T
                    => Cardinality(T \cup {y}) = 2
      BY FS_AddElement
    <3> QED  BY <3>1, <3>2
  <2>4. Cardinality(ToSet(c)) = 2
    <3>1. c[1] # c[2] => Cardinality({c[1]} \cup {c[2]}) = 2
      BY <2>3
    <3> QED  BY <2>2, <3>1
  <2> QED  BY <1>2, <2>4 DEF MaxGraphCandidates
<1> QED  BY <1>1, <1>3, <1>4, <1>5

\* Postgres holds finitely many names at a time.
LEMMA NamesAreFinite ==
    ASSUME IInv
    PROVE  IsFiniteSet(CommittedNames) /\ CommittedNames \subseteq ComponentNames
<1>1. IsFiniteSet(DOMAIN rows)
  <2>1. DOMAIN rows \subseteq Nat /\ next_id \in Nat /\ \A id \in DOMAIN rows : id <= next_id
    BY DEF IInv, TypeOK, IsTable, Id, StoreInv, Allocated
  <2> QED  BY <2>1, FS_BoundedSetOfNaturals
<1>2. [id \in DOMAIN rows |-> rows[id].name] \in Surjection(DOMAIN rows, CommittedNames)
  BY DEF Surjection, CommittedNames
<1>3. CommittedNames \subseteq ComponentNames
  BY DEF CommittedNames, IInv, TypeOK, IsTable, Row
<1> QED  BY <1>1, <1>2, <1>3, FS_Surjection

\* A relationship is a path of one hop from either of its ends.
LEMMA OneHop ==
    ASSUME NEW key \in DOMAIN edges, NEW name, NEW hops \in Nat,
           key[2] \in DOMAIN nodes, key[3] \in DOMAIN nodes,
           name \in {nodes[key[2]].name, nodes[key[3]].name}
    PROVE  \E path \in FindPaths(nodes, edges, name, "both", hops) :
              1 \in DOMAIN path /\ path[1] = Hop(nodes, edges, key)
<1> DEFINE trail == [i \in 1..1 |-> key]
<1> DEFINE path == [i \in DOMAIN trail |-> Hop(nodes, edges, trail[i])]
<1> DEFINE max == IF hops < 1 THEN 1 ELSE hops
<1>1. trail \in Trails(nodes, edges, name, "both", 1)
  <2>1. 1..1 = {1} /\ 1..(1 + 1) = {1, 2}
    OBVIOUS
  <2>2. trail \in [1..1 -> DOMAIN edges] /\ \A i, j \in 1..1 : trail[i] = trail[j] => i = j
    BY <2>1
  <2>3. CASE nodes[key[2]].name = name
    <3> DEFINE stop == [i \in 1..(1 + 1) |-> IF i = 1 THEN key[2] ELSE key[3]]
    <3>1. stop \in [1..(1 + 1) -> DOMAIN nodes] /\ stop[1] = key[2] /\ stop[2] = key[3]
      BY <2>1
    <3>2. \A i \in 1..1 : Traverses(trail[i], stop[i], stop[i + 1], "both")
      BY <2>1, <3>1 DEF Traverses
    <3> HIDE DEF stop, trail
    <3> QED  BY <2>2, <2>3, <3>1, <3>2 DEF Trails
  <2>4. CASE nodes[key[3]].name = name
    <3> DEFINE stop == [i \in 1..(1 + 1) |-> IF i = 1 THEN key[3] ELSE key[2]]
    <3>1. stop \in [1..(1 + 1) -> DOMAIN nodes] /\ stop[1] = key[3] /\ stop[2] = key[2]
      BY <2>1
    <3>2. \A i \in 1..1 : Traverses(trail[i], stop[i], stop[i + 1], "both")
      BY <2>1, <3>1 DEF Traverses
    <3> HIDE DEF stop, trail
    <3> QED  BY <2>2, <2>4, <3>1, <3>2 DEF Trails
  <2> QED  BY <2>3, <2>4
<1>2. trail \in UNION {Trails(nodes, edges, name, "both", length) : length \in 1..max}
  <2>1. 1 \in 1..max
    OBVIOUS
  <2> HIDE DEF trail, max
  <2> QED  BY <1>1, <2>1
<1>3. path \in FindPaths(nodes, edges, name, "both", hops)
  <2> HIDE DEF trail
  <2> QED  BY <1>2 DEF FindPaths
<1>4. 1 \in DOMAIN path /\ path[1] = Hop(nodes, edges, key)
  OBVIOUS
<1> HIDE DEF path
<1> QED  BY <1>3, <1>4

----------------------------------------------------------------------------
(***************************************************************************)
(* What steps leave alone.                                                 *)
(***************************************************************************)

\* Nothing committed, merged or answered is ever taken back.
LEMMA StoresGrow ==
    ASSUME IInv, [Next]_vars
    PROVE  Extends(rows', rows) /\ Extends(nodes', nodes) /\ acked \subseteq acked'
<1>1. ASSUME NEW w \in Workers, MirrorComponent(w)
      PROVE  Extends(rows', rows) /\ Extends(nodes', nodes) /\ acked \subseteq acked'
  <2> DEFINE node == [document |-> doc[w], name |-> ThisComponent(w).name,
                      chunk |-> current[w].chunk]
  <2>1. /\ IsRowOf(w, current[w].id, ThisComponent(w).name)
        /\ nodes' = Put(nodes, current[w].id, node) /\ UNCHANGED <<rows, acked>>
        /\ node.document = doc[w] /\ node.name = ThisComponent(w).name
    BY <1>1 DEF MirrorComponent, counters, IInv, WorkerInv, CurrentRow
  <2> HIDE DEF node
  <2>2. current[w].id \in DOMAIN nodes => SameComponent(node, nodes[current[w].id])
    BY <2>1, VisibleMatchesNode DEF IsRowOf, SameComponent
  <2> QED  BY <2>1, <2>2 DEF Extends, Put, SameComponent
<1>2. ASSUME NEW w \in Workers, Commit(w) \/ CommitUnacknowledged(w)
      PROVE  Extends(rows', rows) /\ Extends(nodes', nodes) /\ acked \subseteq acked'
  BY <1>2 DEF Commit, CommitUnacknowledged, Extends, Overlay, IInv, WorkerInv, OwnRows,
              SameComponent
<1>3. ASSUME UNCHANGED <<rows, nodes, acked>>
      PROVE  Extends(rows', rows) /\ Extends(nodes', nodes) /\ acked \subseteq acked'
  BY <1>3 DEF Extends, SameComponent
<1> QED
  BY <1>1, <1>2, <1>3
  DEF Next, Step, Begin, SelectComponent, SelectFindsMany, FlushInsert, FlushUpdate,
      LinkRelationship, LinkOwner, Abort, stores, counters, vars

\* A review keeps its invariant while others work.
LEMMA ReviewStays ==
    ASSUME NEW q \in Reviews, ReviewInv(q), agent'[q] = agent[q], before'[q] = before[q],
           request'[q] = request[q],
           Extends(rows', rows), Extends(nodes', nodes), acked \subseteq acked',
           \A row \in findings' \cup evidence' \cup audited' :
               row \in findings \cup evidence \cup audited \/ row.review # q
    PROVE  ReviewInv(q)'
<1>1. CommittedNames \subseteq CommittedNames'
  BY DEF CommittedNames, Extends, SameComponent
<1>2. \A n : ComponentExists(nodes, n) => ComponentExists(nodes', n)
  BY DEF ComponentExists, Extends, SameComponent
<1>3. AgentTypes(q)' /\ Remembered(q)' /\ Budget(q)' /\ Found(q)' /\ Unwritten(q)'
  BY <1>1, <1>2 DEF ReviewInv, AgentTypes, Remembered, Budget, Found, Unwritten
<1>4. Covered(q)'
  BY DEF ReviewInv, Covered, Reached, BoundsHit
<1>5. LinksSeen(q)'
  BY DEF ReviewInv, LinksSeen
<1> QED  BY <1>3, <1>4, <1>5 DEF ReviewInv

\* A step of review r that writes no row.
LEMMA ReadingStep ==
    ASSUME RInv, NEW r \in Reviews, UNCHANGED <<vars, request, review_tables>>,
           DOMAIN agent' = Reviews, DOMAIN before' = Reviews,
           \A q \in Reviews \ {r} : agent'[q] = agent[q] /\ before'[q] = before[q],
           \/ agent[r].stage \notin {"refresh", "done", "failed"}
           \/ agent'[r].queried = agent[r].queried /\ before'[r] = before[r],
           ReviewInv(r)'
    PROVE  RInv'
<1>1. Shape' /\ FindingsAreWhole'
  BY DEF RInv, Shape, FindingsAreWhole, Persisted, review_tables
<1>2. BoundsReported'
  <2>1. ASSUME NEW a \in audited, request[a.review].intent, a.hit = NoBound
        PROVE  Reached(a.review, agent[a.review].queried)'
    <3>1. Reached(a.review, agent[a.review].queried) /\ a.review \in Reviews
      BY <2>1 DEF RInv, BoundsReported, Shape
    <3>2. a.review = r => agent[r].stage \in {"refresh", "done", "failed"}
      BY <2>1 DEF RInv, ReviewInv, Unwritten
    <3> QED  BY <3>1, <3>2 DEF Reached, review_tables
  <2> QED  BY <2>1 DEF RInv, BoundsReported, review_tables
<1>3. \A q \in Reviews \ {r} : ReviewInv(q)'
  <2>1. Extends(rows', rows) /\ Extends(nodes', nodes) /\ acked \subseteq acked'
    BY DEF vars, Extends, SameComponent
  <2> QED  BY <2>1, ReviewStays DEF RInv, review_tables
<1> QED  BY <1>1, <1>2, <1>3 DEF RInv

----------------------------------------------------------------------------
(***************************************************************************)
(* One lemma for each action: it preserves RInv.                           *)
(***************************************************************************)

\* A step that changes neither what r has queried nor what it has found there.
LEMMA SameAnswers ==
    ASSUME RInv, NEW r \in Reviews, UNCHANGED <<vars, request, review_tables>>,
           before'[r] = before[r], AgentTypes(r)', agent'[r].stage # "idle",
           agent'[r].queried = agent[r].queried, agent'[r].paths = agent[r].paths,
           agent'[r].missed = agent[r].missed,
           agent'[r].stage \in {"search", "bounds", "names"} =>
               agent[r].stage \in {"search", "bounds", "names"},
           agent'[r].stage \notin {"refresh", "done", "failed"} =>
               agent[r].stage \notin {"refresh", "done", "failed"}
    PROVE  Remembered(r)' /\ LinksSeen(r)' /\ Unwritten(r)'
<1>1. ReviewInv(r) /\ UNCHANGED <<rows, acked, findings, evidence, audited>>
  BY DEF RInv, vars, review_tables
<1>2. Remembered(r)' /\ Unwritten(r)'
  BY <1>1 DEF ReviewInv, Remembered, Unwritten, CommittedNames
<1>3. LinksSeen(r)'
  BY <1>1 DEF ReviewInv, LinksSeen
<1> QED  BY <1>2, <1>3

LEMMA AskInv ==
    ASSUME RInv, NEW r \in Reviews, Ask(r), UNCHANGED vars
    PROVE  RInv'
<1>1. /\ UNCHANGED <<request, review_tables, rows, acked>>
      /\ DOMAIN agent' = Reviews /\ DOMAIN before' = Reviews
      /\ \A q \in Reviews \ {r} : agent'[q] = agent[q] /\ before'[q] = before[q]
      /\ agent[r].stage = "idle" /\ agent'[r] = [agent[r] EXCEPT !.stage = "search"]
      /\ before'[r] = [names |-> CommittedNames, acked |-> acked]
  BY DEF Ask, Becomes, RInv, Shape, vars
<1>2. AgentTypes(r)' /\ agent'[r].queried = {} /\ agent'[r].stage = "search"
      /\ agent'[r].steps = agent[r].steps /\ agent'[r].missed = agent[r].missed
  BY <1>1 DEF RInv, ReviewInv, AgentTypes, AgentFields, Stage, Remembered
<1>3. ReviewInv(r)'
  <2>1. Remembered(r)' /\ LinksSeen(r)'
    BY <1>1, <1>2 DEF Remembered, LinksSeen, CommittedNames
  <2>2. Budget(r)' /\ Found(r)' /\ Unwritten(r)' /\ Covered(r)'
    BY <1>1, <1>2 DEF RInv, ReviewInv, Budget, Found, Unwritten, Covered, review_tables
  <2> QED  BY <1>2, <2>1, <2>2 DEF ReviewInv
<1> QED  BY <1>1, <1>3, ReadingStep

LEMMA RunLateInv ==
    ASSUME RInv, NEW r \in Reviews, RunLate(r), UNCHANGED vars
    PROVE  RInv'
<1>1. /\ UNCHANGED <<request, before, review_tables, nodes>>
      /\ DOMAIN agent' = Reviews /\ \A q \in Reviews \ {r} : agent'[q] = agent[q]
      /\ agent[r].stage \in {"search", "bounds", "names", "tool", "paths", "finish"}
      /\ agent'[r] = [agent[r] EXCEPT !.late = TRUE]
  BY DEF RunLate, Becomes, RInv, Shape, vars
<1>2. /\ AgentTypes(r)' /\ agent'[r].late = TRUE
      /\ agent'[r].stage = agent[r].stage /\ agent'[r].queried = agent[r].queried
      /\ agent'[r].paths = agent[r].paths /\ agent'[r].missed = agent[r].missed
      /\ agent'[r].steps = agent[r].steps /\ agent'[r].todo = agent[r].todo
  BY <1>1 DEF RInv, ReviewInv, AgentTypes, AgentFields
<1>3. ReviewInv(r)'
  <2>1. Remembered(r)' /\ LinksSeen(r)' /\ Unwritten(r)'
    BY <1>1, <1>2, SameAnswers DEF RInv, Shape
  <2>2. Budget(r)' /\ Found(r)'
    BY <1>1, <1>2 DEF RInv, ReviewInv, Budget, Found
  <2>3. Covered(r)'
    <3>1. BoundsHit(r)' # NoBound
      <4>1. BoundsHit(r)'.time = TRUE /\ NoBound.time = FALSE
        BY <1>2 DEF BoundsHit, NoBound
      <4> QED  BY <4>1
    <3> QED  BY <1>1, <1>2, <3>1 DEF RInv, ReviewInv, Covered, Reached
  <2> QED  BY <1>2, <2>1, <2>2, <2>3 DEF ReviewInv
<1> QED  BY <1>1, <1>3, ReadingStep DEF RInv, Shape

LEMMA SearchInv ==
    ASSUME RInv, NEW r \in Reviews, Search(r), UNCHANGED vars
    PROVE  RInv'
<1>1. PICK hits \in SUBSET Corpus :
        agent' = [agent EXCEPT ![r] = [agent[r] EXCEPT !.stage = "bounds", !.found = hits,
                                                       !.steps = 1]]
  BY DEF Search, Becomes
<1>2. /\ UNCHANGED <<request, before, review_tables, nodes>>
      /\ DOMAIN agent' = Reviews /\ \A q \in Reviews \ {r} : agent'[q] = agent[q]
      /\ agent[r].stage = "search"
      /\ agent'[r] = [agent[r] EXCEPT !.stage = "bounds", !.found = hits, !.steps = 1]
  BY <1>1 DEF Search, RInv, Shape, vars
<1>3. /\ AgentTypes(r)' /\ agent'[r].stage = "bounds" /\ agent'[r].queried = agent[r].queried
      /\ agent'[r].paths = agent[r].paths /\ agent'[r].missed = agent[r].missed
      /\ agent'[r].steps = 1
  BY <1>2 DEF RInv, ReviewInv, AgentTypes, AgentFields, Stage
<1>4. ReviewInv(r)'
  <2>1. Remembered(r)' /\ LinksSeen(r)' /\ Unwritten(r)'
    BY <1>2, <1>3, SameAnswers DEF RInv, Shape
  <2>2. Budget(r)' /\ Found(r)' /\ Covered(r)'
    BY <1>2, <1>3, RequestTypes DEF RInv, ReviewInv, Budget, Found, Covered
  <2> QED  BY <1>3, <2>1, <2>2 DEF ReviewInv
<1> QED  BY <1>2, <1>4, ReadingStep DEF RInv, Shape

LEMMA CheckBoundsInv ==
    ASSUME RInv, NEW r \in Reviews, CheckBounds(r), UNCHANGED vars
    PROVE  RInv'
<1> DEFINE next == IF request[r].intent THEN "names" ELSE "finish"
<1>1. /\ UNCHANGED <<request, before, review_tables, nodes>>
      /\ DOMAIN agent' = Reviews /\ \A q \in Reviews \ {r} : agent'[q] = agent[q]
      /\ agent[r].stage = "bounds"
      /\ \/ /\ BoundsHit(r) # NoBound
            /\ agent'[r] = [agent[r] EXCEPT !.stage = "persist", !.hit = BoundsHit(r)]
         \/ agent'[r] = [agent[r] EXCEPT !.stage = next]
  BY DEF CheckBounds, Becomes, RInv, Shape, vars
<1>2. /\ AgentTypes(r)' /\ agent'[r].queried = agent[r].queried
      /\ agent'[r].paths = agent[r].paths /\ agent'[r].missed = agent[r].missed
      /\ agent'[r].steps = agent[r].steps /\ agent'[r].late = agent[r].late
      /\ \/ /\ agent'[r].stage = "persist" /\ BoundsHit(r) # NoBound
            /\ agent'[r].hit = BoundsHit(r)
         \/ agent'[r].stage = next
  BY <1>1 DEF RInv, ReviewInv, AgentTypes, AgentFields, Stage
<1>3. ReviewInv(r)'
  <2>1. Remembered(r)' /\ LinksSeen(r)' /\ Unwritten(r)'
    BY <1>1, <1>2, SameAnswers DEF RInv, Shape
  <2>2. Budget(r)' /\ Found(r)'
    BY <1>1, <1>2 DEF RInv, ReviewInv, Budget, Found
  <2>3. Covered(r)'
    <3>1. BoundsHit(r)' = BoundsHit(r)
      BY <1>1, <1>2 DEF BoundsHit
    <3>2. CASE agent'[r].stage = "persist"
      BY <1>2, <3>1, <3>2 DEF Covered
    <3>3. CASE agent'[r].stage = "names"
      BY <3>3 DEF Covered
    <3>4. CASE agent'[r].stage = "finish" /\ ~request[r].intent
      BY <1>1, <3>4 DEF Covered
    <3> QED  BY <1>2, <3>2, <3>3, <3>4
  <2> QED  BY <1>2, <2>1, <2>2, <2>3 DEF ReviewInv
<1> QED  BY <1>1, <1>3, ReadingStep DEF RInv, Shape

\* ReadNames: what Postgres names is in Neo4j, and covers what was there when
\* the review began.
LEMMA ReadNamesInv ==
    ASSUME RInv, Stores, NEW r \in Reviews, ReadNames(r), UNCHANGED vars
    PROVE  RInv'
<1> DEFINE mentioned == CommittedNames \cap request[r].mentions
<1> DEFINE count == IF Cardinality(mentioned) < MaxGraphCandidates
                    THEN Cardinality(mentioned) ELSE MaxGraphCandidates
<1>1. PICK candidates \in [1..count -> mentioned] :
        /\ \A i, j \in 1..count : candidates[i] = candidates[j] => i = j
        /\ agent' = [agent EXCEPT ![r] = [agent[r] EXCEPT !.stage = "tool",
                                                          !.todo = candidates]]
  BY DEF ReadNames, Becomes
<1>2. /\ UNCHANGED <<request, before, review_tables, nodes, rows>>
      /\ DOMAIN agent' = Reviews /\ \A q \in Reviews \ {r} : agent'[q] = agent[q]
      /\ agent[r].stage = "names"
      /\ agent'[r] = [agent[r] EXCEPT !.stage = "tool", !.todo = candidates]
  BY <1>1 DEF ReadNames, RInv, Shape, vars
<1>3. /\ candidates \in Seq(mentioned) /\ ToSet(candidates) \subseteq mentioned
      /\ mentioned \subseteq ToSet(candidates)
         \/ Cardinality(ToSet(candidates)) = MaxGraphCandidates
  <2>1. IsFiniteSet(mentioned)
    BY NamesAreFinite, FS_Subset DEF Stores
  <2> HIDE DEF mentioned
  <2> QED  BY <1>1, <2>1, Candidates
<1>4. candidates \in Seq(ComponentNames)
  <2>1. mentioned \subseteq ComponentNames
    BY NamesAreFinite DEF Stores
  <2> HIDE DEF mentioned
  <2> QED  BY <1>3, <2>1
<1>5. /\ AgentTypes(r)' /\ agent'[r].stage = "tool" /\ agent'[r].queried = agent[r].queried
      /\ agent'[r].paths = agent[r].paths /\ agent'[r].missed = agent[r].missed
      /\ agent'[r].steps = agent[r].steps /\ agent'[r].todo = candidates
  BY <1>2, <1>4 DEF RInv, ReviewInv, AgentTypes, AgentFields, Stage
<1>6. ReviewInv(r)'
  <2>1. Remembered(r)' /\ LinksSeen(r)' /\ Unwritten(r)'
    BY <1>2, <1>5, SameAnswers DEF RInv, Shape
  <2>2. Budget(r)'
    BY <1>2, <1>5 DEF RInv, ReviewInv, Budget
  <2>3. Found(r)'
    <3>1. \A n \in CommittedNames : ComponentExists(nodes, n)
      BY DEF CommittedNames, ComponentExists, Stores, IInv, StoreInv, RowsAreMirrored,
             SameComponent
    <3> QED  BY <1>2, <1>3, <1>5, <3>1 DEF RInv, ReviewInv, Found
  <2>4. Covered(r)'
    <3>1. before[r].names \cap request[r].mentions \subseteq mentioned /\ agent[r].queried = {}
      BY <1>2 DEF RInv, ReviewInv, Remembered
    <3>2. Reached(r, ToSet(candidates))'
      BY <1>2, <1>3, <3>1 DEF Reached
    <3>3. agent'[r].queried \cup ToSet(agent'[r].todo) = ToSet(candidates)
      BY <1>5, <3>1
    <3> QED  BY <1>5, <3>2, <3>3 DEF Covered, Reached
  <2> QED  BY <1>5, <2>1, <2>2, <2>3, <2>4 DEF ReviewInv
<1> QED  BY <1>2, <1>6, ReadingStep DEF RInv, Shape

\* LookUpComponent never misses: the node is there.
LEMMA LookUpComponentInv ==
    ASSUME RInv, NEW r \in Reviews, LookUpComponent(r), UNCHANGED vars
    PROVE  RInv'
<1>1. /\ agent[r].stage = "tool" /\ agent[r].todo # <<>> /\ BoundsHit(r) = NoBound
      /\ ReviewInv(r)
  BY DEF LookUpComponent, RInv
<1>2. ComponentExists(nodes, Head(agent[r].todo))
  BY <1>1, HeadAndTail DEF ReviewInv, Found, AgentTypes
<1>3. agent[r].steps < request[r].max_steps
  BY <1>1, NoBoundHit, RequestTypes DEF RInv, ReviewInv, AgentTypes
<1>4. /\ UNCHANGED <<request, before, review_tables, nodes>>
      /\ DOMAIN agent' = Reviews /\ \A q \in Reviews \ {r} : agent'[q] = agent[q]
      /\ agent'[r] = [agent[r] EXCEPT !.stage = "paths"]
  BY <1>2 DEF LookUpComponent, Becomes, RInv, Shape, vars
<1>5. /\ AgentTypes(r)' /\ agent'[r].stage = "paths" /\ agent'[r].queried = agent[r].queried
      /\ agent'[r].paths = agent[r].paths /\ agent'[r].missed = agent[r].missed
      /\ agent'[r].steps = agent[r].steps /\ agent'[r].todo = agent[r].todo
  BY <1>1, <1>4 DEF ReviewInv, AgentTypes, AgentFields, Stage
<1>6. ReviewInv(r)'
  <2>1. Remembered(r)' /\ LinksSeen(r)' /\ Unwritten(r)'
    BY <1>1, <1>4, <1>5, SameAnswers DEF RInv, Shape
  <2>2. Budget(r)' /\ Found(r)' /\ Covered(r)'
    BY <1>1, <1>3, <1>4, <1>5 DEF ReviewInv, Budget, Found, Covered, Reached
  <2> QED  BY <1>5, <2>1, <2>2 DEF ReviewInv
<1> QED  BY <1>1, <1>4, <1>6, ReadingStep DEF RInv, Shape

\* What an answered extraction has left is a path from each of its ends.
LEMMA AcknowledgedPath ==
    ASSUME Stores, NEW d \in acked, NEW i \in DOMAIN Relationships[d],
           Relationships[d][i].source \in PlanNames(d),
           Relationships[d][i].target \in PlanNames(d),
           NEW name \in {Relationships[d][i].source, Relationships[d][i].target},
           NEW hops \in Nat
    PROVE  \E path \in FindPaths(nodes, edges, name, "both", hops) : \E h \in DOMAIN path :
              /\ path[h].kind = Relationships[d][i].kind /\ path[h].document = d
              /\ path[h].source = Relationships[d][i].source
              /\ path[h].target = Relationships[d][i].target
<1> DEFINE rel == Relationships[d][i]
<1> DEFINE RowsFor(n) == {id \in DOMAIN rows : rows[id].document = d /\ rows[id].name = n}
<1>1. PICK a \in RowsFor(rel.source), b \in RowsFor(rel.target) :
         <<rel.kind, a, b>> \in DOMAIN edges
  <2>1. AckedExtractionIsComplete
    BY DEF Stores
  <2>2. d \in acked /\ i \in DOMAIN Relationships[d]
        /\ rel.source \in PlanNames(d) /\ rel.target \in PlanNames(d)
    OBVIOUS
  <2> QED  BY <2>1, <2>2 DEF AckedExtractionIsComplete
<1> DEFINE key == <<rel.kind, a, b>>
<1>2. /\ a \in DOMAIN nodes /\ nodes[a].document = d /\ nodes[a].name = rel.source
      /\ b \in DOMAIN nodes /\ nodes[b].document = d /\ nodes[b].name = rel.target
  BY <1>1 DEF Stores, IInv, StoreInv, RowsAreMirrored, SameComponent
<1>3. edges[key].document = d
  <2>1. key \in DOMAIN edges /\ key[2] = a
    BY <1>1
  <2> HIDE DEF key
  <2> QED  BY <1>2, <2>1 DEF Stores, IInv, StoreInv, EdgesStayInDocument
<1>4. /\ Hop(nodes, edges, key).kind = rel.kind /\ Hop(nodes, edges, key).document = d
      /\ Hop(nodes, edges, key).source = rel.source
      /\ Hop(nodes, edges, key).target = rel.target
  BY <1>2, <1>3 DEF Hop
<1>5. \E path \in FindPaths(nodes, edges, name, "both", hops) :
         1 \in DOMAIN path /\ path[1] = Hop(nodes, edges, key)
  <2>1. /\ key \in DOMAIN edges /\ key[2] = a /\ key[3] = b
        /\ name \in {nodes[a].name, nodes[b].name}
    BY <1>1, <1>2
  <2> HIDE DEF key
  <2> QED  BY <1>2, <2>1, OneHop
<1> HIDE DEF key
<1> QED  BY <1>4, <1>5

\* QueryGraph: an answered relationship of the name is among the paths.
LEMMA QueryGraphInv ==
    ASSUME RInv, Stores, NEW r \in Reviews, QueryGraph(r), UNCHANGED vars
    PROVE  RInv'
<1>0. PICK name, todo, paths :
        /\ name = Head(agent[r].todo) /\ todo = Tail(agent[r].todo)
        /\ paths = FindPaths(nodes, edges, name, "both", request[r].max_hops)
  OBVIOUS
<1>1. agent[r].stage = "paths" /\ agent[r].todo # <<>> /\ ReviewInv(r)
      /\ agent[r].steps < request[r].max_steps
  BY DEF QueryGraph, RInv, ReviewInv, Budget
<1>2. /\ name \in ToSet(agent[r].todo) /\ todo \in Seq(ComponentNames)
      /\ ToSet(agent[r].todo) = {name} \cup ToSet(todo)
  BY <1>0, <1>1, HeadAndTail DEF ReviewInv, AgentTypes
<1>3. /\ UNCHANGED <<request, before, review_tables, nodes, rows, acked>>
      /\ DOMAIN agent' = Reviews /\ \A q \in Reviews \ {r} : agent'[q] = agent[q]
      /\ agent'[r] = [agent[r] EXCEPT !.stage = "tool", !.todo = todo,
                                      !.steps = agent[r].steps + 1,
                                      !.queried = agent[r].queried \cup {name},
                                      !.paths = agent[r].paths \cup paths]
  BY <1>0 DEF QueryGraph, Becomes, AgentDirection, RInv, Shape, vars
<1>4. /\ AgentTypes(r)' /\ agent'[r].stage = "tool"
      /\ agent'[r].queried = agent[r].queried \cup {name}
      /\ agent'[r].paths = agent[r].paths \cup paths /\ agent'[r].missed = agent[r].missed
      /\ agent'[r].steps = agent[r].steps + 1 /\ agent'[r].todo = todo
  BY <1>1, <1>2, <1>3 DEF ReviewInv, AgentTypes, AgentFields, Stage
<1>5. ReviewInv(r)'
  <2>1. Remembered(r)' /\ Unwritten(r)'
    BY <1>1, <1>3, <1>4 DEF ReviewInv, Remembered, Unwritten, CommittedNames, review_tables
  <2>2. Budget(r)'
    <3>1. /\ agent[r].steps \in Nat /\ request[r].max_steps \in Nat
          /\ Max({1, request[r].max_steps}) \in Nat
          /\ request[r].max_steps <= Max({1, request[r].max_steps})
      BY <1>1, RequestTypes DEF RInv, ReviewInv, AgentTypes
    <3>2. agent[r].steps + 1 <= Max({1, request[r].max_steps})
      BY <1>1, <3>1
    <3> QED  BY <1>3, <1>4, <3>2 DEF Budget
  <2>3. Found(r)'
    BY <1>1, <1>2, <1>3, <1>4 DEF ReviewInv, Found
  <2>4. Covered(r)'
    <3>1. agent'[r].queried \cup ToSet(agent'[r].todo)
            = agent[r].queried \cup ToSet(agent[r].todo)
      BY <1>2, <1>4
    <3> QED  BY <1>1, <1>3, <1>4, <3>1 DEF ReviewInv, Covered, Reached
  <2>5. LinksSeen(r)'
    <3> SUFFICES ASSUME NEW d \in before[r].acked, NEW i \in DOMAIN Relationships[d],
                        Relationships[d][i].source \in PlanNames(d),
                        Relationships[d][i].target \in PlanNames(d),
                        {Relationships[d][i].source, Relationships[d][i].target}
                            \cap agent'[r].queried # {}
                 PROVE  \E path \in agent'[r].paths : \E h \in DOMAIN path :
                          /\ path[h].kind = Relationships[d][i].kind /\ path[h].document = d
                          /\ path[h].source = Relationships[d][i].source
                          /\ path[h].target = Relationships[d][i].target
      BY <1>3 DEF LinksSeen
    <3>1. CASE {Relationships[d][i].source, Relationships[d][i].target}
                  \cap agent[r].queried # {}
      BY <1>1, <1>4, <3>1 DEF ReviewInv, LinksSeen
    <3>2. CASE name \in {Relationships[d][i].source, Relationships[d][i].target}
      <4>1. d \in acked /\ request[r].max_hops \in Nat
        BY <1>1, RequestTypes DEF ReviewInv, Remembered, RInv
      <4> QED  BY <1>0, <1>4, <3>2, <4>1, AcknowledgedPath
    <3> QED  BY <1>4, <3>1, <3>2
  <2> QED  BY <1>4, <2>1, <2>2, <2>3, <2>4, <2>5 DEF ReviewInv
<1> QED  BY <1>1, <1>3, <1>5, ReadingStep DEF RInv, Shape

\* LeaveLoop, Finish, Persist, Reply and Fail move the review on; Finish
\* computes the flags again.
LEMMA MoveOnInv ==
    ASSUME RInv, NEW r \in Reviews,
           LeaveLoop(r) \/ Finish(r) \/ Persist(r) \/ Reply(r) \/ Fail(r), UNCHANGED vars
    PROVE  RInv'
<1> DEFINE hit == BoundsHit(r)
<1>1. /\ UNCHANGED <<request, before, review_tables, nodes>>
      /\ DOMAIN agent' = Reviews /\ \A q \in Reviews \ {r} : agent'[q] = agent[q]
      /\ ReviewInv(r)
      /\ \/ /\ agent[r].stage = "tool" /\ agent[r].todo = <<>>
            /\ agent'[r] = [agent[r] EXCEPT !.stage = "finish"]
         \/ /\ agent[r].stage = "tool" /\ hit # NoBound
            /\ agent'[r] = [agent[r] EXCEPT !.stage = "finish", !.hit = hit]
         \/ /\ agent[r].stage = "finish"
            /\ agent'[r] = [agent[r] EXCEPT !.stage = "persist", !.hit = hit]
         \/ agent[r].stage = "persist" /\ agent'[r] = [agent[r] EXCEPT !.stage = "commit"]
         \/ agent[r].stage = "refresh" /\ agent'[r] = [agent[r] EXCEPT !.stage = "done"]
         \/ /\ agent[r].stage # "idle" /\ agent'[r] = [agent[r] EXCEPT !.stage = "failed"]
  BY DEF LeaveLoop, Finish, Persist, Reply, Fail, Becomes, RInv, Shape, vars
<1> HIDE DEF hit
<1>2. DOMAIN agent[r] = AgentFields /\ AgentTypes(r)
  BY <1>1 DEF ReviewInv, AgentTypes, AgentFields
<1>3. PICK s \in Stage : \/ agent'[r] = [agent[r] EXCEPT !.stage = s]
                        \/ agent'[r] = [agent[r] EXCEPT !.stage = s, !.hit = hit]
  BY <1>1 DEF Stage
<1>4. /\ DOMAIN agent'[r] = AgentFields /\ agent'[r].stage \in Stage
      /\ agent'[r].queried = agent[r].queried /\ agent'[r].paths = agent[r].paths
      /\ agent'[r].missed = agent[r].missed /\ agent'[r].steps = agent[r].steps
      /\ agent'[r].late = agent[r].late /\ agent'[r].todo = agent[r].todo
      /\ agent'[r].found = agent[r].found
  <2>1. CASE agent'[r] = [agent[r] EXCEPT !.stage = s]
    BY <1>2, <2>1 DEF AgentFields
  <2>2. CASE agent'[r] = [agent[r] EXCEPT !.stage = s, !.hit = hit]
    BY <1>2, <2>2 DEF AgentFields
  <2> QED  BY <1>3, <2>1, <2>2
<1>5. AgentTypes(r)'
  BY <1>2, <1>4 DEF AgentTypes
<1>6. \/ /\ agent[r].stage = "tool" /\ (agent[r].todo = <<>> \/ hit # NoBound)
         /\ agent'[r].stage = "finish"
      \/ agent[r].stage = "finish" /\ agent'[r].stage = "persist" /\ agent'[r].hit = hit
      \/ /\ agent[r].stage = "persist" /\ agent'[r].stage = "commit"
         /\ agent'[r].hit = agent[r].hit
      \/ agent[r].stage = "refresh" /\ agent'[r].stage = "done"
      \/ agent[r].stage # "idle" /\ agent'[r].stage = "failed"
  BY <1>1, <1>2 DEF AgentFields
<1>7. ReviewInv(r)'
  <2>1. Remembered(r)' /\ LinksSeen(r)' /\ Unwritten(r)'
    <3>1. agent'[r].stage \notin {"idle", "search", "bounds", "names"}
      BY <1>6
    <3>2. agent'[r].stage \notin {"refresh", "done", "failed"} =>
             agent[r].stage \notin {"refresh", "done", "failed"}
      BY <1>6
    <3> QED  BY <1>1, <1>4, <1>5, <3>1, <3>2, SameAnswers
  <2>2. Budget(r)' /\ Found(r)'
    BY <1>1, <1>4, <1>6 DEF ReviewInv, Budget, Found
  <2>3. Covered(r)'
    <3>1. BoundsHit(r)' = BoundsHit(r)
      BY <1>1, <1>4 DEF BoundsHit
    <3>2. agent[r].todo = <<>> => agent[r].queried \cup ToSet(agent[r].todo) = agent[r].queried
      BY DEF ToSet
    <3> QED  BY <1>1, <1>4, <1>6, <3>1, <3>2 DEF ReviewInv, Covered, Reached, hit
  <2> QED  BY <1>5, <2>1, <2>2, <2>3 DEF ReviewInv
<1>8. /\ UNCHANGED <<vars, request, review_tables>>
      /\ DOMAIN agent' = Reviews /\ DOMAIN before' = Reviews
      /\ \A q \in Reviews \ {r} : agent'[q] = agent[q] /\ before'[q] = before[q]
      /\ \/ agent[r].stage \notin {"refresh", "done", "failed"}
         \/ agent'[r].queried = agent[r].queried /\ before'[r] = before[r]
  BY <1>1, <1>4 DEF RInv, Shape, LeaveLoop, Finish, Persist, Reply, Fail, review_tables
<1> QED  BY <1>7, <1>8, ReadingStep

\* As many evidence rows as chunks.
LEMMA EvidenceRows ==
    ASSUME NEW r \in Reviews, NEW chunks \in SUBSET Corpus
    PROVE  Cardinality([review : {r}, chunk : chunks]) = Cardinality(chunks)
<1> DEFINE f == [c \in chunks |-> [review |-> r, chunk |-> c]]
<1>1. f \in [chunks -> [review : {r}, chunk : chunks]]
  OBVIOUS
<1>2. \A c, e \in chunks : f[c] = f[e] => c = e
  <2>1. \A c \in chunks : f[c].chunk = c
    OBVIOUS
  <2> HIDE DEF f
  <2> QED  BY <2>1
<1>3. \A row \in [review : {r}, chunk : chunks] : \E c \in chunks : f[c] = row
  <2> SUFFICES ASSUME NEW row \in [review : {r}, chunk : chunks]
               PROVE  \E c \in chunks : f[c] = row
    OBVIOUS
  <2>1. row = [review |-> r, chunk |-> row.chunk] /\ row.chunk \in chunks
    OBVIOUS
  <2> QED  BY <2>1
<1>4. f \in Bijection(chunks, [review : {r}, chunk : chunks])
  <2> HIDE DEF f
  <2> QED  BY <1>1, <1>2, <1>3 DEF Bijection, Injection, Surjection, IsInjective
<1>5. IsFiniteSet(chunks)
  BY ReviewAssumption, FS_Subset
<1> HIDE DEF f
<1> QED  BY <1>4, <1>5, FS_Bijection DEF ExistsBijection

\* CommitFinding: the finding, its evidence and its audit row, at once.
LEMMA CommitFindingInv ==
    ASSUME RInv, NEW r \in Reviews, CommitFinding(r), UNCHANGED vars
    PROVE  RInv'
<1>0. PICK f, a : /\ f = Judge(r)
                  /\ a = [review |-> r, verdict |-> Judge(r).verdict,
                          evidence_count |-> Cardinality(agent[r].found),
                          agent_steps |-> agent[r].steps, hit |-> agent[r].hit]
  OBVIOUS
<1> DEFINE cited == [review : {r}, chunk : agent[r].found]
<1>1. /\ UNCHANGED <<request, before, nodes, rows, acked>>
      /\ DOMAIN agent' = Reviews /\ \A q \in Reviews \ {r} : agent'[q] = agent[q]
      /\ agent[r].stage = "commit" /\ agent'[r] = [agent[r] EXCEPT !.stage = "refresh"]
      /\ findings' = findings \cup {f} /\ evidence' = evidence \cup cited
      /\ audited' = audited \cup {a}
      /\ ReviewInv(r)
  BY <1>0 DEF CommitFinding, Becomes, RInv, Shape, vars
<1>2. /\ AgentTypes(r)' /\ agent'[r].stage = "refresh" /\ agent'[r].queried = agent[r].queried
      /\ agent'[r].paths = agent[r].paths /\ agent'[r].missed = agent[r].missed
      /\ agent'[r].steps = agent[r].steps
  BY <1>1 DEF ReviewInv, AgentTypes, AgentFields, Stage
<1>3. /\ f.review = r /\ a.review = r /\ a.verdict = f.verdict /\ a.hit = agent[r].hit
      /\ a.evidence_count = Cardinality(agent[r].found)
      /\ \A e \in cited : e.review = r
  BY <1>0 DEF Judge
<1>4. \A row \in findings \cup evidence \cup audited : row.review # r
  BY <1>1 DEF ReviewInv, Unwritten
<1>5. {e \in evidence' : e.review = r} = cited
  BY <1>1, <1>3, <1>4
<1>6. Cardinality(cited) = a.evidence_count
  BY <1>1, <1>3, EvidenceRows DEF ReviewInv, AgentTypes
<1> HIDE DEF cited
<1>7. FindingsAreWhole'
  <2>1. ASSUME NEW g \in findings'
        PROVE  \E b \in audited' :
                  /\ b.review = g.review /\ b.verdict = g.verdict
                  /\ b.evidence_count = Cardinality({e \in evidence' : e.review = g.review})
    <3>1. CASE g = f
      <4>1. {e \in evidence' : e.review = g.review} = cited /\ a \in audited'
        BY <1>1, <1>3, <1>5, <3>1
      <4> QED  BY <1>3, <1>6, <3>1, <4>1
    <3>2. CASE g \in findings
      <4>1. g.review # r
        BY <1>4, <3>2
      <4>2. {e \in evidence' : e.review = g.review} = {e \in evidence : e.review = g.review}
        BY <1>1, <1>3, <4>1
      <4> QED  BY <1>1, <3>2, <4>2 DEF RInv, FindingsAreWhole
    <3> QED  BY <1>1, <2>1, <3>1, <3>2
  <2>2. \A e \in evidence' \cup audited' : \E g \in findings' : g.review = e.review
    BY <1>1, <1>3 DEF RInv, FindingsAreWhole, Persisted
  <2> QED  BY <2>1, <2>2 DEF FindingsAreWhole, Persisted
<1>8. BoundsReported'
  <2>0. \A b \in audited' : b.hit.step <=> b.agent_steps >= request[b.review].max_steps
    <3>1. a.agent_steps = agent[r].steps /\ a.hit = BoundsHit(r)
      BY <1>0, <1>1 DEF ReviewInv, Covered
    <3>2. BoundsHit(r).step = (agent[r].steps >= request[r].max_steps)
      BY DEF BoundsHit
    <3>3. a.hit.step <=> a.agent_steps >= request[a.review].max_steps
      BY <1>3, <3>1, <3>2, Zenon
    <3> QED  BY <1>1, <3>3 DEF RInv, BoundsReported
  <2>1. ASSUME NEW b \in audited', request[b.review].intent, b.hit = NoBound
        PROVE  Reached(b.review, agent[b.review].queried)'
    <3>1. CASE b = a
      BY <1>1, <1>2, <1>3, <2>1, <3>1 DEF ReviewInv, Covered, Reached
    <3>2. CASE b \in audited
      <4>1. Reached(b.review, agent[b.review].queried) /\ b.review \in Reviews /\ b.review # r
        BY <1>4, <2>1, <3>2 DEF RInv, BoundsReported, Shape
      <4> QED  BY <1>1, <4>1 DEF Reached
    <3> QED  BY <1>1, <2>1, <3>1, <3>2
  <2> QED  BY <1>1, <2>0, <2>1 DEF BoundsReported
<1>9. Shape'
  BY <1>1, <1>3 DEF RInv, Shape
<1>10. ReviewInv(r)'
  <2>1. Remembered(r)' /\ Unwritten(r)' /\ Budget(r)' /\ Found(r)' /\ Covered(r)'
    BY <1>1, <1>2 DEF ReviewInv, Remembered, Unwritten, Budget, Found, Covered, CommittedNames
  <2>2. LinksSeen(r)'
    BY <1>1, <1>2 DEF ReviewInv, LinksSeen
  <2> QED  BY <1>2, <2>1, <2>2 DEF ReviewInv
<1>11. \A q \in Reviews \ {r} : ReviewInv(q)'
  <2>1. Extends(rows', rows) /\ Extends(nodes', nodes) /\ acked \subseteq acked'
    BY <1>1 DEF Extends, SameComponent
  <2>2. ASSUME NEW q \in Reviews \ {r} PROVE ReviewInv(q)'
    <3>1. \A row \in findings' \cup evidence' \cup audited' :
             row \in findings \cup evidence \cup audited \/ row.review # q
      BY <1>1, <1>3, <2>2
    <3> QED  BY <1>1, <2>1, <2>2, <3>1, ReviewStays DEF RInv
  <2> QED  BY <2>2
<1> QED  BY <1>7, <1>8, <1>9, <1>10, <1>11 DEF RInv

----------------------------------------------------------------------------
(***************************************************************************)
(* The theorems.                                                           *)
(***************************************************************************)
LEMMA RInit == ReviewInit => RInv
<1> SUFFICES ASSUME ReviewInit PROVE RInv
  OBVIOUS
<1>1. \A r \in Reviews :
        /\ agent[r] = NewAgent /\ before[r] = [names |-> {}, acked |-> {}]
        /\ request[r] \in Requests
  BY DEF ReviewInit
<1>2. Shape /\ FindingsAreWhole /\ BoundsReported
  BY DEF ReviewInit, Shape, FindingsAreWhole, BoundsReported
<1>3. ASSUME NEW r \in Reviews PROVE ReviewInv(r)
  <2>1. AgentTypes(r)
    <3>1. <<>> \in Seq(ComponentNames)
      OBVIOUS
    <3>2. DOMAIN NewAgent = AgentFields
      BY DEF NewAgent, AgentFields
    <3>3. /\ NewAgent.stage = "idle" /\ NewAgent.found = {} /\ NewAgent.steps = 0
          /\ NewAgent.todo = <<>> /\ NewAgent.late = FALSE
      BY DEF NewAgent
    <3>4. "idle" \in Stage
      BY DEF Stage
    <3>5. agent[r] = NewAgent
      BY <1>1
    <3> HIDE DEF NewAgent
    <3>6. agent[r].stage \in Stage /\ agent[r].found \subseteq Corpus /\ agent[r].steps \in Nat
      BY <3>3, <3>4, <3>5
    <3>7. agent[r].todo \in Seq(ComponentNames) /\ agent[r].late \in BOOLEAN
      BY <3>1, <3>3, <3>5
    <3> QED  BY <3>2, <3>5, <3>6, <3>7 DEF AgentTypes
  <2>2. Remembered(r) /\ Covered(r) /\ Found(r) /\ LinksSeen(r) /\ Unwritten(r)
    BY <1>1 DEF Remembered, Covered, Found, LinksSeen, Unwritten, NewAgent, ReviewInit
  <2>3. Budget(r)
    BY <1>1, <1>2, RequestTypes DEF Budget, NewAgent
  <2> QED  BY <2>1, <2>2, <2>3 DEF ReviewInv
<1> QED  BY <1>2, <1>3 DEF RInv

LEMMA RNext == RInv /\ Stores /\ [ReviewNext]_all_vars => RInv'
<1> SUFFICES ASSUME RInv, Stores, [ReviewNext]_all_vars PROVE RInv'
  OBVIOUS
<1>1. ASSUME [Next]_vars, UNCHANGED review_vars PROVE RInv'
  <2>1. Extends(rows', rows) /\ Extends(nodes', nodes) /\ acked \subseteq acked'
    BY <1>1, StoresGrow DEF Stores
  <2>2. Shape' /\ FindingsAreWhole' /\ BoundsReported'
    BY <1>1 DEF review_vars, RInv, Shape, FindingsAreWhole, Persisted, BoundsReported, Reached
  <2>3. \A r \in Reviews : ReviewInv(r)'
    BY <1>1, <2>1, ReviewStays DEF review_vars, RInv
  <2> QED  BY <2>2, <2>3 DEF RInv
<1> QED
  BY <1>1, AskInv, RunLateInv, SearchInv, CheckBoundsInv, ReadNamesInv, LookUpComponentInv,
     QueryGraphInv, MoveOnInv, CommitFindingInv
  DEF ReviewNext, ReviewStep, all_vars

\* What each review knows and holds stays as RInv says, beside extractions.
THEOREM ReviewInvariance == ReviewSpec => []RInv
<1>1. Spec => []Stores
  BY Invariance, AnsweredIsComplete, PTL DEF Stores
<1> QED  BY <1>1, ReviewsLeaveTheStores, RInit, RNext, PTL DEF ReviewSpec

\* A finding is readable with its evidence rows, counted, and one audit row, or
\* not at all, whatever a review's calls raise.
THEOREM FindingsStayWhole == ReviewSpec => []FindingsAreWhole
<1>1. RInv => FindingsAreWhole
  BY DEF RInv
<1> QED  BY <1>1, ReviewInvariance, PTL

\* A review keeps to its steps, and one that reports no bound has asked the
\* graph about all the question names, or about as many as it ever does.
THEOREM ReviewsStayBounded == ReviewSpec => []BoundsAreKeptAndReported
<1>1. RInv => BoundsAreKeptAndReported
  BY DEF RInv, BoundsAreKeptAndReported, BoundsReported, Reached, ReviewInv, Budget
<1> QED  BY <1>1, ReviewInvariance, PTL

\* A component a review has read from Postgres is there when it asks Neo4j.
THEOREM NoComponentIsMissed == ReviewSpec => []CommittedComponentsAreFound
<1>1. RInv => CommittedComponentsAreFound
  BY DEF RInv, CommittedComponentsAreFound, ReviewInv, Found
<1> QED  BY <1>1, ReviewInvariance, PTL

\* A review that asks the graph for an end of a relationship sees it, if the
\* extraction that found it was answered before the review began.
THEOREM AnsweredLinksAreSeen == ReviewSpec => []AcknowledgedLinksAreSeen
<1>1. RInv => AcknowledgedLinksAreSeen
  BY DEF RInv, AcknowledgedLinksAreSeen, ReviewInv, LinksSeen
<1> QED  BY <1>1, ReviewInvariance, PTL

----------------------------------------------------------------------------
(***************************************************************************)
(* Citations.  Graph facts are judged and not cited, so a verdict can rest *)
(* on nothing that is cited.  It takes a name or a kind of relationship    *)
(* with a marker in it: without one, the citations carry the verdict.      *)
(***************************************************************************)
NoNameIsAMarker ==
    \A word \in ComponentNames \cup Kinds :
        ~Vocabulary[word].negated /\ ~Vocabulary[word].affirmed

IsFact(hop) ==
    hop.source \in ComponentNames /\ hop.target \in ComponentNames /\ hop.kind \in Kinds

CitedChunks(r) == {e.chunk : e \in {x \in evidence : x.review = r}}

\* What a finding says is what is judged of its review, which cites all the
\* chunks that it has found.
CitedInv ==
    /\ \A r \in Reviews : \A path \in agent[r].paths : \A h \in DOMAIN path : IsFact(path[h])
    /\ \A f \in findings : f = Judge(f.review) /\ CitedChunks(f.review) = agent[f.review].found

\* A relationship joins nodes, and each has a component's name.
LEMMA PathsAreFacts ==
    ASSUME IInv, NEW name, NEW direction, NEW hops,
           NEW path \in FindPaths(nodes, edges, name, direction, hops), NEW h \in DOMAIN path
    PROVE  IsFact(path[h])
<1>1. PICK trail : /\ path = [i \in DOMAIN trail |-> Hop(nodes, edges, trail[i])]
                   /\ \E length : trail \in [1..length -> DOMAIN edges]
  BY DEF FindPaths, Trails
<1>2. trail[h] \in DOMAIN edges /\ path[h] = Hop(nodes, edges, trail[h])
  BY <1>1
<1>3. PICK key \in DOMAIN edges : path[h] = Hop(nodes, edges, key)
  BY <1>2
<1>4. key[1] \in Kinds /\ key[2] \in DOMAIN nodes /\ key[3] \in DOMAIN nodes
  BY DEF IInv, TypeOK, IsTable, EdgeKey, StoreInv, EdgesStayInDocument
<1>5. nodes[key[2]].name \in ComponentNames /\ nodes[key[3]].name \in ComponentNames
  BY <1>4 DEF IInv, TypeOK, IsTable, Node
<1> QED  BY <1>3, <1>4, <1>5 DEF Hop, IsFact

LEMMA JudgedAlike ==
    ASSUME NEW r, agent'[r].found = agent[r].found, agent'[r].paths = agent[r].paths,
           request'[r] = request[r]
    PROVE  Judge(r)' = Judge(r)
BY DEF Judge

\* Steps that write no row, of a review that has none or whose findings stay.
LEMMA CitedStays ==
    ASSUME RInv, CitedInv, NEW r \in Reviews, UNCHANGED <<request, findings, evidence>>,
           \A q \in Reviews \ {r} : agent'[q] = agent[q],
           \A path \in agent'[r].paths : \A h \in DOMAIN path : IsFact(path[h]),
           \/ agent[r].stage \notin {"refresh", "done", "failed"}
           \/ agent'[r].found = agent[r].found /\ agent'[r].paths = agent[r].paths
    PROVE  CitedInv'
<1>1. ASSUME NEW f \in findings
      PROVE  f = Judge(f.review)' /\ CitedChunks(f.review)' = agent'[f.review].found
  <2>1. f = Judge(f.review) /\ CitedChunks(f.review) = agent[f.review].found
    BY DEF CitedInv
  <2>2. f.review \in Reviews
    BY DEF RInv, Shape
  <2>3. agent'[f.review].found = agent[f.review].found /\ agent'[f.review].paths = agent[f.review].paths
    BY <2>2 DEF RInv, ReviewInv, Unwritten
  <2>4. Judge(f.review)' = Judge(f.review)
    BY <2>3, JudgedAlike
  <2>5. CitedChunks(f.review)' = CitedChunks(f.review)
    BY DEF CitedChunks
  <2> QED  BY <2>1, <2>3, <2>4, <2>5
<1>2. \A q \in Reviews : \A path \in agent'[q].paths : \A h \in DOMAIN path : IsFact(path[h])
  BY DEF CitedInv
<1> QED  BY <1>1, <1>2 DEF CitedInv, IsFact

LEMMA CitedCommit ==
    ASSUME RInv, CitedInv, NEW r \in Reviews, CommitFinding(r)
    PROVE  CitedInv'
<1>1. /\ agent[r].stage = "commit" /\ UNCHANGED request
      /\ \A q \in Reviews \ {r} : agent'[q] = agent[q]
      /\ agent'[r] = [agent[r] EXCEPT !.stage = "refresh"]
      /\ DOMAIN agent[r] = AgentFields
  BY DEF CommitFinding, Becomes, RInv, Shape, ReviewInv, AgentTypes
<1>2. agent'[r].found = agent[r].found /\ agent'[r].paths = agent[r].paths
  BY <1>1 DEF AgentFields
<1>3. \A q \in Reviews : agent'[q].found = agent[q].found /\ agent'[q].paths = agent[q].paths
  BY <1>1, <1>2
<1>4. \A row \in findings \cup evidence \cup audited : row.review # r
  BY <1>1 DEF RInv, ReviewInv, Unwritten
<1>5. Judge(r).review = r
  BY DEF Judge
<1>6. \A q \in Reviews : Judge(q)' = Judge(q)
  BY <1>1, <1>3, JudgedAlike
<1>7. CitedChunks(r)' = agent[r].found
  <2>1. evidence' = evidence \cup [review : {r}, chunk : agent[r].found]
    BY DEF CommitFinding
  <2>2. {x \in evidence' : x.review = r} = [review : {r}, chunk : agent[r].found]
    BY <2>1, <1>4
  <2>3. {e.chunk : e \in [review : {r}, chunk : agent[r].found]} = agent[r].found
    <3>1. ASSUME NEW c \in agent[r].found
          PROVE  \E e \in [review : {r}, chunk : agent[r].found] : e.chunk = c
      <4>1. [review |-> r, chunk |-> c] \in [review : {r}, chunk : agent[r].found]
        OBVIOUS
      <4> QED  BY <4>1
    <3> QED  BY <3>1
  <2> QED  BY <2>2, <2>3 DEF CitedChunks
<1>8. ASSUME NEW q \in Reviews, q # r PROVE CitedChunks(q)' = CitedChunks(q)
  <2>1. {x \in evidence' : x.review = q} = {x \in evidence : x.review = q}
    BY <1>8 DEF CommitFinding
  <2> QED  BY <2>1 DEF CitedChunks
<1>9. ASSUME NEW f \in findings'
      PROVE  f = Judge(f.review)' /\ CitedChunks(f.review)' = agent'[f.review].found
  <2>1. f \in findings \/ f = Judge(r)
    BY DEF CommitFinding
  <2>2. CASE f = Judge(r)
    <3>1. f.review = r
      BY <1>5, <2>2
    <3> QED  BY <1>2, <1>6, <1>7, <2>2, <3>1
  <2>3. CASE f \in findings
    <3>1. f.review \in Reviews /\ f.review # r
      BY <1>4, <2>3 DEF RInv, Shape
    <3>2. f = Judge(f.review) /\ CitedChunks(f.review) = agent[f.review].found
      BY <2>3 DEF CitedInv
    <3> QED  BY <1>3, <1>6, <1>8, <3>1, <3>2
  <2> QED  BY <2>1, <2>2, <2>3
<1>10. \A q \in Reviews : \A path \in agent'[q].paths : \A h \in DOMAIN path : IsFact(path[h])
  BY <1>3 DEF CitedInv
<1> QED  BY <1>9, <1>10 DEF CitedInv, IsFact

LEMMA CitedStep == RInv /\ Stores /\ CitedInv /\ [ReviewNext]_all_vars => CitedInv'
<1> SUFFICES ASSUME RInv, Stores, CitedInv, [ReviewNext]_all_vars PROVE CitedInv'
  OBVIOUS
<1>1. CASE UNCHANGED review_vars
  <2>1. \A r : Judge(r)' = Judge(r) /\ CitedChunks(r)' = CitedChunks(r)
    BY <1>1, JudgedAlike DEF review_vars, CitedChunks
  <2> QED  BY <1>1, <2>1 DEF CitedInv, IsFact, review_vars
<1>2. ASSUME NEW r \in Reviews, Ask(r) \/ RunLate(r) \/ ReviewStep(r) \/ Fail(r)
      PROVE  CitedInv'
  <2>1. DOMAIN agent = Reviews /\ DOMAIN agent[r] = AgentFields
    BY DEF RInv, Shape, ReviewInv, AgentTypes
  <2>2. CASE CommitFinding(r)
    BY <2>2, CitedCommit
  <2>3. CASE QueryGraph(r)
    <3>1. PICK paths : /\ paths = FindPaths(nodes, edges, Head(agent[r].todo), AgentDirection,
                                             request[r].max_hops)
                       /\ agent'[r].paths = agent[r].paths \cup paths
      BY <2>1, <2>3 DEF QueryGraph, Becomes, AgentFields
    <3>2. \A path \in paths : \A h \in DOMAIN path : IsFact(path[h])
      BY <3>1, PathsAreFacts DEF Stores
    <3>3. \A path \in agent'[r].paths : \A h \in DOMAIN path : IsFact(path[h])
      BY <3>1, <3>2 DEF CitedInv
    <3> QED  BY <2>1, <2>3, <3>3, CitedStays DEF QueryGraph, Becomes, review_tables
  <2>4. CASE Search(r)
    <3>1. agent'[r].paths = agent[r].paths
      BY <2>1, <2>4 DEF Search, Becomes, AgentFields
    <3>2. \A path \in agent'[r].paths : \A h \in DOMAIN path : IsFact(path[h])
      BY <3>1 DEF CitedInv
    <3> QED  BY <2>1, <2>4, <3>2, CitedStays DEF Search, Becomes, review_tables
  <2>5. CASE \/ Ask(r) \/ RunLate(r) \/ CheckBounds(r) \/ ReadNames(r) \/ LookUpComponent(r)
             \/ LeaveLoop(r) \/ Finish(r) \/ Persist(r) \/ Reply(r) \/ Fail(r)
    <3>1. /\ UNCHANGED <<request, findings, evidence>>
          /\ \A q \in Reviews \ {r} : agent'[q] = agent[q]
      BY <2>1, <2>5 DEF Ask, RunLate, CheckBounds, ReadNames, LookUpComponent, LeaveLoop, Finish,
                        Persist, Reply, Fail, Becomes, review_tables
    <3>2. agent'[r].found = agent[r].found /\ agent'[r].paths = agent[r].paths
      <4>1. CASE Ask(r) \/ RunLate(r) \/ Persist(r) \/ Reply(r) \/ Fail(r)
        BY <2>1, <4>1 DEF Ask, RunLate, Persist, Reply, Fail, Becomes, AgentFields
      <4>2. CASE CheckBounds(r) \/ ReadNames(r) \/ Finish(r)
        BY <2>1, <4>2 DEF CheckBounds, ReadNames, Finish, Becomes, AgentFields
      <4>3. CASE LookUpComponent(r)
        BY <2>1, <4>3 DEF LookUpComponent, Becomes, AgentFields
      <4>4. CASE LeaveLoop(r)
        BY <2>1, <4>4 DEF LeaveLoop, Becomes, AgentFields
      <4> QED  BY <2>5, <4>1, <4>2, <4>3, <4>4
    <3>3. \A path \in agent'[r].paths : \A h \in DOMAIN path : IsFact(path[h])
      BY <3>2 DEF CitedInv
    <3> QED  BY <3>1, <3>2, <3>3, CitedStays
  <2> QED  BY <1>2, <2>2, <2>3, <2>4, <2>5 DEF ReviewStep
<1> QED  BY <1>1, <1>2 DEF ReviewNext, all_vars

\* Sentences without a marker change no verdict to another than UNKNOWN.
LEMMA UnmarkedSayNothing ==
    ASSUME NEW question, NEW units, NEW facts,
           \A place \in DOMAIN facts : ~facts[place].negated /\ ~facts[place].affirmed,
           Verdict(question, Overlay(units, facts)) # "UNKNOWN"
    PROVE  Verdict(question, units) # "UNKNOWN"
<1> DEFINE all == Overlay(units, facts)
<1>1. /\ DOMAIN all = DOMAIN units \cup DOMAIN facts
      /\ \A place \in DOMAIN units : place \notin DOMAIN facts => all[place] = units[place]
      /\ \A place \in DOMAIN facts : all[place] = facts[place]
  BY OverlayLookup
<1> HIDE DEF all
<1>2. Denying(question, all) \subseteq Denying(question, units)
  BY <1>1, Zenon DEF Denying, Relevant
<1>3. Affirming(question, all) \subseteq Affirming(question, units)
  BY <1>1, Zenon DEF Affirming, Relevant
<1>4. Denying(question, all) # {} \/ Affirming(question, all) # {}
  BY DEF Verdict, all
<1> QED  BY <1>2, <1>3, <1>4 DEF Verdict

\* If no name and no kind of relationship has a marker in it, a verdict other
\* than UNKNOWN rests on the chunks its finding cites (docs/SCHEMA.md:200).
THEOREM CitationsCarryTheVerdict ==
    NoNameIsAMarker => (ReviewSpec => []VerdictsRestOnCitations)
<1> SUFFICES ASSUME NoNameIsAMarker PROVE ReviewSpec => []VerdictsRestOnCitations
  OBVIOUS
<1>1. ReviewInit => CitedInv
  BY DEF ReviewInit, CitedInv, NewAgent
<1>2. RInv /\ CitedInv => VerdictsRestOnCitations
  <2> SUFFICES ASSUME RInv, CitedInv, NEW f \in findings, f.verdict # "UNKNOWN"
               PROVE  Verdict(request[f.review].keywords, TextUnits(CitedChunks(f.review))) # "UNKNOWN"
    BY DEF VerdictsRestOnCitations, CitedChunks
  <2> DEFINE r == f.review
             facts == GraphUnits(agent[r].paths)
  <2>1. r \in Reviews /\ f = Judge(r) /\ CitedChunks(r) = agent[r].found
    BY DEF RInv, Shape, CitedInv
  <2>2. Verdict(request[r].keywords, Overlay(TextUnits(agent[r].found), facts)) # "UNKNOWN"
    BY <2>1 DEF Judge
  <2>3. \A place \in DOMAIN facts : ~facts[place].negated /\ ~facts[place].affirmed
    <3>1. ASSUME NEW place \in DOMAIN facts
          PROVE  ~facts[place].negated /\ ~facts[place].affirmed
      <4>1. PICK path \in agent[r].paths : place \in {path} \X DOMAIN path
        BY <3>1 DEF GraphUnits
      <4>2. IsFact(path[place[2]]) /\ facts[place] = HopSentence(path[place[2]])
        BY <2>1, <3>1, <4>1 DEF GraphUnits, CitedInv
      <4>3. PICK hop : hop = path[place[2]]
        OBVIOUS
      <4>4. ~HopSentence(hop).negated /\ ~HopSentence(hop).affirmed
        BY <4>2, <4>3, Zenon DEF HopSentence, IsFact, NoNameIsAMarker
      <4> QED  BY <4>2, <4>3, <4>4
    <3> QED  BY <3>1
  <2> HIDE DEF facts
  <2>4. Verdict(request[r].keywords, TextUnits(agent[r].found)) # "UNKNOWN"
    BY <2>2, <2>3, UnmarkedSayNothing
  <2> QED  BY <2>1, <2>4
<1>3. ReviewSpec => []Stores
  <2>1. Spec => []Stores
    BY Invariance, AnsweredIsComplete, PTL DEF Stores
  <2> QED  BY <2>1, ReviewsLeaveTheStores, PTL
<1> QED  BY <1>1, <1>2, <1>3, ReviewInvariance, CitedStep, PTL DEF ReviewSpec
=============================================================================
