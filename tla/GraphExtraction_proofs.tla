------------------------ MODULE GraphExtraction_proofs ------------------------
(***************************************************************************)
(* Proofs about GraphExtraction: type correctness, the agreement of the    *)
(* two stores, that Postgres implements ComponentCatalog; then which chunk *)
(* rows and nodes cite, that extractions never wait in a circle, what an   *)
(* answered extraction leaves behind, and what one worker alone never      *)
(* duplicates.                                                             *)
(***************************************************************************)
EXTENDS GraphExtraction, FiniteSetTheorems, WellFoundedInduction, TLAPS

(***************************************************************************)
(* The inductive invariant.  First what holds of one worker w.             *)
(***************************************************************************)

\* Its position lies inside the plan of its document.
Located(w) ==
    /\ pc[w] # "idle" => doc[w] \in Documents
    /\ pc[w] \in {"select", "flush", "mirror"} => at[w] \in 1..Len(Components[doc[w]])
    /\ pc[w] = "link" => at[w] \in 1..Len(Relationships[doc[w]])
    /\ pc[w] = "own" => Owner[doc[w]].team # None
    /\ pc[w] = "idle" => DOMAIN tx[w] = {} /\ DOMAIN pg[w] = {}

\* Id "id" has its node, or w's next call creates it.
MirroredBy(w, id) ==
    id \in DOMAIN nodes \/ (pc[w] = "mirror" /\ current[w].id = id)

\* Its transaction writes rows for components of its own document, renames no
\* row, disagrees with no node about a component, and leaves no row without a
\* node.
OwnRows(w) ==
    \A id \in DOMAIN tx[w] :
        /\ id < next_id
        /\ tx[w][id].document = doc[w]
        /\ tx[w][id].name \in PlanNames(doc[w])
        /\ id \in DOMAIN rows => SameComponent(tx[w][id], rows[id])
        /\ id \in DOMAIN nodes => SameComponent(tx[w][id], nodes[id])
        /\ MirroredBy(w, id)

\* Row "id" is visible to w and is component n of its document.
IsRowOf(w, id, n) ==
    /\ id \in DOMAIN Visible(w)
    /\ Visible(w)[id].document = doc[w]
    /\ Visible(w)[id].name = n

\* The ORM object at hand is the row of the component it is at.
CurrentRow(w) ==
    /\ pc[w] = "mirror" => current[w] # None
    /\ pc[w] \in {"flush", "mirror"} /\ current[w] # None =>
          IsRowOf(w, current[w].id, ThisComponent(w).name)

\* pg_components names visible rows ...
PgRows(w) ==
    \A n \in DOMAIN pg[w] : IsRowOf(w, pg[w][n], n) /\ MirroredBy(w, pg[w][n])

\* ... of exactly the components passed so far.
Passed(w) ==
    IF pc[w] \in {"select", "flush"} THEN 1..(at[w] - 1)
    ELSE IF pc[w] = "mirror" THEN 1..at[w]
    ELSE DOMAIN Components[doc[w]]

PgCovers(w) ==
    pc[w] # "idle" =>
        /\ \A i \in Passed(w) : Components[doc[w]][i].name \in DOMAIN pg[w]
        /\ \A n \in DOMAIN pg[w] : \E i \in Passed(w) : Components[doc[w]][i].name = n

WorkerInv(w) ==
    Located(w) /\ OwnRows(w) /\ CurrentRow(w) /\ PgRows(w) /\ PgCovers(w)

(***************************************************************************)
(* Then what holds of the two stores.                                      *)
(***************************************************************************)

\* Two workers never hold uncommitted writes to the same row: the UPDATE waits.
RowLocksExclude ==
    \A u, w \in Workers : u # w => DOMAIN tx[u] \cap DOMAIN tx[w] = {}

\* Ids in use have been handed out.
Allocated == \A id \in DOMAIN rows \cup DOMAIN nodes : id < next_id

StoreInv == Allocated /\ RowsAreMirrored /\ RowLocksExclude /\ EdgesStayInDocument

IInv == TypeOK /\ StoreInv /\ \A w \in Workers : WorkerInv(w)

----------------------------------------------------------------------------
(***************************************************************************)
(* Tables.                                                                 *)
(***************************************************************************)

\* Put changes one key and keeps the others (every write of the module).
LEMMA PutLookup ==
    ASSUME NEW table, NEW key, NEW value
    PROVE  /\ DOMAIN Put(table, key, value) = DOMAIN table \cup {key}
           /\ Put(table, key, value)[key] = value
           /\ \A k \in DOMAIN table : k # key => Put(table, key, value)[k] = table[k]
BY DEF Put

\* A table stays a table of its type under Put.
LEMMA PutIsTable ==
    ASSUME NEW Key, NEW Value, NEW table, IsTable(table, Key, Value),
           NEW key \in Key, NEW value \in Value
    PROVE  IsTable(Put(table, key, value), Key, Value)
BY DEF Put, IsTable

\* What the visible table holds: the transaction's rows over the committed.
LEMMA OverlayLookup ==
    ASSUME NEW table, NEW top
    PROVE  /\ DOMAIN Overlay(table, top) = DOMAIN table \cup DOMAIN top
           /\ \A k \in DOMAIN top : Overlay(table, top)[k] = top[k]
           /\ \A k \in DOMAIN table : k \notin DOMAIN top => Overlay(table, top)[k] = table[k]
BY DEF Overlay

\* A commit turns a table and a transaction of one type into a table of it.
LEMMA OverlayIsTable ==
    ASSUME NEW Key, NEW Value, NEW table, NEW top,
           IsTable(table, Key, Value), IsTable(top, Key, Value)
    PROVE  IsTable(Overlay(table, top), Key, Value)
BY DEF Overlay, IsTable

\* The empty table is a table of every type.
LEMMA EmptyIsTable ==
    ASSUME NEW Key, NEW Value
    PROVE  IsTable(EmptyTable, Key, Value) /\ DOMAIN EmptyTable = {}
BY DEF EmptyTable, IsTable

\* The types of the plan entries a worker can be at.
LEMMA PlanTypes ==
    ASSUME NEW d \in Documents
    PROVE  /\ Len(Components[d]) \in Nat /\ DOMAIN Components[d] = 1..Len(Components[d])
           /\ Len(Relationships[d]) \in Nat
           /\ \A i \in 1..Len(Components[d]) : Components[d][i] \in ComponentPlan
           /\ \A i \in 1..Len(Relationships[d]) : Relationships[d][i] \in RelationshipPlan
           /\ Owner[d] \in OwnerPlan
BY PlanAssumption

----------------------------------------------------------------------------
(***************************************************************************)
(* What a step leaves alone.                                               *)
(***************************************************************************)

\* The locals of worker u keep their values.
Bystander(u) ==
    /\ pc'[u] = pc[u] /\ doc'[u] = doc[u] /\ at'[u] = at[u]
    /\ current'[u] = current[u] /\ tx'[u] = tx[u] /\ pg'[u] = pg[u]

\* A table loses no key, and no key changes its component.
Extends(new, old) ==
    /\ DOMAIN old \subseteq DOMAIN new
    /\ \A k \in DOMAIN old : SameComponent(new[k], old[k])

\* The stores and the ids only grow.
Grows ==
    /\ next_id \in Nat /\ next_id' \in Nat /\ next_id <= next_id'
    /\ Extends(rows', rows) /\ Extends(nodes', nodes)

\* What a worker's rows say about the stores after the step.
Agrees(u) ==
    \A id \in DOMAIN tx[u] :
        /\ id \in DOMAIN rows' => SameComponent(tx[u][id], rows'[id])
        /\ id \in DOMAIN nodes' => SameComponent(tx[u][id], nodes'[id])

\* A row stays the row of its component while the stores grow.
LEMMA IsRowOfStable ==
    ASSUME NEW u \in Workers, NEW id, NEW n, IsRowOf(u, id, n),
           OwnRows(u), Bystander(u), Grows, Agrees(u)
    PROVE  IsRowOf(u, id, n)'
<1>1. /\ DOMAIN Visible(u) = DOMAIN rows \cup DOMAIN tx[u]
      /\ DOMAIN Visible(u)' = DOMAIN rows' \cup DOMAIN tx[u]
  BY DEF Visible, Overlay, Bystander
<1>2. CASE id \in DOMAIN tx[u]
  <2>1. Visible(u)[id] = tx[u][id] /\ Visible(u)'[id] = tx[u][id]
    BY <1>2 DEF Visible, Overlay, Bystander
  <2>2. QED
    BY <1>1, <1>2, <2>1 DEF IsRowOf, Bystander
<1>3. CASE id \notin DOMAIN tx[u]
  <2>1. id \in DOMAIN rows /\ id \in DOMAIN rows' /\ SameComponent(rows'[id], rows[id])
    BY <1>1, <1>3 DEF IsRowOf, Grows, Extends
  <2>2. Visible(u)[id] = rows[id] /\ Visible(u)'[id] = rows'[id]
    BY <1>3, <2>1 DEF Visible, Overlay, Bystander
  <2>3. QED
    BY <1>1, <2>1, <2>2 DEF IsRowOf, SameComponent, Bystander
<1>4. QED
  BY <1>2, <1>3

\* A step that leaves a worker's locals alone keeps what holds of it.
LEMMA BystanderInv ==
    ASSUME NEW u \in Workers, WorkerInv(u), Bystander(u), Grows, Agrees(u),
           \A id \in DOMAIN tx[u] : id \in Nat
    PROVE  WorkerInv(u)'
<1>1. Located(u)'
  BY DEF WorkerInv, Located, Bystander
<1>2. ASSUME NEW id, MirroredBy(u, id) PROVE MirroredBy(u, id)'
  BY <1>2 DEF MirroredBy, Bystander, Grows, Extends
<1>3. OwnRows(u)'
  BY <1>2 DEF WorkerInv, OwnRows, Bystander, Grows, Agrees
<1>4. CurrentRow(u)'
  <2>1. ThisComponent(u)' = ThisComponent(u)
    BY DEF ThisComponent, Bystander
  <2>2. QED
    BY <2>1, IsRowOfStable DEF WorkerInv, CurrentRow, Bystander
<1>5. PgRows(u)'
  BY <1>2, IsRowOfStable DEF WorkerInv, PgRows, Bystander
<1>6. PgCovers(u)'
  <2>1. Passed(u)' = Passed(u)
    BY DEF Passed, Bystander
  <2>2. QED
    BY <2>1 DEF WorkerInv, PgCovers, Bystander
<1>7. QED
  BY <1>1, <1>3, <1>4, <1>5, <1>6 DEF WorkerInv

\* A worker that has left has nothing to say.
LEMMA LeaveInv ==
    ASSUME TypeOK, NEW w \in Workers, Leave(w)
    PROVE  /\ WorkerInv(w)'
           /\ \A u \in Workers \ {w} : Bystander(u)
           /\ pc' \in [Workers -> PC] /\ doc' \in [Workers -> Documents \cup {None}]
           /\ at' \in [Workers -> Nat] /\ current' \in [Workers -> OrmObject \cup {None}]
           /\ DOMAIN tx' = Workers /\ \A u \in Workers : IsTable(tx'[u], Id, Row)
           /\ DOMAIN pg' = Workers /\ \A u \in Workers : IsTable(pg'[u], ComponentNames, Id)
           /\ DOMAIN tx'[w] = {}
<1>1. IsTable(EmptyTable, Id, Row) /\ IsTable(EmptyTable, ComponentNames, Id)
      /\ DOMAIN EmptyTable = {}
  BY EmptyIsTable
<1>2. /\ pc' \in [Workers -> PC] /\ doc' \in [Workers -> Documents \cup {None}]
      /\ at' \in [Workers -> Nat] /\ current' \in [Workers -> OrmObject \cup {None}]
  BY DEF TypeOK, Leave, Goto, PC
<1>3. /\ DOMAIN tx' = Workers /\ \A u \in Workers : IsTable(tx'[u], Id, Row)
      /\ DOMAIN pg' = Workers /\ \A u \in Workers : IsTable(pg'[u], ComponentNames, Id)
      /\ DOMAIN tx'[w] = {} /\ DOMAIN pg'[w] = {}
  BY <1>1 DEF TypeOK, Leave
<1>4. pc'[w] = "idle" /\ \A u \in Workers \ {w} : Bystander(u)
  BY DEF TypeOK, Leave, Goto, Bystander
<1>5. WorkerInv(w)'
  BY <1>3, <1>4 DEF WorkerInv, Located, OwnRows, CurrentRow, PgRows, PgCovers
<1>6. QED
  BY <1>2, <1>3, <1>4, <1>5

\* The bystanders of a step that touches neither rows nor transactions nor nodes.
LEMMA QuietStep ==
    ASSUME IInv, NEW w \in Workers, \A u \in Workers \ {w} : Bystander(u),
           UNCHANGED <<rows, nodes, next_id>>
    PROVE  \A u \in Workers \ {w} : WorkerInv(u)'
<1>1. Grows
  BY DEF IInv, TypeOK, Grows, Extends, SameComponent
<1>2. ASSUME NEW u \in Workers \ {w} PROVE WorkerInv(u)'
  <2>1. Agrees(u)
    BY DEF IInv, WorkerInv, OwnRows, Agrees
  <2>2. \A id \in DOMAIN tx[u] : id \in Nat
    BY DEF IInv, TypeOK, IsTable, Id
  <2>3. QED
    BY <1>1, <1>2, <2>1, <2>2, BystanderInv DEF IInv
<1>3. QED
  BY <1>2

\* The stores keep their invariant when only edges' typing is at stake.
LEMMA QuietStores ==
    ASSUME StoreInv, UNCHANGED <<rows, nodes, edges, owned, next_id>>,
           \A u \in Workers : DOMAIN tx'[u] \subseteq DOMAIN tx[u]
    PROVE  StoreInv'
<1>1. Allocated' /\ RowsAreMirrored' /\ EdgesStayInDocument'
  BY DEF StoreInv, Allocated, RowsAreMirrored, EdgesStayInDocument, SameComponent
<1>2. RowLocksExclude'
  BY DEF StoreInv, RowLocksExclude
<1>3. QED
  BY <1>1, <1>2 DEF StoreInv

----------------------------------------------------------------------------
(***************************************************************************)
(* One lemma for each action: it preserves IInv.                           *)
(***************************************************************************)

\* The call a worker begins with is inside its plan.
LEMMA PlanPositions ==
    ASSUME NEW d \in Documents
    PROVE  /\ Start(d) \in PC \ {"idle", "flush", "mirror"}
           /\ AfterComponents(d) \in PC \ {"idle", "select", "flush", "mirror"}
           /\ AfterRelationships(d) \in {"own", "commit"}
           /\ Start(d) = "select" => 1 \in 1..Len(Components[d])
           /\ Start(d) # "select" => DOMAIN Components[d] = {}
           /\ "link" \in {Start(d), AfterComponents(d)} => 1 \in 1..Len(Relationships[d])
           /\ "own" \in {Start(d), AfterComponents(d), AfterRelationships(d)} =>
                 Owner[d].team # None
<1>1. Components[d] \in Seq(ComponentPlan) /\ Relationships[d] \in Seq(RelationshipPlan)
  BY PlanAssumption
<1>2. /\ Components[d] # <<>> => 1 \in 1..Len(Components[d])
      /\ Components[d] = <<>> => DOMAIN Components[d] = {}
      /\ Relationships[d] # <<>> => 1 \in 1..Len(Relationships[d])
  BY <1>1
<1>3. QED
  BY <1>2 DEF Start, AfterComponents, AfterRelationships, PC

\* Begin: a document is ingested and a worker takes it up.
LEMMA BeginInv ==
    ASSUME IInv, NEW w \in Workers, NEW d \in Documents, Begin(w, d)
    PROVE  IInv'
<1>1. /\ pc'[w] = Start(d) /\ at'[w] = 1 /\ doc'[w] = d
      /\ tx' = tx /\ pg' = pg /\ current' = current
      /\ UNCHANGED <<rows, nodes, edges, owned, next_id>>
  BY DEF IInv, TypeOK, Begin, Goto, stores
<1>2. \A u \in Workers \ {w} : Bystander(u)
  BY DEF IInv, TypeOK, Begin, Goto, Bystander
<1>3. TypeOK'
  <2>1. Start(d) \in PC
    BY PlanPositions
  <2>2. QED
    BY <2>1 DEF IInv, TypeOK, Begin, Goto, stores
<1>4. StoreInv'
  BY <1>1, QuietStores DEF IInv
<1>5. WorkerInv(w)'
  <2>1. DOMAIN tx'[w] = {} /\ DOMAIN pg'[w] = {}
    BY <1>1 DEF IInv, WorkerInv, Located, Begin
  <2>2. Located(w)'
    BY <1>1, PlanPositions DEF Located
  <2>3. CurrentRow(w)'
    BY <1>1, PlanPositions DEF CurrentRow
  <2>4. PgCovers(w)'
    BY <1>1, <2>1, PlanPositions DEF PgCovers, Passed
  <2>5. QED
    BY <2>1, <2>2, <2>3, <2>4 DEF WorkerInv, OwnRows, PgRows
<1>6. QED
  BY <1>2, <1>1, <1>3, <1>4, <1>5, QuietStep DEF IInv

\* A worker that ends in an exception: SelectFindsMany and Abort.
LEMMA LeaveEarlyInv ==
    ASSUME IInv, NEW w \in Workers, Leave(w), aborted' = aborted + 1,
           UNCHANGED <<stores, next_id, started, acked>>
    PROVE  IInv'
<1>1. TypeOK /\ UNCHANGED <<rows, nodes, edges, owned, next_id>>
  BY DEF IInv, stores
<1>2. TypeOK'
  BY <1>1, LeaveInv DEF TypeOK
<1>3. StoreInv'
  <2>1. \A u \in Workers : DOMAIN tx'[u] \subseteq DOMAIN tx[u]
    BY <1>1, LeaveInv DEF Bystander
  <2>2. QED
    BY <1>1, <2>1, QuietStores DEF IInv
<1>4. QED
  BY <1>1, <1>2, <1>3, LeaveInv, QuietStep DEF IInv

\* SelectComponent: the ORM object at hand is the only visible row, or none.
LEMMA SelectComponentInv ==
    ASSUME IInv, NEW w \in Workers, SelectComponent(w)
    PROVE  IInv'
<1>1. /\ pc[w] = "select" /\ pc'[w] = "flush" /\ at' = at /\ doc' = doc
      /\ tx' = tx /\ pg' = pg
      /\ UNCHANGED <<rows, nodes, edges, owned, next_id, started, aborted, acked>>
  BY DEF IInv, TypeOK, SelectComponent, Goto, stores, counters
<1>2. \A u \in Workers \ {w} : Bystander(u)
  BY DEF IInv, TypeOK, SelectComponent, Goto, Bystander
<1>3. \/ current' = [current EXCEPT ![w] = None]
      \/ \E id \in Matches(w) : current' = [current EXCEPT ![w] = Loaded(w, id)]
  BY DEF SelectComponent
<1>4. IsTable(Visible(w), Id, Row)
  BY OverlayIsTable DEF IInv, TypeOK, Visible
<1>5. TypeOK'
  <2>1. current' \in [Workers -> OrmObject \cup {None}]
    BY <1>3, <1>4 DEF IInv, TypeOK, OrmObject, Row, IsTable, Matches, Loaded
  <2>2. pc' \in [Workers -> PC]
    BY DEF IInv, TypeOK, SelectComponent, Goto, PC
  <2>3. QED
    BY <1>1, <2>1, <2>2 DEF IInv, TypeOK
<1>6. StoreInv'
  BY <1>1, QuietStores DEF IInv
<1>7. WorkerInv(w)'
  <2>1. Located(w)'
    BY <1>1 DEF IInv, WorkerInv, Located
  <2>2. OwnRows(w)'
    BY <1>1 DEF IInv, WorkerInv, OwnRows, MirroredBy
  <2>3. CurrentRow(w)'
    <3>1. Visible(w)' = Visible(w) /\ ThisComponent(w)' = ThisComponent(w)
      BY <1>1 DEF Visible, ThisComponent, Overlay
    <3>2. CASE current' = [current EXCEPT ![w] = None]
      BY <1>1, <3>2 DEF IInv, TypeOK, CurrentRow
    <3>3. ASSUME NEW id \in Matches(w),
                 current' = [current EXCEPT ![w] = Loaded(w, id)]
          PROVE  CurrentRow(w)'
      <4>1. current'[w].id = id
        BY <3>3 DEF IInv, TypeOK, Loaded
      <4>2. QED
        BY <1>1, <3>1, <3>3, <4>1 DEF CurrentRow, IsRowOf, Matches
    <3>4. QED
      BY <1>3, <3>2, <3>3
  <2>4. PgRows(w)'
    BY <1>1 DEF IInv, WorkerInv, PgRows, IsRowOf, Visible, Overlay, MirroredBy
  <2>5. PgCovers(w)'
    BY <1>1 DEF IInv, WorkerInv, PgCovers, Passed
  <2>6. QED
    BY <2>1, <2>2, <2>3, <2>4, <2>5 DEF WorkerInv
<1>8. QED
  BY <1>1, <1>2, <1>5, <1>6, <1>7, QuietStep DEF IInv

\* What FlushInsert and FlushUpdate have in common: id is the row of the
\* component, and pg_components learns it.
Flushed(w, id) ==
    /\ pc[w] = "flush" /\ pc'[w] = "mirror"
    /\ at'[w] = at[w] /\ doc'[w] = doc[w] /\ current'[w] # None /\ current'[w].id = id
    /\ pg'[w] = Put(pg[w], ThisComponent(w).name, id)
    /\ DOMAIN tx[w] \subseteq DOMAIN tx'[w]
    /\ \A k \in DOMAIN tx[w] : k # id => tx'[w][k] = tx[w][k]
    /\ \A k \in DOMAIN tx'[w] : k # id => k \in DOMAIN tx[w]
    /\ UNCHANGED <<rows, nodes>> /\ next_id \in Nat /\ next_id' \in Nat /\ next_id <= next_id'
    /\ id \in DOMAIN tx'[w] \cup DOMAIN rows

\* A flush that leaves the row of the component visible keeps the worker's part.
LEMMA FlushedInv ==
    ASSUME IInv, NEW w \in Workers, NEW id \in Id, Flushed(w, id),
           id \in DOMAIN tx'[w] =>
               /\ id < next_id' /\ tx'[w][id].document = doc[w]
               /\ tx'[w][id].name = ThisComponent(w).name
               /\ id \in DOMAIN rows => SameComponent(tx'[w][id], rows[id])
               /\ id \in DOMAIN nodes => SameComponent(tx'[w][id], nodes[id]),
           id \notin DOMAIN tx'[w] =>
               rows[id].document = doc[w] /\ rows[id].name = ThisComponent(w).name,
           id \in DOMAIN tx[w] => SameComponent(tx'[w][id], tx[w][id])
    PROVE  WorkerInv(w)'
<1>1. Located(w)'
  BY DEF IInv, WorkerInv, Located, Flushed
<1>2. ASSUME NEW k, MirroredBy(w, k) PROVE MirroredBy(w, k)'
  BY <1>2 DEF MirroredBy, Flushed
<1>3. MirroredBy(w, id)'
  BY DEF MirroredBy, Flushed
<1>4. OwnRows(w)'
  <2>1. ASSUME NEW k \in DOMAIN tx'[w], k # id
        PROVE  /\ k < next_id' /\ tx'[w][k].document = doc'[w]
               /\ tx'[w][k].name \in PlanNames(doc'[w])
               /\ k \in DOMAIN rows' => SameComponent(tx'[w][k], rows'[k])
               /\ k \in DOMAIN nodes' => SameComponent(tx'[w][k], nodes'[k])
               /\ MirroredBy(w, k)'
    <3>1. k \in DOMAIN tx[w] /\ tx'[w][k] = tx[w][k] /\ k \in Nat
      BY <2>1 DEF Flushed, IInv, TypeOK, IsTable, Id
    <3>2. QED
      BY <1>2, <3>1 DEF IInv, WorkerInv, OwnRows, Flushed
  <2>2. ThisComponent(w).name \in PlanNames(doc[w])
    BY PlanTypes DEF IInv, WorkerInv, Located, Flushed, ThisComponent, PlanNames
  <2>3. QED
    BY <1>3, <2>1, <2>2 DEF OwnRows, Flushed
<1>5. /\ \A k \in DOMAIN Visible(w) : /\ k \in DOMAIN Visible(w)'
                                      /\ SameComponent(Visible(w)'[k], Visible(w)[k])
      /\ IsRowOf(w, id, ThisComponent(w).name)'
  <2>1. IsRowOf(w, id, ThisComponent(w).name)'
    <3>1. ThisComponent(w)' = ThisComponent(w)
      BY DEF ThisComponent, Flushed
    <3>2. QED
      BY <3>1 DEF IsRowOf, Visible, Overlay, Flushed
  <2>2. ASSUME NEW k \in DOMAIN Visible(w)
        PROVE  k \in DOMAIN Visible(w)' /\ SameComponent(Visible(w)'[k], Visible(w)[k])
    <3>1. k \in DOMAIN Visible(w)'
      BY <2>2 DEF Visible, Overlay, Flushed
    <3>2. CASE k # id
      BY <2>2, <3>2 DEF Visible, Overlay, Flushed, SameComponent
    <3>3. CASE k = id /\ id \in DOMAIN tx[w]
      BY <2>2, <3>3 DEF Visible, Overlay, Flushed, SameComponent
    <3>4. CASE k = id /\ id \notin DOMAIN tx[w]
      BY <2>2, <3>4 DEF Visible, Overlay, Flushed, SameComponent
    <3>5. QED
      BY <3>1, <3>2, <3>3, <3>4
  <2>3. QED
    BY <2>1, <2>2
<1>6. CurrentRow(w)'
  BY <1>5 DEF CurrentRow, Flushed
<1>7. PgRows(w)'
  <2>1. ASSUME NEW n \in DOMAIN pg'[w]
        PROVE  IsRowOf(w, pg[w][n], n)' /\ MirroredBy(w, pg[w][n])'
    <3>1. CASE n = ThisComponent(w).name
      <4>1. pg'[w][n] = id /\ ThisComponent(w)' = ThisComponent(w)
        BY <3>1 DEF Put, Flushed, ThisComponent
      <4>2. QED
        BY <1>3, <1>5, <3>1, <4>1 DEF IsRowOf, MirroredBy
    <3>2. CASE n # ThisComponent(w).name
      <4>1. n \in DOMAIN pg[w] /\ pg'[w][n] = pg[w][n]
        BY <2>1, <3>2 DEF Put, Flushed
      <4>2. IsRowOf(w, pg[w][n], n) /\ MirroredBy(w, pg[w][n])
        BY <4>1 DEF IInv, WorkerInv, PgRows
      <4>3. QED
        BY <1>5, <4>1, <4>2 DEF IsRowOf, SameComponent, MirroredBy, Flushed
    <3>3. QED
      BY <3>1, <3>2
  <2>2. QED
    BY <2>1 DEF PgRows
<1>8. PgCovers(w)'
  <2>1. at[w] \in 1..Len(Components[doc[w]]) /\ Len(Components[doc[w]]) \in Nat
    BY PlanTypes DEF IInv, WorkerInv, Located, Flushed
  <2>2. 1..at[w] = (1..(at[w] - 1)) \cup {at[w]}
    BY <2>1
  <2>3. pc[w] = "flush" /\ pc'[w] = "mirror" /\ at'[w] = at[w] /\ doc'[w] = doc[w]
    BY DEF Flushed
  <2>4. DOMAIN pg'[w] = DOMAIN pg[w] \cup {Components[doc[w]][at[w]].name}
    BY DEF Flushed, Put, ThisComponent
  <2>5. Passed(w) = 1..(at[w] - 1) /\ Passed(w)' = 1..at[w]
    BY <2>3 DEF Passed
  <2>6. PgCovers(w)
    BY DEF IInv, WorkerInv
  <2>7. QED
    BY <2>2, <2>3, <2>4, <2>5, <2>6 DEF PgCovers
<1>9. QED
  BY <1>1, <1>4, <1>6, <1>7, <1>8 DEF WorkerInv

\* A flush changes no store; only the writer's transaction grows, by one id.
LEMMA FlushStores ==
    ASSUME IInv, NEW w \in Workers, NEW id \in Id, Flushed(w, id),
           UNCHANGED <<edges, owned>>,
           \A u \in Workers \ {w} : Bystander(u) /\ id \notin DOMAIN tx[u]
    PROVE  StoreInv' /\ \A u \in Workers \ {w} : WorkerInv(u)'
<1>1. Grows
  BY DEF Flushed, Grows, Extends, SameComponent
<1>2. Allocated'
  BY DEF IInv, StoreInv, TypeOK, IsTable, Id, Allocated, Flushed
<1>3. RowsAreMirrored' /\ EdgesStayInDocument'
  BY DEF IInv, StoreInv, RowsAreMirrored, EdgesStayInDocument, SameComponent, Flushed
<1>4. RowLocksExclude'
  BY DEF IInv, StoreInv, RowLocksExclude, Bystander, Flushed
<1>5. ASSUME NEW u \in Workers \ {w} PROVE WorkerInv(u)'
  <2>1. Agrees(u) /\ \A k \in DOMAIN tx[u] : k \in Nat
    BY DEF IInv, TypeOK, IsTable, Id, WorkerInv, OwnRows, Agrees, Flushed
  <2>2. QED
    BY <1>1, <1>5, <2>1, BystanderInv DEF IInv
<1>6. QED
  BY <1>2, <1>3, <1>4, <1>5 DEF StoreInv

\* FlushInsert: the new row has an id nobody has seen.
LEMMA FlushInsertInv ==
    ASSUME IInv, NEW w \in Workers, FlushInsert(w)
    PROVE  IInv'
<1> DEFINE row == NewRow(w)
<1>1. /\ ThisComponent(w) \in ComponentPlan /\ doc[w] \in Documents
      /\ pc[w] = "flush" /\ next_id \in Nat
  BY PlanTypes DEF IInv, TypeOK, WorkerInv, Located, FlushInsert, ThisComponent
<1>2. row \in Row /\ row.document = doc[w] /\ row.name = ThisComponent(w).name
  BY <1>1 DEF Row, ComponentPlan, NewRow
<1>3. /\ \A u \in Workers : next_id \notin DOMAIN tx[u]
      /\ next_id \notin DOMAIN rows /\ next_id \notin DOMAIN nodes
  BY <1>1 DEF IInv, StoreInv, Allocated, WorkerInv, OwnRows
<1>4. /\ tx'[w] = Put(tx[w], next_id, row) /\ next_id' = next_id + 1
      /\ pg'[w] = Put(pg[w], ThisComponent(w).name, next_id)
      /\ current'[w] = NewObject(w) /\ current'[w].id = next_id /\ current'[w] \in OrmObject
      /\ UNCHANGED <<rows, nodes, edges, owned, started, aborted, acked, doc>>
  BY <1>1 DEF IInv, TypeOK, FlushInsert, stores, OrmObject, ComponentPlan, Id, NewObject
<1>5. \A u \in Workers \ {w} : Bystander(u)
  BY DEF IInv, TypeOK, FlushInsert, Goto, Bystander
<1>6. Flushed(w, next_id)
  <2>1. /\ pc'[w] = "mirror" /\ at'[w] = at[w] /\ doc' = doc
        /\ current'[w].id = next_id
    BY <1>4 DEF IInv, TypeOK, FlushInsert, Goto
  <2>2. current'[w] # None
    BY <1>4, PlanAssumption
  <2>3. QED
    BY <1>1, <1>4, <2>1, <2>2 DEF Flushed, Put
<1>7. TypeOK'
  <2>1. pc' \in [Workers -> PC] /\ at' \in [Workers -> Nat]
    BY DEF IInv, TypeOK, FlushInsert, Goto, PC
  <2>2. current' \in [Workers -> OrmObject \cup {None}]
    BY <1>4 DEF IInv, TypeOK, FlushInsert
  <2>3. DOMAIN tx' = Workers /\ \A u \in Workers : IsTable(tx'[u], Id, Row)
    BY <1>1, <1>2, <1>4, <1>5, PutIsTable DEF IInv, TypeOK, FlushInsert, Bystander, Id
  <2>4. DOMAIN pg' = Workers /\ \A u \in Workers : IsTable(pg'[u], ComponentNames, Id)
    BY <1>1, <1>4, <1>5, PutIsTable
    DEF IInv, TypeOK, FlushInsert, Bystander, Id, ComponentPlan
  <2>5. QED
    BY <1>4, <2>1, <2>2, <2>3, <2>4 DEF IInv, TypeOK
<1>8. WorkerInv(w)'
  BY <1>1, <1>2, <1>3, <1>4, <1>6, FlushedInv DEF Put, Id
<1>9. QED
  BY <1>1, <1>3, <1>4, <1>5, <1>6, <1>7, <1>8, FlushStores DEF IInv, Id

\* FlushUpdate: the row keeps its document and its name.
LEMMA FlushUpdateInv ==
    ASSUME IInv, NEW w \in Workers, FlushUpdate(w)
    PROVE  IInv'
<1> DEFINE id == current[w].id
<1> DEFINE now == Assigned(w)
<1> DEFINE row == [Visible(w)[id] EXCEPT !.description = now.description, !.chunk = now.chunk]
<1>1. /\ ThisComponent(w) \in ComponentPlan /\ doc[w] \in Documents
      /\ pc[w] = "flush" /\ current[w] \in OrmObject /\ id \in Id
      /\ IsRowOf(w, id, ThisComponent(w).name)
  BY PlanTypes DEF IInv, TypeOK, WorkerInv, Located, CurrentRow, FlushUpdate, ThisComponent,
                   OrmObject
<1>2. now \in OrmObject /\ now.id = id
  BY <1>1 DEF OrmObject, ComponentPlan, Assigned
<1>3. Visible(w)[id] \in Row
  BY <1>1, OverlayIsTable DEF IInv, TypeOK, Visible, IsRowOf, IsTable
<1>4. row \in Row /\ SameComponent(row, Visible(w)[id])
  BY <1>2, <1>3 DEF Row, SameComponent, OrmObject
<1>5. /\ \/ UNCHANGED tx
         \/ /\ \A u \in Workers \ {w} : id \notin DOMAIN tx[u]
            /\ tx' = [tx EXCEPT ![w] = Put(tx[w], id, row)]
      /\ pg'[w] = Put(pg[w], ThisComponent(w).name, id)
      /\ current'[w] = now /\ current'[w].id = id /\ current'[w] \in OrmObject
      /\ UNCHANGED <<rows, nodes, edges, owned, next_id, started, aborted, acked, doc>>
  BY <1>1, <1>2 DEF IInv, TypeOK, FlushUpdate, WaitsFor, stores, counters
<1>6. \A u \in Workers \ {w} : Bystander(u)
  BY DEF IInv, TypeOK, FlushUpdate, Goto, Bystander
<1>7. Flushed(w, id)
  <2>1. /\ pc'[w] = "mirror" /\ at'[w] = at[w] /\ doc' = doc
        /\ current'[w].id = id /\ current'[w] # None
    BY <1>5, PlanAssumption DEF IInv, TypeOK, FlushUpdate, Goto
  <2>2. id \in DOMAIN tx[w] \cup DOMAIN rows
    BY <1>1 DEF IsRowOf, Visible, Overlay
  <2>3. QED
    BY <1>1, <1>5, <2>1, <2>2 DEF Flushed, Put, IInv, TypeOK
<1>8. TypeOK'
  <2>1. pc' \in [Workers -> PC] /\ at' \in [Workers -> Nat]
    BY DEF IInv, TypeOK, FlushUpdate, Goto, PC
  <2>2. current' \in [Workers -> OrmObject \cup {None}]
    BY <1>5 DEF IInv, TypeOK, FlushUpdate
  <2>3. DOMAIN tx' = Workers /\ \A u \in Workers : IsTable(tx'[u], Id, Row)
    BY <1>1, <1>4, <1>5, <1>6, PutIsTable DEF IInv, TypeOK, Bystander
  <2>4. DOMAIN pg' = Workers /\ \A u \in Workers : IsTable(pg'[u], ComponentNames, Id)
    BY <1>1, <1>5, <1>6, PutIsTable
    DEF IInv, TypeOK, FlushUpdate, Bystander, ComponentPlan
  <2>5. QED
    BY <1>5, <2>1, <2>2, <2>3, <2>4 DEF IInv, TypeOK
<1>9. /\ Visible(w)[id].document = doc[w] /\ Visible(w)[id].name = ThisComponent(w).name
      /\ id < next_id
      /\ id \in DOMAIN rows => SameComponent(Visible(w)[id], rows[id])
      /\ id \in DOMAIN nodes => SameComponent(Visible(w)[id], nodes[id])
      /\ id \in DOMAIN tx[w] => Visible(w)[id] = tx[w][id]
      /\ id \notin DOMAIN tx[w] => id \in DOMAIN rows /\ Visible(w)[id] = rows[id]
  BY <1>1 DEF IsRowOf, Visible, Overlay, IInv, StoreInv, Allocated, RowsAreMirrored,
              WorkerInv, OwnRows, SameComponent
<1>10. WorkerInv(w)'
  <2>1. CASE UNCHANGED tx
    BY <1>1, <1>5, <1>7, <1>9, <2>1, FlushedInv DEF SameComponent
  <2>2. CASE tx' = [tx EXCEPT ![w] = Put(tx[w], id, row)]
    <3>1. DOMAIN tx'[w] = DOMAIN tx[w] \cup {id} /\ tx'[w][id] = row
      BY <2>2 DEF IInv, TypeOK, Put
    <3>2. QED
      BY <1>1, <1>4, <1>5, <1>7, <1>9, <3>1, FlushedInv DEF SameComponent
  <2>3. QED
    BY <1>5, <2>1, <2>2
<1>11. StoreInv' /\ \A u \in Workers \ {w} : WorkerInv(u)'
  <2>1. CASE \A u \in Workers \ {w} : id \notin DOMAIN tx[u]
    BY <1>1, <1>5, <1>6, <1>7, <2>1, FlushStores
  <2>2. CASE UNCHANGED tx
    <3>1. StoreInv'
      BY <1>5, <2>2, QuietStores DEF IInv
    <3>2. QED
      BY <1>5, <1>6, <3>1, QuietStep
  <2>3. QED
    BY <1>5, <2>1, <2>2
<1>12. QED
  BY <1>8, <1>10, <1>11 DEF IInv

\* A row visible to a worker and the node of the same id are one component.
LEMMA VisibleMatchesNode ==
    ASSUME IInv, NEW w \in Workers, NEW id \in DOMAIN Visible(w)
    PROVE  /\ id \in DOMAIN nodes => SameComponent(Visible(w)[id], nodes[id])
           /\ id \in DOMAIN rows => SameComponent(Visible(w)[id], rows[id])
           /\ id < next_id
           /\ \A u \in Workers : id \in DOMAIN tx[u] => SameComponent(Visible(w)[id], tx[u][id])
<1>1. CASE id \in DOMAIN tx[w]
  <2>1. Visible(w)[id] = tx[w][id]
    BY <1>1 DEF Visible, Overlay
  <2>2. QED
    BY <1>1, <2>1 DEF IInv, StoreInv, RowLocksExclude, WorkerInv, OwnRows, SameComponent
<1>2. CASE id \notin DOMAIN tx[w]
  <2>1. id \in DOMAIN rows /\ Visible(w)[id] = rows[id]
    BY <1>2 DEF Visible, Overlay
  <2>2. QED
    BY <2>1 DEF IInv, StoreInv, Allocated, RowsAreMirrored, WorkerInv, OwnRows, SameComponent
<1>3. QED
  BY <1>1, <1>2

\* A node put under the id of a visible row, for its component, disturbs no
\* other worker and keeps the two stores in step.
LEMMA MirrorStores ==
    ASSUME IInv, NEW w \in Workers, NEW id \in DOMAIN Visible(w), NEW node \in Node,
           SameComponent(node, Visible(w)[id]), nodes' = Put(nodes, id, node),
           UNCHANGED <<rows, edges, owned, next_id, tx>>,
           \A u \in Workers \ {w} : Bystander(u)
    PROVE  /\ StoreInv' /\ \A u \in Workers \ {w} : WorkerInv(u)'
           /\ Extends(nodes', nodes)
<1>1. /\ DOMAIN nodes' = DOMAIN nodes \cup {id} /\ nodes'[id] = node
      /\ \A k \in DOMAIN nodes : k # id => nodes'[k] = nodes[k]
  BY DEF Put
<1>2. /\ id \in DOMAIN nodes => SameComponent(node, nodes[id])
      /\ id \in DOMAIN rows => SameComponent(node, rows[id])
      /\ id < next_id
      /\ \A u \in Workers : id \in DOMAIN tx[u] => SameComponent(node, tx[u][id])
  BY VisibleMatchesNode DEF SameComponent
<1>3. Extends(nodes', nodes)
  BY <1>1, <1>2 DEF Extends, SameComponent
<1>4. Grows
  BY <1>3 DEF IInv, TypeOK, Grows, Extends, SameComponent
<1>5. Allocated' /\ RowsAreMirrored'
  BY <1>1, <1>2 DEF IInv, StoreInv, Allocated, RowsAreMirrored, SameComponent
<1>6. EdgesStayInDocument'
  BY <1>3 DEF IInv, StoreInv, EdgesStayInDocument, Extends, SameComponent
<1>7. RowLocksExclude'
  BY DEF IInv, StoreInv, RowLocksExclude
<1>8. ASSUME NEW u \in Workers \ {w} PROVE WorkerInv(u)'
  <2>1. Agrees(u)
    BY <1>1, <1>2 DEF IInv, WorkerInv, OwnRows, Agrees, SameComponent
  <2>2. \A k \in DOMAIN tx[u] : k \in Nat
    BY DEF IInv, TypeOK, IsTable, Id
  <2>3. QED
    BY <1>4, <1>8, <2>1, <2>2, BystanderInv DEF IInv
<1>9. QED
  BY <1>3, <1>5, <1>6, <1>7, <1>8 DEF StoreInv

\* MirrorComponent: the row at hand gets its node; on to the next component.
LEMMA MirrorComponentInv ==
    ASSUME IInv, NEW w \in Workers, MirrorComponent(w)
    PROVE  IInv'
<1> DEFINE id == current[w].id
<1> DEFINE node == [document |-> doc[w], name |-> ThisComponent(w).name,
                    chunk |-> current[w].chunk]
<1> DEFINE more == at[w] < Len(Components[doc[w]])
<1>1. /\ ThisComponent(w) \in ComponentPlan /\ doc[w] \in Documents
      /\ pc[w] = "mirror" /\ current[w] \in OrmObject
      /\ at[w] \in 1..Len(Components[doc[w]]) /\ Len(Components[doc[w]]) \in Nat
      /\ DOMAIN Components[doc[w]] = 1..Len(Components[doc[w]])
      /\ IsRowOf(w, id, ThisComponent(w).name)
  BY PlanTypes DEF IInv, TypeOK, WorkerInv, Located, CurrentRow, MirrorComponent, ThisComponent
<1>2. /\ node \in Node /\ id \in Id /\ id \in DOMAIN Visible(w)
      /\ SameComponent(node, Visible(w)[id])
  BY <1>1 DEF Node, OrmObject, ComponentPlan, IsRowOf, SameComponent
<1>3. /\ nodes' = Put(nodes, id, node)
      /\ UNCHANGED <<rows, edges, owned, next_id, started, aborted, acked, doc, tx, pg>>
      /\ current' = [current EXCEPT ![w] = None]
      /\ more => pc'[w] = "select" /\ at'[w] = at[w] + 1
      /\ ~more => pc'[w] = AfterComponents(doc[w]) /\ at'[w] = 1
  BY DEF IInv, TypeOK, MirrorComponent, Goto, counters
<1>4. \A u \in Workers \ {w} : Bystander(u)
  BY DEF IInv, TypeOK, MirrorComponent, Goto, Bystander
<1>5. StoreInv' /\ (\A u \in Workers \ {w} : WorkerInv(u)') /\ Extends(nodes', nodes)
  BY <1>2, <1>3, <1>4, MirrorStores
<1>6. TypeOK'
  <2>1. AfterComponents(doc[w]) \in PC
    BY <1>1, PlanPositions
  <2>2. /\ pc' \in [Workers -> PC] /\ at' \in [Workers -> Nat]
        /\ current' \in [Workers -> OrmObject \cup {None}]
    <3>1. /\ pc \in [Workers -> PC] /\ at \in [Workers -> Nat] /\ "select" \in PC
          /\ current \in [Workers -> OrmObject \cup {None}] /\ at[w] + 1 \in Nat
      BY DEF IInv, TypeOK, PC
    <3>2. \/ pc' = [pc EXCEPT ![w] = "select"] /\ at' = [at EXCEPT ![w] = at[w] + 1]
          \/ pc' = [pc EXCEPT ![w] = AfterComponents(doc[w])] /\ at' = [at EXCEPT ![w] = 1]
      BY DEF MirrorComponent, Goto
    <3> QED  BY <1>3, <2>1, <3>1, <3>2
  <2>3. IsTable(nodes', Id, Node)
    BY <1>2, <1>3, PutIsTable DEF IInv, TypeOK
  <2>4. QED
    BY <1>3, <2>2, <2>3 DEF IInv, TypeOK
<1>7. WorkerInv(w)'
  <2>1. Located(w)'
    BY <1>1, <1>3, PlanPositions DEF Located
  <2>2. /\ DOMAIN nodes \subseteq DOMAIN nodes' /\ id \in DOMAIN nodes'
        /\ \A k : MirroredBy(w, k) => k \in DOMAIN nodes'
        /\ \A k \in DOMAIN tx[w] : k \in DOMAIN nodes' => SameComponent(tx[w][k], nodes'[k])
    BY <1>2, <1>3, VisibleMatchesNode
    DEF Put, MirroredBy, IInv, WorkerInv, OwnRows, SameComponent
  <2>3. OwnRows(w)'
    BY <1>3, <2>2 DEF IInv, WorkerInv, OwnRows, MirroredBy
  <2>4. CurrentRow(w)'
    BY <1>1, <1>3, PlanPositions DEF CurrentRow
  <2>5. PgRows(w)'
    <3>1. Visible(w)' = Visible(w)
      BY <1>3 DEF Visible, Overlay
    <3>2. ASSUME NEW n \in DOMAIN pg[w]
          PROVE  IsRowOf(w, pg[w][n], n)' /\ MirroredBy(w, pg[w][n])'
      <4>1. IsRowOf(w, pg[w][n], n) /\ MirroredBy(w, pg[w][n])
        BY <3>2 DEF IInv, WorkerInv, PgRows
      <4> QED  BY <1>3, <2>2, <3>1, <4>1 DEF IsRowOf, MirroredBy
    <3> QED  BY <1>3, <3>2 DEF PgRows
  <2>6. PgCovers(w)'
    <3>1. CASE more
      <4>1. 1..(at'[w] - 1) = 1..at[w]
        BY <1>1, <1>3, <3>1
      <4>2. Passed(w)' = Passed(w)
        BY <1>1, <1>3, <3>1, <4>1 DEF Passed
      <4>3. QED
        BY <1>1, <1>3, <4>2 DEF IInv, WorkerInv, PgCovers
    <3>2. CASE ~more
      <4>1. at[w] = Len(Components[doc[w]])
        BY <1>1, <3>2
      <4>2. Passed(w) = DOMAIN Components[doc[w]]
        BY <1>1, <4>1 DEF Passed
      <4>3. Passed(w)' = DOMAIN Components[doc[w]]
        BY <1>1, <1>3, <3>2, PlanPositions DEF Passed
      <4>4. QED
        BY <1>1, <1>3, <4>2, <4>3 DEF IInv, WorkerInv, PgCovers
    <3>3. QED
      BY <3>1, <3>2
  <2>7. QED
    BY <2>1, <2>3, <2>4, <2>5, <2>6 DEF WorkerInv
<1>8. QED
  BY <1>5, <1>6, <1>7 DEF IInv

\* Past its components a worker's part only depends on its position.
LEMMA PastComponents ==
    ASSUME IInv, NEW w \in Workers,
           {pc[w], pc'[w]} \subseteq {"link", "own", "commit"}, Located(w)',
           UNCHANGED <<rows, nodes, next_id, doc, tx, pg>>
    PROVE  WorkerInv(w)'
<1>1. OwnRows(w)'
  BY DEF IInv, WorkerInv, OwnRows, MirroredBy
<1>2. CurrentRow(w)'
  BY DEF CurrentRow
<1>3. PgRows(w)'
  BY DEF IInv, WorkerInv, PgRows, IsRowOf, Visible, Overlay, MirroredBy
<1>4. PgCovers(w)'
  BY DEF IInv, WorkerInv, PgCovers, Passed
<1>5. QED
  BY <1>1, <1>2, <1>3, <1>4 DEF WorkerInv

\* An id in pg_components of a worker past its components has a node, and the
\* node is of the worker's document.
LEMMA PgNodes ==
    ASSUME IInv, NEW w \in Workers, pc[w] \in {"link", "own", "commit"},
           NEW n \in DOMAIN pg[w]
    PROVE  /\ pg[w][n] \in Id /\ pg[w][n] \in DOMAIN nodes
           /\ nodes[pg[w][n]].document = doc[w]
<1>1. /\ IsRowOf(w, pg[w][n], n) /\ MirroredBy(w, pg[w][n]) /\ pg[w][n] \in Id
  BY DEF IInv, TypeOK, IsTable, WorkerInv, PgRows
<1>2. pg[w][n] \in DOMAIN nodes
  BY <1>1 DEF MirroredBy
<1>3. QED
  BY <1>1, <1>2, VisibleMatchesNode DEF IsRowOf, SameComponent

\* LinkRelationship: both ends are nodes of the worker's document.
LEMMA LinkRelationshipInv ==
    ASSUME IInv, NEW w \in Workers, LinkRelationship(w)
    PROVE  IInv'
<1> DEFINE rel == ThisRelationship(w)
<1> DEFINE a == pg[w][rel.source]
<1> DEFINE b == pg[w][rel.target]
<1> DEFINE edge == [document |-> doc[w], chunk |-> rel.chunk]
<1>1. /\ rel \in RelationshipPlan /\ doc[w] \in Documents /\ pc[w] = "link"
      /\ at[w] \in 1..Len(Relationships[doc[w]]) /\ Len(Relationships[doc[w]]) \in Nat
  BY PlanTypes DEF IInv, TypeOK, WorkerInv, Located, LinkRelationship, ThisRelationship
<1>2. /\ UNCHANGED <<rows, nodes, owned, next_id, started, aborted, acked, doc, current, tx, pg>>
      /\ \/ pc'[w] = "link" /\ at'[w] = at[w] + 1 /\ at[w] < Len(Relationships[doc[w]])
         \/ pc'[w] = AfterRelationships(doc[w]) /\ at'[w] = 1
      /\ \/ UNCHANGED edges
         \/ /\ {rel.source, rel.target} \subseteq DOMAIN pg[w]
            /\ edges' = Put(edges, <<rel.kind, a, b>>, edge)
  BY DEF IInv, TypeOK, LinkRelationship, Goto, counters
<1>3. \A u \in Workers \ {w} : Bystander(u)
  BY DEF IInv, TypeOK, LinkRelationship, Goto, Bystander
<1>4. ASSUME {rel.source, rel.target} \subseteq DOMAIN pg[w]
      PROVE  /\ a \in Id /\ a \in DOMAIN nodes /\ nodes[a].document = doc[w]
             /\ b \in Id /\ b \in DOMAIN nodes /\ nodes[b].document = doc[w]
  BY <1>1, <1>4, PgNodes
<1>5. TypeOK'
  <2>1. /\ pc' \in [Workers -> PC] /\ at' \in [Workers -> Nat]
    <3>1. AfterRelationships(doc[w]) \in PC
      BY DEF AfterRelationships, PC
    <3>2. \/ pc' = [pc EXCEPT ![w] = "link"] /\ at' = [at EXCEPT ![w] = at[w] + 1]
          \/ pc' = [pc EXCEPT ![w] = AfterRelationships(doc[w])] /\ at' = [at EXCEPT ![w] = 1]
      BY DEF LinkRelationship, Goto
    <3>3. QED
      BY <3>1, <3>2 DEF IInv, TypeOK, PC
  <2>2. IsTable(edges', EdgeKey, Evidence)
    <3>1. ASSUME {rel.source, rel.target} \subseteq DOMAIN pg[w]
          PROVE  <<rel.kind, a, b>> \in EdgeKey /\ edge \in Evidence
      BY <1>1, <1>4, <3>1 DEF EdgeKey, Evidence, RelationshipPlan
    <3>2. QED
      BY <1>2, <3>1, PutIsTable DEF IInv, TypeOK
  <2>3. QED
    BY <1>2, <2>1, <2>2 DEF IInv, TypeOK
<1>6. StoreInv'
  <2>1. EdgesStayInDocument'
    <3>1. CASE UNCHANGED edges
      BY <1>2, <3>1 DEF IInv, StoreInv, EdgesStayInDocument
    <3>2. ASSUME {rel.source, rel.target} \subseteq DOMAIN pg[w],
                 edges' = Put(edges, <<rel.kind, a, b>>, edge)
          PROVE  EdgesStayInDocument'
      <4> DEFINE key == <<rel.kind, a, b>>
      <4>1. edge.document = doc[w] /\ key[2] = a /\ key[3] = b
        OBVIOUS
      <4>2. edges' = Put(edges, key, edge)
        BY <3>2
      <4>3. EdgesStayInDocument
        BY DEF IInv, StoreInv
      <4> HIDE DEF edge, key
      <4>4. ASSUME NEW k \in DOMAIN edges'
            PROVE  \/ k = key /\ edges'[k] = edge
                   \/ k \in DOMAIN edges /\ edges'[k] = edges[k]
        BY <4>2, <4>4 DEF Put
      <4> QED  BY <1>2, <1>4, <3>2, <4>1, <4>3, <4>4 DEF EdgesStayInDocument
    <3>3. QED
      BY <1>2, <3>1, <3>2
  <2>2. QED
    BY <1>2, <2>1
    DEF IInv, StoreInv, Allocated, RowsAreMirrored, RowLocksExclude, SameComponent
<1>7. WorkerInv(w)'
  <2>1. Located(w)' /\ pc'[w] \in {"link", "own", "commit"}
    BY <1>1, <1>2 DEF Located, AfterRelationships
  <2>2. QED
    BY <1>1, <1>2, <2>1, PastComponents
<1>8. QED
  BY <1>2, <1>3, <1>5, <1>6, <1>7, QuietStep DEF IInv

\* LinkOwner: the owned component is a node of the worker's document.
LEMMA LinkOwnerInv ==
    ASSUME IInv, NEW w \in Workers, LinkOwner(w)
    PROVE  IInv'
<1> DEFINE plan == Owner[doc[w]]
<1> DEFINE c == pg[w][plan.component]
<1> DEFINE edge == [document |-> doc[w], chunk |-> plan.chunk]
<1>1. /\ plan \in OwnerPlan /\ doc[w] \in Documents /\ pc[w] = "own"
      /\ plan.team # None /\ plan.component \in PlanNames(doc[w])
  BY PlanTypes, PlanAssumption DEF IInv, WorkerInv, Located, LinkOwner
<1>2. /\ UNCHANGED <<rows, nodes, edges, next_id, started, aborted, acked, doc, current, tx, pg>>
      /\ pc'[w] = "commit" /\ at'[w] = 1
      /\ UNCHANGED owned \/ owned' = Put(owned, <<c, plan.team>>, edge)
  BY DEF IInv, TypeOK, LinkOwner, Goto, counters
<1>3. \A u \in Workers \ {w} : Bystander(u)
  BY DEF IInv, TypeOK, LinkOwner, Goto, Bystander
<1>4. c \in Id /\ c \in DOMAIN nodes /\ nodes[c].document = doc[w]
  <2>1. plan.component \in DOMAIN pg[w]
    <3>1. PgCovers(w)
      BY DEF IInv, WorkerInv
    <3>2. Passed(w) = DOMAIN Components[doc[w]]
      BY <1>1 DEF Passed
    <3>3. PICK i \in DOMAIN Components[doc[w]] : Components[doc[w]][i].name = plan.component
      BY <1>1 DEF PlanNames
    <3> QED  BY <1>1, <3>1, <3>2, <3>3 DEF PgCovers
  <2>2. QED
    BY <1>1, <2>1, PgNodes
<1>5. TypeOK'
  <2>1. pc' \in [Workers -> PC] /\ at' \in [Workers -> Nat]
    BY DEF IInv, TypeOK, LinkOwner, Goto, PC
  <2>2. <<c, plan.team>> \in OwnerKey /\ edge \in Evidence
    BY <1>1, <1>4 DEF OwnerKey, Evidence, OwnerPlan
  <2>3. IsTable(owned', OwnerKey, Evidence)
    BY <1>2, <2>2, PutIsTable DEF IInv, TypeOK
  <2>4. QED
    BY <1>2, <2>1, <2>3 DEF IInv, TypeOK
<1>6. StoreInv'
  <2>1. EdgesStayInDocument'
    <3>1. EdgesStayInDocument
      BY DEF IInv, StoreInv
    <3>2. CASE UNCHANGED owned
      BY <1>2, <3>1, <3>2 DEF EdgesStayInDocument
    <3>3. ASSUME owned' = Put(owned, <<c, plan.team>>, edge)
          PROVE  EdgesStayInDocument'
      <4> DEFINE key == <<c, plan.team>>
      <4>1. edge.document = doc[w] /\ key[1] = c
        OBVIOUS
      <4>2. owned' = Put(owned, key, edge)
        BY <3>3
      <4> HIDE DEF edge, key
      <4>3. ASSUME NEW k \in DOMAIN owned'
            PROVE  \/ k = key /\ owned'[k] = edge
                   \/ k \in DOMAIN owned /\ owned'[k] = owned[k]
        BY <4>2, <4>3 DEF Put
      <4> QED  BY <1>2, <1>4, <3>1, <4>1, <4>3 DEF EdgesStayInDocument
    <3> QED  BY <1>2, <3>2, <3>3
  <2>2. QED
    BY <1>2, <2>1
    DEF IInv, StoreInv, Allocated, RowsAreMirrored, RowLocksExclude, SameComponent
<1>7. WorkerInv(w)'
  <2>1. Located(w)'
    BY <1>1, <1>2 DEF Located
  <2>2. QED
    BY <1>1, <1>2, <2>1, PastComponents
<1>8. QED
  BY <1>2, <1>3, <1>5, <1>6, <1>7, QuietStep DEF IInv

\* Publishing the transaction of a worker that is done with its plan and
\* leaving: Commit and CommitUnacknowledged.
LEMMA CommitRowsInv ==
    ASSUME IInv, NEW w \in Workers, pc[w] = "commit", Leave(w),
           rows' = Overlay(rows, tx[w]), acked' \subseteq Documents, aborted' \in Nat,
           UNCHANGED <<nodes, edges, owned, next_id, started>>
    PROVE  IInv'
<1>1. /\ DOMAIN rows' = DOMAIN rows \cup DOMAIN tx[w]
      /\ \A id \in DOMAIN tx[w] : rows'[id] = tx[w][id]
      /\ \A id \in DOMAIN rows : id \notin DOMAIN tx[w] => rows'[id] = rows[id]
  BY DEF Overlay
<1>2. \A u \in Workers \ {w} : Bystander(u)
  BY LeaveInv DEF IInv
<1>3. \A id \in DOMAIN tx[w] : id \in DOMAIN nodes
  BY DEF IInv, WorkerInv, OwnRows, MirroredBy
<1>4. TypeOK'
  <2>1. IsTable(rows', Id, Row)
    BY OverlayIsTable DEF IInv, TypeOK
  <2>2. QED
    BY <2>1, LeaveInv DEF IInv, TypeOK
<1>5. Grows
  BY <1>1 DEF IInv, TypeOK, WorkerInv, OwnRows, Grows, Extends, SameComponent
<1>6. StoreInv'
  <2>1. Allocated'
    BY <1>1 DEF IInv, StoreInv, Allocated, WorkerInv, OwnRows
  <2>2. RowsAreMirrored'
    BY <1>1, <1>3 DEF IInv, StoreInv, RowsAreMirrored, WorkerInv, OwnRows
  <2>3. RowLocksExclude'
    BY <1>2, LeaveInv DEF IInv, StoreInv, RowLocksExclude, Bystander
  <2>4. EdgesStayInDocument'
    BY DEF IInv, StoreInv, EdgesStayInDocument
  <2>5. QED
    BY <2>1, <2>2, <2>3, <2>4 DEF StoreInv
<1>7. ASSUME NEW u \in Workers \ {w} PROVE WorkerInv(u)'
  <2>1. \A id \in DOMAIN tx[u] : id \notin DOMAIN tx[w]
    BY <1>7 DEF IInv, StoreInv, RowLocksExclude
  <2>2. Agrees(u)
    BY <1>1, <2>1 DEF IInv, WorkerInv, OwnRows, Agrees
  <2>3. \A id \in DOMAIN tx[u] : id \in Nat
    BY DEF IInv, TypeOK, IsTable, Id
  <2>4. QED
    BY <1>2, <1>5, <1>7, <2>2, <2>3, BystanderInv DEF IInv
<1>8. QED
  BY <1>4, <1>6, <1>7, LeaveInv DEF IInv

----------------------------------------------------------------------------
(***************************************************************************)
(* The theorems.                                                           *)
(***************************************************************************)

\* The initial state satisfies the invariant: all tables are empty.
LEMMA InitInv == Init => IInv
<1> SUFFICES ASSUME Init PROVE IInv
  OBVIOUS
<1>1. DOMAIN EmptyTable = {} /\ \A Key, Value : IsTable(EmptyTable, Key, Value)
  BY EmptyIsTable
<1>2. TypeOK
  BY <1>1, PlanAssumption DEF Init, TypeOK, PC
<1>3. StoreInv
  BY <1>1 DEF Init, StoreInv, Allocated, RowsAreMirrored, RowLocksExclude, EdgesStayInDocument
<1>4. \A w \in Workers : WorkerInv(w)
  BY <1>1 DEF Init, WorkerInv, Located, OwnRows, CurrentRow, PgRows, PgCovers
<1>5. QED
  BY <1>2, <1>3, <1>4 DEF IInv

\* Every step preserves the invariant.
LEMMA NextInv == IInv /\ [Next]_vars => IInv'
<1> SUFFICES ASSUME IInv, [Next]_vars PROVE IInv'
  OBVIOUS
<1>1. ASSUME NEW w \in Workers, NEW d \in Documents, Begin(w, d) PROVE IInv'
  BY <1>1, BeginInv
<1>2. ASSUME NEW w \in Workers, SelectComponent(w) PROVE IInv'
  BY <1>2, SelectComponentInv
<1>3. ASSUME NEW w \in Workers, SelectFindsMany(w) PROVE IInv'
  BY <1>3, LeaveEarlyInv DEF SelectFindsMany
<1>4. ASSUME NEW w \in Workers, FlushInsert(w) PROVE IInv'
  BY <1>4, FlushInsertInv
<1>5. ASSUME NEW w \in Workers, FlushUpdate(w) PROVE IInv'
  BY <1>5, FlushUpdateInv
<1>6. ASSUME NEW w \in Workers, MirrorComponent(w) PROVE IInv'
  BY <1>6, MirrorComponentInv
<1>7. ASSUME NEW w \in Workers, LinkRelationship(w) PROVE IInv'
  BY <1>7, LinkRelationshipInv
<1>8. ASSUME NEW w \in Workers, LinkOwner(w) PROVE IInv'
  BY <1>8, LinkOwnerInv
<1>9. ASSUME NEW w \in Workers, Commit(w) PROVE IInv'
  <2>1. doc[w] \in Documents
    BY <1>9 DEF IInv, WorkerInv, Located, Commit
  <2>2. acked' \subseteq Documents /\ aborted' \in Nat
    BY <1>9, <2>1 DEF IInv, TypeOK, Commit
  <2>3. QED
    BY <1>9, <2>2, CommitRowsInv DEF Commit
<1>10. ASSUME NEW w \in Workers, CommitUnacknowledged(w) PROVE IInv'
  <2>1. acked' \subseteq Documents /\ aborted' \in Nat
    BY <1>10 DEF IInv, TypeOK, CommitUnacknowledged
  <2>2. QED
    BY <1>10, <2>1, CommitRowsInv DEF CommitUnacknowledged
<1>11. ASSUME NEW w \in Workers, Abort(w) PROVE IInv'
  BY <1>11, LeaveEarlyInv DEF Abort
<1>12. CASE UNCHANGED vars
  <2>1. \A u \in Workers : Bystander(u)
    BY <1>12 DEF vars, Bystander
  <2>2. TypeOK'
    BY <1>12 DEF IInv, TypeOK, vars
  <2>3. StoreInv'
    BY <1>12, QuietStores DEF IInv, vars
  <2>4. \A u \in Workers : WorkerInv(u)'
    <3>1. Grows /\ \A u \in Workers : Agrees(u) /\ \A id \in DOMAIN tx[u] : id \in Nat
      BY <1>12 DEF IInv, TypeOK, IsTable, Id, Grows, Extends, SameComponent, WorkerInv,
                   OwnRows, Agrees, vars
    <3>2. QED
      BY <2>1, <3>1, BystanderInv DEF IInv
  <2>5. QED
    BY <2>2, <2>3, <2>4 DEF IInv
<1>13. QED
  BY <1>1, <1>2, <1>3, <1>4, <1>5, <1>6, <1>7, <1>8, <1>9, <1>10, <1>11, <1>12
  DEF Next, Step

\* The invariant holds of every reachable state.
THEOREM Invariance == Spec => []IInv
BY InitInv, NextInv, PTL DEF Spec

\* Every variable keeps its type, for any documents, plans and workers.
THEOREM TypeCorrect == Spec => []TypeOK
<1>1. IInv => TypeOK
  BY DEF IInv
<1>2. QED
  BY <1>1, Invariance, PTL

\* An edge never joins components of two documents, nor leaves the document
\* it cites (upsert_graph_relationship and _upsert_graph_owner).
THEOREM EdgesStay == Spec => []EdgesStayInDocument
<1>1. IInv => EdgesStayInDocument
  BY DEF IInv, StoreInv
<1>2. QED
  BY <1>1, Invariance, PTL

\* A committed component has its node (the MERGE comes before the commit),
\* whatever aborts and interleavings came before.
THEOREM Mirrored == Spec => []RowsAreMirrored
<1>1. IInv => RowsAreMirrored
  BY DEF IInv, StoreInv
<1>2. QED
  BY <1>1, Invariance, PTL

----------------------------------------------------------------------------
(***************************************************************************)
(* The refinement.                                                         *)
(***************************************************************************)

\* The commit shows the reader exactly the document's components.
LEMMA CommitPublishes ==
    ASSUME IInv, NEW w \in Workers, pc[w] = "commit", rows' = Overlay(rows, tx[w])
    PROVE  doc[w] \in Documents
           /\ Catalogued' = Catalogued \cup ({doc[w]} \X PlanNames(doc[w]))
<1>1. doc[w] \in Documents
  BY DEF IInv, WorkerInv, Located
<1>2. /\ DOMAIN rows' = DOMAIN rows \cup DOMAIN tx[w]
      /\ \A id \in DOMAIN tx[w] :
            /\ rows'[id].document = doc[w] /\ rows'[id].name \in PlanNames(doc[w])
      /\ \A id \in DOMAIN rows :
            /\ rows'[id].document = rows[id].document /\ rows'[id].name = rows[id].name
  BY DEF Overlay, IInv, WorkerInv, OwnRows, SameComponent
<1>3. ASSUME NEW n \in PlanNames(doc[w])
      PROVE  \E id \in DOMAIN rows' : rows'[id].document = doc[w] /\ rows'[id].name = n
  <2>1. PICK i \in DOMAIN Components[doc[w]] : n = Components[doc[w]][i].name
    BY <1>3 DEF PlanNames
  <2>2. n \in DOMAIN pg[w]
    BY <2>1 DEF IInv, WorkerInv, PgCovers, Passed
  <2>3. IsRowOf(w, pg[w][n], n)
    BY <2>2 DEF IInv, WorkerInv, PgRows
  <2>4. QED
    BY <2>3 DEF IsRowOf, Visible
<1>4. Catalogued' \subseteq Catalogued \cup ({doc[w]} \X PlanNames(doc[w]))
  BY <1>2 DEF Catalogued
<1>5. Catalogued \subseteq Catalogued'
  BY <1>2 DEF Catalogued
<1>6. {doc[w]} \X PlanNames(doc[w]) \subseteq Catalogued'
  BY <1>3 DEF Catalogued
<1>7. QED
  BY <1>1, <1>4, <1>5, <1>6

\* Every step is a step of the catalogue or leaves it as it is.
LEMMA CatalogStep == IInv /\ [Next]_vars => [Catalog!Next]_Catalogued
<1> SUFFICES ASSUME IInv, [Next]_vars PROVE [Catalog!Next]_Catalogued
  OBVIOUS
<1>1. ASSUME NEW w \in Workers, pc[w] = "commit", rows' = Overlay(rows, tx[w])
      PROVE  Catalog!Next
  BY <1>1, CommitPublishes DEF Catalog!Next, Catalog!Publish
<1>2. ASSUME rows' = rows PROVE Catalogued' = Catalogued
  BY <1>2 DEF Catalogued
<1>3. ASSUME NEW w \in Workers,
             \/ \E d \in Documents : Begin(w, d)
             \/ SelectComponent(w) \/ SelectFindsMany(w) \/ FlushInsert(w) \/ FlushUpdate(w)
             \/ MirrorComponent(w) \/ LinkRelationship(w) \/ LinkOwner(w) \/ Abort(w)
      PROVE  rows' = rows
  BY <1>3 DEF Begin, SelectComponent, SelectFindsMany, FlushInsert, FlushUpdate,
              MirrorComponent, LinkRelationship, LinkOwner, Abort, stores, counters
<1>4. ASSUME NEW w \in Workers, Commit(w) \/ CommitUnacknowledged(w)
      PROVE  Catalog!Next
  BY <1>1, <1>4 DEF Commit, CommitUnacknowledged
<1>5. CASE UNCHANGED vars
  BY <1>2, <1>5 DEF vars
<1>6. QED
  BY <1>2, <1>3, <1>4, <1>5 DEF Next, Step

\* Postgres implements the catalogue: a reader sees the components of a
\* document all together or not at all, and never loses one.
THEOREM CatalogRefinement == Spec => ImplementsCatalog
<1>1. Init => Catalog!Init
  BY EmptyIsTable DEF Init, Catalog!Init, Catalogued
<1>2. QED
  BY <1>1, CatalogStep, Invariance, PTL DEF Spec, ImplementsCatalog, Catalog!Spec

----------------------------------------------------------------------------
(***************************************************************************)
(* Provenance: the chunk a component cites, in both stores.                *)
(***************************************************************************)

\* The components whose rows a worker has flushed, and whose nodes it has
\* merged, as a number of entries of its plan.
FlushedTo(w) ==
    IF pc[w] \in {"select", "flush"} THEN at[w] - 1
    ELSE IF pc[w] = "mirror" THEN at[w]
    ELSE Len(Components[doc[w]])

MergedTo(w) ==
    IF pc[w] \in {"select", "flush", "mirror"} THEN at[w] - 1
    ELSE Len(Components[doc[w]])

\* After the first k components of document d, one named n cites chunk c: the
\* last chunk found for it, or None if none was.
Cites(d, n, k, c) ==
    \/ /\ c = None
       /\ \A j \in 1..k : Components[d][j].name = n => Components[d][j].chunk = None
    \/ /\ c # None
       /\ \E j \in 1..k :
             /\ Components[d][j].name = n /\ Components[d][j].chunk = c
             /\ \A i \in (j + 1)..k : Components[d][i].name = n => Components[d][i].chunk = None

\* ... and has description x: that of the last of them.
Describes(d, n, k, x) ==
    \E j \in 1..k :
        /\ Components[d][j].name = n /\ Components[d][j].description = x
        /\ \A i \in (j + 1)..k : Components[d][i].name # n

\* It shows chunk c: the one it cites, or, as long as no chunk was found for it
\* this time, the one an earlier extraction left.
Shows(d, n, k, c) ==
    \/ Cites(d, n, k, c)
    \/ Cites(d, n, k, None) /\ Cites(d, n, Len(Components[d]), c)

\* What the first k components leave on row r.
Leaves(d, k, r) == Shows(d, r.name, k, r.chunk) /\ Describes(d, r.name, k, r.description)

\* The chunk a document's whole plan leaves on a component, and the row.
CitesAll(row, c) == Cites(row.document, row.name, Len(Components[row.document]), c)
LeavesAll(row) == Leaves(row.document, Len(Components[row.document]), row)

\* Its transaction writes the rows pg_components names, each of which shows the
\* description and the chunk found last; the ORM object at hand is the row of
\* its component, if there is one, and holds what is visible.
RowChunks(w) ==
    /\ \A id \in DOMAIN tx[w] :
          tx[w][id].name \in DOMAIN pg[w] /\ pg[w][tx[w][id].name] = id
    /\ \A n \in DOMAIN pg[w] : Leaves(doc[w], FlushedTo(w), Visible(w)[pg[w][n]])
    /\ pc[w] \in {"flush", "mirror"} /\ ThisComponent(w).name \in DOMAIN pg[w] =>
          current[w] # None /\ current[w].id = pg[w][ThisComponent(w).name]
    /\ pc[w] \in {"flush", "mirror"} /\ current[w] # None =>
          /\ current[w].description = Visible(w)[current[w].id].description
          /\ current[w].chunk = Visible(w)[current[w].id].chunk

\* A worker that has written row "id" will merge its node once more.
MergesAgain(w, id) ==
    /\ id \in DOMAIN tx[w]
    /\ \E j \in (MergedTo(w) + 1)..Len(Components[doc[w]]) :
          Components[doc[w]][j].name = nodes[id].name

ChunkInv ==
    /\ \A id \in DOMAIN rows : LeavesAll(rows[id])
    /\ aborted = 0 =>
          \A id \in DOMAIN nodes :
              \/ CitesAll(nodes[id], nodes[id].chunk)
              \/ \E w \in Workers : MergesAgain(w, id)

ProvenanceInv == ChunkInv /\ \A w \in Workers : RowChunks(w)

\* The chunk a plan leaves on a component is unique ...
LEMMA CitesOneChunk ==
    ASSUME NEW d, NEW n, NEW k \in Nat, NEW a, NEW b, Cites(d, n, k, a), Cites(d, n, k, b)
    PROVE  a = b
<1>1. CASE a = None \/ b = None
  BY <1>1 DEF Cites
<1>2. CASE a # None /\ b # None
  <2>1. PICK i \in 1..k : /\ Components[d][i].name = n /\ Components[d][i].chunk = a
                          /\ \A x \in (i + 1)..k :
                                Components[d][x].name = n => Components[d][x].chunk = None
    BY <1>2 DEF Cites
  <2>2. PICK j \in 1..k : /\ Components[d][j].name = n /\ Components[d][j].chunk = b
                          /\ \A x \in (j + 1)..k :
                                Components[d][x].name = n => Components[d][x].chunk = None
    BY <1>2 DEF Cites
  <2>3. ~ (i < j)
    BY <1>2, <2>1, <2>2
  <2>4. ~ (j < i)
    BY <1>2, <2>1, <2>2
  <2> QED  BY <2>1, <2>2, <2>3, <2>4
<1> QED  BY <1>1, <1>2

\* ... and the next component of that name changes it if evidence was found.
LEMMA CitesNext ==
    ASSUME NEW d, NEW n, NEW k \in Nat, NEW c, Cites(d, n, k, c)
    PROVE  Cites(d, n, k + 1, IF /\ Components[d][k + 1].name = n
                                 /\ Components[d][k + 1].chunk # None
                              THEN Components[d][k + 1].chunk ELSE c)
<1>1. CASE Components[d][k + 1].name = n /\ Components[d][k + 1].chunk # None
  <2>1. k + 1 \in 1..(k + 1) /\ (k + 1 + 1)..(k + 1) = {}
    OBVIOUS
  <2> QED  BY <1>1, <2>1 DEF Cites
<1>2. CASE Components[d][k + 1].name = n => Components[d][k + 1].chunk = None
  <2>1. CASE c = None
    BY <1>2, <2>1 DEF Cites
  <2>2. CASE c # None
    <3>1. PICK j \in 1..k : /\ Components[d][j].name = n /\ Components[d][j].chunk = c
                            /\ \A i \in (j + 1)..k :
                                  Components[d][i].name = n => Components[d][i].chunk = None
      BY <2>2 DEF Cites
    <3>2. \A i \in (j + 1)..(k + 1) :
             Components[d][i].name = n => Components[d][i].chunk = None
      BY <1>2, <3>1
    <3> QED  BY <1>2, <2>2, <3>1, <3>2 DEF Cites
  <2> QED  BY <2>1, <2>2
<1> QED  BY <1>1, <1>2

\* So is its description ...
LEMMA DescribesOnce ==
    ASSUME NEW d, NEW n, NEW k \in Nat, NEW x, NEW y, Describes(d, n, k, x), Describes(d, n, k, y)
    PROVE  x = y
<1>1. PICK i \in 1..k : /\ Components[d][i].name = n /\ Components[d][i].description = x
                        /\ \A z \in (i + 1)..k : Components[d][z].name # n
  BY DEF Describes
<1>2. PICK j \in 1..k : /\ Components[d][j].name = n /\ Components[d][j].description = y
                        /\ \A z \in (j + 1)..k : Components[d][z].name # n
  BY DEF Describes
<1>3. ~ (i < j) /\ ~ (j < i)
  BY <1>1, <1>2
<1> QED  BY <1>1, <1>2, <1>3

\* ... which the next component of that name replaces.
LEMMA DescribesNext ==
    ASSUME NEW d, NEW n, NEW k \in Nat
    PROVE  /\ Components[d][k + 1].name = n =>
                  Describes(d, n, k + 1, Components[d][k + 1].description)
           /\ Components[d][k + 1].name # n =>
                  \A x : Describes(d, n, k, x) => Describes(d, n, k + 1, x)
<1>1. k + 1 \in 1..(k + 1) /\ (k + 1 + 1)..(k + 1) = {}
  OBVIOUS
<1>2. ASSUME Components[d][k + 1].name # n, NEW x, Describes(d, n, k, x)
      PROVE  Describes(d, n, k + 1, x)
  <2>1. PICK j \in 1..k : /\ Components[d][j].name = n /\ Components[d][j].description = x
                          /\ \A i \in (j + 1)..k : Components[d][i].name # n
    BY <1>2 DEF Describes
  <2>2. \A i \in (j + 1)..(k + 1) : Components[d][i].name # n
    BY <1>2, <2>1
  <2> QED  BY <2>1, <2>2 DEF Describes
<1> QED  BY <1>1, <1>2 DEF Describes

\* What a row shows is replaced likewise, if evidence was found ...
LEMMA ShowsNext ==
    ASSUME NEW d, NEW n, NEW k \in Nat, NEW c, Shows(d, n, k, c)
    PROVE  Shows(d, n, k + 1, IF /\ Components[d][k + 1].name = n
                                 /\ Components[d][k + 1].chunk # None
                              THEN Components[d][k + 1].chunk ELSE c)
<1>1. CASE Cites(d, n, k, c)
  BY <1>1, CitesNext DEF Shows
<1>2. CASE Cites(d, n, k, None) /\ Cites(d, n, Len(Components[d]), c)
  <2>1. Cites(d, n, k + 1, IF /\ Components[d][k + 1].name = n
                              /\ Components[d][k + 1].chunk # None
                           THEN Components[d][k + 1].chunk ELSE None)
    BY <1>2, CitesNext
  <2> QED  BY <1>2, <2>1 DEF Shows
<1> QED  BY <1>1, <1>2 DEF Shows

\* ... and a component of another name changes nothing on it.
LEMMA LeavesNext ==
    ASSUME NEW d, NEW k \in Nat, NEW r, Leaves(d, k, r), Components[d][k + 1].name # r.name
    PROVE  Leaves(d, k + 1, r)
<1>1. Shows(d, r.name, k + 1, r.chunk)
  BY ShowsNext DEF Leaves
<1>2. Describes(d, r.name, k + 1, r.description)
  BY DescribesNext DEF Leaves
<1> QED  BY <1>1, <1>2 DEF Leaves

\* After the whole plan a row cites what it shows.
LEMMA LeavesCites ==
    ASSUME NEW r, LeavesAll(r)
    PROVE  CitesAll(r, r.chunk) /\ Describes(r.document, r.name, Len(Components[r.document]),
                                             r.description)
BY DEF LeavesAll, Leaves, Shows, CitesAll

\* Rows are their values.
LEMMA RowsAreValues ==
    ASSUME NEW r \in Row, NEW s \in Row, SameComponent(r, s), r.chunk = s.chunk,
           r.description = s.description
    PROVE  r = s
<1>1. /\ r = [document |-> r.document, name |-> r.name, description |-> r.description,
              chunk |-> r.chunk]
      /\ s = [document |-> s.document, name |-> s.name, description |-> s.description,
              chunk |-> s.chunk]
  BY DEF Row
<1> QED  BY <1>1 DEF SameComponent

\* A committed row keeps its values for ever: each extraction of a document
\* leaves the same description and the same chunk on it.
RowsStay == DOMAIN rows \subseteq DOMAIN rows' /\ \A id \in DOMAIN rows : rows'[id] = rows[id]

LEMMA CommittedRows ==
    ASSUME IInv, ProvenanceInv, NEW w \in Workers, pc[w] = "commit", rows' = Overlay(rows, tx[w])
    PROVE  /\ RowsStay
           /\ \A id \in DOMAIN rows' : LeavesAll(rows'[id])
<1>1. doc[w] \in Documents /\ FlushedTo(w) = Len(Components[doc[w]])
      /\ Len(Components[doc[w]]) \in Nat
  BY PlanTypes DEF IInv, WorkerInv, Located, FlushedTo
<1>2. \A id \in DOMAIN tx[w] : LeavesAll(tx[w][id])
  <2>1. \A id \in DOMAIN tx[w] : Visible(w)[id] = tx[w][id] /\ tx[w][id].document = doc[w]
    BY DEF Visible, Overlay, IInv, WorkerInv, OwnRows
  <2> QED  BY <1>1, <2>1 DEF ProvenanceInv, RowChunks, LeavesAll
<1>3. ASSUME NEW id \in DOMAIN rows PROVE rows'[id] = rows[id]
  <2>1. CASE id \in DOMAIN tx[w]
    <3>1. rows'[id] = tx[w][id] /\ SameComponent(tx[w][id], rows[id]) /\ tx[w][id].document = doc[w]
      BY <2>1 DEF IInv, WorkerInv, OwnRows, Overlay
    <3>2. LeavesAll(tx[w][id]) /\ LeavesAll(rows[id])
      BY <1>2, <2>1 DEF ProvenanceInv, ChunkInv
    <3>3. tx[w][id].chunk = rows[id].chunk
      BY <1>1, <3>1, <3>2, LeavesCites, CitesOneChunk DEF CitesAll, SameComponent
    <3>4. tx[w][id].description = rows[id].description
      BY <1>1, <3>1, <3>2, LeavesCites, DescribesOnce DEF SameComponent
    <3>5. tx[w][id] \in Row /\ rows[id] \in Row
      BY <2>1 DEF IInv, TypeOK, IsTable
    <3> QED  BY <3>1, <3>3, <3>4, <3>5, RowsAreValues
  <2>2. CASE id \notin DOMAIN tx[w]
    BY <2>2 DEF Overlay
  <2> QED  BY <2>1, <2>2
<1>4. ASSUME NEW id \in DOMAIN rows' PROVE LeavesAll(rows'[id])
  <2>1. CASE id \in DOMAIN rows
    BY <1>3, <2>1 DEF ProvenanceInv, ChunkInv
  <2>2. CASE id \notin DOMAIN rows
    BY <1>2, <2>2 DEF Overlay
  <2> QED  BY <2>1, <2>2
<1> QED  BY <1>3, <1>4 DEF RowsStay, Overlay

\* What another worker's step leaves of a worker's part.
LEMMA RowChunksStay ==
    ASSUME NEW u \in Workers, WorkerInv(u), RowChunks(u), Bystander(u), RowsStay
    PROVE  RowChunks(u)' /\ FlushedTo(u)' = FlushedTo(u) /\ MergedTo(u)' = MergedTo(u)
<1>1. FlushedTo(u)' = FlushedTo(u) /\ MergedTo(u)' = MergedTo(u)
      /\ ThisComponent(u)' = ThisComponent(u)
  BY DEF FlushedTo, MergedTo, ThisComponent, Bystander
<1>2. \A id \in DOMAIN Visible(u) : Visible(u)'[id] = Visible(u)[id]
  BY DEF Visible, Overlay, RowsStay, Bystander
<1>3. pc[u] \in {"flush", "mirror"} /\ current[u] # None => current[u].id \in DOMAIN Visible(u)
  BY DEF WorkerInv, CurrentRow, IsRowOf
<1>4. \A n \in DOMAIN pg[u] : pg[u][n] \in DOMAIN Visible(u)
  BY DEF WorkerInv, PgRows, IsRowOf
<1>5. \A n \in DOMAIN pg'[u] : Leaves(doc[u], FlushedTo(u), Visible(u)'[pg[u][n]])
  BY <1>2, <1>4 DEF RowChunks, Bystander
<1>6. pc[u] \in {"flush", "mirror"} /\ current[u] # None =>
         Visible(u)'[current[u].id] = Visible(u)[current[u].id]
  BY <1>2, <1>3
<1>7. \A id \in DOMAIN tx'[u] :
         tx'[u][id].name \in DOMAIN pg'[u] /\ pg'[u][tx'[u][id].name] = id
  BY DEF RowChunks, Bystander
<1>8. pc'[u] \in {"flush", "mirror"} /\ ThisComponent(u)'.name \in DOMAIN pg'[u] =>
         current'[u] # None /\ current'[u].id = pg'[u][ThisComponent(u)'.name]
  BY <1>1 DEF RowChunks, Bystander
<1>9. pc'[u] \in {"flush", "mirror"} /\ current'[u] # None =>
         /\ current'[u].description = Visible(u)'[current'[u].id].description
         /\ current'[u].chunk = Visible(u)'[current'[u].id].chunk
  BY <1>6 DEF RowChunks, Bystander
<1>10. \A n \in DOMAIN pg'[u] : Leaves(doc'[u], FlushedTo(u)', Visible(u)'[pg'[u][n]])
  BY <1>1, <1>5 DEF Bystander
<1> QED
  BY <1>1, <1>7, <1>8, <1>9, <1>10 DEF RowChunks, Cites, Describes, Shows, Leaves

\* A worker that has no row at hand and writes none shows what it showed.
LEMMA PassedKeepsRowChunks ==
    ASSUME NEW w \in Workers, RowChunks(w), Visible(w)' = Visible(w),
           tx'[w] = tx[w], pg'[w] = pg[w], doc'[w] = doc[w], FlushedTo(w)' = FlushedTo(w),
           pc'[w] \notin {"flush", "mirror"}
    PROVE  RowChunks(w)'
<1>1. \A n \in DOMAIN pg'[w] : Leaves(doc'[w], FlushedTo(w)', Visible(w)'[pg'[w][n]])
  BY DEF RowChunks
<1>2. \A id \in DOMAIN tx'[w] : tx'[w][id].name \in DOMAIN pg'[w]
                                /\ pg'[w][tx'[w][id].name] = id
  BY DEF RowChunks
<1> QED  BY <1>1, <1>2 DEF RowChunks, Cites, Describes, Shows, Leaves

\* The components after the first k that have another name leave it alone.
LEMMA CitesRest ==
    ASSUME NEW d, NEW n, NEW k \in Nat, NEW m \in Nat, NEW c, k <= m, Cites(d, n, k, c),
           \A j \in (k + 1)..m : Components[d][j].name # n
    PROVE  Cites(d, n, m, c)
<1>1. CASE c = None
  <2>1. ASSUME NEW j \in 1..m, Components[d][j].name = n PROVE Components[d][j].chunk = None
    <3>1. j \in 1..k
      BY <2>1
    <3> QED  BY <1>1, <2>1, <3>1 DEF Cites
  <2> QED  BY <1>1, <2>1 DEF Cites
<1>2. CASE c # None
  <2>1. PICK j \in 1..k : /\ Components[d][j].name = n /\ Components[d][j].chunk = c
                          /\ \A i \in (j + 1)..k :
                                Components[d][i].name = n => Components[d][i].chunk = None
    BY <1>2 DEF Cites
  <2>2. \A i \in (j + 1)..m : Components[d][i].name = n => Components[d][i].chunk = None
    BY <2>1
  <2> QED  BY <1>2, <2>1, <2>2 DEF Cites
<1> QED  BY <1>1, <1>2

\* Nodes keep what is said of them while none is merged.
LEMMA QuietNodes ==
    ASSUME IInv, ProvenanceInv, UNCHANGED nodes, aborted \in Nat, aborted' \in Nat,
           aborted <= aborted',
           \A id \in DOMAIN rows' : LeavesAll(rows'[id]),
           aborted' = 0 => \A w \in Workers :
               \/ DOMAIN tx[w] = {}
               \/ MergedTo(w) = Len(Components[doc[w]])
               \/ /\ DOMAIN tx[w] \subseteq DOMAIN tx'[w]
                  /\ doc'[w] = doc[w] /\ MergedTo(w)' = MergedTo(w)
    PROVE  ChunkInv'
<1> SUFFICES ASSUME aborted' = 0, NEW id \in DOMAIN nodes,
                    ~ CitesAll(nodes[id], nodes[id].chunk)
             PROVE  \E w \in Workers : MergesAgain(w, id)'
  BY DEF ChunkInv, CitesAll, Cites, LeavesAll, Leaves, Shows, Describes
<1>1. PICK w \in Workers : MergesAgain(w, id)
  BY DEF ProvenanceInv, ChunkInv
<1>2. MergedTo(w) # Len(Components[doc[w]])
  <2>1. Len(Components[doc[w]]) \in Nat
    BY <1>1, PlanTypes DEF MergesAgain, IInv, WorkerInv, Located
  <2> QED  BY <1>1, <2>1 DEF MergesAgain
<1>3. /\ DOMAIN tx[w] \subseteq DOMAIN tx'[w] /\ doc'[w] = doc[w]
      /\ MergedTo(w)' = MergedTo(w)
  BY <1>1, <1>2 DEF MergesAgain
<1> QED  BY <1>1, <1>3 DEF MergesAgain

\* Only the worker that moves has something to show.
LEMMA OthersStay ==
    ASSUME IInv, ProvenanceInv, NEW w \in Workers, \A u \in Workers \ {w} : Bystander(u),
           RowsStay, RowChunks(w)', ChunkInv'
    PROVE  ProvenanceInv'
BY RowChunksStay DEF IInv, ProvenanceInv

LEMMA LeaveProvenance ==
    ASSUME IInv, ProvenanceInv, NEW w \in Workers, Leave(w), UNCHANGED nodes,
           RowsStay, \A id \in DOMAIN rows' : LeavesAll(rows'[id]),
           aborted' \in Nat, aborted <= aborted',
           aborted' # 0 \/ MergedTo(w) = Len(Components[doc[w]])
    PROVE  ProvenanceInv'
<1>1. /\ \A u \in Workers \ {w} : Bystander(u)
      /\ DOMAIN tx'[w] = {} /\ DOMAIN pg'[w] = {} /\ pc'[w] = "idle"
  BY LeaveInv, EmptyIsTable DEF IInv, TypeOK, Leave, Goto
<1>2. RowChunks(w)'
  BY <1>1 DEF RowChunks
<1>3. \A u \in Workers \ {w} : /\ MergedTo(u)' = MergedTo(u) /\ doc'[u] = doc[u]
                               /\ tx'[u] = tx[u]
  BY <1>1 DEF MergedTo, Bystander
<1>4. ChunkInv'
  BY <1>3, QuietNodes DEF IInv, TypeOK
<1> QED  BY <1>1, <1>2, <1>4, OthersStay

LEMMA BeginProvenance ==
    ASSUME IInv, ProvenanceInv, NEW w \in Workers, NEW d \in Documents, Begin(w, d)
    PROVE  ProvenanceInv'
<1>1. /\ \A u \in Workers \ {w} : Bystander(u)
      /\ DOMAIN tx[w] = {} /\ DOMAIN pg[w] = {} /\ pc'[w] = Start(d)
      /\ UNCHANGED <<rows, nodes, aborted, tx, pg>>
  BY DEF IInv, TypeOK, WorkerInv, Located, Begin, Goto, Bystander, stores
<1>2. RowChunks(w)'
  BY <1>1, PlanPositions DEF RowChunks
<1>3. RowsStay /\ \A id \in DOMAIN rows' : LeavesAll(rows'[id])
  BY <1>1 DEF RowsStay, ProvenanceInv, ChunkInv
<1>4. \A u \in Workers \ {w} : MergedTo(u)' = MergedTo(u) /\ doc'[u] = doc[u]
  BY <1>1 DEF MergedTo, Bystander
<1>5. ChunkInv'
  BY <1>1, <1>3, <1>4, QuietNodes DEF IInv, TypeOK
<1> QED  BY <1>1, <1>2, <1>3, <1>5, OthersStay

LEMMA SelectProvenance ==
    ASSUME IInv, ProvenanceInv, NEW w \in Workers, SelectComponent(w)
    PROVE  ProvenanceInv'
<1>1. /\ \A u \in Workers \ {w} : Bystander(u)
      /\ pc[w] = "select" /\ pc'[w] = "flush" /\ at'[w] = at[w]
      /\ UNCHANGED <<rows, nodes, aborted, tx, doc, pg>>
  BY DEF IInv, TypeOK, SelectComponent, Goto, Bystander, stores, counters
<1>2. /\ ThisComponent(w)' = ThisComponent(w) /\ Visible(w)' = Visible(w)
      /\ FlushedTo(w)' = FlushedTo(w) /\ \A u \in Workers : MergedTo(u)' = MergedTo(u)
  BY <1>1 DEF ThisComponent, Visible, Overlay, FlushedTo, MergedTo, Bystander
<1>3. ThisComponent(w).name \in DOMAIN pg[w] => pg[w][ThisComponent(w).name] \in Matches(w)
  BY DEF IInv, WorkerInv, PgRows, IsRowOf, Matches
<1>4. RowChunks(w)'
  <2> RowChunks(w)
    BY DEF ProvenanceInv
  <2>3. /\ \A id \in DOMAIN tx'[w] :
              tx'[w][id].name \in DOMAIN pg'[w] /\ pg'[w][tx'[w][id].name] = id
        /\ \A n \in DOMAIN pg'[w] : Leaves(doc'[w], FlushedTo(w)', Visible(w)'[pg'[w][n]])
    BY <1>1, <1>2 DEF RowChunks
  <2>1. CASE Matches(w) = {} /\ current' = [current EXCEPT ![w] = None]
    <3>1. current'[w] = None
      BY <2>1 DEF IInv, TypeOK
    <3>2. ThisComponent(w)'.name \notin DOMAIN pg'[w]
      BY <1>1, <1>2, <1>3, <2>1
    <3> QED
      BY <2>3, <3>1, <3>2 DEF RowChunks, Cites, Describes, Shows, Leaves
  <2>2. ASSUME NEW id \in Matches(w), Matches(w) = {id},
               current' = [current EXCEPT ![w] = Loaded(w, id)]
        PROVE  RowChunks(w)'
    <3>1. /\ current'[w].id = id /\ current'[w] # None
          /\ current'[w].description = Visible(w)[id].description
          /\ current'[w].chunk = Visible(w)[id].chunk
      <4>1. current'[w] = Loaded(w, id)
        BY <2>2 DEF IInv, TypeOK
      <4>2. IsTable(Visible(w), Id, Row) /\ id \in DOMAIN Visible(w)
        BY OverlayIsTable DEF IInv, TypeOK, Visible, Matches
      <4>3. current'[w] \in OrmObject
        BY <4>1, <4>2 DEF IsTable, OrmObject, Row, Loaded
      <4> QED  BY <4>1, <4>3, PlanAssumption DEF Loaded
    <3>2. ThisComponent(w)'.name \in DOMAIN pg'[w] =>
             current'[w].id = pg'[w][ThisComponent(w)'.name]
      BY <1>1, <1>2, <1>3, <2>2, <3>1
    <3>3. /\ current'[w].description = Visible(w)'[current'[w].id].description
          /\ current'[w].chunk = Visible(w)'[current'[w].id].chunk
      BY <1>2, <3>1
    <3> QED
      BY <2>3, <3>1, <3>2, <3>3 DEF RowChunks, Cites, Describes, Shows, Leaves
  <2> QED  BY <2>1, <2>2 DEF SelectComponent
<1>5. RowsStay /\ \A id \in DOMAIN rows' : LeavesAll(rows'[id])
  BY <1>1 DEF RowsStay, ProvenanceInv, ChunkInv
<1>6. ChunkInv'
  BY <1>1, <1>2, <1>5, QuietNodes DEF IInv, TypeOK
<1> QED  BY <1>1, <1>4, <1>5, <1>6, OthersStay

\* FlushInsert: no earlier component has that name, so the new row has
\* the description and the chunk just found for it.
LEMMA FlushInsertProvenance ==
    ASSUME IInv, ProvenanceInv, NEW w \in Workers, FlushInsert(w)
    PROVE  ProvenanceInv'
<1> DEFINE this == ThisComponent(w)
<1> DEFINE k == at[w] - 1
<1> DEFINE row == NewRow(w)
<1>1. /\ doc[w] \in Documents /\ pc[w] = "flush" /\ next_id \in Nat /\ current[w] = None
      /\ at[w] \in 1..Len(Components[doc[w]]) /\ Len(Components[doc[w]]) \in Nat
      /\ this = Components[doc[w]][k + 1] /\ k \in Nat
  BY PlanTypes DEF IInv, TypeOK, WorkerInv, Located, FlushInsert, ThisComponent
<1>2. /\ \A u \in Workers \ {w} : Bystander(u)
      /\ pc'[w] = "mirror" /\ at'[w] = at[w] /\ doc' = doc
      /\ tx'[w] = Put(tx[w], next_id, row)
      /\ current'[w] = NewObject(w) /\ pg'[w] = Put(pg[w], this.name, next_id)
      /\ UNCHANGED <<rows, nodes, aborted>>
  BY DEF IInv, TypeOK, FlushInsert, Goto, Bystander, stores
<1>3. /\ next_id \notin DOMAIN tx[w]
      /\ row.name = this.name /\ row.chunk = this.chunk /\ row.description = this.description
  BY <1>1 DEF IInv, WorkerInv, OwnRows, NewRow
<1> HIDE DEF row
<1>4. /\ DOMAIN tx'[w] = DOMAIN tx[w] \cup {next_id} /\ tx'[w][next_id] = row
      /\ \A id \in DOMAIN tx[w] : tx'[w][id] = tx[w][id]
  BY <1>2, <1>3 DEF Put
<1>5. /\ FlushedTo(w) = k /\ FlushedTo(w)' = k + 1
      /\ \A u \in Workers : MergedTo(u)' = MergedTo(u)
  BY <1>1, <1>2 DEF FlushedTo, MergedTo, Bystander
<1>6. this.name \notin DOMAIN pg[w]
  BY <1>1 DEF ProvenanceInv, RowChunks
<1>7. Leaves(doc[w], k + 1, row)
  <2>1. \A j \in 1..k : Components[doc[w]][j].name # this.name
    BY <1>1, <1>6 DEF IInv, WorkerInv, PgCovers, Passed
  <2>2. Cites(doc[w], this.name, k, None)
    BY <2>1 DEF Cites
  <2> HIDE DEF k, this
  <2>3. Cites(doc[w], this.name, k + 1, this.chunk)
    BY <1>1, <2>2, CitesNext
  <2>4. Describes(doc[w], this.name, k + 1, this.description)
    BY <1>1, DescribesNext
  <2> QED  BY <1>3, <2>3, <2>4 DEF Leaves, Shows
<1>8. /\ Visible(w)'[next_id] = row
      /\ \A n \in DOMAIN pg[w] : /\ pg[w][n] # next_id
                                /\ Visible(w)[pg[w][n]].name = n
                                /\ Visible(w)'[pg[w][n]] = Visible(w)[pg[w][n]]
  <2>1. next_id \notin DOMAIN rows
    BY <1>1 DEF IInv, StoreInv, Allocated
  <2>2. \A n \in DOMAIN pg[w] : /\ pg[w][n] \in DOMAIN rows \cup DOMAIN tx[w]
                                /\ Visible(w)[pg[w][n]].name = n
    BY DEF IInv, WorkerInv, PgRows, IsRowOf, Visible, Overlay
  <2> QED  BY <1>2, <1>3, <1>4, <2>1, <2>2 DEF Visible, Overlay
<1> HIDE DEF k, this
<1>9. RowChunks(w)'
  <2>1. ASSUME NEW n \in DOMAIN pg[w] PROVE Leaves(doc[w], k + 1, Visible(w)[pg[w][n]])
    <3>1. Leaves(doc[w], k, Visible(w)[pg[w][n]])
      BY <1>5 DEF ProvenanceInv, RowChunks
    <3> QED  BY <1>1, <1>6, <1>8, <3>1, LeavesNext
  <2>2. /\ DOMAIN pg'[w] = DOMAIN pg[w] \cup {this.name} /\ pg'[w][this.name] = next_id
        /\ \A n \in DOMAIN pg[w] : pg'[w][n] = pg[w][n]
    BY <1>2, <1>6 DEF Put
  <2>3. \A n \in DOMAIN pg'[w] : Leaves(doc[w], k + 1, Visible(w)'[pg'[w][n]])
    BY <1>7, <1>8, <2>1, <2>2
  <2>4. /\ current'[w].id = next_id
        /\ current'[w].description = Visible(w)'[next_id].description
        /\ current'[w].chunk = Visible(w)'[next_id].chunk
    BY <1>2, <1>3, <1>8 DEF NewObject, this
  <2>5. ThisComponent(w)' = this /\ current'[w] # None
    BY <1>2, FlushInsertInv DEF this, ThisComponent, IInv, WorkerInv, CurrentRow
  <2>6. \A id \in DOMAIN tx'[w] : tx'[w][id].name \in DOMAIN pg'[w] /\ pg'[w][tx'[w][id].name] = id
    BY <1>3, <1>4, <2>2 DEF ProvenanceInv, RowChunks
  <2>7. \A n \in DOMAIN pg'[w] : Leaves(doc[w], FlushedTo(w), Visible(w)[pg[w][n]])'
    BY <1>2, <1>5, <2>3 DEF Cites, Describes, Shows, Leaves
  <2>8. this.name \in DOMAIN pg'[w]
    BY <2>2
  <2> QED
    BY <1>2, <2>2, <2>4, <2>5, <2>6, <2>7, <2>8 DEF RowChunks
<1>10. RowsStay /\ \A id \in DOMAIN rows' : LeavesAll(rows'[id])
  BY <1>2 DEF RowsStay, ProvenanceInv, ChunkInv
<1>11. \A u \in Workers : DOMAIN tx[u] \subseteq DOMAIN tx'[u]
  BY <1>2, <1>4 DEF Bystander
<1>12. ChunkInv'
  BY <1>2, <1>5, <1>10, <1>11, QuietNodes DEF IInv, TypeOK
<1> QED  BY <1>2, <1>9, <1>10, <1>12, OthersStay

\* FlushUpdate: the row takes the description and the chunk just found, and
\* keeps its chunk if none was.
LEMMA FlushUpdateProvenance ==
    ASSUME IInv, ProvenanceInv, NEW w \in Workers, FlushUpdate(w)
    PROVE  ProvenanceInv'
<1> DEFINE this == ThisComponent(w)
<1> DEFINE k == at[w] - 1
<1> DEFINE me == current[w].id
<1> DEFINE now == Assigned(w)
<1> DEFINE chunk == IF this.chunk # None THEN this.chunk ELSE current[w].chunk
<1> DEFINE row == [Visible(w)[me] EXCEPT !.description = now.description, !.chunk = now.chunk]
<1>1. /\ doc[w] \in Documents /\ pc[w] = "flush" /\ current[w] # None
      /\ at[w] \in 1..Len(Components[doc[w]]) /\ Len(Components[doc[w]]) \in Nat
      /\ this = Components[doc[w]][k + 1] /\ k \in Nat
      /\ IsRowOf(w, me, this.name) /\ current[w] \in OrmObject
      /\ current[w].description = Visible(w)[me].description
      /\ current[w].chunk = Visible(w)[me].chunk
  <2>1. /\ doc[w] \in Documents /\ pc[w] = "flush" /\ current[w] # None
        /\ at[w] \in 1..Len(Components[doc[w]]) /\ Len(Components[doc[w]]) \in Nat
        /\ IsRowOf(w, me, this.name) /\ current[w] \in OrmObject
    BY PlanTypes DEF IInv, TypeOK, WorkerInv, Located, CurrentRow, FlushUpdate
  <2>2. this = Components[doc[w]][k + 1] /\ k \in Nat
    BY <2>1 DEF ThisComponent
  <2>3. /\ current[w].description = Visible(w)[me].description
        /\ current[w].chunk = Visible(w)[me].chunk
    BY <2>1 DEF ProvenanceInv, RowChunks
  <2> QED  BY <2>1, <2>2, <2>3
<1>2. /\ \A u \in Workers \ {w} : Bystander(u)
      /\ pc'[w] = "mirror" /\ at'[w] = at[w] /\ doc' = doc
      /\ \/ now = current[w] /\ tx' = tx
         \/ now # current[w] /\ tx'[w] = Put(tx[w], me, row)
      /\ current'[w] = now
      /\ pg'[w] = Put(pg[w], this.name, me)
      /\ UNCHANGED <<rows, nodes, aborted>>
  BY DEF IInv, TypeOK, FlushUpdate, Goto, Bystander, stores, counters
<1>3. /\ FlushedTo(w) = k /\ FlushedTo(w)' = k + 1
      /\ \A u \in Workers : MergedTo(u)' = MergedTo(u)
  BY <1>1, <1>2 DEF FlushedTo, MergedTo, Bystander
<1>4. /\ now = [id |-> me, description |-> this.description, chunk |-> chunk]
      /\ row.name = this.name /\ row.description = this.description /\ row.chunk = chunk
      /\ Visible(w)[me] \in Row
  <2>1. IsTable(Visible(w), Id, Row)
    BY OverlayIsTable DEF IInv, TypeOK, Visible
  <2>2. Visible(w)[me] \in Row /\ Visible(w)[me].name = this.name
    BY <1>1, <2>1 DEF IsRowOf, IsTable
  <2>3. now = [id |-> me, description |-> this.description, chunk |-> chunk]
    <3>1. current[w] = [id |-> me, description |-> current[w].description,
                        chunk |-> current[w].chunk]
      BY <1>1 DEF OrmObject
    <3> DEFINE old == current[w]
    <3>2. old = [id |-> old.id, description |-> old.description, chunk |-> old.chunk]
      BY <3>1
    <3>3. now = [old EXCEPT !.description = this.description, !.chunk = chunk]
      BY <3>1 DEF Assigned
    <3> HIDE DEF old, chunk, this, now
    <3>4. now = [id |-> old.id, description |-> this.description, chunk |-> chunk]
      BY <3>2, <3>3
    <3> QED  BY <3>4 DEF old
  <2> HIDE DEF now, this, chunk
  <2> QED  BY <2>2, <2>3 DEF Row
<1> HIDE DEF row, now
<1>5. Leaves(doc[w], k + 1, row)
  <2>1. Describes(doc[w], this.name, k + 1, this.description)
    <3> HIDE DEF k, this
    <3> QED  BY <1>1, DescribesNext
  <2>2. Shows(doc[w], this.name, k, current[w].chunk)
    <3>1. Visible(w)[me].name = this.name /\ Visible(w)[me].document = doc[w]
      BY <1>1 DEF IsRowOf
    <3>2. CASE this.name \in DOMAIN pg[w]
      BY <1>1, <1>3, <3>1, <3>2 DEF ProvenanceInv, RowChunks, Leaves
    <3>3. CASE this.name \notin DOMAIN pg[w]
      <4>1. me \notin DOMAIN tx[w]
        BY <3>1, <3>3 DEF ProvenanceInv, RowChunks, Visible, Overlay
      <4>2. me \in DOMAIN rows /\ Visible(w)[me] = rows[me]
        BY <1>1, <4>1 DEF IsRowOf, Visible, Overlay
      <4>3. Cites(doc[w], this.name, Len(Components[doc[w]]), current[w].chunk)
        BY <1>1, <3>1, <4>2, LeavesCites DEF ProvenanceInv, ChunkInv, CitesAll
      <4>4. \A j \in 1..k : Components[doc[w]][j].name # this.name
        BY <1>1, <3>3 DEF IInv, WorkerInv, PgCovers, Passed
      <4>5. Cites(doc[w], this.name, k, None)
        BY <4>4 DEF Cites
      <4> QED  BY <4>3, <4>5 DEF Shows
    <3> QED  BY <3>2, <3>3
  <2>3. Shows(doc[w], this.name, k + 1, chunk)
    <3> HIDE DEF k, this
    <3> QED  BY <1>1, <2>2, ShowsNext
  <2> QED  BY <1>4, <2>1, <2>3 DEF Leaves
<1>6. /\ Visible(w)'[me] = row
      /\ \A id \in DOMAIN Visible(w) : id # me => Visible(w)'[id] = Visible(w)[id]
  <2>1. CASE now # current[w] /\ tx'[w] = Put(tx[w], me, row)
    BY <1>2, <2>1 DEF Visible, Overlay, Put
  <2>2. CASE now = current[w] /\ tx' = tx
    <3>1. Visible(w)' = Visible(w)
      BY <1>2, <2>2 DEF Visible, Overlay
    <3>2. Visible(w)[me] \in Row
      BY <1>4
    <3>3. /\ Visible(w)[me].description = now.description
          /\ Visible(w)[me].chunk = now.chunk
      BY <1>1, <2>2
    <3>4. Visible(w)[me] = row
      BY <3>2, <3>3 DEF Row, row
    <3> QED  BY <3>1, <3>4
  <2> QED  BY <1>2, <2>1, <2>2
<1>7. /\ DOMAIN pg'[w] = DOMAIN pg[w] \cup {this.name} /\ pg'[w][this.name] = me
      /\ \A n \in DOMAIN pg[w] : n # this.name => pg'[w][n] = pg[w][n]
  BY <1>2 DEF Put
<1>8. \A n \in DOMAIN pg[w] : pg[w][n] \in DOMAIN Visible(w) /\ Visible(w)[pg[w][n]].name = n
  BY DEF IInv, WorkerInv, PgRows, IsRowOf
<1> HIDE DEF k, this
<1>9. RowChunks(w)'
  <2>1. ASSUME NEW n \in DOMAIN pg[w], n # this.name
        PROVE  Leaves(doc[w], k + 1, Visible(w)'[pg[w][n]])
    <3>1. Leaves(doc[w], k, Visible(w)[pg[w][n]])
      BY <1>3 DEF ProvenanceInv, RowChunks
    <3>2. pg[w][n] # me
      BY <1>1, <1>8, <2>1 DEF IsRowOf
    <3> QED  BY <1>1, <1>6, <1>8, <2>1, <3>1, <3>2, LeavesNext
  <2>2. \A n \in DOMAIN pg'[w] : Leaves(doc[w], k + 1, Visible(w)'[pg'[w][n]])
    BY <1>5, <1>6, <1>7, <2>1
  <2>3. /\ current'[w].id = me
        /\ current'[w].description = Visible(w)'[me].description
        /\ current'[w].chunk = Visible(w)'[me].chunk
    BY <1>2, <1>4, <1>6
  <2>4. ThisComponent(w)' = this /\ current'[w] # None
    BY <1>2, FlushUpdateInv DEF this, ThisComponent, IInv, WorkerInv, CurrentRow
  <2>5. ASSUME NEW id \in DOMAIN tx'[w]
        PROVE  tx'[w][id].name \in DOMAIN pg'[w] /\ pg'[w][tx'[w][id].name] = id
    <3>1. CASE id = me
      <4>1. tx'[w][id] = row
        BY <1>6, <2>5, <3>1 DEF Visible, Overlay
      <4> QED  BY <1>4, <1>7, <3>1, <4>1
    <3>2. CASE id # me
      <4>1. id \in DOMAIN tx[w] /\ tx'[w][id] = tx[w][id]
        BY <1>2, <2>5, <3>2 DEF Put
      <4>2. tx[w][id].name # this.name
        BY <1>1, <3>2, <4>1 DEF ProvenanceInv, RowChunks, this
      <4> QED  BY <1>7, <4>1, <4>2 DEF ProvenanceInv, RowChunks
    <3> QED  BY <3>1, <3>2
  <2>6. \A n \in DOMAIN pg'[w] : Leaves(doc'[w], FlushedTo(w)', Visible(w)'[pg'[w][n]])
    BY <1>2, <1>3, <2>2
  <2>7. current'[w].id = pg'[w][ThisComponent(w)'.name]
    BY <1>7, <2>3, <2>4
  <2> QED
    BY <2>3, <2>4, <2>5, <2>6, <2>7
    DEF RowChunks, Cites, Describes, Shows, Leaves
<1>10. RowsStay /\ \A id \in DOMAIN rows' : LeavesAll(rows'[id])
  BY <1>2 DEF RowsStay, ProvenanceInv, ChunkInv
<1>11. \A u \in Workers : DOMAIN tx[u] \subseteq DOMAIN tx'[u]
  BY <1>2 DEF Bystander, Put
<1>12. ChunkInv'
  BY <1>2, <1>3, <1>10, <1>11, QuietNodes DEF IInv, TypeOK
<1> QED  BY <1>2, <1>9, <1>10, <1>12, OthersStay

\* MirrorComponent: the node cites what its row will, unless the component comes
\* once more in the plan.
LEMMA MirrorCites ==
    ASSUME IInv, ProvenanceInv, NEW w \in Workers, MirrorComponent(w),
           NEW me, me = current[w].id
    PROVE  \/ CitesAll(nodes'[me], nodes'[me].chunk)
           \/ /\ me \in DOMAIN tx[w]
              /\ \E j \in (at[w] + 1)..Len(Components[doc[w]]) :
                    Components[doc[w]][j].name = ThisComponent(w).name
<1> DEFINE this == ThisComponent(w)
<1> DEFINE node == [document |-> doc[w], name |-> this.name, chunk |-> current[w].chunk]
<1> DEFINE size == Len(Components[doc[w]])
<1>1. /\ doc[w] \in Documents /\ pc[w] = "mirror"
      /\ at[w] \in 1..size /\ size \in Nat /\ at[w] \in Nat
      /\ IsRowOf(w, me, this.name)
      /\ current[w].chunk = Visible(w)[me].chunk
  BY PlanTypes DEF IInv, TypeOK, WorkerInv, Located, CurrentRow, MirrorComponent,
                   ThisComponent, ProvenanceInv, RowChunks
<1>2. nodes' = Put(nodes, me, node) /\ FlushedTo(w) = at[w]
  BY <1>1 DEF MirrorComponent, FlushedTo
<1>3. /\ node.document = doc[w] /\ node.name = this.name /\ node.chunk = Visible(w)[me].chunk
      /\ nodes'[me] = node
  BY <1>1, <1>2 DEF Put
<1> HIDE DEF this, node, size
<1>4. CASE me \notin DOMAIN tx[w]
  <2>1. /\ me \in DOMAIN rows /\ Visible(w)[me] = rows[me]
        /\ rows[me].document = doc[w] /\ rows[me].name = this.name
    BY <1>1, <1>4 DEF IsRowOf, Visible, Overlay
  <2> QED  BY <1>3, <2>1, LeavesCites DEF ProvenanceInv, ChunkInv, CitesAll
<1>5. CASE me \in DOMAIN tx[w]
  <2>1. Visible(w)[me] = tx[w][me] /\ tx[w][me].name = this.name
    BY <1>1, <1>5 DEF IsRowOf, Visible, Overlay
  <2>2. Shows(doc[w], this.name, at[w], node.chunk)
    BY <1>2, <1>3, <1>5, <2>1 DEF ProvenanceInv, RowChunks, Leaves
  <2>3. CASE Cites(doc[w], this.name, size, node.chunk)
    BY <1>3, <2>3 DEF CitesAll, size
  <2>4. CASE /\ Cites(doc[w], this.name, at[w], node.chunk)
             /\ \A j \in (at[w] + 1)..size : Components[doc[w]][j].name # this.name
    <3>1. Cites(doc[w], this.name, size, node.chunk)
      BY <1>1, <2>4, CitesRest
    <3> QED  BY <1>3, <3>1 DEF CitesAll, size
  <2>5. CASE \E j \in (at[w] + 1)..size : Components[doc[w]][j].name = this.name
    BY <1>5, <2>5 DEF size, this
  <2> QED  BY <2>2, <2>3, <2>4, <2>5 DEF Shows, size
<1> QED  BY <1>4, <1>5

\* A component that comes once more in the plan is merged once more.
LEMMA MirrorProvenance ==
    ASSUME IInv, ProvenanceInv, NEW w \in Workers, MirrorComponent(w)
    PROVE  ProvenanceInv'
<1> DEFINE this == ThisComponent(w)
<1>0. PICK me : me = current[w].id
  OBVIOUS
<1> DEFINE node == [document |-> doc[w], name |-> this.name, chunk |-> current[w].chunk]
<1> DEFINE size == Len(Components[doc[w]])
<1>1. /\ doc[w] \in Documents /\ pc[w] = "mirror" /\ current[w] # None
      /\ at[w] \in 1..size /\ size \in Nat /\ at[w] \in Nat
      /\ this = Components[doc[w]][at[w]]
      /\ IsRowOf(w, me, this.name)
      /\ current[w].chunk = Visible(w)[me].chunk
      /\ \A id \in DOMAIN tx[w] : tx[w][id].name = this.name => id = me
  BY <1>0, PlanTypes DEF IInv, TypeOK, WorkerInv, Located, CurrentRow, MirrorComponent,
                   ThisComponent, ProvenanceInv, RowChunks
<1>2. /\ \A u \in Workers \ {w} : Bystander(u)
      /\ \/ pc'[w] = "select" /\ at'[w] = at[w] + 1
         \/ pc'[w] = AfterComponents(doc[w]) /\ at[w] = size
      /\ nodes' = Put(nodes, me, node)
      /\ UNCHANGED <<rows, aborted, tx, doc, pg>>
  BY <1>0, <1>1 DEF IInv, TypeOK, MirrorComponent, Goto, Bystander, counters
<1>3. /\ FlushedTo(w)' = FlushedTo(w) /\ MergedTo(w)' = at[w] /\ MergedTo(w) = at[w] - 1
      /\ FlushedTo(w) = at[w] /\ pc'[w] \notin {"flush", "mirror"}
      /\ \A u \in Workers \ {w} : MergedTo(u)' = MergedTo(u)
  BY <1>1, <1>2, PlanPositions DEF FlushedTo, MergedTo, Bystander
<1>4. /\ node.document = doc[w] /\ node.name = this.name /\ node.chunk = Visible(w)[me].chunk
      /\ DOMAIN nodes' = DOMAIN nodes \cup {me} /\ nodes'[me] = node
      /\ \A id \in DOMAIN nodes : id # me => nodes'[id] = nodes[id]
  BY <1>1, <1>2 DEF Put
<1> HIDE DEF this, node, size
<1>5. RowChunks(w)'
  <2>1. /\ Visible(w)' = Visible(w) /\ RowChunks(w)
        /\ tx'[w] = tx[w] /\ pg'[w] = pg[w] /\ doc'[w] = doc[w]
    BY <1>2 DEF Visible, Overlay, ProvenanceInv
  <2> HIDE DEF RowChunks
  <2> QED  BY <1>3, <2>1, PassedKeepsRowChunks
<1>6. RowsStay /\ \A id \in DOMAIN rows' : LeavesAll(rows'[id])
  BY <1>2 DEF RowsStay, ProvenanceInv, ChunkInv
<1>7. CitesAll(node, node.chunk) \/ MergesAgain(w, me)'
  <2>1. \/ CitesAll(node, node.chunk)
        \/ /\ me \in DOMAIN tx[w]
           /\ \E j \in (at[w] + 1)..size : Components[doc[w]][j].name = this.name
    BY <1>0, <1>4, MirrorCites DEF size, this
  <2> QED  BY <1>2, <1>3, <1>4, <2>1 DEF MergesAgain, size
<1>8. ASSUME aborted = 0, NEW id \in DOMAIN nodes, id # me
      PROVE  CitesAll(nodes[id], nodes[id].chunk) \/ \E u \in Workers : MergesAgain(u, id)'
  <2> SUFFICES ASSUME ~ CitesAll(nodes[id], nodes[id].chunk)
               PROVE  \E u \in Workers : MergesAgain(u, id)'
    OBVIOUS
  <2>1. PICK u \in Workers : MergesAgain(u, id)
    BY <1>8 DEF ProvenanceInv, ChunkInv
  <2>2. CASE u # w
    BY <1>2, <1>3, <1>4, <1>8, <2>1, <2>2 DEF MergesAgain, Bystander
  <2>3. CASE u = w
    <3>1. PICK j \in at[w]..size : Components[doc[w]][j].name = nodes[id].name
      BY <1>1, <1>3, <2>1, <2>3 DEF MergesAgain, size
    <3>2. id \in DOMAIN tx[w] /\ tx[w][id].name = nodes[id].name
      BY <2>1, <2>3 DEF MergesAgain, IInv, WorkerInv, OwnRows, SameComponent
    <3>3. j # at[w]
      BY <1>1, <1>8, <3>1, <3>2
    <3>4. j \in (at[w] + 1)..size
      BY <1>1, <3>1, <3>3
    <3> QED  BY <1>2, <1>3, <1>4, <1>8, <3>1, <3>2, <3>4 DEF MergesAgain, size
  <2> QED  BY <2>2, <2>3
<1>9. ChunkInv'
  <2>1. ASSUME aborted' = 0, NEW id \in DOMAIN nodes'
        PROVE  \/ CitesAll(nodes'[id], nodes'[id].chunk)
               \/ \E u \in Workers : MergesAgain(u, id)'
    BY <1>2, <1>4, <1>7, <1>8, <2>1
  <2> QED  BY <1>6, <2>1 DEF ChunkInv, CitesAll, Cites, LeavesAll, Leaves, Shows, Describes
<1> QED  BY <1>2, <1>5, <1>6, <1>9, OthersStay

\* Past the components only edges change.
LEMMA LinkProvenance ==
    ASSUME IInv, ProvenanceInv, NEW w \in Workers, LinkRelationship(w) \/ LinkOwner(w)
    PROVE  ProvenanceInv'
<1>1. /\ \A u \in Workers \ {w} : Bystander(u)
      /\ pc[w] \in {"link", "own"} /\ pc'[w] \in {"link", "own", "commit"}
      /\ UNCHANGED <<rows, nodes, aborted, tx, doc, pg>>
  BY DEF IInv, TypeOK, LinkRelationship, LinkOwner, Goto, Bystander, counters,
         AfterRelationships
<1>2. FlushedTo(w)' = FlushedTo(w) /\ \A u \in Workers : MergedTo(u)' = MergedTo(u)
  BY <1>1 DEF FlushedTo, MergedTo, Bystander
<1>3. RowChunks(w)'
  <2>1. /\ Visible(w)' = Visible(w) /\ RowChunks(w)
        /\ tx'[w] = tx[w] /\ pg'[w] = pg[w] /\ doc'[w] = doc[w]
    BY <1>1 DEF Visible, Overlay, ProvenanceInv
  <2> QED  BY <1>1, <1>2, <2>1, PassedKeepsRowChunks
<1>4. RowsStay /\ \A id \in DOMAIN rows' : LeavesAll(rows'[id])
  BY <1>1 DEF RowsStay, ProvenanceInv, ChunkInv
<1>5. ChunkInv'
  BY <1>1, <1>2, <1>4, QuietNodes DEF IInv, TypeOK
<1> QED  BY <1>1, <1>3, <1>4, <1>5, OthersStay

\* The invariant with provenance is inductive.
LEMMA ProvenanceStep == IInv /\ ProvenanceInv /\ [Next]_vars => ProvenanceInv'
<1> SUFFICES ASSUME IInv, ProvenanceInv, [Next]_vars PROVE ProvenanceInv'
  OBVIOUS
<1>1. ASSUME NEW w \in Workers, SelectFindsMany(w) \/ Abort(w) PROVE ProvenanceInv'
  <2>1. /\ Leave(w) /\ UNCHANGED <<rows, nodes>>
        /\ aborted' = aborted + 1 /\ aborted \in Nat
    BY <1>1 DEF SelectFindsMany, Abort, stores, IInv, TypeOK
  <2>2. RowsStay /\ \A id \in DOMAIN rows' : LeavesAll(rows'[id])
    BY <2>1 DEF RowsStay, ProvenanceInv, ChunkInv
  <2> QED  BY <2>1, <2>2, LeaveProvenance
<1>2. ASSUME NEW w \in Workers, Commit(w) \/ CommitUnacknowledged(w) PROVE ProvenanceInv'
  <2>1. /\ Leave(w) /\ UNCHANGED nodes /\ pc[w] = "commit" /\ rows' = Overlay(rows, tx[w])
        /\ aborted' \in Nat /\ aborted <= aborted'
    BY <1>2 DEF Commit, CommitUnacknowledged, IInv, TypeOK
  <2>2. MergedTo(w) = Len(Components[doc[w]])
    BY <2>1 DEF MergedTo
  <2> QED  BY <2>1, <2>2, CommittedRows, LeaveProvenance
<1>3. CASE UNCHANGED vars
  <2>1. /\ \A u \in Workers : Bystander(u)
        /\ RowsStay /\ \A id \in DOMAIN rows' : LeavesAll(rows'[id])
    BY <1>3 DEF vars, Bystander, RowsStay, ProvenanceInv, ChunkInv
  <2>2. \A u \in Workers : RowChunks(u)' /\ MergedTo(u)' = MergedTo(u)
    BY <2>1, RowChunksStay DEF IInv, ProvenanceInv
  <2>3. ChunkInv'
    BY <1>3, <2>1, <2>2, QuietNodes DEF vars, IInv, TypeOK, Bystander
  <2> QED  BY <2>2, <2>3 DEF ProvenanceInv
<1> QED
  BY <1>1, <1>2, <1>3, BeginProvenance, SelectProvenance, FlushInsertProvenance,
     FlushUpdateProvenance, MirrorProvenance, LinkProvenance
  DEF Next, Step

\* A node of a component that its document speaks of in one place cites what
\* the whole plan would, whoever has merged it.
OnceInv ==
    \A id \in DOMAIN nodes :
        NamedOnce(nodes[id].document, nodes[id].name) => CitesAll(nodes[id], nodes[id].chunk)

LEMMA OnceStep == IInv /\ ProvenanceInv /\ OnceInv /\ [Next]_vars => OnceInv'
<1> SUFFICES ASSUME IInv, ProvenanceInv, OnceInv, [Next]_vars PROVE OnceInv'
  OBVIOUS
<1>1. CASE UNCHANGED nodes
  BY <1>1 DEF OnceInv
<1>2. ASSUME NEW w \in Workers, MirrorComponent(w) PROVE OnceInv'
  <2>1. PICK me : me = current[w].id
    OBVIOUS
  <2>2. /\ DOMAIN nodes' = DOMAIN nodes \cup {me}
        /\ \A id \in DOMAIN nodes : id # me => nodes'[id] = nodes[id]
        /\ nodes'[me].document = doc[w] /\ nodes'[me].name = ThisComponent(w).name
    BY <1>2, <2>1 DEF MirrorComponent, Put
  <2>3. ASSUME NamedOnce(doc[w], ThisComponent(w).name)
        PROVE  CitesAll(nodes'[me], nodes'[me].chunk)
    <3>1. /\ at[w] \in 1..Len(Components[doc[w]])
          /\ DOMAIN Components[doc[w]] = 1..Len(Components[doc[w]])
          /\ Len(Components[doc[w]]) \in Nat
      BY <1>2, PlanTypes DEF IInv, WorkerInv, Located, MirrorComponent
    <3>2. ~ \E j \in (at[w] + 1)..Len(Components[doc[w]]) :
              Components[doc[w]][j].name = ThisComponent(w).name
      BY <2>3, <3>1 DEF NamedOnce, ThisComponent
    <3> QED  BY <1>2, <2>1, <3>2, MirrorCites
  <2> HIDE DEF CitesAll, NamedOnce
  <2> QED  BY <2>2, <2>3 DEF OnceInv
<1> QED
  BY <1>1, <1>2
  DEF Next, Step, Begin, SelectComponent, SelectFindsMany, FlushInsert, FlushUpdate,
      LinkRelationship, LinkOwner, Commit, CommitUnacknowledged, Abort, stores, vars

\* Once no extraction is running, and unless one has failed, node and row of a
\* component cite the same chunk ("a graph node's provenance is readable
\* directly off the node"), whatever workers interleaved before; those of a
\* component named in one place always do, whatever fails.
THEOREM ProvenanceIsReadable == Spec => []ProvenanceAgrees
<1>1. Init => ProvenanceInv /\ OnceInv
  BY EmptyIsTable DEF Init, ProvenanceInv, ChunkInv, RowChunks, OnceInv
<1>2. IInv /\ ProvenanceInv /\ OnceInv => ProvenanceAgrees
  <2> SUFFICES ASSUME IInv, ProvenanceInv, OnceInv,
                      NEW id \in DOMAIN rows \cap DOMAIN nodes,
                      \/ aborted = 0 /\ \A w \in Workers : pc[w] = "idle"
                      \/ NamedOnce(rows[id].document, rows[id].name)
               PROVE  nodes[id].chunk = rows[id].chunk
    BY DEF ProvenanceAgrees
  <2>1. CitesAll(rows[id], rows[id].chunk) /\ SameComponent(rows[id], nodes[id])
    BY LeavesCites DEF ProvenanceInv, ChunkInv, IInv, StoreInv, RowsAreMirrored
  <2>2. CitesAll(nodes[id], nodes[id].chunk)
    <3>1. CASE aborted = 0 /\ \A w \in Workers : pc[w] = "idle"
      BY <3>1 DEF ProvenanceInv, ChunkInv, MergesAgain, IInv, WorkerInv, Located
    <3>2. CASE NamedOnce(rows[id].document, rows[id].name)
      BY <2>1, <3>2 DEF OnceInv, SameComponent
    <3> QED  BY <3>1, <3>2
  <2>3. Len(Components[rows[id].document]) \in Nat
    BY PlanTypes DEF IInv, TypeOK, IsTable, Row
  <2> QED  BY <2>1, <2>2, <2>3, CitesOneChunk DEF CitesAll, SameComponent
<1> QED  BY <1>1, <1>2, ProvenanceStep, OnceStep, Invariance, PTL DEF Spec

----------------------------------------------------------------------------
(***************************************************************************)
(* Extractions that wait for rows: each changes the rows of its document   *)
(* in the order of one plan, so whoever waits is behind the one it waits   *)
(* for.                                                                    *)
(***************************************************************************)

\* Upserting entry j of d's plan changes the row that the whole plan leaves.
Dirty(d, j) ==
    LET c == Components[d][j]
        size == Len(Components[d])
    IN  ~ (/\ Describes(d, c.name, size, c.description)
           /\ c.chunk = None \/ Cites(d, c.name, size, c.chunk))

\* A transaction has written the row of each such entry it has passed, and no
\* committed row of another.
WaitInv(w) ==
    /\ pc[w] # "idle" =>
          \A j \in 1..FlushedTo(w) :
              Dirty(doc[w], j) => pg[w][Components[doc[w]][j].name] \in DOMAIN tx[w]
    /\ \A id \in DOMAIN tx[w] \cap DOMAIN rows :
          \E j \in 1..FlushedTo(w) :
              Components[doc[w]][j].name = tx[w][id].name /\ Dirty(doc[w], j)

\* An entry that agrees with a committed row is not dirty; one that does not is.
LEMMA DirtyChanges ==
    ASSUME IInv, ProvenanceInv, NEW id \in DOMAIN rows, NEW d, NEW j,
           rows[id].document = d, Components[d][j].name = rows[id].name
    PROVE  Dirty(d, j) <=>
               ~ (/\ rows[id].description = Components[d][j].description
                  /\ \/ Components[d][j].chunk = None
                     \/ rows[id].chunk = Components[d][j].chunk)
<1> DEFINE n == rows[id].name
<1> DEFINE size == Len(Components[d])
<1>1. Cites(d, n, size, rows[id].chunk) /\ Describes(d, n, size, rows[id].description)
  BY LeavesCites DEF ProvenanceInv, ChunkInv, CitesAll
<1>2. size \in Nat
  <2>1. rows[id] \in Row
    BY DEF IInv, TypeOK, IsTable
  <2> QED  BY <2>1, PlanTypes DEF Row
<1>3. /\ Describes(d, n, size, Components[d][j].description) =>
             rows[id].description = Components[d][j].description
      /\ Cites(d, n, size, Components[d][j].chunk) =>
             rows[id].chunk = Components[d][j].chunk
  BY <1>1, <1>2, CitesOneChunk, DescribesOnce
<1> QED  BY <1>1, <1>3 DEF Dirty

\* When the ORM sends an UPDATE: what the code assigns differs from the object.
LEMMA AssignedChanges ==
    ASSUME NEW w \in Workers, current[w] \in OrmObject
    PROVE  Assigned(w) # current[w] <=>
               ~ (/\ current[w].description = ThisComponent(w).description
                  /\ \/ ThisComponent(w).chunk = None
                     \/ current[w].chunk = ThisComponent(w).chunk)
<1> DEFINE old == current[w]
<1> DEFINE x == ThisComponent(w).description
<1> DEFINE c == IF ThisComponent(w).chunk # None THEN ThisComponent(w).chunk ELSE old.chunk
<1>1. old = [id |-> old.id, description |-> old.description, chunk |-> old.chunk]
  BY DEF OrmObject
<1>2. Assigned(w) = [old EXCEPT !.description = x, !.chunk = c]
  BY <1>1 DEF Assigned
<1>3. Assigned(w) = [id |-> old.id, description |-> x, chunk |-> c]
  <2> HIDE DEF old, x, c
  <2> QED  BY <1>1, <1>2
<1>4. Assigned(w) = old <=> old.description = x /\ old.chunk = c
  <2> HIDE DEF old, x, c
  <2> QED  BY <1>1, <1>3
<1> QED  BY <1>4

\* A worker that flushes nothing, while no row of its own is committed.
LEMMA WaitInvStays ==
    ASSUME NEW w \in Workers, WaitInv(w), pc'[w] # "idle" => pc[w] # "idle",
           tx'[w] = tx[w], pg'[w] = pg[w], doc'[w] = doc[w], FlushedTo(w)' = FlushedTo(w),
           DOMAIN tx[w] \cap DOMAIN rows' \subseteq DOMAIN rows
    PROVE  WaitInv(w)'
<1>1. pc'[w] # "idle" =>
         \A j \in 1..FlushedTo(w)' :
             Dirty(doc'[w], j) => pg'[w][Components[doc'[w]][j].name] \in DOMAIN tx'[w]
  BY DEF WaitInv
<1>2. \A id \in DOMAIN tx'[w] \cap DOMAIN rows' :
         \E j \in 1..FlushedTo(w)' :
             Components[doc'[w]][j].name = tx'[w][id].name /\ Dirty(doc'[w], j)
  BY DEF WaitInv
<1> QED  BY <1>1, <1>2 DEF WaitInv, Dirty, Cites, Describes

\* FlushInsert and FlushUpdate: the worker has flushed one entry more.
LEMMA FlushWaitInv ==
    ASSUME IInv, ProvenanceInv, NEW w \in Workers, WaitInv(w), FlushInsert(w) \/ FlushUpdate(w)
    PROVE  WaitInv(w)'
<1> DEFINE this == ThisComponent(w)
<1> DEFINE k == at[w] - 1
<1>1. /\ doc[w] \in Documents /\ pc[w] = "flush" /\ next_id \in Nat
      /\ at[w] \in 1..Len(Components[doc[w]]) /\ Len(Components[doc[w]]) \in Nat
      /\ this = Components[doc[w]][k + 1] /\ k \in Nat
  BY PlanTypes DEF IInv, TypeOK, WorkerInv, Located, FlushInsert, FlushUpdate, ThisComponent
<1>2. doc' = doc /\ rows' = rows /\ pc'[w] = "mirror" /\ at'[w] = at[w]
  BY DEF IInv, TypeOK, FlushInsert, FlushUpdate, Goto, stores
<1>3. FlushedTo(w) = k /\ FlushedTo(w)' = k + 1
  BY <1>1, <1>2 DEF FlushedTo
<1>4. \A j \in 1..k : Components[doc[w]][j].name \in DOMAIN pg[w]
  BY <1>1 DEF IInv, WorkerInv, PgCovers, Passed
<1>5. PICK me : /\ DOMAIN tx[w] \subseteq DOMAIN tx'[w] /\ DOMAIN tx'[w] \subseteq DOMAIN tx[w] \cup {me}
                /\ \A id \in DOMAIN tx[w] : id # me => tx'[w][id] = tx[w][id]
                /\ pg'[w] = Put(pg[w], this.name, me)
                /\ this.name \in DOMAIN pg[w] => pg[w][this.name] = me
                /\ Dirty(doc[w], k + 1) => me \in DOMAIN tx'[w]
                /\ me \in DOMAIN tx'[w] /\ me \in DOMAIN rows =>
                      /\ tx'[w][me].name = this.name
                      /\ me \in DOMAIN tx[w] =>
                            tx[w][me].name = this.name
                      /\ me \notin DOMAIN tx[w] => Dirty(doc[w], k + 1)
  <2>1. CASE FlushInsert(w)
    <3>1. /\ tx'[w] = Put(tx[w], next_id, NewRow(w)) /\ pg'[w] = Put(pg[w], this.name, next_id)
          /\ current[w] = None
      BY <2>1 DEF IInv, TypeOK, FlushInsert
    <3>2. this.name \notin DOMAIN pg[w]
      BY <1>1, <3>1 DEF ProvenanceInv, RowChunks
    <3>3. next_id \notin DOMAIN rows
      BY <1>1 DEF IInv, StoreInv, Allocated
    <3> HIDE DEF k, this
    <3> QED  BY <3>1, <3>2, <3>3 DEF Put
  <2>2. CASE FlushUpdate(w)
    <3> DEFINE id == current[w].id
    <3> DEFINE now == Assigned(w)
    <3> DEFINE row == [Visible(w)[id] EXCEPT !.description = now.description, !.chunk = now.chunk]
    <3>1. /\ \/ now = current[w] /\ tx' = tx
             \/ now # current[w] /\ tx'[w] = Put(tx[w], id, row)
          /\ pg'[w] = Put(pg[w], this.name, id) /\ current[w] # None
      BY <2>2 DEF IInv, TypeOK, FlushUpdate
    <3>2. /\ this.name \in DOMAIN pg[w] => pg[w][this.name] = id
          /\ IsRowOf(w, id, this.name)
          /\ current[w].description = Visible(w)[id].description
          /\ current[w].chunk = Visible(w)[id].chunk
          /\ current[w] \in OrmObject
      BY <1>1, <3>1 DEF ProvenanceInv, RowChunks, IInv, TypeOK, WorkerInv, CurrentRow
    <3>3. id \in DOMAIN tx[w] => tx[w][id].name = this.name
      BY <3>2 DEF IsRowOf, Visible, Overlay
    <3>4. Visible(w)[id] \in Row /\ row.name = this.name
      <4>1. IsTable(Visible(w), Id, Row)
        BY OverlayIsTable DEF IInv, TypeOK, Visible
      <4>2. Visible(w)[id] \in Row /\ Visible(w)[id].name = this.name
        BY <3>2, <4>1 DEF IsRowOf, IsTable
      <4> HIDE DEF id, now
      <4> QED  BY <4>2 DEF Row
    <3>5. id \notin DOMAIN tx[w] => (Dirty(doc[w], k + 1) <=> now # current[w])
      <4> SUFFICES ASSUME id \notin DOMAIN tx[w]
                   PROVE  Dirty(doc[w], k + 1) <=> now # current[w]
        OBVIOUS
      <4>1. /\ id \in DOMAIN rows /\ Visible(w)[id] = rows[id]
            /\ rows[id].document = doc[w] /\ rows[id].name = this.name
        BY <3>2 DEF IsRowOf, Visible, Overlay
      <4>2. now # current[w] <=>
               ~ (/\ current[w].description = this.description
                  /\ this.chunk = None \/ current[w].chunk = this.chunk)
        BY <3>2, AssignedChanges DEF IInv
      <4>3. Dirty(doc[w], k + 1) <=>
               ~ (/\ rows[id].description = this.description
                  /\ this.chunk = None \/ rows[id].chunk = this.chunk)
        <5>1. this = Components[doc[w]][k + 1] /\ this.name = rows[id].name
          BY <1>1, <4>1
        <5> HIDE DEF this, id, k
        <5> QED  BY <4>1, <5>1, DirtyChanges
      <4> QED  BY <3>2, <4>1, <4>2, <4>3
    <3> HIDE DEF k, this, id, row, now
    <3>6. CASE now = current[w] /\ tx' = tx
      BY <3>1, <3>2, <3>3, <3>5, <3>6
    <3>7. CASE now # current[w] /\ tx'[w] = Put(tx[w], id, row)
      BY <3>1, <3>2, <3>3, <3>4, <3>5, <3>7 DEF Put
    <3> QED  BY <3>1, <3>6, <3>7
  <2> QED  BY <2>1, <2>2
<1>6. this.name = Components[doc[w]][k + 1].name
  BY <1>1
<1> HIDE DEF this
<1>7. ASSUME NEW j \in 1..(k + 1), Dirty(doc[w], j)
      PROVE  pg'[w][Components[doc[w]][j].name] \in DOMAIN tx'[w]
  <2>1. CASE j = k + 1
    BY <1>5, <1>6, <1>7, <2>1 DEF Put
  <2>2. CASE j # k + 1
    <3>1. j \in 1..k
      BY <1>1, <1>7, <2>2
    <3>2. /\ Components[doc[w]][j].name \in DOMAIN pg[w]
          /\ pg[w][Components[doc[w]][j].name] \in DOMAIN tx[w]
      BY <1>1, <1>3, <1>4, <1>7, <3>1 DEF WaitInv
    <3> QED  BY <1>5, <3>2 DEF Put
  <2> QED  BY <2>1, <2>2
<1>8. ASSUME NEW id \in DOMAIN tx'[w] \cap DOMAIN rows
      PROVE  \E j \in 1..(k + 1) :
                 Components[doc[w]][j].name = tx'[w][id].name /\ Dirty(doc[w], j)
  <2>1. CASE id = me /\ id \notin DOMAIN tx[w]
    BY <1>1, <1>5, <1>6, <1>8, <2>1
  <2>2. CASE id \in DOMAIN tx[w]
    <3>1. tx'[w][id].name = tx[w][id].name
      BY <1>5, <1>8, <2>2
    <3>2. PICK j \in 1..k : Components[doc[w]][j].name = tx[w][id].name /\ Dirty(doc[w], j)
      BY <1>3, <1>8, <2>2 DEF WaitInv
    <3>3. j \in 1..(k + 1)
      BY <1>1, <3>2
    <3> QED  BY <3>1, <3>2, <3>3
  <2> QED  BY <1>5, <2>1, <2>2
<1> HIDE DEF k
<1>9. \A j \in 1..FlushedTo(w)' :
         Dirty(doc'[w], j) => pg'[w][Components[doc'[w]][j].name] \in DOMAIN tx'[w]
  BY <1>2, <1>3, <1>7
<1>10. \A id \in DOMAIN tx'[w] \cap DOMAIN rows' :
          \E j \in 1..FlushedTo(w)' :
              Components[doc'[w]][j].name = tx'[w][id].name /\ Dirty(doc'[w], j)
  BY <1>2, <1>3, <1>8
<1> QED  BY <1>9, <1>10 DEF WaitInv, Dirty, Cites, Describes

LEMMA WaitStep ==
    IInv /\ ProvenanceInv /\ (\A w \in Workers : WaitInv(w)) /\ [Next]_vars =>
        (\A w \in Workers : WaitInv(w))'
<1> SUFFICES ASSUME IInv, ProvenanceInv, \A w \in Workers : WaitInv(w), [Next]_vars,
                    NEW v \in Workers
             PROVE  WaitInv(v)'
  OBVIOUS
<1>1. ASSUME Bystander(v), DOMAIN tx[v] \cap DOMAIN rows' \subseteq DOMAIN rows
      PROVE  WaitInv(v)'
  BY <1>1, WaitInvStays DEF Bystander, FlushedTo
<1>2. CASE UNCHANGED vars
  BY <1>1, <1>2 DEF vars, Bystander
<1>3. ASSUME NEW w \in Workers, NEW d \in Documents, Begin(w, d) PROVE WaitInv(v)'
  <2>1. /\ v # w => Bystander(v)
        /\ DOMAIN tx'[w] = {} /\ pc'[w] = Start(d) /\ at'[w] = 1 /\ doc'[w] = d /\ rows' = rows
    BY <1>3 DEF IInv, TypeOK, WorkerInv, Located, Begin, Goto, Bystander, stores
  <2>2. 1..FlushedTo(w)' = {}
    <3>1. CASE Start(d) = "select"
      BY <2>1, <3>1 DEF FlushedTo
    <3>2. CASE Start(d) # "select"
      <4>1. Len(Components[d]) = 0
        BY <3>2, PlanPositions, PlanTypes
      <4> QED  BY <2>1, <3>2, <4>1, PlanPositions DEF FlushedTo
    <3> QED  BY <3>1, <3>2
  <2> QED  BY <1>1, <2>1, <2>2 DEF WaitInv
<1>4. ASSUME NEW w \in Workers, Leave(w), rows' = rows \/ rows' = Overlay(rows, tx[w])
      PROVE  WaitInv(v)'
  <2>1. /\ v # w => Bystander(v)
        /\ DOMAIN tx'[w] = {} /\ pc'[w] = "idle"
    BY <1>4, LeaveInv DEF IInv, TypeOK, Leave, Goto
  <2>2. v # w => DOMAIN tx[v] \cap DOMAIN rows' \subseteq DOMAIN rows
    BY <1>4 DEF Overlay, IInv, StoreInv, RowLocksExclude
  <2> QED  BY <1>1, <2>1, <2>2 DEF WaitInv
<1>5. ASSUME NEW w \in Workers, SelectComponent(w) \/ MirrorComponent(w)
                                \/ LinkRelationship(w) \/ LinkOwner(w)
      PROVE  WaitInv(v)'
  <2>1. v # w => Bystander(v)
    BY <1>5 DEF IInv, TypeOK, SelectComponent, MirrorComponent, LinkRelationship, LinkOwner,
                Goto, Bystander
  <2>2. UNCHANGED <<rows, tx, pg, doc>> /\ pc[w] # "idle"
    BY <1>5 DEF SelectComponent, MirrorComponent, LinkRelationship, LinkOwner, stores, counters
  <2>3. FlushedTo(w)' = FlushedTo(w)
    <3>1. CASE SelectComponent(w)
      BY <3>1 DEF IInv, TypeOK, SelectComponent, Goto, FlushedTo
    <3>2. CASE MirrorComponent(w)
      <4>1. /\ doc[w] \in Documents /\ at[w] \in 1..Len(Components[doc[w]])
            /\ Len(Components[doc[w]]) \in Nat /\ pc[w] = "mirror"
        BY <3>2, PlanTypes DEF IInv, WorkerInv, Located, MirrorComponent
      <4>2. \/ pc'[w] = "select" /\ at'[w] = at[w] + 1
            \/ pc'[w] = AfterComponents(doc[w]) /\ at[w] = Len(Components[doc[w]])
        BY <3>2, <4>1 DEF IInv, TypeOK, MirrorComponent, Goto
      <4> QED  BY <2>2, <4>1, <4>2, PlanPositions DEF FlushedTo
    <3>3. CASE LinkRelationship(w) \/ LinkOwner(w)
      BY <2>2, <3>3 DEF IInv, TypeOK, LinkRelationship, LinkOwner, Goto, AfterRelationships, FlushedTo
    <3> QED  BY <1>5, <3>1, <3>2, <3>3
  <2> QED  BY <1>1, <2>1, <2>2, <2>3, WaitInvStays
<1>6. ASSUME NEW w \in Workers, FlushInsert(w) \/ FlushUpdate(w) PROVE WaitInv(v)'
  <2>1. (v # w => Bystander(v)) /\ rows' = rows
    BY <1>6 DEF IInv, TypeOK, FlushInsert, FlushUpdate, Goto, Bystander, stores
  <2> QED  BY <1>1, <1>6, <2>1, FlushWaitInv
<1>7. ASSUME NEW w \in Workers, SelectFindsMany(w) \/ Commit(w) \/ CommitUnacknowledged(w) \/ Abort(w)
      PROVE  WaitInv(v)'
  <2>1. Leave(w) /\ (rows' = rows \/ rows' = Overlay(rows, tx[w]))
    BY <1>7 DEF SelectFindsMany, Commit, CommitUnacknowledged, Abort, stores
  <2> QED  BY <1>4, <2>1
<1> QED  BY <1>2, <1>3, <1>5, <1>6, <1>7 DEF Next, Step

\* Whoever waits is behind the one it waits for, if that one waits too.
LEMMA WaitsForOneAhead ==
    ASSUME IInv, ProvenanceInv, \A v \in Workers : WaitInv(v),
           NEW w \in Workers, NEW u \in Workers, WaitsFor(w, u), pc[u] = "flush"
    PROVE  doc[w] \in Documents /\ doc[u] = doc[w] /\ at[w] < at[u]
<1> DEFINE id == current[w].id
<1> DEFINE n == ThisComponent(w).name
<1>1. /\ doc[w] \in Documents /\ pc[w] = "flush" /\ current[w] # None
      /\ at[w] \in 1..Len(Components[doc[w]]) /\ Len(Components[doc[w]]) \in Nat
      /\ IsRowOf(w, id, n) /\ id \in DOMAIN tx[u] /\ u # w
  BY PlanTypes DEF WaitsFor, IInv, WorkerInv, Located, CurrentRow
<1>2. id \notin DOMAIN tx[w]
  BY <1>1 DEF IInv, StoreInv, RowLocksExclude
<1>3. id \in DOMAIN rows /\ rows[id].document = doc[w] /\ rows[id].name = n
  BY <1>1, <1>2 DEF IsRowOf, Visible, Overlay
<1>4. doc[u] = doc[w] /\ tx[u][id].name = n
  BY <1>1, <1>3 DEF IInv, WorkerInv, OwnRows, SameComponent
<1>5. at[u] \in Nat /\ FlushedTo(u) = at[u] - 1 /\ FlushedTo(w) = at[w] - 1 /\ at[w] \in Nat
  BY <1>1 DEF IInv, TypeOK, FlushedTo
<1>6. PICK j \in 1..(at[u] - 1) : Components[doc[w]][j].name = n /\ Dirty(doc[w], j)
  BY <1>1, <1>3, <1>4, <1>5 DEF WaitInv
<1>7. ~ (j < at[w])
  <2> SUFFICES ASSUME j < at[w] PROVE FALSE
    OBVIOUS
  <2>1. j \in 1..(at[w] - 1)
    BY <1>5, <1>6
  <2>2. pg[w][n] \in DOMAIN tx[w]
    BY <1>1, <1>5, <1>6, <2>1 DEF WaitInv
  <2>3. n \in DOMAIN pg[w]
    BY <1>1, <1>6, <2>1 DEF IInv, WorkerInv, PgCovers, Passed
  <2>4. pg[w][n] = id
    BY <1>1, <2>3 DEF ProvenanceInv, RowChunks
  <2> QED  BY <1>2, <2>2, <2>4
<1> QED  BY <1>1, <1>4, <1>5, <1>6, <1>7

\* A set of naturals has a least member.
LEMMA LeastMember ==
    ASSUME NEW S \in SUBSET Nat, S # {}
    PROVE  \E least \in S : \A x \in S : least <= x
<1>1. OpToRel(<, Nat) = {pair \in Nat \X Nat : pair[1] < pair[2]}
  BY Zenon DEF OpToRel
<1>2. PICK least \in S : \A x \in S : ~ (<<x, least>> \in OpToRel(<, Nat))
  BY NatLessThanWellFounded, WFMin, Zenon
<1>3. \A x \in S : <<x, least>> \notin {pair \in Nat \X Nat : pair[1] < pair[2]}
  BY <1>1, <1>2, Zenon
<1>4. ASSUME NEW x \in S, ~ (least <= x)
      PROVE  <<x, least>> \in {pair \in Nat \X Nat : pair[1] < pair[2]}
  <2>1. x \in Nat /\ least \in Nat /\ x < least
    BY <1>4
  <2> QED  BY <2>1
<1> QED  BY <1>3, <1>4

\* Extractions that wait for each other's rows never wait in a circle, for any
\* plans and any number of workers: of a group that waits within itself, one
\* that has got furthest in its document waits for nobody.  It is the order in
\* which the code upserts, the text's (or the sorted names'), that rules a
\* deadlock out.
THEOREM WaitsNeverCircle == Spec => []NoCircularWait
<1> DEFINE WaitInvs == \A w \in Workers : WaitInv(w)
<1>1. Init => ProvenanceInv /\ WaitInvs
  BY EmptyIsTable DEF Init, ProvenanceInv, ChunkInv, RowChunks, WaitInv
<1>2. IInv /\ ProvenanceInv /\ WaitInvs => NoCircularWait
  <2> SUFFICES ASSUME IInv, ProvenanceInv, WaitInvs, NEW group \in SUBSET Workers,
                      group # {},
                      \A w \in group : \E u \in group : WaitsFor(w, u)
               PROVE  FALSE
    BY DEF NoCircularWait
  <2>1. \A w \in group : pc[w] = "flush"
    BY DEF WaitsFor
  <2>2. PICK some : some \in group
    OBVIOUS
  <2> DEFINE d == doc[some]
  <2> DEFINE peers == {w \in group : doc[w] = d}
  <2>3. \A w \in peers : \E u \in peers : at[w] < at[u]
    BY <2>1, WaitsForOneAhead
  <2>4. d \in Documents /\ Len(Components[d]) \in Nat
    BY <2>1, <2>2, PlanTypes DEF IInv, WorkerInv, Located
  <2>5. \A w \in peers : at[w] \in Nat /\ Len(Components[d]) - at[w] \in Nat
    BY <2>1, <2>4 DEF IInv, WorkerInv, Located
  <2> DEFINE size == Len(Components[d])
  <2> DEFINE left == {size - at[w] : w \in peers}
  <2>6. some \in peers
    BY <2>2
  <2> HIDE DEF peers, d
  <2>7. left \in SUBSET Nat /\ left # {}
    BY <2>5, <2>6
  <2>8. PICK least \in left : \A x \in left : least <= x
    <3> HIDE DEF left
    <3> QED  BY <2>7, LeastMember
  <2>9. PICK w \in peers : least = size - at[w]
    OBVIOUS
  <2>10. PICK u \in peers : at[w] < at[u]
    BY <2>3
  <2>11. least <= size - at[u]
    BY <2>8
  <2> QED  BY <2>4, <2>5, <2>9, <2>10, <2>11
<1>3. IInv /\ ProvenanceInv /\ WaitInvs /\ [Next]_vars => WaitInvs'
  BY WaitStep
<1> HIDE DEF WaitInvs
<1> QED  BY <1>1, <1>2, <1>3, ProvenanceStep, Invariance, PTL DEF Spec

----------------------------------------------------------------------------
\* The orphans of each component are finitely many, at most one for each failure.
OrphansInv ==
    \A d \in Documents, n \in ComponentNames :
        IsFiniteSet(Orphans(d, n)) /\ Cardinality(Orphans(d, n)) <= aborted

\* A step that makes no orphan.
LEMMA NoNewOrphans ==
    ASSUME OrphansInv, aborted \in Nat, aborted' \in Nat, aborted <= aborted',
           \A d \in Documents, n \in ComponentNames : Orphans(d, n)' \subseteq Orphans(d, n)
    PROVE  OrphansInv'
<1> SUFFICES ASSUME NEW d \in Documents, NEW n \in ComponentNames
             PROVE  IsFiniteSet(Orphans(d, n)') /\ Cardinality(Orphans(d, n)') <= aborted'
  BY DEF OrphansInv
<1> DEFINE old == Orphans(d, n)
           new == Orphans(d, n)'
<1>1. IsFiniteSet(old) /\ Cardinality(old) <= aborted /\ new \subseteq old
  BY DEF OrphansInv
<1> HIDE DEF old, new
<1>2. /\ IsFiniteSet(new) /\ Cardinality(new) <= Cardinality(old)
      /\ Cardinality(old) \in Nat /\ Cardinality(new) \in Nat
  BY <1>1, FS_Subset, FS_CardinalityType
<1>3. IsFiniteSet(new) /\ Cardinality(new) <= aborted'
  BY <1>1, <1>2
<1> QED  BY <1>3 DEF new

\* A failure makes orphans of what its transaction had inserted, which is one
\* row of a component.
LEMMA FailureOrphansOne ==
    ASSUME IInv, ProvenanceInv, OrphansInv, NEW w \in Workers, Leave(w),
           UNCHANGED <<rows, nodes>>, aborted' = aborted + 1
    PROVE  OrphansInv'
<1> SUFFICES ASSUME NEW d \in Documents, NEW n \in ComponentNames
             PROVE  IsFiniteSet(Orphans(d, n)') /\ Cardinality(Orphans(d, n)') <= aborted'
  BY DEF OrphansInv
<1> DEFINE old == Orphans(d, n)
           new == Orphans(d, n)'
<1>1. /\ \A u \in Workers \ {w} : tx'[u] = tx[u]
      /\ aborted \in Nat
  BY LeaveInv DEF IInv, TypeOK, Bystander
<1>2. \A id \in new \ old : id \in DOMAIN tx[w] /\ tx[w][id].name = n
  BY <1>1 DEF Orphans, IInv, WorkerInv, OwnRows, SameComponent
<1>3. \A a, b \in new \ old : a = b
  BY <1>2 DEF ProvenanceInv, RowChunks
<1>4. IsFiniteSet(old) /\ Cardinality(old) <= aborted
  BY DEF OrphansInv
<1> HIDE DEF old, new
<1>5. PICK x : new \subseteq old \cup {x}
  BY <1>3
<1>6. /\ IsFiniteSet(old \cup {x}) /\ Cardinality(old) \in Nat
      /\ Cardinality(old \cup {x}) <= Cardinality(old) + 1
      /\ Cardinality(old \cup {x}) \in Nat
  <2>1. Cardinality(old) \in Nat
    BY <1>4, FS_CardinalityType
  <2>2. /\ IsFiniteSet(old \cup {x})
       /\ \/ Cardinality(old \cup {x}) = Cardinality(old)
          \/ Cardinality(old \cup {x}) = Cardinality(old) + 1
    BY <1>4, FS_AddElement
  <2> QED  BY <2>1, <2>2
<1>7. /\ IsFiniteSet(new) /\ Cardinality(new) <= Cardinality(old \cup {x})
      /\ Cardinality(new) \in Nat
  BY <1>5, <1>6, FS_Subset, FS_CardinalityType
<1>8. IsFiniteSet(new) /\ Cardinality(new) <= aborted + 1
  BY <1>1, <1>4, <1>6, <1>7
<1> QED  BY <1>8 DEF new

LEMMA OrphansStep == IInv /\ ProvenanceInv /\ OrphansInv /\ [Next]_vars => OrphansInv'
<1> SUFFICES ASSUME IInv, ProvenanceInv, OrphansInv, [Next]_vars PROVE OrphansInv'
  OBVIOUS
<1>0. aborted \in Nat
  BY DEF IInv, TypeOK
<1>1. ASSUME NEW w \in Workers, MirrorComponent(w) PROVE OrphansInv'
  <2>1. PICK me : me = current[w].id
    OBVIOUS
  <2>2. /\ me \in DOMAIN rows \cup DOMAIN tx[w]
        /\ DOMAIN nodes' = DOMAIN nodes \cup {me}
        /\ \A id \in DOMAIN nodes : id # me => nodes'[id] = nodes[id]
        /\ UNCHANGED <<rows, tx, aborted>>
    BY <1>1, <2>1 DEF IInv, WorkerInv, CurrentRow, IsRowOf, Visible, Overlay, MirrorComponent,
                      Put, counters
  <2>3. \A d \in Documents, n \in ComponentNames : Orphans(d, n)' \subseteq Orphans(d, n)
    BY <2>2 DEF Orphans
  <2> QED  BY <1>0, <2>2, <2>3, NoNewOrphans
<1>2. ASSUME NEW w \in Workers, FlushInsert(w) \/ FlushUpdate(w) PROVE OrphansInv'
  <2>1. /\ \A u \in Workers : DOMAIN tx[u] \subseteq DOMAIN tx'[u]
        /\ UNCHANGED <<rows, nodes, aborted>>
    BY <1>2 DEF FlushInsert, FlushUpdate, IInv, TypeOK, Put, stores, counters
  <2>2. \A d \in Documents, n \in ComponentNames : Orphans(d, n)' \subseteq Orphans(d, n)
    BY <2>1 DEF Orphans
  <2> QED  BY <1>0, <2>1, <2>2, NoNewOrphans
<1>3. ASSUME NEW w \in Workers, Commit(w) \/ CommitUnacknowledged(w) PROVE OrphansInv'
  <2>1. /\ DOMAIN rows' = DOMAIN rows \cup DOMAIN tx[w] /\ UNCHANGED nodes
        /\ \A u \in Workers \ {w} : tx'[u] = tx[u]
        /\ aborted' \in Nat /\ aborted <= aborted'
    BY <1>3, LeaveInv DEF Commit, CommitUnacknowledged, Overlay, IInv, TypeOK, Bystander
  <2>2. \A d \in Documents, n \in ComponentNames : Orphans(d, n)' \subseteq Orphans(d, n)
    BY <2>1 DEF Orphans
  <2> QED  BY <1>0, <2>1, <2>2, NoNewOrphans
<1>4. ASSUME NEW w \in Workers, SelectFindsMany(w) \/ Abort(w) PROVE OrphansInv'
  BY <1>4, FailureOrphansOne DEF SelectFindsMany, Abort, stores
<1>5. ASSUME UNCHANGED <<rows, nodes, aborted, tx>> PROVE OrphansInv'
  <2>1. \A d \in Documents, n \in ComponentNames : Orphans(d, n)' \subseteq Orphans(d, n)
    BY <1>5 DEF Orphans
  <2> QED  BY <1>0, <1>5, <2>1, NoNewOrphans
<1> QED
  BY <1>1, <1>2, <1>3, <1>4, <1>5
  DEF Next, Step, Begin, SelectComponent, LinkRelationship, LinkOwner, stores, counters, vars

LEMMA OrphansInvHolds == Spec => []OrphansInv
<1>1. Init => ProvenanceInv
  BY EmptyIsTable DEF Init, ProvenanceInv, ChunkInv, RowChunks
<1>2. Init => OrphansInv
  <2> SUFFICES ASSUME Init, NEW d \in Documents, NEW n \in ComponentNames
               PROVE  IsFiniteSet(Orphans(d, n)) /\ Cardinality(Orphans(d, n)) <= aborted
    BY DEF OrphansInv
  <2>1. Orphans(d, n) = {} /\ aborted = 0
    BY EmptyIsTable DEF Init, Orphans
  <2> QED  BY <2>1, FS_EmptySet
<1> QED  BY <1>1, <1>2, OrphansStep, ProvenanceStep, Invariance, PTL DEF Spec

\* A failed extraction leaves at most one node of each component without its
\* row: MirrorComponent merges only nodes of rows it sees, only an exception
\* takes rows back, and a transaction inserts a component once.
THEOREM UnbackedNodesHaveACause == Spec => []UnbackedNodesComeFromAborts
<1>1. OrphansInv => UnbackedNodesComeFromAborts
  BY DEF OrphansInv, UnbackedNodesComeFromAborts
<1> QED  BY <1>1, OrphansInvHolds, PTL

(***************************************************************************)
(* What an answered extraction leaves behind.                              *)
(***************************************************************************)

\* The relationships a worker has linked, as a number of entries of its plan.
LinkedTo(w) ==
    IF pc[w] \in {"select", "flush", "mirror"} THEN 0
    ELSE IF pc[w] = "link" THEN at[w] - 1
    ELSE Len(Relationships[doc[w]])

\* They have their edges, and before the commit the owner has one.
LinksInv(w) ==
    pc[w] # "idle" =>
        /\ \A i \in 1..LinkedTo(w) :
              LET rel == Relationships[doc[w]][i]
              IN  {rel.source, rel.target} \subseteq DOMAIN pg[w] =>
                     <<rel.kind, pg[w][rel.source], pg[w][rel.target]>> \in DOMAIN edges
        /\ pc[w] = "commit" /\ Owner[doc[w]].team # None =>
              <<pg[w][Owner[doc[w]].component], Owner[doc[w]].team>> \in DOMAIN owned

CompleteInv == AckedExtractionIsComplete /\ \A w \in Workers : LinksInv(w)

\* Nothing an answered extraction has left is ever taken back.
LEMMA AckedStaysComplete ==
    ASSUME AckedExtractionIsComplete, Extends(rows', rows), UNCHANGED acked,
           DOMAIN edges \subseteq DOMAIN edges', DOMAIN owned \subseteq DOMAIN owned'
    PROVE  AckedExtractionIsComplete'
<1> DEFINE Old(d, n) == {id \in DOMAIN rows : rows[id].document = d /\ rows[id].name = n}
<1> DEFINE New(d, n) == {id \in DOMAIN rows' : rows'[id].document = d /\ rows'[id].name = n}
<1>1. \A d, n : Old(d, n) \subseteq New(d, n)
  BY DEF Extends, SameComponent
<1>2. \A d \in acked :
        /\ \A n \in PlanNames(d) : Old(d, n) # {}
        /\ \A i \in DOMAIN Relationships[d] :
              LET rel == Relationships[d][i]
              IN  {rel.source, rel.target} \subseteq PlanNames(d) =>
                    \E a \in Old(d, rel.source), b \in Old(d, rel.target) :
                        <<rel.kind, a, b>> \in DOMAIN edges
        /\ Owner[d].team # None =>
              \E c \in Old(d, Owner[d].component) : <<c, Owner[d].team>> \in DOMAIN owned
  BY DEF AckedExtractionIsComplete
<1>3. \A d \in acked' :
        /\ \A n \in PlanNames(d) : New(d, n) # {}
        /\ \A i \in DOMAIN Relationships[d] :
              LET rel == Relationships[d][i]
              IN  {rel.source, rel.target} \subseteq PlanNames(d) =>
                    \E a \in New(d, rel.source), b \in New(d, rel.target) :
                        <<rel.kind, a, b>> \in DOMAIN edges'
        /\ Owner[d].team # None =>
              \E c \in New(d, Owner[d].component) : <<c, Owner[d].team>> \in DOMAIN owned'
  <2> HIDE DEF Old, New
  <2> QED  BY <1>1, <1>2
<1> QED  BY <1>3 DEF AckedExtractionIsComplete

\* Neither are a worker's links, by the steps of others.
LEMMA LinksStay ==
    ASSUME NEW u \in Workers, LinksInv(u), Bystander(u),
           DOMAIN edges \subseteq DOMAIN edges', DOMAIN owned \subseteq DOMAIN owned'
    PROVE  LinksInv(u)'
<1>1. LinkedTo(u)' = LinkedTo(u)
  BY DEF LinkedTo, Bystander
<1> QED  BY <1>1 DEF LinksInv, Bystander

\* A worker that has no relationship behind it, and none to come if it commits.
LEMMA NothingLinked ==
    ASSUME NEW w \in Workers, doc'[w] \in Documents, at'[w] = 1 \/ pc'[w] # "link",
           pc'[w] \notin {"select", "flush", "mirror", "link", "idle"}
               => Relationships[doc'[w]] = <<>>,
           pc'[w] = "commit" => Owner[doc'[w]].team = None
    PROVE  LinksInv(w)'
<1>1. pc'[w] = "idle" \/ LinkedTo(w)' = 0
  BY DEF LinkedTo
<1> QED  BY <1>1 DEF LinksInv

\* The plan of a worker that is done with it, in the rows it commits.
LEMMA PlanIsCommitted ==
    ASSUME IInv, NEW w \in Workers, pc[w] = "commit", rows' = Overlay(rows, tx[w]),
           NEW n \in PlanNames(doc[w])
    PROVE  /\ n \in DOMAIN pg[w] /\ pg[w][n] \in DOMAIN rows'
           /\ rows'[pg[w][n]].document = doc[w] /\ rows'[pg[w][n]].name = n
<1>1. n \in DOMAIN pg[w]
  <2>1. PICK i \in DOMAIN Components[doc[w]] : n = Components[doc[w]][i].name
    BY DEF PlanNames
  <2> QED  BY <2>1 DEF IInv, WorkerInv, PgCovers, Passed
<1>2. IsRowOf(w, pg[w][n], n)
  BY <1>1 DEF IInv, WorkerInv, PgRows
<1> QED  BY <1>1, <1>2 DEF IsRowOf, Visible

LEMMA CommitComplete ==
    ASSUME IInv, CompleteInv, NEW w \in Workers, Commit(w)
    PROVE  CompleteInv'
<1>1. /\ pc[w] = "commit" /\ doc[w] \in Documents /\ rows' = Overlay(rows, tx[w])
      /\ acked' = acked \cup {doc[w]} /\ UNCHANGED <<edges, owned>> /\ pc'[w] = "idle"
      /\ \A u \in Workers \ {w} : Bystander(u)
  BY LeaveInv DEF IInv, TypeOK, WorkerInv, Located, Commit, Leave, Goto
<1>2. Extends(rows', rows)
  BY <1>1 DEF Extends, Overlay, IInv, WorkerInv, OwnRows, SameComponent
<1> DEFINE RowsFor(d, n) == {id \in DOMAIN rows' : rows'[id].document = d /\ rows'[id].name = n}
<1> DEFINE Whole(d) ==
        /\ \A n \in PlanNames(d) : RowsFor(d, n) # {}
        /\ \A i \in DOMAIN Relationships[d] :
              LET rel == Relationships[d][i]
              IN  {rel.source, rel.target} \subseteq PlanNames(d) =>
                    \E a \in RowsFor(d, rel.source), b \in RowsFor(d, rel.target) :
                        <<rel.kind, a, b>> \in DOMAIN edges'
        /\ Owner[d].team # None =>
              \E c \in RowsFor(d, Owner[d].component) : <<c, Owner[d].team>> \in DOMAIN owned'
<1>3. ASSUME NEW d \in acked PROVE Whole(d)
  <2> DEFINE Old(n) == {id \in DOMAIN rows : rows[id].document = d /\ rows[id].name = n}
  <2>1. /\ \A n \in PlanNames(d) : Old(n) # {}
        /\ \A i \in DOMAIN Relationships[d] :
              LET rel == Relationships[d][i]
              IN  {rel.source, rel.target} \subseteq PlanNames(d) =>
                    \E a \in Old(rel.source), b \in Old(rel.target) :
                        <<rel.kind, a, b>> \in DOMAIN edges
        /\ Owner[d].team # None =>
              \E c \in Old(Owner[d].component) : <<c, Owner[d].team>> \in DOMAIN owned
    BY <1>3 DEF CompleteInv, AckedExtractionIsComplete
  <2>2. \A n : Old(n) \subseteq RowsFor(d, n)
    BY <1>2 DEF Extends, SameComponent
  <2> HIDE DEF Old, RowsFor
  <2> QED  BY <1>1, <2>1, <2>2
<1>4. Whole(doc[w])
  <2>1. \A n \in PlanNames(doc[w]) : n \in DOMAIN pg[w] /\ pg[w][n] \in RowsFor(doc[w], n)
    BY <1>1, PlanIsCommitted
  <2>2. ASSUME NEW i \in DOMAIN Relationships[doc[w]],
               Relationships[doc[w]][i].source \in PlanNames(doc[w]),
               Relationships[doc[w]][i].target \in PlanNames(doc[w])
        PROVE  <<Relationships[doc[w]][i].kind, pg[w][Relationships[doc[w]][i].source],
                 pg[w][Relationships[doc[w]][i].target]>> \in DOMAIN edges'
    <3>1. i \in 1..LinkedTo(w)
      <4>1. LinkedTo(w) = Len(Relationships[doc[w]])
        BY <1>1 DEF LinkedTo
      <4> QED  BY <1>1, <4>1, PlanAssumption
    <3> QED  BY <1>1, <2>1, <2>2, <3>1 DEF CompleteInv, LinksInv
  <2>3. Owner[doc[w]].team # None =>
            /\ Owner[doc[w]].component \in PlanNames(doc[w])
            /\ <<pg[w][Owner[doc[w]].component], Owner[doc[w]].team>> \in DOMAIN owned'
    BY <1>1, PlanAssumption DEF CompleteInv, LinksInv
  <2> HIDE DEF RowsFor
  <2> QED  BY <2>1, <2>2, <2>3
<1>5. AckedExtractionIsComplete'
  <2> HIDE DEF Whole
  <2>1. \A d \in acked' : Whole(d)
    BY <1>1, <1>3, <1>4
  <2> QED  BY <2>1 DEF AckedExtractionIsComplete, Whole
<1>6. LinksInv(w)'
  BY <1>1 DEF LinksInv
<1> QED  BY <1>1, <1>5, <1>6, LinksStay DEF CompleteInv

LEMMA LinkComplete ==
    ASSUME IInv, CompleteInv, NEW w \in Workers, LinkRelationship(w)
    PROVE  CompleteInv'
<1> DEFINE rel == ThisRelationship(w)
<1> DEFINE key == <<rel.kind, pg[w][rel.source], pg[w][rel.target]>>
<1>1. /\ pc[w] = "link" /\ doc[w] \in Documents
      /\ at[w] \in 1..Len(Relationships[doc[w]]) /\ Len(Relationships[doc[w]]) \in Nat
      /\ \A u \in Workers \ {w} : Bystander(u)
      /\ UNCHANGED <<rows, owned, acked, doc, pg>>
      /\ \/ pc'[w] = "link" /\ at'[w] = at[w] + 1
         \/ pc'[w] = AfterRelationships(doc[w]) /\ at[w] = Len(Relationships[doc[w]])
  BY PlanTypes DEF IInv, TypeOK, WorkerInv, Located, LinkRelationship, Goto, Bystander, counters
<1>2. /\ DOMAIN edges \subseteq DOMAIN edges'
      /\ {rel.source, rel.target} \subseteq DOMAIN pg[w] => key \in DOMAIN edges'
  BY <1>1, PgNodes DEF LinkRelationship, Put
<1>3. LinkedTo(w) = at[w] - 1 /\ LinkedTo(w)' = at[w]
  BY <1>1 DEF LinkedTo, AfterRelationships
<1>4. LinksInv(w)'
  <2>1. ASSUME NEW i \in 1..at[w],
               {Relationships[doc[w]][i].source, Relationships[doc[w]][i].target}
                   \subseteq DOMAIN pg[w]
        PROVE  <<Relationships[doc[w]][i].kind, pg[w][Relationships[doc[w]][i].source],
                 pg[w][Relationships[doc[w]][i].target]>> \in DOMAIN edges'
    <3>1. CASE i = at[w]
      BY <1>2, <2>1, <3>1 DEF ThisRelationship
    <3>2. CASE i # at[w]
      <4>1. i \in 1..LinkedTo(w)
        BY <1>1, <1>3, <3>2
      <4> QED  BY <1>1, <1>2, <2>1, <4>1 DEF CompleteInv, LinksInv
    <3> QED  BY <3>1, <3>2
  <2>2. pc'[w] = "commit" => Owner[doc[w]].team = None
    BY <1>1 DEF AfterRelationships
  <2> QED  BY <1>1, <1>3, <2>1, <2>2 DEF LinksInv
<1>5. Extends(rows', rows)
  BY <1>1 DEF Extends, SameComponent
<1> QED  BY <1>1, <1>2, <1>4, <1>5, LinksStay, AckedStaysComplete DEF CompleteInv

LEMMA OwnComplete ==
    ASSUME IInv, CompleteInv, NEW w \in Workers, LinkOwner(w)
    PROVE  CompleteInv'
<1> DEFINE plan == Owner[doc[w]]
<1>1. /\ pc[w] = "own" /\ doc[w] \in Documents /\ pc'[w] = "commit"
      /\ plan.component \in PlanNames(doc[w])
      /\ \A u \in Workers \ {w} : Bystander(u)
      /\ UNCHANGED <<rows, edges, acked, doc, pg>>
  BY PlanAssumption DEF IInv, TypeOK, WorkerInv, Located, LinkOwner, Goto, Bystander, counters
<1>2. plan.component \in DOMAIN pg[w]
  <2>1. PgCovers(w)
    BY DEF IInv, WorkerInv
  <2>2. Passed(w) = DOMAIN Components[doc[w]]
    BY <1>1 DEF Passed
  <2>3. PICK i \in DOMAIN Components[doc[w]] : Components[doc[w]][i].name = plan.component
    BY <1>1 DEF PlanNames
  <2> QED  BY <1>1, <2>1, <2>2, <2>3 DEF PgCovers
<1>3. /\ DOMAIN owned \subseteq DOMAIN owned'
      /\ <<pg[w][plan.component], plan.team>> \in DOMAIN owned'
  BY <1>1, <1>2, PgNodes DEF LinkOwner, Put
<1>4. LinkedTo(w)' = LinkedTo(w)
  BY <1>1 DEF LinkedTo
<1>5. LinksInv(w)'
  BY <1>1, <1>3, <1>4 DEF CompleteInv, LinksInv
<1>6. Extends(rows', rows)
  BY <1>1 DEF Extends, SameComponent
<1> QED  BY <1>1, <1>3, <1>5, <1>6, LinksStay, AckedStaysComplete DEF CompleteInv

\* The steps that touch no edge: the worker has linked nothing yet, or leaves.
LEMMA UnlinkedComplete ==
    ASSUME CompleteInv, NEW w \in Workers, \A u \in Workers \ {w} : Bystander(u),
           Extends(rows', rows), UNCHANGED <<edges, owned, acked>>, LinksInv(w)'
    PROVE  CompleteInv'
BY LinksStay, AckedStaysComplete DEF CompleteInv

LEMMA CompleteStep == IInv /\ CompleteInv /\ [Next]_vars => CompleteInv'
<1> SUFFICES ASSUME IInv, CompleteInv, [Next]_vars PROVE CompleteInv'
  OBVIOUS
<1>1. ASSUME NEW w \in Workers, NEW d \in Documents, Begin(w, d) PROVE CompleteInv'
  <2>1. /\ \A u \in Workers \ {w} : Bystander(u)
        /\ UNCHANGED <<rows, edges, owned, acked>>
        /\ pc'[w] = Start(d) /\ at'[w] = 1 /\ doc'[w] = d
    BY <1>1 DEF IInv, TypeOK, Begin, Goto, Bystander, stores
  <2>2. LinksInv(w)'
    BY <2>1, NothingLinked DEF Start, AfterComponents, AfterRelationships
  <2> QED  BY <2>1, <2>2, UnlinkedComplete DEF Extends, SameComponent
<1>2. ASSUME NEW w \in Workers, MirrorComponent(w) PROVE CompleteInv'
  <2>1. /\ \A u \in Workers \ {w} : Bystander(u)
        /\ UNCHANGED <<rows, edges, owned, acked>> /\ doc'[w] \in Documents
        /\ \/ pc'[w] = "select"
           \/ pc'[w] = AfterComponents(doc'[w]) /\ at'[w] = 1
    BY <1>2 DEF IInv, TypeOK, WorkerInv, Located, MirrorComponent, Goto, Bystander, counters
  <2>2. LinksInv(w)'
    BY <2>1, NothingLinked DEF AfterComponents, AfterRelationships
  <2> QED  BY <2>1, <2>2, UnlinkedComplete DEF Extends, SameComponent
<1>3. ASSUME NEW w \in Workers, SelectComponent(w) \/ FlushInsert(w) \/ FlushUpdate(w)
      PROVE  CompleteInv'
  <2>1. /\ \A u \in Workers \ {w} : Bystander(u)
        /\ UNCHANGED <<rows, edges, owned, acked>> /\ doc'[w] \in Documents
        /\ pc'[w] \in {"flush", "mirror"}
    BY <1>3 DEF IInv, TypeOK, WorkerInv, Located, SelectComponent, FlushInsert, FlushUpdate,
                Goto, Bystander, stores, counters
  <2>2. LinksInv(w)'
    BY <2>1, NothingLinked
  <2> QED  BY <2>1, <2>2, UnlinkedComplete DEF Extends, SameComponent
<1>4. ASSUME NEW w \in Workers, SelectFindsMany(w) \/ CommitUnacknowledged(w) \/ Abort(w)
      PROVE  CompleteInv'
  <2>1. /\ \A u \in Workers \ {w} : Bystander(u)
        /\ UNCHANGED <<edges, owned, acked>> /\ pc'[w] = "idle"
        /\ rows' = rows \/ rows' = Overlay(rows, tx[w])
    BY <1>4, LeaveInv DEF IInv, TypeOK, SelectFindsMany, CommitUnacknowledged, Abort, Leave,
                          Goto, stores
  <2>2. Extends(rows', rows)
    BY <2>1 DEF Extends, Overlay, IInv, WorkerInv, OwnRows, SameComponent
  <2>3. LinksInv(w)'
    BY <2>1 DEF LinksInv
  <2> QED  BY <2>1, <2>2, <2>3, UnlinkedComplete
<1>5. CASE UNCHANGED vars
  <2>1. \A u \in Workers : LinksInv(u)'
    BY <1>5, LinksStay DEF CompleteInv, vars, Bystander
  <2> QED  BY <1>5, <2>1, AckedStaysComplete DEF CompleteInv, vars, Extends, SameComponent
<1> QED
  BY <1>1, <1>2, <1>3, <1>4, <1>5, CommitComplete, LinkComplete, OwnComplete DEF Next, Step

\* An extraction that was answered 200 has left all of its plan behind, in
\* both stores, for any plans, workers and interleaving, and whatever other
\* extractions did or died of since.
THEOREM AnsweredIsComplete == Spec => []AckedExtractionIsComplete
<1>1. Init => CompleteInv
  BY DEF Init, CompleteInv, AckedExtractionIsComplete, LinksInv
<1>2. CompleteInv => AckedExtractionIsComplete
  BY DEF CompleteInv
<1> QED  BY <1>1, <1>2, CompleteStep, Invariance, PTL DEF Spec

----------------------------------------------------------------------------
(***************************************************************************)
(* Extractions one after another.                                          *)
(***************************************************************************)
OneWorker == \A u, w \in Workers : u = w

\* What a worker sees has one row for a component, and it inserts a row only
\* for a component it does not see.
SerialInv ==
    /\ NoDuplicateRows
    /\ \A w \in Workers :
          /\ \A a, b \in DOMAIN Visible(w) : SameComponent(Visible(w)[a], Visible(w)[b]) => a = b
          /\ pc[w] = "flush" /\ current[w] = None => Matches(w) = {}

\* What is seen is what is committed when nothing is open.
LEMMA SerialLeave ==
    ASSUME OneWorker, IInv, SerialInv, NEW w \in Workers, Leave(w),
           rows' = rows \/ rows' = Overlay(rows, tx[w])
    PROVE  SerialInv'
<1>0. \A u \in Workers : u = w
  BY DEF OneWorker
<1>1. DOMAIN tx'[w] = {} /\ pc'[w] = "idle"
  BY LeaveInv DEF IInv, TypeOK, Leave, Goto
<1>2. /\ \A a, b \in DOMAIN rows : SameComponent(rows[a], rows[b]) => a = b
      /\ \A a, b \in DOMAIN Overlay(rows, tx[w]) :
            SameComponent(Overlay(rows, tx[w])[a], Overlay(rows, tx[w])[b]) => a = b
  BY DEF SerialInv, NoDuplicateRows, Visible
<1>3. NoDuplicateRows'
  BY <1>2 DEF NoDuplicateRows
<1>4. DOMAIN Visible(w)' = DOMAIN rows' /\ \A id \in DOMAIN rows' : Visible(w)'[id] = rows'[id]
  BY <1>1 DEF Visible, Overlay
<1> QED  BY <1>0, <1>1, <1>3, <1>4 DEF SerialInv, NoDuplicateRows, SameComponent

\* The steps that write no row.
LEMMA SerialQuiet ==
    ASSUME OneWorker, SerialInv, NEW w \in Workers, UNCHANGED <<rows, tx>>,
           pc'[w] = "flush" /\ current'[w] = None => Matches(w)' = {}
    PROVE  SerialInv'
<1>1. \A u \in Workers : u = w /\ Visible(u)' = Visible(u)
  BY DEF OneWorker, Visible, Overlay
<1> QED  BY <1>1 DEF SerialInv, NoDuplicateRows

LEMMA SerialStep == OneWorker /\ IInv /\ SerialInv /\ [Next]_vars => SerialInv'
<1> SUFFICES ASSUME OneWorker, IInv, SerialInv, [Next]_vars PROVE SerialInv'
  OBVIOUS
<1>1. ASSUME NEW w \in Workers,
             SelectFindsMany(w) \/ Abort(w) \/ Commit(w) \/ CommitUnacknowledged(w)
      PROVE  SerialInv'
  BY <1>1, SerialLeave DEF SelectFindsMany, Abort, Commit, CommitUnacknowledged, stores
<1>2. ASSUME NEW w \in Workers, FlushInsert(w) PROVE SerialInv'
  <2> DEFINE row == NewRow(w)
  <2>1. /\ tx'[w] = Put(tx[w], next_id, row) /\ rows' = rows /\ pc'[w] = "mirror"
        /\ row.document = doc[w] /\ row.name = ThisComponent(w).name
        /\ Matches(w) = {} /\ \A u \in Workers : u = w
    BY <1>2 DEF FlushInsert, IInv, TypeOK, Goto, stores, SerialInv, OneWorker, NewRow
  <2> HIDE DEF row
  <2>2. /\ DOMAIN Visible(w)' = DOMAIN Visible(w) \cup {next_id} /\ Visible(w)'[next_id] = row
        /\ \A id \in DOMAIN Visible(w) : id # next_id => Visible(w)'[id] = Visible(w)[id]
    BY <2>1 DEF Visible, Overlay, Put
  <2>3. \A id \in DOMAIN Visible(w) : ~ SameComponent(Visible(w)[id], row)
    BY <2>1 DEF Matches, SameComponent
  <2>4. \A a, b \in DOMAIN Visible(w)' :
            SameComponent(Visible(w)'[a], Visible(w)'[b]) => a = b
    BY <2>2, <2>3 DEF SerialInv, SameComponent
  <2>5. NoDuplicateRows'
    BY <2>1 DEF SerialInv, NoDuplicateRows
  <2> QED  BY <2>1, <2>4, <2>5 DEF SerialInv
<1>3. ASSUME NEW w \in Workers, FlushUpdate(w) PROVE SerialInv'
  <2> DEFINE me == current[w].id
  <2> DEFINE row == [Visible(w)[me] EXCEPT !.description = Assigned(w).description,
                                           !.chunk = Assigned(w).chunk]
  <2>1. /\ rows' = rows /\ pc'[w] = "mirror" /\ \A u \in Workers : u = w
        /\ me \in DOMAIN Visible(w)
        /\ \/ tx' = tx
           \/ tx'[w] = Put(tx[w], me, row)
    BY <1>3 DEF FlushUpdate, IInv, TypeOK, Goto, stores, OneWorker, WorkerInv, CurrentRow, IsRowOf
  <2>2. NoDuplicateRows'
    BY <2>1 DEF SerialInv, NoDuplicateRows
  <2>3. CASE tx' = tx
    BY <2>1, <2>3, SerialQuiet
  <2>4. CASE tx'[w] = Put(tx[w], me, row)
    <3>1. Visible(w)[me] \in Row
      <4>1. IsTable(Visible(w), Id, Row)
        BY OverlayIsTable DEF IInv, TypeOK, Visible
      <4> QED  BY <2>1, <4>1 DEF IsTable
    <3>2. SameComponent(row, Visible(w)[me])
      BY <3>1 DEF Row, SameComponent
    <3> HIDE DEF row
    <3>3. /\ DOMAIN Visible(w)' = DOMAIN Visible(w) /\ Visible(w)'[me] = row
          /\ \A id \in DOMAIN Visible(w) : id # me => Visible(w)'[id] = Visible(w)[id]
      BY <2>1, <2>4 DEF Visible, Overlay, Put
    <3>4. \A id \in DOMAIN Visible(w) : SameComponent(Visible(w)'[id], Visible(w)[id])
      BY <3>2, <3>3 DEF SameComponent
    <3>5. \A a, b \in DOMAIN Visible(w)' :
            SameComponent(Visible(w)'[a], Visible(w)'[b]) => a = b
      BY <3>3, <3>4 DEF SerialInv, SameComponent
    <3> QED  BY <2>1, <2>2, <3>5 DEF SerialInv
  <2> QED  BY <2>1, <2>3, <2>4
<1>4. ASSUME NEW w \in Workers, SelectComponent(w) PROVE SerialInv'
  <2>1. /\ UNCHANGED <<rows, tx, doc>> /\ at'[w] = at[w]
        /\ Matches(w) = {} \/ current'[w] # None
    <3>1. ASSUME NEW id \in Matches(w),
                 current' = [current EXCEPT ![w] = Loaded(w, id)]
          PROVE  current'[w] # None
      <4>1. IInv'
        BY <1>4, SelectComponentInv
      <4>2. IsTable(Visible(w), Id, Row)
        BY OverlayIsTable DEF IInv, TypeOK, Visible
      <4>3. current'[w] = Loaded(w, id)
        BY <3>1 DEF IInv, TypeOK
      <4>4. current'[w] \in OrmObject
        BY <4>2, <4>3 DEF Matches, IsTable, OrmObject, Row, Loaded
      <4> QED  BY <4>4, PlanAssumption
    <3> QED  BY <1>4, <3>1 DEF SelectComponent, IInv, TypeOK, Goto, stores
  <2>2. Matches(w)' = Matches(w)
    BY <2>1 DEF Matches, Visible, Overlay, ThisComponent
  <2> QED  BY <2>1, <2>2, SerialQuiet
<1>5. ASSUME NEW w \in Workers, NEW d \in Documents, Begin(w, d) PROVE SerialInv'
  <2>1. UNCHANGED <<rows, tx>> /\ pc'[w] = Start(d)
    BY <1>5 DEF Begin, IInv, TypeOK, Goto, stores
  <2> QED  BY <2>1, PlanPositions, SerialQuiet
<1>6. ASSUME NEW w \in Workers, MirrorComponent(w) \/ LinkRelationship(w) \/ LinkOwner(w)
      PROVE  SerialInv'
  <2>1. UNCHANGED <<rows, tx>> /\ pc'[w] # "flush"
    BY <1>6 DEF MirrorComponent, LinkRelationship, LinkOwner, IInv, TypeOK, Goto, counters,
                AfterComponents, AfterRelationships
  <2> QED  BY <2>1, SerialQuiet
<1>7. CASE UNCHANGED vars
  <2>1. /\ \A w \in Workers : Visible(w)' = Visible(w) /\ Matches(w)' = Matches(w)
        /\ UNCHANGED <<rows, pc, current>>
    BY <1>7 DEF vars, Matches, Visible, Overlay, ThisComponent
  <2> QED  BY <2>1 DEF SerialInv, NoDuplicateRows
<1> QED  BY <1>1, <1>2, <1>3, <1>4, <1>5, <1>6, <1>7 DEF Next, Step

\* While extractions run one after another, "ingesting the same sample data
\* twice does not duplicate the graph" holds of the rows always, and of the
\* nodes but for one more of a component after each failure; two workers break
\* it for both.
THEOREM SerialExtractionsDuplicateNothing ==
    OneWorker => (Spec => [](NoDuplicateRows /\ DuplicateNodesComeFromAborts))
<1> SUFFICES ASSUME OneWorker
             PROVE  Spec => [](NoDuplicateRows /\ DuplicateNodesComeFromAborts)
  OBVIOUS
<1>1. Init => SerialInv
  BY EmptyIsTable DEF Init, SerialInv, NoDuplicateRows, Visible, Overlay
<1>2. IInv /\ SerialInv /\ [Next]_vars => SerialInv'
  BY SerialStep
<1>3. IInv /\ SerialInv /\ OrphansInv => DuplicateNodesComeFromAborts
  <2> SUFFICES ASSUME IInv, SerialInv, OrphansInv,
                      NEW d \in Documents, NEW n \in ComponentNames
               PROVE  Cardinality({id \in DOMAIN nodes :
                                      nodes[id].document = d /\ nodes[id].name = n})
                          <= 1 + aborted
    BY DEF DuplicateNodesComeFromAborts
  <2> DEFINE all == {id \in DOMAIN nodes : nodes[id].document = d /\ nodes[id].name = n}
             lost == Orphans(d, n)
  <2>1. ASSUME NEW a \in all \ lost, NEW b \in all \ lost PROVE a = b
    <3>1. SameComponent(nodes[a], nodes[b])
      BY DEF SameComponent
    <3>2. CASE \E w \in Workers : {a, b} \subseteq DOMAIN Visible(w)
      <4>1. PICK w \in Workers : {a, b} \subseteq DOMAIN Visible(w)
        BY <3>2
      <4>2. SameComponent(Visible(w)[a], Visible(w)[b])
        BY <3>1, <4>1, VisibleMatchesNode DEF SameComponent
      <4> QED  BY <4>1, <4>2 DEF SerialInv
    <3>3. CASE {a, b} \subseteq DOMAIN rows
      BY <3>1, <3>3 DEF SerialInv, NoDuplicateRows, IInv, StoreInv, RowsAreMirrored,
                        SameComponent
    <3> QED
      BY <3>2, <3>3 DEF Orphans, OneWorker, Visible, Overlay
  <2>2. IsFiniteSet(lost) /\ Cardinality(lost) <= aborted /\ aborted \in Nat
    BY DEF OrphansInv, IInv, TypeOK
  <2> HIDE DEF all, lost
  <2>3. PICK x : all \subseteq lost \cup {x}
    BY <2>1
  <2>4. /\ IsFiniteSet(lost \cup {x}) /\ Cardinality(lost) \in Nat
        /\ Cardinality(lost \cup {x}) <= Cardinality(lost) + 1
        /\ Cardinality(lost \cup {x}) \in Nat
    <3>1. Cardinality(lost) \in Nat
      BY <2>2, FS_CardinalityType
    <3>2. /\ IsFiniteSet(lost \cup {x})
         /\ \/ Cardinality(lost \cup {x}) = Cardinality(lost)
            \/ Cardinality(lost \cup {x}) = Cardinality(lost) + 1
      BY <2>2, FS_AddElement
    <3> QED  BY <3>1, <3>2
  <2>5. /\ IsFiniteSet(all) /\ Cardinality(all) <= Cardinality(lost \cup {x})
        /\ Cardinality(all) \in Nat
    BY <2>3, <2>4, FS_Subset, FS_CardinalityType
  <2>6. Cardinality(all) <= 1 + aborted
    BY <2>2, <2>4, <2>5
  <2> QED  BY <2>6 DEF all
<1>4. SerialInv => NoDuplicateRows
  BY DEF SerialInv
<1> QED
  BY <1>1, <1>2, <1>3, <1>4, Invariance, OrphansInvHolds, PTL DEF Spec
===============================================================================
