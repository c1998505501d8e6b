--------------------------- MODULE GraphExtraction ---------------------------
(***************************************************************************)
(* POST /documents/{id}/graph: one extraction writes every component of a  *)
(* document twice, as a row of Postgres "components" inside one            *)
(* transaction, and as a Neo4j node that is durable at once; relationships *)
(* and the owner go to Neo4j only.  The transaction commits at the end.    *)
(*                                                                         *)
(* Sources: app/graph/service.py, app/multimodal/graph.py (the visual      *)
(* extractor makes the same calls in the same order), app/main.py          *)
(* (extract_document_graph), app/db.py, app/graph/client.py.               *)
(*                                                                         *)
(* Postgres runs at READ COMMITTED: a worker sees committed rows and its   *)
(* own; an UPDATE waits for another transaction that has updated the row.  *)
(* Each Neo4j call is an auto-commit transaction of its own.               *)
(*                                                                         *)
(* An operator X_Y is X with the seeded fault its comment names; no action *)
(* uses it, and substituted for X it must break a property (see README).   *)
(***************************************************************************)
EXTENDS Naturals, Sequences, FiniteSets

CONSTANTS
    Documents,          \* ingested documents
    Workers,            \* threads that serve extraction requests
    Components,         \* Documents -> the sequence of [name, description, chunk] to upsert
    Relationships,      \* Documents -> the sequence of relationships to merge
    Owner,              \* Documents -> [team, component, chunk]; team may be None
    ComponentNames,     \* all names, spellings that are no component's included
    Descriptions,       \* of components; the type follows from the description
    Kinds,              \* relationship types
    Teams,              \* owning teams
    ChunkIds,           \* positions of chunks in a document
    None,
    MaxExtractions      \* bound on the extractions started

ChunkOrNone == ChunkIds \cup {None}

ComponentPlan == [name : ComponentNames, description : Descriptions, chunk : ChunkOrNone]
RelationshipPlan == [source : ComponentNames, target : ComponentNames,
                     kind : Kinds, chunk : ChunkOrNone, stated : ChunkOrNone]
OwnerPlan == [team : Teams \cup {None}, component : ComponentNames \cup {None},
              chunk : ChunkOrNone]

Id == Nat
OrmObject == [id : Id, description : Descriptions, chunk : ChunkOrNone]

PlanNames(d) == {Components[d][i].name : i \in DOMAIN Components[d]}

ASSUME PlanAssumption ==
    /\ None \notin Teams /\ None \notin OrmObject
    /\ Components \in [Documents -> Seq(ComponentPlan)]
    /\ Relationships \in [Documents -> Seq(RelationshipPlan)]
    /\ Owner \in [Documents -> OwnerPlan]
    /\ \A d \in Documents : Owner[d].team # None => Owner[d].component \in PlanNames(d)
    /\ MaxExtractions \in Nat

VARIABLES
    rows,       \* committed components: id -> [document, name, description, chunk]
    nodes,      \* Neo4j :Component nodes: pg_component_id -> [document, name, chunk]
    edges,      \* Neo4j relationships: <<kind, source id, target id>> -> [document, chunk]
    owned,      \* OWNED_BY edges: <<id, team>> -> [document, chunk]
    next_id,    \* the id gen_random_uuid() returns next
    started,    \* extractions started
    aborted,    \* extractions that ended in an exception
    acked,      \* documents with an extraction that was answered 200
    pc,         \* Workers -> the call the worker makes next
    doc,        \* Workers -> its document, or None
    at,         \* Workers -> position in the plan
    current,    \* Workers -> the ORM row at hand [id, description, chunk], or None
    tx,         \* Workers -> rows written by its open transaction
    pg          \* Workers -> pg_components, the ids by name

stores == <<rows, nodes, edges, owned>>
counters == <<next_id, started, aborted, acked>>
vars == <<rows, nodes, edges, owned, next_id, started, aborted, acked,
          pc, doc, at, current, tx, pg>>

Row == [document : Documents, name : ComponentNames, description : Descriptions,
        chunk : ChunkOrNone]
Node == [document : Documents, name : ComponentNames, chunk : ChunkOrNone]
Evidence == [document : Documents, chunk : ChunkOrNone]
EdgeKey == Kinds \X Id \X Id
OwnerKey == Id \X Teams

PC == {"idle", "select", "flush", "mirror", "link", "own", "commit"}

\* A table holds a value for each of some keys.
IsTable(table, Key, Value) ==
    /\ DOMAIN table \subseteq Key
    /\ table \in [DOMAIN table -> Value]

EmptyTable == [k \in {} |-> None]

Put(table, key, value) ==
    [k \in DOMAIN table \cup {key} |-> IF k = key THEN value ELSE table[k]]

Overlay(table, top) ==
    [k \in DOMAIN table \cup DOMAIN top |-> IF k \in DOMAIN top THEN top[k] ELSE table[k]]

TypeOK ==
    /\ IsTable(rows, Id, Row)
    /\ IsTable(nodes, Id, Node)
    /\ IsTable(edges, EdgeKey, Evidence)
    /\ IsTable(owned, OwnerKey, Evidence)
    /\ next_id \in Nat
    /\ started \in Nat /\ aborted \in Nat
    /\ acked \subseteq Documents
    /\ pc \in [Workers -> PC]
    /\ doc \in [Workers -> Documents \cup {None}]
    /\ at \in [Workers -> Nat]
    /\ current \in [Workers -> OrmObject \cup {None}]
    /\ DOMAIN tx = Workers /\ \A w \in Workers : IsTable(tx[w], Id, Row)
    /\ DOMAIN pg = Workers /\ \A w \in Workers : IsTable(pg[w], ComponentNames, Id)

Init ==
    /\ rows = EmptyTable /\ nodes = EmptyTable
    /\ edges = EmptyTable /\ owned = EmptyTable
    /\ next_id = 0 /\ started = 0 /\ aborted = 0 /\ acked = {}
    /\ pc = [w \in Workers |-> "idle"]
    /\ doc = [w \in Workers |-> None]
    /\ at = [w \in Workers |-> 0]
    /\ current = [w \in Workers |-> None]
    /\ tx = [w \in Workers |-> EmptyTable]
    /\ pg = [w \in Workers |-> EmptyTable]

(***************************************************************************)
(* Where a worker goes next: the components in order, then the             *)
(* relationships in order, then the owner, then the commit.                *)
(***************************************************************************)
AfterRelationships(d) == IF Owner[d].team # None THEN "own" ELSE "commit"

AfterComponents(d) == IF Relationships[d] # <<>> THEN "link" ELSE AfterRelationships(d)

Start(d) == IF Components[d] # <<>> THEN "select" ELSE AfterComponents(d)

Goto(w, call, position) ==
    /\ pc' = [pc EXCEPT ![w] = call]
    /\ at' = [at EXCEPT ![w] = position]

\* The session ends: what its transaction wrote is gone unless committed.
Leave(w) ==
    /\ Goto(w, "idle", 0)
    /\ doc' = [doc EXCEPT ![w] = None]
    /\ current' = [current EXCEPT ![w] = None]
    /\ tx' = [tx EXCEPT ![w] = EmptyTable]
    /\ pg' = [pg EXCEPT ![w] = EmptyTable]

\* Fault: the components are taken in the order of a hash set, which differs
\* from process to process.
ThisComponent_AnyOrder(w) ==
    LET plan == Components[doc[w]]
    IN  IF w = (CHOOSE v \in Workers : TRUE) THEN plan[at[w]] ELSE plan[Len(plan) + 1 - at[w]]

\* The components are upserted in the order of the text (of their names, for
\* a diagram: sorted(candidate_names)).
ThisComponent(w) == Components[doc[w]][at[w]]
ThisRelationship(w) == Relationships[doc[w]][at[w]]

\* The rows of "components" the worker's transaction can see.
Visible(w) == Overlay(rows, tx[w])

\* Fault: the row is looked up by name alone.
Matches_AnyDocument(w) ==
    {id \in DOMAIN Visible(w) : Visible(w)[id].name = ThisComponent(w).name}

Matches(w) ==
    {id \in DOMAIN Visible(w) :
        /\ Visible(w)[id].document = doc[w]
        /\ Visible(w)[id].name = ThisComponent(w).name}

\* The ORM object of a visible row, and of a new one.
Loaded(w, id) == [id |-> id, description |-> Visible(w)[id].description,
                  chunk |-> Visible(w)[id].chunk]
NewObject(w) == [id |-> next_id, description |-> ThisComponent(w).description,
                 chunk |-> ThisComponent(w).chunk]

\* The row the INSERT writes.
NewRow(w) == [document |-> doc[w], name |-> ThisComponent(w).name,
              description |-> ThisComponent(w).description, chunk |-> ThisComponent(w).chunk]

\* The ORM object once the code has assigned to it: the description always,
\* the chunk only when evidence was found this time.  (The owner and the
\* method are the same whenever a component of the document is upserted.)
Assigned(w) ==
    [current[w] EXCEPT
        !.description = ThisComponent(w).description,
        !.chunk = IF ThisComponent(w).chunk # None THEN ThisComponent(w).chunk ELSE @]

\* The row w has an UPDATE to send for was written by u's open transaction.
WaitsFor(w, u) ==
    /\ u # w
    /\ pc[w] = "flush"
    /\ current[w] # None
    /\ Assigned(w) # current[w]
    /\ current[w].id \in DOMAIN tx[u]

(***************************************************************************)
(* Actions.                                                                *)
(***************************************************************************)

\* The document is ingested; the schema is ensured, the text or the chunks
\* are read and the plan is known.
Begin(w, d) ==
    /\ pc[w] = "idle"
    /\ started < MaxExtractions
    /\ started' = started + 1
    /\ doc' = [doc EXCEPT ![w] = d]
    /\ Goto(w, Start(d), 1)
    /\ UNCHANGED <<stores, next_id, aborted, acked, current, tx, pg>>

\* SELECT ... WHERE source_document_id AND name, scalar_one_or_none().
SelectComponent(w) ==
    /\ pc[w] = "select"
    /\ \/ /\ Matches(w) = {}
          /\ current' = [current EXCEPT ![w] = None]
       \/ \E id \in Matches(w) :
             /\ Matches(w) = {id}
             /\ current' = [current EXCEPT ![w] = Loaded(w, id)]
    /\ Goto(w, "flush", at[w])
    /\ UNCHANGED <<stores, counters, doc, tx, pg>>

\* scalar_one_or_none() raises MultipleResultsFound; nothing catches it.
SelectFindsMany(w) ==
    /\ pc[w] = "select"
    /\ \E a, b \in Matches(w) : a # b
    /\ aborted' = aborted + 1
    /\ Leave(w)
    /\ UNCHANGED <<stores, next_id, started, acked>>

\* Fault: the insert is committed at once.
FlushInsert_Autocommits(w) ==
    /\ pc[w] = "flush"
    /\ current[w] = None
    /\ next_id' = next_id + 1
    /\ rows' = Put(rows, next_id, NewRow(w))
    /\ current' = [current EXCEPT ![w] = NewObject(w)]
    /\ pg' = [pg EXCEPT ![w] = Put(pg[w], ThisComponent(w).name, next_id)]
    /\ Goto(w, "mirror", at[w])
    /\ UNCHANGED <<nodes, edges, owned, started, aborted, acked, doc, tx>>

\* Fault: the new row is written without its evidence.
FlushInsert_NoEvidence(w) ==
    /\ pc[w] = "flush"
    /\ current[w] = None
    /\ next_id' = next_id + 1
    /\ tx' = [tx EXCEPT ![w] = Put(tx[w], next_id, [NewRow(w) EXCEPT !.chunk = None])]
    /\ current' = [current EXCEPT ![w] = NewObject(w)]
    /\ pg' = [pg EXCEPT ![w] = Put(pg[w], ThisComponent(w).name, next_id)]
    /\ Goto(w, "mirror", at[w])
    /\ UNCHANGED <<stores, started, aborted, acked, doc>>

FlushInsert(w) ==
    /\ pc[w] = "flush"
    /\ current[w] = None
    /\ next_id' = next_id + 1
    /\ tx' = [tx EXCEPT ![w] = Put(tx[w], next_id, NewRow(w))]
    /\ current' = [current EXCEPT ![w] = NewObject(w)]
    /\ pg' = [pg EXCEPT ![w] = Put(pg[w], ThisComponent(w).name, next_id)]
    /\ Goto(w, "mirror", at[w])
    /\ UNCHANGED <<stores, started, aborted, acked, doc>>

\* The UPDATE is sent only if an attribute changed, and waits for the row's
\* lock.
FlushUpdate(w) ==
    /\ pc[w] = "flush"
    /\ current[w] # None
    /\ LET id == current[w].id
           now == Assigned(w)
           row == [Visible(w)[id] EXCEPT !.description = now.description, !.chunk = now.chunk]
       IN  /\ \/ /\ now = current[w]
                 /\ UNCHANGED tx
              \/ /\ now # current[w]
                 /\ \A u \in Workers : ~ WaitsFor(w, u)
                 /\ tx' = [tx EXCEPT ![w] = Put(tx[w], id, row)]
           /\ current' = [current EXCEPT ![w] = now]
           /\ pg' = [pg EXCEPT ![w] = Put(pg[w], ThisComponent(w).name, id)]
    /\ Goto(w, "mirror", at[w])
    /\ UNCHANGED <<stores, counters, doc>>

\* Fault: the loop over the components stops one short.
MirrorComponent_StopsShort(w) ==
    /\ pc[w] = "mirror"
    /\ nodes' = Put(nodes, current[w].id,
                    [document |-> doc[w], name |-> ThisComponent(w).name,
                     chunk |-> current[w].chunk])
    /\ current' = [current EXCEPT ![w] = None]
    /\ IF at[w] < Len(Components[doc[w]]) - 1
       THEN Goto(w, "select", at[w] + 1)
       ELSE Goto(w, "commit", 1)
    /\ UNCHANGED <<rows, edges, owned, counters, doc, tx, pg>>

\* MERGE the node on pg_component_id and SET its properties.
MirrorComponent(w) ==
    /\ pc[w] = "mirror"
    /\ nodes' = Put(nodes, current[w].id,
                    [document |-> doc[w], name |-> ThisComponent(w).name,
                     chunk |-> current[w].chunk])
    /\ current' = [current EXCEPT ![w] = None]
    /\ IF at[w] < Len(Components[doc[w]])
       THEN Goto(w, "select", at[w] + 1)
       ELSE Goto(w, AfterComponents(doc[w]), 1)
    /\ UNCHANGED <<rows, edges, owned, counters, doc, tx, pg>>

\* MATCH both nodes and MERGE the relationship; one whose ends are not both
\* among this extraction's components is skipped.
LinkRelationship(w) ==
    /\ pc[w] = "link"
    /\ LET rel == ThisRelationship(w)
       IN  IF {rel.source, rel.target} \subseteq DOMAIN pg[w]
           THEN LET a == pg[w][rel.source]
                    b == pg[w][rel.target]
                IN  edges' = IF {a, b} \subseteq DOMAIN nodes
                             THEN Put(edges, <<rel.kind, a, b>>,
                                      [document |-> doc[w], chunk |-> rel.chunk])
                             ELSE edges
           ELSE UNCHANGED edges
    /\ IF at[w] < Len(Relationships[doc[w]])
       THEN Goto(w, "link", at[w] + 1)
       ELSE Goto(w, AfterRelationships(doc[w]), 1)
    /\ UNCHANGED <<rows, nodes, owned, counters, doc, current, tx, pg>>

LinkOwner(w) ==
    /\ pc[w] = "own"
    /\ LET plan == Owner[doc[w]]
           c == pg[w][plan.component]
       IN  owned' = IF c \in DOMAIN nodes
                    THEN Put(owned, <<c, plan.team>>,
                             [document |-> doc[w], chunk |-> plan.chunk])
                    ELSE owned
    /\ Goto(w, "commit", 1)
    /\ UNCHANGED <<rows, nodes, edges, counters, doc, current, tx, pg>>

\* Fault: db.commit() is forgotten.
Commit_Forgotten(w) ==
    /\ pc[w] = "commit"
    /\ acked' = acked \cup {doc[w]}
    /\ Leave(w)
    /\ UNCHANGED <<rows, nodes, edges, owned, next_id, started, aborted>>

\* Fault: the reply is built after the worker's document has been reset.
Commit_RepliesLate(w) ==
    /\ pc[w] = "commit"
    /\ rows' = Overlay(rows, tx[w])
    /\ Leave(w)
    /\ acked' = acked \cup {doc'[w]}
    /\ UNCHANGED <<nodes, edges, owned, next_id, started, aborted>>

\* db.commit() and the reply.
Commit(w) ==
    /\ pc[w] = "commit"
    /\ rows' = Overlay(rows, tx[w])
    /\ acked' = acked \cup {doc[w]}
    /\ Leave(w)
    /\ UNCHANGED <<nodes, edges, owned, next_id, started, aborted>>

\* The commit took effect, but its acknowledgement or the reply was lost.
CommitUnacknowledged(w) ==
    /\ pc[w] = "commit"
    /\ rows' = Overlay(rows, tx[w])
    /\ aborted' = aborted + 1
    /\ Leave(w)
    /\ UNCHANGED <<nodes, edges, owned, next_id, started, acked>>

\* A call to Postgres or to Neo4j raises, or the process dies: Postgres
\* rolls back, Neo4j keeps what was merged.
Abort(w) ==
    /\ pc[w] # "idle"
    /\ aborted' = aborted + 1
    /\ Leave(w)
    /\ UNCHANGED <<stores, next_id, started, acked>>

Step(w) ==
    \/ SelectComponent(w) \/ SelectFindsMany(w)
    \/ FlushInsert(w) \/ FlushUpdate(w)
    \/ MirrorComponent(w) \/ LinkRelationship(w) \/ LinkOwner(w)
    \/ Commit(w)

Next ==
    \E w \in Workers :
        \/ \E d \in Documents : Begin(w, d)
        \/ Step(w) \/ CommitUnacknowledged(w) \/ Abort(w)

\* A worker thread that can go on does.
Fairness == \A w \in Workers : WF_vars(Step(w))

Spec == Init /\ [][Next]_vars
FairSpec == Spec /\ Fairness

----------------------------------------------------------------------------
(***************************************************************************)
(* Properties.                                                             *)
(***************************************************************************)
SameComponent(r, s) == r.document = s.document /\ r.name = s.name

\* No relationship leaves its document: both ends of an edge are nodes of
\* the document the edge cites, so every path find_paths returns rests on
\* the evidence of one document, however extractions interleave or die.
EdgesStayInDocument ==
    /\ \A key \in DOMAIN edges :
          /\ key[2] \in DOMAIN nodes /\ key[3] \in DOMAIN nodes
          /\ nodes[key[2]].document = edges[key].document
          /\ nodes[key[3]].document = edges[key].document
    /\ \A key \in DOMAIN owned :
          key[1] \in DOMAIN nodes /\ nodes[key[1]].document = owned[key].document

\* A committed component is never missing from the graph: its node exists
\* and names the same document and component (the MERGE precedes the commit).
RowsAreMirrored ==
    \A id \in DOMAIN rows : id \in DOMAIN nodes /\ SameComponent(rows[id], nodes[id])

\* Document d speaks of its component n in one place.
NamedOnce(d, n) ==
    \A i, j \in DOMAIN Components[d] :
        Components[d][i].name = n /\ Components[d][j].name = n => i = j

\* ... and, once no extraction is running and unless one has failed, it
\* cites the same chunk ("a graph node's provenance is readable directly off
\* the node", service.py:9-12).  An extraction that fails, or is under way,
\* sets a committed component's node and row apart only if its document
\* speaks of the component in several places.
ProvenanceAgrees ==
    LET both == DOMAIN rows \cap DOMAIN nodes
    IN  /\ aborted = 0 /\ (\A w \in Workers : pc[w] = "idle") =>
              \A id \in both : nodes[id].chunk = rows[id].chunk
        /\ \A id \in both :
              NamedOnce(rows[id].document, rows[id].name) => nodes[id].chunk = rows[id].chunk

\* An extraction that was answered 200 has left all of its plan behind: a
\* committed row for each component, and between committed rows an edge for
\* each relationship whose ends are components, and the owner's edge.
AckedExtractionIsComplete ==
    \A d \in acked :
        LET RowsFor(n) == {id \in DOMAIN rows : rows[id].document = d /\ rows[id].name = n}
        IN  /\ \A n \in PlanNames(d) : RowsFor(n) # {}
            /\ \A i \in DOMAIN Relationships[d] :
                  LET rel == Relationships[d][i]
                  IN  {rel.source, rel.target} \subseteq PlanNames(d) =>
                        \E a \in RowsFor(rel.source), b \in RowsFor(rel.target) :
                            <<rel.kind, a, b>> \in DOMAIN edges
            /\ Owner[d].team # None =>
                  \E c \in RowsFor(Owner[d].component) : <<c, Owner[d].team>> \in DOMAIN owned

\* The nodes of a component that have no row, committed or about to be.
Orphans(d, n) ==
    {id \in DOMAIN nodes :
        /\ nodes[id].document = d /\ nodes[id].name = n
        /\ id \notin DOMAIN rows
        /\ \A w \in Workers : id \notin DOMAIN tx[w]}

\* Each extraction that fails leaves at most one node of a component without
\* its row, however extractions and retries interleave, and nothing else does.
UnbackedNodesComeFromAborts ==
    \A d \in Documents, n \in ComponentNames : Cardinality(Orphans(d, n)) <= aborted

\* Extractions of one document that UPDATE its rows queue behind each other,
\* and never in a circle: in every group of workers there is one that waits
\* for no other of the group, so PostgreSQL never has to break a deadlock by
\* failing a request.
NoCircularWait ==
    \A group \in (SUBSET Workers) \ {{}} :
        \E w \in group : \A u \in group : ~ WaitsFor(w, u)

\* "ingesting the same sample data twice does not duplicate the graph"
\* (service.py:22), for the rows ...
NoDuplicateRows ==
    \A a, b \in DOMAIN rows : SameComponent(rows[a], rows[b]) => a = b

\* ... and what is left of that for the nodes when extractions run one after
\* another: beside the one node of a component, the graph has at most one for
\* each extraction that has failed.
DuplicateNodesComeFromAborts ==
    \A d \in Documents, n \in ComponentNames :
        Cardinality({id \in DOMAIN nodes : nodes[id].document = d /\ nodes[id].name = n})
            <= 1 + aborted

\* Every extraction ends, with a reply or with an exception of its own: the
\* one that waits for a row gets it, without the database's deadlock detector.
EveryExtractionEnds == \A w \in Workers : []<>(pc[w] = "idle")

\* What a reader of "components" can see.
Catalogued == {<<rows[id].document, rows[id].name>> : id \in DOMAIN rows}

\* Postgres shows the components of a document all or nothing.
Catalog == INSTANCE ComponentCatalog
               WITH NamesOf <- [d \in Documents |-> PlanNames(d)],
                    catalog <- Catalogued

ImplementsCatalog == Catalog!Spec
==============================================================================
