---------------------------- MODULE GraphTraversal ----------------------------
(***************************************************************************)
(* Paths through the component graph, as app/graph/retrieval.py asks Neo4j *)
(* for them: every path that starts at a node of the given name, follows   *)
(* one to max_hops relationships in the given direction and uses none of   *)
(* them twice.  Nodes and edges are the tables of GraphExtraction.         *)
(***************************************************************************)
EXTENDS Naturals, Sequences

Directions == {"downstream", "upstream", "both"}

\* An edge <<kind, a, b>> leads from node u to node v.
Traverses(key, u, v, direction) ==
    \/ direction # "upstream" /\ key[2] = u /\ key[3] = v
    \/ direction # "downstream" /\ key[2] = v /\ key[3] = u

\* The edge sequences of one length that form a path from a node so named.
Trails(nodes, edges, name, direction, length) ==
    {trail \in [1..length -> DOMAIN edges] :
        /\ \A i, j \in 1..length : trail[i] = trail[j] => i = j
        /\ \E stop \in [1..(length + 1) -> DOMAIN nodes] :
              /\ nodes[stop[1]].name = name
              /\ \A i \in 1..length : Traverses(trail[i], stop[i], stop[i + 1], direction)}

\* A hop names its ends in the direction of the relationship, whichever way
\* the path runs, and carries the relationship's evidence.
Hop(nodes, edges, key) ==
    [kind |-> key[1], source |-> nodes[key[2]].name, target |-> nodes[key[3]].name,
     document |-> edges[key].document, chunk |-> edges[key].chunk]

FindPaths(nodes, edges, name, direction, max_hops) ==
    {[i \in DOMAIN trail |-> Hop(nodes, edges, trail[i])] :
        trail \in UNION {Trails(nodes, edges, name, direction, length) :
                            length \in 1..(IF max_hops < 1 THEN 1 ELSE max_hops)}}

ComponentExists(nodes, name) == \E id \in DOMAIN nodes : nodes[id].name = name
===============================================================================
