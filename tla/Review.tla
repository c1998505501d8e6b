-------------------------------- MODULE Review --------------------------------
(***************************************************************************)
(* POST /review while extractions run: a bounded agent searches, reads the *)
(* committed component names from Postgres, queries the graph in Neo4j for *)
(* at most two of them, and the verdict on what it found is persisted as a *)
(* finding with its evidence and an audit row, in one transaction.         *)
(*                                                                         *)
(* Sources: app/agent/controller.py, app/agent/tools.py,                   *)
(* app/policy/service.py, app/db.py.                                       *)
(*                                                                         *)
(* Each read is a step of its own: the stores of GraphExtraction may       *)
(* change between any two of them.  What hybrid retrieval returns is any   *)
(* set of top_k chunks of a fixed corpus; paths are sets, so that two that *)
(* differ in node ids only count once.                                     *)
(*                                                                         *)
(* An operator X_Y is X with the seeded fault its comment names.           *)
(***************************************************************************)
EXTENDS GraphExtraction, GraphTraversal, PolicyEngine

CONSTANTS
    Reviews,      \* review requests
    Requests,     \* the requests clients make
    Corpus,       \* the chunks search can return
    Text,         \* Corpus -> their sentences, a sequence of Unit
    Vocabulary    \* names and relationship types -> the Unit of that word

ReviewRequest == [keywords : Question, intent : BOOLEAN, mentions : SUBSET ComponentNames,
                  top_k : Nat, max_hops : Nat, max_steps : Nat]

ASSUME ReviewAssumption ==
    /\ Requests \subseteq ReviewRequest
    /\ IsFiniteSet(Corpus)
    /\ Text \in [Corpus -> Seq(Unit)]
    /\ Vocabulary \in [ComponentNames \cup Kinds -> Unit]
    /\ \A chunk \in Corpus : \A i \in DOMAIN Text[chunk] : ~Text[chunk][i].opens
    /\ \A word \in ComponentNames \cup Kinds : ~Vocabulary[word].opens

MaxGraphCandidates == 2

VARIABLES
    request,     \* Reviews -> the request
    agent,       \* Reviews -> the agent's local state
    before,      \* Reviews -> what was committed and answered when it was asked
    findings,    \* committed rows of "findings"
    evidence,    \* committed rows of "finding_evidence"
    audited      \* committed "review.created" rows of "audit_log"

review_tables == <<findings, evidence, audited>>
review_vars == <<request, agent, before, findings, evidence, audited>>
all_vars == <<vars, review_vars>>

Stage == {"idle", "search", "bounds", "names", "tool", "paths", "finish", "persist",
          "commit", "refresh", "done", "failed"}

NoBound == [step |-> FALSE, time |-> FALSE]

NewAgent == [stage |-> "idle", found |-> {}, paths |-> {}, steps |-> 0, todo |-> <<>>,
             queried |-> {}, missed |-> {}, late |-> FALSE, hit |-> NoBound]

Finding == [review : Reviews, verdict : {"PASS", "FAIL", "UNKNOWN", "CONFLICT"},
            severity : {"low", "medium", "high"}, confidence : 0..100]
AuditRow == [review : Reviews, verdict : {"PASS", "FAIL", "UNKNOWN", "CONFLICT"},
             evidence_count : Nat, agent_steps : Nat, hit : [step : BOOLEAN, time : BOOLEAN]]

ReviewTypeOK ==
    /\ request \in [Reviews -> Requests]
    /\ \A r \in Reviews :
          /\ agent[r].stage \in Stage
          /\ agent[r].found \subseteq Corpus
          /\ agent[r].steps \in 0..Max({1, request[r].max_steps})
          /\ {agent[r].todo[i] : i \in DOMAIN agent[r].todo} \subseteq ComponentNames
          /\ agent[r].missed \subseteq agent[r].queried
    /\ findings \subseteq Finding
    /\ evidence \subseteq [review : Reviews, chunk : Corpus]
    /\ audited \subseteq AuditRow

ReviewInit ==
    /\ Init
    /\ request \in [Reviews -> Requests]
    /\ agent = [r \in Reviews |-> NewAgent]
    /\ before = [r \in Reviews |-> [names |-> {}, acked |-> {}]]
    /\ findings = {} /\ evidence = {} /\ audited = {}

(***************************************************************************)
(* The agent.                                                              *)
(***************************************************************************)
CommittedNames == {rows[id].name : id \in DOMAIN rows}

Becomes(r, state) == agent' = [agent EXCEPT ![r] = state]

BoundsHit(r) == [step |-> agent[r].steps >= request[r].max_steps, time |-> agent[r].late]

Ask(r) ==
    /\ agent[r].stage = "idle"
    /\ Becomes(r, [agent[r] EXCEPT !.stage = "search"])
    /\ before' = [before EXCEPT ![r] = [names |-> CommittedNames, acked |-> acked]]
    /\ UNCHANGED <<request, review_tables>>

\* The time budget runs out.
RunLate(r) ==
    /\ agent[r].stage \in {"search", "bounds", "names", "tool", "paths", "finish"}
    /\ ~agent[r].late
    /\ Becomes(r, [agent[r] EXCEPT !.late = TRUE])
    /\ UNCHANGED <<request, before, review_tables>>

\* Step 1, whatever the bounds; a chunk is counted once.
Search(r) ==
    /\ agent[r].stage = "search"
    /\ \E hits \in SUBSET Corpus :
          /\ Cardinality(hits) <= request[r].top_k
          /\ Becomes(r, [agent[r] EXCEPT !.stage = "bounds", !.found = hits, !.steps = 1])
    /\ UNCHANGED <<request, before, review_tables>>

CheckBounds(r) ==
    /\ agent[r].stage = "bounds"
    /\ Becomes(r, IF BoundsHit(r) # NoBound
                  THEN [agent[r] EXCEPT !.stage = "persist", !.hit = BoundsHit(r)]
                  ELSE [agent[r] EXCEPT !.stage = IF request[r].intent THEN "names" ELSE "finish"])
    /\ UNCHANGED <<request, before, review_tables>>

\* SELECT DISTINCT name, in any order, then the first two the question names.
ReadNames(r) ==
    /\ agent[r].stage = "names"
    /\ LET mentioned == CommittedNames \cap request[r].mentions
           count == IF Cardinality(mentioned) < MaxGraphCandidates
                    THEN Cardinality(mentioned) ELSE MaxGraphCandidates
       IN  \E candidates \in [1..count -> mentioned] :
              /\ \A i, j \in 1..count : candidates[i] = candidates[j] => i = j
              /\ Becomes(r, [agent[r] EXCEPT !.stage = "tool", !.todo = candidates])
    /\ UNCHANGED <<request, before, review_tables>>

\* graph_tool, first query: is there such a node at all?
LookUpComponent(r) ==
    /\ agent[r].stage = "tool"
    /\ agent[r].todo # <<>> /\ BoundsHit(r) = NoBound
    /\ LET name == Head(agent[r].todo)
       IN  Becomes(r,
             IF ComponentExists(nodes, name)
             THEN [agent[r] EXCEPT !.stage = "paths"]
             ELSE [agent[r] EXCEPT !.todo = Tail(@), !.steps = @ + 1,
                                   !.queried = @ \cup {name}, !.missed = @ \cup {name}])
    /\ UNCHANGED <<request, before, review_tables>>

\* Fault: the tool's default direction is used.
AgentDirection_Default == "downstream"

AgentDirection == "both"

\* graph_tool, second query.
QueryGraph(r) ==
    /\ agent[r].stage = "paths"
    /\ LET name == Head(agent[r].todo)
           paths == FindPaths(nodes, edges, name, AgentDirection, request[r].max_hops)
       IN  Becomes(r, [agent[r] EXCEPT !.stage = "tool", !.todo = Tail(@), !.steps = @ + 1,
                                       !.queried = @ \cup {name}, !.paths = @ \cup paths])
    /\ UNCHANGED <<request, before, review_tables>>

\* The loop ends with the candidates, or is left with the flags of a bound.
LeaveLoop(r) ==
    /\ agent[r].stage = "tool"
    /\ \/ /\ agent[r].todo = <<>>
          /\ Becomes(r, [agent[r] EXCEPT !.stage = "finish"])
       \/ /\ agent[r].todo # <<>> /\ BoundsHit(r) # NoBound
          /\ Becomes(r, [agent[r] EXCEPT !.stage = "finish", !.hit = BoundsHit(r)])
    /\ UNCHANGED <<request, before, review_tables>>

\* Fault: the flags are not computed again after the loop.
Finish_KeepsFlags(r) ==
    /\ agent[r].stage = "finish"
    /\ Becomes(r, [agent[r] EXCEPT !.stage = "persist"])
    /\ UNCHANGED <<request, before, review_tables>>

Finish(r) ==
    /\ agent[r].stage = "finish"
    /\ Becomes(r, [agent[r] EXCEPT !.stage = "persist", !.hit = BoundsHit(r)])
    /\ UNCHANGED <<request, before, review_tables>>

(***************************************************************************)
(* The verdict and the finding.                                            *)
(***************************************************************************)

\* A graph fact is judged as the sentence "source KIND target".
HopSentence(hop) ==
    LET parts == {Vocabulary[hop.source], Vocabulary[hop.kind], Vocabulary[hop.target]}
    IN  [words |-> UNION {p.words : p \in parts}, header |-> FALSE,
         negated |-> \E p \in parts : p.negated, affirmed |-> \E p \in parts : p.affirmed,
         grave |-> \E p \in parts : p.grave,
         opens |-> Vocabulary[hop.target].opens, closes |-> Vocabulary[hop.source].closes]

\* Sentences stand at places of no order, since the engine's answer does not
\* depend on it where no sentence opens a word (see EvidenceGrowth).
TextUnits(chunks) ==
    [place \in UNION {{chunk} \X DOMAIN LogicalUnits(Text[chunk]) : chunk \in chunks} |->
        LogicalUnits(Text[place[1]])[place[2]]]

GraphUnits(paths) ==
    [place \in UNION {{path} \X DOMAIN path : path \in paths} |-> HopSentence(place[1][place[2]])]

Judge(r) ==
    LET units == Overlay(TextUnits(agent[r].found), GraphUnits(agent[r].paths))
        q == request[r].keywords
    IN  [review |-> r, verdict |-> Verdict(q, units), severity |-> Severity(q, units),
         confidence |-> Confidence(q, units)]

\* Fault: the finding is committed before its evidence is added.
Persist_Commits(r) ==
    /\ agent[r].stage = "persist"
    /\ findings' = findings \cup {Judge(r)}
    /\ Becomes(r, [agent[r] EXCEPT !.stage = "commit"])
    /\ UNCHANGED <<request, before, evidence, audited>>

\* The finding is flushed and its evidence and audit rows are added.
Persist(r) ==
    /\ agent[r].stage = "persist"
    /\ Becomes(r, [agent[r] EXCEPT !.stage = "commit"])
    /\ UNCHANGED <<request, before, review_tables>>

CommitFinding(r) ==
    /\ agent[r].stage = "commit"
    /\ findings' = findings \cup {Judge(r)}
    /\ evidence' = evidence \cup [review : {r}, chunk : agent[r].found]
    /\ audited' = audited \cup
          {[review |-> r, verdict |-> Judge(r).verdict,
            evidence_count |-> Cardinality(agent[r].found),
            agent_steps |-> agent[r].steps, hit |-> agent[r].hit]}
    /\ Becomes(r, [agent[r] EXCEPT !.stage = "refresh"])
    /\ UNCHANGED <<request, before>>

Reply(r) ==
    /\ agent[r].stage = "refresh"
    /\ Becomes(r, [agent[r] EXCEPT !.stage = "done"])
    /\ UNCHANGED <<request, before, review_tables>>

\* Any call of Postgres, Neo4j or the embedding model may raise: the review
\* is answered 500 and its transaction, if still open, is rolled back.
Fail(r) ==
    /\ agent[r].stage \notin {"idle", "done", "failed"}
    /\ Becomes(r, [agent[r] EXCEPT !.stage = "failed"])
    /\ UNCHANGED <<request, before, review_tables>>

ReviewStep(r) ==
    \/ Search(r) \/ CheckBounds(r) \/ ReadNames(r)
    \/ LookUpComponent(r) \/ QueryGraph(r) \/ LeaveLoop(r) \/ Finish(r)
    \/ Persist(r) \/ CommitFinding(r) \/ Reply(r)

ReviewNext ==
    \/ Next /\ UNCHANGED review_vars
    \/ /\ \E r \in Reviews : Ask(r) \/ RunLate(r) \/ ReviewStep(r) \/ Fail(r)
       /\ UNCHANGED vars

ReviewSpec == ReviewInit /\ [][ReviewNext]_all_vars

----------------------------------------------------------------------------
(***************************************************************************)
(* Properties.                                                             *)
(***************************************************************************)
Persisted(r) == \E f \in findings : f.review = r

\* A finding is readable with all it rests on or not at all: one audit row
\* that counts its evidence rows, and no evidence or audit row without it.
FindingsAreWhole ==
    /\ \A f \in findings : \E a \in audited :
          /\ a.review = f.review /\ a.verdict = f.verdict
          /\ a.evidence_count = Cardinality({e \in evidence : e.review = f.review})
    /\ \A e \in evidence : Persisted(e.review)
    /\ \A a \in audited : Persisted(a.review)

\* No review takes more steps than it was given; it reports the step bound
\* exactly if it has used them all, be it by its very last query; and one that
\* reports no bound has asked the graph about every component the question
\* names that was committed before the review began, as far as two queries go
\* ("on hitting either bound, it returns the evidence gathered so far",
\* docs/ARCHITECTURE.md: the flags tell when).
BoundsAreKeptAndReported ==
    /\ \A r \in Reviews : agent[r].steps <= Max({1, request[r].max_steps})
    /\ \A a \in audited : a.hit.step <=> a.agent_steps >= request[a.review].max_steps
    /\ \A a \in audited :
          LET r == a.review
              named == before[r].names \cap request[r].mentions
          IN  request[r].intent /\ a.hit = NoBound =>
                named \subseteq agent[r].queried
                \/ Cardinality(agent[r].queried) = MaxGraphCandidates

\* A component read from Postgres is there when Neo4j is asked for it,
\* however the review's reads fall between an extraction's writes.
CommittedComponentsAreFound == \A r \in Reviews : agent[r].missed = {}

\* A relationship whose extraction was answered before the review began is
\* among the paths, if the review asked the graph for one of its ends.
AcknowledgedLinksAreSeen ==
    \A r \in Reviews : \A d \in before[r].acked : \A i \in DOMAIN Relationships[d] :
        LET rel == Relationships[d][i]
        IN  /\ {rel.source, rel.target} \subseteq PlanNames(d)
            /\ {rel.source, rel.target} \cap agent[r].queried # {}
            => \E path \in agent[r].paths : \E h \in DOMAIN path :
                  /\ path[h].kind = rel.kind /\ path[h].document = d
                  /\ path[h].source = rel.source /\ path[h].target = rel.target

\* A verdict other than UNKNOWN rests on a chunk the finding cites ("A
\* finding must cite the exact chunks it's grounded in", docs/SCHEMA.md:200).
VerdictsRestOnCitations ==
    \A f \in findings :
        f.verdict # "UNKNOWN" =>
            Verdict(request[f.review].keywords,
                    TextUnits({e.chunk : e \in {x \in evidence : x.review = f.review}}))
                # "UNKNOWN"
===============================================================================
