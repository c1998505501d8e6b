--------------------------------- MODULE Answer ---------------------------------
(***************************************************************************)
(* POST /answer: retrieve, rerank, trim, let a provider write the answer,  *)
(* score its groundedness, and store it as a finding with its evidence and *)
(* an audit row in one transaction, while uploads commit.                  *)
(*                                                                         *)
(* Sources: app/generation/service.py, providers.py, groundedness.py,      *)
(* app/retrieval/core.py, and the handler in app/main.py.                  *)
(*                                                                         *)
(* Each SELECT has a snapshot of its own (READ COMMITTED): an upload may   *)
(* commit between the lexical and the vector one.  Two requests share only *)
(* tables to which they append under fresh ids, so one is modelled.  A     *)
(* text is the set of its significant words.                               *)
(*                                                                         *)
(* An operator X_Y is X with the seeded fault its comment names.           *)
(***************************************************************************)
EXTENDS Retrieval, FiniteSets

CONSTANTS
    Documents,
    ChunksOf,      \* Documents -> their chunks
    Requests,      \* [top_k, mode, within, question]: within are the chunks the
                   \* filters accept, question what it says of the prompt's layout
    Settings,      \* [provider, rerank_enabled, rerank_candidate_pool]
    Words,         \* Chunks -> the significant words of their text
    Opening,       \* Chunks -> those before its first line that starts with "---"
    Marked,        \* chunks that say "(no relevant context was retrieved)"
    Foreign,       \* significant words no chunk has
    MinScore       \* groundedness_min_score, in percent

ASSUME AnswerAssumption ==
    /\ ChunksOf \in [Documents -> SUBSET Chunks] /\ IsFiniteSet(Chunks)
    /\ \A c \in Chunks : IsFiniteSet(Words[c]) /\ Opening[c] \subseteq Words[c]
    /\ IsFiniteSet(Foreign) /\ Marked \subseteq Chunks
    /\ Requests \subseteq [top_k : 1..20, mode : {"lexical", "vector", "hybrid"},
                           within : SUBSET Chunks, question : {"plain", "marker", "item"}]
    /\ Settings \subseteq [provider : {"template", "ollama"}, rerank_enabled : BOOLEAN,
                           rerank_candidate_pool : Nat]
    /\ MinScore \in 0..100

VARIABLES
    request, settings,
    published,     \* the documents whose upload has committed
    before,        \* those that had when the question was asked
    task,          \* the handler's local state
    pending,       \* rows of its transaction: [finding, evidence, audit], sets
    stored,        \* committed rows, likewise
    reply          \* the status the client gets and the answer, or NoReply

answer_vars == <<request, settings, published, before, task, pending, stored, reply>>

Vocabulary == (UNION {Words[c] : c \in Chunks}) \cup Foreign

NoRows == [finding |-> {}, evidence |-> {}, audit |-> {}]
NoAnswer == [unknown |-> FALSE, words |-> {}]
NoReply == [status |-> 0, citations |-> <<>>, grounded |-> FALSE]

Stages == {"idle", "lexical", "vector", "rank", "generate", "flush", "add", "commit",
           "refresh", "done"}

AnswerTypeOK ==
    /\ published \subseteq Documents /\ before \subseteq published
    /\ task.stage \in Stages
    /\ ToSet(task.results) \subseteq Chunks
    /\ \A rows \in {pending, stored} :
          /\ rows.finding \subseteq [unknown : BOOLEAN, confidence : 0..100]
          /\ rows.evidence \subseteq [chunk : Chunks, rank : 1..20]
          /\ rows.audit \subseteq [unknown : BOOLEAN, evidence_count : 0..20]
    /\ reply.status \in {0, 200, 500, 502}

AnswerInit ==
    /\ request \in Requests /\ settings \in Settings
    /\ published = {} /\ before = {}
    /\ task = [stage |-> "idle", lexical |-> <<>>, vector |-> <<>>, results |-> <<>>,
               answer |-> NoAnswer]
    /\ pending = NoRows /\ stored = NoRows
    /\ reply = NoReply

(***************************************************************************)
(* Retrieval.                                                              *)
(***************************************************************************)
ChunksIn(docs) == UNION {ChunksOf[d] : d \in docs}

Visible == ChunksIn(published) \cap request.within

\* Fault: the reranker gets no more candidates than are asked for.
CandidateK_TopK == request.top_k

CandidateK == IF settings.rerank_enabled
              THEN AtLeast(request.top_k, settings.rerank_candidate_pool) ELSE request.top_k

Limit == IF request.mode = "hybrid" THEN CandidatePool(CandidateK) ELSE CandidateK

Goto(stage) == task' = [task EXCEPT !.stage = stage]

\* Another request's upload commits.
Publish(d) ==
    /\ published' = published \cup {d}
    /\ UNCHANGED <<request, settings, before, task, pending, stored, reply>>

Ask ==
    /\ task.stage = "idle"
    /\ before' = published
    /\ Goto(IF request.mode = "vector" THEN "vector" ELSE "lexical")
    /\ UNCHANGED <<request, settings, published, pending, stored, reply>>

SelectLexical ==
    /\ task.stage = "lexical"
    /\ \E hits \in LexicalSearch(Visible, Limit) :
          task' = [task EXCEPT !.lexical = hits,
                               !.stage = IF request.mode = "hybrid" THEN "vector" ELSE "rank"]
    /\ UNCHANGED <<request, settings, published, before, pending, stored, reply>>

SelectVector ==
    /\ task.stage = "vector"
    /\ \E hits \in VectorSearch(Visible, Limit) :
          task' = [task EXCEPT !.vector = hits, !.stage = "rank"]
    /\ UNCHANGED <<request, settings, published, before, pending, stored, reply>>

Retrieved ==
    CASE request.mode = "lexical" -> task.lexical
      [] request.mode = "vector"  -> task.vector
      [] request.mode = "hybrid"  -> First(ReciprocalRankFusion(task.lexical, task.vector), CandidateK)

\* Rerank, then trim to what was asked for.
Rank ==
    /\ task.stage = "rank"
    /\ LET ranked == IF settings.rerank_enabled
                     THEN RerankResults(Retrieved, settings.rerank_candidate_pool) ELSE Retrieved
       IN  task' = [task EXCEPT !.results = First(ranked, request.top_k), !.stage = "generate"]
    /\ UNCHANGED <<request, settings, published, before, pending, stored, reply>>

(***************************************************************************)
(* Generation.  The template provider quotes the first passage; a model    *)
(* may say anything, or fail.                                              *)
(***************************************************************************)
Unknown == [unknown |-> TRUE, words |-> {}]
Anything == [unknown : {FALSE}, words : SUBSET Vocabulary]

\* What the template reads back from the prompt, which it searches as one
\* text.  The marker anywhere in it, the question's and the passages' text
\* included, stands for an empty context.  Passages are separated by lines
\* "---", so the quotation of one that has such a line ends there; a question
\* that has a line "[1] source=" is quoted from there instead.
FirstPassage(results) ==
    IF results = <<>> \/ request.question = "marker" \/ ToSet(results) \cap Marked # {}
    THEN {Unknown}
    ELSE IF request.question = "item" THEN Anything
    ELSE {[unknown |-> FALSE, words |-> Opening[results[1]]]}

Answers ==
    IF settings.provider = "template" THEN FirstPassage(task.results)
    ELSE {Unknown} \cup Anything

Generate ==
    /\ task.stage = "generate"
    /\ \E answer \in Answers : task' = [task EXCEPT !.answer = answer, !.stage = "flush"]
    /\ UNCHANGED <<request, settings, published, before, pending, stored, reply>>

Confidence(answer, cited) ==
    IF answer.unknown THEN 100
    ELSE IF answer.words = {} THEN 0
    ELSE (100 * Cardinality(answer.words \cap UNION {Words[c] : c \in cited}))
            \div Cardinality(answer.words)

Scored == Confidence(task.answer, ToSet(task.results))

(***************************************************************************)
(* The transaction.                                                        *)
(***************************************************************************)
FindingRow == [unknown |-> task.answer.unknown, confidence |-> Scored]

EvidenceRows == {[chunk |-> task.results[i], rank |-> i] : i \in DOMAIN task.results}

AuditRow == [unknown |-> task.answer.unknown, evidence_count |-> Len(task.results)]

\* Fault: the finding is committed to get its id.
FlushFinding_Commits ==
    /\ task.stage = "flush"
    /\ stored' = [stored EXCEPT !.finding = {FindingRow}]
    /\ Goto("add")
    /\ UNCHANGED <<request, settings, published, before, pending, reply>>

FlushFinding ==
    /\ task.stage = "flush"
    /\ pending' = [pending EXCEPT !.finding = {FindingRow}]
    /\ Goto("add")
    /\ UNCHANGED <<request, settings, published, before, stored, reply>>

AddRows ==
    /\ task.stage = "add"
    /\ pending' = [pending EXCEPT !.evidence = EvidenceRows, !.audit = {AuditRow}]
    /\ Goto("commit")
    /\ UNCHANGED <<request, settings, published, before, stored, reply>>

\* uq_finding_evidence_finding_chunk: a finding cites a chunk once.
CitesOnce(rows) == \A e, f \in rows : e.chunk = f.chunk => e = f

Published(rows) == [table \in DOMAIN rows |-> stored[table] \cup rows[table]]

Reply(status) == reply' = [reply EXCEPT !.status = status]

Commit ==
    /\ task.stage = "commit"
    /\ IF CitesOnce(pending.evidence)
       THEN stored' = Published(pending) /\ Goto("refresh") /\ UNCHANGED reply
       ELSE Goto("done") /\ Reply(500) /\ UNCHANGED stored
    /\ pending' = NoRows
    /\ UNCHANGED <<request, settings, published, before>>

\* Fault: the citations are those of the prompt before it is trimmed.
Respond_Retrieved ==
    /\ task.stage = "refresh"
    /\ Goto("done")
    /\ reply' = [status |-> 200, citations |-> Retrieved, grounded |-> Scored >= MinScore]
    /\ UNCHANGED <<request, settings, published, before, pending, stored>>

Respond ==
    /\ task.stage = "refresh"
    /\ Goto("done")
    /\ reply' = [status |-> 200, citations |-> task.results, grounded |-> Scored >= MinScore]
    /\ UNCHANGED <<request, settings, published, before, pending, stored>>

Rollback(status) ==
    /\ Goto("done") /\ pending' = NoRows /\ Reply(status)
    /\ UNCHANGED <<request, settings, published, before, stored>>

\* LLMProviderError: HTTP 502.
ProviderFails == task.stage = "generate" /\ settings.provider = "ollama" /\ Rollback(502)

\* A call that fails otherwise, in Postgres, a model or the provider's JSON:
\* HTTP 500; or the process dies, and there is no answer.
Abort == task.stage \notin {"idle", "done"} /\ \E status \in {0, 500} : Rollback(status)

\* COMMIT is carried out and its acknowledgement lost.
CommitUnacknowledged ==
    /\ task.stage = "commit" /\ CitesOnce(pending.evidence)
    /\ stored' = Published(pending) /\ pending' = NoRows
    /\ Goto("done") /\ Reply(500)
    /\ UNCHANGED <<request, settings, published, before>>

AnswerStep == \/ SelectLexical \/ SelectVector \/ Rank \/ Generate \/ FlushFinding
              \/ AddRows \/ Commit \/ Respond
              \/ ProviderFails \/ Abort \/ CommitUnacknowledged

AnswerNext == Ask \/ AnswerStep \/ \E d \in Documents : Publish(d)

AnswerSpec == AnswerInit /\ [][AnswerNext]_answer_vars

----------------------------------------------------------------------------
(***************************************************************************)
(* Properties.                                                             *)
(***************************************************************************)

\* A finding, its evidence and its audit row are committed together or not
\* at all, the ranks of the evidence are 1 to its count, and no flush can
\* run into uq_finding_evidence_finding_chunk or ck_findings_confidence_range.
AnswersAreWhole ==
    LET ranks == {e.rank : e \in stored.evidence}
    IN  /\ CitesOnce(pending.evidence)
        /\ \A row \in pending.finding : row.confidence \in 0..100
        /\ Cardinality(stored.finding) = Cardinality(stored.audit)
        /\ stored.finding = {} => stored.evidence = {}
        /\ \A row \in stored.audit :
              /\ ranks = 1..row.evidence_count
              /\ Cardinality(stored.evidence) = row.evidence_count

\* What the client is told is what is stored: HTTP 200 lists the finding's
\* evidence in its order, no chunk twice and no more than were asked for;
\* HTTP 502 leaves nothing; an answer that is called grounded is an
\* abstention or has evidence.
RepliesMatchStore ==
    /\ reply.status = 200 =>
          /\ stored.finding # {}
          /\ stored.evidence = {[chunk |-> reply.citations[i], rank |-> i] :
                                   i \in DOMAIN reply.citations}
          /\ IsInjective(reply.citations)
          /\ Len(reply.citations) <= request.top_k
    /\ reply.status = 502 => stored = NoRows
    /\ MinScore > 0 /\ reply.grounded =>
          stored.evidence # {} \/ \E row \in stored.finding : row.unknown

\* The vector query returned c before d, or did not return d.
NearerFound(c, d) ==
    d \in ToSet(task.vector) => c \in ToSet(task.vector) /\ Distance[c] < Distance[d]

\* Fusion never prefers a chunk d to one that matches the text better and was
\* there when the question was asked, if the vector query returned that one
\* nearer or d not at all; whatever commits between the two queries.
FusionKeepsDominance ==
    task.stage = "generate" /\ request.mode = "hybrid" /\ ~settings.rerank_enabled =>
        \A i \in DOMAIN task.results : \A c \in ChunksIn(before) \cap request.within :
            LET d == task.results[i]
            IN  TextRank[c] > TextRank[d] /\ NearerFound(c, d)
                    => c \in ToSet(First(task.results, i))

\* What a search has to offer the reranker: of the text query, which is exact,
\* every chunk that was there when the question was asked and matches; of the
\* vector query what it returned.
Offered ==
    {c \in ChunksIn(before) \cap request.within : request.mode # "vector" /\ TextRank[c] > 0}
        \cup ToSet(task.vector)

\* Reranking reaches beyond top_k: when all there is fits the candidate
\* pool, no chunk that is on offer is left out for a less relevant one
\* ("promote a lower-ranked-but-more-relevant result into the final top_k",
\* service.py:50-54), and none at all while there is room.
RerankingReachesThePool ==
    /\ task.stage = "generate" /\ settings.rerank_enabled
    /\ Cardinality(Visible) <= settings.rerank_candidate_pool
    => \A c \in Offered \ ToSet(task.results) :
          /\ Len(task.results) = request.top_k
          /\ \A d \in ToSet(task.results) : Relevance[d] >= Relevance[c]
===============================================================================
