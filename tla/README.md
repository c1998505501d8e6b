# Archlens: specifications, model checking and proofs

Archlens turns architecture documents (markdown texts, diagrams, PDFs) into
searchable, citable evidence, extracts a component graph from them, and answers
and reviews questions with citations. This directory holds TLA+ specifications
of it, the TLC configurations that check them on small instances, and proofs
that TLAPS checks for every instance. Paths are relative to `src/`.

## 1. Inventory

| part | state it keeps | operations | what is hard |
|---|---|---|---|
| upload and ingestion (`app/main.py`, `app/ingestion/service.py`) | files under the storage directory, named by SHA-256; `documents`, `chunks`, `audit_log` | `POST /documents` | an `async def` handler that blocks its event loop; a file write outside the transaction; crashes; the client's MIME type |
| multimodal ingestion (`app/multimodal/service.py`, `ocr.py`, `vision.py`, `pdf.py`) | the same tables | per page OCR regions and an optional caption | chunk numbering when a provider fails on some pages |
| text chunking (`app/ingestion/chunking.py`) | none (pure) | `chunk_text` | offsets and index gaps at boundaries |
| extraction rules (`app/graph/extraction.py`, `app/multimodal/graph.py`) | none (pure) | components, relationships, owner of a document, with evidence chunks | which chunk a claim is filed under |
| graph dual-store write (`app/graph/service.py`) | Postgres `components`; Neo4j nodes and edges | `POST /documents/{id}/graph` | two stores, no common transaction; concurrent and repeated extraction; row locks |
| graph traversal (`app/graph/retrieval.py`) | none of its own | `POST /graph/query`, the agent's graph tool | paths through nodes of different documents with the same name |
| retrieval (`app/retrieval/*`) | none | lexical and vector rankings, reciprocal rank fusion, reranking, filters | two queries with two snapshots; ties; four truncations |
| answer generation (`app/generation/*`) | `findings`, `finding_evidence`, `audit_log` | `POST /answer` | a provider failing before rows are added; groundedness at its edges |
| agent and review (`app/agent/*`, `app/policy/service.py`) | the same tables | `POST /review`: a bounded loop, search first, then graph queries | step and time bounds; reading components while an extraction runs |
| policy engine (`app/policy/engine.py`, `markers.py`) | none (pure) | verdict, severity, confidence | the verdict as evidence grows or is reordered |
| database and HTTP shell (`app/db.py`, `app/main.py`) | connection pool, event loop | a session per request | pool exhaustion while the loop is blocked |
| evaluation (`app/evaluation/*`) | none | golden questions, metrics | - |
| frontend hook and client (`frontend/src/hooks`, `api`) | one `AsyncState` per view | `run`, `cancel` | responses that arrive after a newer run began |
| upload view (`frontend/src/views/UploadView.tsx`) | the status line of graph extractions, beside the hook | `handleSubmit`, `handleExtractGraph` | extractions end in any order, on whatever upload is shown by then |
| frontend cache (`frontend/src/storage/cache.ts`) | IndexedDB store of at most 50 entries | `cacheResult`, `getRecentEntries` | write and prune are two transactions, tabs share the store |
| service worker (`frontend/public/sw.js`) | Cache Storage | install, activate, fetch | cache-first under a constant name: a shell outlives the deployment whose assets it names |

How they interact. Every handler of the backend runs against Postgres at READ
COMMITTED in a session of its own; uploads are `async def` and occupy the event
loop of their process from their first statement to the reply, the other
handlers run in a thread pool, and all of them share one pool of connections. An upload publishes chunks that searches,
answers and reviews read; an extraction reads chunks and publishes component
rows, and on its way writes Neo4j directly; reviews read component names from
Postgres and look them up in Neo4j. Answers and reviews append findings. The
frontend calls the API through one hook per view, except that graph extractions
are plain requests; the service worker stands between the page and the server
of its assets, and lets the API through.

The hazards this gives rise to are listed in `PROJECT.json` at the lines where
they bite, with the properties that would catch them.

## 2. The modules

| module | what it is | composed with |
|---|---|---|
| `EvidenceLedger` | abstract: a document becomes visible in one step, whole, once | refined by `Ingestion` |
| `Ingestion` | one upload from validation to reply; several processes, files, a transaction, crashes | |
| `ExtractionPlan` | the extraction rules as operators on bullets, statements, captions | computes the plans of `MCGraphExtraction` |
| `ComponentCatalog` | abstract: a document's components appear together and stay | refined by `GraphExtraction` |
| `GraphExtraction` | the dual-store write, call by call, by concurrent workers | |
| `GraphTraversal` | the paths a graph query returns, on a graph given as two tables | |
| `PolicyEngine` | relevance, verdict, severity, confidence of a sequence of sentences | |
| `EvidenceGrowth` | a gathering of evidence, judged after each text | extends `PolicyEngine` |
| `Review` | agent loop and `POST /review` beside extractions | extends `GraphExtraction`, `GraphTraversal`, `PolicyEngine` |
| `Retrieval` | rankings, fusion, reranking | |
| `Answer` | `POST /answer` beside uploads | extends `Retrieval` |
| `TextChunking` | `chunk_text`, loop turn by loop turn, on every text that can be typed | |
| `DocumentText` | the same text read bullet by bullet by the extraction, and the search that joins the two | extends `TextChunking` |
| `RequestPool` | what all requests of a process compete for: loop, threads, connections, a row lock | |
| `AsyncAction` | the frontend hook and its requests, one event-loop turn a step | |
| `QueryCache` | the IndexedDB cache shared by tabs | |
| `ResultView` | a view: the hook feeding the cache | extends `AsyncAction`, `QueryCache` |
| `UploadView` | the upload hook, and the status line of extractions that run beside it | extends `AsyncAction` |
| `ServiceWorker` | worker, caches, page and deployments, online and offline | |
| `Frontend` | the parts of the page, the overview among them, which share no state: a behaviour follows one of them | extends `ResultView`, `UploadView`, `ServiceWorker` |
| `MC*` | instances for TLC | |
| `*_proofs` | theorems | |

How state and actions correspond to the code (`PROJECT.json` "map" has every
definition with its lines):

- **Ingestion.** `disk` is the storage directory (absent, torn or whole per
  content), `documents`/`chunks`/`audit` the committed rows, `tx` the rows of an
  open transaction and the records the handler has collected from the pages it has read, `loop` the upload
  each process's event loop is running. `Receive` to `Refresh` are the handler's steps
  in its order, `ReadPage` one turn of the loop over pages; what happens between two
  awaits of one process is interleaved only with other processes, as in the code.
  `WriteFails`, `Raise` and `Crash` are the fault actions. Text or visual is
  decided as the code does, by suffix and MIME type.
- **GraphExtraction.** `rows` are committed components, `tx[w]` a worker's
  uncommitted ones, `nodes`, `edges`, `owned` the Neo4j graph, where every call
  commits at once. `SelectComponent`, `FlushInsert`/`FlushUpdate`,
  `MirrorComponent`, `LinkRelationship`, `LinkOwner` and `Commit` are the calls of
  `app/graph/service.py` in their order. A flush sends an UPDATE only if an attribute
  of the row changed (`Assigned`: the description or the cited chunk; a component's owner and
  method are the same whenever its document is extracted, its type follows from its name and
  description, and they are left out), and the UPDATE waits
  while another open transaction has written the row (`WaitsFor`). Nothing in the model breaks a
  circle of waits, as PostgreSQL would by failing one of them; `NoCircularWait` shows that
  there is none. Sessions do not autoflush, so what is written when is what the code
  flushes. `Abort` may happen at every call, `CommitUnacknowledged` at the commit.
- **Review.** Each read of each store is a step; `before` remembers what was
  committed when the review began, for the properties only. The time bound is an
  event that may happen at any moment. Hybrid retrieval is any `top_k` chunks. That no sentence
  of the corpus ends in half of a word (see `PolicyEngine`) is an assumption of this module only.
- **PolicyEngine.** A sentence is a record of the keywords it contains and of what
  the regular expressions find in it (negation, affirmation, severity words,
  whether it is a heading). Verdict, severity and confidence are computed from it
  as in `engine.py`; the confidence is in percent, and the sum of the shared words in it
  is the number of pairs of a sentence and a word (`Overlaps`). Fractions are exact and a half
  is rounded to the even hundredth (`Percent`); the code rounds floats, which at a half that
  binary fractions miss may come out one hundredth higher. The severity of a gap is
  read from the denying sentences joined by blanks, that of a conflict from each by itself
  (`Grave`): a sentence that ends in "personally" and a next one that begins with "identifiable"
  are grave together (`opens`, `closes`).
- **Answer.** `task` holds the handler's locals, `pending` the transaction,
  `stored` the committed rows. The lexical and the vector query each see what is
  published when they run. The vector query is served by an approximate index
  (HNSW, `app/models.py:104-115`), and joins and filters apply to what its scan returns
  (`app/retrieval/filters.py:51-70`), so `VectorSearch` returns any of the visible chunks in the
  order of their distance: near ones may be missing, and there may be fewer than LIMIT.
  What is claimed of fusion and reranking is claimed relative to what the two queries
  return, and of the text query, which is exact, also that it misses nothing. `Orders` are the lists that respect a set of pairs; `Select` is
  ORDER BY with a LIMIT, which may break ties either way, `Sorted` is Python's `sorted()` by a key that
  has none. The template provider reads its passage back out of the
  prompt (`FirstPassage`), so it loses what follows a line `---`, abstains if a passage or the
  question contains the marker of an empty context, and quotes the question if
  that has a line that looks like a first item. Scores are exact fractions where the code has floats,
  which for ranks of this size order alike. Texts are sets of significant words.
- **TextChunking.** A text is a sequence of letters, blanks and line ends, and an
  offset counts its characters, as in Python. A step is a turn of one of the code's
  three loops: `Split` finds one more paragraph (`_split_paragraphs_with_offsets`), `Pack` packs
  a paragraph that fits, `CutWindow` cuts one window of a paragraph that does not, and
  `FlushLast` is the `flush()` after the loops; `Flushed` is what the nested `flush` makes of the
  chunks. The code runs all of `Split` first, and `Packing` waits for that. A chunk keeps, besides
  what the code stores, the offsets of the parts its text is joined from; texts are
  offsets throughout, so that what a chunk says can be compared with where it says it.
- **DocumentText.** The same text, in which a line may begin with a bullet or a
  heading, one symbol each. `Section`, `ReadLine` (a turn of the loop of `_bullets`) and
  `Components` are the three functions of `app/graph/extraction.py` that find the descriptions,
  as offsets, so that `Evidence` (`find_evidence_chunk`) can be compared with where a description
  really stands. `LeadLength` is the 40 characters that are searched for.
- **RequestPool.** `stage` is how far a request has come, from the entry of `get_db` to its
  exit; `todo` the transactions its handler has yet to begin, each of which takes a
  connection at its first statement and gives it back at the commit or the close.
  Handlers run on `Threads` worker threads, an upload on `loop`. The end of a request
  takes the loop twice, to send the response and to run the exit of `get_db`, which FastAPI
  does in a thread outside the limit. What a handler does in between is in the
  other modules.
- **AsyncAction.** A run is a request in one of five phases; `Aborted` says what
  `AbortController.abort()` does in each: a pending fetch or body rejects at once, a
  body that was read is still delivered, an error body's rejection is swallowed by
  `request()`. Cancelling, superseding, failing and answering are the actions.
- **UploadView.** `graph_status` is the line and, for the properties, the extraction it
  is of; `extractions` remembers of each its document and the upload that was the
  latest when it ended. Nothing disables the button, so several may be on their way.
- **ServiceWorker.** A deployment is its `/` and the assets that names. `Navigate`, `LoadAssets`,
  `RegisterServiceWorker` and `Install` are the page's and the worker's steps;
  `cache.put` is a step of its own, since no event waits for it. `/index.html` is
  cached with `/` and asked for by nobody, so it is left out.

An operator named `X_Y` is X with a fault seeded into it: a dropped guard, a
swapped order, a missing reset. No action uses it. `PROJECT.json` "mutants" names, for
every checked property, the fault that must break it under the same run: that is
the evidence that the property depends on the code's behaviour.

## 3. The runs

| run | instance | shows |
|---|---|---|
| `ingest_crash` | 2 processes, 2 uploads over all content and suffix/MIME kinds, 2 faults | no reader sees half an upload, chunk numbering, replies, refinement of `EvidenceLedger`, every upload ends |
| `ingest_torn` | 1 process, 2 uploads of the same bytes, 1 fault | **violated** `StoredBytesAreWhole` |
| `graph_concurrent` | 2 workers, a text (two components, each in two bullets) and a two-page diagram, 3 extractions, aborts anywhere | the two stores' agreement, what failures leave behind, refinement of `ComponentCatalog`, waits for row locks never form a circle |
| `graph_race` | 2 workers, one document | **violated** `NoDuplicateRows` |
| `policy_growth` | all questions over 3 keywords, up to 4 of 8 texts in any order, two of which share a torn word | verdict and severity are monotone, independent of order |
| `review_extraction` | 1 review (four kinds of request) beside 2 extractions of two documents that share a component name | what a review sees of a moving graph; bounds are kept and reported; findings are whole; one node of a component, and one for each failure, is all that serial extractions leave |
| `review_uncited` | a component whose name contains a marker word | **violated** `VerdictsRestOnCitations` |
| `answer` | every mode, `top_k` 1 and 3, two filters, three kinds of question, every result an approximate search can have, both providers, reranking on and off with pools of 2 and 4; 2 uploads, 4 chunks | fusion, reranking, trimming, the transaction, replies |
| `chunking` | every text of up to 9 letters, blanks and line ends, and every section of bullets of that length, `max_chars` 3 and 4, a lead of 2 | chunks say all of the text once, in order, at their offsets; a component is without evidence only if its lead is wrapped or cut |
| `request_pool` | 5 requests in three mixes, 2 connections, 2 threads, 1 contended row | nothing is leaked, a stall is always behind an upload on the loop, every request ends |
| `view_results` | 3 runs of the hook, a cache of one entry, 2 foreign writers; the overview's 2 runs; 3 uploads and 3 extractions; 3 deployments | stale data never shown, spinners, cache bounds; the status line; what a reload through the worker gives |
| `view_stale` | 2 runs | **violated** `ErrorIsLatest` |

Why the bounds are enough. Faults matter in pairs at most (one fault tears, the
next hits the retry). Two workers give every race on one document; a third
extraction runs against the leavings of the first two: when it starts, both rows of the text may
exist, and it and the other worker UPDATE both, twice each (the text has two bullets, with
different words, for each of its two components), so that a wrong order of the updates lets the two wait for each
other, as the fault `ThisComponent_AnyOrder` shows. The plans contain two repeated components, an edge to a name nobody has, an owner, and an edge on a
later page: each branch of `app/graph/service.py` fires. Four texts suffice for every
sequence of verdicts (open, one-sided, conflict, and a further text). Three runs
of the hook let a superseded run answer after its successor has been superseded.
The constants of `answer.cfg` scale the pool sizes of the code (20, multiplier 5)
down to four chunks so that every truncation happens. Nine characters hold
two paragraphs of three or four and their separator, a paragraph of several windows
with a blank one among them, or two bullets of which the first goes on in a
second line. The mixes of `request_pool` are chosen so that more requests than
connections hold or want one, extractions meet on a row, two uploads compete for
the loop, and an upload finds the pool emptied by requests that end behind it; the
engine's own limits (5 connections, 10 more, 40 threads) only make that rarer.
With three deployments a shell, the assets beside it and what is deployed can all differ.
`MaxFaults`, `MaxExtractions`, `MaxTexts`, `MaxRuns`, `MaxClicks`, `MaxWrites` and `MaxLength` are the
only bounds that the code does not have. Most runs turn the deadlock check off, since a
system with a bounded number of requests stops when they have ended; that none
waits for ever is what `EveryUploadEnds`, `EveryExtractionEnds`, `EveryRequestEnds` and
`SpinnerStops` say, and `StallsAreBehindUploads` names the one way requests stall.

Fairness. `Ingestion`: weak fairness of each upload's own steps, because the event
loop is FIFO and the handler's calls return or raise; faults are never fair.
`GraphExtraction`: weak fairness of each worker's step; a worker waiting for a row
lock is not enabled, so two that waited for each other would break `EveryExtractionEnds`.
`RequestPool`: weak fairness of each request's next step and of its time-out: the loop
and the threads run, a free lock is granted, and a statement that finds the pool
empty for 30 seconds raises. No failure is fair. `Frontend`: weak fairness of each
request's progress: the backend answers or the connection breaks. The browser sets
no time limit of its own.

## 4. What the code does not do

Each is a run that TLC ends with a counterexample; `PROJECT.json` quotes both sides.

1. *A torn file is adopted* (`ingest_torn`). `store_raw_bytes` takes an existing file for
   the stored content, so a write that was cut off stays, and later uploads of
   the same bytes commit documents that point to it. `TornFilesHaveACause` bounds the
   damage: without a fault a file is torn only while another process writes it.
2. *Two extractions duplicate components* (`graph_race`), after which every later
   extraction of the document raises `MultipleResultsFound`.
3. *A verdict can rest on nothing that is cited* (`review_uncited`): graph facts are
   judged as sentences but not stored as evidence.
4. *A superseded run can show its error* (`view_stale`) over the newer run's spinner. The button
   is disabled while a run is loading (`Submit`), but an error response may have been read
   already when the user cancels: the spinner stops, the button is free, the next run starts,
   and then the error is delivered.

Noticed while modelling, and not the subject of a run:

- An arrow is filed under the first caption of a diagram, not the one it was read
  from (`app/multimodal/graph.py:144`); `MCGraphExtraction` assumes it of its
  diagram (`ArrowIsMiscited`), so that TLC evaluates it.
- An upload that finds the pool empty waits for a connection on the event loop. Requests
  that have left their handlers cannot give theirs back meanwhile, and nothing else
  is served: all stand still until the pool's 30 seconds are over. `EveryRequestEnds`
  holds by that time-out alone.
- Handlers that write read their rows again after the commit, in a transaction of its
  own; if that one fails, the reply is a 500 for work that is committed. The client cannot tell,
  and its retry makes a second document. `Ingestion` has these behaviours (`Refresh`, `Raise`), and
  `RepliesMatchLedger` allows them: a 500 promises nothing.
- An extraction that was asked for on one upload ends on the card of the upload shown
  by then (`frontend/src/views/UploadView.tsx:103`), and two clicks are two concurrent
  extractions of one document, the case of `graph_race`.
- The first visit to the page caches no assets: they were loaded before the worker
  controlled it, so a reload without a network is blank, which "offline reload"
  (`frontend/public/sw.js:2-3`) does not say. `ControlledPagesReload` holds of later pages.
- `sw.js` and `CACHE_NAME` are the same in every deployment, so the worker installs once
  and serves the shell it got then for ever; if that shell's assets were not cached,
  the page stays blank online as well.
- Wrapped lines of a bullet are joined by blanks, so the beginning of a description is not
  always "literally present in the document" (`app/graph/service.py:53-55`) and finds no
  chunk; a component without a description finds the first one, since every text
  holds the empty one.
- A paragraph after the last bullet, blank line or not, becomes part of that bullet's
  description, although `_bullets` speaks of "no blank line"
  (`app/graph/extraction.py:99-100`).
- After a failed extraction, Neo4j keeps nodes under ids that were rolled back, and
  the retry merges new ones: the graph, not the table, is duplicated. That it is no
  worse, one node of a component for each failure at most and none otherwise, is what
  `UnbackedNodesComeFromAborts` says, and with one worker `DuplicateNodesComeFromAborts`.
- A failed re-extraction leaves a node's provenance set apart from its row's if the document
  speaks of the component in several places that cite different chunks: the first of them
  was merged into the node, the rest was not, and the row was rolled back. `ProvenanceAgrees` says
  that it takes this: of a component in one place, node and row agree at all times.
- A gap can lose its severity "high" when evidence that affirms is added, if it is grave
  only by "personally identifiable" read across the end of a sentence: a conflict is not
  read joined. `SeverityNeverDrops` and `OrderIsIrrelevant` except just that (`Torn`).
- `extract_document_graph` dispatches on the stored MIME type as the client sent it
  (`app/main.py:156`), ingestion on the suffix first: a text sent as `image/png` is
  ingested as a text and extracted as a diagram.
- `TemplateExtractiveProvider` promises a grounded answer (`app/generation/providers.py:62`);
  for a first passage without a word of four characters the score is 0 and
  `is_grounded` is false (`cArrow` in `MCAnswer`).
- `useAsyncAction` speaks of aborting on unmount and has no cleanup that does.
- In `chunk_text`, a window of a long paragraph is stripped but keeps the offsets of
  the unstripped window, and an all-blank window leaves a gap in the indexes.
- A packed chunk may be longer than `max_chars`, by two characters for each paragraph
  after its first: the sum at `app/ingestion/chunking.py:74` leaves out the separators.
- The template provider separates passages with lines `---`, so a passage that has
  such a line itself is quoted only up to it (`app/generation/prompts.py:37`).

## 5. Proofs

What TLC checks on a small instance, the theorems below state for every value of the
constants. Every safety property of a passing run is the subject of one, but for the
one named at the end; `PROJECT.json` "theorems" has the list. The proofs of one
component are in one module, each around an inductive invariant, since hardly any
of the properties is inductive as it stands; the larger invariants were checked by TLC
on the component's instance before they were proved.

**Extraction** (`GraphExtraction_proofs`; any documents, plans, workers and number of
extractions, from `PlanAssumption` only: plans are well typed and an owner's
component is one of the document's).

| theorem | says |
|---|---|
| `TypeCorrect` | `Spec => []TypeOK` |
| `EdgesStay` | no relationship joins nodes of two documents |
| `Mirrored` | a committed row always has its node |
| `WaitsNeverCircle` | extractions never wait for one another's rows in a circle |
| `ProvenanceIsReadable` | a row and its node cite the same chunk: at all times if the plan names the component once, and otherwise as long as none has failed, whenever no extraction is running |
| `UnbackedNodesHaveACause` | a component has at most as many nodes without a row, open transactions aside, as extractions have failed |
| `AnsweredIsComplete` | what an answered extraction has found is in both stores and stays |
| `SerialExtractionsDuplicateNothing` | with one worker no component has two rows, nor more nodes than one and one for each failure |
| `CatalogRefinement` | committed rows implement `ComponentCatalog` |

What makes them inductive is a description of what a worker in the middle of its plan
has already done, `WorkerInv`: it stands at a position of its document's plan (`Located`); its
transaction writes rows of its own document only, disagrees with no node about a
component and leaves no row without a node, but for the one it is about to merge
(`OwnRows`); the ORM object at hand is the row of the component it is at
(`CurrentRow`); the ids it has collected are rows it can see (`PgRows`), of exactly the
components passed so far (`PgCovers`); and of the stores, that ids are
below `next_id` (`Allocated`), so that a new id is new to both. `IInv` is TypeOK, `StoreInv`
and `WorkerInv` of every worker. One lemma per action shows that `IInv` is preserved;
`BystanderInv` says once why the other workers' part survives: rows and nodes only
grow and keep their document and name (`Grows`). The refinement is then one step:
only a commit changes `rows`, and it publishes rows of one document.

More invariants stand on `IInv`. `ProvenanceInv` says which chunk and which description a row
has after the first k entries of its plan, the last ones found for its component (`Cites`, `Describes`), and
that a node which does not cite its plan's last chunk will be merged again by a
worker that has its row (`MergesAgain`); from it follows that committed rows never change again
(`RowsStay`), although they are UPDATEd again and again by whoever extracts the document. `OnceInv` is
what it comes to for a component named in one place. `WaitInv` says which rows an open transaction has
written: those of the entries that change what the entry before them left, up to its place in the
plan. Since all extractions of a document go through one plan in one order, a
worker that waits stands behind the one it waits for (`WaitsForOneAhead`), and one of a group
that is furthest waits for none of it: `WaitsNeverCircle`. `OrphansInv` counts nodes without a row by
failures: a transaction writes at most one new row of a component, so its rollback leaves at most
one such node. `CompleteInv` adds to the answered extractions the links each worker has
made so far. `SerialInv` is about what the one worker sees; the theorem's hypothesis,
one worker, is the case the property claims, and `graph_race` shows what two do.

**Ingestion** (`Ingestion_proofs`; any processes, uploads, contents and number of faults):
`UploadTypeCorrect`, `LedgerStaysCoherent`, `ChunksAreNumbered`, `ClientsAreToldTheTruth`,
`TearsHaveACause`, and `LedgerRefinement`, that every behaviour implements `EvidenceLedger`. `OneProcessStoresWholeFiles`
is the other side of `ingest_torn`: it takes a fault or a second process to store a file torn. The invariant
`IInv` says of each upload what its transaction holds at which step (`TxInv`), that the tables
hold all of it or nothing (`StoreInv`), what its client was told (`ReplyInv`), that it has its
process's loop while it works (`LoopInv`), and of the files who stored each and who is
writing it (`DiskInv`). Numbering is an induction over pages, and an
induction over data cannot be proved here; so the loop over pages is steps of the
model, as it is of the code, and `Numbered` is the invariant of the records
collected so far. The refinement needs `IInv` only where a commit publishes: the
transaction is whole there.

**Review** (`Review_proofs`): `ReviewsLeaveTheStores` says that a behaviour of reviews beside
extractions is one of extractions, `ReviewSpec => Spec`, so all of the above
holds in the composition. On it rest `FindingsStayWhole`, `ReviewsStayBounded`, `NoComponentIsMissed` and
`AnsweredLinksAreSeen`, by `RInv`: what a review remembers was committed or answered
when it began and, stores only growing, still is (`Remembered`); the names it has asked the graph
about, with those it has yet to ask about, answer for all the question mentions, or a
flag says which bound cut it short, and the flags that are stored are those of the steps it
ended with (`Budget`, `Covered`); a name it asked about has a node with the links (`Found`,
`LinksSeen`); and it has no rows in the tables before it commits (`Unwritten`). `ReviewAssumption`
says that the corpus is finite, as a table is; what is counted of it is
compared in size. `CitationsCarryTheVerdict` is the other side of `review_uncited`: if no name of a component
and no kind of relationship has a marker in it (`NoNameIsAMarker`), a verdict rests on
what its finding cites. By `CitedInv` a finding says what is judged of its review,
which cites all the chunks it found, and the ends of every path are names of components.
Sentences stand at places without an order in `Judge`, which spares a fold over sets.

**Answer** (`Answer_proofs`): `AnswersStayWhole`, `RepliesTellTheStore`, `FusionRespectsDominance` and
`RerankingChoosesThePool`, for any ranks, distances and relevances, whatever the vector query
leaves out and whatever is published between the two queries. Fusion never prefers a chunk to one
that the text query ranks higher and the vector query returned nearer, or returned while
it did not return the other; and when all there is fits the pool, reranking
leaves out no match of the text query and nothing the vector query returned for a less relevant chunk. The first half of the module is about
rankings, lists without repetitions: an ordering of a finite set has every element once
(`OrdersAreRankings`); a finite set has one, by a counting argument (`Sorted` is defined);
sums of fractions are ordered as their parts, so the score of a chunk that both queries
rank higher is higher (`HigherOrders`); and a LIMIT that leaves a chunk out kept only
chunks that do not come after it. The second half is `AInv`: types, which searches are ahead (`Underway`), that the text query missed no
chunk that was there when the question came and ranks above one it found, and that the vector
query's result is in the order of distance
(`Searched`), which rows are where at which stage (`Rows`), and what was replied (`Told`). It is assumed
that chunks, their words and the words a model makes up are finitely many, and
that the multiplier of the candidate pool, 5 in the code, is not 0.

**Verdicts** (`EvidenceGrowth_proofs`; any keywords, texts and number of texts): `Sharpening` (a
verdict goes from UNKNOWN to anything, from anything to CONFLICT, and nowhere else)
and `SeverityIsMonotone` (a torn word aside), because a sentence that denies or affirms keeps its place when
others are appended, so the sets the verdict is computed from only grow, and two denying
neighbours stay neighbours (`GraveStays`); and
`OrderNeverMatters`, for verdict and confidence and, where no word is torn, severity, because reversing the evidence
is a bijection of its places (`Mirror`) and of the pairs the confidence counts. That the
words are finitely many is assumed; that splitting a text gives sentences is
assumed too (`SelectSeq` is recursive), and both are evaluated by TLC for the instance.

**Requests** (`RequestPool_proofs`; any requests, loads, size of the pool and number of threads):
`PoolTypeCorrect`; `ResourcesStayOwned`: the connections never exceed the pool's, each is of
a request between its call and its close, a row lock is of an open transaction, and
the loop is an upload's that is running; it is inductive once it says that the connected requests
are finitely many, which the arithmetic of their number needs (`PoolInv`). `StallsNeedAnUpload` says
that requests of which none can go on are all behind an upload on the loop. It is
`StallsAreBehindUploads` with the guards of the actions written out (`Ready`), since the provers
have no ENABLED: `ProgressIsReady` proves that no step is taken without `Ready`, and the
converse is for the reader to compare, guard by guard. The argument: with the loop
free, whoever holds a connection goes on or waits for a row lock, whose holder
goes on (`HoldersGoOn`); so whoever has a thread goes on or waits for one who can (`ThreadsGoOn`),
and whoever waits for a thread waits for those.

**Text** (`DocumentText_proofs`; texts of any length, any chunk sizes and length of a lead):
`ChunksSayAllOfTheText` and `UncutLeadsHaveEvidence`. What a loop computes from a whole text would be
an induction over data; with its turns as steps it is an invariant of each loop instead.
`SplitInv`: the paragraphs found so far have all that is printed before `start`, in order, with
an end of a line between any two. `PartsInv`, `CutInv` and `SpansInv`: what is pending are the last
paragraphs packed, no more than `max_chars` together; the windows of the paragraph being cut
begin at multiples of `max_chars`; each chunk says what is printed between its offsets, and
begins where the one before it ends or later. `PackedInv`: every paragraph that was packed is pending, whole
in a chunk, or cut in such windows. `BulletInv`: a bullet is in order and jumps in the text only at
the ends of lines. From these the second theorem follows when all is chunked and read: what is printed on
one line is in one paragraph, since an end of a line is between two; so a lead on one
line that is not cut is within one part of one chunk (`UncutLeadIsHeld`), and a search that
finds a chunk finds a first one (`FirstFound`). Minima and maxima are the library's `CHOOSE`;
`LeastOf` and `GreatestOf` prove that sets of offsets have them, from the well-foundedness of <.

**Frontend.** `Frontend_proofs` has `StaleDataIsDropped`, `SpinnersAreHonest` and `AbortsStayQuiet` for any number of
runs. What makes them inductive is `SupersededAreAborted`: a run has been aborted as soon as
another begins, so that whatever it still delivers is dropped; and, for aborts, `ShownInv`.
`SerialRunsShowTheLatestError` is the other side of `view_stale`: if no run begins while another is on its
way, aborted or not (`RunsAreSerial`), an error that is shown is the latest run's. The module then shows that every behaviour of the composed frontend is one of the hook
(`FrontendRunsTheHook`): each step of a view is one of `ActionNext` or leaves the hook alone.
The facts then hold of every view. Beside them: `OvershootStaysBounded` and `NewestEntriesSurvive` for the
cache, whose invariant `CacheInv` says that time stamps differ, so that entries can be counted by
rank and a cursor over the oldest deletes as many as it is told to;
`StatusStaysCurrent`, by `LineInv` (while the line says "Extracting" it is of the last
extraction asked for, on the upload on the card), where `UploadAssumption` keeps 0 from being
the number of an upload; and `ServedPagesReload`, by `ShellInv` (an active worker has a shell
and it never changes).

Only model-checked: liveness (`EveryUploadEnds`, `EveryExtractionEnds`, `EveryRequestEnds`, `SpinnerStops`),
which the provers do not handle under fairness, and `StallsAreBehindUploads` as stated, with ENABLED.
Plans are constants to the proofs: that `ExtractionPlan` computes well-typed ones is
`PlanAssumption`, which TLC evaluates for the instance. The violated
properties are refuted, and hold under a condition that a theorem states: `OneProcessStoresWholeFiles`,
`SerialExtractionsDuplicateNothing`, `CitationsCarryTheVerdict`, `SerialRunsShowTheLatestError`.

## 6. Not modelled

The embedding model, OCR, the vision model, the cross-encoder, Postgres' text
search and the regular expressions are external or abstracted to what they
return. Wording, logging, tracing, configuration and the evaluation scripts
have no behaviour that the properties could speak of. Migrations run offline.
Rendering, file previews, preferences and the overview's list of recent entries, which
is read and shown, are left out of the views. The graph client and schema are one cached driver and
idempotent statements that run before every extraction.

## 7. Plan

Done: sections 2 to 5. Ahead:

1. `ReadPage` gives every page of a visual document its records; the indexes of `chunk_text` could
   likewise replace the given `TextSpans` of `Ingestion`. What they need of it, that
   they increase, is checked in `chunking`.
2. The hazards that `PROJECT.json` lists without a property. Of four of them the code does what
   section 4 says: a 500 after the commit, the index gaps of `chunk_text`, the outcome on another upload's card, and the
   shell without its assets; a property would be about code that prevents them. The second dispatch on the
   client's MIME type, and the caption that is cited for the arrows of every page, need
   the content of a document in `GraphExtraction`, whose plans are given by its document now.

New questions are put, where they can be, to the instances that exist: a run per
distinct question, a few deep properties each, rather than many runs.
