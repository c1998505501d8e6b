------------------------------ MODULE Ingestion ------------------------------
(***************************************************************************)
(* POST /documents: an upload is validated, its raw bytes are stored on    *)
(* disk under their hash, and a document row, its chunks and its audit     *)
(* rows are written to Postgres in one transaction.                        *)
(*                                                                         *)
(* Sources: app/main.py (upload_document), app/ingestion/service.py,       *)
(* app/multimodal/service.py, app/db.py.                                   *)
(*                                                                         *)
(* upload_document is an "async def" handler whose body blocks, so from    *)
(* the moment file.read() returns until the reply it keeps its process's   *)
(* event loop to itself (loop[p]).  Two uploads overlap only when two      *)
(* processes serve the same storage directory and the same database.       *)
(*                                                                         *)
(* Abstractions: a content is a model value with a size class, a format    *)
(* and the chunks it yields; its hash is the value itself (SHA-256 is      *)
(* taken to be collision free); a document's id is the upload that made    *)
(* it (gen_random_uuid() never repeats).                                   *)
(*                                                                         *)
(* An operator X_Y is X with the seeded fault its comment names; no action *)
(* uses it, and substituted for X it must break a property (see README).   *)
(***************************************************************************)
EXTENDS Naturals, Sequences, FiniteSets

CONSTANTS
    Procs,       \* server processes, each with one event loop
    Uploads,     \* upload requests; also the ids of the rows they insert
    Contents,    \* distinct file contents
    Size,        \* Contents -> the size in units of 5 MiB, rounded up
    Format,      \* Contents -> "text" (decodes as UTF-8), "image", "pdf", "binary"
    TextSpans,   \* Contents -> the chunk indexes chunk_text returns for it
    OcrRegions,  \* Contents -> per page, how many regions OCR reads on it
    Requests,    \* the [suffix, mime, content] requests clients make
    Idle,        \* the value of loop[p] when no upload holds the loop
    MaxFaults    \* bound on crashes and failed disk writes

TextSuffixes == {".md"}
PdfSuffixes == {".pdf"}
ImageSuffixes == {".png"}
VisualSuffixes == PdfSuffixes \cup ImageSuffixes
AllowedSuffixes == TextSuffixes \cup VisualSuffixes

PdfMimeTypes == {"application/pdf"}
ImageMimeTypes == {"image/png"}

Suffix == AllowedSuffixes \cup {".exe"}
Mime == PdfMimeTypes \cup ImageMimeTypes \cup {"text/plain"}
Request == [suffix : Suffix, mime : Mime, content : Contents]

ASSUME IngestionAssumption ==
    /\ Idle \notin Uploads
    /\ Size \in [Contents -> Nat]
    /\ Format \in [Contents -> {"text", "image", "pdf", "binary"}]
    /\ TextSpans \in [Contents -> Seq(Nat)]
    /\ OcrRegions \in [Contents -> Seq(Nat)]
    /\ Requests \subseteq Request
    /\ MaxFaults \in Nat

\* Limits of upload_document, in the units of Size (5 MiB and 15 MiB).
MaxUploadSize(suffix) == IF suffix \in VisualSuffixes THEN 3 ELSE 1

VARIABLES
    disk,       \* Contents -> state of the file the content is stored in
    documents,  \* committed rows of "documents"
    chunks,     \* committed rows of "chunks"
    audit,      \* committed rows of "audit_log"
    phase,      \* Uploads -> how far the handler has come
    request,    \* Uploads -> the request being served
    server,     \* Uploads -> the process that serves it
    loop,       \* Procs -> the upload that blocks the event loop, or Idle
    tx,         \* Uploads -> what the open transaction has written, and the
                \* handler's records of the pages it has been through
    reply,      \* Uploads -> the reply the client has received
    faults      \* crashes and failed writes so far

vars == <<disk, documents, chunks, audit, phase, request, server, loop, tx,
          reply, faults>>

Blocking == {"store", "open", "write", "insert", "parse", "commit", "refresh"}
Phase == {"idle", "reading", "done", "lost"} \cup Blocking

Status == {"pending", "ingested", "failed"}
Row == [id : Uploads, request : Request, status : Status]
Modality == {"text", "image_ocr", "image_caption"}
Record == [index : Nat, modality : Modality, page : Nat]
ChunkRow == [document : Uploads, index : Nat, modality : Modality, page : Nat]
Event == {"document.uploaded", "document.ingested", "document.ingestion_failed"}
AuditRow == [event : Event, entity : Uploads]
Work == [rows : SUBSET Row, chunks : SUBSET ChunkRow, audit : SUBSET AuditRow,
         page : Nat, records : Seq(Record)]
Written(rows, own, events) ==
    [rows |-> rows, chunks |-> own, audit |-> events, page |-> 0, records |-> <<>>]
NoWork == Written({}, {}, {})
Reply == {"none", "400", "413", "500", "ingested", "failed"}

TypeOK ==
    /\ disk \in [Contents -> {"absent", "torn", "whole"}]
    /\ documents \subseteq Row
    /\ chunks \subseteq ChunkRow
    /\ audit \subseteq AuditRow
    /\ phase \in [Uploads -> Phase]
    /\ request \in [Uploads -> Request]
    /\ server \in [Uploads -> Procs]
    /\ loop \in [Procs -> Uploads \cup {Idle}]
    /\ tx \in [Uploads -> Work]
    /\ reply \in [Uploads -> Reply]
    /\ faults \in 0..MaxFaults

Init ==
    /\ disk = [c \in Contents |-> "absent"]
    /\ documents = {} /\ chunks = {} /\ audit = {}
    /\ phase = [u \in Uploads |-> "idle"]
    /\ request \in [Uploads -> Requests]
    /\ server \in [Uploads -> Procs]
    /\ loop = [p \in Procs |-> Idle]
    /\ tx = [u \in Uploads |-> NoWork]
    /\ reply = [u \in Uploads |-> "none"]
    /\ faults = 0

database == <<documents, chunks, audit>>
Content(u) == request[u].content

(***************************************************************************)
(* The chunks of a document.  A page of a visual document contributes one  *)
(* record per OCR region and then its caption, if the vision provider gave *)
(* one; chunk_index counts the records built so far.                       *)
(***************************************************************************)
OcrRecords(regions, page, next_index) ==
    [i \in 1..regions |->
        [index |-> next_index + i - 1, modality |-> "image_ocr", page |-> page]]

CaptionRecord(page, chunk_index) ==
    [index |-> chunk_index, modality |-> "image_caption", page |-> page]

\* Fault: the caption is appended before the regions of its page.
AddPage_CaptionFirst(records, regions, page, captioned) ==
    LET read == IF captioned THEN Append(records, CaptionRecord(page, Len(records)))
                             ELSE records
    IN  read \o OcrRecords(regions, page, Len(read))

AddPage(records, regions, page, captioned) ==
    LET read == records \o OcrRecords(regions, page, Len(records))
    IN  IF captioned THEN Append(read, CaptionRecord(page, Len(read))) ELSE read

TextRecords(content) ==
    [i \in DOMAIN TextSpans[content] |->
        [index |-> TextSpans[content][i], modality |-> "text", page |-> 0]]

\* The rows added for these records: nothing if the unique constraint on
\* (document_id, chunk_index) would be violated by two of them.
UniqueIndexes(records) ==
    \A i, j \in DOMAIN records : records[i].index = records[j].index => i = j

ChunkRows(u, records) ==
    {[document |-> u, index |-> records[i].index,
      modality |-> records[i].modality, page |-> records[i].page] :
        i \in DOMAIN records}

IsPdf(r) == r.mime \in PdfMimeTypes \/ r.suffix \in PdfSuffixes

IsVisual(r) == r.suffix \in VisualSuffixes

Parses(r) ==
    IF IsVisual(r)
    THEN Format[r.content] = (IF IsPdf(r) THEN "pdf" ELSE "image")
    ELSE Format[r.content] = "text"

(***************************************************************************)
(* The handler.                                                            *)
(***************************************************************************)
Move(u, to) == phase' = [phase EXCEPT ![u] = to]

\* Fault: the loop is not handed back.
Finish_KeepsLoop(u, answer) ==
    /\ Move(u, "done")
    /\ reply' = [reply EXCEPT ![u] = answer]
    /\ tx' = [tx EXCEPT ![u] = NoWork]
    /\ UNCHANGED loop

\* The session is closed without a commit or after one, the reply goes out
\* and the event loop is free for the next handler.
Finish(u, answer) ==
    /\ Move(u, "done")
    /\ reply' = [reply EXCEPT ![u] = answer]
    /\ loop' = [p \in Procs |-> IF loop[p] = u THEN Idle ELSE loop[p]]
    /\ tx' = [tx EXCEPT ![u] = NoWork]

\* The file name is checked before the body is read.
Receive(u) ==
    /\ phase[u] = "idle"
    /\ loop[server[u]] = Idle
    /\ IF request[u].suffix \in AllowedSuffixes
       THEN Move(u, "reading") /\ UNCHANGED <<loop, tx, reply>>
       ELSE Finish(u, "400")
    /\ UNCHANGED <<disk, database, request, server, faults>>

\* "await file.read()" has returned; from here on the handler never yields.
Validate(u) ==
    /\ phase[u] = "reading"
    /\ loop[server[u]] = Idle
    /\ LET size == Size[Content(u)]
       IN  IF size > MaxUploadSize(request[u].suffix) THEN Finish(u, "413")
           ELSE IF size = 0 THEN Finish(u, "400")
           ELSE /\ Move(u, "store")
                /\ loop' = [loop EXCEPT ![server[u]] = u]
                /\ UNCHANGED <<tx, reply>>
    /\ UNCHANGED <<disk, database, request, server, faults>>

\* store_raw_bytes: a file that exists is taken for the stored content.
CheckStored(u) ==
    /\ phase[u] = "store"
    /\ Move(u, IF disk[Content(u)] = "absent" THEN "open" ELSE "insert")
    /\ UNCHANGED <<disk, database, request, server, loop, tx, reply, faults>>

\* Fault: the content is left to a background task.
OpenFile_Deferred(u) ==
    /\ phase[u] = "open"
    /\ disk' = [disk EXCEPT ![Content(u)] = "torn"]
    /\ Move(u, "insert")
    /\ UNCHANGED <<database, request, server, loop, tx, reply, faults>>

\* write_bytes truncates the file before it writes the content.
OpenFile(u) ==
    /\ phase[u] = "open"
    /\ disk' = [disk EXCEPT ![Content(u)] = "torn"]
    /\ Move(u, "write")
    /\ UNCHANGED <<database, request, server, loop, tx, reply, faults>>

WriteFile(u) ==
    /\ phase[u] = "write"
    /\ disk' = [disk EXCEPT ![Content(u)] = "whole"]
    /\ Move(u, "insert")
    /\ UNCHANGED <<database, request, server, loop, tx, reply, faults>>

\* The disk is full or the device fails; the exception ends the request.
WriteFails(u) ==
    /\ phase[u] = "write"
    /\ faults < MaxFaults
    /\ faults' = faults + 1
    /\ Finish(u, "500")
    /\ UNCHANGED <<disk, database, request, server>>

\* Fault: the row is committed where it should only be flushed.
InsertDocument_Commits(u) ==
    /\ phase[u] = "insert"
    /\ LET row == [id |-> u, request |-> request[u], status |-> "pending"]
       IN  /\ documents' = documents \cup {row}
           /\ tx' = [tx EXCEPT ![u] =
                        Written({row}, {}, {[event |-> "document.uploaded", entity |-> u]})]
    /\ Move(u, "parse")
    /\ UNCHANGED <<disk, chunks, audit, request, server, loop, reply, faults>>

InsertDocument(u) ==
    /\ phase[u] = "insert"
    /\ tx' = [tx EXCEPT ![u] =
                Written({[id |-> u, request |-> request[u], status |-> "pending"]}, {},
                        {[event |-> "document.uploaded", entity |-> u]})]
    /\ Move(u, "parse")
    /\ UNCHANGED <<disk, database, request, server, loop, reply, faults>>

Settle(u, status, event, rows) ==
    tx' = [tx EXCEPT ![u] =
              Written({[row EXCEPT !.status = status] : row \in tx[u].rows}, rows,
                      tx[u].audit \cup {[event |-> event, entity |-> u]})]

\* The bytes do not decode, or do not render: the document is kept as failed.
MarkFailed(u) ==
    /\ phase[u] = "parse"
    /\ ~Parses(request[u])
    /\ Settle(u, "failed", "document.ingestion_failed", {})
    /\ Move(u, "commit")
    /\ UNCHANGED <<disk, database, request, server, loop, reply, faults>>

Pages(u) == OcrRegions[Content(u)]

\* The next page is read by OCR and described by the vision provider, if that
\* answers.
ReadPage(u) ==
    /\ phase[u] = "parse"
    /\ IsVisual(request[u]) /\ Parses(request[u])
    /\ tx[u].page < Len(Pages(u))
    /\ \E captioned \in BOOLEAN :
          LET page == tx[u].page + 1
          IN  tx' = [tx EXCEPT ![u] =
                        [tx[u] EXCEPT !.page = page,
                                      !.records = AddPage(tx[u].records, Pages(u)[page],
                                                          page, captioned)]]
    /\ UNCHANGED <<disk, database, phase, request, server, loop, reply, faults>>

\* The text has been chunked, or every page read, and the records embedded.
\* A document without text has no chunks and is ingested all the same.
MarkIngested(u) ==
    /\ phase[u] = "parse"
    /\ Parses(request[u])
    /\ IsVisual(request[u]) => tx[u].page = Len(Pages(u))
    /\ LET records == IF IsVisual(request[u]) THEN tx[u].records
                                              ELSE TextRecords(Content(u))
       IN  /\ UniqueIndexes(records)
           /\ Settle(u, "ingested", "document.ingested", ChunkRows(u, records))
    /\ Move(u, "commit")
    /\ UNCHANGED <<disk, database, request, server, loop, reply, faults>>

\* Fault: the audit rows are left to a later transaction.
Commit_WithoutAudit(u) ==
    /\ phase[u] = "commit"
    /\ documents' = documents \cup tx[u].rows
    /\ chunks' = chunks \cup tx[u].chunks
    /\ Move(u, "refresh")
    /\ UNCHANGED <<audit, disk, request, server, loop, tx, reply, faults>>

Commit(u) ==
    /\ phase[u] = "commit"
    /\ documents' = documents \cup tx[u].rows
    /\ chunks' = chunks \cup tx[u].chunks
    /\ audit' = audit \cup tx[u].audit
    /\ Move(u, "refresh")
    /\ UNCHANGED <<disk, request, server, loop, tx, reply, faults>>

\* db.refresh reads the committed row, which is what the reply reports.
Refresh(u) ==
    /\ phase[u] = "refresh"
    /\ \E row \in documents : row.id = u /\ Finish(u, row.status)
    /\ UNCHANGED <<disk, database, request, server, faults>>

\* Fault: an error handler answers 400 whatever was raised.
Raise_As400(u) ==
    /\ phase[u] \in {"insert", "parse", "commit", "refresh"}
    /\ Finish(u, "400")
    /\ UNCHANGED <<disk, database, request, server, faults>>

\* Any database call, the OCR engine or the embedding model may raise: no
\* handler catches it, get_db closes the session and the transaction is
\* rolled back.  After the commit the rows stay, yet the client sees a 500.
Raise(u) ==
    /\ phase[u] \in {"insert", "parse", "commit", "refresh"}
    /\ Finish(u, "500")
    /\ UNCHANGED <<disk, database, request, server, faults>>

\* The process dies; its requests are never answered.
Crash(p) ==
    /\ faults < MaxFaults
    /\ faults' = faults + 1
    /\ LET victims == {u \in Uploads : server[u] = p /\ phase[u] \in Blocking \cup {"reading"}}
       IN  /\ victims # {}
           /\ phase' = [u \in Uploads |-> IF u \in victims THEN "lost" ELSE phase[u]]
           /\ tx' = [u \in Uploads |-> IF u \in victims THEN NoWork ELSE tx[u]]
    /\ loop' = [loop EXCEPT ![p] = Idle]
    /\ UNCHANGED <<disk, database, request, server, reply>>

Step(u) ==
    \/ Receive(u) \/ Validate(u)
    \/ CheckStored(u) \/ OpenFile(u) \/ WriteFile(u)
    \/ InsertDocument(u) \/ MarkFailed(u) \/ ReadPage(u) \/ MarkIngested(u)
    \/ Commit(u) \/ Refresh(u)

Next ==
    \/ \E u \in Uploads : Step(u) \/ WriteFails(u) \/ Raise(u)
    \/ \E p \in Procs : Crash(p)

\* Every handler that can run is eventually run: the loop is FIFO and the
\* body of a handler blocks on nothing but calls that return or raise.
Fairness == \A u \in Uploads : WF_vars(Step(u))

Spec == Init /\ [][Next]_vars
FairSpec == Spec /\ Fairness

----------------------------------------------------------------------------
(***************************************************************************)
(* Properties.                                                             *)
(***************************************************************************)

\* What other requests can read is never half an upload: a visible document
\* is ingested or failed, a failed one has no chunks, and exactly its two
\* audit rows are there with it; no chunk or audit row is visible without
\* its document (service.py commits them in one transaction, and
\* retrieval/filters.py relies on it).
LedgerIsCoherent ==
    /\ \A row \in documents :
          /\ row.status \in {"ingested", "failed"}
          /\ {a.event : a \in {b \in audit : b.entity = row.id}} =
                {"document.uploaded",
                 IF row.status = "ingested" THEN "document.ingested"
                                            ELSE "document.ingestion_failed"}
          /\ row.status = "failed" => \A c \in chunks : c.document # row.id
    /\ \A c \in chunks : \E row \in documents : row.id = c.document
    /\ \A a \in audit : \E row \in documents : row.id = a.entity

\* The chunks of a visual document are numbered 0, 1, 2, ... without gap, in
\* page order, with a page's caption after its OCR regions, whichever
\* captions failed (multimodal/service.py passes the running length along).
VisualChunksAreNumberedInOrder ==
    \A row \in documents :
        LET own == {c \in chunks : c.document = row.id}
        IN  IsVisual(row.request) =>
            /\ {c.index : c \in own} = 0..(Cardinality(own) - 1)
            /\ \A a, b \in own : a.index < b.index =>
                  /\ a.page <= b.page
                  /\ a.page = b.page => a.modality = "image_ocr"

\* A client is told what the database holds: a reply that names a status
\* comes after the commit of a row with that status, and a request refused
\* by validation has left neither a row nor, unless an accepted upload of
\* the same bytes stored one, a file.
RepliesMatchLedger ==
    /\ \A u \in Uploads :
          /\ reply[u] \in {"ingested", "failed"} =>
                \E row \in documents : row.id = u /\ row.status = reply[u]
          /\ reply[u] \in {"400", "413"} => \A row \in documents : row.id # u
    /\ \A c \in Contents : disk[c] # "absent" =>
          \E u \in Uploads : /\ Content(u) = c
                             /\ phase[u] \notin {"idle", "reading"}
                             /\ reply[u] \notin {"400", "413"}

\* The file a committed document points to holds the bytes that were hashed
\* (docs/SCHEMA.md:28-31, "a claim can be checked against the exact byte
\* content it was derived from").  A crash or a failed write breaks it.
StoredBytesAreWhole ==
    \A row \in documents : disk[row.request.content] = "whole"

\* Nothing else does for good: without one, a committed document's file is
\* torn only while another process is writing the very same bytes to it.
TornFilesHaveACause ==
    faults = 0 =>
        \A row \in documents :
            \/ disk[row.request.content] = "whole"
            \/ \E u \in Uploads : /\ Content(u) = row.request.content
                                  /\ phase[u] = "write" /\ server[u] # server[row.id]

\* Every request is answered unless its process dies under it.
EveryUploadEnds == \A u \in Uploads : <>(phase[u] \in {"done", "lost"})

\* The readers' view of the three tables, and the refinement: every step of
\* every handler is one Publish step of the ledger or changes nothing of it.
VisibleDocument(row) ==
    [id |-> row.id, status |-> row.status,
     chunks |-> {c \in chunks : c.document = row.id},
     events |-> {a.event : a \in {b \in audit : b.entity = row.id}}]

Ledger == INSTANCE EvidenceLedger
             WITH Documents <- Uploads,
                  ledger <- {VisibleDocument(row) : row \in documents}

ImplementsLedger == Ledger!Spec
==============================================================================
