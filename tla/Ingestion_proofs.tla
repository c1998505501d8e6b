-------------------------- MODULE Ingestion_proofs --------------------------
(***************************************************************************)
(* Theorems about Ingestion, for any processes, uploads, contents and      *)
(* faults.  The inductive invariant IInv says of each upload what its      *)
(* transaction holds at which step (TxInv) and that the tables hold all of *)
(* it or nothing (StoreInv), what its client was told (ReplyInv) and that  *)
(* it has its event loop while it works (LoopInv); and of the files, who   *)
(* stored them and who is writing them (DiskInv).                          *)
(***************************************************************************)
EXTENDS Ingestion, FiniteSetTheorems, TLAPS

PendingRow(u) == [id |-> u, request |-> request[u], status |-> "pending"]
SettledRow(u, status) == [id |-> u, request |-> request[u], status |-> status]
Uploaded(u) == [event |-> "document.uploaded", entity |-> u]
Outcome(u, status) ==
    [event |-> IF status = "ingested" THEN "document.ingested"
                                      ELSE "document.ingestion_failed",
     entity |-> u]

\* The records of the first pages of a visual document, in page order.
Numbered(records, pages) ==
    \A i \in 1..Len(records) :
        /\ records[i].index = i - 1
        /\ records[i].page \in 1..pages
        /\ \A j \in 1..Len(records) : i < j =>
              /\ records[i].page <= records[j].page
              /\ records[i].page = records[j].page => records[i].modality = "image_ocr"

\* VisualChunksAreNumberedInOrder of the chunks of one document.
InOrder(own) ==
    /\ {c.index : c \in own} = 0..(Cardinality(own) - 1)
    /\ \A a, b \in own : a.index < b.index =>
          /\ a.page <= b.page
          /\ a.page = b.page => a.modality = "image_ocr"

\* These rows are one whole upload, settled.
Whole(u, rows, own, events) ==
    /\ \A c \in own : c.document = u
    /\ IsVisual(request[u]) => InOrder(own)
    /\ \E status \in {"ingested", "failed"} :
          /\ rows = {SettledRow(u, status)}
          /\ events = {Uploaded(u), Outcome(u, status)}
          /\ status = "failed" => own = {}

RowsOf(u) == {row \in documents : row.id = u}
ChunksOf(u) == {c \in chunks : c.document = u}
EventsOf(u) == {a \in audit : a.entity = u}

\* What the open transaction holds, step by step.
TxInv(u) ==
    /\ phase[u] \notin {"parse", "commit", "refresh"} => tx[u] = NoWork
    /\ phase[u] = "parse" =>
          /\ tx[u].rows = {PendingRow(u)} /\ tx[u].audit = {Uploaded(u)}
          /\ Numbered(tx[u].records, tx[u].page)
    /\ phase[u] = "commit" => Whole(u, tx[u].rows, tx[u].chunks, tx[u].audit)

\* What the tables hold of it: nothing, or all of it once it is committed.
StoreInv(u) ==
    \/ /\ phase[u] # "refresh"
       /\ RowsOf(u) = {} /\ ChunksOf(u) = {} /\ EventsOf(u) = {}
    \/ /\ phase[u] \in {"refresh", "done", "lost"}
       /\ Whole(u, RowsOf(u), ChunksOf(u), EventsOf(u))

\* What its client was told.
ReplyInv(u) ==
    /\ reply[u] # "none" => phase[u] = "done"
    /\ reply[u] \in {"ingested", "failed"} => \E row \in RowsOf(u) : row.status = reply[u]
    /\ reply[u] \in {"400", "413"} => RowsOf(u) = {}

\* While it works it has the event loop of its process.
LoopInv(u) == phase[u] \in Blocking => loop[server[u]] = u

\* Who stored a file, who is writing a torn one, and that this is never an
\* upload of the process that has committed a document with these bytes.
Stored == {"write", "insert", "parse", "commit", "refresh"}
DiskInv ==
    /\ \A u \in Uploads : phase[u] \in Stored \/ RowsOf(u) # {} => disk[Content(u)] # "absent"
    /\ \A c \in Contents :
          /\ disk[c] # "absent" =>
                \E u \in Uploads : /\ Content(u) = c
                                   /\ phase[u] \notin {"idle", "reading"}
                                   /\ reply[u] \notin {"400", "413"}
          /\ disk[c] = "torn" /\ faults = 0 =>
                \E u \in Uploads : Content(u) = c /\ phase[u] = "write"
    /\ \A u, v \in Uploads :
          RowsOf(u) # {} /\ phase[v] \in {"open", "write"} /\ Content(u) = Content(v)
             => server[u] # server[v]

IInv ==
    /\ TypeOK
    /\ \A u \in Uploads : TxInv(u) /\ StoreInv(u) /\ ReplyInv(u) /\ LoopInv(u)
    /\ DiskInv

----------------------------------------------------------------------------
LEMMA AddPageIsNumbered ==
    ASSUME NEW records \in Seq(Record), NEW pages \in Nat, Numbered(records, pages),
           NEW regions \in Nat, NEW captioned \in BOOLEAN
    PROVE  /\ AddPage(records, regions, pages + 1, captioned) \in Seq(Record)
           /\ Numbered(AddPage(records, regions, pages + 1, captioned), pages + 1)
<1> DEFINE page == pages + 1
           ocr == OcrRecords(regions, page, Len(records))
           read == records \o ocr
           caption == CaptionRecord(page, Len(read))
<1>1. /\ ocr \in Seq(Record) /\ Len(ocr) = regions
      /\ \A i \in 1..regions : ocr[i] = [index |-> Len(records) + i - 1,
                                        modality |-> "image_ocr", page |-> page]
  <2>1. \A i \in 1..regions : Len(records) + i - 1 \in Nat
    OBVIOUS
  <2>2. \A i \in 1..regions : [index |-> Len(records) + i - 1,
                               modality |-> "image_ocr", page |-> page] \in Record
    BY <2>1 DEF Record, Modality
  <2>3. /\ ocr \in [1..regions -> Record]
        /\ \A i \in 1..regions : ocr[i] = [index |-> Len(records) + i - 1,
                                          modality |-> "image_ocr", page |-> page]
    BY <2>2 DEF OcrRecords
  <2> HIDE DEF ocr
  <2> QED  BY <2>3
<1>2. /\ read \in Seq(Record) /\ Len(read) = Len(records) + regions
      /\ \A i \in 1..Len(records) : read[i] = records[i]
      /\ \A i \in Len(records)+1..Len(read) : read[i] = ocr[i - Len(records)]
  BY <1>1
<1>3. \A i \in 1..Len(read) : i > Len(records) =>
          /\ read[i].index = i - 1
          /\ read[i].page = page
          /\ read[i].modality = "image_ocr"
  <2> HIDE DEF ocr, read
  <2> SUFFICES ASSUME NEW i \in 1..Len(read), i > Len(records)
               PROVE  /\ read[i].index = i - 1
                      /\ read[i].page = page
                      /\ read[i].modality = "image_ocr"
    OBVIOUS
  <2>1. i - Len(records) \in 1..regions /\ Len(records) + (i - Len(records)) - 1 = i - 1
    BY <1>2
  <2>2. read[i] = ocr[i - Len(records)]
    BY <1>2
  <2>3. ocr[i - Len(records)] = [index |-> i - 1, modality |-> "image_ocr", page |-> page]
    BY <1>1, <2>1
  <2> QED  BY <2>2, <2>3
<1> HIDE DEF ocr, read
<1>4. Numbered(read, page)
  <2>1. \A i \in 1..Len(records) : records[i] \in Record
    OBVIOUS
  <2> SUFFICES ASSUME NEW i \in 1..Len(read)
               PROVE  /\ read[i].index = i - 1 /\ read[i].page \in 1..page
                      /\ \A j \in 1..Len(read) : i < j =>
                            /\ read[i].page <= read[j].page
                            /\ read[i].page = read[j].page => read[i].modality = "image_ocr"
    BY DEF Numbered
  <2>2. CASE i <= Len(records)
    <3>1. read[i] = records[i] /\ records[i].index = i - 1 /\ records[i].page \in 1..pages
      BY <1>2, <2>2 DEF Numbered
    <3> SUFFICES ASSUME NEW j \in 1..Len(read), i < j
                 PROVE  /\ read[i].page <= read[j].page
                        /\ read[i].page = read[j].page => read[i].modality = "image_ocr"
      BY <3>1
    <3>2. CASE j <= Len(records)
      BY <1>2, <2>2, <3>1, <3>2 DEF Numbered
    <3>3. CASE j > Len(records)
      BY <1>3, <3>1, <3>3
    <3> QED  BY <1>2, <3>2, <3>3
  <2>3. CASE i > Len(records)
    <3>1. read[i].index = i - 1 /\ read[i].page = page /\ read[i].modality = "image_ocr"
      BY <1>3, <2>3
    <3>2. \A j \in 1..Len(read) : i < j => read[j].page = page
      BY <1>2, <1>3, <2>3
    <3> QED  BY <3>1, <3>2
  <2> QED  BY <1>2, <2>2, <2>3
<1>5. CASE captioned
  <2>1. /\ caption = [index |-> Len(read), modality |-> "image_caption", page |-> page]
        /\ caption \in Record
    BY <1>2 DEF CaptionRecord, Record, Modality
  <2> DEFINE next == Append(read, caption)
  <2>2. /\ next \in Seq(Record) /\ Len(next) = Len(read) + 1
        /\ \A i \in 1..Len(read) : next[i] = read[i]
        /\ next[Len(next)] = caption
    <3> HIDE DEF read, caption
    <3>1. read \in Seq(Record) /\ caption \in Record
      BY <1>2, <2>1
    <3> QED  BY <3>1
  <2>3. AddPage(records, regions, page, captioned) = next
    BY <1>5 DEF AddPage, ocr, read, caption
  <2> HIDE DEF next, read, caption
  <2>4. Numbered(next, page)
    <3> SUFFICES ASSUME NEW i \in 1..Len(next)
                 PROVE  /\ next[i].index = i - 1 /\ next[i].page \in 1..page
                        /\ \A j \in 1..Len(next) : i < j =>
                              /\ next[i].page <= next[j].page
                              /\ next[i].page = next[j].page => next[i].modality = "image_ocr"
      BY DEF Numbered
    <3>1. CASE i \in 1..Len(read)
      <4>1. next[i] = read[i] /\ read[i].index = i - 1 /\ read[i].page \in 1..page
        BY <1>4, <2>2, <3>1 DEF Numbered
      <4> SUFFICES ASSUME NEW j \in 1..Len(next), i < j
                   PROVE  /\ next[i].page <= next[j].page
                          /\ next[i].page = next[j].page => next[i].modality = "image_ocr"
        BY <4>1
      <4>2. CASE j \in 1..Len(read)
        BY <1>4, <2>2, <3>1, <4>2 DEF Numbered
      <4>3. CASE j = Len(next)
        <5>1. read[i].page = page => read[i].modality = "image_ocr"
          <6>1. CASE i <= Len(records)
            BY <1>2, <6>1 DEF Numbered
          <6>2. CASE i > Len(records)
            BY <1>3, <3>1, <6>2
          <6> QED  BY <1>2, <3>1, <6>1, <6>2
        <5> QED  BY <2>1, <2>2, <4>1, <4>3, <5>1
      <4>4. j \in 1..Len(read) \/ j = Len(next)
        <5>1. Len(read) \in Nat /\ Len(next) = Len(read) + 1
          BY <1>2, <2>2
        <5> QED  BY <5>1
      <4> QED  BY <4>2, <4>3, <4>4
    <3>2. CASE i = Len(next)
      BY <1>2, <2>1, <2>2, <3>2
    <3>3. i \in 1..Len(read) \/ i = Len(next)
      <4>1. Len(read) \in Nat /\ Len(next) = Len(read) + 1
        BY <1>2, <2>2
      <4> QED  BY <4>1
    <3> QED  BY <3>1, <3>2, <3>3
  <2> QED  BY <2>2, <2>3, <2>4
<1>6. CASE ~captioned
  <2>1. AddPage(records, regions, page, captioned) = read
    BY <1>6 DEF AddPage, ocr, read
  <2> QED  BY <1>2, <1>4, <2>1
<1> QED  BY <1>5, <1>6

LEMMA NumberedChunksAreInOrder ==
    ASSUME NEW u \in Uploads, NEW records \in Seq(Record), NEW pages \in Nat,
           Numbered(records, pages)
    PROVE  InOrder(ChunkRows(u, records))
<1> DEFINE row(i) == [document |-> u, index |-> records[i].index,
                      modality |-> records[i].modality, page |-> records[i].page]
           n == Len(records)
           own == {row(i) : i \in 1..n}
           f == [i \in 1..n |-> row(i)]
<1>1. n \in Nat /\ ChunkRows(u, records) = own
  BY DEF ChunkRows
<1>2. \A i \in 1..n : row(i).index = i - 1
  BY DEF Numbered
<1>3. Cardinality(own) = n
  <2>1. f \in Bijection(1..n, own)
    <3>1. f \in [1..n -> own]
      OBVIOUS
    <3>2. \A i, j \in 1..n : f[i] = f[j] => i = j
      <4> SUFFICES ASSUME NEW i \in 1..n, NEW j \in 1..n, f[i] = f[j] PROVE i = j
        OBVIOUS
      <4>1. f[i].index = i - 1 /\ f[j].index = j - 1
        BY <1>2
      <4> QED  BY <1>1, <4>1
    <3>3. \A c \in own : \E i \in 1..n : f[i] = c
      OBVIOUS
    <3> QED  BY <3>1, <3>2, <3>3 DEF Bijection, Injection, Surjection, IsInjective
  <2> QED  BY <1>1, <2>1, FS_CountingElements DEF ExistsBijection
<1>4. {c.index : c \in own} = 0..(n - 1)
  <2>1. {c.index : c \in own} = {i - 1 : i \in 1..n}
    BY <1>2
  <2> HIDE DEF n
  <2>2. \A x \in 0..(n - 1) : x \in {i - 1 : i \in 1..n}
    <3> SUFFICES ASSUME NEW x \in 0..(n - 1) PROVE \E i \in 1..n : x = i - 1
      OBVIOUS
    <3>1. x + 1 \in 1..n /\ x = (x + 1) - 1
      BY <1>1
    <3> QED  BY <3>1
  <2>3. \A i \in 1..n : i - 1 \in 0..(n - 1)
    BY <1>1
  <2>4. {i - 1 : i \in 1..n} = 0..(n - 1)
    BY <2>2, <2>3
  <2> QED  BY <2>1, <2>4
<1>5. ASSUME NEW a \in own, NEW b \in own, a.index < b.index
      PROVE  a.page <= b.page /\ (a.page = b.page => a.modality = "image_ocr")
  <2>1. PICK i \in 1..n, j \in 1..n : a = row(i) /\ b = row(j)
    OBVIOUS
  <2>2. i < j
    BY <1>1, <1>2, <1>5, <2>1
  <2> QED  BY <2>1, <2>2 DEF Numbered
<1> HIDE DEF own
<1> QED  BY <1>1, <1>3, <1>4, <1>5 DEF InOrder

----------------------------------------------------------------------------
\* Only upload u moves, and not the tables, its request or its process.
Quiet(u) ==
    /\ UNCHANGED <<database, request, server>>
    /\ \A v \in Uploads \ {u} :
          phase'[v] = phase[v] /\ tx'[v] = tx[v] /\ reply'[v] = reply[v]

LEMMA Bystander ==
    ASSUME NEW v \in Uploads, TxInv(v), StoreInv(v), ReplyInv(v),
           phase'[v] = phase[v], tx'[v] = tx[v], reply'[v] = reply[v],
           request'[v] = request[v],
           RowsOf(v)' = RowsOf(v), ChunksOf(v)' = ChunksOf(v), EventsOf(v)' = EventsOf(v)
    PROVE  TxInv(v)' /\ StoreInv(v)' /\ ReplyInv(v)'
<1>1. \A rows, own, events : Whole(v, rows, own, events)' <=> Whole(v, rows, own, events)
  BY DEF Whole, SettledRow, Uploaded, Outcome
<1>2. PendingRow(v)' = PendingRow(v) /\ Uploaded(v)' = Uploaded(v)
  BY DEF PendingRow, Uploaded
<1>3. TxInv(v)'
  BY <1>1, <1>2 DEF TxInv, Whole, SettledRow, Uploaded, Outcome
<1>4. StoreInv(v)'
  BY <1>1 DEF StoreInv, Whole, SettledRow, Uploaded, Outcome
<1>5. ReplyInv(v)'
  BY DEF ReplyInv
<1> QED  BY <1>3, <1>4, <1>5

LEMMA SameTables ==
    ASSUME UNCHANGED database
    PROVE  \A v : /\ RowsOf(v)' = RowsOf(v) /\ ChunksOf(v)' = ChunksOf(v)
                  /\ EventsOf(v)' = EventsOf(v)
BY DEF database, RowsOf, ChunksOf, EventsOf

LEMMA QuietStep ==
    ASSUME IInv, NEW u \in Uploads, Quiet(u), TypeOK', DiskInv',
           TxInv(u)', StoreInv(u)', ReplyInv(u)', LoopInv(u)',
           \A v \in Uploads \ {u} :
               phase[v] \in Blocking => loop'[server[v]] = loop[server[v]]
    PROVE  IInv'
<1> SUFFICES ASSUME NEW v \in Uploads \ {u}
             PROVE  (TxInv(v) /\ StoreInv(v) /\ ReplyInv(v) /\ LoopInv(v))'
  BY DEF IInv
<1>1. TxInv(v)' /\ StoreInv(v)' /\ ReplyInv(v)'
  BY SameTables, Bystander DEF Quiet, IInv
<1>2. LoopInv(v)'
  BY DEF Quiet, IInv, LoopInv
<1> QED  BY <1>1, <1>2

\* What a step that writes no file needs for DiskInv to stand.
LEMMA SameDisk ==
    ASSUME IInv, NEW u \in Uploads, Quiet(u), UNCHANGED disk,
           phase'[u] \in Stored => phase[u] \in Stored \/ disk[Content(u)] # "absent",
           phase[u] \notin {"idle", "reading"} =>
               phase'[u] \notin {"idle", "reading"} /\ reply'[u] \notin {"400", "413"},
           phase'[u] \in {"open", "write"} =>
               phase[u] \in {"open", "write"} \/ disk[Content(u)] = "absent",
           phase[u] = "write" => phase'[u] = "write" \/ faults' # 0,
           faults' = 0 => faults = 0
    PROVE  DiskInv'
<1>1. \A v : RowsOf(v)' = RowsOf(v) /\ Content(v)' = Content(v) /\ server'[v] = server[v]
  BY SameTables DEF Quiet, Content
<1>2. ASSUME NEW v \in Uploads, (phase[v] \in Stored)' \/ (RowsOf(v) # {})'
      PROVE  (disk[Content(v)] # "absent")'
  <2>1. phase[v] \in Stored \/ RowsOf(v) # {} \/ disk[Content(v)] # "absent"
    BY <1>1, <1>2 DEF Quiet
  <2> QED  BY <1>1, <2>1 DEF IInv, DiskInv
<1>3. ASSUME NEW c \in Contents, disk'[c] # "absent"
      PROVE  \E v \in Uploads : (/\ Content(v) = c /\ phase[v] \notin {"idle", "reading"}
                                 /\ reply[v] \notin {"400", "413"})'
  <2>1. PICK v \in Uploads : /\ Content(v) = c /\ phase[v] \notin {"idle", "reading"}
                            /\ reply[v] \notin {"400", "413"}
    BY <1>3 DEF IInv, DiskInv
  <2>2. phase'[v] \notin {"idle", "reading"} /\ reply'[v] \notin {"400", "413"}
    BY <2>1 DEF Quiet
  <2> QED  BY <1>1, <2>1, <2>2
<1>4. ASSUME NEW c \in Contents, disk'[c] = "torn", faults' = 0
      PROVE  \E v \in Uploads : (Content(v) = c /\ phase[v] = "write")'
  <2>1. PICK v \in Uploads : Content(v) = c /\ phase[v] = "write"
    BY <1>4 DEF IInv, DiskInv
  <2>2. phase'[v] = "write"
    BY <1>4, <2>1 DEF Quiet
  <2> QED  BY <1>1, <2>1, <2>2
<1>5. ASSUME NEW v \in Uploads, NEW w \in Uploads,
             (RowsOf(v) # {})', phase'[w] \in {"open", "write"}, (Content(v) = Content(w))'
      PROVE  (server[v] # server[w])'
  <2>1. RowsOf(v) # {} /\ Content(v) = Content(w)
    BY <1>1, <1>5
  <2>2. disk[Content(v)] # "absent"
    BY <2>1 DEF IInv, DiskInv
  <2>3. phase[w] \in {"open", "write"}
    BY <1>5, <2>1, <2>2 DEF Quiet
  <2> QED  BY <1>1, <2>1, <2>3 DEF IInv, DiskInv
<1> QED  BY <1>2, <1>3, <1>4, <1>5 DEF DiskInv

LEMMA WrittenIsWork ==
    ASSUME NEW rows \in SUBSET Row, NEW own \in SUBSET ChunkRow, NEW events \in SUBSET AuditRow
    PROVE  Written(rows, own, events) \in Work
<1>1. <<>> \in Seq(Record)
  OBVIOUS
<1> QED  BY <1>1 DEF Written, Work

LEMMA LoopIsHandedBack ==
    ASSUME IInv, NEW u \in Uploads,
           loop' = [p \in Procs |-> IF loop[p] = u THEN Idle ELSE loop[p]]
    PROVE  /\ loop' \in [Procs -> Uploads \cup {Idle}]
           /\ \A v \in Uploads \ {u} :
                 phase[v] \in Blocking => loop'[server[v]] = loop[server[v]]
BY DEF IInv, TypeOK, LoopInv

----------------------------------------------------------------------------
\* One lemma per action.
LEMMA FinishStep ==
    ASSUME IInv, NEW u \in Uploads, NEW answer \in Reply \ {"none"}, Finish(u, answer),
           UNCHANGED <<disk, database, request, server>>,
           faults' \in 0..MaxFaults, faults' = 0 => faults = 0,
           phase[u] = "write" => faults' # 0,
           answer \in {"ingested", "failed"} => \E row \in RowsOf(u) : row.status = answer,
           answer \in {"400", "413"} => phase[u] \in {"idle", "reading"}
    PROVE  IInv'
<1>1. /\ Quiet(u) /\ phase'[u] = "done" /\ reply'[u] = answer /\ tx'[u] = NoWork
      /\ phase' \in [Uploads -> Phase] /\ reply' \in [Uploads -> Reply]
      /\ tx' = [tx EXCEPT ![u] = NoWork]
  BY DEF Finish, Move, Quiet, IInv, TypeOK, Phase
<1>2. NoWork \in Work
  BY WrittenIsWork DEF NoWork
<1>3. TypeOK'
  <2>1. tx' \in [Uploads -> Work]
    BY <1>1, <1>2 DEF IInv, TypeOK
  <2>2. loop' \in [Procs -> Uploads \cup {Idle}]
    BY LoopIsHandedBack DEF Finish
  <2> QED  BY <1>1, <2>1, <2>2 DEF IInv, TypeOK, database
<1>4. RowsOf(u)' = RowsOf(u) /\ ChunksOf(u)' = ChunksOf(u) /\ EventsOf(u)' = EventsOf(u)
  BY SameTables
<1>5. TxInv(u)'
  BY <1>1 DEF TxInv
<1>6. StoreInv(u)'
  BY <1>1, <1>4 DEF IInv, StoreInv, Whole, SettledRow, Uploaded, Outcome
<1>7. ReplyInv(u)'
  BY <1>1, <1>4 DEF IInv, StoreInv, ReplyInv
<1>8. LoopInv(u)'
  BY <1>1 DEF LoopInv, Blocking
<1>9. DiskInv'
  BY <1>1, SameDisk DEF Stored
<1> QED  BY <1>1, <1>3, <1>5, <1>6, <1>7, <1>8, <1>9, LoopIsHandedBack, QuietStep DEF Finish

\* A step that only moves to another phase, before the row is inserted.
LEMMA MoveStep ==
    ASSUME IInv, NEW u \in Uploads, Quiet(u), UNCHANGED <<tx, reply, faults>>,
           phase' \in [Uploads -> Phase], disk' \in [Contents -> {"absent", "torn", "whole"}],
           loop' \in [Procs -> Uploads \cup {Idle}],
           phase[u] \notin {"parse", "commit", "refresh", "done", "lost"},
           phase'[u] \notin {"parse", "commit", "refresh", "done", "lost"},
           LoopInv(u)', DiskInv',
           \A v \in Uploads \ {u} :
               phase[v] \in Blocking => loop'[server[v]] = loop[server[v]]
    PROVE  IInv'
<1>1. TypeOK'
  BY DEF Quiet, IInv, TypeOK, database
<1>2. RowsOf(u)' = RowsOf(u) /\ ChunksOf(u)' = ChunksOf(u) /\ EventsOf(u)' = EventsOf(u)
  BY SameTables DEF Quiet
<1>3. TxInv(u)'
  BY DEF IInv, TxInv
<1>4. StoreInv(u)'
  BY <1>2 DEF IInv, StoreInv
<1>5. ReplyInv(u)'
  BY <1>2 DEF IInv, ReplyInv
<1> QED  BY <1>1, <1>3, <1>4, <1>5, QuietStep

LEMMA ReceiveInv ==
    ASSUME IInv, NEW u \in Uploads, Receive(u)
    PROVE  IInv'
<1>1. CASE request[u].suffix \in AllowedSuffixes
  <2>1. /\ Quiet(u) /\ phase'[u] = "reading" /\ phase[u] = "idle"
        /\ phase' \in [Uploads -> Phase]
        /\ UNCHANGED <<tx, reply, faults, loop, disk>>
    BY <1>1 DEF Receive, Move, Quiet, IInv, TypeOK, Phase
  <2>2. LoopInv(u)'
    BY <2>1 DEF LoopInv, Blocking
  <2>3. DiskInv'
    BY <2>1, SameDisk DEF Stored
  <2> QED  BY <2>1, <2>2, <2>3, MoveStep DEF IInv, TypeOK
<1>2. CASE request[u].suffix \notin AllowedSuffixes
  <2>1. Finish(u, "400") /\ UNCHANGED <<disk, database, request, server, faults>>
    BY <1>2 DEF Receive
  <2> QED  BY <2>1, FinishStep DEF Receive, Reply, IInv, TypeOK
<1> QED  BY <1>1, <1>2

LEMMA ValidateInv ==
    ASSUME IInv, NEW u \in Uploads, Validate(u)
    PROVE  IInv'
<1>1. CASE \E answer \in {"400", "413"} : Finish(u, answer)
  <2>1. PICK answer \in {"400", "413"} : Finish(u, answer)
    BY <1>1
  <2> QED  BY <2>1, FinishStep DEF Validate, Reply, IInv, TypeOK
<1>2. CASE Move(u, "store") /\ loop' = [loop EXCEPT ![server[u]] = u] /\ UNCHANGED <<tx, reply>>
  <2>1. /\ Quiet(u) /\ phase'[u] = "store" /\ phase[u] = "reading"
        /\ phase' \in [Uploads -> Phase] /\ server[u] \in Procs
        /\ UNCHANGED <<tx, reply, faults, disk>>
    BY <1>2 DEF Validate, Move, Quiet, IInv, TypeOK, Phase, Blocking
  <2>2. loop' \in [Procs -> Uploads \cup {Idle}] /\ loop'[server[u]] = u
    BY <1>2, <2>1 DEF IInv, TypeOK
  <2>3. LoopInv(u)'
    BY <2>1, <2>2 DEF LoopInv, Quiet
  <2>4. DiskInv'
    BY <2>1, SameDisk DEF Stored
  <2>5. \A v \in Uploads \ {u} :
            phase[v] \in Blocking => loop'[server[v]] = loop[server[v]]
    BY <1>2, IngestionAssumption DEF Validate, IInv, TypeOK, LoopInv
  <2> QED  BY <2>1, <2>2, <2>3, <2>4, <2>5, MoveStep DEF IInv, TypeOK
<1> QED  BY <1>1, <1>2 DEF Validate

LEMMA CheckStoredInv ==
    ASSUME IInv, NEW u \in Uploads, CheckStored(u)
    PROVE  IInv'
<1>1. /\ Quiet(u) /\ phase[u] = "store"
      /\ phase'[u] = IF disk[Content(u)] = "absent" THEN "open" ELSE "insert"
      /\ phase' \in [Uploads -> Phase]
      /\ UNCHANGED <<tx, reply, faults, loop, disk>>
  BY DEF CheckStored, Move, Quiet, IInv, TypeOK, Phase, Blocking
<1>2. LoopInv(u)'
  BY <1>1 DEF LoopInv, Blocking, IInv, Quiet
<1>3. reply'[u] = "none"
  BY <1>1 DEF IInv, ReplyInv
<1>4. DiskInv'
  BY <1>1, <1>3, SameDisk DEF Stored
<1> QED  BY <1>1, <1>2, <1>4, MoveStep DEF IInv, TypeOK

LEMMA OpenFileInv ==
    ASSUME IInv, NEW u \in Uploads, OpenFile(u)
    PROVE  IInv'
<1>1. /\ Quiet(u) /\ phase[u] = "open" /\ phase'[u] = "write"
      /\ phase' \in [Uploads -> Phase] /\ disk' = [disk EXCEPT ![Content(u)] = "torn"]
      /\ UNCHANGED <<tx, reply, faults, loop, request, server>>
  BY DEF OpenFile, Move, Quiet, IInv, TypeOK, Phase, Blocking
<1>2. Content(u) \in Contents
  BY DEF IInv, TypeOK, Request, Content
<1>3. LoopInv(u)'
  BY <1>1 DEF LoopInv, Blocking, IInv, Quiet
<1>4. reply[u] = "none"
  BY <1>1 DEF IInv, ReplyInv
<1>5. \A v : RowsOf(v)' = RowsOf(v) /\ Content(v)' = Content(v)
  BY <1>1, SameTables DEF Quiet, Content
<1>6. DiskInv'
  <2>1. \A v \in Uploads : (phase[v] \in Stored \/ RowsOf(v) # {})'
                            => (disk[Content(v)] # "absent")'
    BY <1>1, <1>2, <1>5 DEF IInv, TypeOK, DiskInv, Quiet
  <2>2. ASSUME NEW c \in Contents, disk'[c] # "absent"
        PROVE  \E v \in Uploads : (/\ Content(v) = c /\ phase[v] \notin {"idle", "reading"}
                                   /\ reply[v] \notin {"400", "413"})'
    <3>1. CASE c = Content(u)
      BY <1>1, <1>4, <1>5, <3>1
    <3>2. CASE c # Content(u)
      <4>1. PICK v \in Uploads : /\ Content(v) = c /\ phase[v] \notin {"idle", "reading"}
                                /\ reply[v] \notin {"400", "413"}
        BY <1>1, <2>2, <3>2 DEF IInv, TypeOK, DiskInv
      <4>2. v # u
        BY <3>2, <4>1
      <4> QED  BY <1>1, <1>5, <4>1, <4>2 DEF Quiet
    <3> QED  BY <3>1, <3>2
  <2>3. ASSUME NEW c \in Contents, disk'[c] = "torn", faults' = 0
        PROVE  \E v \in Uploads : (Content(v) = c /\ phase[v] = "write")'
    <3>1. CASE c = Content(u)
      BY <1>1, <1>5, <3>1
    <3>2. CASE c # Content(u)
      <4>1. PICK v \in Uploads : Content(v) = c /\ phase[v] = "write"
        BY <1>1, <2>3, <3>2 DEF IInv, TypeOK, DiskInv
      <4>2. v # u
        BY <3>2, <4>1
      <4> QED  BY <1>1, <1>5, <4>1, <4>2 DEF Quiet
    <3> QED  BY <3>1, <3>2
  <2>4. ASSUME NEW v \in Uploads, NEW w \in Uploads,
               (RowsOf(v) # {})', phase'[w] \in {"open", "write"}, (Content(v) = Content(w))'
        PROVE  (server[v] # server[w])'
    BY <1>1, <1>5, <2>4 DEF IInv, DiskInv, Quiet
  <2> QED  BY <2>1, <2>2, <2>3, <2>4 DEF DiskInv
<1> QED  BY <1>1, <1>2, <1>3, <1>6, MoveStep DEF IInv, TypeOK

LEMMA WriteFileInv ==
    ASSUME IInv, NEW u \in Uploads, WriteFile(u)
    PROVE  IInv'
<1>1. /\ Quiet(u) /\ phase[u] = "write" /\ phase'[u] = "insert"
      /\ phase' \in [Uploads -> Phase] /\ disk' = [disk EXCEPT ![Content(u)] = "whole"]
      /\ UNCHANGED <<tx, reply, faults, loop, request, server>>
  BY DEF WriteFile, Move, Quiet, IInv, TypeOK, Phase, Blocking
<1>2. Content(u) \in Contents
  BY DEF IInv, TypeOK, Request, Content
<1>3. LoopInv(u)'
  BY <1>1 DEF LoopInv, Blocking, IInv, Quiet
<1>4. reply[u] = "none"
  BY <1>1 DEF IInv, ReplyInv
<1>5. \A v : RowsOf(v)' = RowsOf(v) /\ Content(v)' = Content(v)
  BY <1>1, SameTables DEF Quiet, Content
<1>6. DiskInv'
  <2>1. \A v \in Uploads : (phase[v] \in Stored \/ RowsOf(v) # {})'
                            => (disk[Content(v)] # "absent")'
    BY <1>1, <1>2, <1>5 DEF IInv, TypeOK, DiskInv, Quiet
  <2>2. ASSUME NEW c \in Contents, disk'[c] # "absent"
        PROVE  \E v \in Uploads : (/\ Content(v) = c /\ phase[v] \notin {"idle", "reading"}
                                   /\ reply[v] \notin {"400", "413"})'
    <3>1. CASE c = Content(u)
      BY <1>1, <1>4, <1>5, <3>1
    <3>2. CASE c # Content(u)
      <4>1. PICK v \in Uploads : /\ Content(v) = c /\ phase[v] \notin {"idle", "reading"}
                                /\ reply[v] \notin {"400", "413"}
        BY <1>1, <2>2, <3>2 DEF IInv, TypeOK, DiskInv
      <4>2. v # u
        BY <3>2, <4>1
      <4> QED  BY <1>1, <1>5, <4>1, <4>2 DEF Quiet
    <3> QED  BY <3>1, <3>2
  <2>3. ASSUME NEW c \in Contents, disk'[c] = "torn", faults' = 0
        PROVE  \E v \in Uploads : (Content(v) = c /\ phase[v] = "write")'
    <3>1. c # Content(u)
      BY <1>1, <1>2, <2>3 DEF IInv, TypeOK
    <3>2. PICK v \in Uploads : Content(v) = c /\ phase[v] = "write"
      BY <1>1, <2>3, <3>1 DEF IInv, TypeOK, DiskInv
    <3>3. v # u
      BY <3>1, <3>2
    <3> QED  BY <1>1, <1>5, <3>2, <3>3 DEF Quiet
  <2>4. ASSUME NEW v \in Uploads, NEW w \in Uploads,
               (RowsOf(v) # {})', phase'[w] \in {"open", "write"}, (Content(v) = Content(w))'
        PROVE  (server[v] # server[w])'
    BY <1>1, <1>5, <2>4 DEF IInv, DiskInv, Quiet
  <2> QED  BY <2>1, <2>2, <2>3, <2>4 DEF DiskInv
<1> QED  BY <1>1, <1>2, <1>3, <1>6, MoveStep DEF IInv, TypeOK

LEMMA WriteFailsInv ==
    ASSUME IInv, NEW u \in Uploads, WriteFails(u)
    PROVE  IInv'
<1>1. faults' \in 0..MaxFaults /\ faults' # 0
  BY IngestionAssumption DEF WriteFails, IInv, TypeOK
<1> QED  BY <1>1, FinishStep DEF WriteFails, Reply

LEMMA RaiseInv ==
    ASSUME IInv, NEW u \in Uploads, Raise(u)
    PROVE  IInv'
BY FinishStep DEF Raise, Reply, IInv, TypeOK

LEMMA RefreshInv ==
    ASSUME IInv, NEW u \in Uploads, Refresh(u)
    PROVE  IInv'
<1>1. PICK row \in documents : row.id = u /\ Finish(u, row.status)
  BY DEF Refresh
<1>2. row \in RowsOf(u) /\ row.status \in {"ingested", "failed"}
  BY <1>1 DEF RowsOf, IInv, StoreInv, Whole, SettledRow
<1> QED  BY <1>1, <1>2, FinishStep DEF Refresh, Reply, IInv, TypeOK

\* A step of the transaction: the tables, the files and the loop stay.
LEMMA WorkStep ==
    ASSUME IInv, NEW u \in Uploads, Quiet(u), NEW w \in Work,
           tx' = [tx EXCEPT ![u] = w], phase' \in [Uploads -> Phase],
           UNCHANGED <<disk, loop, reply, faults>>,
           phase[u] \in {"insert", "parse"}, phase'[u] \in {"parse", "commit"}, TxInv(u)'
    PROVE  IInv'
<1>1. TypeOK'
  BY DEF Quiet, IInv, TypeOK, database
<1>2. RowsOf(u)' = RowsOf(u) /\ ChunksOf(u)' = ChunksOf(u) /\ EventsOf(u)' = EventsOf(u)
  BY SameTables DEF Quiet
<1>3. StoreInv(u)'
  BY <1>2 DEF IInv, StoreInv
<1>4. ReplyInv(u)' /\ reply'[u] = "none"
  BY <1>2 DEF IInv, ReplyInv
<1>5. LoopInv(u)'
  BY DEF LoopInv, Blocking, IInv, Quiet
<1>6. DiskInv'
  BY <1>4, SameDisk DEF Stored
<1> QED  BY <1>1, <1>3, <1>4, <1>5, <1>6, QuietStep

LEMMA InsertDocumentInv ==
    ASSUME IInv, NEW u \in Uploads, InsertDocument(u)
    PROVE  IInv'
<1> DEFINE w == Written({PendingRow(u)}, {}, {Uploaded(u)})
<1>1. /\ Quiet(u) /\ phase[u] = "insert" /\ phase'[u] = "parse"
      /\ phase' \in [Uploads -> Phase] /\ tx' = [tx EXCEPT ![u] = w]
      /\ UNCHANGED <<disk, loop, reply, faults, request>>
  BY DEF InsertDocument, Move, Quiet, IInv, TypeOK, Phase, Blocking, PendingRow, Uploaded
<1>2. /\ w.rows = {PendingRow(u)} /\ w.audit = {Uploaded(u)}
      /\ w.page = 0 /\ w.records = <<>>
  BY DEF Written
<1>3. PendingRow(u) \in Row /\ Uploaded(u) \in AuditRow
  BY DEF IInv, TypeOK, PendingRow, Uploaded, Row, Status, AuditRow, Event
<1>4. w \in Work
  BY <1>3, WrittenIsWork
<1> HIDE DEF w
<1>5. tx'[u] = w
  BY <1>1 DEF IInv, TypeOK
<1>6. Numbered(<<>>, 0)
  BY DEF Numbered
<1>7. PendingRow(u)' = PendingRow(u) /\ Uploaded(u)' = Uploaded(u)
  BY <1>1 DEF PendingRow, Uploaded
<1>8. TxInv(u)'
  BY <1>1, <1>2, <1>5, <1>6, <1>7 DEF TxInv
<1> QED  BY <1>1, <1>4, <1>8, WorkStep

LEMMA ReadPageInv ==
    ASSUME IInv, NEW u \in Uploads, ReadPage(u)
    PROVE  IInv'
<1> DEFINE page == tx[u].page + 1
<1>1. PICK captioned \in BOOLEAN :
          tx' = [tx EXCEPT ![u] =
                    [tx[u] EXCEPT !.page = page,
                                  !.records = AddPage(tx[u].records, Pages(u)[page],
                                                      page, captioned)]]
  BY DEF ReadPage
<1> DEFINE next == AddPage(tx[u].records, Pages(u)[page], page, captioned)
           w == [tx[u] EXCEPT !.page = page, !.records = next]
<1>2. /\ Quiet(u) /\ phase[u] = "parse" /\ phase'[u] = "parse"
      /\ phase' \in [Uploads -> Phase] /\ UNCHANGED <<disk, loop, reply, faults, request>>
      /\ tx[u].page < Len(Pages(u))
  BY <1>1 DEF ReadPage, Quiet, IInv, TypeOK, database
<1>3. /\ tx[u] \in Work /\ tx[u].page \in Nat /\ tx[u].records \in Seq(Record)
      /\ tx[u].rows = {PendingRow(u)} /\ tx[u].audit = {Uploaded(u)}
      /\ Numbered(tx[u].records, tx[u].page)
  BY <1>2 DEF IInv, TypeOK, Work, TxInv
<1>4. Pages(u) \in Seq(Nat)
  BY IngestionAssumption DEF IInv, TypeOK, Request, Content, Pages
<1>5. page \in 1..Len(Pages(u))
  BY <1>2, <1>3, <1>4
<1>6. Pages(u)[page] \in Nat
  BY <1>4, <1>5
<1>7. next \in Seq(Record) /\ Numbered(next, page)
  BY <1>3, <1>6, AddPageIsNumbered
<1> HIDE DEF next
<1>8. /\ w \in Work /\ w.page = page /\ w.records = next
      /\ w.rows = tx[u].rows /\ w.audit = tx[u].audit
  <2>1. page \in Nat
    BY <1>3
  <2> HIDE DEF page
  <2>2. w \in Work
    BY <1>3, <1>7, <2>1 DEF Work
  <2> QED  BY <1>3, <2>2 DEF Work
<1>9. tx' = [tx EXCEPT ![u] = w]
  BY <1>1 DEF next
<1> HIDE DEF w, page
<1>10. tx'[u] = w
  BY <1>9 DEF IInv, TypeOK
<1>11. PendingRow(u)' = PendingRow(u) /\ Uploaded(u)' = Uploaded(u)
  BY <1>2 DEF PendingRow, Uploaded
<1>12. TxInv(u)'
  BY <1>2, <1>3, <1>7, <1>8, <1>10, <1>11 DEF TxInv
<1> QED  BY <1>2, <1>8, <1>9, <1>12, WorkStep

\* What the end of parsing leaves in the transaction.
LEMMA SettleStep ==
    ASSUME IInv, NEW u \in Uploads, phase[u] = "parse", Move(u, "commit"),
           NEW status \in {"ingested", "failed"}, NEW own \in SUBSET ChunkRow,
           Settle(u, status, Outcome(u, status).event, own),
           \A c \in own : c.document = u, status = "failed" => own = {},
           IsVisual(request[u]) => InOrder(own),
           UNCHANGED <<disk, database, request, server, loop, reply, faults>>
    PROVE  IInv'
<1> DEFINE w == Written({[row EXCEPT !.status = status] : row \in tx[u].rows}, own,
                        tx[u].audit \cup {[event |-> Outcome(u, status).event, entity |-> u]})
<1>1. /\ Quiet(u) /\ phase'[u] = "commit" /\ phase' \in [Uploads -> Phase]
      /\ tx' = [tx EXCEPT ![u] = w]
  BY DEF Move, Settle, Quiet, IInv, TypeOK, Phase, Blocking
<1>2. tx[u].rows = {PendingRow(u)} /\ tx[u].audit = {Uploaded(u)}
  BY DEF IInv, TxInv
<1>3. [PendingRow(u) EXCEPT !.status = status] = SettledRow(u, status)
  BY DEF PendingRow, SettledRow
<1>4. [event |-> Outcome(u, status).event, entity |-> u] = Outcome(u, status)
  BY DEF Outcome
<1>5. w = Written({SettledRow(u, status)}, own, {Uploaded(u), Outcome(u, status)})
  <2>1. {[row EXCEPT !.status = status] : row \in tx[u].rows} = {SettledRow(u, status)}
    BY <1>2, <1>3
  <2> QED  BY <1>2, <1>4, <2>1
<1>6. SettledRow(u, status) \in Row /\ Uploaded(u) \in AuditRow /\ Outcome(u, status) \in AuditRow
  BY DEF IInv, TypeOK, SettledRow, Uploaded, Outcome, Row, Status, AuditRow, Event
<1>7. w \in Work
  BY <1>5, <1>6, WrittenIsWork
<1> HIDE DEF w
<1>8. tx'[u] = w
  BY <1>1 DEF IInv, TypeOK
<1>9. Whole(u, w.rows, w.chunks, w.audit)
  BY <1>5 DEF Whole, Written
<1>10. TxInv(u)'
  BY <1>1, <1>8, <1>9 DEF TxInv, Whole, SettledRow, Uploaded, Outcome
<1> QED  BY <1>1, <1>7, <1>10, WorkStep

LEMMA NoChunksAreInOrder == InOrder({})
<1>1. Cardinality({}) = 0
  BY FS_EmptySet
<1> QED  BY <1>1 DEF InOrder

LEMMA MarkFailedInv ==
    ASSUME IInv, NEW u \in Uploads, MarkFailed(u)
    PROVE  IInv'
<1>1. Outcome(u, "failed").event = "document.ingestion_failed"
  BY DEF Outcome
<1> QED  BY <1>1, NoChunksAreInOrder, SettleStep DEF MarkFailed

LEMMA MarkIngestedInv ==
    ASSUME IInv, NEW u \in Uploads, MarkIngested(u)
    PROVE  IInv'
<1> DEFINE records == IF IsVisual(request[u]) THEN tx[u].records ELSE TextRecords(Content(u))
           own == ChunkRows(u, records)
<1>1. Outcome(u, "ingested").event = "document.ingested"
  BY DEF Outcome
<1>2. /\ tx[u].page \in Nat /\ tx[u].records \in Seq(Record)
      /\ Numbered(tx[u].records, tx[u].page)
  BY DEF MarkIngested, IInv, TypeOK, Work, TxInv
<1>3. \A i \in DOMAIN records : records[i] \in Record
  <2>1. CASE IsVisual(request[u])
    BY <1>2, <2>1
  <2>2. CASE ~IsVisual(request[u])
    <3>1. TextSpans[Content(u)] \in Seq(Nat)
      BY IngestionAssumption DEF IInv, TypeOK, Request, Content
    <3>2. \A i \in DOMAIN TextSpans[Content(u)] : TextSpans[Content(u)][i] \in Nat
      BY <3>1
    <3> QED  BY <2>2, <3>2 DEF TextRecords, Record, Modality
  <2> QED  BY <2>1, <2>2
<1>4. own \in SUBSET ChunkRow /\ \A c \in own : c.document = u
  <2> HIDE DEF records
  <2> QED  BY <1>3 DEF ChunkRows, ChunkRow, Record
<1>5. IsVisual(request[u]) => InOrder(own)
  BY <1>2, NumberedChunksAreInOrder
<1>6. Settle(u, "ingested", "document.ingested", own)
  BY DEF MarkIngested
<1> HIDE DEF own, records
<1> QED  BY <1>1, <1>4, <1>5, <1>6, SettleStep DEF MarkIngested

LEMMA CommitInv ==
    ASSUME IInv, NEW u \in Uploads, Commit(u)
    PROVE  IInv'
<1>1. /\ phase[u] = "commit" /\ phase'[u] = "refresh" /\ phase' \in [Uploads -> Phase]
      /\ \A v \in Uploads \ {u} : phase'[v] = phase[v]
      /\ UNCHANGED <<disk, request, server, loop, tx, reply, faults>>
      /\ documents' = documents \cup tx[u].rows /\ chunks' = chunks \cup tx[u].chunks
      /\ audit' = audit \cup tx[u].audit
  BY DEF Commit, Move, IInv, TypeOK, Phase, Blocking
<1>2. tx[u] \in Work /\ Whole(u, tx[u].rows, tx[u].chunks, tx[u].audit)
  BY <1>1 DEF IInv, TypeOK, TxInv
<1>3. /\ \A row \in tx[u].rows : row.id = u
      /\ \A c \in tx[u].chunks : c.document = u
      /\ \A a \in tx[u].audit : a.entity = u
      /\ tx[u].rows # {}
  BY <1>2 DEF Whole, SettledRow, Uploaded, Outcome
<1>4. TypeOK'
  BY <1>1, <1>2 DEF IInv, TypeOK, Work
<1>5. RowsOf(u) = {} /\ ChunksOf(u) = {} /\ EventsOf(u) = {}
  BY <1>1 DEF IInv, StoreInv
<1>6. RowsOf(u)' = tx[u].rows /\ ChunksOf(u)' = tx[u].chunks /\ EventsOf(u)' = tx[u].audit
  BY <1>1, <1>3, <1>5 DEF RowsOf, ChunksOf, EventsOf
<1>7. \A v \in Uploads \ {u} : /\ RowsOf(v)' = RowsOf(v) /\ ChunksOf(v)' = ChunksOf(v)
                               /\ EventsOf(v)' = EventsOf(v)
  BY <1>1, <1>3 DEF RowsOf, ChunksOf, EventsOf
<1>8. TxInv(u)'
  BY <1>1 DEF TxInv
<1>9. StoreInv(u)'
  BY <1>1, <1>2, <1>6 DEF StoreInv, Whole, SettledRow, Uploaded, Outcome
<1>10. ReplyInv(u)'
  BY <1>1 DEF IInv, ReplyInv
<1>11. \A v \in Uploads : LoopInv(v)'
  BY <1>1 DEF IInv, LoopInv, Blocking
<1>12. \A v \in Uploads \ {u} : TxInv(v)' /\ StoreInv(v)' /\ ReplyInv(v)'
  BY <1>1, <1>7, Bystander DEF IInv
<1>13. DiskInv'
  <2>1. \A v \in Uploads : Content(v)' = Content(v)
    BY <1>1 DEF Content
  <2>2. \A v \in Uploads : (phase[v] \in Stored \/ RowsOf(v) # {})'
                             => (disk[Content(v)] # "absent")'
    BY <1>1, <1>7, <2>1 DEF IInv, DiskInv, Stored
  <2>3. \A c \in Contents : disk'[c] # "absent" =>
            \E v \in Uploads : (/\ Content(v) = c /\ phase[v] \notin {"idle", "reading"}
                                /\ reply[v] \notin {"400", "413"})'
    BY <1>1, <2>1 DEF IInv, DiskInv
  <2>4. ASSUME NEW c \in Contents, disk'[c] = "torn", faults' = 0
        PROVE  \E v \in Uploads : (Content(v) = c /\ phase[v] = "write")'
    <3>1. PICK v \in Uploads : Content(v) = c /\ phase[v] = "write"
      BY <1>1, <2>4 DEF IInv, DiskInv
    <3>2. phase'[v] = "write"
      BY <1>1, <3>1
    <3> QED  BY <2>1, <3>1, <3>2
  <2>5. ASSUME NEW v \in Uploads, NEW w \in Uploads,
               (RowsOf(v) # {})', phase'[w] \in {"open", "write"}, (Content(v) = Content(w))'
        PROVE  (server[v] # server[w])'
    <3>1. phase[w] \in {"open", "write"} /\ w # u
      BY <1>1, <2>5
    <3>2. CASE v = u
      BY <1>1, <3>1, <3>2 DEF IInv, LoopInv, Blocking
    <3>3. CASE v # u
      BY <1>1, <1>7, <2>1, <2>5, <3>1, <3>3 DEF IInv, DiskInv
    <3> QED  BY <3>2, <3>3
  <2> QED  BY <2>2, <2>3, <2>4, <2>5 DEF DiskInv
<1> QED  BY <1>4, <1>8, <1>9, <1>10, <1>11, <1>12, <1>13 DEF IInv

LEMMA CrashInv ==
    ASSUME IInv, NEW p \in Procs, Crash(p)
    PROVE  IInv'
<1> DEFINE victims == {u \in Uploads : server[u] = p /\ phase[u] \in Blocking \cup {"reading"}}
<1>1. /\ phase' = [u \in Uploads |-> IF u \in victims THEN "lost" ELSE phase[u]]
      /\ tx' = [u \in Uploads |-> IF u \in victims THEN NoWork ELSE tx[u]]
      /\ loop' = [loop EXCEPT ![p] = Idle]
      /\ UNCHANGED <<disk, database, request, server, reply>>
      /\ faults' \in 0..MaxFaults /\ faults' # 0
  BY IngestionAssumption DEF Crash, IInv, TypeOK
<1>2. NoWork \in Work
  BY WrittenIsWork DEF NoWork
<1>3. TypeOK'
  BY <1>1, <1>2 DEF IInv, TypeOK, Phase, database
<1>4. \A v : /\ RowsOf(v)' = RowsOf(v) /\ ChunksOf(v)' = ChunksOf(v)
             /\ EventsOf(v)' = EventsOf(v) /\ Content(v)' = Content(v)
  BY <1>1, SameTables DEF Content
<1>5. ASSUME NEW v \in Uploads
      PROVE  (TxInv(v) /\ StoreInv(v) /\ ReplyInv(v) /\ LoopInv(v))'
  <2>1. CASE v \in victims
    <3>1. phase'[v] = "lost" /\ tx'[v] = NoWork /\ reply'[v] = reply[v] /\ phase[v] # "done"
      BY <1>1, <2>1 DEF Blocking
    <3>2. TxInv(v)'
      BY <3>1 DEF TxInv
    <3>3. StoreInv(v)'
      BY <1>1, <1>4, <3>1 DEF IInv, StoreInv, Whole, SettledRow, Uploaded, Outcome
    <3>4. ReplyInv(v)'
      BY <1>1, <3>1 DEF IInv, ReplyInv
    <3>5. LoopInv(v)'
      BY <3>1 DEF LoopInv, Blocking
    <3> QED  BY <3>2, <3>3, <3>4, <3>5
  <2>2. CASE v \notin victims
    <3>1. phase'[v] = phase[v] /\ tx'[v] = tx[v]
      BY <1>1, <2>2
    <3>2. TxInv(v)' /\ StoreInv(v)' /\ ReplyInv(v)'
      BY <1>1, <1>4, <3>1, Bystander DEF IInv
    <3>3. LoopInv(v)'
      BY <1>1, <2>2, <3>1 DEF IInv, TypeOK, LoopInv
    <3> QED  BY <3>2, <3>3
  <2> QED  BY <2>1, <2>2
<1>6. DiskInv'
  <2>1. \A v \in Uploads : /\ phase'[v] \in Stored => phase[v] \in Stored
                           /\ phase'[v] \in {"open", "write"} => phase[v] \in {"open", "write"}
                           /\ phase[v] \notin {"idle", "reading"} =>
                                 phase'[v] \notin {"idle", "reading"}
    BY <1>1 DEF Stored
  <2> HIDE DEF victims
  <2>2. \A v \in Uploads : (phase[v] \in Stored \/ RowsOf(v) # {})'
                             => (disk[Content(v)] # "absent")'
    BY <1>1, <1>4, <2>1 DEF IInv, DiskInv
  <2>3. ASSUME NEW c \in Contents, disk'[c] # "absent"
        PROVE  \E v \in Uploads : (/\ Content(v) = c /\ phase[v] \notin {"idle", "reading"}
                                   /\ reply[v] \notin {"400", "413"})'
    <3>1. PICK v \in Uploads : /\ Content(v) = c /\ phase[v] \notin {"idle", "reading"}
                              /\ reply[v] \notin {"400", "413"}
      BY <1>1, <2>3 DEF IInv, DiskInv
    <3>2. Content(v)' = c /\ reply'[v] \notin {"400", "413"} /\ phase'[v] \notin {"idle", "reading"}
      BY <1>1, <1>4, <2>1, <3>1
    <3> QED  BY <3>2
  <2>4. \A v, w \in Uploads :
            (RowsOf(v) # {})' /\ phase'[w] \in {"open", "write"} /\ (Content(v) = Content(w))'
               => (server[v] # server[w])'
    BY <1>1, <1>4, <2>1 DEF IInv, DiskInv
  <2> QED  BY <1>1, <2>2, <2>3, <2>4 DEF DiskInv
<1> QED  BY <1>3, <1>5, <1>6 DEF IInv

----------------------------------------------------------------------------
LEMMA InitInv == Init => IInv
<1> SUFFICES ASSUME Init PROVE IInv
  OBVIOUS
<1>1. TypeOK
  <2>1. NoWork \in Work
    BY WrittenIsWork DEF NoWork
  <2>2. tx \in [Uploads -> Work]
    BY <2>1 DEF Init
  <2>3. request \in [Uploads -> Request]
    BY IngestionAssumption DEF Init
  <2> QED  BY IngestionAssumption, <2>2, <2>3 DEF Init, TypeOK, Phase, Reply
<1>2. ASSUME NEW u \in Uploads PROVE TxInv(u) /\ StoreInv(u) /\ ReplyInv(u) /\ LoopInv(u)
  BY DEF Init, TxInv, StoreInv, ReplyInv, LoopInv, Blocking, RowsOf, ChunksOf, EventsOf
<1>3. DiskInv
  BY DEF Init, DiskInv, Stored, RowsOf
<1> QED  BY <1>1, <1>2, <1>3 DEF IInv

LEMMA StutterInv == IInv /\ UNCHANGED vars => IInv'
<1> SUFFICES ASSUME IInv, UNCHANGED vars PROVE IInv'
  OBVIOUS
<1> USE DEF vars
<1>1. TypeOK'
  BY DEF IInv, TypeOK
<1>2. \A v : /\ RowsOf(v)' = RowsOf(v) /\ ChunksOf(v)' = ChunksOf(v)
             /\ EventsOf(v)' = EventsOf(v) /\ Content(v)' = Content(v)
  BY DEF RowsOf, ChunksOf, EventsOf, Content
<1>3. \A v \in Uploads : (TxInv(v) /\ StoreInv(v) /\ ReplyInv(v) /\ LoopInv(v))'
  BY <1>2, Bystander DEF IInv, LoopInv
<1>4. DiskInv'
  BY <1>2 DEF IInv, DiskInv
<1> QED  BY <1>1, <1>3, <1>4 DEF IInv

LEMMA NextInv == IInv /\ [Next]_vars => IInv'
BY ReceiveInv, ValidateInv, CheckStoredInv, OpenFileInv, WriteFileInv, WriteFailsInv,
   InsertDocumentInv, MarkFailedInv, ReadPageInv, MarkIngestedInv, CommitInv,
   RefreshInv, RaiseInv, CrashInv, StutterInv
DEF Next, Step

LEMMA InductiveInvariant == Spec => []IInv
BY InitInv, NextInv, PTL DEF Spec

\* Every variable keeps its type.
THEOREM UploadTypeCorrect == Spec => []TypeOK
<1>1. IInv => TypeOK
  BY DEF IInv
<1> QED  BY <1>1, InductiveInvariant, PTL

\* The rows of an upload, as the properties speak of them.
LEMMA RowsAreWhole ==
    ASSUME IInv, NEW row \in documents
    PROVE  /\ row.id \in Uploads /\ row \in RowsOf(row.id)
           /\ Whole(row.id, RowsOf(row.id), ChunksOf(row.id), EventsOf(row.id))
           /\ row = SettledRow(row.id, row.status)
           /\ row.status \in {"ingested", "failed"}
           /\ \A other \in documents : other.id = row.id => other = row
<1>1. row.id \in Uploads /\ row \in RowsOf(row.id)
  BY DEF IInv, TypeOK, Row, RowsOf
<1>2. Whole(row.id, RowsOf(row.id), ChunksOf(row.id), EventsOf(row.id))
  BY <1>1 DEF IInv, StoreInv
<1>3. PICK status \in {"ingested", "failed"} : RowsOf(row.id) = {SettledRow(row.id, status)}
  BY <1>2 DEF Whole
<1>4. row = SettledRow(row.id, status) /\ row.status = status
  BY <1>1, <1>3 DEF SettledRow
<1>5. \A other \in documents : other.id = row.id => other = row
  BY <1>1, <1>3 DEF RowsOf
<1> QED  BY <1>1, <1>2, <1>4, <1>5

LEMMA EventsOfAWhole ==
    ASSUME IInv, NEW row \in documents
    PROVE  {a.event : a \in EventsOf(row.id)} =
               {"document.uploaded", IF row.status = "ingested" THEN "document.ingested"
                                                               ELSE "document.ingestion_failed"}
<1>1. PICK status \in {"ingested", "failed"} :
          /\ RowsOf(row.id) = {SettledRow(row.id, status)}
          /\ EventsOf(row.id) = {Uploaded(row.id), Outcome(row.id, status)}
  BY RowsAreWhole DEF Whole
<1>2. row.status = status
  BY <1>1, RowsAreWhole DEF SettledRow
<1>3. {a.event : a \in EventsOf(row.id)} =
          {Uploaded(row.id).event, Outcome(row.id, status).event}
  BY <1>1
<1> QED  BY <1>2, <1>3 DEF Uploaded, Outcome

\* No reader sees half an upload: the three tables change together.
THEOREM LedgerStaysCoherent == Spec => []LedgerIsCoherent
<1>1. IInv => LedgerIsCoherent
  <2> SUFFICES ASSUME IInv PROVE LedgerIsCoherent
    OBVIOUS
  <2>1. ASSUME NEW row \in documents
        PROVE  /\ row.status \in {"ingested", "failed"}
               /\ {a.event : a \in {b \in audit : b.entity = row.id}} =
                     {"document.uploaded",
                      IF row.status = "ingested" THEN "document.ingested"
                                                 ELSE "document.ingestion_failed"}
               /\ row.status = "failed" => \A c \in chunks : c.document # row.id
    <3>1. row.status = "failed" => ChunksOf(row.id) = {}
      BY RowsAreWhole DEF Whole, SettledRow
    <3> QED  BY <3>1, RowsAreWhole, EventsOfAWhole DEF ChunksOf, EventsOf
  <2>2. ASSUME NEW u \in Uploads, ChunksOf(u) # {} \/ EventsOf(u) # {}
        PROVE  \E row \in documents : row.id = u
    BY <2>2 DEF IInv, StoreInv, Whole, RowsOf
  <2>3. \A c \in chunks : c.document \in Uploads /\ ChunksOf(c.document) # {}
    BY DEF IInv, TypeOK, ChunkRow, ChunksOf
  <2>4. \A a \in audit : a.entity \in Uploads /\ EventsOf(a.entity) # {}
    BY DEF IInv, TypeOK, AuditRow, EventsOf
  <2> QED  BY <2>1, <2>2, <2>3, <2>4 DEF LedgerIsCoherent
<1> QED  BY <1>1, InductiveInvariant, PTL

\* The chunks of a diagram or a PDF are numbered without gap, in page order,
\* a page's caption after its regions, however many pages, regions and
\* failed captions there are.
THEOREM ChunksAreNumbered == Spec => []VisualChunksAreNumberedInOrder
<1>1. IInv => VisualChunksAreNumberedInOrder
  <2> SUFFICES ASSUME IInv, NEW row \in documents, IsVisual(row.request)
               PROVE  InOrder(ChunksOf(row.id))
    BY DEF VisualChunksAreNumberedInOrder, InOrder, ChunksOf
  <2>1. row.request = request[row.id]
    BY RowsAreWhole DEF SettledRow
  <2> QED  BY <2>1, RowsAreWhole DEF Whole
<1> QED  BY <1>1, InductiveInvariant, PTL

\* What a client was told is what the tables hold, and what was refused has
\* left nothing.
THEOREM ClientsAreToldTheTruth == Spec => []RepliesMatchLedger
<1>1. IInv => RepliesMatchLedger
  BY DEF IInv, ReplyInv, DiskInv, RowsOf, RepliesMatchLedger
<1> QED  BY <1>1, InductiveInvariant, PTL

\* Without a fault, a file is torn only while another process writes it.
THEOREM TearsHaveACause == Spec => []TornFilesHaveACause
<1>1. IInv => TornFilesHaveACause
  <2> SUFFICES ASSUME IInv, faults = 0, NEW row \in documents,
                      disk[row.request.content] # "whole"
               PROVE  \E u \in Uploads : /\ Content(u) = row.request.content
                                         /\ phase[u] = "write" /\ server[u] # server[row.id]
    BY DEF TornFilesHaveACause
  <2>1. /\ row.id \in Uploads /\ RowsOf(row.id) # {}
        /\ row.request.content = Content(row.id) /\ Content(row.id) \in Contents
    BY RowsAreWhole DEF SettledRow, Content, IInv, TypeOK, Request
  <2>2. disk[Content(row.id)] = "torn"
    BY <2>1 DEF IInv, TypeOK, DiskInv
  <2>3. PICK u \in Uploads : Content(u) = Content(row.id) /\ phase[u] = "write"
    BY <2>1, <2>2 DEF IInv, DiskInv
  <2>4. server[row.id] # server[u]
    BY <2>1, <2>3 DEF IInv, DiskInv
  <2> QED  BY <2>1, <2>3, <2>4
<1> QED  BY <1>1, InductiveInvariant, PTL

\* So one process that no fault has hit stores every file whole: what
\* docs/SCHEMA.md:28-31 says takes a fault, or a second process, to break.
THEOREM OneProcessStoresWholeFiles ==
    (\A p, q \in Procs : p = q) => (Spec => [](faults = 0 => StoredBytesAreWhole))
<1> SUFFICES ASSUME \A p, q \in Procs : p = q
             PROVE  Spec => [](faults = 0 => StoredBytesAreWhole)
  OBVIOUS
<1>1. IInv /\ TornFilesHaveACause => (faults = 0 => StoredBytesAreWhole)
  <2> SUFFICES ASSUME IInv, TornFilesHaveACause, faults = 0, NEW row \in documents,
                      disk[row.request.content] # "whole"
               PROVE  FALSE
    BY DEF StoredBytesAreWhole
  <2>1. PICK u \in Uploads : server[u] # server[row.id]
    BY DEF TornFilesHaveACause
  <2>2. row.id \in Uploads
    BY RowsAreWhole
  <2>3. server[u] \in Procs /\ server[row.id] \in Procs
    BY <2>2 DEF IInv, TypeOK
  <2> QED  BY <2>1, <2>3
<1> QED  BY <1>1, InductiveInvariant, TearsHaveACause, PTL

----------------------------------------------------------------------------
(***************************************************************************)
(* The refinement: a commit publishes one whole document, and no other     *)
(* step changes what readers see.                                          *)
(***************************************************************************)
ledger == {VisibleDocument(row) : row \in documents}

LEMMA CommitPublishes ==
    ASSUME IInv, NEW u \in Uploads, Commit(u)
    PROVE  Ledger!Publish(u)
<1>1. /\ Whole(u, tx[u].rows, tx[u].chunks, tx[u].audit)
      /\ RowsOf(u) = {} /\ ChunksOf(u) = {} /\ EventsOf(u) = {}
      /\ documents' = documents \cup tx[u].rows
      /\ chunks' = chunks \cup tx[u].chunks /\ audit' = audit \cup tx[u].audit
  BY DEF Commit, IInv, TxInv, StoreInv
<1>2. PICK status \in {"ingested", "failed"} :
          /\ tx[u].rows = {SettledRow(u, status)}
          /\ tx[u].audit = {Uploaded(u), Outcome(u, status)}
          /\ status = "failed" => tx[u].chunks = {}
  BY <1>1 DEF Whole
<1>3. /\ \A c \in tx[u].chunks : c.document = u
      /\ \A a \in tx[u].audit : a.entity = u
  BY <1>1 DEF Whole, Uploaded, Outcome
<1> DEFINE entry == [id |-> u, status |-> status, chunks |-> tx[u].chunks,
                     events |-> {a.event : a \in tx[u].audit}]
<1>4. ASSUME NEW row \in tx[u].rows
      PROVE  VisibleDocument(row)' = entry
  <2>1. row.id = u /\ row.status = status
    BY <1>2 DEF SettledRow
  <2>2. {c \in chunks : c.document = u}' = tx[u].chunks
    BY <1>1, <1>3 DEF ChunksOf
  <2>3. {b \in audit : b.entity = u}' = tx[u].audit
    BY <1>1, <1>3 DEF EventsOf
  <2> QED  BY <2>1, <2>2, <2>3 DEF VisibleDocument
<1>5. \A row \in documents : row.id \in Uploads /\ row.id # u
  BY <1>1 DEF RowsOf, IInv, TypeOK, Row
<1>6. ASSUME NEW row \in documents
      PROVE  VisibleDocument(row)' = VisibleDocument(row)
  <2>1. {c \in chunks : c.document = row.id}' = {c \in chunks : c.document = row.id}
    BY <1>1, <1>3, <1>5
  <2>2. {b \in audit : b.entity = row.id}' = {b \in audit : b.entity = row.id}
    BY <1>1, <1>3, <1>5
  <2> QED  BY <2>1, <2>2 DEF VisibleDocument
<1>7. Ledger!Coherent(entry)
  <2>1. {a.event : a \in tx[u].audit} = {Uploaded(u).event, Outcome(u, status).event}
    BY <1>2
  <2> QED  BY <1>2, <2>1 DEF Ledger!Coherent, Uploaded, Outcome
<1>8. \A old \in ledger : old.id # u
  BY <1>5 DEF ledger, VisibleDocument
<1> HIDE DEF entry
<1>9. ledger' = ledger \cup {entry}
  <2>1. tx[u].rows # {}
    BY <1>2
  <2> QED  BY <1>1, <1>4, <1>6, <2>1 DEF ledger
<1>10. entry.id = u
  BY DEF entry
<1> QED  BY <1>7, <1>8, <1>9, <1>10 DEF Ledger!Publish, ledger

\* Ingestion implements EvidenceLedger.
THEOREM LedgerRefinement == Spec => ImplementsLedger
<1>1. Init => Ledger!Init
  BY DEF Init, Ledger!Init
<1>2. IInv /\ [Next]_vars => [Ledger!Next]_ledger
  <2> SUFFICES ASSUME IInv, [Next]_vars PROVE [Ledger!Next]_ledger
    OBVIOUS
  <2>1. CASE \E u \in Uploads : Commit(u)
    BY <2>1, CommitPublishes DEF Ledger!Next
  <2>2. CASE UNCHANGED database
    BY <2>2 DEF database, ledger, VisibleDocument
  <2>3. ASSUME NEW u \in Uploads, Receive(u) \/ Validate(u) \/ CheckStored(u) \/ OpenFile(u)
                                  \/ WriteFile(u) \/ InsertDocument(u)
        PROVE  UNCHANGED database
    BY <2>3 DEF Receive, Validate, CheckStored, OpenFile, WriteFile, InsertDocument, database
  <2>4. ASSUME NEW u \in Uploads, MarkFailed(u) \/ ReadPage(u) \/ MarkIngested(u) \/ Refresh(u)
                                  \/ WriteFails(u) \/ Raise(u)
        PROVE  UNCHANGED database
    BY <2>4 DEF MarkFailed, ReadPage, MarkIngested, Refresh, WriteFails, Raise, database
  <2>5. ASSUME NEW p \in Procs, Crash(p) PROVE UNCHANGED database
    BY <2>5 DEF Crash, database
  <2>6. CASE UNCHANGED vars
    BY <2>2, <2>6 DEF vars, database
  <2> QED  BY <2>1, <2>2, <2>3, <2>4, <2>5, <2>6 DEF Next, Step
<1> QED  BY <1>1, <1>2, InductiveInvariant, PTL DEF Spec, ImplementsLedger, Ledger!Spec, ledger
=============================================================================
