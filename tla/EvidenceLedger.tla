---------------------------- MODULE EvidenceLedger ----------------------------
(***************************************************************************)
(* What ingestion promises its readers (search, answer, review, graph      *)
(* extraction): a document appears once, with its final status, all of its *)
(* chunks and both of its audit events, in a single step, and what has     *)
(* appeared never changes.                                                 *)
(***************************************************************************)
CONSTANT Documents   \* the ids a document can have

VARIABLE ledger      \* the documents readers can see

Coherent(entry) ==
    /\ entry.id \in Documents
    /\ entry.status \in {"ingested", "failed"}
    /\ entry.status = "failed" => entry.chunks = {}
    /\ entry.events = {"document.uploaded",
                       IF entry.status = "ingested" THEN "document.ingested"
                                                    ELSE "document.ingestion_failed"}

Init == ledger = {}

Publish(d) ==
    /\ \A old \in ledger : old.id # d
    /\ \E new \in ledger' :
          /\ new.id = d /\ Coherent(new)
          /\ ledger' = ledger \cup {new}

Next == \E d \in Documents : Publish(d)

Spec == Init /\ [][Next]_ledger
==============================================================================
