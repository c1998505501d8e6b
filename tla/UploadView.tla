------------------------------ MODULE UploadView ------------------------------
(***************************************************************************)
(* The upload view: the hook that uploads a file, and beside it the status *)
(* line of graph extractions, which are plain requests without a hook: no  *)
(* controller, no order, and a button that stays enabled.                  *)
(*                                                                         *)
(* Source: frontend/src/views/UploadView.tsx.  The document of an upload   *)
(* is named by the run of the hook that uploads it; the line is on the     *)
(* card of the upload that is shown, if that was ingested.                 *)
(*                                                                         *)
(* An operator X_Y is X with the seeded fault its comment names.           *)
(***************************************************************************)
EXTENDS AsyncAction

CONSTANTS
    Ingested,        \* the runs whose file is ingested; the others' status is "failed"
    MaxClicks        \* bound on the extractions asked for

ASSUME UploadAssumption == Ingested \subseteq Nat \ {None} /\ MaxClicks \in Nat

VARIABLES
    graph_status,    \* what the line says, and of which extraction
    extractions      \* the extractions so far: their document, and the upload
                     \* that was the latest when they ended, None before that

upload_vars == <<graph_status, extractions>>

Line(says, k) == [says |-> says, of |-> k]

UploadTypeOK ==
    /\ graph_status \in [says : {"nothing", "extracting", "outcome"}, of : 0..MaxClicks]
    /\ extractions \in Seq([document : Ingested, ended_in : 0..MaxRuns])

UploadInit ==
    /\ graph_status = Line("nothing", None)
    /\ extractions = <<>>

Card == shown.data \in Ingested

\* Fault: the line is left as it is.
HandleSubmit_KeepsStatus ==
    /\ ~shown.loading
    /\ Run
    /\ UNCHANGED upload_vars

\* The button is disabled while an upload is on its way.
HandleSubmit ==
    /\ ~shown.loading
    /\ graph_status' = Line("nothing", None)
    /\ Run
    /\ UNCHANGED extractions

HandleExtractGraph ==
    /\ Card
    /\ Len(extractions) < MaxClicks
    /\ extractions' = Append(extractions, [document |-> shown.data, ended_in |-> None])
    /\ graph_status' = Line("extracting", Len(extractions'))
    /\ UNCHANGED action_vars

\* The counts, or the message of the error that was caught.
Outcome(k) == graph_status' = Line("outcome", k)

\* Whatever upload is shown by then.
ExtractionEnds(k) ==
    /\ extractions[k].ended_in = None
    /\ extractions' = [extractions EXCEPT ![k].ended_in = Latest]
    /\ Outcome(k)
    /\ UNCHANGED action_vars

UploadNext ==
    \/ HandleSubmit \/ HandleExtractGraph
    \/ (Cancel \/ \E i \in 1..Latest : Answers(i)) /\ UNCHANGED upload_vars
    \/ \E k \in DOMAIN extractions : ExtractionEnds(k)

----------------------------------------------------------------------------
(***************************************************************************)
(* Properties.                                                             *)
(***************************************************************************)

\* The line on a card says "Extracting" only while the extraction asked for
\* last is on its way and is one of the card's document, and gives an
\* outcome only if that came since the card's upload was submitted.  (The
\* outcome may be that of an extraction of an earlier upload.)
StatusIsCurrent ==
    /\ graph_status.says = "extracting" =>
          /\ graph_status.of = Len(extractions)
          /\ extractions[graph_status.of].ended_in = None
          /\ Card => extractions[graph_status.of].document = shown.data
    /\ graph_status.says = "outcome" =>
          extractions[graph_status.of].ended_in = Latest
===============================================================================
