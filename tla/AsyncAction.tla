------------------------------ MODULE AsyncAction ------------------------------
(***************************************************************************)
(* One useAsyncAction of the frontend: runs of a fetch-backed action that  *)
(* supersede one another, each with an AbortController of its own, and the *)
(* state they show.                                                        *)
(*                                                                         *)
(* Sources: frontend/src/hooks/useAsyncAction.ts and request() in          *)
(* frontend/src/api/client.ts; fetch and Response.json() are external.     *)
(*                                                                         *)
(* A step is one turn of the browser's event loop with the microtasks it   *)
(* leaves: aborting a pending fetch or body rejects it with an AbortError  *)
(* in that turn, but a body that has been read to its end is delivered by  *)
(* a task already queued, and an error body is awaited inside a try/catch  *)
(* that swallows the AbortError.                                           *)
(*                                                                         *)
(* An operator X_Y is X with the seeded fault its comment names.           *)
(***************************************************************************)
EXTENDS Naturals, Sequences

CONSTANT MaxRuns     \* bound on the calls of run()

ASSUME RunsAssumption == MaxRuns \in Nat \ {0}

VARIABLES
    shown,     \* the hook's AsyncState: data and error name the run they come from
    runs       \* the runs so far, in order; the last one holds controllerRef

action_vars == <<shown, runs>>

None == 0      \* null, where the number of a run could be

\* fetch: no headers yet; body, error_body: reading the body of a 2xx or of
\* another response; read, error_read: it has been read, its task is queued.
Pending == {"fetch", "body", "error_body", "read", "error_read"}

Latest == Len(runs)

AsyncState == [data : 0..MaxRuns, loading : BOOLEAN, error : 0..MaxRuns]

ActionTypeOK ==
    /\ shown \in AsyncState
    /\ runs \in Seq([phase : Pending \cup {"ended"}, aborted : BOOLEAN])
    /\ Latest <= MaxRuns

ActionInit ==
    /\ shown = [data |-> None, loading |-> FALSE, error |-> None]
    /\ runs = <<>>

ShowData(i) == [data |-> i, loading |-> FALSE, error |-> None]
ShowError(i) == [data |-> None, loading |-> FALSE, error |-> i]
ShowSpinner == [data |-> None, loading |-> TRUE, error |-> None]

End(i) == runs' = [runs EXCEPT ![i].phase = "ended"]

(***************************************************************************)
(* abort(), of a run that may have ended long ago.                         *)
(***************************************************************************)
Aborted(run) ==
    [aborted |-> TRUE,
     phase |-> IF run.phase \in {"fetch", "body", "error_body"} THEN "ended" ELSE run.phase]

\* Fault: the AbortError is shown like any other.
AfterAbort_ShowsIt(run, i, state) ==
    IF run.phase \in {"fetch", "body", "error_body"} THEN ShowError(i) ELSE state

\* An AbortError is ignored; but an error response becomes an ApiError
\* although its body was cut off, and the catch clause of run() does not
\* look at the signal.
AfterAbort(run, i, state) == IF run.phase = "error_body" THEN ShowError(i) ELSE state

\* Fault: the reference to the controller is replaced before it is aborted.
Run_AbortsNew ==
    /\ Latest < MaxRuns
    /\ runs' = Append(runs, [phase |-> "ended", aborted |-> TRUE])
    /\ shown' = ShowSpinner

Run ==
    /\ Latest < MaxRuns
    /\ LET new == [phase |-> "fetch", aborted |-> FALSE]
       IN  IF runs = <<>>
           THEN /\ runs' = <<new>>
                /\ shown' = ShowSpinner
           ELSE /\ runs' = Append([runs EXCEPT ![Latest] = Aborted(@)], new)
                /\ shown' = AfterAbort(runs[Latest], Latest, ShowSpinner)

\* Fault: the spinner is left on.
Cancel_KeepsSpinner ==
    /\ runs # <<>> /\ shown.loading
    /\ runs' = [runs EXCEPT ![Latest] = Aborted(@)]
    /\ shown' = AfterAbort(runs[Latest], Latest, shown)

\* The button is there while the spinner is.
Cancel ==
    /\ runs # <<>> /\ shown.loading
    /\ runs' = [runs EXCEPT ![Latest] = Aborted(@)]
    /\ shown' = AfterAbort(runs[Latest], Latest, [shown EXCEPT !.loading = FALSE])

(***************************************************************************)
(* What the network does to run i.                                         *)
(***************************************************************************)
Headers(i) ==
    /\ runs[i].phase = "fetch"
    /\ \E phase \in {"body", "error_body"} : runs' = [runs EXCEPT ![i].phase = phase]
    /\ UNCHANGED shown

\* The backend cannot be reached.
FetchFails(i) ==
    /\ runs[i].phase = "fetch"
    /\ End(i)
    /\ shown' = ShowError(i)

BodyRead(i) ==
    /\ \/ runs[i].phase = "body" /\ runs' = [runs EXCEPT ![i].phase = "read"]
       \/ runs[i].phase = "error_body" /\ runs' = [runs EXCEPT ![i].phase = "error_read"]
    /\ UNCHANGED shown

\* The connection breaks: "Unexpected error", or the status text of the
\* error response.
BodyFails(i) ==
    /\ runs[i].phase \in {"body", "error_body"}
    /\ End(i)
    /\ shown' = ShowError(i)

\* Fault: the signal is not looked at.
Data_Unchecked(i) == ShowData(i)

Data(i) == IF runs[i].aborted THEN shown ELSE ShowData(i)

\* The body's task: JSON becomes data, unless the run was aborted, and is
\* returned to the view in any case.
DeliverData(i) ==
    /\ runs[i].phase = "read"
    /\ End(i)
    /\ shown' = Data(i)

\* Anything else is an error.
DeliverGarbage(i) ==
    /\ runs[i].phase = "read"
    /\ End(i)
    /\ shown' = ShowError(i)

DeliverError(i) ==
    /\ runs[i].phase = "error_read"
    /\ End(i)
    /\ shown' = ShowError(i)

Answers(i) == Headers(i) \/ FetchFails(i) \/ BodyRead(i) \/ BodyFails(i)
              \/ DeliverData(i) \/ DeliverGarbage(i) \/ DeliverError(i)

ActionNext == Run \/ Cancel \/ \E i \in 1..Latest : Answers(i)

ActionSpec == ActionInit /\ [][ActionNext]_action_vars

----------------------------------------------------------------------------
(***************************************************************************)
(* Properties.                                                             *)
(***************************************************************************)
InFlight(i) == runs[i].phase # "ended"

\* The data shown is the latest run's, whatever order responses arrive in
\* ("a stale response can never overwrite a newer one",
\* useAsyncAction.ts:13-14).
DataIsLatest == shown.data # None => shown.data = Latest

\* The same of errors.  It does not hold: a superseded run whose response
\* was an error still shows it.
ErrorIsLatest == shown.error # None => shown.error = Latest

\* Aborting a request the backend has not refused is never shown as an
\* error ("treats it as a no-op, never surfacing it as a user-facing error",
\* Dashboard.tsx:24-25).
AbortsAreNotErrors ==
    [][\A i \in 1..Latest :
          runs[i].phase \in {"fetch", "body", "read"} /\ ~runs[i].aborted /\ runs'[i].aborted
              => shown'.error # i]_action_vars

\* A spinner is shown for a request that may still answer: the latest run
\* is in flight and not aborted.
SpinnerIsHonest ==
    shown.loading => InFlight(Latest) /\ ~runs[Latest].aborted

\* No spinner turns for ever.
SpinnerStops == shown.loading ~> ~shown.loading
===============================================================================
