-------------------------------- MODULE Frontend --------------------------------
(***************************************************************************)
(* The parts of the frontend that run beside one another: the overview, a  *)
(* view that asks questions and shares the result cache with others, the   *)
(* upload view, and the service worker under the page.  The page mounts    *)
(* its views at once, each with a hook of its own, and these parts share   *)
(* no state: so a behaviour follows one of them.                           *)
(*                                                                         *)
(* Sources: SECTIONS in frontend/src/App.tsx, Dashboard in                 *)
(* frontend/src/views/Dashboard.tsx.                                       *)
(***************************************************************************)
EXTENDS ResultView, UploadView, ServiceWorker

VARIABLE part      \* the part that is followed

frontend_vars == <<part, view_vars, upload_vars, worker_vars>>

Parts == {"overview", "result", "upload", "worker"}

FrontendTypeOK == part \in Parts /\ ViewTypeOK /\ UploadTypeOK /\ WorkerTypeOK

FrontendInit == part \in Parts /\ ViewInit /\ UploadInit /\ WorkerInit

\* The effect that asks for the status when the overview mounts.  StrictMode
\* mounts it a second time in the same turn, before anything has come back.
Mount ==
    /\ Latest = 0 \/ (Latest = 1 /\ runs[1].phase = "fetch")
    /\ Run

OverviewNext == Mount \/ \E i \in 1..Latest : Answers(i)

FrontendNext ==
    /\ \/ part = "overview" /\ OverviewNext
          /\ UNCHANGED <<cache_vars, upload_vars, worker_vars>>
       \/ part = "result" /\ ViewNext /\ UNCHANGED <<upload_vars, worker_vars>>
       \/ part = "upload" /\ UploadNext /\ UNCHANGED <<cache_vars, worker_vars>>
       \/ part = "worker" /\ WorkerNext /\ UNCHANGED <<view_vars, upload_vars>>
    /\ UNCHANGED part

\* A request of the hook, on its way to its end.
Respond(i) ==
    /\ i <= Latest
    /\ \/ part = "result" /\ Proceed(i) /\ UNCHANGED upload_vars
       \/ part \in {"overview", "upload"} /\ Answers(i) /\ UNCHANGED <<cache_vars, upload_vars>>
    /\ UNCHANGED <<part, worker_vars>>

\* Every request ends: the backend answers or the connection breaks.
FrontendFairness == \A i \in 1..MaxRuns : WF_frontend_vars(Respond(i))

FrontendSpec == FrontendInit /\ [][FrontendNext]_frontend_vars /\ FrontendFairness
===============================================================================
