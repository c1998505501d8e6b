------------------------------- MODULE ResultView -------------------------------
(***************************************************************************)
(* A view that submits questions through useAsyncAction and caches the     *)
(* results, beside other views and tabs that write to the same cache.      *)
(*                                                                         *)
(* Sources: handleSubmit in frontend/src/views/ReviewView.tsx,             *)
(* handleSearch and handleAsk in SearchView.tsx.                           *)
(***************************************************************************)
EXTENDS AsyncAction, QueryCache

CONSTANT Asked     \* the id of what each run asks

ASSUME ViewAssumption == Asked \in [1..MaxRuns -> Ids]

view_vars == <<action_vars, cache_vars>>

ViewTypeOK == ActionTypeOK /\ CacheTypeOK

ViewInit == ActionInit /\ CacheInit

\* "if (result) cacheResult(...)", in the turn that delivers the result.
Succeed(i) == DeliverData(i) /\ CacheResult(Asked[i])

Proceed(i) ==
    \/ Succeed(i)
    \/ /\ Headers(i) \/ FetchFails(i) \/ BodyRead(i) \/ BodyFails(i)
          \/ DeliverGarbage(i) \/ DeliverError(i)
       /\ UNCHANGED cache_vars

\* The button is disabled while the spinner shows; once an error of an earlier
\* run has taken its place, it is not, whatever the latest run is doing.
Submit == ~shown.loading /\ Run

ViewNext ==
    \/ (Submit \/ Cancel) /\ UNCHANGED cache_vars
    \/ \E i \in 1..Latest : Proceed(i)
    \/ CacheNext /\ UNCHANGED action_vars
===============================================================================
