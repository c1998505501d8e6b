----------------------------- MODULE ServiceWorker -----------------------------
(***************************************************************************)
(* The service worker and the page it serves, while the network comes and  *)
(* goes and the frontend is deployed anew.  A deployment is its page "/"   *)
(* and the assets that page names, whose names change with their contents: *)
(* the server has those of the current deployment only.                    *)
(*                                                                         *)
(* Sources: frontend/public/sw.js, frontend/src/registerServiceWorker.ts,  *)
(* called from frontend/src/main.tsx.  The browser is external: a worker   *)
(* is installed once, since sw.js is the same file in every deployment, it *)
(* sees the requests of the pages it controls, and a cache.put that no     *)
(* event waits for may be lost with it.                                    *)
(*                                                                         *)
(* An operator X_Y is X with the seeded fault its comment names.           *)
(***************************************************************************)
EXTENDS Naturals

CONSTANT Deployments      \* the builds that are deployed, build 1 first

ASSUME DeploymentsAssumption == Deployments \subseteq Nat \ {0} /\ 1 \in Deployments

VARIABLES
    deployed,     \* the build the server has
    online,       \* whether the network is there
    worker,       \* "none", "installing" or "active"
    shell,        \* the build whose "/" is in CACHE_NAME, or Uncached
    assets,       \* the builds whose assets are in CACHE_NAME
    puts,         \* the builds whose assets are being put there
    lost,         \* the builds a put of whose assets was lost
    page          \* the page: its build, how far it has come, its controller

worker_vars == <<deployed, online, worker, shell, assets, puts, lost, page>>

Uncached == 0

\* html: its assets are not loaded yet; blank: they could not be; failed:
\* not even "/" could.  by_worker: "/" came from the worker.
Pages == [build : Deployments \cup {Uncached},
          stage : {"none", "html", "running", "blank", "failed"},
          controlled : BOOLEAN, by_worker : BOOLEAN]

WorkerTypeOK ==
    /\ deployed \in Deployments /\ online \in BOOLEAN
    /\ worker \in {"none", "installing", "active"}
    /\ shell \in Deployments \cup {Uncached}
    /\ assets \subseteq Deployments /\ puts \subseteq Deployments /\ lost \subseteq Deployments
    /\ page \in Pages

WorkerInit ==
    /\ deployed = 1 /\ online = TRUE
    /\ worker = "none" /\ shell = Uncached
    /\ assets = {} /\ puts = {} /\ lost = {}
    /\ page = [build |-> Uncached, stage |-> "none", controlled |-> FALSE, by_worker |-> FALSE]

Environment ==
    /\ \/ \E build \in Deployments : deployed' = build /\ UNCHANGED online
       \/ online' = ~online /\ UNCHANGED deployed
    /\ UNCHANGED <<worker, shell, assets, puts, lost, page>>

\* What "/" gives: a build, or Uncached if there is none.
FromNetwork == IF online THEN deployed ELSE Uncached

\* Fault: the worker asks the network first.
Root_NetworkFirst ==
    IF worker = "active" /\ ~online THEN shell ELSE FromNetwork

\* respondWith: what is cached, or else the network.
Root == IF worker = "active" /\ shell # Uncached THEN shell ELSE FromNetwork

\* The page is opened or loaded again.
Navigate ==
    /\ page' = [build |-> Root, stage |-> IF Root = Uncached THEN "failed" ELSE "html",
                controlled |-> worker = "active", by_worker |-> worker = "active"]
    /\ UNCHANGED <<deployed, online, worker, shell, assets, puts, lost>>

Served == page.controlled /\ page.build \in assets

\* A build that is no longer deployed has lost its assets: the response is
\* not ok, and is not cached.
Reachable == online /\ deployed = page.build

LoadAssets ==
    /\ page.stage = "html"
    /\ page' = [page EXCEPT !.stage = IF Served \/ Reachable THEN "running" ELSE "blank"]
    /\ puts' = IF page.controlled /\ ~Served /\ Reachable THEN puts \cup {page.build} ELSE puts
    /\ UNCHANGED <<deployed, online, worker, shell, assets, lost>>

\* cache.put, which the event does not wait for.
AssetsPut(build) ==
    /\ build \in puts
    /\ puts' = puts \ {build}
    /\ \/ assets' = assets \cup {build} /\ UNCHANGED lost
       \/ lost' = lost \cup {build} /\ UNCHANGED assets
    /\ UNCHANGED <<deployed, online, worker, shell, page>>

\* On "load", if the script of the page has run.
RegisterServiceWorker ==
    /\ page.stage = "running"
    /\ worker = "none"
    /\ worker' = "installing"
    /\ UNCHANGED <<deployed, online, shell, assets, puts, lost, page>>

\* cache.addAll of the page that is deployed by now, skipWaiting, activate,
\* and clients.claim.  A registration that fails is tried again at a load.
Install ==
    /\ worker = "installing"
    /\ IF online
       THEN /\ shell' = deployed
            /\ worker' = "active"
            /\ page' = [page EXCEPT !.controlled = TRUE]
       ELSE worker' = "none" /\ UNCHANGED <<shell, page>>
    /\ UNCHANGED <<deployed, online, assets, puts, lost>>

WorkerNext ==
    \/ Environment \/ Navigate \/ LoadAssets \/ RegisterServiceWorker \/ Install
    \/ \E build \in Deployments : AssetsPut(build)

WorkerSpec == WorkerInit /\ [][WorkerNext]_worker_vars

----------------------------------------------------------------------------
(***************************************************************************)
(* Properties.                                                             *)
(***************************************************************************)

\* What "offline reload" (sw.js:2-3) amounts to: a page that came from the
\* worker and runs is what a reload gives, with its assets in the cache, or
\* on their way there and at risk, whatever has been deployed since.  It
\* does not hold of the page that registers the worker: its assets were
\* loaded before.
ControlledPagesReload ==
    page.stage = "running" /\ page.by_worker =>
        page.build = shell /\ shell \in assets \cup puts \cup lost
===============================================================================
