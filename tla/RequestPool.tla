------------------------------ MODULE RequestPool ------------------------------
(***************************************************************************)
(* What every request of one server process competes for: the event loop,  *)
(* the worker threads, the database connections, and the locks on the rows *)
(* that extractions of one document write.                                 *)
(*                                                                         *)
(* Sources: app/db.py (the engine and get_db) and the endpoints of         *)
(* app/main.py.  The loop, its thread limiter and the pool are external:   *)
(* FastAPI runs a "def" endpoint and the entry of a dependency in worker   *)
(* threads, of which there are so many; what ends a request is run by the  *)
(* loop, and the exit of a dependency in a thread outside that limit.  A   *)
(* Session takes a connection at its first statement and gives it back at  *)
(* commit or close; a statement waits for one for 30 seconds at most.      *)
(*                                                                         *)
(* upload_document is "async def": from its first statement to its reply   *)
(* it runs on the loop itself, waiting for a connection included.          *)
(*                                                                         *)
(* An operator X_Y is X with the seeded fault its comment names.           *)
(***************************************************************************)
EXTENDS Naturals, FiniteSets

CONSTANTS
    Requests,      \* concurrent requests
    Loads,         \* what they may be: functions from Requests to Endpoints
    PoolSize,      \* pool_size + max_overflow of the engine
    Threads,       \* worker threads of the limiter
    None           \* no request

Endpoints == {"health", "stats", "search", "graph_query",
              "upload", "extract", "answer", "review"}

ASSUME PoolAssumption ==
    /\ Loads \subseteq [Requests -> Endpoints]
    /\ PoolSize \in Nat \ {0} /\ Threads \in Nat \ {0}
    /\ None \notin Requests

VARIABLES
    endpoint,      \* Requests -> the endpoint it calls
    stage,         \* Requests -> how far it has come
    todo,          \* Requests -> the transactions its handler has yet to begin
    connected,     \* the requests whose session holds a connection
    row,           \* the extraction that has locked the contended row, or None
    loop           \* the upload the event loop is running, or None

pool_vars == <<endpoint, stage, todo, connected, row, loop>>

\* new: not begun; opened: get_db has yielded; running: in the handler; left:
\* the handler has returned or raised; replied: the response is out.
Stages == {"new", "opened", "running", "left", "replied", "done"}

IsUpload(r) == endpoint[r] = "upload"

\* The transactions a handler begins.  Those that write read their rows
\* again after the commit; a graph query begins one only for a path that
\* cites a chunk.
Transactions(name) ==
    CASE name \in {"upload", "extract", "answer", "review"} -> {2}
      [] name \in {"health", "stats", "search"}             -> {1}
      [] name = "graph_query"                               -> {0, 1}

PoolTypeOK ==
    /\ endpoint \in [Requests -> Endpoints]
    /\ stage \in [Requests -> Stages]
    /\ todo \in [Requests -> 0..2]
    /\ connected \subseteq Requests
    /\ row \in Requests \cup {None}
    /\ loop \in Requests \cup {None}

PoolInit ==
    /\ endpoint \in Loads
    /\ stage = [r \in Requests |-> "new"]
    /\ todo = [r \in Requests |-> 0]
    /\ connected = {}
    /\ row = None /\ loop = None

\* A thread counts as taken until the loop has seen its result.
OnThread == {r \in Requests : stage[r] \in {"running", "left"} /\ ~IsUpload(r)}

LoopIsFree == loop = None
ThreadIsFree == Cardinality(OnThread) < Threads
PoolIsEmpty == Cardinality(connected) >= PoolSize

Move(r, to) == stage' = [stage EXCEPT ![r] = to]

(***************************************************************************)
(* The way in.                                                             *)
(***************************************************************************)
\* get_db up to its yield; SessionLocal() does not connect.
OpenSession(r) ==
    /\ stage[r] = "new"
    /\ LoopIsFree /\ ThreadIsFree
    /\ Move(r, "opened")
    /\ UNCHANGED <<endpoint, todo, connected, row, loop>>

CallEndpoint(r) ==
    /\ stage[r] = "opened"
    /\ LoopIsFree /\ (IsUpload(r) \/ ThreadIsFree)
    /\ Move(r, "running")
    /\ \E number \in Transactions(endpoint[r]) : todo' = [todo EXCEPT ![r] = number]
    /\ loop' = IF IsUpload(r) THEN r ELSE loop
    /\ UNCHANGED <<endpoint, connected, row>>

(***************************************************************************)
(* The handler.                                                            *)
(***************************************************************************)
Waits(r) == stage[r] = "running" /\ todo[r] > 0 /\ r \notin connected

\* The first statement of a transaction.
Connect(r) ==
    /\ Waits(r)
    /\ ~PoolIsEmpty
    /\ connected' = connected \cup {r}
    /\ todo' = [todo EXCEPT ![r] = @ - 1]
    /\ UNCHANGED <<endpoint, stage, row, loop>>

\* An extraction writes a row that other extractions of its document write.
LockRow(r) ==
    /\ stage[r] = "running" /\ r \in connected /\ todo[r] = 1
    /\ endpoint[r] = "extract"
    /\ row = None
    /\ row' = r
    /\ UNCHANGED <<endpoint, stage, todo, connected, loop>>

\* What the end of a transaction gives back.
Disconnect(r) ==
    /\ connected' = connected \ {r}
    /\ row' = IF row = r THEN None ELSE row

Commit(r) ==
    /\ stage[r] = "running" /\ r \in connected /\ todo[r] = 1
    /\ endpoint[r] = "extract" => row = r
    /\ Disconnect(r)
    /\ UNCHANGED <<endpoint, stage, todo, loop>>

\* The handler ends; its session keeps its transaction.
Leave(r) ==
    /\ Move(r, "left")
    /\ todo' = [todo EXCEPT ![r] = 0]
    /\ loop' = IF loop = r THEN None ELSE loop
    /\ UNCHANGED <<endpoint, connected, row>>

Return(r) == stage[r] = "running" /\ todo[r] = 0 /\ Leave(r)

\* A store, a model or the provider fails, or the request is refused.
Raise(r) == stage[r] = "running" /\ Leave(r)

\* Fault: the loop waits without a limit of time.
TimeOut_ThreadsOnly(r) == Waits(r) /\ PoolIsEmpty /\ ~IsUpload(r) /\ Leave(r)

\* The pool's time-out is an exception like another; health() catches it.
TimeOut(r) == Waits(r) /\ PoolIsEmpty /\ Leave(r)

(***************************************************************************)
(* The way out, on the event loop.                                         *)
(***************************************************************************)
SendResponse(r) ==
    /\ stage[r] = "left"
    /\ LoopIsFree
    /\ Move(r, "replied")
    /\ UNCHANGED <<endpoint, todo, connected, row, loop>>

\* Fault: the session is not closed, as if get_db had no "finally".
CloseSession_Forgotten(r) ==
    /\ stage[r] = "replied"
    /\ LoopIsFree
    /\ Move(r, "done")
    /\ UNCHANGED <<endpoint, todo, connected, row, loop>>

\* Fault: the session is closed in one of the limited threads.
CloseSession_InLimit(r) ==
    /\ stage[r] = "replied"
    /\ LoopIsFree /\ ThreadIsFree
    /\ Move(r, "done")
    /\ Disconnect(r)
    /\ UNCHANGED <<endpoint, todo, loop>>

\* db.close(), which rolls back what is uncommitted.
CloseSession(r) ==
    /\ stage[r] = "replied"
    /\ LoopIsFree
    /\ Move(r, "done")
    /\ Disconnect(r)
    /\ UNCHANGED <<endpoint, todo, loop>>

\* What a request does if nothing fails.
Progress(r) ==
    \/ OpenSession(r) \/ CallEndpoint(r)
    \/ Connect(r) \/ LockRow(r) \/ Commit(r) \/ Return(r)
    \/ SendResponse(r) \/ CloseSession(r)

PoolNext == \E r \in Requests : Progress(r) \/ TimeOut(r) \/ Raise(r)

\* The loop and the threads run, Postgres grants a lock that is free, the
\* pool serves those who wait before it is emptied again for ever, and its
\* time-out comes; nothing has to fail.
PoolFairness ==
    \A r \in Requests : WF_pool_vars(Progress(r)) /\ WF_pool_vars(TimeOut(r))

PoolSpec == PoolInit /\ [][PoolNext]_pool_vars /\ PoolFairness

----------------------------------------------------------------------------
(***************************************************************************)
(* Properties.                                                             *)
(***************************************************************************)
Ended == \A r \in Requests : stage[r] = "done"

\* Connections and locks belong to requests that will give them back: there
\* are never more connections than the engine's, each is of a request
\* between its call and its close, a lock is of a transaction that is open,
\* and only an upload that is running keeps the loop.
ResourcesAreOwned ==
    /\ Cardinality(connected) <= PoolSize
    /\ \A r \in connected : stage[r] \in {"running", "left", "replied"}
    /\ row # None => row \in connected
    /\ loop # None => stage[loop] = "running" /\ IsUpload(loop)

\* Requests that wait for one another without end are all behind an upload
\* that waits for a connection on the event loop: in any other state, some
\* request can go on without a time-out or a failure, be it holding a
\* connection, a lock or a thread.
StallsAreBehindUploads ==
    (\A r \in Requests : ~ENABLED Progress(r)) =>
        Ended \/ (~LoopIsFree /\ Waits(loop) /\ PoolIsEmpty)

\* Every request ends, an upload on the loop and those that wait behind it
\* by the pool's time-out.
EveryRequestEnds == <>Ended
===============================================================================
