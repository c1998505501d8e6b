--------------------------- MODULE RequestPool_proofs ---------------------------
(***************************************************************************)
(* For any requests, loads, number of connections and number of threads:   *)
(* connections, the row lock and the event loop are never without an owner *)
(* that will give them back, and the pool is never overdrawn; and requests *)
(* stand still, all of them, only behind an upload on the event loop.      *)
(***************************************************************************)
EXTENDS RequestPool, FiniteSetTheorems, TLAPS

\* The pool is counted, so what is lent has to be finite; everything else
\* ResourcesAreOwned says is inductive together with the types.
PoolInv == PoolTypeOK /\ IsFiniteSet(connected) /\ ResourcesAreOwned

(***************************************************************************)
(* What a session gives back leaves the rest as it was.                    *)
(***************************************************************************)
LEMMA DisconnectShrinks ==
    ASSUME NEW r \in Requests, PoolInv, Disconnect(r)
    PROVE  /\ connected' = connected \ {r} /\ IsFiniteSet(connected')
           /\ Cardinality(connected') <= PoolSize
           /\ row' \in Requests \cup {None}
           /\ row' # None => row' \in connected'
<1>1. IsFiniteSet(connected \ {r}) /\ Cardinality(connected \ {r}) <= Cardinality(connected)
    <2>1. connected \ {r} \subseteq connected
        OBVIOUS
    <2>2. IsFiniteSet(connected)
        BY DEF PoolInv
    <2> QED BY <2>1, <2>2, FS_Subset
<1>2. Cardinality(connected) \in Nat /\ Cardinality(connected \ {r}) \in Nat
    BY <1>1, FS_CardinalityType DEF PoolInv
<1>3. Cardinality(connected \ {r}) <= PoolSize
    BY <1>1, <1>2, PoolAssumption DEF PoolInv, ResourcesAreOwned
<1> QED BY <1>1, <1>3 DEF Disconnect, PoolInv, PoolTypeOK, ResourcesAreOwned

LEMMA ConnectStaysInPool ==
    ASSUME NEW r \in Requests, PoolInv, Connect(r)
    PROVE  IsFiniteSet(connected') /\ Cardinality(connected') <= PoolSize
<1>1. IsFiniteSet(connected) /\ r \notin connected /\ connected' = connected \cup {r}
    BY DEF PoolInv, Connect, Waits
<1>2. IsFiniteSet(connected \cup {r}) /\ Cardinality(connected \cup {r}) = Cardinality(connected) + 1
    BY <1>1, FS_AddElement
<1>3. Cardinality(connected) \in Nat
    BY <1>1, FS_CardinalityType
<1>4. ~(Cardinality(connected) >= PoolSize)
    BY DEF Connect, PoolIsEmpty
<1> QED BY <1>1, <1>2, <1>3, <1>4, PoolAssumption

(***************************************************************************)
(* The end of a handler, however it comes about.                           *)
(***************************************************************************)
LEMMA LeaveKeeps ==
    ASSUME NEW r \in Requests, PoolInv, stage[r] = "running", Leave(r)
    PROVE  PoolInv'
<1> USE DEF Leave, Move
<1>1. PoolTypeOK'
    BY DEF PoolInv, PoolTypeOK, Stages
<1>2. ResourcesAreOwned'
    BY DEF PoolInv, PoolTypeOK, ResourcesAreOwned, IsUpload
<1> QED BY <1>1, <1>2 DEF PoolInv

LEMMA PoolInvHolds == PoolSpec => []PoolInv
<1> USE PoolAssumption
<1>1. PoolInit => PoolInv
    <2> SUFFICES ASSUME PoolInit PROVE PoolInv
        OBVIOUS
    <2>1. IsFiniteSet(connected) /\ Cardinality(connected) = 0
        BY FS_EmptySet DEF PoolInit
    <2>2. PoolTypeOK
        BY DEF PoolInit, PoolTypeOK, Stages
    <2>3. ResourcesAreOwned
        BY <2>1 DEF PoolInit, ResourcesAreOwned
    <2> QED BY <2>1, <2>2, <2>3 DEF PoolInv
<1>2. PoolInv /\ [PoolNext]_pool_vars => PoolInv'
    <2> SUFFICES ASSUME PoolInv, [PoolNext]_pool_vars PROVE PoolInv'
        OBVIOUS
    <2>1. CASE UNCHANGED pool_vars
        BY <2>1 DEF pool_vars, PoolInv, PoolTypeOK, ResourcesAreOwned, IsUpload
    <2>2. ASSUME NEW r \in Requests, OpenSession(r) PROVE PoolInv'
        <3>1. PoolTypeOK'
            BY <2>2 DEF OpenSession, Move, PoolInv, PoolTypeOK, Stages
        <3>2. ResourcesAreOwned'
            BY <2>2 DEF OpenSession, Move, LoopIsFree, PoolInv, PoolTypeOK, ResourcesAreOwned
        <3> QED BY <2>2, <3>1, <3>2 DEF OpenSession, PoolInv
    <2>3. ASSUME NEW r \in Requests, CallEndpoint(r) PROVE PoolInv'
        <3>1. PICK number \in Transactions(endpoint[r]) : todo' = [todo EXCEPT ![r] = number]
            BY <2>3 DEF CallEndpoint
        <3>2. number \in 0..2
            BY <3>1 DEF Transactions, PoolInv, PoolTypeOK, Endpoints
        <3>3. PoolTypeOK'
            BY <2>3, <3>1, <3>2 DEF CallEndpoint, Move, PoolInv, PoolTypeOK, Stages
        <3>4. ResourcesAreOwned'
            BY <2>3 DEF CallEndpoint, Move, LoopIsFree, IsUpload, PoolInv, PoolTypeOK,
                        ResourcesAreOwned
        <3> QED BY <2>3, <3>3, <3>4 DEF CallEndpoint, PoolInv
    <2>4. ASSUME NEW r \in Requests, Connect(r) PROVE PoolInv'
        <3>1. PoolTypeOK'
            BY <2>4 DEF Connect, Waits, PoolInv, PoolTypeOK
        <3>2. ResourcesAreOwned'
            BY <2>4, ConnectStaysInPool DEF Connect, Waits, IsUpload, PoolInv, ResourcesAreOwned
        <3> QED BY <2>4, <3>1, <3>2, ConnectStaysInPool DEF PoolInv
    <2>5. ASSUME NEW r \in Requests, LockRow(r) PROVE PoolInv'
        BY <2>5 DEF LockRow, IsUpload, PoolInv, PoolTypeOK, ResourcesAreOwned
    <2>6. ASSUME NEW r \in Requests, Commit(r) PROVE PoolInv'
        <3>1. Disconnect(r) /\ UNCHANGED <<endpoint, stage, todo, loop>>
            BY <2>6 DEF Commit
        <3> QED BY <3>1, DisconnectShrinks DEF PoolInv, PoolTypeOK, ResourcesAreOwned, IsUpload
    <2>7. ASSUME NEW r \in Requests, Return(r) \/ TimeOut(r) \/ Raise(r) PROVE PoolInv'
        BY <2>7, LeaveKeeps DEF Return, TimeOut, Waits, Raise
    <2>8. ASSUME NEW r \in Requests, SendResponse(r) PROVE PoolInv'
        <3>1. PoolTypeOK'
            BY <2>8 DEF SendResponse, Move, PoolInv, PoolTypeOK, Stages
        <3>2. ResourcesAreOwned'
            BY <2>8 DEF SendResponse, Move, LoopIsFree, PoolInv, PoolTypeOK, ResourcesAreOwned
        <3> QED BY <2>8, <3>1, <3>2 DEF SendResponse, PoolInv
    <2>9. ASSUME NEW r \in Requests, CloseSession(r) PROVE PoolInv'
        <3>1. /\ stage' = [stage EXCEPT ![r] = "done"] /\ loop = None
              /\ Disconnect(r) /\ UNCHANGED <<endpoint, todo, loop>>
            BY <2>9 DEF CloseSession, Move, LoopIsFree
        <3>2. PoolTypeOK'
            BY <3>1, DisconnectShrinks DEF PoolInv, PoolTypeOK, Stages
        <3>3. ResourcesAreOwned'
            BY <3>1, DisconnectShrinks DEF PoolInv, PoolTypeOK, ResourcesAreOwned
        <3> QED BY <3>1, <3>2, <3>3, DisconnectShrinks DEF PoolInv
    <2> QED BY <2>1, <2>2, <2>3, <2>4, <2>5, <2>6, <2>7, <2>8, <2>9 DEF PoolNext, Progress
<1> QED BY <1>1, <1>2, PTL DEF PoolSpec

\* Every variable of the pool keeps its type.
THEOREM PoolTypeCorrect == PoolSpec => []PoolTypeOK
BY PoolInvHolds, PTL DEF PoolInv

\* Connections, the row lock and the event loop always have an owner that
\* will give them back, and there are never more connections than the
\* engine's (app/db.py:15).
THEOREM ResourcesStayOwned == PoolSpec => []ResourcesAreOwned
BY PoolInvHolds, PTL DEF PoolInv

(***************************************************************************)
(* Where requests stand still.                                             *)
(***************************************************************************)

\* The guards of the actions of Progress(r), one disjunct for each action in
\* their order: what ENABLED Progress(r) is, which the provers cannot unfold.
Ready(r) ==
    \/ stage[r] = "new" /\ LoopIsFree /\ ThreadIsFree
    \/ stage[r] = "opened" /\ LoopIsFree /\ (IsUpload(r) \/ ThreadIsFree)
    \/ Waits(r) /\ ~PoolIsEmpty
    \/ /\ stage[r] = "running" /\ r \in connected /\ todo[r] = 1
       /\ endpoint[r] = "extract" /\ row = None
    \/ /\ stage[r] = "running" /\ r \in connected /\ todo[r] = 1
       /\ endpoint[r] = "extract" => row = r
    \/ stage[r] = "running" /\ todo[r] = 0
    \/ stage[r] = "left" /\ LoopIsFree
    \/ stage[r] = "replied" /\ LoopIsFree

\* No step is taken that Ready does not allow.
LEMMA ProgressIsReady ==
    ASSUME NEW r \in Requests, Progress(r)
    PROVE  Ready(r)
BY DEF Progress, Ready, OpenSession, CallEndpoint, Connect, LockRow, Commit, Return,
       SendResponse, CloseSession

\* Whoever has a connection is in its last transaction.
LastTransaction == \A r \in connected : todo[r] <= 1

LEMMA LastTransactionHolds == PoolSpec => []LastTransaction
<1>1. PoolInit => LastTransaction
    BY DEF PoolInit, LastTransaction
<1>2. PoolTypeOK /\ LastTransaction /\ PoolInv /\ [PoolNext]_pool_vars => LastTransaction'
    <2> SUFFICES ASSUME PoolTypeOK, LastTransaction, PoolInv, [PoolNext]_pool_vars
                 PROVE  LastTransaction'
        OBVIOUS
    <2>1. CASE UNCHANGED pool_vars
        BY <2>1 DEF pool_vars, LastTransaction
    <2>2. ASSUME NEW r \in Requests, OpenSession(r) \/ LockRow(r) \/ SendResponse(r)
          PROVE  LastTransaction'
        BY <2>2 DEF OpenSession, LockRow, SendResponse, LastTransaction
    <2>3. ASSUME NEW r \in Requests, Commit(r) \/ CloseSession(r) PROVE LastTransaction'
        BY <2>3 DEF Commit, CloseSession, Disconnect, LastTransaction
    <2>4. ASSUME NEW r \in Requests, CallEndpoint(r) PROVE LastTransaction'
        <3>1. r \notin connected /\ connected' = connected
            BY <2>4 DEF CallEndpoint, PoolInv, ResourcesAreOwned
        <3>2. \A s \in Requests : s # r => todo'[s] = todo[s]
            BY <2>4 DEF CallEndpoint, PoolTypeOK
        <3> QED BY <3>1, <3>2 DEF LastTransaction, PoolTypeOK
    <2>5. ASSUME NEW r \in Requests, Connect(r) PROVE LastTransaction'
        BY <2>5 DEF Connect, PoolTypeOK, LastTransaction
    <2>6. ASSUME NEW r \in Requests, Return(r) \/ TimeOut(r) \/ Raise(r) PROVE LastTransaction'
        BY <2>6 DEF Return, TimeOut, Raise, Leave, PoolTypeOK, LastTransaction
    <2> QED BY <2>1, <2>2, <2>3, <2>4, <2>5, <2>6 DEF PoolNext, Progress
<1> QED BY <1>1, <1>2, PoolInvHolds, PTL DEF PoolSpec, PoolInv

\* With the loop free, a request that holds a connection, or the one whose
\* lock it waits for, can go on.
LEMMA HoldersGoOn ==
    ASSUME PoolInv, LastTransaction, LoopIsFree, NEW r \in connected
    PROVE  \E s \in Requests : Ready(s)
<1>1. \A s \in connected : /\ s \in Requests
                           /\ stage[s] \in {"running", "left", "replied"}
                           /\ todo[s] \in {0, 1}
    BY DEF PoolInv, PoolTypeOK, ResourcesAreOwned, LastTransaction
<1>2. \A s \in connected : stage[s] # "running" \/ todo[s] = 0 \/ row \in {s, None} => Ready(s)
    BY <1>1 DEF Ready
<1>3. CASE row = None
    BY <1>1, <1>2, <1>3
<1>4. CASE row # None
    <2>1. row \in connected
        BY <1>4 DEF PoolInv, ResourcesAreOwned
    <2> QED BY <1>1, <1>2, <2>1
<1> QED BY <1>3, <1>4

\* With the loop free, a thread that is taken is of a request that can go on
\* or waits for one that can.
LEMMA ThreadsGoOn ==
    ASSUME PoolInv, LastTransaction, LoopIsFree, NEW r \in OnThread
    PROVE  \E s \in Requests : Ready(s)
<1>1. r \in Requests /\ stage[r] \in {"running", "left"}
    BY DEF OnThread
<1>2. CASE r \in connected
    BY <1>2, HoldersGoOn
<1>3. CASE r \notin connected /\ stage[r] = "running" /\ todo[r] > 0
    <2>1. CASE PoolIsEmpty
        <3>1. connected # {}
            BY <2>1, FS_EmptySet, PoolAssumption DEF PoolIsEmpty
        <3> QED BY <3>1, HoldersGoOn
    <2>2. CASE ~PoolIsEmpty
        BY <1>1, <1>3, <2>2 DEF Ready, Waits
    <2> QED BY <2>1, <2>2
<1>4. CASE stage[r] = "left"
    BY <1>1, <1>4 DEF Ready
<1>5. CASE stage[r] = "running" /\ todo[r] = 0
    BY <1>1, <1>5 DEF Ready
<1> QED BY <1>1, <1>2, <1>3, <1>4, <1>5 DEF PoolInv, PoolTypeOK

\* StallsAreBehindUploads with Ready for ENABLED.  With the loop free,
\* a request that has not begun finds a thread or somebody on it.
LEMMA SomebodyIsReady ==
    ASSUME PoolInv, LastTransaction, \A r \in Requests : ~Ready(r)
    PROVE  Ended \/ (~LoopIsFree /\ Waits(loop) /\ PoolIsEmpty)
<1>1. CASE LoopIsFree
    <2>1. OnThread = {} /\ connected = {}
        BY <1>1, HoldersGoOn, ThreadsGoOn
    <2>2. ThreadIsFree
        BY <2>1, FS_EmptySet, PoolAssumption DEF ThreadIsFree
    <2>3. \A r \in Requests : stage[r] \notin {"new", "opened", "left", "replied"}
        BY <1>1, <2>2 DEF Ready
    <2>4. \A r \in Requests : stage[r] # "running"
        <3>1. SUFFICES ASSUME NEW r \in Requests, stage[r] = "running" PROVE FALSE
            OBVIOUS
        <3>2. IsUpload(r)
            BY <2>1, <3>1 DEF OnThread
        <3>3. todo[r] = 0 \/ Waits(r)
            BY <2>1, <3>1 DEF Waits, PoolInv, PoolTypeOK
        <3>4. ~PoolIsEmpty
            BY <2>1, FS_EmptySet, PoolAssumption DEF PoolIsEmpty
        <3> QED BY <3>1, <3>3, <3>4 DEF Ready
    <2> QED BY <2>3, <2>4 DEF Ended, PoolInv, PoolTypeOK, Stages
<1>2. CASE ~LoopIsFree
    <2>1. loop \in Requests /\ stage[loop] = "running" /\ IsUpload(loop)
        BY <1>2 DEF LoopIsFree, PoolInv, PoolTypeOK, ResourcesAreOwned
    <2>2. todo[loop] \in 0..2 /\ todo[loop] # 0
        BY <2>1 DEF Ready, PoolInv, PoolTypeOK
    <2>3. loop \notin connected
        <3>1. SUFFICES ASSUME loop \in connected PROVE FALSE
            OBVIOUS
        <3>2. todo[loop] = 1
            BY <2>2, <3>1 DEF LastTransaction
        <3>3. endpoint[loop] # "extract"
            BY <2>1 DEF IsUpload
        <3> QED BY <2>1, <3>1, <3>2, <3>3 DEF Ready
    <2>4. Waits(loop)
        BY <2>1, <2>2, <2>3 DEF Waits
    <2> QED BY <1>2, <2>1, <2>4 DEF Ready
<1> QED BY <1>1, <1>2

\* Requests that can none of them go on without a time-out or a failure are
\* all behind an upload that waits, on the event loop, for a connection from
\* an empty pool (app/main.py, upload_document): there is no other deadlock,
\* over connections, row locks and threads together.
THEOREM StallsNeedAnUpload ==
    PoolSpec => []((\A r \in Requests : ~Ready(r)) =>
                      Ended \/ (~LoopIsFree /\ Waits(loop) /\ PoolIsEmpty))
<1>1. PoolInv /\ LastTransaction =>
          ((\A r \in Requests : ~Ready(r)) =>
               Ended \/ (~LoopIsFree /\ Waits(loop) /\ PoolIsEmpty))
    BY SomebodyIsReady
<1> QED BY <1>1, PoolInvHolds, LastTransactionHolds, PTL
===============================================================================
