------------------------------ MODULE QueryCache ------------------------------
(***************************************************************************)
(* The frontend's result cache: an IndexedDB store that all tabs share.    *)
(* cacheResult puts an entry in one transaction and prunes the store in    *)
(* another; nothing orders it with the cacheResult of another result or of *)
(* another tab, and the time stamp is taken before either transaction.     *)
(*                                                                         *)
(* Source: frontend/src/storage/cache.ts.  IndexedDB is external: it runs  *)
(* read-write transactions on one store one after another.                 *)
(*                                                                         *)
(* An operator X_Y is X with the seeded fault its comment names.           *)
(***************************************************************************)
EXTENDS Naturals, FiniteSets

CONSTANTS
    Ids,            \* ids of entries, one for each kind and query
    MaxEntries,     \* MAX_ENTRIES
    MaxWrites       \* bound on the calls of cacheResult from views not modelled

ASSUME CacheAssumption == MaxEntries \in Nat /\ MaxWrites \in Nat

VARIABLES
    store,      \* the object store: id -> the time stamp of its entry
    writes,     \* calls of cacheResult that have not ended: [id, time, stage]
    now         \* the clock, one tick a call

cache_vars == <<store, writes, now>>

CacheTypeOK ==
    /\ DOMAIN store \subseteq Ids /\ \A id \in DOMAIN store : store[id] \in 1..now
    /\ writes \subseteq [id : Ids, time : 1..now,
                         stage : {"put", "prune", "dropped"}]
    /\ now \in Nat

CacheInit ==
    /\ store = [id \in {} |-> 0]
    /\ writes = {}
    /\ now = 0

Becomes(write, stage) == writes' = (writes \ {write}) \cup {[write EXCEPT !.stage = stage]}

Forget(write) == writes' = writes \ {write}

CacheResult(id) ==
    /\ now' = now + 1
    /\ writes' = writes \cup {[id |-> id, time |-> now', stage |-> "put"]}
    /\ UNCHANGED store

\* An entry replaces the one with its id, be that older or newer.
Put(write) ==
    /\ write.stage = "put"
    /\ store' = [id \in DOMAIN store \cup {write.id} |->
                    IF id = write.id THEN write.time ELSE store[id]]
    /\ Becomes(write, "prune")
    /\ UNCHANGED now

\* Fault: the cursor runs from the newest entry.
Oldest_Newest(n) == {id \in DOMAIN store :
                        Cardinality({other \in DOMAIN store : store[other] > store[id]}) < n}

Oldest(n) == {id \in DOMAIN store :
                 Cardinality({other \in DOMAIN store : store[other] < store[id]}) < n}

\* Fault: the number of entries is that before the put.
Excess_BeforePut == IF Cardinality(DOMAIN store) - 1 > MaxEntries
                    THEN Cardinality(DOMAIN store) - 1 - MaxEntries ELSE 0

Excess == IF Cardinality(DOMAIN store) > MaxEntries
          THEN Cardinality(DOMAIN store) - MaxEntries ELSE 0

Prune(write) ==
    /\ write.stage = "prune"
    /\ store' = [id \in DOMAIN store \ Oldest(Excess) |-> store[id]]
    /\ Forget(write)
    /\ UNCHANGED now

\* The tab is closed, or IndexedDB refuses the transaction; cacheResult
\* swallows the exception.
Drop(write) ==
    /\ write.stage \in {"put", "prune"}
    /\ IF write.stage = "put" THEN Forget(write) ELSE Becomes(write, "dropped")
    /\ UNCHANGED <<store, now>>

CacheNext ==
    \/ now < MaxWrites /\ \E id \in Ids : CacheResult(id)
    \/ \E write \in writes : Put(write) \/ Prune(write) \/ Drop(write)

CacheSpec == CacheInit /\ [][CacheNext]_cache_vars

----------------------------------------------------------------------------
(***************************************************************************)
(* Properties.                                                             *)
(***************************************************************************)

\* The store exceeds its limit by no more than the entries whose prune is
\* still to come or was lost with its tab.
OvershootIsBounded ==
    Cardinality(DOMAIN store) <=
        MaxEntries + Cardinality({w \in writes : w.stage \in {"prune", "dropped"}})

\* Only an entry older than MaxEntries others is ever evicted, however the
\* prunes of several tabs fall between each other's puts.
NewestSurvive ==
    [][\A id \in DOMAIN store \ DOMAIN store' :
          Cardinality({other \in DOMAIN store : store[other] > store[id]}) >= MaxEntries
      ]_cache_vars
===============================================================================
