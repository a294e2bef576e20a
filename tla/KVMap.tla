-------------------------------- MODULE KVMap --------------------------------
(***************************************************************************)
(* The in-memory key-value store: QDocKVMap and QDocKVMapTransaction       *)
(* (qdockvmap.cpp) over one QMap.                                          *)
(*                                                                         *)
(* It offers the interface of the LevelDB store, but has no batch:         *)
(* writeTransaction() walks cacheDeleted and erases its keys one by one,   *)
(* giving up at the first one the map does not hold, and then puts every   *)
(* entry of cache, deleted later in the transaction or not.                *)
(***************************************************************************)
EXTENDS Integers

CONSTANTS Key, Val, Tx, NotFound, Same

KVMapAssumption ==
    /\ NotFound \notin Val
    /\ Same \notin Val \union {NotFound}

VARIABLES
    db,             \* the QMap: NotFound where the map has no such key
    open,           \* the live transaction objects
    cache,          \* QHash cache: Same where the key is not in it
    cacheDeleted,   \* the keys k with cacheDeleted[k] = true
    reply           \* what the last call returned

vars == <<db, open, cache, cacheDeleted, reply>>

NoCache == [k \in Key |-> Same]
Done == [kind |-> "done"]
Failed == [kind |-> "failed"]

Present(d) == {k \in Key : d[k] # NotFound}
Erase(d, K) == [k \in Key |-> IF k \in K THEN NotFound ELSE d[k]]
PutAll(d, c) == [k \in Key |-> IF c[k] # Same THEN c[k] ELSE d[k]]

\* QDocKVMapTransaction::getValue
TxGet(t, k) ==
    IF k \in cacheDeleted[t] THEN NotFound
    ELSE IF cache[t][k] # Same THEN cache[t][k] ELSE db[k]

Init ==
    /\ db = [k \in Key |-> NotFound]
    /\ open = {}
    /\ cache = [t \in Tx |-> NoCache]
    /\ cacheDeleted = [t \in Tx |-> {}]
    /\ reply = Done

-----------------------------------------------------------------------------
Drop(t) ==
    /\ open' = open \ {t}
    /\ cache' = [cache EXCEPT ![t] = NoCache]
    /\ cacheDeleted' = [cacheDeleted EXCEPT ![t] = {}]

NewTransaction(t) ==
    /\ t \notin open
    /\ open' = open \union {t}
    /\ reply' = Done
    /\ UNCHANGED <<db, cache, cacheDeleted>>

TxPutValue(t, k, v) ==
    /\ t \in open
    /\ cache' = [cache EXCEPT ![t][k] = v]
    /\ cacheDeleted' = [cacheDeleted EXCEPT ![t] = @ \ {k}]
    /\ reply' = Done
    /\ UNCHANGED <<db, open>>

TxDeleteValue(t, k) ==
    /\ t \in open
    /\ cacheDeleted' = [cacheDeleted EXCEPT ![t] = @ \union {k}]
    /\ reply' = Done
    /\ UNCHANGED <<db, open, cache>>

TxGetValue(t, k) ==
    /\ t \in open
    /\ reply' = [kind |-> "value", val |-> TxGet(t, k)]
    /\ UNCHANGED <<db, open, cache, cacheDeleted>>

GetValue(k) ==
    /\ reply' = [kind |-> "value", val |-> db[k]]
    /\ UNCHANGED <<db, open, cache, cacheDeleted>>

\* Iterators, of a transaction too, walk the shared map.
Iterate ==
    /\ reply' = [kind |-> "all", val |-> db]
    /\ UNCHANGED <<db, open, cache, cacheDeleted>>

PutValue(k, v) ==
    /\ db' = [db EXCEPT ![k] = v]
    /\ reply' = Done
    /\ UNCHANGED <<open, cache, cacheDeleted>>

DeleteValue(k) ==
    /\ db' = Erase(db, {k})
    /\ reply' = IF k \in Present(db) THEN Done ELSE Failed
    /\ UNCHANGED <<open, cache, cacheDeleted>>

\* Mutant of MapWrite: puts first, then erases and gives up at an absent key.
MapWritePutsFirst(t) ==
    LET d == PutAll(db, cache[t]) IN
    \/ /\ cacheDeleted[t] \subseteq Present(d)
       /\ db' = Erase(d, cacheDeleted[t])
       /\ reply' = Done
    \/ /\ ~(cacheDeleted[t] \subseteq Present(d))
       /\ \E K \in SUBSET (cacheDeleted[t] \intersect Present(d)) : db' = Erase(d, K)
       /\ reply' = Failed

\* The effect of writeTransaction() on the map.  Keys are erased in the order
\* of the hash, which is arbitrary: an absent key may be met after any of the
\* others.
MapWrite(t) ==
    \/ /\ cacheDeleted[t] \subseteq Present(db)
       /\ db' = PutAll(Erase(db, cacheDeleted[t]), cache[t])
       /\ reply' = Done
    \/ /\ ~(cacheDeleted[t] \subseteq Present(db))
       /\ \E K \in SUBSET (cacheDeleted[t] \intersect Present(db)) : db' = Erase(db, K)
       /\ reply' = Failed

\* Every caller drops the transaction after writing it, whatever it returned.
WriteTransaction(t) ==
    /\ t \in open
    /\ MapWrite(t)
    /\ Drop(t)

Discard(t) ==
    /\ t \in open
    /\ Drop(t)
    /\ reply' = Done
    /\ UNCHANGED db

\* The process ends; the map was in its memory.
Reopen ==
    /\ db' = [k \in Key |-> NotFound]
    /\ open' = {}
    /\ cache' = [t \in Tx |-> NoCache]
    /\ cacheDeleted' = [t \in Tx |-> {}]
    /\ reply' = Done

Next ==
    \/ \E t \in Tx : NewTransaction(t) \/ WriteTransaction(t) \/ Discard(t)
    \/ \E t \in Tx, k \in Key : TxGetValue(t, k) \/ TxDeleteValue(t, k)
    \/ \E t \in Tx, k \in Key, v \in Val : TxPutValue(t, k, v)
    \/ \E k \in Key : GetValue(k) \/ DeleteValue(k)
    \/ \E k \in Key, v \in Val : PutValue(k, v)
    \/ Iterate
    \/ Reopen

Spec == Init /\ [][Next]_vars

-----------------------------------------------------------------------------
\* What transaction t reads, key by key: what a write of t should publish.
Seen(t) == [k \in Key |-> TxGet(t, k)]

\* t deletes only keys that are in the map and that it has not put before.
Clean(t) ==
    \A k \in cacheDeleted[t] : k \in Present(db) /\ cache[t][k] = Same

\* Writing a transaction that deletes only keys the map holds, and that it did not put itself,
\* succeeds and publishes exactly what the transaction saw.
CleanWriteIsAtomic ==
    \A t \in Tx : WriteTransaction(t) /\ Clean(t) => db' = Seen(t) /\ reply' = Done

\* A failed writeTransaction() may have erased keys, but only keys the transaction deleted, and it
\* puts nothing.
FailedWriteOnlyErases ==
    \A t \in Tx : WriteTransaction(t) /\ reply' = Failed =>
        \A k \in Key : db'[k] = db[k] \/ (k \in cacheDeleted[t] /\ db'[k] = NotFound)
=============================================================================
