------------------------------ MODULE KVLevelDB ------------------------------
(***************************************************************************)
(* The persistent key-value store: QDocKVLevelDB and                       *)
(* QDocKVLevelDBTransaction (qdockvleveldb.cpp) over one LevelDB database. *)
(*                                                                         *)
(* A transaction object keeps its writes twice: in a leveldb::WriteBatch,  *)
(* which is what writeTransaction() hands to LevelDB, and in the hashes    *)
(* cache and cacheDeleted, which is what its getValue() consults.  Nothing *)
(* ties the two together but the code of putValue() and deleteValue().     *)
(*                                                                         *)
(* A write that LevelDB reports as failed may be in its log all the same.  *)
(* The log is a buffered QFile: a record whose flush failed stays in the   *)
(* buffer and goes out with the next flush or with close(), and nothing    *)
(* keeps LevelDB from accepting the next write (only a failed sync sets    *)
(* bg_error_).  Several failed writes may thus be found again when the     *)
(* database is opened, each beneath the writes acknowledged after it.      *)
(***************************************************************************)
EXTENDS Integers, Sequences

CONSTANTS
    Key, Val, Tx, NotFound, Same,
    MaxBatch,   \* bound on the operations of one transaction
    Holes       \* TRUE: a record may be appended to the log in part only

ASSUME ConstAssumption ==
    /\ NotFound \notin Val
    /\ Same \notin Val \union {NotFound}
    /\ MaxBatch \in Nat
    /\ Holes \in BOOLEAN

VARIABLES
    db,             \* what LevelDB holds: memtable and tables
    open,           \* the live transaction objects
    batch,          \* WriteBatch of each transaction: puts and deletes in order
    cache,          \* QHash cache: Same where the key is not in it
    cacheDeleted,   \* the keys k with cacheDeleted[k] = true
    onDisk,         \* the stores that recovery may find when the database is opened
    torn,           \* the log has a hole: what is appended may not be read again
    bgError,        \* LevelDB's background error: all future writes fail
    reply           \* what the last call returned

vars == <<db, open, batch, cache, cacheDeleted, onDisk, torn, bgError, reply>>

Stored == Val \union {NotFound}
Operation == [key : Key, val : Stored]
NoCache == [k \in Key |-> Same]
Done == [kind |-> "done"]
Failed == [kind |-> "failed"]

-----------------------------------------------------------------------------
\* i is the position of the last operation of batch b on key k.
IsLast(b, k, i) ==
    /\ i \in DOMAIN b
    /\ b[i].key = k
    /\ \A j \in DOMAIN b : b[j].key = k => j <= i

Touches(b, k) == \E i \in DOMAIN b : b[i].key = k

\* LevelDB replays the operations of a batch in order: the last one on a key
\* decides what the key holds.
ApplyBatch(d, b) ==
    [k \in Key |-> IF Touches(b, k) THEN b[CHOOSE i \in DOMAIN b : IsLast(b, k, i)].val
                                    ELSE d[k]]

\* QDocKVLevelDBTransaction::getValue
TxGet(t, k) ==
    IF k \in cacheDeleted[t] THEN NotFound
    ELSE IF cache[t][k] # Same THEN cache[t][k] ELSE db[k]

-----------------------------------------------------------------------------
Init ==
    /\ db = [k \in Key |-> NotFound]
    /\ open = {}
    /\ batch = [t \in Tx |-> <<>>]
    /\ cache = [t \in Tx |-> NoCache]
    /\ cacheDeleted = [t \in Tx |-> {}]
    /\ onDisk = {db}
    /\ torn = FALSE
    /\ bgError = FALSE
    /\ reply = Done

\* The transaction object t goes away with its batch and its hashes.
Drop(t) ==
    /\ open' = open \ {t}
    /\ batch' = [batch EXCEPT ![t] = <<>>]
    /\ cache' = [cache EXCEPT ![t] = NoCache]
    /\ cacheDeleted' = [cacheDeleted EXCEPT ![t] = {}]

NewTransaction(t) ==
    /\ t \notin open
    /\ open' = open \union {t}
    /\ reply' = Done
    /\ UNCHANGED <<db, batch, cache, cacheDeleted, onDisk, torn, bgError>>

\* Mutant of TxPutValue: cacheDeleted[key] keeps an earlier true.
TxPutKeepsDeleted(t, k, v) ==
    /\ t \in open
    /\ Len(batch[t]) < MaxBatch
    /\ batch' = [batch EXCEPT ![t] = Append(@, [key |-> k, val |-> v])]
    /\ cache' = [cache EXCEPT ![t][k] = v]
    /\ reply' = Done
    /\ UNCHANGED <<db, open, cacheDeleted, onDisk, torn, bgError>>

TxPutValue(t, k, v) ==
    /\ t \in open
    /\ Len(batch[t]) < MaxBatch
    /\ batch' = [batch EXCEPT ![t] = Append(@, [key |-> k, val |-> v])]
    /\ cache' = [cache EXCEPT ![t][k] = v]
    /\ cacheDeleted' = [cacheDeleted EXCEPT ![t] = @ \ {k}]
    /\ reply' = Done
    /\ UNCHANGED <<db, open, onDisk, torn, bgError>>

\* The value put earlier stays in cache.
TxDeleteValue(t, k) ==
    /\ t \in open
    /\ Len(batch[t]) < MaxBatch
    /\ batch' = [batch EXCEPT ![t] = Append(@, [key |-> k, val |-> NotFound])]
    /\ cacheDeleted' = [cacheDeleted EXCEPT ![t] = @ \union {k}]
    /\ reply' = Done
    /\ UNCHANGED <<db, open, cache, onDisk, torn, bgError>>

TxGetValue(t, k) ==
    /\ t \in open
    /\ reply' = [kind |-> "value", val |-> TxGet(t, k)]
    /\ UNCHANGED <<db, open, batch, cache, cacheDeleted, onDisk, torn, bgError>>

GetValue(k) ==
    /\ reply' = [kind |-> "value", val |-> db[k]]
    /\ UNCHANGED <<db, open, batch, cache, cacheDeleted, onDisk, torn, bgError>>

\* A full iteration.  A transaction inherits newIterator() from the store, so
\* its iterators do not see its own batch.
Iterate ==
    /\ reply' = [kind |-> "all", val |-> db]
    /\ UNCHANGED <<db, open, batch, cache, cacheDeleted, onDisk, torn, bgError>>

\* The stores recovery may find once the record of batch b is in the log.
Landed(b) == {ApplyBatch(d, b) : d \in onDisk}

\* DB::Write: the record is appended to the log, flushed and synced, then
\* inserted into the memtable.  Behind a hole it may not be found again.
DBWrite(b) ==
    /\ ~bgError
    /\ db' = ApplyBatch(db, b)
    /\ onDisk' = Landed(b) \union (IF torn THEN onDisk ELSE {})
    /\ reply' = Done
    /\ UNCHANGED <<torn, bgError>>

\* Mutant of DBWriteFails: the batch reaches the memtable though the log failed.
DBWriteFailsInserted(b) ==
    /\ ~bgError
    /\ onDisk' = onDisk \union Landed(b)
    /\ db' = ApplyBatch(db, b)
    /\ reply' = Failed
    /\ UNCHANGED <<torn, bgError>>

\* DB::Write fails before it appends (MakeRoomForWrite, bg_error_); or the
\* append or its flush fails, and the record may be found or not, and the store
\* stays open for writing; or the sync fails, and it does not.
DBWriteFails(b) ==
    /\ \/ UNCHANGED <<onDisk, torn, bgError>>
       \/ /\ ~bgError
          /\ onDisk' = onDisk \union Landed(b)
          /\ bgError' \in BOOLEAN
          /\ torn' \in {torn, torn \/ Holes}
    /\ reply' = Failed
    /\ UNCHANGED db

\* Every caller drops the transaction after writing it, whatever it returned.
WriteTransaction(t) ==
    /\ t \in open
    /\ DBWrite(batch[t]) \/ DBWriteFails(batch[t])
    /\ Drop(t)

Discard(t) ==
    /\ t \in open
    /\ Drop(t)
    /\ reply' = Done
    /\ UNCHANGED <<db, onDisk, torn, bgError>>

\* putValue and deleteValue of the store itself: a batch of one operation.
PutValue(k, v) ==
    /\ LET b == <<[key |-> k, val |-> v]>> IN DBWrite(b) \/ DBWriteFails(b)
    /\ UNCHANGED <<open, batch, cache, cacheDeleted>>

DeleteValue(k) ==
    /\ LET b == <<[key |-> k, val |-> NotFound]>> IN DBWrite(b) \/ DBWriteFails(b)
    /\ UNCHANGED <<open, batch, cache, cacheDeleted>>

\* The process ends and the database is opened again: recovery replays the
\* log, in which the records of failed writes may or may not be found.
Reopen ==
    /\ db' \in onDisk
    /\ open' = {}
    /\ batch' = [t \in Tx |-> <<>>]
    /\ cache' = [t \in Tx |-> NoCache]
    /\ cacheDeleted' = [t \in Tx |-> {}]
    /\ onDisk' = {db'}
    /\ torn' = FALSE
    /\ bgError' = FALSE
    /\ reply' = Done

Next ==
    \/ \E t \in Tx : NewTransaction(t) \/ WriteTransaction(t) \/ Discard(t)
    \/ \E t \in Tx, k \in Key : TxGetValue(t, k) \/ TxDeleteValue(t, k)
    \/ \E t \in Tx, k \in Key, v \in Val : TxPutValue(t, k, v)
    \/ \E k \in Key : GetValue(k) \/ DeleteValue(k)
    \/ \E k \in Key, v \in Val : PutValue(k, v)
    \/ Iterate
    \/ Reopen

Spec == Init /\ [][Next]_vars

-----------------------------------------------------------------------------
Reply ==
    {Done, Failed} \union [kind : {"value"}, val : Stored]
                   \union [kind : {"all"}, val : [Key -> Stored]]

\* The state is well typed: every variable of the store and of its
\* transactions stays in its domain.
TypeOK ==
    /\ db \in [Key -> Stored]
    /\ open \subseteq Tx
    /\ batch \in [Tx -> Seq(Operation)]
    /\ cache \in [Tx -> [Key -> Val \union {Same}]]
    /\ cacheDeleted \in [Tx -> SUBSET Key]
    /\ onDisk \in SUBSET [Key -> Stored]
    /\ torn \in BOOLEAN
    /\ bgError \in BOOLEAN
    /\ reply \in Reply

\* What a transaction reads is what the store would hold if the transaction
\* were written now: the hashes that getValue() consults and the batch that
\* writeTransaction() writes never disagree, whatever other transactions
\* commit in between.
ReadYourWrites ==
    \A t \in open, k \in Key : TxGet(t, k) = ApplyBatch(db, batch[t])[k]

\* The overlay a transaction's hashes stand for.
Pending(t) ==
    [k \in Key |-> IF k \in cacheDeleted[t] THEN NotFound ELSE cache[t][k]]

\* The LevelDB store keeps the promises of KVTransactions: overlays, atomic
\* writes, iterators over committed values, and failed writes that reopening
\* publishes as a whole, each in its turn, or drops as a whole.
KV == INSTANCE KVTransactions
        WITH pending <- [t \in Tx |-> Pending(t)],
             readOnly <- bgError
ImplementsKV == KV!Spec
=============================================================================
