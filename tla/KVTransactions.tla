--------------------------- MODULE KVTransactions ---------------------------
(***************************************************************************)
(* What a QDocKVInterface store (qdockvinterface.h) promises the           *)
(* collection built on it.                                                 *)
(*                                                                         *)
(* A store holds committed values.  A transaction is a private overlay of  *)
(* puts and deletes: its reads see the overlay on top of whatever is       *)
(* committed at the moment of the read (there is no read snapshot), its    *)
(* iterators see the committed values only, and writing it publishes the   *)
(* whole overlay in one step or nothing of it.                             *)
(*                                                                         *)
(* A write reported as failed may still be in doubt: reopening the store   *)
(* publishes its overlay as a whole, in its turn among the writes before   *)
(* and after it, or drops it as a whole.  What was acknowledged is never   *)
(* dropped.  The store may refuse every write after a failed one until it  *)
(* is opened again, and it may as well go on.                              *)
(***************************************************************************)

CONSTANTS
    Key,        \* the keys of the store
    Val,        \* the values
    Tx,         \* transaction objects
    NotFound,   \* the answer for a key that has no value
    Same        \* an overlay entry that leaves the committed value alone

VARIABLES
    db,         \* the committed values
    open,       \* the transactions that are open
    pending,    \* the overlay of each transaction
    onDisk,     \* the committed values that reopening may yield
    readOnly,   \* all writes fail until the store is opened again
    reply       \* what the last call returned

vars == <<db, open, pending, onDisk, readOnly, reply>>

Stored == Val \union {NotFound}
NoChange == [k \in Key |-> Same]
Done == [kind |-> "done"]
Failed == [kind |-> "failed"]

\* The committed values c with the overlay o on top.
Over(c, o) == [k \in Key |-> IF o[k] = Same THEN c[k] ELSE o[k]]

\* What reopening may yield once the overlay o is published.
Published(o) == {Over(d, o) : d \in onDisk}

Init ==
    /\ db = [k \in Key |-> NotFound]
    /\ open = {}
    /\ pending = [t \in Tx |-> NoChange]
    /\ onDisk = {db}
    /\ readOnly = FALSE
    /\ reply = Done

-----------------------------------------------------------------------------
Begin(t) ==
    /\ t \notin open
    /\ open' = open \union {t}
    /\ pending' = [pending EXCEPT ![t] = NoChange]
    /\ reply' = Done
    /\ UNCHANGED <<db, onDisk, readOnly>>

\* A put (v in Val) or a delete (v = NotFound) inside a transaction.
Write(t, k, v) ==
    /\ t \in open
    /\ pending' = [pending EXCEPT ![t][k] = v]
    /\ reply' = Done
    /\ UNCHANGED <<db, open, onDisk, readOnly>>

Read(t, k) ==
    /\ t \in open
    /\ reply' = [kind |-> "value", val |-> Over(db, pending[t])[k]]
    /\ UNCHANGED <<db, open, pending, onDisk, readOnly>>

DirectRead(k) ==
    /\ reply' = [kind |-> "value", val |-> db[k]]
    /\ UNCHANGED <<db, open, pending, onDisk, readOnly>>

\* An iteration, begun from the store or from a transaction alike.
Scan ==
    /\ reply' = [kind |-> "all", val |-> db]
    /\ UNCHANGED <<db, open, pending, onDisk, readOnly>>

Commit(t) ==
    /\ t \in open
    /\ ~readOnly
    /\ db' = Over(db, pending[t])
    /\ onDisk' = Published(pending[t])
    /\ open' = open \ {t}
    /\ pending' = [pending EXCEPT ![t] = NoChange]
    /\ reply' = Done
    /\ UNCHANGED readOnly

\* A write of the transaction that is reported as failed: it leaves no trace,
\* or it is in doubt, and may close the store for writing.
CommitFails(t) ==
    /\ t \in open
    /\ \/ UNCHANGED <<onDisk, readOnly>>
       \/ /\ ~readOnly
          /\ onDisk' = onDisk \union Published(pending[t])
          /\ readOnly' \in BOOLEAN
    /\ open' = open \ {t}
    /\ pending' = [pending EXCEPT ![t] = NoChange]
    /\ reply' = Failed
    /\ UNCHANGED db

Abort(t) ==
    /\ t \in open
    /\ open' = open \ {t}
    /\ pending' = [pending EXCEPT ![t] = NoChange]
    /\ reply' = Done
    /\ UNCHANGED <<db, onDisk, readOnly>>

\* A put or a delete outside any transaction.
DirectWrite(k, v) ==
    /\ ~readOnly
    /\ db' = Over(db, [NoChange EXCEPT ![k] = v])
    /\ onDisk' = Published([NoChange EXCEPT ![k] = v])
    /\ reply' = Done
    /\ UNCHANGED <<open, pending, readOnly>>

DirectWriteFails(k, v) ==
    /\ \/ UNCHANGED <<onDisk, readOnly>>
       \/ /\ ~readOnly
          /\ onDisk' = onDisk \union Published([NoChange EXCEPT ![k] = v])
          /\ readOnly' \in BOOLEAN
    /\ reply' = Failed
    /\ UNCHANGED <<db, open, pending>>

\* The process ends, at any moment, and the store is opened again.
Reopen ==
    /\ db' \in onDisk
    /\ open' = {}
    /\ pending' = [t \in Tx |-> NoChange]
    /\ onDisk' = {db'}
    /\ readOnly' = FALSE
    /\ reply' = Done

Next ==
    \/ \E t \in Tx : Begin(t) \/ Commit(t) \/ CommitFails(t) \/ Abort(t)
    \/ \E t \in Tx, k \in Key : Read(t, k) \/ \E v \in Stored : Write(t, k, v)
    \/ \E k \in Key : DirectRead(k)
    \/ \E k \in Key, v \in Stored : DirectWrite(k, v) \/ DirectWriteFails(k, v)
    \/ Scan
    \/ Reopen

Spec == Init /\ [][Next]_vars
=============================================================================
