----------------------------- MODULE Collection -----------------------------
(***************************************************************************)
(* A document collection: QDocCollection, QDocCollectionTransaction and    *)
(* QDocCollectionSnapshot (qdoccollection.cpp), driven by the requests of  *)
(* QDocdbServer::receive (qdocdbserver.cpp).                               *)
(*                                                                         *)
(* The collection keeps in its key-value store                             *)
(*   <<"d", i>>         the start key "d:ID:" of document i                *)
(*   <<"d", i, s>>      the version "d:ID:\xHH" of i written at snapshot s *)
(*   <<"iv", s, v>>     the index entry "iv:NAME:\xHH:VALUE": its link keys*)
(* and two single entries that only committed requests write: the list of  *)
(* snapshot names ("s:"), whose last element is the current state, and     *)
(* whether the field f is indexed ("in:").  What a reader at snapshot s    *)
(* sees of a document is its greatest version at or below s.               *)
(*                                                                         *)
(* A document has an identifier and one field f, which queries, the index  *)
(* and the read-only check look at.  Identifiers are naturals, ordered as  *)
(* the store orders their keys.  No identifier is a prefix of another one, *)
(* and all of them come before "d:", as with generated ones (hexadecimal   *)
(* digits of a timestamp and a counter): a link key that is taken for an   *)
(* identifier is searched behind the last document.                        *)
(***************************************************************************)
EXTENDS Integers, Sequences, FiniteSets, SequencesExt, Maps

CONSTANTS
    MaxId,          \* documents are 1..MaxId
    Val,            \* the values of field f
    Name,           \* the snapshot names clients use
    Tx,             \* transaction objects that clients can hold open
    ObsId,          \* observer numbers
    Query,          \* the queries clients use: All, ById(i), ByField(v)
    Limit,          \* the $limit options clients use, None for no option
    Docs,           \* the document lists clients pass to set
    Overwrite,      \* the overwrite flags clients pass to insert
    Ignore,         \* the ignoreReadOnlyValue flags clients pass
    ReadOnly,       \* the values of f that mark a document as read-only
    Parts,          \* Parts[v] is <<v>>, or the elements when v is an array
    Store,          \* "leveldb" or "map"
    SnapshotIds,    \* how many snapshot ids a key can hold: 256 in the code
    MaxSnapshots,   \* bound on the length of the snapshot list
    Ops,            \* the requests that clients make, and what else happens:
                    \* "reopen", "writefail", and "doubt" for failed writes
                    \* that may be there again after a restart
    Discipline,     \* rules that clients keep: "quiet", no snapshot request
                    \* while a transaction is open; "apart", no transaction
                    \* while there is an observer; "indexFirst", no index is
                    \* created once there is a snapshot or a transaction;
                    \* "fresh", no document is overwritten once there is an index;
                    \* "noTombs", no snapshot is removed while the store
                    \* holds a tombstone; "noGaps", none is removed while an
                    \* indexed document has versions that do not follow on
                    \* one another; "settled", once a request failed nothing
                    \* but documents is written, and nothing at all if it was
                    \* one on snapshots or indexes, before the collection is
                    \* opened again; "reopens", nothing is written before that
    None, Tomb, Start, Current, NoTx

ASSUME ConstAssumption ==
    /\ MaxId \in Nat
    /\ SnapshotIds \in Nat \ {0}
    /\ MaxSnapshots \in Nat
    /\ Current \notin Name
    /\ NoTx \notin Tx
    /\ Tomb \notin Val
    /\ None \notin Val \union 1..MaxId \union Seq((1..MaxId) \X Nat)
    /\ Docs \subseteq Seq([id : 1..MaxId, f : Val])
    /\ \A v \in Val : Parts[v] \in Seq(Val)
    /\ Overwrite \subseteq BOOLEAN

VARIABLES
    db,             \* the committed documents and index entries
    snapshots,      \* the committed list of snapshot names
    indexed,        \* whether the committed index definitions name f
    inDoubt,        \* what else than the committed state a restart may find
    snapshotId,     \* the collection's current snapshot id, an unsigned char
    tx,             \* the transactions that clients hold, None for closed ones
    observers,      \* the observers of the collection
    last            \* the last request and its result

vars == <<db, snapshots, indexed, inDoubt, snapshotId, tx, observers, last>>

Id == 1..MaxId
Sid == 0..(SnapshotIds - 1)
Doc(i, v) == [id |-> i, f |-> v]

StartKey(i) == <<"d", i>>
DocKey(i, s) == <<"d", i, s>>
IvKey(s, v) == <<"iv", s, v>>

\* The queries {}, {"_id": i} and {"f": v}, and checkValidR on them.
All == [kind |-> "all"]
ById(i) == [kind |-> "id", id |-> i]
ByField(v) == [kind |-> "f", f |-> v]
Matches(q, e) ==
    \/ q.kind = "all"
    \/ q.kind = "id" /\ e.id = q.id
    \/ q.kind = "f" /\ q.f \in Range(Parts[e.f])

-----------------------------------------------------------------------------
(* The document iterator, over the committed keys d.                       *)

HasStart(d, i) == StartKey(i) \in DOMAIN d
Versions(d, i) == {s \in Sid : DocKey(i, s) \in DOMAIN d}
UpTo(d, i, s) == {r \in Versions(d, i) : r <= s}

\* Mutant of Value: the newest version, whatever the snapshot.
ValueNewest(d, i, s) ==
    IF ~HasStart(d, i) \/ Versions(d, i) = {} THEN None
    ELSE LET w == d[DocKey(i, Max(Versions(d, i)))] IN IF w = Tomb THEN None ELSE w

\* iterator::value: the greatest version at or below s, None for a tombstone.
Value(d, i, s) ==
    LET upTo == UpTo(d, i, s)
        w == d[DocKey(i, Max(upTo))]
    IN  IF ~HasStart(d, i) \/ upTo = {} \/ w = Tomb THEN None ELSE w

\* The snapshot id and isNaked that iterator::value hands back: the loop stops
\* at version s and otherwise runs through every version of the document.
OutSid(d, i, s) == IF s \in Versions(d, i) THEN s ELSE Max(Versions(d, i))
IsNaked(d, i, s) == s \in Versions(d, i) /\ UpTo(d, i, s) = {s}

\* iterator::seek: the document on which a search for i lands.  LevelDB goes to
\* the first key at or after "d:i:", the map to that key only; a version key
\* without a start key has no value.
Land(d, i) ==
    LET at == IF Store = "map" THEN {i} ELSE {j \in Id : j >= i}
        from == {j \in at : HasStart(d, j) \/ Versions(d, j) # {}}
    IN IF from # {} /\ HasStart(d, Min(from)) THEN Min(from) ELSE None

\* getJsonValue: the value of the document on which the search lands.
GetJsonValue(d, i, s) == IF Land(d, i) = None THEN None ELSE Value(d, Land(d, i), s)

\* iterator::isModifiedLater holds the version in an int, by way of a signed
\* char; getModified.
Signed(s) == IF s >= SnapshotIds \div 2 /\ SnapshotIds > 1 THEN s - SnapshotIds ELSE s
\* Mutant of GetModified: the snapshot right behind s does not count.
GetModifiedLater(d, s) ==
    {i \in Id : HasStart(d, i) /\ \E r \in Versions(d, i) : Signed(r) > s + 1}

GetModified(d, s) ==
    {i \in Id : HasStart(d, i) /\ \E r \in Versions(d, i) : Signed(r) > s}

-----------------------------------------------------------------------------
(* A handle is a collection, a transaction or a snapshot: the snapshot id  *)
(* it works at, the pending writes of its store and its observers.         *)

NoKeys == [k \in {} |-> None]
NewHandle == [sid |-> snapshotId, cache |-> NoKeys, deleted |-> {}, obs |-> observers]

Get(d, h, k) ==
    IF k \in h.deleted THEN None
    ELSE IF k \in DOMAIN h.cache THEN h.cache[k]
    ELSE IF k \in DOMAIN d THEN d[k] ELSE None
Put(h, k, v) == [h EXCEPT !.cache = With(@, k, v), !.deleted = @ \ {k}]
Delete(h, k) == [h EXCEPT !.deleted = @ \union {k}]
PutAll(h, kv) == [h EXCEPT !.cache = Over(kv, @), !.deleted = @ \ DOMAIN kv]
DeleteAll(h, K) == [h EXCEPT !.deleted = @ \union K]

\* applyOptions, for the option $limit.
ApplyOptions(reply, limit) ==
    IF limit = None \/ Len(reply) <= limit THEN reply ELSE SubSeq(reply, 1, limit)

\* The elements of the sequence that are in S, in order.
Only(seq, S) ==
    LET kept[n \in 0..Len(seq)] ==
            IF n = 0 THEN <<>>
            ELSE IF seq[n] \in S THEN Append(kept[n - 1], seq[n]) ELSE kept[n - 1]
    IN kept[Len(seq)]

\* The documents a full search meets, in the order of the store.
Scan(d, s) ==
    LET ids == Only([i \in Id |-> i], {i \in Id : Value(d, i, s) # None})
    IN [n \in DOMAIN ids |-> Doc(ids[n], Value(d, ids[n], s))]
FullSearch(d, s, q) == Only(Scan(d, s), {e \in Range(Scan(d, s)) : Matches(q, e)})

\* getJsonValueByLinkKey and the filter of find over a list of link keys.
Linked(d, h, q, links) ==
    LET read == [n \in DOMAIN links |->
                    Doc(links[n][1], Get(d, h, DocKey(links[n][1], links[n][2])))]
    IN Only(read, {e \in Range(read) : e.f \notin {None, Tomb} /\ Matches(q, e)})

\* QDocCollection::find.  A query on _id or on an indexed field goes through
\* link keys: it reads them in the store as the handle sees it, returns them
\* as ids (byLink) and skips the options.
Find(d, h, q, limit) ==
    CASE q.kind = "id" ->
            [r |-> "success", byLink |-> TRUE, reply |-> Linked(d, h, q, <<<<q.id, h.sid>>>>)]
      [] q.kind = "f" /\ indexed ->
            LET links == Get(d, h, IvKey(h.sid, q.f))
            IN IF links = None
               THEN [r |-> "errorDatabase", byLink |-> TRUE, reply |-> <<>>]
               ELSE [r |-> "success", byLink |-> TRUE, reply |-> Linked(d, h, q, links)]
      [] OTHER ->
            [r |-> "success", byLink |-> FALSE,
             reply |-> ApplyOptions(FullSearch(d, h.sid, q), limit)]

-----------------------------------------------------------------------------
(* The operations of QDocCollectionTransaction, from a handle to a handle  *)
(* and a result.                                                           *)

Result(h, r) == [h |-> h, r |-> r]

AddIndexValue(d, h, v, i) ==
    LET got == Get(d, h, IvKey(h.sid, v))
        links == IF got = None THEN <<>> ELSE got
    IN IF <<i, h.sid>> \in Range(links) THEN h
       ELSE Put(h, IvKey(h.sid, v), Append(links, <<i, h.sid>>))

RemoveIndexValue(d, h, v, link) ==
    LET links == Get(d, h, IvKey(h.sid, v)) IN
    IF links = None THEN Result(h, "errorDatabase")
    ELSE IF link \notin Range(links) THEN Result(h, "success")
    ELSE LET rest == Only(links, Range(links) \ {link})
         IN Result(IF rest = <<>> THEN Delete(h, IvKey(h.sid, v))
                                  ELSE Put(h, IvKey(h.sid, v), rest), "success")

\* The link out of the entries of each of the values, until one fails.
Unlinked(d, h, values, link) ==
    LET after[n \in 0..Len(values)] ==
            IF n = 0 THEN Result(h, "success")
            ELSE IF after[n - 1].r # "success" THEN after[n - 1]
            ELSE RemoveIndexValue(d, after[n - 1].h, values[n], link)
    IN after[Len(values)]

\* What insert and removeById do to the replies of the handle's observers.
At(reply, i) == CHOOSE n \in DOMAIN reply :
                    reply[n].id = i /\ \A m \in 1..(n - 1) : reply[m].id # i
Holds(reply, i) == \E n \in DOMAIN reply : reply[n].id = i
ObserveInsert(o, e, exists) ==
    LET reply == IF ~exists THEN Append(o.reply, e)
                 ELSE IF Holds(o.reply, e.id) THEN [o.reply EXCEPT ![At(o.reply, e.id)] = e]
                 ELSE o.reply
    IN IF Matches(o.q, e) THEN [o EXCEPT !.reply = ApplyOptions(reply, o.limit)] ELSE o

ObserveRemove(o, e) ==
    IF Matches(o.q, e) /\ Holds(o.reply, e.id)
    THEN [o EXCEPT !.reply = ApplyOptions(RemoveAt(@, At(@, e.id)), o.limit)]
    ELSE o

\* Mutant of Insert: the version is written without its start key.
InsertNoStartKey(d, h, i, v, overwrite, ignore) ==
    LET old == GetJsonValue(d, i, h.sid) IN
    IF old # None /\ ~overwrite THEN Result(h, "errorAlreadyExists")
    ELSE Result(Put(h, DocKey(i, h.sid), v), "success")

Insert(d, h, i, v, overwrite, ignore) ==
    LET old == GetJsonValue(d, i, h.sid)
        put == Put(Put(h, StartKey(i), Start), DocKey(i, h.sid), v)
        linked == IF indexed THEN AddIndexValue(d, put, v, i) ELSE put
    IN CASE old # None /\ ~overwrite -> Result(h, "errorAlreadyExists")
         [] old \in ReadOnly /\ overwrite /\ ~ignore -> Result(h, "errorObjectIsReadOnly")
         [] OTHER ->
              Result([linked EXCEPT !.obs = [n \in DOMAIN @ |->
                                                ObserveInsert(@[n], Doc(i, v), old # None)]],
                     "success")

\* The search for i may land on another document j: j is checked and dropped
\* from the observers, the keys of i are written.
RemoveById(d, h, i, ignore) ==
    LET j == Land(d, i)
        v == GetJsonValue(d, i, h.sid)
        out == OutSid(d, j, h.sid)
        gone == IF out # h.sid \/ ~IsNaked(d, j, h.sid)
                THEN Put(h, DocKey(i, h.sid), Tomb)
                ELSE Delete(Delete(h, DocKey(i, h.sid)), StartKey(i))
        unlinked == IF indexed THEN Unlinked(d, gone, Parts[v], <<i, out>>)
                               ELSE Result(gone, "success")
    IN CASE v = None -> Result(h, "errorDatabase")
         [] v \in ReadOnly /\ ~ignore -> Result(h, "errorObjectIsReadOnly")
         [] OTHER ->
              IF unlinked.r # "success" THEN unlinked
              ELSE Result([unlinked.h EXCEPT !.obs = [n \in DOMAIN @ |->
                                                         ObserveRemove(@[n], Doc(j, v))]],
                          "success")

\* removeById for each of the documents a find returned.  A link key is no
\* document id: the search for it ends behind the last document and fails.
RemoveEach(d, acc, found, docs) ==
    LET after[n \in 0..Len(docs)] ==
            IF n = 0 THEN acc
            ELSE IF after[n - 1].r # "success" THEN after[n - 1]
            ELSE RemoveById(d, after[n - 1].h, docs[n].id, FALSE)
    IN IF acc.r # "success" THEN acc
       ELSE IF found.byLink /\ docs # <<>> THEN Result(acc.h, "errorDatabase")
       ELSE after[Len(docs)]

\* QDocCollectionTransaction::remove
RemoveByQuery(d, h, q) ==
    LET found == Find(d, h, q, None)
    IN RemoveEach(d, Result(h, found.r), found, found.reply)

\* insert for each of the documents, until one fails.
InsertEach(d, h, docs) ==
    LET after[n \in 0..Len(docs)] ==
            IF n = 0 THEN Result(h, "success")
            ELSE IF after[n - 1].r # "success" THEN after[n - 1]
            ELSE Insert(d, after[n - 1].h, docs[n].id, docs[n].f, TRUE, FALSE)
    IN after[Len(docs)]

\* QDocCollectionTransaction::set
SetDocs(d, h, q, docs) ==
    LET found == Find(d, h, q, None)
        known == Range(docs) \intersect Range(found.reply)
        matching == {e \in Range(docs) : Matches(q, e)}
        kept == {e.id : e \in known \union matching}
        rest == Only(found.reply, {e \in Range(found.reply) : found.byLink \/ e.id \notin kept})
    IN RemoveEach(d, InsertEach(d, h, Only(docs, matching \ known)), found, rest)

\* createIndex: every link key it writes names the current snapshot.
CreateIndexHandle(d, h) ==
    LET found == Scan(d, h.sid)
        after[n \in 0..Len(found)] ==
            IF n = 0 THEN h ELSE AddIndexValue(d, after[n - 1], found[n].f, found[n].id)
    IN after[Len(found)]

-----------------------------------------------------------------------------
(* Writing a handle.                                                       *)

Request(call, x, r) == [call |-> call, tx |-> x, r |-> r]

\* What the store holds after it wrote the handle: LevelDB applies puts and
\* deletes in order, the map erases first and then puts all it ever put.
Written(d, h) ==
    Over(IF Store = "map" THEN h.cache ELSE Restrict(h.cache, DOMAIN h.cache \ h.deleted),
         Restrict(d, DOMAIN d \ h.deleted))

\* What is committed, and what a restart may find instead once a failed write of
\* h, ss and ix is in the log behind u: only requests on snapshots write the
\* list "s:", only createIndex the definitions "in:".
Committed == [db |-> db, snapshots |-> snapshots, indexed |-> indexed]
Landed(u, h, ss, ix) ==
    [db |-> Written(u.db, h),
     snapshots |-> IF ss = snapshots THEN u.snapshots ELSE ss,
     indexed |-> IF ix = indexed THEN u.indexed ELSE ix]

\* The rules of Discipline on writes behind a failed one.
Settled(ss, ix) ==
    /\ ss = snapshots /\ ix = indexed
    /\ \A u \in inDoubt : u.snapshots = snapshots /\ u.indexed = indexed
MayWrite(ss, ix) ==
    \/ inDoubt = {}
    \/ /\ "reopens" \notin Discipline
       /\ "settled" \in Discipline => Settled(ss, ix)

Erasable(h) == Store = "map" => h.deleted \subseteq DOMAIN db

\* The writes of a handle, with the list of snapshots ss and the index
\* definition ix, reach the store; those in doubt stay beneath them.
StoreWrites(h, ss, ix) ==
    /\ Erasable(h) /\ MayWrite(ss, ix)
    /\ db' = Written(db, h)
    /\ snapshots' = ss
    /\ indexed' = ix
    /\ inDoubt' = {Landed(u, h, ss, ix) : u \in inDoubt}

\* They do not.  LevelDB keeps nothing, or a record that a restart may find,
\* whatever is written behind it; the map has erased some of the keys before it
\* met one that is not there.
StoreFails(h, ss, ix) ==
    /\ \/ /\ Store = "leveldb" /\ "writefail" \in Ops
          /\ \/ UNCHANGED inDoubt
             \/ /\ "doubt" \in Ops /\ MayWrite(ss, ix)
                /\ inDoubt' = inDoubt \union
                                {Landed(u, h, ss, ix) : u \in inDoubt \union {Committed}}
          /\ UNCHANGED db
       \/ /\ Store = "map" /\ ~Erasable(h)
          /\ \E K \in SUBSET (h.deleted \intersect DOMAIN db) : db' = Restrict(db, DOMAIN db \ K)
          /\ UNCHANGED inDoubt
    /\ UNCHANGED <<snapshots, indexed>>

\* The observers after writeTransaction() of the handle: its replies replace
\* those of the collection.  operator[] brings back an observer that ended in
\* the meantime, with the query {} and no options.
Published(h) ==
    [n \in DOMAIN observers \union DOMAIN h.obs |->
        IF n \notin DOMAIN h.obs THEN observers[n]
        ELSE IF n \in DOMAIN observers THEN [observers[n] EXCEPT !.reply = h.obs[n].reply]
        ELSE [q |-> All, limit |-> None, reply |-> h.obs[n].reply]]

\* QDocCollectionTransaction::writeTransaction() and the answer to the client.
WriteHandle(h, request) ==
    \/ /\ StoreWrites(h, snapshots, indexed)
       /\ observers' = Published(h)
       /\ last' = request
    \/ /\ StoreFails(h, snapshots, indexed)
       /\ last' = [request EXCEPT !.r = "errorWriteTransaction"]
       /\ UNCHANGED observers

\* The object a request works on: its transaction's, or a new one.
HandleOf(x) == IF x = NoTx THEN NewHandle ELSE tx[x]

\* res is what the operation made of the handle of x.  A request on an open
\* transaction keeps the handle; one without a transaction writes it, even when
\* the operation failed.
Perform(x, call, res) ==
    /\ UNCHANGED snapshotId
    /\ \/ /\ x = NoTx
          /\ WriteHandle(res.h, Request(call, x, res.r))
          /\ UNCHANGED tx
       \/ /\ x # NoTx /\ tx[x] # None
          /\ tx' = [tx EXCEPT ![x] = res.h]
          /\ last' = Request(call, x, res.r)
          /\ UNCHANGED <<db, snapshots, indexed, inDoubt, observers>>

\* Mutant of MoveTo: the collection moves whether the write worked or not.
MoveToAnyway(call, h, ss, ix, sid, obs) ==
    /\ StoreWrites(h, ss, ix) \/ StoreFails(h, ss, ix)
    /\ snapshotId' = sid
    /\ observers' = obs
    /\ last' = Request(call, NoTx, "success")
    /\ UNCHANGED tx

\* A request on snapshots or on the index writes the handle h, the list ss and
\* the index definition ix; when that works the collection is at snapshot sid
\* and has the observers obs.
MoveTo(call, h, ss, ix, sid, obs) ==
    /\ \/ /\ StoreWrites(h, ss, ix)
          /\ snapshotId' = sid
          /\ observers' = obs
          /\ last' = Request(call, NoTx, "success")
       \/ /\ StoreFails(h, ss, ix)
          /\ last' = Request(call, NoTx, "errorWriteTransaction")
          /\ UNCHANGED <<snapshotId, observers>>
    /\ UNCHANGED tx

-----------------------------------------------------------------------------
NoneOpen == \A t \in Tx : tx[t] = None
MayMove == "quiet" \in Discipline => NoneOpen
HasGap(i) == \E r, s \in Versions(db, i) \ {0} : r < s /\ r + 1 \notin Versions(db, i)
MayRemove ==
    /\ MayMove
    /\ "noTombs" \in Discipline => \A k \in DOMAIN db : db[k] # Tomb
    /\ "noGaps" \in Discipline /\ indexed => \A i \in Id : ~HasGap(i)
MayOpen == "apart" \in Discipline => observers = [o \in {} |-> None]
MayObserve == "apart" \in Discipline => NoneOpen
MayOverwrite == "fresh" \in Discipline => ~indexed
MayIndex == "indexFirst" \in Discipline => NoneOpen /\ snapshots = <<Current>>

Init ==
    /\ db = NoKeys
    /\ snapshots = <<Current>>
    /\ indexed = FALSE
    /\ inDoubt = {}
    /\ snapshotId = 0
    /\ tx = [t \in Tx |-> None]
    /\ observers = [o \in {} |-> None]
    /\ last = Request(<<"open">>, NoTx, "success")

(* The requests on documents. *)

InsertRequest(x, i, v, overwrite, ignore) ==
    /\ "insert" \in Ops /\ (overwrite => MayOverwrite)
    /\ Perform(x, <<"insert", i, v, ignore>>, Insert(db, HandleOf(x), i, v, overwrite, ignore))

RemoveRequest(x, q) ==
    /\ "remove" \in Ops
    /\ Perform(x, <<"remove", q>>, RemoveByQuery(db, HandleOf(x), q))

RemoveIdRequest(x, i, ignore) ==
    /\ "removeId" \in Ops
    /\ Perform(x, <<"removeId", i, ignore>>, RemoveById(db, HandleOf(x), i, ignore))

SetRequest(x, q, docs) ==
    /\ "set" \in Ops /\ MayOverwrite
    /\ Perform(x, <<"set", q, docs>>, SetDocs(db, HandleOf(x), q, docs))

CreateIndexRequest ==
    /\ "createIndex" \in Ops /\ MayIndex
    /\ MoveTo(<<"createIndex">>, IF indexed THEN NewHandle ELSE CreateIndexHandle(db, NewHandle),
              snapshots, TRUE, snapshotId, observers)

(* The requests on transactions. *)

NewTransaction(t) ==
    /\ "transactions" \in Ops /\ MayOpen
    /\ tx[t] = None
    /\ tx' = [tx EXCEPT ![t] = NewHandle]
    /\ last' = Request(<<"newTransaction">>, t, "success")
    /\ UNCHANGED <<db, snapshots, indexed, inDoubt, snapshotId, observers>>

WriteTransaction(t) ==
    /\ tx[t] # None
    /\ WriteHandle(tx[t], Request(<<"writeTransaction">>, t, "success"))
    /\ tx' = [tx EXCEPT ![t] = None]
    /\ UNCHANGED snapshotId

DiscardTransaction(t) ==
    /\ tx[t] # None
    /\ tx' = [tx EXCEPT ![t] = None]
    /\ last' = Request(<<"discardTransaction">>, t, "success")
    /\ UNCHANGED <<db, snapshots, indexed, inDoubt, snapshotId, observers>>

(* The requests on snapshots. *)

\* getSnapshotId: the position in the list, from 0, cut to a byte.
SidOf(ss, n) ==
    ((CHOOSE k \in DOMAIN ss : ss[k] = n /\ \A m \in 1..(k - 1) : ss[m] # n) - 1) % SnapshotIds

Refuse(call, r) ==
    /\ last' = Request(call, NoTx, r)
    /\ UNCHANGED <<db, snapshots, indexed, inDoubt, snapshotId, tx, observers>>

\* Mutant of Reloaded: the observers are not asked again.
ReloadedNot(d, s) == observers

\* reloadObservers, on the keys d at snapshot s.
Reloaded(d, s) ==
    [n \in DOMAIN observers |->
        [observers[n] EXCEPT !.reply =
            Find(d, [NewHandle EXCEPT !.sid = s], observers[n].q, None).reply]]

\* Mutant of CopyIndexValues: the new snapshot starts with an empty index.
CopyIndexValuesNot(d, h, r, s) == h

\* copyIndexValues from snapshot s to snapshot r.
CopyIndexValues(d, h, r, s) ==
    LET from == {k \in DOMAIN d : k[1] = "iv" /\ k[2] = s}
    IN PutAll(h, [k \in {IvKey(r, k[3]) : k \in from} |-> d[IvKey(s, k[3])]])

NewSnapshot(n) ==
    LET next == (snapshotId + 1) % SnapshotIds IN
    /\ "newSnapshot" \in Ops /\ MayMove
    /\ \/ /\ n \in Range(snapshots)
          /\ Refuse(<<"newSnapshot", n>>, "errorSnapshotIsExists")
       \/ /\ n \notin Range(snapshots)
          /\ Len(snapshots) < MaxSnapshots
          /\ MoveTo(<<"newSnapshot", n>>, CopyIndexValues(db, NewHandle, next, snapshotId),
                    Append(Front(snapshots), n) \o <<Current>>, indexed, next, observers)

\* The scans of revertToSnapshot and removeSnapshot take a version key to
\* belong to the start key they met last: Group(d, i) is what they count to i.
Owner(d, j) == Max({0} \union {i \in 1..j : HasStart(d, i)})
Group(d, i) == {c \in Id \X Sid : c[2] \in Versions(d, c[1]) /\ Owner(d, c[1]) = i}
VersionKeys(C) == {DocKey(c[1], c[2]) : c \in C}

\* The keys revertToSnapshot deletes: versions and index entries of the
\* snapshots behind k, and start keys that keep no version.
RevertHandle(d, k) ==
    LET later == {n % SnapshotIds : n \in (k + 1)..(Len(snapshots) - 1)}
        gone == {c \in Id \X Sid : c[2] \in Versions(d, c[1]) /\ c[2] \in later}
        bare == {i \in Id : HasStart(d, i) /\ Group(d, i) \subseteq gone}
    IN DeleteAll(NewHandle, VersionKeys(gone) \union {StartKey(i) : i \in bare}
                            \union {x \in DOMAIN d : x[1] = "iv" /\ x[2] \in later})

RevertToSnapshot(n) ==
    /\ "revert" \in Ops /\ MayMove
    /\ \/ /\ n \notin Range(snapshots)
          /\ Refuse(<<"revert", n>>, "errorInvalidObject")
       \/ /\ n \in Range(snapshots)
          /\ LET k == SidOf(snapshots, n)
                 h == RevertHandle(db, k)
             IN MoveTo(<<"revert", n>>, h, Append(SubSeq(snapshots, 1, k), Current), indexed, k,
                       Reloaded(Written(db, h), k))

\* removeSnapshot moves every version behind k one snapshot down.  A tombstone
\* deletes the version below it, the last key of a group is deleted, and the
\* start key goes when the group's keys behind k end with a tombstone for k+1.
\* A version that no later one of its group follows directly stays as a second
\* copy of the one below it, unless it is the last.
ShiftDocuments(d, h, k) ==
    LET above == {c \in Id \X Sid : c[2] \in Versions(d, c[1]) /\ c[2] > k}
        tombs == {c \in above : d[DocKey(c[1], c[2])] = Tomb}
        after(c, e) == c[1] < e[1] \/ (c[1] = e[1] /\ c[2] < e[2])
        lasts == {c \in above : \A e \in above :
                     after(c, e) => Owner(d, e[1]) # Owner(d, c[1])}
        bare == {i \in Id : HasStart(d, i) /\ \E c \in tombs \intersect Group(d, i) :
                     c[2] = k + 1 /\ \A e \in (above \ tombs) \intersect Group(d, i) : ~after(c, e)}
        moved == [x \in {DocKey(c[1], c[2] - 1) : c \in above \ tombs} |->
                     d[DocKey(x[2], x[3] + 1)]]
        dropped == {DocKey(c[1], c[2] - 1) : c \in tombs}
    IN DeleteAll(PutAll(h, moved), dropped \union VersionKeys(lasts) \union {StartKey(i) : i \in bare})

\* The same for the index entries; a link key behind k moves down with them.
ShiftIndex(d, h, k) ==
    LET entries == {x \in DOMAIN d : x[1] = "iv" /\ x[2] >= k}
        down(l) == IF l[2] > k THEN <<l[1], l[2] - 1>> ELSE l
        moved == [x \in {IvKey(x[2] - 1, x[3]) : x \in {y \in entries : y[2] > k}} |->
                     LET links == d[IvKey(x[2] + 1, x[3])] IN [n \in DOMAIN links |-> down(links[n])]]
    IN PutAll(DeleteAll(h, entries), moved)

\* With an index and 256 snapshots the byte counter of the loop never ends.
RemoveSnapshot(n) ==
    /\ "removeSnapshot" \in Ops /\ MayRemove
    /\ \/ /\ n \notin Range(snapshots)
          /\ Refuse(<<"removeSnapshot", n>>, "errorInvalidObject")
       \/ /\ n \in Range(snapshots)
          /\ ~(indexed /\ Len(snapshots) >= SnapshotIds)
          /\ LET k == SidOf(snapshots, n)
                 h == ShiftIndex(db, ShiftDocuments(db, NewHandle, k), k)
                 sid == (snapshotId - 1) % SnapshotIds
             IN MoveTo(<<"removeSnapshot", n>>, h, RemoveAt(snapshots, k + 1), indexed, sid,
                       Reloaded(Written(db, h), sid))

(* Observers. *)

\* The number is the preferred one or the next of a counter, which may be in
\* use: then the observer is replaced.
Observe(o, q, limit) ==
    /\ "observe" \in Ops /\ MayObserve
    /\ observers' = With(observers, o,
                        [q |-> q, limit |-> limit, reply |-> Find(db, NewHandle, q, limit).reply])
    /\ last' = Request(<<"observe", o>>, NoTx, "success")
    /\ UNCHANGED <<db, snapshots, indexed, inDoubt, snapshotId, tx>>

Unobserve(o) ==
    /\ o \in DOMAIN observers
    /\ observers' = Restrict(observers, DOMAIN observers \ {o})
    /\ last' = Request(<<"unobserve", o>>, NoTx, "success")
    /\ UNCHANGED <<db, snapshots, indexed, inDoubt, snapshotId, tx>>

\* The server process ends, at any moment, and opens the collection again.
Reopen ==
    /\ "reopen" \in Ops
    /\ \/ /\ Store = "leveldb"
          /\ \E u \in {Committed} \union inDoubt :
                /\ db' = u.db
                /\ snapshots' = u.snapshots
                /\ indexed' = u.indexed
                /\ snapshotId' = (Len(u.snapshots) - 1) % SnapshotIds
       \/ /\ Store = "map"
          /\ db' = NoKeys
          /\ snapshots' = <<Current>>
          /\ indexed' = FALSE
          /\ snapshotId' = 0
    /\ inDoubt' = {}
    /\ tx' = [t \in Tx |-> None]
    /\ observers' = [o \in {} |-> None]
    /\ last' = Request(<<"open">>, NoTx, "success")

Next ==
    \/ \E x \in Tx \union {NoTx} :
        \/ \E i \in Id, ignore \in Ignore :
            \/ \E v \in Val, overwrite \in Overwrite : InsertRequest(x, i, v, overwrite, ignore)
            \/ RemoveIdRequest(x, i, ignore)
        \/ \E q \in Query : RemoveRequest(x, q) \/ \E docs \in Docs : SetRequest(x, q, docs)
    \/ CreateIndexRequest
    \/ \E t \in Tx : NewTransaction(t) \/ WriteTransaction(t) \/ DiscardTransaction(t)
    \/ \E n \in Name : NewSnapshot(n) \/ RevertToSnapshot(n) \/ RemoveSnapshot(n)
    \/ \E o \in ObsId : Unobserve(o) \/ \E q \in Query, limit \in Limit : Observe(o, q, limit)
    \/ Reopen

Spec == Init /\ [][Next]_vars

-----------------------------------------------------------------------------
(* Properties.                                                             *)

\* What a reader at snapshot id s sees, and the copy that a snapshot is.
View(d, s) == [i \in Id |-> Value(d, i, s)]
Names(ss) == Range(ss) \ {Current}

\* A list of snapshots ends with the current state and names no snapshot twice.
SnapshotListOK(ss) ==
    /\ ss # <<>> /\ ss[Len(ss)] = Current
    /\ \A m, n \in DOMAIN ss : ss[m] = ss[n] => m = n

\* The collection object and the stored list of snapshots agree, whatever
\* requests on snapshots failed, were refused or reappeared when the store was
\* reopened: snapshotId is the position of the current state in a well formed
\* list, cut to a byte (newSnapshot, revertToSnapshot, removeSnapshot and the
\* constructor of QDocCollection each keep the two in step by themselves).
SnapshotsOK ==
    /\ SnapshotListOK(snapshots)
    /\ snapshotId = (Len(snapshots) - 1) % SnapshotIds

\* Snapshots are read-only (README: "Read-only snapshots"): whatever is done to
\* the collection, a snapshot that is there before and after a step shows the
\* same documents, though removeSnapshot renumbers the versions behind it.
SnapshotsReadOnly ==
    [][\A n \in Names(snapshots) \intersect Names(snapshots') :
          View(db', SidOf(snapshots', n)) = View(db, SidOf(snapshots, n))]_vars

\* No document is lost to the iterator: a version that holds a document has the
\* start key from which every search begins (putJsonValue, removeById and
\* revertToSnapshot write the two kinds of keys separately).
NoLostDocument ==
    \A i \in Id : ~HasStart(db, i) => \A s \in Versions(db, i) : db[DocKey(i, s)] = Tomb

\* getModified of a snapshot names every document that the current state shows
\* differently from that snapshot.
ModifiedComplete ==
    \A n \in Names(snapshots) : \A i \in Id :
        LET s == SidOf(snapshots, n) IN
        Value(db, i, s) # Value(db, i, snapshotId) => i \in GetModified(db, s)

\* A find through link keys, by _id or by an index, answers with the documents
\* that a full search finds.
FindsAgree ==
    \A q \in Query :
        Range(Find(db, NewHandle, q, None).reply) = Range(FullSearch(db, snapshotId, q))

\* An observer holds the current answer to its query (README: "Result of query
\* is observable"): documents that match and are there, as many of them as the
\* $limit allows.
ObserversCurrent ==
    \A o \in DOMAIN observers :
        LET now == FullSearch(db, snapshotId, observers[o].q)
            reply == observers[o].reply
        IN /\ Range(reply) \subseteq Range(now)
           /\ Len(reply) = Len(ApplyOptions(now, observers[o].limit))

\* Seen one request at a time the collection is a DocumentStore.
Copies(d, ss) ==
    [k \in 1..(Len(ss) - 1) |-> [name |-> ss[k], docs |-> View(d, (k - 1) % SnapshotIds)]]
Abstract == INSTANCE DocumentStore WITH
    current <- View(db, snapshotId),
    saved <- Copies(db, snapshots),
    maybe <- {[current |-> View(u.db, (Len(u.snapshots) - 1) % SnapshotIds),
               saved |-> Copies(u.db, u.snapshots)] : u \in inDoubt},
    answer <- [call |-> last.call, ok |-> last.r = "success"]

\* Versions, start keys, tombstones, the index and the byte arithmetic on
\* snapshot ids add up to plain saved copies: the collection implements
\* DocumentStore, failing and in-doubt writes and reopening included.
ImplementsDocumentStore == Abstract!Spec
=============================================================================
