# A verification project for qdocdb

qdocdb is an embedded JSON document database for Qt/QML: documents live in
collections, a collection lives in a key-value store (LevelDB on disk or a QMap
in memory), a server object serves collections to clients over a local socket,
and QML connectors sit on the clients.  This directory holds TLA+ modules that
model it, TLC configurations that check them on small instances, and proofs
checked by TLAPS.  Paths below are relative to `src/qdocdb/`; `PROJECT.json`
maps every definition to the lines it models.

## 1. Inventory

### Components, state and operations

| component | source | state | operations |
|---|---|---|---|
| key-value interface | `qdockvinterface.h` | none | getValue, putValue, deleteValue, newTransaction, newIterator, writeTransaction |
| LevelDB store | `qdockvleveldb.cpp`, vendored LevelDB | the database; per transaction a `WriteBatch` and the hashes `cache`, `cacheDeleted` | the same; open and close through the registry `dbMap` |
| in-memory store | `qdockvmap.cpp` | a `QMap`; per transaction the two hashes | the same |
| collection | `qdoccollection.cpp` | the keys `d:ID:`, `d:ID:\xHH`, `in:`, `iv:NAME:\xHH:VALUE` and `s:` of its store; `snapshotId` | find, insert, remove, removeById, set, getModified, newTransaction, writeTransaction, newSnapshot, getSnapshot, revertToSnapshot, removeSnapshot |
| indexes | `qdoccollection.cpp` | `in:` and `iv:` keys | createIndex; kept up by insert, removeById and the snapshot operations |
| observers | `qdoccollection.cpp` | a query, its options and the last reply per observer, a copy of all of them in every transaction | observe, unobserve, reloadObservers; replies kept up by insert, removeById and writeTransaction |
| query evaluation | `checkValidR`, `applyOptions`, `qdocutils.cpp` | none | matching, ordering, comparing, `$limit` |
| serialization | `qdocutils.cpp` | none | marshal, unmarshal |
| database | `qdocdatabase.cpp` | the open collections of a directory | open, collection |
| server | `qdocdbserver.cpp` | databases, transactions, observers and locks with their clients | one case of `receive()` per request, `clientRemoved` |
| link | `qdocdblinkbase.cpp` | receive buffer, requests that wait for an unlock | framing, `onUnlocked`, `waitForDone` |
| client | `qdocdbclient.cpp` | replies by request number, subscribers, observers to renew, connection | requests with a 10 s timeout, reconnect |
| connector | `qdocdbconnector.cpp` | shared clients with use counts, the observed query | QML properties and methods |
| LevelDB, threads | `db/db_impl.cc` | memtables, log, versions, writer queue, one background thread | Write, Get, CompactRange, snapshots, close |
| LevelDB, files | `db/db_impl.cc`, `db/version_set.cc`, `db/repair.cc`, `util/env_qt.cc` | CURRENT, manifests, logs, tables | Open, LogAndApply, DeleteObsoleteFiles, RepairDB |
| LevelDB, levels | `db/version_set.cc` | the tables of each level, compact pointers | picking, running and installing compactions, Version::Get |
| LevelDB, structures | `db/skiplist.h`, `db/memtable.cc`, `db/log_*.cc`, `table/*.cc`, `db/db_iter.cc`, `util/cache.cc` | skip list, log file, blocks, iterators, caches | insert and search, append and read, build and seek, move, look up and release |

### How they interact

A connector calls its client, which sends a request over the link and runs an
event loop until the reply, a timeout or the loss of the connection.  The
server's `receive()` runs to completion in one thread: **a request is atomic, and
what interleaves is requests**.  A transaction lives over many requests of one
client while the requests of others, with or without transactions of their own,
take effect.  A transaction reads through to the committed store, except that
iterators, and so every search for a document, see the committed keys only.
Replies of observers flow back through queued signals.

Below the store, LevelDB (in `leveldb/leveldb/`, with an environment written for
Qt) has threads of its own: the server thread writes and reads, one background
thread flushes and compacts.  They share one mutex, which they release around
every long piece of work.

### What is hard

* interleaved transactions against a collection whose snapshot id moves;
* read-modify-write of index lists and observer replies without a lock;
* stores whose write fails, half way (in memory) or with an outcome that is
  known only after a restart (LevelDB);
* a document spread over a start key and one version per snapshot, rewritten
  key by key when snapshots are reverted or removed;
* byte arithmetic on snapshot ids;
* requests that take effect in part and are written all the same;
* above the collection: timeouts against late replies, calls nested in each
  other's event loops, reconnecting, locks whose owner goes away, replies to
  observers that have ended;
* below it: memtables, logs and tables that are handed over between threads, a
  crash between any two changes of files, searches without a lock, compactions
  that must neither lose nor uncover an entry.

`PROJECT.json` lists each hazard at its line with the properties that cover it.

### What makes each component correct

* stores: a transaction reads its own writes; a write is all or nothing, also
  across a restart; other transactions do not see it before;
* collection: what a reader sees is what plain saved copies would show; snapshots
  never change; no document becomes unreachable; counter and list agree;
  getModified misses nothing; read-only documents stay; a failed request changes
  nothing or a known part;
* indexes: a search through an index answers like a full search;
* observers: a reply is the current answer to its query;
* queries: a search answers with the documents that satisfy the query, whichever
  way it takes;
* server, link, client: every request is answered, waiting requests proceed when
  the lock is free, a call returns with its own reply, observers get their own
  data and end up with the current answer;
* LevelDB: what was written is read, at every snapshot, from memtables and every
  level; nothing in use is freed; what was acknowledged is there after a crash;
  every call returns.

## 2. Modules

| module | models |
|---|---|
| `KVTransactions` | abstract: a store with transactions, overlay reads, all-or-nothing commits, failed commits that stay in doubt, beneath later ones, until the store is opened again |
| `KVLevelDB` | `qdockvleveldb.cpp` on the parts of LevelDB it relies on; shown to implement `KVTransactions` |
| `KVMap` | `qdockvmap.cpp` |
| `DocumentStore` | abstract: current documents, saved copies, requests that succeed or fail as a whole |
| `Collection` | `qdoccollection.cpp` and the cases of `QDocdbServer::receive` that act on a collection, over either store; shown to implement `DocumentStore` |
| `Link` | framing of messages in one direction of a connection |
| `Query` | find, checkValidR, applyOptions and what they use of `qdocutils.cpp` |
| `Server` | `qdocdbserver.cpp`, the waiting requests of `qdocdblinkbase.cpp`, `qdocdatabase.cpp` |
| `Client` | `qdocdbclient.cpp`, the observing part of `qdocdbconnector.cpp`, `waitForDone`; the server as its environment |
| `Engine` | the threads of one open LevelDB |
| `Recovery` | the files of a LevelDB database, crashes, Open and RepairDB |
| `Tree` | levels, compactions, reads through the levels |
| `Iterators` | DBIter over MergingIterator over TwoLevelIterator |
| `MemTable`, `LogFile`, `Table`, `Cache` | skip list, log format, table files, LRU caches with reference counts |
| `Maps` | maps as functions, with a key entered or taken away |
| `KVLevelDBProofs`, `CollectionProofs`, `ServerProofs`, `ClientProofs`, `EngineProofs`, `RecoveryProofs` | theorems about the module of the same name, and their proofs |
| `CollectionStoreProofs` | theorems about the index of `Collection` and its refinement of `DocumentStore`, over those of `CollectionProofs` |
| `Lemmas` | lemmas on sequences, maps and least and largest numbers that these proofs share |
| `MC...` | instances for TLC; `MCStructures` instantiates `KVMap`, `Query`, `Link`, `MemTable`, `LogFile`, `Cache`, `Table` and `Iterators` side by side, a behaviour being one of any of them |

How they fit together: `Server` and `Client` meet at the connection, where each
has the other as its environment (`Client` takes a server that answers in order
and sends data to observers; `Server` takes clients that send any request, give
locks back and, unless they hold one, go away at any moment).  `Server` leaves the content of a
collection to `Collection`, which stands on what `KVLevelDB` and `KVMap` offer.
`KVLevelDB` takes LevelDB as a map with atomic batches, syncs that may fail and
restarts; `Engine`, `Recovery` and `Tree` split the reasons for that among
threads, files and levels, and leave the skip list, logs, tables, iterators and
caches to the modules of their own.

### KVLevelDB and KVMap

One variable per piece of state (`db`, per transaction `batch`, `cache`,
`cacheDeleted`), one action per method.  In `KVLevelDB` the batch keeps the order
of operations and is replayed by `ApplyBatch`.  `onDisk` holds every store that
recovery may find.  A write may fail before it is appended (nothing happens); or at
the append or its flush: the record then stays in the buffer of the QFile and goes
out with the next flush or with close() (`log_writer.cc:91`, `env_qt.cc:148`), or is
lost, and no error is kept (`db_impl.cc:1192`), so the store takes later writes and
the failed one may be found beneath them when it is opened again, and more than one
may; or at the sync, after which LevelDB refuses every write (`bgError`).  A constant,
`Holes`, lets the record reach the log in part: what is appended behind such a hole
may not be read again (`torn`).  In `KVMap` writeTransaction erases key by key, in an order the
hash decides, and stops at the first key the map does not hold.
`MaxBatch` bounds the operations of a transaction.

### Collection

A handle (`[sid, cache, deleted, obs]`) stands for a collection or transaction
object: the snapshot id it works at, its pending writes and its copy of the
observers.  The operations of `QDocCollectionTransaction` are operators from a
handle to a handle and a result (`Insert`, `RemoveById`, `RemoveByQuery`,
`SetDocs`, ...).  The actions are the server's requests.  `Perform` is the frame
that insert, remove, removeId and set share: on an open transaction the handle
changes; without one a fresh handle is made and written at once, also when the
operation failed, as the code does.  `MoveTo` is the frame of createIndex and of
the three snapshot requests.  `StoreWrites` and `StoreFails` are writeTransaction
of the store:

* LevelDB: everything, or nothing, or nothing until `Reopen` finds it in the log.
  `inDoubt` holds the stores that a restart may find besides the one in use: a
  failed write adds one to each (`Landed`), a write that works goes on top of all;
* map: everything, or some of the deletions.

Searches see the committed keys (`Value`, `Land`, `Scan`), reads by key see the
pending writes (`Get`).  `Land` is the seek of the store: LevelDB goes to the
next greater key, the map to the key itself.

Abstractions:

* documents have one field; queries are `{}`, `{"_id": i}` and `{f: v}`; `$limit`
  is the only option (module `Query` has the rest);
* ids are naturals in the order of the store; client and generator choose any of
  them.  No id is a prefix of another;
* one index.  Its empty entry `iv:NAME:\xHH:`, which nothing reads, is left out;
* the number of an observer is any number, free or in use;
* reads of the store do not fail, and the write of the empty list of snapshots
  at the first opening succeeds;
* a request with an unknown transaction number or snapshot name `__CURRENT`
  changes nothing and is left out.

Bounds: `MaxId`, `Val`, `Name`, `Tx`, `MaxSnapshots` (length of the list), and
`SnapshotIds`, which is 256 in the code.  `Ops` says which requests a run makes,
`Discipline` which rules its clients keep, so that a run can say under which use
a property holds: `quiet`, no snapshot request while a transaction is open;
`apart`, no transaction while there is an observer; `indexFirst`, indexes are
created before snapshots and transactions; `fresh`, no document is overwritten
once there is an index; `noTombs`, no snapshot is removed while the store holds a
tombstone; `noGaps`, none is removed while an indexed document has versions that do
not follow on one another; `settled`, behind a failed request on documents nothing
but documents is written, and behind one on snapshots or indexes nothing, until the
collection is opened again; `reopens`, nothing is written behind any failed request
before that.  The code enforces none of them; without each one the
properties it guards fail (section 4).

### DocumentStore

`Abstract` in `Collection` maps the keys to a function from documents to values
and a sequence of named copies.  A request succeeds as a whole or fails without
effect, except that remove and set may stop half way at a read-only document,
and that a failed write may turn up when the store is opened again (`maybe`; its
clients keep `reopens`, so there is one at most).

### Query

A JSON value is a pair of type and content, a query the sequence of its entries
in the order of their keys, since errors and the early ends of `$or` and `$and`
depend on it.  `CheckValidR` and `CheckEntry` follow the code; `Satisfies` states
the operators without loops, errors and early returns.  `find` is a small state
machine: the keys to look at (`FirstKeys`), one document per step (`Visit`), one
comparison of the bubble sort per step, the limit.  `MultiplyFrom` follows the
iterator that `QList::erase` invalidates: QList moves the shorter side, so the
iterator stands before the next element, on it, or past the end
("undefined").

### Link

Bytes are named by message and place.  `Arrive` is the socket handing over any
portion, `readyRead` one round of the handler's loop, `disconnected` the end of a
link with all it had read.  The modules above it take messages as whole.

### Server

One action per handler: `Receive` handles the next request of a socket, the event
loop picks among sockets, lost connections (`ClientRemoved`) and queued signals
(`OnUnlocked`, `ObserveQueryChanged`) in any order.  A request takes effect and
is answered, or is put off in `unlockWait` because another client holds its
database; `unlock` queues `OnUnlocked` for each link with waiting requests, which
hands them to `Receive` again one by one (`draining`).  Numbers of transactions
(`transactionId`, wrapping at `MaxNumber`) and of observers (`nextNumber`) are
handed out as in the code.  Documents are left out.  A client that holds a lock
stays (`Vanish = FALSE`).

### Client

The stack `calls` holds the calls whose event loop runs, innermost last: a reply,
a timeout or a lost link ends the loop of any of them, but only the innermost can
return.  Each step of a call that follows an event loop is an action
(`ReturnObserve`, `ReturnReobserve`, ...), so everything read before the loop and
used after it is in the state.  `ObserveDataProcess` is the queued slot that
handles data of observers, `OnConnectTimer` the reconnect.  The server in the
module answers in order, sends data at once and after every operation, and loses
its observers with the connection; documents are a counter.

### Engine

One action is what a thread does while it holds the mutex once, or one piece of
work with the mutex released.  Threads sleep on their own condition variable or on
`bg_cv_` (`waits`).  Memtables, versions and files have the references and deletion
rules of the code, so that `NothingFreed` can be broken.  An entry is its sequence
number and key; all tables overlap, so a compaction takes all tables of two levels.
Plans say how many calls of which kind a course makes and which calls of the
environment fail.  A record whose append fails is lost or found in the log all the same,
and later writes are accepted.

### Recovery

Open and RepairDB are sequences of steps (`pc`), each changing one file; `Crash`
may come between any two.  What was handed to the system stays: `QtWritableFile::
Sync` only flushes.  Writing, flushing, compacting and deleting obsolete files of
the open database are actions that interleave with crashes.  Calls of the
environment fail where the plan says; that a log cannot be opened is no error to
Recover, which passes it over (`LogNotOpened`), and the plans that are checked let this
happen to a log without records only.

### Tree

Whole entries in tables in levels, with the code's choice of files: by size, by
seeks or by hand, with `SetupOtherInputs` and its expansion, trivial moves,
`IsBaseLevelForKey`, `ShouldStopBefore` and snapshots in the drop rule, and
`PickLevelForMemTableOutput`.  Output is computed when a compaction is installed;
flushes, snapshots and seeks come in between.

### Iterators, MemTable, LogFile, Table, Cache

* `Iterators`: a DBIter is moved to and fro over a memtable that grows and tables
  with an unreadable part; children are cut into parts with limits as index keys.
* `MemTable`: every load of the reader and every store of the writer is a step;
  `max_height_` may be read as any value it has had.
* `LogFile`: bytes are named by fragment and position, so a fragment is whole if
  its bytes are; blocks of 6 bytes and headers of 2 stand for 32768 and 7.
* `Table`: restart points, shared prefixes, separators and successors over keys
  as sequences of characters.
* `Cache`: reference counts, LRU list, table of handles, and who holds what.

## 3. Runs

The passing runs, with the distinct states of their instances.  The longest take
under two minutes.

| run | what it shows | instance | states |
|---|---|---|---|
| `kv_leveldb` | `ReadYourWrites`: a transaction reads what its write would publish; `ImplementsKV`: the store refines `KVTransactions` | 2 keys, 1 value, 2 transactions of 2 operations, failing appends and syncs, restarts | 40 k |
| `coll_snapshots` | `NoLostDocument`, `ModifiedComplete`, `FindsAgree`, `ImplementsDocumentStore`, for one request at a time on LevelDB | 2 documents, 2 values, 2 names, lists of up to 3 entries, one of them read-only, all requests but transactions, with and without an index; `noGaps` restricts nothing within these bounds | 19 k |
| `coll_transactions` | `SnapshotsReadOnly`, `SnapshotsOK`, with transactions side by side on LevelDB | 1 document, 2 values, 2 transactions, 3 snapshot ids (they wrap), failing writes, any of them in doubt beneath later ones, restarts, the rules `quiet` and `settled` | 159 k |
| `coll_memory` | `ObserversCurrent` in memory | 2 documents, 2 values, 2 names, 1 observer, 1 transaction, writes that stop half way | 106 k |
| `server` | `LockExcludes`, `TransactionsKept`, `DataToMaker`, `AllAnswered` | 2 clients with 1 and 3 requests, 1 database, numbers that wrap at 1, 2 observers | 59 k |
| `client` | `OwnReply`, `OneObserverEach`, `ObserversAgree` (between calls the client's entries, its subscribers and the server's observers agree one for one, and a connector is observable only with an entry for its query), `EveryCallReturns`, `EventuallyCurrent` | 2 connectors, 2 queries, 3 calls nested 2 deep, 2 lost connections | 186 k |
| `ldb_engine` | `NothingFreed`, `ReadsCorrect`, `NewestDurable`, `SyncedSurvives`, `NeverCrashes`, `EveryCallReturns` | 2 writers, a reader, a manual compaction, the background thread, the destructor, 1 failing call | 194 k |
| `ldb_recovery` | `Recoverable`, `AckedSurvive`, `NoSequenceReuse`, `EventuallyOpen` | 4 writes, 2 crashes, 1 failing call, memtables of 2 entries | 637 k |
| `ldb_tree` | `ReadsRight`, `ScansRight`, `LevelsDisjoint`, `CompactionsEnd` | 10 histories of up to 6 writes, 3 plans, 4 levels, files of 2 entries | 68 k |
| `structures` | `QueryRight`, `LinkRight`, `MapWrites`, `MemTableRight`, `LogRight`, `CachesRight`, `TableRight`, `AnswersRight` | see below | 1.45 M |

The instances of `structures`: `KVMap` has 2 keys, 2 values and 2 transactions;
`Query` 4 documents and 17 queries, 3 of them malformed, with and without an
index, `$orderBy` and `$limit`; `Link` 4 messages of 2 lengths over 2
connections, cut anywhere; `MemTable` 2 user keys, 3 entries, 2 levels;
`LogFile` 3 records of lengths 0 to 9 and a failed write; `Cache` 2 threads, 2
files, 3 openings and capacities that hold one table; `Table` 9 keys with
prefixes of each other, blocks of 4 characters, a restart every 2 entries;
`Iterators` 6 histories of 6 writes, 3 snapshots, blocks of 1 and 2 entries,
separators next to a key and far from it, an unreadable part or none.

### Why the instances are enough

Two documents let a search land on a neighbour, a scan meet the end of one
document and the start of the next, and a request on several documents stop
between them.  Two values tell an old version from a new one.  Two snapshots and
the current state give a version below, at and above the snapshot that is
reverted to or removed.  Two transactions and the requests without one give
every order of two conflicting writers and a third.  `coll_transactions` has one
document, so that it can have two values and failures: the version key, the
start key and the list are three keys that may change apart.  Its three ids wrap
around within its bounds, and `MaxSnapshots = 3` keeps the list from doing so.

Two clients are a holder of a lock and one that waits; a third would wait
likewise.  Three requests of the second client are enough for two to be put off
and one to come while they are taken up again.  Two connectors on one client are
two calls that can end in either order, and data of one that reaches the other.

The triggers and sizes of LevelDB are set so low that every write may switch the
memtable, every flush may start a compaction, writers meet both the slowdown and
the stop, and compactions meet several levels, grandparents and snapshots.  Two
crashes are a crash while recovering from a crash.

`coll_snapshots` has no failing write; with `writefail` and `doubt` in `Ops` its
properties hold as well, in 183 k states, which take more than five minutes.
Failing writes beside snapshots are in `coll_transactions`.

TLC explores all behaviours of these instances.  Symmetry is used for
transactions or names only, in runs without liveness properties.

### Fairness

Safety needs none.  The liveness properties assume weak fairness of

* `Server`: the event loop's deliveries (`Receive`, `OnUnlocked`,
  `ObserveQueryChanged`), and of the clients that hold a lock, which give it back;
* `Client`: the event loop's deliveries (`Receive`, `ObserveDataProcess`), timers
  (`Timeout`, `OnConnectTimer`), the returns of calls, and the server's answers
  (`Serve`) while connected;
* `Engine`: each thread that can run, and the background thread once it is
  started or scheduled;
* `Recovery`: whoever opens the database goes on;
* `Tree`: the background thread works while there is work.

Qt's event loop takes queued events in order, and threads are scheduled by a
preemptive system, so an enabled step is not put off for ever.  No strong fairness is
assumed.  Nothing makes a client send, a user write or a connection break.

### Violations

Each of these runs checks what the repository says of the program, and TLC finds
a sequence of steps after which it does not hold.

| run | what happens |
|---|---|
| `coll_tombstone` | removeSnapshot takes a document out of another, older snapshot, after the document was removed (`qdoccollection.cpp:819`) |
| `ldb_rename_crash` | the process dies between the two halves of RenameFile (`env_qt.cc:324`): CURRENT is gone, the next Open makes a new database and deletes the tables of the old one |

## 4. Conditions

The passing runs keep to uses under which the properties hold.  Each row changes
one thing in a configuration; TLC then reports the property violated, for the
reason in the last column.  Line numbers without a file are those of
`qdoccollection.cpp`.

| configuration | change | violated | why |
|---|---|---|---|
| `MCKVLevelDB` | `Holes = TRUE` | ImplementsKV | a record that reached the log in part hides those behind it: an acknowledged write is gone when the store is opened again (`log_writer.cc:98`) |
| `MCCollSnapshots` | `writefail` and `doubt` in `Ops`, `settled` instead of `reopens` | ImplementsDocumentStore, FindsAgree | a failed insert or removal comes back beneath later ones: the collection then holds what no order of the answered requests makes, and lists of links written from what was read before (`db_impl.cc:1192`, `env_qt.cc:148`) |
| `MCCollSnapshots` | without `fresh` | FindsAgree | the link to an overwritten version stays in the index of later snapshots (`qdoccollection.cpp:1028`) |
| `MCCollSnapshots` | without `indexFirst` | FindsAgree | createIndex links every document at the current snapshot id, also those written before it (`:1028`) |
| `MCCollSnapshots` | without `noTombs` | ImplementsDocumentStore | removeSnapshot drops tombstones instead of moving them (`:819`) |
| `MCCollSnapshots` | without `noGaps`, `MaxId = 1`, `Docs <- NoDocs`, a third name, `MaxSnapshots = 4` | FindsAgree | removeSnapshot copies a version one id down but deletes only the last one of a document (`:823`): where no later version follows, the old key stays beside the copy, the links name the copy, and after a revert removeById looks for a link to the old key |
| `MCCollSnapshots` | `Query <- IdQuery` | FindsAgree | a query by `_id` reads the version of the current snapshot only (`:402`) |
| `MCCollSnapshots` | `SnapshotIds = 4` | ModifiedComplete | getModified compares versions as signed characters; 4 ids stand for 256 (`:73`) |
| `MCCollSnapshots` | `SnapshotIds = 2` | ModifiedComplete | the snapshot id wraps around and versions of the oldest snapshot are reused (`:692`) |
| `MCCollSnapshots` | `Tx = {t1}`, `Val = {v1}`, `Ops = {"insert", "createIndex", "transactions"}` | FindsAgree | a transaction writes back an index list it read before another request changed it (`:1024`) |
| `MCCollTransactions` | without `settled` | SnapshotsReadOnly | an insert that failed comes back beneath a newSnapshot that worked, and the saved snapshot shows it (`db_impl.cc:1192`, `env_qt.cc:148`) |
| `MCCollTransactions` | without `quiet` | SnapshotsReadOnly | a transaction writes at the snapshot id it was opened at (`:1340`) |
| `MCCollTransactions` | `SnapshotIds = 2` | SnapshotsReadOnly | the ids wrap around |
| `MCCollTransactions` | `Store = "map"`, `MaxId = 2` | SnapshotsReadOnly | a failed in-memory write erases a start key and leaves the version (`qdockvmap.cpp:149`) |
| `MCCollMemory` | `Limit <- LimitOne` | ObserversCurrent | a reply cut to `$limit` is not refilled (`:1310`) |
| `MCCollMemory` | `Overwrite = {TRUE}` | ObserversCurrent | a document that starts or stops matching (`:1161`) |
| `MCCollMemory` | `set` in `Ops`, `ReadOnly = {}`, a list in `Docs` that replaces a document | ObserversCurrent | the same: setDocs inserts over the document that is there |
| `MCCollMemory` | without `apart` | ObserversCurrent | a transaction publishes the replies it copied when it was opened (`:1328`) |
| `MCCollMemory` | `Store = "leveldb"` | ObserversCurrent | a seek lands on the next greater id (`:108`, `:1121`) |
| `MCCollMemory` | `removeSnapshot` in `Ops` | ObserversCurrent | after a write that stopped half way, versions without a start key are missed by the renumbering (`qdockvmap.cpp:149`) |
| `MCCollMemory` | `createIndex` in `Ops` | ObserversCurrent | links at the current snapshot id, as above |
| `MCServer` | `Vanish = TRUE` | AllAnswered | a lock that goes with its holder is not signalled (`qdocdbserver.cpp:50`) |
| `MCServer` | `Prefer` {-1, 1}, 2 databases | DataToMaker | a preferred observer number may be in use (`qdoccollection.cpp:625`) |
| `MCClient` | `Stolen = TRUE` | OneObserverEach | the number asked for again after a reconnect belongs to another client |
| `MCClient` | `LossInside = {"operation", "observe"}` | ObserversAgree | the answer is lost with the connection, and the entry is made although the server's observer is gone |
| `MCClient` | `LossInside = {"operation", "unobserve"}` | ObserversAgree, OneObserverEach | observing again takes up the observer that is being given up |
| `MCClient` | `LossInside = {"reobserve"}`, `~ crashed` as the invariant | `~ crashed` | the loop over `observerInfo` runs event loops in which the map changes (`qdocdbclient.cpp:461`) |
| `MCClient` | `LossInside = {"unobserve"}`, `"observe"` in `Inside`, or `Offline = TRUE` | EventuallyCurrent | an observer that was not registered when the connection went, or not removed, is not brought up to date |
| `MCClient` | `"unobserve"` in `SlowKinds` | OneObserverEach | after a timeout the observer stays on the server |
| `MCEngine` | a manual compaction and a table that cannot be built | NeverCrashes | the background thread uses `manual_compaction_` after its caller has taken it back (`db_impl.cc:725`) |
| `MCRecovery` | `Plan <- ReplayPlan` | AckedSurvive | a log that was read in part is deleted after a failed Open (`db_impl.cc:344`, `:437`) |
| `MCRecovery` | `Plan <- ImpatientPlan` | AckedSurvive | RepairDB while files cannot be read |
| `MCRecovery` | `Plan <- UnreadPlan` | AckedSurvive, Recoverable | a log that cannot be opened is passed over and then deleted (`db_impl.cc:383`, MaybeIgnoreError without paranoid checks) |
| `MCTree` | `Plan <- CutsPlan`, `MaxFileSize = 1` | ReadsRight | versions of one key in two files of a level, of which a compaction takes one (`version_set.cc:1297`) |
| `MCTree` | `Plan <- GapsPlan` | ReadsRight | CompactRange while a memtable is flushed into a deeper level (`db_impl.cc:508`); the program does not call it |

`CleanWriteIsAtomic` of `KVMap` holds for transactions that delete no key they
put: the in-memory write performs all deletions first, then all puts
(`qdockvmap.cpp:155`), so such a key would come back.

Every property of a passing run has a mutant in `PROJECT.json`: a definition
changed as a plausible bug would change it, with which TLC finds the property
violated.

About searches, `Query` leaves out or restricts uses whose answers are wrong, each
confirmed by a run with the use put in:

* an entry on `_id` with an operator, as `{"_id": {"$exists": true}}` in
  `example/main.qml:205`, finds nothing (`:391`);
* a search on two indexed fields loses keys or runs past the end of a list
  (`qdocutils.cpp:179`); a field whose name sorts before `_id`, with an index,
  beside an entry on `_id` finds a document twice;
* `$limit` is ignored when an index is used (`:434`);
* a search for an element of an indexed array finds nothing (`:1282`);
* `$orderBy` over values of different types leaves them unsorted;
* `$or` and `$and` with a part that is no object read a flag that was never set
  (`:312`).

Seen while modelling, and covered by no property:

* `remove` by an indexed field removes nothing (`:430`);
* `connector.insert` passes the number of the transaction as the flag that lets
  read-only documents be overwritten (`qdocdbconnector.cpp:132`);
* an insert that fails without an error text is answered as a success
  (`qdocdbserver.cpp:267`);
* the constructor of `QDocdbClient` names `observeDataLock` without setting it
  (`qdocdbclient.cpp:480`), and its destructor does not delete the link;
* LevelDB's iterators never have their status checked, so an unreadable block
  ends a search early;
* a seek that fails returns with the file's mutex locked
  (`env_qt.cc:105`), and the next reader of the file waits for ever; short writes
  are taken for whole ones (`env_qt.cc:130`), a failed read for a huge one (`:70`);
* after a write that failed half way, a record that is acknowledged later may be
  unreadable (`log_writer.cc:98`): a record of more than QFile's 16 KB buffer, or
  several failed flushes that fill it, can reach the file in part.  `LogFile` reads
  such logs, and `KVLevelDB` has the case as `Holes`; `Engine` leaves it out;
* the reading of a log that fails half way is passed over like a log that cannot be
  opened (`db_impl.cc:400`, `:423`); `Recovery` has the latter only;
* a NULL batch (`TEST_CompactMemTable`) that joins the group of another writer
  (`db_impl.cc:1263`) returns without a new memtable, while `db_impl.h:50` says
  "Force current memtable contents to be compacted." `MemTableCompacted` of
  `Engine` states it; it fails with `WriteBufferSize = 1`, when a group need not
  switch memtables, and no run has that bound.

## 5. Proofs

`KVLevelDBProofs`, for every set of keys, values and transactions and every
`MaxBatch`, from `ConstAssumption` (the markers for "not found" and "not cached"
are no values):

* `TypeCorrect`: `TypeOK`;
* `ReadsAreWrites`: `ReadYourWrites`, what an open transaction reads is what its
  write would publish;
* `LevelDBImplementsKV`: `ImplementsKV`, the store implements `KVTransactions`.

ReadYourWrites compares a look-up in hashes with a replay of the batch and is not
inductive.  The invariant `IInv` adds why they agree: per key the hashes hold the
effect of the last operation of the batch on it, closed transactions hold
nothing, and every batch has a last operation for each key it touches.  The refinement assumes
`~Holes`.

`CollectionProofs`, for every number of documents, values, names, transactions,
observers and snapshot ids, from `ConstAssumption` (there is at least one snapshot
id; `__CURRENT` is not a client's name, which the server checks; a tombstone and
"not found" are neither values nor lists of link keys; documents and arrays hold
values):

* `SnapshotsAgree`: `SnapshotsOK`, the stored list of snapshots is well formed
  and the collection's counter is its length less one, cut to a byte;
* `NoDocumentLost`: `NoLostDocument`, and `SnapshotsStayReadOnly`:
  `SnapshotsReadOnly`, both in the use that `Sheltered` names, with any number of failed
  writes in doubt beneath later ones;
* `ModifiedNamesAll`: `ModifiedComplete`, for either store and any use (as `SnapshotsAgree`, without any rule
  of `Discipline`), with at most
  half as many snapshots as ids (versions are compared as signed characters);
* `ObserversStayCurrent`: `ObserversCurrent`, in the use that `Observed` names, with the
  inductive invariant behind it, `ObserversInvariant`;
* in `CollectionStoreProofs`, `IndexFinds`: `FindsAgree`, a find through the index answers
  like a full search, in the use that `Indexable` names, and
  `CollectionIsStore`: `ImplementsDocumentStore`, the collection implements
  `DocumentStore`, in the use that `Storing` names.

`Sheltered` asks for LevelDB, no more snapshots than ids, no snapshot request while a
transaction is open, no snapshot removed while there is a tombstone, and one of the
rules `settled` and `reopens` on writes behind a failed one (`Careful`).  None of
these can be spared: the rows of section 4 on `MCCollTransactions` and the run
`coll_tombstone` show the property fail without each of them.  `Indexable` asks for `reopens` and no
transactions besides, for queries that do not name an `_id` and, where clients create an
index, for values that are no arrays and the rules `indexFirst`, `fresh` and, where they
remove snapshots, `noGaps`: the rows of section 4 on `MCCollSnapshots`.  `Storing` adds
what `DocumentStore` has no words for: there are no observers, and no list of documents
to set holds an id twice (a set then keeps the last of them).  `Observed` is another use:
the in-memory store, no more snapshots than ids, no snapshot request while a transaction
is open, no transaction while there is an observer, no document replaced (so no `set`
either), no `$limit`, no index, no `removeSnapshot`, and queries that do not name an
`_id`.  All but the last are rows of section 4 on `MCCollMemory`, or, of the snapshots, on
`MCCollTransactions`; a query by `_id` answers with the one version of the current
snapshot (row `IdQuery`).

For `SnapshotsAgree` the invariant `SInv` adds that the list of each store in doubt is
well formed too, since it becomes the list when the store is opened again.  Only the
snapshot requests write the list (`Untouched` for all others); each makes the new list
by growing, cutting or shrinking the old one (`GrowList`, `CutList`, `ShrinkList`),
and moves the counter by one modulo the byte (`ModInc`, `ModDec`) only when the write
succeeded (`MoveKeeps`).  `SidOfName` shows that a named snapshot is never taken for
the current state, even when the ids have wrapped.

The documents need the invariant `CInv`.  That every value has its start key is not
inductive: a request deletes a start key when the document seems to have no version
but its own, and whether it has depends on what other handles have written since.
`StoreOK` says of the committed keys that no version is behind the current snapshot
and none that holds a value is without its start key; `HandleOK` says of the pending
writes of each open transaction that they touch versions of its own snapshot only,
put a value together with its start key, and delete a start key only when the
committed store holds no version of the document but the transaction's, which the
transaction takes away.  Then two transactions can be written in either order.  Every
operation of a handle keeps `HandleOK` (the folds over found documents, values and
documents to set are unrolled step by step: `IsRemoving`, `IsUnlinking`,
`IsInserting`, `IsIndexing`), a write of such a handle keeps the store and the other
handles (`DocWrite`), and it changes nothing at or below an older snapshot.  The
requests on snapshots move or delete whole layers: `SameSnapshots` relates what is
read at a position of the new list to what was read at one of the old, for the stores
in doubt as well as for the one that is written.  A store in doubt with the list in use
differs from it in the versions of the current snapshot and in start keys only
(`SameBut`), and so it does after both have taken the same writes (`Landed`).

The index needs `XInv` besides: at every snapshot, and in the stores in doubt too, the
entry of each value links exactly the newest versions, up to that snapshot, of the
documents that have the value there, and entries of other snapshots or values there are
none (`IndexOK`).  A request on documents disturbs the entries of the current snapshot
only; `AtTop` says that those are right after each of the inserts and removals it is made
of, so that the handles of a remove or a set can be followed document by document
(`InsertStep`, `RemoveStep`, `RemoveEachTop`, `InsertEachTop`).  newSnapshot copies the
entries and no version is new (`NewSnapshotIndex`), revertToSnapshot deletes whole layers
(`RevertIndex`), and removeSnapshot renumbers entries, links and versions, which agree
when the versions of each document follow on one another (`RemoveIndex`).  The proof of
this last step failed before `noGaps` was among the rules: the behaviour of section 4 is
what it failed on.

The refinement needs no further invariant: under `CInv` and `XInv` each request does to
the views what `DocumentStore` says (`StoreStep`).  For requests on documents this is
what `InsertTop`, `RemoveTop`, `RemoveQueryTop` and `SetTop` say of the current snapshot;
the copies stay because a handle writes at its own snapshot only (`WriteCopies`).  For
newSnapshot, revertToSnapshot and removeSnapshot the copies at the positions of the new
list are those of the old list appended to, cut or with one taken out (`ListChanges`,
`NewSnapshotMade`, `RevertMade`, `RemoveMade`).  Whether the write then works, fails, or
leaves a store in doubt is the same for all of them (`AttemptMade`); a remove or a set
that meets a read-only document has written those before it (`HalfwayMade`), and
`ReopenMade` finds the store in doubt among those that `DocumentStore` has noted.

The observers need `OInv`.  That a reply is current is not inductive either: insert and
removeById change the replies of a handle while its writes are pending, and a commit
publishes them.  `Serves` says of a handle that it pends keys of documents at the current
snapshot only, a value with its start key, and that each reply it keeps answers the query
in the store as it will be once they are written; `Answers` makes that exact, each
document that matches being in the reply once, since `ObserveRemove` takes out the first
it finds.  Insert and removeById of one document keep it (`InsertAnswers`,
`RemoveAnswers`), so does remove, document by document (`RemoveEachServes`), and a new
snapshot, at whose id nothing is written yet, shows what was current (`Below`).
revertToSnapshot asks every query again.  A write in memory stops half way when it is to
erase a key that is not there: a handle that serves observers pends none such (`Serves`),
since it is written before another request can change the store.  Transactions may, but
serve no observers under `apart`; their pending writes are of the same form besides
(`TxPrivate`).

`ServerProofs`, for every number of clients, requests, databases and observers and
every width of the numbers:

* `NumbersStand`: `TransactionsKept`, a transaction stays in the hands of the client
  that opened it as long as it is open.  The invariant `NumbersOK` relates each
  client's open transactions to the entries of the server, so that two clients never
  have one number;
* `LocksExclude`: `LockExcludes`, as long as `transactionId` has not wrapped
  (`NotWrapped`): with it `LocksOK` says that the owner of a lock is the client the
  server remembers for it, and that requests of others wait;
* `DataReachMaker`: `DataToMaker`, when clients leave the choice of an observer's
  number to the server (`Prefer = {-1}`, which is what a client sends before its
  first reconnect).  The invariant `ObserversOK` says that every number in a client's
  hands, in a queued signal or on the connection is below `nextNumber` and belongs to
  the client that asked.

`ClientProofs`, for every number of connectors, queries, calls and depth of nesting:

* `RepliesOwn`: `OwnReply`, a call returns with the reply to its own request, in any
  course: request numbers on the stack, on the way and among the replies are distinct
  and below the next one (`CallsOK`);
* `OneEntryEach`: `OneObserverEach`, when calls and losses of the connection come inside
  the loops of plain requests only (`Undisturbed`), only those time out, numbers are not
  taken by others and nobody calls while offline (`Quiet`);
* `RecordsAgree`: `ObserversAgree`, in the same courses: whenever the link is up and only
  operations wait, the server serves the queries of the client's entries, the subscribers
  are the connectors of the entries, and a connector is observable only with an entry for
  the query it has.  Between the steps of observing, giving up and observing again they
  do differ, so the invariant `AgreeOK` says by how much in each phase: entries whose new
  request is yet to come are neither subscribed nor served (`Asked`), numbers are handed
  out once (`NumbersOK`), the request in hand is the last on its way and unanswered
  (`PendingOK`), or its answer names the number under which the server has it (`BooksOK`).

The courses that `Quiet` leaves out are those of section 4, in which the code does crash,
leave observers behind or keep records that disagree; `reobserve` with a loss inside it,
where the program walks a map that changes, is among them and no property covers it.

`EngineProofs`, for every number of writers, readers and callers of CompactRange, every
batch, size and limit, and every choice of failing calls:

* `RefsHold` and `NothingIsFreed`: `NothingFreed`.  That a thing in use is there is not
  inductive by itself; the invariant `RefsOK` says that each reference count *equals*
  the number of those who hold the thing (readers, `mem_`, `imm_`, `current`, the inputs
  of a compaction, the base of a flush), that the tables of every version in the list
  are on disk, and that the number of a table that is being made is pending and new;
* `ManualStays`: `NeverCrashes`, where no call of the environment fails beside
  CompactRange (`Separate`; section 4 has the crash in the other courses).  The
  invariant `CallsOK` relates the callers' places, the error flag and
  `manual_compaction_`.

And with batches that are sequences of keys:

* `WritesKept`: `NewestDurable`; `SyncedWritesSurvive`: `SyncedSurvives`.  Neither is
  inductive: that a flush may give up a log depends on what the table was built from,
  and that on the order in which the front writer logs, syncs and inserts.  The
  invariant `DataOK` says that one thread works for the queue, the first one
  (`QueueOK`); that the entries of its group carry the numbers after `LastSequence`,
  are in the log of `mem_` before they are in `mem_` and synced before that if the
  group is synchronous (`GroupOK`); that every memtable is covered by a log that is
  kept (`LogsOK`); that a table that is made is in no version yet and holds what it is
  made from, the newest entries of its inputs or all of `imm_` (`NewFilesOK`); and that
  each committed entry is in a memtable, or it or a newer one of its key in a table of
  the current version (`StoredOK`).  It rests on `RefsOK`: what is named there is there.
* `ReadsAreRight`: `ReadsCorrect`.  Get stops at the first place that has the key, so
  what it finds is right for two reasons that the invariant `ReadOK` states of the
  places each reader holds (`Views`) and of the current ones (`CurrentOK`).  *Aged*: in
  the order of the search each place has newer entries only than the next: `mem_`,
  `imm_`, the tables of level 0 by falling number, the one table of level 1.  *Whole* up
  to a number: for each committed entry up to it there is that entry, or a newer one up
  to it, somewhere in the places.  A reader's places are whole up to its snapshot when it
  takes them and nobody changes them later (`SealedOK`: only `mem_` is written to, with
  numbers after `LastSequence`).  The current places stay whole up to every snapshot
  that is held, since a compaction drops an entry only for one up to `bg.oldest`, and
  `bg.oldest` is at or below every such snapshot, those taken later too (`MergeOK`).  They
  stay aged because a flush makes the table with the highest number, or goes to level 1
  of an empty version (`FlushOK`), and a compaction or a move takes a suffix of the order
  by age (`MergeOK`, `MoveOK`).

`RecoveryProofs`, for every number of writes, crashes and failing calls and every size
of a memtable, on the courses that `Restrained` names:

* `FilesInOrder`: the inductive invariant `RecoveryOK`: each manifest that CURRENT may
  name describes tables and logs that together hold the answered writes, new numbers
  are above all numbers in the files, and each step of Open, of RepairDB and of the open
  database stands where its files say;
* `FilesRecover`: `Recoverable`; `AnsweredWritesSurvive`: `AckedSurvive`;
  `NumbersStayNew`: `NoSequenceReuse`.

`Restrained` excludes what really loses writes: a crash between the halves of
RenameFile (run `ldb_rename_crash`), an impatient opening of a repair that is not
finished, a table that fails while a log other than the newest is replayed, a log with
records that cannot be opened and is passed over (section 4), and the repair of a database that has no files.

Everything else is model-checked only: `Tree` and the modules of `MCStructures`.  Out of the prover's reach and left to TLC: liveness under fairness (of
`Server`, `Client`, `Engine`, `Recovery` and `Tree`), and what recursive definitions
compute for every input: the values of `Query` nest.

## 6. Not modelled

* Serialization: byte layouts of Qt streams and of LevelDB, checksums, compression;
  modules rely on them only to bring back what went in.
* Ids: random and time-based, taken as any value; configuration.
* The registry `dbMap` of open databases and the connector's map of shared clients
  with their use counts: one store per path, one client per server is assumed.
* Methods of the connector and the client that only pass a call on.
* Of LevelDB: the loss of unsynced data when the machine goes down (the
  environment for Qt never syncs), RepairTable, DestroyDB, paranoid checks,
  filters, the in-memory environment, the C interface, the POSIX environment:
  the program uses none of them.
* Benchmarks, tests, examples and the Android service.

The composition of `Server` with `Client` and of `Collection` with `Server` as one
state machine is beyond TLC at bounds where the interesting cases happen; each is
checked against an environment that does at least what the other may do.

## 7. Plan

Done: the stores and the collection with their abstract specifications, queries,
server, link and client, and LevelDB from its threads to its files.

Proved besides: the collection's counter, its documents, snapshots, index and observers and that it
implements `DocumentStore`, the stores, the server's numbers and locks, the client's
replies and observers, LevelDB's references, its files across crashes, and that its
threads lose nothing that was written and its readers find what was committed.

Left, in this order:

1. Proofs about `KVMap` (a clean write is whole and a failed one only erases), `Cache`,
   `Link` and `MemTable`.
2. The registry `dbMap` and the use counts of shared clients.
