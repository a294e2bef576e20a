---------------------------- MODULE MCStructures ----------------------------
(***************************************************************************)
(* Small instances of KVMap, Query, Link, MemTable, LogFile, Cache, Table and    *)
(* Iterators side by side: a behaviour is one of any of them.              *)
(***************************************************************************)
EXTENDS Integers, Sequences, FiniteSets, FiniteSetsExt, TLC

CONSTANTS Nil, NotFound, Same, k1, k2, v1, v2, t1, t2, f1, f2

VARIABLES
    which,
    qmap, open, hashes, deletions, reply,
    request, links, byLink, found, r, at_find, at, swapped, passes,
    connections, sent, before, wire, socket, rxData, rxDataLength, reading, received,
    next_, max_heights, entries, last_sequence, inserter, search,
    file, frags, records, log_writer, failed, log_reader,
    cache, opens, locked, existing, live, thread,
    builder, table, iter,
    plan, written, merging, db, pc, skip, want

map_vars == <<qmap, open, hashes, deletions, reply>>
query_vars == <<request, links, byLink, found, r, at_find, at, swapped, passes>>
link_vars == <<connections, sent, before, wire, socket, rxData, rxDataLength, reading, received>>
memtable_vars == <<next_, max_heights, entries, last_sequence, inserter, search>>
log_vars == <<file, frags, records, log_writer, failed, log_reader>>
cache_vars == <<cache, opens, locked, existing, live, thread>>
table_vars == <<builder, table, iter>>
iterator_vars == <<plan, written, merging, db, pc, skip, want>>

KVMap == INSTANCE KVMap WITH
    Key <- {k1, k2}, Val <- {v1, v2}, Tx <- {t1, t2},
    db <- qmap, cache <- hashes, cacheDeleted <- deletions

\* Queries: an entry on a field, one with an operator, and parts of entries.
Number(n) == <<"double", n>>
String(n) == <<"string", n>>
Array(values) == <<"array", values>>
Part(list) == <<"object", list>>
Field(path, arg) == [key |-> "field", path |-> path, arg |-> arg]
Op(key, arg) == [key |-> key, path |-> <<>>, arg |-> arg]
a == <<"a">>
c == <<"b", "c">>
Is(path, oper, arg) == Field(path, Part(<<Op(oper, arg)>>))

\* Documents with a field a and an object b with a field c; the index is on a.
Document(i, va, vc) ==
    <<"object", ("_id" :> String(i)) @@ (IF va = <<"undefined">> THEN <<>> ELSE "a" :> va)
                @@ ("b" :> <<"object", "c" :> vc>>)>>
Documents(values) == [i \in DOMAIN values |-> Document(i, values[i], Number(i % 3))]
Indexable == {Documents(values) : values \in
    {<<Number(2), Number(1), Number(2), Number(1)>>,
     <<Number(2), String(1), Number(1), Number(1)>>,
     <<<<"undefined">>, String(3), Number(3), Number(1)>>}}
WithArrays == {Documents(<<<<"undefined">>, Number(1), Array(<<Number(1), Number(2)>>), Number(1)>>)}

Queries == {Part(q) : q \in
    {<<>>,
     <<Field(a, Number(1))>>,
     <<Field(a, Number(3))>>,
     <<Field(<<"a", "1">>, Number(2))>>,
     <<Field(<<"_id">>, String(2))>>,
     <<Field(<<"_id">>, String(4)), Field(a, Number(1))>>,
     <<Field(<<"_id">>, Array(<<String(1), Number(2), String(4)>>)), Field(a, Number(1))>>,
     <<Is(a, "$exists", <<"bool", FALSE>>)>>,
     <<Field(a, Part(<<Op("$gt", Number(0)), Op("$lt", Number(2))>>)), Is(c, "$lte", Number(0))>>,
     <<Is(a, "$in", Array(<<Number(2), String(1)>>))>>,
     <<Is(a, "$gte", String(2)), Op("$not", Part(<<Field(c, Number(0))>>))>>,
     <<Op("$or", Array(<<Part(<<Field(c, Number(0))>>), Part(<<Is(a, "$gt", Number(1))>>)>>))>>,
     <<Op("$and", Array(<<Part(<<Is(c, "$gte", Number(1))>>),
                          Part(<<Op("$not", Part(<<Is(a, "$lte", Number(1))>>))>>)>>))>>,
     <<Op("$not", Part(<<Op("$or", Array(<<>>)), Op("$not", Number(1))>>))>>}}
Malformed == {Part(q) : q \in
    {<<Is(a, "$exists", Number(1))>>,
     <<Op("$or", Array(<<Part(<<Is(a, "$gt", Number(1))>>), Part(<<Op("$some", Number(1))>>)>>))>>,
     <<Op("$not", Part(<<Op("$in", Number(1))>>))>>}}

\* Options go with queries that look at all documents, and arrays with no index.
Search(docs, ix, q, orderBy, up, limit) ==
    [docs |-> docs, indexed |-> ix, query |-> q, malformed |-> q \in Malformed,
     orderBy |-> orderBy, up |-> up, limit |-> limit]
Searches ==
    {Search(docs, {}, q, <<>>, TRUE, <<>>) :
        docs \in Indexable \union WithArrays, q \in Queries \union Malformed}
    \union {Search(docs, {a}, q, <<>>, TRUE, <<>>) :
        docs \in Indexable, q \in Queries \union Malformed}
    \union {Search(docs, {}, q, orderBy, up, limit) :
        docs \in Indexable \union WithArrays, q \in {Part(<<>>), Part(<<Is(c, "$gte", Number(1))>>)},
        orderBy \in {<<>>, a, c}, up \in BOOLEAN, limit \in {<<>>, <<0>>, <<2>>, <<9>>}}

Query == INSTANCE Query WITH Plan <- Searches, search <- request, keys <- links, reply <- found, pc <- at_find

Link == INSTANCE Link WITH kHeader <- 2, Lengths <- {1, 3}, MaxMessages <- 4, MaxConnections <- 2

MemTable == INSTANCE MemTable WITH
    Key <- {1, 2}, MaxEntries <- 3, kMaxHeight <- 2, writer <- inserter, reader <- search

LogFile == INSTANCE LogFile WITH
    kBlockSize <- 6, kHeaderSize <- 2, Lengths <- {0, 1, 3, 9}, MaxRecords <- 3, MaxFailures <- 1,
    writer <- log_writer, reader <- log_reader

Cache == INSTANCE Cache WITH
    NULL <- Nil, Thread <- {t1, t2}, File <- {f1, f2}, BlockSize <- (f1 :> 1) @@ (f2 :> 2),
    Capacity <- [tables |-> 1, blocks |-> 2], MaxOpens <- 3, SeekFails <- TRUE

\* Keys of one user key at several sequence numbers, user keys that are prefixes of others, and a
\* user key of the largest character.
Table == INSTANCE Table WITH
    Key <- {<<1, 2>>, <<1, 1>>, <<1, 1, 2>>, <<1, 1, 1>>, <<1, 3, 1, 1>>, <<1, 3, 2, 2>>, <<3, 1>>,
            <<3, 1, 2>>, <<3, 3, 1>>},
    NULL <- Nil, MaxChar <- 3, MaxSequence <- 9, block_size <- 4, block_restart_interval <- 2

\* An instance of Iterators: a history of writes (a deletion is negative) whose first ones are in
\* tables.  The internal keys of some writes in order, in parts of a size, each with its last key or
\* a separator before the next part as its limit; some of the parts cannot be read.
IKey(key, seq) == key * 7 - seq
Writes(h) == [i \in DOMAIN h |-> [key |-> IF h[i] < 0 THEN - h[i] ELSE h[i], deleted |-> h[i] < 0]]
InOrder(S) == [n \in 1..Cardinality(S) |-> CHOOSE k \in S : Cardinality({j \in S : j < k}) = n - 1]
Cut(S, size, far, bad) ==
    LET keys == InOrder(S)
        from(p) == (p - 1) * size + 1
        to(p) == Min({p * size, Len(keys)})
        count == (Len(keys) + size - 1) \div size
    IN  [p \in 1..count |->
            [keys |-> SubSeq(keys, from(p), to(p)), readable |-> p \notin bad,
             limit |-> IF ~far THEN keys[to(p)]
                       ELSE IF p = count THEN IKey(4, 0) ELSE keys[to(p) + 1] - 1]]
Keys(h, from, to) == {IKey(Writes(h)[s].key, s) : s \in from..to}

\* The three oldest writes are in a level, the next one in a table of level 0.
IteratorPlan(h, snapshot, size, far, bad) ==
    [writes |-> Writes(h), start |-> 5, flushed |-> 4, snapshot |-> snapshot,
     tables |-> <<Cut(Keys(h, 1, 3), size, far, bad), Cut(Keys(h, 4, 4), 2, ~far, {})>>]

Histories == {<<1, 2, 3, -2, 1, 2>>, <<2, 3, 1, -1, 3, -3>>, <<3, 2, 1, 1, -2, 2>>,
              <<1, 1, 2, -1, -2, 3>>, <<1, 2, -2, 3, 2, -1>>, <<3, -3, 2, 1, 3, 1>>}

Iterators == INSTANCE Iterators WITH
    Key <- 1..3, MaxWrites <- 6, iter <- merging,
    Plan <- {IteratorPlan(h, snapshot, size, far, bad) :
                h \in Histories, snapshot \in 3..5, size \in {1, 2}, far \in BOOLEAN,
                bad \in {{}, {1}, {2}, {3}}}

ASSUME StructuresAssumption ==
    /\ KVMap!KVMapAssumption
    /\ Link!LinkAssumption
    /\ MemTable!MemTableAssumption
    /\ LogFile!LogFileAssumption
    /\ Cache!CacheAssumption
    /\ Table!TableAssumption

NoMap ==
    /\ qmap = Nil /\ open = Nil /\ hashes = Nil /\ deletions = Nil /\ reply = Nil
NoQuery ==
    /\ request = Nil /\ links = Nil /\ byLink = Nil /\ found = Nil /\ r = Nil /\ at_find = Nil
    /\ at = Nil /\ swapped = Nil /\ passes = Nil
NoLink ==
    /\ connections = Nil /\ sent = Nil /\ before = Nil /\ wire = Nil /\ socket = Nil
    /\ rxData = Nil /\ rxDataLength = Nil /\ reading = Nil /\ received = Nil
NoMemTable ==
    /\ next_ = Nil /\ max_heights = Nil /\ entries = Nil /\ last_sequence = Nil
    /\ inserter = Nil /\ search = Nil
NoLogFile ==
    /\ file = Nil /\ frags = Nil /\ records = Nil /\ log_writer = Nil /\ failed = Nil
    /\ log_reader = Nil
NoCache ==
    /\ cache = Nil /\ opens = Nil /\ locked = Nil /\ existing = Nil /\ live = Nil
    /\ thread = Nil
NoTable ==
    /\ builder = Nil /\ table = Nil /\ iter = Nil
NoIterator ==
    /\ plan = Nil /\ written = Nil /\ merging = Nil /\ db = Nil /\ pc = Nil /\ skip = Nil
    /\ want = Nil

MCInit ==
    \/ /\ which = "map" /\ KVMap!Init
       /\ NoQuery /\ NoLink /\ NoMemTable /\ NoLogFile /\ NoCache /\ NoTable /\ NoIterator
    \/ /\ which = "query" /\ Query!Init
       /\ NoMap /\ NoLink /\ NoMemTable /\ NoLogFile /\ NoCache /\ NoTable /\ NoIterator
    \/ /\ which = "link" /\ Link!Init
       /\ NoMap /\ NoQuery /\ NoMemTable /\ NoLogFile /\ NoCache /\ NoTable /\ NoIterator
    \/ /\ which = "memtable" /\ MemTable!Init
       /\ NoMap /\ NoQuery /\ NoLink /\ NoLogFile /\ NoCache /\ NoTable /\ NoIterator
    \/ /\ which = "log" /\ LogFile!Init
       /\ NoMap /\ NoQuery /\ NoLink /\ NoMemTable /\ NoCache /\ NoTable /\ NoIterator
    \/ /\ which = "cache" /\ Cache!Init
       /\ NoMap /\ NoQuery /\ NoLink /\ NoMemTable /\ NoLogFile /\ NoTable /\ NoIterator
    \/ /\ which = "table" /\ Table!Init
       /\ NoMap /\ NoQuery /\ NoLink /\ NoMemTable /\ NoLogFile /\ NoCache /\ NoIterator
    \/ /\ which = "iterator" /\ Iterators!Init
       /\ NoMap /\ NoQuery /\ NoLink /\ NoMemTable /\ NoLogFile /\ NoCache /\ NoTable

MapStep ==
    /\ which = "map" /\ KVMap!Next
    /\ UNCHANGED <<which, query_vars, link_vars, memtable_vars, log_vars, cache_vars, table_vars, iterator_vars>>
QueryStep ==
    /\ which = "query" /\ Query!Next
    /\ UNCHANGED <<which, map_vars, link_vars, memtable_vars, log_vars, cache_vars, table_vars, iterator_vars>>
LinkStep ==
    /\ which = "link" /\ Link!Next
    /\ UNCHANGED <<which, map_vars, query_vars, memtable_vars, log_vars, cache_vars, table_vars, iterator_vars>>
MemTableStep ==
    /\ which = "memtable" /\ MemTable!Next
    /\ UNCHANGED <<which, map_vars, query_vars, link_vars, log_vars, cache_vars, table_vars, iterator_vars>>
LogStep ==
    /\ which = "log" /\ LogFile!Next
    /\ UNCHANGED <<which, map_vars, query_vars, link_vars, memtable_vars, cache_vars, table_vars, iterator_vars>>
CacheStep ==
    /\ which = "cache" /\ Cache!Next
    /\ UNCHANGED <<which, map_vars, query_vars, link_vars, memtable_vars, log_vars, table_vars, iterator_vars>>
TableStep ==
    /\ which = "table" /\ Table!Next
    /\ UNCHANGED <<which, map_vars, query_vars, link_vars, memtable_vars, log_vars, cache_vars, iterator_vars>>
IteratorStep ==
    /\ which = "iterator" /\ Iterators!Next
    /\ UNCHANGED <<which, map_vars, query_vars, link_vars, memtable_vars, log_vars, cache_vars, table_vars>>

MCNext ==
    \/ MapStep \/ QueryStep \/ LinkStep \/ MemTableStep \/ LogStep \/ CacheStep \/ TableStep \/ IteratorStep

vars == <<which, map_vars, query_vars, link_vars, memtable_vars, log_vars, cache_vars, table_vars, iterator_vars>>
MCSpec == MCInit /\ [][MCNext]_vars

-----------------------------------------------------------------------------

\* What the in-memory store's writeTransaction() promises (qdockvmap.cpp:144): a clean transaction is
\* published whole, and a failed one only erases keys it deleted.
MapWrites ==
    [][which = "map" => KVMap!CleanWriteIsAtomic /\ KVMap!FailedWriteOnlyErases]_vars

\* What MemTable promises its readers (db/skiplist.h, db/memtable.cc:108).
MemTableRight == which = "memtable" => MemTable!SearchesRight /\ MemTable!GetsRight

\* What a search promises (README, "Query operators", "Query options"): the documents that satisfy the
\* query, each once, sorted when they compare, and an end of the sorting.
QueryRight == which = "query" => Query!FindsMatching /\ Query!Sorted /\ Query!SortEnds

\* What a link promises (qdocdblinkbase.cpp:8): messages come out whole, in order and as soon as
\* they are there, however the socket cuts them.
LinkRight == which = "link" => Link!FramesRight

\* What a log promises (db/log_reader.cc:59): records are never mixed up, and none is lost before
\* the file ends or a write fails.
LogRight == which = "log" => LogFile!RecordsIntact /\ LogFile!RecordsKept

\* What the caches promise (util/cache.cc): a handle in use stays, one that is not goes.
CachesRight == which = "cache" => Cache!HeldStays /\ Cache!NothingLeaks

\* What a table promises its readers (table/block.cc:139, table/table.cc:225).
TableRight == which = "table" => Table!MovesRight /\ Table!GetsRight /\ Table!IndexSeparates

\* What a LevelDB iterator promises (db/db_iter.cc): each operation ends where it should.
AnswersRight == which = "iterator" => Iterators!AnswersRight

=============================================================================
