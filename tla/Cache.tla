------------------------------- MODULE Cache --------------------------------
(***************************************************************************)
(* The two caches between a LevelDB and its tables: open tables by file    *)
(* number (db/table_cache.cc) and blocks by table and offset               *)
(* (table/table.cc), both a shard of an LRU cache (util/cache.cc).         *)
(* Threads find a table, read a block of it and let both go, while tables  *)
(* become obsolete and are removed.                                        *)
(*                                                                         *)
(* Each operation of a cache holds its mutex.  Opening a file and reading  *)
(* a block do not: two threads may open one file, and the later Insert     *)
(* replaces the entry of the earlier.  Handles that are freed are used     *)
(* again.  A table has one block; its charge is BlockSize.                 *)
(***************************************************************************)
EXTENDS Integers, Sequences, FiniteSets, SequencesExt, Functions

CONSTANTS
    Thread,
    File,           \* file numbers
    BlockSize,      \* [File -> Nat]
    Capacity,       \* [tables, blocks]
    MaxOpens,       \* tables opened
    SeekFails,      \* a seek in an open file may fail
    NULL

CacheAssumption ==
    /\ BlockSize \in [File -> Nat] /\ MaxOpens \in Nat
    /\ Capacity \in [{"tables", "blocks"} -> Nat]

VARIABLES
    cache,      \* of each cache: [handles, table, lru, usage]
    opens,      \* the tables opened: their file numbers; the index is the cache_id
    locked,     \* cache_ids of the tables whose file's m_mutex is held
    existing,   \* files on disk
    live,       \* files of the current Version
    thread      \* [pc, file, id, table, block]: its step, and the handles it holds

vars == <<cache, opens, locked, existing, live, thread>>

Which == {"tables", "blocks"}
Idle == [pc |-> "idle", file |-> NULL, id |-> 0, table |-> NULL, block |-> NULL]

\* A Version keeps its files while a thread reads them.
Pinned == {thread[t].file : t \in Thread}

-----------------------------------------------------------------------------
(* LRUCache *)

\* The handles that are not free: [key, value, charge, refs].
Unref(c, h) ==
    IF c.handles[h].refs > 1 THEN [c EXCEPT !.handles[h].refs = @ - 1]
    ELSE [c EXCEPT !.handles = Restrict(@, DOMAIN @ \ {h}), !.usage = @ - c.handles[h].charge]

LRU_Remove(c, h) == [c EXCEPT !.lru = SelectSeq(@, LAMBDA g : g # h)]
LRU_Append(c, h) == [c EXCEPT !.lru = Append(@, h)]
Forget(c, key) == [c EXCEPT !.table = Restrict(@, DOMAIN @ \ {key})]

Erase(c, key) ==
    IF key \in DOMAIN c.table
    THEN Unref(LRU_Remove(Forget(c, key), c.table[key]), c.table[key]) ELSE c

Evict(c, h) == Unref(Forget(LRU_Remove(c, h), c.handles[h].key), h)
Shrink(w, c) ==
    FoldLeft(LAMBDA d, h : IF d.usage > Capacity[w] THEN Evict(d, h) ELSE d, c, c.lru)

NewHandle(c) == CHOOSE h \in 1..(Cardinality(DOMAIN c.handles) + 1) : h \notin DOMAIN c.handles

Insert(w, key, value, charge) ==
    LET c == cache[w]
        h == NewHandle(c)
        e == [key |-> key, value |-> value, charge |-> charge, refs |-> 2]
        added == [c EXCEPT !.handles = (h :> e) @@ @, !.usage = @ + charge]
        replaced == IF key \in DOMAIN c.table
                    THEN Unref(LRU_Remove(added, c.table[key]), c.table[key]) ELSE added
    IN  Shrink(w, LRU_Append([replaced EXCEPT !.table = (key :> h) @@ @], h))

LookupUncounted(c, key) ==     \* mutant: a handle without a reference
    LET h == c.table[key] IN LRU_Append(LRU_Remove(c, h), h)
Lookup(c, key) ==
    LET h == c.table[key] IN [LRU_Append(LRU_Remove(c, h), h) EXCEPT !.handles[h].refs = @ + 1]

-----------------------------------------------------------------------------
(* TableCache and Table::BlockReader *)

Empty == [handles |-> <<>>, table |-> <<>>, lru |-> <<>>, usage |-> 0]

Init ==
    /\ cache = [w \in Which |-> Empty]
    /\ opens = <<>>
    /\ locked = {}
    /\ existing = File /\ live = File
    /\ thread = [t \in Thread |-> Idle]

Step(t, from, to) ==
    /\ thread[t].pc = from
    /\ thread' = [thread EXCEPT ![t] = to]

Cached(w, key) == key \in DOMAIN cache[w].table

\* TableCache::FindTable: a lookup; else the file is opened, and the open table inserted.
FindTable(t, f) ==
    /\ f \in live
    /\ \/ /\ Cached("tables", f)
          /\ LET h == cache["tables"].table[f] IN
              Step(t, "idle", [Idle EXCEPT !.pc = "find", !.file = f, !.table = h,
                                           !.id = cache["tables"].handles[h].value])
          /\ cache' = [cache EXCEPT !["tables"] = Lookup(@, f)]
       \/ /\ ~Cached("tables", f)
          /\ Step(t, "idle", [Idle EXCEPT !.pc = "open", !.file = f])
          /\ UNCHANGED cache
    /\ UNCHANGED <<opens, locked, existing, live>>

OpenTable(t) ==
    /\ \/ /\ Step(t, "open", Idle)
          /\ UNCHANGED opens
       \/ /\ thread[t].file \in existing
          /\ Len(opens) < MaxOpens
          /\ opens' = Append(opens, thread[t].file)
          /\ Step(t, "open", [thread[t] EXCEPT !.pc = "insert", !.id = Len(opens) + 1])
    /\ UNCHANGED <<cache, locked, existing, live>>

InsertTable(t) ==
    /\ Step(t, "insert", [thread[t] EXCEPT !.pc = "find", !.table = NewHandle(cache["tables"])])
    /\ cache' = [cache EXCEPT !["tables"] = Insert("tables", thread[t].file, thread[t].id, 1)]
    /\ UNCHANGED <<opens, locked, existing, live>>

\* Table::BlockReader: a lookup; else the block is read, and inserted unless fill_cache is off.
FindBlock(t) ==
    LET id == thread[t].id IN
    /\ \/ /\ Cached("blocks", id)
          /\ Step(t, "find", [thread[t] EXCEPT !.pc = "use", !.block = cache["blocks"].table[id]])
          /\ cache' = [cache EXCEPT !["blocks"] = Lookup(@, id)]
       \/ /\ ~Cached("blocks", id)
          /\ Step(t, "find", [thread[t] EXCEPT !.pc = "read"])
          /\ UNCHANGED cache
    /\ UNCHANGED <<opens, locked, existing, live>>

\* QtRandomAccessFile::Read: a seek that fails returns without unlocking the file.
ReadBlock(t) ==
    LET id == thread[t].id IN
    /\ id \notin locked
    /\ \/ /\ \E pc \in {"insert block", "release"} : Step(t, "read", [thread[t] EXCEPT !.pc = pc])
          /\ UNCHANGED locked
       \/ /\ SeekFails
          /\ Step(t, "read", [thread[t] EXCEPT !.pc = "release"])
          /\ locked' = locked \cup {id}
    /\ UNCHANGED <<cache, opens, existing, live>>

InsertBlock(t) ==
    /\ \/ /\ Step(t, "insert block",
                  [thread[t] EXCEPT !.pc = "use", !.block = NewHandle(cache["blocks"])])
          /\ cache' = [cache EXCEPT !["blocks"] =
                          Insert("blocks", thread[t].id, thread[t].id, BlockSize[thread[t].file])]
       \/ /\ Step(t, "insert block", [thread[t] EXCEPT !.pc = "use"])
          /\ UNCHANGED cache
    /\ UNCHANGED <<opens, locked, existing, live>>

\* The iterator of the block is deleted before the one of the table.
ReleaseBlock(t) ==
    LET h == thread[t].block IN
    /\ Step(t, "use", [thread[t] EXCEPT !.pc = "release", !.block = NULL])
    /\ cache' = IF h = NULL THEN cache ELSE [cache EXCEPT !["blocks"] = Unref(@, h)]
    /\ UNCHANGED <<opens, locked, existing, live>>

ReleaseTable(t) ==
    /\ Step(t, "release", Idle)
    /\ cache' = [cache EXCEPT !["tables"] = Unref(@, thread[t].table)]
    /\ UNCHANGED <<opens, locked, existing, live>>

\* A compaction takes a file out of the Version; DeleteObsoleteFiles removes it when no Version
\* has it any more.
Compact(f) ==
    /\ f \in live
    /\ live' = live \ {f}
    /\ UNCHANGED <<cache, opens, locked, existing, thread>>

DeleteObsoleteFile(f) ==
    /\ f \in existing \ (live \cup Pinned)
    /\ existing' = existing \ {f}
    /\ cache' = [cache EXCEPT !["tables"] = Erase(@, f)]
    /\ UNCHANGED <<opens, locked, live, thread>>

Progress(t) ==
    \/ OpenTable(t) \/ InsertTable(t) \/ FindBlock(t) \/ ReadBlock(t) \/ InsertBlock(t)
    \/ ReleaseBlock(t) \/ ReleaseTable(t)
Next ==
    \/ \E t \in Thread : Progress(t) \/ \E f \in File : FindTable(t, f)
    \/ \E f \in File : Compact(f) \/ DeleteObsoleteFile(f)

\* A thread that reads goes on reading.
Fairness == \A t \in Thread : WF_vars(Progress(t))
Spec == Init /\ [][Next]_vars /\ Fairness

-----------------------------------------------------------------------------
(* Properties *)

HandleOf(w, t) == IF w = "tables" THEN thread[t].table ELSE thread[t].block
InList(c, h) == h \in Range(c.lru)

\* A table or a block is there as long as a thread uses it, and what it uses is what it found,
\* whoever evicts, replaces or erases the entry meanwhile (util/cache.cc:216, 262-295).
HeldStays ==
    \A w \in Which, t \in Thread : HandleOf(w, t) # NULL =>
        /\ HandleOf(w, t) \in DOMAIN cache[w].handles
        /\ cache[w].handles[HandleOf(w, t)].value = thread[t].id

\* Nothing is kept open that is neither cached nor in use, a cache over its capacity holds only
\* what is in use, and no table of a removed file stays cached (db/db_impl.cc:263).
NothingLeaks ==
    /\ \A w \in Which : \A h \in DOMAIN cache[w].handles :
          cache[w].handles[h].refs = Cardinality({t \in Thread : HandleOf(w, t) = h})
                                    + (IF InList(cache[w], h) THEN 1 ELSE 0)
    /\ \A w \in Which :
          cache[w].usage > Capacity[w] => cache[w].lru = <<>> /\ cache[w].table = <<>>
    /\ DOMAIN cache["tables"].table \subseteq existing

=============================================================================
