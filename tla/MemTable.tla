------------------------------ MODULE MemTable ------------------------------
(***************************************************************************)
(* A memtable (db/memtable.cc): a skip list (db/skiplist.h) that one       *)
(* writer fills while readers search it without a lock.                    *)
(*                                                                         *)
(* A node is its internal key, the integer IKey, as in module Tree; Head   *)
(* comes before all keys, NULL after them.  The writer's stores and the    *)
(* reader's loads are steps.  Links are stored with release and loaded     *)
(* with acquire, so a reader sees a node as it was when it was linked;     *)
(* max_height_ has no barrier, so a reader may load any value it has had.  *)
(***************************************************************************)
EXTENDS Integers, FiniteSets, FiniteSetsExt, Functions

CONSTANTS
    Key,            \* user keys: an interval of positive numbers
    MaxEntries,     \* entries added
    kMaxHeight

MemTableAssumption ==
    /\ Key = 1..Cardinality(Key) /\ Key # {}
    /\ {MaxEntries, kMaxHeight} \subseteq Nat \ {0}

VARIABLES
    next_,          \* [level][node]: the links
    max_heights,    \* the values max_height_ has had
    entries,        \* entries added
    last_sequence,  \* LastSequence(): what readers may use as a snapshot
    writer,         \* the Insert at work: [node, height, level, prev, own]
    reader          \* the latest search: [op, target, node, level, known, done]

vars == <<next_, max_heights, entries, last_sequence, writer, reader>>

Head == 0
IKey(key, seq) == key * (MaxEntries + 1) - seq
UserKey(ikey) == (ikey + MaxEntries) \div (MaxEntries + 1)
NULL == IKey(Max(Key) + 1, 0)
Wild == NULL + 1    \* what a link holds before it is set

Level == 0..(kMaxHeight - 1)
Nodes == {IKey(k, s) : k \in Key, s \in 1..MaxEntries}
Linked(l) == Range(next_[l]) \ {NULL, Wild}

NoInsert == [node |-> Head, height |-> 0, level |-> 0, own |-> FALSE,
             prev |-> [l \in Level |-> Head]]
NoSearch == [op |-> "none", target |-> Head, node |-> Head, level |-> 0, known |-> {},
             done |-> TRUE]

Init ==
    /\ next_ = [l \in Level |-> [n \in {Head} \cup Nodes |-> IF n = Head THEN NULL ELSE Wild]]
    /\ max_heights = {1}
    /\ entries = 0
    /\ last_sequence = 0
    /\ writer = NoInsert
    /\ reader = NoSearch

-----------------------------------------------------------------------------
(* The writer *)

\* The writer's own search for its place: nobody else changes the list.
FindGreaterOrEqual(node) ==
    [l \in Level |-> Max({Head} \cup {n \in Linked(l) : n < node})]

Insert(k, h) ==
    LET node == IKey(k, entries + 1) IN
    /\ writer = NoInsert
    /\ entries < MaxEntries
    /\ writer' = [NoInsert EXCEPT !.node = node, !.height = h, !.prev = FindGreaterOrEqual(node)]
    /\ max_heights' = IF h > Max(max_heights) THEN max_heights \cup {h} ELSE max_heights
    /\ UNCHANGED <<next_, entries, last_sequence, reader>>

\* x->NoBarrier_SetNext(i, prev[i]->NoBarrier_Next(i))
SetNext ==
    /\ writer.node # Head /\ ~writer.own
    /\ next_' = [next_ EXCEPT ![writer.level][writer.node] =
                                        next_[writer.level][writer.prev[writer.level]]]
    /\ writer' = [writer EXCEPT !.own = TRUE]
    /\ UNCHANGED <<max_heights, entries, last_sequence, reader>>

\* prev[i]->SetNext(i, x)
Link ==
    /\ writer.own
    /\ next_' = [next_ EXCEPT ![writer.level][writer.prev[writer.level]] = writer.node]
    /\ \/ /\ writer.level + 1 < writer.height
          /\ writer' = [writer EXCEPT !.level = @ + 1, !.own = FALSE]
          /\ UNCHANGED entries
       \/ /\ writer.level + 1 = writer.height
          /\ writer' = NoInsert
          /\ entries' = entries + 1
    /\ UNCHANGED <<max_heights, last_sequence, reader>>

\* DBImpl::Write, when all the entries of its batch are in.
SetLastSequence ==
    /\ writer = NoInsert
    /\ last_sequence < entries
    /\ last_sequence' = entries
    /\ UNCHANGED <<next_, max_heights, entries, writer, reader>>

-----------------------------------------------------------------------------
(* A reader *)

Search(op, target) ==
    /\ reader.done
    /\ \E h \in max_heights :
          reader' = [op |-> op, target |-> target, node |-> Head, level |-> h - 1,
                     known |-> Linked(0), done |-> FALSE]
    /\ UNCHANGED <<next_, max_heights, entries, last_sequence, writer>>

\* MemTable::Get at a snapshot, the iterator's Seek, Prev and SeekToLast.
Get(k) == \E s \in 0..last_sequence : Search("get", IKey(k, s))
Seek == \E n \in Nodes : Search("at or after", n)
Prev == reader.node \in Nodes /\ Search("before", reader.node)
SeekToLast == Search("before", NULL)

\* The iterator's Next and SeekToFirst: one load.
Advance ==
    /\ reader.done
    /\ reader.node # NULL
    /\ reader' = [op |-> "at or after", target |-> reader.node + 1, node |-> next_[0][reader.node],
                  level |-> 0, known |-> Linked(0), done |-> TRUE]
    /\ UNCHANGED <<next_, max_heights, entries, last_sequence, writer>>

\* One round of FindGreaterOrEqual, FindLessThan or FindLast.
KeyIsNotBeforeNode(key, n) == n # NULL /\ n <= key   \* mutant: a search steps over its target
KeyIsAfterNode(key, n) == n # NULL /\ n < key

Load ==
    LET next == next_[reader.level][reader.node]
        result == IF reader.op = "before" THEN reader.node ELSE next
    IN
    /\ ~reader.done
    /\ \/ /\ KeyIsAfterNode(reader.target, next)
          /\ reader' = [reader EXCEPT !.node = next]
       \/ /\ ~KeyIsAfterNode(reader.target, next)
          /\ reader' = IF reader.level = 0 \/ next = Wild
                       THEN [reader EXCEPT !.node = result, !.done = TRUE]
                       ELSE [reader EXCEPT !.level = @ - 1]
    /\ UNCHANGED <<next_, max_heights, entries, last_sequence, writer>>

Next ==
    \/ \E k \in Key, h \in 1..kMaxHeight : Insert(k, h)
    \/ SetNext \/ Link \/ SetLastSequence
    \/ \E k \in Key : Get(k)
    \/ Seek \/ Prev \/ SeekToLast \/ Advance \/ Load

Spec == Init /\ [][Next]_vars

-----------------------------------------------------------------------------
(* Properties *)

Between(n) ==
    IF reader.op = "before" THEN reader.node < n /\ n < reader.target
    ELSE reader.target <= n /\ n < reader.node

\* A search without a lock never ends past an entry that was in the list when it began, nor at one
\* that is not in it, however the links of other entries are set meanwhile (db/skiplist.h).
SearchesRight ==
    reader.done /\ reader.op # "none" =>
        /\ reader.node \in Linked(0) \cup {Head, NULL}
        /\ ~\E n \in reader.known : Between(n)

\* MemTable::Get finds the newest entry of its snapshot, whole batches at a time
\* (db/memtable.cc:108-141, db/db_impl.cc:1212).
GetsRight ==
    LET k == UserKey(reader.target)
        snapshot == k * (MaxEntries + 1) - reader.target
        visible == {s \in 1..snapshot : IKey(k, s) \in Linked(0)}
    IN  reader.done /\ reader.op = "get" =>
            IF visible = {} THEN reader.node = NULL \/ UserKey(reader.node) # k
            ELSE reader.node = IKey(k, Max(visible))

=============================================================================
