----------------------------- MODULE Iterators ------------------------------
(***************************************************************************)
(* An iterator of a LevelDB: DBIter (db/db_iter.cc) over a MergingIterator *)
(* (table/merger.cc) over the memtable, which other threads go on filling, *)
(* and a TwoLevelIterator (table/two_level_iterator.cc) for each table of  *)
(* level 0 and for each other level.                                       *)
(*                                                                         *)
(* An internal key is the integer IKey, as in module Tree; 0 is the key of *)
(* an iterator that is not valid.  A sequence number stands for its value. *)
(* The data iterators of a two-level iterator are its parts: the blocks of *)
(* a table, or the files of a level.  A part that cannot be read is the    *)
(* error iterator of table/iterator.cc.                                    *)
(*                                                                         *)
(* A step of the merging iterator is atomic.  The loops of DBIter are not: *)
(* writes come between their rounds.                                       *)
(***************************************************************************)
EXTENDS Integers, Sequences, FiniteSets, FiniteSetsExt

CONSTANTS
    Key,        \* user keys, positive numbers
    Plan,       \* the instances to explore
    MaxWrites

VARIABLES
    plan,       \* [writes, start, flushed, snapshot, tables]: the writes, how many come
                \* before the iterator is made and how many of them are in tables, its
                \* sequence number, and the parts [keys, limit, readable] of each table or level
    written,    \* the writes that are done
    iter,       \* the MergingIterator: [children, current, direction]
    db,         \* the DBIter: [valid, direction, saved_key, saved_value]
    pc,         \* the loop DBIter is in: "idle", "next", "rewind" or "prev"
    skip,       \* locals of that loop: [skipping, value_type]
    want        \* the sequence number the operation should end at; 0 if there is none

vars == <<plan, written, iter, db, pc, skip, want>>

Least(S) == IF S = {} THEN 0 ELSE Min(S)
Greatest(S) == IF S = {} THEN 0 ELSE Max(S)

-----------------------------------------------------------------------------
(* Entries *)

IKey(key, seq) == key * (MaxWrites + 1) - seq
UserKey(ikey) == (ikey + MaxWrites) \div (MaxWrites + 1)
Sequence(ikey) == UserKey(ikey) * (MaxWrites + 1) - ikey
Deleted(ikey) == plan.writes[Sequence(ikey)].deleted
Hidden(ikey) == Sequence(ikey) > plan.snapshot

Mem == {IKey(plan.writes[s].key, s) : s \in (plan.flushed + 1)..written}

-----------------------------------------------------------------------------
(* Children: the first one is the memtable's *)

Kids == 1..(1 + Len(plan.tables))
Parts(i) == plan.tables[i - 1]
Child == [part |-> 0, at |-> 0, failed |-> FALSE]

\* The memtable's iterator points to a node, which stays where it is.
ChildKey(i, c) ==
    IF i = 1 THEN c.at ELSE IF c.part = 0 THEN 0 ELSE Parts(i)[c.part].keys[c.at]

\* InitDataBlock and one data iterator: its entry at a place, 0 if there is none.
Entry(i, p, at) ==
    IF p # 0 /\ Parts(i)[p].readable /\ at \in DOMAIN Parts(i)[p].keys THEN at ELSE 0
FirstAtOrAfter(keys, target) == Least({n \in DOMAIN keys : keys[n] >= target})

\* SetDataIterator keeps the error of the parts it leaves.
Unread(i, from, to) == \E p \in DOMAIN Parts(i) : from <= p /\ p <= to /\ ~Parts(i)[p].readable

SkipEmptyDataBlocksForward(i, c, p, at) ==
    LET next == Least({q \in DOMAIN Parts(i) : q > p /\ Parts(i)[q].readable})
    IN  IF p = 0 THEN [c EXCEPT !.part = 0, !.at = 0]
        ELSE IF at # 0 THEN [c EXCEPT !.part = p, !.at = at]
        ELSE [part |-> next, at |-> IF next = 0 THEN 0 ELSE 1,
              failed |-> c.failed \/ Unread(i, p, IF next = 0 THEN Len(Parts(i)) ELSE next)]

SkipEmptyDataBlocksBackward(i, c, p, at) ==
    LET next == Greatest({q \in DOMAIN Parts(i) : q < p /\ Parts(i)[q].readable})
    IN  IF at # 0 THEN [c EXCEPT !.part = p, !.at = at]
        ELSE [part |-> next, at |-> IF next = 0 THEN 0 ELSE Len(Parts(i)[next].keys),
              failed |-> c.failed \/ Unread(i, next, p)]

SeekToFirstOf(i, c) ==
    IF i = 1 THEN [c EXCEPT !.at = Least(Mem)]
    ELSE SkipEmptyDataBlocksForward(i, c, 1, Entry(i, 1, 1))

SeekToLastOf(i, c) ==
    LET p == Len(Parts(i)) IN
    IF i = 1 THEN [c EXCEPT !.at = Greatest(Mem)]
    ELSE SkipEmptyDataBlocksBackward(i, c, p, Entry(i, p, Len(Parts(i)[p].keys)))

\* The index has the limit of each part: FindFile, or a search in the index block.
SeekIn(i, c, target) ==
    LET p == Least({q \in DOMAIN Parts(i) : Parts(i)[q].limit >= target}) IN
    IF i = 1 THEN [c EXCEPT !.at = Least({k \in Mem : k >= target})]
    ELSE SkipEmptyDataBlocksForward(i, c, p,
             IF p = 0 THEN 0 ELSE Entry(i, p, FirstAtOrAfter(Parts(i)[p].keys, target)))

NextOf(i, c) ==
    IF i = 1 THEN [c EXCEPT !.at = Least({k \in Mem : k > c.at})]
    ELSE SkipEmptyDataBlocksForward(i, c, c.part, Entry(i, c.part, c.at + 1))

PrevOf(i, c) ==
    IF i = 1 THEN [c EXCEPT !.at = Greatest({k \in Mem : k < c.at})]
    ELSE SkipEmptyDataBlocksBackward(i, c, c.part, Entry(i, c.part, c.at - 1))

-----------------------------------------------------------------------------
(* MergingIterator *)

Valid(it) == it.current # 0
KeyOf(it) == IF Valid(it) THEN ChildKey(it.current, it.children[it.current]) ELSE 0

ValidIn(cs) == {i \in Kids : ChildKey(i, cs[i]) # 0}

FindSmallest(cs) ==
    [children |-> cs, direction |-> "forward",
     current |-> Least({i \in ValidIn(cs) :
                        \A j \in ValidIn(cs) : ChildKey(i, cs[i]) <= ChildKey(j, cs[j])})]
FindLargest(cs) ==
    [children |-> cs, direction |-> "reverse",
     current |-> Greatest({i \in ValidIn(cs) :
                           \A j \in ValidIn(cs) : ChildKey(i, cs[i]) >= ChildKey(j, cs[j])})]

First(it) == FindSmallest([i \in Kids |-> SeekToFirstOf(i, it.children[i])])
Last(it) == FindLargest([i \in Kids |-> SeekToLastOf(i, it.children[i])])
Sought(it, target) == FindSmallest([i \in Kids |-> SeekIn(i, it.children[i], target)])

\* The other children after, or before, the current key.
AfterStale(it, i) == it.children[i]     \* mutant: they stay where the other direction had them
After(it, i) ==
    LET c == SeekIn(i, it.children[i], KeyOf(it)) IN
    IF ChildKey(i, c) = KeyOf(it) THEN NextOf(i, c) ELSE c
Before(it, i) ==
    LET c == SeekIn(i, it.children[i], KeyOf(it)) IN
    IF ChildKey(i, c) # 0 THEN PrevOf(i, c) ELSE SeekToLastOf(i, c)

NextMerged(it) ==
    FindSmallest([i \in Kids |-> IF i = it.current THEN NextOf(i, it.children[i])
                                 ELSE IF it.direction = "forward" THEN it.children[i]
                                 ELSE After(it, i)])
PrevMerged(it) ==
    FindLargest([i \in Kids |-> IF i = it.current THEN PrevOf(i, it.children[i])
                                ELSE IF it.direction = "reverse" THEN it.children[i]
                                ELSE Before(it, i)])

Status(it) == IF \E i \in Kids : it.children[i].failed THEN "error" ELSE "ok"

-----------------------------------------------------------------------------
(* What the operations should find *)

Latest(k) == Greatest({s \in 1..written : plan.writes[s].key = k /\ s <= plan.snapshot})
Live == {k \in Key : Latest(k) # 0 /\ ~plan.writes[Latest(k)].deleted}
Newest(k) == IF k = 0 THEN 0 ELSE Latest(k)

Current ==
    IF ~db.valid THEN <<0, 0>>
    ELSE IF db.direction = "forward" THEN <<UserKey(KeyOf(iter)), Sequence(KeyOf(iter))>>
    ELSE <<db.saved_key, db.saved_value>>

-----------------------------------------------------------------------------
(* DBIter *)

Init ==
    /\ plan \in Plan
    /\ written = plan.start
    /\ iter = [children |-> [i \in Kids |-> Child], current |-> 0, direction |-> "forward"]
    /\ db = [valid |-> FALSE, direction |-> "forward", saved_key |-> 0, saved_value |-> 0]
    /\ pc = "idle"
    /\ skip = [skipping |-> FALSE, value_type |-> "deletion"]
    /\ want = 0

\* Another thread adds to the memtable.
Write ==
    /\ written < Len(plan.writes)
    /\ written' = written + 1
    /\ UNCHANGED <<plan, iter, db, pc, skip, want>>

\* To FindNextUserEntry, if the internal iterator is valid.
FindNext(it, skipping, saved) ==
    /\ iter' = it
    /\ skip' = [skip EXCEPT !.skipping = skipping]
    /\ pc' = IF Valid(it) THEN "next" ELSE "idle"
    /\ db' = [db EXCEPT !.direction = "forward", !.saved_key = saved,
                        !.valid = IF Valid(it) THEN db.valid ELSE FALSE]

FindPrev(it) ==
    /\ iter' = it
    /\ skip' = [skip EXCEPT !.value_type = "deletion"]
    /\ pc' = "prev"
    /\ db' = [db EXCEPT !.direction = "reverse"]

SeekToFirst ==
    /\ pc = "idle"
    /\ want' = Newest(Least(Live))
    /\ FindNext(First(iter), FALSE, db.saved_key)
    /\ UNCHANGED <<plan, written>>

Seek(k) ==
    /\ pc = "idle"
    /\ want' = Newest(Least({l \in Live : l >= k}))
    /\ FindNext(Sought(iter, IKey(k, plan.snapshot)), FALSE, k)
    /\ UNCHANGED <<plan, written>>

SeekToLast ==
    /\ pc = "idle"
    /\ want' = Newest(Greatest(Live))
    /\ FindPrev(Last(iter))
    /\ UNCHANGED <<plan, written>>

\* The internal iterator of a reverse DBIter is before the entries of its key.
MoveNext ==
    /\ pc = "idle" /\ db.valid
    /\ want' = Newest(Least({l \in Live : l > Current[1]}))
    /\ IF db.direction = "forward"
       THEN FindNext(iter, TRUE, UserKey(KeyOf(iter)))
       ELSE FindNext(IF Valid(iter) THEN NextMerged(iter) ELSE First(iter), TRUE, db.saved_key)
    /\ UNCHANGED <<plan, written>>

MovePrev ==
    /\ pc = "idle" /\ db.valid
    /\ want' = Newest(Greatest({l \in Live : l < Current[1]}))
    /\ \/ /\ db.direction = "reverse"
          /\ FindPrev(iter)
       \/ /\ db.direction = "forward"
          /\ db' = [db EXCEPT !.saved_key = UserKey(KeyOf(iter))]
          /\ pc' = "rewind"
          /\ UNCHANGED <<iter, skip>>
    /\ UNCHANGED <<plan, written>>

\* One round of FindNextUserEntry.
Yields(k) == ~Hidden(k) /\ ~Deleted(k) /\ ~(skip.skipping /\ UserKey(k) <= db.saved_key)

FindNextUserEntry ==
    LET k == KeyOf(iter)
        it == NextMerged(iter)
        deletes == ~Hidden(k) /\ Deleted(k)
    IN
    /\ pc = "next"
    /\ \/ /\ Yields(k)
          /\ db' = [db EXCEPT !.valid = TRUE, !.saved_key = 0]
          /\ pc' = "idle"
          /\ UNCHANGED <<iter, skip>>
       \/ /\ ~Yields(k)
          /\ iter' = it
          /\ skip' = IF deletes THEN [skip EXCEPT !.skipping = TRUE] ELSE skip
          /\ pc' = IF Valid(it) THEN "next" ELSE "idle"
          /\ db' = IF ~Valid(it) THEN [db EXCEPT !.valid = FALSE, !.saved_key = 0]
                   ELSE IF deletes THEN [db EXCEPT !.saved_key = UserKey(k)] ELSE db
    /\ UNCHANGED <<plan, written, want>>

\* One round of the loop of Prev: back to before the entries of the key.
Rewind ==
    LET it == PrevMerged(iter) IN
    /\ pc = "rewind"
    /\ \/ /\ ~Valid(it)
          /\ db' = [db EXCEPT !.valid = FALSE, !.saved_key = 0, !.saved_value = 0]
          /\ pc' = "idle"
          /\ iter' = it
          /\ UNCHANGED skip
       \/ /\ Valid(it) /\ UserKey(KeyOf(it)) < db.saved_key
          /\ FindPrev(it)
       \/ /\ Valid(it) /\ UserKey(KeyOf(it)) >= db.saved_key
          /\ iter' = it
          /\ UNCHANGED <<db, pc, skip>>
    /\ UNCHANGED <<plan, written, want>>

\* One round of FindPrevUserEntry, or what follows the last one.
FindPrevUserEntry ==
    LET k == KeyOf(iter)
        found == skip.value_type = "value"
        ends == ~Valid(iter) \/ (~Hidden(k) /\ found /\ UserKey(k) < db.saved_key)
        saved == [db EXCEPT !.saved_key = IF Deleted(k) THEN 0 ELSE UserKey(k),
                            !.saved_value = IF Deleted(k) THEN 0 ELSE Sequence(k)]
    IN
    /\ pc = "prev"
    /\ \/ /\ ends
          /\ pc' = "idle"
          /\ db' = IF found THEN [db EXCEPT !.valid = TRUE]
                   ELSE [valid |-> FALSE, direction |-> "forward", saved_key |-> 0,
                         saved_value |-> 0]
          /\ UNCHANGED <<iter, skip>>
       \/ /\ ~ends
          /\ db' = IF Hidden(k) THEN db ELSE saved
          /\ skip' = IF Hidden(k) THEN skip
                     ELSE [skip EXCEPT !.value_type = IF Deleted(k) THEN "deletion" ELSE "value"]
          /\ iter' = PrevMerged(iter)
          /\ UNCHANGED pc
    /\ UNCHANGED <<plan, written, want>>

Operation == SeekToFirst \/ SeekToLast \/ MoveNext \/ MovePrev \/ \E k \in Key : Seek(k)
Loop == FindNextUserEntry \/ Rewind \/ FindPrevUserEntry
Next == Operation \/ Loop \/ Write

\* The caller's thread runs; the other threads may stop writing.
Spec == Init /\ [][Next]_vars

-----------------------------------------------------------------------------
(* Properties *)

Answer == IF want = 0 THEN <<0, 0>> ELSE <<plan.writes[want].key, want>>

\* Whatever is written meanwhile and however the caller turns back and forth, an operation of
\* DBIter ends at the key and value it should have at the iterator's sequence number
\* (db/db_iter.cc, table/merger.cc), unless status() tells of a block that could not be read.
AnswersRight == pc = "idle" => (Current = Answer \/ Status(iter) = "error")

=============================================================================
