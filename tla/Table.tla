------------------------------- MODULE Table --------------------------------
(***************************************************************************)
(* A table file of a LevelDB: how TableBuilder cuts entries into blocks    *)
(* and names them in the index (table/table_builder.cc), how a block       *)
(* shares the prefixes of its keys between restart points                  *)
(* (table/block_builder.cc), and how an iterator of a block finds its way  *)
(* in it (table/block.cc).                                                 *)
(*                                                                         *)
(* A key is a sequence of numbers, the characters of a user key, with the  *)
(* sequence number of the entry at the end.  An entry of a block is        *)
(* [shared, delta, value]; offsets are numbers of entries.  The value of   *)
(* an entry is its key, the value of an index entry the number of a block. *)
(***************************************************************************)
EXTENDS Integers, Sequences, FiniteSets, SequencesExt

CONSTANTS
    Key,                    \* keys that may be added
    MaxChar, MaxSequence,   \* 0xff and kMaxSequenceNumber
    block_size,             \* in characters of key deltas
    block_restart_interval,
    NULL

TableAssumption ==
    /\ {MaxChar, MaxSequence, block_size, block_restart_interval} \subseteq Nat \ {0}
    /\ \A k \in Key : k # <<>> /\ k[Len(k)] \in 0..MaxSequence

VARIABLES
    builder,    \* the TableBuilder: [added, data_block, index_block, last_key, pending, file]
    table,      \* [blocks, index] of the finished table, or NULL
    iter        \* an iterator of one of its blocks: [block, current, restart_index, key,
                \* at]; at is the entry it should be at, 0 for none

vars == <<builder, table, iter>>

-----------------------------------------------------------------------------
(* Keys *)

User(k) == SubSeq(k, 1, Len(k) - 1)
Seqno(k) == k[Len(k)]

SharedLength(a, b) ==
    CHOOSE n \in 0..Len(a) :
        /\ n <= Len(b) /\ SubSeq(a, 1, n) = SubSeq(b, 1, n)
        /\ ~(n < Len(a) /\ n < Len(b) /\ a[n + 1] = b[n + 1])

\* BytewiseComparator, InternalKeyComparator
LessBytes(a, b) ==
    LET n == SharedLength(a, b) IN n < Len(b) /\ (n < Len(a) => a[n + 1] < b[n + 1])
Less(a, b) ==
    IF User(a) = User(b) THEN Seqno(a) > Seqno(b) ELSE LessBytes(User(a), User(b))

\* A shorter user key takes the largest sequence number.
ShortenedOnly(k, n) == Append(SubSeq(k, 1, n), MaxSequence)    \* mutant: not incremented
Shortened(k, n) == Append([SubSeq(k, 1, n) EXCEPT ![n] = @ + 1], MaxSequence)

FindShortestSeparator(start, limit) ==
    LET a == User(start)
        b == User(limit)
        n == SharedLength(a, b)
    IN  IF n < Len(a) /\ n < Len(b) /\ n + 1 < Len(a) /\ a[n + 1] + 1 < b[n + 1]
        THEN Shortened(start, n + 1) ELSE start

FindShortSuccessor(k) ==
    LET small == {n \in 1..(Len(k) - 1) : k[n] # MaxChar}
        n == CHOOSE m \in small : \A l \in small : m <= l
    IN  IF small # {} /\ n < Len(k) - 1 THEN Shortened(k, n) ELSE k

-----------------------------------------------------------------------------
(* BlockBuilder *)

EmptyBlock == [entries |-> <<>>, restarts |-> <<1>>, counter |-> 0, last_key |-> <<>>]

AddTo(b, key, value, interval) ==
    LET restart == b.counter >= interval
        shared == IF restart THEN 0 ELSE SharedLength(b.last_key, key)
        entry == [shared |-> shared, delta |-> SubSeq(key, shared + 1, Len(key)), value |-> value]
    IN  [entries |-> Append(b.entries, entry), last_key |-> key,
         restarts |-> IF restart THEN Append(b.restarts, Len(b.entries) + 1) ELSE b.restarts,
         counter |-> IF restart THEN 1 ELSE b.counter + 1]

CurrentSizeEstimate(b) == FoldLeft(LAMBDA sum, e : sum + Len(e.delta), 0, b.entries)
Finish(b) == [entries |-> b.entries, restarts |-> b.restarts]

-----------------------------------------------------------------------------
(* TableBuilder *)

NoEntries == [added |-> <<>>, data_block |-> EmptyBlock, index_block |-> EmptyBlock,
              last_key |-> <<>>, pending |-> FALSE, file |-> <<>>]

\* The index entry of a block is added when the first key after it is known.
AddIndex(b, key) ==
    [b EXCEPT !.index_block = AddTo(@, key, Len(b.file), 1), !.pending = FALSE]
Flush(b) ==
    IF b.data_block.entries = <<>> THEN b
    ELSE [b EXCEPT !.file = Append(@, Finish(b.data_block)), !.data_block = EmptyBlock,
                   !.pending = TRUE]

Added(b, key) ==
    LET indexed == IF b.pending THEN AddIndex(b, FindShortestSeparator(b.last_key, key)) ELSE b
        grown == [indexed EXCEPT !.data_block = AddTo(@, key, key, block_restart_interval),
                                 !.last_key = key, !.added = Append(@, key)]
    IN  IF CurrentSizeEstimate(grown.data_block) >= block_size THEN Flush(grown) ELSE grown

Finished(b) ==
    LET flushed == Flush(b) IN
    IF flushed.pending THEN AddIndex(flushed, FindShortSuccessor(flushed.last_key)) ELSE flushed

-----------------------------------------------------------------------------
(* Block::Iter: current and restart_index are beyond the block when it is not valid *)

Invalid(b) == [current |-> Len(b.entries) + 1, restart_index |-> Len(b.restarts) + 1, key |-> <<>>]
IsValid(b, it) == it.current <= Len(b.entries)

\* The key of an entry, parsed from a restart point on.
Parse(key, e) == SubSeq(key, 1, e.shared) \o e.delta
Parsed(b, restart, n) == FoldLeft(Parse, <<>>, SubSeq(b.entries, b.restarts[restart], n))

Least(S) == CHOOSE n \in S : \A m \in S : n <= m
Greatest(S) == CHOOSE n \in S : \A m \in S : m <= n

\* ParseNextKey moves restart_index on when it has passed the next restart point.
RestartIndex(b, from, n) ==
    Greatest({from} \cup {r \in DOMAIN b.restarts : r > from /\ b.restarts[r] < n})
At(b, restart, n) ==
    [current |-> n, restart_index |-> RestartIndex(b, restart, n), key |-> Parsed(b, restart, n)]

SeekToFirst(b) == At(b, 1, 1)
SeekToLast(b) == At(b, Len(b.restarts), Len(b.entries))

MoveNext(b, it) ==
    IF it.current = Len(b.entries) THEN Invalid(b)
    ELSE [current |-> it.current + 1, key |-> Parse(it.key, b.entries[it.current + 1]),
          restart_index |-> RestartIndex(b, it.restart_index, it.current + 1)]

MovePrev(b, it) ==
    LET before == {r \in 1..it.restart_index : b.restarts[r] < it.current} IN
    IF before = {} THEN Invalid(b) ELSE At(b, Greatest(before), it.current - 1)

\* The binary search for the last restart point whose key is less than the target.
RestartKey(b, r) == b.entries[b.restarts[r]].delta
Bisect(b, target) ==
    LET n == Len(b.restarts)
        search[left \in 1..n, right \in 0..n] ==
            LET mid == (left + right + 1) \div 2 IN
            IF left >= right THEN left
            ELSE IF Less(RestartKey(b, mid), target) THEN search[mid, right]
            ELSE search[left, mid - 1]
    IN  search[1, n]

SeekIn(b, target) ==
    LET r == Bisect(b, target)
        found == {n \in b.restarts[r]..Len(b.entries) : ~Less(Parsed(b, r, n), target)}
    IN  IF found = {} THEN Invalid(b) ELSE At(b, r, Least(found))

\* Table::InternalGet, and SaveValue, which wants the same user key.
InternalGet(target) ==
    LET i == SeekIn(table.index, target)
        b == table.blocks[table.index.entries[i.current].value]
        it == SeekIn(b, target)
    IN  IF IsValid(table.index, i) /\ IsValid(b, it) /\ User(it.key) = User(target)
        THEN it.key ELSE NULL

-----------------------------------------------------------------------------

Init ==
    /\ builder = NoEntries
    /\ table = NULL
    /\ iter = NULL

Add(key) ==
    /\ table = NULL
    /\ builder.last_key # <<>> => Less(builder.last_key, key)
    /\ builder' = Added(builder, key)
    /\ UNCHANGED <<table, iter>>

FinishTable ==
    LET b == Finished(builder) IN
    /\ table = NULL
    /\ builder.added # <<>>
    /\ builder' = b
    /\ table' = [blocks |-> b.file, index |-> Finish(b.index_block)]
    /\ UNCHANGED iter

Moved(b, it, at) == iter' = [block |-> b, at |-> at] @@ it
Block == table.blocks[iter.block]
Size == Len(Block.entries)

\* Where a seek should end: the first entry not less than the target.
Place(b, target) ==
    LET places == {n \in DOMAIN b.entries : ~Less(b.entries[n].value, target)} IN
    IF places = {} THEN 0 ELSE Least(places)

Position(b) ==
    LET block == table.blocks[b] IN
    /\ \/ Moved(b, SeekToFirst(block), 1)
       \/ Moved(b, SeekToLast(block), Len(block.entries))
       \/ \E k \in Key : Moved(b, SeekIn(block, k), Place(block, k))
    /\ UNCHANGED <<builder, table>>

Move ==
    /\ IsValid(Block, iter)
    /\ \/ Moved(iter.block, MoveNext(Block, iter), IF iter.at = Size THEN 0 ELSE iter.at + 1)
       \/ Moved(iter.block, MovePrev(Block, iter), iter.at - 1)
    /\ UNCHANGED <<builder, table>>

Next ==
    \/ \E k \in Key : Add(k)
    \/ FinishTable
    \/ table # NULL /\ \E b \in DOMAIN table.blocks : Position(b)
    \/ iter # NULL /\ Move

Spec == Init /\ [][Next]_vars

-----------------------------------------------------------------------------
(* Properties *)

\* An iterator of a block is at the entry it should be at after any moves to and fro, and shows
\* the key that was added, whichever restart point it was parsed from (table/block.cc:139-253).
MovesRight ==
    iter # NULL =>
        IF iter.at = 0 THEN ~IsValid(Block, iter)
        ELSE iter.current = iter.at /\ iter.key = Block.entries[iter.at].value

\* Get finds the newest entry of a user key that is not newer than the target, though the index
\* names blocks by keys that are in none of them (table/table.cc:225-254).
GetsRight ==
    LET added == Range(builder.added)
        right(target) == {k \in added : User(k) = User(target) /\ ~Less(k, target)}
    IN  table # NULL => \A target \in Key :
            InternalGet(target) = IF right(target) = {} THEN NULL
                                  ELSE CHOOSE k \in right(target) :
                                           \A l \in right(target) : ~Less(l, k)

\* The key of a block in the index is not before its last key, and before the first key of the
\* next block: what a two-level iterator relies on (table/table_builder.cc:33-41).
IndexSeparates ==
    table # NULL => \A i \in DOMAIN table.blocks :
        LET keys == [n \in DOMAIN table.blocks[i].entries |-> table.blocks[i].entries[n].value]
            limit == Parsed(table.index, i, i)
        IN  /\ ~Less(limit, keys[Len(keys)])
            /\ i < Len(table.blocks) => Less(limit, table.blocks[i + 1].entries[1].value)

=============================================================================
