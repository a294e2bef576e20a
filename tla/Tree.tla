-------------------------------- MODULE Tree --------------------------------
(***************************************************************************)
(* The tables of a LevelDB in their levels (db/version_set.cc): where a    *)
(* memtable goes, which files a compaction takes, what it keeps and where  *)
(* it cuts its output, and how Version::Get looks a key up at a snapshot.  *)
(*                                                                         *)
(* An entry is <<user key, sequence number, deleted>>; the sequence number *)
(* stands for the value.  An internal key is the integer IKey: it orders   *)
(* entries by user key and, for one user key, the newest first.  The size  *)
(* of a table is its number of entries.                                    *)
(*                                                                         *)
(* A compaction captures its inputs when it starts; all it writes follows  *)
(* from them, so its output is computed when it is installed.  Between     *)
(* the two a memtable may be flushed (DoCompactionWork), snapshots come    *)
(* and go.  Threads are the subject of module Engine.                      *)
(***************************************************************************)
EXTENDS Integers, Sequences, FiniteSets, SequencesExt, FiniteSetsExt

CONSTANTS
    Key,                    \* user keys: an interval of positive numbers
    Plan,                   \* the courses to explore: what is written, and what happens
    MaxWrites,
    NumLevels, MaxMemCompactLevel, L0_CompactionTrigger,
    MaxFileSize,            \* kTargetFileSize, in entries
    MaxGrandParentOverlap, ExpandedLimit,
    MaxBytes, LevelRatio,   \* bytes of level 1; how much more each next one takes
    None

ASSUME TreeAssumption ==
    /\ Key = 1..Cardinality(Key) /\ Key # {}
    /\ {MaxWrites, MaxFileSize, L0_CompactionTrigger, MaxBytes, LevelRatio} \subseteq Nat \ {0}
    /\ {MaxGrandParentOverlap, ExpandedLimit} \subseteq Nat
    /\ MaxMemCompactLevel < NumLevels

VARIABLES
    plan,               \* [writes, snapshots, seeks, manual, cuts, gaps]: see TakeSnapshot,
                        \* Charge, StartManual, MayCut and Flush
    hist,               \* every entry written, in order
    mem,                \* the memtables
    files,              \* files_ of the current Version: tables [number, entries] by
                        \* level, in the order of their smallest keys
    next_file_number_,
    compact_pointer_,   \* largest internal key of the last compaction of each level
    file_to_compact_,   \* [level, file] of the current Version, or None
    snapshots_,
    compaction          \* the Compaction at work, or None

vars == <<plan, hist, mem, files, next_file_number_, compact_pointer_, file_to_compact_,
          snapshots_, compaction>>

Level == 0..(NumLevels - 1)
LastSequence == Len(hist)

-----------------------------------------------------------------------------
(* Keys and files *)

IKey(key, seq) == key * (MaxWrites + 1) - seq
EntryKey(e) == IKey(e[1], e[2])
UserKey(ikey) == (ikey + MaxWrites) \div (MaxWrites + 1)

SmallestOf(f) == Min({EntryKey(e) : e \in f.entries})
LargestOf(f) == Max({EntryKey(e) : e \in f.entries})
First(f) == UserKey(SmallestOf(f))
Final(f) == UserKey(LargestOf(f))
TotalFileSize(fs) == FoldLeft(LAMBDA sum, f : sum + Cardinality(f.entries), 0, fs)

SortedBy(rank) ==
    [i \in 1..Cardinality(DOMAIN rank) |->
        CHOOSE x \in DOMAIN rank :
            Cardinality({y \in DOMAIN rank : rank[y] < rank[x]}) = i - 1]

\* VersionSet::Builder: the files of a level in the order of BySmallestKey.
Sorted(fs) == SortedBy([f \in fs |-> SmallestOf(f)])

Edited(deleted, level, added) ==
    [l \in Level |-> Sorted((Range(files[l]) \ deleted) \cup (IF l = level THEN added ELSE {}))]

\* AppendVersion: the counters of a Version begin anew.
NewVersion(deleted, level, added) ==
    files' = Edited(deleted, level, added) /\ file_to_compact_' = None

\* Index, from 0, of the first file whose largest key is not below ikey.
FindFile(fs, ikey) ==
    LET search[left \in 0..Len(fs), right \in 0..Len(fs)] ==
            LET mid == (left + right) \div 2 IN
            IF left >= right THEN right
            ELSE IF LargestOf(fs[mid + 1]) < ikey THEN search[mid + 1, right]
            ELSE search[left, mid]
    IN search[0, Len(fs)]

\* Files that hold a user key between first and last.
OverlapsStrictly(f, first, last) == Final(f) > first /\ First(f) < last   \* mutant
Overlaps(f, first, last) == Final(f) >= first /\ First(f) <= last

SomeFileOverlapsRange(level, first, last) ==
    LET fs == files[level]
        index == FindFile(fs, IKey(first, MaxWrites))
    IN IF level = 0 THEN \E f \in Range(fs) : Overlaps(f, first, last)
       ELSE index < Len(fs) /\ First(fs[index + 1]) <= last

\* In level 0 the range grows with the files that overlap it.
GetOverlappingInputs(level, first, last) ==
    LET bound == 0..(Cardinality(Key) + 1)
        take[a \in bound, b \in bound] ==
            LET fs == SelectSeq(files[level], LAMBDA f : Overlaps(f, a, b))
                lo == Min({a} \cup {First(f) : f \in Range(fs)})
                hi == Max({b} \cup {Final(f) : f \in Range(fs)})
            IN IF level > 0 \/ (lo = a /\ hi = b) THEN fs ELSE take[lo, hi]
    IN take[first, last]

PickLevelForMemTableOutput(first, last) ==
    LET Free(l) == ~ SomeFileOverlapsRange(l, first, last)
        Pushes(l) ==        \* from level l to the next one
            /\ Free(l + 1)
            /\ l + 2 < NumLevels => TotalFileSize(GetOverlappingInputs(l + 2, first, last))
                                        <= MaxGrandParentOverlap
    IN IF Free(0)
       THEN Max({l \in 0..MaxMemCompactLevel : \A m \in 0..(l - 1) : Pushes(m)})
       ELSE 0

-----------------------------------------------------------------------------
(* Version::Get *)

\* The files of level 0 that may hold a key, NewestFirst.
Level0Candidates(key) ==
    LET fs == SortedBy([f \in {g \in Range(files[0]) : Overlaps(g, key, key)} |-> - f.number])
    IN [i \in DOMAIN fs |-> [level |-> 0, file |-> fs[i]]]

\* The one file of another level that may.
LevelCandidate(level, key, seq) ==
    LET index == FindFile(files[level], IKey(key, seq)) IN
    IF index < Len(files[level]) /\ First(files[level][index + 1]) <= key
    THEN <<[level |-> level, file |-> files[level][index + 1]]>> ELSE <<>>

Candidates(key, seq) ==
    FoldLeft(LAMBDA all, l : all \o LevelCandidate(l, key, seq), Level0Candidates(key),
             [l \in 1..(NumLevels - 1) |-> l])

\* The first entry of a table at or after the internal key, if it is the user
\* key's (TableCache::Get, SaveValue).
Found(entries, key, seq) ==
    LET after == {e \in entries : EntryKey(e) >= IKey(key, seq)} IN
    {e \in after : e[1] = key /\ \A d \in after : EntryKey(e) <= EntryKey(d)}

Answer(found) == {e \in found : ~ e[3]}

Get(key, seq) ==
    LET candidates == Candidates(key, seq)
        places == <<mem>> \o [i \in DOMAIN candidates |-> candidates[i].file.entries]
        hit == SelectInSeq(places, LAMBDA p : Found(p, key, seq) # {})
    IN IF hit = 0 THEN {} ELSE Answer(Found(places[hit], key, seq))

-----------------------------------------------------------------------------
(* Choosing a compaction *)

MaxBytesForLevel(level) == MaxBytes * LevelRatio ^ (level - 1)

\* VersionSet::Finalize compares quotients: here both are brought to one
\* denominator.  The first of the highest scores wins.
Score(level) ==
    IF level = 0 THEN <<Len(files[0]), L0_CompactionTrigger>>
    ELSE <<TotalFileSize(files[level]), MaxBytesForLevel(level)>>
Higher(p, q) == p[1] * q[2] > q[1] * p[2]
CompactionLevel ==
    CHOOSE l \in 0..(NumLevels - 2) :
        /\ \A m \in 0..(NumLevels - 2) : ~ Higher(Score(m), Score(l))
        /\ \A m \in 0..(l - 1) : Higher(Score(l), Score(m))
SizeCompaction == Score(CompactionLevel)[1] >= Score(CompactionLevel)[2]
NeedsCompaction == SizeCompaction \/ file_to_compact_ # None

\* GetRange in user keys.
From(fs) == Min({First(f) : f \in Range(fs)})
To(fs) == Max({Final(f) : f \in Range(fs)})

\* PickCompaction: round robin in a level that is too large.
NextInLevel(level) ==
    LET after == SelectInSeq(files[level], LAMBDA f : LargestOf(f) > compact_pointer_[level])
    IN files[level][IF after = 0 THEN 1 ELSE after]

Picked ==
    LET level == IF SizeCompaction THEN CompactionLevel ELSE file_to_compact_.level
        f == IF SizeCompaction THEN NextInLevel(level) ELSE file_to_compact_.file
    IN [level |-> level,
        inputs |-> IF level = 0 THEN GetOverlappingInputs(0, First(f), Final(f)) ELSE <<f>>]

\* CompactRange takes no more than a file's worth of a level above 0.
Limited(level, fs) ==
    LET enough == {i \in DOMAIN fs : TotalFileSize(SubSeq(fs, 1, i)) >= MaxFileSize} IN
    IF level = 0 \/ enough = {} THEN fs ELSE SubSeq(fs, 1, Min(enough))

\* SetupOtherInputs: the files of the next level, then more of this level if
\* that adds none to the next.
Inputs(level, inputs0) ==
    LET inputs1 == GetOverlappingInputs(level + 1, From(inputs0), To(inputs0))
        all == inputs0 \o inputs1
        expanded0 == GetOverlappingInputs(level, From(all), To(all))
        expanded1 == GetOverlappingInputs(level + 1, From(expanded0), To(expanded0))
    IN IF /\ inputs1 # <<>> /\ Len(expanded0) > Len(inputs0)
          /\ TotalFileSize(inputs1) + TotalFileSize(expanded0) < ExpandedLimit
          /\ Len(expanded1) = Len(inputs1)
       THEN <<expanded0, expanded1>> ELSE <<inputs0, inputs1>>

Grandparents(level, inputs) ==
    LET all == inputs[1] \o inputs[2] IN
    IF level + 2 < NumLevels THEN GetOverlappingInputs(level + 2, From(all), To(all)) ELSE <<>>

IsTrivialMoveAny(inputs, grandparents) ==          \* mutant: the next level is not looked at
    Len(inputs[1]) = 1 /\ TotalFileSize(grandparents) <= MaxGrandParentOverlap
IsTrivialMove(inputs, grandparents) ==
    /\ Len(inputs[1]) = 1 /\ inputs[2] = <<>>
    /\ TotalFileSize(grandparents) <= MaxGrandParentOverlap

SmallestSnapshot == IF snapshots_ = {} THEN LastSequence ELSE Min(snapshots_)

Compaction(level, inputs0, manual) ==
    LET inputs == Inputs(level, inputs0) IN
    [level |-> level, manual |-> manual, inputs |-> inputs,
     grandparents |-> Grandparents(level, inputs),
     smallest_snapshot |-> SmallestSnapshot,
     base |-> files]                    \* input_version_

-----------------------------------------------------------------------------
(* DoCompactionWork *)

\* No deeper level of the input version can hold the key.
IsBaseLevelBelow(c, key) ==         \* mutant: one level too deep
    \A l \in (c.level + 3)..(NumLevels - 1) :
        ~ \E f \in Range(c.base[l]) : Overlaps(f, key, key)
IsBaseLevelForKey(c, key) ==
    \A l \in (c.level + 2)..(NumLevels - 1) :
        ~ \E f \in Range(c.base[l]) : Overlaps(f, key, key)

\* An older entry nobody can see, or a deletion mark with nothing below it.
Dropped(c, e, newer) ==
    \/ newer <= c.smallest_snapshot
    \/ e[3] /\ e[2] <= c.smallest_snapshot /\ IsBaseLevelForKey(c, e[1])

\* Bytes of the grandparents passed since the output was opened.
Passed(c, work, e) ==
    LET gone == {i \in DOMAIN c.grandparents : i > work.index
                                               /\ LargestOf(c.grandparents[i]) < EntryKey(e)}
    IN [index |-> work.index + Cardinality(gone),
        bytes |-> IF work.seen
                  THEN work.bytes + TotalFileSize(SubSeq(c.grandparents, work.index + 1,
                                                         work.index + Cardinality(gone)))
                  ELSE work.bytes]

\* An output may end between two entries of one user key: with "keys" it does
\* not.
MayCut(output, e) == plan.cuts = "anywhere" \/ \A o \in output : o[1] # e[1]

\* The loop over the input, for one entry.
Step(c, work, e) ==
    LET passed == Passed(c, work, e)
        stop == passed.bytes > MaxGrandParentOverlap        \* ShouldStopBefore
        full == Cardinality(work.output) >= MaxFileSize
        cut == work.output # {} /\ (stop \/ full) /\ MayCut(work.output, e)
        newer == IF work.key = e[1] THEN work.newer ELSE MaxWrites + 1
        kept == IF Dropped(c, e, newer) THEN {} ELSE {e}
    IN [index |-> passed.index, bytes |-> IF stop THEN 0 ELSE passed.bytes, seen |-> TRUE,
        key |-> e[1], newer |-> e[2],
        outputs |-> IF cut THEN Append(work.outputs, work.output) ELSE work.outputs,
        output |-> IF cut THEN kept ELSE work.output \cup kept]

\* The entries of the inputs, merged.
InputIterator(c) ==
    LET entries == UNION {f.entries : f \in Range(c.inputs[1] \o c.inputs[2])}
    IN  SortedBy([e \in entries |-> EntryKey(e)])

\* The tables it writes, in order.
Outputs(c) ==
    LET work == FoldLeft(LAMBDA w, e : Step(c, w, e),
                         [index |-> 0, bytes |-> 0, seen |-> FALSE, key |-> None,
                          newer |-> MaxWrites + 1, outputs |-> <<>>, output |-> {}], InputIterator(c))
    IN IF work.output = {} THEN work.outputs ELSE Append(work.outputs, work.output)

-----------------------------------------------------------------------------

Init ==
    /\ plan \in Plan
    /\ hist = <<>> /\ mem = {}
    /\ files = [l \in Level |-> <<>>]
    /\ next_file_number_ = 1
    /\ compact_pointer_ = [l \in Level |-> 0]
    /\ file_to_compact_ = None
    /\ snapshots_ = {} /\ compaction = None

\* The next write of the plan: [key, deleted].
Write ==
    /\ Len(hist) < Len(plan.writes)
    /\ LET write == plan.writes[Len(hist) + 1]
           e == <<write.key, Len(hist) + 1, write.deleted>>
       IN hist' = Append(hist, e) /\ mem' = mem \cup {e}
    /\ UNCHANGED <<plan, files, next_file_number_, compact_pointer_, file_to_compact_,
                   snapshots_, compaction>>

\* CompactMemTable.  A manual compaction may take files with a gap between
\* them; unless the plan says so no memtable is flushed meanwhile.
Flush ==
    /\ mem # {}
    /\ plan.gaps \/ ~ (compaction # None /\ compaction.manual)
    /\ LET f == [number |-> next_file_number_, entries |-> mem] IN
       NewVersion({}, PickLevelForMemTableOutput(First(f), Final(f)), {f})
    /\ next_file_number_' = next_file_number_ + 1
    /\ mem' = {}
    /\ UNCHANGED <<plan, hist, compact_pointer_, snapshots_, compaction>>

TakeSnapshot ==
    /\ plan.snapshots > 0 /\ LastSequence > 0 /\ LastSequence \notin snapshots_
    /\ plan' = [plan EXCEPT !.snapshots = @ - 1]
    /\ snapshots_' = snapshots_ \cup {LastSequence}
    /\ UNCHANGED <<hist, mem, files, next_file_number_, compact_pointer_, file_to_compact_,
                   compaction>>

ReleaseSnapshot ==
    /\ \E seq \in snapshots_ : snapshots_' = snapshots_ \ {seq}
    /\ UNCHANGED <<plan, hist, mem, files, next_file_number_, compact_pointer_,
                   file_to_compact_, compaction>>

\* UpdateStats, when the first of several files a read looked in has no
\* allowed seeks left.
Charge(key) ==
    /\ plan.seeks > 0 /\ file_to_compact_ = None
    /\ LET read == Candidates(key, LastSequence) IN
       Len(read) > 1 /\ file_to_compact_' = read[1]
    /\ plan' = [plan EXCEPT !.seeks = @ - 1]
    /\ UNCHANGED <<hist, mem, files, next_file_number_, compact_pointer_, snapshots_,
                   compaction>>

\* The pointer moves before the compaction has succeeded.
Start(c) ==
    /\ compact_pointer_' = [compact_pointer_ EXCEPT
                               ![c.level] = Max({LargestOf(f) : f \in Range(c.inputs[1])})]
    /\ compaction' = c
    /\ UNCHANGED <<hist, mem, files, next_file_number_, file_to_compact_, snapshots_>>

StartCompaction ==
    /\ compaction = None /\ NeedsCompaction
    /\ Start(Compaction(Picked.level, Picked.inputs, FALSE))
    /\ UNCHANGED plan

StartManual ==
    /\ compaction = None /\ plan.manual > 0
    /\ \E level \in 0..(NumLevels - 2) : \E a, b \in {0} \cup Key \cup {Cardinality(Key) + 1} :
       LET fs == Limited(level, GetOverlappingInputs(level, a, b)) IN
       a <= b /\ fs # <<>> /\ Start(Compaction(level, fs, TRUE))
    /\ plan' = [plan EXCEPT !.manual = @ - 1]

\* A move changes the level of a file and nothing else.
Moves == ~ compaction.manual /\ IsTrivialMove(compaction.inputs, compaction.grandparents)

OutputLevelSame(c) == IF Moves THEN c.level ELSE c.level + 1    \* mutant: a move stays
OutputLevel(c) == c.level + 1

FinishCompaction ==
    /\ compaction # None
    /\ LET c == compaction
           gone == IF Moves THEN c.inputs[1] ELSE c.inputs[1] \o c.inputs[2]
           out == IF Moves THEN <<>> ELSE Outputs(c)
           made == IF Moves THEN Range(c.inputs[1])
                   ELSE {[number |-> next_file_number_ + i - 1, entries |-> out[i]] :
                            i \in DOMAIN out}
       IN /\ NewVersion(Range(gone), OutputLevel(c), made)
          /\ next_file_number_' = next_file_number_ + Len(out)
    /\ compaction' = None
    /\ UNCHANGED <<plan, hist, mem, compact_pointer_, snapshots_>>

Next ==
    \/ \E key \in Key : Charge(key)
    \/ Write \/ Flush \/ TakeSnapshot \/ ReleaseSnapshot
    \/ StartCompaction \/ StartManual \/ FinishCompaction

\* The background thread works on (MaybeScheduleCompaction): weak fairness of
\* its two actions, with their guards for ENABLED, which TLC evaluates faster.
Background == StartCompaction \/ FinishCompaction
HasWork == compaction # None \/ NeedsCompaction
Fairness == []<>(~ HasWork) \/ []<><<Background>>_vars
Spec == Init /\ [][Next]_vars /\ Fairness

-----------------------------------------------------------------------------

\* What a reader at seq must see of a key: its newest write, unless deleted.
Visible(key, seq) ==
    LET writes == {i \in 1..seq : hist[i][1] = key} IN
    IF writes = {} THEN {} ELSE Answer({hist[Max(writes)]})

Readable == snapshots_ \cup {LastSequence}

\* Every level, every file and every memtable considered, Get finds what was
\* written last before the snapshot: no compaction, move or flush puts an
\* older entry in front of a newer one, or drops what a snapshot needs.
ReadsRight == \A key \in Key, seq \in Readable : Get(key, seq) = Visible(key, seq)

\* The same for an iterator, which merges all entries: no deletion mark is
\* dropped while something older lies below it.
ScansRight ==
    LET all == mem \cup UNION {f.entries : f \in UNION {Range(files[l]) : l \in Level}} IN
    \A key \in Key, seq \in Readable : Answer(Found(all, key, seq)) = Visible(key, seq)

\* Files of a level above 0 do not overlap (the assertion of Builder::SaveTo).
LevelsDisjoint ==
    \A l \in Level \ {0} : \A i \in 1..(Len(files[l]) - 1) :
        LargestOf(files[l][i]) < SmallestOf(files[l][i + 1])

\* Compactions that follow from compactions come to an end.
CompactionsEnd == <>[](~ HasWork)

=============================================================================
