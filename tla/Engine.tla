------------------------------- MODULE Engine -------------------------------
(***************************************************************************)
(* The threads of one open LevelDB (db/db_impl.cc) that share mutex_:      *)
(* writers that queue and commit in groups, readers, callers of            *)
(* CompactRange, the one background thread of the environment              *)
(* (util/env_qt.cc), and the destructor.                                   *)
(*                                                                         *)
(* One action is what a thread does while it holds mutex_ once, or one     *)
(* piece of its work with mutex_ released: appending to the log, syncing   *)
(* it, inserting an entry, building a table, writing the descriptor.  The  *)
(* variable waits says on which condition variable a thread sleeps.        *)
(*                                                                         *)
(* An entry is <<sequence number, key>>: the number is its own value.  All *)
(* tables overlap, so a compaction takes every table of levels 0 and 1;    *)
(* the choice of files by key range is the business of module Tree.  A     *)
(* memtable is named by the number of the log that holds its writes.       *)
(***************************************************************************)
EXTENDS Integers, Sequences, FiniteSets, SequencesExt, Maps

CONSTANTS
    Writer, Reader, Compactor,      \* threads: Write, Get, CompactRange
    BatchOf,            \* the keys of the batch of each writer
    Plan,               \* the courses to explore: how many calls of which kind are
                        \* made, and which calls of the environment may fail
    MaxFaults,          \* bound on the calls that fail
    WriteBufferSize,    \* entries a memtable takes before it is full
    MaxBatchGroup,      \* entries in a group of writes
    L0_CompactionTrigger, L0_SlowdownWritesTrigger, L0_StopWritesTrigger,
    None

Thread == Writer \cup Compactor
Key == UNION {Range(BatchOf[w]) : w \in Writer}

ASSUME EngineAssumption ==
    /\ L0_CompactionTrigger \in Nat \ {0}
    /\ L0_CompactionTrigger <= L0_SlowdownWritesTrigger
    /\ L0_SlowdownWritesTrigger <= L0_StopWritesTrigger
    /\ WriteBufferSize \in Nat /\ MaxBatchGroup \in Nat \ {0}
    /\ IsFiniteSet(Reader) /\ Thread \cap Reader = {}
    /\ None \notin Thread \cup Reader \cup Nat

ASSUME BatchAssumption == \A x \in Writer : BatchOf[x] \in Seq(Key)

VARIABLES
    plan,               \* [recovered, calls, sync, seeks, close, faults]: the course taken
    faults,             \* how many calls have failed
    pc, waits,          \* of each thread; waits: "no", "own" or "bg"
    rounds,             \* writes or reads a thread has begun
    writers_, w,        \* the queue, and the Writer structure of each thread, with
                        \* what a NULL batch found in mem_
    group,              \* what the front writer logs: last writer, entries, ...
    LastSequence,
    mem_, imm_,         \* numbers of memtables; imm_ may be None
    table, mrefs,       \* contents and reference count of each memtable
    log, synced,        \* records of each log file, and how many are synced
    logfile_number_, LogNumber,
    version, current, vrefs,        \* Version objects, each with its refs
    file, pending_outputs_,         \* tables on disk, tables being made
    NextFile,
    bg,                 \* the background thread
    bg_compaction_scheduled_, bg_error_, manual_compaction_, manualDone,
    shutting_down_, seekCompaction,
    get,                \* what each reader holds and found
    committed,          \* every entry put into a memtable
    acked,              \* the entries of synchronous writes that returned OK
    crashed             \* a null pointer was followed

vars == <<plan, faults, pc, waits, rounds, writers_, w, group, LastSequence, mem_, imm_,
          table, mrefs, log, synced, logfile_number_, LogNumber, version, current, vrefs,
          file, pending_outputs_, NextFile, bg, bg_compaction_scheduled_, bg_error_,
          manual_compaction_, manualDone, shutting_down_, seekCompaction, get, committed,
          acked, crashed>>

queueVars == <<rounds, writers_, w, group>>
memVars == <<mem_, imm_, table, mrefs>>
logVars == <<log, synced, logfile_number_>>
versionVars == <<version, current, vrefs, LogNumber>>
fileVars == <<file, pending_outputs_>>
errorVars == <<bg_error_, shutting_down_, crashed, plan>>
manualVars == <<manual_compaction_, manualDone>>
readVars == <<get, seekCompaction>>
ghostVars == <<committed, acked>>
bgVars == <<bg, bg_compaction_scheduled_>>
storeVars == <<LastSequence, memVars, logVars, versionVars, fileVars, NextFile>>
quietVars == <<errorVars, manualVars, readVars, ghostVars>>

NoWriter == [batch |-> <<>>, sync |-> FALSE, done |-> FALSE, ok |-> TRUE, delay |-> FALSE,
             must |-> {}]
NoGroup == [last |-> 0, entries |-> <<>>, left |-> <<>>, ok |-> TRUE, syncError |-> FALSE]
NoGet == [at |-> "idle", key |-> None, held |-> None, snapshot |-> 0, mem |-> None,
          imm |-> None, version |-> 0]
Resting == [at |-> "none", ret |-> "none", number |-> 0, base |-> 0, level |-> 0, log |-> 0,
            input |-> 0, out |-> None, manual |-> FALSE, oldest |-> 0]

-----------------------------------------------------------------------------
(* DBImpl::DBImpl and DB::Open: an empty database, or one whose logs gave  *)
(* a table of level 0.                                                     *)

Recovered == IF plan.recovered THEN {<<1, k>> : k \in Key} ELSE {}

Init ==
    /\ plan \in Plan
    /\ faults = 0
    /\ pc = [t \in Thread |-> "idle"]
    /\ waits = [t \in Thread |-> "no"]
    /\ rounds = [t \in Thread \cup Reader |-> 0]
    /\ writers_ = <<>>
    /\ w = [t \in Thread |-> NoWriter]
    /\ group = NoGroup
    /\ LastSequence = (IF plan.recovered THEN 1 ELSE 0)
    /\ mem_ = 1 /\ imm_ = None
    /\ table = [m \in {1} |-> {}] /\ mrefs = [m \in {1} |-> 1]
    /\ log = [n \in {1} |-> <<>>] /\ synced = [n \in {1} |-> 0]
    /\ logfile_number_ = 1 /\ LogNumber = 1
    /\ version = [v \in {1} |-> <<IF plan.recovered THEN {0} ELSE {}, {}>>] /\ current = 1
    /\ vrefs = [v \in {1} |-> 1]
    /\ file = [f \in (IF plan.recovered THEN {0} ELSE {}) |-> Recovered] /\ pending_outputs_ = {}
    /\ NextFile = 2
    /\ bg_compaction_scheduled_ = (plan.recovered /\ L0_CompactionTrigger = 1)
    /\ bg = [Resting EXCEPT !.at = IF bg_compaction_scheduled_ THEN "scheduled" ELSE "none"]
    /\ bg_error_ = FALSE
    /\ manual_compaction_ = None /\ manualDone = [t \in Compactor |-> FALSE]
    /\ shutting_down_ = FALSE
    /\ seekCompaction = {}
    /\ get = [r \in Reader |-> NoGet]
    /\ committed = Recovered /\ acked = {}
    /\ crashed = FALSE

-----------------------------------------------------------------------------
(* The mutex, the condition variables and the background queue.            *)

\* The background thread keeps mutex_ from the end of its work to the end of
\* BackgroundCall, a writer from the queue to MakeRoomForWrite.
MutexFree == bg.at # "finish" /\ \A t \in Thread : pc[t] # "room"

Awake(t) == waits[t] = "no"

\* bg_cv_.SignalAll()
SignalAll(ws) == [t \in Thread |-> IF ws[t] = "bg" THEN "no" ELSE ws[t]]

\* Whether a call that may fail does so.
Fails(call, bad) ==
    /\ bad => call \in plan.faults /\ faults < MaxFaults
    /\ faults' = IF bad THEN faults + 1 ELSE faults

NumLevelFiles(level) == Cardinality(version[current][level + 1])

\* VersionSet::NeedsCompaction, with the score of Finalize.
NeedsCompaction(v, cur, seeks) ==
    Cardinality(v[cur][1]) >= L0_CompactionTrigger \/ cur \in seeks

\* Mutant of MaybeScheduleCompaction: only a full memtable is work.
MaybeScheduleFlush(scheduled, error, imm, manual, v, cur, seeks) ==
    scheduled \/ (~shutting_down_ /\ ~error /\ imm # None)

\* DBImpl::MaybeScheduleCompaction, from the values after the step.  The
\* queue of the background thread (Env::Schedule) holds at most this call.
MaybeScheduleCompaction(scheduled, error, imm, manual, v, cur, seeks) ==
    scheduled \/ (/\ ~shutting_down_ /\ ~error
                  /\ imm # None \/ manual # None \/ NeedsCompaction(v, cur, seeks))

Schedules(error, imm, manual, v, cur, seeks) ==
    LET on == MaybeScheduleCompaction(bg_compaction_scheduled_, error, imm, manual,
                                      v, cur, seeks)
    IN /\ bg_compaction_scheduled_' = on
       /\ bg' = IF on /\ ~bg_compaction_scheduled_ THEN [bg EXCEPT !.at = "scheduled"] ELSE bg

-----------------------------------------------------------------------------
(* Reference counts.                                                       *)

\* MemTable::Unref
MemUnref(refs, m) == [refs EXCEPT ![m] = @ - 1]

Used(refs) == {m \in DOMAIN refs : refs[m] # 0}

\* Version::Unref: a version without references leaves the list.
Ref(refs, v) == [refs EXCEPT ![v] = @ + 1]
Unref(refs, v) == [refs EXCEPT ![v] = @ - 1]

SetVersions(vs, refs) ==
    /\ version' = Restrict(vs, Used(refs))
    /\ vrefs' = Restrict(refs, Used(refs))

SetMemTables(tables, refs) ==
    /\ table' = Restrict(tables, Used(refs))
    /\ mrefs' = Restrict(refs, Used(refs))

-----------------------------------------------------------------------------
(* DBImpl::Write and the calls of TEST_CompactMemTable that go through it. *)

\* A call of Write.  A NULL batch, here <<>>, asks for a new memtable.
Write(t, batch, sync) ==
    /\ MutexFree /\ pc[t] = "idle" /\ ~shutting_down_
    /\ rounds' = [rounds EXCEPT ![t] = @ + 1]
    /\ writers_' = Append(writers_, t)
    /\ w' = [w EXCEPT ![t] = [batch |-> batch, sync |-> sync, done |-> FALSE,
                              ok |-> TRUE, delay |-> batch # <<>>,
                              must |-> IF batch = <<>> THEN table[mem_] ELSE {}]]
    /\ pc' = [pc EXCEPT ![t] = IF writers_ = <<>> THEN "room" ELSE "queued"]
    /\ waits' = [waits EXCEPT ![t] = IF writers_ = <<>> THEN "no" ELSE "own"]
    /\ UNCHANGED <<faults, group, storeVars, bgVars, quietVars>>

Put(t) == t \in Writer /\ rounds[t] < plan.calls[t] /\ \E sync \in plan.sync : Write(t, BatchOf[t], sync)

\* DBImpl::CompactRange begins with TEST_CompactMemTable.
CompactRange(t) == t \in Compactor /\ rounds[t] < plan.calls[t] /\ Write(t, <<>>, FALSE)

\* What a thread does once its Write has returned.
After(t, ok) == IF t \in Writer THEN "idle" ELSE IF ok THEN "imm" ELSE "manual"

\* The loop on w.cv.
Woken(t) ==
    /\ MutexFree /\ pc[t] = "queued" /\ Awake(t)
    /\ CASE w[t].done -> /\ pc' = [pc EXCEPT ![t] = After(t, w[t].ok)]
                         /\ w' = [w EXCEPT ![t] = [NoWriter EXCEPT !.must = w[t].must]]
                         /\ UNCHANGED waits
         [] ~w[t].done /\ Head(writers_) = t -> /\ pc' = [pc EXCEPT ![t] = "room"]
                                                /\ UNCHANGED <<w, waits>>
         [] OTHER -> /\ waits' = [waits EXCEPT ![t] = "own"]
                     /\ UNCHANGED <<w, pc>>
    /\ UNCHANGED <<faults, rounds, writers_, group, storeVars, bgVars, quietVars>>

\* Whom the end of Write signals: those it is done for, and the new front.
Told(done, rest) == done \cup {rest[i] : i \in 1..Min({1, Len(rest)})}

\* The end of Write: the front writer takes the first k writers off the queue,
\* tells them how it went, and wakes the new front.
Complete(t, k, ok, ws) ==
    LET done == {writers_[i] : i \in 1..k} \ {t}
        rest == [i \in 1..(Len(writers_) - k) |-> writers_[k + i]]
        told == Told(done, rest)
    IN /\ writers_' = rest
       /\ w' = [x \in Thread |-> IF x \in done THEN [w[x] EXCEPT !.done = TRUE, !.ok = ok]
                                 ELSE IF x = t THEN [NoWriter EXCEPT !.must = w[t].must]
                                 ELSE w[x]]
       /\ waits' = [x \in Thread |-> IF x \in told /\ ws[x] = "own" THEN "no" ELSE ws[x]]
       /\ pc' = [pc EXCEPT ![t] = After(t, ok)]
       /\ acked' = IF ok THEN acked \cup {e \in Range(group.entries) : e[3]} ELSE acked
       /\ group' = NoGroup

\* The entries of the first i writers of the queue.
GroupSize(i) == FoldSeq(LAMBDA x, n : Len(w[x].batch) + n, 0, SubSeq(writers_, 1, i))

\* Mutant of Joins: a synchronous write joins any group.
JoinsAny(i) == w[writers_[i]].batch # <<>> => GroupSize(i) <= MaxBatchGroup

\* A synchronous write does not join a group that is not, and a group is not too long.
Joins(i) ==
    /\ w[writers_[i]].sync => w[writers_[1]].sync
    /\ w[writers_[i]].batch # <<>> => GroupSize(i) <= MaxBatchGroup

\* DBImpl::BuildBatchGroup: the writers at the front that are logged together.
BatchGroup == Max({k \in 1..Len(writers_) : \A i \in 2..k : Joins(i)})

\* The entries of x, each marked when x asked for a sync.
Marked(x) == [i \in 1..Len(w[x].batch) |-> <<w[x].batch[i], w[x].sync>>]

\* The entries of the group, numbered from LastSequence + 1.
GroupEntries(k) ==
    LET flat == FlattenSeq([i \in 1..k |-> Marked(writers_[i])])
    IN [i \in 1..Len(flat) |-> <<LastSequence + i, flat[i][1], flat[i][2]>>]

StartLog(t) ==
    /\ group' = LET k == BatchGroup
                IN [last |-> k, entries |-> GroupEntries(k), left |-> GroupEntries(k),
                    ok |-> TRUE, syncError |-> FALSE]
    /\ pc' = [pc EXCEPT ![t] = "log"]
    /\ waits' = waits
    /\ UNCHANGED <<writers_, w, acked>>

\* DBImpl::MakeRoomForWrite, one turn of its loop.  A thread at "room" comes
\* straight from the queue and holds mutex_.
InRoom(t) ==
    \/ pc[t] = "room"
    \/ pc[t] \in {"roomsleep", "roomwait"} /\ Awake(t) /\ MutexFree

HasRoom(t) == w[t].batch # <<>> /\ Cardinality(table[mem_]) <= WriteBufferSize

RoomError(t) ==
    /\ InRoom(t) /\ bg_error_
    /\ Complete(t, 1, FALSE, waits)
    /\ UNCHANGED <<faults, rounds, storeVars, bgVars, errorVars, manualVars, readVars, committed>>

Delayed(t) == w[t].delay /\ NumLevelFiles(0) >= L0_SlowdownWritesTrigger

RoomDelay(t) ==
    /\ InRoom(t) /\ ~bg_error_ /\ Delayed(t)
    /\ pc' = [pc EXCEPT ![t] = "roomsleep"]
    /\ w' = [w EXCEPT ![t].delay = FALSE]
    /\ UNCHANGED <<faults, waits, rounds, writers_, group, storeVars, bgVars, quietVars>>

RoomFound(t) ==
    /\ InRoom(t) /\ ~bg_error_ /\ ~Delayed(t) /\ HasRoom(t)
    /\ StartLog(t)
    /\ UNCHANGED <<faults, rounds, storeVars, bgVars, errorVars, manualVars, readVars, committed>>

MustWait == imm_ # None \/ NumLevelFiles(0) >= L0_StopWritesTrigger

RoomWait(t) ==
    /\ InRoom(t) /\ ~bg_error_ /\ ~Delayed(t) /\ ~HasRoom(t) /\ MustWait
    /\ pc' = [pc EXCEPT ![t] = "roomwait"]
    /\ waits' = [waits EXCEPT ![t] = "bg"]
    /\ UNCHANGED <<faults, queueVars, storeVars, bgVars, quietVars>>

\* A new log and a new memtable; the turn of the loop after it finds room.
RoomSwitch(t, bad) ==
    /\ InRoom(t) /\ ~bg_error_ /\ ~Delayed(t) /\ ~HasRoom(t) /\ ~MustWait
    /\ Fails("newfile", bad)
    /\ IF bad
       THEN /\ Complete(t, 1, FALSE, waits)
            /\ UNCHANGED <<memVars, logVars, NextFile, bgVars>>
       ELSE /\ NextFile' = NextFile + 1
            /\ log' = With(log, NextFile, <<>>)
            /\ synced' = With(synced, NextFile, 0)
            /\ logfile_number_' = NextFile
            /\ imm_' = mem_
            /\ mem_' = NextFile
            /\ table' = With(table, NextFile, {})
            /\ mrefs' = With(mrefs, NextFile, 1)
            /\ Schedules(FALSE, mem_, manual_compaction_, version, current, seekCompaction)
            /\ IF w[t].batch # <<>> THEN StartLog(t) ELSE Complete(t, 1, TRUE, waits)
    /\ UNCHANGED <<rounds, LastSequence, versionVars, fileVars, errorVars, manualVars, readVars,
                   committed>>

\* log_->AddRecord, with mutex_ released.  A record whose flush fails is lost,
\* or stays in the buffer of the file and goes out with the next one.
AddRecord(t, bad) ==
    /\ pc[t] = "log" /\ Fails("addrecord", bad)
    /\ group' = IF bad THEN [group EXCEPT !.ok = FALSE] ELSE group
    /\ \/ log' = [log EXCEPT ![logfile_number_] = Append(@, Range(group.entries))]
       \/ bad /\ UNCHANGED log
    /\ pc' = [pc EXCEPT ![t] = IF bad THEN "commit" ELSE IF w[t].sync THEN "sync" ELSE "insert"]
    /\ UNCHANGED <<waits, rounds, writers_, w, LastSequence, memVars, synced, logfile_number_,
                   versionVars, fileVars, NextFile, bgVars, quietVars>>

\* logfile_->Sync
Sync(t, bad) ==
    /\ pc[t] = "sync" /\ Fails("sync", bad)
    /\ synced' = IF bad THEN synced
                 ELSE [synced EXCEPT ![logfile_number_] = Len(log[logfile_number_])]
    /\ group' = IF bad THEN [group EXCEPT !.ok = FALSE, !.syncError = TRUE] ELSE group
    /\ pc' = [pc EXCEPT ![t] = IF bad THEN "commit" ELSE "insert"]
    /\ UNCHANGED <<waits, rounds, writers_, w, LastSequence, memVars, log, logfile_number_,
                   versionVars, fileVars, NextFile, bgVars, quietVars>>

\* WriteBatchInternal::InsertInto, one entry, with mutex_ released.
Insert(t) ==
    /\ pc[t] = "insert"
    /\ LET e == <<Head(group.left)[1], Head(group.left)[2]>>
       IN /\ table' = [table EXCEPT ![mem_] = @ \cup {e}]
          /\ committed' = committed \cup {e}
    /\ group' = [group EXCEPT !.left = Tail(@)]
    /\ pc' = [pc EXCEPT ![t] = IF Len(group.left) = 1 THEN "commit" ELSE "insert"]
    /\ UNCHANGED <<faults, waits, rounds, writers_, w, LastSequence, mem_, imm_, mrefs, logVars,
                   versionVars, fileVars, NextFile, bgVars, errorVars, manualVars, readVars, acked>>

\* mutex_ is taken again; the numbers are used up even when the log failed.
Commit(t) ==
    /\ MutexFree /\ pc[t] = "commit"
    /\ LastSequence' = LastSequence + Len(group.entries)
    /\ bg_error_' = (bg_error_ \/ group.syncError)
    /\ Complete(t, group.last, group.ok,
                IF group.syncError /\ ~bg_error_ THEN SignalAll(waits) ELSE waits)
    /\ UNCHANGED <<faults, rounds, memVars, logVars, versionVars, fileVars, NextFile, bgVars,
                   shutting_down_, crashed, plan, manualVars, readVars, committed>>

-----------------------------------------------------------------------------
(* The rest of CompactRange: TEST_CompactMemTable, TEST_CompactRange.      *)

\* TEST_CompactMemTable waits until the compaction of imm_ completes.
WaitImm(t) ==
    /\ MutexFree /\ pc[t] = "imm" /\ Awake(t)
    /\ IF imm_ # None /\ ~bg_error_
       THEN waits' = [waits EXCEPT ![t] = "bg"] /\ UNCHANGED pc
       ELSE pc' = [pc EXCEPT ![t] = "manual"] /\ UNCHANGED waits
    /\ UNCHANGED <<faults, queueVars, storeVars, bgVars, quietVars>>

\* Mutant of KeepsWaiting: a caller that is woken gives up.
KeepsWaitingOnce(t) == manual_compaction_ = None /\ ~manualDone[t] /\ ~shutting_down_ /\ ~bg_error_

KeepsWaiting(t) == ~manualDone[t] /\ ~shutting_down_ /\ ~bg_error_

\* TEST_CompactRange(0): ask, wait, and take back the request on the way out.
CompactLevel(t) ==
    /\ MutexFree /\ pc[t] = "manual" /\ Awake(t)
    /\ IF KeepsWaiting(t)
       THEN /\ waits' = [waits EXCEPT ![t] = "bg"]
            /\ manual_compaction_' = IF manual_compaction_ = None THEN t ELSE manual_compaction_
            /\ IF manual_compaction_ = None
               THEN Schedules(bg_error_, imm_, t, version, current, seekCompaction)
               ELSE UNCHANGED <<bgVars>>
            /\ UNCHANGED <<pc, manualDone>>
       ELSE /\ pc' = [pc EXCEPT ![t] = "idle"]
            /\ manual_compaction_' = IF manual_compaction_ = t THEN None ELSE manual_compaction_
            /\ manualDone' = [manualDone EXCEPT ![t] = FALSE]
            /\ UNCHANGED <<waits, bgVars>>
    /\ UNCHANGED <<faults, queueVars, storeVars, errorVars, readVars, ghostVars>>

-----------------------------------------------------------------------------
(* DBImpl::Get, GetSnapshot and ReleaseSnapshot.                           *)

\* Snapshots that readers hold; snapshots_.oldest() is the least of them.
Snapshots == {get[r].held : r \in Reader} \ {None}

GetSnapshot(r) ==
    /\ MutexFree /\ get[r].at = "idle" /\ get[r].held = None /\ rounds[r] < plan.calls[r]
    /\ ~shutting_down_
    /\ get' = [get EXCEPT ![r].held = LastSequence]
    /\ UNCHANGED <<faults, pc, waits, queueVars, storeVars, bgVars, errorVars, manualVars,
                   seekCompaction, ghostVars>>

ReleaseSnapshot(r) ==
    /\ MutexFree /\ get[r].at = "idle" /\ get[r].held # None
    /\ get' = [get EXCEPT ![r] = NoGet]
    /\ UNCHANGED <<faults, pc, waits, queueVars, storeVars, bgVars, errorVars, manualVars,
                   seekCompaction, ghostVars>>

\* Get takes references on the memtables and on the version, then reads them
\* with mutex_ released.
Get(r, key) ==
    /\ MutexFree /\ get[r].at = "idle" /\ rounds[r] < plan.calls[r] /\ ~shutting_down_
    /\ rounds' = [rounds EXCEPT ![r] = @ + 1]
    /\ get' = [get EXCEPT ![r] = [at |-> "reading", key |-> key, held |-> get[r].held,
                                  snapshot |-> IF get[r].held # None THEN get[r].held
                                                                     ELSE LastSequence,
                                  mem |-> mem_, imm |-> imm_, version |-> current]]
    /\ mrefs' = [m \in DOMAIN mrefs |-> mrefs[m] + (IF m \in {mem_, imm_} THEN 1 ELSE 0)]
    /\ vrefs' = Ref(vrefs, current)
    /\ UNCHANGED <<faults, pc, waits, writers_, w, group, LastSequence, mem_, imm_, table, logVars,
                   version, current, LogNumber, fileVars, NextFile, bgVars, errorVars, manualVars,
                   seekCompaction, ghostVars>>

\* Back under mutex_: UpdateStats may find that a table was sought in vain too
\* often, which asks for a compaction of the version that was read.
GetDone(r, seek) ==
    /\ MutexFree /\ get[r].at = "reading"
    /\ seek => plan.seeks /\ version[get[r].version][1] # {}
    /\ LET seeks == IF seek THEN seekCompaction \cup {get[r].version} ELSE seekCompaction
           held == {get[r].mem, get[r].imm}
       IN /\ seekCompaction' = seeks
          /\ IF seek THEN Schedules(bg_error_, imm_, manual_compaction_, version, current, seeks)
                     ELSE UNCHANGED <<bgVars>>
          /\ SetMemTables(table, [m \in DOMAIN mrefs |->
                                    mrefs[m] - (IF m \in held THEN 1 ELSE 0)])
          /\ SetVersions(version, Unref(vrefs, get[r].version))
    /\ get' = [get EXCEPT ![r] = [NoGet EXCEPT !.held = get[r].held]]
    /\ UNCHANGED <<faults, pc, waits, queueVars, LastSequence, mem_, imm_, logVars, current,
                   LogNumber, fileVars, NextFile, errorVars, manualVars, ghostVars>>

\* The newest entry for a key up to a number, 0 when there is none.
Newest(entries, key, number) ==
    LET found == {e[1] : e \in {x \in entries : x[2] = key /\ x[1] <= number}}
    IN IF found = {} THEN 0 ELSE Max(found)

Found(g, entries) == Newest(entries, g.key, g.snapshot)

\* The tables of a level that have the key; the newest of them answers.
Having(g, files) == {f \in files : Found(g, file[f]) # 0}

\* Get looks at mem, imm, the tables of level 0 from the newest to the oldest,
\* and level 1.  The first that has the key answers.
Answer(g) ==
    LET levels == version[g.version]
    IN CASE Found(g, table[g.mem]) # 0 -> Found(g, table[g.mem])
         [] Found(g, table[g.mem]) = 0 /\ g.imm # None /\ Found(g, table[g.imm]) # 0 ->
                Found(g, table[g.imm])
         [] OTHER -> LET level0 == Having(g, levels[1])
                         level1 == Having(g, levels[2])
                     IN IF level0 # {} THEN Found(g, file[Max(level0)])
                        ELSE IF level1 # {} THEN Found(g, file[Max(level1)]) ELSE 0

-----------------------------------------------------------------------------
(* The background thread.                                                  *)

\* VersionSet::AddLiveFiles: the tables of every version that is in use.
LiveFiles(vs) == UNION {vs[v][1] \cup vs[v][2] : v \in DOMAIN vs}

\* DBImpl::DeleteObsoleteFiles
DeleteObsoleteFiles(files, logs, vs, pending, logNumber, error) ==
    LET live == pending \cup LiveFiles(vs)
    IN IF error
       THEN file' = files /\ log' = logs /\ synced' = synced
       ELSE /\ file' = Restrict(files, DOMAIN files \cap live)
            /\ log' = Restrict(logs, {n \in DOMAIN logs : n >= logNumber})
            /\ synced' = Restrict(synced, {n \in DOMAIN logs : n >= logNumber})

\* Mutant of Pending: the number is not marked.
PendingNot(number) == pending_outputs_

Pending(number) == pending_outputs_ \cup {number}

\* CompactMemTable begins: WriteLevel0Table takes a number and releases mutex_.
StartFlush(ret) ==
    /\ bg' = [bg EXCEPT !.at = "build", !.ret = ret, !.number = NextFile, !.base = current]
    /\ NextFile' = NextFile + 1
    /\ pending_outputs_' = Pending(NextFile)
    /\ vrefs' = Ref(vrefs, current)

\* PickCompaction, or VersionSet::CompactRange for a manual compaction: what
\* is compacted at level 0, {} for nothing.
PickCompaction ==
    IF manual_compaction_ # None \/ NeedsCompaction(version, current, seekCompaction)
    THEN version[current][1] ELSE {}

\* Compaction::IsTrivialMove
IsTrivialMove(inputs) ==
    manual_compaction_ = None /\ Cardinality(inputs) = 1 /\ version[current][2] = {}

\* DBImpl::BackgroundCall up to where the work begins.
BackgroundCall ==
    /\ MutexFree /\ bg.at = "scheduled"
    /\ CASE shutting_down_ \/ bg_error_ ->
              /\ bg' = [bg EXCEPT !.at = "finish"]
              /\ UNCHANGED <<NextFile, pending_outputs_, vrefs, manualVars>>
         [] ~shutting_down_ /\ ~bg_error_ /\ imm_ # None ->
              StartFlush("finish") /\ UNCHANGED manualVars
         [] OTHER ->
              LET inputs == PickCompaction
                  isManual == manual_compaction_ # None
              IN /\ UNCHANGED <<NextFile, pending_outputs_>>
                 /\ IF inputs = {}
                    THEN /\ bg' = [bg EXCEPT !.at = "finish"]
                         /\ manualDone' = IF isManual
                                          THEN [manualDone EXCEPT ![manual_compaction_] = TRUE]
                                          ELSE manualDone
                         /\ manual_compaction_' = None
                         /\ UNCHANGED vrefs
                    ELSE /\ bg' = [bg EXCEPT !.at = IF IsTrivialMove(inputs) THEN "logMove"
                                                                             ELSE "work",
                                             !.input = current, !.manual = isManual,
                                             !.oldest = IF Snapshots = {} THEN LastSequence
                                                                          ELSE Min(Snapshots)]
                         /\ vrefs' = Ref(vrefs, current)
                         /\ UNCHANGED manualVars
    /\ UNCHANGED <<faults, pc, waits, queueVars, LastSequence, memVars, logVars, version, current,
                   LogNumber, file, bg_compaction_scheduled_, errorVars, readVars, ghostVars>>

\* RecordBackgroundError.  DoCompactionWork signals too after each flush.
RecordBackgroundError ==
    /\ bg_error_' = TRUE
    /\ waits' = IF bg_error_ /\ bg.ret # "work" THEN waits ELSE SignalAll(waits)

\* Mutant of Built: the status of BuildTable is not looked at.
BuiltUnchecked(bad) == ~shutting_down_

Built(bad) == ~bad /\ ~shutting_down_

\* BuildTable has written the table of imm_ and mutex_ is held again.
BuildTable(bad) ==
    /\ MutexFree /\ bg.at = "build" /\ Fails("build", bad)
    /\ pending_outputs_' = pending_outputs_ \ {bg.number}
    /\ SetVersions(version, Unref(vrefs, bg.base))
    /\ file' = IF bad \/ table[imm_] = {} THEN file ELSE With(file, bg.number, table[imm_])
    /\ IF ~Built(bad)
       THEN /\ bg' = [bg EXCEPT !.at = bg.ret]
            /\ RecordBackgroundError
       ELSE \* PickLevelForMemTableOutput, and the log that is needed from now on
            /\ bg' = [bg EXCEPT !.at = "logFlush", !.log = logfile_number_,
                                !.level = IF version[bg.base] = <<{}, {}>> THEN 2 ELSE 1]
            /\ UNCHANGED <<bg_error_, waits>>
    /\ UNCHANGED <<pc, queueVars, LastSequence, memVars, logVars, current, LogNumber, NextFile,
                   bg_compaction_scheduled_, shutting_down_, crashed, plan, manualVars, readVars,
                   ghostVars>>

\* VersionSet::LogAndApply: the new version replaces the current one.
Install(levels, refs) ==
    LET v == Max(DOMAIN version) + 1
    IN /\ current' = v
       /\ SetVersions(With(version, v, levels), With(Unref(refs, current), v, 1))

\* The levels with new tables at level i - 1.
Added(levels, i, new) ==
    <<levels[1] \cup (IF i = 1 THEN new ELSE {}), levels[2] \cup (IF i = 2 THEN new ELSE {})>>

\* CompactMemTable after its table is built.
LogFlush(bad) ==
    /\ MutexFree /\ bg.at = "logFlush" /\ Fails("manifest", bad)
    /\ bg' = [bg EXCEPT !.at = bg.ret]
    /\ IF bad
       THEN /\ RecordBackgroundError
            /\ UNCHANGED <<memVars, versionVars, log, synced, file>>
       ELSE /\ LET new == {bg.number} \cap DOMAIN file
               IN Install(Added(version[current], bg.level, new), vrefs)
            /\ LogNumber' = bg.log
            /\ SetMemTables(table, MemUnref(mrefs, imm_))
            /\ imm_' = None
            /\ DeleteObsoleteFiles(file, log, version', pending_outputs_, bg.log, bg_error_)
            /\ waits' = IF bg.ret = "work" THEN SignalAll(waits) ELSE waits
            /\ UNCHANGED <<mem_, bg_error_>>
    /\ UNCHANGED <<pc, queueVars, LastSequence, logfile_number_, pending_outputs_, NextFile,
                   bg_compaction_scheduled_, shutting_down_, crashed, plan, manualVars, readVars,
                   ghostVars>>

\* DoCompactionWork looks after imm_ first, between any two keys.
WorkFlush ==
    /\ MutexFree /\ bg.at = "work" /\ ~shutting_down_ /\ imm_ # None
    /\ StartFlush("work")
    /\ UNCHANGED <<faults, pc, waits, queueVars, LastSequence, memVars, logVars, version, current,
                   LogNumber, file, bg_compaction_scheduled_, quietVars>>

\* OpenCompactionOutputFile.  The number is pending even if the file fails.
OpenCompactionOutputFile(bad) ==
    /\ MutexFree /\ bg.at = "work" /\ ~shutting_down_ /\ bg.out = None
    /\ Fails("newfile", bad)
    /\ NextFile' = NextFile + 1
    /\ pending_outputs_' = Pending(NextFile)
    /\ file' = IF bad THEN file ELSE With(file, NextFile, {})
    /\ bg' = [bg EXCEPT !.at = IF bad THEN "fail" ELSE "work", !.out = NextFile]
    /\ UNCHANGED <<pc, waits, queueVars, LastSequence, memVars, logVars, versionVars,
                   bg_compaction_scheduled_, quietVars>>

\* Mutant of Merged: older entries are dropped whatever snapshots there are.
MergedAll ==
    LET inputs == version[bg.input][1] \cup version[bg.input][2]
        all == UNION {file[f] : f \in inputs}
    IN {e \in all : ~ \E x \in all : x[2] = e[2] /\ x[1] > e[1]}

\* The entries of the input tables without those hidden for every snapshot.
Merged ==
    LET inputs == version[bg.input][1] \cup version[bg.input][2]
        all == UNION {file[f] : f \in inputs}
    IN {e \in all : ~ \E x \in all : x[2] = e[2] /\ x[1] > e[1] /\ x[1] <= bg.oldest}

\* The loop is through: FinishCompactionOutputFile.
FinishCompactionOutputFile(bad) ==
    /\ bg.at = "work" /\ bg.out # None /\ ~shutting_down_ /\ Fails("build", bad)
    /\ file' = IF bad \/ bg.out \notin DOMAIN file THEN file ELSE [file EXCEPT ![bg.out] = Merged]
    /\ bg' = [bg EXCEPT !.at = IF bad THEN "fail" ELSE "logMerge"]
    /\ UNCHANGED <<pc, waits, queueVars, LastSequence, memVars, logVars, versionVars,
                   pending_outputs_, NextFile, bg_compaction_scheduled_, quietVars>>

\* "Deleting DB during compaction"
WorkStopped ==
    /\ bg.at = "work" /\ shutting_down_
    /\ bg' = [bg EXCEPT !.at = "fail"]
    /\ UNCHANGED <<faults, pc, waits, queueVars, storeVars, bg_compaction_scheduled_, quietVars>>

\* The end of BackgroundCompaction for a manual one: it follows
\* manual_compaction_, which its caller may have taken back.
ManualEpilogue(ok) ==
    /\ crashed' = (crashed \/ (bg.manual /\ manual_compaction_ = None))
    /\ IF bg.manual /\ manual_compaction_ # None
       THEN /\ manual_compaction_' = None
            /\ manualDone' = IF ok THEN manualDone
                                   ELSE [manualDone EXCEPT ![manual_compaction_] = TRUE]
       ELSE UNCHANGED manualVars

\* The output takes the place of the inputs.
InstallCompactionResults(inputs, refs) ==
    Install(<<version[current][1] \ inputs[1],
              (version[current][2] \ inputs[2]) \cup {bg.out}>>, refs)

\* The numbers that are still pending, and the references that are left.
CleanupCompaction == pending_outputs_ \ {bg.out}
ReleaseInputs == Unref(vrefs, bg.input)

\* The end of a compaction: the results are installed, or after a failure not;
\* what it held is given back, and obsolete files go.
LogMerge(bad) ==
    /\ MutexFree
    /\ \/ bg.at = "logMerge" /\ Fails("manifest", bad)
       \/ bg.at = "fail" /\ bad /\ UNCHANGED faults
    /\ pending_outputs_' = CleanupCompaction
    /\ IF bad
       THEN /\ RecordBackgroundError
            /\ SetVersions(version, ReleaseInputs)
            /\ UNCHANGED <<current, log, synced, file>>
       ELSE /\ InstallCompactionResults(version[bg.input], ReleaseInputs)
            /\ DeleteObsoleteFiles(file, log, version', CleanupCompaction, LogNumber, bg_error_)
            /\ UNCHANGED <<bg_error_, waits>>
    /\ ManualEpilogue(~bad)
    /\ bg' = [bg EXCEPT !.at = "finish"]
    /\ UNCHANGED <<pc, queueVars, LastSequence, memVars, logfile_number_, LogNumber, NextFile,
                   bg_compaction_scheduled_, shutting_down_, plan, readVars, ghostVars>>

\* A trivial move: the table goes to level 1 as it is.
LogMove(bad) ==
    /\ MutexFree /\ bg.at = "logMove" /\ Fails("manifest", bad)
    /\ IF bad
       THEN /\ RecordBackgroundError
            /\ SetVersions(version, Unref(vrefs, bg.input))
            /\ UNCHANGED current
       ELSE /\ LET moved == version[bg.input][1]
               IN Install(<<version[current][1] \ moved, version[current][2] \cup moved>>,
                          Unref(vrefs, bg.input))
            /\ UNCHANGED <<bg_error_, waits>>
    /\ bg' = [bg EXCEPT !.at = "finish"]
    /\ UNCHANGED <<pc, queueVars, LastSequence, memVars, logVars, LogNumber, fileVars, NextFile,
                   bg_compaction_scheduled_, shutting_down_, crashed, plan, manualVars, readVars,
                   ghostVars>>

\* The end of BackgroundCall.
BackgroundCallDone ==
    /\ bg.at = "finish"
    /\ LET again == MaybeScheduleCompaction(FALSE, bg_error_, imm_, manual_compaction_, version,
                                            current, seekCompaction)
       IN /\ bg_compaction_scheduled_' = again
          /\ bg' = [Resting EXCEPT !.at = IF again THEN "scheduled" ELSE "none"]
    /\ waits' = SignalAll(waits)
    /\ UNCHANGED <<faults, pc, queueVars, storeVars, quietVars>>

-----------------------------------------------------------------------------
(* DBImpl::~DBImpl.  The caller has no other call under way.               *)

Close ==
    /\ MutexFree /\ plan.close /\ ~shutting_down_
    /\ \A t \in Thread : pc[t] = "idle"
    /\ \A r \in Reader : get[r].at = "idle" /\ get[r].held = None
    /\ shutting_down_' = TRUE
    /\ UNCHANGED <<faults, pc, waits, queueVars, storeVars, bgVars, bg_error_, crashed, plan,
                   manualVars, readVars, ghostVars>>

\* The destructor has returned.
Closed == shutting_down_ /\ ~bg_compaction_scheduled_

-----------------------------------------------------------------------------

Running(t) ==
    \/ Woken(t)
    \/ RoomError(t) \/ RoomDelay(t) \/ RoomFound(t) \/ RoomWait(t)
    \/ \E bad \in BOOLEAN : RoomSwitch(t, bad) \/ AddRecord(t, bad) \/ Sync(t, bad)
    \/ Insert(t) \/ Commit(t)
    \/ WaitImm(t)

Background ==
    \/ BackgroundCall \/ WorkFlush \/ WorkStopped \/ BackgroundCallDone
    \/ \E bad \in BOOLEAN : \/ BuildTable(bad) \/ LogFlush(bad) \/ LogMerge(bad) \/ LogMove(bad)
                            \/ OpenCompactionOutputFile(bad) \/ FinishCompactionOutputFile(bad)

Reading(r) ==
    \/ GetSnapshot(r) \/ ReleaseSnapshot(r)
    \/ \E key \in Key : Get(r, key)
    \/ \E seek \in BOOLEAN : GetDone(r, seek)

AtRest ==
    /\ \A t \in Thread : pc[t] = "idle"
    /\ \A r \in Reader : get[r].at = "idle"
    /\ bg.at = "none"

\* The bounded calls have all been made.
Stop == AtRest /\ UNCHANGED vars

Next ==
    \/ \E t \in Thread : Put(t) \/ CompactRange(t) \/ Running(t) \/ CompactLevel(t)
    \/ \E r \in Reader : Reading(r)
    \/ Background
    \/ Close
    \/ Stop

Fairness ==
    /\ \A t \in Thread : WF_vars(Running(t)) /\ WF_vars(CompactLevel(t))
    /\ \A r \in Reader : WF_vars(GetDone(r, FALSE))
    /\ WF_vars(Background)

Spec == Init /\ [][Next]_vars /\ Fairness

-----------------------------------------------------------------------------
(* Properties.                                                             *)

Holds(g) ==
    /\ {g.mem, g.imm} \ {None} \subseteq DOMAIN table
    /\ g.version \in DOMAIN version
    /\ version[g.version][1] \cup version[g.version][2] \subseteq DOMAIN file

\* While Get reads without the mutex, the memtables and the version it took are
\* not freed and no table of that version is deleted, whatever the writers and
\* the background thread do; the same goes for the current version and the
\* inputs of the compaction under way (Ref/Unref, AddLiveFiles,
\* pending_outputs_).
NothingFreed ==
    /\ \A r \in Reader : get[r].at = "reading" => Holds(get[r])
    /\ version[current][1] \cup version[current][2] \subseteq DOMAIN file
    /\ bg.at \in {"work", "logMerge"} =>
          /\ version[bg.input][1] \cup version[bg.input][2] \subseteq DOMAIN file
          /\ bg.out # None => bg.out \in DOMAIN file

\* At every moment of its search Get finds the newest entry that was committed
\* up to its snapshot: no entry of a group that is still being inserted, no
\* older entry because a newer one is on its way from memtable to table or was
\* dropped by a compaction.
ReadsCorrect ==
    \A r \in Reader :
        get[r].at = "reading" =>
            Answer(get[r]) = Newest(committed, get[r].key, get[r].snapshot)

\* What a restart would find: the logs from LogNumber on and the tables of the
\* current version.
InTables == UNION {file[f] : f \in version[current][1] \cup version[current][2]}

Logged(n, records) == {<<e[1], e[2]>> : e \in UNION {log[n][i] : i \in 1..records}}

InLogs == UNION {Logged(n, Len(log[n])) : n \in {m \in DOMAIN log : m >= LogNumber}}

InSyncedLogs == UNION {Logged(n, synced[n]) : n \in {m \in DOMAIN log : m >= LogNumber}}

\* A restart at any moment would find the newest committed entry of every key:
\* no log is given up before its memtable is in a table of the current version,
\* however memtable switches, flushes, failures and compactions interleave.
NewestDurable ==
    \A key \in Key : Newest(InTables \cup InLogs, key, LastSequence + MaxBatchGroup)
                       >= Newest(committed, key, LastSequence + MaxBatchGroup)

\* A synchronous write that returned OK survives even the loss of everything
\* not synced: the leader of its group has synced the log with its record.
SyncedSurvives ==
    \A e \in acked : Newest(InTables \cup InSyncedLogs, e[2], LastSequence) >= e[1]

\* The background thread never follows the manual_compaction_ pointer after its
\* caller has taken it back.
NeverCrashes == ~crashed

\* When TEST_CompactMemTable is through, nothing is left in mem_ of what it
\* held when it was called (db_impl.h:50). It holds only where every group
\* switches memtables (WriteBufferSize = 0): a NULL batch that joins the group
\* of another writer returns with it and forces nothing (db_impl.cc:1263).
MemTableCompacted ==
    \A t \in Compactor :
        pc[t] = "manual" /\ ~bg_error_ => w[t].must \cap table[mem_] = {}

\* Every call returns, and so does the destructor: no write is stuck behind a
\* full memtable, too many tables of level 0 or a group that is gone.
EveryCallReturns ==
    /\ \A t \in Thread : pc[t] # "idle" ~> pc[t] = "idle"
    /\ shutting_down_ ~> Closed
=============================================================================
