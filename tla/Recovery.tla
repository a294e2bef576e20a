------------------------------ MODULE Recovery ------------------------------
(***************************************************************************)
(* The files of a LevelDB database and how it comes back after a crash:    *)
(* DB::Open, DBImpl::Recover and VersionSet::Recover, the part of writing, *)
(* flushing and compacting that changes files, DeleteObsoleteFiles, and    *)
(* RepairDB.  A crash ends the process between any two changes of files;   *)
(* what was handed to the system stays (QtWritableFile::Flush).            *)
(*                                                                         *)
(* An entry is <<sequence number, id>>; every write has an id of its own.  *)
(* The threads of an open database are the subject of module Engine: here  *)
(* there is one writer and one background thread.                          *)
(***************************************************************************)
EXTENDS Integers, Sequences, FiniteSets, Functions, FiniteSetsExt, Maps

CONSTANTS
    Plan,           \* the courses to explore: what may fail, and where
    MaxPuts, MaxCrashes, MaxFaults,     \* bounds
    WriteBufferSize,                    \* entries a memtable takes
    None

ASSUME RecoveryAssumption ==
    /\ {MaxPuts, MaxCrashes, MaxFaults} \subseteq Nat
    /\ WriteBufferSize \in Nat \ {0}
    /\ None \notin Nat \cup (Nat \X Nat)

VARIABLES
    plan,           \* [faults, replayed, renaming, repair, impatient]: see Possible
    faults, crashes, puts,
    CURRENT,        \* number of the manifest that the file CURRENT names
    temp,           \* numbers of the complete *.dbtmp files
    manifest,       \* what the records of each manifest add up to
    logf, table,    \* the entries of each log, of each table
    pc, caller,     \* what Open or RepairDB does next; who called SetCurrentFile
    vs,             \* the VersionSet: next, manifest, log, last, live
    edit,           \* the VersionEdit at hand
    logs, pos,      \* logs still to be read, and records read of the oldest one
    maxseq, s,      \* max_sequence and the status s of DBImpl::Recover
    mem, imm,       \* entries of the memtables; imm_ is never empty: {} is no imm_
    logfile_number_, wr, bg, bg_error_,
    rep,            \* the Repairer: logs, manifests, next
    repairs,        \* repairs begun
    unrepaired,     \* a repair was begun and not finished
    acked, written

disk == <<CURRENT, temp, manifest, logf, table>>
run == <<mem, imm, logfile_number_, wr, bg, bg_error_>>
replay == <<logs, pos, maxseq, s>>
repair == <<rep, repairs, unrepaired>>
ghost == <<acked, written, puts>>
budget == <<plan, faults, crashes>>

vars == <<disk, pc, caller, vs, edit, replay, run, repair, ghost, budget>>

NoEdit == [log |-> 0, next |-> 0, last |-> 0, add |-> {}, del |-> {}]
Empty == [n \in {} |-> None]
NoRecords == [live |-> {}, log |-> 0, next |-> 0, last |-> 0]
Idle == [at |-> "idle", kind |-> "none", number |-> 0]

Init ==
    /\ plan \in Plan
    /\ faults = 0 /\ crashes = 0 /\ puts = 0
    /\ CURRENT = None /\ temp = {} /\ manifest = Empty /\ logf = Empty /\ table = Empty
    /\ pc = "closed" /\ caller = "none"
    /\ vs = [next |-> 2, manifest |-> 0, log |-> 0, last |-> 0, live |-> {}]
    /\ edit = NoEdit
    /\ logs = {} /\ pos = 0 /\ maxseq = 0 /\ s = "ok"
    /\ mem = {} /\ imm = {} /\ logfile_number_ = 0 /\ wr = None
    /\ bg = Idle /\ bg_error_ = FALSE
    /\ rep = [logs |-> {}, manifests |-> {}, next |-> 1]
    /\ repairs = 0 /\ unrepaired = FALSE
    /\ acked = {} /\ written = {}

-----------------------------------------------------------------------------
(* Files *)

Put(f, n, x) == With(f, n, x)
Drop(f, ns) == [n \in DOMAIN f \ ns |-> f[n]]

Fails(call) ==
    /\ call \in plan.faults /\ faults < MaxFaults
    /\ faults' = faults + 1
    /\ UNCHANGED <<plan, crashes>>

\* What the records of a manifest add up to with one more: its live tables, and
\* the numbers the last record holds (VersionSet::Recover, Builder).
Apply(m, e) ==
    [live |-> (m.live \ e.del) \cup e.add, log |-> e.log, next |-> e.next, last |-> e.last]

MarkFileNumberUsed(next, n) == IF next <= n THEN n + 1 ELSE next

\* The files DeleteObsoleteFiles removes, by kind and number.
Obsolete(logno, manifestno, live) ==
    {<<"log", n>> : n \in {k \in DOMAIN logf : k < logno}}
    \cup {<<"manifest", n>> : n \in {k \in DOMAIN manifest : k < manifestno}}
    \cup {<<"table", n>> : n \in DOMAIN table \ live}
    \cup {<<"temp", n>> : n \in temp \ live}

Delete(file) ==
    LET n == {file[2]} IN
    /\ logf' = IF file[1] = "log" THEN Drop(logf, n) ELSE logf
    /\ manifest' = IF file[1] = "manifest" THEN Drop(manifest, n) ELSE manifest
    /\ table' = IF file[1] = "table" THEN Drop(table, n) ELSE table
    /\ temp' = IF file[1] = "temp" THEN temp \ n ELSE temp
    /\ UNCHANGED CURRENT

-----------------------------------------------------------------------------
(* DB::Open *)

Close ==
    /\ pc' = "closed" /\ caller' = "none"
    /\ edit' = NoEdit /\ logs' = {} /\ pos' = 0 /\ maxseq' = 0
    /\ mem' = {} /\ imm' = {} /\ logfile_number_' = 0 /\ wr' = None
    /\ bg' = Idle /\ bg_error_' = FALSE
    /\ vs' = [next |-> 2, manifest |-> 0, log |-> 0, last |-> 0, live |-> {}]
    /\ rep' = [logs |-> {}, manifests |-> {}, next |-> 1]

\* A call that fails ends Open; delete impl forgets what was in memory.
OpenFails(call) ==
    /\ Fails(call) /\ Close
    /\ s' = "failed"
    /\ UNCHANGED <<repairs, unrepaired, ghost>>

\* DBImpl::Recover makes a database where there is no CURRENT.
FirstStep == IF CURRENT = None THEN "newdb" ELSE "recover"

\* After an unfinished repair the database is opened, unless the user is
\* impatient, only where that must fail.
Open ==
    /\ pc = "closed"
    /\ \/ ~ unrepaired
       \/ plan.impatient
       \/ CURRENT # None /\ CURRENT \notin DOMAIN manifest /\ s = "ok"
    /\ pc' = FirstStep
    /\ s' = "ok"
    /\ UNCHANGED <<disk, caller, vs, edit, logs, pos, maxseq, run, repair, ghost, budget>>

NewDB ==
    /\ pc = "newdb"
    /\ manifest' = Put(manifest, 1, Apply(NoRecords, [NoEdit EXCEPT !.next = 2]))
    /\ vs' = [vs EXCEPT !.manifest = 1]
    /\ pc' = "setcurrent" /\ caller' = "newdb"
    /\ UNCHANGED <<CURRENT, temp, logf, table, edit, replay, run, repair, ghost, budget>>

\* The manifest is truncated and then deleted.
NewDBFails ==
    /\ pc = "newdb" /\ OpenFails("newdb")
    /\ manifest' = Drop(manifest, {1})
    /\ UNCHANGED <<CURRENT, temp, logf, table>>

SetCurrentFile ==
    /\ pc = "setcurrent"
    /\ temp' = temp \cup {vs.manifest}
    /\ pc' = "rename"
    /\ UNCHANGED <<CURRENT, manifest, logf, table, caller, vs, edit, replay, run, repair,
                   ghost, budget>>

\* LogAndApply deletes the manifest it could not install.
SetCurrentFileFails ==
    /\ pc = "setcurrent" /\ OpenFails("tmp")
    /\ temp' = temp \ {vs.manifest}
    /\ manifest' = IF caller = "open" THEN Drop(manifest, {vs.manifest}) ELSE manifest
    /\ UNCHANGED <<CURRENT, logf, table>>

\* QFile::rename does not overwrite: RenameFile removes the target first.
RemoveTarget ==
    /\ pc = "rename"
    /\ CURRENT' = None
    /\ pc' = "renaming"
    /\ UNCHANGED <<temp, manifest, logf, table, caller, vs, edit, replay, run, repair,
                   ghost, budget>>

RenameFile ==
    /\ pc = "renaming"
    /\ CURRENT' = vs.manifest
    /\ temp' = temp \ {vs.manifest}
    /\ pc' = CASE caller = "newdb" -> "recover"
              [] caller = "open" -> "install"
              [] caller = "repair" -> "closed"
    /\ unrepaired' = (unrepaired /\ caller # "repair")
    /\ UNCHANGED <<manifest, logf, table, caller, vs, edit, replay, run, rep, repairs, ghost,
                   budget>>

\* Before the first CURRENT, and in a repair that is done again, nothing is
\* lost between the halves.
Interruptible == plan.renaming \/ caller # "open"

\* As after any failure the temporary file, and in LogAndApply the manifest,
\* are deleted.
RenameFails ==
    /\ pc = "renaming" /\ Interruptible /\ OpenFails("rename")
    /\ temp' = temp \ {vs.manifest}
    /\ manifest' = IF caller = "open" THEN Drop(manifest, {vs.manifest}) ELSE manifest
    /\ UNCHANGED <<CURRENT, logf, table>>

ManifestMissing ==
    /\ pc = "recover" /\ CURRENT \notin DOMAIN manifest
    /\ Close
    /\ s' = "no manifest"
    /\ UNCHANGED <<disk, repairs, unrepaired, ghost, budget>>

\* The look at the directory in DBImpl::Recover: every live file must be there,
\* and the logs from the manifest's on are replayed in order.
NothingMissing(live) ==
    live \subseteq DOMAIN logf \cup DOMAIN table \cup DOMAIN manifest \cup temp
LogsFrom(min_log) == {n \in DOMAIN logf : n >= min_log}

\* VersionSet::Recover, then that look.
Recover ==
    /\ pc = "recover" /\ CURRENT \in DOMAIN manifest
    /\ LET m == manifest[CURRENT] IN
          IF NothingMissing(m.live)
          THEN /\ vs' = [next |-> m.next + 1, manifest |-> m.next, log |-> m.log,
                         last |-> m.last, live |-> m.live]
               /\ logs' = LogsFrom(m.log)
               /\ pc' = "replay"
               /\ UNCHANGED <<caller, edit, pos, maxseq, s, run, rep>>
          ELSE Close /\ s' = "corruption"
    /\ UNCHANGED <<disk, repairs, unrepaired, ghost, budget>>

\* RecoverLogFile up to its next WriteLevel0Table: a full memtable, or the
\* end of the log.
First == Min(logs)
ChunkEnd == Min({Len(logf[First]), pos + WriteBufferSize})
ChunkFull ==                        \* mutant: the rest of a log is forgotten
    IF Len(logf[First]) < pos + WriteBufferSize THEN {}
    ELSE {logf[First][i] : i \in (pos + 1)..ChunkEnd}
Chunk == {logf[First][i] : i \in (pos + 1)..ChunkEnd}

MaxSequence(entries) == Max({maxseq} \cup {e[1] : e \in entries})

ReplayLog ==
    /\ pc = "replay" /\ logs # {} /\ Chunk # {}
    /\ table' = Put(table, vs.next, Chunk)
    /\ edit' = [edit EXCEPT !.add = @ \cup {vs.next}]
    /\ vs' = [vs EXCEPT !.next = @ + 1]
    /\ pos' = ChunkEnd
    /\ maxseq' = MaxSequence(Chunk)
    /\ UNCHANGED <<CURRENT, temp, manifest, logf, pc, caller, logs, s, run, repair, ghost,
                   budget>>

\* The table could not be written: RecoverLogFile returns the error, and the
\* loop over the logs goes on.
ReplayFails ==
    /\ pc = "replay" /\ logs # {} /\ Chunk # {}
    /\ plan.replayed = "any" \/ logs = {First}
    /\ Fails("replay")
    /\ s' = "failed"
    /\ logs' = logs \ {First} /\ pos' = 0
    /\ maxseq' = MaxSequence(Chunk)
    /\ vs' = [vs EXCEPT !.next = MarkFileNumberUsed(@ + 1, First)]
    /\ UNCHANGED <<disk, pc, caller, edit, run, repair, ghost>>

ReplayedLog ==
    /\ pc = "replay" /\ logs # {} /\ Chunk = {}
    /\ s' = "ok"
    /\ logs' = logs \ {First} /\ pos' = 0
    /\ vs' = [vs EXCEPT !.next = MarkFileNumberUsed(@, First)]
    /\ UNCHANGED <<disk, pc, caller, edit, maxseq, run, repair, ghost, budget>>

\* A log that cannot be opened is passed over as if it had been read
\* (MaybeIgnoreError).
LogNotOpened ==
    /\ pc = "replay" /\ logs # {} /\ pos = 0
    /\ plan.replayed = "any" \/ logf[First] = <<>>
    /\ Fails("readlog")
    /\ s' = "ok"
    /\ logs' = logs \ {First} /\ pos' = 0
    /\ vs' = [vs EXCEPT !.next = MarkFileNumberUsed(@, First)]
    /\ UNCHANGED <<disk, pc, caller, edit, maxseq, run, repair, ghost>>

ReplayFailed ==
    /\ pc = "replay" /\ logs = {} /\ s # "ok"
    /\ Close
    /\ UNCHANGED <<disk, s, repairs, unrepaired, ghost, budget>>

NewestFirst(a, b) == a               \* mutant: SetLastSequence is forgotten
Newest(a, b) == Max({a, b})

\* SetLastSequence, and the new log of DB::Open.
NewLog ==
    /\ pc = "replay" /\ logs = {} /\ s = "ok"
    /\ vs' = [vs EXCEPT !.last = Newest(@, maxseq), !.next = @ + 1]
    /\ logf' = Put(logf, vs.next, <<>>)
    /\ logfile_number_' = vs.next
    /\ edit' = [edit EXCEPT !.log = vs.next]
    /\ pc' = "descriptor"
    /\ UNCHANGED <<CURRENT, temp, manifest, table, caller, replay, mem, imm, wr, bg, bg_error_,
                   repair, ghost, budget>>

NewLogFails ==
    /\ pc = "replay" /\ logs = {} /\ s = "ok" /\ OpenFails("newlog")
    /\ UNCHANGED disk

\* LogAndApply without a descriptor: the snapshot, then the edit.
WriteSnapshot == Apply(NoRecords, [NoEdit EXCEPT !.add = vs.live])

Stamped(e) == [e EXCEPT !.next = vs.next, !.last = vs.last]

WriteManifest ==
    /\ pc = "descriptor"
    /\ manifest' = Put(manifest, vs.manifest, Apply(WriteSnapshot, Stamped(edit)))
    /\ pc' = "setcurrent" /\ caller' = "open"
    /\ UNCHANGED <<CURRENT, temp, logf, table, vs, edit, replay, run, repair, ghost, budget>>

WriteManifestFails ==
    /\ pc = "descriptor" /\ OpenFails("manifest")
    /\ manifest' = Drop(manifest, {vs.manifest})
    /\ UNCHANGED <<CURRENT, temp, logf, table>>

Install ==
    /\ pc = "install"
    /\ vs' = [vs EXCEPT !.live = (@ \ edit.del) \cup edit.add, !.log = edit.log]
    /\ edit' = NoEdit
    /\ pc' = "clean"
    /\ UNCHANGED <<disk, caller, replay, run, repair, ghost, budget>>

DeleteObsoleteFiles ==
    /\ pc = "clean"
    /\ \E file \in Obsolete(vs.log, vs.manifest, vs.live) : Delete(file)
    /\ UNCHANGED <<pc, caller, vs, edit, replay, run, repair, ghost, budget>>

Opened ==
    /\ pc = "clean" /\ Obsolete(vs.log, vs.manifest, vs.live) = {}
    /\ pc' = "open"
    /\ UNCHANGED <<disk, caller, vs, edit, replay, run, repair, ghost, budget>>

-----------------------------------------------------------------------------
(* An open database *)

\* DBImpl::Write: first the log, then the memtable and the answer.
AddRecord ==
    /\ pc = "open" /\ wr = None /\ ~ bg_error_ /\ puts < MaxPuts
    /\ Cardinality(mem) < WriteBufferSize
    /\ LET e == <<vs.last + 1, puts + 1>> IN
       /\ logf' = [logf EXCEPT ![logfile_number_] = Append(@, e)]
       /\ wr' = e
       /\ written' = written \cup {e}
    /\ puts' = puts + 1
    /\ UNCHANGED <<CURRENT, temp, manifest, table, pc, caller, vs, edit, replay, mem, imm,
                   logfile_number_, bg, bg_error_, repair, acked, budget>>

InsertInto ==
    /\ pc = "open" /\ wr # None
    /\ mem' = mem \cup {wr}
    /\ acked' = acked \cup {wr}
    /\ vs' = [vs EXCEPT !.last = wr[1]]
    /\ wr' = None
    /\ UNCHANGED <<disk, pc, caller, edit, replay, imm, logfile_number_, bg, bg_error_, repair,
                   written, puts, budget>>

\* A full memtable becomes immutable and a new log is begun.  Files are
\* deleted with mutex_ held.
MakeRoomForWrite ==
    /\ pc = "open" /\ wr = None /\ ~ bg_error_ /\ puts < MaxPuts
    /\ Cardinality(mem) = WriteBufferSize /\ imm = {} /\ bg.at # "clean"
    /\ logf' = Put(logf, vs.next, <<>>)
    /\ logfile_number_' = vs.next
    /\ vs' = [vs EXCEPT !.next = @ + 1]
    /\ imm' = mem /\ mem' = {}
    /\ UNCHANGED <<CURRENT, temp, manifest, table, pc, caller, edit, replay, wr, bg, bg_error_,
                   repair, ghost, budget>>

\* WriteLevel0Table of CompactMemTable, or the output of a compaction of all
\* tables.
Work == IF imm # {} THEN [kind |-> "flush", entries |-> imm]
        ELSE [kind |-> "compact", entries |-> UNION {table[n] : n \in vs.live}]

BuildTable ==
    /\ pc = "open" /\ bg.at = "idle" /\ ~ bg_error_
    /\ imm # {} \/ Cardinality(vs.live) > 1
    /\ table' = Put(table, vs.next, Work.entries)
    /\ bg' = [at |-> "built", kind |-> Work.kind, number |-> vs.next]
    /\ vs' = [vs EXCEPT !.next = @ + 1]
    /\ UNCHANGED <<CURRENT, temp, manifest, logf, pc, caller, edit, replay, mem, imm,
                   logfile_number_, wr, bg_error_, repair, ghost, budget>>

\* The VersionEdit, stamped under mutex_ before the descriptor is written.
MakeEditNewest ==                   \* mutant: a compaction also gives up older logs
    Stamped([NoEdit EXCEPT !.log = logfile_number_, !.add = {bg.number},
                           !.del = IF bg.kind = "flush" THEN {} ELSE vs.live])
MakeEdit ==
    Stamped([NoEdit EXCEPT
        !.log = IF bg.kind = "flush" THEN logfile_number_ ELSE vs.log,
        !.add = {bg.number},
        !.del = IF bg.kind = "flush" THEN {} ELSE vs.live])

PrepareEdit ==
    /\ pc = "open" /\ bg.at = "built"
    /\ edit' = MakeEdit
    /\ bg' = [bg EXCEPT !.at = "edit"]
    /\ UNCHANGED <<disk, pc, caller, vs, replay, mem, imm, logfile_number_, wr, bg_error_,
                   repair, ghost, budget>>

LogAndApply ==
    /\ pc = "open" /\ bg.at = "edit"
    /\ manifest' = [manifest EXCEPT ![vs.manifest] = Apply(@, edit)]
    /\ bg' = [bg EXCEPT !.at = "applied"]
    /\ UNCHANGED <<CURRENT, temp, logf, table, pc, caller, vs, edit, replay, mem, imm,
                   logfile_number_, wr, bg_error_, repair, ghost, budget>>

\* The record may be in the file although writing or syncing it failed.  A
\* compaction goes on to DeleteObsoleteFiles all the same.
LogAndApplyFails ==
    /\ pc = "open" /\ bg.at = "edit" /\ Fails("descriptor")
    /\ \/ manifest' = [manifest EXCEPT ![vs.manifest] = Apply(@, edit)]
       \/ UNCHANGED manifest
    /\ bg_error_' = TRUE
    /\ bg' = IF bg.kind = "flush" THEN Idle ELSE [bg EXCEPT !.at = "clean"]
    /\ edit' = NoEdit
    /\ UNCHANGED <<CURRENT, temp, logf, table, pc, caller, vs, replay, mem, imm,
                   logfile_number_, wr, repair, ghost>>

InstallVersion ==
    /\ pc = "open" /\ bg.at = "applied"
    /\ vs' = [vs EXCEPT !.live = (@ \ edit.del) \cup edit.add, !.log = edit.log]
    /\ imm' = IF bg.kind = "flush" THEN {} ELSE imm
    /\ edit' = NoEdit
    /\ bg' = [bg EXCEPT !.at = "clean"]
    /\ UNCHANGED <<disk, pc, caller, replay, mem, logfile_number_, wr, bg_error_, repair, ghost,
                   budget>>

\* After a background error nothing is collected.
GarbageAll == Obsolete(vs.log, vs.manifest, vs.live)    \* mutant: bg_error_ is not looked at
Garbage == IF bg_error_ THEN {} ELSE Obsolete(vs.log, vs.manifest, vs.live)

CollectGarbage ==
    /\ pc = "open" /\ bg.at = "clean"
    /\ \E file \in Garbage : Delete(file)
    /\ UNCHANGED <<pc, caller, vs, edit, replay, run, repair, ghost, budget>>

BackgroundDone ==
    /\ pc = "open" /\ bg.at = "clean" /\ Garbage = {}
    /\ bg' = Idle
    /\ UNCHANGED <<disk, pc, caller, vs, edit, replay, mem, imm, logfile_number_, wr, bg_error_,
                   repair, ghost, budget>>

-----------------------------------------------------------------------------
(* RepairDB *)

\* (In a database without logs and tables, next is 1 and the next Open writes
\* over the repaired MANIFEST-000001: repair "any" allows that.)
FindFiles ==
    /\ pc = "closed" /\ repairs <= crashes + faults
    /\ plan.repair = "any" \/ (plan.repair = "filled" /\ acked # {})
    /\ CURRENT # None \/ DOMAIN manifest \cup DOMAIN logf \cup DOMAIN table \cup temp # {}
    /\ pc' = "convert"
    /\ repairs' = repairs + 1 /\ unrepaired' = TRUE
    /\ rep' = [logs |-> DOMAIN logf, manifests |-> DOMAIN manifest,
               next |-> Max({0} \cup DOMAIN logf \cup DOMAIN table \cup temp) + 1]
    /\ s' = "ok"
    /\ UNCHANGED <<disk, caller, vs, edit, logs, pos, maxseq, run, ghost, budget>>

\* An empty log makes no table.
ConvertLogToTable ==
    /\ pc = "convert" /\ rep.logs # {}
    /\ LET log == logf[Min(rep.logs)] IN
       table' = IF log = <<>> THEN table ELSE Put(table, rep.next, Range(log))
    /\ rep' = [rep EXCEPT !.next = @ + 1]
    /\ pc' = "archive"
    /\ UNCHANGED <<CURRENT, temp, manifest, logf, caller, vs, edit, replay, run, repairs, unrepaired,
                   ghost, budget>>

ArchiveLog ==
    /\ pc = "archive"
    /\ logf' = Drop(logf, {Min(rep.logs)})
    /\ rep' = [rep EXCEPT !.logs = @ \ {Min(@)}]
    /\ pc' = "convert"
    /\ UNCHANGED <<CURRENT, temp, manifest, table, caller, vs, edit, replay, run, repairs, unrepaired,
                   ghost, budget>>

\* ScanTable finds the largest sequence number of the tables.
ScanTables == Max({0} \cup {e[1] : e \in UNION Range(table)})

\* WriteDescriptor writes 000001.dbtmp before it archives the manifests.
WriteDescriptor ==
    /\ pc = "convert" /\ rep.logs = {}
    /\ edit' = [NoEdit EXCEPT !.next = rep.next, !.last = ScanTables, !.add = DOMAIN table]
    /\ temp' = temp \cup {1}
    /\ pc' = "manifests"
    /\ UNCHANGED <<CURRENT, manifest, logf, table, caller, vs, replay, run, repair, ghost,
                   budget>>

ArchiveManifest ==
    /\ pc = "manifests" /\ rep.manifests # {}
    /\ \E n \in rep.manifests :
       /\ manifest' = Drop(manifest, {n})
       /\ rep' = [rep EXCEPT !.manifests = @ \ {n}]
    /\ UNCHANGED <<CURRENT, temp, logf, table, pc, caller, vs, edit, replay, run, repairs, unrepaired,
                   ghost, budget>>

InstallDescriptor ==
    /\ pc = "manifests" /\ rep.manifests = {}
    /\ manifest' = Put(manifest, 1, Apply(NoRecords, edit))
    /\ temp' = temp \ {1}
    /\ vs' = [vs EXCEPT !.manifest = 1]
    /\ edit' = NoEdit
    /\ pc' = "setcurrent" /\ caller' = "repair"
    /\ UNCHANGED <<CURRENT, logf, table, replay, run, repair, ghost, budget>>

-----------------------------------------------------------------------------

\* The process ends; between the two halves of RenameFile only if the plan
\* says so.
Crash ==
    /\ pc # "closed" /\ crashes < MaxCrashes
    /\ pc # "renaming" \/ Interruptible
    /\ Close
    /\ s' = "ok"
    /\ crashes' = crashes + 1
    /\ UNCHANGED <<disk, repairs, unrepaired, ghost, plan, faults>>

Opening ==
    \/ Open \/ NewDB \/ NewDBFails \/ SetCurrentFile \/ SetCurrentFileFails
    \/ RemoveTarget \/ RenameFile \/ RenameFails \/ ManifestMissing \/ Recover
    \/ ReplayLog \/ ReplayFails \/ ReplayedLog \/ LogNotOpened \/ ReplayFailed
    \/ NewLog \/ NewLogFails
    \/ WriteManifest \/ WriteManifestFails \/ Install \/ DeleteObsoleteFiles \/ Opened
Writing == AddRecord \/ InsertInto \/ MakeRoomForWrite
Background ==
    \/ BuildTable \/ PrepareEdit \/ LogAndApply \/ LogAndApplyFails \/ InstallVersion
    \/ CollectGarbage \/ BackgroundDone
Repairing ==
    \/ FindFiles \/ ConvertLogToTable \/ ArchiveLog \/ WriteDescriptor \/ ArchiveManifest
    \/ InstallDescriptor

Next == Opening \/ Writing \/ Background \/ Repairing \/ Crash

\* The thread that opens or repairs goes on by itself.
Spec == Init /\ [][Next]_vars /\ WF_vars(Opening \/ Repairing)

-----------------------------------------------------------------------------

Stored(live) == UNION {table[n] : n \in live}

\* Whenever the process may die, the files describe a database that opens and
\* holds every write that was answered: CURRENT names a manifest, its tables
\* exist, and what is in no table is in a log that will be read.  (Except
\* between the halves of RenameFile, and while a repair is unfinished.)
Recoverable ==
    (pc # "renaming" /\ ~ unrepaired) =>
       \/ CURRENT = None /\ acked = {}
       \/ /\ CURRENT \in DOMAIN manifest
          /\ LET m == manifest[CURRENT] IN
             /\ m.live \subseteq DOMAIN table
             /\ acked \subseteq Stored(m.live) \cup UNION {Range(logf[n]) : n \in LogsFrom(m.log)}

\* An open database holds every write that was answered (DB::Open returned OK),
\* after all crashes and failing calls of the plan.
AckedSurvive ==
    pc = "open" =>
        acked \subseteq mem \cup imm \cup Stored(vs.live)

\* No two writes an open database holds have one sequence number, and the next
\* write gets a newer one than all of them: else a read would take the older.
NoSequenceReuse ==
    LET held == mem \cup Stored(vs.live) IN
    pc = "open" => /\ \A e, f \in held : e[1] = f[1] => e = f
                   /\ \A e \in held : e[1] <= vs.last

\* However the process dies and whichever call of the plan fails, the database
\* opens again once crashes and failures stop.
EventuallyOpen == []<>(pc = "open")

=============================================================================
