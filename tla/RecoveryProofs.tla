--------------------------- MODULE RecoveryProofs ---------------------------
(***************************************************************************)
(* What the files of a LevelDB database promise, for every number of       *)
(* writes, crashes and failing calls and every size of a memtable: they    *)
(* always describe a database with each answered write, an open database   *)
(* holds them all, and no sequence number is used twice.                   *)
(***************************************************************************)
EXTENDS Recovery, Lemmas

\* Not among the courses: a crash between the halves of RenameFile, a database
\* opened although its repair is unfinished, a table that fails while any log
\* but the newest is replayed, a log with records that cannot be opened and is
\* passed over, and the repair of a database without a file: in these the
\* program does lose writes (see the README).
Restrained ==
    \A p \in Plan : ~p.renaming /\ ~p.impatient /\ p.replayed # "any" /\ p.repair # "any"

Number == Nat \ {0}
Entry == Nat \X Nat
Manifests == [live : SUBSET Number, log : Nat, next : Nat, last : Nat]
Edits == [log : Nat, next : Nat, last : Nat, add : SUBSET Number, del : SUBSET Number]
Versions == [next : Number, manifest : Nat, log : Nat, last : Nat, live : SUBSET Number]
Setting == {"setcurrent", "rename", "renaming"}

-----------------------------------------------------------------------------
(* What files hold: t are the tables, l the logs, w all writes.            *)

TableEntries(t, live) == UNION {t[n] : n \in live}
LogsSince(l, k) == {n \in DOMAIN l : n >= k}
LogEntries(l, k) == UNION {Range(l[n]) : n \in LogsSince(l, k)}

\* The log k with an entry more.
Longer(l, k, e) == [l EXCEPT ![k] = Append(l[k], e)]

\* A manifest that holds m describes a database with all writes, and leaves file
\* and sequence numbers that are new.
Covers(m, t, l, w) ==
    /\ m.live \subseteq DOMAIN t /\ m.log < m.next
    /\ w \subseteq TableEntries(t, m.live) \cup LogEntries(l, m.log)
    /\ \A n \in m.live : n < m.next
    /\ \A e \in TableEntries(t, m.live) : e[1] <= m.last

Describes(n, ms, t, l, w) == n \in DOMAIN ms /\ n < ms[n].next /\ Covers(ms[n], t, l, w)

\* Of a log that is being read, from the one with the number first, the rest counts.
Rest(log, p) == {log[i] : i \in (p + 1)..Len(log)}
RestOf(l, ns, p) == UNION {IF n = Min(ns) THEN Rest(l[n], p) ELSE Range(l[n]) : n \in ns}

-----------------------------------------------------------------------------
(* The inductive invariant.                                                *)

FilesOK ==
    /\ plan \in Plan
    /\ temp \subseteq Number /\ Bounded(temp)
    /\ manifest \in PartialFn(Number, Manifests)
    /\ logf \in PartialFn(Number, Seq(written)) /\ Bounded(DOMAIN logf)
    /\ table \in PartialFn(Number, SUBSET written) /\ Bounded(DOMAIN table)

MemoryOK ==
    /\ vs \in Versions /\ edit \in Edits /\ logs \subseteq Number /\ pos \in Nat /\ maxseq \in Nat
    /\ mem \subseteq written /\ imm \subseteq written /\ (wr = None \/ wr \in written)
    /\ pc # "open" => mem = {} /\ imm = {} /\ wr = None /\ bg = Idle /\ bg_error_ = FALSE
    /\ pc \notin {"closed", "replay"} => s = "ok"

\* No two writes have one sequence number.
WritesOK ==
    /\ written \subseteq Entry /\ acked \subseteq written /\ puts \in Nat
    /\ Bounded({e[1] : e \in written})
    /\ \A e, f \in written : e[1] = f[1] => e = f

Names(n) == Describes(n, manifest, table, logf, written)

\* The files, whenever the process may die.
DiskOK ==
    ~unrepaired =>
        \/ pc = "renaming" /\ caller = "open"
        \/ CURRENT = None /\ written = {}
        \/ Names(CURRENT)

\* While a repair is unfinished its steps leave all entries in some file.
UnrepairedOK ==
    unrepaired =>
        /\ written \subseteq TableEntries(table, DOMAIN table) \cup LogEntries(logf, 0)
        /\ acked # {}
        /\ \/ pc \in {"closed", "convert", "archive", "manifests"}
           \/ pc = "recover" /\ CURRENT \notin DOMAIN manifest
           \/ pc \in Setting /\ caller = "repair"

\* Nothing is in memory before the first file is read.
Fresh ==
    \/ pc \in {"closed", "newdb", "recover", "convert", "archive", "manifests"}
    \/ pc \in Setting /\ caller # "open"

FreshOK ==
    Fresh => pos = 0 /\ maxseq = 0 /\ (pc # "manifests" => edit = NoEdit)

RepairOK ==
    /\ pc \in {"convert", "archive"} =>
         /\ unrepaired /\ rep.logs = DOMAIN logf
         /\ rep.next \in Nat /\ rep.next >= 2 /\ \A n \in DOMAIN table : n < rep.next
    /\ pc = "archive" =>
         rep.logs # {} /\ Range(logf[Min(rep.logs)]) \subseteq TableEntries(table, DOMAIN table)
    /\ pc = "manifests" =>
         unrepaired /\ 1 < edit.next /\ Covers(Apply(NoRecords, edit), table, logf, written)

NewOK ==
    pc = "newdb" \/ (pc \in Setting /\ caller = "newdb") =>
        ~unrepaired /\ CURRENT = None /\ written = {}

SettingOK ==
    pc \in Setting =>
        /\ caller \in {"newdb", "open", "repair"}
        /\ caller # "open" => vs.manifest = 1 /\ Names(1)
        /\ caller = "repair" => unrepaired

ReplayOK ==
    pc = "replay" =>
        /\ ~unrepaired /\ Names(CURRENT)
        /\ vs.live = manifest[CURRENT].live /\ vs.last = manifest[CURRENT].last
        /\ vs.log = manifest[CURRENT].log
        /\ vs.manifest = manifest[CURRENT].next /\ vs.manifest < vs.next
        /\ edit.del = {} /\ edit.add \subseteq DOMAIN table
        /\ \A n \in edit.add : vs.manifest < n /\ n < vs.next
        /\ logs \subseteq DOMAIN logf
        /\ \A n \in LogsSince(logf, vs.log) \ logs : n < vs.next
        /\ \A e \in TableEntries(table, edit.add) : e[1] <= maxseq
        /\ s = "ok" => written \subseteq TableEntries(table, vs.live \cup edit.add) \cup RestOf(logf, logs, pos)
        /\ s # "ok" => logs = {}

\* When all logs are read, tables hold all writes, and the new log is empty.
OpeningOK ==
    pc \in {"descriptor", "install"} \/ (pc \in Setting /\ caller = "open") =>
        /\ ~unrepaired /\ vs.manifest \in Number /\ vs.manifest < vs.next
        /\ edit.del = {} /\ vs.live \cup edit.add \subseteq DOMAIN table
        /\ \A n \in vs.live \cup edit.add : n < vs.next
        /\ written \subseteq TableEntries(table, vs.live \cup edit.add)
        /\ \A e \in written : e[1] <= vs.last
        /\ edit.log = logfile_number_ /\ logfile_number_ \in DOMAIN logf
        /\ \A n \in LogsSince(logf, edit.log) : n < vs.next
        /\ pc # "install" => vs.manifest # CURRENT
        /\ pc # "descriptor" =>
             /\ Names(vs.manifest)
             /\ manifest[vs.manifest].live = vs.live \cup edit.add
             /\ manifest[vs.manifest].log = edit.log
        /\ pc = "install" => CURRENT = vs.manifest

\* The entries in memory, and the one that is being written.
Held == mem \cup imm
Writing1 == IF wr = None THEN {} ELSE {wr}

OpenOK ==
    pc \in {"clean", "open"} =>
        /\ ~unrepaired /\ CURRENT = vs.manifest /\ Names(CURRENT) /\ vs.manifest < vs.next
        /\ vs.live \subseteq DOMAIN table /\ \A n \in vs.live : n < vs.next
        /\ logfile_number_ \in DOMAIN logf /\ vs.log <= manifest[CURRENT].log
        /\ manifest[CURRENT].log <= logfile_number_
        /\ \A n \in LogsSince(logf, vs.log) : n < vs.next
        /\ written \subseteq TableEntries(table, vs.live) \cup Held \cup Writing1
        /\ mem \cup Writing1 \subseteq Range(logf[logfile_number_])
        /\ \A e \in TableEntries(table, vs.live) \cup Held \cup acked : e[1] <= vs.last
        /\ wr # None => wr[1] = vs.last + 1
        /\ ~bg_error_ /\ bg.at # "applied" =>
             manifest[CURRENT].live = vs.live /\ manifest[CURRENT].log = vs.log

\* What an edit makes of the version.
Live == (vs.live \ edit.del) \cup edit.add

BackgroundOK ==
    pc = "open" =>
        /\ bg.at \in {"idle", "built", "edit", "applied", "clean"}
        /\ bg.at \in {"built", "edit", "applied"} =>
             /\ ~bg_error_
             /\ bg.number \in DOMAIN table /\ bg.number < vs.next /\ bg.number \notin vs.live
             /\ \/ bg.kind = "flush" /\ imm # {} /\ table[bg.number] = imm
                \/ bg.kind = "compact" /\ table[bg.number] = TableEntries(table, vs.live)
        /\ bg.at \in {"edit", "applied"} =>
             /\ edit.add = {bg.number}
             /\ IF bg.kind = "flush" THEN edit.del = {} /\ edit.log = logfile_number_
                ELSE edit.del = vs.live /\ edit.log = vs.log
             /\ vs.manifest < edit.next /\ edit.log < edit.next /\ \A n \in Live : n < edit.next
             /\ \A e \in TableEntries(table, Live) : e[1] <= edit.last
        /\ bg.at = "applied" => manifest[CURRENT].live = Live /\ manifest[CURRENT].log = edit.log

RecoveryOK ==
    /\ FilesOK /\ MemoryOK /\ WritesOK /\ DiskOK /\ UnrepairedOK /\ FreshOK /\ RepairOK /\ NewOK
    /\ SettingOK /\ ReplayOK /\ OpeningOK /\ OpenOK /\ BackgroundOK
-----------------------------------------------------------------------------
(* Tables and logs.                                                        *)

\* The entries of tables are those of the one and the other.
LEMMA EntriesOfBoth ==
    ASSUME NEW t, NEW A, NEW B
    PROVE  TableEntries(t, A \cup B) = TableEntries(t, A) \cup TableEntries(t, B)
BY DEF TableEntries

\* A table's entries are found where it is among the tables.
LEMMA EntriesOfOne ==
    ASSUME NEW t, NEW A, NEW n \in A
    PROVE  t[n] \subseteq TableEntries(t, A) /\ TableEntries(t, {n}) = t[n]
BY DEF TableEntries

\* All entries of tables have been written.
LEMMA EntriesWritten ==
    ASSUME NEW w, NEW t \in PartialFn(Number, SUBSET w), NEW A \in SUBSET DOMAIN t
    PROVE  TableEntries(t, A) \subseteq w
<1>1. \A n \in A : t[n] \in SUBSET w
  BY PartialFnElim
<1> QED
  BY <1>1 DEF TableEntries

\* A table put at a number that is in no use leaves the others.
LEMMA EntriesKept ==
    ASSUME NEW t, NEW n, NEW x, NEW A, A \subseteq DOMAIN t, n \notin A
    PROVE  TableEntries(With(t, n, x), A) = TableEntries(t, A)
<1>1. \A k \in A : With(t, n, x)[k] = t[k]
  BY DEF With
<1> QED
  BY <1>1 DEF TableEntries

\* And adds its entries.
LEMMA EntriesPut ==
    ASSUME NEW t, NEW n, NEW x, NEW A, A \subseteq DOMAIN t, n \notin A
    PROVE  TableEntries(With(t, n, x), A \cup {n}) = TableEntries(t, A) \cup x
<1>1. \A k \in A : With(t, n, x)[k] = t[k]
  BY DEF With
<1>2. With(t, n, x)[n] = x
  BY DEF With
<1> QED
  BY <1>1, <1>2 DEF TableEntries

\* The logs from a number on.
LEMMA LogsWritten ==
    ASSUME NEW w, NEW l \in PartialFn(Number, Seq(w)), NEW k
    PROVE  LogEntries(l, k) \subseteq w
<1>1. \A n \in DOMAIN l : Range(l[n]) \subseteq w
  <2> TAKE n \in DOMAIN l
  <2>1. l[n] \in Seq(w)
    BY PartialFnElim
  <2>2. DOMAIN l[n] = 1..Len(l[n]) /\ \A i \in 1..Len(l[n]) : l[n][i] \in w
    BY <2>1, ElementOfSeq, LenProperties
  <2> QED
    BY <2>2 DEF Range
<1> QED
  BY <1>1 DEF LogEntries, LogsSince

-----------------------------------------------------------------------------
(* What a manifest covers, it still covers when files come and go.         *)

\* A new table.
LEMMA CoversNewTable ==
    ASSUME NEW m, NEW t, NEW l, NEW w, Covers(m, t, l, w), NEW n, n \notin m.live, NEW x
    PROVE  Covers(m, With(t, n, x), l, w)
<1>1. DOMAIN With(t, n, x) = DOMAIN t \cup {n}
  BY DEF With
<1>2. m.live \subseteq DOMAIN t
  BY DEF Covers
<1>3. \A k \in m.live : With(t, n, x)[k] = t[k]
  BY <1>2 DEF With
<1>4. TableEntries(With(t, n, x), m.live) = TableEntries(t, m.live)
  BY <1>3 DEF TableEntries
<1> QED
  BY <1>1, <1>2, <1>4 DEF Covers

\* A new log.
LEMMA CoversNewLog ==
    ASSUME NEW m, NEW t, NEW l, NEW w, Covers(m, t, l, w),
           NEW n, n \notin LogsSince(l, m.log), NEW x
    PROVE  Covers(m, t, With(l, n, x), w)
<1>1. \A k \in LogsSince(l, m.log) : k \in LogsSince(With(l, n, x), m.log) /\ With(l, n, x)[k] = l[k]
  BY DEF With, LogsSince
<1>2. LogEntries(l, m.log) \subseteq LogEntries(With(l, n, x), m.log)
  BY <1>1 DEF LogEntries
<1> QED
  BY <1>2 DEF Covers

\* An entry more in a log.
LEMMA LogMore ==
    ASSUME NEW w, NEW l \in PartialFn(Number, Seq(w)), NEW k \in DOMAIN l, NEW e
    PROVE  /\ Longer(l, k, e) \in PartialFn(Number, Seq(w \cup {e}))
           /\ DOMAIN Longer(l, k, e) = DOMAIN l
           /\ Range(l[k]) \cup {e} \subseteq Range(Longer(l, k, e)[k])
           /\ \A n \in DOMAIN l \ {k} : Longer(l, k, e)[n] = l[n]
<1> DEFINE ww == w \cup {e}
           ll == [l EXCEPT ![k] = Append(l[k], e)]
<1>1. l \in [DOMAIN l -> Seq(w)] /\ DOMAIN l \in SUBSET Number
  BY PartialFnElim
<1>2. \A s1 \in Seq(w) : s1 \in Seq(ww)
  BY SeqMonotonic
<1>3. l \in [DOMAIN l -> Seq(ww)] /\ l[k] \in Seq(ww)
  BY <1>1, <1>2
<1>4. e \in ww
  OBVIOUS
<1> HIDE DEF ww
<1>5. /\ Append(l[k], e) \in Seq(ww) /\ Len(Append(l[k], e)) = Len(l[k]) + 1 /\ Len(l[k]) \in Nat
      /\ \A i \in 1..Len(l[k]) : Append(l[k], e)[i] = l[k][i]
      /\ Append(l[k], e)[Len(l[k]) + 1] = e
  BY <1>3, <1>4, AppendAt
<1>6. DOMAIN l[k] = 1..Len(l[k]) /\ DOMAIN Append(l[k], e) = 1..(Len(l[k]) + 1)
  BY <1>3, <1>5, LenProperties
<1>7. Range(Append(l[k], e)) = Range(l[k]) \cup {e}
  <2>1. \A i \in DOMAIN Append(l[k], e) : i \in DOMAIN l[k] \/ i = Len(l[k]) + 1
    BY <1>5, <1>6
  <2>2. \A i \in DOMAIN l[k] : i \in DOMAIN Append(l[k], e) /\ Append(l[k], e)[i] = l[k][i]
    BY <1>5, <1>6
  <2>3. Len(l[k]) + 1 \in DOMAIN Append(l[k], e)
    BY <1>5, <1>6
  <2> QED
    BY <2>1, <2>2, <2>3, <1>5 DEF Range
<1>8. ll \in [DOMAIN l -> Seq(ww)] /\ ll[k] = Append(l[k], e) /\ \A n \in DOMAIN l \ {k} : ll[n] = l[n]
  BY <1>1, <1>3, <1>5
<1>9. DOMAIN ll = DOMAIN l
  BY <1>8
<1> HIDE DEF ll
<1>10. ll \in PartialFn(Number, Seq(ww))
  BY <1>1, <1>8, PartialFnIntro
<1> QED
  BY <1>7, <1>8, <1>9, <1>10 DEF ww, ll, Longer

\* An entry more in a log that is read.
LEMMA CoversMore ==
    ASSUME NEW m, NEW t, NEW w, NEW l, Covers(m, t, l, w), NEW k \in LogsSince(l, m.log), NEW e, NEW ll,
           DOMAIN ll = DOMAIN l, Range(l[k]) \cup {e} \subseteq Range(ll[k]),
           \A n \in DOMAIN l \ {k} : ll[n] = l[n]
    PROVE  Covers(m, t, ll, w \cup {e})
<1>1. LogsSince(ll, m.log) = LogsSince(l, m.log)
  BY DEF LogsSince
<1>2. \A n \in LogsSince(l, m.log) : Range(l[n]) \subseteq Range(ll[n])
  BY DEF LogsSince
<1>3. LogEntries(l, m.log) \cup {e} \subseteq LogEntries(ll, m.log)
  BY <1>1, <1>2 DEF LogEntries
<1> QED
  BY <1>3 DEF Covers

\* Fewer logs, manifests and tables, as long as what the manifest names stays.
LEMMA CoversFewer ==
    ASSUME NEW m, NEW t, NEW l, NEW w, Covers(m, t, l, w), NEW S, NEW T,
           S \cap m.live = {}, T \cap LogsSince(l, m.log) = {}
    PROVE  Covers(m, Drop(t, S), Drop(l, T), w)
<1>1. m.live \subseteq DOMAIN Drop(t, S) /\ \A n \in m.live : Drop(t, S)[n] = t[n]
  BY DEF Drop, Covers
<1>2. TableEntries(Drop(t, S), m.live) = TableEntries(t, m.live)
  BY <1>1 DEF TableEntries
<1>3. \A n \in LogsSince(l, m.log) : n \in LogsSince(Drop(l, T), m.log) /\ Drop(l, T)[n] = l[n]
  BY DEF Drop, LogsSince
<1>4. LogEntries(l, m.log) \subseteq LogEntries(Drop(l, T), m.log)
  BY <1>3 DEF LogEntries
<1> QED
  BY <1>1, <1>2, <1>4 DEF Covers

\* A map with fewer keys.
LEMMA DropFacts ==
    ASSUME NEW S, NEW T, NEW f \in PartialFn(S, T), NEW ns
    PROVE  /\ Drop(f, ns) \in PartialFn(S, T) /\ DOMAIN Drop(f, ns) = DOMAIN f \ ns
           /\ \A n \in DOMAIN f \ ns : Drop(f, ns)[n] = f[n]
<1>1. f \in [DOMAIN f -> T] /\ DOMAIN f \ ns \in SUBSET S
  BY PartialFnElim
<1>2. Drop(f, ns) \in [DOMAIN f \ ns -> T]
  BY <1>1 DEF Drop
<1>3. Drop(f, ns) \in PartialFn(S, T)
  BY <1>1, <1>2, PartialFnIntro
<1> QED
  BY <1>3 DEF Drop

\* Another record in a manifest, or another manifest, leaves the rest.
LEMMA DescribesOther ==
    ASSUME NEW n, NEW ms, NEW t, NEW l, NEW w, Describes(n, ms, t, l, w), NEW k, k # n, NEW m
    PROVE  Describes(n, With(ms, k, m), t, l, w) /\ Describes(n, Drop(ms, {k}), t, l, w)
<1>1. n \in DOMAIN With(ms, k, m) /\ With(ms, k, m)[n] = ms[n]
  BY DEF With, Describes
<1>2. n \in DOMAIN Drop(ms, {k}) /\ Drop(ms, {k})[n] = ms[n]
  BY DEF Drop, Describes
<1> QED
  BY <1>1, <1>2 DEF Describes

\* A manifest written whole.
LEMMA DescribesNew ==
    ASSUME NEW n, NEW ms, NEW t, NEW l, NEW w, NEW m, n < m.next, Covers(m, t, l, w)
    PROVE  Describes(n, With(ms, n, m), t, l, w) /\ With(ms, n, m)[n] = m
<1>1. n \in DOMAIN With(ms, n, m) /\ With(ms, n, m)[n] = m
  BY DEF With
<1> QED
  BY <1>1 DEF Describes

-----------------------------------------------------------------------------
(* The first state.                                                        *)

\* An empty directory, and nothing in memory.
LEMMA RecoveryInit ==
    ASSUME RecoveryAssumption, Init
    PROVE  RecoveryOK
<1>1. FilesOK
  <2>1. ASSUME NEW T
        PROVE  Empty \in PartialFn(Number, T) /\ DOMAIN Empty = {}
    <3>1. Empty \in [{} -> T] /\ {} \in SUBSET Number
      BY DEF Empty
    <3> QED
      BY <3>1, PartialFnIntro
  <2>2. Bounded({})
    BY DEF Bounded
  <2> QED
    BY <2>1, <2>2 DEF Init, FilesOK
<1>2. MemoryOK
  BY DEF Init, MemoryOK, Versions, Edits, NoEdit, Number
<1>3. WritesOK
  <2>1. Bounded({e[1] : e \in {}})
    BY DEF Bounded
  <2> QED
    BY <2>1 DEF Init, WritesOK
<1>4. DiskOK /\ UnrepairedOK /\ FreshOK /\ RepairOK /\ NewOK /\ SettingOK
  BY DEF Init, DiskOK, UnrepairedOK, FreshOK, RepairOK, NewOK, SettingOK, Setting
<1>5. ReplayOK /\ OpeningOK /\ OpenOK /\ BackgroundOK
  BY DEF Init, ReplayOK, OpeningOK, OpenOK, BackgroundOK, Setting
<1> QED
  BY <1>1, <1>2, <1>3, <1>4, <1>5 DEF RecoveryOK

-----------------------------------------------------------------------------
(* Open fails, or the process dies: what counts is in the files.           *)

\* Whoever closes the database leaves nothing in memory.
LEMMA ClosingStep ==
    ASSUME Close, FilesOK', WritesOK', DiskOK', UnrepairedOK'
    PROVE  RecoveryOK'
<1>1. MemoryOK'
  BY DEF Close, MemoryOK, Versions, Edits, NoEdit, Number
<1>2. pc' = "closed" /\ pos' = 0 /\ maxseq' = 0 /\ edit' = NoEdit
  BY DEF Close
<1>3. FreshOK' /\ RepairOK' /\ NewOK' /\ SettingOK'
  BY <1>2 DEF FreshOK, Fresh, RepairOK, NewOK, SettingOK, Setting
<1>4. ReplayOK' /\ OpeningOK' /\ OpenOK' /\ BackgroundOK'
  BY <1>2 DEF ReplayOK, OpeningOK, OpenOK, BackgroundOK, Setting
<1> QED
  BY <1>1, <1>3, <1>4 DEF RecoveryOK

\* Nothing but the temporary files changed, or the manifest that was not
\* installed is gone.
LEMMA FilesLeft ==
    ASSUME FilesOK, UNCHANGED <<plan, logf, table, written>>, temp' \subseteq temp,
           NEW n, manifest' = manifest \/ manifest' = Drop(manifest, {n})
    PROVE  FilesOK'
<1>1. manifest' \in PartialFn(Number, Manifests)
  <2>1. manifest \in PartialFn(Number, Manifests)
    BY DEF FilesOK
  <2>2. Drop(manifest, {n}) \in PartialFn(Number, Manifests)
    BY <2>1, DropFacts
  <2> QED
    BY <2>1, <2>2
<1>2. temp' \subseteq Number /\ Bounded(temp')
  <2>1. temp \in SUBSET Nat /\ Bounded(temp) /\ temp' \in SUBSET temp
    BY DEF FilesOK, Number
  <2> QED
    BY <2>1, BoundedFacts DEF FilesOK
<1> QED
  BY <1>1, <1>2 DEF FilesOK

\* A step that writes nothing.
LEMMA WritesSame ==
    ASSUME WritesOK, UNCHANGED ghost
    PROVE  WritesOK'
BY DEF WritesOK, ghost

\* A step that closes the database and leaves the files as they are.
LEMMA ClosedStep ==
    ASSUME RecoveryOK, Close, UNCHANGED <<disk, plan, unrepaired, ghost>>,
           ~(pc = "renaming" /\ caller = "open")
    PROVE  RecoveryOK'
<1>1. FilesOK' /\ WritesOK'
  BY WritesSame DEF RecoveryOK, FilesOK, disk, ghost
<1>2. pc' = "closed"
  BY DEF Close
<1>3. DiskOK'
  BY <1>2 DEF RecoveryOK, DiskOK, Names, disk, ghost
<1>4. UnrepairedOK'
  BY <1>2 DEF RecoveryOK, UnrepairedOK, disk, ghost
<1> QED
  BY <1>1, <1>3, <1>4, ClosingStep

\* A step that closes the database and deletes the manifest that is not CURRENT.
LEMMA DroppedStep ==
    ASSUME RecoveryOK, Close, UNCHANGED <<CURRENT, logf, table, plan, unrepaired, ghost>>,
           ~(pc = "renaming" /\ caller = "open"), temp' \subseteq temp,
           NEW n, n # CURRENT \/ pc = "newdb", ~unrepaired, manifest' = Drop(manifest, {n})
    PROVE  RecoveryOK'
<1>1. FilesOK' /\ WritesOK'
  BY FilesLeft, WritesSame DEF RecoveryOK, ghost
<1>2. pc' = "closed"
  BY DEF Close
<1>3. \/ CURRENT = None /\ written = {}
      \/ n # CURRENT /\ Describes(CURRENT, manifest, table, logf, written)
  BY DEF RecoveryOK, DiskOK, Names, NewOK
<1>4. DiskOK'
  <2>1. CASE CURRENT = None /\ written = {}
    BY <2>1 DEF DiskOK, ghost
  <2>2. CASE n # CURRENT /\ Describes(CURRENT, manifest, table, logf, written)
    <3>1. Describes(CURRENT, Drop(manifest, {n}), table, logf, written)
      BY <2>2, DescribesOther
    <3> QED
      BY <3>1 DEF DiskOK, Names, ghost
  <2> QED
    BY <1>3, <2>1, <2>2
<1>5. UnrepairedOK'
  BY DEF UnrepairedOK
<1> QED
  BY <1>1, <1>4, <1>5, ClosingStep

\* NewDB fails.
LEMMA NewDBFailsStep ==
    ASSUME RecoveryOK, NewDBFails
    PROVE  RecoveryOK'
<1>1. ~unrepaired
  BY DEF NewDBFails, RecoveryOK, NewOK
<1> QED
  BY <1>1, DroppedStep DEF NewDBFails, OpenFails, Fails

\* The temporary file for CURRENT cannot be written.
LEMMA SetCurrentFileFailsStep ==
    ASSUME RecoveryOK, SetCurrentFileFails
    PROVE  RecoveryOK'
<1>1. pc = "setcurrent" /\ Close /\ UNCHANGED <<plan, unrepaired, ghost, CURRENT, logf, table>>
      /\ temp' \subseteq temp /\ pc' = "closed"
  BY DEF SetCurrentFileFails, OpenFails, Fails, Close
<1>2. CASE caller = "open"
  <2>1. ~unrepaired /\ vs.manifest # CURRENT /\ manifest' = Drop(manifest, {vs.manifest})
    BY <1>1, <1>2 DEF SetCurrentFileFails, RecoveryOK, OpeningOK, Setting
  <2> QED
    BY <1>1, <2>1, DroppedStep
<1>3. CASE caller # "open"
  <2>1. UNCHANGED manifest
    BY <1>3 DEF SetCurrentFileFails
  <2>2. FilesOK' /\ WritesOK'
    BY <1>1, <2>1, FilesLeft, WritesSame DEF RecoveryOK, ghost
  <2>3. DiskOK'
    BY <1>1, <2>1 DEF RecoveryOK, DiskOK, Names, ghost
  <2>4. UnrepairedOK'
    BY <1>1, <2>1 DEF RecoveryOK, UnrepairedOK, ghost
  <2> QED
    BY <1>1, <2>2, <2>3, <2>4, ClosingStep
<1> QED
  BY <1>2, <1>3

\* The file CURRENT cannot be renamed to.
LEMMA RenameFailsStep ==
    ASSUME RecoveryOK, Restrained, RenameFails
    PROVE  RecoveryOK'
<1>1. pc = "renaming" /\ Close /\ UNCHANGED <<plan, unrepaired, ghost, CURRENT, logf, table>>
      /\ temp' \subseteq temp /\ pc' = "closed"
  BY DEF RenameFails, OpenFails, Fails, Close
<1>2. caller # "open" /\ UNCHANGED manifest
  BY DEF RenameFails, Interruptible, Restrained, RecoveryOK, FilesOK
<1>3. FilesOK' /\ WritesOK'
  BY <1>1, <1>2, FilesLeft, WritesSame DEF RecoveryOK, ghost
<1>4. DiskOK' /\ UnrepairedOK'
  BY <1>1, <1>2 DEF RecoveryOK, DiskOK, Names, UnrepairedOK, ghost
<1> QED
  BY <1>1, <1>3, <1>4, ClosingStep

\* LogAndApply cannot write a new descriptor.
LEMMA WriteManifestFailsStep ==
    ASSUME RecoveryOK, WriteManifestFails
    PROVE  RecoveryOK'
<1>1. ~unrepaired /\ vs.manifest # CURRENT
  BY DEF WriteManifestFails, RecoveryOK, OpeningOK
<1> QED
  BY <1>1, DroppedStep DEF WriteManifestFails, OpenFails, Fails

\* A missing manifest or file, and what else Open gives up for.
LEMMA GivenUpStep ==
    ASSUME RecoveryOK, ManifestMissing \/ ReplayFailed \/ NewLogFails
    PROVE  RecoveryOK'
BY ClosedStep DEF ManifestMissing, ReplayFailed, NewLogFails, OpenFails, Fails, budget

\* The process ends.
LEMMA CrashStep ==
    ASSUME RecoveryOK, Restrained, Crash
    PROVE  RecoveryOK'
<1>1. ~(pc = "renaming" /\ caller = "open")
  BY DEF Crash, Interruptible, Restrained, RecoveryOK, FilesOK
<1> QED
  BY <1>1, ClosedStep DEF Crash

-----------------------------------------------------------------------------
(* DB::Open makes a database, or finds the one there is.                   *)

\* A step that leaves the files.
LEMMA FilesSame ==
    ASSUME FilesOK, UNCHANGED <<disk, plan, written>>
    PROVE  FilesOK'
BY DEF FilesOK, disk

\* DB::Open begins.
LEMMA OpenStep ==
    ASSUME RecoveryOK, RecoveryAssumption, Restrained, Open
    PROVE  RecoveryOK'
<1>1. pc = "closed" /\ pc' \in {"newdb", "recover"} /\ s' = "ok"
      /\ UNCHANGED <<disk, caller, vs, edit, logs, pos, maxseq, run, repair, ghost, budget>>
  BY DEF Open, FirstStep
<1>2. unrepaired => CURRENT # None /\ CURRENT \notin DOMAIN manifest
  BY DEF Open, Restrained, RecoveryOK, FilesOK
<1>3. (pc' = "newdb") <=> CURRENT = None
  BY DEF Open, FirstStep
<1>4. ~unrepaired /\ CURRENT = None => written = {}
  <2>1. None \notin DOMAIN manifest
    <3>1. manifest \in PartialFn(Number, Manifests)
      BY DEF RecoveryOK, FilesOK
    <3>2. DOMAIN manifest \subseteq Number
      BY <3>1, PartialFnElim
    <3> QED
      BY <3>2 DEF RecoveryAssumption, Number
  <2> QED
    BY <1>1, <2>1 DEF RecoveryOK, DiskOK, Names, Describes
<1>5. FilesOK' /\ WritesOK'
  BY <1>1, FilesSame, WritesSame DEF RecoveryOK, ghost, budget
<1>6. MemoryOK'
  BY <1>1 DEF RecoveryOK, MemoryOK, run, ghost
<1>7. DiskOK' /\ UnrepairedOK'
  BY <1>1, <1>2, <1>3, <1>4 DEF RecoveryOK, DiskOK, Names, UnrepairedOK, disk, ghost, repair
<1>8. FreshOK' /\ RepairOK' /\ NewOK' /\ SettingOK'
  BY <1>1, <1>2, <1>3, <1>4
  DEF RecoveryOK, FreshOK, Fresh, RepairOK, NewOK, SettingOK, Setting, disk, ghost, repair
<1>9. ReplayOK' /\ OpeningOK' /\ OpenOK' /\ BackgroundOK'
  BY <1>1 DEF ReplayOK, OpeningOK, OpenOK, BackgroundOK, Setting
<1> QED
  BY <1>5, <1>6, <1>7, <1>8, <1>9 DEF RecoveryOK

\* NewDB writes the first descriptor.
LEMMA NewDBStep ==
    ASSUME RecoveryOK, NewDB
    PROVE  RecoveryOK'
<1> DEFINE first == Apply(NoRecords, [NoEdit EXCEPT !.next = 2])
<1>1. /\ pc = "newdb" /\ pc' = "setcurrent" /\ caller' = "newdb"
      /\ manifest' = With(manifest, 1, first) /\ vs' = [vs EXCEPT !.manifest = 1]
      /\ UNCHANGED <<CURRENT, temp, logf, table, edit, replay, run, repair, ghost, budget>>
  BY DEF NewDB, Put
<1>2. ~unrepaired /\ CURRENT = None /\ written = {}
  BY <1>1 DEF RecoveryOK, NewOK
<1>3. first \in Manifests /\ 1 < first.next
  BY DEF Apply, NoRecords, NoEdit, Manifests
<1>4. Covers(first, table, logf, written)
  BY <1>2 DEF Covers, TableEntries, Apply, NoRecords, NoEdit
<1> HIDE DEF first
<1>5. FilesOK'
  <2>1. manifest \in PartialFn(Number, Manifests) /\ 1 \in Number
    BY DEF RecoveryOK, FilesOK, Number
  <2>2. manifest' \in PartialFn(Number, Manifests)
    BY <1>1, <1>3, <2>1, WithFacts
  <2> QED
    BY <1>1, <2>2 DEF RecoveryOK, FilesOK, ghost, budget
<1>6. WritesOK'
  BY <1>1, WritesSame DEF RecoveryOK
<1>7. MemoryOK'
  BY <1>1 DEF RecoveryOK, MemoryOK, run, replay, ghost, Versions
<1>8. Describes(1, manifest', table, logf, written)
  BY <1>1, <1>3, <1>4, DescribesNew
<1>9. SettingOK'
  BY <1>1, <1>8 DEF RecoveryOK, MemoryOK, Versions, SettingOK, Names, ghost
<1>10. DiskOK' /\ UnrepairedOK' /\ FreshOK' /\ RepairOK' /\ NewOK'
  BY <1>1, <1>2
  DEF RecoveryOK, DiskOK, UnrepairedOK, FreshOK, Fresh, RepairOK, NewOK, Setting, ghost, repair,
      replay
<1>11. ReplayOK' /\ OpeningOK' /\ OpenOK' /\ BackgroundOK'
  BY <1>1 DEF ReplayOK, OpeningOK, OpenOK, BackgroundOK, Setting
<1> QED
  BY <1>5, <1>6, <1>7, <1>9, <1>10, <1>11 DEF RecoveryOK

-----------------------------------------------------------------------------
(* CURRENT is set.                                                         *)

\* SetCurrentFile writes the temporary file.
LEMMA SetCurrentFileStep ==
    ASSUME RecoveryOK, SetCurrentFile
    PROVE  RecoveryOK'
<1>1. /\ pc = "setcurrent" /\ pc' = "rename" /\ temp' = temp \cup {vs.manifest}
      /\ UNCHANGED <<CURRENT, manifest, logf, table, caller, vs, edit, replay, run, repair, ghost,
                     budget>>
  BY DEF SetCurrentFile
<1>2. vs.manifest \in Number
  BY <1>1 DEF RecoveryOK, SettingOK, OpeningOK, Setting, Number
<1>3. FilesOK'
  <2>1. temp \in SUBSET Nat /\ Bounded(temp) /\ vs.manifest \in Nat
    BY <1>2 DEF RecoveryOK, FilesOK, Number
  <2>2. Bounded(temp')
    BY <1>1, <2>1, BoundedFacts
  <2> QED
    BY <1>1, <1>2, <2>2 DEF RecoveryOK, FilesOK, ghost, budget
<1>4. WritesOK' /\ MemoryOK'
  BY <1>1, WritesSame DEF RecoveryOK, MemoryOK, run, replay, ghost
<1>5. DiskOK' /\ UnrepairedOK' /\ FreshOK' /\ RepairOK' /\ NewOK' /\ SettingOK'
  BY <1>1
  DEF RecoveryOK, DiskOK, Names, UnrepairedOK, FreshOK, Fresh, RepairOK, NewOK, SettingOK,
      Setting, ghost, repair, replay
<1>6. OpeningOK'
  BY <1>1 DEF RecoveryOK, OpeningOK, Names, Setting, ghost, repair, run
<1>7. ReplayOK' /\ OpenOK' /\ BackgroundOK'
  BY <1>1 DEF ReplayOK, OpenOK, BackgroundOK
<1> QED
  BY <1>3, <1>4, <1>5, <1>6, <1>7 DEF RecoveryOK

\* The first half of RenameFile.
LEMMA RemoveTargetStep ==
    ASSUME RecoveryOK, RecoveryAssumption, RemoveTarget
    PROVE  RecoveryOK'
<1>1. /\ pc = "rename" /\ pc' = "renaming" /\ CURRENT' = None
      /\ UNCHANGED <<temp, manifest, logf, table, caller, vs, edit, replay, run, repair, ghost,
                     budget>>
  BY DEF RemoveTarget
<1>2. FilesOK' /\ WritesOK' /\ MemoryOK'
  BY <1>1, WritesSame DEF RecoveryOK, FilesOK, MemoryOK, run, replay, ghost, budget
<1>3. SettingOK' /\ FreshOK' /\ RepairOK' /\ NewOK' /\ UnrepairedOK'
  BY <1>1
  DEF RecoveryOK, Names, UnrepairedOK, FreshOK, Fresh, RepairOK, NewOK, SettingOK, Setting,
      ghost, repair, replay
<1>4. DiskOK'
  BY <1>1 DEF RecoveryOK, DiskOK, NewOK, SettingOK, Setting, ghost, repair
<1>5. OpeningOK'
  BY <1>1 DEF RecoveryOK, OpeningOK, Names, Setting, ghost, repair, run, RecoveryAssumption, Number
<1>6. ReplayOK' /\ OpenOK' /\ BackgroundOK'
  BY <1>1 DEF ReplayOK, OpenOK, BackgroundOK
<1> QED
  BY <1>2, <1>3, <1>4, <1>5, <1>6 DEF RecoveryOK

\* The second half: CURRENT names a descriptor that is complete.
LEMMA RenameFileStep ==
    ASSUME RecoveryOK, RenameFile
    PROVE  RecoveryOK'
<1>1. /\ pc = "renaming" /\ CURRENT' = vs.manifest /\ temp' = temp \ {vs.manifest}
      /\ unrepaired' = (unrepaired /\ caller # "repair")
      /\ UNCHANGED <<manifest, logf, table, caller, vs, edit, replay, run, rep, repairs, ghost,
                     budget>>
  BY DEF RenameFile
<1>2. /\ caller \in {"newdb", "open", "repair"}
      /\ caller = "newdb" => pc' = "recover"
      /\ caller = "open" => pc' = "install"
      /\ caller = "repair" => pc' = "closed"
  BY <1>1 DEF RecoveryOK, SettingOK, Setting, RenameFile
<1>3. FilesOK'
  <2>1. temp \in SUBSET Nat /\ Bounded(temp) /\ temp' \in SUBSET temp
    BY <1>1 DEF RecoveryOK, FilesOK, Number
  <2>2. Bounded(temp')
    BY <2>1, BoundedFacts
  <2> QED
    BY <1>1, <2>2 DEF RecoveryOK, FilesOK, ghost, budget
<1>4. WritesOK'
  BY <1>1, WritesSame DEF RecoveryOK
<1>5. MemoryOK'
  BY <1>1, <1>2 DEF RecoveryOK, MemoryOK, run, replay, ghost
<1>6. ~unrepaired'
  BY <1>1, <1>2 DEF RecoveryOK, UnrepairedOK, Setting
<1>7. Names(CURRENT)'
  <2>1. Names(vs.manifest)
    BY <1>1, <1>2 DEF RecoveryOK, SettingOK, OpeningOK, Setting
  <2> QED
    BY <1>1, <2>1 DEF Names, ghost
<1>8. DiskOK' /\ UnrepairedOK'
  BY <1>6, <1>7 DEF DiskOK, UnrepairedOK
<1>9. FreshOK' /\ RepairOK' /\ NewOK' /\ SettingOK'
  BY <1>1, <1>2
  DEF RecoveryOK, FreshOK, Fresh, RepairOK, NewOK, SettingOK, Setting, replay
<1>10. OpeningOK'
  <2>1. CASE caller = "open"
    BY <1>1, <1>2, <1>6, <2>1 DEF RecoveryOK, OpeningOK, Names, Setting, ghost, run
  <2>2. CASE caller # "open"
    BY <1>2, <2>2 DEF OpeningOK, Setting
  <2> QED
    BY <2>1, <2>2
<1>11. ReplayOK' /\ OpenOK' /\ BackgroundOK'
  BY <1>2 DEF ReplayOK, OpenOK, BackgroundOK
<1> QED
  BY <1>3, <1>4, <1>5, <1>8, <1>9, <1>10, <1>11 DEF RecoveryOK

\* LogAndApply of DB::Open makes the new version current.
LEMMA InstallStep ==
    ASSUME RecoveryOK, Install
    PROVE  RecoveryOK'
<1>1. /\ pc = "install" /\ pc' = "clean" /\ edit' = NoEdit
      /\ vs' = [vs EXCEPT !.live = (@ \ edit.del) \cup edit.add, !.log = edit.log]
      /\ UNCHANGED <<disk, caller, replay, run, repair, ghost, budget>>
  BY DEF Install
<1>2. FilesOK' /\ WritesOK'
  BY <1>1, FilesSame, WritesSame DEF RecoveryOK, ghost, budget
<1>3. vs \in Versions /\ edit \in Edits
  BY DEF RecoveryOK, MemoryOK
<1>4. /\ vs' \in Versions /\ vs'.live = vs.live \cup edit.add /\ vs'.log = edit.log /\ vs'.next = vs.next
      /\ vs'.last = vs.last /\ vs'.manifest = vs.manifest
  <2>1. edit.del = {}
    BY <1>1 DEF RecoveryOK, OpeningOK
  <2> QED
    BY <1>1, <1>3, <2>1 DEF Versions, Edits
<1>5. MemoryOK'
  BY <1>1, <1>4 DEF RecoveryOK, MemoryOK, run, replay, ghost, NoEdit, Edits
<1>6. DiskOK' /\ UnrepairedOK' /\ FreshOK' /\ RepairOK' /\ NewOK' /\ SettingOK'
  BY <1>1
  DEF RecoveryOK, DiskOK, Names, UnrepairedOK, OpeningOK, FreshOK, Fresh, RepairOK, NewOK,
      SettingOK, Setting, disk, ghost, repair
<1>7. OpenOK'
  <2>1. /\ ~unrepaired /\ vs.manifest < vs.next
        /\ vs.live \cup edit.add \subseteq DOMAIN table
        /\ \A n \in vs.live \cup edit.add : n < vs.next
        /\ written \subseteq TableEntries(table, vs.live \cup edit.add)
        /\ \A e \in written : e[1] <= vs.last
        /\ edit.log = logfile_number_ /\ logfile_number_ \in DOMAIN logf
        /\ \A n \in LogsSince(logf, edit.log) : n < vs.next
        /\ Names(vs.manifest)
        /\ manifest[vs.manifest].live = vs.live \cup edit.add
        /\ manifest[vs.manifest].log = edit.log
        /\ CURRENT = vs.manifest
    BY <1>1 DEF RecoveryOK, OpeningOK
  <2>2. logfile_number_ \in Nat
    BY <1>3, <2>1 DEF Edits
  <2>3. mem = {} /\ imm = {} /\ wr = None /\ acked \subseteq written
    BY <1>1 DEF RecoveryOK, MemoryOK, WritesOK
  <2>4. TableEntries(table, vs.live \cup edit.add) \subseteq written
    <3>1. table \in PartialFn(Number, SUBSET written)
      BY DEF RecoveryOK, FilesOK
    <3> QED
      BY <2>1, <3>1, EntriesWritten
  <2>5. /\ UNCHANGED <<CURRENT, temp, manifest, logf, table, mem, imm, logfile_number_, wr, bg>>
        /\ UNCHANGED <<bg_error_, unrepaired, written, acked>>
    BY <1>1 DEF disk, run, ghost, repair
  <2>6. /\ Held' = {} /\ Writing1' = {} /\ wr' = None
    BY <2>3, <2>5 DEF Held, Writing1
  <2>7. /\ vs'.log <= manifest'[CURRENT'].log /\ manifest'[CURRENT'].log <= logfile_number_'
        /\ manifest'[CURRENT'].live = vs'.live /\ manifest'[CURRENT'].log = vs'.log
    BY <1>4, <2>1, <2>2, <2>5
  <2>8. \A e \in TableEntries(table', vs'.live) \cup acked' : e[1] <= vs'.last
    BY <1>4, <2>1, <2>3, <2>4, <2>5
  <2>9. Names(CURRENT)'
    BY <2>1, <2>5 DEF Names
  <2>10. \A n \in LogsSince(logf', vs'.log) : n < vs'.next
    BY <1>4, <2>1, <2>5
  <2>11. written' \subseteq TableEntries(table', vs'.live)
    BY <1>4, <2>1, <2>5
  <2>12. /\ ~unrepaired' /\ CURRENT' = vs'.manifest /\ vs'.manifest < vs'.next
         /\ vs'.live \subseteq DOMAIN table' /\ \A n \in vs'.live : n < vs'.next
         /\ logfile_number_' \in DOMAIN logf'
    BY <1>4, <2>1, <2>5
  <2>13. mem' \cup Writing1' = {}
    BY <2>3, <2>5, <2>6
  <2> QED
    BY <2>6, <2>7, <2>8, <2>9, <2>10, <2>11, <2>12, <2>13 DEF OpenOK
<1>8. ReplayOK' /\ OpeningOK' /\ BackgroundOK'
  BY <1>1 DEF ReplayOK, OpeningOK, BackgroundOK, Setting
<1> QED
  BY <1>2, <1>5, <1>6, <1>7, <1>8 DEF RecoveryOK

\* Nothing is left to delete, and DB::Open returns.
LEMMA OpenedStep ==
    ASSUME RecoveryOK, Opened
    PROVE  RecoveryOK'
<1>1. /\ pc = "clean" /\ pc' = "open"
      /\ UNCHANGED <<disk, caller, vs, edit, replay, run, repair, ghost, budget>>
  BY DEF Opened
<1>2. FilesOK' /\ WritesOK'
  BY <1>1, FilesSame, WritesSame DEF RecoveryOK, ghost, budget
<1>3. MemoryOK'
  BY <1>1 DEF RecoveryOK, MemoryOK, run, replay, ghost
<1>4. DiskOK' /\ UnrepairedOK' /\ FreshOK' /\ RepairOK' /\ NewOK' /\ SettingOK'
  BY <1>1
  DEF RecoveryOK, DiskOK, Names, UnrepairedOK, OpenOK, FreshOK, Fresh, RepairOK, NewOK,
      SettingOK, Setting, disk, ghost, repair
<1>5. OpenOK'
  BY <1>1 DEF RecoveryOK, OpenOK, Names, Held, Writing1, disk, run, ghost, repair
<1>6. bg = Idle /\ bg' = Idle
  BY <1>1 DEF RecoveryOK, MemoryOK, run
<1>7. ReplayOK' /\ OpeningOK' /\ BackgroundOK'
  BY <1>1, <1>6 DEF ReplayOK, OpeningOK, BackgroundOK, Setting, Idle
<1> QED
  BY <1>2, <1>3, <1>4, <1>5, <1>7 DEF RecoveryOK

-----------------------------------------------------------------------------
(* The manifest is read, then the logs.                                    *)

\* Of a log of which nothing was read all counts.
LEMMA RestAll ==
    ASSUME NEW S, NEW log \in Seq(S)
    PROVE  Rest(log, 0) = Range(log)
<1>1. DOMAIN log = 1..Len(log)
  BY LenProperties
<1> QED
  BY <1>1 DEF Rest, Range

\* Of logs that were not begun everything is left.
LEMMA RestOfAll ==
    ASSUME NEW S, NEW l \in PartialFn(Number, Seq(S)), NEW ns \in SUBSET DOMAIN l
    PROVE  RestOf(l, ns, 0) = UNION {Range(l[n]) : n \in ns}
<1>1. \A n \in ns : l[n] \in Seq(S)
  BY PartialFnElim
<1>2. \A n \in ns : Rest(l[n], 0) = Range(l[n])
  BY <1>1, RestAll
<1> QED
  BY <1>2 DEF RestOf

\* A part of the log is read, or the log is read to its end.
LEMMA RestRead ==
    ASSUME NEW S, NEW l \in PartialFn(Number, Seq(S)), NEW ns \in SUBSET DOMAIN l, ns # {},
           NEW p \in Nat, NEW q \in Nat
    PROVE  /\ RestOf(l, ns, p) \subseteq {l[Min(ns)][i] : i \in (p + 1)..q} \cup RestOf(l, ns, q)
           /\ Rest(l[Min(ns)], p) = {} => RestOf(l, ns, p) \subseteq RestOf(l, ns \ {Min(ns)}, 0)
<1>1. l \in [DOMAIN l -> Seq(S)] /\ ns \in SUBSET Nat
  BY PartialFnElim DEF Number
<1>2. PICK first \in ns : first = Min(ns)
  BY <1>1, MinFacts
<1>3. l[first] \in Seq(S) /\ Len(l[first]) \in Nat
  BY <1>1, LenProperties
<1>4. Rest(l[first], p) \subseteq {l[first][i] : i \in (p + 1)..q} \cup Rest(l[first], q)
  BY <1>3 DEF Rest
<1>5. RestOf(l, ns, p) \subseteq {l[Min(ns)][i] : i \in (p + 1)..q} \cup RestOf(l, ns, q)
  BY <1>2, <1>4 DEF RestOf
<1>6. ASSUME Rest(l[first], p) = {}
      PROVE  RestOf(l, ns, p) \subseteq RestOf(l, ns \ {first}, 0)
  <2>1. RestOf(l, ns \ {first}, 0) = UNION {Range(l[n]) : n \in ns \ {first}}
    BY RestOfAll
  <2> QED
    BY <1>2, <1>6, <2>1 DEF RestOf
<1> QED
  BY <1>2, <1>5, <1>6

\* How far RecoverLogFile comes with one table.
LEMMA ChunkFacts ==
    ASSUME RecoveryOK, RecoveryAssumption, logs \subseteq DOMAIN logf, logs # {}
    PROVE  /\ First \in logs /\ First \in Number /\ ChunkEnd \in Nat
           /\ Chunk \subseteq written /\ Chunk = {logf[First][i] : i \in (pos + 1)..ChunkEnd}
           /\ Chunk = {} => Rest(logf[First], pos) = {}
<1>1. logf \in PartialFn(Number, Seq(written)) /\ pos \in Nat /\ WriteBufferSize \in Nat \ {0}
  BY DEF RecoveryOK, FilesOK, MemoryOK, RecoveryAssumption
<1>2. logf \in [DOMAIN logf -> Seq(written)] /\ DOMAIN logf \subseteq Number
  BY <1>1, PartialFnElim
<1>3. First \in logs /\ First \in Number
  BY <1>2, MinFacts DEF First, Number
<1>4. PICK log \in Seq(written) : log = logf[First]
  BY <1>2, <1>3
<1>5. PICK len \in Nat : len = Len(log)
  BY LenProperties
<1>6. PICK full \in Nat : full = pos + WriteBufferSize /\ full > pos
  BY <1>1
<1>7. ChunkEnd \in {len, full} /\ ChunkEnd <= len
  BY <1>4, <1>5, <1>6, OfTwo DEF ChunkEnd
<1>8. Chunk = {log[i] : i \in (pos + 1)..ChunkEnd}
  BY <1>4 DEF Chunk
<1>9. \A i \in (pos + 1)..ChunkEnd : log[i] \in written
  <2>1. \A i \in 1..len : log[i] \in written
    BY <1>5, ElementOfSeq
  <2> QED
    BY <2>1, <1>1, <1>7
<1>10. ASSUME Chunk = {}
       PROVE  Rest(log, pos) = {}
  <2>1. ~(pos + 1 <= ChunkEnd)
    <3> SUFFICES ASSUME pos + 1 <= ChunkEnd PROVE FALSE
      OBVIOUS
    <3>1. pos + 1 \in (pos + 1)..ChunkEnd
      BY <1>1, <1>7
    <3>2. log[pos + 1] \in Chunk
      BY <1>8, <3>1
    <3> QED
      BY <1>10, <3>2
  <2>2. len <= pos
    BY <1>1, <1>6, <1>7, <2>1
  <2> QED
    BY <1>1, <1>5, <2>2 DEF Rest
<1> QED
  BY <1>3, <1>4, <1>7, <1>8, <1>9, <1>10

\* The largest sequence number, with those of some more entries.
LEMMA MaxSequenceFacts ==
    ASSUME WritesOK, maxseq \in Nat, NEW entries \in SUBSET written
    PROVE  /\ MaxSequence(entries) \in Nat /\ maxseq <= MaxSequence(entries)
           /\ \A e \in entries : e[1] <= MaxSequence(entries)
<1> DEFINE A == {e[1] : e \in entries}
           B == {e[1] : e \in written}
<1>1. A \in SUBSET B /\ B \in SUBSET Nat /\ Bounded(B)
  BY DEF WritesOK, Entry
<1>2. Bounded(A)
  BY <1>1, BoundedFacts
<1>3. A \in SUBSET Nat
  BY <1>1
<1> HIDE DEF A, B
<1>4. Bounded(A \cup {maxseq})
  BY <1>2, <1>3, BoundedFacts
<1>5. {maxseq} \cup A = A \cup {maxseq} /\ A \cup {maxseq} \in SUBSET Nat /\ A \cup {maxseq} # {}
  BY <1>3
<1>6. Max(A \cup {maxseq}) \in A \cup {maxseq} /\ \A k \in A \cup {maxseq} : k <= Max(A \cup {maxseq})
  BY <1>4, <1>5, MaxFacts
<1>7. MaxSequence(entries) = Max(A \cup {maxseq})
  BY <1>5 DEF MaxSequence, A
<1>8. \A e \in entries : e[1] \in A
  BY DEF A
<1> QED
  BY <1>5, <1>6, <1>7, <1>8

\* A table put at a number that no manifest knows.
LEMMA DescribesNewTable ==
    ASSUME NEW n, NEW ms, NEW t, NEW l, NEW w, Describes(n, ms, t, l, w), NEW k,
           k \notin ms[n].live, NEW x
    PROVE  Describes(n, ms, With(t, k, x), l, w)
BY CoversNewTable DEF Describes

\* A descriptor does not mind a new log.
LEMMA DescribesNewLog ==
    ASSUME NEW n, NEW ms, NEW t, NEW l, NEW w, Describes(n, ms, t, l, w), NEW k,
           k \notin LogsSince(l, ms[n].log), NEW x
    PROVE  Describes(n, ms, t, With(l, k, x), w)
BY CoversNewLog DEF Describes

\* VersionSet::Recover reads the descriptor.
LEMMA RecoverStep ==
    ASSUME RecoveryOK, RecoveryAssumption, Recover
    PROVE  RecoveryOK'
<1>1. /\ pc = "recover" /\ CURRENT \in DOMAIN manifest
      /\ UNCHANGED <<disk, repairs, unrepaired, ghost, budget>>
  BY DEF Recover
<1>2. manifest \in PartialFn(Number, Manifests)
  BY DEF RecoveryOK, FilesOK
<1>3. PICK m \in Manifests : m = manifest[CURRENT]
  BY <1>1, <1>2, PartialFnElim
<1>4. CASE NothingMissing(m.live)
  <2>1. /\ vs' = [next |-> m.next + 1, manifest |-> m.next, log |-> m.log, last |-> m.last,
                  live |-> m.live]
        /\ logs' = LogsFrom(m.log) /\ pc' = "replay"
        /\ UNCHANGED <<caller, edit, pos, maxseq, s, run, rep>>
    BY <1>3, <1>4 DEF Recover
  <2>2. FilesOK' /\ WritesOK'
    BY <1>1, FilesSame, WritesSame DEF RecoveryOK, ghost, budget
  <2>3. ~unrepaired /\ Names(CURRENT)
    <3>1. CURRENT # None
      <4>1. DOMAIN manifest \subseteq Number
        BY <1>2, PartialFnElim
      <4> QED
        BY <1>1, <4>1 DEF RecoveryAssumption, Number
    <3>2. ~unrepaired
      BY <1>1 DEF RecoveryOK, UnrepairedOK, Setting
    <3> QED
      BY <1>1, <3>1, <3>2 DEF RecoveryOK, DiskOK
  <2>4. pos = 0 /\ maxseq = 0 /\ edit = NoEdit /\ s = "ok"
    BY <1>1 DEF RecoveryOK, FreshOK, Fresh, MemoryOK
  <2>5. LogsFrom(m.log) = LogsSince(logf, m.log) /\ LogsFrom(m.log) \subseteq DOMAIN logf
    BY DEF LogsFrom, LogsSince
  <2>6. logf \in PartialFn(Number, Seq(written))
    BY DEF RecoveryOK, FilesOK
  <2>7. DOMAIN logf \subseteq Number
    BY <2>6, PartialFnElim
  <2>8. MemoryOK'
    <3>1. vs' \in Versions
      BY <2>1 DEF Versions, Manifests, Number
    <3> QED
      BY <1>1, <2>1, <2>5, <2>7, <3>1 DEF RecoveryOK, MemoryOK, run, ghost
  <2>9. DiskOK' /\ UnrepairedOK' /\ FreshOK' /\ RepairOK' /\ NewOK' /\ SettingOK'
    BY <1>1, <2>1, <2>3
    DEF DiskOK, Names, UnrepairedOK, FreshOK, Fresh, RepairOK, NewOK, SettingOK, Setting, disk, ghost
  <2>10. written \subseteq TableEntries(table, m.live \cup {}) \cup RestOf(logf, logs', 0)
    <3>1. written \subseteq TableEntries(table, m.live) \cup LogEntries(logf, m.log)
      BY <1>3, <2>3 DEF Names, Describes, Covers
    <3>2. RestOf(logf, LogsFrom(m.log), 0) = LogEntries(logf, m.log)
      BY <2>5, <2>6, RestOfAll DEF LogEntries
    <3>3. m.live \cup {} = m.live
      OBVIOUS
    <3> QED
      BY <2>1, <3>1, <3>2, <3>3
  <2>11. TableEntries(table, {}) = {}
    BY DEF TableEntries
  <2>12. /\ UNCHANGED <<CURRENT, manifest, logf, table, unrepaired, written>>
         /\ pos' = 0 /\ maxseq' = 0 /\ s' = "ok" /\ edit'.add = {} /\ edit'.del = {}
    BY <1>1, <2>1, <2>4 DEF disk, ghost, NoEdit
  <2>13. ReplayOK'
    <3>1. /\ vs'.live = m.live /\ vs'.last = m.last /\ vs'.log = m.log /\ vs'.manifest = m.next
          /\ vs'.manifest < vs'.next /\ manifest'[CURRENT'] = m
      BY <1>3, <2>1, <2>12 DEF Manifests
    <3>2. Names(CURRENT)'
      BY <2>3, <2>12 DEF Names
    <3>3. logs' \subseteq DOMAIN logf' /\ LogsSince(logf', vs'.log) \ logs' = {}
      BY <2>1, <2>5, <2>12, <3>1
    <3>4. \A e \in TableEntries(table', edit'.add) : e[1] <= maxseq'
      BY <2>11, <2>12
    <3>5. written' \subseteq TableEntries(table', vs'.live \cup edit'.add) \cup RestOf(logf', logs', pos')
      BY <2>10, <2>12, <3>1
    <3> QED
      BY <2>3, <2>12, <3>1, <3>2, <3>3, <3>4, <3>5 DEF ReplayOK
  <2>14. OpeningOK' /\ OpenOK' /\ BackgroundOK'
    BY <2>1 DEF OpeningOK, OpenOK, BackgroundOK, Setting
  <2> QED
    BY <2>2, <2>8, <2>9, <2>13, <2>14 DEF RecoveryOK
<1>5. CASE ~NothingMissing(m.live)
  <2>1. Close
    BY <1>3, <1>5 DEF Recover
  <2> QED
    BY <1>1, <2>1, ClosedStep DEF budget
<1> QED
  BY <1>4, <1>5

\* RecoverLogFile writes a table.
LEMMA ReplayLogStep ==
    ASSUME RecoveryOK, RecoveryAssumption, ReplayLog
    PROVE  RecoveryOK'
<1>1. /\ pc = "replay" /\ logs # {} /\ Chunk # {} /\ table' = With(table, vs.next, Chunk)
      /\ edit' = [edit EXCEPT !.add = @ \cup {vs.next}]
      /\ vs' = [vs EXCEPT !.next = @ + 1]
      /\ pos' = ChunkEnd /\ maxseq' = MaxSequence(Chunk)
      /\ UNCHANGED <<CURRENT, temp, manifest, logf, pc, caller, logs, s, run, repair, ghost, budget>>
  BY DEF ReplayLog, Put
<1>2. /\ ~unrepaired /\ Names(CURRENT)
      /\ vs.live = manifest[CURRENT].live /\ vs.last = manifest[CURRENT].last
      /\ vs.log = manifest[CURRENT].log
      /\ vs.manifest = manifest[CURRENT].next /\ vs.manifest < vs.next
      /\ edit.del = {} /\ edit.add \subseteq DOMAIN table
      /\ \A n \in edit.add : vs.manifest < n /\ n < vs.next
      /\ logs \subseteq DOMAIN logf
      /\ \A n \in LogsSince(logf, vs.log) \ logs : n < vs.next
      /\ \A e \in TableEntries(table, edit.add) : e[1] <= maxseq
      /\ s = "ok"
      /\ written \subseteq TableEntries(table, vs.live \cup edit.add) \cup RestOf(logf, logs, pos)
  BY <1>1 DEF RecoveryOK, ReplayOK
<1>3. /\ First \in logs /\ ChunkEnd \in Nat /\ Chunk \subseteq written
      /\ Chunk = {logf[First][i] : i \in (pos + 1)..ChunkEnd}
  BY <1>1, <1>2, ChunkFacts
<1>4. /\ vs \in Versions /\ edit \in Edits /\ pos \in Nat /\ maxseq \in Nat
      /\ table \in PartialFn(Number, SUBSET written) /\ logf \in PartialFn(Number, Seq(written))
      /\ Bounded(DOMAIN table)
  BY DEF RecoveryOK, MemoryOK, FilesOK
<1>5. PICK n \in Number : n = vs.next
  BY <1>4 DEF Versions
<1>6. /\ vs' \in Versions /\ vs'.next = n + 1 /\ vs'.manifest = vs.manifest /\ vs'.log = vs.log
      /\ vs'.last = vs.last /\ vs'.live = vs.live
      /\ edit' \in Edits /\ edit'.add = edit.add \cup {n} /\ edit'.del = {}
  <2>1. vs' = [vs EXCEPT !.next = n + 1] /\ n + 1 \in Number
    BY <1>1, <1>5 DEF Number
  <2>2. edit' = [edit EXCEPT !.add = edit.add \cup {n}]
    BY <1>1, <1>5
  <2>3. /\ vs' \in Versions /\ vs'.next = n + 1 /\ vs'.manifest = vs.manifest /\ vs'.log = vs.log
        /\ vs'.last = vs.last /\ vs'.live = vs.live
    BY <1>4, <2>1 DEF Versions
  <2>4. edit' \in Edits /\ edit'.add = edit.add \cup {n} /\ edit'.del = {}
    BY <1>2, <1>4, <2>2 DEF Edits
  <2> QED
    BY <2>3, <2>4
<1>7. PICK chunk \in SUBSET written : chunk = Chunk
  BY <1>3
<1>8. table' = With(table, n, chunk) /\ DOMAIN table' = DOMAIN table \cup {n}
  BY <1>1, <1>5, <1>7 DEF With
<1>9. vs.live \subseteq DOMAIN table /\ n \notin vs.live /\ n \notin edit.add
  <2>1. \A k \in vs.live : k < vs.manifest
    BY <1>2 DEF Names, Describes, Covers
  <2>2. vs.live \subseteq DOMAIN table
    BY <1>2 DEF Names, Describes, Covers
  <2>3. vs.live \subseteq Nat /\ vs.manifest \in Nat /\ n \in Nat
    BY <1>4, <1>5 DEF Versions, Number
  <2> QED
    BY <1>2, <1>5, <2>1, <2>2, <2>3 DEF Number
<1>10. FilesOK'
  <2>1. table' \in PartialFn(Number, SUBSET written)
    BY <1>4, <1>8, WithFacts
  <2>2. Bounded(DOMAIN table')
    <3>1. DOMAIN table \in SUBSET Nat /\ n \in Nat
      BY <1>4, <1>5, PartialFnElim DEF Number
    <3> QED
      BY <1>4, <1>8, <3>1, BoundedFacts
  <2> QED
    BY <1>1, <2>1, <2>2 DEF RecoveryOK, FilesOK, ghost, budget
<1>11. WritesOK'
  BY <1>1, WritesSame DEF RecoveryOK
<1>12. PICK q \in Nat : q = MaxSequence(Chunk) /\ maxseq <= q /\ \A e \in chunk : e[1] <= q
  BY <1>3, <1>4, <1>7, MaxSequenceFacts DEF RecoveryOK
<1>13. MemoryOK'
  BY <1>1, <1>3, <1>6, <1>12 DEF RecoveryOK, MemoryOK, run, ghost
<1>14. Names(CURRENT)'
  <2>1. Describes(CURRENT, manifest, With(table, n, chunk), logf, written)
    BY <1>2, <1>9, DescribesNewTable DEF Names
  <2> QED
    BY <1>1, <1>8, <2>1 DEF Names, ghost
<1>15. DiskOK' /\ UnrepairedOK' /\ FreshOK' /\ RepairOK' /\ NewOK' /\ SettingOK'
  BY <1>1, <1>2, <1>14
  DEF DiskOK, UnrepairedOK, FreshOK, Fresh, RepairOK, NewOK, SettingOK, Setting, repair
<1>16. ReplayOK'
  <2>1. TableEntries(table', edit'.add) = TableEntries(table, edit.add) \cup chunk
    <3>1. PICK A : A = edit.add /\ A \subseteq DOMAIN table /\ n \notin A
      BY <1>2, <1>9
    <3>2. TableEntries(With(table, n, chunk), A \cup {n}) = TableEntries(table, A) \cup chunk
      BY <3>1, EntriesPut
    <3> QED
      BY <1>6, <1>8, <3>1, <3>2
  <2>2. PICK A : A = vs.live \cup edit.add /\ A \subseteq DOMAIN table /\ n \notin A
    BY <1>2, <1>9
  <2>3. TableEntries(With(table, n, chunk), A \cup {n}) = TableEntries(table, A) \cup chunk
    BY <2>2, EntriesPut
  <2>4. vs'.live \cup edit'.add = A \cup {n}
    BY <1>6, <2>2
  <2>5. written \subseteq TableEntries(table', vs'.live \cup edit'.add) \cup RestOf(logf, logs, pos')
    <3>1. RestOf(logf, logs, pos) \subseteq chunk \cup RestOf(logf, logs, ChunkEnd)
      <4>1. RestOf(logf, logs, pos)
              \subseteq {logf[Min(logs)][i] : i \in (pos + 1)..ChunkEnd} \cup RestOf(logf, logs, ChunkEnd)
        BY <1>1, <1>2, <1>3, <1>4, RestRead
      <4> QED
        BY <1>3, <1>7, <4>1 DEF First
    <3> QED
      BY <1>1, <1>2, <1>8, <2>2, <2>3, <2>4, <3>1
  <2>6. \A e \in TableEntries(table, edit.add) \cup chunk : e[1] <= q
    <3>1. \A e \in TableEntries(table, edit.add) : e[1] \in Nat
      <4>1. TableEntries(table, edit.add) \subseteq written
        BY <1>2, <1>4, EntriesWritten
      <4> QED
        BY <4>1 DEF RecoveryOK, WritesOK, Entry
    <3> QED
      BY <1>2, <1>4, <1>12, <3>1
  <2>7. \A e \in TableEntries(table', edit'.add) : e[1] <= maxseq'
    BY <1>1, <1>12, <2>1, <2>6
  <2>8. /\ UNCHANGED <<CURRENT, manifest, logf, logs, pc, s, unrepaired, written>>
    BY <1>1 DEF repair, ghost
  <2>9. /\ vs'.live = manifest'[CURRENT'].live /\ vs'.last = manifest'[CURRENT'].last
        /\ vs'.log = manifest'[CURRENT'].log /\ vs'.manifest = manifest'[CURRENT'].next
    BY <1>2, <1>6, <2>8
  <2>10. /\ vs'.manifest < vs'.next /\ edit'.add \subseteq DOMAIN table'
         /\ \A k \in edit'.add : vs'.manifest < k /\ k < vs'.next
    <3>1. vs.manifest \in Nat /\ n \in Nat /\ edit.add \subseteq Nat /\ vs.manifest < n
          /\ \A k \in edit.add : vs.manifest < k /\ k < n
      BY <1>2, <1>4, <1>5 DEF Versions, Edits, Number
    <3>2. vs.manifest < n + 1 /\ \A k \in edit.add \cup {n} : vs.manifest < k /\ k < n + 1
      BY <3>1
    <3> QED
      BY <1>2, <1>6, <1>8, <3>2
  <2>11. \A k \in LogsSince(logf', vs'.log) \ logs' : k < vs'.next
    <3>1. DOMAIN logf \subseteq Nat
      BY <1>4, PartialFnElim DEF Number
    <3>2. LogsSince(logf, vs.log) \subseteq Nat
      BY <3>1 DEF LogsSince
    <3> QED
      BY <1>2, <1>5, <1>6, <2>8, <3>2 DEF Number
  <2> QED
    BY <1>2, <1>6, <1>14, <2>5, <2>7, <2>8, <2>9, <2>10, <2>11 DEF ReplayOK
<1>17. OpeningOK' /\ OpenOK' /\ BackgroundOK'
  BY <1>1 DEF OpeningOK, OpenOK, BackgroundOK, Setting
<1> QED
  BY <1>10, <1>11, <1>13, <1>15, <1>16, <1>17 DEF RecoveryOK

\* A log is done with: at its end, where a table of it failed, or unopened.
LEMMA LogDoneStep ==
    ASSUME RecoveryOK, RecoveryAssumption, Restrained, ReplayFails \/ ReplayedLog \/ LogNotOpened
    PROVE  RecoveryOK'
<1>1. /\ pc = "replay" /\ logs # {} /\ logs' = logs \ {First} /\ pos' = 0
      /\ UNCHANGED <<disk, pc, caller, edit, run, repair, ghost, plan>>
  BY DEF ReplayFails, ReplayedLog, LogNotOpened, Fails, budget
<1>2. /\ ~unrepaired /\ Names(CURRENT)
      /\ vs.live = manifest[CURRENT].live /\ vs.last = manifest[CURRENT].last
      /\ vs.log = manifest[CURRENT].log
      /\ vs.manifest = manifest[CURRENT].next /\ vs.manifest < vs.next
      /\ edit.del = {} /\ edit.add \subseteq DOMAIN table
      /\ \A n \in edit.add : vs.manifest < n /\ n < vs.next
      /\ logs \subseteq DOMAIN logf
      /\ \A n \in LogsSince(logf, vs.log) \ logs : n < vs.next
      /\ \A e \in TableEntries(table, edit.add) : e[1] <= maxseq
      /\ s = "ok"
      /\ written \subseteq TableEntries(table, vs.live \cup edit.add) \cup RestOf(logf, logs, pos)
  BY <1>1 DEF RecoveryOK, ReplayOK
<1>3. /\ First \in logs /\ First \in Number /\ Chunk \subseteq written
      /\ Chunk = {} => Rest(logf[First], pos) = {}
  BY <1>1, <1>2, ChunkFacts
<1>4. /\ vs \in Versions /\ edit \in Edits /\ pos \in Nat /\ maxseq \in Nat /\ logs \subseteq Number
      /\ table \in PartialFn(Number, SUBSET written) /\ logf \in PartialFn(Number, Seq(written))
  BY DEF RecoveryOK, MemoryOK, FilesOK
<1>5. PICK n \in Number : n = vs.next
  BY <1>4 DEF Versions
<1>6. PICK first \in Number : first = First
  BY <1>3
<1>7. PICK next \in Number : vs' = [vs EXCEPT !.next = next] /\ n <= next /\ first < next
  <2>1. CASE ReplayFails
    <3>1. vs' = [vs EXCEPT !.next = MarkFileNumberUsed(n + 1, first)]
      BY <1>5, <1>6, <2>1 DEF ReplayFails
    <3>2. PICK next \in Number : next = MarkFileNumberUsed(n + 1, first) /\ n <= next /\ first < next
      BY DEF MarkFileNumberUsed, Number
    <3> QED
      BY <3>1, <3>2
  <2>2. CASE ReplayedLog \/ LogNotOpened
    <3>1. vs' = [vs EXCEPT !.next = MarkFileNumberUsed(n, first)]
      BY <1>5, <1>6, <2>2 DEF ReplayedLog, LogNotOpened
    <3>2. PICK next \in Number : next = MarkFileNumberUsed(n, first) /\ n <= next /\ first < next
      BY DEF MarkFileNumberUsed, Number
    <3> QED
      BY <3>1, <3>2
  <2> QED
    BY <2>1, <2>2
<1>8. /\ vs' \in Versions /\ vs'.next = next /\ vs'.manifest = vs.manifest /\ vs'.log = vs.log
      /\ vs'.last = vs.last /\ vs'.live = vs.live
  BY <1>4, <1>7 DEF Versions
<1>9. maxseq' \in Nat /\ maxseq <= maxseq'
  <2>1. CASE ReplayFails
    BY <1>3, <1>4, <2>1, MaxSequenceFacts DEF ReplayFails, RecoveryOK
  <2>2. CASE ReplayedLog \/ LogNotOpened
    BY <1>4, <2>2 DEF ReplayedLog, LogNotOpened
  <2> QED
    BY <2>1, <2>2
<1>10. FilesOK' /\ WritesOK'
  BY <1>1, FilesSame, WritesSame DEF RecoveryOK, ghost
<1>11. MemoryOK'
  BY <1>1, <1>4, <1>8, <1>9 DEF RecoveryOK, MemoryOK, run, ghost
<1>12. /\ UNCHANGED <<CURRENT, manifest, logf, table, pc, edit, unrepaired, written>>
  BY <1>1 DEF disk, repair, ghost
<1>13. DiskOK' /\ UnrepairedOK' /\ FreshOK' /\ RepairOK' /\ NewOK' /\ SettingOK'
  BY <1>1, <1>2, <1>12
  DEF DiskOK, Names, UnrepairedOK, FreshOK, Fresh, RepairOK, NewOK, SettingOK, Setting
<1>14. ReplayOK'
  <2>1. Names(CURRENT)'
    BY <1>2, <1>12 DEF Names
  <2>2. /\ vs'.live = manifest'[CURRENT'].live /\ vs'.last = manifest'[CURRENT'].last
        /\ vs'.log = manifest'[CURRENT'].log /\ vs'.manifest = manifest'[CURRENT'].next
    BY <1>2, <1>8, <1>12
  <2>3. /\ vs'.manifest < vs'.next /\ \A k \in edit'.add : vs'.manifest < k /\ k < vs'.next
    <3>1. vs.manifest \in Nat /\ n \in Nat /\ edit.add \subseteq Nat /\ vs.manifest < n
          /\ next \in Nat /\ n <= next /\ \A k \in edit.add : vs.manifest < k /\ k < n
      BY <1>2, <1>4, <1>5, <1>7 DEF Versions, Edits, Number
    <3>2. vs.manifest < next /\ \A k \in edit.add : vs.manifest < k /\ k < next
      BY <3>1
    <3> QED
      BY <1>8, <1>12, <3>2
  <2>4. logs' \subseteq DOMAIN logf'
    BY <1>1, <1>2, <1>12
  <2>5. \A k \in LogsSince(logf', vs'.log) \ logs' : k < vs'.next
    <3>1. DOMAIN logf \subseteq Nat
      BY <1>4, PartialFnElim DEF Number
    <3>2. LogsSince(logf, vs.log) \subseteq Nat
      BY <3>1 DEF LogsSince
    <3>3. \A k \in LogsSince(logf, vs.log) \ logs' : k \notin logs \/ k = first
      BY <1>1, <1>6
    <3> QED
      BY <1>2, <1>5, <1>7, <1>8, <1>12, <3>2, <3>3 DEF Number
  <2>6. \A e \in TableEntries(table', edit'.add) : e[1] <= maxseq'
    <3>1. \A e \in TableEntries(table, edit.add) : e[1] \in Nat
      <4>1. TableEntries(table, edit.add) \subseteq written
        BY <1>2, <1>4, EntriesWritten
      <4> QED
        BY <4>1 DEF RecoveryOK, WritesOK, Entry
    <3> QED
      BY <1>2, <1>4, <1>9, <1>12, <3>1
  <2>7. CASE ReplayFails
    <3>1. logs = {First}
      BY <2>7 DEF ReplayFails, Restrained, RecoveryOK, FilesOK
    <3>2. logs' = {} /\ s' # "ok"
      BY <1>1, <2>7, <3>1 DEF ReplayFails
    <3> QED
      BY <1>2, <1>8, <1>12, <2>1, <2>2, <2>3, <2>4, <2>5, <2>6, <3>2 DEF ReplayOK
  <2>8. CASE ReplayedLog \/ LogNotOpened
    <3>1. s' = "ok" /\ Rest(logf[Min(logs)], pos) = {}
      <4>1. CASE ReplayedLog
        BY <1>3, <4>1 DEF ReplayedLog, First
      <4>2. CASE LogNotOpened
        <5>1. s' = "ok" /\ logf[First] = <<>>
          BY <4>2 DEF LogNotOpened, Restrained, RecoveryOK, FilesOK
        <5> QED
          BY <1>4, <5>1 DEF Rest, First
      <4> QED
        BY <2>8, <4>1, <4>2
    <3>2. RestOf(logf, logs, pos) \subseteq RestOf(logf, logs \ {Min(logs)}, 0)
      BY <1>1, <1>2, <1>4, <3>1, RestRead
    <3>3. written' \subseteq TableEntries(table', vs'.live \cup edit'.add) \cup RestOf(logf', logs', pos')
      BY <1>1, <1>2, <1>8, <1>12, <3>2 DEF First
    <3> QED
      BY <1>2, <1>8, <1>12, <2>1, <2>2, <2>3, <2>4, <2>5, <2>6, <3>1, <3>3 DEF ReplayOK
  <2> QED
    BY <2>7, <2>8
<1>15. OpeningOK' /\ OpenOK' /\ BackgroundOK'
  BY <1>1 DEF OpeningOK, OpenOK, BackgroundOK, Setting
<1> QED
  BY <1>10, <1>11, <1>13, <1>14, <1>15 DEF RecoveryOK

-----------------------------------------------------------------------------
(* The new log and the new manifest.                                       *)

\* DB::Open makes a new log when all others are read.
LEMMA NewLogStep ==
    ASSUME RecoveryOK, NewLog
    PROVE  RecoveryOK'
<1>1. /\ pc = "replay" /\ logs = {} /\ s = "ok" /\ pc' = "descriptor"
      /\ vs' = [vs EXCEPT !.last = Newest(vs.last, maxseq), !.next = vs.next + 1]
      /\ logf' = With(logf, vs.next, <<>>) /\ logfile_number_' = vs.next
      /\ edit' = [edit EXCEPT !.log = vs.next]
      /\ UNCHANGED <<CURRENT, temp, manifest, table, caller, replay, mem, imm, wr, bg, bg_error_,
                     repair, ghost, budget>>
  BY DEF NewLog, Put
<1>2. /\ ~unrepaired /\ Names(CURRENT)
      /\ vs.live = manifest[CURRENT].live /\ vs.last = manifest[CURRENT].last
      /\ vs.log = manifest[CURRENT].log
      /\ vs.manifest = manifest[CURRENT].next /\ vs.manifest < vs.next
      /\ edit.del = {} /\ edit.add \subseteq DOMAIN table
      /\ \A k \in edit.add : vs.manifest < k /\ k < vs.next
      /\ \A k \in LogsSince(logf, vs.log) : k < vs.next
      /\ \A e \in TableEntries(table, edit.add) : e[1] <= maxseq
      /\ written \subseteq TableEntries(table, vs.live \cup edit.add) \cup RestOf(logf, {}, pos)
  BY <1>1 DEF RecoveryOK, ReplayOK
<1>3. /\ vs \in Versions /\ edit \in Edits /\ maxseq \in Nat
      /\ table \in PartialFn(Number, SUBSET written) /\ logf \in PartialFn(Number, Seq(written))
      /\ Bounded(DOMAIN logf) /\ manifest \in PartialFn(Number, Manifests)
  BY DEF RecoveryOK, MemoryOK, FilesOK
<1>4. PICK n \in Number : n = vs.next
  BY <1>3 DEF Versions
<1>5. DOMAIN logf \subseteq Number /\ CURRENT \in Number
  BY <1>2, <1>3, PartialFnElim DEF Names, Describes
<1>6. /\ vs.live \subseteq DOMAIN table /\ vs.log < vs.manifest /\ CURRENT < vs.manifest
      /\ \A k \in vs.live : k < vs.manifest
      /\ \A e \in TableEntries(table, vs.live) : e[1] <= vs.last
  BY <1>2 DEF Names, Describes, Covers
<1>7. PICK last \in Nat : last = Newest(vs.last, maxseq) /\ vs.last <= last /\ maxseq <= last
  BY <1>3, OfTwo DEF Newest, Versions
<1>8. /\ vs' \in Versions /\ vs'.next = n + 1 /\ vs'.last = last /\ vs'.manifest = vs.manifest
      /\ vs'.live = vs.live
  <2>1. vs' = [vs EXCEPT !.last = last, !.next = n + 1] /\ n + 1 \in Number
    BY <1>1, <1>4, <1>7 DEF Number
  <2> QED
    BY <1>3, <2>1 DEF Versions
<1>9. edit' \in Edits /\ edit'.log = n /\ edit'.add = edit.add /\ edit'.del = {}
  BY <1>1, <1>2, <1>3, <1>4 DEF Edits, Number
<1>10. logf' = With(logf, n, <<>>) /\ DOMAIN logf' = DOMAIN logf \cup {n}
  BY <1>1, <1>4 DEF With
<1>11. FilesOK'
  <2>1. <<>> \in Seq(written)
    OBVIOUS
  <2>2. logf' \in PartialFn(Number, Seq(written))
    BY <1>3, <1>10, <2>1, WithFacts
  <2>3. Bounded(DOMAIN logf')
    <3>1. DOMAIN logf \in SUBSET Nat /\ n \in Nat
      BY <1>5 DEF Number
    <3> QED
      BY <1>3, <1>10, <3>1, BoundedFacts
  <2> QED
    BY <1>1, <2>2, <2>3 DEF RecoveryOK, FilesOK, ghost, budget
<1>12. WritesOK' /\ MemoryOK'
  BY <1>1, <1>8, <1>9, WritesSame DEF RecoveryOK, MemoryOK, replay, ghost
<1>13. /\ UNCHANGED <<CURRENT, manifest, table, unrepaired, written>>
  BY <1>1 DEF repair, ghost
<1>14. Names(CURRENT)'
  <2>1. n \notin LogsSince(logf, manifest[CURRENT].log)
    BY <1>2, <1>4 DEF Number
  <2>2. Describes(CURRENT, manifest, table, With(logf, n, <<>>), written)
    BY <1>2, <2>1, DescribesNewLog DEF Names
  <2> QED
    BY <1>10, <1>13, <2>2 DEF Names
<1>15. DiskOK' /\ UnrepairedOK' /\ FreshOK' /\ RepairOK' /\ NewOK' /\ SettingOK'
  BY <1>1, <1>2, <1>13, <1>14
  DEF DiskOK, UnrepairedOK, FreshOK, Fresh, RepairOK, NewOK, SettingOK, Setting
<1>16. OpeningOK'
  <2>1. vs.manifest \in Nat /\ vs.log \in Nat /\ n \in Nat /\ CURRENT \in Nat
    BY <1>3, <1>4, <1>5 DEF Versions, Number
  <2>2. vs'.manifest \in Number /\ vs'.manifest < vs'.next /\ vs'.manifest # CURRENT'
    BY <1>2, <1>4, <1>6, <1>8, <1>13, <2>1 DEF Number
  <2>3. /\ vs'.live \cup edit'.add \subseteq DOMAIN table'
        /\ \A k \in vs'.live \cup edit'.add : k < vs'.next
    <3>1. edit.add \subseteq Nat /\ vs.live \subseteq Nat
      BY <1>3 DEF Edits, Versions, Number
    <3>2. \A k \in vs.live \cup edit.add : k < n + 1
      BY <1>2, <1>4, <1>6, <2>1, <3>1
    <3> QED
      BY <1>2, <1>6, <1>8, <1>9, <1>13, <3>2
  <2>4. TableEntries(table, vs.live \cup edit.add)
          = TableEntries(table, vs.live) \cup TableEntries(table, edit.add)
    BY EntriesOfBoth
  <2>5. written \subseteq TableEntries(table, vs.live \cup edit.add)
    <3>1. RestOf(logf, {}, pos) = {}
      BY DEF RestOf
    <3> QED
      BY <1>2, <3>1
  <2>6. \A e \in written : e[1] <= last
    <3>1. \A e \in written : e[1] \in Nat
      BY DEF RecoveryOK, WritesOK, Entry
    <3>2. vs.last \in Nat
      BY <1>3 DEF Versions
    <3> TAKE e \in written
    <3>3. PICK x \in Nat : x = e[1]
      BY <3>1
    <3>4. e \in TableEntries(table, vs.live) \/ e \in TableEntries(table, edit.add)
      BY <2>4, <2>5
    <3>5. x <= vs.last \/ x <= maxseq
      BY <1>2, <1>6, <3>3, <3>4
    <3> QED
      BY <1>3, <1>7, <3>2, <3>3, <3>5
  <2>7. \A k \in LogsSince(logf', n) : k < n + 1
    <3>1. vs.log < n /\ DOMAIN logf \subseteq Nat
      BY <1>2, <1>4, <1>5, <1>6, <2>1 DEF Number
    <3>2. \A k \in DOMAIN logf : ~(k >= n)
      <4> TAKE k \in DOMAIN logf
      <4>1. k >= n => k >= vs.log
        BY <2>1, <3>1
      <4>2. k >= n => k \in LogsSince(logf, vs.log)
        BY <4>1 DEF LogsSince
      <4>3. k >= n => k < n
        BY <1>2, <1>4, <4>2
      <4> QED
        BY <2>1, <3>1, <4>3
    <3> QED
      BY <1>10, <2>1, <3>2 DEF LogsSince
  <2>8. edit'.log = logfile_number_' /\ logfile_number_' \in DOMAIN logf'
    BY <1>1, <1>4, <1>9, <1>10
  <2> QED
    BY <1>1, <1>2, <1>8, <1>9, <1>13, <2>2, <2>3, <2>5, <2>6, <2>7, <2>8 DEF OpeningOK, Setting
<1>17. ReplayOK' /\ OpenOK' /\ BackgroundOK'
  BY <1>1 DEF ReplayOK, OpenOK, BackgroundOK
<1> QED
  BY <1>11, <1>12, <1>15, <1>16, <1>17 DEF RecoveryOK

\* LogAndApply of DB::Open writes a new descriptor.
LEMMA WriteManifestStep ==
    ASSUME RecoveryOK, WriteManifest
    PROVE  RecoveryOK'
<1> DEFINE mm == Apply(WriteSnapshot, Stamped(edit))
<1>1. /\ pc = "descriptor" /\ pc' = "setcurrent" /\ caller' = "open"
      /\ manifest' = With(manifest, vs.manifest, mm)
      /\ UNCHANGED <<CURRENT, temp, logf, table, vs, edit, replay, run, repair, ghost, budget>>
  BY DEF WriteManifest, Put
<1>2. /\ ~unrepaired /\ vs.manifest \in Number /\ vs.manifest < vs.next
      /\ edit.del = {} /\ vs.live \cup edit.add \subseteq DOMAIN table
      /\ \A n \in vs.live \cup edit.add : n < vs.next
      /\ written \subseteq TableEntries(table, vs.live \cup edit.add)
      /\ \A e \in written : e[1] <= vs.last
      /\ edit.log = logfile_number_ /\ logfile_number_ \in DOMAIN logf
      /\ \A n \in LogsSince(logf, edit.log) : n < vs.next
      /\ vs.manifest # CURRENT
  BY <1>1 DEF RecoveryOK, OpeningOK
<1>3. /\ vs \in Versions /\ edit \in Edits /\ manifest \in PartialFn(Number, Manifests)
      /\ table \in PartialFn(Number, SUBSET written)
  BY DEF RecoveryOK, MemoryOK, FilesOK
<1>4. /\ mm.live = vs.live \cup edit.add /\ mm.log = edit.log /\ mm.next = vs.next
      /\ mm.last = vs.last /\ mm \in Manifests
  <2>1. Stamped(edit) = [edit EXCEPT !.next = vs.next, !.last = vs.last]
    BY DEF Stamped
  <2>2. /\ Stamped(edit).log = edit.log /\ Stamped(edit).next = vs.next
        /\ Stamped(edit).last = vs.last /\ Stamped(edit).add = edit.add /\ Stamped(edit).del = {}
    BY <1>2, <1>3, <2>1 DEF Edits
  <2>3. WriteSnapshot.live = vs.live
    BY DEF WriteSnapshot, Apply, NoRecords, NoEdit
  <2>4. mm = [live |-> vs.live \cup edit.add, log |-> edit.log, next |-> vs.next, last |-> vs.last]
    BY <2>2, <2>3 DEF Apply
  <2> QED
    BY <1>3, <2>4 DEF Manifests, Versions, Edits, Number
<1> HIDE DEF mm
<1>5. PICK m \in Manifests : m = mm
  BY <1>4
<1>6. Covers(m, table, logf, written)
  <2>1. edit.log < vs.next
    BY <1>2, <1>3 DEF LogsSince, Edits
  <2>2. TableEntries(table, vs.live \cup edit.add) \subseteq written
    BY <1>2, <1>3, EntriesWritten
  <2> QED
    BY <1>2, <1>4, <1>5, <2>1, <2>2 DEF Covers
<1>7. PICK k \in Number : k = vs.manifest
  BY <1>2
<1>8. manifest' = With(manifest, k, m)
  BY <1>1, <1>5, <1>7
<1>9. Describes(k, manifest', table, logf, written) /\ manifest'[k] = m
  <2>1. k < m.next
    BY <1>2, <1>4, <1>5, <1>7
  <2> QED
    BY <1>6, <1>8, <2>1, DescribesNew
<1>10. FilesOK'
  <2>1. manifest' \in PartialFn(Number, Manifests)
    BY <1>3, <1>8, WithFacts
  <2> QED
    BY <1>1, <2>1 DEF RecoveryOK, FilesOK, ghost, budget
<1>11. WritesOK' /\ MemoryOK'
  BY <1>1, WritesSame DEF RecoveryOK, MemoryOK, run, replay, ghost
<1>12. DiskOK'
  <2>1. (CURRENT = None /\ written = {}) \/ Describes(CURRENT, manifest, table, logf, written)
    BY <1>1, <1>2 DEF RecoveryOK, DiskOK, Names
  <2>2. CASE Describes(CURRENT, manifest, table, logf, written)
    <3>1. PICK c : c = CURRENT /\ c # k
      BY <1>2, <1>7
    <3>2. Describes(c, With(manifest, k, m), table, logf, written)
      BY <2>2, <3>1, DescribesOther
    <3> QED
      BY <1>1, <1>8, <3>1, <3>2 DEF DiskOK, Names, ghost
  <2>3. CASE CURRENT = None /\ written = {}
    BY <1>1, <2>3 DEF DiskOK, ghost
  <2> QED
    BY <2>1, <2>2, <2>3
<1>13. UNCHANGED <<CURRENT, logf, table, vs, edit, unrepaired, written, logfile_number_>>
  BY <1>1 DEF repair, ghost, run
<1>14. UnrepairedOK' /\ FreshOK' /\ RepairOK' /\ NewOK' /\ SettingOK'
  BY <1>1, <1>2, <1>13 DEF UnrepairedOK, FreshOK, Fresh, RepairOK, NewOK, SettingOK, Setting
<1>15. OpeningOK'
  <2>1. Names(vs.manifest)'
    BY <1>7, <1>9, <1>13 DEF Names
  <2>2. manifest'[vs'.manifest].live = vs'.live \cup edit'.add /\ manifest'[vs'.manifest].log = edit'.log
    BY <1>4, <1>5, <1>7, <1>9, <1>13
  <2> QED
    BY <1>1, <1>2, <1>13, <2>1, <2>2 DEF OpeningOK
<1>16. ReplayOK' /\ OpenOK' /\ BackgroundOK'
  BY <1>1 DEF ReplayOK, OpenOK, BackgroundOK
<1> QED
  BY <1>10, <1>11, <1>12, <1>14, <1>15, <1>16 DEF RecoveryOK

-----------------------------------------------------------------------------
(* Files that are obsolete are deleted.                                    *)

\* Nothing is taken out.
LEMMA DropNone ==
    ASSUME NEW S, NEW T, NEW f \in PartialFn(S, T)
    PROVE  Drop(f, {}) = f
<1>1. f \in [DOMAIN f -> T] /\ DOMAIN f \ {} = DOMAIN f
  BY PartialFnElim
<1> QED
  BY <1>1 DEF Drop

\* One file of one kind goes, and the version does not need it.
LEMMA DeleteFacts ==
    ASSUME FilesOK, NEW file \in Obsolete(vs.log, vs.manifest, vs.live), Delete(file)
    PROVE  \E L, M, T : /\ logf' = Drop(logf, L) /\ manifest' = Drop(manifest, M)
                        /\ table' = Drop(table, T) /\ temp' \subseteq temp /\ CURRENT' = CURRENT
                        /\ \A n \in L : n \in DOMAIN logf /\ n < vs.log
                        /\ \A n \in M : n < vs.manifest
                        /\ T \cap vs.live = {}
<1>1. Drop(logf, {}) = logf /\ Drop(manifest, {}) = manifest /\ Drop(table, {}) = table
  BY DropNone DEF FilesOK
<1>2. CASE \E n \in DOMAIN logf : n < vs.log /\ file = <<"log", n>>
  <2>1. PICK n \in DOMAIN logf : n < vs.log /\ file = <<"log", n>>
    BY <1>2
  <2>2. /\ logf' = Drop(logf, {n}) /\ manifest' = Drop(manifest, {}) /\ table' = Drop(table, {})
        /\ temp' \subseteq temp /\ CURRENT' = CURRENT
    BY <1>1, <2>1 DEF Delete
  <2>3. /\ \A k \in {n} : k \in DOMAIN logf /\ k < vs.log
        /\ \A k \in {} : k < vs.manifest
        /\ {} \cap vs.live = {}
    BY <2>1
  <2> QED
    BY <2>2, <2>3
<1>3. CASE \E n \in DOMAIN manifest : n < vs.manifest /\ file = <<"manifest", n>>
  <2>1. PICK n \in DOMAIN manifest : n < vs.manifest /\ file = <<"manifest", n>>
    BY <1>3
  <2>2. /\ logf' = Drop(logf, {}) /\ manifest' = Drop(manifest, {n}) /\ table' = Drop(table, {})
        /\ temp' \subseteq temp /\ CURRENT' = CURRENT
    BY <1>1, <2>1 DEF Delete
  <2>3. /\ \A k \in {} : k \in DOMAIN logf /\ k < vs.log
        /\ \A k \in {n} : k < vs.manifest
        /\ {} \cap vs.live = {}
    BY <2>1
  <2> QED
    BY <2>2, <2>3
<1>4. CASE \E n \in DOMAIN table \ vs.live : file = <<"table", n>>
  <2>1. PICK n \in DOMAIN table \ vs.live : file = <<"table", n>>
    BY <1>4
  <2>2. /\ logf' = Drop(logf, {}) /\ manifest' = Drop(manifest, {}) /\ table' = Drop(table, {n})
        /\ temp' \subseteq temp /\ CURRENT' = CURRENT
    BY <1>1, <2>1 DEF Delete
  <2>3. /\ \A k \in {} : k \in DOMAIN logf /\ k < vs.log
        /\ \A k \in {} : k < vs.manifest
        /\ {n} \cap vs.live = {}
    BY <2>1
  <2> QED
    BY <2>2, <2>3
<1>5. CASE \E n \in temp \ vs.live : file = <<"temp", n>>
  <2>1. PICK n \in temp \ vs.live : file = <<"temp", n>>
    BY <1>5
  <2>2. /\ logf' = Drop(logf, {}) /\ manifest' = Drop(manifest, {}) /\ table' = Drop(table, {})
        /\ temp' \subseteq temp /\ CURRENT' = CURRENT
    BY <1>1, <2>1 DEF Delete
  <2>3. /\ \A k \in {} : k \in DOMAIN logf /\ k < vs.log
        /\ \A k \in {} : k < vs.manifest
        /\ {} \cap vs.live = {}
    OBVIOUS
  <2> QED
    BY <2>2, <2>3
<1> QED
  BY <1>2, <1>3, <1>4, <1>5 DEF Obsolete

\* Deleting it keeps what is promised, when the manifest is what the version is.
LEMMA DeletedStep ==
    ASSUME RecoveryOK, NEW file \in Obsolete(vs.log, vs.manifest, vs.live), Delete(file),
           pc \in {"clean", "open"}, bg.at \in {"idle", "clean"}, ~bg_error_,
           UNCHANGED <<pc, caller, vs, edit, replay, run, repair, ghost, budget>>
    PROVE  RecoveryOK'
<1>1. PICK L, M, T : /\ logf' = Drop(logf, L) /\ manifest' = Drop(manifest, M)
                     /\ table' = Drop(table, T) /\ temp' \subseteq temp /\ CURRENT' = CURRENT
                     /\ \A n \in L : n \in DOMAIN logf /\ n < vs.log
                     /\ \A n \in M : n < vs.manifest
                     /\ T \cap vs.live = {}
  BY DeleteFacts DEF RecoveryOK
<1>2. /\ ~unrepaired /\ CURRENT = vs.manifest /\ Names(CURRENT) /\ vs.manifest < vs.next
      /\ vs.live \subseteq DOMAIN table /\ \A n \in vs.live : n < vs.next
      /\ logfile_number_ \in DOMAIN logf /\ vs.log <= manifest[CURRENT].log
      /\ manifest[CURRENT].log <= logfile_number_
      /\ \A n \in LogsSince(logf, vs.log) : n < vs.next
      /\ written \subseteq TableEntries(table, vs.live) \cup Held \cup Writing1
      /\ mem \cup Writing1 \subseteq Range(logf[logfile_number_])
      /\ \A e \in TableEntries(table, vs.live) \cup Held \cup acked : e[1] <= vs.last
      /\ wr # None => wr[1] = vs.last + 1
      /\ manifest[CURRENT].live = vs.live /\ manifest[CURRENT].log = vs.log
  BY DEF RecoveryOK, OpenOK
<1>3. /\ vs \in Versions /\ temp \subseteq Number /\ Bounded(temp)
      /\ manifest \in PartialFn(Number, Manifests) /\ logf \in PartialFn(Number, Seq(written))
      /\ table \in PartialFn(Number, SUBSET written) /\ Bounded(DOMAIN logf) /\ Bounded(DOMAIN table)
  BY DEF RecoveryOK, MemoryOK, FilesOK
<1>4. /\ vs.log \in Nat /\ vs.manifest \in Nat /\ DOMAIN logf \subseteq Nat /\ DOMAIN table \subseteq Nat
  BY <1>3, PartialFnElim DEF Versions, Number
<1>5. /\ manifest' \in PartialFn(Number, Manifests) /\ logf' \in PartialFn(Number, Seq(written))
      /\ table' \in PartialFn(Number, SUBSET written)
  BY <1>1, <1>3, DropFacts
<1>6. /\ DOMAIN logf' = DOMAIN logf \ L /\ \A n \in DOMAIN logf \ L : logf'[n] = logf[n]
  BY <1>1 DEF Drop
<1>7. /\ DOMAIN table' = DOMAIN table \ T /\ \A n \in DOMAIN table \ T : table'[n] = table[n]
  BY <1>1 DEF Drop
<1>8. /\ DOMAIN manifest' = DOMAIN manifest \ M
      /\ \A n \in DOMAIN manifest \ M : manifest'[n] = manifest[n]
  BY <1>1 DEF Drop
<1>9. FilesOK'
  <2>1. Bounded(temp') /\ Bounded(DOMAIN logf') /\ Bounded(DOMAIN table')
    <3>1. temp \in SUBSET Nat /\ temp' \in SUBSET temp
      BY <1>1, <1>3 DEF Number
    <3>2. DOMAIN logf' \in SUBSET DOMAIN logf /\ DOMAIN table' \in SUBSET DOMAIN table
      BY <1>6, <1>7
    <3> QED
      BY <1>3, <1>4, <3>1, <3>2, BoundedFacts
  <2> QED
    BY <1>1, <1>5, <2>1 DEF RecoveryOK, FilesOK, ghost, budget
<1>10. WritesOK' /\ MemoryOK'
  BY WritesSame DEF RecoveryOK, MemoryOK, run, replay, ghost
<1>11. TableEntries(table', vs.live) = TableEntries(table, vs.live)
  <2>1. \A n \in vs.live : table'[n] = table[n]
    BY <1>1, <1>2, <1>7
  <2> QED
    BY <2>1 DEF TableEntries
<1>12. CURRENT \in DOMAIN manifest \ M /\ manifest'[CURRENT] = manifest[CURRENT]
  <2>1. CURRENT \in DOMAIN manifest
    BY <1>2 DEF Names, Describes
  <2>2. CURRENT \notin M
    BY <1>1, <1>2, <1>4
  <2> QED
    BY <1>8, <2>1, <2>2
<1>13. UNCHANGED <<CURRENT, pc, vs, edit, mem, imm, wr, logfile_number_, bg, bg_error_, unrepaired,
                   written, acked>>
  BY <1>1 DEF run, repair, ghost
<1>14. Names(CURRENT)'
  <2>1. PICK m : m = manifest[CURRENT]
    OBVIOUS
  <2>2. Covers(m, table, logf, written) /\ CURRENT < m.next
    BY <1>2, <2>1 DEF Names, Describes
  <2>3. T \cap m.live = {} /\ L \cap LogsSince(logf, m.log) = {}
    <3>1. \A n \in L : ~(n >= vs.log)
      BY <1>1, <1>4
    <3> QED
      BY <1>1, <1>2, <2>1, <3>1 DEF LogsSince
  <2>4. Covers(m, Drop(table, T), Drop(logf, L), written)
    BY <2>2, <2>3, CoversFewer
  <2> QED
    BY <1>1, <1>8, <1>12, <1>13, <2>1, <2>2, <2>4 DEF Names, Describes
<1>15. DiskOK' /\ UnrepairedOK' /\ FreshOK' /\ RepairOK' /\ NewOK' /\ SettingOK'
  BY <1>2, <1>13, <1>14
  DEF DiskOK, UnrepairedOK, FreshOK, Fresh, RepairOK, NewOK, SettingOK, Setting
<1>16. OpenOK'
  <2>1. logfile_number_ \in DOMAIN logf'
    <3>1. ~(logfile_number_ < vs.log)
      BY <1>2, <1>4
    <3> QED
      BY <1>1, <1>2, <1>6, <3>1
  <2>2. logf'[logfile_number_] = logf[logfile_number_]
    BY <1>6, <2>1
  <2>3. LogsSince(logf', vs.log) \subseteq LogsSince(logf, vs.log)
    BY <1>6 DEF LogsSince
  <2>4. vs.live \subseteq DOMAIN table'
    BY <1>1, <1>2, <1>7
  <2>5. Held' = Held /\ Writing1' = Writing1
    BY <1>13 DEF Held, Writing1
  <2> QED
    BY <1>2, <1>11, <1>12, <1>13, <1>14, <2>1, <2>2, <2>3, <2>4, <2>5 DEF OpenOK
<1>17. ReplayOK' /\ OpeningOK' /\ BackgroundOK'
  BY <1>13 DEF ReplayOK, OpeningOK, BackgroundOK, Setting
<1> QED
  BY <1>9, <1>10, <1>15, <1>16, <1>17 DEF RecoveryOK

\* DB::Open deletes a file.
LEMMA DeleteObsoleteFilesStep ==
    ASSUME RecoveryOK, DeleteObsoleteFiles
    PROVE  RecoveryOK'
<1>1. PICK file \in Obsolete(vs.log, vs.manifest, vs.live) : Delete(file)
  BY DEF DeleteObsoleteFiles
<1>2. pc = "clean" /\ UNCHANGED <<pc, caller, vs, edit, replay, run, repair, ghost, budget>>
  BY DEF DeleteObsoleteFiles
<1>3. bg.at = "idle" /\ ~bg_error_
  BY <1>2 DEF RecoveryOK, MemoryOK, Idle
<1> QED
  BY <1>1, <1>2, <1>3, DeletedStep

\* The background thread deletes a file.
LEMMA CollectGarbageStep ==
    ASSUME RecoveryOK, CollectGarbage
    PROVE  RecoveryOK'
<1>1. ~bg_error_ /\ \E file \in Obsolete(vs.log, vs.manifest, vs.live) : Delete(file)
  BY DEF CollectGarbage, Garbage
<1>2. /\ pc = "open" /\ bg.at = "clean"
      /\ UNCHANGED <<pc, caller, vs, edit, replay, run, repair, ghost, budget>>
  BY DEF CollectGarbage
<1> QED
  BY <1>1, <1>2, DeletedStep

-----------------------------------------------------------------------------
(* An open database: writes.                                               *)

\* What only counts while a database is opened or repaired.
LEMMA OpenGoesOn ==
    ASSUME FilesOK', MemoryOK', WritesOK', OpenOK', BackgroundOK', pc' = "open"
    PROVE  RecoveryOK'
<1>1. ~unrepaired' /\ Names(CURRENT)'
  BY DEF OpenOK
<1>2. DiskOK' /\ UnrepairedOK' /\ FreshOK' /\ RepairOK' /\ NewOK' /\ SettingOK'
  BY <1>1 DEF DiskOK, UnrepairedOK, FreshOK, Fresh, RepairOK, NewOK, SettingOK, Setting
<1>3. ReplayOK' /\ OpeningOK'
  BY DEF ReplayOK, OpeningOK, Setting
<1> QED
  BY <1>2, <1>3 DEF RecoveryOK

\* The sequence numbers of entries are numbers.
LEMMA EntryFacts ==
    ASSUME WritesOK
    PROVE  /\ \A e \in written : e \in Nat \X Nat /\ e[1] \in Nat
           /\ acked \subseteq written
BY DEF WritesOK, Entry

\* A write goes to the log.
LEMMA AddRecordStep ==
    ASSUME RecoveryOK, RecoveryAssumption, AddRecord
    PROVE  RecoveryOK'
<1>1. PICK e : /\ e = <<vs.last + 1, puts + 1>> /\ wr' = e /\ written' = written \cup {e}
               /\ logf' = [logf EXCEPT ![logfile_number_] = Append(logf[logfile_number_], e)]
  BY DEF AddRecord
<1>2. /\ pc = "open" /\ wr = None /\ puts' = puts + 1
      /\ UNCHANGED <<CURRENT, temp, manifest, table, pc, caller, vs, edit, replay, mem, imm,
                     logfile_number_, bg, bg_error_, repair, acked, budget>>
  BY DEF AddRecord
<1>3. /\ ~unrepaired /\ CURRENT = vs.manifest /\ Names(CURRENT) /\ vs.manifest < vs.next
      /\ vs.live \subseteq DOMAIN table /\ \A n \in vs.live : n < vs.next
      /\ logfile_number_ \in DOMAIN logf /\ vs.log <= manifest[CURRENT].log
      /\ manifest[CURRENT].log <= logfile_number_
      /\ \A n \in LogsSince(logf, vs.log) : n < vs.next
      /\ written \subseteq TableEntries(table, vs.live) \cup Held \cup Writing1
      /\ mem \cup Writing1 \subseteq Range(logf[logfile_number_])
      /\ \A f \in TableEntries(table, vs.live) \cup Held \cup acked : f[1] <= vs.last
      /\ ~bg_error_ /\ bg.at # "applied" =>
           manifest[CURRENT].live = vs.live /\ manifest[CURRENT].log = vs.log
  BY <1>2 DEF RecoveryOK, OpenOK
<1>4. /\ vs \in Versions /\ logf \in PartialFn(Number, Seq(written))
      /\ table \in PartialFn(Number, SUBSET written) /\ manifest \in PartialFn(Number, Manifests)
      /\ Bounded(DOMAIN logf) /\ mem \subseteq written /\ imm \subseteq written
  BY DEF RecoveryOK, MemoryOK, FilesOK
<1>5. PICK last \in Nat : last = vs.last
  BY <1>4 DEF Versions
<1>6. e \in Entry /\ e[1] = last + 1 /\ e # None
  <2>1. puts \in Nat
    BY DEF RecoveryOK, WritesOK
  <2>2. e \in Nat \X Nat /\ e[1] = last + 1
    BY <1>1, <1>5, <2>1
  <2> QED
    BY <2>2 DEF RecoveryAssumption, Entry
<1>7. PICK k \in Number : k = logfile_number_ /\ k \in DOMAIN logf
  BY <1>3, <1>4, PartialFnElim
<1>8. PICK m \in Manifests : m = manifest[CURRENT]
  BY <1>3, <1>4, PartialFnElim DEF Names, Describes
<1>9. Covers(m, table, logf, written) /\ CURRENT \in DOMAIN manifest /\ CURRENT < m.next
  BY <1>3, <1>8 DEF Names, Describes
<1>10. k \in LogsSince(logf, m.log)
  BY <1>3, <1>7, <1>8 DEF LogsSince, Manifests, Number
<1>11. logf' = Longer(logf, k, e)
  BY <1>1, <1>7 DEF Longer
<1>12. /\ logf' \in PartialFn(Number, Seq(written')) /\ Covers(m, table, logf', written')
       /\ DOMAIN logf' = DOMAIN logf /\ Range(logf[k]) \cup {e} \subseteq Range(logf'[k])
  <2>1. PICK l : l = logf /\ l \in PartialFn(Number, Seq(written)) /\ Covers(m, table, l, written)
                 /\ k \in LogsSince(l, m.log) /\ k \in DOMAIN l
    BY <1>4, <1>7, <1>9, <1>10
  <2>2. PICK ll : ll = Longer(l, k, e)
    OBVIOUS
  <2>3. /\ ll \in PartialFn(Number, Seq(written \cup {e})) /\ DOMAIN ll = DOMAIN l
        /\ Range(l[k]) \cup {e} \subseteq Range(ll[k]) /\ \A n \in DOMAIN l \ {k} : ll[n] = l[n]
    BY <2>1, <2>2, LogMore
  <2>4. Covers(m, table, ll, written \cup {e})
    BY <2>1, <2>3, CoversMore
  <2> QED
    BY <1>1, <1>11, <2>1, <2>2, <2>3, <2>4
<1>13. FilesOK'
  <2>1. table \in PartialFn(Number, SUBSET written')
    <3>1. SUBSET written \subseteq SUBSET written'
      BY <1>1
    <3> QED
      BY <1>4, <3>1, PartialFnMore
  <2> QED
    BY <1>2, <1>12, <2>1 DEF RecoveryOK, FilesOK, budget
<1>14. Writing1 = {}
  BY <1>2 DEF Writing1
<1>15. \A f \in written : f[1] <= last
  BY <1>3, <1>5, <1>14
<1>16. WritesOK'
  <2>1. written' \subseteq Entry /\ acked' \subseteq written' /\ puts' \in Nat
    BY <1>1, <1>2, <1>6 DEF RecoveryOK, WritesOK
  <2>2. Bounded({f[1] : f \in written'})
    <3>1. {f[1] : f \in written} \in SUBSET Nat /\ Bounded({f[1] : f \in written})
      BY EntryFacts DEF RecoveryOK, WritesOK
    <3>2. {f[1] : f \in written'} = {f[1] : f \in written} \cup {last + 1}
      BY <1>1, <1>6
    <3>3. last + 1 \in Nat
      OBVIOUS
    <3> QED
      BY <3>1, <3>2, <3>3, BoundedFacts
  <2>3. \A f, g \in written' : f[1] = g[1] => f = g
    <3>1. \A f \in written : f[1] \in Nat
      BY EntryFacts DEF RecoveryOK
    <3>2. \A f \in written : f[1] # e[1]
      BY <1>6, <1>15, <3>1
    <3> QED
      BY <1>1, <3>2 DEF RecoveryOK, WritesOK
  <2> QED
    BY <2>1, <2>2, <2>3 DEF WritesOK
<1>17. MemoryOK'
  BY <1>1, <1>2 DEF RecoveryOK, MemoryOK, replay
<1>18. UNCHANGED <<CURRENT, manifest, table, pc, vs, edit, mem, imm, logfile_number_, bg, bg_error_,
                   unrepaired, acked>>
  BY <1>2 DEF repair
<1>19. OpenOK'
  <2>1. Names(CURRENT)'
    BY <1>8, <1>9, <1>12, <1>18 DEF Names, Describes
  <2>2. Held' = Held /\ Writing1' = {e}
    BY <1>1, <1>6, <1>18 DEF Held, Writing1
  <2>3. LogsSince(logf', vs.log) = LogsSince(logf, vs.log)
    BY <1>12 DEF LogsSince
  <2>4. mem' \cup Writing1' \subseteq Range(logf'[logfile_number_'])
    BY <1>3, <1>7, <1>12, <1>18, <2>2
  <2>5. written' \subseteq TableEntries(table', vs'.live) \cup Held' \cup Writing1'
    BY <1>1, <1>3, <1>14, <1>18, <2>2
  <2>6. wr'[1] = vs'.last + 1
    BY <1>1, <1>5, <1>6, <1>18
  <2>7. \A f \in TableEntries(table', vs'.live) \cup Held' \cup acked' : f[1] <= vs'.last
    BY <1>3, <1>18, <2>2
  <2>8. /\ ~unrepaired' /\ CURRENT' = vs'.manifest /\ vs'.manifest < vs'.next
        /\ vs'.live \subseteq DOMAIN table' /\ \A n \in vs'.live : n < vs'.next
        /\ logfile_number_' \in DOMAIN logf' /\ vs'.log <= manifest'[CURRENT'].log
        /\ manifest'[CURRENT'].log <= logfile_number_'
        /\ \A n \in LogsSince(logf', vs'.log) : n < vs'.next
        /\ ~bg_error_' /\ bg'.at # "applied" =>
             manifest'[CURRENT'].live = vs'.live /\ manifest'[CURRENT'].log = vs'.log
    BY <1>3, <1>12, <1>18, <2>3
  <2> QED
    BY <2>1, <2>4, <2>5, <2>6, <2>7, <2>8 DEF OpenOK
<1>20. BackgroundOK'
  <2>1. Live' = Live
    BY <1>18 DEF Live
  <2> QED
    BY <1>2, <1>18, <2>1 DEF RecoveryOK, BackgroundOK
<1> QED
  BY <1>2, <1>13, <1>16, <1>17, <1>18, <1>19, <1>20, OpenGoesOn

\* A write goes to the memtable and is answered.
LEMMA InsertIntoStep ==
    ASSUME RecoveryOK, RecoveryAssumption, InsertInto
    PROVE  RecoveryOK'
<1>1. /\ pc = "open" /\ wr # None /\ mem' = mem \cup {wr} /\ acked' = acked \cup {wr}
      /\ vs' = [vs EXCEPT !.last = wr[1]] /\ wr' = None
      /\ UNCHANGED <<disk, pc, caller, edit, replay, imm, logfile_number_, bg, bg_error_, repair,
                     written, puts, budget>>
  BY DEF InsertInto
<1>2. /\ ~unrepaired /\ CURRENT = vs.manifest /\ Names(CURRENT) /\ vs.manifest < vs.next
      /\ vs.live \subseteq DOMAIN table /\ \A n \in vs.live : n < vs.next
      /\ logfile_number_ \in DOMAIN logf /\ vs.log <= manifest[CURRENT].log
      /\ manifest[CURRENT].log <= logfile_number_
      /\ \A n \in LogsSince(logf, vs.log) : n < vs.next
      /\ written \subseteq TableEntries(table, vs.live) \cup Held \cup Writing1
      /\ mem \cup Writing1 \subseteq Range(logf[logfile_number_])
      /\ \A f \in TableEntries(table, vs.live) \cup Held \cup acked : f[1] <= vs.last
      /\ wr[1] = vs.last + 1
      /\ ~bg_error_ /\ bg.at # "applied" =>
           manifest[CURRENT].live = vs.live /\ manifest[CURRENT].log = vs.log
  BY <1>1 DEF RecoveryOK, OpenOK
<1>3. /\ vs \in Versions /\ wr \in written /\ mem \subseteq written /\ imm \subseteq written
      /\ table \in PartialFn(Number, SUBSET written)
  BY <1>1 DEF RecoveryOK, MemoryOK, FilesOK
<1>4. PICK last \in Nat : last = vs.last
  BY <1>3 DEF Versions
<1>5. /\ vs' \in Versions /\ vs'.last = last + 1 /\ vs'.live = vs.live /\ vs'.log = vs.log
      /\ vs'.next = vs.next /\ vs'.manifest = vs.manifest
  <2>1. vs' = [vs EXCEPT !.last = last + 1]
    BY <1>1, <1>2, <1>4
  <2> QED
    BY <1>3, <1>4, <2>1 DEF Versions
<1>6. UNCHANGED <<CURRENT, manifest, logf, table, pc, edit, imm, logfile_number_, bg, bg_error_,
                  unrepaired, written>>
  BY <1>1 DEF disk, repair
<1>7. FilesOK'
  BY <1>1, FilesSame DEF RecoveryOK, budget
<1>8. WritesOK'
  BY <1>1, <1>3 DEF RecoveryOK, WritesOK
<1>9. MemoryOK'
  BY <1>1, <1>3, <1>5, <1>6 DEF RecoveryOK, MemoryOK, replay
<1>10. OpenOK'
  <2>1. Held' = Held \cup {wr} /\ Writing1' = {} /\ Writing1 = {wr}
    BY <1>1, <1>6 DEF Held, Writing1
  <2>2. \A f \in TableEntries(table, vs.live) \cup Held \cup acked : f[1] <= last + 1
    <3>1. TableEntries(table, vs.live) \cup Held \cup acked \subseteq written
      BY <1>2, <1>3, EntriesWritten, EntryFacts DEF RecoveryOK, Held
    <3>2. \A f \in TableEntries(table, vs.live) \cup Held \cup acked : f[1] \in Nat
      BY <3>1, EntryFacts DEF RecoveryOK
    <3> QED
      BY <1>2, <1>4, <3>2
  <2>3. \A f \in TableEntries(table', vs'.live) \cup Held' \cup acked' : f[1] <= vs'.last
    BY <1>1, <1>2, <1>4, <1>5, <1>6, <2>1, <2>2
  <2>4. Names(CURRENT)'
    BY <1>2, <1>6 DEF Names
  <2>5. written' \subseteq TableEntries(table', vs'.live) \cup Held' \cup Writing1'
    BY <1>2, <1>5, <1>6, <2>1
  <2>6. mem' \cup Writing1' \subseteq Range(logf'[logfile_number_'])
    BY <1>1, <1>2, <1>6, <2>1
  <2> QED
    BY <1>1, <1>2, <1>5, <1>6, <2>3, <2>4, <2>5, <2>6 DEF OpenOK
<1>11. BackgroundOK'
  <2>1. Live' = Live
    BY <1>5, <1>6 DEF Live
  <2> QED
    BY <1>1, <1>5, <1>6, <2>1 DEF RecoveryOK, BackgroundOK
<1> QED
  BY <1>1, <1>6, <1>7, <1>8, <1>9, <1>10, <1>11, OpenGoesOn

\* A full memtable and a new log.
LEMMA MakeRoomForWriteStep ==
    ASSUME RecoveryOK, MakeRoomForWrite
    PROVE  RecoveryOK'
<1>1. /\ pc = "open" /\ wr = None /\ imm = {} /\ logf' = With(logf, vs.next, <<>>)
      /\ logfile_number_' = vs.next /\ vs' = [vs EXCEPT !.next = vs.next + 1]
      /\ imm' = mem /\ mem' = {}
      /\ UNCHANGED <<CURRENT, temp, manifest, table, pc, caller, edit, replay, wr, bg, bg_error_,
                     repair, ghost, budget>>
  BY DEF MakeRoomForWrite, Put
<1>2. /\ ~unrepaired /\ CURRENT = vs.manifest /\ Names(CURRENT) /\ vs.manifest < vs.next
      /\ vs.live \subseteq DOMAIN table /\ \A n \in vs.live : n < vs.next
      /\ logfile_number_ \in DOMAIN logf /\ vs.log <= manifest[CURRENT].log
      /\ manifest[CURRENT].log <= logfile_number_
      /\ \A n \in LogsSince(logf, vs.log) : n < vs.next
      /\ written \subseteq TableEntries(table, vs.live) \cup Held \cup Writing1
      /\ \A f \in TableEntries(table, vs.live) \cup Held \cup acked : f[1] <= vs.last
      /\ ~bg_error_ /\ bg.at # "applied" =>
           manifest[CURRENT].live = vs.live /\ manifest[CURRENT].log = vs.log
  BY <1>1 DEF RecoveryOK, OpenOK
<1>3. /\ vs \in Versions /\ mem \subseteq written /\ Bounded(DOMAIN logf)
      /\ logf \in PartialFn(Number, Seq(written)) /\ manifest \in PartialFn(Number, Manifests)
  BY DEF RecoveryOK, MemoryOK, FilesOK
<1>4. PICK n \in Number : n = vs.next
  BY <1>3 DEF Versions
<1>5. /\ vs' \in Versions /\ vs'.next = n + 1 /\ vs'.live = vs.live /\ vs'.log = vs.log
      /\ vs'.last = vs.last /\ vs'.manifest = vs.manifest
  <2>1. vs' = [vs EXCEPT !.next = n + 1] /\ n + 1 \in Number
    BY <1>1, <1>4 DEF Number
  <2> QED
    BY <1>3, <2>1 DEF Versions
<1>6. DOMAIN logf \subseteq Nat
  BY <1>3, PartialFnElim DEF Number
<1>7. logf' = With(logf, n, <<>>) /\ DOMAIN logf' = DOMAIN logf \cup {n} /\ logf'[n] = <<>>
  BY <1>1, <1>4 DEF With
<1>8. FilesOK'
  <2>1. <<>> \in Seq(written)
    OBVIOUS
  <2>2. logf' \in PartialFn(Number, Seq(written))
    BY <1>3, <1>7, <2>1, WithFacts
  <2>3. Bounded(DOMAIN logf')
    BY <1>3, <1>4, <1>6, <1>7, BoundedFacts DEF Number
  <2> QED
    BY <1>1, <2>2, <2>3 DEF RecoveryOK, FilesOK, ghost, budget
<1>9. WritesOK' /\ MemoryOK'
  BY <1>1, <1>3, <1>5, WritesSame DEF RecoveryOK, MemoryOK, replay, ghost
<1>10. UNCHANGED <<CURRENT, manifest, table, pc, edit, wr, bg, bg_error_, unrepaired, written, acked>>
  BY <1>1 DEF repair, ghost
<1>11. PICK m \in Manifests : m = manifest[CURRENT]
  BY <1>2, <1>3, PartialFnElim DEF Names, Describes
<1>12. vs.log \in Nat /\ m.log \in Nat /\ logfile_number_ \in Nat /\ logfile_number_ < n
       /\ vs.log <= m.log /\ m.log <= logfile_number_
  <2>1. vs.log \in Nat /\ m.log \in Nat /\ logfile_number_ \in Nat
    BY <1>2, <1>3, <1>6, <1>11 DEF Versions, Manifests
  <2>2. vs.log <= m.log /\ m.log <= logfile_number_
    BY <1>2, <1>11
  <2>3. logfile_number_ \in LogsSince(logf, vs.log)
    BY <1>2, <2>1, <2>2 DEF LogsSince
  <2> QED
    BY <1>2, <1>4, <2>1, <2>2, <2>3
<1>13. Names(CURRENT)'
  <2>1. n \notin LogsSince(logf, m.log)
    <3>1. \A k \in LogsSince(logf, m.log) : k \in LogsSince(logf, vs.log)
      BY <1>6, <1>12 DEF LogsSince
    <3> QED
      BY <1>2, <1>4, <3>1 DEF Number
  <2>2. Describes(CURRENT, manifest, table, With(logf, n, <<>>), written)
    BY <1>2, <1>11, <2>1, DescribesNewLog DEF Names
  <2> QED
    BY <1>7, <1>10, <2>2 DEF Names
<1>14. OpenOK'
  <2>1. Held' = Held /\ Writing1' = {} /\ Writing1 = {} /\ wr' = None
    BY <1>1, <1>10 DEF Held, Writing1
  <2>2. mem' \cup Writing1' \subseteq Range(logf'[logfile_number_'])
    BY <1>1, <2>1
  <2>3. \A k \in LogsSince(logf', vs'.log) : k < vs'.next
    <3>1. \A k \in DOMAIN logf : k >= vs.log => k < n
      BY <1>2, <1>4 DEF LogsSince
    <3>2. \A k \in DOMAIN logf \cup {n} : k >= vs.log => k < n + 1
      <4>1. n \in Nat
        BY DEF Number
      <4> QED
        BY <1>6, <3>1, <4>1
    <3> QED
      BY <1>5, <1>7, <3>2 DEF LogsSince
  <2>4. vs'.log <= manifest'[CURRENT'].log /\ manifest'[CURRENT'].log <= logfile_number_'
    <3>1. m.log <= n
      BY <1>12 DEF Number
    <3> QED
      BY <1>1, <1>4, <1>5, <1>10, <1>11, <1>12, <3>1
  <2>5. vs'.manifest < vs'.next /\ \A k \in vs'.live : k < vs'.next
    <3>1. vs.manifest \in Nat /\ vs.live \subseteq Nat /\ n \in Nat
      BY <1>3, <1>4 DEF Versions, Number
    <3>2. vs.manifest < n + 1 /\ \A k \in vs.live : k < n + 1
      BY <1>2, <1>4, <3>1
    <3> QED
      BY <1>5, <3>2
  <2>6. \A f \in TableEntries(table', vs'.live) \cup Held' \cup acked' : f[1] <= vs'.last
    BY <1>2, <1>5, <1>10, <2>1
  <2>7. written' \subseteq TableEntries(table', vs'.live) \cup Held' \cup Writing1'
    BY <1>2, <1>5, <1>10, <2>1
  <2>8. logfile_number_' \in DOMAIN logf' /\ CURRENT' = vs'.manifest /\ vs'.live \subseteq DOMAIN table'
        /\ (~bg_error_' /\ bg'.at # "applied" =>
              manifest'[CURRENT'].live = vs'.live /\ manifest'[CURRENT'].log = vs'.log)
    BY <1>1, <1>2, <1>4, <1>5, <1>7, <1>10
  <2> QED
    BY <1>2, <1>10, <1>13, <2>1, <2>2, <2>3, <2>4, <2>5, <2>6, <2>7, <2>8 DEF OpenOK
<1>15. BackgroundOK'
  <2>1. bg.at \in {"built", "edit", "applied"} =>
          /\ bg.kind = "compact" /\ bg.number \in Nat
          /\ bg.number < vs'.next
    <3>1. bg.at \in {"built", "edit", "applied"} =>
            bg.number \in DOMAIN table /\ bg.number < n /\ bg.kind = "compact"
      BY <1>1, <1>4 DEF RecoveryOK, BackgroundOK
    <3>2. DOMAIN table \subseteq Nat
      <4>1. table \in PartialFn(Number, SUBSET written)
        BY DEF RecoveryOK, FilesOK
      <4> QED
        BY <4>1, PartialFnElim DEF Number
    <3> QED
      BY <1>4, <1>5, <3>1, <3>2 DEF Number
  <2>2. Live' = Live
    BY <1>5, <1>10 DEF Live
  <2> QED
    BY <1>1, <1>5, <1>10, <2>1, <2>2 DEF RecoveryOK, BackgroundOK
<1> QED
  BY <1>1, <1>8, <1>9, <1>14, <1>15, OpenGoesOn

-----------------------------------------------------------------------------
(* An open database: the background thread.                                *)

\* Another value at a place that is there.
LEMMA ExceptWith ==
    ASSUME NEW S, NEW T, NEW f \in PartialFn(S, T), NEW k \in DOMAIN f, NEW y
    PROVE  [f EXCEPT ![k] = y] = With(f, k, y)
<1>1. f \in [DOMAIN f -> T] /\ DOMAIN f \cup {k} = DOMAIN f
  BY PartialFnElim
<1> QED
  BY <1>1 DEF With

\* A flush or a compaction writes a table.
LEMMA BuildTableStep ==
    ASSUME RecoveryOK, BuildTable
    PROVE  RecoveryOK'
<1>1. /\ pc = "open" /\ bg.at = "idle" /\ ~bg_error_ /\ table' = With(table, vs.next, Work.entries)
      /\ bg' = [at |-> "built", kind |-> Work.kind, number |-> vs.next]
      /\ vs' = [vs EXCEPT !.next = vs.next + 1]
      /\ UNCHANGED <<CURRENT, temp, manifest, logf, pc, caller, edit, replay, mem, imm,
                     logfile_number_, wr, bg_error_, repair, ghost, budget>>
  BY DEF BuildTable, Put
<1>2. /\ ~unrepaired /\ CURRENT = vs.manifest /\ Names(CURRENT) /\ vs.manifest < vs.next
      /\ vs.live \subseteq DOMAIN table /\ \A n \in vs.live : n < vs.next
      /\ logfile_number_ \in DOMAIN logf /\ vs.log <= manifest[CURRENT].log
      /\ manifest[CURRENT].log <= logfile_number_
      /\ \A n \in LogsSince(logf, vs.log) : n < vs.next
      /\ written \subseteq TableEntries(table, vs.live) \cup Held \cup Writing1
      /\ mem \cup Writing1 \subseteq Range(logf[logfile_number_])
      /\ \A f \in TableEntries(table, vs.live) \cup Held \cup acked : f[1] <= vs.last
      /\ wr # None => wr[1] = vs.last + 1
      /\ manifest[CURRENT].live = vs.live /\ manifest[CURRENT].log = vs.log
  BY <1>1 DEF RecoveryOK, OpenOK
<1>3. /\ vs \in Versions /\ imm \subseteq written /\ Bounded(DOMAIN table)
      /\ logf \in PartialFn(Number, Seq(written)) /\ table \in PartialFn(Number, SUBSET written)
  BY DEF RecoveryOK, MemoryOK, FilesOK
<1>4. PICK n \in Number : n = vs.next
  BY <1>3 DEF Versions
<1>5. /\ vs' \in Versions /\ vs'.next = n + 1 /\ vs'.live = vs.live /\ vs'.log = vs.log
      /\ vs'.last = vs.last /\ vs'.manifest = vs.manifest
  <2>1. vs' = [vs EXCEPT !.next = n + 1] /\ n + 1 \in Number
    BY <1>1, <1>4 DEF Number
  <2> QED
    BY <1>3, <2>1 DEF Versions
<1>6. n \in Nat /\ DOMAIN table \subseteq Nat /\ DOMAIN logf \subseteq Nat /\ vs.live \subseteq Nat
      /\ vs.manifest \in Nat
  BY <1>3, PartialFnElim DEF Number, Versions
<1>7. n \notin vs.live
  BY <1>2, <1>4, <1>6
<1>8. PICK x \in SUBSET written :
         /\ x = Work.entries
         /\ \/ Work.kind = "flush" /\ imm # {} /\ x = imm
            \/ Work.kind = "compact" /\ x = TableEntries(table, vs.live)
  <2>1. CASE imm # {}
    BY <1>3, <2>1 DEF Work
  <2>2. CASE imm = {}
    <3>1. Work = [kind |-> "compact", entries |-> TableEntries(table, vs.live)]
      BY <2>2 DEF Work, TableEntries
    <3>2. TableEntries(table, vs.live) \in SUBSET written
      BY <1>2, <1>3, EntriesWritten
    <3> QED
      BY <3>1, <3>2
  <2> QED
    BY <2>1, <2>2
<1>9. table' = With(table, n, x) /\ DOMAIN table' = DOMAIN table \cup {n} /\ table'[n] = x
  BY <1>1, <1>4, <1>8 DEF With
<1>10. UNCHANGED <<CURRENT, manifest, logf, pc, edit, mem, imm, logfile_number_, wr, bg_error_,
                   unrepaired, written, acked>>
  BY <1>1 DEF repair, ghost
<1>11. FilesOK'
  <2>1. table' \in PartialFn(Number, SUBSET written)
    BY <1>3, <1>9, WithFacts
  <2>2. Bounded(DOMAIN table')
    BY <1>3, <1>6, <1>9, BoundedFacts
  <2> QED
    BY <1>1, <2>1, <2>2 DEF RecoveryOK, FilesOK, ghost, budget
<1>12. WritesOK' /\ MemoryOK'
  BY <1>1, <1>5, WritesSame DEF RecoveryOK, MemoryOK, replay, ghost
<1>13. PICK live : live = vs.live /\ live \subseteq DOMAIN table /\ n \notin live
  BY <1>2, <1>7
<1>14. TableEntries(With(table, n, x), live) = TableEntries(table, live)
  BY <1>13, EntriesKept
<1>15. TableEntries(table', vs.live) = TableEntries(table, vs.live)
  BY <1>9, <1>13, <1>14
<1>16. Names(CURRENT)'
  <2>1. Describes(CURRENT, manifest, With(table, n, x), logf, written)
    BY <1>2, <1>7, DescribesNewTable DEF Names
  <2> QED
    BY <1>9, <1>10, <2>1 DEF Names
<1>17. OpenOK'
  <2>1. Held' = Held /\ Writing1' = Writing1
    BY <1>10 DEF Held, Writing1
  <2>2. /\ vs'.manifest < vs'.next /\ \A k \in vs'.live : k < vs'.next
        /\ \A k \in LogsSince(logf', vs'.log) : k < vs'.next
    <3>1. \A k \in LogsSince(logf, vs.log) : k \in Nat /\ k < n
      BY <1>2, <1>4, <1>6 DEF LogsSince
    <3>2. vs.manifest < n + 1 /\ \A k \in vs.live : k < n + 1
      BY <1>2, <1>4, <1>6
    <3>3. \A k \in LogsSince(logf, vs.log) : k < n + 1
      BY <1>6, <3>1
    <3> QED
      BY <1>5, <1>10, <3>2, <3>3
  <2>3. vs'.live \subseteq DOMAIN table'
    BY <1>2, <1>5, <1>9
  <2> QED
    BY <1>2, <1>5, <1>10, <1>15, <1>16, <2>1, <2>2, <2>3 DEF OpenOK
<1>18. BackgroundOK'
  <2>1. /\ bg'.at = "built" /\ bg'.number = n /\ bg'.kind = Work.kind
    BY <1>1, <1>4
  <2>2. n < vs'.next /\ n \notin vs'.live /\ n \in DOMAIN table'
    BY <1>5, <1>6, <1>7, <1>9
  <2>3. \/ bg'.kind = "flush" /\ imm' # {} /\ table'[n] = imm'
        \/ bg'.kind = "compact" /\ table'[n] = TableEntries(table', vs'.live)
    BY <1>5, <1>8, <1>9, <1>10, <1>15, <2>1
  <2> QED
    BY <1>1, <1>10, <2>1, <2>2, <2>3 DEF BackgroundOK
<1> QED
  BY <1>1, <1>11, <1>12, <1>17, <1>18, OpenGoesOn

\* What changes neither files nor memtables keeps what is promised of them.
LEMMA OpenSame ==
    ASSUME OpenOK, pc = "open", UNCHANGED <<disk, pc, vs, mem, imm, logfile_number_, wr, bg_error_, repair, ghost>>,
           bg'.at # "applied" => bg_error_ \/ bg.at # "applied"
    PROVE  OpenOK'
<1>1. UNCHANGED <<CURRENT, manifest, logf, table, unrepaired, written, acked>>
  BY DEF disk, repair, ghost
<1>2. Held' = Held /\ Writing1' = Writing1 /\ Names(CURRENT)' = Names(CURRENT)
  BY <1>1 DEF Held, Writing1, Names
<1> QED
  BY <1>1, <1>2 DEF OpenOK

\* The edit is made and stamped.
LEMMA PrepareEditStep ==
    ASSUME RecoveryOK, PrepareEdit
    PROVE  RecoveryOK'
<1>1. /\ pc = "open" /\ bg.at = "built" /\ edit' = MakeEdit
      /\ bg' = [bg EXCEPT !.at = "edit"]
      /\ UNCHANGED <<disk, pc, caller, vs, replay, mem, imm, logfile_number_, wr, bg_error_,
                     repair, ghost, budget>>
  BY DEF PrepareEdit
<1>2. /\ ~bg_error_
      /\ bg.number \in DOMAIN table /\ bg.number < vs.next /\ bg.number \notin vs.live
      /\ \/ bg.kind = "flush" /\ imm # {} /\ table[bg.number] = imm
         \/ bg.kind = "compact" /\ table[bg.number] = TableEntries(table, vs.live)
  BY <1>1 DEF RecoveryOK, BackgroundOK
<1>3. /\ vs.manifest < vs.next /\ \A n \in vs.live : n < vs.next
      /\ vs.log <= manifest[CURRENT].log /\ manifest[CURRENT].log <= logfile_number_
      /\ logfile_number_ \in DOMAIN logf /\ \A n \in LogsSince(logf, vs.log) : n < vs.next
      /\ \A f \in TableEntries(table, vs.live) \cup Held \cup acked : f[1] <= vs.last
      /\ Names(CURRENT)
  BY <1>1 DEF RecoveryOK, OpenOK
<1>4. /\ vs \in Versions /\ logf \in PartialFn(Number, Seq(written))
      /\ table \in PartialFn(Number, SUBSET written) /\ manifest \in PartialFn(Number, Manifests)
  BY DEF RecoveryOK, MemoryOK, FilesOK
<1>5. logfile_number_ \in Nat /\ bg.number \in Number /\ vs.log \in Nat
      /\ manifest[CURRENT].log \in Nat
  <2>1. manifest[CURRENT] \in Manifests
    BY <1>3, <1>4, PartialFnElim DEF Names, Describes
  <2> QED
    BY <1>2, <1>3, <1>4, <2>1, PartialFnElim DEF Number, Versions, Manifests
<1>6. logfile_number_ < vs.next /\ vs.log < vs.next
  <2>1. logfile_number_ \in LogsSince(logf, vs.log)
    BY <1>3, <1>5 DEF LogsSince
  <2>2. logfile_number_ < vs.next
    BY <1>3, <2>1
  <2>3. vs.next \in Nat
    BY <1>4 DEF Versions, Number
  <2> QED
    BY <1>3, <1>5, <2>2, <2>3
<1>7. /\ edit'.log = (IF bg.kind = "flush" THEN logfile_number_ ELSE vs.log)
      /\ edit'.add = {bg.number} /\ edit'.del = (IF bg.kind = "flush" THEN {} ELSE vs.live)
      /\ edit'.next = vs.next /\ edit'.last = vs.last
      /\ edit' \in Edits
  <2>1. edit' = [log |-> IF bg.kind = "flush" THEN logfile_number_ ELSE vs.log,
                 next |-> vs.next, last |-> vs.last, add |-> {bg.number},
                 del |-> IF bg.kind = "flush" THEN {} ELSE vs.live]
    BY <1>1 DEF MakeEdit, Stamped, NoEdit
  <2>2. vs.next \in Nat /\ vs.last \in Nat /\ vs.live \subseteq Number
    BY <1>4 DEF Versions, Number
  <2> QED
    BY <1>5, <2>1, <2>2 DEF Edits
<1>8. bg'.at = "edit" /\ bg'.kind = bg.kind /\ bg'.number = bg.number
  <2>1. bg.at = "built"
    BY <1>1
  <2> QED
    BY <1>1
<1>9. FilesOK' /\ WritesOK'
  BY <1>1, FilesSame, WritesSame DEF RecoveryOK, ghost, budget
<1>10. MemoryOK'
  BY <1>1, <1>7 DEF RecoveryOK, MemoryOK, replay, ghost
<1>11. OpenOK'
  BY <1>1, OpenSame DEF RecoveryOK
<1>12. UNCHANGED <<CURRENT, table, vs, imm, logfile_number_, bg_error_, pc>>
  BY <1>1 DEF disk
<1>13. BackgroundOK'
  <2>1. Live' = (IF bg.kind = "flush" THEN vs.live ELSE {}) \cup {bg.number}
    BY <1>7, <1>12 DEF Live
  <2>2. /\ vs'.manifest < edit'.next /\ edit'.log < edit'.next /\ \A n \in Live' : n < edit'.next
    BY <1>2, <1>3, <1>6, <1>7, <1>12, <2>1
  <2>3. \A e \in TableEntries(table', Live') : e[1] <= edit'.last
    <3>1. TableEntries(table, {bg.number}) = table[bg.number]
      BY EntriesOfOne
    <3>2. TableEntries(table, vs.live \cup {bg.number})
            = TableEntries(table, vs.live) \cup TableEntries(table, {bg.number})
      BY EntriesOfBoth
    <3>3. CASE bg.kind = "flush"
      <4>1. Live' = vs.live \cup {bg.number} /\ table[bg.number] \subseteq Held
        BY <1>2, <2>1, <3>3 DEF Held
      <4> QED
        BY <1>3, <1>7, <1>12, <3>1, <3>2, <4>1
    <3>4. CASE bg.kind # "flush"
      <4>1. Live' = {bg.number} /\ table[bg.number] = TableEntries(table, vs.live)
        BY <1>2, <2>1, <3>4
      <4> QED
        BY <1>3, <1>7, <1>12, <3>1, <4>1
    <3> QED
      BY <3>3, <3>4
  <2> QED
    BY <1>1, <1>2, <1>7, <1>8, <1>12, <2>2, <2>3 DEF BackgroundOK
<1> QED
  BY <1>1, <1>9, <1>10, <1>11, <1>13, OpenGoesOn

\* The background thread has nothing left to delete.
LEMMA BackgroundDoneStep ==
    ASSUME RecoveryOK, BackgroundDone
    PROVE  RecoveryOK'
<1>1. /\ pc = "open" /\ bg.at = "clean" /\ bg' = Idle
      /\ UNCHANGED <<disk, pc, caller, vs, edit, replay, mem, imm, logfile_number_, wr, bg_error_,
                     repair, ghost, budget>>
  BY DEF BackgroundDone
<1>2. FilesOK' /\ WritesOK'
  BY <1>1, FilesSame, WritesSame DEF RecoveryOK, ghost, budget
<1>3. MemoryOK'
  BY <1>1 DEF RecoveryOK, MemoryOK, replay, ghost
<1>4. OpenOK'
  BY <1>1, OpenSame DEF RecoveryOK
<1>5. BackgroundOK'
  BY <1>1 DEF BackgroundOK, Idle
<1> QED
  BY <1>1, <1>2, <1>3, <1>4, <1>5, OpenGoesOn

\* What the version will be holds what it held, with the entries of the memtable
\* that was written.
LEMMA LiveFacts ==
    ASSUME RecoveryOK, pc = "open", bg.at \in {"edit", "applied"}
    PROVE  /\ Live \subseteq DOMAIN table /\ \A n \in Live : n < vs.next
           /\ TableEntries(table, vs.live) \subseteq TableEntries(table, Live)
           /\ TableEntries(table, Live) \subseteq TableEntries(table, vs.live) \cup Held
           /\ bg.kind = "flush" => imm \subseteq TableEntries(table, Live)
<1>1. /\ bg.number \in DOMAIN table /\ bg.number < vs.next /\ edit.add = {bg.number}
      /\ \/ bg.kind = "flush" /\ edit.del = {} /\ table[bg.number] = imm
         \/ bg.kind = "compact" /\ edit.del = vs.live /\ table[bg.number] = TableEntries(table, vs.live)
  BY DEF RecoveryOK, BackgroundOK
<1>2. vs.live \subseteq DOMAIN table /\ \A n \in vs.live : n < vs.next
  BY DEF RecoveryOK, OpenOK
<1>3. Live \subseteq vs.live \cup {bg.number} /\ bg.number \in Live
  BY <1>1 DEF Live
<1>4. TableEntries(table, {bg.number}) = table[bg.number]
  BY EntriesOfOne
<1>5. CASE bg.kind = "flush"
  <2>1. Live = vs.live \cup {bg.number} /\ table[bg.number] = imm
    BY <1>1, <1>5 DEF Live
  <2>2. TableEntries(table, vs.live \cup {bg.number}) = TableEntries(table, vs.live) \cup imm
    BY <1>4, <2>1, EntriesOfBoth
  <2> QED
    BY <1>1, <1>2, <1>3, <2>1, <2>2 DEF Held
<1>6. CASE bg.kind = "compact"
  <2>1. Live = {bg.number} /\ table[bg.number] = TableEntries(table, vs.live)
    BY <1>1, <1>6 DEF Live
  <2> QED
    BY <1>1, <1>2, <1>3, <1>4, <1>6, <2>1
<1> QED
  BY <1>1, <1>5, <1>6

\* With the edit the manifest still describes a database with all writes.
LEMMA EditCovers ==
    ASSUME RecoveryOK, pc = "open", bg.at = "edit"
    PROVE  /\ Apply(manifest[CURRENT], edit) \in Manifests
           /\ Apply(manifest[CURRENT], edit).live = Live
           /\ Apply(manifest[CURRENT], edit).log = edit.log
           /\ CURRENT < Apply(manifest[CURRENT], edit).next
           /\ Covers(Apply(manifest[CURRENT], edit), table, logf, written)
           /\ vs.log <= edit.log /\ edit.log <= logfile_number_
<1>1. /\ edit.add = {bg.number} /\ ~bg_error_
      /\ \/ bg.kind = "flush" /\ edit.log = logfile_number_
         \/ bg.kind = "compact" /\ edit.log = vs.log
      /\ vs.manifest < edit.next /\ edit.log < edit.next /\ \A n \in Live : n < edit.next
      /\ \A e \in TableEntries(table, Live) : e[1] <= edit.last
  BY DEF RecoveryOK, BackgroundOK
<1>2. /\ CURRENT = vs.manifest /\ Names(CURRENT)
      /\ logfile_number_ \in DOMAIN logf /\ vs.log <= manifest[CURRENT].log
      /\ manifest[CURRENT].log <= logfile_number_
      /\ written \subseteq TableEntries(table, vs.live) \cup Held \cup Writing1
      /\ mem \cup Writing1 \subseteq Range(logf[logfile_number_])
      /\ manifest[CURRENT].live = vs.live /\ manifest[CURRENT].log = vs.log
  BY <1>1 DEF RecoveryOK, OpenOK
<1>3. /\ vs \in Versions /\ edit \in Edits
      /\ logf \in PartialFn(Number, Seq(written)) /\ manifest \in PartialFn(Number, Manifests)
  BY DEF RecoveryOK, MemoryOK, FilesOK
<1>4. logfile_number_ \in Nat /\ vs.log \in Nat
  BY <1>2, <1>3, PartialFnElim DEF Number, Versions
<1>5. PICK m : /\ m = Apply(manifest[CURRENT], edit)
               /\ m = [live |-> Live, log |-> edit.log, next |-> edit.next, last |-> edit.last]
  BY <1>2 DEF Apply, Live
<1>6. m \in Manifests /\ m.live = Live /\ m.log = edit.log /\ m.next = edit.next /\ m.last = edit.last
  <2>1. Live \subseteq Number
    BY <1>3 DEF Live, Versions, Edits
  <2> QED
    BY <1>3, <1>5, <2>1 DEF Manifests, Edits
<1>7. vs.log <= edit.log /\ edit.log <= logfile_number_
  BY <1>1, <1>2, <1>4
<1>8. /\ Live \subseteq DOMAIN table
      /\ TableEntries(table, vs.live) \subseteq TableEntries(table, Live)
      /\ bg.kind = "flush" => imm \subseteq TableEntries(table, Live)
  BY LiveFacts
<1>9. written \subseteq TableEntries(table, Live) \cup LogEntries(logf, edit.log)
  <2>1. CASE bg.kind = "flush" /\ edit.log = logfile_number_
    <3>1. logfile_number_ \in LogsSince(logf, edit.log)
      BY <1>2, <1>4, <2>1 DEF LogsSince
    <3>2. mem \cup Writing1 \subseteq LogEntries(logf, edit.log)
      BY <1>2, <3>1 DEF LogEntries
    <3> QED
      BY <1>2, <1>8, <2>1, <3>2 DEF Held
  <2>2. CASE bg.kind = "compact" /\ edit.log = vs.log
    <3>1. written \subseteq TableEntries(table, vs.live) \cup LogEntries(logf, vs.log)
      BY <1>2 DEF Names, Describes, Covers
    <3> QED
      BY <1>8, <2>2, <3>1
  <2> QED
    BY <1>1, <2>1, <2>2
<1>10. Covers(m, table, logf, written)
  BY <1>1, <1>6, <1>8, <1>9 DEF Covers
<1>11. CURRENT < m.next
  BY <1>1, <1>2, <1>6
<1> QED
  BY <1>5, <1>6, <1>7, <1>10, <1>11

\* The edit gets into the manifest, whatever LogAndApply answers.
LEMMA AppliedStep ==
    ASSUME RecoveryOK, pc = "open", bg.at = "edit",
           manifest' = [manifest EXCEPT ![vs.manifest] = Apply(manifest[vs.manifest], edit)],
           UNCHANGED <<CURRENT, temp, logf, table, pc, vs, mem, imm, logfile_number_, wr, repair,
                       ghost, plan>>,
           bg_error_' \/ bg'.at = "applied"
    PROVE  /\ FilesOK' /\ OpenOK'
           /\ manifest'[CURRENT'].live = Live /\ manifest'[CURRENT'].log = edit.log
<1>1. /\ ~unrepaired /\ CURRENT = vs.manifest /\ Names(CURRENT) /\ vs.manifest < vs.next
      /\ vs.live \subseteq DOMAIN table /\ \A n \in vs.live : n < vs.next
      /\ logfile_number_ \in DOMAIN logf
      /\ \A n \in LogsSince(logf, vs.log) : n < vs.next
      /\ written \subseteq TableEntries(table, vs.live) \cup Held \cup Writing1
      /\ mem \cup Writing1 \subseteq Range(logf[logfile_number_])
      /\ \A e \in TableEntries(table, vs.live) \cup Held \cup acked : e[1] <= vs.last
      /\ wr # None => wr[1] = vs.last + 1
  BY DEF RecoveryOK, OpenOK
<1>2. manifest \in PartialFn(Number, Manifests)
  BY DEF RecoveryOK, FilesOK
<1>3. PICK m \in Manifests :
         /\ m = Apply(manifest[CURRENT], edit) /\ m.live = Live /\ m.log = edit.log /\ CURRENT < m.next
         /\ Covers(m, table, logf, written)
         /\ vs.log <= m.log /\ m.log <= logfile_number_
  BY EditCovers
<1>4. PICK k \in Number : k = CURRENT /\ k \in DOMAIN manifest
  BY <1>1, <1>2, PartialFnElim DEF Names, Describes
<1>5. manifest' = With(manifest, k, m)
  <2>1. [manifest EXCEPT ![k] = m] = With(manifest, k, m)
    BY <1>2, <1>4, ExceptWith
  <2> QED
    BY <1>1, <1>3, <1>4, <2>1
<1>6. manifest' \in PartialFn(Number, Manifests)
  <2>1. With(manifest, k, m) \in PartialFn(Number, Manifests)
    BY <1>2, WithFacts
  <2> QED
    BY <1>5, <2>1
<1>7. Describes(k, With(manifest, k, m), table, logf, written) /\ With(manifest, k, m)[k] = m
  BY <1>3, <1>4, DescribesNew
<1>8. FilesOK'
  BY <1>6 DEF RecoveryOK, FilesOK, ghost
<1>9. UNCHANGED <<CURRENT, logf, table, vs, mem, imm, logfile_number_, wr, unrepaired, written, acked>>
  BY DEF repair, ghost
<1>10. manifest'[CURRENT'] = m
  BY <1>4, <1>5, <1>7, <1>9
<1>11. Names(CURRENT)'
  BY <1>4, <1>5, <1>7, <1>9 DEF Names
<1>12. Held' = Held /\ Writing1' = Writing1
  BY <1>9 DEF Held, Writing1
<1>13. OpenOK'
  BY <1>1, <1>3, <1>9, <1>10, <1>11, <1>12 DEF OpenOK
<1> QED
  BY <1>3, <1>8, <1>10, <1>13

\* The edit is in the descriptor.
LEMMA LogAndApplyStep ==
    ASSUME RecoveryOK, LogAndApply
    PROVE  RecoveryOK'
<1>1. /\ pc = "open" /\ bg.at = "edit" /\ bg' = [bg EXCEPT !.at = "applied"]
      /\ manifest' = [manifest EXCEPT ![vs.manifest] = Apply(manifest[vs.manifest], edit)]
      /\ UNCHANGED <<CURRENT, temp, logf, table, pc, caller, vs, edit, replay, mem, imm,
                     logfile_number_, wr, bg_error_, repair, ghost, budget>>
  BY DEF LogAndApply
<1>2. bg'.at = "applied" /\ bg'.kind = bg.kind /\ bg'.number = bg.number
  BY <1>1
<1>3. /\ FilesOK' /\ OpenOK'
      /\ manifest'[CURRENT'].live = Live /\ manifest'[CURRENT'].log = edit.log
  BY <1>1, <1>2, AppliedStep DEF budget
<1>4. WritesOK' /\ MemoryOK'
  BY <1>1, WritesSame DEF RecoveryOK, MemoryOK, replay, ghost
<1>5. UNCHANGED <<CURRENT, table, vs, edit, imm, logfile_number_, bg_error_, pc>>
  BY <1>1
<1>6. Live' = Live
  BY <1>5 DEF Live
<1>7. BackgroundOK'
  BY <1>1, <1>2, <1>3, <1>5, <1>6 DEF RecoveryOK, BackgroundOK
<1> QED
  BY <1>1, <1>3, <1>4, <1>7, OpenGoesOn

\* Perhaps the edit is in the descriptor, and bg_error_ stops everything else.
LEMMA LogAndApplyFailsStep ==
    ASSUME RecoveryOK, LogAndApplyFails
    PROVE  RecoveryOK'
<1>1. /\ pc = "open" /\ bg.at = "edit" /\ bg_error_' = TRUE /\ edit' = NoEdit
      /\ \/ manifest' = [manifest EXCEPT ![vs.manifest] = Apply(manifest[vs.manifest], edit)]
         \/ UNCHANGED manifest
      /\ bg'.at \in {"idle", "clean"}
      /\ UNCHANGED <<CURRENT, temp, logf, table, pc, caller, vs, replay, mem, imm,
                     logfile_number_, wr, repair, ghost, plan>>
  BY DEF LogAndApplyFails, Fails, Idle
<1>2. FilesOK' /\ OpenOK'
  <2>1. CASE manifest' = [manifest EXCEPT ![vs.manifest] = Apply(manifest[vs.manifest], edit)]
    BY <1>1, <2>1, AppliedStep
  <2>2. CASE UNCHANGED manifest
    <3>1. UNCHANGED <<CURRENT, manifest, logf, table, unrepaired, written, acked>>
      BY <1>1, <2>2 DEF repair, ghost
    <3>2. Held' = Held /\ Writing1' = Writing1 /\ Names(CURRENT)' = Names(CURRENT)
      BY <1>1, <3>1 DEF Held, Writing1, Names
    <3>3. OpenOK'
      BY <1>1, <3>1, <3>2 DEF RecoveryOK, OpenOK
    <3> QED
      BY <1>1, <3>1, <3>3 DEF RecoveryOK, FilesOK
  <2> QED
    BY <1>1, <2>1, <2>2
<1>3. WritesOK'
  BY <1>1, WritesSame DEF RecoveryOK
<1>4. MemoryOK'
  BY <1>1 DEF RecoveryOK, MemoryOK, replay, ghost, NoEdit, Edits
<1>5. BackgroundOK'
  BY <1>1 DEF BackgroundOK
<1> QED
  BY <1>1, <1>2, <1>3, <1>4, <1>5, OpenGoesOn

\* The new version becomes current.
LEMMA InstallVersionStep ==
    ASSUME RecoveryOK, InstallVersion
    PROVE  RecoveryOK'
<1>1. /\ pc = "open" /\ bg.at = "applied" /\ edit' = NoEdit /\ bg' = [bg EXCEPT !.at = "clean"]
      /\ vs' = [vs EXCEPT !.live = Live, !.log = edit.log]
      /\ imm' = IF bg.kind = "flush" THEN {} ELSE imm
      /\ UNCHANGED <<disk, pc, caller, replay, mem, logfile_number_, wr, bg_error_, repair, ghost,
                     budget>>
  BY DEF InstallVersion, Live
<1>2. /\ ~unrepaired /\ CURRENT = vs.manifest /\ Names(CURRENT) /\ vs.manifest < vs.next
      /\ logfile_number_ \in DOMAIN logf /\ vs.log <= manifest[CURRENT].log
      /\ manifest[CURRENT].log <= logfile_number_
      /\ \A n \in LogsSince(logf, vs.log) : n < vs.next
      /\ written \subseteq TableEntries(table, vs.live) \cup Held \cup Writing1
      /\ mem \cup Writing1 \subseteq Range(logf[logfile_number_])
      /\ \A e \in TableEntries(table, vs.live) \cup Held \cup acked : e[1] <= vs.last
      /\ wr # None => wr[1] = vs.last + 1
  BY <1>1 DEF RecoveryOK, OpenOK
<1>3. manifest[CURRENT].live = Live /\ manifest[CURRENT].log = edit.log
  BY <1>1 DEF RecoveryOK, BackgroundOK
<1>4. /\ vs \in Versions /\ edit \in Edits /\ logf \in PartialFn(Number, Seq(written))
  BY DEF RecoveryOK, MemoryOK, FilesOK
<1>5. PICK live \in SUBSET Number : live = Live
  BY <1>4 DEF Live, Versions, Edits
<1>6. PICK log \in Nat : log = edit.log
  BY <1>4 DEF Edits
<1>7. /\ vs' \in Versions /\ vs'.next = vs.next /\ vs'.live = live /\ vs'.log = log
      /\ vs'.last = vs.last /\ vs'.manifest = vs.manifest
  <2>1. vs' = [vs EXCEPT !.live = live, !.log = log]
    BY <1>1, <1>5, <1>6
  <2> QED
    BY <1>4, <2>1 DEF Versions
<1>8. /\ live \subseteq DOMAIN table /\ \A n \in live : n < vs.next
      /\ TableEntries(table, vs.live) \subseteq TableEntries(table, live)
      /\ TableEntries(table, live) \subseteq TableEntries(table, vs.live) \cup Held
      /\ bg.kind = "flush" => imm \subseteq TableEntries(table, live)
  BY <1>1, <1>5, LiveFacts
<1>9. UNCHANGED <<CURRENT, manifest, logf, table, pc, mem, logfile_number_, wr, bg_error_,
                  unrepaired, written, acked>>
  BY <1>1 DEF disk, repair, ghost
<1>10. bg'.at = "clean"
  BY <1>1
<1>11. FilesOK' /\ WritesOK'
  BY <1>1, FilesSame, WritesSame DEF RecoveryOK, ghost, budget
<1>12. MemoryOK'
  BY <1>1, <1>7 DEF RecoveryOK, MemoryOK, replay, ghost, NoEdit, Edits
<1>13. OpenOK'
  <2>1. Writing1' = Writing1 /\ Held' \subseteq Held /\ Held \subseteq Held' \cup TableEntries(table, live)
    BY <1>1, <1>8, <1>9 DEF Held, Writing1
  <2>2. Names(CURRENT)'
    BY <1>2, <1>9 DEF Names
  <2>3. \A n \in LogsSince(logf', vs'.log) : n < vs'.next
    <3>1. DOMAIN logf \subseteq Nat /\ vs.log \in Nat
      BY <1>4, PartialFnElim DEF Number, Versions
    <3>2. LogsSince(logf, log) \subseteq LogsSince(logf, vs.log)
      BY <1>2, <1>3, <1>6, <3>1 DEF LogsSince
    <3> QED
      BY <1>2, <1>7, <1>9, <3>2
  <2>4. vs'.log <= manifest'[CURRENT'].log /\ manifest'[CURRENT'].log <= logfile_number_'
    BY <1>2, <1>3, <1>6, <1>7, <1>9
  <2>5. written' \subseteq TableEntries(table', vs'.live) \cup Held' \cup Writing1'
    BY <1>2, <1>7, <1>8, <1>9, <2>1
  <2>6. \A e \in TableEntries(table', vs'.live) \cup Held' \cup acked' : e[1] <= vs'.last
    BY <1>2, <1>7, <1>8, <1>9, <2>1
  <2>7. manifest'[CURRENT'].live = vs'.live /\ manifest'[CURRENT'].log = vs'.log
    BY <1>3, <1>5, <1>6, <1>7, <1>9
  <2> QED
    BY <1>2, <1>7, <1>8, <1>9, <2>1, <2>2, <2>3, <2>4, <2>5, <2>6, <2>7 DEF OpenOK
<1>14. BackgroundOK'
  BY <1>10 DEF BackgroundOK
<1> QED
  BY <1>1, <1>11, <1>12, <1>13, <1>14, OpenGoesOn

-----------------------------------------------------------------------------
(* RepairDB.                                                               *)

\* RepairDB finds all files.
LEMMA FindFilesStep ==
    ASSUME RecoveryOK, Restrained, FindFiles
    PROVE  RecoveryOK'
<1> DEFINE files == {0} \cup DOMAIN logf \cup DOMAIN table \cup temp
<1>1. /\ pc = "closed" /\ pc' = "convert" /\ unrepaired' = TRUE
      /\ rep' = [logs |-> DOMAIN logf, manifests |-> DOMAIN manifest, next |-> Max(files) + 1]
      /\ s' = "ok"
      /\ UNCHANGED <<disk, caller, vs, edit, logs, pos, maxseq, run, ghost, budget>>
  BY DEF FindFiles
<1>2. acked # {}
  BY DEF FindFiles, Restrained, RecoveryOK, FilesOK
<1>3. /\ logf \in PartialFn(Number, Seq(written)) /\ table \in PartialFn(Number, SUBSET written)
      /\ Bounded(DOMAIN logf) /\ Bounded(DOMAIN table) /\ Bounded(temp) /\ temp \subseteq Number
      /\ acked \subseteq written
  BY DEF RecoveryOK, FilesOK, WritesOK
<1>4. DOMAIN logf \subseteq Number /\ DOMAIN table \subseteq Number
  BY <1>3, PartialFnElim
<1>5. written \subseteq TableEntries(table, DOMAIN table) \cup LogEntries(logf, 0)
  <2>1. CASE unrepaired
    BY <2>1 DEF RecoveryOK, UnrepairedOK
  <2>2. CASE ~unrepaired
    <3>1. Names(CURRENT)
      BY <1>1, <1>2, <1>3, <2>2 DEF RecoveryOK, DiskOK
    <3>2. PICK m : m = manifest[CURRENT]
      OBVIOUS
    <3>3. /\ m.live \subseteq DOMAIN table
          /\ written \subseteq TableEntries(table, m.live) \cup LogEntries(logf, m.log)
      BY <3>1, <3>2 DEF Names, Describes, Covers
    <3>4. TableEntries(table, m.live) \subseteq TableEntries(table, DOMAIN table)
      BY <3>3 DEF TableEntries
    <3>5. LogsSince(logf, m.log) \subseteq LogsSince(logf, 0)
      BY <1>4 DEF LogsSince, Number
    <3>6. LogEntries(logf, m.log) \subseteq LogEntries(logf, 0)
      BY <3>5 DEF LogEntries
    <3> QED
      BY <3>3, <3>4, <3>6
  <2> QED
    BY <2>1, <2>2
<1>6. files \in SUBSET Nat /\ files # {}
  <2>1. DOMAIN logf \subseteq Nat /\ DOMAIN table \subseteq Nat /\ temp \subseteq Nat
    BY <1>3, <1>4 DEF Number
  <2>2. 0 \in files
    OBVIOUS
  <2>3. \A k \in files : k \in Nat
    BY <2>1
  <2> QED
    BY <2>2, <2>3
<1>7. Bounded(files)
  <2>1. PICK a \in Nat : \A k \in DOMAIN logf : k <= a
    BY <1>3 DEF Bounded
  <2>2. PICK b \in Nat : \A k \in DOMAIN table : k <= b
    BY <1>3 DEF Bounded
  <2>3. PICK c \in Nat : \A k \in temp : k <= c
    BY <1>3 DEF Bounded
  <2>4. PICK u \in Nat : a <= u /\ b <= u /\ c <= u
    <3>1. a + b + c \in Nat /\ a <= a + b + c /\ b <= a + b + c /\ c <= a + b + c
      OBVIOUS
    <3> QED
      BY <3>1
  <2>5. \A k \in files : k <= u
    BY <1>6, <2>1, <2>2, <2>3, <2>4
  <2> QED
    BY <2>5 DEF Bounded
<1>8. PICK max \in Nat : max = Max(files) /\ \A k \in files : k <= max
  BY <1>6, <1>7, MaxFacts
<1>9. \E k \in DOMAIN logf \cup DOMAIN table : TRUE
  <2> SUFFICES ASSUME DOMAIN logf = {} /\ DOMAIN table = {} PROVE FALSE
    OBVIOUS
  <2>1. TableEntries(table, DOMAIN table) = {} /\ LogEntries(logf, 0) = {}
    BY DEF TableEntries, LogEntries, LogsSince
  <2> QED
    BY <1>2, <1>3, <1>5, <2>1
<1>10. max >= 1
  <2>1. PICK k \in Number : k \in files
    BY <1>4, <1>9
  <2> QED
    BY <1>8, <2>1 DEF Number
<1>11. /\ rep'.logs = DOMAIN logf /\ rep'.next = max + 1
  BY <1>1, <1>8
<1>12. \A n \in DOMAIN table : n < max + 1
  <2> TAKE n \in DOMAIN table
  <2>1. n \in files
    OBVIOUS
  <2>2. n \in Nat /\ n <= max
    BY <1>6, <1>8, <2>1
  <2> QED
    BY <2>2
<1> HIDE DEF files
<1>13. FilesOK' /\ WritesOK'
  BY <1>1, FilesSame, WritesSame DEF RecoveryOK, ghost, budget
<1>14. MemoryOK'
  BY <1>1 DEF RecoveryOK, MemoryOK, run, ghost
<1>15. UNCHANGED <<logf, table, written, acked>>
  BY <1>1 DEF disk, ghost
<1>16. DiskOK' /\ UnrepairedOK' /\ FreshOK' /\ NewOK' /\ SettingOK'
  BY <1>1, <1>2, <1>5, <1>15
  DEF RecoveryOK, DiskOK, UnrepairedOK, FreshOK, Fresh, NewOK, SettingOK, Setting
<1>17. RepairOK'
  BY <1>1, <1>10, <1>11, <1>12, <1>15 DEF RepairOK
<1>18. ReplayOK' /\ OpeningOK' /\ OpenOK' /\ BackgroundOK'
  BY <1>1 DEF ReplayOK, OpeningOK, OpenOK, BackgroundOK, Setting
<1> QED
  BY <1>13, <1>14, <1>16, <1>17, <1>18 DEF RecoveryOK

\* A log becomes a table.
LEMMA ConvertLogToTableStep ==
    ASSUME RecoveryOK, ConvertLogToTable
    PROVE  RecoveryOK'
<1>1. /\ pc = "convert" /\ pc' = "archive" /\ rep.logs # {}
      /\ rep' = [rep EXCEPT !.next = rep.next + 1]
      /\ UNCHANGED <<CURRENT, temp, manifest, logf, caller, vs, edit, replay, run, repairs,
                     unrepaired, ghost, budget>>
  BY DEF ConvertLogToTable
<1>2. /\ unrepaired /\ rep.logs = DOMAIN logf
      /\ rep.next \in Nat /\ rep.next >= 2 /\ \A k \in DOMAIN table : k < rep.next
      /\ written \subseteq TableEntries(table, DOMAIN table) \cup LogEntries(logf, 0) /\ acked # {}
  BY <1>1 DEF RecoveryOK, RepairOK, UnrepairedOK
<1>3. /\ logf \in PartialFn(Number, Seq(written)) /\ table \in PartialFn(Number, SUBSET written)
      /\ Bounded(DOMAIN table)
  BY DEF RecoveryOK, FilesOK
<1>4. logf \in [DOMAIN logf -> Seq(written)] /\ DOMAIN logf \subseteq Nat /\ DOMAIN table \subseteq Nat
  BY <1>3, PartialFnElim DEF Number
<1>5. PICK first \in DOMAIN logf : first = Min(rep.logs)
  BY <1>1, <1>2, <1>4, MinFacts
<1>6. PICK log \in Seq(written) : log = logf[first]
  BY <1>4
<1>7. PICK n \in Number : n = rep.next /\ n \notin DOMAIN table
  <2>1. rep.next \in Number
    BY <1>2 DEF Number
  <2>2. rep.next \notin DOMAIN table
    BY <1>2, <1>4
  <2> QED
    BY <2>1, <2>2
<1>8. Range(log) \in SUBSET written
  <2>1. DOMAIN log = 1..Len(log) /\ \A i \in 1..Len(log) : log[i] \in written
    BY ElementOfSeq, LenProperties
  <2> QED
    BY <2>1 DEF Range
<1>9. table' = IF log = <<>> THEN table ELSE With(table, n, Range(log))
  BY <1>5, <1>6, <1>7 DEF ConvertLogToTable, Put
<1>10. /\ table' \in PartialFn(Number, SUBSET written) /\ Bounded(DOMAIN table')
       /\ \A k \in DOMAIN table' : k < n + 1
       /\ TableEntries(table, DOMAIN table) \cup Range(log) \subseteq TableEntries(table', DOMAIN table')
  <2>1. CASE log = <<>>
    <3>1. Range(log) = {}
      BY <2>1 DEF Range
    <3>2. \A k \in DOMAIN table : k < n + 1
      BY <1>2, <1>4, <1>7
    <3> QED
      BY <1>3, <1>9, <2>1, <3>1, <3>2
  <2>2. CASE log # <<>>
    <3>1. PICK new \in SUBSET written : new = Range(log)
      BY <1>8
    <3>2. table' = With(table, n, new)
      BY <1>9, <2>2, <3>1
    <3>3. With(table, n, new) \in PartialFn(Number, SUBSET written)
      BY <1>3, <3>1, WithFacts
    <3>4. DOMAIN table' = DOMAIN table \cup {n}
      BY <3>2 DEF With
    <3>5. Bounded(DOMAIN table')
      BY <1>3, <1>4, <3>4, BoundedFacts DEF Number
    <3>6. PICK D : D = DOMAIN table /\ D \subseteq DOMAIN table /\ n \notin D
      BY <1>7
    <3>7. TableEntries(With(table, n, new), D \cup {n}) = TableEntries(table, D) \cup new
      BY <3>6, EntriesPut
    <3>8. \A k \in DOMAIN table \cup {n} : k < n + 1
      BY <1>2, <1>4, <1>7 DEF Number
    <3> QED
      BY <3>1, <3>2, <3>3, <3>4, <3>5, <3>6, <3>7, <3>8
  <2> QED
    BY <2>1, <2>2
<1>11. rep'.logs = rep.logs /\ rep'.next = n + 1
  <2>1. rep' = [rep EXCEPT !.next = n + 1]
    BY <1>1, <1>7
  <2> QED
    BY <2>1
<1>12. FilesOK'
  BY <1>1, <1>10 DEF RecoveryOK, FilesOK, ghost, budget
<1>13. WritesOK' /\ MemoryOK'
  BY <1>1, WritesSame DEF RecoveryOK, MemoryOK, replay, run, ghost
<1>14. UNCHANGED <<logf, unrepaired, written, acked>>
  BY <1>1 DEF ghost
<1>15. UnrepairedOK'
  BY <1>1, <1>2, <1>10, <1>14 DEF UnrepairedOK
<1>16. RepairOK'
  <2>1. n + 1 \in Nat /\ n + 1 >= 2
    BY <1>2, <1>7
  <2>2. Range(logf'[Min(rep'.logs)]) \subseteq TableEntries(table', DOMAIN table')
    BY <1>5, <1>6, <1>10, <1>11, <1>14
  <2> QED
    BY <1>1, <1>2, <1>10, <1>11, <1>14, <2>1, <2>2 DEF RepairOK
<1>17. DiskOK' /\ FreshOK' /\ NewOK' /\ SettingOK'
  BY <1>1, <1>2 DEF RecoveryOK, DiskOK, FreshOK, Fresh, NewOK, SettingOK, Setting, replay
<1>18. ReplayOK' /\ OpeningOK' /\ OpenOK' /\ BackgroundOK'
  BY <1>1 DEF ReplayOK, OpeningOK, OpenOK, BackgroundOK, Setting
<1> QED
  BY <1>12, <1>13, <1>15, <1>16, <1>17, <1>18 DEF RecoveryOK

\* That log is moved away.
LEMMA ArchiveLogStep ==
    ASSUME RecoveryOK, ArchiveLog
    PROVE  RecoveryOK'
<1>1. /\ pc = "archive" /\ pc' = "convert" /\ logf' = Drop(logf, {Min(rep.logs)})
      /\ rep' = [rep EXCEPT !.logs = rep.logs \ {Min(rep.logs)}]
      /\ UNCHANGED <<CURRENT, temp, manifest, table, caller, vs, edit, replay, run, repairs,
                     unrepaired, ghost, budget>>
  BY DEF ArchiveLog
<1>2. /\ unrepaired /\ rep.logs = DOMAIN logf
      /\ rep.next \in Nat /\ rep.next >= 2 /\ \A k \in DOMAIN table : k < rep.next
      /\ Range(logf[Min(rep.logs)]) \subseteq TableEntries(table, DOMAIN table)
      /\ written \subseteq TableEntries(table, DOMAIN table) \cup LogEntries(logf, 0) /\ acked # {}
  BY <1>1 DEF RecoveryOK, RepairOK, UnrepairedOK
<1>3. logf \in PartialFn(Number, Seq(written)) /\ Bounded(DOMAIN logf)
  BY DEF RecoveryOK, FilesOK
<1>4. PICK k : k = Min(rep.logs)
  OBVIOUS
<1>5. logf' = Drop(logf, {k})
  BY <1>1, <1>4
<1>6. /\ logf' \in PartialFn(Number, Seq(written)) /\ DOMAIN logf' = DOMAIN logf \ {k}
      /\ \A n \in DOMAIN logf \ {k} : logf'[n] = logf[n]
  <2>1. Drop(logf, {k}) \in PartialFn(Number, Seq(written))
    BY <1>3, DropFacts
  <2>2. DOMAIN logf' = DOMAIN logf \ {k} /\ \A n \in DOMAIN logf \ {k} : logf'[n] = logf[n]
    BY <1>5 DEF Drop
  <2> QED
    BY <1>5, <2>1, <2>2
<1>7. rep'.logs = rep.logs \ {k} /\ rep'.next = rep.next
  <2>1. rep' = [rep EXCEPT !.logs = rep.logs \ {k}]
    BY <1>1, <1>4
  <2> QED
    BY <2>1
<1>8. Bounded(DOMAIN logf')
  <2>1. DOMAIN logf \in SUBSET Nat /\ DOMAIN logf' \in SUBSET DOMAIN logf
    BY <1>3, <1>6, PartialFnElim DEF Number
  <2> QED
    BY <1>3, <2>1, BoundedFacts
<1>9. FilesOK'
  BY <1>1, <1>6, <1>8 DEF RecoveryOK, FilesOK, ghost, budget
<1>10. WritesOK' /\ MemoryOK'
  BY <1>1, WritesSame DEF RecoveryOK, MemoryOK, replay, run, ghost
<1>11. UNCHANGED <<table, unrepaired, written, acked>>
  BY <1>1 DEF ghost
<1>12. LogEntries(logf, 0) \subseteq LogEntries(logf', 0) \cup Range(logf[k])
  <2>1. \A n \in LogsSince(logf, 0) : n = k \/ (n \in LogsSince(logf', 0) /\ logf'[n] = logf[n])
    BY <1>6 DEF LogsSince
  <2> QED
    BY <2>1 DEF LogEntries
<1>13. UnrepairedOK'
  BY <1>1, <1>2, <1>4, <1>11, <1>12 DEF UnrepairedOK
<1>14. RepairOK'
  <2>1. rep'.logs = DOMAIN logf'
    BY <1>2, <1>6, <1>7
  <2> QED
    BY <1>1, <1>2, <1>7, <1>11, <2>1 DEF RepairOK
<1>15. DiskOK' /\ FreshOK' /\ NewOK' /\ SettingOK'
  BY <1>1, <1>2 DEF RecoveryOK, DiskOK, FreshOK, Fresh, NewOK, SettingOK, Setting, replay
<1>16. ReplayOK' /\ OpeningOK' /\ OpenOK' /\ BackgroundOK'
  BY <1>1 DEF ReplayOK, OpeningOK, OpenOK, BackgroundOK, Setting
<1> QED
  BY <1>9, <1>10, <1>13, <1>14, <1>15, <1>16 DEF RecoveryOK

\* WriteDescriptor makes one manifest of all tables; no log is left.
LEMMA WriteDescriptorStep ==
    ASSUME RecoveryOK, WriteDescriptor
    PROVE  RecoveryOK'
<1>1. /\ pc = "convert" /\ rep.logs = {} /\ pc' = "manifests" /\ temp' = temp \cup {1}
      /\ edit' = [NoEdit EXCEPT !.next = rep.next, !.last = ScanTables, !.add = DOMAIN table]
      /\ UNCHANGED <<CURRENT, manifest, logf, table, caller, vs, replay, run, repair, ghost, budget>>
  BY DEF WriteDescriptor
<1>2. /\ unrepaired /\ DOMAIN logf = {} /\ acked # {}
      /\ rep.next \in Nat /\ rep.next >= 2 /\ \A k \in DOMAIN table : k < rep.next
      /\ written \subseteq TableEntries(table, DOMAIN table) \cup LogEntries(logf, 0)
  BY <1>1 DEF RecoveryOK, RepairOK, UnrepairedOK
<1>3. table \in PartialFn(Number, SUBSET written) /\ temp \subseteq Number /\ Bounded(temp)
  BY DEF RecoveryOK, FilesOK
<1>4. DOMAIN table \in SUBSET Number
  BY <1>3, PartialFnElim
<1>5. PICK last \in Nat : last = ScanTables /\ \A e \in TableEntries(table, DOMAIN table) : e[1] <= last
  <2> DEFINE all == TableEntries(table, DOMAIN table)
             numbers == {0} \cup {e[1] : e \in all}
  <2>1. all = UNION Range(table)
    BY DEF TableEntries, Range
  <2>2. all \subseteq written
    BY <1>3, EntriesWritten
  <2>3. written \subseteq Entry /\ Bounded({e[1] : e \in written})
    BY DEF RecoveryOK, WritesOK
  <2>4. PICK u \in Nat : \A k \in {e[1] : e \in written} : k <= u
    BY <2>3 DEF Bounded
  <2> HIDE DEF all
  <2>5. \A e \in all : e[1] \in Nat /\ e[1] <= u
    BY <2>2, <2>3, <2>4 DEF Entry
  <2>6. PICK S : S = numbers
    OBVIOUS
  <2>7. \A k \in S : k \in Nat /\ k <= u
    BY <2>5, <2>6
  <2>8. S \in SUBSET Nat /\ S # {} /\ Bounded(S)
    BY <2>6, <2>7 DEF Bounded
  <2>9. Max(S) \in S /\ \A k \in S : k <= Max(S)
    BY <2>8, MaxFacts
  <2>10. ScanTables = Max(S)
    BY <2>1, <2>6 DEF ScanTables
  <2>11. \A e \in all : e[1] <= Max(S)
    BY <2>6, <2>9
  <2>12. Max(S) \in Nat
    BY <2>8, <2>9
  <2> QED
    BY <2>10, <2>11, <2>12 DEF all
<1>6. /\ edit' \in Edits /\ edit'.log = 0 /\ edit'.next = rep.next /\ edit'.last = last
      /\ edit'.add = DOMAIN table /\ edit'.del = {}
  BY <1>1, <1>2, <1>4, <1>5 DEF NoEdit, Edits
<1>7. FilesOK'
  <2>1. temp \in SUBSET Nat /\ 1 \in Number /\ 1 \in Nat
    BY <1>3 DEF Number
  <2>2. Bounded(temp \cup {1})
    BY <1>3, <2>1, BoundedFacts
  <2> QED
    BY <1>1, <1>3, <2>1, <2>2 DEF RecoveryOK, FilesOK, ghost, budget
<1>8. WritesOK' /\ MemoryOK'
  BY <1>1, <1>6, WritesSame DEF RecoveryOK, MemoryOK, replay, run, ghost
<1>9. UNCHANGED <<logf, table, unrepaired, written, acked>>
  BY <1>1 DEF ghost, repair
<1>10. Covers(Apply(NoRecords, edit'), table, logf, written)
  <2>1. PICK m : m = Apply(NoRecords, edit')
    OBVIOUS
  <2>2. m.live = DOMAIN table /\ m.log = 0 /\ m.next = rep.next /\ m.last = last
    BY <1>6, <2>1 DEF Apply, NoRecords
  <2>3. Covers(m, table, logf, written)
    BY <1>2, <1>5, <2>2 DEF Covers
  <2> QED
    BY <2>1, <2>3
<1>11. RepairOK'
  <2>1. 1 < edit'.next
    BY <1>2, <1>6
  <2> QED
    BY <1>1, <1>2, <1>9, <1>10, <2>1 DEF RepairOK
<1>12. UnrepairedOK'
  BY <1>1, <1>2, <1>9 DEF UnrepairedOK
<1>13. DiskOK' /\ FreshOK' /\ NewOK' /\ SettingOK'
  BY <1>1, <1>2, <1>9 DEF RecoveryOK, DiskOK, FreshOK, Fresh, NewOK, SettingOK, Setting, replay
<1>14. ReplayOK' /\ OpeningOK' /\ OpenOK' /\ BackgroundOK'
  BY <1>1 DEF ReplayOK, OpeningOK, OpenOK, BackgroundOK, Setting
<1> QED
  BY <1>7, <1>8, <1>11, <1>12, <1>13, <1>14 DEF RecoveryOK

\* The manifests there were are moved away, one after the other.
LEMMA ArchiveManifestStep ==
    ASSUME RecoveryOK, ArchiveManifest
    PROVE  RecoveryOK'
<1>1. /\ pc = "manifests" /\ pc' = "manifests"
      /\ UNCHANGED <<CURRENT, temp, logf, table, caller, vs, edit, replay, run, repairs, unrepaired,
                     ghost, budget>>
  BY DEF ArchiveManifest
<1>2. PICK n : manifest' = Drop(manifest, {n})
  BY DEF ArchiveManifest
<1>3. FilesOK'
  <2>1. temp' \subseteq temp /\ UNCHANGED <<plan, logf, table, written>> /\ FilesOK
    BY <1>1 DEF RecoveryOK, ghost, budget
  <2> QED
    BY <1>2, <2>1, FilesLeft
<1>4. WritesOK' /\ MemoryOK'
  BY <1>1, WritesSame DEF RecoveryOK, MemoryOK, replay, run, ghost
<1>5. UNCHANGED <<logf, table, unrepaired, written, acked>> /\ unrepaired
  BY <1>1 DEF ghost, RecoveryOK, RepairOK
<1>6. RepairOK' /\ UnrepairedOK'
  BY <1>1, <1>5 DEF RecoveryOK, RepairOK, UnrepairedOK
<1>7. DiskOK' /\ FreshOK' /\ NewOK' /\ SettingOK'
  BY <1>1, <1>5 DEF RecoveryOK, DiskOK, FreshOK, Fresh, NewOK, SettingOK, Setting, replay
<1>8. ReplayOK' /\ OpeningOK' /\ OpenOK' /\ BackgroundOK'
  BY <1>1 DEF ReplayOK, OpeningOK, OpenOK, BackgroundOK, Setting
<1> QED
  BY <1>3, <1>4, <1>6, <1>7, <1>8 DEF RecoveryOK

\* The new manifest becomes MANIFEST-000001.
LEMMA InstallDescriptorStep ==
    ASSUME RecoveryOK, InstallDescriptor
    PROVE  RecoveryOK'
<1>1. /\ pc = "manifests" /\ pc' = "setcurrent" /\ caller' = "repair" /\ edit' = NoEdit
      /\ manifest' = With(manifest, 1, Apply(NoRecords, edit)) /\ temp' = temp \ {1}
      /\ vs' = [vs EXCEPT !.manifest = 1]
      /\ UNCHANGED <<CURRENT, logf, table, replay, run, repair, ghost, budget>>
  BY DEF InstallDescriptor, Put
<1>2. /\ unrepaired /\ 1 < edit.next /\ Covers(Apply(NoRecords, edit), table, logf, written)
      /\ edit \in Edits /\ vs \in Versions
  BY <1>1 DEF RecoveryOK, RepairOK, MemoryOK
<1>3. PICK m \in Manifests : m = Apply(NoRecords, edit) /\ 1 < m.next
  <2>1. Apply(NoRecords, edit) \in Manifests /\ Apply(NoRecords, edit).next = edit.next
    BY <1>2 DEF Apply, NoRecords, Edits, Manifests
  <2> QED
    BY <1>2, <2>1
<1>4. manifest' = With(manifest, 1, m) /\ Covers(m, table, logf, written)
  BY <1>1, <1>2, <1>3
<1>5. FilesOK'
  <2>1. manifest \in PartialFn(Number, Manifests) /\ 1 \in Number
    BY DEF RecoveryOK, FilesOK, Number
  <2>2. With(manifest, 1, m) \in PartialFn(Number, Manifests)
    BY <1>3, <2>1, WithFacts
  <2>3. temp \in SUBSET Nat /\ Bounded(temp) /\ temp \ {1} \in SUBSET temp
    BY DEF RecoveryOK, FilesOK, Number
  <2>4. Bounded(temp \ {1})
    BY <2>3, BoundedFacts
  <2> QED
    BY <1>1, <1>4, <2>2, <2>4 DEF RecoveryOK, FilesOK, ghost, budget
<1>6. vs' \in Versions /\ vs'.manifest = 1
  BY <1>1, <1>2 DEF Versions
<1>7. WritesOK' /\ MemoryOK'
  BY <1>1, <1>6, WritesSame DEF RecoveryOK, MemoryOK, replay, run, ghost, NoEdit, Edits
<1>8. Describes(1, With(manifest, 1, m), table, logf, written)
  BY <1>3, <1>4, DescribesNew
<1>9. UNCHANGED <<logf, table, unrepaired, written, acked>>
  BY <1>1 DEF ghost, repair
<1>10. Names(1)'
  BY <1>4, <1>8, <1>9 DEF Names
<1>11. SettingOK'
  BY <1>1, <1>2, <1>6, <1>9, <1>10 DEF SettingOK
<1>12. UnrepairedOK'
  BY <1>1, <1>2, <1>9 DEF RecoveryOK, UnrepairedOK, Setting
<1>13. DiskOK' /\ FreshOK' /\ NewOK' /\ RepairOK'
  BY <1>1, <1>2, <1>9 DEF RecoveryOK, DiskOK, FreshOK, Fresh, NewOK, RepairOK, Setting, replay
<1>14. ReplayOK' /\ OpeningOK' /\ OpenOK' /\ BackgroundOK'
  BY <1>1 DEF ReplayOK, OpeningOK, OpenOK, BackgroundOK, Setting
<1> QED
  BY <1>5, <1>7, <1>11, <1>12, <1>13, <1>14 DEF RecoveryOK

-----------------------------------------------------------------------------
(* All steps.                                                              *)

\* The files are in order, and a step of any kind leaves them so.
LEMMA RecoveryStep ==
    ASSUME RecoveryOK, RecoveryAssumption, Restrained, [Next]_vars
    PROVE  RecoveryOK'
<1>1. CASE Opening
  <2>1. CASE Open \/ NewDB \/ NewDBFails \/ SetCurrentFile \/ SetCurrentFileFails
    BY <2>1, OpenStep, NewDBStep, NewDBFailsStep, SetCurrentFileStep, SetCurrentFileFailsStep
  <2>2. CASE RemoveTarget \/ RenameFile \/ RenameFails \/ ManifestMissing \/ Recover
    BY <2>2, RemoveTargetStep, RenameFileStep, RenameFailsStep, GivenUpStep, RecoverStep
  <2>3. CASE \/ ReplayLog \/ ReplayFails \/ ReplayedLog \/ LogNotOpened \/ ReplayFailed
             \/ NewLog \/ NewLogFails
    BY <2>3, ReplayLogStep, LogDoneStep, GivenUpStep, NewLogStep
  <2>4. CASE WriteManifest \/ WriteManifestFails \/ Install \/ DeleteObsoleteFiles \/ Opened
    BY <2>4, WriteManifestStep, WriteManifestFailsStep, InstallStep, DeleteObsoleteFilesStep,
       OpenedStep
  <2> QED
    BY <1>1, <2>1, <2>2, <2>3, <2>4 DEF Opening
<1>2. CASE Writing
  BY <1>2, AddRecordStep, InsertIntoStep, MakeRoomForWriteStep DEF Writing
<1>3. CASE Background
  BY <1>3, BuildTableStep, PrepareEditStep, LogAndApplyStep, LogAndApplyFailsStep,
     InstallVersionStep, CollectGarbageStep, BackgroundDoneStep
  DEF Background
<1>4. CASE Repairing
  BY <1>4, FindFilesStep, ConvertLogToTableStep, ArchiveLogStep, WriteDescriptorStep,
     ArchiveManifestStep, InstallDescriptorStep
  DEF Repairing
<1>5. CASE Crash
  BY <1>5, CrashStep
<1>6. CASE UNCHANGED vars
  <2>1. /\ UNCHANGED <<CURRENT, temp, manifest, logf, table, pc, caller, vs, edit, logs, pos, maxseq, s>>
        /\ UNCHANGED <<mem, imm, logfile_number_, wr, bg, bg_error_, rep, unrepaired, acked, written>>
        /\ UNCHANGED <<puts, plan>>
    BY <1>6 DEF vars, disk, replay, run, repair, ghost, budget
  <2>2. FilesOK' /\ MemoryOK' /\ WritesOK' /\ DiskOK' /\ UnrepairedOK' /\ FreshOK' /\ RepairOK'
    BY <2>1
    DEF RecoveryOK, FilesOK, MemoryOK, WritesOK, DiskOK, UnrepairedOK, FreshOK, Fresh, RepairOK, Names
  <2>3. NewOK' /\ SettingOK' /\ ReplayOK' /\ OpeningOK'
    BY <2>1 DEF RecoveryOK, NewOK, SettingOK, ReplayOK, OpeningOK, Names
  <2>4. OpenOK'
    BY <2>1 DEF RecoveryOK, OpenOK, Names, Held, Writing1
  <2>5. BackgroundOK'
    BY <2>1 DEF RecoveryOK, BackgroundOK, Live
  <2> QED
    BY <2>2, <2>3, <2>4, <2>5 DEF RecoveryOK
<1> QED
  BY <1>1, <1>2, <1>3, <1>4, <1>5, <1>6 DEF Next

\* The inductive invariant holds in every behaviour.
THEOREM FilesInOrder ==
    ASSUME Restrained
    PROVE  Spec => []RecoveryOK
<1>1. Init => RecoveryOK
  BY RecoveryAssumption, RecoveryInit
<1>2. RecoveryOK /\ [Next]_vars => RecoveryOK'
  BY RecoveryAssumption, RecoveryStep
<1> QED
  BY <1>1, <1>2, PTL DEF Spec

-----------------------------------------------------------------------------
(* What it is for.                                                         *)

\* Whenever the process dies, what is in the files is a database that opens and
\* holds every answered write: no order of the steps of Open, of a flush, of a
\* compaction, of DeleteObsoleteFiles or of RepairDB leaves a gap (except
\* between the halves of RenameFile).
THEOREM FilesRecover ==
    ASSUME Restrained
    PROVE  Spec => []Recoverable
<1>1. RecoveryOK => Recoverable
  <2> SUFFICES ASSUME RecoveryOK, pc # "renaming", ~unrepaired
               PROVE  \/ CURRENT = None /\ acked = {}
                      \/ /\ CURRENT \in DOMAIN manifest
                         /\ manifest[CURRENT].live \subseteq DOMAIN table
                         /\ acked \subseteq Stored(manifest[CURRENT].live)
                                 \cup UNION {Range(logf[n]) : n \in LogsFrom(manifest[CURRENT].log)}
    BY DEF Recoverable
  <2>1. acked \subseteq written
    BY DEF RecoveryOK, WritesOK
  <2>2. (CURRENT = None /\ written = {}) \/ Names(CURRENT)
    BY DEF RecoveryOK, DiskOK
  <2>3. CASE CURRENT = None /\ written = {}
    BY <2>1, <2>3
  <2>4. CASE Names(CURRENT)
    <3>1. /\ CURRENT \in DOMAIN manifest
          /\ Covers(manifest[CURRENT], table, logf, written)
      BY <2>4 DEF Names, Describes
    <3>2. PICK m : m = manifest[CURRENT]
      OBVIOUS
    <3>3. m.live \subseteq DOMAIN table
          /\ written \subseteq TableEntries(table, m.live) \cup LogEntries(logf, m.log)
      BY <3>1, <3>2 DEF Covers
    <3>4. TableEntries(table, m.live) = Stored(m.live)
      BY DEF TableEntries, Stored
    <3>5. LogEntries(logf, m.log) = UNION {Range(logf[n]) : n \in LogsFrom(m.log)}
      BY DEF LogEntries, LogsSince, LogsFrom
    <3> QED
      BY <2>1, <3>1, <3>2, <3>3, <3>4, <3>5
  <2> QED
    BY <2>2, <2>3, <2>4
<1> QED
  BY <1>1, FilesInOrder, PTL

\* An open database holds every write that was answered, after any number of
\* crashes, repairs and failing calls of the courses that Restrained leaves.
THEOREM AnsweredWritesSurvive ==
    ASSUME Restrained
    PROVE  Spec => []AckedSurvive
<1>1. RecoveryOK => AckedSurvive
  <2> SUFFICES ASSUME RecoveryOK, pc = "open", NEW e \in acked
               PROVE  e \in mem \cup imm \cup Stored(vs.live)
    BY DEF AckedSurvive
  <2>1. /\ written \subseteq TableEntries(table, vs.live) \cup Held \cup Writing1
        /\ e[1] <= vs.last
        /\ wr # None => wr[1] = vs.last + 1
    BY DEF RecoveryOK, OpenOK
  <2>2. e \in written /\ e[1] \in Nat /\ vs.last \in Nat
    BY DEF RecoveryOK, WritesOK, MemoryOK, Entry, Versions
  <2>3. e \notin Writing1
    BY <2>1, <2>2 DEF Writing1
  <2>4. TableEntries(table, vs.live) = Stored(vs.live)
    BY DEF TableEntries, Stored
  <2> QED
    BY <2>1, <2>2, <2>3, <2>4 DEF Held
<1> QED
  BY <1>1, FilesInOrder, PTL

\* No two writes an open database holds have one sequence number, also after
\* RecoverLogFile or RepairDB found the largest one anew.
THEOREM NumbersStayNew ==
    ASSUME Restrained
    PROVE  Spec => []NoSequenceReuse
<1>1. RecoveryOK => NoSequenceReuse
  <2> DEFINE held == mem \cup Stored(vs.live)
  <2> SUFFICES ASSUME RecoveryOK, pc = "open"
               PROVE  /\ \A e, f \in held : e[1] = f[1] => e = f
                      /\ \A e \in held : e[1] <= vs.last
    BY DEF NoSequenceReuse
  <2>1. TableEntries(table, vs.live) = Stored(vs.live)
    BY DEF TableEntries, Stored
  <2>2. /\ vs.live \subseteq DOMAIN table /\ mem \subseteq written
        /\ table \in PartialFn(Number, SUBSET written)
    BY DEF RecoveryOK, OpenOK, MemoryOK, FilesOK
  <2>3. Stored(vs.live) \subseteq written
    BY <2>1, <2>2, EntriesWritten
  <2>4. \A e, f \in written : e[1] = f[1] => e = f
    BY DEF RecoveryOK, WritesOK
  <2>5. \A e \in TableEntries(table, vs.live) \cup Held : e[1] <= vs.last
    BY DEF RecoveryOK, OpenOK
  <2> QED
    BY <2>1, <2>2, <2>3, <2>4, <2>5 DEF Held
<1> QED
  BY <1>1, FilesInOrder, PTL

=============================================================================
