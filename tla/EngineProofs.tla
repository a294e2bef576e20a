---------------------------- MODULE EngineProofs ----------------------------
(***************************************************************************)
(* What the threads of an open LevelDB keep, for every number of writers,  *)
(* readers and callers of CompactRange, every batch, and every size and    *)
(* limit: nothing that is in use is freed or deleted.                      *)
(*                                                                         *)
(* What is written stays, and is what a reader finds: a restart finds the  *)
(* newest entry of every key, and the entries of every synchronous write   *)
(* that returned OK even when all that is not synced is lost; and Get      *)
(* finds the newest entry that was committed up to its snapshot.           *)
(*                                                                         *)
(* The invariant for what stays, DataOK, has three parts.  QueueOK: one    *)
(* thread works for the queue of writers, the first one.  GroupOK: the     *)
(* entries of its group have the numbers after LastSequence and are        *)
(* logged, then synced, then inserted.  Contents: what is in a memtable is *)
(* in its log, no such log is given up, and an entry that is in no         *)
(* memtable is covered in a table of the current version by itself or a    *)
(* newer one of its key.  That the memtables and versions named here are   *)
(* there is There, from RefsOK.                                            *)
(*                                                                         *)
(* The invariant for what is found, ReadOK, says of the places a reader    *)
(* looks at, and of the current ones, that they are ordered by age (Aged)  *)
(* and lack nothing that a snapshot in use needs (Whole).                  *)
(***************************************************************************)
EXTENDS Engine, Lemmas, FiniteSetTheorems

Stages == {"none", "scheduled", "build", "logFlush", "work", "logMerge", "fail", "logMove", "finish"}
Levels == (SUBSET Nat) \X (SUBSET Nat)

\* What the background thread holds: the inputs and the output of a compaction,
\* the version and the number of a flush.
Compacting(b) ==
    b.at \in {"work", "logMerge", "fail", "logMove"} \/ (b.at \in {"build", "logFlush"} /\ b.ret = "work")
Input(b) == IF Compacting(b) THEN b.input ELSE None
Output(b) == IF Compacting(b) THEN b.out ELSE None
Base(b) == IF b.at = "build" THEN b.base ELSE None

IsWork(b) ==
    /\ b = [at |-> b.at, ret |-> b.ret, number |-> b.number, base |-> b.base, level |-> b.level,
            log |-> b.log, input |-> b.input, out |-> b.out, manual |-> b.manual, oldest |-> b.oldest]
    /\ b.at \in Stages /\ b.number \in Nat /\ b.base \in Nat /\ b.input \in Nat
    /\ b.out = None \/ b.out \in Nat
    /\ b.at \in {"build", "logFlush"} => b.ret \in {"finish", "work"}
    /\ b.at \in {"none", "scheduled"} => b.out = None
    /\ b.at = "logMerge" => b.out # None

IsGet(g) ==
    /\ g = [at |-> g.at, key |-> g.key, held |-> g.held, snapshot |-> g.snapshot, mem |-> g.mem,
            imm |-> g.imm, version |-> g.version]
    /\ g.at = "reading" => g.mem \in Nat /\ (g.imm = None \/ g.imm \in Nat) /\ g.version \in Nat

-----------------------------------------------------------------------------
(* The inductive invariant: each reference count counts who holds the      *)
(* thing, and each file of a version is there.                             *)

ControlOK ==
    /\ plan \in Plan /\ NextFile \in Nat
    /\ mem_ \in Nat /\ mem_ < NextFile
    /\ imm_ = None \/ (imm_ \in Nat /\ imm_ < mem_)
    /\ IsWork(bg) /\ (bg_compaction_scheduled_ <=> bg.at # "none")
    /\ bg.at \in {"build", "logFlush"} => imm_ # None

ReadersOK == DOMAIN get = Reader /\ \A r \in Reader : IsGet(get[r])

Count(refs, x) == IF x \in DOMAIN refs THEN refs[x] ELSE 0

MemReaders(m) == {r \in Reader : get[r].at = "reading" /\ (get[r].mem = m \/ get[r].imm = m)}
MemRefs(m) == Cardinality(MemReaders(m)) + (IF m = mem_ \/ m = imm_ THEN 1 ELSE 0)

MemoryOK ==
    /\ mrefs \in PartialFn(Nat, Nat) /\ DOMAIN table = DOMAIN mrefs
    /\ \A m \in DOMAIN mrefs : m < NextFile
    /\ \A m \in Nat : Count(mrefs, m) = MemRefs(m)

VersionReaders(v) == {r \in Reader : get[r].at = "reading" /\ get[r].version = v}
Holders(v) ==
    (IF v = current THEN 1 ELSE 0) + (IF v = Input(bg) THEN 1 ELSE 0) + (IF v = Base(bg) THEN 1 ELSE 0)
VersionRefs(v) == Cardinality(VersionReaders(v)) + Holders(v)

VersionsOK ==
    /\ vrefs \in PartialFn(Nat, Nat) /\ version \in PartialFn(Nat, Levels) /\ DOMAIN version = DOMAIN vrefs
    /\ Bounded(DOMAIN vrefs) /\ current \in Nat
    /\ \A v \in Nat : Count(vrefs, v) = VersionRefs(v)

FilesOK ==
    /\ DOMAIN file \subseteq Nat /\ pending_outputs_ \subseteq Nat
    /\ \A f \in DOMAIN file \cup pending_outputs_ : f < NextFile
    /\ \A v \in DOMAIN version : version[v][1] \cup version[v][2] \subseteq DOMAIN file
    /\ bg.at = "build" => bg.number < NextFile /\ bg.number # Output(bg)
    /\ Output(bg) # None =>
         Output(bg) \in pending_outputs_ /\ (bg.at # "fail" => Output(bg) \in DOMAIN file)

RefsOK == ControlOK /\ ReadersOK /\ MemoryOK /\ VersionsOK /\ FilesOK

-----------------------------------------------------------------------------
(* Counting.                                                               *)

\* Reference counts after a thing without references is gone.
LEMMA UsedFacts ==
    ASSUME NEW refs \in PartialFn(Nat, Nat), NEW f, DOMAIN f = DOMAIN refs
    PROVE  /\ Restrict(refs, Used(refs)) \in PartialFn(Nat, Nat)
           /\ DOMAIN Restrict(f, Used(refs)) = DOMAIN Restrict(refs, Used(refs))
           /\ DOMAIN Restrict(refs, Used(refs)) \subseteq DOMAIN refs
           /\ \A x \in Nat : Count(Restrict(refs, Used(refs)), x) = Count(refs, x)
           /\ \A x \in DOMAIN Restrict(f, Used(refs)) : Restrict(f, Used(refs))[x] = f[x]
<1>1. refs \in [DOMAIN refs -> Nat] /\ DOMAIN refs \in SUBSET Nat
  BY PartialFnElim
<1>2. Used(refs) \in SUBSET DOMAIN refs
  BY DEF Used
<1>3. Restrict(refs, Used(refs)) \in PartialFn(Nat, Nat)
  BY <1>2, Restricted
<1>4. /\ DOMAIN Restrict(refs, Used(refs)) = Used(refs) /\ DOMAIN Restrict(f, Used(refs)) = Used(refs)
      /\ \A x \in Used(refs) : Restrict(refs, Used(refs))[x] = refs[x]
      /\ \A x \in Used(refs) : Restrict(f, Used(refs))[x] = f[x]
  BY DEF Restrict
<1>5. \A x \in Nat : Count(Restrict(refs, Used(refs)), x) = Count(refs, x)
  BY <1>4 DEF Count, Used
<1> QED
  BY <1>2, <1>3, <1>4, <1>5

\* One reference more, and one less.
LEMMA RefFacts ==
    ASSUME NEW refs \in PartialFn(Nat, Nat), NEW v \in DOMAIN refs
    PROVE  /\ Ref(refs, v) \in PartialFn(Nat, Nat) /\ DOMAIN Ref(refs, v) = DOMAIN refs
           /\ \A x \in Nat : Count(Ref(refs, v), x) = Count(refs, x) + (IF x = v THEN 1 ELSE 0)
<1>1. refs \in [DOMAIN refs -> Nat] /\ DOMAIN refs \in SUBSET Nat
  BY PartialFnElim
<1>2. Ref(refs, v) \in [DOMAIN refs -> Nat]
  BY <1>1 DEF Ref
<1>3. Ref(refs, v) \in PartialFn(Nat, Nat)
  BY <1>1, <1>2, PartialFnIntro
<1>4. \A x \in Nat : Count(Ref(refs, v), x) = Count(refs, x) + (IF x = v THEN 1 ELSE 0)
  BY <1>1 DEF Count, Ref
<1> QED
  BY <1>2, <1>3, <1>4

\* One reference less.
LEMMA UnrefFacts ==
    ASSUME NEW refs \in PartialFn(Nat, Nat), NEW v \in Nat, Count(refs, v) > 0
    PROVE  /\ Unref(refs, v) \in PartialFn(Nat, Nat) /\ DOMAIN Unref(refs, v) = DOMAIN refs
           /\ \A x \in Nat : Count(Unref(refs, v), x) = Count(refs, x) - (IF x = v THEN 1 ELSE 0)
<1>1. refs \in [DOMAIN refs -> Nat] /\ DOMAIN refs \in SUBSET Nat /\ v \in DOMAIN refs /\ refs[v] > 0
  BY PartialFnElim DEF Count
<1>2. Unref(refs, v) \in [DOMAIN refs -> Nat]
  <2>1. refs[v] \in Nat /\ refs[v] - 1 \in Nat
    BY <1>1
  <2> QED
    BY <1>1, <2>1 DEF Unref
<1>3. Unref(refs, v) \in PartialFn(Nat, Nat)
  BY <1>1, <1>2, PartialFnIntro
<1>4. \A x \in Nat : Count(Unref(refs, v), x) = Count(refs, x) - (IF x = v THEN 1 ELSE 0)
  BY <1>1 DEF Count, Unref
<1> QED
  BY <1>2, <1>3, <1>4

\* How many readers there are to count.
LEMMA ReadersCount ==
    ASSUME EngineAssumption, NEW S, S \subseteq Reader
    PROVE  /\ Cardinality(S) \in Nat
           /\ \A r \in Reader : r \notin S => Cardinality(S \cup {r}) = Cardinality(S) + 1
           /\ \A r \in S : Cardinality(S \ {r}) = Cardinality(S) - 1 /\ Cardinality(S) > 0
<1>1. IsFiniteSet(S)
  <2>1. IsFiniteSet(Reader) /\ S \in SUBSET Reader
    BY DEF EngineAssumption
  <2> QED
    BY <2>1, FS_Subset
<1>2. Cardinality(S) \in Nat
  BY <1>1, FS_CardinalityType
<1>3. ASSUME NEW r \in Reader, r \notin S
      PROVE  Cardinality(S \cup {r}) = Cardinality(S) + 1
  BY <1>1, <1>3, FS_AddElement
<1>4. ASSUME NEW r \in S
      PROVE  Cardinality(S \ {r}) = Cardinality(S) - 1 /\ Cardinality(S) > 0
  <2>1. Cardinality(S \ {r}) = Cardinality(S) - 1
    BY <1>1, FS_RemoveElement
  <2>2. Cardinality(S) # 0
    BY <1>1, FS_EmptySet
  <2> QED
    BY <1>2, <2>1, <2>2
<1> QED
  BY <1>2, <1>3, <1>4

\* Readers that are counted as none.
LEMMA Unread ==
    ASSUME EngineAssumption, NEW S, S \subseteq Reader, Cardinality(S) = 0
    PROVE  \A r \in Reader : r \notin S
<1>1. \A r \in S : Cardinality(S) > 0
  BY ReadersCount
<1>2. \A r \in S : FALSE
  BY <1>1
<1> QED
  BY <1>2

\* A memtable that is not there is not held.
LEMMA NoMemTable ==
    ASSUME EngineAssumption, MemoryOK, NEW m \in Nat, m \notin DOMAIN mrefs
    PROVE  m # mem_ /\ m # imm_ /\ \A r \in Reader : r \notin MemReaders(m)
<1>1. PICK S : S = MemReaders(m)
  OBVIOUS
<1>2. S \subseteq Reader
  BY <1>1 DEF MemReaders
<1>3. Cardinality(S) \in Nat
  BY <1>2, ReadersCount
<1>4. Cardinality(S) + (IF m = mem_ \/ m = imm_ THEN 1 ELSE 0) = 0
  BY <1>1 DEF MemoryOK, Count, MemRefs
<1>5. Cardinality(S) = 0 /\ m # mem_ /\ m # imm_
  BY <1>3, <1>4
<1> QED
  BY <1>1, <1>2, <1>5, Unread

\* Nor is a version.
LEMMA NoVersion ==
    ASSUME EngineAssumption, VersionsOK, NEW v \in Nat, v \notin DOMAIN vrefs
    PROVE  /\ v # current /\ v # Input(bg) /\ v # Base(bg)
           /\ \A r \in Reader : r \notin VersionReaders(v)
<1>1. PICK S : S = VersionReaders(v)
  OBVIOUS
<1>2. S \subseteq Reader
  BY <1>1 DEF VersionReaders
<1>3. Cardinality(S) \in Nat
  BY <1>2, ReadersCount
<1>4. Cardinality(S) + Holders(v) = 0
  BY <1>1 DEF VersionsOK, Count, VersionRefs
<1>5. Cardinality(S) = 0 /\ v # current /\ v # Input(bg) /\ v # Base(bg)
  BY <1>3, <1>4 DEF Holders
<1> QED
  BY <1>1, <1>2, <1>5, Unread

\* The memtables after their references have changed.
LEMMA MemoryReset ==
    ASSUME NEW refs \in PartialFn(Nat, Nat), NEW tables, DOMAIN tables = DOMAIN refs,
           SetMemTables(tables, refs), \A m \in DOMAIN refs : m < NextFile',
           \A m \in Nat : Count(refs, m) = MemRefs(m)'
    PROVE  MemoryOK'
<1>1. /\ Restrict(refs, Used(refs)) \in PartialFn(Nat, Nat)
      /\ DOMAIN Restrict(tables, Used(refs)) = DOMAIN Restrict(refs, Used(refs))
      /\ DOMAIN Restrict(refs, Used(refs)) \subseteq DOMAIN refs
      /\ \A x \in Nat : Count(Restrict(refs, Used(refs)), x) = Count(refs, x)
  BY UsedFacts
<1> QED
  BY <1>1 DEF SetMemTables, MemoryOK, Count

\* The versions after their references have changed.
LEMMA VersionsSet ==
    ASSUME NEW refs \in PartialFn(Nat, Nat), NEW vs \in PartialFn(Nat, Levels),
           DOMAIN vs = DOMAIN refs, Bounded(DOMAIN refs), SetVersions(vs, refs), current' \in Nat,
           \A v \in Nat : Count(refs, v) = VersionRefs(v)'
    PROVE  VersionsOK'
<1>1. /\ Restrict(refs, Used(refs)) \in PartialFn(Nat, Nat)
      /\ DOMAIN Restrict(vs, Used(refs)) = DOMAIN Restrict(refs, Used(refs))
      /\ DOMAIN Restrict(refs, Used(refs)) \subseteq DOMAIN refs
      /\ \A x \in Nat : Count(Restrict(refs, Used(refs)), x) = Count(refs, x)
  BY UsedFacts
<1>2. Used(refs) \in SUBSET DOMAIN vs
  BY DEF Used
<1>3. Restrict(vs, Used(refs)) \in PartialFn(Nat, Levels)
  BY <1>2, Restricted
<1>4. DOMAIN refs \in SUBSET Nat
  BY PartialFnElim
<1>5. Bounded(DOMAIN Restrict(refs, Used(refs)))
  BY <1>1, <1>4, BoundedFacts
<1> QED
  BY <1>1, <1>3, <1>5 DEF SetVersions, VersionsOK, Count

\* And what is left of the versions.
LEMMA VersionsLeft ==
    ASSUME NEW refs, NEW vs, DOMAIN vs = DOMAIN refs, SetVersions(vs, refs)
    PROVE  \A v \in DOMAIN version' : v \in DOMAIN vs /\ version'[v] = vs[v]
BY DEF SetVersions, Restrict, Used

\* Files have numbers below the next one.
LEMMA FileNumbers ==
    ASSUME FilesOK, NextFile \in Nat
    PROVE  \A f \in DOMAIN file \cup pending_outputs_ : f \in Nat /\ f < NextFile /\ f < NextFile + 1
<1> TAKE f \in DOMAIN file \cup pending_outputs_
<1>1. f \in Nat
  BY DEF FilesOK
<1>2. f < NextFile
  BY DEF FilesOK
<1> QED
  BY <1>1, <1>2
-----------------------------------------------------------------------------
(* Steps that change no reference.                                         *)

\* An open database: one memtable, one version, nobody reads.
LEMMA RefsInit ==
    ASSUME EngineAssumption, Init
    PROVE  RefsOK
<1>1. ControlOK
  <2>1. bg = [Resting EXCEPT !.at = IF bg_compaction_scheduled_ THEN "scheduled" ELSE "none"]
    BY DEF Init
  <2>2. IsWork(bg) /\ (bg_compaction_scheduled_ <=> bg.at # "none") /\ bg.at \in {"none", "scheduled"}
    BY <2>1 DEF IsWork, Resting, Stages
  <2> QED
    BY <2>2 DEF Init, ControlOK
<1>2. ReadersOK
  BY DEF Init, ReadersOK, IsGet, NoGet
<1>3. MemReaders(1) = {} /\ \A m \in Nat : MemReaders(m) = {} /\ VersionReaders(m) = {}
  BY DEF Init, NoGet, MemReaders, VersionReaders
<1>4. Cardinality({}) = 0
  BY FS_EmptySet
<1>5. MemoryOK
  <2>1. mrefs = [m \in {1} |-> 1] /\ DOMAIN table = {1} /\ mem_ = 1 /\ imm_ = None /\ NextFile = 2
    BY DEF Init
  <2>2. mrefs \in [{1} -> Nat] /\ {1} \in SUBSET Nat
    BY <2>1
  <2>3. mrefs \in PartialFn(Nat, Nat) /\ DOMAIN mrefs = {1}
    BY <2>2, PartialFnIntro
  <2>4. \A m \in Nat : MemRefs(m) = IF m = 1 THEN 1 ELSE 0
    BY <1>3, <1>4, <2>1 DEF MemRefs, EngineAssumption
  <2> QED
    BY <2>1, <2>3, <2>4 DEF MemoryOK, Count
<1>6. VersionsOK
  <2>1. vrefs = [v \in {1} |-> 1] /\ current = 1
    BY DEF Init
  <2>2. vrefs \in [{1} -> Nat] /\ {1} \in SUBSET Nat
    BY <2>1
  <2>3. vrefs \in PartialFn(Nat, Nat) /\ DOMAIN vrefs = {1}
    BY <2>2, PartialFnIntro
  <2>4. version \in [{1} -> Levels]
    BY DEF Init, Levels
  <2>5. version \in PartialFn(Nat, Levels) /\ DOMAIN version = {1}
    BY <2>2, <2>4, PartialFnIntro
  <2>6. Bounded({1})
    BY DEF Bounded
  <2>7. Input(bg) = None /\ Base(bg) = None
    BY DEF Init, Resting, Input, Base, Compacting
  <2>8. \A v \in Nat : VersionRefs(v) = IF v = 1 THEN 1 ELSE 0
    BY <1>3, <1>4, <2>1, <2>7 DEF VersionRefs, Holders, EngineAssumption
  <2> QED
    BY <2>1, <2>3, <2>5, <2>6, <2>8 DEF VersionsOK, Count
<1>7. FilesOK
  BY DEF Init, FilesOK, Resting, Output, Compacting
<1> QED
  BY <1>1, <1>2, <1>5, <1>6, <1>7 DEF RefsOK

\* The references stay, and so do those who hold them.
LEMMA HeldSame ==
    ASSUME RefsOK, ControlOK', ReadersOK', NextFile <= NextFile',
           UNCHANGED <<mem_, imm_, mrefs, version, current, vrefs>>, DOMAIN table' = DOMAIN table,
           \A r \in Reader : get[r].at = "reading" => get'[r] = get[r],
           \A r \in Reader : get'[r].at = "reading" => get[r].at = "reading",
           Input(bg') = Input(bg), Base(bg') = Base(bg)
    PROVE  MemoryOK' /\ VersionsOK'
<1>1. \A m : MemReaders(m)' = MemReaders(m) /\ VersionReaders(m)' = VersionReaders(m)
  BY DEF MemReaders, VersionReaders
<1>2. \A m : MemRefs(m)' = MemRefs(m)
  BY <1>1 DEF MemRefs
<1>3. \A v : VersionRefs(v)' = VersionRefs(v)
  BY <1>1 DEF VersionRefs, Holders
<1>4. MemoryOK'
  <2>1. \A m \in DOMAIN mrefs : m \in Nat /\ m < NextFile
    BY PartialFnElim DEF RefsOK, MemoryOK
  <2>2. NextFile \in Nat /\ NextFile' \in Nat
    BY DEF RefsOK, ControlOK
  <2> QED
    BY <1>2, <2>1, <2>2 DEF RefsOK, MemoryOK
<1>5. VersionsOK'
  BY <1>3 DEF RefsOK, VersionsOK
<1> QED
  BY <1>4, <1>5

\* So do the files.
LEMMA FilesSame ==
    ASSUME RefsOK, ControlOK', UNCHANGED <<version, pending_outputs_>>, DOMAIN file' = DOMAIN file,
           NextFile' = NextFile, Output(bg') = Output(bg),
           bg'.at = "build" => bg.at = "build" /\ bg'.number = bg.number,
           bg'.at # "fail" => bg.at # "fail"
    PROVE  FilesOK'
BY DEF RefsOK, FilesOK

\* MaybeScheduleCompaction gives the background thread work or not.
LEMMA ScheduledOrNot ==
    ASSUME ControlOK, NEW e, NEW i, NEW m, NEW v, NEW c, NEW s,
           UNCHANGED bgVars \/ Schedules(e, i, m, v, c, s)
    PROVE  /\ IsWork(bg') /\ (bg_compaction_scheduled_' <=> bg'.at # "none")
           /\ Input(bg') = Input(bg) /\ Base(bg') = Base(bg) /\ Output(bg') = Output(bg)
           /\ bg'.at = bg.at \/ (bg.at = "none" /\ bg'.at = "scheduled")
           /\ bg'.at # "none" => bg' = bg \/ bg.at = "none"
<1>1. CASE UNCHANGED bgVars
  BY <1>1 DEF bgVars, ControlOK
<1>2. CASE bg' = bg /\ (bg_compaction_scheduled_' <=> bg_compaction_scheduled_)
  BY <1>2 DEF ControlOK
<1>3. CASE bg' = [bg EXCEPT !.at = "scheduled"] /\ bg.at = "none" /\ bg_compaction_scheduled_'
  BY <1>3 DEF ControlOK, IsWork, Stages, Input, Base, Output, Compacting
<1>4. Schedules(e, i, m, v, c, s) => \/ bg' = bg /\ (bg_compaction_scheduled_' <=> bg_compaction_scheduled_)
                                     \/ bg' = [bg EXCEPT !.at = "scheduled"] /\ bg.at = "none"
                                        /\ bg_compaction_scheduled_'
  BY DEF Schedules, MaybeScheduleCompaction, ControlOK
<1> QED
  BY <1>1, <1>2, <1>3, <1>4

refVars == <<mem_, imm_, mrefs, version, current, vrefs, pending_outputs_, file, NextFile, plan>>

\* A step of a writer, of a caller of CompactRange or of a reader that leaves all that.
LEMMA ThreadSame ==
    ASSUME RefsOK, UNCHANGED refVars, DOMAIN table' = DOMAIN table, ReadersOK',
           \A r \in Reader : get[r].at = "reading" => get'[r] = get[r],
           \A r \in Reader : get'[r].at = "reading" => get[r].at = "reading",
           NEW e, NEW i, NEW m, NEW v, NEW c, NEW s,
           UNCHANGED bgVars \/ Schedules(e, i, m, v, c, s)
    PROVE  RefsOK'
<1>1. ControlOK /\ ReadersOK
  BY DEF RefsOK
<1>2. /\ IsWork(bg') /\ (bg_compaction_scheduled_' <=> bg'.at # "none")
      /\ Input(bg') = Input(bg) /\ Base(bg') = Base(bg) /\ Output(bg') = Output(bg)
      /\ bg'.at = bg.at \/ (bg.at = "none" /\ bg'.at = "scheduled")
      /\ bg'.at # "none" => bg' = bg \/ bg.at = "none"
  BY <1>1, ScheduledOrNot
<1>3. ControlOK'
  BY <1>1, <1>2 DEF ControlOK, refVars
<1>4. NextFile <= NextFile'
  BY <1>1 DEF ControlOK, refVars
<1>5. UNCHANGED <<mem_, imm_, mrefs, version, current, vrefs>>
  BY DEF refVars
<1>6. MemoryOK' /\ VersionsOK'
  BY <1>2, <1>3, <1>4, <1>5, HeldSame
<1>7. UNCHANGED <<version, pending_outputs_>> /\ DOMAIN file' = DOMAIN file /\ NextFile' = NextFile
  BY DEF refVars
<1>8. FilesOK'
  BY <1>2, <1>3, <1>7, FilesSame
<1> QED
  BY <1>3, <1>6, <1>8 DEF RefsOK

-----------------------------------------------------------------------------
(* Writers, callers of CompactRange and readers.                           *)

\* A step that leaves the store and the readers as they are.
LEMMA StoreSame ==
    ASSUME RefsOK, UNCHANGED <<refVars, get>>, DOMAIN table' = DOMAIN table,
           NEW e, NEW i, NEW m, NEW v, NEW c, NEW s,
           UNCHANGED bgVars \/ Schedules(e, i, m, v, c, s)
    PROVE  RefsOK'
<1>1. ReadersOK'
  BY DEF RefsOK, ReadersOK
<1> QED
  BY <1>1, ThreadSame DEF refVars

\* DBImpl::Write, MakeRoomForWrite without a new memtable, TEST_CompactRange.
LEMMA WriterRefs ==
    ASSUME RefsOK, NEW t \in Thread,
           \/ Put(t) \/ CompactRange(t) \/ Woken(t) \/ RoomError(t) \/ RoomDelay(t) \/ RoomFound(t)
           \/ RoomWait(t) \/ Commit(t) \/ WaitImm(t) \/ CompactLevel(t) \/ Close \/ UNCHANGED vars
    PROVE  RefsOK'
<1>1. CASE Put(t) \/ CompactRange(t)
  <2>1. UNCHANGED <<refVars, get, table, bgVars>>
    BY <1>1 DEF Put, CompactRange, Write, storeVars, memVars, versionVars, fileVars, quietVars,
       errorVars, readVars, refVars
  <2> QED
    BY <2>1, StoreSame
<1>2. CASE Woken(t) \/ RoomError(t) \/ RoomDelay(t) \/ RoomFound(t)
  <2>1. UNCHANGED <<refVars, get, table, bgVars>>
    BY <1>2 DEF Woken, RoomError, RoomDelay, RoomFound, storeVars, memVars, versionVars, fileVars,
       quietVars, errorVars, readVars, refVars
  <2> QED
    BY <2>1, StoreSame
<1>3. CASE RoomWait(t) \/ Commit(t) \/ WaitImm(t) \/ Close
  <2>1. UNCHANGED <<refVars, get, table, bgVars>>
    BY <1>3 DEF RoomWait, Commit, WaitImm, Close, storeVars, memVars, versionVars, fileVars, quietVars,
       errorVars, readVars, refVars
  <2> QED
    BY <2>1, StoreSame
<1>4. CASE CompactLevel(t)
  <2>1. UNCHANGED <<refVars, get, table>>
    BY <1>4 DEF CompactLevel, storeVars, memVars, versionVars, fileVars, errorVars, readVars, refVars
  <2>2. UNCHANGED bgVars \/ Schedules(bg_error_, imm_, t, version, current, seekCompaction)
    BY <1>4 DEF CompactLevel
  <2> QED
    BY <2>1, <2>2, StoreSame
<1>5. CASE UNCHANGED vars
  <2>1. UNCHANGED <<refVars, get, table, bgVars>>
    BY <1>5 DEF vars, refVars, bgVars
  <2> QED
    BY <2>1, StoreSame
<1> QED
  BY <1>1, <1>2, <1>3, <1>4, <1>5

\* The log is written, and entries are put into mem_.
LEMMA LogRefs ==
    ASSUME RefsOK, NEW t \in Thread, NEW bad, AddRecord(t, bad) \/ Sync(t, bad) \/ Insert(t)
    PROVE  RefsOK'
<1>1. UNCHANGED <<refVars, get, bgVars>>
  BY DEF AddRecord, Sync, Insert, memVars, versionVars, fileVars, quietVars, errorVars, readVars, refVars
<1>2. DOMAIN table' = DOMAIN table
  BY DEF AddRecord, Sync, Insert, memVars
<1> QED
  BY <1>1, <1>2, StoreSame

\* A new memtable: mem_ becomes imm_ and keeps its reference.
LEMMA RoomSwitchRefs ==
    ASSUME EngineAssumption, RefsOK, NEW t \in Thread, NEW bad, RoomSwitch(t, bad)
    PROVE  RefsOK'
<1>1. CASE bad
  <2>1. UNCHANGED <<refVars, get, table, bgVars>>
    BY <1>1 DEF RoomSwitch, memVars, versionVars, fileVars, errorVars, readVars, refVars
  <2> QED
    BY <2>1, StoreSame
<1>2. CASE ~bad
  <2>1. /\ NextFile' = NextFile + 1 /\ imm_' = mem_ /\ mem_' = NextFile
        /\ table' = With(table, NextFile, {}) /\ mrefs' = With(mrefs, NextFile, 1)
        /\ Schedules(FALSE, mem_, manual_compaction_, version, current, seekCompaction)
        /\ UNCHANGED <<version, current, vrefs, file, pending_outputs_, get, plan>>
    BY <1>2 DEF RoomSwitch, versionVars, fileVars, errorVars, readVars
  <2>2. imm_ = None
    BY DEF RoomSwitch, MustWait
  <2>3. ControlOK /\ ReadersOK /\ MemoryOK /\ VersionsOK /\ FilesOK
    BY DEF RefsOK
  <2>4. /\ IsWork(bg') /\ (bg_compaction_scheduled_' <=> bg'.at # "none")
        /\ Input(bg') = Input(bg) /\ Base(bg') = Base(bg) /\ Output(bg') = Output(bg)
        /\ bg'.at = bg.at \/ (bg.at = "none" /\ bg'.at = "scheduled")
        /\ bg'.at # "none" => bg' = bg \/ bg.at = "none"
    BY <2>1, <2>3, ScheduledOrNot
  <2>5. /\ NextFile \in Nat /\ mem_ \in Nat /\ mem_ < NextFile
        /\ mrefs \in PartialFn(Nat, Nat) /\ DOMAIN table = DOMAIN mrefs
        /\ \A m \in DOMAIN mrefs : m < NextFile
        /\ \A m \in Nat : Count(mrefs, m) = MemRefs(m)
    BY <2>3 DEF ControlOK, MemoryOK
  <2>6. ControlOK'
    BY <2>1, <2>3, <2>4, <2>5 DEF ControlOK
  <2>7. ReadersOK'
    BY <2>1, <2>3 DEF ReadersOK
  <2>8. \A m : MemReaders(m)' = MemReaders(m) /\ VersionReaders(m)' = VersionReaders(m)
    BY <2>1 DEF MemReaders, VersionReaders
  <2>9. DOMAIN mrefs \subseteq Nat
    BY <2>5, PartialFnElim
  <2>10. NextFile \notin DOMAIN mrefs /\ Cardinality(MemReaders(NextFile)) = 0
    <3>1. NextFile \notin DOMAIN mrefs
      BY <2>5, <2>9
    <3>2. \A r \in Reader : r \notin MemReaders(NextFile)
      BY <2>3, <2>5, <3>1, NoMemTable
    <3>3. MemReaders(NextFile) = {}
      BY <3>2 DEF MemReaders
    <3> QED
      BY <3>1, <3>3, FS_EmptySet
  <2>11. MemoryOK'
    <3>1. With(mrefs, NextFile, 1) \in PartialFn(Nat, Nat)
      BY <2>5, WithFacts
    <3>2. DOMAIN table' = DOMAIN table \cup {NextFile} /\ DOMAIN mrefs' = DOMAIN mrefs \cup {NextFile}
          /\ mrefs'[NextFile] = 1 /\ \A m \in DOMAIN mrefs : m # NextFile => mrefs'[m] = mrefs[m]
      BY <2>1 DEF With
    <3>3. \A m \in DOMAIN mrefs' : m < NextFile'
      BY <2>1, <2>5, <2>9, <3>2
    <3>4. ASSUME NEW m \in Nat
          PROVE  Count(mrefs', m) = MemRefs(m)'
      <4>1. MemRefs(m)' = Cardinality(MemReaders(m)) + (IF m = NextFile \/ m = mem_ THEN 1 ELSE 0)
        BY <2>1, <2>8 DEF MemRefs
      <4>2. CASE m = NextFile
        BY <2>10, <3>2, <4>1, <4>2 DEF Count
      <4>3. CASE m # NextFile
        <5>1. MemRefs(m) = Cardinality(MemReaders(m)) + (IF m = mem_ THEN 1 ELSE 0)
          BY <2>2 DEF MemRefs, EngineAssumption
        <5>2. Count(mrefs', m) = Count(mrefs, m)
          BY <3>2, <4>3 DEF Count
        <5> QED
          BY <2>5, <4>1, <4>3, <5>1, <5>2
      <4> QED
        BY <4>2, <4>3
    <3> QED
      BY <2>1, <2>5, <3>1, <3>2, <3>3, <3>4 DEF MemoryOK
  <2>12. VersionsOK'
    <3>1. \A v : VersionRefs(v)' = VersionRefs(v)
      BY <2>1, <2>4, <2>8 DEF VersionRefs, Holders
    <3> QED
      BY <2>1, <2>3, <3>1 DEF VersionsOK
  <2>13. FilesOK'
    <3>1. \A f \in DOMAIN file \cup pending_outputs_ : f \in Nat /\ f < NextFile + 1
      BY <2>3, <2>5, FileNumbers
    <3>2. bg'.at = "build" => bg' = bg /\ bg.number < NextFile /\ bg.number # Output(bg) /\ bg.number \in Nat
      BY <2>3, <2>4 DEF FilesOK, ControlOK, IsWork
    <3>3. bg'.at = "build" => bg'.number < NextFile + 1
      BY <2>5, <3>2
    <3> QED
      BY <2>1, <2>3, <2>4, <3>1, <3>2, <3>3 DEF FilesOK
  <2> QED
    BY <2>6, <2>7, <2>11, <2>12, <2>13 DEF RefsOK
<1> QED
  BY <1>1, <1>2

\* GetSnapshot and ReleaseSnapshot.
LEMMA SnapshotRefs ==
    ASSUME RefsOK, NEW r \in Reader, GetSnapshot(r) \/ ReleaseSnapshot(r)
    PROVE  RefsOK'
<1>1. ReadersOK
  BY DEF RefsOK
<1>2. /\ get[r].at = "idle" /\ UNCHANGED <<refVars, table, bgVars>>
      /\ get' = [get EXCEPT ![r].held = LastSequence] \/ get' = [get EXCEPT ![r] = NoGet]
  BY DEF GetSnapshot, ReleaseSnapshot, storeVars, memVars, versionVars, fileVars, errorVars, refVars
<1>3. /\ DOMAIN get' = Reader /\ \A x \in Reader : x # r => get'[x] = get[x]
      /\ IsGet(get'[r]) /\ get'[r].at = "idle"
  BY <1>1, <1>2 DEF ReadersOK, IsGet, NoGet
<1>4. ReadersOK'
  BY <1>1, <1>3 DEF ReadersOK
<1>5. \A x \in Reader : (get[x].at = "reading" \/ get'[x].at = "reading") => get'[x] = get[x]
  BY <1>2, <1>3
<1> QED
  BY <1>2, <1>4, <1>5, ThreadSame


\* Get takes references on the memtables and the version it will read.
LEMMA GetRefs ==
    ASSUME EngineAssumption, RefsOK, NEW r \in Reader, NEW key, Get(r, key)
    PROVE  RefsOK'
<1>1. ControlOK /\ ReadersOK /\ MemoryOK /\ VersionsOK /\ FilesOK
  BY DEF RefsOK
<1>2. /\ get[r].at = "idle"
      /\ UNCHANGED <<mem_, imm_, table, version, current, file, pending_outputs_, NextFile, bgVars, plan>>
      /\ mrefs' = [m \in DOMAIN mrefs |-> mrefs[m] + (IF m \in {mem_, imm_} THEN 1 ELSE 0)]
      /\ vrefs' = Ref(vrefs, current)
  BY DEF Get, fileVars, errorVars
<1>a. PICK g : g = [at |-> "reading", key |-> key, held |-> get[r].held,
                    snapshot |-> IF get[r].held # None THEN get[r].held ELSE LastSequence,
                    mem |-> mem_, imm |-> imm_, version |-> current]
  OBVIOUS
<1>3. /\ get' = [get EXCEPT ![r] = g] /\ g.at = "reading" /\ g.mem = mem_ /\ g.imm = imm_
      /\ g.version = current
      /\ g = [at |-> g.at, key |-> g.key, held |-> g.held, snapshot |-> g.snapshot,
              mem |-> g.mem, imm |-> g.imm, version |-> g.version]
  BY <1>a DEF Get
<1>4. mem_ \in Nat /\ (imm_ = None \/ imm_ \in Nat) /\ current \in Nat
  BY <1>1 DEF ControlOK, VersionsOK
<1>5. DOMAIN get' = Reader /\ get'[r] = g /\ (\A x \in Reader : x # r => get'[x] = get[x]) /\ IsGet(g)
  BY <1>1, <1>3, <1>4 DEF ReadersOK, IsGet
<1>6. ControlOK' /\ ReadersOK'
  BY <1>1, <1>2, <1>5 DEF ControlOK, ReadersOK, bgVars
<1>7. ASSUME NEW m \in Nat
      PROVE  Cardinality(MemReaders(m)') =
               Cardinality(MemReaders(m)) + (IF m = mem_ \/ m = imm_ THEN 1 ELSE 0)
  <2>1. PICK S : S = MemReaders(m)
    OBVIOUS
  <2>2. S \subseteq Reader /\ r \notin S
    BY <1>2, <2>1 DEF MemReaders
  <2>3. Cardinality(S) \in Nat /\ Cardinality(S \cup {r}) = Cardinality(S) + 1
    BY <2>2, ReadersCount
  <2>4. CASE m = mem_ \/ m = imm_
    <3>1. MemReaders(m)' = S \cup {r}
      BY <1>2, <1>3, <1>5, <2>1, <2>4 DEF MemReaders
    <3> QED
      BY <2>1, <2>3, <2>4, <3>1
  <2>5. CASE ~(m = mem_ \/ m = imm_)
    <3>1. MemReaders(m)' = S
      BY <1>2, <1>3, <1>5, <2>1, <2>5 DEF MemReaders
    <3> QED
      BY <2>1, <2>3, <2>5, <3>1
  <2> QED
    BY <2>4, <2>5
<1>8. ASSUME NEW v \in Nat
      PROVE  Cardinality(VersionReaders(v)') =
               Cardinality(VersionReaders(v)) + (IF v = current THEN 1 ELSE 0)
  <2>1. PICK S : S = VersionReaders(v)
    OBVIOUS
  <2>2. S \subseteq Reader /\ r \notin S
    BY <1>2, <2>1 DEF VersionReaders
  <2>3. Cardinality(S) \in Nat /\ Cardinality(S \cup {r}) = Cardinality(S) + 1
    BY <2>2, ReadersCount
  <2>4. CASE v = current
    <3>1. VersionReaders(v)' = S \cup {r}
      BY <1>2, <1>3, <1>5, <2>1, <2>4 DEF VersionReaders
    <3> QED
      BY <2>1, <2>3, <2>4, <3>1
  <2>5. CASE v # current
    <3>1. VersionReaders(v)' = S
      BY <1>2, <1>3, <1>5, <2>1, <2>5 DEF VersionReaders
    <3> QED
      BY <2>1, <2>3, <2>5, <3>1
  <2> QED
    BY <2>4, <2>5
<1>9. MemoryOK'
  <2>1. mrefs \in [DOMAIN mrefs -> Nat] /\ DOMAIN mrefs \in SUBSET Nat
    BY <1>1, PartialFnElim DEF MemoryOK
  <2>2. mrefs' \in [DOMAIN mrefs -> Nat]
    BY <1>2, <2>1
  <2>3. mrefs' \in PartialFn(Nat, Nat) /\ DOMAIN mrefs' = DOMAIN mrefs
    BY <2>1, <2>2, PartialFnIntro
  <2>4. ASSUME NEW m \in Nat
        PROVE  Count(mrefs', m) = MemRefs(m)'
    <3>1. MemReaders(m) \subseteq Reader
      BY DEF MemReaders
    <3>2. Cardinality(MemReaders(m)) \in Nat
      BY <3>1, ReadersCount
    <3>3. MemRefs(m)' = MemRefs(m) + (IF m = mem_ \/ m = imm_ THEN 1 ELSE 0)
      BY <1>2, <1>7, <3>2 DEF MemRefs
    <3>4. m \in DOMAIN mrefs => mrefs[m] \in Nat /\ mrefs[m] = MemRefs(m)
      BY <1>1, <2>1 DEF MemoryOK, Count
    <3>5. m \in DOMAIN mrefs => mrefs'[m] = mrefs[m] + (IF m = mem_ \/ m = imm_ THEN 1 ELSE 0)
      BY <1>2
    <3>6. CASE m \in DOMAIN mrefs
      BY <2>3, <3>3, <3>4, <3>5, <3>6 DEF Count
    <3>7. CASE m \notin DOMAIN mrefs
      <4>1. m # mem_ /\ m # imm_
        BY <1>1, <3>7, NoMemTable
      <4>2. MemRefs(m) = 0
        BY <1>1, <3>7 DEF MemoryOK, Count
      <4> QED
        BY <2>3, <3>3, <3>7, <4>1, <4>2 DEF Count
    <3> QED
      BY <3>6, <3>7
  <2> QED
    BY <1>1, <1>2, <2>3, <2>4 DEF MemoryOK
<1>10. VersionsOK'
  <2>1. current \in DOMAIN vrefs
    BY <1>1, <1>4, NoVersion
  <2>2. vrefs \in PartialFn(Nat, Nat) /\ DOMAIN version = DOMAIN vrefs
    BY <1>1 DEF VersionsOK
  <2>3. vrefs' \in PartialFn(Nat, Nat) /\ DOMAIN vrefs' = DOMAIN vrefs
        /\ \A v \in Nat : Count(vrefs', v) = Count(vrefs, v) + (IF v = current THEN 1 ELSE 0)
    BY <1>2, <2>1, <2>2, RefFacts
  <2>4. ASSUME NEW v \in Nat
        PROVE  Count(vrefs', v) = VersionRefs(v)'
    <3>1. VersionReaders(v) \subseteq Reader
      BY DEF VersionReaders
    <3>2. Cardinality(VersionReaders(v)) \in Nat /\ Holders(v) \in Nat
      BY <3>1, ReadersCount DEF Holders
    <3>3. Holders(v)' = Holders(v)
      BY <1>2 DEF Holders, bgVars
    <3>4. VersionRefs(v)' = VersionRefs(v) + (IF v = current THEN 1 ELSE 0)
      BY <1>8, <3>2, <3>3 DEF VersionRefs
    <3> QED
      BY <1>1, <2>3, <3>4 DEF VersionsOK
  <2> QED
    BY <1>1, <1>2, <2>3, <2>4 DEF VersionsOK
<1>11. FilesOK'
  BY <1>1, <1>2 DEF FilesOK, bgVars
<1> QED
  BY <1>6, <1>9, <1>10, <1>11 DEF RefsOK

\* GetDone gives them back.
LEMMA GetDoneRefs ==
    ASSUME EngineAssumption, RefsOK, NEW r \in Reader, NEW seek, GetDone(r, seek)
    PROVE  RefsOK'
<1>1. ControlOK /\ ReadersOK /\ MemoryOK /\ VersionsOK /\ FilesOK
  BY DEF RefsOK
<1>a. PICK g : g = get[r]
  OBVIOUS
<1>b. PICK s : s = (IF seek THEN seekCompaction \cup {g.version} ELSE seekCompaction)
  OBVIOUS
<1>c. PICK held : held = {g.mem, g.imm}
  OBVIOUS
<1>d. PICK refs : refs = [m \in DOMAIN mrefs |-> mrefs[m] - (IF m \in held THEN 1 ELSE 0)]
  OBVIOUS
<1>2. /\ g = get[r] /\ s = (IF seek THEN seekCompaction \cup {g.version} ELSE seekCompaction)
      /\ held = {g.mem, g.imm}
      /\ refs = [m \in DOMAIN mrefs |-> mrefs[m] - (IF m \in held THEN 1 ELSE 0)]
  BY <1>a, <1>b, <1>c, <1>d
<1>3. /\ g.at = "reading"
      /\ UNCHANGED <<mem_, imm_, current, file, pending_outputs_, NextFile, plan>>
      /\ UNCHANGED bgVars \/ Schedules(bg_error_, imm_, manual_compaction_, version, current, s)
      /\ SetMemTables(table, refs) /\ SetVersions(version, Unref(vrefs, g.version))
      /\ get' = [get EXCEPT ![r] = [NoGet EXCEPT !.held = g.held]]
  BY <1>2 DEF GetDone, fileVars, errorVars
<1>4. /\ IsWork(bg') /\ (bg_compaction_scheduled_' <=> bg'.at # "none")
      /\ Input(bg') = Input(bg) /\ Base(bg') = Base(bg) /\ Output(bg') = Output(bg)
      /\ bg'.at = bg.at \/ (bg.at = "none" /\ bg'.at = "scheduled")
      /\ bg'.at # "none" => bg' = bg \/ bg.at = "none"
  BY <1>1, <1>3, ScheduledOrNot
<1>5. IsGet(g) /\ g.mem \in Nat /\ (g.imm = None \/ g.imm \in Nat) /\ g.version \in Nat
  BY <1>1, <1>2, <1>3 DEF ReadersOK, IsGet
<1>6. DOMAIN get' = Reader /\ get'[r].at = "idle" /\ (\A x \in Reader : x # r => get'[x] = get[x])
      /\ IsGet(get'[r])
  BY <1>1, <1>3 DEF ReadersOK, IsGet, NoGet
<1>7. ControlOK' /\ ReadersOK'
  BY <1>1, <1>3, <1>4, <1>6 DEF ControlOK, ReadersOK
<1>8. ASSUME NEW m \in Nat
      PROVE  /\ Cardinality(MemReaders(m)') =
                  Cardinality(MemReaders(m)) - (IF m \in held THEN 1 ELSE 0)
             /\ m \in held => Cardinality(MemReaders(m)) > 0
  <2>1. PICK S : S = MemReaders(m)
    OBVIOUS
  <2>2. S \subseteq Reader /\ (r \in S <=> m \in held)
    BY <1>2, <1>3, <2>1 DEF MemReaders
  <2>3. Cardinality(S) \in Nat
        /\ (r \in S => Cardinality(S \ {r}) = Cardinality(S) - 1 /\ Cardinality(S) > 0)
    BY <2>2, ReadersCount
  <2>4. CASE m \in held
    <3>1. MemReaders(m)' = S \ {r}
      BY <1>6, <2>1, <2>4 DEF MemReaders
    <3> QED
      BY <2>1, <2>2, <2>3, <2>4, <3>1
  <2>5. CASE m \notin held
    <3>1. MemReaders(m)' = S
      BY <1>6, <2>1, <2>2, <2>5 DEF MemReaders
    <3> QED
      BY <2>1, <2>3, <2>5, <3>1
  <2> QED
    BY <2>4, <2>5
<1>9. ASSUME NEW v \in Nat
      PROVE  /\ Cardinality(VersionReaders(v)') =
                  Cardinality(VersionReaders(v)) - (IF v = g.version THEN 1 ELSE 0)
             /\ v = g.version => Cardinality(VersionReaders(v)) > 0
  <2>1. PICK S : S = VersionReaders(v)
    OBVIOUS
  <2>2. S \subseteq Reader /\ (r \in S <=> v = g.version)
    BY <1>2, <1>3, <2>1 DEF VersionReaders
  <2>3. Cardinality(S) \in Nat
        /\ (r \in S => Cardinality(S \ {r}) = Cardinality(S) - 1 /\ Cardinality(S) > 0)
    BY <2>2, ReadersCount
  <2>4. CASE v = g.version
    <3>1. VersionReaders(v)' = S \ {r}
      BY <1>6, <2>1, <2>4 DEF VersionReaders
    <3> QED
      BY <2>1, <2>2, <2>3, <2>4, <3>1
  <2>5. CASE v # g.version
    <3>1. VersionReaders(v)' = S
      BY <1>6, <2>1, <2>2, <2>5 DEF VersionReaders
    <3> QED
      BY <2>1, <2>3, <2>5, <3>1
  <2> QED
    BY <2>4, <2>5
<1>10. MemoryOK'
  <2>1. mrefs \in [DOMAIN mrefs -> Nat] /\ DOMAIN mrefs \in SUBSET Nat
    BY <1>1, PartialFnElim DEF MemoryOK
  <2>2. ASSUME NEW m \in Nat
        PROVE  /\ MemRefs(m)' = MemRefs(m) - (IF m \in held THEN 1 ELSE 0)
               /\ MemRefs(m) \in Nat /\ MemRefs(m)' \in Nat
               /\ m \in held => MemRefs(m) > 0
    <3>1. MemReaders(m) \subseteq Reader
      BY DEF MemReaders
    <3>2. Cardinality(MemReaders(m)) \in Nat
      BY <3>1, ReadersCount
    <3> QED
      BY <1>3, <1>8, <3>2 DEF MemRefs
  <2>3. ASSUME NEW m \in DOMAIN mrefs
        PROVE  mrefs[m] = MemRefs(m) /\ refs[m] = MemRefs(m)' /\ refs[m] \in Nat
    <3>1. m \in Nat /\ mrefs[m] = MemRefs(m)
      BY <1>1, <2>1 DEF MemoryOK, Count
    <3> QED
      BY <1>2, <2>2, <3>1
  <2>4. refs \in [DOMAIN mrefs -> Nat]
    BY <1>2, <2>3
  <2>5. refs \in PartialFn(Nat, Nat) /\ DOMAIN refs = DOMAIN mrefs
    BY <2>1, <2>4, PartialFnIntro
  <2>6. ASSUME NEW m \in Nat
        PROVE  Count(refs, m) = MemRefs(m)'
    <3>1. m \notin DOMAIN mrefs => MemRefs(m) = 0
      BY <1>1 DEF MemoryOK, Count
    <3> QED
      BY <2>2, <2>3, <2>5, <3>1 DEF Count
  <2>7. DOMAIN table = DOMAIN refs /\ \A m \in DOMAIN refs : m < NextFile'
    BY <1>1, <1>3, <2>5 DEF MemoryOK
  <2> QED
    BY <1>3, <2>5, <2>6, <2>7, MemoryReset
<1>11. VersionsOK'
  <2>1. vrefs \in PartialFn(Nat, Nat) /\ version \in PartialFn(Nat, Levels) /\ DOMAIN version = DOMAIN vrefs
        /\ Bounded(DOMAIN vrefs) /\ current \in Nat
    BY <1>1 DEF VersionsOK
  <2>2. ASSUME NEW v \in Nat
        PROVE  /\ VersionRefs(v)' = VersionRefs(v) - (IF v = g.version THEN 1 ELSE 0)
               /\ v = g.version => VersionRefs(v) > 0
    <3>1. VersionReaders(v) \subseteq Reader
      BY DEF VersionReaders
    <3>2. Cardinality(VersionReaders(v)) \in Nat /\ Holders(v) \in Nat
      BY <3>1, ReadersCount DEF Holders
    <3>3. Holders(v)' = Holders(v)
      BY <1>3, <1>4 DEF Holders
    <3> QED
      BY <1>9, <3>2, <3>3 DEF VersionRefs
  <2>3. Count(vrefs, g.version) > 0
    BY <1>1, <1>5, <2>2 DEF VersionsOK
  <2>4. PICK n : n = g.version
    OBVIOUS
  <2>5. PICK u : u = Unref(vrefs, n)
    OBVIOUS
  <2>6. n \in Nat /\ Count(vrefs, n) > 0
    BY <1>5, <2>3, <2>4
  <2>7. u \in PartialFn(Nat, Nat) /\ DOMAIN u = DOMAIN vrefs
        /\ \A v \in Nat : Count(u, v) = Count(vrefs, v) - (IF v = n THEN 1 ELSE 0)
    BY <2>1, <2>5, <2>6, UnrefFacts
  <2>8. \A v \in Nat : Count(u, v) = VersionRefs(v)'
    BY <1>1, <2>2, <2>4, <2>7 DEF VersionsOK
  <2>9. SetVersions(version, u) /\ current' \in Nat /\ DOMAIN version = DOMAIN u /\ Bounded(DOMAIN u)
    BY <1>3, <2>1, <2>4, <2>5, <2>7
  <2> QED
    BY <2>1, <2>7, <2>8, <2>9, VersionsSet
<1>12. FilesOK'
  <2>1. DOMAIN version = DOMAIN vrefs
    BY <1>1 DEF VersionsOK
  <2>2. PICK u : u = Unref(vrefs, g.version)
    OBVIOUS
  <2>3. DOMAIN u = DOMAIN version /\ SetVersions(version, u)
    BY <1>3, <2>1, <2>2 DEF Unref
  <2>4. \A v \in DOMAIN version' : v \in DOMAIN version /\ version'[v] = version[v]
    BY <2>3, VersionsLeft
  <2>5. bg'.at = "build" => bg' = bg
    BY <1>4
  <2> QED
    BY <1>1, <1>3, <1>4, <2>4, <2>5 DEF FilesOK
<1> QED
  BY <1>7, <1>10, <1>11, <1>12 DEF RefsOK

-----------------------------------------------------------------------------
(* The background thread.                                                  *)

\* The memtables stay.
LEMMA MemorySame ==
    ASSUME RefsOK, ControlOK', NextFile <= NextFile', UNCHANGED <<mem_, imm_, mrefs, get>>,
           DOMAIN table' = DOMAIN table
    PROVE  MemoryOK'
<1>1. \A m : MemReaders(m)' = MemReaders(m)
  BY DEF MemReaders
<1>2. \A m : MemRefs(m)' = MemRefs(m)
  BY <1>1 DEF MemRefs
<1>3. \A m \in DOMAIN mrefs : m \in Nat /\ m < NextFile
  BY PartialFnElim DEF RefsOK, MemoryOK
<1>4. NextFile \in Nat /\ NextFile' \in Nat
  BY DEF RefsOK, ControlOK
<1> QED
  BY <1>2, <1>3, <1>4 DEF RefsOK, MemoryOK

\* Counts of readers and holders are numbers.
LEMMA VersionNumbers ==
    ASSUME EngineAssumption, NEW v \in Nat
    PROVE  Cardinality(VersionReaders(v)) \in Nat /\ Holders(v) \in 0..3
<1>1. VersionReaders(v) \subseteq Reader
  BY DEF VersionReaders
<1>2. Cardinality(VersionReaders(v)) \in Nat
  BY <1>1, ReadersCount
<1> QED
  BY <1>2 DEF Holders

\* One more holder of the current version.
LEMMA VersionsRef ==
    ASSUME EngineAssumption, VersionsOK, UNCHANGED <<get, version, current>>, vrefs' = Ref(vrefs, current),
           \A v \in Nat : Holders(v)' = Holders(v) + (IF v = current THEN 1 ELSE 0)
    PROVE  VersionsOK'
<1>1. vrefs \in PartialFn(Nat, Nat) /\ DOMAIN version = DOMAIN vrefs /\ current \in Nat
  BY DEF VersionsOK
<1>2. current \in DOMAIN vrefs
  BY <1>1, NoVersion
<1>3. vrefs' \in PartialFn(Nat, Nat) /\ DOMAIN vrefs' = DOMAIN vrefs
      /\ \A v \in Nat : Count(vrefs', v) = Count(vrefs, v) + (IF v = current THEN 1 ELSE 0)
  BY <1>1, <1>2, RefFacts
<1>4. \A v : VersionReaders(v)' = VersionReaders(v)
  BY DEF VersionReaders
<1>5. ASSUME NEW v \in Nat
      PROVE  Count(vrefs', v) = VersionRefs(v)'
  <2>1. Cardinality(VersionReaders(v)) \in Nat /\ Holders(v) \in Nat
    BY VersionNumbers
  <2>2. VersionRefs(v)' = VersionRefs(v) + (IF v = current THEN 1 ELSE 0)
    BY <1>4, <2>1 DEF VersionRefs
  <2> QED
    BY <1>3, <2>2 DEF VersionsOK
<1> QED
  BY <1>3, <1>5 DEF VersionsOK

\* One holder less of some version.
LEMMA VersionsUnref ==
    ASSUME EngineAssumption, VersionsOK, UNCHANGED <<get, current>>, NEW n \in Nat,
           SetVersions(version, Unref(vrefs, n)), Holders(n) > 0,
           \A v \in Nat : Holders(v)' = Holders(v) - (IF v = n THEN 1 ELSE 0)
    PROVE  VersionsOK'
<1>1. vrefs \in PartialFn(Nat, Nat) /\ version \in PartialFn(Nat, Levels) /\ DOMAIN version = DOMAIN vrefs
      /\ Bounded(DOMAIN vrefs) /\ current \in Nat
  BY DEF VersionsOK
<1>2. Count(vrefs, n) > 0
  <2>1. Cardinality(VersionReaders(n)) \in Nat /\ Holders(n) \in Nat
    BY VersionNumbers
  <2> QED
    BY <2>1 DEF VersionsOK, VersionRefs
<1>3. PICK u : u = Unref(vrefs, n)
  OBVIOUS
<1>4. u \in PartialFn(Nat, Nat) /\ DOMAIN u = DOMAIN vrefs
      /\ \A v \in Nat : Count(u, v) = Count(vrefs, v) - (IF v = n THEN 1 ELSE 0)
  BY <1>1, <1>2, <1>3, UnrefFacts
<1>5. \A v : VersionReaders(v)' = VersionReaders(v)
  BY DEF VersionReaders
<1>6. ASSUME NEW v \in Nat
      PROVE  Count(u, v) = VersionRefs(v)'
  <2>1. Cardinality(VersionReaders(v)) \in Nat /\ Holders(v) \in Nat
    BY VersionNumbers
  <2>2. VersionRefs(v)' = VersionRefs(v) - (IF v = n THEN 1 ELSE 0)
    BY <1>5, <2>1 DEF VersionRefs
  <2> QED
    BY <1>4, <2>2 DEF VersionsOK
<1>7. SetVersions(version, u) /\ current' \in Nat /\ DOMAIN version = DOMAIN u /\ Bounded(DOMAIN u)
  BY <1>1, <1>3, <1>4
<1> QED
  BY <1>1, <1>4, <1>6, <1>7, VersionsSet

\* The versions that are left are as they were.
LEMMA VersionsStay ==
    ASSUME VersionsOK, NEW n, SetVersions(version, Unref(vrefs, n))
    PROVE  \A v \in DOMAIN version' : v \in DOMAIN version /\ version'[v] = version[v]
<1>1. PICK u : u = Unref(vrefs, n)
  OBVIOUS
<1>2. DOMAIN u = DOMAIN version /\ SetVersions(version, u)
  BY <1>1 DEF Unref, VersionsOK
<1> QED
  BY <1>2, VersionsLeft

\* LogAndApply: a new version is the current one; refs are the references it finds.
LEMMA VersionsInstall ==
    ASSUME EngineAssumption, VersionsOK, UNCHANGED get, NEW refs \in PartialFn(Nat, Nat),
           DOMAIN refs = DOMAIN vrefs, NEW levels \in Levels, Install(levels, refs),
           \A v \in Nat : Count(refs, v) = Cardinality(VersionReaders(v)) + (IF v = current THEN 1 ELSE 0)
                            + (IF v = Input(bg') THEN 1 ELSE 0) + (IF v = Base(bg') THEN 1 ELSE 0)
    PROVE  /\ VersionsOK'
           /\ \A v \in DOMAIN version' :
                 version'[v] = levels \/ (v \in DOMAIN version /\ version'[v] = version[v])
<1>1. version \in PartialFn(Nat, Levels) /\ DOMAIN version = DOMAIN vrefs
      /\ Bounded(DOMAIN vrefs) /\ current \in Nat
  BY DEF VersionsOK
<1>2. DOMAIN refs \in SUBSET Nat
  BY PartialFnElim
<1>3. current \in DOMAIN refs
  BY <1>1, NoVersion
<1>4. PICK n : n = Max(DOMAIN version) + 1
  OBVIOUS
<1>5. n \in Nat /\ \A k \in DOMAIN refs : k < n
  <2>1. PICK D : D = DOMAIN version
    OBVIOUS
  <2>2. D \in SUBSET Nat /\ D # {} /\ Bounded(D)
    BY <1>1, <1>2, <1>3, <2>1
  <2>3. Max(D) \in D /\ \A k \in D : k <= Max(D)
    BY <2>2, MaxFacts
  <2>4. ASSUME NEW k \in D
        PROVE  k < n
    BY <1>4, <2>1, <2>2, <2>3
  <2> QED
    BY <1>1, <1>4, <2>1, <2>2, <2>3, <2>4
<1>6. n \notin DOMAIN refs
  BY <1>5
<1>7. Count(refs, current) > 0
  <2>1. Cardinality(VersionReaders(current)) \in Nat
    BY <1>1, VersionNumbers
  <2> QED
    BY <1>1, <2>1
<1>8. PICK u : u = Unref(refs, current)
  OBVIOUS
<1>9. u \in PartialFn(Nat, Nat) /\ DOMAIN u = DOMAIN refs
      /\ \A v \in Nat : Count(u, v) = Count(refs, v) - (IF v = current THEN 1 ELSE 0)
  BY <1>1, <1>7, <1>8, UnrefFacts
<1>10. PICK z, vs : z = With(u, n, 1) /\ vs = With(version, n, levels)
  OBVIOUS
<1>11. z \in PartialFn(Nat, Nat) /\ vs \in PartialFn(Nat, Levels)
  BY <1>1, <1>5, <1>9, <1>10, WithFacts
<1>12. /\ DOMAIN z = DOMAIN refs \cup {n} /\ DOMAIN vs = DOMAIN version \cup {n}
       /\ z[n] = 1 /\ vs[n] = levels
       /\ \A v \in DOMAIN refs : z[v] = u[v] /\ vs[v] = version[v]
  BY <1>1, <1>6, <1>9, <1>10 DEF With
<1>13. Install(levels, refs) <=> current' = n /\ SetVersions(vs, z)
  BY <1>4, <1>8, <1>10 DEF Install
<1>14. Bounded(DOMAIN z)
  BY <1>1, <1>2, <1>5, <1>12, BoundedFacts
<1>15. \A v : VersionReaders(v)' = VersionReaders(v)
  BY DEF VersionReaders
<1>16. ASSUME NEW v \in Nat
       PROVE  Count(z, v) = VersionRefs(v)'
  <2>1. Cardinality(VersionReaders(v)) \in Nat
    BY VersionNumbers
  <2>2. VersionRefs(v)' = Cardinality(VersionReaders(v)) + (IF v = n THEN 1 ELSE 0)
                            + (IF v = Input(bg') THEN 1 ELSE 0) + (IF v = Base(bg') THEN 1 ELSE 0)
    BY <1>13, <1>15, <2>1 DEF VersionRefs, Holders
  <2>3. CASE v = n
    <3>1. Count(refs, v) = 0 /\ Count(z, v) = 1
      BY <1>6, <1>12, <2>3 DEF Count
    <3>2. Cardinality(VersionReaders(v)) = 0 /\ v # Input(bg') /\ v # Base(bg')
      BY <2>1, <3>1
    <3> QED
      BY <2>2, <2>3, <3>1, <3>2
  <2>4. CASE v # n
    <3>1. Count(z, v) = Count(u, v)
      BY <1>9, <1>12, <2>4 DEF Count
    <3> QED
      BY <1>9, <2>1, <2>2, <2>4, <3>1
  <2> QED
    BY <2>3, <2>4
<1>17. DOMAIN vs = DOMAIN z /\ current' \in Nat /\ SetVersions(vs, z)
  BY <1>1, <1>5, <1>12, <1>13
<1>18. VersionsOK'
  BY <1>11, <1>14, <1>16, <1>17, VersionsSet
<1>19. \A v \in DOMAIN version' : v \in DOMAIN vs /\ version'[v] = vs[v]
  BY <1>17, VersionsLeft
<1> QED
  BY <1>1, <1>12, <1>18, <1>19

\* CompactMemTable begins.
LEMMA StartFlushRefs ==
    ASSUME EngineAssumption, RefsOK, NEW ret, StartFlush(ret), imm_ # None,
           (bg.at = "scheduled" /\ ret = "finish") \/ (bg.at = "work" /\ ret = "work"),
           UNCHANGED <<mem_, imm_, table, mrefs, version, current, file, get, plan,
                       bg_compaction_scheduled_>>
    PROVE  RefsOK'
<1>1. ControlOK /\ ReadersOK /\ MemoryOK /\ VersionsOK /\ FilesOK
  BY DEF RefsOK
<1>2. /\ bg' = [bg EXCEPT !.at = "build", !.ret = ret, !.number = NextFile, !.base = current]
      /\ NextFile' = NextFile + 1 /\ pending_outputs_' = pending_outputs_ \cup {NextFile}
      /\ vrefs' = Ref(vrefs, current)
  BY DEF StartFlush, Pending
<1>3. current \in Nat /\ NextFile \in Nat /\ mem_ \in Nat /\ mem_ < NextFile
  BY <1>1 DEF VersionsOK, ControlOK
<1>4. /\ bg'.at = "build" /\ bg'.ret = ret /\ bg'.number = NextFile /\ bg'.base = current
      /\ bg'.input = bg.input /\ bg'.out = bg.out /\ IsWork(bg')
  BY <1>1, <1>2, <1>3 DEF ControlOK, IsWork, Stages
<1>5. Input(bg') = Input(bg) /\ Output(bg') = Output(bg) /\ Base(bg') = current /\ Base(bg) = None
  BY <1>4 DEF Input, Output, Base, Compacting
<1>6. mem_ < NextFile'
  BY <1>2, <1>3
<1>7. ControlOK'
  BY <1>1, <1>2, <1>3, <1>4, <1>6 DEF ControlOK
<1>8. ReadersOK'
  BY <1>1 DEF ReadersOK
<1>9. MemoryOK'
  <2>1. NextFile <= NextFile' /\ DOMAIN table' = DOMAIN table
    BY <1>2, <1>3
  <2> QED
    BY <1>7, <2>1, MemorySame
<1>10. VersionsOK'
  <2>1. \A v \in Nat : Holders(v)' = Holders(v) + (IF v = current THEN 1 ELSE 0)
    BY <1>5 DEF Holders, EngineAssumption
  <2> QED
    BY <1>1, <1>2, <2>1, VersionsRef
<1>11. FilesOK'
  <2>1. \A f \in DOMAIN file \cup pending_outputs_ : f \in Nat /\ f < NextFile /\ f < NextFile + 1
    BY <1>1, <1>3, FileNumbers
  <2>2. \A f \in DOMAIN file' \cup pending_outputs_' : f \in Nat /\ f < NextFile'
    BY <1>2, <1>3, <2>1
  <2>3. NextFile # Output(bg)
    BY <1>1, <1>3, <2>1 DEF FilesOK, EngineAssumption
  <2>4. pending_outputs_' \subseteq Nat
    BY <2>2
  <2>5. bg'.number < NextFile'
    BY <1>2, <1>3, <1>4
  <2>6. Output(bg') # None => Output(bg') \in pending_outputs_' /\ (bg'.at # "fail" => Output(bg') \in DOMAIN file)
    BY <1>1, <1>2, <1>5, <1>4 DEF FilesOK, Output, Compacting
  <2> QED
    BY <1>1, <1>4, <1>5, <2>2, <2>3, <2>4, <2>5, <2>6 DEF FilesOK
<1> QED
  BY <1>7, <1>8, <1>9, <1>10, <1>11 DEF RefsOK

\* BackgroundCall: nothing to do, a flush, or a compaction of the current version.
LEMMA BackgroundCallRefs ==
    ASSUME EngineAssumption, RefsOK, BackgroundCall
    PROVE  RefsOK'
<1>1. ControlOK /\ ReadersOK /\ MemoryOK /\ VersionsOK /\ FilesOK
  BY DEF RefsOK
<1>2. /\ bg.at = "scheduled"
      /\ UNCHANGED <<mem_, imm_, table, mrefs, version, current, file, get, plan, bg_compaction_scheduled_>>
  BY DEF BackgroundCall, memVars, errorVars, readVars
<1>3. \/ bg' = [bg EXCEPT !.at = "finish"] /\ UNCHANGED <<NextFile, pending_outputs_, vrefs>>
      \/ StartFlush("finish") /\ imm_ # None
      \/ /\ UNCHANGED <<NextFile, pending_outputs_>> /\ vrefs' = Ref(vrefs, current)
         /\ bg' = [bg EXCEPT !.at = IF IsTrivialMove(PickCompaction) THEN "logMove" ELSE "work",
                             !.input = current, !.manual = (manual_compaction_ # None),
                             !.oldest = IF Snapshots = {} THEN LastSequence ELSE Min(Snapshots)]
  <2>1. CASE shutting_down_ \/ bg_error_
    BY <2>1 DEF BackgroundCall
  <2>2. CASE ~(shutting_down_ \/ bg_error_) /\ imm_ # None
    BY <2>2 DEF BackgroundCall
  <2>3. CASE ~(shutting_down_ \/ bg_error_) /\ imm_ = None
    <3>1. CASE PickCompaction = {}
      BY <2>3, <3>1 DEF BackgroundCall
    <3>2. CASE PickCompaction # {}
      BY <2>3, <3>2 DEF BackgroundCall
    <3> QED
      BY <3>1, <3>2
  <2> QED
    BY <2>1, <2>2, <2>3
<1>4. current \in Nat /\ NextFile \in Nat
  BY <1>1 DEF VersionsOK, ControlOK
<1>5. ReadersOK'
  BY <1>1, <1>2 DEF ReadersOK
<1>6. NextFile' = NextFile => NextFile <= NextFile'
  BY <1>4
<1>7. CASE bg' = [bg EXCEPT !.at = "finish"] /\ UNCHANGED <<NextFile, pending_outputs_, vrefs>>
  <2>1. bg'.at = "finish" /\ IsWork(bg')
    BY <1>1, <1>7 DEF ControlOK, IsWork, Stages
  <2>2. Input(bg') = Input(bg) /\ Output(bg') = Output(bg) /\ Base(bg') = Base(bg)
    BY <1>2, <2>1 DEF Input, Output, Base, Compacting
  <2>3. ControlOK'
    BY <1>1, <1>2, <1>7, <2>1 DEF ControlOK
  <2>4. MemoryOK' /\ VersionsOK'
    BY <1>2, <1>5, <1>6, <1>7, <2>2, <2>3, HeldSame
  <2>5. FilesOK'
    BY <1>2, <1>7, <2>1, <2>2, <2>3, FilesSame
  <2> QED
    BY <1>5, <2>3, <2>4, <2>5 DEF RefsOK
<1>8. CASE StartFlush("finish") /\ imm_ # None
  BY <1>2, <1>8, StartFlushRefs
<1>9. CASE /\ UNCHANGED <<NextFile, pending_outputs_>> /\ vrefs' = Ref(vrefs, current)
           /\ bg' = [bg EXCEPT !.at = IF IsTrivialMove(PickCompaction) THEN "logMove" ELSE "work",
                               !.input = current, !.manual = (manual_compaction_ # None),
                               !.oldest = IF Snapshots = {} THEN LastSequence ELSE Min(Snapshots)]
  <2>1. bg.out = None
    BY <1>1, <1>2 DEF ControlOK, IsWork
  <2>2. bg'.at \in {"logMove", "work"} /\ bg'.input = current /\ bg'.out = None /\ IsWork(bg')
    BY <1>1, <1>4, <1>9, <2>1 DEF ControlOK, IsWork, Stages
  <2>3. Input(bg') = current /\ Output(bg') = None /\ Base(bg') = None /\ Input(bg) = None /\ Base(bg) = None
    BY <1>2, <2>2 DEF Input, Output, Base, Compacting
  <2>4. ControlOK'
    BY <1>1, <1>2, <1>9, <2>2 DEF ControlOK
  <2>5. MemoryOK'
    BY <1>2, <1>6, <1>9, <2>4, MemorySame
  <2>6. \A v \in Nat : Holders(v)' = Holders(v) + (IF v = current THEN 1 ELSE 0)
    BY <1>2, <2>3 DEF Holders, EngineAssumption
  <2>7. VersionsOK'
    BY <1>1, <1>2, <1>9, <2>6, VersionsRef
  <2>8. FilesOK'
    BY <1>1, <1>2, <1>9, <2>2, <2>3 DEF FilesOK
  <2> QED
    BY <1>5, <2>4, <2>5, <2>7, <2>8 DEF RefsOK
<1> QED
  BY <1>3, <1>7, <1>8, <1>9

\* WriteLevel0Table lets go of its version when the table is built.
LEMMA BuildTableRefs ==
    ASSUME EngineAssumption, RefsOK, NEW bad, BuildTable(bad)
    PROVE  RefsOK'
<1>1. ControlOK /\ ReadersOK /\ MemoryOK /\ VersionsOK /\ FilesOK
  BY DEF RefsOK
<1>2. /\ bg.at = "build" /\ pending_outputs_' = pending_outputs_ \ {bg.number}
      /\ SetVersions(version, Unref(vrefs, bg.base))
      /\ file' = file \/ file' = With(file, bg.number, table[imm_])
      /\ UNCHANGED <<mem_, imm_, table, mrefs, current, NextFile, get, plan, bg_compaction_scheduled_>>
      /\ \/ bg' = [bg EXCEPT !.at = bg.ret]
         \/ bg' = [bg EXCEPT !.at = "logFlush", !.log = logfile_number_,
                             !.level = IF version[bg.base] = <<{}, {}>> THEN 2 ELSE 1]
  BY DEF BuildTable, memVars, errorVars, readVars
<1>3. bg.ret \in {"finish", "work"} /\ bg.base \in Nat /\ bg.number \in Nat /\ NextFile \in Nat
  BY <1>1, <1>2 DEF ControlOK, IsWork
<1>4. /\ bg'.at = bg.ret \/ bg'.at = "logFlush"
      /\ bg'.ret = bg.ret /\ bg'.input = bg.input /\ bg'.out = bg.out /\ IsWork(bg')
  BY <1>1, <1>2, <1>3 DEF ControlOK, IsWork, Stages
<1>5. Input(bg') = Input(bg) /\ Output(bg') = Output(bg) /\ Base(bg') = None /\ Base(bg) = bg.base
  BY <1>2, <1>3, <1>4 DEF Input, Output, Base, Compacting
<1>6. ControlOK'
  BY <1>1, <1>2, <1>3, <1>4 DEF ControlOK
<1>7. ReadersOK'
  BY <1>1, <1>2 DEF ReadersOK
<1>8. MemoryOK'
  BY <1>2, <1>3, <1>6, MemorySame
<1>9. VersionsOK'
  <2>1. \A v \in Nat : Holders(v)' = Holders(v) - (IF v = bg.base THEN 1 ELSE 0)
    BY <1>2, <1>5 DEF Holders, EngineAssumption
  <2>2. Holders(bg.base) > 0
    BY <1>3, <1>5 DEF Holders
  <2>3. PICK n : n = bg.base
    OBVIOUS
  <2> QED
    BY <1>1, <1>2, <1>3, <2>1, <2>2, <2>3, VersionsUnref
<1>10. FilesOK'
  <2>1. PICK n : n = bg.base
    OBVIOUS
  <2>2. \A v \in DOMAIN version' : v \in DOMAIN version /\ version'[v] = version[v]
    BY <1>1, <1>2, <2>1, VersionsStay
  <2>3. DOMAIN file' = DOMAIN file \/ DOMAIN file' = DOMAIN file \cup {bg.number}
    BY <1>2 DEF With
  <2>4. bg.number < NextFile /\ bg.number # Output(bg)
    BY <1>1, <1>2 DEF FilesOK
  <2>5. \A f \in DOMAIN file' \cup pending_outputs_' : f \in Nat /\ f < NextFile
    BY <1>1, <1>2, <1>3, <2>3, <2>4, FileNumbers
  <2>6. \A v \in DOMAIN version' : version'[v][1] \cup version'[v][2] \subseteq DOMAIN file'
    BY <1>1, <2>2, <2>3 DEF FilesOK
  <2>7. Output(bg') # None => Output(bg') \in pending_outputs_' /\ (bg'.at # "fail" => Output(bg') \in DOMAIN file')
    BY <1>1, <1>2, <1>5, <2>3, <2>4 DEF FilesOK
  <2>8. bg'.at # "build"
    BY <1>3, <1>4
  <2>9. DOMAIN file' \subseteq Nat /\ pending_outputs_' \subseteq Nat
    BY <2>5
  <2> QED
    BY <1>2, <2>5, <2>6, <2>7, <2>8, <2>9 DEF FilesOK
<1> QED
  BY <1>6, <1>7, <1>8, <1>9, <1>10 DEF RefsOK

\* The current version and the inputs of a compaction are there.
LEMMA LevelsThere ==
    ASSUME EngineAssumption, VersionsOK
    PROVE  /\ current \in DOMAIN version /\ version[current] \in Levels
           /\ Input(bg) \in Nat => Input(bg) \in DOMAIN version /\ version[Input(bg)] \in Levels
<1>1. version \in [DOMAIN version -> Levels] /\ DOMAIN version = DOMAIN vrefs /\ current \in Nat
  BY PartialFnElim DEF VersionsOK
<1>2. current \in DOMAIN version
  BY <1>1, NoVersion
<1>3. Input(bg) \in Nat => Input(bg) \in DOMAIN version
  BY <1>1, NoVersion
<1> QED
  BY <1>1, <1>2, <1>3

\* What DeleteObsoleteFiles leaves.
LEMMA Kept ==
    ASSUME NEW logs, NEW vs, NEW pending, NEW n, NEW e, DeleteObsoleteFiles(file, logs, vs, pending, n, e)
    PROVE  /\ DOMAIN file' \subseteq DOMAIN file
           /\ \A f \in DOMAIN file : f \in pending => f \in DOMAIN file'
           /\ \A v \in DOMAIN vs : vs[v][1] \cup vs[v][2] \subseteq DOMAIN file =>
                 vs[v][1] \cup vs[v][2] \subseteq DOMAIN file'
<1>1. DOMAIN file' = DOMAIN file \/ DOMAIN file' = DOMAIN file \cap (pending \cup LiveFiles(vs))
  BY DEF DeleteObsoleteFiles, Restrict
<1> QED
  BY <1>1 DEF LiveFiles

\* CompactMemTable ends: its table is in the current version, the memtable is let go.
LEMMA LogFlushRefs ==
    ASSUME EngineAssumption, RefsOK, NEW bad, LogFlush(bad)
    PROVE  RefsOK'
<1>1. ControlOK /\ ReadersOK /\ MemoryOK /\ VersionsOK /\ FilesOK
  BY DEF RefsOK
<1>2. /\ bg.at = "logFlush" /\ bg' = [bg EXCEPT !.at = bg.ret]
      /\ UNCHANGED <<mem_, pending_outputs_, NextFile, get, plan, bg_compaction_scheduled_>>
  BY DEF LogFlush, memVars, errorVars, readVars
<1>3. /\ bg.ret \in {"finish", "work"} /\ NextFile \in Nat /\ mem_ \in Nat
      /\ imm_ # None /\ imm_ \in Nat /\ imm_ < mem_
  BY <1>1, <1>2 DEF ControlOK, IsWork
<1>4. /\ bg'.at = bg.ret /\ bg'.ret = bg.ret /\ bg'.input = bg.input /\ bg'.out = bg.out /\ IsWork(bg')
  BY <1>1, <1>2, <1>3 DEF ControlOK, IsWork, Stages
<1>5. Input(bg') = Input(bg) /\ Output(bg') = Output(bg) /\ Base(bg') = None /\ Base(bg) = None
  BY <1>2, <1>3, <1>4 DEF Input, Output, Base, Compacting
<1>6. ReadersOK'
  BY <1>1, <1>2 DEF ReadersOK
<1>7. imm_' \in {imm_, None} => ControlOK'
  BY <1>1, <1>2, <1>3, <1>4 DEF ControlOK
<1>8. NextFile <= NextFile'
  BY <1>2, <1>3
<1>9. CASE bad
  <2>1. UNCHANGED <<imm_, table, mrefs, version, current, vrefs, file>>
    BY <1>9 DEF LogFlush, memVars, versionVars
  <2>2. ControlOK'
    BY <1>7, <2>1
  <2>3. MemoryOK' /\ VersionsOK'
    BY <1>2, <1>5, <1>6, <1>8, <2>1, <2>2, HeldSame
  <2>4. bg'.at # "build" /\ bg'.at # "fail" /\ bg.at # "fail"
    BY <1>2, <1>3, <1>4
  <2>5. FilesOK'
    BY <1>2, <1>5, <2>1, <2>2, <2>4, FilesSame
  <2> QED
    BY <1>6, <2>2, <2>3, <2>5 DEF RefsOK
<1>10. CASE ~bad
  <2>1. PICK new : new = {bg.number} \cap DOMAIN file
    OBVIOUS
  <2>2. PICK levels : levels = Added(version[current], bg.level, new)
    OBVIOUS
  <2>3. /\ Install(levels, vrefs) /\ imm_' = None
        /\ SetMemTables(table, MemUnref(mrefs, imm_))
        /\ DeleteObsoleteFiles(file, log, version', pending_outputs_, bg.log, bg_error_)
    BY <1>10, <2>1, <2>2 DEF LogFlush
  <2>4. ControlOK'
    BY <1>7, <2>3
  <2>5. MemoryOK'
    <3>1. PICK m : m = imm_
      OBVIOUS
    <3>2. PICK u : u = Unref(mrefs, m)
      OBVIOUS
    <3>3. m \in Nat /\ m # mem_ /\ m # None
      BY <1>3, <3>1
    <3>4. ASSUME NEW k \in Nat
          PROVE  /\ MemRefs(k)' = MemRefs(k) - (IF k = m THEN 1 ELSE 0)
                 /\ k = m => MemRefs(k) > 0
      <4>1. MemReaders(k) \subseteq Reader
        BY DEF MemReaders
      <4>2. Cardinality(MemReaders(k)) \in Nat
        BY <4>1, ReadersCount
      <4>3. MemReaders(k)' = MemReaders(k)
        BY <1>2 DEF MemReaders
      <4>4. k # None
        BY DEF EngineAssumption
      <4> QED
        BY <1>2, <2>3, <3>1, <3>3, <4>2, <4>3, <4>4 DEF MemRefs
    <3>5. mrefs \in PartialFn(Nat, Nat) /\ Count(mrefs, m) > 0
      BY <1>1, <3>3, <3>4 DEF MemoryOK
    <3>6. u \in PartialFn(Nat, Nat) /\ DOMAIN u = DOMAIN mrefs
          /\ \A k \in Nat : Count(u, k) = Count(mrefs, k) - (IF k = m THEN 1 ELSE 0)
      BY <3>2, <3>3, <3>5, UnrefFacts
    <3>7. SetMemTables(table, u) /\ DOMAIN table = DOMAIN u
      BY <1>1, <2>3, <3>1, <3>2, <3>6 DEF MemUnref, Unref, MemoryOK
    <3>8. \A k \in Nat : Count(u, k) = MemRefs(k)'
      BY <1>1, <3>4, <3>6 DEF MemoryOK
    <3>9. \A k \in DOMAIN u : k < NextFile'
      BY <1>1, <1>2, <3>6 DEF MemoryOK
    <3> QED
      BY <3>6, <3>7, <3>8, <3>9, MemoryReset
  <2>6. new \subseteq Nat
    BY <1>1, <2>1 DEF FilesOK
  <2>7. current \in DOMAIN version /\ version[current] \in Levels
    BY <1>1, LevelsThere
  <2>8. levels \in Levels /\ levels[1] \cup levels[2] \subseteq version[current][1] \cup version[current][2] \cup new
    BY <2>2, <2>6, <2>7 DEF Added, Levels
  <2>9. VersionsOK' /\ \A v \in DOMAIN version' : version'[v] = levels \/ (v \in DOMAIN version /\ version'[v] = version[v])
    <3>1. vrefs \in PartialFn(Nat, Nat)
      BY <1>1 DEF VersionsOK
    <3>2. ASSUME NEW v \in Nat
          PROVE  Count(vrefs, v) = Cardinality(VersionReaders(v)) + (IF v = current THEN 1 ELSE 0)
                            + (IF v = Input(bg') THEN 1 ELSE 0) + (IF v = Base(bg') THEN 1 ELSE 0)
      <4>1. Cardinality(VersionReaders(v)) \in Nat
        BY VersionNumbers
      <4> QED
        BY <1>1, <1>5, <4>1 DEF VersionsOK, VersionRefs, Holders
    <3> QED
      BY <1>1, <1>2, <2>3, <2>8, <3>1, <3>2, VersionsInstall
  <2>10. FilesOK'
    <3>1. \A v \in DOMAIN version' : version'[v][1] \cup version'[v][2] \subseteq DOMAIN file
      BY <1>1, <2>1, <2>7, <2>8, <2>9 DEF FilesOK
    <3>2. PICK vs : vs = version'
      OBVIOUS
    <3>3. /\ DOMAIN file' \subseteq DOMAIN file
          /\ \A f \in DOMAIN file : f \in pending_outputs_ => f \in DOMAIN file'
          /\ \A v \in DOMAIN vs : vs[v][1] \cup vs[v][2] \subseteq DOMAIN file =>
                vs[v][1] \cup vs[v][2] \subseteq DOMAIN file'
      BY <2>3, <3>2, Kept
    <3>4. bg'.at # "build" /\ bg.at # "fail"
      BY <1>2, <1>3, <1>4
    <3> QED
      BY <1>1, <1>2, <1>5, <3>1, <3>2, <3>3, <3>4 DEF FilesOK
  <2> QED
    BY <1>6, <2>4, <2>5, <2>9, <2>10 DEF RefsOK
<1> QED
  BY <1>9, <1>10

\* The merge goes on: flushes between keys, the output file, the end of the loop.
LEMMA WorkRefs ==
    ASSUME EngineAssumption, RefsOK, NEW bad,
           WorkFlush \/ OpenCompactionOutputFile(bad) \/ FinishCompactionOutputFile(bad) \/ WorkStopped
    PROVE  RefsOK'
<1>1. ControlOK /\ ReadersOK /\ MemoryOK /\ VersionsOK /\ FilesOK
  BY DEF RefsOK
<1>2. /\ bg.at = "work" /\ UNCHANGED <<mem_, imm_, table, mrefs, version, current, get, plan,
                                       bg_compaction_scheduled_>>
  BY DEF WorkFlush, OpenCompactionOutputFile, FinishCompactionOutputFile, WorkStopped, storeVars, memVars,
     versionVars, quietVars, errorVars, readVars
<1>3. NextFile \in Nat /\ mem_ \in Nat /\ mem_ < NextFile
  BY <1>1 DEF ControlOK
<1>4. ReadersOK'
  BY <1>1, <1>2 DEF ReadersOK
<1>5. CASE WorkFlush
  <2>1. StartFlush("work") /\ imm_ # None /\ UNCHANGED file
    BY <1>5 DEF WorkFlush
  <2> QED
    BY <1>2, <2>1, StartFlushRefs
<1>6. CASE OpenCompactionOutputFile(bad)
  <2>1. /\ NextFile' = NextFile + 1 /\ pending_outputs_' = pending_outputs_ \cup {NextFile}
        /\ file' = (IF bad THEN file ELSE With(file, NextFile, {})) /\ UNCHANGED vrefs
        /\ bg' = [bg EXCEPT !.at = IF bad THEN "fail" ELSE "work", !.out = NextFile]
    BY <1>6 DEF OpenCompactionOutputFile, Pending, versionVars
  <2>2. bg'.at = (IF bad THEN "fail" ELSE "work") /\ bg'.out = NextFile /\ bg'.input = bg.input /\ IsWork(bg')
    BY <1>1, <1>2, <1>3, <2>1 DEF ControlOK, IsWork, Stages
  <2>3. Input(bg') = Input(bg) /\ Base(bg') = Base(bg) /\ Output(bg') = NextFile
    BY <1>2, <2>2 DEF Input, Output, Base, Compacting
  <2>4. NextFile <= NextFile' /\ mem_ < NextFile'
    BY <1>3, <2>1
  <2>5. ControlOK'
    BY <1>1, <1>2, <1>3, <2>1, <2>2, <2>4 DEF ControlOK
  <2>6. MemoryOK' /\ VersionsOK'
    BY <1>2, <1>4, <2>1, <2>3, <2>4, <2>5, HeldSame
  <2>7. FilesOK'
    <3>1. DOMAIN file' = (IF bad THEN DOMAIN file ELSE DOMAIN file \cup {NextFile})
      BY <2>1 DEF With
    <3>2. \A f \in DOMAIN file \cup pending_outputs_ : f \in Nat /\ f < NextFile /\ f < NextFile + 1
      BY <1>1, <1>3, FileNumbers
    <3>3. \A f \in DOMAIN file' \cup pending_outputs_' : f \in Nat /\ f < NextFile'
      BY <1>3, <2>1, <3>1, <3>2
    <3>4. DOMAIN file' \subseteq Nat /\ pending_outputs_' \subseteq Nat
      BY <3>3
    <3>5. \A v \in DOMAIN version' : version'[v][1] \cup version'[v][2] \subseteq DOMAIN file'
      BY <1>1, <1>2, <3>1 DEF FilesOK
    <3>6. NextFile \in pending_outputs_' /\ bg'.at # "build" /\ (bg'.at # "fail" => NextFile \in DOMAIN file')
      BY <2>1, <2>2, <3>1
    <3> QED
      BY <2>3, <3>3, <3>4, <3>5, <3>6 DEF FilesOK
  <2> QED
    BY <1>4, <2>5, <2>6, <2>7 DEF RefsOK
<1>7. CASE FinishCompactionOutputFile(bad) \/ WorkStopped
  <2>1. /\ UNCHANGED <<NextFile, pending_outputs_, vrefs>> /\ DOMAIN file' = DOMAIN file
        /\ \/ bg' = [bg EXCEPT !.at = "fail"]
           \/ bg' = [bg EXCEPT !.at = "logMerge"] /\ bg.out # None
    BY <1>7 DEF FinishCompactionOutputFile, WorkStopped, storeVars, fileVars, versionVars
  <2>2. bg'.at \in {"fail", "logMerge"} /\ bg'.out = bg.out /\ bg'.input = bg.input /\ IsWork(bg')
    BY <1>1, <1>2, <2>1 DEF ControlOK, IsWork, Stages
  <2>3. Input(bg') = Input(bg) /\ Base(bg') = Base(bg) /\ Output(bg') = Output(bg)
    BY <1>2, <2>2 DEF Input, Output, Base, Compacting
  <2>4. NextFile <= NextFile'
    BY <1>3, <2>1
  <2>5. ControlOK'
    BY <1>1, <1>2, <2>1, <2>2 DEF ControlOK
  <2>6. MemoryOK' /\ VersionsOK'
    BY <1>2, <1>4, <2>1, <2>3, <2>4, <2>5, HeldSame
  <2>7. FilesOK'
    BY <1>2, <2>1, <2>2, <2>3, <2>5, FilesSame
  <2> QED
    BY <1>4, <2>5, <2>6, <2>7 DEF RefsOK
<1> QED
  BY <1>5, <1>6, <1>7

\* The end of a compaction: its inputs are let go, its output is in the current version.
LEMMA LogMergeRefs ==
    ASSUME EngineAssumption, RefsOK, NEW bad, LogMerge(bad)
    PROVE  RefsOK'
<1>1. ControlOK /\ ReadersOK /\ MemoryOK /\ VersionsOK /\ FilesOK
  BY DEF RefsOK
<1>2. /\ bg.at \in {"logMerge", "fail"} /\ bg' = [bg EXCEPT !.at = "finish"]
      /\ bg.at = "fail" => bad
      /\ pending_outputs_' = pending_outputs_ \ {bg.out}
      /\ UNCHANGED <<mem_, imm_, table, mrefs, NextFile, get, plan, bg_compaction_scheduled_>>
  BY DEF LogMerge, memVars, readVars, CleanupCompaction
<1>3. NextFile \in Nat /\ bg.input \in Nat /\ (bg.at = "logMerge" => bg.out # None /\ bg.out \in Nat)
  BY <1>1 DEF ControlOK, IsWork
<1>4. bg'.at = "finish" /\ IsWork(bg')
  BY <1>1, <1>2 DEF ControlOK, IsWork, Stages
<1>5. /\ Input(bg') = None /\ Output(bg') = None /\ Base(bg') = None
      /\ Input(bg) = bg.input /\ Output(bg) = bg.out /\ Base(bg) = None
  BY <1>2, <1>4 DEF Input, Output, Base, Compacting
<1>6. ControlOK' /\ ReadersOK'
  BY <1>1, <1>2, <1>4 DEF ControlOK, ReadersOK
<1>7. MemoryOK'
  BY <1>2, <1>3, <1>6, MemorySame
<1>8. PICK n : n = bg.input
  OBVIOUS
<1>9. ASSUME NEW v \in Nat
      PROVE  Holders(v)' = (IF v = current' THEN 1 ELSE 0)
             /\ Holders(v) = (IF v = current THEN 1 ELSE 0) + (IF v = n THEN 1 ELSE 0)
  BY <1>5, <1>8 DEF Holders, EngineAssumption
<1>10. CASE bad
  <2>1. SetVersions(version, Unref(vrefs, n)) /\ UNCHANGED <<current, file>>
    BY <1>8, <1>10 DEF LogMerge, ReleaseInputs
  <2>2. \A v \in Nat : Holders(v)' = Holders(v) - (IF v = n THEN 1 ELSE 0)
    BY <1>9, <2>1
  <2>3. Holders(n) > 0
    BY <1>3, <1>8, <1>9
  <2>4. VersionsOK'
    BY <1>1, <1>2, <1>3, <1>8, <2>1, <2>2, <2>3, VersionsUnref
  <2>5. \A v \in DOMAIN version' : v \in DOMAIN version /\ version'[v] = version[v]
    BY <1>1, <2>1, VersionsStay
  <2>6. FilesOK'
    BY <1>1, <1>2, <1>4, <1>5, <2>1, <2>5 DEF FilesOK
  <2> QED
    BY <1>6, <1>7, <2>4, <2>6 DEF RefsOK
<1>11. CASE ~bad
  <2>1. PICK inputs : inputs = version[bg.input]
    OBVIOUS
  <2>2. PICK u : u = Unref(vrefs, n)
    OBVIOUS
  <2>3. PICK levels : levels = <<version[current][1] \ inputs[1], (version[current][2] \ inputs[2]) \cup {bg.out}>>
    OBVIOUS
  <2>4. Install(levels, u)
    BY <1>8, <1>11, <2>1, <2>2, <2>3 DEF LogMerge, InstallCompactionResults, ReleaseInputs
  <2>5. DeleteObsoleteFiles(file, log, version', CleanupCompaction, LogNumber, bg_error_)
    BY <1>11 DEF LogMerge
  <2>6. bg.at = "logMerge" /\ bg.out # None /\ bg.out \in Nat /\ bg.out \in DOMAIN file
    BY <1>1, <1>2, <1>3, <1>5, <1>11 DEF FilesOK
  <2>7. current \in DOMAIN version /\ version[current] \in Levels
    BY <1>1, LevelsThere
  <2>8. levels \in Levels /\ levels[1] \cup levels[2] \subseteq version[current][1] \cup version[current][2] \cup {bg.out}
    BY <2>3, <2>6, <2>7 DEF Levels
  <2>9. u \in PartialFn(Nat, Nat) /\ DOMAIN u = DOMAIN vrefs
        /\ \A v \in Nat : Count(u, v) = Count(vrefs, v) - (IF v = n THEN 1 ELSE 0)
    <3>1. vrefs \in PartialFn(Nat, Nat) /\ n \in Nat
      BY <1>1, <1>3, <1>8 DEF VersionsOK
    <3>2. Cardinality(VersionReaders(n)) \in Nat /\ Holders(n) > 0 /\ Holders(n) \in Nat
      BY <1>9, <3>1, VersionNumbers
    <3>3. Count(vrefs, n) > 0
      BY <1>1, <3>1, <3>2 DEF VersionsOK, VersionRefs
    <3> QED
      BY <2>2, <3>1, <3>3, UnrefFacts
  <2>10. VersionsOK' /\ \A v \in DOMAIN version' : version'[v] = levels \/ (v \in DOMAIN version /\ version'[v] = version[v])
    <3>1. ASSUME NEW v \in Nat
          PROVE  Count(u, v) = Cardinality(VersionReaders(v)) + (IF v = current THEN 1 ELSE 0)
                            + (IF v = Input(bg') THEN 1 ELSE 0) + (IF v = Base(bg') THEN 1 ELSE 0)
      <4>1. Cardinality(VersionReaders(v)) \in Nat
        BY VersionNumbers
      <4>2. v # None
        BY DEF EngineAssumption
      <4> QED
        BY <1>1, <1>5, <1>9, <2>9, <4>1, <4>2 DEF VersionsOK, VersionRefs
    <3> QED
      BY <1>1, <1>2, <2>4, <2>8, <2>9, <3>1, VersionsInstall
  <2>11. FilesOK'
    <3>1. \A v \in DOMAIN version' : version'[v][1] \cup version'[v][2] \subseteq DOMAIN file
      BY <1>1, <2>6, <2>7, <2>8, <2>10 DEF FilesOK
    <3>2. PICK vs : vs = version'
      OBVIOUS
    <3>3. PICK p : p = CleanupCompaction
      OBVIOUS
    <3>4. /\ DOMAIN file' \subseteq DOMAIN file
          /\ \A v \in DOMAIN vs : vs[v][1] \cup vs[v][2] \subseteq DOMAIN file =>
                vs[v][1] \cup vs[v][2] \subseteq DOMAIN file'
      BY <2>5, <3>2, <3>3, Kept
    <3>5. \A v \in DOMAIN version' : version'[v][1] \cup version'[v][2] \subseteq DOMAIN file'
      BY <3>1, <3>2, <3>4
    <3>6. pending_outputs_' \subseteq pending_outputs_ /\ NextFile' = NextFile
      BY <1>2
    <3>7. DOMAIN file' \subseteq Nat /\ pending_outputs_' \subseteq Nat
          /\ \A f \in DOMAIN file' \cup pending_outputs_' : f < NextFile'
      BY <1>1, <3>4, <3>6 DEF FilesOK
    <3> QED
      BY <1>4, <1>5, <3>5, <3>7 DEF FilesOK
  <2> QED
    BY <1>6, <1>7, <2>10, <2>11 DEF RefsOK
<1> QED
  BY <1>10, <1>11

\* A trivial move: the same with the table of the inputs itself.
LEMMA LogMoveRefs ==
    ASSUME EngineAssumption, RefsOK, NEW bad, LogMove(bad)
    PROVE  RefsOK'
<1>1. ControlOK /\ ReadersOK /\ MemoryOK /\ VersionsOK /\ FilesOK
  BY DEF RefsOK
<1>2. /\ bg.at = "logMove" /\ bg' = [bg EXCEPT !.at = "finish"]
      /\ UNCHANGED <<mem_, imm_, table, mrefs, NextFile, get, plan, bg_compaction_scheduled_, file,
                     pending_outputs_>>
  BY DEF LogMove, memVars, readVars, fileVars
<1>3. NextFile \in Nat /\ bg.input \in Nat
  BY <1>1 DEF ControlOK, IsWork
<1>4. bg'.at = "finish" /\ IsWork(bg')
  BY <1>1, <1>2 DEF ControlOK, IsWork, Stages
<1>5. /\ Input(bg') = None /\ Output(bg') = None /\ Base(bg') = None
      /\ Input(bg) = bg.input /\ Base(bg) = None
  BY <1>2, <1>4 DEF Input, Output, Base, Compacting
<1>6. ControlOK' /\ ReadersOK'
  BY <1>1, <1>2, <1>4 DEF ControlOK, ReadersOK
<1>7. MemoryOK'
  BY <1>2, <1>3, <1>6, MemorySame
<1>8. PICK n : n = bg.input
  OBVIOUS
<1>9. ASSUME NEW v \in Nat
      PROVE  Holders(v)' = (IF v = current' THEN 1 ELSE 0)
             /\ Holders(v) = (IF v = current THEN 1 ELSE 0) + (IF v = n THEN 1 ELSE 0)
  BY <1>5, <1>8 DEF Holders, EngineAssumption
<1>10. CASE bad
  <2>1. SetVersions(version, Unref(vrefs, n)) /\ UNCHANGED current
    BY <1>8, <1>10 DEF LogMove
  <2>2. \A v \in Nat : Holders(v)' = Holders(v) - (IF v = n THEN 1 ELSE 0)
    BY <1>9, <2>1
  <2>3. Holders(n) > 0
    BY <1>3, <1>8, <1>9
  <2>4. VersionsOK'
    BY <1>1, <1>2, <1>3, <1>8, <2>1, <2>2, <2>3, VersionsUnref
  <2>5. \A v \in DOMAIN version' : v \in DOMAIN version /\ version'[v] = version[v]
    BY <1>1, <2>1, VersionsStay
  <2>6. FilesOK'
    BY <1>1, <1>2, <1>4, <1>5, <2>1, <2>5 DEF FilesOK
  <2> QED
    BY <1>6, <1>7, <2>4, <2>6 DEF RefsOK
<1>11. CASE ~bad
  <2>1. PICK moved : moved = version[bg.input][1]
    OBVIOUS
  <2>2. PICK u : u = Unref(vrefs, n)
    OBVIOUS
  <2>3. PICK levels : levels = <<version[current][1] \ moved, version[current][2] \cup moved>>
    OBVIOUS
  <2>4. Install(levels, u)
    BY <1>8, <1>11, <2>1, <2>2, <2>3 DEF LogMove
  <2>5. /\ current \in DOMAIN version /\ version[current] \in Levels
        /\ bg.input \in DOMAIN version /\ version[bg.input] \in Levels
    <3>1. Input(bg) \in Nat
      BY <1>3, <1>5
    <3> QED
      BY <1>1, <1>5, <3>1, LevelsThere
  <2>6. levels \in Levels /\ levels[1] \cup levels[2] \subseteq version[current][1] \cup version[current][2] \cup moved
    BY <2>1, <2>3, <2>5 DEF Levels
  <2>7. moved \subseteq DOMAIN file
    BY <1>1, <2>1, <2>5 DEF FilesOK
  <2>8. u \in PartialFn(Nat, Nat) /\ DOMAIN u = DOMAIN vrefs
        /\ \A v \in Nat : Count(u, v) = Count(vrefs, v) - (IF v = n THEN 1 ELSE 0)
    <3>1. vrefs \in PartialFn(Nat, Nat) /\ n \in Nat
      BY <1>1, <1>3, <1>8 DEF VersionsOK
    <3>2. Cardinality(VersionReaders(n)) \in Nat /\ Holders(n) > 0 /\ Holders(n) \in Nat
      BY <1>9, <3>1, VersionNumbers
    <3>3. Count(vrefs, n) > 0
      BY <1>1, <3>1, <3>2 DEF VersionsOK, VersionRefs
    <3> QED
      BY <2>2, <3>1, <3>3, UnrefFacts
  <2>9. VersionsOK' /\ \A v \in DOMAIN version' : version'[v] = levels \/ (v \in DOMAIN version /\ version'[v] = version[v])
    <3>1. ASSUME NEW v \in Nat
          PROVE  Count(u, v) = Cardinality(VersionReaders(v)) + (IF v = current THEN 1 ELSE 0)
                            + (IF v = Input(bg') THEN 1 ELSE 0) + (IF v = Base(bg') THEN 1 ELSE 0)
      <4>1. Cardinality(VersionReaders(v)) \in Nat
        BY VersionNumbers
      <4>2. v # None
        BY DEF EngineAssumption
      <4> QED
        BY <1>1, <1>5, <1>9, <2>8, <4>1, <4>2 DEF VersionsOK, VersionRefs
    <3> QED
      BY <1>1, <1>2, <2>4, <2>6, <2>8, <3>1, VersionsInstall
  <2>10. FilesOK'
    BY <1>1, <1>2, <1>4, <1>5, <2>5, <2>6, <2>7, <2>9 DEF FilesOK
  <2> QED
    BY <1>6, <1>7, <2>9, <2>10 DEF RefsOK
<1> QED
  BY <1>10, <1>11

\* BackgroundCall ends.
LEMMA BackgroundCallDoneRefs ==
    ASSUME EngineAssumption, RefsOK, BackgroundCallDone
    PROVE  RefsOK'
<1>1. ControlOK /\ ReadersOK /\ MemoryOK /\ VersionsOK /\ FilesOK
  BY DEF RefsOK
<1>2. PICK again \in BOOLEAN :
        bg_compaction_scheduled_' = again /\ bg' = [Resting EXCEPT !.at = IF again THEN "scheduled" ELSE "none"]
  BY DEF BackgroundCallDone, MaybeScheduleCompaction
<1>3. bg.at = "finish" /\ UNCHANGED <<storeVars, get, plan>>
  BY DEF BackgroundCallDone, quietVars, readVars, errorVars
<1>4. UNCHANGED <<mem_, imm_, table, mrefs, version, current, vrefs, file, pending_outputs_, NextFile>>
  BY <1>3 DEF storeVars, memVars, versionVars, fileVars
<1>5. bg'.at \in {"scheduled", "none"} /\ IsWork(bg') /\ (again <=> bg'.at # "none")
  BY <1>2 DEF Resting, IsWork, Stages
<1>6. Input(bg') = Input(bg) /\ Output(bg') = Output(bg) /\ Base(bg') = Base(bg)
  BY <1>3, <1>5 DEF Input, Output, Base, Compacting
<1>7. ControlOK' /\ ReadersOK'
  BY <1>1, <1>2, <1>3, <1>4, <1>5 DEF ControlOK, ReadersOK
<1>8. NextFile <= NextFile'
  BY <1>1, <1>4 DEF ControlOK
<1>9. MemoryOK' /\ VersionsOK'
  BY <1>3, <1>4, <1>6, <1>7, <1>8, HeldSame
<1>10. FilesOK'
  BY <1>3, <1>4, <1>5, <1>6, <1>7, FilesSame
<1> QED
  BY <1>7, <1>9, <1>10 DEF RefsOK

\* Every step keeps the references and the files.
LEMMA RefsStep ==
    ASSUME EngineAssumption, RefsOK, [Next]_vars
    PROVE  RefsOK'
<1>1. ASSUME NEW t \in Thread, Put(t) \/ CompactRange(t) \/ CompactLevel(t)
      PROVE  RefsOK'
  BY <1>1, WriterRefs
<1>2. ASSUME NEW t \in Thread, Running(t)
      PROVE  RefsOK'
  <2>1. CASE Woken(t) \/ RoomError(t) \/ RoomDelay(t) \/ RoomFound(t) \/ RoomWait(t) \/ Commit(t) \/ WaitImm(t)
    BY <2>1, WriterRefs
  <2>2. CASE Insert(t)
    BY <2>2, LogRefs
  <2>3. ASSUME NEW bad \in BOOLEAN, RoomSwitch(t, bad) \/ AddRecord(t, bad) \/ Sync(t, bad)
        PROVE  RefsOK'
    BY <2>3, RoomSwitchRefs, LogRefs
  <2> QED
    BY <1>2, <2>1, <2>2, <2>3 DEF Running
<1>3. ASSUME NEW r \in Reader, Reading(r)
      PROVE  RefsOK'
  BY <1>3, SnapshotRefs, GetRefs, GetDoneRefs DEF Reading
<1>4. CASE Background
  <2>1. CASE BackgroundCall \/ BackgroundCallDone
    BY <2>1, BackgroundCallRefs, BackgroundCallDoneRefs
  <2>2. ASSUME NEW bad \in BOOLEAN,
               WorkFlush \/ OpenCompactionOutputFile(bad) \/ FinishCompactionOutputFile(bad) \/ WorkStopped
        PROVE  RefsOK'
    BY <2>2, WorkRefs
  <2>3. ASSUME NEW bad \in BOOLEAN, BuildTable(bad) \/ LogFlush(bad) \/ LogMerge(bad) \/ LogMove(bad)
        PROVE  RefsOK'
    BY <2>3, BuildTableRefs, LogFlushRefs, LogMergeRefs, LogMoveRefs
  <2> QED
    BY <1>4, <2>1, <2>2, <2>3 DEF Background
<1>5. CASE Close \/ Stop \/ UNCHANGED vars
  <2>1. CASE Close
    <3>1. UNCHANGED <<refVars, get, table, bgVars>>
      BY <2>1 DEF Close, storeVars, memVars, versionVars, fileVars, errorVars, readVars, refVars
    <3> QED
      BY <3>1, StoreSame
  <2>2. CASE Stop \/ UNCHANGED vars
    <3>1. UNCHANGED <<refVars, get, table, bgVars>>
      BY <2>2 DEF Stop, vars, refVars, bgVars
    <3> QED
      BY <3>1, StoreSame
  <2> QED
    BY <1>5, <2>1, <2>2
<1> QED
  BY <1>1, <1>2, <1>3, <1>4, <1>5 DEF Next

\* Reference counts count who holds what, files of versions are there.
THEOREM RefsHold == Spec => []RefsOK
<1>1. Init => RefsOK
  BY EngineAssumption, RefsInit
<1>2. RefsOK /\ [Next]_vars => RefsOK'
  BY EngineAssumption, RefsStep
<1> QED
  BY <1>1, <1>2, PTL DEF Spec

\* Nothing that a reader, the current version or a compaction uses is freed or deleted.
LEMMA RefsKeep ==
    ASSUME EngineAssumption, RefsOK
    PROVE  NothingFreed
<1>1. ControlOK /\ ReadersOK /\ MemoryOK /\ VersionsOK /\ FilesOK
  BY DEF RefsOK
<1>2. \A v \in DOMAIN version : version[v][1] \cup version[v][2] \subseteq DOMAIN file
  BY <1>1 DEF FilesOK
<1>3. ASSUME NEW r \in Reader, get[r].at = "reading"
      PROVE  Holds(get[r])
  <2>1. PICK g : g = get[r]
    OBVIOUS
  <2>2. g.mem \in Nat /\ (g.imm = None \/ g.imm \in Nat) /\ g.version \in Nat
    BY <1>1, <1>3, <2>1 DEF ReadersOK, IsGet
  <2>3. PICK m, i, v : m = g.mem /\ i = g.imm /\ v = g.version
    OBVIOUS
  <2>4. m \in DOMAIN mrefs
    <3>1. r \in MemReaders(m)
      BY <1>3, <2>1, <2>3 DEF MemReaders
    <3> QED
      BY <1>1, <2>2, <2>3, <3>1, NoMemTable
  <2>5. i # None => i \in DOMAIN mrefs
    <3>1. r \in MemReaders(i)
      BY <1>3, <2>1, <2>3 DEF MemReaders
    <3> QED
      BY <1>1, <2>2, <2>3, <3>1, NoMemTable
  <2>6. v \in DOMAIN vrefs
    <3>1. r \in VersionReaders(v)
      BY <1>3, <2>1, <2>3 DEF VersionReaders
    <3> QED
      BY <1>1, <2>2, <2>3, <3>1, NoVersion
  <2>7. DOMAIN table = DOMAIN mrefs /\ DOMAIN version = DOMAIN vrefs
    BY <1>1 DEF MemoryOK, VersionsOK
  <2> QED
    BY <1>2, <2>1, <2>3, <2>4, <2>5, <2>6, <2>7 DEF Holds
<1>4. current \in DOMAIN version
  BY <1>1, LevelsThere
<1>5. ASSUME bg.at \in {"work", "logMerge"}
      PROVE  /\ version[bg.input][1] \cup version[bg.input][2] \subseteq DOMAIN file
             /\ bg.out # None => bg.out \in DOMAIN file
  <2>1. Input(bg) = bg.input /\ Output(bg) = bg.out /\ bg.input \in Nat
    BY <1>1, <1>5 DEF Input, Output, Compacting, ControlOK, IsWork
  <2>2. bg.input \in DOMAIN version
    BY <1>1, <2>1, LevelsThere
  <2> QED
    BY <1>1, <1>2, <1>5, <2>1, <2>2 DEF FilesOK
<1> QED
  BY <1>2, <1>3, <1>4, <1>5 DEF NothingFreed

\* The memtables, versions and tables in use are never freed or deleted (MemTable and Version
\* Ref and Unref, AddLiveFiles, pending_outputs_).
THEOREM NothingIsFreed == Spec => []NothingFreed
<1>1. RefsOK => NothingFreed
  BY EngineAssumption, RefsKeep
<1> QED
  BY <1>1, RefsHold, PTL

-----------------------------------------------------------------------------
(* Callers and errors: manual_compaction_ is there as long as a compaction *)
(* that was asked for runs.                                                *)

\* No call of CompactRange beside calls of the environment that fail: with both, the caller takes
\* manual_compaction_ back when it finds the error, and the background thread follows it
\* afterwards (BackgroundCompaction, db_impl.cc:725).
Separate == \A p \in Plan : p.faults = {} \/ \A t \in Compactor : p.calls[t] = 0

IsGroup(g) ==
    g = [last |-> g.last, entries |-> g.entries, left |-> g.left, ok |-> g.ok, syncError |-> g.syncError]

CallersOK ==
    /\ IsGroup(group)
    /\ plan \in Plan /\ DOMAIN pc = Thread /\ rounds \in [Thread \cup Reader -> Nat]
    /\ shutting_down_ => \A t \in Thread : pc[t] = "idle"
    /\ \A t \in Thread : pc[t] \in {"imm", "manual"} => t \in Compactor
    /\ plan.faults # {} => \A t \in Compactor : pc[t] = "idle"
    /\ group.syncError => plan.faults # {}
    /\ bg.at = "fail" => plan.faults # {} \/ shutting_down_
    /\ bg_error_ => plan.faults # {} \/ shutting_down_

ManualOK ==
    /\ DOMAIN manualDone = Compactor
    /\ manual_compaction_ # None =>
          /\ manual_compaction_ \in Compactor /\ pc[manual_compaction_] = "manual"
          /\ ~manualDone[manual_compaction_]
    /\ Compacting(bg) /\ bg.manual => manual_compaction_ # None
    /\ ~crashed

CallsOK == CallersOK /\ ManualOK

\* The background thread may have been woken, no more.
BgStays == \/ bg' = bg
           \/ bg.at = "none" /\ bg' = [bg EXCEPT !.at = "scheduled"]

\* A background thread that was at most woken has not failed and does no manual
\* compaction it did not do before.
LEMMA BgStaysFacts ==
    ASSUME ControlOK, BgStays
    PROVE  /\ bg'.at = "fail" => bg.at = "fail"
           /\ Compacting(bg') /\ bg'.manual => Compacting(bg) /\ bg.manual
BY DEF BgStays, Compacting, ControlOK, IsWork

\* MaybeScheduleCompaction does no more to the background thread than wake it.
LEMMA SchedulesStays ==
    ASSUME ControlOK, NEW e, NEW i, NEW m, NEW v, NEW c, NEW s,
           UNCHANGED bgVars \/ Schedules(e, i, m, v, c, s)
    PROVE  BgStays
BY DEF bgVars, Schedules, MaybeScheduleCompaction, ControlOK, BgStays

\* Only t moves, and to CompactRange only when it is in it.
Moves(t) ==
    /\ DOMAIN pc' = Thread /\ \A x \in Thread : x # t => pc'[x] = pc[x]
    /\ pc'[t] \in {"imm", "manual"} => t \in Compactor

\* The step of a caller that puts it at p moves only that caller.
LEMMA MovesTo ==
    ASSUME CallersOK, NEW t \in Thread, NEW p, pc' = [pc EXCEPT ![t] = p],
           p \in {"imm", "manual"} => t \in Compactor
    PROVE  Moves(t)
BY DEF CallersOK, Moves

\* So does the step that takes a caller to what follows its write.
LEMMA MovesAfter ==
    ASSUME CallersOK, NEW t \in Thread, NEW ok, pc' = [pc EXCEPT ![t] = After(t, ok)]
    PROVE  Moves(t)
BY DEF CallersOK, Moves, After, Thread

\* A step that moves nobody moves at most t.
LEMMA MovesNot ==
    ASSUME CallersOK, NEW t \in Thread, pc' = pc
    PROVE  Moves(t)
BY DEF CallersOK, Moves

\* A step of a thread inside a call that changes only where it stands.
LEMMA CallerMoves ==
    ASSUME ControlOK, CallsOK, BgStays, NEW t \in Thread, pc[t] \notin {"idle", "manual"},
           Moves(t),
           UNCHANGED <<plan, rounds, shutting_down_, manual_compaction_, manualDone, crashed>>,
           IsGroup(group'), group'.syncError => group.syncError \/ plan.faults # {},
           bg_error_' => bg_error_ \/ group.syncError
    PROVE  CallsOK'
<1>1. CallersOK /\ ManualOK
  BY DEF CallsOK
<1>2. /\ bg'.at = "fail" => bg.at = "fail"
      /\ Compacting(bg') /\ bg'.manual => Compacting(bg) /\ bg.manual
  BY BgStaysFacts
<1>3. DOMAIN pc' = Thread /\ (\A x \in Thread : x # t => pc'[x] = pc[x])
      /\ (pc'[t] \in {"imm", "manual"} => t \in Compactor)
  BY DEF Moves
<1>4. ~shutting_down_ /\ (plan.faults # {} => t \notin Compactor)
  BY <1>1 DEF CallersOK
<1>5. CallersOK'
  BY <1>1, <1>2, <1>3, <1>4 DEF CallersOK, Thread
<1>6. manual_compaction_ # None => manual_compaction_ \in Thread /\ manual_compaction_ # t
  BY <1>1 DEF ManualOK, Thread
<1>7. ManualOK'
  BY <1>1, <1>2, <1>3, <1>6 DEF ManualOK
<1> QED
  BY <1>5, <1>7 DEF CallsOK

\* A step that moves no thread and takes nothing back.
LEMMA CallersSame ==
    ASSUME ControlOK, CallsOK, BgStays,
           UNCHANGED <<plan, pc, shutting_down_, manual_compaction_, manualDone, crashed, group, bg_error_>>,
           rounds' \in [Thread \cup Reader -> Nat]
    PROVE  CallsOK'
<1>1. CallersOK /\ ManualOK
  BY DEF CallsOK
<1>2. /\ bg'.at = "fail" => bg.at = "fail"
      /\ Compacting(bg') /\ bg'.manual => Compacting(bg) /\ bg.manual
  BY BgStaysFacts
<1>3. CallersOK'
  BY <1>1, <1>2 DEF CallersOK
<1>4. ManualOK'
  BY <1>1, <1>2 DEF ManualOK
<1> QED
  BY <1>3, <1>4 DEF CallsOK

\* A call that begins: no caller of CompactRange where calls may fail.
LEMMA BeginCalls ==
    ASSUME Separate, ControlOK, CallsOK, NEW t \in Thread, Put(t) \/ CompactRange(t)
    PROVE  CallsOK'
<1>1. CallersOK /\ ManualOK
  BY DEF CallsOK
<1>2. PICK p \in {"room", "queued"} : pc' = [pc EXCEPT ![t] = p]
  BY DEF Put, CompactRange, Write
<1>3. /\ pc[t] = "idle" /\ ~shutting_down_ /\ rounds[t] < plan.calls[t]
      /\ rounds' = [rounds EXCEPT ![t] = @ + 1]
      /\ UNCHANGED <<group, bgVars, quietVars>>
  BY DEF Put, CompactRange, Write
<1>4. UNCHANGED <<group, bg, bg_error_, shutting_down_, crashed, plan, manual_compaction_, manualDone>>
  BY <1>3 DEF bgVars, quietVars, errorVars, manualVars
<1>5. rounds' \in [Thread \cup Reader -> Nat] /\ rounds[t] \in Nat
  BY <1>1, <1>3 DEF CallersOK
<1>6. plan.faults # {} => t \notin Compactor
  <2>1. t \in Compactor /\ plan.faults # {} => plan.calls[t] = 0
    BY <1>1 DEF CallersOK, Separate
  <2> QED
    BY <1>3, <1>5, <2>1
<1>7. DOMAIN pc' = Thread /\ pc'[t] = p /\ \A x \in Thread : x # t => pc'[x] = pc[x]
  BY <1>1, <1>2 DEF CallersOK
<1>8. CallersOK'
  BY <1>1, <1>3, <1>4, <1>5, <1>6, <1>7 DEF CallersOK, Thread
<1>9. manual_compaction_ # None => manual_compaction_ \in Thread /\ manual_compaction_ # t
  BY <1>1, <1>3 DEF ManualOK, Thread
<1>10. ManualOK'
  BY <1>1, <1>4, <1>7, <1>9 DEF ManualOK
<1> QED
  BY <1>8, <1>10 DEF CallsOK

\* Write, MakeRoomForWrite and the work of the front writer.
LEMMA RunningCalls ==
    ASSUME ControlOK, CallsOK, NEW t \in Thread, Running(t)
    PROVE  CallsOK'
<1>1. CallersOK
  BY DEF CallsOK
<1> DEFINE Same == UNCHANGED <<plan, rounds, shutting_down_, manual_compaction_, manualDone, crashed>>
<1>2. CASE Woken(t)
  <2>1. Same /\ UNCHANGED <<group, bg_error_, bgVars>> /\ pc[t] = "queued" /\ IsGroup(group')
    BY <1>1, <1>2 DEF CallersOK, Woken, quietVars, errorVars, manualVars
  <2>2. Moves(t)
    BY <1>1, <1>2, MovesNot, MovesTo, MovesAfter DEF Woken
  <2>3. BgStays
    BY <2>1 DEF bgVars, BgStays
  <2> QED
    BY <2>1, <2>2, <2>3, CallerMoves
<1>3. CASE RoomError(t) \/ Commit(t)
  <2>1. Same /\ group' = NoGroup /\ UNCHANGED bgVars /\ (bg_error_' => bg_error_ \/ group.syncError)
    BY <1>3 DEF RoomError, Commit, Complete, errorVars, manualVars
  <2>2. pc[t] \notin {"idle", "manual"}
    BY <1>3 DEF RoomError, InRoom, Commit
  <2>3. Moves(t)
    BY <1>1, <1>3, MovesAfter DEF RoomError, Commit, Complete
  <2>4. BgStays /\ ~group'.syncError /\ IsGroup(group')
    BY <2>1 DEF bgVars, BgStays, NoGroup, IsGroup
  <2> QED
    BY <2>1, <2>2, <2>3, <2>4, CallerMoves
<1>4. CASE RoomDelay(t) \/ RoomFound(t) \/ RoomWait(t)
  <2>1. Same /\ UNCHANGED <<bgVars, bg_error_>> /\ (group'.syncError => group.syncError) /\ IsGroup(group')
    BY <1>1, <1>4 DEF CallersOK, IsGroup, RoomDelay, RoomFound, RoomWait, StartLog, quietVars, queueVars, errorVars, manualVars
  <2>2. pc[t] \notin {"idle", "manual"}
    BY <1>4 DEF RoomDelay, RoomFound, RoomWait, InRoom
  <2>3. Moves(t)
    BY <1>1, <1>4, MovesTo DEF RoomDelay, RoomFound, RoomWait, StartLog
  <2>4. BgStays
    BY <2>1 DEF bgVars, BgStays
  <2> QED
    BY <2>1, <2>2, <2>3, <2>4, CallerMoves
<1>5. ASSUME NEW bad \in BOOLEAN, RoomSwitch(t, bad)
      PROVE  CallsOK'
  <2>1. Same /\ UNCHANGED bg_error_ /\ pc[t] \notin {"idle", "manual"}
    BY <1>5 DEF RoomSwitch, InRoom, errorVars, manualVars
  <2>2. BgStays
    <3>1. UNCHANGED bgVars \/ Schedules(FALSE, mem_, manual_compaction_, version, current, seekCompaction)
      BY <1>5 DEF RoomSwitch
    <3> QED
      BY <3>1, SchedulesStays
  <2>3. CASE bad
    <3>1. Complete(t, 1, FALSE, waits)
      BY <1>5, <2>3 DEF RoomSwitch
    <3>2. Moves(t) /\ ~group'.syncError /\ IsGroup(group')
      BY <1>1, <3>1, MovesAfter DEF Complete, NoGroup, IsGroup
    <3> QED
      BY <2>1, <2>2, <3>2, CallerMoves
  <2>4. CASE ~bad /\ w[t].batch # <<>>
    <3>1. StartLog(t)
      BY <1>5, <2>4 DEF RoomSwitch
    <3>2. Moves(t) /\ ~group'.syncError /\ IsGroup(group')
      BY <1>1, <3>1, MovesTo DEF StartLog, IsGroup
    <3> QED
      BY <2>1, <2>2, <3>2, CallerMoves
  <2>5. CASE ~bad /\ w[t].batch = <<>>
    <3>1. Complete(t, 1, TRUE, waits)
      BY <1>5, <2>5 DEF RoomSwitch
    <3>2. Moves(t) /\ ~group'.syncError /\ IsGroup(group')
      BY <1>1, <3>1, MovesAfter DEF Complete, NoGroup, IsGroup
    <3> QED
      BY <2>1, <2>2, <3>2, CallerMoves
  <2> QED
    BY <2>3, <2>4, <2>5
<1>6. ASSUME NEW bad \in BOOLEAN, AddRecord(t, bad) \/ Sync(t, bad)
      PROVE  CallsOK'
  <2>1. Same /\ UNCHANGED <<bgVars, bg_error_>> /\ pc[t] \notin {"idle", "manual"}
    BY <1>6 DEF AddRecord, Sync, quietVars, errorVars, manualVars
  <2>2. IsGroup(group') /\ (group'.syncError => group.syncError \/ plan.faults # {})
    <3>1. IsGroup(group)
      BY <1>1 DEF CallersOK
    <3>2. CASE group' = group \/ group' = [group EXCEPT !.ok = FALSE]
      BY <3>1, <3>2 DEF IsGroup
    <3>3. CASE group' = [group EXCEPT !.ok = FALSE, !.syncError = TRUE] /\ "sync" \in plan.faults
      BY <3>1, <3>3 DEF IsGroup
    <3> QED
      BY <1>6, <3>2, <3>3 DEF AddRecord, Sync, Fails
  <2>3. Moves(t)
    BY <1>1, <1>6, MovesTo DEF AddRecord, Sync
  <2>4. BgStays
    BY <2>1 DEF bgVars, BgStays
  <2> QED
    BY <2>1, <2>2, <2>3, <2>4, CallerMoves
<1>7. CASE Insert(t)
  <2>1. Same /\ UNCHANGED <<bgVars, bg_error_>> /\ pc[t] \notin {"idle", "manual"}
    BY <1>7 DEF Insert, errorVars, manualVars
  <2>2. IsGroup(group') /\ (group'.syncError => group.syncError)
    BY <1>1, <1>7 DEF CallersOK, IsGroup, Insert
  <2>3. Moves(t)
    BY <1>1, <1>7, MovesTo DEF Insert
  <2>4. BgStays
    BY <2>1 DEF bgVars, BgStays
  <2> QED
    BY <2>1, <2>2, <2>3, <2>4, CallerMoves
<1>8. CASE WaitImm(t)
  <2>1. Same /\ UNCHANGED <<bgVars, bg_error_, group>> /\ pc[t] = "imm" /\ t \in Compactor /\ IsGroup(group')
    BY <1>1, <1>8 DEF WaitImm, quietVars, queueVars, errorVars, manualVars, CallersOK
  <2>2. Moves(t)
    BY <1>1, <1>8, <2>1, MovesNot, MovesTo DEF WaitImm
  <2>3. BgStays
    BY <2>1 DEF bgVars, BgStays
  <2> QED
    BY <2>1, <2>2, <2>3, CallerMoves
<1> QED
  BY <1>2, <1>3, <1>4, <1>5, <1>6, <1>7, <1>8 DEF Running

\* TEST_CompactRange: the caller takes its request back only when it is done.
LEMMA ManualCalls ==
    ASSUME EngineAssumption, ControlOK, CallsOK, NEW t \in Thread, CompactLevel(t)
    PROVE  CallsOK'
<1>1. CallersOK /\ ManualOK
  BY DEF CallsOK
<1>2. pc[t] = "manual" /\ t \in Compactor
  BY <1>1 DEF CompactLevel, CallersOK
<1>3. UNCHANGED <<plan, rounds, group, bg_error_, shutting_down_, crashed>>
  BY DEF CompactLevel, queueVars, errorVars
<1>4. ~shutting_down_ /\ plan.faults = {} /\ ~bg_error_
  BY <1>1, <1>2 DEF CallersOK
<1>5. BgStays
  <2>1. UNCHANGED bgVars \/ Schedules(bg_error_, imm_, t, version, current, seekCompaction)
    BY DEF CompactLevel
  <2> QED
    BY <2>1, SchedulesStays
<1>6. /\ bg'.at = "fail" => bg.at = "fail"
      /\ Compacting(bg') /\ bg'.manual => Compacting(bg) /\ bg.manual
  BY <1>5, BgStaysFacts
<1>7. t # None
  BY DEF EngineAssumption
<1>8. CASE ~manualDone[t]
  <2>1. /\ UNCHANGED <<pc, manualDone>>
        /\ manual_compaction_' = IF manual_compaction_ = None THEN t ELSE manual_compaction_
    BY <1>4, <1>8 DEF CompactLevel, KeepsWaiting
  <2>2. CallersOK'
    BY <1>1, <1>3, <1>6, <2>1 DEF CallersOK
  <2>3. ManualOK'
    BY <1>1, <1>2, <1>3, <1>6, <1>7, <1>8, <2>1 DEF ManualOK
  <2> QED
    BY <2>2, <2>3 DEF CallsOK
<1>9. CASE manualDone[t]
  <2>1. manual_compaction_ # t
    BY <1>1, <1>7, <1>9 DEF ManualOK
  <2>2. /\ pc' = [pc EXCEPT ![t] = "idle"] /\ manual_compaction_' = manual_compaction_
        /\ manualDone' = [manualDone EXCEPT ![t] = FALSE]
    BY <1>9, <2>1 DEF CompactLevel, KeepsWaiting
  <2>3. DOMAIN pc' = Thread /\ pc'[t] = "idle" /\ \A x \in Thread : x # t => pc'[x] = pc[x]
    BY <1>1, <2>2 DEF CallersOK
  <2>4. CallersOK'
    BY <1>1, <1>3, <1>4, <1>6, <2>3 DEF CallersOK, Thread
  <2>5. manual_compaction_ # None => manual_compaction_ \in Thread
    BY <1>1 DEF ManualOK, Thread
  <2>6. ManualOK'
    BY <1>1, <1>3, <1>6, <2>1, <2>2, <2>3, <2>5 DEF ManualOK
  <2> QED
    BY <2>4, <2>6 DEF CallsOK
<1> QED
  BY <1>8, <1>9

\* A step of the background thread that leaves the request alone.
LEMMA BackgroundSame ==
    ASSUME CallsOK, UNCHANGED <<plan, pc, rounds, group, shutting_down_, manual_compaction_, manualDone, crashed>>,
           bg'.at = "fail" => bg.at = "fail" \/ plan.faults # {} \/ shutting_down_,
           bg_error_' => bg_error_ \/ plan.faults # {} \/ shutting_down_,
           Compacting(bg') /\ bg'.manual => (Compacting(bg) /\ bg.manual) \/ manual_compaction_ # None
    PROVE  CallsOK'
<1>1. CallersOK /\ ManualOK
  BY DEF CallsOK
<1>2. CallersOK'
  BY <1>1 DEF CallersOK
<1>3. ManualOK'
  BY <1>1 DEF ManualOK
<1> QED
  BY <1>2, <1>3 DEF CallsOK

\* No step of the background thread breaks what the callers rely on: it
\* follows manual_compaction_ only while the caller that set it still waits.
LEMMA BackgroundCalls ==
    ASSUME ControlOK, CallsOK, Background
    PROVE  CallsOK'
<1>1. CallersOK /\ ManualOK /\ IsWork(bg)
  BY DEF CallsOK, ControlOK
<1> DEFINE Same == UNCHANGED <<plan, pc, rounds, group, shutting_down_>>
           Manual == UNCHANGED <<manual_compaction_, manualDone, crashed>>
<1>2. CASE BackgroundCall
  <2>1. Same /\ UNCHANGED <<crashed, bg_error_>> /\ bg.at = "scheduled"
    BY <1>2 DEF BackgroundCall, queueVars, errorVars
  <2>2. \/ bg' = [bg EXCEPT !.at = "finish"] /\ UNCHANGED <<manual_compaction_, manualDone>>
        \/ StartFlush("finish") /\ UNCHANGED <<manual_compaction_, manualDone>>
        \/ /\ bg' = [bg EXCEPT !.at = "finish"] /\ manual_compaction_' = None
           /\ manualDone' = IF manual_compaction_ # None
                            THEN [manualDone EXCEPT ![manual_compaction_] = TRUE] ELSE manualDone
        \/ /\ bg' = [bg EXCEPT !.at = IF IsTrivialMove(PickCompaction) THEN "logMove" ELSE "work",
                             !.input = current, !.manual = (manual_compaction_ # None),
                             !.oldest = IF Snapshots = {} THEN LastSequence ELSE Min(Snapshots)]
           /\ UNCHANGED <<manual_compaction_, manualDone>>
    <3>1. CASE shutting_down_ \/ bg_error_
      BY <1>2, <3>1 DEF BackgroundCall, manualVars
    <3>2. CASE ~(shutting_down_ \/ bg_error_) /\ imm_ # None
      BY <1>2, <3>2 DEF BackgroundCall, manualVars
    <3>3. CASE ~(shutting_down_ \/ bg_error_) /\ imm_ = None
      <4>1. CASE PickCompaction = {}
        BY <1>2, <3>3, <4>1 DEF BackgroundCall
      <4>2. CASE PickCompaction # {}
        BY <1>2, <3>3, <4>2 DEF BackgroundCall, manualVars
      <4> QED
        BY <4>1, <4>2
    <3> QED
      BY <3>1, <3>2, <3>3
  <2>3. bg'.at # "fail" /\ (Compacting(bg') /\ bg'.manual => manual_compaction_ # None /\ manual_compaction_' # None)
    BY <1>1, <2>1, <2>2 DEF IsWork, StartFlush, Compacting
  <2>4. CASE UNCHANGED <<manual_compaction_, manualDone>>
    BY <2>1, <2>3, <2>4, BackgroundSame
  <2>5. CASE manual_compaction_' = None
    <3>1. DOMAIN manualDone' = DOMAIN manualDone
      BY <2>2
    <3>2. ManualOK'
      BY <1>1, <2>1, <2>3, <2>5, <3>1 DEF ManualOK
    <3>3. CallersOK'
      BY <1>1, <2>1, <2>3 DEF CallersOK
    <3> QED
      BY <3>2, <3>3 DEF CallsOK
  <2> QED
    BY <2>2, <2>4, <2>5
<1>3. CASE WorkFlush \/ WorkStopped \/ BackgroundCallDone
  <2>1. Same /\ Manual /\ UNCHANGED bg_error_
    BY <1>3 DEF WorkFlush, WorkStopped, BackgroundCallDone, queueVars, quietVars, errorVars, manualVars
  <2>2. bg'.at = "fail" => shutting_down_
    BY <1>1, <1>3 DEF WorkFlush, WorkStopped, BackgroundCallDone, StartFlush, Resting, IsWork
  <2>3. Compacting(bg') /\ bg'.manual => Compacting(bg) /\ bg.manual
    BY <1>1, <1>3 DEF WorkFlush, WorkStopped, BackgroundCallDone, StartFlush, Resting, IsWork, Compacting
  <2> QED
    BY <2>1, <2>2, <2>3, BackgroundSame
<1>4. ASSUME NEW bad \in BOOLEAN, BuildTable(bad) \/ LogFlush(bad)
      PROVE  CallsOK'
  <2>1. Same /\ Manual
    BY <1>4 DEF BuildTable, LogFlush, queueVars, manualVars
  <2>2. bg_error_' => bg_error_ \/ plan.faults # {} \/ shutting_down_
    BY <1>4 DEF BuildTable, LogFlush, Fails, Built
  <2>3. bg.at \in {"build", "logFlush"} /\ bg.ret \in {"finish", "work"}
    BY <1>1, <1>4 DEF BuildTable, LogFlush, IsWork
  <2>4. \/ bg' = [bg EXCEPT !.at = bg.ret]
        \/ bg' = [bg EXCEPT !.at = "logFlush", !.log = logfile_number_,
                            !.level = IF version[bg.base] = <<{}, {}>> THEN 2 ELSE 1]
    BY <1>4 DEF BuildTable, LogFlush
  <2>5. bg'.at # "fail" /\ (Compacting(bg') /\ bg'.manual => Compacting(bg) /\ bg.manual)
    BY <1>1, <2>3, <2>4 DEF IsWork, Compacting
  <2> QED
    BY <2>1, <2>2, <2>5, BackgroundSame
<1>5. ASSUME NEW bad \in BOOLEAN, OpenCompactionOutputFile(bad) \/ FinishCompactionOutputFile(bad)
      PROVE  CallsOK'
  <2>1. Same /\ Manual /\ UNCHANGED bg_error_ /\ bg.at = "work"
    BY <1>5 DEF OpenCompactionOutputFile, FinishCompactionOutputFile, queueVars, quietVars, errorVars, manualVars
  <2>2. bad => plan.faults # {}
    BY <1>5 DEF OpenCompactionOutputFile, FinishCompactionOutputFile, Fails
  <2>3. (bg'.at = "fail" => bad) /\ (bg'.manual => bg.manual)
    BY <1>1, <1>5 DEF OpenCompactionOutputFile, FinishCompactionOutputFile, IsWork
  <2>4. Compacting(bg)
    BY <2>1 DEF Compacting
  <2> QED
    BY <2>1, <2>2, <2>3, <2>4, BackgroundSame
<1>6. ASSUME NEW bad \in BOOLEAN, LogMerge(bad)
      PROVE  CallsOK'
  <2>1. /\ Same /\ bg' = [bg EXCEPT !.at = "finish"] /\ bg.at \in {"logMerge", "fail"}
        /\ ManualEpilogue(~bad)
    BY <1>6 DEF LogMerge, queueVars
  <2>2. bg_error_' => bg_error_ \/ plan.faults # {} \/ shutting_down_
    BY <1>1, <1>6 DEF LogMerge, Fails, CallersOK
  <2>3. bg'.at = "finish" /\ ~Compacting(bg') /\ Compacting(bg)
    BY <1>1, <2>1 DEF IsWork, Compacting
  <2>4. CallersOK'
    BY <1>1, <2>1, <2>2, <2>3 DEF CallersOK
  <2>5. ~crashed'
    BY <1>1, <2>1, <2>3 DEF ManualEpilogue, ManualOK
  <2>6. CASE manual_compaction_' = None
    <3>1. DOMAIN manualDone' = DOMAIN manualDone
      BY <2>1 DEF ManualEpilogue, manualVars
    <3>2. ManualOK'
      BY <1>1, <2>3, <2>5, <2>6, <3>1 DEF ManualOK
    <3> QED
      BY <2>4, <3>2 DEF CallsOK
  <2>7. CASE UNCHANGED <<manual_compaction_, manualDone>>
    <3>1. ManualOK'
      BY <1>1, <2>1, <2>3, <2>5, <2>7 DEF ManualOK
    <3> QED
      BY <2>4, <3>1 DEF CallsOK
  <2> QED
    BY <2>1, <2>6, <2>7 DEF ManualEpilogue, manualVars
<1>7. ASSUME NEW bad \in BOOLEAN, LogMove(bad)
      PROVE  CallsOK'
  <2>1. Same /\ Manual /\ bg' = [bg EXCEPT !.at = "finish"]
    BY <1>7 DEF LogMove, queueVars, manualVars
  <2>2. bg_error_' => bg_error_ \/ plan.faults # {}
    BY <1>7 DEF LogMove, Fails
  <2>3. bg'.at = "finish" /\ ~Compacting(bg')
    BY <1>1, <2>1 DEF IsWork, Compacting
  <2> QED
    BY <2>1, <2>2, <2>3, BackgroundSame
<1> QED
  BY <1>2, <1>3, <1>4, <1>5, <1>6, <1>7 DEF Background

\* Readers and the destructor.
LEMMA OtherCalls ==
    ASSUME ControlOK, CallsOK, (\E r \in Reader : Reading(r)) \/ Close \/ UNCHANGED vars
    PROVE  CallsOK'
<1>1. CallersOK /\ ManualOK
  BY DEF CallsOK
<1> DEFINE Same == UNCHANGED <<plan, pc, shutting_down_, manual_compaction_, manualDone, crashed, group, bg_error_>>
<1>2. ASSUME NEW r \in Reader, Reading(r)
      PROVE  CallsOK'
  <2>1. CASE GetSnapshot(r) \/ ReleaseSnapshot(r) \/ UNCHANGED vars
    <3>1. Same /\ UNCHANGED <<rounds, bg>>
      BY <2>1 DEF GetSnapshot, ReleaseSnapshot, queueVars, bgVars, errorVars, manualVars, vars
    <3>2. BgStays /\ rounds' \in [Thread \cup Reader -> Nat]
      BY <1>1, <3>1 DEF BgStays, CallersOK
    <3> QED
      BY <3>1, <3>2, CallersSame
  <2>2. ASSUME NEW key \in Key, Get(r, key)
        PROVE  CallsOK'
    <3>1. Same /\ UNCHANGED bg /\ rounds' = [rounds EXCEPT ![r] = @ + 1]
      BY <2>2 DEF Get, bgVars, errorVars, manualVars
    <3>2. BgStays /\ rounds' \in [Thread \cup Reader -> Nat]
      BY <1>1, <3>1 DEF BgStays, CallersOK
    <3> QED
      BY <3>1, <3>2, CallersSame
  <2>3. ASSUME NEW seek \in BOOLEAN, GetDone(r, seek)
        PROVE  CallsOK'
    <3>1. Same /\ UNCHANGED rounds
      BY <2>3 DEF GetDone, queueVars, errorVars, manualVars
    <3>2. PICK s : s = (IF seek THEN seekCompaction \cup {get[r].version} ELSE seekCompaction)
      OBVIOUS
    <3>3. UNCHANGED bgVars \/ Schedules(bg_error_, imm_, manual_compaction_, version, current, s)
      BY <2>3, <3>2 DEF GetDone
    <3>4. BgStays /\ rounds' \in [Thread \cup Reader -> Nat]
      BY <1>1, <3>1, <3>3, SchedulesStays DEF CallersOK
    <3> QED
      BY <3>1, <3>4, CallersSame
  <2> QED
    BY <1>2, <2>1, <2>2, <2>3 DEF Reading
<1>3. CASE Close
  <2>1. /\ \A t \in Thread : pc[t] = "idle"
        /\ UNCHANGED <<plan, pc, rounds, group, bg, bg_error_, manual_compaction_, manualDone, crashed>>
    BY <1>3 DEF Close, queueVars, bgVars, manualVars
  <2>2. shutting_down_' = TRUE
    BY <1>3 DEF Close
  <2>3. IsGroup(group')
    BY <1>1, <2>1 DEF CallersOK
  <2>4. CallersOK'
    BY <1>1, <2>1, <2>2, <2>3 DEF CallersOK
  <2>5. ManualOK'
    BY <1>1, <2>1 DEF ManualOK
  <2> QED
    BY <2>4, <2>5 DEF CallsOK
<1>4. CASE UNCHANGED vars
  <2>1. Same /\ UNCHANGED <<rounds, bg>>
    BY <1>4 DEF vars
  <2>2. BgStays /\ rounds' \in [Thread \cup Reader -> Nat]
    BY <1>1, <2>1 DEF BgStays, CallersOK
  <2> QED
    BY <2>1, <2>2, CallersSame
<1> QED
  BY <1>2, <1>3, <1>4

\* All that together.
LEMMA CallsStep ==
    ASSUME EngineAssumption, Separate, RefsOK, CallsOK, [Next]_vars
    PROVE  CallsOK'
<1>1. ControlOK
  BY DEF RefsOK
<1>2. ASSUME NEW t \in Thread, Put(t) \/ CompactRange(t) \/ Running(t) \/ CompactLevel(t)
      PROVE  CallsOK'
  BY <1>1, <1>2, BeginCalls, RunningCalls, ManualCalls
<1>3. CASE Background
  BY <1>1, <1>3, BackgroundCalls
<1>4. CASE (\E r \in Reader : Reading(r)) \/ Close \/ UNCHANGED vars
  BY <1>1, <1>4, OtherCalls
<1>5. Stop => UNCHANGED vars
  BY DEF Stop
<1> QED
  BY <1>2, <1>3, <1>4, <1>5 DEF Next

\* Nobody is inside a call when the database has been opened.
LEMMA CallsInit ==
    ASSUME EngineAssumption, Init
    PROVE  CallsOK
<1>1. /\ plan \in Plan /\ pc = [t \in Thread |-> "idle"] /\ rounds = [t \in Thread \cup Reader |-> 0]
      /\ group = NoGroup /\ ~bg_error_ /\ ~shutting_down_ /\ ~crashed /\ manual_compaction_ = None
      /\ manualDone = [t \in Compactor |-> FALSE]
  BY DEF Init
<1>2. bg.at \in {"none", "scheduled"} /\ ~Compacting(bg)
  BY DEF Init, Resting, Compacting
<1>3. IsGroup(group) /\ ~group.syncError
  BY <1>1 DEF NoGroup, IsGroup
<1>a. CallersOK
  <2>1. rounds \in [Thread \cup Reader -> Nat] /\ DOMAIN pc = Thread /\ \A t \in Thread : pc[t] = "idle"
    BY <1>1
  <2>2. bg.at # "fail"
    BY <1>2
  <2>3. \A t \in Thread : pc[t] \notin {"imm", "manual"}
    BY <2>1
  <2>4. plan.faults # {} => \A t \in Compactor : pc[t] = "idle"
    BY <2>1 DEF Thread
  <2> QED
    BY <1>1, <1>3, <2>1, <2>2, <2>3, <2>4 DEF CallersOK
<1>4. ManualOK
  BY <1>1, <1>2 DEF ManualOK
<1> QED
  BY <1>a, <1>4 DEF CallsOK

\* The background thread does not follow manual_compaction_ after its caller took it back, where
\* no call of the environment fails beside CompactRange (BackgroundCompaction, TEST_CompactRange).
THEOREM ManualStays ==
    ASSUME Separate
    PROVE  Spec => []NeverCrashes
<1>1. Init => RefsOK /\ CallsOK
  BY EngineAssumption, RefsInit, CallsInit
<1>2. RefsOK /\ CallsOK /\ [Next]_vars => (RefsOK /\ CallsOK)'
  BY EngineAssumption, Separate, RefsStep, CallsStep
<1>3. RefsOK /\ CallsOK => NeverCrashes
  BY DEF CallsOK, ManualOK, NeverCrashes
<1> QED
  BY <1>1, <1>2, <1>3, PTL DEF Spec

-----------------------------------------------------------------------------
(* What is written stays: the queue of the writers, the group that is      *)
(* being logged, the logs, and where every entry is.                       *)

InGroup(x) == pc[x] \in {"log", "sync", "insert", "commit"}
Working(x) == InGroup(x) \/ pc[x] \in {"room", "roomsleep", "roomwait"}

IsWriter(r) ==
    /\ DOMAIN r = {"batch", "sync", "done", "ok", "delay", "must"}
    /\ r.batch \in Seq(Key)

\* One thread works for the queue, the first one; who waits is in it or done.
QueueOK ==
    /\ DOMAIN pc = Thread /\ DOMAIN w = Thread /\ writers_ \in Seq(Thread)
    /\ \A x \in Thread : IsWriter(w[x])
    /\ \A x \in Thread : Working(x) => writers_ # <<>> /\ writers_[1] = x
    /\ \A x \in Thread : pc[x] = "queued" /\ ~w[x].done => x \in Range(writers_)

\* A writer that is entered.
LEMMA WriterShapes ==
    ASSUME NEW must, NEW batch \in Seq(Key), NEW sync, NEW delay
    PROVE  IsWriter([batch |-> batch, sync |-> sync, done |-> FALSE, ok |-> TRUE, delay |-> delay,
                     must |-> must])
BY DEF IsWriter

\* A writer that is reset, delayed once, or told.
LEMMA WriterChanges ==
    ASSUME NEW r, IsWriter(r), NEW must
    PROVE  /\ IsWriter([NoWriter EXCEPT !.must = must]) /\ IsWriter([r EXCEPT !.delay = FALSE])
           /\ IsWriter([r EXCEPT !.done = TRUE, !.ok = must]) /\ [r EXCEPT !.done = TRUE, !.ok = must].done
<1>1. <<>> \in Seq(Key)
  OBVIOUS
<1>2. IsWriter(NoWriter)
  BY <1>1 DEF IsWriter, NoWriter
<1>3. ASSUME NEW q, IsWriter(q)
      PROVE  IsWriter([q EXCEPT !.must = must])
  BY <1>3 DEF IsWriter
<1> QED
  BY <1>2, <1>3 DEF IsWriter

\* A thread joins the queue.
LEMMA WriteQueue ==
    ASSUME QueueOK, NEW t \in Thread, NEW batch \in Seq(Key), NEW sync, Write(t, batch, sync)
    PROVE  QueueOK'
<1>1. writers_' = Append(writers_, t) /\ pc[t] = "idle"
      /\ pc' = [pc EXCEPT ![t] = IF writers_ = <<>> THEN "room" ELSE "queued"]
  BY DEF Write
<1>2. PICK r : r = [batch |-> batch, sync |-> sync, done |-> FALSE, ok |-> TRUE, delay |-> batch # <<>>,
                    must |-> IF batch = <<>> THEN table[mem_] ELSE {}]
  OBVIOUS
<1>3. IsWriter(r) /\ w' = [w EXCEPT ![t] = r]
  BY <1>2, WriterShapes DEF Write
<1>4. /\ writers_' \in Seq(Thread) /\ Len(writers_') = Len(writers_) + 1 /\ Len(writers_) \in Nat
      /\ \A i \in 1..Len(writers_) : writers_'[i] = writers_[i]
      /\ writers_'[Len(writers_) + 1] = t
  BY <1>1, AppendAt DEF QueueOK
<1>5. DOMAIN writers_' = 1..Len(writers_') /\ DOMAIN writers_ = 1..Len(writers_) /\ writers_' # <<>>
  BY <1>4, LenProperties DEF QueueOK
<1>6. \A x \in Range(writers_) \cup {t} : x \in Range(writers_')
  BY <1>4, <1>5 DEF Range
<1>7. ASSUME NEW x \in Thread, Working(x)'
      PROVE  writers_'[1] = x
  <2>1. CASE writers_ = <<>>
    <3>1. \A y \in Thread : ~Working(y)
      BY <2>1 DEF QueueOK
    <3>2. x = t
      BY <1>1, <1>7, <3>1 DEF QueueOK, Working, InGroup
    <3> QED
      BY <1>4, <2>1, <3>2
  <2>2. CASE writers_ # <<>>
    <3>1. Working(x)
      BY <1>1, <1>7, <2>2 DEF QueueOK, Working, InGroup
    <3>2. Len(writers_) # 0
      BY <1>4, <2>2, EmptySeq DEF QueueOK
    <3> QED
      BY <1>4, <3>1, <3>2 DEF QueueOK
  <2> QED
    BY <2>1, <2>2
<1>8. DOMAIN pc' = Thread /\ DOMAIN w' = Thread /\ \A x \in Thread : IsWriter(w'[x])
  BY <1>1, <1>3 DEF QueueOK
<1>9. ASSUME NEW x \in Thread, pc'[x] = "queued", ~w'[x].done
      PROVE  x \in Range(writers_')
  <2>1. CASE x = t
    BY <1>6, <2>1
  <2>2. CASE x # t
    BY <1>1, <1>3, <1>6, <1>9, <2>2 DEF QueueOK
  <2> QED
    BY <2>1, <2>2
<1> QED
  BY <1>4, <1>5, <1>7, <1>8, <1>9 DEF QueueOK

\* The thread at the front leaves the queue with the first k writers.
LEMMA CompleteQueue ==
    ASSUME QueueOK, NEW t \in Thread, Working(t), NEW k \in 1..Len(writers_), NEW ok, NEW STATE ws,
           Complete(t, k, ok, ws)
    PROVE  /\ QueueOK' /\ \A x \in Thread : ~Working(x)'
<1>1. PICK q : q = writers_
  OBVIOUS
<1>2. q \in Seq(Thread) /\ Len(q) \in Nat /\ DOMAIN q = 1..Len(q) /\ k \in 1..Len(q) /\ q[1] = t
  BY <1>1, LenProperties DEF QueueOK
<1>3. PICK done, rest : done = {q[i] : i \in 1..k} \ {t} /\ rest = [i \in 1..(Len(q) - k) |-> q[k + i]]
  OBVIOUS
<1>4. /\ writers_' = rest
      /\ w' = [x \in Thread |-> IF x \in done THEN [w[x] EXCEPT !.done = TRUE, !.ok = ok]
                                ELSE IF x = t THEN [NoWriter EXCEPT !.must = w[t].must] ELSE w[x]]
      /\ pc' = [pc EXCEPT ![t] = After(t, ok)]
  BY <1>1, <1>3 DEF Complete
<1>5. rest \in Seq(Thread) /\ DOMAIN rest = 1..(Len(q) - k) /\ \A i \in 1..(Len(q) - k) : rest[i] = q[k + i]
  <2>1. \A i \in 1..(Len(q) - k) : k + i \in 1..Len(q) /\ q[k + i] \in Thread
    BY <1>2
  <2>a. k \in Nat /\ k <= Len(q) /\ Len(q) - k \in Nat
    BY <1>2
  <2>2. PICK n \in Nat : n = Len(q) - k
    BY <2>a
  <2>3. [i \in 1..n |-> q[k + i]] \in Seq(Thread)
    BY <2>1, <2>2
  <2> QED
    BY <1>3, <2>2, <2>3
<1>6. DOMAIN pc' = Thread /\ DOMAIN w' = Thread
  BY <1>4 DEF QueueOK
<1>7. ASSUME NEW x \in Thread
      PROVE  IsWriter(w'[x]) /\ (x \in done => w'[x].done) /\ (x \notin done /\ x # t => w'[x] = w[x])
  <2>1. PICK r, m : r = w[x] /\ m = w[t].must
    OBVIOUS
  <2>a. IsWriter(r)
    BY <2>1 DEF QueueOK
  <2>2. CASE x \in done
    <3>1. w'[x] = [r EXCEPT !.done = TRUE, !.ok = ok]
      BY <1>4, <2>1, <2>2
    <3>2. x # t
      BY <1>3, <2>2
    <3> QED
      BY <2>a, <2>2, <3>1, <3>2, WriterChanges
  <2>3. CASE x \notin done /\ x = t
    <3>1. w'[x] = [NoWriter EXCEPT !.must = m]
      BY <1>4, <2>1, <2>3
    <3> QED
      BY <2>a, <2>3, <3>1, WriterChanges
  <2>4. CASE x \notin done /\ x # t
    BY <1>4, <2>1, <2>a, <2>4
  <2> QED
    BY <2>2, <2>3, <2>4
<1>8. \A x \in Thread : ~Working(x)'
  <2>1. ASSUME NEW x \in Thread, x # t
        PROVE  ~Working(x)'
    <3>1. ~Working(x)
      BY <1>1, <1>2, <2>1 DEF QueueOK
    <3> QED
      BY <1>4, <2>1, <3>1 DEF Working, InGroup, QueueOK
  <2>2. ~Working(t)'
    BY <1>4 DEF Working, InGroup, QueueOK, After
  <2> QED
    BY <2>1, <2>2
<1>9. ASSUME NEW x \in Thread, pc'[x] = "queued", ~w'[x].done
      PROVE  x \in Range(writers_')
  <2>1. x # t
    BY <1>4, <1>9 DEF After, QueueOK
  <2>2. x \notin done /\ w'[x] = w[x] /\ pc[x] = "queued"
    BY <1>4, <1>7, <1>9, <2>1 DEF QueueOK
  <2>3. x \in Range(q)
    BY <1>1, <1>9, <2>2 DEF QueueOK
  <2>4. PICK i \in 1..Len(q) : q[i] = x
    BY <1>2, <2>3 DEF Range
  <2>5. ~(i \in 1..k)
    BY <1>3, <2>1, <2>2, <2>4
  <2>6. i - k \in 1..(Len(q) - k) /\ k + (i - k) = i
    BY <1>2, <2>5
  <2>7. rest[i - k] = x
    BY <1>5, <2>4, <2>6
  <2> QED
    BY <1>4, <1>5, <2>6, <2>7 DEF Range
<1> QED
  BY <1>4, <1>5, <1>6, <1>7, <1>8, <1>9 DEF QueueOK

\* A thread moves on, what it is asked to write stays.
LEMMA MoveQueue ==
    ASSUME QueueOK, NEW t \in Thread, NEW p, pc' = [pc EXCEPT ![t] = p],
           p # "queued", Working(t)' => writers_ # <<>> /\ writers_[1] = t,
           UNCHANGED writers_, DOMAIN w' = Thread, IsWriter(w'[t]), \A x \in Thread : x # t => w'[x] = w[x]
    PROVE  QueueOK'
<1>1. DOMAIN pc' = Thread /\ pc'[t] = p /\ \A x \in Thread : x # t => pc'[x] = pc[x]
  BY DEF QueueOK
<1>2. \A x \in Thread : x # t => (Working(x)' <=> Working(x))
  BY <1>1 DEF Working, InGroup
<1> QED
  BY <1>1, <1>2 DEF QueueOK

\* No thread moves.
LEMMA SameQueue ==
    ASSUME QueueOK, UNCHANGED <<pc, writers_, w>>
    PROVE  QueueOK'
BY DEF QueueOK, Working, InGroup

\* A thread at work stays the first of the queue.
LEMMA WorkQueue ==
    ASSUME QueueOK, NEW t \in Thread, Working(t), NEW p, pc' = [pc EXCEPT ![t] = p], p # "queued",
           UNCHANGED <<writers_, w>>
    PROVE  QueueOK'
<1>1. writers_ # <<>> /\ writers_[1] = t /\ DOMAIN w' = Thread /\ IsWriter(w'[t])
      /\ \A x \in Thread : x # t => w'[x] = w[x]
  BY DEF QueueOK
<1> QED
  BY <1>1, MoveQueue

\* The first group fits the queue.
GroupFits == \A x \in Thread : InGroup(x) => group.last \in 1..Len(writers_)

\* Who waits in Write, or in MakeRoomForWrite.
LEMMA WaitersQueue ==
    ASSUME QueueOK, GroupFits, NEW t \in Thread,
           \/ Woken(t) \/ RoomError(t) \/ RoomDelay(t) \/ RoomFound(t) \/ RoomWait(t) \/ WaitImm(t)
           \/ CompactLevel(t)
    PROVE  QueueOK'
<1>1. CASE Woken(t)
  <2>1. pc[t] = "queued" /\ UNCHANGED writers_
    BY <1>1 DEF Woken
  <2>2. CASE w[t].done
    <3>1. pc' = [pc EXCEPT ![t] = After(t, w[t].ok)] /\ w' = [w EXCEPT ![t] = [NoWriter EXCEPT !.must = w[t].must]]
      BY <1>1, <2>2 DEF Woken
    <3>3. PICK r, must : r = w[t] /\ must = w[t].must
      OBVIOUS
    <3>4. IsWriter([NoWriter EXCEPT !.must = must])
      BY <3>3, WriterChanges DEF QueueOK
    <3>5. DOMAIN w' = Thread /\ IsWriter(w'[t]) /\ \A x \in Thread : x # t => w'[x] = w[x]
      BY <3>1, <3>3, <3>4 DEF QueueOK
    <3>6. After(t, w[t].ok) # "queued" /\ ~Working(t)'
      BY <3>1 DEF After, Working, InGroup, QueueOK
    <3> QED
      BY <2>1, <3>1, <3>5, <3>6, MoveQueue
  <2>3. CASE ~w[t].done /\ Head(writers_) = t
    <3>1. pc' = [pc EXCEPT ![t] = "room"] /\ UNCHANGED w
      BY <1>1, <2>3 DEF Woken
    <3>2. t \in Range(writers_)
      BY <2>1, <2>3 DEF QueueOK
    <3>3. writers_ # <<>>
      BY <3>2 DEF Range
    <3>4. writers_[1] = t
      BY <2>3, <3>3 DEF QueueOK
    <3>5. DOMAIN w' = Thread /\ IsWriter(w'[t]) /\ \A x \in Thread : x # t => w'[x] = w[x]
      BY <3>1 DEF QueueOK
    <3> QED
      BY <2>1, <3>1, <3>3, <3>4, <3>5, MoveQueue
  <2>4. CASE ~w[t].done /\ Head(writers_) # t
    <3>1. UNCHANGED <<w, pc>>
      BY <1>1, <2>4 DEF Woken
    <3> QED
      BY <2>1, <3>1, SameQueue
  <2> QED
    BY <2>2, <2>3, <2>4
<1>2. CASE RoomError(t)
  <2>1. Working(t) /\ Complete(t, 1, FALSE, waits)
    BY <1>2 DEF RoomError, InRoom, Working
  <2>2. 1 \in 1..Len(writers_)
    BY <2>1, EmptySeq, LenProperties DEF QueueOK
  <2> QED
    BY <2>1, <2>2, CompleteQueue
<1>3. CASE RoomDelay(t)
  <2>1. Working(t) /\ UNCHANGED writers_ /\ pc' = [pc EXCEPT ![t] = "roomsleep"] /\ w' = [w EXCEPT ![t].delay = FALSE]
    BY <1>3 DEF RoomDelay, InRoom, Working
  <2>a. PICK r : r = w[t]
    OBVIOUS
  <2>b. IsWriter([r EXCEPT !.delay = FALSE])
    BY <2>a, WriterChanges DEF QueueOK
  <2>2. DOMAIN w' = Thread /\ IsWriter(w'[t]) /\ \A x \in Thread : x # t => w'[x] = w[x]
    BY <2>1, <2>a, <2>b DEF QueueOK
  <2>3. writers_ # <<>> /\ writers_[1] = t
    BY <2>1 DEF QueueOK
  <2> QED
    BY <2>1, <2>2, <2>3, MoveQueue
<1>4. CASE RoomFound(t) \/ RoomWait(t)
  <2>1. Working(t) /\ UNCHANGED <<writers_, w>> /\ \E p \in {"log", "roomwait"} : pc' = [pc EXCEPT ![t] = p]
    BY <1>4 DEF RoomFound, RoomWait, StartLog, InRoom, Working, queueVars
  <2> QED
    BY <2>1, WorkQueue
<1>5. CASE WaitImm(t) \/ CompactLevel(t)
  <2>1. UNCHANGED <<writers_, w>> /\ (UNCHANGED pc \/ \E p \in {"manual", "idle"} : pc' = [pc EXCEPT ![t] = p])
    BY <1>5 DEF WaitImm, CompactLevel, queueVars
  <2>2. ASSUME NEW p \in {"manual", "idle"}, pc' = [pc EXCEPT ![t] = p]
        PROVE  QueueOK'
    <3>1. ~Working(t)' /\ p # "queued"
      BY <2>2 DEF Working, InGroup, QueueOK
    <3>2. DOMAIN w' = Thread /\ IsWriter(w'[t]) /\ \A x \in Thread : x # t => w'[x] = w[x]
      BY <2>1 DEF QueueOK
    <3> QED
      BY <2>1, <2>2, <3>1, <3>2, MoveQueue
  <2> QED
    BY <2>1, <2>2, SameQueue
<1> QED
  BY <1>1, <1>2, <1>3, <1>4, <1>5

\* The front writer at work.
LEMMA WorkersQueue ==
    ASSUME QueueOK, GroupFits, NEW t \in Thread, NEW bad,
           RoomSwitch(t, bad) \/ AddRecord(t, bad) \/ Sync(t, bad) \/ Insert(t) \/ Commit(t)
    PROVE  QueueOK'
<1>1. CASE RoomSwitch(t, bad)
  <2>1. Working(t)
    BY <1>1 DEF RoomSwitch, InRoom, Working
  <2>2. 1 \in 1..Len(writers_)
    BY <2>1, EmptySeq, LenProperties DEF QueueOK
  <2>3. StartLog(t) \/ \E ok \in BOOLEAN : Complete(t, 1, ok, waits)
    BY <1>1 DEF RoomSwitch
  <2>4. CASE StartLog(t)
    <3>1. UNCHANGED <<writers_, w>> /\ pc' = [pc EXCEPT ![t] = "log"]
      BY <2>4 DEF StartLog
    <3> QED
      BY <2>1, <3>1, WorkQueue
  <2> QED
    BY <2>1, <2>2, <2>3, <2>4, CompleteQueue
<1>2. CASE AddRecord(t, bad) \/ Sync(t, bad) \/ Insert(t)
  <2>1. /\ Working(t) /\ UNCHANGED <<writers_, w>>
        /\ \E p \in {"commit", "sync", "insert"} : pc' = [pc EXCEPT ![t] = p]
    BY <1>2 DEF AddRecord, Sync, Insert, Working, InGroup
  <2> QED
    BY <2>1, WorkQueue
<1>3. CASE Commit(t)
  <2>1. Working(t) /\ InGroup(t)
    BY <1>3 DEF Commit, Working, InGroup
  <2>2. PICK k, ok, ws : k = group.last /\ ok = group.ok /\ Complete(t, k, ok, ws)
    BY <1>3 DEF Commit
  <2>3. k \in 1..Len(writers_)
    BY <2>1, <2>2 DEF GroupFits
  <2> QED
    BY <2>1, <2>2, <2>3, CompleteQueue
<1> QED
  BY <1>1, <1>2, <1>3

-----------------------------------------------------------------------------
(* The group of the front writer.                                          *)

Pair(e) == <<e[1], e[2]>>

\* The entries of the first n records of a log.
LogPairs(records, n) == {Pair(e) : e \in UNION {records[i] : i \in 1..n}}

NumberedFrom(entries, n, sync) ==
    \A e \in Range(entries) : /\ e[1] \in Nat /\ n < e[1] /\ e[1] <= n + Len(entries)
                              /\ e[2] \in Key /\ (e[3] => sync)

LeftOf(g, contents) ==
    /\ g.left \in Seq(Range(g.entries))
    /\ \A e \in Range(g.entries) : e \in Range(g.left) \/ Pair(e) \in contents

LoggedIn(entries, records, n) == \A e \in Range(entries) : Pair(e) \in LogPairs(records, n)

\* The group of the thread x: its entries have the next numbers, each is to be
\* put into mem_ or there; they are logged first, and synced where x asks for it.
GroupOf(x) ==
    /\ group.last \in 1..Len(writers_)
    /\ Len(group.entries) # 0
    /\ NumberedFrom(group.entries, LastSequence, w[x].sync)
    /\ LeftOf(group, table[mem_])
    /\ pc[x] = "commit" /\ group.ok => group.left = <<>>
    /\ pc[x] # "commit" => group.left # <<>> /\ group.ok
    /\ pc[x] # "log" /\ group.ok => LoggedIn(group.entries, log[mem_], Len(log[mem_]))
    /\ pc[x] \in {"insert", "commit"} /\ w[x].sync /\ group.ok =>
          LoggedIn(group.entries, log[mem_], synced[mem_])

GroupOK ==
    /\ IsGroup(group) /\ Len(group.entries) \in Nat
    /\ \A x \in Thread : InGroup(x) => GroupOf(x)
    /\ (\A x \in Thread : ~InGroup(x)) => group = NoGroup

\* A step that leaves the group alone.
LEMMA GroupSame ==
    ASSUME GroupOK, UNCHANGED <<group, LastSequence, mem_>>, table'[mem_] = table[mem_],
           log'[mem_] = log[mem_], synced'[mem_] = synced[mem_],
           \A x \in Thread : InGroup(x)' <=> InGroup(x),
           \A x \in Thread : InGroup(x) => pc'[x] = pc[x] /\ w'[x].sync = w[x].sync,
           Len(writers_) \in Nat, Len(writers_') \in Nat, Len(writers_) <= Len(writers_')
    PROVE  GroupOK'
<1>1. ASSUME NEW x \in Thread, InGroup(x)'
      PROVE  GroupOf(x)'
  <2>1. InGroup(x) /\ GroupOf(x) /\ pc'[x] = pc[x] /\ w'[x].sync = w[x].sync
    BY <1>1 DEF GroupOK
  <2>2. group.last \in 1..Len(writers_')
    BY <2>1 DEF GroupOf
  <2> QED
    BY <2>1, <2>2 DEF GroupOf
<1> QED
  BY <1>1 DEF GroupOK

\* The group is through.
LEMMA GroupGone ==
    ASSUME group' = NoGroup, \A x \in Thread : ~Working(x)'
    PROVE  GroupOK'
<1>1. IsGroup(NoGroup) /\ NoGroup.entries = <<>> /\ Len(<<>>) = 0
  BY DEF IsGroup, NoGroup
<1> QED
  BY <1>1 DEF GroupOK, Working

\* The front writer takes itself, and none that asks for a sync it does not ask for.
LEMMA BatchGroupFacts ==
    ASSUME QueueOK, NEW t \in Thread, Working(t)
    PROVE  /\ BatchGroup \in 1..Len(writers_) /\ Len(writers_) \in Nat
           /\ \A i \in 1..BatchGroup : w[writers_[i]].sync => w[t].sync
<1>1. PICK q : q = writers_
  OBVIOUS
<1>2. q \in Seq(Thread) /\ q # <<>> /\ q[1] = t
  BY <1>1 DEF QueueOK
<1>3. Len(q) \in Nat /\ Len(q) # 0
  BY <1>2, LenProperties, EmptySeq
<1>4. PICK S : S = {k \in 1..Len(q) : \A i \in 2..k : Joins(i)}
  OBVIOUS
<1>5. S \in SUBSET Nat /\ S # {} /\ Bounded(S)
  <2>1. 1 \in S
    BY <1>3, <1>4
  <2>2. \A k \in S : k <= Len(q)
    BY <1>3, <1>4
  <2>3. Bounded(S)
    BY <1>3, <2>2 DEF Bounded
  <2>4. S \in SUBSET Nat
    BY <1>3, <1>4
  <2> QED
    BY <2>1, <2>3, <2>4
<1>6. Max(S) \in S
  BY <1>5, MaxFacts
<1>7. BatchGroup = Max(S)
  BY <1>1, <1>4 DEF BatchGroup
<1>8. PICK k : k = BatchGroup
  OBVIOUS
<1>9. k \in 1..Len(q) /\ \A i \in 2..k : Joins(i)
  BY <1>4, <1>6, <1>7, <1>8
<1>10. ASSUME NEW i \in 1..k, w[q[i]].sync
       PROVE  w[t].sync
  <2>1. CASE i = 1
    BY <1>2, <1>10, <2>1
  <2>2. CASE i # 1
    <3>1. i \in 2..k
      BY <1>3, <1>9, <2>2
    <3> QED
      BY <1>1, <1>2, <1>9, <1>10, <3>1 DEF Joins
  <2> QED
    BY <2>1, <2>2
<1> QED
  BY <1>1, <1>3, <1>8, <1>9, <1>10

\* The entries of a new group.
LEMMA GroupEntriesFacts ==
    ASSUME QueueOK, LastSequence \in Nat, NEW t \in Thread, Working(t), w[t].batch # <<>>
    PROVE  /\ GroupEntries(BatchGroup) \in Seq(Range(GroupEntries(BatchGroup)))
           /\ Len(GroupEntries(BatchGroup)) \in Nat /\ Len(GroupEntries(BatchGroup)) # 0
           /\ NumberedFrom(GroupEntries(BatchGroup), LastSequence, w[t].sync)
<1>1. PICK k, q : k = BatchGroup /\ q = writers_
  OBVIOUS
<1>2. k \in 1..Len(q) /\ Len(q) \in Nat /\ k \in Nat /\ k # 0 /\ (\A i \in 1..k : w[q[i]].sync => w[t].sync)
  BY <1>1, BatchGroupFacts
<1>3. q \in Seq(Thread) /\ q[1] = t
  BY <1>1 DEF QueueOK
<1> DEFINE U == {w[x].sync : x \in Thread}
           P == {p \in Key \X U : p[2] => w[t].sync}
<1>4. ASSUME NEW x \in Thread, w[x].sync => w[t].sync
      PROVE  Marked(x) \in Seq(P) /\ Len(Marked(x)) = Len(w[x].batch)
  <2>1. PICK b, s : b = w[x].batch /\ s = w[x].sync
    OBVIOUS
  <2>2. b \in Seq(Key) /\ s \in U /\ (s => w[t].sync)
    BY <1>4, <2>1 DEF QueueOK, IsWriter
  <2>3. Len(b) \in Nat /\ \A i \in 1..Len(b) : <<b[i], s>> \in P
    BY <2>2, LenProperties
  <2>4. Marked(x) = [i \in 1..Len(b) |-> <<b[i], s>>]
    BY <2>1 DEF Marked
  <2> HIDE DEF P
  <2>5. [i \in 1..Len(b) |-> <<b[i], s>>] \in Seq(P) /\ Len([i \in 1..Len(b) |-> <<b[i], s>>]) = Len(b)
    BY <2>3
  <2> QED
    BY <2>1, <2>4, <2>5
<1>5. PICK ss : ss = [i \in 1..k |-> Marked(q[i])]
  OBVIOUS
<1>6. \A i \in 1..k : q[i] \in Thread /\ ss[i] = Marked(q[i]) /\ ss[i] \in Seq(P)
  <2> TAKE i \in 1..k
  <2>1. i \in 1..Len(q)
    BY <1>2
  <2>2. q[i] \in Thread
    BY <1>3, <2>1
  <2> QED
    BY <1>2, <1>4, <1>5, <2>2
<1>7. Len(ss[1]) # 0 /\ Len(ss[1]) \in Nat
  <2>1. w[t].batch \in Seq(Key)
    BY DEF QueueOK, IsWriter
  <2>2. Len(w[t].batch) # 0 /\ Len(w[t].batch) \in Nat
    BY <2>1, EmptySeq, LenProperties
  <2>3. 1 \in 1..k
    BY <1>2
  <2>4. Len(Marked(t)) = Len(w[t].batch)
    BY <1>4
  <2>5. ss[1] = Marked(t)
    BY <1>3, <1>6, <2>3
  <2> QED
    BY <2>2, <2>4, <2>5
<1> HIDE DEF P
<1>8. ss \in Seq(Seq(P)) /\ Len(ss) = k
  BY <1>2, <1>5, <1>6
<1>9. PICK flat : flat = FlattenSeq(ss)
  OBVIOUS
<1>10. flat \in Seq(P) /\ Len(flat) >= Len(ss[1])
  BY <1>2, <1>8, <1>9, Flattened
<1>11. Len(flat) \in Nat /\ Len(flat) # 0 /\ \A i \in 1..Len(flat) : flat[i] \in P
  BY <1>7, <1>10, LenProperties
<1>12. PICK n, g : n \in Nat /\ n = Len(flat) /\ g = [i \in 1..n |-> <<LastSequence + i, flat[i][1], flat[i][2]>>]
  BY <1>11
<1>13. GroupEntries(k) = g
  BY <1>1, <1>5, <1>9, <1>12 DEF GroupEntries
<1>14. DOMAIN g = 1..n /\ Len(g) = n /\ \A i \in 1..n : g[i] = <<LastSequence + i, flat[i][1], flat[i][2]>>
  BY <1>12
<1>15. g \in Seq(Range(g))
  <2>1. \A i \in 1..n : g[i] \in Range(g)
    BY <1>14 DEF Range
  <2> QED
    BY <1>12, <2>1
<1>16. NumberedFrom(g, LastSequence, w[t].sync)
  <2>1. ASSUME NEW e \in Range(g)
        PROVE  /\ e[1] \in Nat /\ LastSequence < e[1] /\ e[1] <= LastSequence + Len(g)
               /\ e[2] \in Key /\ (e[3] => w[t].sync)
    <3>1. PICK i \in 1..n : e = <<LastSequence + i, flat[i][1], flat[i][2]>>
      BY <1>14 DEF Range
    <3>2. flat[i] \in P
      BY <1>11, <1>12
    <3>3. flat[i][1] \in Key /\ (flat[i][2] => w[t].sync)
      BY <3>2 DEF P
    <3> QED
      BY <1>14, <3>1, <3>3
  <2> QED
    BY <2>1 DEF NumberedFrom
<1> QED
  BY <1>1, <1>11, <1>12, <1>13, <1>14, <1>15, <1>16

\* The front writer begins its group.
LEMMA GroupStarts ==
    ASSUME QueueOK, LastSequence \in Nat, NEW t \in Thread, Working(t), w[t].batch # <<>>, StartLog(t),
           UNCHANGED LastSequence
    PROVE  GroupOK'
<1>1. PICK k, es : k = BatchGroup /\ es = GroupEntries(BatchGroup)
  OBVIOUS
<1>2. /\ es \in Seq(Range(es)) /\ Len(es) \in Nat /\ Len(es) # 0 /\ NumberedFrom(es, LastSequence, w[t].sync)
      /\ k \in 1..Len(writers_)
  BY <1>1, GroupEntriesFacts, BatchGroupFacts
<1>3. group' = [last |-> k, entries |-> es, left |-> es, ok |-> TRUE, syncError |-> FALSE]
      /\ pc' = [pc EXCEPT ![t] = "log"] /\ UNCHANGED <<writers_, w>>
  BY <1>1 DEF StartLog
<1>4. IsGroup(group') /\ group'.entries = es /\ group'.left = es /\ group'.last = k /\ group'.ok
  BY <1>3 DEF IsGroup
<1>5. es # <<>>
  BY <1>2
<1>6. ASSUME NEW x \in Thread, InGroup(x)'
      PROVE  x = t
  <2>1. x # t => Working(x)
    BY <1>3, <1>6 DEF InGroup, Working, QueueOK
  <2> QED
    BY <2>1 DEF QueueOK
<1>7. pc'[t] = "log" /\ InGroup(t)'
  BY <1>3 DEF QueueOK, InGroup
<1>8. LeftOf(group', table[mem_]')
  BY <1>2, <1>4 DEF LeftOf
<1>9. GroupOf(t)'
  BY <1>2, <1>3, <1>4, <1>5, <1>7, <1>8 DEF GroupOf
<1> QED
  BY <1>2, <1>4, <1>6, <1>7, <1>9 DEF GroupOK

\* No other thread is in the group.
LEMMA OneGroup ==
    ASSUME QueueOK, NEW t \in Thread, Working(t)
    PROVE  \A x \in Thread : InGroup(x) => x = t
BY DEF QueueOK, Working

\* With no group nothing is on its way.
LEMMA NoGroupThere ==
    ASSUME QueueOK, GroupOK, NEW t \in Thread, Working(t), ~InGroup(t)
    PROVE  group = NoGroup /\ group.entries = <<>> /\ Len(group.entries) = 0
<1>1. group = NoGroup
  BY OneGroup DEF GroupOK
<1>2. NoGroup.entries = <<>>
  BY DEF NoGroup
<1> QED
  BY <1>1, <1>2

\* A thread joins the queue, or wakes.
LEMMA WriteGroup ==
    ASSUME QueueOK, QueueOK', GroupOK, NEW t \in Thread, ~Working(t), ~InGroup(t)',
           \A x \in Thread : x # t => pc'[x] = pc[x] /\ w'[x] = w[x],
           UNCHANGED <<group, LastSequence, mem_, log, synced, table>>,
           Len(writers_) <= Len(writers_')
    PROVE  GroupOK'
<1>1. \A x \in Thread : InGroup(x)' <=> InGroup(x)
  BY DEF InGroup, Working
<1>2. Len(writers_) \in Nat /\ Len(writers_') \in Nat
  BY LenProperties DEF QueueOK
<1>3. \A x \in Thread : InGroup(x) => pc'[x] = pc[x] /\ w'[x].sync = w[x].sync
  BY DEF Working
<1> QED
  BY <1>1, <1>2, <1>3, GroupSame

\* The queue is as it was.
LEMMA QuietGroup ==
    ASSUME QueueOK, GroupOK, UNCHANGED <<pc, writers_, w, group, LastSequence, mem_>>,
           table'[mem_] = table[mem_], log'[mem_] = log[mem_], synced'[mem_] = synced[mem_]
    PROVE  GroupOK'
<1>1. Len(writers_) \in Nat /\ Len(writers_') \in Nat /\ Len(writers_) <= Len(writers_')
  BY LenProperties DEF QueueOK
<1>2. \A x \in Thread : InGroup(x)' <=> InGroup(x)
  BY DEF InGroup
<1> QED
  BY <1>1, <1>2, GroupSame

\* A call of Write, the waits in it and in MakeRoomForWrite.
LEMMA WaitersGroup ==
    ASSUME QueueOK, QueueOK', GroupOK, LastSequence \in Nat, NEW t \in Thread,
           \/ Put(t) \/ CompactRange(t) \/ Woken(t)
           \/ RoomError(t) \/ RoomDelay(t) \/ RoomFound(t) \/ RoomWait(t) \/ WaitImm(t) \/ CompactLevel(t)
    PROVE  GroupOK'
<1> DEFINE Same == UNCHANGED <<group, LastSequence, mem_, log, synced, table>>
           Others == \A x \in Thread : x # t => pc'[x] = pc[x] /\ w'[x] = w[x]
<1>0. Len(writers_) \in Nat
  BY LenProperties DEF QueueOK
<1>1. ASSUME NEW batch, NEW sync, Write(t, batch, sync)
      PROVE  GroupOK'
  <2>1. Same /\ Others
    BY <1>1 DEF Write, storeVars, memVars, logVars, QueueOK
  <2>2. ~Working(t) /\ ~InGroup(t)'
    BY <1>1 DEF Write, Working, InGroup, QueueOK
  <2>3. writers_' = Append(writers_, t)
    BY <1>1 DEF Write
  <2>4. Len(writers_') = Len(writers_) + 1
    BY <2>3, AppendAt DEF QueueOK
  <2>5. Len(writers_) <= Len(writers_')
    BY <1>0, <2>4
  <2> QED
    BY <2>1, <2>2, <2>5, WriteGroup
<1>2. CASE Put(t) \/ CompactRange(t)
  BY <1>1, <1>2 DEF Put, CompactRange
<1>3. CASE Woken(t) \/ WaitImm(t) \/ CompactLevel(t)
  <2>1. Same /\ UNCHANGED writers_
    BY <1>3 DEF Woken, WaitImm, CompactLevel, storeVars, memVars, logVars, queueVars
  <2>2. pc[t] \in {"queued", "imm", "manual"}
    BY <1>3 DEF Woken, WaitImm, CompactLevel
  <2>3. Others
    BY <1>3 DEF Woken, WaitImm, CompactLevel, queueVars, QueueOK
  <2>4. ~InGroup(t)'
    <3>1. CASE Woken(t)
      BY <3>1 DEF Woken, InGroup, QueueOK, After
    <3>2. CASE WaitImm(t) \/ CompactLevel(t)
      BY <3>2 DEF WaitImm, CompactLevel, InGroup, QueueOK
    <3> QED
      BY <1>3, <3>1, <3>2
  <2>5. ~Working(t)
    BY <2>2 DEF Working, InGroup
  <2>6. Len(writers_) <= Len(writers_')
    BY <1>0, <2>1
  <2> QED
    BY <2>1, <2>3, <2>4, <2>5, <2>6, WriteGroup
<1>4. CASE RoomError(t)
  <2>1. Working(t) /\ Complete(t, 1, FALSE, waits)
    BY <1>4 DEF RoomError, InRoom, Working
  <2>2. 1 \in 1..Len(writers_)
    BY <2>1, EmptySeq, LenProperties DEF QueueOK
  <2>3. group' = NoGroup
    BY <2>1 DEF Complete
  <2>4. \A x \in Thread : ~Working(x)'
    BY <2>1, <2>2, CompleteQueue
  <2> QED
    BY <2>3, <2>4, GroupGone
<1>5. CASE RoomDelay(t) \/ RoomWait(t)
  <2>1. Same /\ UNCHANGED writers_ /\ \A x \in Thread : x # t => pc'[x] = pc[x]
    BY <1>5 DEF RoomDelay, RoomWait, storeVars, memVars, logVars, queueVars, QueueOK
  <2>2. Working(t) /\ ~InGroup(t) /\ ~InGroup(t)'
    BY <1>5 DEF RoomDelay, RoomWait, InRoom, Working, InGroup, QueueOK
  <2>3. \A x \in Thread : ~InGroup(x)
    BY <2>2, OneGroup
  <2>4. \A x \in Thread : ~InGroup(x)'
    BY <2>1, <2>2, <2>3 DEF InGroup
  <2> QED
    BY <2>1, <2>4, <2>3 DEF GroupOK
<1>6. CASE RoomFound(t)
  <2>1. Working(t) /\ w[t].batch # <<>> /\ StartLog(t) /\ UNCHANGED LastSequence
    BY <1>6 DEF RoomFound, InRoom, Working, HasRoom, storeVars
  <2> QED
    BY <2>1, GroupStarts
<1> QED
  BY <1>2, <1>3, <1>4, <1>5, <1>6

\* What is left after one entry has been inserted.
LEMMA LeftInserted ==
    ASSUME NEW es, NEW left \in Seq(Range(es)), left # <<>>
    PROVE  /\ left[1] \in Range(es) /\ Head(left) = left[1]
           /\ Tail(left) \in Seq(Range(es)) /\ Range(left) \subseteq Range(Tail(left)) \cup {left[1]}
           /\ Len(left) = 1 <=> Tail(left) = <<>>
<1>1. Len(left) \in Nat \ {0} /\ DOMAIN left = 1..Len(left) /\ Tail(left) \in Seq(Range(es))
      /\ Len(Tail(left)) = Len(left) - 1 /\ (\A i \in 1..(Len(left) - 1) : Tail(left)[i] = left[i + 1])
      /\ Head(left) = left[1]
  BY HeadTailProperties, EmptySeq, LenProperties
<1>2. left[1] \in Range(es)
  BY <1>1, ElementOfSeq
<1>3. DOMAIN Tail(left) = 1..(Len(left) - 1)
  BY <1>1, LenProperties
<1>4. ASSUME NEW i \in 1..Len(left), i # 1
      PROVE  left[i] \in Range(Tail(left))
  <2>1. i - 1 \in 1..(Len(left) - 1) /\ (i - 1) + 1 = i
    BY <1>1, <1>4
  <2> QED
    BY <1>1, <1>3, <2>1 DEF Range
<1>5. Range(left) \subseteq Range(Tail(left)) \cup {left[1]}
  BY <1>1, <1>4 DEF Range
<1>6. Len(left) = 1 <=> Tail(left) = <<>>
  <2>1. PICK r : r = Tail(left)
    OBVIOUS
  <2>2. r \in Seq(Range(es)) /\ Len(r) = Len(left) - 1
    BY <1>1, <2>1
  <2>3. Len(r) = 0 <=> r = <<>>
    BY <2>2, EmptySeq
  <2> QED
    BY <1>1, <2>1, <2>2, <2>3
<1> QED
  BY <1>1, <1>2, <1>5, <1>6

-----------------------------------------------------------------------------
(* The logs.                                                               *)

\* The log r, of which s records are synced.
LogFile(r, s) ==
    /\ r \in Seq(Range(r)) /\ s \in 0..Len(r)
    /\ \A q \in LogPairs(r, Len(r)) : q[1] \in Nat

MemTables == {mem_, imm_} \ {None}

\* What is in a memtable is in its log, and no such log is given up.
LogsOK ==
    /\ logfile_number_ = mem_ /\ LogNumber \in Nat /\ DOMAIN log \subseteq Nat /\ DOMAIN synced = DOMAIN log
    /\ \A n \in DOMAIN log : LogFile(log[n], synced[n])
    /\ \A m \in MemTables : m \in DOMAIN log /\ LogNumber <= m /\ table[m] \subseteq LogPairs(log[m], Len(log[m]))
    /\ bg.at = "logFlush" => bg.log = mem_

\* More records have more entries.
LEMMA LogPairsMore ==
    ASSUME NEW r, NEW m \in Nat, NEW n \in Nat, n <= m
    PROVE  LogPairs(r, n) \subseteq LogPairs(r, m)
<1>1. 1..n \subseteq 1..m
  OBVIOUS
<1> QED
  BY <1>1 DEF LogPairs

\* One more record.
LEMMA LogAppended ==
    ASSUME NEW r, NEW s, LogFile(r, s), NEW R, \A e \in R : e[1] \in Nat
    PROVE  /\ LogFile(Append(r, R), s)
           /\ LogPairs(r, Len(r)) \subseteq LogPairs(Append(r, R), Len(Append(r, R)))
           /\ LogPairs(r, s) \subseteq LogPairs(Append(r, R), s)
           /\ \A e \in R : Pair(e) \in LogPairs(Append(r, R), Len(Append(r, R)))
<1>1. PICK S : S = Range(r) \cup {R}
  OBVIOUS
<1>2. r \in Seq(S)
  BY <1>1, SeqMonotonic DEF LogFile
<1>3. PICK u, n : u = Append(r, R) /\ n = Len(r)
  OBVIOUS
<1>4. /\ u \in Seq(S) /\ Len(u) = n + 1 /\ n \in Nat /\ (\A i \in 1..n : u[i] = r[i]) /\ u[n + 1] = R
      /\ u \in Seq(Range(u))
  <2>1. R \in S
    BY <1>1
  <2>2. u \in Seq(S) /\ Len(u) = n + 1 /\ n \in Nat /\ (\A i \in 1..n : u[i] = r[i]) /\ u[n + 1] = R
    BY <1>2, <1>3, <2>1, AppendAt
  <2>3. u \in Seq(Range(u))
    BY <2>2, OwnElements
  <2> QED
    BY <2>2, <2>3
<1>5. s \in 0..n /\ \A q \in LogPairs(r, n) : q[1] \in Nat
  BY <1>3 DEF LogFile
<1>6. LogPairs(r, n) \subseteq LogPairs(u, n + 1)
  BY <1>4 DEF LogPairs
<1>7. LogPairs(r, s) \subseteq LogPairs(u, s)
  BY <1>4, <1>5 DEF LogPairs
<1>8. n + 1 \in 1..(n + 1)
  BY <1>4
<1>9. \A e \in R : Pair(e) \in LogPairs(u, n + 1)
  BY <1>4, <1>8 DEF LogPairs
<1>10. ASSUME NEW q \in LogPairs(u, n + 1)
       PROVE  q[1] \in Nat
  <2>1. PICK i \in 1..(n + 1) : \E e \in u[i] : q = Pair(e)
    BY DEF LogPairs
  <2>2. CASE i = n + 1
    BY <1>4, <2>1, <2>2 DEF Pair
  <2>3. CASE i # n + 1
    <3>1. i \in 1..n
      BY <1>4, <2>3
    <3>2. q \in LogPairs(r, n)
      BY <1>4, <2>1, <3>1 DEF LogPairs
    <3> QED
      BY <1>5, <3>2
  <2> QED
    BY <2>2, <2>3
<1>11. LogFile(u, s)
  BY <1>4, <1>5, <1>10 DEF LogFile
<1> QED
  BY <1>3, <1>4, <1>6, <1>7, <1>9, <1>11

\* A new log.
LEMMA EmptyLog ==
    LogFile(<<>>, 0)
<1>1. <<>> \in Seq(Range(<<>>)) /\ Len(<<>>) = 0
  OBVIOUS
<1>2. LogPairs(<<>>, 0) = {}
  BY DEF LogPairs
<1> QED
  BY <1>1, <1>2 DEF LogFile

\* The front writer and its log.
LEMMA FrontGroup ==
    ASSUME QueueOK, GroupOK, NEW t \in Thread, InGroup(t)
    PROVE  /\ Working(t) /\ GroupOf(t) /\ IsGroup(group) /\ Len(group.entries) \in Nat
           /\ \A x \in Thread : x # t => ~InGroup(x)
<1>1. Working(t)
  BY DEF Working
<1> QED
  BY <1>1, OneGroup DEF GroupOK

\* The thread t moves on in its group.
LEMMA MoveGroup ==
    ASSUME QueueOK, GroupOK, NEW t \in Thread, InGroup(t), NEW p, pc' = [pc EXCEPT ![t] = p],
           UNCHANGED <<writers_, w>>, IsGroup(group'), Len(group'.entries) \in Nat,
           pc'[t] = p /\ p \in {"insert", "sync", "commit"} => GroupOf(t)', p \in {"insert", "sync", "commit"}
    PROVE  GroupOK'
<1>1. \A x \in Thread : x # t => ~InGroup(x)
  BY FrontGroup
<1>2. pc'[t] = p /\ \A x \in Thread : x # t => pc'[x] = pc[x]
  BY DEF QueueOK
<1>3. \A x \in Thread : x # t => ~InGroup(x)'
  BY <1>1, <1>2 DEF InGroup
<1>4. InGroup(t)'
  BY <1>2 DEF InGroup
<1> QED
  BY <1>2, <1>3, <1>4 DEF GroupOK

\* The log gets its record.
LEMMA AddRecordGroup ==
    ASSUME QueueOK, GroupOK, LogsOK, mem_ # None, NEW t \in Thread, NEW bad, AddRecord(t, bad)
    PROVE  GroupOK'
<1>1. /\ pc[t] = "log" /\ InGroup(t) /\ UNCHANGED <<writers_, w, LastSequence, mem_, table, synced>>
      /\ group' = (IF bad THEN [group EXCEPT !.ok = FALSE] ELSE group)
      /\ ~bad => log' = [log EXCEPT ![logfile_number_] = Append(@, Range(group.entries))]
  BY DEF AddRecord, InGroup, memVars
<1>2. GroupOf(t) /\ IsGroup(group) /\ Len(group.entries) \in Nat
  BY <1>1, FrontGroup
<1>3. /\ IsGroup(group') /\ group'.entries = group.entries /\ group'.left = group.left /\ group'.last = group.last
      /\ group'.ok = (IF bad THEN FALSE ELSE group.ok)
  BY <1>1, <1>2 DEF IsGroup
<1>4. PICK p : p = (IF bad THEN "commit" ELSE IF w[t].sync THEN "sync" ELSE "insert")
  OBVIOUS
<1>5. pc' = [pc EXCEPT ![t] = p] /\ p \in {"commit", "sync", "insert"}
  BY <1>4 DEF AddRecord
<1>6. group.last \in 1..Len(writers_) /\ Len(group.entries) # 0
      /\ NumberedFrom(group.entries, LastSequence, w[t].sync) /\ LeftOf(group, table[mem_])
      /\ group.left # <<>> /\ group.ok
  BY <1>1, <1>2 DEF GroupOf
<1>7. LeftOf(group', table[mem_])
  BY <1>3, <1>6 DEF LeftOf
<1>8. ASSUME ~bad
      PROVE  LoggedIn(group.entries, log'[mem_], Len(log'[mem_]))
  <2>1. mem_ \in DOMAIN log /\ LogFile(log[mem_], synced[mem_]) /\ logfile_number_ = mem_
    BY DEF LogsOK, MemTables
  <2>2. PICK R, r, s : R = Range(group.entries) /\ r = log[mem_] /\ s = synced[mem_]
    OBVIOUS
  <2>3. log'[mem_] = Append(r, R)
    BY <1>1, <1>8, <2>1, <2>2
  <2>4. \A e \in R : e[1] \in Nat
    BY <1>6, <2>2 DEF NumberedFrom
  <2>5. \A e \in R : Pair(e) \in LogPairs(Append(r, R), Len(Append(r, R)))
    BY <2>1, <2>2, <2>4, LogAppended
  <2> QED
    BY <2>2, <2>3, <2>5 DEF LoggedIn
<1>9. pc'[t] = p => GroupOf(t)'
  BY <1>1, <1>3, <1>4, <1>6, <1>7, <1>8 DEF GroupOf
<1> QED
  BY <1>1, <1>2, <1>3, <1>5, <1>9, MoveGroup

\* The log is synced.
LEMMA SyncGroup ==
    ASSUME QueueOK, GroupOK, LogsOK, mem_ # None, NEW t \in Thread, NEW bad, Sync(t, bad)
    PROVE  GroupOK'
<1>1. /\ pc[t] = "sync" /\ InGroup(t) /\ UNCHANGED <<writers_, w, LastSequence, mem_, table, log>>
      /\ group' = (IF bad THEN [group EXCEPT !.ok = FALSE, !.syncError = TRUE] ELSE group)
      /\ ~bad => synced' = [synced EXCEPT ![logfile_number_] = Len(log[logfile_number_])]
  BY DEF Sync, InGroup, memVars
<1>2. GroupOf(t) /\ IsGroup(group) /\ Len(group.entries) \in Nat
  BY <1>1, FrontGroup
<1>3. /\ IsGroup(group') /\ group'.entries = group.entries /\ group'.left = group.left /\ group'.last = group.last
      /\ group'.ok = (IF bad THEN FALSE ELSE group.ok)
  BY <1>1, <1>2 DEF IsGroup
<1>4. PICK p : p = (IF bad THEN "commit" ELSE "insert")
  OBVIOUS
<1>5. pc' = [pc EXCEPT ![t] = p] /\ p \in {"commit", "insert"}
  BY <1>4 DEF Sync
<1>6. /\ group.last \in 1..Len(writers_) /\ Len(group.entries) # 0
      /\ NumberedFrom(group.entries, LastSequence, w[t].sync) /\ LeftOf(group, table[mem_])
      /\ group.left # <<>> /\ group.ok
      /\ LoggedIn(group.entries, log[mem_], Len(log[mem_]))
  BY <1>1, <1>2 DEF GroupOf
<1>7. LeftOf(group', table[mem_])
  BY <1>3, <1>6 DEF LeftOf
<1>8. ~bad => synced'[mem_] = Len(log[mem_])
  BY <1>1 DEF LogsOK, MemTables
<1>9. pc'[t] = p => GroupOf(t)'
  BY <1>1, <1>3, <1>4, <1>6, <1>7, <1>8 DEF GroupOf
<1> QED
  BY <1>1, <1>2, <1>3, <1>5, <1>9, MoveGroup

\* An entry goes from what is left to mem_.
LEMMA InsertGroup ==
    ASSUME QueueOK, GroupOK, NEW t \in Thread, Insert(t), mem_ \in DOMAIN table
    PROVE  /\ GroupOK'
           /\ \E e \in Range(group.entries) :
                 /\ table' = [table EXCEPT ![mem_] = @ \cup {Pair(e)}]
                 /\ committed' = committed \cup {Pair(e)}
<1>1. /\ pc[t] = "insert" /\ InGroup(t)
      /\ UNCHANGED <<writers_, w, LastSequence, mem_, log, synced>>
      /\ group' = [group EXCEPT !.left = Tail(@)]
      /\ table' = [table EXCEPT ![mem_] = @ \cup {<<Head(group.left)[1], Head(group.left)[2]>>}]
      /\ committed' = committed \cup {<<Head(group.left)[1], Head(group.left)[2]>>}
  BY DEF Insert, InGroup, logVars
<1>2. GroupOf(t) /\ IsGroup(group) /\ Len(group.entries) \in Nat
  BY <1>1, FrontGroup
<1>3. /\ IsGroup(group') /\ group'.entries = group.entries /\ group'.left = Tail(group.left)
      /\ group'.last = group.last /\ group'.ok = group.ok
  BY <1>1, <1>2 DEF IsGroup
<1>4. PICK p : p = (IF Len(group.left) = 1 THEN "commit" ELSE "insert")
  OBVIOUS
<1>5. pc' = [pc EXCEPT ![t] = p] /\ p \in {"commit", "insert"}
  BY <1>4 DEF Insert
<1>6. /\ group.last \in 1..Len(writers_) /\ Len(group.entries) # 0
      /\ NumberedFrom(group.entries, LastSequence, w[t].sync) /\ LeftOf(group, table[mem_])
      /\ group.left # <<>> /\ group.ok
      /\ LoggedIn(group.entries, log[mem_], Len(log[mem_]))
      /\ w[t].sync => LoggedIn(group.entries, log[mem_], synced[mem_])
  BY <1>1, <1>2 DEF GroupOf
<1>7. PICK es, left, e : es = group.entries /\ left = group.left /\ e = Head(group.left)
  OBVIOUS
<1>8. left \in Seq(Range(es)) /\ left # <<>>
      /\ \A x \in Range(es) : x \in Range(left) \/ Pair(x) \in table[mem_]
  BY <1>6, <1>7 DEF LeftOf
<1>9. e = left[1] /\ e \in Range(es) /\ Tail(left) \in Seq(Range(es))
      /\ Range(left) \subseteq Range(Tail(left)) \cup {e} /\ (Len(left) = 1 <=> Tail(left) = <<>>)
  BY <1>7, <1>8, LeftInserted
<1>10. table'[mem_] = table[mem_] \cup {Pair(e)}
  BY <1>1, <1>7 DEF Pair
<1>11. LeftOf(group', table'[mem_])
  <2>1. ASSUME NEW x \in Range(es)
        PROVE  x \in Range(Tail(left)) \/ Pair(x) \in table'[mem_]
    BY <1>8, <1>9, <1>10
  <2> QED
    BY <1>3, <1>7, <1>9, <2>1 DEF LeftOf
<1>12. (p = "commit" => group'.left = <<>>) /\ (p # "commit" => group'.left # <<>>)
  BY <1>3, <1>4, <1>7, <1>9
<1>13. pc'[t] = p => GroupOf(t)'
  BY <1>1, <1>3, <1>5, <1>6, <1>11, <1>12 DEF GroupOf
<1>14. GroupOK'
  BY <1>1, <1>2, <1>3, <1>5, <1>13, MoveGroup
<1> QED
  BY <1>1, <1>7, <1>9, <1>14 DEF Pair

\* The end of Write.
LEMMA CommitGroup ==
    ASSUME QueueOK, GroupOK, NEW t \in Thread, Commit(t)
    PROVE  GroupOK'
<1>1. InGroup(t) /\ Working(t) /\ pc[t] = "commit"
  BY DEF Commit, Working, InGroup
<1>2. PICK k, ok, ws : k = group.last /\ ok = group.ok /\ Complete(t, k, ok, ws)
  BY DEF Commit
<1>3. k \in 1..Len(writers_)
  BY <1>1, <1>2 DEF GroupOK, GroupOf
<1>4. group' = NoGroup
  BY <1>2 DEF Complete
<1>5. \A x \in Thread : ~Working(x)'
  BY <1>1, <1>2, <1>3, CompleteQueue
<1> QED
  BY <1>4, <1>5, GroupGone

\* A new log: a group for it, or the end of a call for a new memtable.
LEMMA RoomSwitchGroup ==
    ASSUME QueueOK, GroupOK, LastSequence \in Nat, NEW t \in Thread, NEW bad, RoomSwitch(t, bad)
    PROVE  GroupOK'
<1>1. Working(t) /\ ~InGroup(t) /\ UNCHANGED LastSequence
  BY DEF RoomSwitch, InRoom, Working, InGroup
<1>2. (StartLog(t) /\ w[t].batch # <<>>) \/ \E ok \in BOOLEAN : Complete(t, 1, ok, waits)
  BY DEF RoomSwitch
<1>3. CASE StartLog(t) /\ w[t].batch # <<>>
  BY <1>1, <1>3, GroupStarts
<1>4. ASSUME NEW ok, Complete(t, 1, ok, waits)
      PROVE  GroupOK'
  <2>1. 1 \in 1..Len(writers_)
    BY <1>1, EmptySeq, LenProperties DEF QueueOK
  <2>2. group' = NoGroup
    BY <1>4 DEF Complete
  <2>3. \A x \in Thread : ~Working(x)'
    BY <1>1, <1>4, <2>1, CompleteQueue
  <2> QED
    BY <2>2, <2>3, GroupGone
<1> QED
  BY <1>2, <1>3, <1>4

-----------------------------------------------------------------------------
(* Where the entries are.                                                  *)

FilesOf(levels) == levels[1] \cup levels[2]

\* What is counted is there.
There ==
    /\ EngineAssumption /\ RefsOK
    /\ MemTables \subseteq DOMAIN table /\ current \in DOMAIN version
    /\ Compacting(bg) => bg.input \in DOMAIN version

\* Numbers up to LastSequence are given, and those of the group under way.
NumbersOK ==
    /\ LastSequence \in Nat
    /\ \A e \in committed : /\ e[1] \in Nat /\ e[2] \in Key /\ e = Pair(e)
                            /\ e[1] <= LastSequence + Len(group.entries)
    /\ \A m \in DOMAIN table : table[m] \subseteq committed
    /\ \A f \in DOMAIN file : file[f] \subseteq committed /\ \A e \in file[f] : e[1] <= LastSequence
    /\ imm_ # None => \A e \in table[imm_] : e[1] <= LastSequence

\* A table that is made is in no version yet, and has what it is made from.
NewFilesOK ==
    /\ bg.at \in {"build", "logFlush"} =>
          /\ \A v \in DOMAIN version : bg.number \notin FilesOf(version[v])
          /\ bg.number # Output(bg)
    /\ bg.at = "logFlush" =>
          /\ table[imm_] = {} \/ (bg.number \in DOMAIN file /\ file[bg.number] = table[imm_])
          /\ bg.level \in {1, 2}
    /\ \A v \in DOMAIN version : Output(bg) \notin FilesOf(version[v])
    /\ bg.at = "logMerge" => file[bg.out] = Merged

\* An entry is in a memtable, or it or a newer one of its key in a table.
Stored(e) ==
    \/ \E m \in MemTables : e \in table[m]
    \/ \E x \in InTables : x[2] = e[2] /\ x[1] >= e[1]

StoredOK == \A e \in committed : Stored(e)

\* What a synchronous write was told is there: its log is synced with it, or a table has it.
AckedOK ==
    \A e \in acked :
        /\ Pair(e) \in committed /\ e[1] <= LastSequence
        /\ \A m \in MemTables : Pair(e) \in table[m] => Pair(e) \in LogPairs(log[m], synced[m])

\* What references count, is there.
LEMMA ThereIs ==
    EngineAssumption /\ RefsOK => There
<1> SUFFICES ASSUME EngineAssumption, RefsOK PROVE There
  OBVIOUS
<1>1. MemoryOK /\ VersionsOK /\ ControlOK
  BY DEF RefsOK
<1>2. ASSUME NEW m \in MemTables
      PROVE  m \in DOMAIN table
  <2>1. m \in Nat
    BY <1>1 DEF MemTables, ControlOK
  <2>2. m \in DOMAIN mrefs
    BY <1>1, <2>1, NoMemTable DEF MemTables
  <2> QED
    BY <1>1, <2>2 DEF MemoryOK
<1>3. current \in DOMAIN version
  BY <1>1, NoVersion DEF VersionsOK
<1>4. ASSUME Compacting(bg)
      PROVE  bg.input \in DOMAIN version
  <2>1. Input(bg) = bg.input /\ bg.input \in Nat
    BY <1>1, <1>4 DEF Input, ControlOK, IsWork
  <2> QED
    BY <1>1, <2>1, NoVersion DEF VersionsOK
<1> QED
  BY <1>2, <1>3, <1>4 DEF There

\* After a step too.
LEMMA ThereNext ==
    EngineAssumption' /\ RefsOK' => There'
BY ThereIs, PTL

\* The memtables are two, and older ones have lower numbers.
LEMMA MemTablesFacts ==
    ASSUME There
    PROVE  /\ mem_ \in Nat /\ mem_ < NextFile /\ NextFile \in Nat /\ None \notin Nat /\ mem_ \in MemTables
           /\ MemTables \subseteq DOMAIN table /\ MemTables \subseteq Nat
           /\ imm_ # None => imm_ \in Nat /\ imm_ < mem_ /\ imm_ # mem_ /\ imm_ \in MemTables
           /\ \A m \in MemTables : m = mem_ \/ m = imm_
<1>1. ControlOK
  BY DEF There, RefsOK
<1>2. None \notin Nat
  BY DEF There, EngineAssumption
<1> QED
  BY <1>1, <1>2 DEF There, ControlOK, MemTables

\* Versions go, the others stay.
VersionsRest == \A v \in DOMAIN version' : v \in DOMAIN version /\ version'[v] = version[v]
TablesRest == \A m \in DOMAIN table' : m \in DOMAIN table /\ table'[m] = table[m]

\* What a step of the background thread leaves of its work.
WorkRest ==
    /\ bg'.at \in {"build", "logFlush"} =>
          bg'.at = bg.at /\ bg'.number = bg.number /\ bg'.level = bg.level /\ bg'.log = bg.log
    /\ Output(bg') \in {Output(bg), None}
    /\ bg'.at = "logMerge" => bg'.at = bg.at /\ bg'.out = bg.out /\ bg'.input = bg.input /\ bg'.oldest = bg.oldest

\* A step that neither makes a table nor installs one.
LEMMA NewFilesSame ==
    ASSUME There, There', NewFilesOK, VersionsRest, TablesRest, WorkRest, UNCHANGED <<imm_, file>>
    PROVE  NewFilesOK'
<1>1. None \notin Nat /\ VersionsOK /\ VersionsOK' /\ ControlOK /\ ControlOK'
  BY DEF There, EngineAssumption, RefsOK
<1>2. ASSUME NEW v \in DOMAIN version'
      PROVE  Output(bg') \notin FilesOf(version'[v])
  <2>1. v \in DOMAIN version /\ version'[v] = version[v]
    BY DEF VersionsRest
  <2>2. version[v] \in Levels
    BY <1>1, <2>1, PartialFnElim DEF VersionsOK
  <2>3. None \notin FilesOf(version[v])
    BY <1>1, <2>2 DEF Levels, FilesOf
  <2> QED
    BY <2>1, <2>3 DEF WorkRest, NewFilesOK
<1>3. ASSUME bg'.at \in {"build", "logFlush"}
      PROVE  (\A v \in DOMAIN version' : bg'.number \notin FilesOf(version'[v])) /\ bg'.number # Output(bg')
  <2>1. bg'.number # None
    BY <1>1 DEF ControlOK, IsWork
  <2>2. bg'.number = bg.number /\ bg.at \in {"build", "logFlush"}
    BY <1>3 DEF WorkRest
  <2>3. bg'.number # Output(bg')
    BY <2>1, <2>2 DEF WorkRest, NewFilesOK
  <2>4. \A v \in DOMAIN version' : bg'.number \notin FilesOf(version'[v])
    BY <2>2 DEF VersionsRest, NewFilesOK
  <2> QED
    BY <2>3, <2>4
<1>4. ASSUME bg'.at = "logFlush"
      PROVE  /\ table'[imm_'] = {} \/ (bg'.number \in DOMAIN file' /\ file'[bg'.number] = table'[imm_'])
             /\ bg'.level \in {1, 2}
  <2>1. imm_' # None
    BY <1>1, <1>4 DEF ControlOK
  <2>2. imm_' \in DOMAIN table'
    BY <2>1 DEF There, MemTables
  <2>3. table'[imm_'] = table[imm_]
    BY <2>2 DEF TablesRest
  <2>4. bg.at = "logFlush" /\ bg'.number = bg.number /\ bg'.level = bg.level
    BY <1>4 DEF WorkRest
  <2> QED
    BY <2>3, <2>4 DEF NewFilesOK
<1>5. ASSUME bg'.at = "logMerge"
      PROVE  file'[bg'.out] = Merged'
  <2>1. bg.at = "logMerge" /\ bg'.out = bg.out /\ bg'.input = bg.input /\ bg'.oldest = bg.oldest
    BY <1>5 DEF WorkRest
  <2>2. bg'.input \in DOMAIN version'
    BY <1>5 DEF There, Compacting
  <2>3. version'[bg'.input] = version[bg.input]
    BY <2>1, <2>2 DEF VersionsRest
  <2>4. Merged' = Merged
    BY <2>1, <2>3 DEF Merged
  <2> QED
    BY <2>1, <2>4 DEF NewFilesOK
<1> QED
  BY <1>2, <1>3, <1>4, <1>5 DEF NewFilesOK

Contents == LogsOK /\ NumbersOK /\ NewFilesOK /\ StoredOK /\ AckedOK

\* Logs go, but none that a memtable needs.
LogsRest ==
    /\ UNCHANGED <<logfile_number_, LogNumber>> /\ DOMAIN synced' = DOMAIN log' /\ MemTables \subseteq DOMAIN log'
    /\ \A n \in DOMAIN log' : n \in DOMAIN log /\ log'[n] = log[n] /\ synced'[n] = synced[n]

\* A step that keeps the memtables, and whose tables have what the tables had, or newer entries.
LEMMA PlacesSame ==
    ASSUME There, There', Contents, TablesRest, LogsRest,
           UNCHANGED <<LastSequence, mem_, imm_, committed, acked>>,
           bg'.at = "logFlush" => bg'.log = mem_,
           \A f \in DOMAIN file' : file'[f] \subseteq committed /\ \A e \in file'[f] : e[1] <= LastSequence,
           \A x \in InTables : \E y \in InTables' : y[2] = x[2] /\ y[1] \in Nat /\ x[1] \in Nat /\ y[1] >= x[1],
           Len(group.entries) \in Nat, Len(group'.entries) \in Nat, Len(group.entries) <= Len(group'.entries)
    PROVE  LogsOK' /\ NumbersOK' /\ StoredOK' /\ AckedOK'
<1>1. MemTables' = MemTables /\ \A m \in MemTables : table'[m] = table[m] /\ m \in DOMAIN table'
  BY DEF MemTables, There, TablesRest
<1>2. LogsOK'
  <2>1. LogNumber' \in Nat /\ DOMAIN log' \subseteq Nat /\ DOMAIN synced' = DOMAIN log' /\ logfile_number_' = mem_'
        /\ \A n \in DOMAIN log' : LogFile(log'[n], synced'[n])
    BY DEF Contents, LogsOK, LogsRest
  <2>2. \A m \in MemTables : m \in DOMAIN log' /\ LogNumber' <= m /\ table'[m] \subseteq LogPairs(log'[m], Len(log'[m]))
    BY <1>1 DEF Contents, LogsOK, LogsRest
  <2> QED
    BY <1>1, <2>1, <2>2 DEF LogsOK
<1>3. NumbersOK'
  <2>1. ASSUME NEW e \in committed
        PROVE  e[1] <= LastSequence + Len(group'.entries)
    <3>1. PICK n \in Nat, k \in Nat, l \in Nat : n = e[1] /\ k = LastSequence /\ l = Len(group'.entries)
      BY DEF Contents, NumbersOK
    <3>2. n <= k + Len(group.entries)
      BY <3>1 DEF Contents, NumbersOK
    <3> QED
      BY <3>1, <3>2
  <2>2. imm_' # None => table'[imm_'] = table[imm_]
    BY DEF There, MemTables, TablesRest
  <2> QED
    BY <2>1, <2>2 DEF Contents, NumbersOK, TablesRest
<1>4. StoredOK'
  <2>1. ASSUME NEW e \in committed
        PROVE  Stored(e)'
    <3>1. e[1] \in Nat /\ Stored(e)
      BY DEF Contents, NumbersOK, StoredOK
    <3>2. ASSUME NEW x \in InTables, x[2] = e[2], x[1] >= e[1]
          PROVE  \E y \in InTables' : y[2] = e[2] /\ y[1] >= e[1]
      <4>1. PICK y \in InTables' : y[2] = x[2] /\ y[1] \in Nat /\ x[1] \in Nat /\ y[1] >= x[1]
        OBVIOUS
      <4>2. y[1] >= e[1]
        BY <3>1, <3>2, <4>1
      <4> QED
        BY <3>2, <4>1, <4>2
    <3> QED
      BY <1>1, <3>1, <3>2 DEF Stored
  <2> QED
    BY <2>1 DEF StoredOK
<1>5. AckedOK'
  <2>1. \A m \in MemTables : log'[m] = log[m] /\ synced'[m] = synced[m]
    BY DEF LogsRest
  <2> QED
    BY <1>1, <2>1 DEF Contents, AckedOK
<1> QED
  BY <1>2, <1>3, <1>4, <1>5

\* The entries of the tables have numbers.
LEMMA TableNumbers ==
    ASSUME There, Contents
    PROVE  /\ \A v \in DOMAIN version : version[v] \in Levels /\ FilesOf(version[v]) \subseteq DOMAIN file
           /\ \A f \in DOMAIN file : f \in Nat /\ f < NextFile /\ \A x \in file[f] :
                 x[1] \in Nat /\ x[1] <= LastSequence /\ x \in committed
           /\ \A x \in InTables : x[1] \in Nat
           /\ InTables = UNION {file[f] : f \in FilesOf(version[current])}
<1>1. version \in PartialFn(Nat, Levels) /\ current \in DOMAIN version /\ FilesOK
  BY DEF There, RefsOK, VersionsOK
<1>2. \A v \in DOMAIN version : version[v] \in Levels
  BY <1>1, PartialFnElim
<1>3. \A v \in DOMAIN version : FilesOf(version[v]) \subseteq DOMAIN file
  BY <1>1 DEF FilesOK, FilesOf
<1>4. \A f \in DOMAIN file : f \in Nat /\ f < NextFile
  BY <1>1 DEF FilesOK
<1>5. \A f \in DOMAIN file : \A x \in file[f] : x[1] \in Nat /\ x[1] <= LastSequence /\ x \in committed
  BY DEF Contents, NumbersOK
<1>6. InTables = UNION {file[f] : f \in FilesOf(version[current])}
  BY DEF InTables, FilesOf
<1>7. \A x \in InTables : x[1] \in Nat
  BY <1>1, <1>3, <1>5, <1>6
<1> QED
  BY <1>2, <1>3, <1>4, <1>5, <1>6, <1>7

\* A step that leaves the store alone, but for versions and memtables that go.
LEMMA ContentsSame ==
    ASSUME There, There', Contents, VersionsRest, TablesRest, WorkRest,
           UNCHANGED <<LastSequence, mem_, imm_, logVars, LogNumber, file, current, committed, acked>>,
           Len(group.entries) \in Nat, Len(group'.entries) \in Nat, Len(group.entries) <= Len(group'.entries)
    PROVE  Contents'
<1>1. InTables' = InTables
  <2>1. version'[current'] = version[current]
    BY DEF There, VersionsRest
  <2> QED
    BY <2>1 DEF InTables
<1>2. LogsRest
  BY DEF LogsRest, logVars, Contents, LogsOK
<1>3. bg'.at = "logFlush" => bg'.log = mem_
  BY DEF WorkRest, Contents, LogsOK
<1>4. \A f \in DOMAIN file' : file'[f] \subseteq committed /\ \A e \in file'[f] : e[1] <= LastSequence
  BY DEF Contents, NumbersOK
<1>5. \A x \in InTables : \E y \in InTables' : y[2] = x[2] /\ y[1] \in Nat /\ x[1] \in Nat /\ y[1] >= x[1]
  BY <1>1, TableNumbers
<1>6. LogsOK' /\ NumbersOK' /\ StoredOK' /\ AckedOK'
  BY <1>2, <1>3, <1>4, <1>5, PlacesSame
<1>7. NewFilesOK'
  BY NewFilesSame DEF Contents
<1> QED
  BY <1>6, <1>7 DEF Contents

\* The background thread may have been woken, no more.
LEMMA StaysRest ==
    ASSUME There, BgStays
    PROVE  WorkRest
<1>1. IsWork(bg)
  BY DEF There, RefsOK, ControlOK
<1> QED
  BY <1>1 DEF BgStays, WorkRest, IsWork, Output, Compacting

\* The versions and the memtables are as they were.
LEMMA SameRest ==
    /\ UNCHANGED version => VersionsRest
    /\ UNCHANGED table => TablesRest
BY DEF VersionsRest, TablesRest

\* Writers that wait, and calls that wait for the background thread.
LEMMA WaitersContents ==
    ASSUME There, There', QueueOK, GroupOK, GroupOK', Contents, NEW t \in Thread,
           \/ Put(t) \/ CompactRange(t) \/ Woken(t)
           \/ RoomError(t) \/ RoomDelay(t) \/ RoomFound(t) \/ RoomWait(t) \/ WaitImm(t) \/ CompactLevel(t)
    PROVE  Contents'
<1>1. UNCHANGED storeVars /\ UNCHANGED committed
  BY DEF Put, CompactRange, Write, Woken, RoomError, RoomDelay, RoomFound, RoomWait, WaitImm, CompactLevel,
     quietVars, ghostVars
<1>2. /\ UNCHANGED <<LastSequence, mem_, imm_, logVars, LogNumber, file, current>>
      /\ VersionsRest /\ TablesRest
  BY <1>1, SameRest DEF storeVars, memVars, versionVars, fileVars
<1>3. WorkRest
  <2>1. ControlOK
    BY DEF There, RefsOK
  <2>2. CASE ~CompactLevel(t)
    <3>1. UNCHANGED bg
      BY <2>2 DEF Put, CompactRange, Write, Woken, RoomError, RoomDelay, RoomFound, RoomWait, WaitImm, bgVars
    <3>2. BgStays
      BY <3>1 DEF BgStays
    <3> QED
      BY <3>2, StaysRest
  <2>3. CASE CompactLevel(t)
    <3>1. UNCHANGED bgVars \/ Schedules(bg_error_, imm_, t, version, current, seekCompaction)
      BY <2>3 DEF CompactLevel
    <3>2. BgStays
      BY <2>1, <3>1, SchedulesStays
    <3> QED
      BY <3>2, StaysRest
  <2> QED
    BY <2>2, <2>3
<1>4. Len(group.entries) \in Nat /\ Len(group'.entries) \in Nat
  BY DEF GroupOK
<1>5. Len(group.entries) <= Len(group'.entries)
  <2>1. CASE RoomError(t) \/ RoomFound(t)
    <3>1. Working(t) /\ ~InGroup(t)
      BY <2>1 DEF RoomError, RoomFound, InRoom, Working, InGroup
    <3>2. Len(group.entries) = 0
      BY <3>1, NoGroupThere
    <3> QED
      BY <1>4, <3>2
  <2>2. CASE ~(RoomError(t) \/ RoomFound(t))
    <3>1. UNCHANGED group
      BY <2>2 DEF Put, CompactRange, Write, Woken, RoomDelay, RoomWait, WaitImm, CompactLevel, queueVars
    <3> QED
      BY <1>4, <3>1
  <2> QED
    BY <2>1, <2>2
<1>6. UNCHANGED acked
  <2>1. CASE RoomError(t)
    BY <2>1 DEF RoomError, Complete
  <2>2. CASE RoomFound(t)
    BY <2>2 DEF RoomFound, StartLog
  <2>3. CASE ~(RoomError(t) \/ RoomFound(t))
    BY <2>3 DEF Put, CompactRange, Write, Woken, RoomDelay, RoomWait, WaitImm, CompactLevel, quietVars, ghostVars
  <2> QED
    BY <2>1, <2>2, <2>3
<1> QED
  BY <1>1, <1>2, <1>3, <1>4, <1>5, <1>6, ContentsSame

\* One more record, or a failed one that is lost.
LEMMA AddRecordContents ==
    ASSUME There, There', QueueOK, GroupOK, GroupOK', Contents, NEW t \in Thread, NEW bad, AddRecord(t, bad)
    PROVE  Contents'
<1>1. /\ pc[t] = "log" /\ InGroup(t)
      /\ UNCHANGED <<LastSequence, mem_, imm_, table, synced, logfile_number_, LogNumber, file, version, current,
                     committed, acked, bg>>
      /\ group' = (IF bad THEN [group EXCEPT !.ok = FALSE] ELSE group)
      /\ \/ log' = log
         \/ log' = [log EXCEPT ![logfile_number_] = Append(@, Range(group.entries))]
  BY DEF AddRecord, InGroup, memVars, versionVars, fileVars, bgVars, quietVars, ghostVars
<1>2. GroupOf(t) /\ IsGroup(group) /\ Len(group.entries) \in Nat
  BY <1>1, FrontGroup
<1>3. group'.entries = group.entries
  BY <1>1, <1>2 DEF IsGroup
<1>4. VersionsRest /\ TablesRest /\ BgStays
  BY <1>1, SameRest DEF BgStays
<1>5. WorkRest
  BY <1>4, StaysRest
<1>6. CASE log' = log
  BY <1>1, <1>2, <1>3, <1>4, <1>5, <1>6, ContentsSame DEF logVars
<1>7. CASE log' = [log EXCEPT ![logfile_number_] = Append(@, Range(group.entries))]
  <2>1. mem_ \in DOMAIN log /\ logfile_number_ = mem_ /\ \A n \in DOMAIN log : LogFile(log[n], synced[n])
    BY MemTablesFacts DEF Contents, LogsOK
  <2>2. PICK r, s, R : r = log[mem_] /\ s = synced[mem_] /\ R = Range(group.entries)
    OBVIOUS
  <2>3. DOMAIN log' = DOMAIN log /\ log'[mem_] = Append(r, R) /\ \A n \in DOMAIN log : n # mem_ => log'[n] = log[n]
    BY <1>1, <1>7, <2>1, <2>2
  <2>4. \A e \in R : e[1] \in Nat
    BY <1>2, <2>2 DEF GroupOf, NumberedFrom
  <2>5. /\ LogFile(Append(r, R), s)
        /\ LogPairs(r, Len(r)) \subseteq LogPairs(Append(r, R), Len(Append(r, R)))
        /\ LogPairs(r, s) \subseteq LogPairs(Append(r, R), s)
    BY <2>1, <2>2, <2>4, LogAppended
  <2>6. MemTables' = MemTables
    BY <1>1 DEF MemTables
  <2>7. \A n \in DOMAIN log : /\ LogFile(log'[n], synced'[n])
                              /\ LogPairs(log[n], Len(log[n])) \subseteq LogPairs(log'[n], Len(log'[n]))
                              /\ LogPairs(log[n], synced[n]) \subseteq LogPairs(log'[n], synced'[n])
    <3> TAKE n \in DOMAIN log
    <3>1. CASE n = mem_
      BY <1>1, <2>2, <2>3, <2>5, <3>1
    <3>2. CASE n # mem_
      BY <1>1, <2>1, <2>3, <3>2
    <3> QED
      BY <3>1, <3>2
  <2>8. LogsOK'
    BY <1>1, <2>3, <2>6, <2>7 DEF Contents, LogsOK
  <2>9. NumbersOK' /\ StoredOK'
    BY <1>1, <1>3, <2>6 DEF Contents, NumbersOK, StoredOK, Stored, InTables
  <2>10. NewFilesOK'
    BY <1>1, <1>4, <1>5, NewFilesSame DEF Contents
  <2>11. AckedOK'
    <3>1. ASSUME NEW e \in acked', NEW m \in MemTables', Pair(e) \in table'[m]
          PROVE  Pair(e) \in LogPairs(log'[m], synced'[m])
      <4>1. Pair(e) \in LogPairs(log[m], synced[m]) /\ m \in DOMAIN log
        BY <1>1, <2>6, <3>1 DEF Contents, AckedOK, LogsOK
      <4> QED
        BY <2>7, <4>1
    <3> QED
      BY <1>1, <3>1 DEF Contents, AckedOK
  <2> QED
    BY <2>8, <2>9, <2>10, <2>11 DEF Contents
<1> QED
  BY <1>1, <1>6, <1>7

\* A log that is synced to its end.
LEMMA SyncContents ==
    ASSUME There, There', QueueOK, GroupOK, GroupOK', Contents, NEW t \in Thread, NEW bad, Sync(t, bad)
    PROVE  Contents'
<1>1. /\ pc[t] = "sync" /\ InGroup(t)
      /\ UNCHANGED <<LastSequence, mem_, imm_, table, log, logfile_number_, LogNumber, file, version, current,
                     committed, acked, bg>>
      /\ group' = (IF bad THEN [group EXCEPT !.ok = FALSE, !.syncError = TRUE] ELSE group)
      /\ synced' = IF bad THEN synced
                   ELSE [synced EXCEPT ![logfile_number_] = Len(log[logfile_number_])]
  BY DEF Sync, InGroup, memVars, versionVars, fileVars, bgVars, quietVars, ghostVars
<1>2. IsGroup(group) /\ Len(group.entries) \in Nat
  BY <1>1, FrontGroup
<1>3. group'.entries = group.entries
  BY <1>1, <1>2 DEF IsGroup
<1>4. VersionsRest /\ TablesRest /\ BgStays
  BY <1>1, SameRest DEF BgStays
<1>5. WorkRest
  BY <1>4, StaysRest
<1>6. CASE bad
  BY <1>1, <1>2, <1>3, <1>4, <1>5, <1>6, ContentsSame DEF logVars
<1>7. CASE ~bad
  <2>1. mem_ \in DOMAIN log /\ logfile_number_ = mem_ /\ \A n \in DOMAIN log : LogFile(log[n], synced[n])
        /\ DOMAIN synced = DOMAIN log
    BY MemTablesFacts DEF Contents, LogsOK
  <2>2. DOMAIN synced' = DOMAIN log
        /\ \A n \in DOMAIN log : synced'[n] = IF n = mem_ THEN Len(log[n]) ELSE synced[n]
    BY <1>1, <1>7, <2>1
  <2>3. MemTables' = MemTables
    BY <1>1 DEF MemTables
  <2>4. ASSUME NEW n \in DOMAIN log
        PROVE  LogFile(log[n], synced'[n]) /\ LogPairs(log[n], synced[n]) \subseteq LogPairs(log[n], synced'[n])
    <3>1. PICK r, s : r = log[n] /\ s = synced[n]
      OBVIOUS
    <3>2. LogFile(r, s)
      BY <2>1, <3>1
    <3>3. s \in Nat /\ Len(r) \in Nat /\ s <= Len(r)
      BY <3>2, LenProperties DEF LogFile
    <3>4. LogFile(r, Len(r)) /\ LogPairs(r, s) \subseteq LogPairs(r, Len(r))
      BY <3>2, <3>3, LogPairsMore DEF LogFile
    <3> QED
      BY <2>2, <3>1, <3>2, <3>4
  <2>5. LogsOK'
    BY <1>1, <2>2, <2>3, <2>4 DEF Contents, LogsOK
  <2>6. NumbersOK' /\ StoredOK'
    BY <1>1, <1>3, <2>3 DEF Contents, NumbersOK, StoredOK, Stored, InTables
  <2>7. NewFilesOK'
    BY <1>1, <1>4, <1>5, NewFilesSame DEF Contents
  <2>8. AckedOK'
    <3>1. ASSUME NEW e \in acked', NEW m \in MemTables', Pair(e) \in table'[m]
          PROVE  Pair(e) \in LogPairs(log'[m], synced'[m])
      <4>1. Pair(e) \in LogPairs(log[m], synced[m]) /\ m \in DOMAIN log
        BY <1>1, <2>3, <3>1 DEF Contents, AckedOK, LogsOK
      <4> QED
        BY <1>1, <2>4, <4>1
    <3> QED
      BY <1>1, <3>1 DEF Contents, AckedOK
  <2> QED
    BY <2>5, <2>6, <2>7, <2>8 DEF Contents
<1> QED
  BY <1>6, <1>7

\* One more entry in mem_: the log has it, and nobody was told of it.
LEMMA InsertContents ==
    ASSUME There, There', QueueOK, GroupOK, Contents, NEW t \in Thread, Insert(t)
    PROVE  Contents'
<1>1. /\ pc[t] = "insert" /\ InGroup(t)
      /\ UNCHANGED <<LastSequence, mem_, imm_, log, synced, logfile_number_, LogNumber, file, version, current,
                     acked, bg>>
      /\ group' = [group EXCEPT !.left = Tail(@)]
  BY DEF Insert, InGroup, logVars, versionVars, fileVars, bgVars
<1>2. GroupOf(t) /\ IsGroup(group) /\ Len(group.entries) \in Nat
  BY <1>1, FrontGroup
<1>3. group'.entries = group.entries
  BY <1>1, <1>2 DEF IsGroup
<1>4. mem_ \in DOMAIN table /\ mem_ \in MemTables
  BY MemTablesFacts
<1>5. PICK e \in Range(group.entries) : /\ table' = [table EXCEPT ![mem_] = @ \cup {Pair(e)}]
                                        /\ committed' = committed \cup {Pair(e)}
  BY <1>4, InsertGroup
<1>6. PICK p : p = Pair(e)
  OBVIOUS
<1>7. /\ LastSequence < p[1] /\ p[1] \in Nat /\ p[1] <= LastSequence + Len(group.entries) /\ p[2] \in Key /\ p = Pair(p)
      /\ p \in LogPairs(log[mem_], Len(log[mem_]))
  <2>1. LastSequence < e[1] /\ e[1] \in Nat /\ e[1] <= LastSequence + Len(group.entries) /\ e[2] \in Key
    BY <1>2 DEF GroupOf, NumberedFrom
  <2>2. p \in LogPairs(log[mem_], Len(log[mem_]))
    BY <1>1, <1>2, <1>6 DEF GroupOf, LoggedIn
  <2> QED
    BY <1>6, <2>1, <2>2 DEF Pair
<1>8. /\ table' = [table EXCEPT ![mem_] = @ \cup {p}] /\ committed' = committed \cup {p}
  BY <1>5, <1>6
<1>9. DOMAIN table' = DOMAIN table /\ table'[mem_] = table[mem_] \cup {p}
      /\ \A m \in DOMAIN table : m # mem_ => table'[m] = table[m]
  BY <1>4, <1>8
<1>10. MemTables' = MemTables /\ (imm_ # None => table'[imm_] = table[imm_])
  <2>1. imm_ # None => imm_ # mem_ /\ imm_ \in DOMAIN table
    BY MemTablesFacts
  <2> QED
    BY <1>1, <1>9, <2>1 DEF MemTables
<1>11. LogsOK'
  <2>1. \A m \in MemTables : table'[m] \subseteq LogPairs(log[m], Len(log[m]))
    <3> TAKE m \in MemTables
    <3>1. m \in DOMAIN table /\ table[m] \subseteq LogPairs(log[m], Len(log[m]))
      BY MemTablesFacts DEF Contents, LogsOK
    <3> QED
      BY <1>7, <1>9, <3>1
  <2> QED
    BY <1>1, <1>10, <2>1 DEF Contents, LogsOK
<1>12. NumbersOK'
  <2>1. \A x \in committed' : x[1] \in Nat /\ x[2] \in Key /\ x = Pair(x) /\ x[1] <= LastSequence + Len(group.entries)
    BY <1>7, <1>8 DEF Contents, NumbersOK
  <2>2. \A m \in DOMAIN table' : table'[m] \subseteq committed'
    <3> TAKE m \in DOMAIN table'
    <3>1. table[m] \subseteq committed
      BY <1>9 DEF Contents, NumbersOK
    <3> QED
      BY <1>8, <1>9, <3>1
  <2> QED
    BY <1>1, <1>3, <1>8, <1>10, <2>1, <2>2 DEF Contents, NumbersOK
<1>13. NewFilesOK'
  <2>1. bg.at = "logFlush" => imm_ # None
    BY DEF There, RefsOK, ControlOK
  <2>2. Merged' = Merged
    BY <1>1 DEF Merged
  <2> QED
    BY <1>1, <1>10, <2>1, <2>2 DEF Contents, NewFilesOK
<1>14. StoredOK'
  <2>1. \A m \in MemTables : table[m] \subseteq table'[m]
    BY <1>9, MemTablesFacts
  <2>2. InTables' = InTables
    BY <1>1 DEF InTables
  <2>3. ASSUME NEW x \in committed
        PROVE  Stored(x)'
    BY <1>10, <2>1, <2>2 DEF Contents, StoredOK, Stored
  <2>4. Stored(p)'
    BY <1>4, <1>9, <1>10 DEF Stored
  <2> QED
    BY <1>8, <2>3, <2>4 DEF StoredOK
<1>15. AckedOK'
  <2>1. ASSUME NEW x \in acked, NEW m \in MemTables, Pair(x) \in table'[m]
        PROVE  Pair(x) \in LogPairs(log[m], synced[m])
    <3>1. x[1] <= LastSequence /\ Pair(x) \in committed
      BY DEF Contents, AckedOK
    <3>2. Pair(x)[1] = x[1]
      BY DEF Pair
    <3>3. x[1] \in Nat /\ LastSequence \in Nat
      BY <3>1, <3>2 DEF Contents, NumbersOK
    <3>4. Pair(x) # p
      BY <1>7, <3>1, <3>2, <3>3
    <3>5. Pair(x) \in table[m]
      BY <1>9, <2>1, <3>4, MemTablesFacts
    <3> QED
      BY <3>5 DEF Contents, AckedOK
  <2> QED
    BY <1>1, <1>8, <1>10, <2>1 DEF Contents, AckedOK
<1> QED
  BY <1>11, <1>12, <1>13, <1>14, <1>15 DEF Contents

\* The numbers of the group are given, and its writers are told.
LEMMA CommitContents ==
    ASSUME There, There', QueueOK, GroupOK, Contents, NEW t \in Thread, Commit(t)
    PROVE  Contents'
<1>1. /\ pc[t] = "commit" /\ InGroup(t) /\ LastSequence' = LastSequence + Len(group.entries)
      /\ UNCHANGED <<mem_, imm_, table, log, synced, logfile_number_, LogNumber, file, version, current, committed, bg>>
  BY DEF Commit, InGroup, memVars, logVars, versionVars, fileVars, bgVars
<1>2. GroupOf(t) /\ IsGroup(group) /\ Len(group.entries) \in Nat
  BY <1>1, FrontGroup
<1>3. /\ group' = NoGroup
      /\ acked' = IF group.ok THEN acked \cup {e \in Range(group.entries) : e[3]} ELSE acked
  BY DEF Commit, Complete
<1>4. Len(group'.entries) = 0
  BY <1>3 DEF NoGroup
<1>5. LastSequence \in Nat /\ LastSequence' \in Nat /\ LastSequence <= LastSequence'
  BY <1>1, <1>2 DEF Contents, NumbersOK
<1>6. MemTables' = MemTables /\ InTables' = InTables /\ BgStays /\ VersionsRest /\ TablesRest
  BY <1>1, SameRest DEF MemTables, InTables, BgStays
<1>7. WorkRest
  BY <1>6, StaysRest
<1>8. LogsOK' /\ StoredOK'
  BY <1>1, <1>6 DEF Contents, LogsOK, StoredOK, Stored
<1>9. NumbersOK'
  <2>1. \A e \in committed : e[1] \in Nat /\ e[1] <= LastSequence' + Len(group'.entries)
    BY <1>1, <1>4, <1>5 DEF Contents, NumbersOK
  <2>2. \A e \in committed : e[1] <= LastSequence => e[1] <= LastSequence'
    BY <1>5, <2>1
  <2>3. \A f \in DOMAIN file : file[f] \subseteq committed /\ \A e \in file[f] : e[1] <= LastSequence'
    BY <2>2 DEF Contents, NumbersOK
  <2>4. imm_ # None => \A e \in table[imm_] : e[1] <= LastSequence'
    <3>1. imm_ # None => table[imm_] \subseteq committed
      BY MemTablesFacts DEF Contents, NumbersOK
    <3> QED
      BY <2>2, <3>1 DEF Contents, NumbersOK
  <2> QED
    BY <1>1, <1>5, <2>1, <2>3, <2>4 DEF Contents, NumbersOK
<1>10. NewFilesOK'
  BY <1>1, <1>6, <1>7, NewFilesSame DEF Contents
<1>11. ASSUME NEW e \in Range(group.entries), e[3], group.ok
       PROVE  /\ Pair(e) \in committed /\ e[1] <= LastSequence'
              /\ \A m \in MemTables : Pair(e) \in table[m] => Pair(e) \in LogPairs(log[m], synced[m])
  <2>1. /\ LastSequence < e[1] /\ e[1] \in Nat /\ e[1] <= LastSequence + Len(group.entries) /\ w[t].sync
    BY <1>2, <1>11 DEF GroupOf, NumberedFrom
  <2>2. group.left = <<>> /\ LeftOf(group, table[mem_]) /\ LoggedIn(group.entries, log[mem_], synced[mem_])
    BY <1>1, <1>2, <1>11, <2>1 DEF GroupOf
  <2>3. Range(<<>>) = {}
    BY DEF Range
  <2>4. Pair(e) \in table[mem_]
    BY <2>2, <2>3 DEF LeftOf
  <2>5. Pair(e) \in committed
    BY <2>4, MemTablesFacts DEF Contents, NumbersOK
  <2>6. ASSUME imm_ # None
        PROVE  Pair(e) \notin table[imm_]
    <3>1. \A x \in table[imm_] : x[1] <= LastSequence
      BY <2>6 DEF Contents, NumbersOK
    <3>2. Pair(e)[1] = e[1]
      BY DEF Pair
    <3> QED
      BY <1>5, <2>1, <3>1, <3>2
  <2>7. \A m \in MemTables : Pair(e) \in table[m] => Pair(e) \in LogPairs(log[m], synced[m])
    BY <2>2, <2>6, MemTablesFacts DEF LoggedIn, MemTables
  <2> QED
    BY <1>1, <2>1, <2>5, <2>7
<1>12. AckedOK'
  <2>1. ASSUME NEW e \in acked
        PROVE  /\ Pair(e) \in committed /\ e[1] <= LastSequence'
               /\ \A m \in MemTables : Pair(e) \in table[m] => Pair(e) \in LogPairs(log[m], synced[m])
    <3>1. Pair(e) \in committed /\ e[1] <= LastSequence
      BY DEF Contents, AckedOK
    <3>2. Pair(e)[1] = e[1]
      BY DEF Pair
    <3>3. e[1] \in Nat
      BY <3>1, <3>2 DEF Contents, NumbersOK
    <3> QED
      BY <1>5, <3>1, <3>3 DEF Contents, AckedOK
  <2> QED
    BY <1>1, <1>3, <1>6, <1>11, <2>1 DEF AckedOK
<1> QED
  BY <1>8, <1>9, <1>10, <1>12 DEF Contents

\* A new log and a new memtable, both empty.
LEMMA RoomSwitchContents ==
    ASSUME There, There', QueueOK, GroupOK, GroupOK', Contents, NEW t \in Thread, NEW bad, RoomSwitch(t, bad)
    PROVE  Contents'
<1>1. /\ UNCHANGED <<LastSequence, LogNumber, file, version, current, committed>>
      /\ Working(t) /\ ~InGroup(t) /\ imm_ = None
  BY DEF RoomSwitch, InRoom, Working, InGroup, versionVars, fileVars, MustWait
<1>2. group.entries = <<>> /\ Len(group.entries) = 0 /\ Len(group.entries) \in Nat /\ Len(group'.entries) \in Nat
  BY <1>1, NoGroupThere DEF GroupOK
<1>3. UNCHANGED acked
  <2>1. Range(group.entries) = {}
    BY <1>2 DEF Range
  <2>2. StartLog(t) \/ \E ok \in BOOLEAN : Complete(t, 1, ok, waits)
    BY DEF RoomSwitch
  <2> QED
    BY <2>1, <2>2 DEF StartLog, Complete
<1>4. CASE bad
  <2>1. UNCHANGED <<mem_, imm_, table, logVars, bg>>
    BY <1>4 DEF RoomSwitch, memVars, bgVars
  <2>2. VersionsRest /\ TablesRest /\ BgStays
    BY <1>1, <2>1, SameRest DEF BgStays
  <2>3. WorkRest
    BY <2>2, StaysRest
  <2>4. Len(group.entries) <= Len(group'.entries)
    BY <1>2
  <2> QED
    BY <1>1, <1>2, <1>3, <2>1, <2>2, <2>3, <2>4, ContentsSame
<1>5. CASE ~bad
  <2>1. /\ log' = With(log, NextFile, <<>>) /\ synced' = With(synced, NextFile, 0) /\ logfile_number_' = NextFile
        /\ imm_' = mem_ /\ mem_' = NextFile /\ table' = With(table, NextFile, {})
        /\ Schedules(FALSE, mem_, manual_compaction_, version, current, seekCompaction)
    BY <1>5 DEF RoomSwitch
  <2>2. /\ mem_ \in Nat /\ mem_ < NextFile /\ NextFile \in Nat /\ None \notin Nat
        /\ mem_ \in MemTables /\ mem_ \in DOMAIN table
    BY MemTablesFacts
  <2>3. ControlOK
    BY DEF There, RefsOK
  <2>4. bg.at \notin {"build", "logFlush"}
    BY <1>1, <2>3 DEF ControlOK
  <2>5. BgStays
    BY <2>1, <2>3, SchedulesStays
  <2>6. WorkRest
    BY <2>5, StaysRest
  <2>7. bg'.at # "logFlush" /\ bg'.at # "build"
    BY <2>4, <2>6 DEF WorkRest
  <2>8. MemTables' = {mem_, NextFile} /\ mem_ # NextFile
    BY <2>1, <2>2 DEF MemTables
  <2>9. /\ DOMAIN log' = DOMAIN log \cup {NextFile} /\ DOMAIN synced' = DOMAIN synced \cup {NextFile}
        /\ DOMAIN table' = DOMAIN table \cup {NextFile}
        /\ log'[NextFile] = <<>> /\ synced'[NextFile] = 0 /\ table'[NextFile] = {}
        /\ (\A n \in DOMAIN log : n # NextFile => log'[n] = log[n])
        /\ (\A n \in DOMAIN synced : n # NextFile => synced'[n] = synced[n])
        /\ (\A n \in DOMAIN table : n # NextFile => table'[n] = table[n])
    BY <2>1 DEF With
  <2>10. mem_ \in DOMAIN log /\ LogNumber <= mem_ /\ table[mem_] \subseteq LogPairs(log[mem_], Len(log[mem_]))
         /\ DOMAIN synced = DOMAIN log /\ DOMAIN log \subseteq Nat /\ LogNumber \in Nat
         /\ \A n \in DOMAIN log : LogFile(log[n], synced[n])
    BY <2>2 DEF Contents, LogsOK
  <2>11. LogNumber <= NextFile
    BY <2>2, <2>10
  <2>12. \A n \in DOMAIN log' : LogFile(log'[n], synced'[n])
    <3> TAKE n \in DOMAIN log'
    <3>1. CASE n = NextFile
      BY <2>9, <3>1, EmptyLog
    <3>2. CASE n # NextFile
      BY <2>9, <2>10, <3>2
    <3> QED
      BY <3>1, <3>2
  <2>13. LogsOK'
    <3>1. \A m \in {mem_, NextFile} :
             m \in DOMAIN log' /\ LogNumber <= m /\ table'[m] \subseteq LogPairs(log'[m], Len(log'[m]))
      BY <2>2, <2>8, <2>9, <2>10, <2>11
    <3>2. DOMAIN log' \subseteq Nat /\ DOMAIN synced' = DOMAIN log'
      BY <2>2, <2>9, <2>10
    <3> QED
      BY <1>1, <2>1, <2>7, <2>8, <2>10, <2>12, <3>1, <3>2 DEF LogsOK
  <2>14. NumbersOK'
    <3>1. \A e \in committed : e[1] \in Nat /\ e[1] <= LastSequence /\ e[1] <= LastSequence + Len(group'.entries)
      BY <1>2 DEF Contents, NumbersOK
    <3>2. \A m \in DOMAIN table' : table'[m] \subseteq committed
      <4> TAKE m \in DOMAIN table'
      <4> QED
        BY <2>9 DEF Contents, NumbersOK
    <3>3. \A e \in table'[mem_] : e[1] <= LastSequence
      BY <2>2, <2>9, <3>1, <3>2
    <3> QED
      BY <1>1, <2>1, <3>1, <3>2, <3>3 DEF Contents, NumbersOK
  <2>15. NewFilesOK'
    <3>1. Output(bg') \in {Output(bg), None} /\ None \notin Nat
      BY <2>2, <2>6 DEF WorkRest
    <3>2. \A v \in DOMAIN version : Output(bg') \notin FilesOf(version[v])
      <4> TAKE v \in DOMAIN version
      <4>1. version[v] \in Levels
        BY PartialFnElim DEF There, RefsOK, VersionsOK
      <4>2. None \notin FilesOf(version[v])
        BY <3>1, <4>1 DEF Levels, FilesOf
      <4> QED
        BY <3>1, <4>2 DEF Contents, NewFilesOK
    <3>3. bg'.at = "logMerge" => file[bg'.out] = Merged'
      <4> SUFFICES ASSUME bg'.at = "logMerge" PROVE file[bg'.out] = Merged'
        OBVIOUS
      <4>1. bg.at = "logMerge" /\ bg'.out = bg.out /\ bg'.input = bg.input /\ bg'.oldest = bg.oldest
        BY <2>6 DEF WorkRest
      <4>2. Merged' = Merged
        BY <1>1, <4>1 DEF Merged
      <4> QED
        BY <4>1, <4>2 DEF Contents, NewFilesOK
    <3> QED
      BY <1>1, <2>7, <3>2, <3>3 DEF NewFilesOK
  <2>16. StoredOK'
    <3>1. InTables' = InTables
      BY <1>1 DEF InTables
    <3>2. \A m \in MemTables : m = mem_
      BY <1>1, MemTablesFacts DEF MemTables
    <3>3. \A e \in committed : Stored(e)'
      <4> TAKE e \in committed
      <4>1. Stored(e)
        BY DEF Contents, StoredOK
      <4> QED
        BY <2>2, <2>8, <2>9, <3>1, <3>2, <4>1 DEF Stored
    <3> QED
      BY <1>1, <3>3 DEF StoredOK
  <2>17. AckedOK'
    <3>1. ASSUME NEW e \in acked, NEW m \in {mem_, NextFile}, Pair(e) \in table'[m]
          PROVE  Pair(e) \in LogPairs(log'[m], synced'[m])
      <4>1. m = mem_ /\ Pair(e) \in table[mem_]
        BY <2>2, <2>9, <3>1
      <4>2. Pair(e) \in LogPairs(log[mem_], synced[mem_])
        BY <2>2, <4>1 DEF Contents, AckedOK
      <4> QED
        BY <2>8, <2>9, <2>10, <4>1, <4>2
    <3> QED
      BY <1>1, <1>3, <2>8, <3>1 DEF Contents, AckedOK
  <2> QED
    BY <2>13, <2>14, <2>15, <2>16, <2>17 DEF Contents
<1> QED
  BY <1>4, <1>5

\* Readers, the destructor and steps that do nothing.
LEMMA OthersContents ==
    ASSUME There, There', GroupOK, Contents, (\E r \in Reader : Reading(r)) \/ Close \/ UNCHANGED vars
    PROVE  Contents'
<1>1. UNCHANGED <<LastSequence, mem_, imm_, logVars, LogNumber, file, current, committed, acked, group>>
  <2>1. CASE \E r \in Reader : Reading(r)
    BY <2>1 DEF Reading, GetSnapshot, ReleaseSnapshot, Get, GetDone, storeVars, memVars, versionVars, fileVars,
       queueVars, ghostVars
  <2>2. CASE Close \/ UNCHANGED vars
    BY <2>2 DEF Close, vars, storeVars, memVars, logVars, versionVars, fileVars, queueVars, ghostVars
  <2> QED
    BY <2>1, <2>2
<1>2. Len(group.entries) \in Nat /\ Len(group'.entries) \in Nat /\ Len(group.entries) <= Len(group'.entries)
  BY <1>1 DEF GroupOK
<1>3. VersionsOK /\ MemoryOK /\ ControlOK
  BY DEF There, RefsOK
<1>4. VersionsRest /\ TablesRest /\ WorkRest
  <2>1. CASE \/ Close \/ UNCHANGED vars
             \/ \E r \in Reader : GetSnapshot(r) \/ ReleaseSnapshot(r) \/ \E key \in Key : Get(r, key)
    <3>1. UNCHANGED <<version, table, bg>>
      BY <2>1 DEF Close, vars, GetSnapshot, ReleaseSnapshot, Get, storeVars, memVars, versionVars, bgVars
    <3>2. BgStays
      BY <3>1 DEF BgStays
    <3> QED
      BY <3>1, <3>2, SameRest, StaysRest
  <2>2. ASSUME NEW r \in Reader, NEW seek \in BOOLEAN, GetDone(r, seek)
        PROVE  VersionsRest /\ TablesRest /\ WorkRest
    <3>1. PICK s, held, n : /\ s = (IF seek THEN seekCompaction \cup {get[r].version} ELSE seekCompaction)
                            /\ held = {get[r].mem, get[r].imm} /\ n = get[r].version
      OBVIOUS
    <3>2. /\ UNCHANGED bgVars \/ Schedules(bg_error_, imm_, manual_compaction_, version, current, s)
          /\ SetMemTables(table, [m \in DOMAIN mrefs |-> mrefs[m] - (IF m \in held THEN 1 ELSE 0)])
          /\ SetVersions(version, Unref(vrefs, n))
      BY <2>2, <3>1 DEF GetDone
    <3>3. BgStays
      BY <1>3, <3>2, SchedulesStays
    <3>4. VersionsRest
      BY <1>3, <3>2, VersionsStay DEF VersionsRest
    <3>5. TablesRest
      <4>1. PICK refs : refs = [m \in DOMAIN mrefs |-> mrefs[m] - (IF m \in held THEN 1 ELSE 0)]
        OBVIOUS
      <4>2. table' = Restrict(table, Used(refs)) /\ DOMAIN refs = DOMAIN table
        BY <1>3, <3>2, <4>1 DEF SetMemTables, MemoryOK
      <4> QED
        BY <4>2 DEF TablesRest, Restrict, Used
    <3> QED
      BY <3>3, <3>4, <3>5, StaysRest
  <2> QED
    BY <2>1, <2>2 DEF Reading
<1> QED
  BY <1>1, <1>2, <1>4, ContentsSame

-----------------------------------------------------------------------------
(* The background thread's steps.                                          *)

\* What a step of the background thread leaves to the writers.
LEMMA BackgroundQueue ==
    ASSUME Background
    PROVE  UNCHANGED <<pc, rounds, writers_, w, group, LastSequence, mem_, committed, acked, logfile_number_>>
<1>1. CASE BackgroundCall \/ WorkFlush \/ WorkStopped \/ BackgroundCallDone
  BY <1>1 DEF BackgroundCall, WorkFlush, WorkStopped, BackgroundCallDone, queueVars, storeVars, memVars, logVars,
     quietVars, ghostVars
<1>2. ASSUME NEW bad \in BOOLEAN, BuildTable(bad) \/ LogFlush(bad) \/ LogMerge(bad) \/ LogMove(bad)
      PROVE  UNCHANGED <<pc, rounds, writers_, w, group, LastSequence, mem_, committed, acked, logfile_number_>>
  BY <1>2 DEF BuildTable, LogFlush, LogMerge, LogMove, queueVars, memVars, logVars, ghostVars
<1>3. ASSUME NEW bad \in BOOLEAN, OpenCompactionOutputFile(bad) \/ FinishCompactionOutputFile(bad)
      PROVE  UNCHANGED <<pc, rounds, writers_, w, group, LastSequence, mem_, committed, acked, logfile_number_>>
  BY <1>3 DEF OpenCompactionOutputFile, FinishCompactionOutputFile, queueVars, memVars, logVars, quietVars, ghostVars
<1> QED
  BY <1>1, <1>2, <1>3 DEF Background

\* A flush begins.
LEMMA StartFlushContents ==
    ASSUME There, There', GroupOK, Contents, NEW ret, StartFlush(ret), ret \in {"finish", "work"},
           bg.at \in {"scheduled", "work"}, ret = "work" => bg.at = "work",
           UNCHANGED <<LastSequence, mem_, imm_, table, logVars, LogNumber, version, current, file, committed, acked,
                       group>>
    PROVE  Contents'
<1>1. VersionsRest /\ TablesRest
  BY SameRest
<1>2. bg' = [bg EXCEPT !.at = "build", !.ret = ret, !.number = NextFile, !.base = current]
  BY DEF StartFlush
<1>3. ControlOK /\ FilesOK /\ None \notin Nat
  BY DEF There, RefsOK, EngineAssumption
<1>4. bg'.at = "build" /\ bg'.number = NextFile /\ bg'.ret = ret /\ bg'.out = bg.out
  BY <1>2, <1>3 DEF ControlOK, IsWork
<1>5. Output(bg') \in {Output(bg), None}
  BY <1>4 DEF Output, Compacting
<1>6. LogsRest
  BY DEF LogsRest, logVars, Contents, LogsOK
<1>7. InTables' = InTables
  BY DEF InTables
<1>8. \A x \in InTables : \E y \in InTables' : y[2] = x[2] /\ y[1] \in Nat /\ x[1] \in Nat /\ y[1] >= x[1]
  BY <1>7, TableNumbers
<1>9. Len(group.entries) \in Nat /\ Len(group'.entries) \in Nat /\ Len(group.entries) <= Len(group'.entries)
  BY DEF GroupOK
<1>10. \A f \in DOMAIN file' : file'[f] \subseteq committed /\ \A e \in file'[f] : e[1] <= LastSequence
  BY DEF Contents, NumbersOK
<1>11. LogsOK' /\ NumbersOK' /\ StoredOK' /\ AckedOK'
  BY <1>1, <1>4, <1>6, <1>8, <1>9, <1>10, PlacesSame
<1>12. \A v \in DOMAIN version : NextFile \notin FilesOf(version[v]) /\ None \notin FilesOf(version[v])
  <2> TAKE v \in DOMAIN version
  <2>1. FilesOf(version[v]) \subseteq DOMAIN file /\ \A f \in DOMAIN file : f \in Nat /\ f < NextFile
    BY TableNumbers
  <2> QED
    BY <1>3, <2>1 DEF ControlOK
<1>13. NextFile # Output(bg')
  <2>1. NextFile \in Nat
    BY <1>3 DEF ControlOK
  <2>2. Output(bg) # None => Output(bg) < NextFile /\ Output(bg) \in Nat
    BY <1>3 DEF FilesOK
  <2> QED
    BY <1>3, <1>5, <2>1, <2>2
<1>14. NewFilesOK'
  BY <1>4, <1>5, <1>12, <1>13 DEF Contents, NewFilesOK
<1> QED
  BY <1>11, <1>14 DEF Contents

\* A new version that is there is the current one.
LEMMA InstallFacts ==
    ASSUME NEW refs, NEW levels, Install(levels, refs), DOMAIN refs = DOMAIN version, current' \in DOMAIN version'
    PROVE  /\ version'[current'] = levels
           /\ \A v \in DOMAIN version' : v = current' \/ (v \in DOMAIN version /\ version'[v] = version[v])
<1>1. PICK n : n = Max(DOMAIN version) + 1
  OBVIOUS
<1>2. PICK vs, z : vs = With(version, n, levels) /\ z = With(Unref(refs, current), n, 1)
  OBVIOUS
<1>3. current' = n /\ version' = Restrict(vs, Used(z))
  BY <1>1, <1>2 DEF Install, SetVersions
<1>4. DOMAIN version' = Used(z) /\ \A v \in DOMAIN version' : version'[v] = vs[v]
  BY <1>3 DEF Restrict
<1>5. Used(z) \subseteq DOMAIN version \cup {n}
  BY <1>2 DEF Used, With, Unref
<1>6. vs[n] = levels /\ \A v \in DOMAIN version : v # n => vs[v] = version[v]
  BY <1>2 DEF With
<1> QED
  BY <1>3, <1>4, <1>5, <1>6

\* One holder less, or one more, of the versions.
LEMMA RefDomains ==
    ASSUME There, NEW n
    PROVE  DOMAIN Unref(vrefs, n) = DOMAIN version /\ DOMAIN vrefs = DOMAIN version
BY DEF There, RefsOK, VersionsOK, Unref

\* A table is made from imm_, or not.
LEMMA BuildTableContents ==
    ASSUME There, There', GroupOK, Contents, NEW bad, BuildTable(bad)
    PROVE  Contents'
<1>1. /\ bg.at = "build"
      /\ UNCHANGED <<LastSequence, mem_, imm_, table, logVars, LogNumber, current, committed, acked, group>>
      /\ SetVersions(version, Unref(vrefs, bg.base))
      /\ file' = IF bad \/ table[imm_] = {} THEN file ELSE With(file, bg.number, table[imm_])
  BY DEF BuildTable, memVars, ghostVars, queueVars
<1>2. \/ ~bad /\ bg' = [bg EXCEPT !.at = "logFlush", !.log = logfile_number_,
                                  !.level = IF version[bg.base] = <<{}, {}>> THEN 2 ELSE 1]
      \/ bg' = [bg EXCEPT !.at = bg.ret]
  BY DEF BuildTable, Built
<1>3. ControlOK /\ FilesOK /\ VersionsOK /\ None \notin Nat
  BY DEF There, RefsOK, EngineAssumption
<1>4. bg.ret \in {"finish", "work"} /\ bg.number \in Nat /\ imm_ # None
  BY <1>1, <1>3 DEF ControlOK, IsWork
<1>5. /\ bg'.number = bg.number /\ Output(bg') \in {Output(bg), None}
      /\ bg'.at = "logFlush" => ~bad /\ bg'.log = mem_ /\ bg'.level \in {1, 2}
      /\ bg'.at \in {"logFlush", "finish", "work"} /\ (bg'.at = "finish" => Output(bg') = None)
  <2>1. logfile_number_ = mem_
    BY DEF Contents, LogsOK
  <2>2. IsWork(bg)
    BY <1>3 DEF ControlOK
  <2>3. CASE ~bad /\ bg' = [bg EXCEPT !.at = "logFlush", !.log = logfile_number_,
                                      !.level = IF version[bg.base] = <<{}, {}>> THEN 2 ELSE 1]
    <3>a. PICK l \in {1, 2} : l = IF version[bg.base] = <<{}, {}>> THEN 2 ELSE 1
      OBVIOUS
    <3>b. bg' = [bg EXCEPT !.at = "logFlush", !.log = mem_, !.level = l]
      BY <2>1, <2>3, <3>a
    <3>c. DOMAIN bg = {"at", "ret", "number", "base", "level", "log", "input", "out", "manual", "oldest"}
      BY <2>2 DEF IsWork
    <3>1. bg'.at = "logFlush" /\ bg'.log = mem_ /\ bg'.level = l /\ bg'.number = bg.number /\ bg'.out = bg.out
          /\ bg'.ret = bg.ret
      BY <3>b, <3>c
    <3> QED
      BY <1>1, <2>3, <3>a, <3>1 DEF Output, Compacting
  <2>4. CASE bg' = [bg EXCEPT !.at = bg.ret]
    <3>1. bg'.at = bg.ret /\ bg'.number = bg.number /\ bg'.out = bg.out
      BY <2>2, <2>4 DEF IsWork
    <3> QED
      BY <1>1, <1>4, <3>1 DEF Output, Compacting
  <2> QED
    BY <1>2, <2>3, <2>4
<1>6. VersionsRest /\ TablesRest
  BY <1>1, <1>3, VersionsStay, SameRest DEF VersionsRest
<1>7. imm_ \in DOMAIN table /\ imm_ \in MemTables
  BY <1>4, MemTablesFacts
<1>8. /\ DOMAIN file' \subseteq DOMAIN file \cup {bg.number}
      /\ \A f \in DOMAIN file : f # bg.number => f \in DOMAIN file' /\ file'[f] = file[f]
      /\ bg.number \in DOMAIN file' /\ bg.number \notin DOMAIN file => file'[bg.number] = table[imm_]
      /\ ~bad => table[imm_] = {} \/ (bg.number \in DOMAIN file' /\ file'[bg.number] = table[imm_])
      /\ file' = file \/ file'[bg.number] = table[imm_]
  BY <1>1 DEF With
<1>9. \A v \in DOMAIN version : bg.number \notin FilesOf(version[v])
  BY <1>1 DEF Contents, NewFilesOK
<1>10. InTables' = InTables
  <2>1. version'[current'] = version[current] /\ current \in DOMAIN version
    BY <1>1, <1>6 DEF There, VersionsRest
  <2>2. \A f \in FilesOf(version[current]) : file'[f] = file[f]
    BY <1>8, <1>9, <2>1, TableNumbers
  <2>3. InTables = UNION {file[f] : f \in FilesOf(version[current])}
        /\ InTables' = UNION {file'[f] : f \in FilesOf(version[current])}
    BY <2>1 DEF InTables, FilesOf
  <2> QED
    BY <2>2, <2>3
<1>11. \A f \in DOMAIN file' : file'[f] \subseteq committed /\ \A e \in file'[f] : e[1] <= LastSequence
  <2> TAKE f \in DOMAIN file'
  <2>1. table[imm_] \subseteq committed /\ \A e \in table[imm_] : e[1] <= LastSequence
    BY <1>4, <1>7 DEF Contents, NumbersOK
  <2>2. CASE file' = file \/ f # bg.number
    BY <1>8, <2>2 DEF Contents, NumbersOK
  <2>3. CASE f = bg.number /\ file' # file
    BY <1>8, <2>1, <2>3
  <2> QED
    BY <2>2, <2>3
<1>12. LogsRest
  BY <1>1 DEF LogsRest, logVars, Contents, LogsOK
<1>13. \A x \in InTables : \E y \in InTables' : y[2] = x[2] /\ y[1] \in Nat /\ x[1] \in Nat /\ y[1] >= x[1]
  BY <1>10, TableNumbers
<1>14. Len(group.entries) \in Nat /\ Len(group'.entries) \in Nat /\ Len(group.entries) <= Len(group'.entries)
  BY <1>1 DEF GroupOK
<1>15. LogsOK' /\ NumbersOK' /\ StoredOK' /\ AckedOK'
  BY <1>1, <1>5, <1>6, <1>11, <1>12, <1>13, <1>14, PlacesSame
<1>16. NewFilesOK'
  <2>1. \A v \in DOMAIN version' : bg.number \notin FilesOf(version'[v]) /\ Output(bg) \notin FilesOf(version'[v])
                                   /\ None \notin FilesOf(version'[v])
    <3> TAKE v \in DOMAIN version'
    <3>1. v \in DOMAIN version /\ version'[v] = version[v]
      BY <1>6 DEF VersionsRest
    <3>2. None \notin FilesOf(version[v])
      BY <1>3, <3>1, TableNumbers
    <3> QED
      BY <1>9, <3>1, <3>2 DEF Contents, NewFilesOK
  <2>2. bg.number # Output(bg) /\ bg.number # None
    BY <1>1, <1>3, <1>4 DEF Contents, NewFilesOK
  <2>3. \A v \in DOMAIN version' : bg'.number \notin FilesOf(version'[v]) /\ Output(bg') \notin FilesOf(version'[v])
    BY <1>5, <2>1
  <2>4. bg'.number # Output(bg')
    BY <1>5, <2>2
  <2>5. bg'.at = "logFlush" => table'[imm_'] = {} \/ (bg'.number \in DOMAIN file' /\ file'[bg'.number] = table'[imm_'])
    BY <1>1, <1>5, <1>8
  <2>6. bg'.at # "logMerge"
    BY <1>5
  <2> QED
    BY <1>5, <2>3, <2>4, <2>5, <2>6 DEF NewFilesOK
<1> QED
  BY <1>15, <1>16 DEF Contents

\* What DeleteObsoleteFiles leaves of tables and logs.
LEMMA DeleteFacts ==
    ASSUME NEW vs, NEW pending, NEW n, NEW e, DeleteObsoleteFiles(file, log, vs, pending, n, e),
           DOMAIN synced = DOMAIN log
    PROVE  /\ \A f \in DOMAIN file' : f \in DOMAIN file /\ file'[f] = file[f]
           /\ DOMAIN synced' = DOMAIN log'
           /\ \A k \in DOMAIN log' : k \in DOMAIN log /\ log'[k] = log[k] /\ synced'[k] = synced[k]
           /\ \A k \in DOMAIN log : k >= n => k \in DOMAIN log'
<1>1. CASE e
  BY <1>1 DEF DeleteObsoleteFiles
<1>2. CASE ~e
  <2>1. PICK D, L : D = DOMAIN file \cap (pending \cup LiveFiles(vs)) /\ L = {k \in DOMAIN log : k >= n}
    OBVIOUS
  <2>2. file' = Restrict(file, D) /\ log' = Restrict(log, L) /\ synced' = Restrict(synced, L)
    BY <1>2, <2>1 DEF DeleteObsoleteFiles
  <2>3. D \subseteq DOMAIN file /\ L \subseteq DOMAIN log
    BY <2>1
  <2>4. /\ DOMAIN file' = D /\ DOMAIN log' = L /\ DOMAIN synced' = L
        /\ \A f \in D : file'[f] = file[f]
        /\ \A k \in L : log'[k] = log[k] /\ synced'[k] = synced[k]
    BY <2>2 DEF Restrict
  <2> QED
    BY <2>1, <2>3, <2>4
<1> QED
  BY <1>1, <1>2

\* The table made from imm_ is installed, imm_ and its log are given up.
LEMMA LogFlushContents ==
    ASSUME There, There', GroupOK, Contents, NEW bad, LogFlush(bad)
    PROVE  Contents'
<1>1. /\ bg.at = "logFlush" /\ bg' = [bg EXCEPT !.at = bg.ret]
      /\ UNCHANGED <<LastSequence, mem_, logfile_number_, committed, acked, group>>
  BY DEF LogFlush, ghostVars, queueVars, memVars
<1>2. ControlOK /\ FilesOK /\ FilesOK' /\ VersionsOK /\ MemoryOK /\ None \notin Nat
  BY DEF There, RefsOK, EngineAssumption
<1>3. bg.ret \in {"finish", "work"} /\ bg.number \in Nat /\ imm_ # None
  BY <1>1, <1>2 DEF ControlOK, IsWork
<1>4. bg'.at \in {"finish", "work"} /\ Output(bg') \in {Output(bg), None}
  <2>1. bg'.at = bg.ret /\ bg'.out = bg.out
    BY <1>1, <1>2 DEF ControlOK, IsWork
  <2> QED
    BY <1>1, <1>3, <2>1 DEF Output, Compacting
<1>5. WorkRest
  BY <1>4 DEF WorkRest
<1>6. Len(group.entries) \in Nat /\ Len(group'.entries) \in Nat /\ Len(group.entries) <= Len(group'.entries)
  BY <1>1 DEF GroupOK
<1>7. CASE bad
  <2>1. UNCHANGED <<imm_, table, logVars, LogNumber, file, version, current>>
    BY <1>1, <1>7 DEF LogFlush, memVars, versionVars, logVars
  <2>2. VersionsRest /\ TablesRest
    BY <2>1, SameRest
  <2> QED
    BY <1>1, <1>5, <1>6, <2>1, <2>2, ContentsSame
<1>8. CASE ~bad
  <2>1. PICK levels : levels = Added(version[current], bg.level, {bg.number} \cap DOMAIN file)
    OBVIOUS
  <2>2. /\ Install(levels, vrefs) /\ LogNumber' = bg.log /\ SetMemTables(table, MemUnref(mrefs, imm_)) /\ imm_' = None
        /\ DeleteObsoleteFiles(file, log, version', pending_outputs_, bg.log, bg_error_)
    BY <1>8, <2>1 DEF LogFlush
  <2>3. current' \in DOMAIN version' /\ current \in DOMAIN version
    BY DEF There
  <2>4. version'[current'] = levels
        /\ \A v \in DOMAIN version' : v = current' \/ (v \in DOMAIN version /\ version'[v] = version[v])
    BY <2>2, <2>3, InstallFacts, RefDomains
  <2>5. bg.log = mem_ /\ mem_ \in DOMAIN log /\ DOMAIN synced = DOMAIN log /\ mem_ \in Nat /\ logfile_number_ = mem_
        /\ bg.level \in {1, 2} /\ imm_ # mem_ /\ imm_ \in DOMAIN table /\ imm_ \in MemTables
        /\ (table[imm_] = {} \/ (bg.number \in DOMAIN file /\ file[bg.number] = table[imm_]))
    BY <1>1, <1>3, MemTablesFacts DEF Contents, LogsOK, NewFilesOK
  <2>6. /\ \A f \in DOMAIN file' : f \in DOMAIN file /\ file'[f] = file[f]
        /\ DOMAIN synced' = DOMAIN log'
        /\ \A k \in DOMAIN log' : k \in DOMAIN log /\ log'[k] = log[k] /\ synced'[k] = synced[k]
        /\ mem_ \in DOMAIN log'
    <3>1. mem_ >= bg.log
      BY <2>5
    <3>2. PICK n, e, vs, pending : n = bg.log /\ e = bg_error_ /\ vs = version' /\ pending = pending_outputs_
      OBVIOUS
    <3> QED
      BY <2>2, <2>5, <3>1, <3>2, DeleteFacts
  <2>7. MemTables' = {mem_}
    BY <1>1, <2>2, <2>5, <1>2 DEF MemTables
  <2>8. mem_ \in DOMAIN table' /\ \A m \in DOMAIN table' : m \in DOMAIN table /\ table'[m] = table[m]
    <3>1. mem_ \in DOMAIN table'
      BY <2>7 DEF There
    <3>2. PICK refs : refs = MemUnref(mrefs, imm_)
      OBVIOUS
    <3>3. DOMAIN refs = DOMAIN table /\ table' = Restrict(table, Used(refs))
      BY <1>2, <2>2, <3>2 DEF SetMemTables, MemUnref, MemoryOK
    <3> QED
      BY <3>1, <3>3 DEF Restrict, Used
  <2>9. FilesOf(levels) = FilesOf(version[current]) \cup ({bg.number} \cap DOMAIN file)
    BY <2>1, <2>5 DEF Added, FilesOf
  <2>10. FilesOf(levels) \subseteq DOMAIN file' /\ \A f \in FilesOf(levels) : file'[f] = file[f]
    <3>1. FilesOf(levels) \subseteq DOMAIN file'
      BY <1>2, <2>3, <2>4 DEF FilesOK, FilesOf
    <3> QED
      BY <2>6, <3>1
  <2>11. InTables' = UNION {file[f] : f \in FilesOf(levels)}
    BY <2>4, <2>10 DEF InTables, FilesOf
  <2>12. InTables \subseteq InTables' /\ table[imm_] \subseteq InTables'
    <3>1. InTables \subseteq InTables'
      BY <2>9, <2>11, TableNumbers
    <3>2. table[imm_] \subseteq InTables'
      BY <2>5, <2>9, <2>11
    <3> QED
      BY <3>1, <3>2
  <2>13. LogsOK'
    <3>1. table'[mem_] \subseteq LogPairs(log'[mem_], Len(log'[mem_]))
      <4>1. table[mem_] \subseteq LogPairs(log[mem_], Len(log[mem_]))
        BY MemTablesFacts DEF Contents, LogsOK
      <4> QED
        BY <2>6, <2>8, <4>1
    <3>2. \A n \in DOMAIN log' : LogFile(log'[n], synced'[n]) /\ n \in Nat
      BY <2>6 DEF Contents, LogsOK
    <3> QED
      BY <1>1, <1>4, <2>2, <2>5, <2>6, <2>7, <3>1, <3>2 DEF LogsOK
  <2>14. NumbersOK'
    BY <1>1, <2>2, <2>6, <2>8 DEF Contents, NumbersOK
  <2>15. StoredOK'
    <3>1. ASSUME NEW e \in committed
          PROVE  Stored(e)'
      <4>1. Stored(e) /\ e[1] \in Nat
        BY DEF Contents, StoredOK, NumbersOK
      <4>2. CASE e \in table[imm_]
        <5>1. e \in InTables' /\ e[1] >= e[1]
          BY <2>12, <4>1, <4>2
        <5> QED
          BY <5>1 DEF Stored
      <4>3. CASE e \in table[mem_]
        BY <2>7, <2>8, <4>3 DEF Stored
      <4>4. CASE \E x \in InTables : x[2] = e[2] /\ x[1] >= e[1]
        BY <2>12, <4>4 DEF Stored
      <4> QED
        BY <4>1, <4>2, <4>3, <4>4, MemTablesFacts DEF Stored
    <3> QED
      BY <1>1, <3>1 DEF StoredOK
  <2>16. AckedOK'
    <3>1. mem_ \in MemTables
      BY MemTablesFacts
    <3> QED
      BY <1>1, <2>6, <2>7, <2>8, <3>1 DEF Contents, AckedOK
  <2>17. NewFilesOK'
    <3>1. \A v \in DOMAIN version : Output(bg) \notin FilesOf(version[v]) /\ None \notin FilesOf(version[v])
      <4> TAKE v \in DOMAIN version
      <4>1. None \notin FilesOf(version[v])
        BY <1>2, TableNumbers
      <4> QED
        BY <4>1 DEF Contents, NewFilesOK
    <3>2. bg.number # Output(bg) /\ bg.number # None
      BY <1>1, <1>2, <1>3 DEF Contents, NewFilesOK
    <3>3. Output(bg) \notin FilesOf(levels) /\ None \notin FilesOf(levels)
      BY <2>3, <2>9, <3>1, <3>2
    <3>4. \A v \in DOMAIN version' : Output(bg') \notin FilesOf(version'[v])
      BY <1>4, <2>4, <3>1, <3>3
    <3> QED
      BY <1>4, <3>4 DEF NewFilesOK
  <2> QED
    BY <2>13, <2>14, <2>15, <2>16, <2>17 DEF Contents
<1> QED
  BY <1>7, <1>8

\* A step without a flush or a compaction that ends: the tables in use are as they were.
LEMMA FilesRest ==
    ASSUME There, There', GroupOK, Contents, LogsRest, TablesRest, UNCHANGED <<mem_, imm_>>,
           UNCHANGED <<LastSequence, committed, acked, group, version, current>>,
           bg'.at # "logFlush", \A f \in FilesOf(version[current]) : file'[f] = file[f],
           \A f \in DOMAIN file' : file'[f] \subseteq committed /\ \A e \in file'[f] : e[1] <= LastSequence
    PROVE  LogsOK' /\ NumbersOK' /\ StoredOK' /\ AckedOK'
<1>1. InTables' = InTables
  BY DEF InTables, FilesOf
<1>2. \A x \in InTables : \E y \in InTables' : y[2] = x[2] /\ y[1] \in Nat /\ x[1] \in Nat /\ y[1] >= x[1]
  BY <1>1, TableNumbers
<1>3. Len(group.entries) \in Nat /\ Len(group'.entries) \in Nat /\ Len(group.entries) <= Len(group'.entries)
  BY DEF GroupOK
<1> QED
  BY <1>2, <1>3, PlacesSame

\* The logs and the memtables are as they were.
LEMMA MemoryRest ==
    ASSUME Contents, UNCHANGED <<memVars, logVars, LogNumber>>
    PROVE  LogsRest /\ TablesRest /\ UNCHANGED <<mem_, imm_, table>>
BY DEF Contents, LogsOK, LogsRest, TablesRest, memVars, logVars

\* The output of a compaction is opened.
LEMMA OpenOutputContents ==
    ASSUME There, There', GroupOK, Contents, NEW bad, OpenCompactionOutputFile(bad)
    PROVE  Contents'
<1>1. /\ bg.at = "work" /\ bg' = [bg EXCEPT !.at = IF bad THEN "fail" ELSE "work", !.out = NextFile]
      /\ file' = IF bad THEN file ELSE With(file, NextFile, {})
      /\ UNCHANGED <<LastSequence, memVars, logVars, LogNumber, version, current, committed, acked, group>>
  BY DEF OpenCompactionOutputFile, versionVars, queueVars, quietVars, ghostVars
<1>2. IsWork(bg) /\ NextFile \in Nat
  BY DEF There, RefsOK, ControlOK
<1>3. PICK p \in {"fail", "work"} : p = (IF bad THEN "fail" ELSE "work")
  OBVIOUS
<1>4. bg' = [bg EXCEPT !.at = p, !.out = NextFile]
  BY <1>1, <1>3
<1>5. bg'.at = p /\ bg'.out = NextFile
  BY <1>2, <1>4 DEF IsWork
<1>6. Output(bg') = NextFile
  BY <1>3, <1>5 DEF Output, Compacting
<1>7. \A v \in DOMAIN version : NextFile \notin FilesOf(version[v])
  <2> TAKE v \in DOMAIN version
  <2> QED
    BY <1>2, TableNumbers
<1>8. \A f \in DOMAIN file' : f = NextFile \/ (f \in DOMAIN file /\ file'[f] = file[f])
  BY <1>1 DEF With
<1>9. file' = file \/ file'[NextFile] = {}
  BY <1>1 DEF With
<1>10. \A f \in DOMAIN file : f # NextFile => file'[f] = file[f]
  BY <1>1 DEF With
<1>11. LogsRest /\ TablesRest /\ UNCHANGED <<mem_, imm_>>
  BY <1>1, MemoryRest
<1>12. \A f \in FilesOf(version[current]) : file'[f] = file[f]
  BY <1>7, <1>10, TableNumbers DEF There
<1>13. \A f \in DOMAIN file' : file'[f] \subseteq committed /\ \A e \in file'[f] : e[1] <= LastSequence
  <2> TAKE f \in DOMAIN file'
  <2> QED
    BY <1>8, <1>9 DEF Contents, NumbersOK
<1>14. bg'.at \notin {"build", "logFlush", "logMerge"}
  BY <1>3, <1>5
<1>15. LogsOK' /\ NumbersOK' /\ StoredOK' /\ AckedOK'
  BY <1>1, <1>11, <1>12, <1>13, <1>14, FilesRest
<1>16. NewFilesOK'
  BY <1>1, <1>6, <1>7, <1>14 DEF NewFilesOK
<1> QED
  BY <1>15, <1>16 DEF Contents

\* The output of a compaction is written.
LEMMA FinishOutputContents ==
    ASSUME There, There', GroupOK, Contents, NEW bad, FinishCompactionOutputFile(bad)
    PROVE  Contents'
<1>1. /\ bg.at = "work" /\ bg.out # None /\ bg' = [bg EXCEPT !.at = IF bad THEN "fail" ELSE "logMerge"]
      /\ file' = IF bad \/ bg.out \notin DOMAIN file THEN file ELSE [file EXCEPT ![bg.out] = Merged]
      /\ UNCHANGED <<LastSequence, memVars, logVars, LogNumber, version, current, committed, acked, group>>
  BY DEF FinishCompactionOutputFile, versionVars, queueVars, quietVars, ghostVars
<1>2. IsWork(bg) /\ FilesOK
  BY DEF There, RefsOK, ControlOK
<1>3. PICK p \in {"fail", "logMerge"} : p = (IF bad THEN "fail" ELSE "logMerge")
  OBVIOUS
<1>4. bg' = [bg EXCEPT !.at = p]
  BY <1>1, <1>3
<1>5. bg'.at = p /\ bg'.out = bg.out /\ bg'.input = bg.input /\ bg'.oldest = bg.oldest
  BY <1>2, <1>4 DEF IsWork
<1>6. Output(bg) = bg.out /\ Output(bg') = bg.out /\ bg.input \in DOMAIN version
  BY <1>1, <1>3, <1>5 DEF Output, Compacting, There
<1>7. bg.out \in DOMAIN file /\ \A v \in DOMAIN version : bg.out \notin FilesOf(version[v])
  BY <1>1, <1>2, <1>6 DEF FilesOK, Contents, NewFilesOK
<1>8. /\ DOMAIN file' = DOMAIN file /\ \A f \in DOMAIN file : f # bg.out => file'[f] = file[f]
      /\ file' = file \/ file'[bg.out] = Merged
      /\ ~bad => file'[bg.out] = Merged
  BY <1>1, <1>7
<1>9. \A v \in DOMAIN version : \A f \in FilesOf(version[v]) : file'[f] = file[f]
  <2> TAKE v \in DOMAIN version
  <2> TAKE f \in FilesOf(version[v])
  <2>1. f \in DOMAIN file /\ f # bg.out
    BY <1>7, TableNumbers
  <2> QED
    BY <1>8, <2>1
<1>10. Merged \subseteq UNION {file[f] : f \in FilesOf(version[bg.input])}
  BY DEF Merged, FilesOf
<1>11. \A e \in Merged : e \in committed /\ e[1] <= LastSequence
  <2> TAKE e \in Merged
  <2>1. PICK f \in FilesOf(version[bg.input]) : e \in file[f]
    BY <1>10
  <2>2. f \in DOMAIN file
    BY <1>6, TableNumbers
  <2> QED
    BY <2>1, <2>2 DEF Contents, NumbersOK
<1>12. \A f \in DOMAIN file' : file'[f] \subseteq committed /\ \A e \in file'[f] : e[1] <= LastSequence
  <2> TAKE f \in DOMAIN file'
  <2>1. CASE file' = file \/ f # bg.out
    BY <1>8, <2>1 DEF Contents, NumbersOK
  <2>2. CASE file' # file /\ f = bg.out
    BY <1>8, <1>11, <2>2
  <2> QED
    BY <2>1, <2>2
<1>13. LogsRest /\ TablesRest /\ UNCHANGED <<mem_, imm_>>
  BY <1>1, MemoryRest
<1>14. bg'.at \notin {"build", "logFlush"} /\ (bg'.at = "logMerge" => ~bad)
  BY <1>3, <1>5
<1>15. LogsOK' /\ NumbersOK' /\ StoredOK' /\ AckedOK'
  <2>1. \A f \in FilesOf(version[current]) : file'[f] = file[f]
    BY <1>9 DEF There
  <2> QED
    BY <1>1, <1>12, <1>13, <1>14, <2>1, FilesRest
<1>16. Merged' = Merged
  <2>1. PICK D : D = version[bg.input][1] \cup version[bg.input][2]
    OBVIOUS
  <2>2. \A f \in D : file'[f] = file[f]
    BY <1>6, <1>9, <2>1 DEF FilesOf
  <2>3. UNION {file'[f] : f \in D} = UNION {file[f] : f \in D}
    BY <2>2
  <2>4. bg'.input = bg.input /\ version' = version /\ bg'.oldest = bg.oldest
    BY <1>1, <1>5
  <2> QED
    BY <2>1, <2>3, <2>4 DEF Merged
<1>17. NewFilesOK'
  BY <1>1, <1>5, <1>6, <1>7, <1>8, <1>14, <1>16 DEF NewFilesOK
<1> QED
  BY <1>15, <1>17 DEF Contents

\* A compaction keeps the newest entry of every key it finds.
LEMMA MergedNewest ==
    ASSUME There, Contents, Compacting(bg), NEW f \in FilesOf(version[bg.input]), NEW x \in file[f]
    PROVE  \E y \in Merged : y[2] = x[2] /\ y[1] \in Nat /\ x[1] \in Nat /\ y[1] >= x[1]
<1>1. PICK all : all = UNION {file[g] : g \in version[bg.input][1] \cup version[bg.input][2]}
  OBVIOUS
<1>2. Merged = {e \in all : ~ \E z \in all : z[2] = e[2] /\ z[1] > e[1] /\ z[1] <= bg.oldest}
  BY <1>1 DEF Merged
<1>3. bg.input \in DOMAIN version /\ LastSequence \in Nat
  BY DEF There, Contents, NumbersOK
<1>4. \A y \in all : y[1] \in Nat /\ y[1] <= LastSequence
  <2> TAKE y \in all
  <2>1. PICK g \in FilesOf(version[bg.input]) : y \in file[g]
    BY <1>1 DEF FilesOf
  <2>2. g \in DOMAIN file
    BY <1>3, TableNumbers
  <2> QED
    BY <2>1, <2>2, TableNumbers
<1>5. x \in all
  BY <1>1 DEF FilesOf
<1>6. PICK S : S = {y[1] : y \in {z \in all : z[2] = x[2]}}
  OBVIOUS
<1>7. x[1] \in S /\ S \in SUBSET Nat /\ \A k \in S : k <= LastSequence
  BY <1>4, <1>5, <1>6
<1>8. Bounded(S) /\ S # {}
  BY <1>3, <1>7 DEF Bounded
<1>9. Max(S) \in S /\ \A k \in S : k <= Max(S)
  BY <1>7, <1>8, MaxFacts
<1>10. PICK y \in all : y[2] = x[2] /\ y[1] = Max(S)
  BY <1>6, <1>9
<1>11. ASSUME NEW z \in all, z[2] = y[2]
       PROVE  ~(z[1] > y[1])
  <2>1. z[1] \in S
    BY <1>6, <1>10, <1>11
  <2>2. z[1] <= y[1] /\ z[1] \in Nat /\ y[1] \in Nat
    BY <1>4, <1>9, <1>10, <2>1
  <2> QED
    BY <2>2
<1>12. y \in Merged
  BY <1>2, <1>10, <1>11
<1>13. x[1] <= y[1] /\ x[1] \in Nat /\ y[1] \in Nat
  BY <1>4, <1>5, <1>7, <1>9, <1>10
<1> QED
  BY <1>10, <1>12, <1>13

\* What a step that ends a compaction has in common: nothing is being made any more.
LEMMA EndsNewFiles ==
    ASSUME There', bg'.at = "finish"
    PROVE  NewFilesOK'
<1>1. VersionsOK' /\ None \notin Nat
  BY DEF There, RefsOK, EngineAssumption
<1>2. Output(bg') = None
  BY DEF Output, Compacting
<1>3. ASSUME NEW v \in DOMAIN version'
      PROVE  None \notin FilesOf(version'[v])
  <2>1. version'[v] \in Levels
    BY <1>1, PartialFnElim DEF VersionsOK
  <2> QED
    BY <1>1, <2>1 DEF Levels, FilesOf
<1> QED
  BY <1>2, <1>3 DEF NewFilesOK

\* The output of a compaction takes the place of its inputs.
LEMMA LogMergeContents ==
    ASSUME There, There', GroupOK, Contents, NEW bad, LogMerge(bad)
    PROVE  Contents'
<1>1. /\ bg' = [bg EXCEPT !.at = "finish"] /\ bg.at \in {"logMerge", "fail"} /\ (bg.at = "fail" => bad)
      /\ UNCHANGED <<LastSequence, memVars, logfile_number_, LogNumber, committed, acked, group>>
  BY DEF LogMerge, ghostVars, queueVars
<1>2. bg'.at = "finish"
  BY <1>1 DEF There, RefsOK, ControlOK, IsWork
<1>3. Compacting(bg) /\ VersionsOK /\ FilesOK' /\ None \notin Nat
  BY <1>1 DEF Compacting, There, RefsOK, EngineAssumption
<1>4. Len(group.entries) \in Nat /\ Len(group'.entries) \in Nat /\ Len(group.entries) <= Len(group'.entries)
  BY <1>1 DEF GroupOK
<1>5. CASE bad
  <2>1. SetVersions(version, Unref(vrefs, bg.input)) /\ UNCHANGED <<current, log, synced, file>>
    BY <1>5 DEF LogMerge, ReleaseInputs
  <2>2. VersionsRest
    BY <1>3, <2>1, VersionsStay DEF VersionsRest
  <2>3. TablesRest /\ UNCHANGED <<mem_, imm_>>
    BY <1>1, SameRest DEF memVars
  <2>4. WorkRest
    BY <1>2 DEF WorkRest, Output, Compacting
  <2> QED
    BY <1>1, <1>4, <2>1, <2>2, <2>3, <2>4, ContentsSame DEF logVars
<1>6. CASE ~bad
  <2>1. PICK refs, levels : /\ refs = Unref(vrefs, bg.input)
                            /\ levels = <<version[current][1] \ version[bg.input][1],
                                          (version[current][2] \ version[bg.input][2]) \cup {bg.out}>>
    OBVIOUS
  <2>2. PICK pending : pending = CleanupCompaction
    OBVIOUS
  <2>3. /\ Install(levels, refs) /\ DOMAIN refs = DOMAIN version
        /\ DeleteObsoleteFiles(file, log, version', pending, LogNumber, bg_error_)
    <3>1. DOMAIN refs = DOMAIN version
      BY <2>1, RefDomains
    <3> QED
      BY <1>6, <2>1, <2>2, <3>1 DEF LogMerge, InstallCompactionResults, ReleaseInputs
  <2>4. bg.at = "logMerge" /\ file[bg.out] = Merged
    BY <1>1, <1>6 DEF Contents, NewFilesOK
  <2>5. version'[current'] = levels /\ current' \in DOMAIN version' /\ current \in DOMAIN version
    BY <2>3, InstallFacts DEF There
  <2>6. PICK n, e, vs : n = LogNumber /\ e = bg_error_ /\ vs = version'
    OBVIOUS
  <2>7. /\ DOMAIN synced = DOMAIN log /\ logfile_number_ = mem_
        /\ \A m \in MemTables : m \in DOMAIN log /\ n <= m /\ m \in Nat /\ n \in Nat
    BY <2>6, MemTablesFacts DEF Contents, LogsOK
  <2>8. /\ \A f \in DOMAIN file' : f \in DOMAIN file /\ file'[f] = file[f]
        /\ DOMAIN synced' = DOMAIN log'
        /\ \A k \in DOMAIN log' : k \in DOMAIN log /\ log'[k] = log[k] /\ synced'[k] = synced[k]
        /\ \A k \in DOMAIN log : k >= n => k \in DOMAIN log'
    BY <2>3, <2>6, <2>7, DeleteFacts
  <2>9. LogsRest
    <3>1. \A m \in MemTables : m >= n
      BY <2>7
    <3> QED
      BY <1>1, <2>7, <2>8, <3>1 DEF LogsRest
  <2>10. TablesRest /\ UNCHANGED <<mem_, imm_>>
    BY <1>1, SameRest DEF memVars
  <2>11. FilesOf(levels) \subseteq DOMAIN file' /\ \A f \in FilesOf(levels) : file'[f] = file[f]
    <3>1. FilesOf(levels) \subseteq DOMAIN file'
      BY <1>3, <2>5 DEF FilesOK, FilesOf
    <3> QED
      BY <2>8, <3>1
  <2>12. InTables' = UNION {file[f] : f \in FilesOf(levels)}
    BY <2>5, <2>11 DEF InTables, FilesOf
  <2>13. Merged \subseteq InTables'
    <3>1. bg.out \in FilesOf(levels)
      BY <2>1 DEF FilesOf
    <3> QED
      BY <2>4, <2>12, <3>1
  <2>14. ASSUME NEW x \in InTables
         PROVE  \E y \in InTables' : y[2] = x[2] /\ y[1] \in Nat /\ x[1] \in Nat /\ y[1] >= x[1]
    <3>1. PICK f \in FilesOf(version[current]) : x \in file[f]
      BY TableNumbers
    <3>2. CASE f \in FilesOf(version[bg.input])
      <4>1. \E y \in Merged : y[2] = x[2] /\ y[1] \in Nat /\ x[1] \in Nat /\ y[1] >= x[1]
        BY <1>3, <3>1, <3>2, MergedNewest
      <4> QED
        BY <2>13, <4>1
    <3>3. CASE f \notin FilesOf(version[bg.input])
      <4>1. f \in FilesOf(levels)
        BY <2>1, <3>1, <3>3 DEF FilesOf
      <4>2. x \in InTables' /\ x[1] \in Nat
        BY <2>12, <3>1, <4>1, TableNumbers
      <4> QED
        BY <4>2
    <3> QED
      BY <3>2, <3>3
  <2>15. \A f \in DOMAIN file' : file'[f] \subseteq committed /\ \A x \in file'[f] : x[1] <= LastSequence
    BY <2>8 DEF Contents, NumbersOK
  <2>16. LogsOK' /\ NumbersOK' /\ StoredOK' /\ AckedOK'
    BY <1>1, <1>2, <1>4, <2>9, <2>10, <2>14, <2>15, PlacesSame
  <2> QED
    BY <1>2, <2>16, EndsNewFiles DEF Contents
<1> QED
  BY <1>5, <1>6

\* A table moves to level 1.
LEMMA LogMoveContents ==
    ASSUME There, There', GroupOK, Contents, NEW bad, LogMove(bad)
    PROVE  Contents'
<1>1. /\ bg' = [bg EXCEPT !.at = "finish"] /\ bg.at = "logMove"
      /\ UNCHANGED <<LastSequence, memVars, logVars, LogNumber, file, committed, acked, group>>
  BY DEF LogMove, ghostVars, queueVars, fileVars
<1>2. bg'.at = "finish" /\ VersionsOK /\ FilesOK' /\ None \notin Nat
  BY <1>1 DEF There, RefsOK, ControlOK, IsWork, EngineAssumption
<1>3. Len(group.entries) \in Nat /\ Len(group'.entries) \in Nat /\ Len(group.entries) <= Len(group'.entries)
  BY <1>1 DEF GroupOK
<1>4. LogsRest /\ TablesRest /\ UNCHANGED <<mem_, imm_>>
  BY <1>1, MemoryRest
<1>5. CASE bad
  <2>1. SetVersions(version, Unref(vrefs, bg.input)) /\ UNCHANGED current
    BY <1>5 DEF LogMove
  <2>2. VersionsRest
    BY <1>2, <2>1, VersionsStay DEF VersionsRest
  <2>3. WorkRest
    BY <1>2 DEF WorkRest, Output, Compacting
  <2> QED
    BY <1>1, <1>3, <1>4, <2>1, <2>2, <2>3, ContentsSame
<1>6. CASE ~bad
  <2>1. PICK refs, levels : /\ refs = Unref(vrefs, bg.input)
                            /\ levels = <<version[current][1] \ version[bg.input][1],
                                          version[current][2] \cup version[bg.input][1]>>
    OBVIOUS
  <2>2. Install(levels, refs)
    BY <1>6, <2>1 DEF LogMove
  <2>3. DOMAIN refs = DOMAIN version
    BY <2>1, RefDomains
  <2>4. version'[current'] = levels
    BY <2>2, <2>3, InstallFacts DEF There
  <2>5. FilesOf(version[current]) \subseteq FilesOf(levels)
    BY <2>1 DEF FilesOf
  <2>6. InTables' = UNION {file[f] : f \in FilesOf(levels)}
    BY <1>1, <2>4 DEF InTables, FilesOf
  <2>7. InTables \subseteq InTables'
    BY <2>5, <2>6, TableNumbers
  <2>8. \A x \in InTables : \E y \in InTables' : y[2] = x[2] /\ y[1] \in Nat /\ x[1] \in Nat /\ y[1] >= x[1]
    BY <2>7, TableNumbers
  <2>9. \A f \in DOMAIN file' : file'[f] \subseteq committed /\ \A x \in file'[f] : x[1] <= LastSequence
    BY <1>1 DEF Contents, NumbersOK
  <2>10. LogsOK' /\ NumbersOK' /\ StoredOK' /\ AckedOK'
    BY <1>1, <1>2, <1>3, <1>4, <2>8, <2>9, PlacesSame
  <2> QED
    BY <1>2, <2>10, EndsNewFiles DEF Contents
<1> QED
  BY <1>5, <1>6

\* The background thread begins, stops or ends its work, or flushes in the middle of a compaction.
LEMMA BackgroundCallContents ==
    ASSUME There, There', GroupOK, Contents, BackgroundCall \/ WorkFlush \/ WorkStopped \/ BackgroundCallDone
    PROVE  Contents'
<1>1. UNCHANGED <<LastSequence, mem_, imm_, table, logVars, LogNumber, version, current, file, committed, acked, group>>
  BY DEF BackgroundCall, WorkFlush, WorkStopped, BackgroundCallDone, storeVars, memVars, versionVars, fileVars,
     queueVars, quietVars, ghostVars
<1>2. IsWork(bg)
  BY DEF There, RefsOK, ControlOK
<1>3. Len(group.entries) \in Nat /\ Len(group'.entries) \in Nat /\ Len(group.entries) <= Len(group'.entries)
  BY <1>1 DEF GroupOK
<1>4. VersionsRest /\ TablesRest
  BY <1>1, SameRest
<1>5. ASSUME WorkRest
      PROVE  Contents'
  BY <1>1, <1>3, <1>4, <1>5, ContentsSame
<1>6. CASE BackgroundCall
  <2>1. \/ bg' = [bg EXCEPT !.at = "finish"]
        \/ StartFlush("finish")
        \/ bg' = [bg EXCEPT !.at = IF IsTrivialMove(PickCompaction) THEN "logMove" ELSE "work",
                            !.input = current, !.manual = (manual_compaction_ # None),
                            !.oldest = IF Snapshots = {} THEN LastSequence ELSE Min(Snapshots)]
    <3>1. CASE shutting_down_ \/ bg_error_
      BY <1>6, <3>1 DEF BackgroundCall
    <3>2. CASE ~(shutting_down_ \/ bg_error_) /\ imm_ # None
      BY <1>6, <3>2 DEF BackgroundCall
    <3>3. CASE ~(shutting_down_ \/ bg_error_) /\ imm_ = None
      <4>1. CASE PickCompaction = {}
        BY <1>6, <3>3, <4>1 DEF BackgroundCall
      <4>2. CASE PickCompaction # {}
        BY <1>6, <3>3, <4>2 DEF BackgroundCall
      <4> QED
        BY <4>1, <4>2
    <3> QED
      BY <3>1, <3>2, <3>3
  <2>2. bg.at = "scheduled" /\ bg.out = None
    BY <1>2, <1>6 DEF BackgroundCall, IsWork
  <2>3. CASE StartFlush("finish")
    BY <1>1, <2>2, <2>3, StartFlushContents
  <2>4. CASE bg' = [bg EXCEPT !.at = "finish"]
    <3>1. bg'.at = "finish"
      BY <1>2, <2>4 DEF IsWork
    <3>2. WorkRest
      BY <3>1 DEF WorkRest, Output, Compacting
    <3> QED
      BY <1>5, <3>2
  <2>5. CASE bg' = [bg EXCEPT !.at = IF IsTrivialMove(PickCompaction) THEN "logMove" ELSE "work",
                              !.input = current, !.manual = (manual_compaction_ # None),
                              !.oldest = IF Snapshots = {} THEN LastSequence ELSE Min(Snapshots)]
    <3>1. PICK p \in {"logMove", "work"} : p = IF IsTrivialMove(PickCompaction) THEN "logMove" ELSE "work"
      OBVIOUS
    <3>2. PICK m, o : m = (manual_compaction_ # None) /\ o = IF Snapshots = {} THEN LastSequence ELSE Min(Snapshots)
      OBVIOUS
    <3>3. bg' = [bg EXCEPT !.at = p, !.input = current, !.manual = m, !.oldest = o]
      BY <2>5, <3>1, <3>2
    <3>4. DOMAIN bg = {"at", "ret", "number", "base", "level", "log", "input", "out", "manual", "oldest"}
      BY <1>2 DEF IsWork
    <3>5. bg'.at = p /\ bg'.out = None
      BY <2>2, <3>3, <3>4
    <3>6. Output(bg') = None /\ bg'.at \notin {"build", "logFlush", "logMerge"}
      BY <3>1, <3>5 DEF Output
    <3>7. WorkRest
      BY <3>6 DEF WorkRest
    <3> QED
      BY <1>5, <3>7
  <2> QED
    BY <2>1, <2>3, <2>4, <2>5
<1>7. CASE WorkFlush
  BY <1>1, <1>7, StartFlushContents DEF WorkFlush
<1>8. CASE WorkStopped
  <2>1. bg.at = "work" /\ bg' = [bg EXCEPT !.at = "fail"]
    BY <1>8 DEF WorkStopped
  <2>2. bg'.at = "fail" /\ bg'.out = bg.out
    BY <1>2, <2>1 DEF IsWork
  <2>3. WorkRest
    BY <2>1, <2>2 DEF WorkRest, Output, Compacting
  <2> QED
    BY <1>5, <2>3
<1>9. CASE BackgroundCallDone
  <2>1. bg'.at \in {"scheduled", "none"}
    BY <1>9 DEF BackgroundCallDone, Resting
  <2>2. WorkRest
    BY <2>1 DEF WorkRest, Output, Compacting
  <2> QED
    BY <1>5, <2>2
<1> QED
  BY <1>6, <1>7, <1>8, <1>9

-----------------------------------------------------------------------------
(* All of it together.                                                     *)

DataOK == QueueOK /\ GroupOK /\ Contents

\* The records of mem_'s log stay, and mem_ too, if they are there.
LEMMA MemStays ==
    ASSUME There', Contents', UNCHANGED mem_, TablesRest,
           \A n \in DOMAIN log' : log'[n] = log[n] /\ synced'[n] = synced[n]
    PROVE  table'[mem_] = table[mem_] /\ log'[mem_] = log[mem_] /\ synced'[mem_] = synced[mem_]
<1>1. mem_' \in MemTables'
  <2>1. mem_' # None
    BY DEF There, RefsOK, ControlOK, EngineAssumption
  <2> QED
    BY <2>1 DEF MemTables
<1> QED
  BY <1>1 DEF There, Contents, LogsOK, TablesRest

\* The background thread keeps what is in a memtable that is not freed, and in a log that is not deleted.
LEMMA BackgroundStays ==
    ASSUME There, There', Contents, Background
    PROVE  TablesRest /\ \A n \in DOMAIN log' : log'[n] = log[n] /\ synced'[n] = synced[n]
<1>1. ASSUME UNCHANGED <<table, log, synced>>
      PROVE  TablesRest /\ \A n \in DOMAIN log' : log'[n] = log[n] /\ synced'[n] = synced[n]
  BY <1>1 DEF TablesRest
<1>2. DOMAIN synced = DOMAIN log /\ DOMAIN mrefs = DOMAIN table
  BY DEF Contents, LogsOK, There, RefsOK, MemoryOK
<1>3. CASE BackgroundCall \/ WorkFlush \/ WorkStopped \/ BackgroundCallDone
  <2>1. UNCHANGED <<table, log, synced>>
    BY <1>3 DEF BackgroundCall, WorkFlush, WorkStopped, BackgroundCallDone, storeVars, memVars, logVars
  <2> QED
    BY <2>1, <1>1
<1>4. ASSUME NEW bad \in BOOLEAN,
             BuildTable(bad) \/ LogMove(bad) \/ OpenCompactionOutputFile(bad) \/ FinishCompactionOutputFile(bad)
      PROVE  UNCHANGED <<table, log, synced>>
  BY <1>4 DEF BuildTable, LogMove, OpenCompactionOutputFile, FinishCompactionOutputFile, memVars, logVars
<1>5. ASSUME NEW bad \in BOOLEAN, LogFlush(bad)
      PROVE  TablesRest /\ \A n \in DOMAIN log' : log'[n] = log[n] /\ synced'[n] = synced[n]
  <2>1. CASE bad
    <3>1. UNCHANGED <<table, log, synced>>
      BY <1>5, <2>1 DEF LogFlush, memVars
    <3> QED
      BY <3>1, <1>1
  <2>2. CASE ~bad
    <3>1. PICK vs, n, e, refs, pending :
             vs = version' /\ n = bg.log /\ e = bg_error_ /\ refs = MemUnref(mrefs, imm_) /\ pending = pending_outputs_
      OBVIOUS
    <3>2. DeleteObsoleteFiles(file, log, vs, pending, n, e) /\ SetMemTables(table, refs)
      BY <1>5, <2>2, <3>1 DEF LogFlush
    <3>3. \A k \in DOMAIN log' : log'[k] = log[k] /\ synced'[k] = synced[k]
      BY <1>2, <3>2, DeleteFacts
    <3>4. DOMAIN refs = DOMAIN table
      BY <1>2, <3>1 DEF MemUnref
    <3>5. TablesRest
      BY <3>2, <3>4 DEF SetMemTables, TablesRest, Restrict, Used
    <3> QED
      BY <3>3, <3>5
  <2> QED
    BY <2>1, <2>2
<1>6. ASSUME NEW bad \in BOOLEAN, LogMerge(bad)
      PROVE  TablesRest /\ \A n \in DOMAIN log' : log'[n] = log[n] /\ synced'[n] = synced[n]
  <2>1. CASE bad
    <3>1. UNCHANGED <<table, log, synced>>
      BY <1>6, <2>1 DEF LogMerge, memVars
    <3> QED
      BY <3>1, <1>1
  <2>2. CASE ~bad
    <3>1. PICK vs, n, e, pending :
             vs = version' /\ n = LogNumber /\ e = bg_error_ /\ pending = CleanupCompaction
      OBVIOUS
    <3>2. DeleteObsoleteFiles(file, log, vs, pending, n, e) /\ UNCHANGED table
      BY <1>6, <2>2, <3>1 DEF LogMerge, memVars
    <3>3. \A k \in DOMAIN log' : log'[k] = log[k] /\ synced'[k] = synced[k]
      BY <1>2, <3>2, DeleteFacts
    <3> QED
      BY <3>2, <3>3 DEF TablesRest
  <2> QED
    BY <2>1, <2>2
<1> QED
  BY <1>1, <1>3, <1>4, <1>5, <1>6 DEF Background

\* A step of the background thread.
LEMMA BackgroundData ==
    ASSUME There, There', DataOK, Background
    PROVE  DataOK'
<1>1. QueueOK /\ GroupOK /\ Contents
  BY DEF DataOK
<1>2. UNCHANGED <<pc, rounds, writers_, w, group, LastSequence, mem_>>
  BY BackgroundQueue
<1>3. QueueOK'
  BY <1>1, <1>2, SameQueue
<1>4. Contents'
  <2>1. ASSUME NEW bad \in BOOLEAN, \/ BuildTable(bad) \/ LogFlush(bad) \/ LogMerge(bad) \/ LogMove(bad)
                                    \/ OpenCompactionOutputFile(bad) \/ FinishCompactionOutputFile(bad)
        PROVE  Contents'
    BY <1>1, <2>1, BuildTableContents, LogFlushContents, LogMergeContents, LogMoveContents, OpenOutputContents,
       FinishOutputContents
  <2> QED
    BY <1>1, <2>1, BackgroundCallContents DEF Background
<1>5. TablesRest /\ \A n \in DOMAIN log' : log'[n] = log[n] /\ synced'[n] = synced[n]
  BY <1>1, BackgroundStays
<1>6. GroupOK'
  BY <1>1, <1>2, <1>4, <1>5, MemStays, QuietGroup
<1> QED
  BY <1>3, <1>4, <1>6 DEF DataOK

\* Readers, the destructor, and steps that do nothing.
LEMMA OthersData ==
    ASSUME There, There', DataOK, (\E r \in Reader : Reading(r)) \/ Close \/ UNCHANGED vars
    PROVE  DataOK'
<1>1. QueueOK /\ GroupOK /\ Contents
  BY DEF DataOK
<1>2. UNCHANGED <<pc, writers_, w, group, LastSequence, mem_, log, synced>>
  <2>1. CASE \E r \in Reader : Reading(r)
    BY <2>1 DEF Reading, GetSnapshot, ReleaseSnapshot, Get, GetDone, storeVars, memVars, logVars, queueVars
  <2>2. CASE Close \/ UNCHANGED vars
    BY <2>2 DEF Close, vars, storeVars, memVars, logVars, queueVars
  <2> QED
    BY <2>1, <2>2
<1>3. QueueOK'
  BY <1>1, <1>2, SameQueue
<1>4. Contents'
  BY <1>1, OthersContents
<1>5. TablesRest
  <2>1. ASSUME NEW r \in Reader, NEW seek \in BOOLEAN, GetDone(r, seek)
        PROVE  TablesRest
    <3>1. PICK held : held = {get[r].mem, get[r].imm}
      OBVIOUS
    <3>2. PICK refs : refs = [m \in DOMAIN mrefs |-> mrefs[m] - (IF m \in held THEN 1 ELSE 0)]
      OBVIOUS
    <3>3. SetMemTables(table, refs)
      BY <2>1, <3>1, <3>2 DEF GetDone
    <3>4. DOMAIN refs = DOMAIN table
      BY <3>2 DEF There, RefsOK, MemoryOK
    <3> QED
      BY <3>3, <3>4 DEF SetMemTables, TablesRest, Restrict, Used
  <2>2. ASSUME \/ Close \/ UNCHANGED vars
               \/ \E r \in Reader : GetSnapshot(r) \/ ReleaseSnapshot(r) \/ \E key \in Key : Get(r, key)
        PROVE  TablesRest
    <3>1. UNCHANGED table
      BY <2>2 DEF Close, vars, GetSnapshot, ReleaseSnapshot, Get, storeVars, memVars
    <3> QED
      BY <3>1 DEF TablesRest
  <2> QED
    BY <2>1, <2>2 DEF Reading
<1>6. \A n \in DOMAIN log' : log'[n] = log[n] /\ synced'[n] = synced[n]
  BY <1>2
<1>7. GroupOK'
  BY <1>1, <1>2, <1>4, <1>5, <1>6, MemStays, QuietGroup
<1> QED
  BY <1>3, <1>4, <1>7 DEF DataOK

\* A writer, or a caller of CompactRange.
LEMMA ThreadData ==
    ASSUME BatchAssumption, There, There', DataOK, NEW t \in Thread,
           Put(t) \/ CompactRange(t) \/ Running(t) \/ CompactLevel(t)
    PROVE  DataOK'
<1>1. QueueOK /\ GroupOK /\ Contents /\ GroupFits /\ LastSequence \in Nat
  BY DEF DataOK, GroupOK, GroupOf, GroupFits, Contents, NumbersOK
<1>2. mem_ # None /\ mem_ \in DOMAIN table
  BY MemTablesFacts
<1>3. ASSUME Put(t) \/ CompactRange(t)
      PROVE  QueueOK'
  <2>1. ASSUME NEW sync \in plan.sync, t \in Writer, Write(t, BatchOf[t], sync)
        PROVE  QueueOK'
    <3>1. PICK batch : batch = BatchOf[t]
      OBVIOUS
    <3>2. batch \in Seq(Key)
      BY <2>1, <3>1 DEF BatchAssumption
    <3> QED
      BY <1>1, <2>1, <3>1, <3>2, WriteQueue
  <2>2. ASSUME Write(t, <<>>, FALSE)
        PROVE  QueueOK'
    <3>1. PICK batch, sync : batch = <<>> /\ sync = FALSE
      OBVIOUS
    <3>2. batch \in Seq(Key)
      BY <3>1
    <3> QED
      BY <1>1, <2>2, <3>1, <3>2, WriteQueue
  <2> QED
    BY <1>3, <2>1, <2>2 DEF Put, CompactRange
<1>4. CASE \/ Put(t) \/ CompactRange(t) \/ Woken(t)
           \/ RoomError(t) \/ RoomDelay(t) \/ RoomFound(t) \/ RoomWait(t) \/ WaitImm(t) \/ CompactLevel(t)
  <2>1. QueueOK'
    BY <1>1, <1>3, <1>4, WaitersQueue
  <2>2. GroupOK'
    BY <1>1, <1>4, <2>1, WaitersGroup
  <2>3. Contents'
    BY <1>1, <1>4, <2>2, WaitersContents
  <2> QED
    BY <2>1, <2>2, <2>3 DEF DataOK
<1>5. ASSUME NEW bad \in BOOLEAN, RoomSwitch(t, bad) \/ AddRecord(t, bad) \/ Sync(t, bad)
      PROVE  DataOK'
  <2>1. QueueOK'
    BY <1>1, <1>5, WorkersQueue
  <2>2. GroupOK'
    BY <1>1, <1>2, <1>5, RoomSwitchGroup, AddRecordGroup, SyncGroup DEF Contents
  <2>3. Contents'
    BY <1>1, <1>5, <2>2, RoomSwitchContents, AddRecordContents, SyncContents
  <2> QED
    BY <2>1, <2>2, <2>3 DEF DataOK
<1>6. CASE Insert(t) \/ Commit(t)
  <2>1. QueueOK'
    BY <1>1, <1>6, WorkersQueue
  <2>2. GroupOK'
    BY <1>1, <1>2, <1>6, InsertGroup, CommitGroup
  <2>3. Contents'
    BY <1>1, <1>6, InsertContents, CommitContents
  <2> QED
    BY <2>1, <2>2, <2>3 DEF DataOK
<1> QED
  BY <1>4, <1>5, <1>6 DEF Running

\* Every step.
LEMMA DataStep ==
    ASSUME BatchAssumption, There, There', DataOK, [Next]_vars
    PROVE  DataOK'
<1>1. Stop => UNCHANGED vars
  BY DEF Stop
<1> QED
  BY <1>1, ThreadData, BackgroundData, OthersData DEF Next

\* The database is opened, empty or with a table of what was recovered.
LEMMA DataInit ==
    ASSUME EngineAssumption, Init
    PROVE  DataOK
<1>1. None \notin Nat /\ \A k \in Recovered : k[1] \in Nat /\ k[1] = 1 /\ k[2] \in Key /\ k = Pair(k)
  BY DEF EngineAssumption, Recovered, Pair
<1>2. /\ pc = [t \in Thread |-> "idle"] /\ writers_ = <<>> /\ w = [t \in Thread |-> NoWriter] /\ group = NoGroup
      /\ mem_ = 1 /\ imm_ = None /\ table = [m \in {1} |-> {}] /\ log = [n \in {1} |-> <<>>]
      /\ synced = [n \in {1} |-> 0] /\ logfile_number_ = 1 /\ LogNumber = 1 /\ committed = Recovered /\ acked = {}
      /\ current = 1 /\ LastSequence = (IF plan.recovered THEN 1 ELSE 0)
      /\ version = [v \in {1} |-> <<IF plan.recovered THEN {0} ELSE {}, {}>>]
      /\ file = [f \in (IF plan.recovered THEN {0} ELSE {}) |-> Recovered]
  BY DEF Init
<1>3. QueueOK
  <2>1. IsWriter(NoWriter)
    BY DEF IsWriter, NoWriter
  <2> QED
    BY <1>2, <2>1 DEF QueueOK, Working, InGroup
<1>4. IsGroup(group) /\ Len(group.entries) = 0
  BY <1>2 DEF NoGroup, IsGroup
<1>5. GroupOK
  BY <1>2, <1>4 DEF GroupOK, InGroup
<1>6. bg.at \in {"none", "scheduled"} /\ bg.out = None /\ ~Compacting(bg) /\ Output(bg) = None
  BY DEF Init, Resting, Compacting, Output
<1>7. MemTables = {1}
  BY <1>1, <1>2 DEF MemTables
<1>8. LogsOK
  <2>1. LogFile(log[1], synced[1])
    BY <1>2, EmptyLog
  <2> QED
    BY <1>2, <1>6, <1>7, <2>1 DEF LogsOK
<1>9. NumbersOK
  <2>1. plan.recovered \/ Recovered = {}
    BY DEF Recovered
  <2>2. LastSequence \in Nat /\ (plan.recovered => LastSequence = 1)
    BY <1>2
  <2>3. \A e \in committed : e[1] = 1 /\ LastSequence = 1
    BY <1>1, <1>2, <2>1, <2>2
  <2> QED
    BY <1>1, <1>2, <1>4, <2>2, <2>3 DEF NumbersOK
<1>10. NewFilesOK
  <2>1. \A v \in DOMAIN version : FilesOf(version[v]) \subseteq {0}
    BY <1>2 DEF FilesOf
  <2> QED
    BY <1>1, <1>6, <2>1 DEF NewFilesOK
<1>11. StoredOK
  <2>1. ASSUME NEW e \in committed
        PROVE  \E x \in InTables : x[2] = e[2] /\ x[1] >= e[1]
    <3>1. plan.recovered /\ e \in Recovered
      BY <1>2 DEF Recovered
    <3>2. 0 \in version[current][1] /\ file[0] = Recovered
      BY <1>2, <3>1
    <3>3. e \in InTables
      BY <3>1, <3>2 DEF InTables
    <3> QED
      BY <1>1, <3>1, <3>3
  <2> QED
    BY <2>1 DEF StoredOK, Stored
<1>12. AckedOK
  BY <1>2 DEF AckedOK
<1> QED
  BY <1>3, <1>5, <1>8, <1>9, <1>10, <1>11, <1>12 DEF DataOK, Contents

-----------------------------------------------------------------------------
(* What a restart finds.                                                   *)

\* The newest of some numbered entries of a key is one of them, and none of them is newer.
LEMMA NewestFacts ==
    ASSUME NEW entries, \A x \in entries : x[1] \in Nat, NEW key, NEW n \in Nat
    PROVE  /\ Newest(entries, key, n) \in Nat
           /\ \A x \in entries : x[2] = key /\ x[1] <= n => x[1] <= Newest(entries, key, n)
           /\ \/ Newest(entries, key, n) = 0
              \/ \E x \in entries : x[2] = key /\ x[1] <= n /\ x[1] = Newest(entries, key, n)
<1>1. PICK found : found = {e[1] : e \in {x \in entries : x[2] = key /\ x[1] <= n}}
  OBVIOUS
<1>2. Newest(entries, key, n) = IF found = {} THEN 0 ELSE Max(found)
  BY <1>1 DEF Newest
<1>3. CASE found = {}
  BY <1>1, <1>2, <1>3
<1>4. CASE found # {}
  <2>1. found \in SUBSET Nat /\ \A k \in found : k <= n
    BY <1>1
  <2>2. Bounded(found)
    BY <2>1 DEF Bounded
  <2>3. Max(found) \in found /\ \A k \in found : k <= Max(found)
    BY <1>4, <2>1, <2>2, MaxFacts
  <2> QED
    BY <1>1, <1>2, <1>4, <2>1, <2>3
<1> QED
  BY <1>3, <1>4

\* What the logs hold has numbers, and what is in a memtable is in a log that is kept.
LEMMA LogNumbers ==
    ASSUME Contents
    PROVE  /\ \A x \in InLogs \cup InSyncedLogs : x[1] \in Nat
           /\ \A m \in MemTables : \A e \in table[m] : e \in InLogs
           /\ \A m \in MemTables : LogPairs(log[m], synced[m]) \subseteq InSyncedLogs
<1>1. \A n, k : Logged(n, k) = LogPairs(log[n], k)
  BY DEF Logged, LogPairs, Pair
<1>2. ASSUME NEW n \in DOMAIN log
      PROVE  /\ \A x \in Logged(n, Len(log[n])) : x[1] \in Nat
             /\ \A x \in Logged(n, synced[n]) : x[1] \in Nat
  <2>1. LogFile(log[n], synced[n])
    BY DEF Contents, LogsOK
  <2>2. Len(log[n]) \in Nat /\ synced[n] \in Nat /\ synced[n] <= Len(log[n])
    BY <2>1, LenProperties DEF LogFile
  <2>3. LogPairs(log[n], synced[n]) \subseteq LogPairs(log[n], Len(log[n]))
    BY <2>2, LogPairsMore
  <2> QED
    BY <1>1, <2>1, <2>3 DEF LogFile
<1>3. \A m \in MemTables : m \in DOMAIN log /\ m >= LogNumber /\ table[m] \subseteq LogPairs(log[m], Len(log[m]))
  BY DEF Contents, LogsOK
<1>4. \A x \in InLogs \cup InSyncedLogs : x[1] \in Nat
  BY <1>2 DEF InLogs, InSyncedLogs
<1>5. \A m \in MemTables : \A e \in table[m] : e \in InLogs
  BY <1>1, <1>3 DEF InLogs
<1>6. \A m \in MemTables : LogPairs(log[m], synced[m]) \subseteq InSyncedLogs
  BY <1>1, <1>3 DEF InSyncedLogs
<1> QED
  BY <1>4, <1>5, <1>6

\* The current tables have entries up to LastSequence.
LEMMA TableEntries ==
    ASSUME There, Contents
    PROVE  \A x \in InTables : x[1] \in Nat /\ x[1] <= LastSequence
<1>1. current \in DOMAIN version
  BY DEF There
<1>2. FilesOf(version[current]) \subseteq DOMAIN file /\ InTables = UNION {file[f] : f \in FilesOf(version[current])}
  BY <1>1, TableNumbers
<1> QED
  BY <1>2, TableNumbers

\* The newest entry of a key is in a log that is kept, or it or a newer one in a table.
LEMMA DurableFollows ==
    ASSUME EngineAssumption, There, Contents
    PROVE  NewestDurable
<1> SUFFICES ASSUME NEW key \in Key
             PROVE  Newest(InTables \cup InLogs, key, LastSequence + MaxBatchGroup)
                       >= Newest(committed, key, LastSequence + MaxBatchGroup)
  BY DEF NewestDurable
<1>1. PICK n : n = LastSequence + MaxBatchGroup
  OBVIOUS
<1>2. n \in Nat /\ LastSequence \in Nat /\ LastSequence <= n
  BY <1>1 DEF EngineAssumption, Contents, NumbersOK
<1>3. \A e \in committed : e[1] \in Nat /\ Stored(e)
  BY DEF Contents, NumbersOK, StoredOK
<1>4. PICK stored : stored = InTables \cup InLogs
  OBVIOUS
<1>5. \A x \in stored : x[1] \in Nat
  BY <1>4, TableNumbers, LogNumbers
<1>6. /\ Newest(stored, key, n) \in Nat
      /\ \A x \in stored : x[2] = key /\ x[1] <= n => x[1] <= Newest(stored, key, n)
  BY <1>2, <1>5, NewestFacts
<1>7. PICK r : r = Newest(committed, key, n)
  OBVIOUS
<1>8. r = 0 \/ \E e \in committed : e[2] = key /\ e[1] <= n /\ e[1] = r
  BY <1>2, <1>3, <1>7, NewestFacts
<1>9. ASSUME NEW e \in committed, e[2] = key, e[1] <= n
      PROVE  e[1] <= Newest(stored, key, n)
  <2>1. CASE \E m \in MemTables : e \in table[m]
    <3>1. e \in stored
      BY <1>4, <2>1, LogNumbers
    <3> QED
      BY <1>6, <1>9, <3>1
  <2>2. ASSUME NEW x \in InTables, x[2] = e[2], x[1] >= e[1]
        PROVE  e[1] <= Newest(stored, key, n)
    <3>1. x[1] \in Nat /\ x[1] <= LastSequence
      BY <2>2, TableEntries
    <3>2. x \in stored /\ x[1] <= n
      BY <1>2, <1>4, <3>1
    <3>3. x[1] <= Newest(stored, key, n)
      BY <1>6, <1>9, <2>2, <3>2
    <3> QED
      BY <1>3, <1>6, <2>2, <3>1, <3>3
  <2> QED
    BY <1>3, <2>1, <2>2 DEF Stored
<1>10. r <= Newest(stored, key, n)
  BY <1>6, <1>8, <1>9
<1>11. r \in Nat
  BY <1>2, <1>3, <1>7, NewestFacts
<1> QED
  BY <1>1, <1>4, <1>6, <1>7, <1>10, <1>11

\* An entry that was synced is in a table, or in the synced part of a log that is kept.
LEMMA SyncedFollows ==
    ASSUME There, Contents
    PROVE  SyncedSurvives
<1> SUFFICES ASSUME NEW e \in acked
             PROVE  Newest(InTables \cup InSyncedLogs, e[2], LastSequence) >= e[1]
  BY DEF SyncedSurvives
<1>1. LastSequence \in Nat
  BY DEF Contents, NumbersOK
<1>2. /\ Pair(e) \in committed /\ e[1] <= LastSequence
      /\ \A m \in MemTables : Pair(e) \in table[m] => Pair(e) \in LogPairs(log[m], synced[m])
  BY DEF Contents, AckedOK
<1>3. e[1] \in Nat /\ Stored(Pair(e)) /\ Pair(e)[1] = e[1] /\ Pair(e)[2] = e[2]
  BY <1>2 DEF Contents, NumbersOK, StoredOK, Pair
<1>4. PICK stored, key : stored = InTables \cup InSyncedLogs /\ key = e[2]
  OBVIOUS
<1>5. \A x \in stored : x[1] \in Nat
  BY <1>4, TableNumbers, LogNumbers
<1>6. /\ Newest(stored, key, LastSequence) \in Nat
      /\ \A x \in stored : x[2] = key /\ x[1] <= LastSequence => x[1] <= Newest(stored, key, LastSequence)
  BY <1>1, <1>5, NewestFacts
<1>7. CASE \E m \in MemTables : Pair(e) \in table[m]
  <2>1. Pair(e) \in stored
    BY <1>2, <1>4, <1>7, LogNumbers
  <2> QED
    BY <1>2, <1>3, <1>4, <1>6, <2>1
<1>8. ASSUME NEW x \in InTables, x[2] = e[2], x[1] >= e[1]
      PROVE  Newest(stored, key, LastSequence) >= e[1]
  <2>1. x[1] \in Nat /\ x[1] <= LastSequence /\ x \in stored
    BY <1>4, <1>8, TableEntries
  <2>2. x[1] <= Newest(stored, key, LastSequence)
    BY <1>4, <1>6, <1>8, <2>1
  <2> QED
    BY <1>3, <1>6, <1>8, <2>1, <2>2
<1> QED
  BY <1>3, <1>4, <1>7, <1>8 DEF Stored

\* The invariant.
LEMMA DataHolds == Spec => [](There /\ DataOK)
<1>1. Init => There /\ DataOK
  BY EngineAssumption, RefsInit, ThereIs, DataInit
<1>2. There /\ DataOK /\ [Next]_vars => (There /\ DataOK)'
  <2>1. ASSUME There, DataOK, [Next]_vars
        PROVE  There' /\ DataOK'
    <3>1. RefsOK'
      BY <2>1, RefsStep, EngineAssumption DEF There
    <3>2. EngineAssumption'
      BY EngineAssumption DEF EngineAssumption, Thread
    <3>3. There'
      BY <3>1, <3>2, ThereNext
    <3> QED
      BY <2>1, <3>3, BatchAssumption, DataStep
  <2> QED
    BY <2>1
<1> QED
  BY <1>1, <1>2, PTL DEF Spec

\* A restart at any moment finds the newest committed entry of every key, in the logs that are kept
\* or the current tables, whatever switches, flushes, compactions and failures came before (Write,
\* MakeRoomForWrite, CompactMemTable, LogAndApply, DeleteObsoleteFiles).
THEOREM WritesKept == Spec => []NewestDurable
<1>1. There /\ DataOK => NewestDurable
  BY EngineAssumption, DurableFollows DEF DataOK
<1> QED
  BY <1>1, DataHolds, PTL

\* What a synchronous write was told is written survives the loss of everything that is not
\* synced: its group was synced with it, and its log goes only when a table has it (BuildBatchGroup,
\* Write, CompactMemTable).
THEOREM SyncedWritesSurvive == Spec => []SyncedSurvives
<1>1. There /\ DataOK => SyncedSurvives
  BY SyncedFollows DEF DataOK
<1> QED
  BY <1>1, DataHolds, PTL

-----------------------------------------------------------------------------
(* What a reader sees.                                                     *)

\* All entries of xs are newer than those of ys.
Newer(xs, ys) == \A x \in xs, y \in ys : y[1] < x[1]

\* The places Get looks at, in its order, have newer entries before older ones.
Aged(mem, imm, levels) ==
    /\ imm # None => Newer(table[mem], table[imm])
    /\ \A f \in FilesOf(levels) :
          Newer(table[mem], file[f]) /\ (imm # None => Newer(table[imm], file[f]))
    /\ \A f, g \in levels[1] : f < g => Newer(file[g], file[f])
    /\ \A f \in levels[1], g \in levels[2] : Newer(file[f], file[g])
    /\ \A f, g \in levels[2] : f = g

\* Those places.
Sources(mem, imm, levels) ==
    table[mem] \cup (IF imm = None THEN {} ELSE table[imm]) \cup UNION {file[f] : f \in FilesOf(levels)}

\* They have, for each entry up to the number s, it or a newer one up to s.
Whole(mem, imm, levels, s) ==
    \A e \in committed : e[1] <= s =>
        \E x \in Sources(mem, imm, levels) : x[2] = e[2] /\ e[1] <= x[1] /\ x[1] <= s

\* Only mem_ is written to, with entries after LastSequence.
SealedOK ==
    /\ \A e \in committed : e[1] # 0
    /\ \A m \in DOMAIN table : m # mem_ => \A e \in table[m] : e[1] <= LastSequence

Views ==
    \A r \in Reader : get[r].at = "reading" =>
        /\ get[r].snapshot \in Nat /\ get[r].snapshot <= LastSequence /\ get[r].imm # mem_
        /\ Aged(get[r].mem, get[r].imm, version[get[r].version])
        /\ Whole(get[r].mem, get[r].imm, version[get[r].version], get[r].snapshot)

\* The current places, for the snapshots that are held.
CurrentOK ==
    /\ Aged(mem_, imm_, version[current])
    /\ \A r \in Reader : get[r].held # None =>
          /\ get[r].held \in Nat /\ get[r].held <= LastSequence
          /\ Whole(mem_, imm_, version[current], get[r].held)

\* A compaction drops nothing that a snapshot needs, and what is added to the current version meanwhile
\* is newer than its inputs.
MergeOK ==
    Compacting(bg) =>
        /\ bg.oldest \in Nat /\ bg.oldest <= LastSequence
        /\ \A r \in Reader : get[r].held # None => bg.oldest <= get[r].held
        /\ version[bg.input][1] # {} /\ version[bg.input][1] \subseteq version[current][1]
        /\ version[bg.input][2] = version[current][2]
        /\ \A f \in version[current][1] \ version[bg.input][1], g \in version[bg.input][1] : g < f

\* A table that is moved is the only one.
MoveOK ==
    bg.at = "logMove" =>
        version[bg.input] = version[current] /\ version[current][2] = {} /\ \A f, g \in version[current][1] : f = g

\* A flush makes the newest table, and skips level 0 only where there is no other.
FlushOK ==
    /\ bg.at = "build" => bg.number \notin DOMAIN file
    /\ bg.at = "logFlush" /\ bg.number \in DOMAIN file => file[bg.number] = table[imm_]
    /\ bg.at \in {"build", "logFlush"} => \A f \in version[current][1] : f < bg.number
    /\ bg.at = "build" => bg.base = current
    /\ bg.at = "logFlush" /\ bg.level = 2 => version[current] = <<{}, {}>>

InputsOK == MergeOK /\ MoveOK /\ FlushOK

ReadOK == SealedOK /\ Views /\ CurrentOK /\ InputsOK

\* What a step leaves of some places.
LEMMA PlacesStay ==
    ASSUME NEW mem, NEW imm, NEW levels, table'[mem] = table[mem], imm # None => table'[imm] = table[imm],
           \A f \in FilesOf(levels) : file'[f] = file[f]
    PROVE  /\ Aged(mem, imm, levels) => Aged(mem, imm, levels)'
           /\ UNCHANGED committed => \A s : Whole(mem, imm, levels, s) => Whole(mem, imm, levels, s)'
<1>1. Aged(mem, imm, levels) => Aged(mem, imm, levels)'
  BY DEF Aged, FilesOf
<1>2. Sources(mem, imm, levels)' = Sources(mem, imm, levels)
  BY DEF Sources
<1> QED
  BY <1>1, <1>2 DEF Whole

\* An entry after LastSequence is inserted.
LEMMA PlacesGrow ==
    ASSUME NEW mem, NEW imm, NEW levels \in Levels, NEW e, mem \in DOMAIN table,
           imm # None => imm \in DOMAIN table, imm # mem_, FilesOf(levels) \subseteq DOMAIN file,
           e[1] \in Nat, LastSequence < e[1], SealedOK, NumbersOK,
           table' = [table EXCEPT ![mem_] = @ \cup {e}], UNCHANGED file, committed' = committed \cup {e}
    PROVE  /\ Aged(mem, imm, levels) => Aged(mem, imm, levels)'
           /\ \A s \in Nat : s <= LastSequence /\ Whole(mem, imm, levels, s) => Whole(mem, imm, levels, s)'
<1>1. /\ table[mem] \subseteq table'[mem] /\ table'[mem] \subseteq table[mem] \cup {e}
      /\ mem # mem_ => table'[mem] = table[mem]
  OBVIOUS
<1>2. imm # None => table'[imm] = table[imm]
  OBVIOUS
<1>3. LastSequence \in Nat /\ \A m \in DOMAIN table : table[m] \subseteq committed
  BY DEF NumbersOK
<1>4. imm # None => \A y \in table[imm] : y[1] \in Nat /\ y[1] <= LastSequence
  BY <1>3 DEF NumbersOK, SealedOK
<1>5. \A f \in FilesOf(levels) : \A y \in file[f] : y[1] \in Nat /\ y[1] <= LastSequence
  BY DEF NumbersOK
<1>6. imm # None => \A y \in table[imm] : y[1] < e[1]
  BY <1>3, <1>4
<1>7. \A f \in FilesOf(levels) : \A y \in file[f] : y[1] < e[1]
  BY <1>3, <1>5
<1>8. Aged(mem, imm, levels) => Aged(mem, imm, levels)'
  <2> SUFFICES ASSUME Aged(mem, imm, levels) PROVE Aged(mem, imm, levels)'
    OBVIOUS
  <2>1. imm # None => Newer(table'[mem], table'[imm])
    BY <1>1, <1>2, <1>6 DEF Aged, Newer
  <2>2. \A f \in FilesOf(levels) : Newer(table'[mem], file'[f])
    BY <1>1, <1>7 DEF Aged, Newer
  <2>3. \A f \in FilesOf(levels) : imm # None => Newer(table'[imm], file'[f])
    BY <1>2 DEF Aged
  <2> QED
    BY <2>1, <2>2, <2>3 DEF Aged
<1>9. Sources(mem, imm, levels) \subseteq Sources(mem, imm, levels)'
  BY <1>1, <1>2 DEF Sources
<1>10. ASSUME NEW s \in Nat, s <= LastSequence, Whole(mem, imm, levels, s)
       PROVE  Whole(mem, imm, levels, s)'
  <2>1. ~ (e[1] <= s)
    BY <1>3, <1>10
  <2> QED
    BY <1>9, <1>10, <2>1 DEF Whole
<1> QED
  BY <1>8, <1>10

\* The entry that is found in xs is the newest of all, if all that is found elsewhere is older.
LEMMA NewestFirst ==
    ASSUME NEW xs, NEW all, xs \subseteq all, \A e \in all : e[1] \in Nat, NEW key, NEW s \in Nat,
           Newest(xs, key, s) # 0,
           \A e \in all : e[2] = key /\ e[1] <= s => e[1] <= Newest(xs, key, s)
    PROVE  Newest(xs, key, s) = Newest(all, key, s)
<1>1. PICK a, b : a = Newest(xs, key, s) /\ b = Newest(all, key, s)
  OBVIOUS
<1>2. a \in Nat /\ \E x \in xs : x[2] = key /\ x[1] <= s /\ x[1] = a
  BY <1>1, NewestFacts
<1>3. b \in Nat /\ a <= b
  BY <1>1, <1>2, NewestFacts
<1>4. b <= a
  <2>1. \E x \in all : x[2] = key /\ x[1] <= s /\ x[1] = b
    BY <1>1, <1>2, <1>3, NewestFacts
  <2> QED
    BY <1>1, <2>1
<1> QED
  BY <1>1, <1>2, <1>3, <1>4

\* What is found in xs is newer than the entries of older places, and as new as its own.
LEMMA FoundNewer ==
    ASSUME NEW xs, \A e \in xs : e[1] \in Nat, NEW key, NEW s \in Nat, Newest(xs, key, s) # 0,
           NEW ys, \A e \in ys : e[1] \in Nat, Newer(xs, ys) \/ xs = ys
    PROVE  \A y \in ys : y[2] = key /\ y[1] <= s => y[1] <= Newest(xs, key, s)
<1>1. PICK a : a = Newest(xs, key, s)
  OBVIOUS
<1>2. a \in Nat /\ \E x \in xs : x[1] = a
  BY <1>1, NewestFacts
<1>3. CASE Newer(xs, ys)
  BY <1>1, <1>2, <1>3 DEF Newer
<1>4. CASE xs = ys
  BY <1>4, NewestFacts
<1> QED
  BY <1>3, <1>4

\* Nothing is found where nothing is.
LEMMA NotFound ==
    ASSUME NEW xs, \A e \in xs : e[1] \in Nat /\ e[1] # 0, NEW key, NEW s \in Nat, Newest(xs, key, s) = 0
    PROVE  \A e \in xs : ~ (e[2] = key /\ e[1] <= s)
BY NewestFacts

\* Files have numbers, so some of them that are not none have a newest one.
LEMMA NewestFile ==
    ASSUME FilesOK, ControlOK, NEW F \in SUBSET DOMAIN file, F # {}
    PROVE  Max(F) \in F /\ \A f \in F : f \in Nat /\ f <= Max(F) /\ Max(F) \in Nat
<1>1. F \in SUBSET Nat /\ NextFile \in Nat /\ \A f \in F : f <= NextFile
  BY DEF FilesOK, ControlOK
<1>2. Bounded(F)
  BY <1>1 DEF Bounded
<1> QED
  BY <1>1, <1>2, MaxFacts

\* Where places are aged and have what is needed, Get finds the newest entry up to its snapshot.
LEMMA AnswerRight ==
    ASSUME FilesOK, ControlOK, NEW g, NEW levels \in Levels, levels = version[g.version],
           FilesOf(levels) \subseteq DOMAIN file, NEW s \in Nat, s = g.snapshot,
           \A e \in committed : e[1] \in Nat /\ e[1] # 0,
           Sources(g.mem, g.imm, levels) \subseteq committed,
           Aged(g.mem, g.imm, levels), Whole(g.mem, g.imm, levels, s)
    PROVE  Answer(g) = Newest(committed, g.key, s)
<1>1. PICK m, i, k : m = g.mem /\ i = g.imm /\ k = g.key
  OBVIOUS
<1>2. PICK T, I, P : T = table[m] /\ I = table[i] /\ P = Sources(m, i, levels)
  OBVIOUS
<1>3. /\ T \subseteq P /\ (i # None => I \subseteq P) /\ \A f \in FilesOf(levels) : file[f] \subseteq P
      /\ \A x \in P : x \in T \/ (i # None /\ x \in I) \/ \E f \in FilesOf(levels) : x \in file[f]
  BY <1>2 DEF Sources
<1>4. P \subseteq committed /\ \A x \in P : x[1] \in Nat /\ x[1] # 0
  BY <1>1, <1>2
<1>5. /\ i # None => Newer(T, I)
      /\ \A f \in FilesOf(levels) : Newer(T, file[f]) /\ (i # None => Newer(I, file[f]))
      /\ \A f, h \in levels[1] : f < h => Newer(file[h], file[f])
      /\ \A f \in levels[1], h \in levels[2] : Newer(file[f], file[h])
      /\ \A f, h \in levels[2] : f = h
  BY <1>1, <1>2 DEF Aged
<1>6. ASSUME NEW xs, xs \subseteq P, Newest(xs, k, s) # 0,
             \A x \in P : x[2] = k /\ x[1] <= s => x[1] <= Newest(xs, k, s)
      PROVE  Newest(xs, k, s) = Newest(committed, k, s)
  <2>1. PICK a : a = Newest(xs, k, s)
    OBVIOUS
  <2>2. a \in Nat
    BY <1>4, <1>6, <2>1, NewestFacts
  <2>3. ASSUME NEW e \in committed, e[2] = k, e[1] <= s
        PROVE  e[1] <= a
    <3>1. PICK x \in P : x[2] = k /\ e[1] <= x[1] /\ x[1] <= s
      BY <1>1, <1>2, <2>3 DEF Whole
    <3>2. x[1] <= a /\ x[1] \in Nat /\ e[1] \in Nat
      BY <1>4, <1>6, <2>1, <3>1
    <3> QED
      BY <2>2, <3>1, <3>2
  <2>4. xs \subseteq committed
    BY <1>4, <1>6
  <2> QED
    BY <1>6, <2>1, <2>3, <2>4, NewestFirst
<1>7. /\ \A xs : Found(g, xs) = Newest(xs, k, s)
      /\ levels[1] \cup levels[2] = FilesOf(levels)
  BY <1>1 DEF Found, FilesOf
<1>8. CASE Newest(T, k, s) # 0
  <2>1. Answer(g) = Newest(T, k, s)
    BY <1>1, <1>2, <1>7, <1>8 DEF Answer
  <2>2. ASSUME NEW x \in P, x[2] = k, x[1] <= s
        PROVE  x[1] <= Newest(T, k, s)
    <3>1. CASE x \in T
      BY <1>3, <1>4, <1>8, <2>2, <3>1, FoundNewer
    <3>2. CASE i # None /\ x \in I
      BY <1>3, <1>4, <1>5, <1>8, <2>2, <3>2, FoundNewer
    <3>3. ASSUME NEW f \in FilesOf(levels), x \in file[f]
          PROVE  x[1] <= Newest(T, k, s)
      <4>1. PICK F : F = file[f]
        OBVIOUS
      <4> QED
        BY <1>3, <1>4, <1>5, <1>8, <2>2, <3>3, <4>1, FoundNewer
    <3> QED
      BY <1>3, <3>1, <3>2, <3>3
  <2> QED
    BY <1>1, <1>3, <1>6, <1>8, <2>1, <2>2
<1>9. CASE Newest(T, k, s) = 0 /\ i # None /\ Newest(I, k, s) # 0
  <2>1. Answer(g) = Newest(I, k, s)
    BY <1>1, <1>2, <1>7, <1>9 DEF Answer
  <2>2. ASSUME NEW x \in P, x[2] = k, x[1] <= s
        PROVE  x[1] <= Newest(I, k, s)
    <3>1. x \notin T
      BY <1>3, <1>4, <1>9, <2>2, NotFound
    <3>2. CASE x \in I
      BY <1>3, <1>4, <1>9, <2>2, <3>2, FoundNewer
    <3>3. ASSUME NEW f \in FilesOf(levels), x \in file[f]
          PROVE  x[1] <= Newest(I, k, s)
      <4>1. PICK F : F = file[f]
        OBVIOUS
      <4> QED
        BY <1>3, <1>4, <1>5, <1>9, <2>2, <3>3, <4>1, FoundNewer
    <3> QED
      BY <1>3, <3>1, <3>2, <3>3
  <2> QED
    BY <1>1, <1>3, <1>6, <1>9, <2>1, <2>2
<1>10. ASSUME Newest(T, k, s) = 0, i = None \/ Newest(I, k, s) = 0
       PROVE  Answer(g) = Newest(committed, k, s)
  <2>1. PICK A, B : A = Having(g, levels[1]) /\ B = Having(g, levels[2])
    OBVIOUS
  <2>2. Answer(g) = IF A # {} THEN Found(g, file[Max(A)]) ELSE IF B # {} THEN Found(g, file[Max(B)]) ELSE 0
    BY <1>1, <1>2, <1>7, <1>10, <2>1 DEF Answer
  <2>3. /\ A = {f \in levels[1] : Newest(file[f], k, s) # 0} /\ B = {f \in levels[2] : Newest(file[f], k, s) # 0}
    BY <1>7, <2>1 DEF Having
  <2>4. A \in SUBSET DOMAIN file /\ B \in SUBSET DOMAIN file
    BY <1>7, <2>3
  <2>5. \A x \in P : x[2] = k /\ x[1] <= s => x \notin T /\ (i # None => x \notin I)
    BY <1>3, <1>4, <1>10, NotFound
  <2>6. ASSUME NEW f \in FilesOf(levels), NEW x \in file[f], x[2] = k, x[1] <= s
        PROVE  f \in A \cup B
    <3>1. PICK F : F = file[f]
      OBVIOUS
    <3>2. Newest(F, k, s) # 0
      BY <1>3, <1>4, <2>6, <3>1, NotFound
    <3> QED
      BY <1>7, <2>3, <3>1, <3>2
  <2>7. CASE A # {}
    <3>1. PICK n : n = Max(A)
      OBVIOUS
    <3>2. n \in A /\ \A f \in A : f \in Nat /\ f <= n /\ n \in Nat
      BY <2>4, <2>7, <3>1, NewestFile
    <3>3. PICK N : N = file[n]
      OBVIOUS
    <3>4. n \in FilesOf(levels) /\ N \subseteq P /\ Newest(N, k, s) # 0 /\ Answer(g) = Newest(N, k, s)
      BY <1>3, <1>7, <2>2, <2>3, <2>7, <3>1, <3>2, <3>3
    <3>5. ASSUME NEW x \in P, x[2] = k, x[1] <= s
          PROVE  x[1] <= Newest(N, k, s)
      <4>1. PICK f \in FilesOf(levels) : x \in file[f]
        BY <1>3, <2>5, <3>5
      <4>2. PICK F : F = file[f]
        OBVIOUS
      <4>3. f \in A \cup B
        BY <2>6, <3>5, <4>1
      <4>4. Newer(N, F) \/ N = F
        <5>1. CASE f \in A
          BY <1>5, <2>3, <3>2, <3>3, <4>2, <5>1
        <5>2. CASE f \in B
          BY <1>5, <2>3, <3>2, <3>3, <4>2, <5>2
        <5> QED
          BY <4>3, <5>1, <5>2
      <4>5. F \subseteq P /\ x \in F
        BY <1>3, <4>1, <4>2
      <4> QED
        BY <1>4, <3>4, <3>5, <4>4, <4>5, FoundNewer
    <3> QED
      BY <1>6, <3>4, <3>5
  <2>8. CASE A = {} /\ B # {}
    <3>1. PICK n : n = Max(B)
      OBVIOUS
    <3>2. n \in B
      BY <2>4, <2>8, <3>1, NewestFile
    <3>3. PICK N : N = file[n]
      OBVIOUS
    <3>4. n \in FilesOf(levels) /\ N \subseteq P /\ Newest(N, k, s) # 0 /\ Answer(g) = Newest(N, k, s)
      BY <1>3, <1>7, <2>2, <2>3, <2>8, <3>1, <3>2, <3>3
    <3>5. ASSUME NEW x \in P, x[2] = k, x[1] <= s
          PROVE  x[1] <= Newest(N, k, s)
      <4>1. PICK f \in FilesOf(levels) : x \in file[f]
        BY <1>3, <2>5, <3>5
      <4>2. f = n
        BY <1>5, <2>3, <2>6, <2>8, <3>2, <3>5, <4>1
      <4>3. x \in N
        BY <3>3, <4>1, <4>2
      <4> QED
        BY <1>4, <3>4, <3>5, <4>3, FoundNewer
    <3> QED
      BY <1>6, <3>4, <3>5
  <2>9. CASE A = {} /\ B = {}
    <3>1. \A x \in P : ~ (x[2] = k /\ x[1] <= s)
      BY <1>3, <2>5, <2>6, <2>9
    <3>2. \A e \in committed : ~ (e[2] = k /\ e[1] <= s)
      BY <1>1, <1>2, <3>1 DEF Whole
    <3>3. Newest(committed, k, s) = 0
      BY <3>2 DEF Newest
    <3> QED
      BY <2>2, <2>9, <3>3
  <2> QED
    BY <2>7, <2>8, <2>9
<1> QED
  BY <1>1, <1>8, <1>9, <1>10

-----------------------------------------------------------------------------
(* Steps that leave the places as they are.                                *)

\* Memtables, versions and the tables of versions that are left are as they were.
TablesQuiet == \A m \in DOMAIN table : m \in DOMAIN table' => table'[m] = table[m]
VersionsQuiet == \A v \in DOMAIN version : v \in DOMAIN version' => version'[v] = version[v]
FilesQuiet == \A v \in DOMAIN version : \A f \in FilesOf(version[v]) : f \in DOMAIN file' => file'[f] = file[f]

\* What readers use.
HoldsOK ==
    \A r \in Reader : get[r].at = "reading" =>
        /\ get[r].mem \in DOMAIN table /\ (get[r].imm # None => get[r].imm \in DOMAIN table)
        /\ get[r].version \in DOMAIN version

\* It is there.
LEMMA HoldsIs ==
    There => HoldsOK
<1> SUFFICES ASSUME There PROVE HoldsOK
  OBVIOUS
<1>1. NothingFreed
  BY RefsKeep DEF There
<1>2. None \notin Nat /\ ReadersOK
  BY DEF There, RefsOK, EngineAssumption
<1> QED
  BY <1>1, <1>2 DEF NothingFreed, Holds, HoldsOK, ReadersOK, IsGet

\* After a step too.
LEMMA HoldsNext ==
    There' => HoldsOK'
BY HoldsIs, PTL

\* The tables of versions are there.
LevelsOK == \A v \in DOMAIN version : version[v] \in Levels /\ FilesOf(version[v]) \subseteq DOMAIN file

\* They are.
LEMMA LevelsAre ==
    There => LevelsOK
<1> SUFFICES ASSUME There PROVE LevelsOK
  OBVIOUS
<1>1. version \in PartialFn(Nat, Levels) /\ FilesOK
  BY DEF There, RefsOK, VersionsOK
<1>2. \A v \in DOMAIN version : version[v] \in Levels
  BY <1>1, PartialFnElim
<1> QED
  BY <1>1, <1>2 DEF FilesOK, FilesOf, LevelsOK

\* After a step too.
LEMMA LevelsNext ==
    There' => LevelsOK'
BY LevelsAre, PTL

\* Numbers rise, and a snapshot that is held is an old one or the one of now.
NumbersRise == LastSequence \in Nat /\ LastSequence' \in Nat /\ LastSequence <= LastSequence'
HeldRest ==
    \A r \in Reader : get'[r].held # None => get'[r].held = get[r].held \/ get'[r].held = LastSequence

\* Readers see what they saw.
LEMMA ViewsQuiet ==
    ASSUME There, There', Views, TablesQuiet, VersionsQuiet, FilesQuiet, NumbersRise, UNCHANGED committed,
           mem_' = mem_ \/ mem_' \notin DOMAIN table,
           \A r \in Reader : get'[r].at = "reading" => get'[r] = get[r]
    PROVE  Views'
<1> SUFFICES ASSUME NEW r \in Reader, get'[r].at = "reading"
             PROVE  /\ get'[r].snapshot \in Nat /\ get'[r].snapshot <= LastSequence' /\ get'[r].imm # mem_'
                    /\ Aged(get[r].mem, get[r].imm, version[get[r].version])'
                    /\ Whole(get[r].mem, get[r].imm, version[get[r].version], get[r].snapshot)'
  BY DEF Views
<1>1. get'[r] = get[r] /\ get[r].at = "reading"
  OBVIOUS
<1>2. PICK m, i, v, s : m = get[r].mem /\ i = get[r].imm /\ v = get[r].version /\ s = get[r].snapshot
  OBVIOUS
<1>3. /\ m \in DOMAIN table /\ m \in DOMAIN table' /\ v \in DOMAIN version /\ v \in DOMAIN version'
      /\ i # None => i \in DOMAIN table /\ i \in DOMAIN table'
  BY <1>1, <1>2, HoldsIs, HoldsNext DEF HoldsOK
<1>4. PICK levels : levels = version[v] /\ levels = version'[v]
  BY <1>3 DEF VersionsQuiet
<1>5. FilesOf(levels) \subseteq DOMAIN file'
  BY <1>3, <1>4, LevelsNext DEF LevelsOK
<1>6. /\ table'[m] = table[m] /\ (i # None => table'[i] = table[i])
      /\ \A f \in FilesOf(levels) : file'[f] = file[f]
  BY <1>3, <1>4, <1>5 DEF TablesQuiet, FilesQuiet
<1>7. /\ s \in Nat /\ s <= LastSequence /\ i # mem_
      /\ Aged(m, i, levels) /\ Whole(m, i, levels, s)
  BY <1>1, <1>2, <1>4 DEF Views
<1>8. Aged(m, i, levels)' /\ Whole(m, i, levels, s)'
  BY <1>6, <1>7, PlacesStay
<1>9. s <= LastSequence' /\ i # mem_'
  <2>1. None \notin Nat /\ mem_' \in Nat
    BY DEF There, RefsOK, ControlOK, EngineAssumption
  <2> QED
    BY <1>3, <1>7, <2>1 DEF NumbersRise
<1>10. /\ get'[r].mem = m /\ get'[r].imm = i /\ get'[r].version = v /\ get'[r].snapshot = s /\ version'[v] = levels
  BY <1>1, <1>2, <1>4
<1> QED
  BY <1>7, <1>8, <1>9, <1>10

\* Up to LastSequence the current places have all that is committed.
LEMMA WholeLast ==
    ASSUME There, NumbersOK, StoredOK
    PROVE  Whole(mem_, imm_, version[current], LastSequence)
<1> SUFFICES ASSUME NEW e \in committed, e[1] <= LastSequence
             PROVE  \E x \in Sources(mem_, imm_, version[current]) :
                       x[2] = e[2] /\ e[1] <= x[1] /\ x[1] <= LastSequence
  BY DEF Whole
<1>1. Stored(e) /\ e[1] \in Nat
  BY DEF StoredOK, NumbersOK
<1>2. CASE \E m \in MemTables : e \in table[m]
  <2>1. e \in Sources(mem_, imm_, version[current])
    BY <1>2 DEF MemTables, Sources
  <2> QED
    BY <1>1, <2>1
<1>3. ASSUME NEW x \in InTables, x[2] = e[2], x[1] >= e[1]
      PROVE  x \in Sources(mem_, imm_, version[current]) /\ e[1] <= x[1] /\ x[1] <= LastSequence
  <2>1. PICK f \in FilesOf(version[current]) : x \in file[f]
    BY DEF InTables, FilesOf
  <2>2. f \in DOMAIN file
    BY <2>1, LevelsAre DEF There, LevelsOK
  <2>3. x[1] \in Nat /\ x[1] <= LastSequence
    BY <2>1, <2>2 DEF NumbersOK
  <2> QED
    BY <1>1, <1>3, <2>1, <2>3 DEF Sources
<1> QED
  BY <1>1, <1>2, <1>3 DEF Stored

\* The current places change so that nothing is missing in them.
LEMMA CurrentMoves ==
    ASSUME CurrentOK, NumbersRise, UNCHANGED get, Aged(mem_, imm_, version[current])',
           \A r \in Reader : get[r].held # None /\ Whole(mem_, imm_, version[current], get[r].held) =>
              \A s : s = get[r].held => \A m, i, levels :
                 m = mem_' /\ i = imm_' /\ levels = version'[current'] => Whole(m, i, levels, s)'
    PROVE  CurrentOK'
<1> SUFFICES ASSUME NEW r \in Reader, get'[r].held # None
             PROVE  /\ get'[r].held \in Nat /\ get'[r].held <= LastSequence'
                    /\ Whole(mem_, imm_, version[current], get[r].held)'
  BY DEF CurrentOK
<1>1. PICK s, m, i, levels : s = get[r].held /\ m = mem_' /\ i = imm_' /\ levels = version'[current']
  OBVIOUS
<1>2. s \in Nat /\ s <= LastSequence /\ Whole(m, i, levels, s)'
  BY <1>1 DEF CurrentOK
<1> QED
  BY <1>1, <1>2 DEF NumbersRise

\* The current places have what they had, for a snapshot that is taken now too.
LEMMA CurrentQuiet ==
    ASSUME There, There', CurrentOK, NumbersOK, StoredOK, TablesQuiet, VersionsQuiet, FilesQuiet, NumbersRise,
           HeldRest, UNCHANGED <<committed, mem_, imm_, current>>
    PROVE  CurrentOK'
<1>1. PICK m, i, levels : m = mem_ /\ i = imm_ /\ levels = version[current]
  OBVIOUS
<1>2. /\ m \in DOMAIN table /\ m \in DOMAIN table' /\ (i # None => i \in DOMAIN table /\ i \in DOMAIN table')
      /\ current \in DOMAIN version /\ current \in DOMAIN version'
  <2>1. mem_ \in Nat /\ None \notin Nat
    BY DEF There, RefsOK, ControlOK, EngineAssumption
  <2> QED
    BY <1>1, <2>1 DEF There, MemTables
<1>3. levels = version'[current'] /\ FilesOf(levels) \subseteq DOMAIN file'
  BY <1>1, <1>2, LevelsNext DEF VersionsQuiet, LevelsOK
<1>4. /\ table'[m] = table[m] /\ (i # None => table'[i] = table[i])
      /\ \A f \in FilesOf(levels) : file'[f] = file[f]
  BY <1>1, <1>2, <1>3 DEF TablesQuiet, FilesQuiet
<1>5. Aged(m, i, levels)'
  BY <1>1, <1>4, PlacesStay DEF CurrentOK
<1>6. ASSUME NEW r \in Reader, get'[r].held # None
      PROVE  /\ get'[r].held \in Nat /\ get'[r].held <= LastSequence'
             /\ Whole(mem_, imm_, version[current], get[r].held)'
  <2>1. PICK s : s = get'[r].held
    OBVIOUS
  <2>2. s \in Nat /\ s <= LastSequence /\ Whole(m, i, levels, s)
    <3>1. CASE s = get[r].held
      BY <1>1, <1>6, <2>1, <3>1 DEF CurrentOK
    <3>2. CASE s = LastSequence
      BY <1>1, <3>2, WholeLast DEF NumbersRise
    <3> QED
      BY <1>6, <2>1, <3>1, <3>2 DEF HeldRest
  <2>3. Whole(m, i, levels, s)'
    BY <1>4, <2>2, PlacesStay
  <2> QED
    BY <1>1, <1>3, <2>1, <2>2, <2>3 DEF NumbersRise
<1> QED
  BY <1>1, <1>3, <1>5, <1>6 DEF CurrentOK

\* A compaction or flush stands where it did.
LEMMA InputsQuiet ==
    ASSUME There, There', InputsOK, VersionsQuiet, NumbersRise, HeldRest, BgStays, UNCHANGED <<current, file>>,
           imm_ # None => imm_' = imm_ /\ table'[imm_] = table[imm_]
    PROVE  InputsOK'
<1>1. IsWork(bg)
  BY DEF There, RefsOK, ControlOK
<1>2. CASE bg.at = "none" /\ bg' = [bg EXCEPT !.at = "scheduled"]
  <2>1. bg'.at = "scheduled"
    BY <1>1, <1>2 DEF IsWork
  <2> QED
    BY <2>1 DEF InputsOK, MergeOK, MoveOK, FlushOK, Compacting
<1>3. CASE bg' = bg
  <2>1. Compacting(bg)' <=> Compacting(bg)
    BY <1>3 DEF Compacting
  <2>2. version'[current] = version[current]
    BY DEF VersionsQuiet, There
  <2>3. Compacting(bg) => version'[bg.input] = version[bg.input]
    BY <1>3, <2>1 DEF VersionsQuiet, There
  <2>4. bg.at = "logMove" => Compacting(bg)
    BY DEF Compacting
  <2>6. bg.at = "logFlush" => imm_' = imm_ /\ table'[imm_] = table[imm_]
    BY DEF There, RefsOK, ControlOK
  <2>5. ASSUME Compacting(bg)
        PROVE  bg.oldest <= LastSequence' /\ \A r \in Reader : get'[r].held # None => bg.oldest <= get'[r].held
    BY <2>5 DEF InputsOK, MergeOK, MoveOK, FlushOK, HeldRest, NumbersRise
  <2> QED
    BY <1>3, <2>1, <2>2, <2>3, <2>4, <2>5, <2>6 DEF InputsOK, MergeOK, MoveOK, FlushOK
<1> QED
  BY <1>2, <1>3 DEF BgStays

\* The other memtables are still not written to.
LEMMA SealedQuiet ==
    ASSUME SealedOK, NumbersOK, TablesQuiet, DOMAIN table' \subseteq DOMAIN table, NumbersRise,
           UNCHANGED <<committed, mem_>>
    PROVE  SealedOK'
<1>1. ASSUME NEW m \in DOMAIN table', m # mem_, NEW e \in table'[m]
      PROVE  e[1] <= LastSequence'
  <2>1. e \in table[m] /\ m \in DOMAIN table
    BY <1>1 DEF TablesQuiet
  <2>2. e[1] \in Nat /\ e[1] <= LastSequence
    BY <1>1, <2>1 DEF SealedOK, NumbersOK
  <2> QED
    BY <2>2 DEF NumbersRise
<1> QED
  BY <1>1 DEF SealedOK

\* A step that leaves the current places alone, and frees or adds no more than readers let it.
LEMMA ReadQuiet ==
    ASSUME There, There', Contents, ReadOK, VersionsRest, TablesRest, NumbersRise, HeldRest, BgStays,
           UNCHANGED <<committed, mem_, imm_, current, file>>,
           \A r \in Reader : get'[r].at = "reading" => get'[r] = get[r]
    PROVE  ReadOK'
<1>1. VersionsQuiet /\ TablesQuiet /\ FilesQuiet /\ DOMAIN table' \subseteq DOMAIN table
  BY DEF VersionsRest, TablesRest, VersionsQuiet, TablesQuiet, FilesQuiet
<1>2. SealedOK /\ Views /\ CurrentOK /\ InputsOK /\ NumbersOK /\ StoredOK
  BY DEF ReadOK, Contents
<1>3. SealedOK'
  BY <1>1, <1>2, SealedQuiet
<1>4. Views'
  BY <1>1, <1>2, ViewsQuiet
<1>5. CurrentOK'
  BY <1>1, <1>2, CurrentQuiet
<1>6. InputsOK'
  <2>1. imm_ # None => imm_ \in DOMAIN table /\ imm_ \in DOMAIN table'
    BY DEF There, MemTables
  <2>2. imm_ # None => table'[imm_] = table[imm_]
    BY <1>1, <2>1 DEF TablesQuiet
  <2> QED
    BY <1>1, <1>2, <2>2, InputsQuiet
<1> QED
  BY <1>3, <1>4, <1>5, <1>6 DEF ReadOK

\* The same, said of the variables.
LEMMA ReadSame ==
    ASSUME There, There', Contents, ReadOK, BgStays, NumbersRise,
           UNCHANGED <<committed, mem_, imm_, table, file, version, current, get>>
    PROVE  ReadOK'
<1>1. VersionsRest /\ TablesRest /\ HeldRest
  BY SameRest DEF HeldRest
<1> QED
  BY <1>1, ReadQuiet

\* Writers that wait, and calls that wait for the background thread.
LEMMA WaitersRead ==
    ASSUME There, There', Contents, ReadOK, NEW t \in Thread,
           \/ Put(t) \/ CompactRange(t) \/ Woken(t)
           \/ RoomError(t) \/ RoomDelay(t) \/ RoomFound(t) \/ RoomWait(t) \/ WaitImm(t) \/ CompactLevel(t)
    PROVE  ReadOK'
<1>1. UNCHANGED storeVars /\ UNCHANGED <<committed, get>>
  BY DEF Put, CompactRange, Write, Woken, RoomError, RoomDelay, RoomFound, RoomWait, WaitImm, CompactLevel,
     quietVars, ghostVars, readVars
<1>2. UNCHANGED <<LastSequence, mem_, imm_, table, file, version, current>>
  BY <1>1 DEF storeVars, memVars, versionVars, fileVars
<1>3. BgStays
  <2>1. ControlOK
    BY DEF There, RefsOK
  <2>2. CASE ~CompactLevel(t)
    <3>1. UNCHANGED bg
      BY <2>2 DEF Put, CompactRange, Write, Woken, RoomError, RoomDelay, RoomFound, RoomWait, WaitImm, bgVars
    <3> QED
      BY <3>1 DEF BgStays
  <2>3. CASE CompactLevel(t)
    <3>1. UNCHANGED bgVars \/ Schedules(bg_error_, imm_, t, version, current, seekCompaction)
      BY <2>3 DEF CompactLevel
    <3> QED
      BY <2>1, <3>1, SchedulesStays
  <2> QED
    BY <2>2, <2>3
<1>4. NumbersRise
  BY <1>2 DEF NumbersRise, Contents, NumbersOK
<1> QED
  BY <1>1, <1>2, <1>3, <1>4, ReadSame

\* A record is appended or synced, and the numbers of a group are used up.
LEMMA FrontRead ==
    ASSUME There, There', QueueOK, GroupOK, Contents, ReadOK, NEW t \in Thread, NEW bad,
           AddRecord(t, bad) \/ Sync(t, bad) \/ Commit(t)
    PROVE  ReadOK'
<1>1. UNCHANGED <<committed, mem_, imm_, table, file, version, current, get, bg>>
  BY DEF AddRecord, Sync, Commit, memVars, versionVars, fileVars, bgVars, quietVars, ghostVars, readVars
<1>2. NumbersRise
  <2>1. CASE AddRecord(t, bad) \/ Sync(t, bad)
    <3>1. UNCHANGED LastSequence
      BY <2>1 DEF AddRecord, Sync
    <3> QED
      BY <3>1 DEF NumbersRise, Contents, NumbersOK
  <2>2. CASE Commit(t)
    <3>1. LastSequence' = LastSequence + Len(group.entries) /\ Len(group.entries) \in Nat
      BY <2>2 DEF Commit, GroupOK
    <3> QED
      BY <3>1 DEF NumbersRise, Contents, NumbersOK
  <2> QED
    BY <2>1, <2>2
<1>3. BgStays
  BY <1>1 DEF BgStays
<1> QED
  BY <1>1, <1>2, <1>3, ReadSame

\* An entry is put into mem_.
LEMMA InsertRead ==
    ASSUME There, There', QueueOK, GroupOK, Contents, ReadOK, NEW t \in Thread, Insert(t)
    PROVE  ReadOK'
<1>1. UNCHANGED <<LastSequence, mem_, imm_, file, version, current, get, bg>> /\ InGroup(t)
  BY DEF Insert, InGroup, versionVars, fileVars, bgVars, readVars
<1>2. mem_ \in DOMAIN table /\ mem_ # None /\ (imm_ # None => imm_ \in DOMAIN table) /\ imm_ # mem_
  BY MemTablesFacts
<1>3. PICK x \in Range(group.entries) :
         table' = [table EXCEPT ![mem_] = @ \cup {Pair(x)}] /\ committed' = committed \cup {Pair(x)}
  BY <1>2, InsertGroup
<1>4. PICK e : e = Pair(x)
  OBVIOUS
<1>5. e[1] \in Nat /\ LastSequence < e[1] /\ LastSequence \in Nat
  BY <1>1, <1>4, FrontGroup DEF GroupOf, NumberedFrom, Pair, Contents, NumbersOK
<1>6. table' = [table EXCEPT ![mem_] = @ \cup {e}] /\ committed' = committed \cup {e}
  BY <1>3, <1>4
<1>7. SealedOK /\ Views /\ CurrentOK /\ InputsOK /\ NumbersOK
  BY DEF ReadOK, Contents
<1>8. SealedOK'
  BY <1>1, <1>5, <1>6, <1>7 DEF SealedOK
<1>9. Views'
  <2> SUFFICES ASSUME NEW r \in Reader, get[r].at = "reading"
               PROVE  /\ Aged(get[r].mem, get[r].imm, version[get[r].version])'
                      /\ Whole(get[r].mem, get[r].imm, version[get[r].version], get[r].snapshot)'
    BY <1>1, <1>7 DEF Views
  <2>1. PICK m, i, v, s : m = get[r].mem /\ i = get[r].imm /\ v = get[r].version /\ s = get[r].snapshot
    OBVIOUS
  <2>2. m \in DOMAIN table /\ (i # None => i \in DOMAIN table) /\ v \in DOMAIN version
    BY <2>1, HoldsIs DEF HoldsOK
  <2>3. PICK levels : levels = version[v]
    OBVIOUS
  <2>4. levels \in Levels /\ FilesOf(levels) \subseteq DOMAIN file
    BY <2>2, <2>3, LevelsAre DEF LevelsOK
  <2>5. s \in Nat /\ s <= LastSequence /\ i # mem_ /\ Aged(m, i, levels) /\ Whole(m, i, levels, s)
    BY <1>7, <2>1, <2>3 DEF Views
  <2>6. Aged(m, i, levels)' /\ Whole(m, i, levels, s)'
    BY <1>1, <1>5, <1>6, <1>7, <2>2, <2>4, <2>5, PlacesGrow
  <2> QED
    BY <1>1, <2>1, <2>3, <2>6
<1>10. CurrentOK'
  <2>1. PICK m, i, levels : m = mem_ /\ i = imm_ /\ levels = version[current]
    OBVIOUS
  <2>2. levels \in Levels /\ FilesOf(levels) \subseteq DOMAIN file
    BY <2>1, LevelsAre DEF LevelsOK, There
  <2>3. Aged(m, i, levels)
    BY <1>7, <2>1 DEF CurrentOK
  <2>4. /\ Aged(m, i, levels)'
        /\ \A s \in Nat : s <= LastSequence /\ Whole(m, i, levels, s) => Whole(m, i, levels, s)'
    BY <1>1, <1>2, <1>5, <1>6, <1>7, <2>1, <2>2, <2>3, PlacesGrow
  <2>5. ASSUME NEW r \in Reader, get[r].held # None
        PROVE  Whole(mem_, imm_, version[current], get[r].held)'
    <3>1. PICK s : s = get[r].held
      OBVIOUS
    <3>2. s \in Nat /\ s <= LastSequence /\ Whole(m, i, levels, s)
      BY <1>7, <2>1, <2>5, <3>1 DEF CurrentOK
    <3>3. Whole(m, i, levels, s)'
      BY <2>4, <3>2
    <3> QED
      BY <1>1, <2>1, <3>1, <3>3
  <2> QED
    BY <1>1, <1>7, <2>1, <2>4, <2>5 DEF CurrentOK
<1>11. InputsOK'
  <2>1. imm_ # None => table'[imm_] = table[imm_]
    BY <1>2, <1>6
  <2>2. bg.at = "logFlush" => imm_ # None
    BY DEF There, RefsOK, ControlOK
  <2> QED
    BY <1>1, <1>7, <2>1, <2>2 DEF InputsOK, MergeOK, MoveOK, FlushOK, Compacting
<1> QED
  BY <1>8, <1>9, <1>10, <1>11 DEF ReadOK

\* A new memtable takes the place of a full one, or cannot.
LEMMA RoomSwitchRead ==
    ASSUME There, There', QueueOK, GroupOK, Contents, ReadOK, NEW t \in Thread, NEW bad, RoomSwitch(t, bad)
    PROVE  ReadOK'
<1>1. /\ UNCHANGED <<LastSequence, file, version, current, committed, get>>
      /\ Working(t) /\ ~InGroup(t) /\ imm_ = None
  BY DEF RoomSwitch, InRoom, Working, InGroup, versionVars, fileVars, MustWait, readVars
<1>2. NumbersRise
  BY <1>1 DEF NumbersRise, Contents, NumbersOK
<1>3. CASE bad
  <2>1. UNCHANGED <<mem_, imm_, table, bg>>
    BY <1>3 DEF RoomSwitch, memVars, bgVars
  <2>2. BgStays
    BY <2>1 DEF BgStays
  <2> QED
    BY <1>1, <1>2, <2>1, <2>2, ReadSame
<1>4. CASE ~bad
  <2>1. /\ imm_' = mem_ /\ mem_' = NextFile /\ table' = With(table, NextFile, {})
        /\ Schedules(FALSE, mem_, manual_compaction_, version, current, seekCompaction)
    BY <1>4 DEF RoomSwitch
  <2>2. /\ mem_ \in Nat /\ mem_ < NextFile /\ NextFile \in Nat /\ None \notin Nat /\ mem_ \in DOMAIN table
    BY MemTablesFacts
  <2>3. ControlOK /\ MemoryOK
    BY DEF There, RefsOK
  <2>4. BgStays
    BY <2>1, <2>3, SchedulesStays
  <2>5. NextFile \notin DOMAIN table
    BY <2>2, <2>3 DEF MemoryOK
  <2>6. /\ DOMAIN table' = DOMAIN table \cup {NextFile} /\ table'[NextFile] = {}
        /\ \A m \in DOMAIN table : table'[m] = table[m]
    BY <2>1, <2>5 DEF With
  <2>7. TablesQuiet /\ VersionsQuiet /\ FilesQuiet /\ HeldRest
    BY <1>1, <2>6 DEF TablesQuiet, VersionsQuiet, FilesQuiet, HeldRest
  <2>8. SealedOK /\ Views /\ CurrentOK /\ InputsOK /\ NumbersOK
    BY DEF ReadOK, Contents
  <2>9. SealedOK'
    <3>1. Len(group.entries) = 0 /\ LastSequence \in Nat
      BY <1>1, <2>8, NoGroupThere DEF NumbersOK
    <3>2. \A e \in committed : e[1] <= LastSequence
      BY <2>8, <3>1 DEF NumbersOK
    <3>3. \A m \in DOMAIN table : \A e \in table[m] : e[1] <= LastSequence
      BY <2>8, <3>2 DEF NumbersOK
    <3> QED
      BY <1>1, <2>1, <2>6, <2>8, <3>3 DEF SealedOK
  <2>10. Views'
    BY <1>1, <1>2, <2>1, <2>5, <2>7, <2>8, ViewsQuiet
  <2>11. Aged(mem_, imm_, version[current])'
    <3>1. \A f \in FilesOf(version[current]) : Newer(table[mem_], file[f])
      BY <2>8 DEF CurrentOK, Aged
    <3>2. \A xs : Newer(table'[NextFile], xs)
      BY <2>6 DEF Newer
    <3> QED
      BY <1>1, <2>1, <2>2, <2>6, <2>8, <3>1, <3>2 DEF CurrentOK, Aged
  <2>12. ASSUME NEW s, Whole(mem_, imm_, version[current], s), NEW m, NEW i, NEW levels,
                m = mem_', i = imm_', levels = version'[current']
         PROVE  Whole(m, i, levels, s)'
    <3>1. Sources(mem_, imm_, version[current]) \subseteq Sources(m, i, levels)'
      BY <1>1, <2>1, <2>2, <2>6, <2>12 DEF Sources
    <3> QED
      BY <1>1, <2>12, <3>1 DEF Whole
  <2>13. CurrentOK'
    BY <1>1, <1>2, <2>8, <2>11, <2>12, CurrentMoves
  <2>14. InputsOK'
    BY <1>1, <1>2, <2>4, <2>7, <2>8, InputsQuiet
  <2> QED
    BY <2>9, <2>10, <2>13, <2>14 DEF ReadOK
<1> QED
  BY <1>3, <1>4

\* A reader begins: what it takes are the current places.
LEMMA GetRead ==
    ASSUME There, There', Contents, ReadOK, NEW r \in Reader, NEW key, Get(r, key)
    PROVE  ReadOK'
<1>1. /\ UNCHANGED <<LastSequence, mem_, imm_, table, file, version, current, committed, bg>>
      /\ get' = [get EXCEPT ![r] = [at |-> "reading", key |-> key, held |-> get[r].held,
                                    snapshot |-> IF get[r].held # None THEN get[r].held ELSE LastSequence,
                                    mem |-> mem_, imm |-> imm_, version |-> current]]
  BY DEF Get, fileVars, bgVars, ghostVars
<1>2. PICK s : s = IF get[r].held # None THEN get[r].held ELSE LastSequence
  OBVIOUS
<1>3. get' = [get EXCEPT ![r] = [at |-> "reading", key |-> key, held |-> get[r].held, snapshot |-> s,
                                 mem |-> mem_, imm |-> imm_, version |-> current]]
  BY <1>1, <1>2
<1>4. DOMAIN get = Reader
  BY DEF There, RefsOK, ReadersOK
<1>5. SealedOK /\ Views /\ CurrentOK /\ InputsOK /\ NumbersOK /\ StoredOK
  BY DEF ReadOK, Contents
<1>6. s \in Nat /\ s <= LastSequence /\ Whole(mem_, imm_, version[current], s)
  <2>1. CASE get[r].held # None
    BY <1>2, <1>5, <2>1 DEF CurrentOK
  <2>2. CASE get[r].held = None
    BY <1>2, <1>5, <2>2, WholeLast DEF NumbersOK
  <2> QED
    BY <2>1, <2>2
<1>7. \A x \in Reader : x # r => get'[x] = get[x]
  BY <1>3, <1>4
<1>8. /\ get'[r].held = get[r].held /\ get'[r].snapshot = s /\ get'[r].mem = mem_ /\ get'[r].imm = imm_
      /\ get'[r].version = current
  BY <1>3, <1>4
<1>9. \A x \in Reader : get'[x].held = get[x].held
  BY <1>7, <1>8
<1>10. SealedOK'
  BY <1>1, <1>5 DEF SealedOK
<1>11. /\ \A m, i, levels : Aged(m, i, levels)' <=> Aged(m, i, levels)
       /\ \A m, i, levels, q : Whole(m, i, levels, q)' <=> Whole(m, i, levels, q)
  BY <1>1 DEF Aged, Whole, Sources
<1>12. Views'
  <2>1. imm_ # mem_
    BY MemTablesFacts
  <2>2. ASSUME NEW x \in Reader, get'[x].at = "reading"
        PROVE  /\ get'[x].snapshot \in Nat /\ get'[x].snapshot <= LastSequence /\ get'[x].imm # mem_
               /\ Aged(get[x].mem, get[x].imm, version[get[x].version])'
               /\ Whole(get[x].mem, get[x].imm, version[get[x].version], get[x].snapshot)'
    <3>1. PICK m, i, levels, q : /\ m = get'[x].mem /\ i = get'[x].imm
                                 /\ levels = version[get'[x].version] /\ q = get'[x].snapshot
      OBVIOUS
    <3>2. q \in Nat /\ q <= LastSequence /\ i # mem_ /\ Aged(m, i, levels) /\ Whole(m, i, levels, q)
      <4>1. CASE x = r
        BY <1>5, <1>6, <1>8, <2>1, <3>1, <4>1 DEF CurrentOK
      <4>2. CASE x # r
        BY <1>5, <1>7, <2>2, <3>1, <4>2 DEF Views
      <4> QED
        BY <4>1, <4>2
    <3>3. Aged(m, i, levels)' /\ Whole(m, i, levels, q)'
      BY <1>11, <3>2
    <3> QED
      BY <1>1, <3>1, <3>2, <3>3
  <2> QED
    BY <1>1, <2>2 DEF Views
<1>13. CurrentOK'
  <2>1. PICK m, i, levels : m = mem_ /\ i = imm_ /\ levels = version[current]
    OBVIOUS
  <2>2. Aged(m, i, levels)' /\ \A q : Whole(m, i, levels, q) => Whole(m, i, levels, q)'
    <3>1. Aged(m, i, levels)
      BY <1>5, <2>1 DEF CurrentOK
    <3> QED
      BY <1>11, <3>1
  <2>3. ASSUME NEW x \in Reader, get'[x].held # None
        PROVE  /\ get'[x].held \in Nat /\ get'[x].held <= LastSequence'
               /\ Whole(mem_, imm_, version[current], get[x].held)'
    <3>1. PICK q : q = get[x].held
      OBVIOUS
    <3>2. q # None /\ q = get'[x].held
      BY <1>9, <2>3, <3>1
    <3>3. q \in Nat /\ q <= LastSequence /\ Whole(m, i, levels, q)
      BY <1>5, <2>1, <3>1, <3>2 DEF CurrentOK
    <3>4. Whole(m, i, levels, q)'
      BY <2>2, <3>3
    <3> QED
      BY <1>1, <2>1, <3>2, <3>3, <3>4
  <2> QED
    BY <1>1, <2>1, <2>2, <2>3 DEF CurrentOK
<1>14. InputsOK'
  BY <1>1, <1>5, <1>9 DEF InputsOK, MergeOK, MoveOK, FlushOK, Compacting
<1> QED
  BY <1>10, <1>12, <1>13, <1>14 DEF ReadOK

\* Readers that take or release a snapshot or are through, the destructor, and steps that do nothing.
LEMMA OthersRead ==
    ASSUME There, There', Contents, ReadOK,
           \/ \E r \in Reader : GetSnapshot(r) \/ ReleaseSnapshot(r) \/ \E seek \in BOOLEAN : GetDone(r, seek)
           \/ Close \/ UNCHANGED vars
    PROVE  ReadOK'
<1>1. UNCHANGED <<LastSequence, mem_, imm_, file, current, committed>>
  <2>1. CASE \E r \in Reader : GetSnapshot(r) \/ ReleaseSnapshot(r) \/ \E seek \in BOOLEAN : GetDone(r, seek)
    BY <2>1 DEF GetSnapshot, ReleaseSnapshot, GetDone, storeVars, memVars, versionVars, fileVars, ghostVars
  <2>2. CASE Close \/ UNCHANGED vars
    BY <2>2 DEF Close, vars, storeVars, memVars, versionVars, fileVars, ghostVars
  <2> QED
    BY <2>1, <2>2
<1>2. NumbersRise
  BY <1>1 DEF NumbersRise, Contents, NumbersOK
<1>4. VersionsOK /\ MemoryOK /\ ControlOK /\ DOMAIN get = Reader
  BY DEF There, RefsOK, ReadersOK
<1>5. /\ VersionsRest /\ TablesRest /\ BgStays
      /\ HeldRest /\ \A r \in Reader : get'[r].at = "reading" => get'[r] = get[r]
  <2>1. CASE Close \/ UNCHANGED vars
    <3>1. UNCHANGED <<version, table, bg, get>>
      BY <2>1 DEF Close, vars, storeVars, memVars, versionVars, bgVars, readVars
    <3> QED
      BY <3>1, SameRest DEF BgStays, HeldRest
  <2>2. ASSUME NEW r \in Reader, GetSnapshot(r) \/ ReleaseSnapshot(r)
        PROVE  /\ VersionsRest /\ TablesRest /\ BgStays
               /\ HeldRest /\ \A x \in Reader : get'[x].at = "reading" => get'[x] = get[x]
    <3>1. /\ UNCHANGED <<version, table, bg>> /\ get[r].at = "idle"
          /\ get' = [get EXCEPT ![r].held = LastSequence] \/ get' = [get EXCEPT ![r] = NoGet]
      BY <2>2 DEF GetSnapshot, ReleaseSnapshot, storeVars, memVars, versionVars, bgVars
    <3>2. VersionsRest /\ TablesRest /\ BgStays
      BY <3>1, SameRest DEF BgStays
    <3>3. IsGet(get[r])
      BY DEF There, RefsOK, ReadersOK
    <3>4. DOMAIN get[r] = {"at", "key", "held", "snapshot", "mem", "imm", "version"}
      BY <3>3 DEF IsGet
    <3>5. get'[r].at = "idle" /\ (get'[r].held # None => get'[r].held = LastSequence)
      BY <1>4, <3>1, <3>4 DEF NoGet
    <3>6. \A x \in Reader : x # r => get'[x] = get[x]
      BY <1>4, <3>1
    <3> QED
      BY <3>2, <3>5, <3>6 DEF HeldRest
  <2>3. ASSUME NEW r \in Reader, NEW seek \in BOOLEAN, GetDone(r, seek)
        PROVE  /\ VersionsRest /\ TablesRest /\ BgStays
               /\ HeldRest /\ \A x \in Reader : get'[x].at = "reading" => get'[x] = get[x]
    <3>1. PICK s, held, n : /\ s = (IF seek THEN seekCompaction \cup {get[r].version} ELSE seekCompaction)
                            /\ held = {get[r].mem, get[r].imm} /\ n = get[r].version
      OBVIOUS
    <3>2. /\ UNCHANGED bgVars \/ Schedules(bg_error_, imm_, manual_compaction_, version, current, s)
          /\ SetMemTables(table, [m \in DOMAIN mrefs |-> mrefs[m] - (IF m \in held THEN 1 ELSE 0)])
          /\ SetVersions(version, Unref(vrefs, n)) /\ get' = [get EXCEPT ![r] = [NoGet EXCEPT !.held = get[r].held]]
      BY <2>3, <3>1 DEF GetDone
    <3>3. BgStays
      BY <1>4, <3>2, SchedulesStays
    <3>4. VersionsRest
      BY <1>4, <3>2, VersionsStay DEF VersionsRest
    <3>5. TablesRest
      <4>1. PICK refs : refs = [m \in DOMAIN mrefs |-> mrefs[m] - (IF m \in held THEN 1 ELSE 0)]
        OBVIOUS
      <4>2. table' = Restrict(table, Used(refs)) /\ DOMAIN refs = DOMAIN table
        BY <1>4, <3>2, <4>1 DEF SetMemTables, MemoryOK
      <4> QED
        BY <4>2 DEF TablesRest, Restrict, Used
    <3>6. get'[r].at = "idle" /\ get'[r].held = get[r].held
      BY <1>4, <3>2 DEF NoGet
    <3>7. \A x \in Reader : x # r => get'[x] = get[x]
      BY <1>4, <3>2
    <3> QED
      BY <3>3, <3>4, <3>5, <3>6, <3>7 DEF HeldRest
  <2> QED
    BY <2>1, <2>2, <2>3
<1> QED
  BY <1>1, <1>2, <1>5, ReadQuiet

-----------------------------------------------------------------------------
(* The background thread's steps.                                          *)

\* A step of it that leaves the current places alone.
LEMMA BackQuiet ==
    ASSUME There, There', Contents, ReadOK, VersionsRest, TablesRest, FilesQuiet, InputsOK',
           UNCHANGED <<committed, mem_, imm_, current, get, LastSequence>>
    PROVE  ReadOK'
<1>1. VersionsQuiet /\ TablesQuiet /\ DOMAIN table' \subseteq DOMAIN table
  BY DEF VersionsRest, TablesRest, VersionsQuiet, TablesQuiet
<1>2. SealedOK /\ Views /\ CurrentOK /\ NumbersOK /\ StoredOK
  BY DEF ReadOK, Contents
<1>3. NumbersRise /\ HeldRest
  BY <1>2 DEF NumbersRise, NumbersOK, HeldRest
<1>4. SealedOK'
  BY <1>1, <1>2, <1>3, SealedQuiet
<1>5. Views'
  BY <1>1, <1>2, <1>3, ViewsQuiet
<1>6. CurrentOK'
  BY <1>1, <1>2, <1>3, CurrentQuiet
<1> QED
  BY <1>4, <1>5, <1>6 DEF ReadOK

\* A compaction goes on.
LEMMA MergeStays ==
    ASSUME There, There', MergeOK, VersionsRest, UNCHANGED <<current, get, LastSequence>>,
           Compacting(bg') => Compacting(bg) /\ bg'.input = bg.input /\ bg'.oldest = bg.oldest
    PROVE  MergeOK'
<1> SUFFICES ASSUME Compacting(bg') PROVE MergeOK'
  BY DEF MergeOK
<1>1. version'[current] = version[current]
  BY DEF There, VersionsRest
<1>2. version'[bg.input] = version[bg.input]
  BY DEF There, VersionsRest
<1> QED
  BY <1>1, <1>2 DEF MergeOK

\* CompactMemTable begins.
LEMMA StartFlushRead ==
    ASSUME There, There', Contents, ReadOK, NEW ret, StartFlush(ret), ret \in {"finish", "work"},
           ret = "work" => bg.at = "work",
           UNCHANGED <<LastSequence, mem_, imm_, table, version, current, file, committed, get>>
    PROVE  ReadOK'
<1>1. bg' = [bg EXCEPT !.at = "build", !.ret = ret, !.number = NextFile, !.base = current]
  BY DEF StartFlush
<1>2. IsWork(bg) /\ FilesOK /\ VersionsRest /\ TablesRest /\ FilesQuiet
  BY SameRest DEF There, RefsOK, ControlOK, FilesQuiet
<1>3. /\ bg'.at = "build" /\ bg'.ret = ret /\ bg'.number = NextFile /\ bg'.base = current
      /\ bg'.input = bg.input /\ bg'.oldest = bg.oldest
  BY <1>1, <1>2 DEF IsWork
<1>4. Compacting(bg') => Compacting(bg)
  BY <1>3 DEF Compacting
<1>5. MergeOK'
  BY <1>2, <1>3, <1>4, MergeStays DEF ReadOK, InputsOK
<1>6. NextFile \notin DOMAIN file /\ \A f \in version[current][1] : f < NextFile
  <2>1. NextFile \in Nat /\ \A f \in DOMAIN file : f \in Nat /\ f < NextFile
    BY <1>2 DEF FilesOK, There, RefsOK, ControlOK
  <2> QED
    BY <1>2, <2>1 DEF FilesOK, There
<1>7. InputsOK'
  BY <1>3, <1>5, <1>6 DEF InputsOK, MoveOK, FlushOK
<1> QED
  BY <1>2, <1>7, BackQuiet

\* A compaction begins.
LEMMA StartMergeRead ==
    ASSUME There, There', Contents, ReadOK, version[current][1] # {},
           NEW at \in {"logMove", "work"}, NEW manual, NEW oldest,
           oldest = IF Snapshots = {} THEN LastSequence ELSE Min(Snapshots),
           at = "logMove" => Cardinality(version[current][1]) = 1 /\ version[current][2] = {},
           bg' = [bg EXCEPT !.at = at, !.input = current, !.manual = manual, !.oldest = oldest],
           UNCHANGED <<LastSequence, mem_, imm_, table, version, current, file, committed, get>>
    PROVE  ReadOK'
<1>1. IsWork(bg) /\ FilesOK /\ VersionsRest /\ TablesRest /\ FilesQuiet /\ NextFile \in Nat
  BY SameRest DEF There, RefsOK, ControlOK, FilesQuiet
<1>2. bg'.at = at /\ bg'.input = current /\ bg'.oldest = oldest
  BY <1>1 DEF IsWork
<1>3. oldest \in Nat /\ oldest <= LastSequence /\ \A r \in Reader : get[r].held # None => oldest <= get[r].held
  <2>1. LastSequence \in Nat
    BY DEF Contents, NumbersOK
  <2>2. \A r \in Reader : get[r].held # None => get[r].held \in Nat /\ get[r].held <= LastSequence
    BY DEF ReadOK, CurrentOK
  <2>3. PICK S : S = Snapshots
    OBVIOUS
  <2>4. S = {get[r].held : r \in Reader} \ {None}
    BY <2>3 DEF Snapshots
  <2>5. CASE S = {}
    BY <2>1, <2>3, <2>4, <2>5
  <2>6. CASE S # {}
    <3>1. S \in SUBSET Nat /\ oldest = Min(S)
      BY <2>2, <2>3, <2>4, <2>6
    <3>2. oldest \in S /\ \A k \in S : oldest <= k
      BY <2>6, <3>1, MinFacts
    <3> QED
      BY <2>2, <2>4, <3>1, <3>2
  <2> QED
    BY <2>5, <2>6
<1>4. MergeOK'
  BY <1>2, <1>3 DEF MergeOK
<1>5. MoveOK'
  <2>1. ASSUME at = "logMove", NEW f \in version[current][1], NEW g \in version[current][1]
        PROVE  f = g
    <3>1. PICK F : F = version[current][1]
      OBVIOUS
    <3>2. F \subseteq 0..NextFile
      BY <1>1, <3>1 DEF FilesOK, There
    <3>3. IsFiniteSet(F)
      BY <1>1, <3>2, FS_Interval, FS_Subset
    <3>4. \E x : F = {x}
      BY <2>1, <3>1, <3>3, FS_Singleton
    <3> QED
      BY <2>1, <3>1, <3>4
  <2> QED
    BY <1>2, <2>1 DEF MoveOK
<1>6. FlushOK'
  BY <1>2 DEF FlushOK
<1> QED
  BY <1>1, <1>4, <1>5, <1>6, BackQuiet DEF InputsOK

\* Work that is over, or stops.
LEMMA EndsRead ==
    ASSUME There, There', Contents, ReadOK, bg'.at \in {"finish", "none", "scheduled"},
           VersionsRest, TablesRest, FilesQuiet, UNCHANGED <<LastSequence, mem_, imm_, current, committed, get>>
    PROVE  ReadOK'
<1>1. InputsOK'
  BY DEF InputsOK, MergeOK, MoveOK, FlushOK, Compacting
<1> QED
  BY <1>1, BackQuiet

\* The background thread begins, stops or ends its work, or flushes in the middle of a compaction.
LEMMA BackgroundCallRead ==
    ASSUME There, There', Contents, ReadOK, BackgroundCall \/ WorkFlush \/ WorkStopped \/ BackgroundCallDone
    PROVE  ReadOK'
<1>1. UNCHANGED <<LastSequence, mem_, imm_, table, version, current, file, committed, get>>
  BY DEF BackgroundCall, WorkFlush, WorkStopped, BackgroundCallDone, storeVars, memVars, versionVars, fileVars,
     quietVars, readVars, ghostVars
<1>2. VersionsRest /\ TablesRest /\ FilesQuiet /\ IsWork(bg)
  BY <1>1, SameRest DEF FilesQuiet, There, RefsOK, ControlOK
<1>3. CASE BackgroundCall
  <2>1. CASE bg' = [bg EXCEPT !.at = "finish"]
    <3>1. bg'.at = "finish"
      BY <1>2, <2>1 DEF IsWork
    <3> QED
      BY <1>1, <1>2, <3>1, EndsRead
  <2>2. CASE StartFlush("finish")
    <3>1. PICK ret : ret = "finish"
      OBVIOUS
    <3> QED
      BY <1>1, <2>2, <3>1, StartFlushRead
  <2>3. CASE bg' # [bg EXCEPT !.at = "finish"] /\ ~StartFlush("finish")
    <3>1. PICK inputs : inputs = PickCompaction
      OBVIOUS
    <3>2. /\ inputs # {}
          /\ bg' = [bg EXCEPT !.at = IF IsTrivialMove(inputs) THEN "logMove" ELSE "work",
                              !.input = current, !.manual = manual_compaction_ # None,
                              !.oldest = IF Snapshots = {} THEN LastSequence ELSE Min(Snapshots)]
      BY <1>3, <2>3, <3>1 DEF BackgroundCall
    <3>3. inputs = version[current][1]
      BY <3>1, <3>2 DEF PickCompaction
    <3>4. PICK at, manual, oldest :
             /\ at = IF IsTrivialMove(inputs) THEN "logMove" ELSE "work"
             /\ manual = (manual_compaction_ # None)
             /\ oldest = IF Snapshots = {} THEN LastSequence ELSE Min(Snapshots)
      OBVIOUS
    <3>5. at \in {"logMove", "work"} /\ (at = "logMove" => Cardinality(inputs) = 1 /\ version[current][2] = {})
      BY <3>4 DEF IsTrivialMove
    <3>6. bg' = [bg EXCEPT !.at = at, !.input = current, !.manual = manual, !.oldest = oldest]
      BY <3>2, <3>4
    <3> QED
      BY <1>1, <3>2, <3>3, <3>4, <3>5, <3>6, StartMergeRead
  <2> QED
    BY <2>1, <2>2, <2>3
<1>4. CASE WorkFlush
  <2>1. PICK ret : ret = "work"
    OBVIOUS
  <2>2. StartFlush(ret) /\ bg.at = "work"
    BY <1>4, <2>1 DEF WorkFlush
  <2> QED
    BY <1>1, <2>1, <2>2, StartFlushRead
<1>5. CASE WorkStopped
  <2>1. bg' = [bg EXCEPT !.at = "fail"] /\ bg.at = "work"
    BY <1>5 DEF WorkStopped
  <2>2. bg'.at = "fail" /\ bg'.input = bg.input /\ bg'.oldest = bg.oldest /\ Compacting(bg)
    BY <1>2, <2>1 DEF IsWork, Compacting
  <2>3. MergeOK'
    BY <1>1, <1>2, <2>2, MergeStays DEF ReadOK, InputsOK
  <2>4. InputsOK'
    BY <2>2, <2>3 DEF InputsOK, MoveOK, FlushOK
  <2> QED
    BY <1>1, <1>2, <2>4, BackQuiet
<1>6. CASE BackgroundCallDone
  <2>1. bg'.at \in {"none", "scheduled"}
    BY <1>6 DEF BackgroundCallDone, Resting
  <2> QED
    BY <1>1, <1>2, <2>1, EndsRead
<1> QED
  BY <1>3, <1>4, <1>5, <1>6

\* A table is made from imm_, or not.
LEMMA BuildTableRead ==
    ASSUME There, There', Contents, ReadOK, NEW bad, BuildTable(bad)
    PROVE  ReadOK'
<1>1. /\ bg.at = "build"
      /\ UNCHANGED <<LastSequence, mem_, imm_, table, current, committed, get>>
      /\ SetVersions(version, Unref(vrefs, bg.base))
      /\ file' = IF bad \/ table[imm_] = {} THEN file ELSE With(file, bg.number, table[imm_])
  BY DEF BuildTable, memVars, ghostVars, readVars
<1>2. IsWork(bg) /\ VersionsOK /\ TablesRest
  BY <1>1, SameRest DEF There, RefsOK, ControlOK
<1>3. VersionsRest
  BY <1>1, <1>2, VersionsStay DEF VersionsRest
<1>4. FilesQuiet
  BY <1>1 DEF FilesQuiet, Contents, NewFilesOK, With
<1>5. bg.ret \in {"finish", "work"} /\ (bg.ret = "work" => Compacting(bg))
  BY <1>1, <1>2 DEF IsWork, Compacting
<1>6. /\ MergeOK /\ bg.base = current /\ bg.number \notin DOMAIN file /\ \A f \in version[current][1] : f < bg.number
      /\ version'[current] = version[current]
  BY <1>1, <1>3 DEF ReadOK, InputsOK, FlushOK, There, VersionsRest
<1>7. CASE bg' = [bg EXCEPT !.at = bg.ret]
  <2>1. bg'.at = bg.ret /\ bg'.input = bg.input /\ bg'.oldest = bg.oldest
    BY <1>2, <1>7 DEF IsWork
  <2>2. CASE bg.ret = "finish"
    BY <1>1, <1>2, <1>3, <1>4, <2>1, <2>2, EndsRead
  <2>3. CASE bg.ret = "work"
    <3>1. MergeOK'
      BY <1>1, <1>3, <1>5, <1>6, <2>1, <2>3, MergeStays
    <3>2. InputsOK'
      BY <2>1, <2>3, <3>1 DEF InputsOK, MoveOK, FlushOK
    <3> QED
      BY <1>1, <1>2, <1>3, <1>4, <3>2, BackQuiet
  <2> QED
    BY <1>5, <2>2, <2>3
<1>8. CASE bg' = [bg EXCEPT !.at = "logFlush", !.log = logfile_number_,
                            !.level = IF version[bg.base] = <<{}, {}>> THEN 2 ELSE 1]
  <2>1. PICK l : l = IF version[bg.base] = <<{}, {}>> THEN 2 ELSE 1
    OBVIOUS
  <2>2. bg' = [bg EXCEPT !.at = "logFlush", !.log = logfile_number_, !.level = l]
    BY <1>8, <2>1
  <2>3. /\ bg'.at = "logFlush" /\ bg'.ret = bg.ret /\ bg'.input = bg.input /\ bg'.oldest = bg.oldest
        /\ bg'.level = l /\ bg'.number = bg.number
    BY <1>2, <2>2 DEF IsWork
  <2>4. Compacting(bg') => Compacting(bg)
    BY <1>5, <2>3 DEF Compacting
  <2>5. MergeOK'
    BY <1>1, <1>3, <1>6, <2>3, <2>4, MergeStays
  <2>6. l = 2 => version[current] = <<{}, {}>>
    BY <1>6, <2>1
  <2>8. bg.number \in DOMAIN file' => file'[bg.number] = table[imm_]
    BY <1>1, <1>6 DEF With
  <2>7. InputsOK'
    BY <1>1, <1>6, <2>3, <2>5, <2>6, <2>8 DEF InputsOK, MoveOK, FlushOK
  <2> QED
    BY <1>1, <1>2, <1>3, <1>4, <2>7, BackQuiet
<1>9. \/ bg' = [bg EXCEPT !.at = bg.ret]
      \/ bg' = [bg EXCEPT !.at = "logFlush", !.log = logfile_number_,
                          !.level = IF version[bg.base] = <<{}, {}>> THEN 2 ELSE 1]
  BY DEF BuildTable
<1> QED
  BY <1>7, <1>8, <1>9

\* The output of a compaction is opened or written.
LEMMA OutputRead ==
    ASSUME There, There', Contents, ReadOK, NEW bad,
           OpenCompactionOutputFile(bad) \/ FinishCompactionOutputFile(bad)
    PROVE  ReadOK'
<1>1. /\ bg.at = "work"
      /\ UNCHANGED <<LastSequence, mem_, imm_, table, version, current, committed, get>>
  BY DEF OpenCompactionOutputFile, FinishCompactionOutputFile, memVars, versionVars, quietVars, ghostVars, readVars
<1>2. IsWork(bg) /\ TablesRest /\ VersionsRest /\ FilesOK
  BY <1>1, SameRest DEF There, RefsOK, ControlOK
<1>3. /\ bg'.at \in {"work", "fail", "logMerge"} /\ bg'.input = bg.input /\ bg'.oldest = bg.oldest
  <2>1. CASE OpenCompactionOutputFile(bad)
    <3>1. PICK at \in {"work", "fail"} : at = IF bad THEN "fail" ELSE "work"
      OBVIOUS
    <3>2. bg' = [bg EXCEPT !.at = at, !.out = NextFile]
      BY <2>1, <3>1 DEF OpenCompactionOutputFile
    <3> QED
      BY <1>2, <3>1, <3>2 DEF IsWork
  <2>2. CASE FinishCompactionOutputFile(bad)
    <3>1. PICK at \in {"fail", "logMerge"} : at = IF bad THEN "fail" ELSE "logMerge"
      OBVIOUS
    <3>2. bg' = [bg EXCEPT !.at = at]
      BY <2>2, <3>1 DEF FinishCompactionOutputFile
    <3> QED
      BY <1>2, <3>1, <3>2 DEF IsWork
  <2> QED
    BY <2>1, <2>2
<1>4. FilesQuiet
  <2>1. ASSUME NEW v \in DOMAIN version, NEW f \in FilesOf(version[v])
        PROVE  file'[f] = file[f]
    <3>1. f \in DOMAIN file /\ f # NextFile
      <4>1. NextFile \in Nat /\ f \in DOMAIN file
        BY LevelsAre DEF There, RefsOK, ControlOK, LevelsOK
      <4>2. f \in Nat /\ f < NextFile
        BY <1>2, <4>1 DEF FilesOK
      <4> QED
        BY <4>1, <4>2
    <3>2. f # bg.out
      BY <1>1 DEF Contents, NewFilesOK, Output, Compacting
    <3>3. CASE OpenCompactionOutputFile(bad)
      BY <3>1, <3>3 DEF OpenCompactionOutputFile, With
    <3>4. CASE FinishCompactionOutputFile(bad)
      BY <3>1, <3>2, <3>4 DEF FinishCompactionOutputFile
    <3> QED
      BY <3>3, <3>4
  <2> QED
    BY <2>1 DEF FilesQuiet
<1>5. MergeOK'
  <2>1. Compacting(bg)
    BY <1>1 DEF Compacting
  <2> QED
    BY <1>1, <1>2, <1>3, <2>1, MergeStays DEF ReadOK, InputsOK
<1>6. InputsOK'
  BY <1>3, <1>5 DEF InputsOK, MoveOK, FlushOK
<1> QED
  BY <1>1, <1>2, <1>4, <1>6, BackQuiet

\* The versions before a step that installs one, and the one it installs.
LEMMA NewVersion ==
    ASSUME There, There', NEW refs, NEW levels, Install(levels, refs), DOMAIN refs = DOMAIN version
    PROVE  /\ VersionsQuiet /\ version'[current'] = levels
           /\ current' \in DOMAIN version' /\ current' \notin DOMAIN version
<1>1. PICK n, D : n = Max(DOMAIN version) + 1 /\ D = DOMAIN version
  OBVIOUS
<1>2. current' = n /\ current' \in DOMAIN version'
  BY <1>1 DEF Install, There
<1>3. D \in SUBSET Nat /\ Bounded(D) /\ D # {}
  <2>1. vrefs \in PartialFn(Nat, Nat) /\ D = DOMAIN vrefs /\ Bounded(D)
    BY <1>1 DEF There, RefsOK, VersionsOK
  <2> QED
    BY <1>1, <2>1, PartialFnElim DEF There
<1>4. n \notin D
  <2>1. Max(D) \in Nat /\ \A k \in D : k \in Nat /\ k <= Max(D)
    BY <1>3, MaxFacts
  <2>2. n = Max(D) + 1
    BY <1>1
  <2> QED
    BY <2>1, <2>2
<1>5. /\ version'[current'] = levels
      /\ \A v \in DOMAIN version' : v = current' \/ (v \in DOMAIN version /\ version'[v] = version[v])
  BY <1>2, InstallFacts
<1> QED
  BY <1>1, <1>2, <1>4, <1>5 DEF VersionsQuiet

\* A step that installs a version, in which nothing is missing that was in the one before.
LEMMA InstallRead ==
    ASSUME There, There', Contents, ReadOK, VersionsQuiet, TablesRest, FilesQuiet, InputsOK',
           UNCHANGED <<LastSequence, mem_, committed, get>>,
           Aged(mem_, imm_, version[current])',
           \A r \in Reader : get[r].held # None /\ Whole(mem_, imm_, version[current], get[r].held) =>
              \A s : s = get[r].held => \A m, i, levels :
                 m = mem_' /\ i = imm_' /\ levels = version'[current'] => Whole(m, i, levels, s)'
    PROVE  ReadOK'
<1>1. TablesQuiet /\ DOMAIN table' \subseteq DOMAIN table
  BY DEF TablesRest, TablesQuiet
<1>2. SealedOK /\ Views /\ CurrentOK /\ NumbersOK /\ NumbersRise
  BY DEF ReadOK, Contents, NumbersRise, NumbersOK
<1>3. SealedOK'
  BY <1>1, <1>2, SealedQuiet
<1>4. Views'
  BY <1>1, <1>2, ViewsQuiet
<1>5. CurrentOK'
  BY <1>2, CurrentMoves
<1> QED
  BY <1>3, <1>4, <1>5 DEF ReadOK

\* The table made from imm_ is installed, and imm_ is given up.
LEMMA LogFlushRead ==
    ASSUME There, There', Contents, ReadOK, NEW bad, LogFlush(bad)
    PROVE  ReadOK'
<1>1. /\ bg.at = "logFlush" /\ bg' = [bg EXCEPT !.at = bg.ret]
      /\ UNCHANGED <<LastSequence, mem_, committed, get>>
  BY DEF LogFlush, ghostVars, readVars, memVars
<1>2. ControlOK /\ VersionsOK /\ MemoryOK /\ None \notin Nat /\ IsWork(bg)
  BY DEF There, RefsOK, EngineAssumption, ControlOK
<1>3. /\ bg'.at = bg.ret /\ bg'.input = bg.input /\ bg'.oldest = bg.oldest /\ bg.ret \in {"finish", "work"}
      /\ (bg.ret = "work" => Compacting(bg)) /\ imm_ # None
  BY <1>1, <1>2 DEF IsWork, Compacting, ControlOK
<1>4. MergeOK /\ FlushOK /\ CurrentOK /\ NewFilesOK
  BY DEF ReadOK, InputsOK, Contents
<1>5. CASE bad
  <2>1. UNCHANGED <<imm_, table, file, version, current>>
    BY <1>1, <1>5 DEF LogFlush, memVars, versionVars
  <2>2. VersionsRest /\ TablesRest /\ FilesQuiet
    BY <2>1, SameRest DEF FilesQuiet
  <2>3. CASE bg.ret = "finish"
    BY <1>1, <1>3, <2>1, <2>2, <2>3, EndsRead
  <2>4. CASE bg.ret = "work"
    <3>1. MergeOK'
      BY <1>1, <1>3, <1>4, <2>1, <2>2, <2>4, MergeStays
    <3>2. InputsOK'
      BY <1>3, <2>4, <3>1 DEF InputsOK, MoveOK, FlushOK
    <3> QED
      BY <1>1, <2>1, <2>2, <3>2, BackQuiet
  <2> QED
    BY <1>3, <2>3, <2>4
<1>6. CASE ~bad
  <2>1. PICK levels, n, c, i : /\ levels = Added(version[current], bg.level, {bg.number} \cap DOMAIN file)
                               /\ n = bg.number /\ c = version[current] /\ i = imm_
    OBVIOUS
  <2>2. /\ Install(levels, vrefs) /\ SetMemTables(table, MemUnref(mrefs, i)) /\ imm_' = None
        /\ DeleteObsoleteFiles(file, log, version', pending_outputs_, bg.log, bg_error_)
    BY <1>6, <2>1 DEF LogFlush
  <2>3. VersionsQuiet /\ version'[current'] = levels /\ current' \in DOMAIN version' /\ DOMAIN vrefs = DOMAIN version
    BY <2>2, NewVersion, RefDomains
  <2>4. TablesRest
    <3>1. PICK refs : refs = MemUnref(mrefs, i)
      OBVIOUS
    <3>2. DOMAIN refs = DOMAIN table /\ table' = Restrict(table, Used(refs))
      BY <1>2, <2>2, <3>1 DEF SetMemTables, MemUnref, MemoryOK
    <3> QED
      BY <3>2 DEF TablesRest, Restrict, Used
  <2>5. \A f \in DOMAIN file' : f \in DOMAIN file /\ file'[f] = file[f]
    <3>1. PICK l, e, vs, pending : l = bg.log /\ e = bg_error_ /\ vs = version' /\ pending = pending_outputs_
      OBVIOUS
    <3>2. DOMAIN synced = DOMAIN log
      BY DEF Contents, LogsOK
    <3> QED
      BY <2>2, <3>1, <3>2, DeleteFacts
  <2>6. FilesQuiet
    BY <2>5 DEF FilesQuiet
  <2>7. FilesOf(levels) \subseteq DOMAIN file' /\ \A f \in FilesOf(levels) : file'[f] = file[f]
    <3>1. FilesOf(levels) \subseteq DOMAIN file'
      BY <2>3, LevelsNext DEF LevelsOK
    <3> QED
      BY <2>5, <3>1
  <2>8. table'[mem_] = table[mem_]
    <3>1. mem_ \in DOMAIN table'
      BY <1>1, <1>2 DEF There, MemTables, ControlOK
    <3> QED
      BY <2>4, <3>1 DEF TablesRest
  <2>9. /\ bg.level \in {1, 2} /\ (n \in DOMAIN file => file[n] = table[i]) /\ (table[i] = {} \/ n \in DOMAIN file)
        /\ \A f \in c[1] : f < n /\ f \in Nat /\ n \in Nat
        /\ bg.level = 2 => c = <<{}, {}>>
    <3>1. \A f \in c[1] : f \in Nat
      BY <2>1, LevelsAre DEF There, LevelsOK, Levels
    <3>2. n \in Nat
      BY <1>2, <2>1 DEF IsWork
    <3> QED
      BY <1>1, <1>4, <2>1, <3>1, <3>2 DEF NewFilesOK, FlushOK
  <2>10. PICK new : new = {n} \cap DOMAIN file
    OBVIOUS
  <2>11. /\ levels[1] = c[1] \cup (IF bg.level = 1 THEN new ELSE {})
         /\ levels[2] = c[2] \cup (IF bg.level = 2 THEN new ELSE {})
    BY <2>1, <2>10 DEF Added
  <2>12. /\ Newer(table[mem_], table[i])
         /\ \A f \in c[1] \cup c[2] : Newer(table[mem_], file[f]) /\ Newer(table[i], file[f])
         /\ \A f, g \in c[1] : f < g => Newer(file[g], file[f])
         /\ \A f \in c[1], g \in c[2] : Newer(file[f], file[g])
         /\ \A f, g \in c[2] : f = g
    BY <1>3, <1>4, <2>1 DEF CurrentOK, Aged, FilesOf
  <2>13. /\ \A f \in levels[1] \cup levels[2] : Newer(table[mem_], file[f])
         /\ \A f, g \in levels[1] : f < g => Newer(file[g], file[f])
         /\ \A f \in levels[1], g \in levels[2] : Newer(file[f], file[g])
         /\ \A f, g \in levels[2] : f = g
    <3>1. \A f \in levels[1] \cup levels[2] : f \in c[1] \cup c[2] \/ (f = n /\ n \in DOMAIN file)
      BY <2>10, <2>11
    <3>2. \A f \in levels[1] \cup levels[2] : Newer(table[mem_], file[f])
      BY <2>9, <2>12, <3>1
    <3>3. ASSUME NEW f \in levels[1], NEW g \in levels[1], f < g
          PROVE  Newer(file[g], file[f])
      <4>1. \A h \in levels[1] : h \in c[1] \/ (h = n /\ n \in DOMAIN file)
        BY <2>10, <2>11
      <4>2. CASE f \in c[1] /\ g \in c[1]
        BY <2>12, <3>3, <4>2
      <4>3. CASE f \in c[1] /\ g = n /\ n \in DOMAIN file
        BY <2>9, <2>12, <4>3
      <4>4. CASE f = n
        <5>1. n \in Nat
          BY <1>2, <2>1 DEF IsWork
        <5> QED
          BY <2>9, <3>3, <4>1, <4>4, <5>1
      <4> QED
        BY <4>1, <4>2, <4>3, <4>4
    <3>4. ASSUME NEW f \in levels[1], NEW g \in levels[2]
          PROVE  Newer(file[f], file[g])
      BY <2>9, <2>10, <2>11, <2>12, <3>4
    <3>5. ASSUME NEW f \in levels[2], NEW g \in levels[2]
          PROVE  f = g
      BY <2>9, <2>10, <2>11, <2>12, <3>5
    <3> QED
      BY <3>2, <3>3, <3>4, <3>5
  <2>14. Aged(mem_, imm_, version[current])'
    BY <1>1, <2>2, <2>3, <2>7, <2>8, <2>13 DEF Aged, FilesOf
  <2>15. ASSUME NEW s, Whole(mem_, i, c, s)
         PROVE  \A m, j, q : m = mem_' /\ j = imm_' /\ q = version'[current'] => Whole(m, j, q, s)'
    <3>1. PICK m, j : m = mem_ /\ j = None
      OBVIOUS
    <3>2. Sources(m, i, c) \subseteq Sources(m, j, levels)'
      <4>1. Sources(m, j, levels)' = table[mem_] \cup UNION {file[f] : f \in FilesOf(levels)}
        BY <2>7, <2>8, <3>1 DEF Sources
      <4>2. FilesOf(c) \subseteq FilesOf(levels) /\ (n \in DOMAIN file => n \in FilesOf(levels))
        BY <2>9, <2>10, <2>11 DEF FilesOf
      <4>3. table[i] \subseteq UNION {file[f] : f \in FilesOf(levels)}
        BY <2>9, <4>2
      <4> QED
        BY <3>1, <4>1, <4>2, <4>3 DEF Sources
    <3>3. Whole(m, j, levels, s)'
      BY <1>1, <2>15, <3>1, <3>2 DEF Whole
    <3> QED
      BY <1>1, <2>2, <2>3, <3>1, <3>3
  <2>16. \A r \in Reader : get[r].held # None /\ Whole(mem_, imm_, version[current], get[r].held) =>
              \A s : s = get[r].held => \A m, j, q :
                 m = mem_' /\ j = imm_' /\ q = version'[current'] => Whole(m, j, q, s)'
    BY <2>1, <2>15
  <2>17. MergeOK'
    <3>1. CASE bg.ret = "finish"
      BY <1>3, <3>1 DEF MergeOK, Compacting
    <3>2. CASE bg.ret = "work"
      <4>1. Compacting(bg) /\ Compacting(bg')
        BY <1>3, <3>2 DEF Compacting
      <4>2. version'[bg'.input] = version[bg.input]
        BY <1>3, <2>3, <4>1 DEF There, VersionsQuiet
      <4>3. PICK in : in = version[bg.input]
        OBVIOUS
      <4>4. /\ bg.oldest \in Nat /\ bg.oldest <= LastSequence
            /\ \A r \in Reader : get[r].held # None => bg.oldest <= get[r].held
            /\ in[1] # {} /\ in[1] \subseteq c[1] /\ in[2] = c[2]
            /\ \A f \in c[1] \ in[1], g \in in[1] : g < f
        BY <1>4, <2>1, <4>1, <4>3 DEF MergeOK
      <4>5. bg.level = 1
        BY <2>9, <4>4
      <4>6. /\ in[1] \subseteq levels[1] /\ in[2] = levels[2]
            /\ \A f \in levels[1] \ in[1], g \in in[1] : g < f
        BY <2>9, <2>10, <2>11, <4>4, <4>5
      <4> QED
        BY <1>1, <1>3, <2>3, <4>2, <4>3, <4>4, <4>6 DEF MergeOK
    <3> QED
      BY <1>3, <3>1, <3>2
  <2>18. InputsOK'
    BY <1>3, <2>17 DEF InputsOK, MoveOK, FlushOK
  <2> QED
    BY <1>1, <2>3, <2>4, <2>6, <2>14, <2>16, <2>18, InstallRead
<1> QED
  BY <1>5, <1>6

\* What a compaction keeps of an entry of its inputs for a snapshot that it knows of.
LEMMA MergedCovers ==
    ASSUME There, Contents, Compacting(bg), NEW f \in FilesOf(version[bg.input]), NEW x \in file[f],
           NEW s \in Nat, x[1] <= s, bg.oldest \in Nat, bg.oldest <= s
    PROVE  \E y \in Merged : y[2] = x[2] /\ x[1] <= y[1] /\ y[1] <= s
<1>1. PICK all : all = UNION {file[g] : g \in version[bg.input][1] \cup version[bg.input][2]}
  OBVIOUS
<1>2. Merged = {e \in all : ~ \E z \in all : z[2] = e[2] /\ z[1] > e[1] /\ z[1] <= bg.oldest}
  BY <1>1 DEF Merged
<1>3. \A y \in all : y[1] \in Nat
  <2> TAKE y \in all
  <2>1. PICK g \in FilesOf(version[bg.input]) : y \in file[g]
    BY <1>1 DEF FilesOf
  <2>2. g \in DOMAIN file
    BY TableNumbers DEF There
  <2> QED
    BY <2>1, <2>2, TableNumbers
<1>4. x \in all
  BY <1>1 DEF FilesOf
<1>5. CASE x \in Merged
  <2>1. x[1] <= x[1]
    BY <1>3, <1>4
  <2> QED
    BY <1>5, <2>1
<1>6. CASE x \notin Merged
  <2>1. PICK z \in all : z[2] = x[2] /\ z[1] > x[1] /\ z[1] <= bg.oldest
    BY <1>2, <1>4, <1>6
  <2>2. PICK S : S = {y[1] : y \in {q \in all : q[2] = x[2] /\ q[1] <= bg.oldest}}
    OBVIOUS
  <2>3. z[1] \in S /\ S \in SUBSET Nat /\ \A k \in S : k <= bg.oldest
    BY <1>3, <2>1, <2>2
  <2>4. Bounded(S) /\ S # {}
    BY <2>3 DEF Bounded
  <2>5. Max(S) \in S /\ \A k \in S : k <= Max(S)
    BY <2>3, <2>4, MaxFacts
  <2>6. PICK y \in all : y[2] = x[2] /\ y[1] <= bg.oldest /\ y[1] = Max(S)
    BY <2>2, <2>5
  <2>7. ASSUME NEW q \in all, q[2] = y[2], q[1] <= bg.oldest
        PROVE  ~(q[1] > y[1])
    <3>1. q[1] \in S
      BY <2>2, <2>6, <2>7
    <3>2. q[1] <= y[1] /\ q[1] \in Nat /\ y[1] \in Nat
      BY <1>3, <2>5, <2>6, <3>1
    <3> QED
      BY <3>2
  <2>8. y \in Merged
    BY <1>2, <2>6, <2>7
  <2>9. z[1] <= y[1] /\ z[1] \in Nat /\ y[1] \in Nat /\ x[1] \in Nat
    BY <1>3, <1>4, <2>3, <2>5, <2>6
  <2>10. x[1] <= y[1] /\ y[1] <= s
    BY <2>1, <2>6, <2>9
  <2> QED
    BY <2>6, <2>8, <2>10
<1> QED
  BY <1>5, <1>6

\* The output of a compaction takes the place of its inputs.
LEMMA LogMergeRead ==
    ASSUME There, There', Contents, ReadOK, NEW bad, LogMerge(bad)
    PROVE  ReadOK'
<1>1. /\ bg' = [bg EXCEPT !.at = "finish"] /\ bg.at \in {"logMerge", "fail"} /\ (bg.at = "fail" => bad)
      /\ UNCHANGED <<LastSequence, mem_, imm_, table, committed, get>>
  BY DEF LogMerge, ghostVars, readVars, memVars
<1>2. bg'.at = "finish" /\ Compacting(bg)
  BY <1>1 DEF There, RefsOK, ControlOK, IsWork, Compacting
<1>3. VersionsOK /\ TablesRest /\ None \notin Nat
  BY <1>1, SameRest DEF There, RefsOK, EngineAssumption
<1>4. CASE bad
  <2>1. SetVersions(version, Unref(vrefs, bg.input)) /\ UNCHANGED <<current, file>>
    BY <1>4 DEF LogMerge, ReleaseInputs
  <2>2. VersionsRest
    BY <1>3, <2>1, VersionsStay DEF VersionsRest
  <2>3. FilesQuiet
    BY <2>1 DEF FilesQuiet
  <2> QED
    BY <1>1, <1>2, <1>3, <2>1, <2>2, <2>3, EndsRead
<1>5. CASE ~bad
  <2>1. PICK refs, levels, c, in, out :
           /\ refs = Unref(vrefs, bg.input) /\ c = version[current] /\ in = version[bg.input] /\ out = bg.out
           /\ levels = <<version[current][1] \ version[bg.input][1],
                         (version[current][2] \ version[bg.input][2]) \cup {bg.out}>>
    OBVIOUS
  <2>2. Install(levels, refs)
    BY <1>5, <2>1 DEF LogMerge, InstallCompactionResults, ReleaseInputs
  <2>3. VersionsQuiet /\ version'[current'] = levels /\ current' \in DOMAIN version'
    <3>1. DOMAIN refs = DOMAIN version
      BY <2>1, RefDomains
    <3> QED
      BY <2>2, <3>1, NewVersion
  <2>4. \A f \in DOMAIN file' : f \in DOMAIN file /\ file'[f] = file[f]
    <3>1. PICK l, e, vs, pending : l = LogNumber /\ e = bg_error_ /\ vs = version' /\ pending = CleanupCompaction
      OBVIOUS
    <3>2. DeleteObsoleteFiles(file, log, vs, pending, l, e)
      BY <1>5, <3>1 DEF LogMerge
    <3>3. DOMAIN synced = DOMAIN log
      BY DEF Contents, LogsOK
    <3> QED
      BY <3>2, <3>3, DeleteFacts
  <2>5. FilesQuiet
    BY <2>4 DEF FilesQuiet
  <2>6. FilesOf(levels) \subseteq DOMAIN file' /\ \A f \in FilesOf(levels) : file'[f] = file[f]
    <3>1. FilesOf(levels) \subseteq DOMAIN file'
      BY <2>3, LevelsNext DEF LevelsOK
    <3> QED
      BY <2>4, <3>1
  <2>7. file[out] = Merged
    BY <1>1, <1>5, <2>1 DEF Contents, NewFilesOK
  <2>8. /\ bg.oldest \in Nat /\ \A r \in Reader : get[r].held # None => bg.oldest <= get[r].held
        /\ in[1] \subseteq c[1] /\ in[2] = c[2]
        /\ \A f \in c[1] \ in[1], g \in in[1] : g < f
    BY <1>2, <2>1 DEF ReadOK, InputsOK, MergeOK
  <2>9. levels[1] = c[1] \ in[1] /\ levels[2] = {out}
    BY <2>1, <2>8
  <2>10. /\ imm_ # None => Newer(table[mem_], table[imm_])
         /\ \A f \in c[1] \cup c[2] : Newer(table[mem_], file[f]) /\ (imm_ # None => Newer(table[imm_], file[f]))
         /\ \A f, g \in c[1] : f < g => Newer(file[g], file[f])
         /\ \A f \in c[1], g \in c[2] : Newer(file[f], file[g])
    BY <2>1 DEF ReadOK, CurrentOK, Aged, FilesOf
  <2>11. \A x \in file[out] : \E h \in in[1] \cup in[2] : x \in file[h]
    BY <2>1, <2>7 DEF Merged
  <2>12. Newer(table[mem_], file[out]) /\ (imm_ # None => Newer(table[imm_], file[out]))
    <3>1. \A h \in in[1] \cup in[2] : Newer(table[mem_], file[h]) /\ (imm_ # None => Newer(table[imm_], file[h]))
      BY <2>8, <2>10
    <3> QED
      BY <2>11, <3>1 DEF Newer
  <2>13. ASSUME NEW f \in levels[1]
         PROVE  Newer(file[f], file[out])
    <3>1. \A h \in in[1] \cup in[2] : Newer(file[f], file[h])
      BY <2>8, <2>9, <2>10, <2>13
    <3> QED
      BY <2>11, <3>1 DEF Newer
  <2>14. Aged(mem_, imm_, version[current])'
    <3>1. /\ \A f \in levels[1] \cup levels[2] :
                Newer(table[mem_], file[f]) /\ (imm_ # None => Newer(table[imm_], file[f]))
          /\ \A f, g \in levels[1] : f < g => Newer(file[g], file[f])
          /\ \A f \in levels[1], g \in levels[2] : Newer(file[f], file[g])
          /\ \A f, g \in levels[2] : f = g
      BY <2>9, <2>10, <2>12, <2>13
    <3> QED
      BY <1>1, <2>3, <2>6, <2>10, <3>1 DEF Aged, FilesOf
  <2>15. ASSUME NEW s \in Nat, bg.oldest <= s, Whole(mem_, imm_, c, s)
         PROVE  \A m, i, q : m = mem_' /\ i = imm_' /\ q = version'[current'] => Whole(m, i, q, s)'
    <3>1. PICK m, i : m = mem_ /\ i = imm_
      OBVIOUS
    <3>2. PICK M : M = table[m] \cup (IF i = None THEN {} ELSE table[i])
      OBVIOUS
    <3>3. /\ Sources(m, i, levels)' = M \cup UNION {file[f] : f \in FilesOf(levels)}
          /\ Sources(m, i, c) = M \cup UNION {file[f] : f \in FilesOf(c)}
      BY <1>1, <2>6, <3>1, <3>2 DEF Sources
    <3>4. ASSUME NEW x \in Sources(m, i, c), x[1] <= s, x[1] \in Nat
          PROVE  \E y \in Sources(m, i, levels)' : y[2] = x[2] /\ x[1] <= y[1] /\ y[1] <= s
      <4>1. CASE x \in M
        BY <3>3, <3>4, <4>1
      <4>2. ASSUME NEW f \in FilesOf(c), x \in file[f], f \in FilesOf(in)
            PROVE  \E y \in Sources(m, i, levels)' : y[2] = x[2] /\ x[1] <= y[1] /\ y[1] <= s
        <5>1. \E y \in Merged : y[2] = x[2] /\ x[1] <= y[1] /\ y[1] <= s
          BY <1>2, <2>1, <2>8, <2>15, <3>4, <4>2, MergedCovers
        <5>2. Merged \subseteq Sources(m, i, levels)'
          BY <2>7, <2>9, <3>3 DEF FilesOf
        <5> QED
          BY <5>1, <5>2
      <4>3. ASSUME NEW f \in FilesOf(c), x \in file[f], f \notin FilesOf(in)
            PROVE  x \in Sources(m, i, levels)'
        BY <2>8, <2>9, <3>3, <4>3 DEF FilesOf
      <4> QED
        BY <3>3, <3>4, <4>1, <4>2, <4>3
    <3>5. Whole(m, i, levels, s)'
      <4> SUFFICES ASSUME NEW e \in committed, e[1] <= s
                   PROVE  \E y \in Sources(m, i, levels)' : y[2] = e[2] /\ e[1] <= y[1] /\ y[1] <= s
        BY <1>1 DEF Whole
      <4>1. PICK x \in Sources(m, i, c) : x[2] = e[2] /\ e[1] <= x[1] /\ x[1] <= s
        BY <2>15, <3>1 DEF Whole
      <4>2. x \in committed
        <5>1. m \in DOMAIN table /\ (i # None => i \in DOMAIN table) /\ FilesOf(c) \subseteq DOMAIN file
          BY <2>1, <3>1, MemTablesFacts, LevelsAre DEF There, LevelsOK
        <5> QED
          BY <4>1, <5>1 DEF Sources, Contents, NumbersOK
      <4>3. x[1] \in Nat /\ e[1] \in Nat
        BY <4>2 DEF Contents, NumbersOK
      <4>4. PICK y \in Sources(m, i, levels)' : y[2] = x[2] /\ x[1] <= y[1] /\ y[1] <= s
        BY <3>4, <4>1, <4>3
      <4>5. y[1] \in Nat
        <5>1. y \in committed
          <6>1. m \in DOMAIN table /\ (i # None => i \in DOMAIN table) /\ FilesOf(levels) \subseteq DOMAIN file
            BY <2>4, <2>6, <3>1, MemTablesFacts DEF There
          <6> QED
            BY <3>2, <3>3, <6>1 DEF Contents, NumbersOK
        <5> QED
          BY <5>1 DEF Contents, NumbersOK
      <4> QED
        BY <4>1, <4>3, <4>4, <4>5
    <3> QED
      BY <1>1, <2>3, <3>1, <3>5
  <2>16. \A r \in Reader : get[r].held # None /\ Whole(mem_, imm_, version[current], get[r].held) =>
              \A s : s = get[r].held => \A m, j, q :
                 m = mem_' /\ j = imm_' /\ q = version'[current'] => Whole(m, j, q, s)'
    <3>1. ASSUME NEW r \in Reader, get[r].held # None, Whole(mem_, imm_, version[current], get[r].held),
                 NEW s, s = get[r].held
          PROVE  \A m, j, q : m = mem_' /\ j = imm_' /\ q = version'[current'] => Whole(m, j, q, s)'
      <4>1. s \in Nat /\ bg.oldest <= s /\ Whole(mem_, imm_, c, s)
        BY <2>1, <2>8, <3>1 DEF ReadOK, CurrentOK
      <4> QED
        BY <2>15, <4>1
    <3> QED
      BY <3>1
  <2>17. InputsOK'
    BY <1>2 DEF InputsOK, MergeOK, MoveOK, FlushOK, Compacting
  <2> QED
    BY <1>1, <1>3, <2>3, <2>5, <2>14, <2>16, <2>17, InstallRead
<1> QED
  BY <1>4, <1>5

\* A table moves to level 1.
LEMMA LogMoveRead ==
    ASSUME There, There', Contents, ReadOK, NEW bad, LogMove(bad)
    PROVE  ReadOK'
<1>1. /\ bg' = [bg EXCEPT !.at = "finish"] /\ bg.at = "logMove"
      /\ UNCHANGED <<LastSequence, mem_, imm_, table, file, committed, get>>
  BY DEF LogMove, ghostVars, readVars, memVars, fileVars
<1>2. bg'.at = "finish" /\ VersionsOK /\ TablesRest /\ FilesQuiet
  BY <1>1, SameRest DEF There, RefsOK, ControlOK, IsWork, FilesQuiet
<1>3. CASE bad
  <2>1. SetVersions(version, Unref(vrefs, bg.input)) /\ UNCHANGED current
    BY <1>3 DEF LogMove
  <2>2. VersionsRest
    BY <1>2, <2>1, VersionsStay DEF VersionsRest
  <2> QED
    BY <1>1, <1>2, <2>1, <2>2, EndsRead
<1>4. CASE ~bad
  <2>1. PICK refs, levels, c : /\ refs = Unref(vrefs, bg.input) /\ c = version[current]
                               /\ levels = <<version[current][1] \ version[bg.input][1],
                                             version[current][2] \cup version[bg.input][1]>>
    OBVIOUS
  <2>2. Install(levels, refs)
    BY <1>4, <2>1 DEF LogMove
  <2>3. VersionsQuiet /\ version'[current'] = levels /\ current' \in DOMAIN version'
    <3>1. DOMAIN refs = DOMAIN version
      BY <2>1, RefDomains
    <3> QED
      BY <2>2, <3>1, NewVersion
  <2>4. levels[1] = {} /\ levels[2] = c[1] /\ FilesOf(levels) = FilesOf(c) /\ \A f, g \in c[1] : f = g
    <3>1. version[bg.input] = c /\ c[2] = {} /\ \A f, g \in c[1] : f = g
      BY <1>1, <2>1 DEF ReadOK, InputsOK, MoveOK
    <3> QED
      BY <2>1, <3>1 DEF FilesOf
  <2>5. Aged(mem_, imm_, version[current])'
    <3>1. Aged(mem_, imm_, c)
      BY <2>1 DEF ReadOK, CurrentOK
    <3> QED
      BY <1>1, <2>3, <2>4, <3>1 DEF Aged
  <2>6. ASSUME NEW s, Whole(mem_, imm_, c, s)
        PROVE  \A m, i, q : m = mem_' /\ i = imm_' /\ q = version'[current'] => Whole(m, i, q, s)'
    <3>1. PICK m, i : m = mem_ /\ i = imm_
      OBVIOUS
    <3>2. Sources(m, i, levels)' = Sources(m, i, c)
      BY <1>1, <2>4 DEF Sources
    <3>3. Whole(m, i, levels, s)'
      BY <1>1, <2>6, <3>1, <3>2 DEF Whole
    <3> QED
      BY <1>1, <2>3, <3>1, <3>3
  <2>7. InputsOK'
    BY <1>2 DEF InputsOK, MergeOK, MoveOK, FlushOK, Compacting
  <2> QED
    BY <1>1, <1>2, <2>1, <2>3, <2>5, <2>6, <2>7, InstallRead
<1> QED
  BY <1>3, <1>4

-----------------------------------------------------------------------------
(* What Get finds.                                                         *)

\* Every step keeps what readers see.
LEMMA ReadStep ==
    ASSUME There, There', DataOK, ReadOK, [Next]_vars
    PROVE  ReadOK'
<1>1. QueueOK /\ GroupOK /\ Contents
  BY DEF DataOK
<1>2. ASSUME NEW t \in Thread, Put(t) \/ CompactRange(t) \/ Running(t) \/ CompactLevel(t)
      PROVE  ReadOK'
  <2>1. ASSUME \/ Put(t) \/ CompactRange(t) \/ Woken(t)
               \/ RoomError(t) \/ RoomDelay(t) \/ RoomFound(t) \/ RoomWait(t) \/ WaitImm(t) \/ CompactLevel(t)
        PROVE  ReadOK'
    BY <1>1, <2>1, WaitersRead
  <2>2. ASSUME NEW bad \in BOOLEAN, RoomSwitch(t, bad)
        PROVE  ReadOK'
    BY <1>1, <2>2, RoomSwitchRead
  <2>3. ASSUME NEW bad \in BOOLEAN, AddRecord(t, bad) \/ Sync(t, bad) \/ Commit(t)
        PROVE  ReadOK'
    BY <1>1, <2>3, FrontRead
  <2>4. ASSUME Insert(t)
        PROVE  ReadOK'
    BY <1>1, <2>4, InsertRead
  <2> QED
    BY <1>2, <2>1, <2>2, <2>3, <2>4 DEF Running
<1>3. ASSUME NEW r \in Reader, Reading(r)
      PROVE  ReadOK'
  BY <1>1, <1>3, GetRead, OthersRead DEF Reading
<1>4. ASSUME Background
      PROVE  ReadOK'
  <2>1. ASSUME NEW bad \in BOOLEAN, \/ BuildTable(bad) \/ LogFlush(bad) \/ LogMerge(bad) \/ LogMove(bad)
                                    \/ OpenCompactionOutputFile(bad) \/ FinishCompactionOutputFile(bad)
        PROVE  ReadOK'
    BY <1>1, <2>1, BuildTableRead, LogFlushRead, LogMergeRead, LogMoveRead, OutputRead
  <2> QED
    BY <1>1, <1>4, <2>1, BackgroundCallRead DEF Background
<1>5. ASSUME Close \/ UNCHANGED vars
      PROVE  ReadOK'
  BY <1>1, <1>5, OthersRead
<1> QED
  BY <1>2, <1>3, <1>4, <1>5 DEF Next, Stop

\* The database is opened: a table of what was recovered, or nothing.
LEMMA ReadInit ==
    ASSUME EngineAssumption, Init
    PROVE  ReadOK
<1>1. None \notin Nat /\ \A k \in Recovered : k[1] = 1
  BY DEF EngineAssumption, Recovered
<1>2. /\ mem_ = 1 /\ imm_ = None /\ table = [m \in {1} |-> {}] /\ committed = Recovered /\ current = 1
      /\ LastSequence = (IF plan.recovered THEN 1 ELSE 0)
      /\ version = [v \in {1} |-> <<IF plan.recovered THEN {0} ELSE {}, {}>>]
      /\ file = [f \in (IF plan.recovered THEN {0} ELSE {}) |-> Recovered]
      /\ \A r \in Reader : get[r] = NoGet
  BY DEF Init
<1>3. \A r \in Reader : get[r].at = "idle" /\ get[r].held = None
  BY <1>2 DEF NoGet
<1>4. SealedOK
  BY <1>1, <1>2 DEF SealedOK
<1>5. Views
  BY <1>3 DEF Views
<1>6. CurrentOK
  BY <1>2, <1>3 DEF CurrentOK, Aged, Newer, FilesOf
<1>7. bg.at \in {"none", "scheduled"}
  BY DEF Init, Resting
<1>8. InputsOK
  BY <1>7 DEF InputsOK, MergeOK, MoveOK, FlushOK, Compacting
<1> QED
  BY <1>4, <1>5, <1>6, <1>8 DEF ReadOK

\* Get finds the newest entry in what it holds.
LEMMA ReadsFollow ==
    ASSUME There, Contents, ReadOK
    PROVE  ReadsCorrect
<1> SUFFICES ASSUME NEW r \in Reader, get[r].at = "reading"
             PROVE  Answer(get[r]) = Newest(committed, get[r].key, get[r].snapshot)
  BY DEF ReadsCorrect
<1>1. PICK g, levels, s : g = get[r] /\ levels = version[get[r].version] /\ s = get[r].snapshot
  OBVIOUS
<1>2. /\ g.mem \in DOMAIN table /\ (g.imm # None => g.imm \in DOMAIN table) /\ g.version \in DOMAIN version
      /\ levels = version[g.version] /\ s = g.snapshot
  BY <1>1, HoldsIs DEF HoldsOK
<1>3. levels \in Levels /\ FilesOf(levels) \subseteq DOMAIN file
  BY <1>2, LevelsAre DEF LevelsOK
<1>4. s \in Nat /\ Aged(g.mem, g.imm, levels) /\ Whole(g.mem, g.imm, levels, s)
  BY <1>1 DEF ReadOK, Views
<1>5. \A e \in committed : e[1] \in Nat /\ e[1] # 0
  BY DEF ReadOK, SealedOK, Contents, NumbersOK
<1>6. Sources(g.mem, g.imm, levels) \subseteq committed
  BY <1>2, <1>3 DEF Sources, Contents, NumbersOK
<1>7. FilesOK /\ ControlOK
  BY DEF There, RefsOK
<1>8. Answer(g) = Newest(committed, g.key, s)
  BY <1>2, <1>3, <1>4, <1>5, <1>6, <1>7, AnswerRight
<1> QED
  BY <1>1, <1>8

\* At every moment of its search Get finds the newest entry that was committed up to its snapshot,
\* while writers insert, memtables are switched and flushed, and compactions drop what is hidden
\* (Get, MakeRoomForWrite, CompactMemTable, DoCompactionWork, LogAndApply).
THEOREM ReadsAreRight == Spec => []ReadsCorrect
<1>1. Init => ReadOK
  BY EngineAssumption, ReadInit
<1>2. There /\ DataOK /\ There' /\ ReadOK /\ [Next]_vars => ReadOK'
  BY ReadStep
<1>3. There /\ DataOK /\ ReadOK => ReadsCorrect
  BY ReadsFollow DEF DataOK
<1> QED
  BY <1>1, <1>2, <1>3, DataHolds, PTL DEF Spec
=============================================================================
