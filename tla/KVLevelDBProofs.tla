--------------------------- MODULE KVLevelDBProofs ---------------------------
(***************************************************************************)
(* Proofs about KVLevelDB for every set of keys, values and transactions:  *)
(* type correctness, ReadYourWrites, and that the store implements         *)
(* KVTransactions.                                                         *)
(*                                                                         *)
(* ReadYourWrites is not inductive: it compares two functions of the state *)
(* (a chain of hash look-ups and a replay of the batch), and says nothing  *)
(* of why they agree.  HashesMatchBatch does: per key, the hashes hold the *)
(* effect of the last operation on it, or nothing when there is none.      *)
(***************************************************************************)
EXTENDS KVLevelDB, SequenceTheorems, TLAPS

\* The overlay that a batch stands for.
OverlayOf(b) == ApplyBatch([k \in Key |-> Same], b)

\* The hashes c and del summarise the batch b for key k: a key the batch does
\* not touch is in neither hash, and for a key it touches there is a last
\* operation, whose effect the hashes hold.
Match(b, c, del, k) ==
    IF Touches(b, k)
    THEN \E i \in DOMAIN b :
            /\ IsLast(b, k, i)
            /\ b[i].val = NotFound <=> k \in del
            /\ b[i].val # NotFound => c[k] = b[i].val
    ELSE k \notin del /\ c[k] = Same

HashesMatchBatch ==
    \A t \in Tx, k \in Key : Match(batch[t], cache[t], cacheDeleted[t], k)

\* A transaction that is not open holds nothing.
ClosedIsEmpty ==
    \A t \in Tx \ open :
        batch[t] = <<>> /\ cache[t] = NoCache /\ cacheDeleted[t] = {}

\* A batch has a last operation on each key it touches, so that replaying it is
\* well defined.
HasLast(b) == \A k \in Key : Touches(b, k) => \E i \in DOMAIN b : IsLast(b, k, i)

\* The inductive invariant in two halves: what the transaction objects hold,
\* and what the store holds.
TxInv ==
    /\ open \subseteq Tx
    /\ batch \in [Tx -> Seq(Operation)]
    /\ cache \in [Tx -> [Key -> Val \union {Same}]]
    /\ cacheDeleted \in [Tx -> SUBSET Key]
    /\ HashesMatchBatch
    /\ ClosedIsEmpty

StoreInv ==
    /\ db \in [Key -> Stored]
    /\ onDisk \in SUBSET [Key -> Stored]
    /\ torn \in BOOLEAN
    /\ torn => Holes
    /\ bgError \in BOOLEAN
    /\ reply \in Reply

IInv == TxInv /\ StoreInv

-----------------------------------------------------------------------------
\* The last operation on a key is unique, so it is the one ApplyBatch picks.
LEMMA LastIsChosen ==
    ASSUME NEW S, NEW b \in Seq(S), NEW k, NEW i, IsLast(b, k, i)
    PROVE  (CHOOSE j \in DOMAIN b : IsLast(b, k, j)) = i
<1> DEFINE c == CHOOSE j \in DOMAIN b : IsLast(b, k, j)
<1>1. i \in DOMAIN b
  BY DEF IsLast
<1>2. IsLast(b, k, c) /\ c \in DOMAIN b
  BY <1>1
<1>3. c \in Int /\ i \in Int
  BY <1>1, <1>2
<1>4. c <= i /\ i <= c
  BY <1>1, <1>2 DEF IsLast
<1> QED BY <1>3, <1>4

\* What the empty batch, and a batch of one operation, have as last operation.
LEMMA EmptyBatch ==
    ASSUME NEW k
    PROVE  ~Touches(<<>>, k)
BY DEF Touches

\* A batch of one operation.
LEMMA SingleBatch ==
    ASSUME NEW op \in Operation, NEW k
    PROVE  /\ <<op>> \in Seq(Operation)
           /\ Touches(<<op>>, k) <=> op.key = k
           /\ op.key = k => IsLast(<<op>>, k, 1)
BY DEF Touches, IsLast

\* Appending an operation makes it the last one on its key.
LEMMA AppendLast ==
    ASSUME NEW b \in Seq(Operation), NEW op \in Operation
    PROVE  LET c == Append(b, op) IN
           /\ c \in Seq(Operation)
           /\ IsLast(c, op.key, Len(b) + 1)
           /\ Len(b) + 1 \in DOMAIN c
           /\ c[Len(b) + 1] = op
<1> DEFINE c == Append(b, op)
<1>1. c \in Seq(Operation) /\ Len(c) = Len(b) + 1 /\ Len(b) \in Nat
  OBVIOUS
<1>2. c[Len(b) + 1] = op
  OBVIOUS
<1>3. DOMAIN c = 1..(Len(b) + 1)
  BY <1>1
<1> QED BY <1>1, <1>2, <1>3 DEF IsLast

\* It leaves the last operation on every other key where it was.
LEMMA AppendOther ==
    ASSUME NEW b \in Seq(Operation), NEW op \in Operation, NEW k, op.key # k
    PROVE  LET c == Append(b, op) IN
           /\ Touches(c, k) <=> Touches(b, k)
           /\ \A i \in DOMAIN b : i \in DOMAIN c /\ c[i] = b[i]
           /\ \A i \in DOMAIN b : IsLast(b, k, i) => IsLast(c, k, i)
<1> DEFINE c == Append(b, op)
<1>1. c \in Seq(Operation) /\ Len(c) = Len(b) + 1 /\ Len(b) \in Nat
  OBVIOUS
<1>2. \A i \in 1..Len(b) : c[i] = b[i]
  OBVIOUS
<1>3. c[Len(b) + 1] = op
  OBVIOUS
<1>4. DOMAIN b = 1..Len(b) /\ DOMAIN c = 1..(Len(b) + 1)
  BY <1>1
<1>5. Touches(c, k) <=> Touches(b, k)
  BY <1>1, <1>2, <1>3, <1>4 DEF Touches
<1>6. ASSUME NEW i \in DOMAIN b, IsLast(b, k, i)
      PROVE  IsLast(c, k, i)
  BY <1>1, <1>2, <1>3, <1>4, <1>6 DEF IsLast
<1> QED BY <1>1, <1>2, <1>4, <1>5, <1>6

\* What a key holds after a batch is replayed.
LEMMA ApplyHit ==
    ASSUME NEW S, NEW b \in Seq(S), NEW d, NEW k \in Key, NEW i, IsLast(b, k, i)
    PROVE  ApplyBatch(d, b)[k] = b[i].val
<1>1. (CHOOSE j \in DOMAIN b : IsLast(b, k, j)) = i
  BY LastIsChosen
<1>2. Touches(b, k)
  BY DEF IsLast, Touches
<1> QED BY <1>1, <1>2, Zenon DEF ApplyBatch

\* A batch leaves the keys it does not touch.
LEMMA ApplyMiss ==
    ASSUME NEW b, NEW d, NEW k \in Key, ~Touches(b, k)
    PROVE  ApplyBatch(d, b)[k] = d[k]
BY Zenon DEF ApplyBatch

\* Replaying a batch yields a store.
LEMMA ApplyType ==
    ASSUME NEW V, NEW d \in [Key -> V], NEW b \in Seq([key : Key, val : V]),
           HasLast(b)
    PROVE  ApplyBatch(d, b) \in [Key -> V]
<1> DEFINE body(k) == IF Touches(b, k)
                      THEN b[CHOOSE i \in DOMAIN b : IsLast(b, k, i)].val ELSE d[k]
<1>1. ASSUME NEW k \in Key PROVE body(k) \in V
  <2>1. CASE ~Touches(b, k)
    BY <2>1
  <2>2. CASE Touches(b, k)
    <3>1. PICK i \in DOMAIN b : IsLast(b, k, i)
      BY <2>2 DEF HasLast
    <3>2. body(k) = b[i].val
      BY <2>2, <3>1, LastIsChosen
    <3>3. b[i] \in [key : Key, val : V]
      <4>1. i \in 1..Len(b)
        BY <3>1
      <4> QED BY <4>1, ElementOfSeq
    <3> QED BY <3>2, <3>3
  <2> QED BY <2>1, <2>2
<1>2. ApplyBatch(d, b) = [k \in Key |-> body(k)]
  BY Zenon DEF ApplyBatch
<1> HIDE DEF body
<1> QED BY <1>1, <1>2

-----------------------------------------------------------------------------
\* putValue() and deleteValue() move the batch and the hashes together.
LEMMA MatchAppend ==
    ASSUME NEW b \in Seq(Operation), NEW c, NEW del, NEW k \in Key,
           NEW op \in Operation, NEW c2, NEW del2,
           Match(b, c, del, k),
           op.key = k => /\ op.val = NotFound <=> k \in del2
                         /\ op.val # NotFound => c2[k] = op.val,
           op.key # k => c2[k] = c[k] /\ (k \in del2 <=> k \in del)
    PROVE  Match(Append(b, op), c2, del2, k)
<1>1. CASE op.key = k
  <2>1. /\ IsLast(Append(b, op), k, Len(b) + 1)
        /\ Append(b, op)[Len(b) + 1] = op
        /\ Len(b) + 1 \in DOMAIN Append(b, op)
    BY <1>1, AppendLast
  <2>2. Touches(Append(b, op), k)
    BY <2>1 DEF IsLast, Touches
  <2> QED BY <1>1, <2>1, <2>2, Zenon DEF Match
<1>2. CASE op.key # k
  <2>1. Touches(Append(b, op), k) <=> Touches(b, k)
    BY <1>2, AppendOther
  <2>2. CASE Touches(b, k)
    <3>1. PICK i \in DOMAIN b :
            /\ IsLast(b, k, i)
            /\ b[i].val = NotFound <=> k \in del
            /\ b[i].val # NotFound => c[k] = b[i].val
      BY <2>2, Zenon DEF Match
    <3>2. /\ i \in DOMAIN Append(b, op)
          /\ IsLast(Append(b, op), k, i)
          /\ Append(b, op)[i] = b[i]
      BY <1>2, <3>1, AppendOther
    <3> QED BY <1>2, <2>1, <2>2, <3>1, <3>2, Zenon DEF Match
  <2>3. CASE ~Touches(b, k)
    BY <1>2, <2>1, <2>3, Zenon DEF Match
  <2> QED BY <2>2, <2>3
<1> QED BY <1>1, <1>2

\* The hashes of an empty transaction match its empty batch.
LEMMA MatchEmpty ==
    ASSUME NEW k \in Key
    PROVE  Match(<<>>, NoCache, {}, k)
<1>1. ~Touches(<<>>, k)
  BY EmptyBatch
<1> QED BY <1>1, Zenon DEF Match, NoCache

\* A batch whose hashes match it has a last operation on every touched key.
LEMMA MatchHasLast ==
    ASSUME NEW b, NEW c, NEW del, \A k \in Key : Match(b, c, del, k)
    PROVE  HasLast(b)
BY Zenon DEF HasLast, Match

-----------------------------------------------------------------------------
\* A new store.
LEMMA InitInvariant == Init => IInv
<1> SUFFICES ASSUME Init PROVE IInv
  OBVIOUS
<1>1. TxInv
  <2>1. /\ open \subseteq Tx
        /\ batch \in [Tx -> Seq(Operation)]
        /\ cache \in [Tx -> [Key -> Val \union {Same}]]
        /\ cacheDeleted \in [Tx -> SUBSET Key]
    BY DEF Init, NoCache
  <2>2. HashesMatchBatch
    BY MatchEmpty DEF Init, HashesMatchBatch
  <2>3. ClosedIsEmpty
    BY DEF Init, ClosedIsEmpty
  <2> QED BY <2>1, <2>2, <2>3 DEF TxInv
<1>2. StoreInv
  <2>1. db \in [Key -> Stored] /\ reply \in Reply
    BY DEF Init, Stored, Reply
  <2>2. onDisk \in SUBSET [Key -> Stored]
    BY <2>1 DEF Init
  <2>3. torn \in BOOLEAN /\ (torn => Holes) /\ bgError \in BOOLEAN
    BY Zenon DEF Init
  <2> QED BY <2>1, <2>2, <2>3 DEF StoreInv
<1> QED BY <1>1, <1>2 DEF IInv

\* Dropping a transaction leaves it empty and the others alone.
LEMMA DropKeeps ==
    ASSUME TxInv, NEW t \in Tx, Drop(t)
    PROVE  TxInv'
<1>1. /\ open' \subseteq Tx
      /\ batch' \in [Tx -> Seq(Operation)]
      /\ cache' \in [Tx -> [Key -> Val \union {Same}]]
      /\ cacheDeleted' \in [Tx -> SUBSET Key]
  BY DEF TxInv, Drop, NoCache
<1>2. ASSUME NEW u \in Tx, u # t
      PROVE  batch'[u] = batch[u] /\ cache'[u] = cache[u] /\ cacheDeleted'[u] = cacheDeleted[u]
  BY <1>2 DEF TxInv, Drop
<1>3. batch'[t] = <<>> /\ cache'[t] = NoCache /\ cacheDeleted'[t] = {}
  BY DEF TxInv, Drop
<1>4. HashesMatchBatch'
  BY <1>2, <1>3, MatchEmpty DEF TxInv, HashesMatchBatch
<1>5. ClosedIsEmpty'
  BY <1>2, <1>3 DEF TxInv, ClosedIsEmpty, Drop
<1> QED BY <1>1, <1>4, <1>5 DEF TxInv

\* Adding one operation to a transaction keeps its hashes in step.
LEMMA OperateKeeps ==
    ASSUME TxInv, NEW t \in open, NEW op \in Operation,
           open' = open,
           batch' = [batch EXCEPT ![t] = Append(@, op)],
           cache' \in [Tx -> [Key -> Val \union {Same}]],
           cacheDeleted' \in [Tx -> SUBSET Key],
           \A u \in Tx \ {t} : cache'[u] = cache[u] /\ cacheDeleted'[u] = cacheDeleted[u],
           \A k \in Key : k # op.key =>
                /\ cache'[t][k] = cache[t][k]
                /\ k \in cacheDeleted'[t] <=> k \in cacheDeleted[t],
           op.val = NotFound <=> op.key \in cacheDeleted'[t],
           op.val # NotFound => cache'[t][op.key] = op.val
    PROVE  TxInv'
<1>0. t \in Tx /\ batch[t] \in Seq(Operation)
  BY DEF TxInv
<1>1. batch' \in [Tx -> Seq(Operation)]
  BY <1>0, AppendLast DEF TxInv
<1>2. batch'[t] = Append(batch[t], op) /\ \A u \in Tx \ {t} : batch'[u] = batch[u]
  BY <1>0 DEF TxInv
<1>3. ASSUME NEW k \in Key
      PROVE  Match(Append(batch[t], op), cache'[t], cacheDeleted'[t], k)
  <2>1. Match(batch[t], cache[t], cacheDeleted[t], k)
    BY <1>0 DEF TxInv, HashesMatchBatch
  <2> QED BY <1>0, <2>1, MatchAppend
<1>4. HashesMatchBatch'
  BY <1>2, <1>3 DEF TxInv, HashesMatchBatch
<1>5. ClosedIsEmpty'
  BY <1>2 DEF TxInv, ClosedIsEmpty
<1> QED BY <1>1, <1>4, <1>5 DEF TxInv

\* What recovery may find once a batch is in the log are stores.
LEMMA LandedType ==
    ASSUME StoreInv, NEW b \in Seq(Operation), HasLast(b)
    PROVE  Landed(b) \in SUBSET [Key -> Stored]
<1>1. ASSUME NEW d \in onDisk PROVE ApplyBatch(d, b) \in [Key -> Stored]
  <2>1. d \in [Key -> Stored]
    BY DEF StoreInv
  <2> QED BY <2>1, ApplyType DEF Operation
<1> QED BY <1>1, Zenon DEF Landed

\* A write, whatever it returns, keeps the store well typed.
LEMMA DBWriteKeeps ==
    ASSUME StoreInv, NEW b \in Seq(Operation), HasLast(b),
           DBWrite(b) \/ DBWriteFails(b)
    PROVE  StoreInv'
<1>1. CASE DBWrite(b)
  <2>1. db' \in [Key -> Stored]
    BY <1>1, ApplyType DEF DBWrite, StoreInv, Operation
  <2>2. onDisk' \in SUBSET [Key -> Stored]
    BY <1>1, LandedType DEF DBWrite, StoreInv
  <2>3. torn' = torn /\ bgError' = bgError
    BY <1>1, Zenon DEF DBWrite
  <2>4. reply' \in Reply
    BY <1>1, Zenon DEF DBWrite, Reply, Done
  <2> QED BY <2>1, <2>2, <2>3, <2>4, Zenon DEF StoreInv
<1>2. CASE DBWriteFails(b)
  <2>1. onDisk' \in SUBSET [Key -> Stored]
    BY <1>2, LandedType DEF DBWriteFails, StoreInv
  <2>2. torn' \in BOOLEAN /\ (torn' => Holes) /\ bgError' \in BOOLEAN
    <3>1. CASE UNCHANGED <<onDisk, torn, bgError>>
      BY <3>1, Zenon DEF StoreInv
    <3>2. CASE bgError' \in BOOLEAN /\ torn' = torn
      BY <3>2, Zenon DEF StoreInv
    <3>3. CASE bgError' \in BOOLEAN /\ torn' = (torn \/ Holes)
      BY <3>3, ConstAssumption, Zenon DEF StoreInv
    <3> QED BY <1>2, <3>1, <3>2, <3>3, Zenon DEF DBWriteFails
  <2>3. db' = db /\ reply' \in Reply
    BY <1>2, Zenon DEF DBWriteFails, Reply, Failed
  <2> QED BY <2>1, <2>2, <2>3, Zenon DEF StoreInv
<1> QED BY <1>1, <1>2

\* The batch of one operation that the store's own put and delete write.
LEMMA SingleHasLast ==
    ASSUME NEW op \in Operation
    PROVE  <<op>> \in Seq(Operation) /\ HasLast(<<op>>)
BY SingleBatch DEF HasLast, IsLast

\* Every step keeps the inductive invariant.
LEMMA NextInvariant == IInv /\ [Next]_vars => IInv'
<1> SUFFICES ASSUME IInv, [Next]_vars PROVE IInv'
  OBVIOUS
<1> USE DEF IInv
<1>1. ASSUME NEW t \in Tx, NewTransaction(t) PROVE IInv'
  <2>1. TxInv'
    BY <1>1 DEF NewTransaction, TxInv, HashesMatchBatch, ClosedIsEmpty
  <2>2. StoreInv'
    BY <1>1 DEF NewTransaction, StoreInv, Reply
  <2> QED BY <2>1, <2>2
<1>2. ASSUME NEW t \in Tx, WriteTransaction(t) PROVE IInv'
  <2>1. batch[t] \in Seq(Operation) /\ HasLast(batch[t])
    BY MatchHasLast DEF TxInv, HashesMatchBatch
  <2> QED BY <1>2, <2>1, DropKeeps, DBWriteKeeps DEF WriteTransaction
<1>3. ASSUME NEW t \in Tx, Discard(t) PROVE IInv'
  <2>1. TxInv'
    BY <1>3, DropKeeps DEF Discard
  <2>2. StoreInv'
    BY <1>3 DEF Discard, StoreInv, Reply
  <2> QED BY <2>1, <2>2
<1>4. ASSUME NEW t \in Tx, NEW k \in Key, TxGetValue(t, k) PROVE IInv'
  <2>1. TxInv'
    BY <1>4 DEF TxGetValue, TxInv, HashesMatchBatch, ClosedIsEmpty
  <2>2. TxGet(t, k) \in Stored
    BY DEF TxGet, TxInv, StoreInv, Stored
  <2>3. StoreInv'
    BY <1>4, <2>2 DEF TxGetValue, StoreInv, Reply
  <2> QED BY <2>1, <2>3
<1>5. ASSUME NEW t \in Tx, NEW k \in Key, TxDeleteValue(t, k) PROVE IInv'
  <2> DEFINE op == [key |-> k, val |-> NotFound]
  <2>1. op \in Operation
    BY DEF Operation, Stored
  <2>2. TxInv'
    BY <1>5, <2>1, OperateKeeps DEF TxDeleteValue, TxInv
  <2>3. StoreInv'
    BY <1>5 DEF TxDeleteValue, StoreInv, Reply
  <2> QED BY <2>2, <2>3
<1>6. ASSUME NEW t \in Tx, NEW k \in Key, NEW v \in Val, TxPutValue(t, k, v) PROVE IInv'
  <2> DEFINE op == [key |-> k, val |-> v]
  <2>1. op \in Operation /\ op.val # NotFound
    BY ConstAssumption DEF Operation, Stored
  <2>2. /\ cache' \in [Tx -> [Key -> Val \union {Same}]]
        /\ cacheDeleted' \in [Tx -> SUBSET Key]
        /\ \A u \in Tx \ {t} : cache'[u] = cache[u] /\ cacheDeleted'[u] = cacheDeleted[u]
        /\ cache'[t] = [cache[t] EXCEPT ![k] = v]
        /\ cacheDeleted'[t] = cacheDeleted[t] \ {k}
    BY <1>6 DEF TxPutValue, TxInv
  <2>3. TxInv'
    <3>1. t \in open /\ open' = open /\ batch' = [batch EXCEPT ![t] = Append(@, op)]
      BY <1>6 DEF TxPutValue
    <3>2. \A j \in Key : j # k =>
                /\ cache'[t][j] = cache[t][j]
                /\ j \in cacheDeleted'[t] <=> j \in cacheDeleted[t]
      BY <2>2 DEF TxInv
    <3>3. k \notin cacheDeleted'[t] /\ cache'[t][k] = v
      BY <2>2 DEF TxInv
    <3> QED BY <2>1, <2>2, <3>1, <3>2, <3>3, OperateKeeps
  <2>4. StoreInv'
    BY <1>6 DEF TxPutValue, StoreInv, Reply
  <2> QED BY <2>3, <2>4
<1>7. ASSUME NEW k \in Key, GetValue(k) PROVE IInv'
  BY <1>7 DEF GetValue, TxInv, HashesMatchBatch, ClosedIsEmpty, StoreInv, Reply
<1>8. ASSUME NEW k \in Key, NEW v \in Stored,
             LET b == <<[key |-> k, val |-> v]>> IN DBWrite(b) \/ DBWriteFails(b),
             UNCHANGED <<open, batch, cache, cacheDeleted>>
      PROVE  IInv'
  <2>1. [key |-> k, val |-> v] \in Operation
    BY DEF Operation
  <2>2. StoreInv'
    BY <1>8, <2>1, SingleHasLast, DBWriteKeeps
  <2>3. TxInv'
    BY <1>8 DEF TxInv, HashesMatchBatch, ClosedIsEmpty
  <2> QED BY <2>2, <2>3
<1>9. ASSUME Iterate PROVE IInv'
  BY <1>9 DEF Iterate, TxInv, HashesMatchBatch, ClosedIsEmpty, StoreInv, Reply
<1>10. ASSUME Reopen PROVE IInv'
  <2>1. TxInv'
    BY <1>10, MatchEmpty DEF Reopen, TxInv, HashesMatchBatch, ClosedIsEmpty, NoCache
  <2>2. db' \in [Key -> Stored]
    BY <1>10 DEF Reopen, StoreInv
  <2>3. onDisk' \in SUBSET [Key -> Stored]
    BY <1>10, <2>2 DEF Reopen
  <2>4. torn' \in BOOLEAN /\ (torn' => Holes) /\ bgError' \in BOOLEAN
    BY <1>10, Zenon DEF Reopen
  <2>5. reply' \in Reply
    BY <1>10 DEF Reopen, Reply
  <2> QED BY <2>1, <2>2, <2>3, <2>4, <2>5 DEF StoreInv
<1>11. ASSUME UNCHANGED vars PROVE IInv'
  BY <1>11 DEF vars, TxInv, HashesMatchBatch, ClosedIsEmpty, StoreInv
<1> HIDE DEF IInv
<1> QED
  BY <1>1, <1>2, <1>3, <1>4, <1>5, <1>6, <1>7, <1>8, <1>9, <1>10, <1>11
  DEF Next, PutValue, DeleteValue, Stored

\* The inductive invariant holds in every behaviour.
LEMMA Invariant == Spec => []IInv
BY InitInvariant, NextInvariant, PTL DEF Spec

\* Type correctness of the LevelDB store and its transactions, for every set
\* of keys, values and transactions.
THEOREM TypeCorrect == Spec => []TypeOK
<1>1. IInv => TypeOK
  BY DEF IInv, TxInv, StoreInv, TypeOK
<1> QED BY <1>1, Invariant, PTL

-----------------------------------------------------------------------------
\* What getValue() answers and what the batch would write, per key.
LEMMA MatchRead ==
    ASSUME NEW b \in Seq(Operation), NEW c, NEW del, NEW k \in Key, NEW d,
           c[k] \in Val \union {Same}, Match(b, c, del, k)
    PROVE  /\ ApplyBatch(d, b)[k] = IF k \in del THEN NotFound
                                    ELSE IF c[k] # Same THEN c[k] ELSE d[k]
           /\ OverlayOf(b)[k] = IF k \in del THEN NotFound ELSE c[k]
<1>1. CASE Touches(b, k)
  <2>1. PICK i \in DOMAIN b :
          /\ IsLast(b, k, i)
          /\ b[i].val = NotFound <=> k \in del
          /\ b[i].val # NotFound => c[k] = b[i].val
    BY <1>1, Zenon DEF Match
  <2>2. ApplyBatch(d, b)[k] = b[i].val /\ OverlayOf(b)[k] = b[i].val
    BY <2>1, ApplyHit DEF OverlayOf
  <2>3. b[i].val \in Stored
    <3>1. i \in 1..Len(b)
      BY <2>1
    <3>2. b[i] \in Operation
      BY <3>1, ElementOfSeq
    <3> QED BY <3>2 DEF Operation
  <2>4. b[i].val # Same
    BY <2>3, ConstAssumption DEF Stored
  <2> QED BY <2>1, <2>2, <2>4
<1>2. CASE ~Touches(b, k)
  <2>1. k \notin del /\ c[k] = Same
    BY <1>2, Zenon DEF Match
  <2>2. ApplyBatch(d, b)[k] = d[k] /\ OverlayOf(b)[k] = [j \in Key |-> Same][k]
    BY <1>2, ApplyMiss DEF OverlayOf
  <2> QED BY <2>1, <2>2
<1> QED BY <1>1, <1>2

\* The hashes of an open transaction and its batch never disagree.
THEOREM ReadsAreWrites == Spec => []ReadYourWrites
<1>1. IInv => ReadYourWrites
  <2> SUFFICES ASSUME IInv, NEW t \in open, NEW k \in Key
               PROVE  TxGet(t, k) = ApplyBatch(db, batch[t])[k]
    BY DEF ReadYourWrites
  <2>1. /\ t \in Tx /\ batch[t] \in Seq(Operation) /\ cache[t][k] \in Val \union {Same}
        /\ Match(batch[t], cache[t], cacheDeleted[t], k)
    BY DEF IInv, TxInv, HashesMatchBatch
  <2> QED BY <2>1, MatchRead DEF TxGet
<1> QED BY <1>1, Invariant, PTL

-----------------------------------------------------------------------------
\* The overlay that the abstract store keeps for each transaction.
PendingBar == [t \in Tx |-> Pending(t)]

\* A replayed batch is a function on the keys.
LEMMA ApplyIsFunction ==
    ASSUME NEW d, NEW b
    PROVE  ApplyBatch(d, b) = [k \in Key |-> ApplyBatch(d, b)[k]]
<1> DEFINE body(k) == IF Touches(b, k)
                      THEN b[CHOOSE i \in DOMAIN b : IsLast(b, k, i)].val ELSE d[k]
<1>1. ApplyBatch(d, b) = [k \in Key |-> body(k)]
  BY Zenon DEF ApplyBatch
<1> HIDE DEF body
<1> QED BY <1>1

\* Writing the batch publishes the overlay of the hashes, and the batch in the
\* log stands for that same overlay.
LEMMA BatchIsOverlay ==
    ASSUME IInv, NEW t \in Tx
    PROVE  /\ ApplyBatch(db, batch[t]) = KV!Over(db, Pending(t))
           /\ OverlayOf(batch[t]) = Pending(t)
           /\ \A k \in Key : TxGet(t, k) = KV!Over(db, Pending(t))[k]
<1>1. ASSUME NEW k \in Key
      PROVE  /\ ApplyBatch(db, batch[t])[k] = KV!Over(db, Pending(t))[k]
             /\ OverlayOf(batch[t])[k] = Pending(t)[k]
             /\ TxGet(t, k) = KV!Over(db, Pending(t))[k]
  <2>1. /\ batch[t] \in Seq(Operation) /\ cache[t][k] \in Val \union {Same}
        /\ Match(batch[t], cache[t], cacheDeleted[t], k)
    BY DEF IInv, TxInv, HashesMatchBatch
  <2>2. /\ Pending(t)[k] = IF k \in cacheDeleted[t] THEN NotFound ELSE cache[t][k]
        /\ KV!Over(db, Pending(t))[k] = IF Pending(t)[k] = Same THEN db[k] ELSE Pending(t)[k]
    BY DEF Pending, KV!Over
  <2>3. NotFound # Same
    BY ConstAssumption
  <2>4. TxGet(t, k) = KV!Over(db, Pending(t))[k]
    BY <2>1, <2>2, <2>3 DEF TxGet
  <2>5. /\ ApplyBatch(db, batch[t])[k] = TxGet(t, k)
        /\ OverlayOf(batch[t])[k] = Pending(t)[k]
    <3>1. /\ ApplyBatch(db, batch[t])[k] =
                IF k \in cacheDeleted[t] THEN NotFound
                ELSE IF cache[t][k] # Same THEN cache[t][k] ELSE db[k]
          /\ OverlayOf(batch[t])[k] =
                IF k \in cacheDeleted[t] THEN NotFound ELSE cache[t][k]
      BY <2>1, MatchRead
    <3> QED BY <2>2, <3>1 DEF TxGet
  <2> QED BY <2>4, <2>5
<1>2. /\ ApplyBatch(db, batch[t]) = [k \in Key |-> ApplyBatch(db, batch[t])[k]]
      /\ OverlayOf(batch[t]) = [k \in Key |-> OverlayOf(batch[t])[k]]
  BY ApplyIsFunction DEF OverlayOf
<1>3. /\ KV!Over(db, Pending(t)) = [k \in Key |-> KV!Over(db, Pending(t))[k]]
      /\ Pending(t) = [k \in Key |-> Pending(t)[k]]
  BY DEF KV!Over, Pending
<1> QED BY <1>1, <1>2, <1>3

\* A batch of one operation stands for the overlay that changes one key.
LEMMA SingleIsOverlay ==
    ASSUME NEW k \in Key, NEW v \in Stored, NEW d \in [Key -> Stored]
    PROVE  LET b == <<[key |-> k, val |-> v]>> IN
           /\ ApplyBatch(d, b) = [d EXCEPT ![k] = v]
           /\ OverlayOf(b) = [KV!NoChange EXCEPT ![k] = v]
<1> DEFINE op == [key |-> k, val |-> v]
           b == <<op>>
<1>1. op \in Operation /\ op.key = k /\ op.val = v
  BY DEF Operation
<1>2. b \in Seq(Operation) /\ b[1] = op
  BY <1>1
<1>a. IsLast(b, k, 1) /\ \A j \in Key \ {k} : ~Touches(b, j)
  BY <1>1, SingleBatch
<1> HIDE DEF b
<1>3. ASSUME NEW e, NEW j \in Key
      PROVE  ApplyBatch(e, b)[j] = IF j = k THEN v ELSE e[j]
  <2>1. CASE j = k
    <3>1. ApplyBatch(e, b)[k] = b[1].val
      BY <1>2, <1>a, ApplyHit
    <3> QED BY <1>1, <1>2, <2>1, <3>1
  <2>2. CASE j # k
    BY <1>a, <2>2, ApplyMiss
  <2> QED BY <2>1, <2>2
<1>4. ApplyBatch(d, b) = [d EXCEPT ![k] = v]
  <2>1. ApplyBatch(d, b) = [j \in Key |-> ApplyBatch(d, b)[j]]
    BY ApplyIsFunction
  <2> QED BY <1>3, <2>1
<1>5. OverlayOf(b) = [KV!NoChange EXCEPT ![k] = v]
  <2> DEFINE e == [j \in Key |-> Same]
  <2>1. ApplyBatch(e, b) = [j \in Key |-> ApplyBatch(e, b)[j]]
    BY ApplyIsFunction
  <2>2. \A j \in Key : ApplyBatch(e, b)[j] = IF j = k THEN v ELSE Same
    BY <1>3
  <2> QED BY <2>1, <2>2 DEF OverlayOf, KV!NoChange
<1> QED BY <1>4, <1>5 DEF b

\* Replaying a batch is laying its overlay over the store.
LEMMA ApplyIsOver ==
    ASSUME NEW d, NEW b \in Seq(Operation), HasLast(b)
    PROVE  ApplyBatch(d, b) = KV!Over(d, OverlayOf(b))
<1>1. ASSUME NEW k \in Key
      PROVE  ApplyBatch(d, b)[k] = KV!Over(d, OverlayOf(b))[k]
  <2>0. KV!Over(d, OverlayOf(b))[k] =
            IF OverlayOf(b)[k] = Same THEN d[k] ELSE OverlayOf(b)[k]
    BY DEF KV!Over
  <2>1. CASE Touches(b, k)
    <3>1. PICK i \in DOMAIN b : IsLast(b, k, i)
      BY <2>1 DEF HasLast
    <3>2. ApplyBatch(d, b)[k] = b[i].val /\ OverlayOf(b)[k] = b[i].val
      BY <3>1, ApplyHit DEF OverlayOf
    <3>3. b[i] \in Operation
      <4>1. i \in 1..Len(b)
        BY <3>1
      <4> QED BY <4>1, ElementOfSeq
    <3>4. b[i].val # Same
      BY <3>3, ConstAssumption DEF Operation, Stored
    <3> QED BY <2>0, <3>2, <3>4
  <2>2. CASE ~Touches(b, k)
    <3>1. ApplyBatch(d, b)[k] = d[k] /\ OverlayOf(b)[k] = [j \in Key |-> Same][k]
      BY <2>2, ApplyMiss DEF OverlayOf
    <3> QED BY <2>0, <3>1
  <2> QED BY <2>1, <2>2
<1>2. ApplyBatch(d, b) = [k \in Key |-> ApplyBatch(d, b)[k]]
  BY ApplyIsFunction
<1>3. KV!Over(d, OverlayOf(b)) = [k \in Key |-> KV!Over(d, OverlayOf(b))[k]]
  BY DEF KV!Over
<1> QED BY <1>1, <1>2, <1>3

\* An empty store without transactions is an abstract initial state.
LEMMA InitRefines == Init => KV!Init
<1> SUFFICES ASSUME Init PROVE KV!Init
  OBVIOUS
<1>1. ASSUME NEW t \in Tx PROVE Pending(t) = KV!NoChange
  BY DEF Init, Pending, NoCache, KV!NoChange
<1>2. [t \in Tx |-> Pending(t)] = [t \in Tx |-> KV!NoChange]
  BY <1>1
<1> QED BY <1>2 DEF Init, KV!Init, Done, KV!Done

\* Dropping a transaction empties its overlay and no other.
LEMMA DropRefines ==
    ASSUME IInv, NEW t \in Tx, Drop(t)
    PROVE  /\ open' = open \ {t}
           /\ PendingBar' = [PendingBar EXCEPT ![t] = KV!NoChange]
<1>1. ASSUME NEW u \in Tx, u # t PROVE Pending(u)' = Pending(u)
  BY <1>1 DEF Drop, IInv, TxInv, Pending
<1>2. Pending(t)' = KV!NoChange
  <2>1. cache'[t] = NoCache /\ cacheDeleted'[t] = {}
    BY DEF Drop, IInv, TxInv
  <2> QED BY <2>1 DEF Pending, NoCache, KV!NoChange
<1> QED BY <1>1, <1>2 DEF Drop, PendingBar

\* An operation on one key changes the overlay of its transaction at that key.
LEMMA OperateRefines ==
    ASSUME IInv, NEW t \in Tx, NEW k \in Key, NEW v \in Stored,
           (TxDeleteValue(t, k) /\ v = NotFound) \/ TxPutValue(t, k, v)
    PROVE  PendingBar' = [PendingBar EXCEPT ![t][k] = v]
<1>1. ASSUME NEW u \in Tx, u # t PROVE Pending(u)' = Pending(u)
  BY <1>1 DEF TxDeleteValue, TxPutValue, IInv, TxInv, Pending
<1>2. Pending(t)' = [Pending(t) EXCEPT ![k] = v]
  <2>1. CASE TxDeleteValue(t, k) /\ v = NotFound
    <3>1. cache'[t] = cache[t] /\ cacheDeleted'[t] = cacheDeleted[t] \union {k}
      BY <2>1 DEF TxDeleteValue, IInv, TxInv
    <3> QED BY <2>1, <3>1 DEF Pending
  <2>2. CASE TxPutValue(t, k, v)
    <3>1. cache'[t] = [cache[t] EXCEPT ![k] = v] /\ cacheDeleted'[t] = cacheDeleted[t] \ {k}
      BY <2>2 DEF TxPutValue, IInv, TxInv
    <3>2. cache[t] \in [Key -> Val \union {Same}]
      BY DEF IInv, TxInv
    <3> QED BY <3>1, <3>2 DEF Pending
  <2> QED BY <2>1, <2>2
<1> QED BY <1>1, <1>2 DEF PendingBar

\* The log that holds a batch publishes the overlay of the batch.
LEMMA LandedIsPublished ==
    ASSUME NEW b \in Seq(Operation), HasLast(b)
    PROVE  Landed(b) = KV!Published(OverlayOf(b))
<1>1. \A d \in onDisk : ApplyBatch(d, b) = KV!Over(d, OverlayOf(b))
  BY ApplyIsOver
<1> QED BY <1>1, Zenon DEF Landed, KV!Published

\* A write of batch b, whatever it returns, seen through the mapping.
LEMMA DBWriteRefines ==
    ASSUME ~Holes, IInv, NEW b \in Seq(Operation), HasLast(b),
           DBWrite(b) \/ DBWriteFails(b)
    PROVE  \/ /\ ~bgError
              /\ db' = KV!Over(db, OverlayOf(b))
              /\ onDisk' = KV!Published(OverlayOf(b))
              /\ reply' = KV!Done
              /\ bgError' = bgError
           \/ /\ db' = db
              /\ reply' = KV!Failed
              /\ \/ onDisk' = onDisk /\ bgError' = bgError
                 \/ /\ ~bgError
                    /\ onDisk' = onDisk \union KV!Published(OverlayOf(b))
                    /\ bgError' \in BOOLEAN
<1>1. ~torn /\ Landed(b) = KV!Published(OverlayOf(b))
  BY LandedIsPublished DEF IInv, StoreInv
<1>2. CASE DBWrite(b)
  <2>1. ApplyBatch(db, b) = KV!Over(db, OverlayOf(b))
    BY ApplyIsOver
  <2>2. onDisk' = KV!Published(OverlayOf(b))
    BY <1>1, <1>2 DEF DBWrite
  <2> QED BY <1>2, <2>1, <2>2 DEF DBWrite, Done, KV!Done
<1>3. CASE DBWriteFails(b)
  BY <1>1, <1>3, Zenon DEF DBWriteFails, Failed, KV!Failed
<1> QED BY <1>2, <1>3

\* Every step of the LevelDB store is a step, or a stutter, of the abstract one.
LEMMA NextRefines ==
    ASSUME ~Holes
    PROVE  IInv /\ [Next]_vars => [KV!Next]_(KV!vars)
<1> SUFFICES ASSUME IInv, [Next]_vars PROVE [KV!Next]_(KV!vars)
  OBVIOUS
<1>a. PendingBar = [t \in Tx |-> Pending(t)]
  BY DEF PendingBar
<1>b. \A t \in Tx : PendingBar[t] = Pending(t)
  BY DEF PendingBar
<1>c. ASSUME UNCHANGED <<cache, cacheDeleted>> PROVE UNCHANGED PendingBar
  BY <1>c DEF PendingBar, Pending
<1>1. ASSUME NEW t \in Tx, NewTransaction(t) PROVE KV!Begin(t)
  <2>1. PendingBar[t] = KV!NoChange
    <3>1. cache[t] = NoCache /\ cacheDeleted[t] = {}
      BY <1>1 DEF NewTransaction, IInv, TxInv, ClosedIsEmpty
    <3> QED BY <1>b, <3>1 DEF Pending, NoCache, KV!NoChange
  <2>2. PendingBar' = [PendingBar EXCEPT ![t] = KV!NoChange]
    BY <1>1, <1>c, <2>1 DEF NewTransaction, PendingBar
  <2> QED BY <1>1, <2>2 DEF NewTransaction, KV!Begin, Done, KV!Done, PendingBar
<1>2. ASSUME NEW t \in Tx, WriteTransaction(t) PROVE KV!Commit(t) \/ KV!CommitFails(t)
  <2>1. batch[t] \in Seq(Operation) /\ HasLast(batch[t])
    BY MatchHasLast DEF IInv, TxInv, HashesMatchBatch
  <2>2. OverlayOf(batch[t]) = PendingBar[t]
    BY <1>b, BatchIsOverlay
  <2>3. t \in open /\ open' = open \ {t} /\ PendingBar' = [PendingBar EXCEPT ![t] = KV!NoChange]
    BY <1>2, DropRefines DEF WriteTransaction
  <2>4. DBWrite(batch[t]) \/ DBWriteFails(batch[t])
    BY <1>2 DEF WriteTransaction
  <2> QED BY <2>1, <2>2, <2>3, <2>4, DBWriteRefines DEF KV!Commit, KV!CommitFails, PendingBar
<1>3. ASSUME NEW t \in Tx, Discard(t) PROVE KV!Abort(t)
  <2>1. open' = open \ {t} /\ PendingBar' = [PendingBar EXCEPT ![t] = KV!NoChange]
    BY <1>3, DropRefines DEF Discard
  <2> QED BY <1>3, <2>1 DEF Discard, KV!Abort, Done, KV!Done, PendingBar
<1>4. ASSUME NEW t \in Tx, NEW k \in Key, TxGetValue(t, k) PROVE KV!Read(t, k)
  <2>1. TxGet(t, k) = KV!Over(db, PendingBar[t])[k]
    BY <1>b, BatchIsOverlay
  <2> QED BY <1>4, <1>c, <2>1 DEF TxGetValue, KV!Read, PendingBar
<1>5. ASSUME NEW t \in Tx, NEW k \in Key, NEW v \in Stored,
             (TxDeleteValue(t, k) /\ v = NotFound) \/ TxPutValue(t, k, v)
      PROVE  KV!Write(t, k, v)
  <2>1. PendingBar' = [PendingBar EXCEPT ![t][k] = v]
    BY <1>5, OperateRefines
  <2>2. /\ t \in open /\ UNCHANGED <<db, open, onDisk, bgError>> /\ reply' = Done
    BY <1>5 DEF TxDeleteValue, TxPutValue
  <2> QED BY <2>1, <2>2 DEF KV!Write, Done, KV!Done, PendingBar
<1>6. ASSUME NEW k \in Key, GetValue(k) PROVE KV!DirectRead(k)
  BY <1>6, <1>c DEF GetValue, KV!DirectRead, PendingBar
<1>7. ASSUME NEW k \in Key, NEW v \in Stored,
             LET b == <<[key |-> k, val |-> v]>> IN DBWrite(b) \/ DBWriteFails(b),
             UNCHANGED <<open, batch, cache, cacheDeleted>>
      PROVE  KV!DirectWrite(k, v) \/ KV!DirectWriteFails(k, v)
  <2> DEFINE b == <<[key |-> k, val |-> v]>>
  <2>1. [key |-> k, val |-> v] \in Operation /\ db \in [Key -> Stored]
    BY DEF Operation, IInv, StoreInv
  <2>2. b \in Seq(Operation) /\ HasLast(b)
    BY <2>1, SingleHasLast
  <2>3. OverlayOf(b) = [KV!NoChange EXCEPT ![k] = v]
    BY <2>1, SingleIsOverlay
  <2>5. DBWrite(b) \/ DBWriteFails(b)
    BY <1>7
  <2>6. UNCHANGED <<open, PendingBar>>
    BY <1>7, <1>c
  <2> HIDE DEF b
  <2> QED BY <2>2, <2>3, <2>5, <2>6, DBWriteRefines
          DEF KV!DirectWrite, KV!DirectWriteFails, PendingBar
<1>8. ASSUME Iterate PROVE KV!Scan
  BY <1>8, <1>c DEF Iterate, KV!Scan, PendingBar
<1>9. ASSUME Reopen PROVE KV!Reopen
  <2>1. PendingBar' = [t \in Tx |-> KV!NoChange]
    BY <1>9 DEF Reopen, PendingBar, Pending, NoCache, KV!NoChange
  <2> QED BY <1>9, <2>1 DEF Reopen, KV!Reopen, Done, KV!Done, PendingBar
<1>10. ASSUME UNCHANGED vars PROVE UNCHANGED KV!vars
  BY <1>10, <1>c DEF vars, KV!vars, PendingBar
<1>11. CASE Next
  <2>1. KV!Stored = Stored /\ NotFound \in Stored /\ Val \subseteq Stored
    BY DEF KV!Stored, Stored
  <2>2. ASSUME NEW t \in Tx, NEW k \in Key, TxDeleteValue(t, k) PROVE KV!Next
    <3>1. KV!Write(t, k, NotFound)
      BY <1>5, <2>1, <2>2
    <3> QED BY <2>1, <3>1 DEF KV!Next
  <2>3. ASSUME NEW t \in Tx, NEW k \in Key, NEW v \in Val, TxPutValue(t, k, v)
        PROVE  KV!Next
    <3>1. KV!Write(t, k, v)
      BY <1>5, <2>1, <2>3
    <3> QED BY <2>1, <3>1 DEF KV!Next
  <2>4. ASSUME NEW k \in Key, NEW v \in Val, PutValue(k, v) PROVE KV!Next
    <3>1. KV!DirectWrite(k, v) \/ KV!DirectWriteFails(k, v)
      BY <1>7, <2>1, <2>4 DEF PutValue
    <3> QED BY <2>1, <3>1 DEF KV!Next
  <2>5. ASSUME NEW k \in Key, DeleteValue(k) PROVE KV!Next
    <3>1. KV!DirectWrite(k, NotFound) \/ KV!DirectWriteFails(k, NotFound)
      BY <1>7, <2>1, <2>5 DEF DeleteValue
    <3> QED BY <2>1, <3>1 DEF KV!Next
  <2>6. ASSUME NEW t \in Tx, NewTransaction(t) \/ WriteTransaction(t) \/ Discard(t)
        PROVE  KV!Next
    BY <1>1, <1>2, <1>3, <2>6 DEF KV!Next
  <2>7. ASSUME NEW t \in Tx, NEW k \in Key, TxGetValue(t, k) PROVE KV!Next
    BY <1>4, <2>7 DEF KV!Next
  <2>8. ASSUME NEW k \in Key, GetValue(k) PROVE KV!Next
    BY <1>6, <2>8 DEF KV!Next
  <2>9. ASSUME Iterate \/ Reopen PROVE KV!Next
    BY <1>8, <1>9, <2>9 DEF KV!Next
  <2> QED BY <1>11, <2>2, <2>3, <2>4, <2>5, <2>6, <2>7, <2>8, <2>9 DEF Next
<1> QED BY <1>10, <1>11

\* The LevelDB store implements the abstract transactional store, for every
\* set of keys, values and transactions, however long a batch grows and however
\* many failed writes are in doubt, as long as no append leaves a hole in the log.
THEOREM LevelDBImplementsKV ==
    ASSUME ~Holes
    PROVE  Spec => ImplementsKV
BY InitRefines, NextRefines, Invariant, PTL DEF Spec, ImplementsKV, KV!Spec
=============================================================================
