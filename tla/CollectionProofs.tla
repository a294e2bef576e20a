-------------------------- MODULE CollectionProofs --------------------------
(***************************************************************************)
(* What holds in every reachable state of a collection, for every number   *)
(* of documents, snapshot names, transactions and snapshot ids.            *)
(*                                                                         *)
(* SnapshotsOK.  The list of snapshots is written by newSnapshot,          *)
(* revertToSnapshot and removeSnapshot only, and each of them sets the     *)
(* collection's own counter in a separate assignment, modulo the size of a *)
(* byte.  The invariant SInv speaks of the write in doubt as well: its     *)
(* list becomes the list of the collection when the store is opened again. *)
(*                                                                         *)
(* NoLostDocument and SnapshotsReadOnly.  A transaction writes versions of *)
(* its own snapshot only, a value together with its start key, and deletes *)
(* a start key only when it deletes the one version there is (HandleOK).   *)
(* So nothing that a reader of an older snapshot looks at changes, no      *)
(* version is behind the last snapshot, and no value is without its start  *)
(* key (StoreOK).  The requests on snapshots move or delete whole layers   *)
(* of versions.                                                            *)
(*                                                                         *)
(* ObserversCurrent.  A handle that serves the observers pends writes of   *)
(* documents only, and each reply it keeps holds the documents that the    *)
(* query asks for in the store as it will be once they are written, each   *)
(* one once (Serves, Answers).  No transaction is open meanwhile (OInv).   *)
(***************************************************************************)
EXTENDS Collection, Lemmas, SequenceTheorems, FiniteSetTheorems, TLAPS

-----------------------------------------------------------------------------
(* Counting modulo the number of snapshot ids.                             *)

\* Division with remainder, for dividends of either sign.
LEMMA ModDef ==
    ASSUME NEW a \in Int, NEW S \in Nat \ {0}
    PROVE  /\ a = S * (a \div S) + (a % S)
           /\ a \div S \in Int
           /\ a % S \in 0..(S - 1)
OBVIOUS

\* A remainder is no larger than what was divided.
LEMMA ModAtMost ==
    ASSUME NEW a \in Nat, NEW S \in Nat \ {0}
    PROVE  a % S \in 0..(S - 1) /\ a % S <= a
OBVIOUS

\* Two different multiples of S are at least S apart.
LEMMA MulGap ==
    ASSUME NEW S \in Nat \ {0}, NEW x \in Int, x >= 1
    PROVE  S * x >= S
OBVIOUS

\* Multiplication distributes over a difference.
LEMMA MulMinus ==
    ASSUME NEW S \in Int, NEW x \in Int, NEW y \in Int
    PROVE  S * (x - y) = S * x - S * y
OBVIOUS

\* A remainder below S is the remainder.
LEMMA ModUnique ==
    ASSUME NEW S \in Nat \ {0}, NEW a \in Int, NEW q \in Int, NEW r \in 0..(S - 1),
           a = S * q + r
    PROVE  a % S = r
<1> DEFINE p == a \div S
           t == a % S
<1>1. a = S * p + t /\ p \in Int /\ t \in 0..(S - 1)
  BY ModDef
<1> HIDE DEF p, t
<1>2. S * (q - p) = t - r /\ S * (p - q) = r - t
  <2>1. S * (q - p) = S * q - S * p /\ S * (p - q) = S * p - S * q
    BY <1>1, MulMinus
  <2>2. S * q \in Int /\ S * p \in Int
    BY <1>1
  <2> QED
    BY <2>1, <2>2, <1>1
<1>3. ~(q - p >= 1)
  BY <1>1, <1>2, MulGap
<1>4. ~(p - q >= 1)
  BY <1>1, <1>2, MulGap
<1>5. p = q
  BY <1>1, <1>3, <1>4
<1> QED
  BY <1>1, <1>5, <1>2 DEF t

\* newSnapshot: snapshotId++ on a byte.
LEMMA ModInc ==
    ASSUME NEW a \in Nat, NEW S \in Nat \ {0}
    PROVE  ((a % S) + 1) % S = (a + 1) % S
<1> DEFINE q == a \div S
           r == a % S
<1>1. a = S * q + r /\ q \in Int /\ r \in 0..(S - 1)
  BY ModDef
<1> HIDE DEF q, r
<1>2. CASE r + 1 < S
  <2>1. a + 1 = S * q + (r + 1) /\ r + 1 \in 0..(S - 1) /\ r + 1 = S * 0 + (r + 1)
    BY <1>1, <1>2
  <2>2. (a + 1) % S = r + 1
    BY <2>1, <1>1, ModUnique
  <2>3. (r + 1) % S = r + 1
    BY <2>1, <1>1, ModUnique
  <2> QED
    BY <2>2, <2>3 DEF r
<1>3. CASE r + 1 = S
  <2>1. a + 1 = S * (q + 1) + 0 /\ r + 1 = S * 1 + 0 /\ 0 \in 0..(S - 1) /\ q + 1 \in Int
    BY <1>1, <1>3
  <2>2. (a + 1) % S = 0
    BY <2>1, <1>1, ModUnique
  <2>3. (r + 1) % S = 0
    BY <2>1, <1>1, ModUnique
  <2> QED
    BY <2>2, <2>3 DEF r
<1> QED
  BY <1>1, <1>2, <1>3

\* removeSnapshot: snapshotId-- on a byte.
LEMMA ModDec ==
    ASSUME NEW a \in Nat, NEW S \in Nat \ {0}
    PROVE  ((a % S) - 1) % S = (a - 1) % S
<1> DEFINE b == (a - 1) % S
           q == (a - 1) \div S
<1>1. a - 1 = S * q + b /\ q \in Int /\ b \in 0..(S - 1)
  BY ModDef
<1> HIDE DEF b, q
<1>2. CASE b + 1 < S
  <2>1. a = S * q + (b + 1) /\ b + 1 \in 0..(S - 1)
    BY <1>1, <1>2
  <2>2. a % S = b + 1
    BY <2>1, <1>1, ModUnique
  <2>3. (a % S) - 1 = S * 0 + b
    BY <2>2, <1>1
  <2>4. ((a % S) - 1) % S = b
    BY <2>3, <1>1, ModUnique
  <2> QED
    BY <2>4 DEF b
<1>3. CASE b + 1 = S
  <2>1. a = S * (q + 1) + 0 /\ 0 \in 0..(S - 1) /\ q + 1 \in Int
    BY <1>1, <1>3
  <2>2. a % S = 0
    BY <2>1, <1>1, ModUnique
  <2>3. (a % S) - 1 = S * (-1) + b
    BY <2>2, <1>1, <1>3
  <2>4. ((a % S) - 1) % S = b
    BY <2>3, <1>1, ModUnique
  <2> QED
    BY <2>4 DEF b
<1> QED
  BY <1>1, <1>2, <1>3

-----------------------------------------------------------------------------
(* The three ways in which a list of snapshots is made from another.       *)

\* A sequence of names that ends with the current state and has none twice.
ListOK(ss) == ss \in Seq(Name \union {Current}) /\ SnapshotListOK(ss)

\* A list of snapshots always holds the current state, so is never empty.
LEMMA ListLength ==
    ASSUME NEW ss, ListOK(ss)
    PROVE  Len(ss) \in Nat \ {0} /\ DOMAIN ss = 1..Len(ss)
BY DEF ListOK, SnapshotListOK

\* revertToSnapshot: the first k snapshots and the current state.
LEMMA CutList ==
    ASSUME NEW ss, ListOK(ss), NEW k \in Nat, k < Len(ss)
    PROVE  LET u == Append(SubSeq(ss, 1, k), Current)
           IN ListOK(u) /\ Len(u) = k + 1 /\ \A i \in 1..k : u[i] = ss[i]
<1> DEFINE t == SubSeq(ss, 1, k)
           u == Append(t, Current)
<1>1. Len(ss) \in Nat \ {0} /\ ss \in Seq(Name \union {Current})
  BY ListLength DEF ListOK
<1>2. t \in Seq(Name \union {Current}) /\ Len(t) = k /\ \A i \in 1..k : t[i] = ss[i]
  BY <1>1
<1>3. \A i \in 1..k : t[i] # Current
  BY <1>1, <1>2 DEF ListOK, SnapshotListOK
<1> HIDE DEF t
<1>4. u \in Seq(Name \union {Current}) /\ Len(u) = k + 1 /\ u[k + 1] = Current
      /\ \A i \in 1..k : u[i] = t[i]
  BY <1>2
<1> HIDE DEF u
<1>5. SnapshotListOK(u)
  <2>1. u # <<>> /\ u[Len(u)] = Current
    BY <1>4
  <2>2. ASSUME NEW m \in DOMAIN u, NEW n \in DOMAIN u, u[m] = u[n]
        PROVE  m = n
    <3>1. m \in 1..(k + 1) /\ n \in 1..(k + 1)
      BY <1>4
    <3>2. CASE m \in 1..k /\ n \in 1..k
      BY <3>2, <2>2, <1>1, <1>2, <1>4 DEF ListOK, SnapshotListOK
    <3>3. CASE m = k + 1 \/ n = k + 1
      BY <3>1, <3>3, <2>2, <1>3, <1>4
    <3> QED
      BY <3>1, <3>2, <3>3
  <2> QED
    BY <2>1, <2>2 DEF SnapshotListOK
<1>6. \A i \in 1..k : u[i] = ss[i]
  BY <1>2, <1>4
<1> QED
  BY <1>4, <1>5, <1>6 DEF ListOK, u, t

\* newSnapshot: the name takes the place of the current state, which follows.
LEMMA GrowList ==
    ASSUME NEW ss, ListOK(ss), NEW n \in Name, n \notin Range(ss)
    PROVE  LET u == Append(Front(ss), n) \o <<Current>>
           IN /\ ListOK(u) /\ Len(u) = Len(ss) + 1 /\ u[Len(ss)] = n
              /\ \A i \in 1..(Len(ss) - 1) : u[i] = ss[i]
<1> DEFINE t == Append(Front(ss), n)
           u == t \o <<Current>>
           L == Len(ss)
<1>1. L \in Nat \ {0} /\ ss \in Seq(Name \union {Current})
  BY ListLength DEF ListOK
<1>2. Front(ss) \in Seq(Name \union {Current}) /\ Len(Front(ss)) = L - 1
      /\ \A i \in 1..(L - 1) : Front(ss)[i] = ss[i]
  <2>1. ASSUME NEW k \in Nat, k < L
        PROVE  SubSeq(ss, 1, k) \in Seq(Name \union {Current}) /\ Len(SubSeq(ss, 1, k)) = k
               /\ \A i \in 1..k : SubSeq(ss, 1, k)[i] = ss[i]
    BY <1>1, <2>1
  <2>2. L - 1 \in Nat /\ L - 1 < L
    BY <1>1
  <2> QED
    BY <2>1, <2>2 DEF Front
<1>3. t \in Seq(Name \union {Current}) /\ Len(t) = L /\ t[L] = n
      /\ \A i \in 1..(L - 1) : t[i] = ss[i]
  BY <1>1, <1>2
<1>4. \A i \in 1..L : ss[i] # n
  BY <1>1 DEF Range
<1>5. \A i \in 1..(L - 1) : ss[i] # Current
  BY <1>1 DEF ListOK, SnapshotListOK
<1>6. n # Current
  BY ConstAssumption
<1> HIDE DEF t
<1>7. u \in Seq(Name \union {Current}) /\ Len(u) = L + 1 /\ u[L + 1] = Current
      /\ \A i \in 1..L : u[i] = t[i]
  <2>1. <<Current>> \in Seq(Name \union {Current}) /\ Len(<<Current>>) = 1 /\ <<Current>>[1] = Current
    OBVIOUS
  <2> QED
    BY <2>1, <1>1, <1>3, ConcatProperties
<1> HIDE DEF u
<1>8. SnapshotListOK(u)
  <2>1. u # <<>> /\ u[Len(u)] = Current
    BY <1>1, <1>7
  <2>2. ASSUME NEW i \in DOMAIN u, NEW j \in DOMAIN u, u[i] = u[j]
        PROVE  i = j
    <3>1. i \in 1..(L + 1) /\ j \in 1..(L + 1)
      BY <1>1, <1>7
    <3>2. \A x \in 1..L : u[x] # Current
      BY <1>1, <1>3, <1>5, <1>6, <1>7
    <3>3. CASE i = L + 1 \/ j = L + 1
      BY <3>1, <3>2, <3>3, <2>2, <1>1, <1>7
    <3>4. CASE i \in 1..L /\ j \in 1..L
      <4>1. t[i] = t[j]
        BY <3>4, <2>2, <1>7
      <4>2. CASE i = L \/ j = L
        BY <4>1, <4>2, <3>4, <1>1, <1>3, <1>4
      <4>3. CASE i \in 1..(L - 1) /\ j \in 1..(L - 1)
        BY <4>1, <4>3, <1>1, <1>3 DEF ListOK, SnapshotListOK
      <4> QED
        BY <4>2, <4>3, <3>4, <1>1
    <3> QED
      BY <3>1, <3>3, <3>4, <1>1
  <2> QED
    BY <2>1, <2>2 DEF SnapshotListOK
<1>9. u[L] = n /\ \A i \in 1..(L - 1) : u[i] = ss[i]
  BY <1>1, <1>3, <1>7
<1> QED
  BY <1>7, <1>8, <1>9 DEF ListOK, u, t

\* removeSnapshot: the list without one of the snapshots.
LEMMA ShrinkList ==
    ASSUME NEW ss, ListOK(ss), NEW k \in Nat, k + 1 < Len(ss)
    PROVE  LET u == RemoveAt(ss, k + 1)
           IN /\ ListOK(u) /\ Len(u) = Len(ss) - 1
              /\ \A i \in 1..(Len(ss) - 1) : u[i] = ss[IF i <= k THEN i ELSE i + 1]
<1> DEFINE L == Len(ss)
           a == SubSeq(ss, 1, k)
           b == SubSeq(ss, k + 2, L)
           u == a \o b
           at(i) == IF i <= k THEN i ELSE i + 1
<1>1. L \in Nat \ {0} /\ ss \in Seq(Name \union {Current}) /\ DOMAIN ss = 1..L /\ k + 1 < L
  BY ListLength DEF ListOK
<1>2. a \in Seq(Name \union {Current}) /\ Len(a) = k /\ \A i \in 1..k : a[i] = ss[i]
  BY <1>1
<1>3. b \in Seq(Name \union {Current}) /\ Len(b) = L - (k + 1)
      /\ \A i \in 1..(L - (k + 1)) : b[i] = ss[i + (k + 1)]
  <2>1. k + 2 \in Int /\ L \in Int /\ \A i \in (k + 2)..L : ss[i] \in Name \union {Current}
    BY <1>1
  <2>2. /\ b \in Seq(Name \union {Current})
        /\ Len(b) = IF k + 2 <= L THEN L - (k + 2) + 1 ELSE 0
        /\ \A i \in 1..(L - (k + 2) + 1) : b[i] = ss[(k + 2) + i - 1]
    BY <1>1, <2>1, SubSeqProperties
  <2> HIDE DEF b
  <2>3. L - (k + 2) + 1 = L - (k + 1) /\ k + 2 <= L
    BY <1>1
  <2>4. ASSUME NEW i \in 1..(L - (k + 1))
        PROVE  b[i] = ss[i + (k + 1)]
    <3>1. (k + 2) + i - 1 = i + (k + 1)
      BY <1>1
    <3> QED
      BY <3>1, <2>2, <2>3
  <2> QED
    BY <2>2, <2>3, <2>4
<1>4. RemoveAt(ss, k + 1) = u
  <2>1. (k + 1) - 1 = k /\ (k + 1) + 1 = k + 2
    OBVIOUS
  <2> QED
    BY <2>1, Zenon DEF RemoveAt
<1>5. ss[L] = Current /\ \A m, n \in 1..L : ss[m] = ss[n] => m = n
  BY <1>1 DEF ListOK, SnapshotListOK
<1> HIDE DEF a, b, L
<1>6. u \in Seq(Name \union {Current}) /\ Len(u) = Len(a) + Len(b)
      /\ \A i \in 1..(Len(a) + Len(b)) : u[i] = IF i <= Len(a) THEN a[i] ELSE b[i - Len(a)]
  BY <1>2, <1>3, ConcatProperties
<1> HIDE DEF u
<1>7. Len(u) = L - 1 /\ \A i \in 1..(L - 1) : u[i] = IF i <= k THEN a[i] ELSE b[i - k]
  <2>1. k + (L - (k + 1)) = L - 1
    BY <1>1
  <2> QED
    BY <2>1, <1>2, <1>3, <1>6
<1>8. ASSUME NEW i \in 1..(L - 1)
      PROVE  u[i] = ss[at(i)] /\ at(i) \in 1..L
  <2>1. CASE i <= k
    BY <2>1, <1>1, <1>2, <1>7
  <2>2. CASE ~(i <= k)
    <3>1. i - k \in 1..(L - (k + 1)) /\ (i - k) + (k + 1) = i + 1
      BY <2>2, <1>1
    <3>2. b[i - k] = ss[i + 1]
      BY <3>1, <1>3
    <3> QED
      BY <2>2, <3>2, <1>1, <1>7
  <2> QED
    BY <2>1, <2>2
<1>9. SnapshotListOK(u)
  <2>1. u # <<>> /\ u[Len(u)] = Current
    <3>1. L - 1 \in 1..(L - 1) /\ at(L - 1) = L
      BY <1>1
    <3>2. u[L - 1] = Current
      BY <3>1, <1>5, <1>8
    <3>3. Len(u) # 0
      BY <1>1, <1>7
    <3> QED
      BY <3>2, <3>3, <1>6, <1>7
  <2>2. ASSUME NEW m \in DOMAIN u, NEW n \in DOMAIN u, u[m] = u[n]
        PROVE  m = n
    <3>1. m \in 1..(L - 1) /\ n \in 1..(L - 1)
      BY <1>6, <1>7
    <3>2. at(m) = at(n)
      BY <3>1, <2>2, <1>5, <1>8
    <3> QED
      BY <3>1, <3>2, <1>1
  <2> QED
    BY <2>1, <2>2 DEF SnapshotListOK
<1> QED
  BY <1>4, <1>6, <1>7, <1>8, <1>9 DEF ListOK, L

\* getSnapshotId of a name in the list: no position behind that of the name,
\* so never the current state's, even when the byte has wrapped around.
LEMMA SidOfName ==
    ASSUME NEW ss, ListOK(ss), NEW n \in Name, n \in Range(ss)
    PROVE  SidOf(ss, n) \in 0..(SnapshotIds - 1) /\ SidOf(ss, n) + 1 < Len(ss)
<1> DEFINE Is(k) == ss[k] = n /\ \A m \in 1..(k - 1) : ss[m] # n
           p == CHOOSE k \in DOMAIN ss : Is(k)
<1>1. Len(ss) \in Nat \ {0} /\ DOMAIN ss = 1..Len(ss)
  BY ListLength
<1>2. PICK k \in DOMAIN ss : ss[k] = n
  BY DEF Range
<1>3. \A m \in 1..(k - 1) : ss[m] # n
  BY <1>1, <1>2 DEF ListOK, SnapshotListOK
<1>4. p \in DOMAIN ss /\ Is(p)
  <2>1. \E x \in DOMAIN ss : Is(x)
    BY <1>2, <1>3
  <2> HIDE DEF Is
  <2> QED
    BY <2>1, Zenon
<1>5. SidOf(ss, n) = (p - 1) % SnapshotIds
  BY DEF SidOf
<1> HIDE DEF p
<1>6. p # Len(ss)
  BY <1>4, ConstAssumption DEF ListOK, SnapshotListOK
<1>7. p - 1 \in Nat /\ p < Len(ss)
  BY <1>1, <1>4, <1>6
<1>8. (p - 1) % SnapshotIds \in 0..(SnapshotIds - 1) /\ (p - 1) % SnapshotIds <= p - 1
  BY <1>7, ModAtMost, ConstAssumption
<1>9. SnapshotIds \in Nat \ {0} /\ p \in Int
  BY <1>7, <1>1, <1>4, ConstAssumption
<1> QED
  BY <1>1, <1>5, <1>7, <1>8, <1>9

-----------------------------------------------------------------------------
(* The inductive invariant.                                                *)

\* The bound of newSnapshot on the list.
SizeOK(ss) == Len(ss) <= 1 \/ Len(ss) <= MaxSnapshots

\* The list of the collection and those that failed writes may bring back.
SInv ==
    /\ ListOK(snapshots) /\ SizeOK(snapshots)
    /\ \A u \in inDoubt : ListOK(u.snapshots) /\ SizeOK(u.snapshots)
    /\ snapshotId = (Len(snapshots) - 1) % SnapshotIds

\* A step that writes the list ss: it is the new list, or one that a restart may
\* find, or lost; what is in doubt has it, or the list it had.
Offers(ss) ==
    /\ snapshots' \in {snapshots, ss}
    /\ \A u \in inDoubt' :
          u.snapshots \in {snapshots, ss} \union {w.snapshots : w \in inDoubt}

\* writeTransaction() of either store: the list it carries, or the old one.
LEMMA StoreOffers ==
    ASSUME NEW STATE h, NEW STATE ss, NEW STATE ix,
           StoreWrites(h, ss, ix) \/ StoreFails(h, ss, ix)
    PROVE  Offers(ss)
<1>1. \A u : /\ Landed(u, h, ss, ix).snapshots \in {ss, u.snapshots}
            /\ Committed.snapshots = snapshots
  BY DEF Landed, Committed
<1>2. CASE StoreWrites(h, ss, ix)
  BY <1>1, <1>2 DEF StoreWrites, Offers
<1>3. CASE StoreFails(h, ss, ix)
  BY <1>1, <1>3 DEF StoreFails, Offers
<1> QED
  BY <1>2, <1>3

\* A write of a document transaction carries the list as it is.
LEMMA HandleOffers ==
    ASSUME NEW STATE h, NEW STATE request, WriteHandle(h, request)
    PROVE  snapshots' = snapshots /\ Offers(snapshots)
<1>1. StoreWrites(h, snapshots, indexed) \/ StoreFails(h, snapshots, indexed)
  BY DEF WriteHandle
<1> QED
  BY <1>1, StoreOffers DEF Offers

\* The requests on documents, indexes, transactions and observers.
Untouched == snapshots' = snapshots /\ snapshotId' = snapshotId /\ Offers(snapshots)

\* insert, removeId, remove and set leave the list and the counter alone.
LEMMA DocumentRequests ==
    ASSUME NEW x, NEW i, NEW v, NEW overwrite, NEW ignore, NEW q, NEW docs
    PROVE  /\ InsertRequest(x, i, v, overwrite, ignore) => Untouched
           /\ RemoveIdRequest(x, i, ignore) => Untouched
           /\ RemoveRequest(x, q) => Untouched
           /\ SetRequest(x, q, docs) => Untouched
<1>1. InsertRequest(x, i, v, overwrite, ignore) => Untouched
  BY HandleOffers DEF InsertRequest, Perform, Untouched, Offers
<1>2. RemoveIdRequest(x, i, ignore) => Untouched
  BY HandleOffers DEF RemoveIdRequest, Perform, Untouched, Offers
<1>3. RemoveRequest(x, q) => Untouched
  BY HandleOffers DEF RemoveRequest, Perform, Untouched, Offers
<1>4. SetRequest(x, q, docs) => Untouched
  BY HandleOffers DEF SetRequest, Perform, Untouched, Offers
<1> QED
  BY <1>1, <1>2, <1>3, <1>4

\* So do createIndex, the transaction requests and the observer requests.
LEMMA OtherRequests ==
    ASSUME NEW t, NEW o, NEW q, NEW limit
    PROVE  /\ CreateIndexRequest => Untouched
           /\ NewTransaction(t) => Untouched
           /\ WriteTransaction(t) => Untouched
           /\ DiscardTransaction(t) => Untouched
           /\ Observe(o, q, limit) => Untouched
           /\ Unobserve(o) => Untouched
<1>1. CreateIndexRequest => Untouched
  <2> SUFFICES ASSUME CreateIndexRequest PROVE Untouched
    OBVIOUS
  <2>1. PICK h : MoveTo(<<"createIndex">>, h, snapshots, TRUE, snapshotId, observers)
    BY DEF CreateIndexRequest
  <2>2. /\ StoreWrites(h, snapshots, TRUE) \/ StoreFails(h, snapshots, TRUE)
        /\ snapshotId' = snapshotId
    BY <2>1 DEF MoveTo
  <2>3. Offers(snapshots)
    BY <2>2, StoreOffers
  <2> QED
    BY <2>2, <2>3 DEF Untouched, Offers
<1>2. NewTransaction(t) => Untouched
  BY DEF NewTransaction, Untouched, Offers
<1>3. WriteTransaction(t) => Untouched
  BY HandleOffers DEF WriteTransaction, Untouched
<1>4. DiscardTransaction(t) => Untouched
  BY DEF DiscardTransaction, Untouched, Offers
<1>5. Observe(o, q, limit) => Untouched
  BY DEF Observe, Untouched, Offers
<1>6. Unobserve(o) => Untouched
  BY DEF Unobserve, Untouched, Offers
<1> QED
  BY <1>1, <1>2, <1>3, <1>4, <1>5, <1>6

\* What leaves the list and the counter alone keeps the invariant.
LEMMA UntouchedKeeps ==
    ASSUME SInv, Untouched
    PROVE  SInv'
BY DEF SInv, Untouched, Offers

\* The list and the counter change together, or neither does.
LEMMA MoveKeeps ==
    ASSUME NEW STATE call, NEW STATE h, NEW STATE ss, NEW STATE ix, NEW STATE sid, NEW STATE obs,
           SInv, MoveTo(call, h, ss, ix, sid, obs),
           ListOK(ss), SizeOK(ss), sid = (Len(ss) - 1) % SnapshotIds
    PROVE  SInv'
<1>1. CASE StoreWrites(h, ss, ix) /\ snapshotId' = sid
  <2>1. snapshots' = ss /\ Offers(ss)
    BY <1>1, StoreOffers DEF StoreWrites
  <2> QED
    BY <2>1, <1>1 DEF SInv, Offers
<1>2. CASE StoreFails(h, ss, ix) /\ snapshotId' = snapshotId
  <2>0. snapshots' = snapshots
    BY <1>2 DEF StoreFails
  <2>1. Offers(ss)
    BY <1>2, StoreOffers
  <2>2. ASSUME NEW u \in inDoubt'
        PROVE  ListOK(u.snapshots) /\ SizeOK(u.snapshots)
    <3>1. u.snapshots \in {snapshots, ss} \union {w.snapshots : w \in inDoubt}
      BY <2>1 DEF Offers
    <3> QED
      BY <3>1 DEF SInv
  <2> QED
    BY <2>0, <2>2, <1>2 DEF SInv
<1> QED
  BY <1>1, <1>2 DEF MoveTo

\* A refused snapshot request changes nothing.
LEMMA RefuseKeeps ==
    ASSUME NEW STATE call, NEW STATE r, SInv, Refuse(call, r)
    PROVE  SInv'
BY DEF SInv, Refuse

\* newSnapshot(): one more name, snapshotId++.
LEMMA NewSnapshotKeeps ==
    ASSUME SInv, NEW n \in Name, NewSnapshot(n)
    PROVE  SInv'
<1> DEFINE next == (snapshotId + 1) % SnapshotIds
           ss == Append(Front(snapshots), n) \o <<Current>>
           h == CopyIndexValues(db, NewHandle, next, snapshotId)
<1>1. CASE Refuse(<<"newSnapshot", n>>, "errorSnapshotIsExists")
  BY <1>1, RefuseKeeps
<1>2. CASE /\ n \notin Range(snapshots) /\ Len(snapshots) < MaxSnapshots
           /\ MoveTo(<<"newSnapshot", n>>, h, ss, indexed, next, observers)
  <2>1. ListOK(ss) /\ Len(ss) = Len(snapshots) + 1
    BY <1>2, GrowList DEF SInv
  <2>2. Len(snapshots) \in Nat \ {0}
    BY ListLength DEF SInv
  <2>3. next = ((Len(snapshots) - 1) + 1) % SnapshotIds
    <3> DEFINE a == Len(snapshots) - 1
    <3>1. a \in Nat /\ SnapshotIds \in Nat \ {0}
      BY <2>2, ConstAssumption
    <3>2. snapshotId = a % SnapshotIds
      BY DEF SInv
    <3> HIDE DEF a
    <3>3. ((a % SnapshotIds) + 1) % SnapshotIds = (a + 1) % SnapshotIds
      BY <3>1, ModInc
    <3> QED
      BY <3>2, <3>3, Zenon DEF a
  <2>4. next = (Len(ss) - 1) % SnapshotIds
    BY <2>1, <2>2, <2>3
  <2>5. SizeOK(ss)
    BY <1>2, <2>1, <2>2, ConstAssumption DEF SizeOK
  <2> HIDE DEF next, ss, h
  <2> QED
    BY <1>2, <2>1, <2>4, <2>5, MoveKeeps
<1> QED
  BY <1>1, <1>2 DEF NewSnapshot

\* revertToSnapshot(): the list is cut behind the snapshot, whose id is taken over.
LEMMA RevertKeeps ==
    ASSUME SInv, NEW n \in Name, RevertToSnapshot(n)
    PROVE  SInv'
<1> DEFINE k == SidOf(snapshots, n)
           ss == Append(SubSeq(snapshots, 1, k), Current)
           h == RevertHandle(db, k)
           obs == Reloaded(Written(db, h), k)
<1>1. CASE Refuse(<<"revert", n>>, "errorInvalidObject")
  BY <1>1, RefuseKeeps
<1>2. CASE n \in Range(snapshots) /\ MoveTo(<<"revert", n>>, h, ss, indexed, k, obs)
  <2>1. k \in 0..(SnapshotIds - 1) /\ k + 1 < Len(snapshots)
    BY <1>2, SidOfName DEF SInv
  <2>2. Len(snapshots) \in Nat \ {0} /\ SnapshotIds \in Nat \ {0}
    BY ListLength, ConstAssumption DEF SInv
  <2> HIDE DEF k
  <2>3. k \in Nat /\ k < Len(snapshots)
    BY <2>1, <2>2
  <2>4. ListOK(ss) /\ Len(ss) = k + 1
    BY <2>3, CutList DEF SInv
  <2>5. k = (Len(ss) - 1) % SnapshotIds
    <3>1. k % SnapshotIds = k /\ (k + 1) - 1 = k
      BY <2>1, <2>2
    <3> QED
      BY <3>1, <2>4
  <2>6. SizeOK(ss)
    BY <2>1, <2>2, <2>3, <2>4, ConstAssumption DEF SizeOK, SInv
  <2> HIDE DEF ss, h, obs
  <2> QED
    BY <1>2, <2>4, <2>5, <2>6, MoveKeeps
<1> QED
  BY <1>1, <1>2 DEF RevertToSnapshot

\* removeSnapshot(): one name less, snapshotId--.
LEMMA RemoveSnapshotKeeps ==
    ASSUME SInv, NEW n \in Name, RemoveSnapshot(n)
    PROVE  SInv'
<1> DEFINE k == SidOf(snapshots, n)
           ss == RemoveAt(snapshots, k + 1)
           h == ShiftIndex(db, ShiftDocuments(db, NewHandle, k), k)
           sid == (snapshotId - 1) % SnapshotIds
           obs == Reloaded(Written(db, h), sid)
<1>1. CASE Refuse(<<"removeSnapshot", n>>, "errorInvalidObject")
  BY <1>1, RefuseKeeps
<1>2. CASE n \in Range(snapshots) /\ MoveTo(<<"removeSnapshot", n>>, h, ss, indexed, sid, obs)
  <2>1. k \in 0..(SnapshotIds - 1) /\ k + 1 < Len(snapshots)
    BY <1>2, SidOfName DEF SInv
  <2>2. Len(snapshots) \in Nat \ {0} /\ SnapshotIds \in Nat \ {0}
    BY ListLength, ConstAssumption DEF SInv
  <2> HIDE DEF k
  <2>3. ListOK(ss) /\ Len(ss) = Len(snapshots) - 1
    BY <2>1, <2>2, ShrinkList DEF SInv
  <2>4. sid = ((Len(snapshots) - 1) - 1) % SnapshotIds
    <3> DEFINE a == Len(snapshots) - 1
    <3>1. a \in Nat
      BY <2>2
    <3>2. snapshotId = a % SnapshotIds
      BY DEF SInv
    <3> HIDE DEF a
    <3>3. ((a % SnapshotIds) - 1) % SnapshotIds = (a - 1) % SnapshotIds
      BY <2>2, <3>1, ModDec
    <3> QED
      BY <3>2, <3>3, Zenon DEF a
  <2>5. sid = (Len(ss) - 1) % SnapshotIds
    BY <2>3, <2>4
  <2>6. SizeOK(ss)
    BY <2>2, <2>3, ConstAssumption DEF SizeOK, SInv
  <2> HIDE DEF ss, h, sid, obs
  <2> QED
    BY <1>2, <2>3, <2>5, <2>6, MoveKeeps
<1> QED
  BY <1>1, <1>2 DEF RemoveSnapshot

\* The constructor reads the counter from the list it finds in the store.
LEMMA ReopenKeeps ==
    ASSUME SInv, Reopen
    PROVE  SInv'
<1>1. inDoubt' = {}
  BY DEF Reopen
<1>2. ListOK(snapshots') /\ SizeOK(snapshots') /\ snapshotId' = (Len(snapshots') - 1) % SnapshotIds
  <2>1. CASE Store = "leveldb" /\ \E u \in {Committed} \union inDoubt :
                /\ snapshots' = u.snapshots
                /\ snapshotId' = (Len(u.snapshots) - 1) % SnapshotIds
    BY <2>1 DEF SInv, Committed
  <2>2. CASE snapshots' = <<Current>> /\ snapshotId' = 0
    BY <2>2, ConstAssumption DEF ListOK, SnapshotListOK, SizeOK
  <2> QED
    BY <2>1, <2>2 DEF Reopen
<1> QED
  BY <1>1, <1>2 DEF SInv

\* Every step of a collection keeps SInv.
LEMMA SnapshotListStep ==
    ASSUME SInv, [Next]_vars
    PROVE  SInv'
<1>1. CASE UNCHANGED vars
  BY <1>1 DEF vars, SInv
<1>2. CASE \E x \in Tx \union {NoTx} :
             \/ \E i \in Id, ignore \in Ignore :
                 \/ \E v \in Val, overwrite \in Overwrite : InsertRequest(x, i, v, overwrite, ignore)
                 \/ RemoveIdRequest(x, i, ignore)
             \/ \E q \in Query : RemoveRequest(x, q) \/ \E docs \in Docs : SetRequest(x, q, docs)
  BY <1>2, DocumentRequests, UntouchedKeeps
<1>3. CASE CreateIndexRequest
  BY <1>3, OtherRequests, UntouchedKeeps
<1>4. CASE \E t \in Tx : NewTransaction(t) \/ WriteTransaction(t) \/ DiscardTransaction(t)
  BY <1>4, OtherRequests, UntouchedKeeps
<1>5. CASE \E n \in Name : NewSnapshot(n) \/ RevertToSnapshot(n) \/ RemoveSnapshot(n)
  BY <1>5, NewSnapshotKeeps, RevertKeeps, RemoveSnapshotKeeps
<1>6. CASE \E o \in ObsId : Unobserve(o) \/ \E q \in Query, limit \in Limit : Observe(o, q, limit)
  BY <1>6, OtherRequests, UntouchedKeeps
<1>7. CASE Reopen
  BY <1>7, ReopenKeeps
<1> QED
  BY <1>1, <1>2, <1>3, <1>4, <1>5, <1>6, <1>7 DEF Next

\* The list is well formed, within its bound and in step with the counter.
THEOREM SnapshotListInvariant == Spec => []SInv
<1>1. Init => SInv
  BY ConstAssumption DEF Init, SInv, ListOK, SnapshotListOK, SizeOK
<1>2. SInv /\ [Next]_vars => SInv'
  BY SnapshotListStep
<1> QED
  BY <1>1, <1>2, PTL DEF Spec

\* The collection's snapshot counter and its stored list of snapshots agree
\* after every sequence of requests, failed writes and restarts, and the list
\* names no snapshot twice.
THEOREM SnapshotsAgree == Spec => []SnapshotsOK
<1>1. SInv => SnapshotsOK
  BY DEF SInv, SnapshotsOK, ListOK
<1> QED
  BY <1>1, SnapshotListInvariant, PTL

-----------------------------------------------------------------------------
(* Keys and handles.                                                       *)

\* No two kinds of keys are the same, and a key tells its document and version.
LEMMA Keys ==
    ASSUME NEW i, NEW j, NEW s, NEW r, NEW v
    PROVE  /\ DocKey(i, s) # StartKey(j) /\ DocKey(i, s) # IvKey(r, v) /\ StartKey(i) # IvKey(r, v)
           /\ DocKey(i, s) = DocKey(j, r) => i = j /\ s = r
           /\ StartKey(i) = StartKey(j) => i = j
BY DEF DocKey, StartKey, IvKey

\* A handle has four parts.
Parted(a, b, c, e) == [sid |-> a, cache |-> b, deleted |-> c, obs |-> e]

\* It has these parts and no others.
IsHandle(h) == h = Parted(h.sid, h.cache, h.deleted, h.obs)

\* What the four parts are taken for.
LEMMA PartedParts ==
    ASSUME NEW a, NEW b, NEW c, NEW e, NEW h, h = Parted(a, b, c, e)
    PROVE  IsHandle(h) /\ h.sid = a /\ h.cache = b /\ h.deleted = c /\ h.obs = e
BY DEF IsHandle, Parted

\* putValue and deleteValue, for one key and for several.
LEMMA HandleParts ==
    ASSUME NEW h, IsHandle(h)
    PROVE  /\ \A k, v : Put(h, k, v) = Parted(h.sid, With(h.cache, k, v), h.deleted \ {k}, h.obs)
           /\ \A k : Delete(h, k) = Parted(h.sid, h.cache, h.deleted \union {k}, h.obs)
           /\ \A kv : PutAll(h, kv) = Parted(h.sid, Over(kv, h.cache), h.deleted \ DOMAIN kv, h.obs)
           /\ \A K : DeleteAll(h, K) = Parted(h.sid, h.cache, h.deleted \union K, h.obs)
           /\ \A o : [h EXCEPT !.obs = o] = Parted(h.sid, h.cache, h.deleted, o)
<1>1. PICK a, b, c, e : h = [sid |-> a, cache |-> b, deleted |-> c, obs |-> e]
  BY DEF IsHandle, Parted
<1>2. h.sid = a /\ h.cache = b /\ h.deleted = c /\ h.obs = e
  BY <1>1
<1>3. ASSUME NEW w, NEW c2, NEW g, g = [h EXCEPT !.cache = w]
      PROVE  [g EXCEPT !.deleted = c2] = Parted(a, w, c2, e)
  <2>1. g = [sid |-> a, cache |-> w, deleted |-> c, obs |-> e]
    BY <1>1, <1>3
  <2> QED
    BY <2>1 DEF Parted
<1>4. ASSUME NEW k, NEW v
      PROVE  Put(h, k, v) = Parted(a, With(b, k, v), c \ {k}, e)
  <2> DEFINE w == With(h.cache, k, v)
             c2 == h.deleted \ {k}
             g == [h EXCEPT !.cache = w]
  <2>1. Put(h, k, v) = [h EXCEPT !.cache = w, !.deleted = c2]
    BY Zenon DEF Put
  <2> HIDE DEF w, c2
  <2>2. Put(h, k, v) = [g EXCEPT !.deleted = c2]
    BY <2>1
  <2> HIDE DEF g
  <2>3. [g EXCEPT !.deleted = c2] = Parted(a, w, c2, e)
    BY <1>3 DEF g
  <2> QED
    BY <1>2, <2>2, <2>3 DEF w, c2
<1>5. ASSUME NEW kv
      PROVE  PutAll(h, kv) = Parted(a, Over(kv, b), c \ DOMAIN kv, e)
  <2> DEFINE w == Over(kv, h.cache)
             c2 == h.deleted \ DOMAIN kv
             g == [h EXCEPT !.cache = w]
  <2>1. PutAll(h, kv) = [h EXCEPT !.cache = w, !.deleted = c2]
    BY Zenon DEF PutAll
  <2> HIDE DEF w, c2
  <2>2. PutAll(h, kv) = [g EXCEPT !.deleted = c2]
    BY <2>1
  <2> HIDE DEF g
  <2>3. [g EXCEPT !.deleted = c2] = Parted(a, w, c2, e)
    BY <1>3 DEF g
  <2> QED
    BY <1>2, <2>2, <2>3 DEF w, c2
<1>6. ASSUME NEW k
      PROVE  Delete(h, k) = Parted(a, b, c \union {k}, e)
  BY <1>1 DEF Delete, Parted
<1>7. ASSUME NEW K
      PROVE  DeleteAll(h, K) = Parted(a, b, c \union K, e)
  BY <1>1 DEF DeleteAll, Parted
<1>8. ASSUME NEW o
      PROVE  [h EXCEPT !.obs = o] = Parted(a, b, c, o)
  BY <1>1 DEF Parted
<1> QED
  BY <1>2, <1>4, <1>5, <1>6, <1>7, <1>8, Zenon

\* The pending writes of g say of key k what those of h say.
SameKey(g, h, k) ==
    /\ k \in g.deleted <=> k \in h.deleted
    /\ k \in DOMAIN g.cache <=> k \in DOMAIN h.cache
    /\ k \in DOMAIN h.cache => g.cache[k] = h.cache[k]

\* What a put and a delete say of their keys and of the others.
LEMMA PutSays ==
    ASSUME NEW h, IsHandle(h), NEW k, NEW v
    PROVE  LET g == Put(h, k, v) IN
           /\ IsHandle(g) /\ g.sid = h.sid /\ g.obs = h.obs
           /\ k \in DOMAIN g.cache /\ g.cache[k] = v /\ k \notin g.deleted
           /\ \A x : x # k => SameKey(g, h, x)
<1>1. Put(h, k, v) = Parted(h.sid, With(h.cache, k, v), h.deleted \ {k}, h.obs)
  BY HandleParts
<1> DEFINE g == Put(h, k, v)
<1>2. IsHandle(g) /\ g.sid = h.sid /\ g.obs = h.obs /\ g.cache = With(h.cache, k, v)
      /\ g.deleted = h.deleted \ {k}
  BY <1>1, PartedParts
<1> HIDE DEF g
<1>3. DOMAIN g.cache = DOMAIN h.cache \union {k} /\ g.cache[k] = v
      /\ \A x \in DOMAIN h.cache : x # k => g.cache[x] = h.cache[x]
  BY <1>2 DEF With
<1> QED
  BY <1>2, <1>3 DEF SameKey, g

\* The same of a delete, which leaves what was put before in the cache.
LEMMA DeleteSays ==
    ASSUME NEW h, IsHandle(h), NEW k
    PROVE  LET g == Delete(h, k) IN
           /\ IsHandle(g) /\ g.sid = h.sid /\ g.obs = h.obs
           /\ k \in g.deleted
           /\ \A x : x # k => SameKey(g, h, x)
<1>1. Delete(h, k) = Parted(h.sid, h.cache, h.deleted \union {k}, h.obs)
  BY HandleParts
<1>2. PICK g : g = Delete(h, k)
  OBVIOUS
<1>3. IsHandle(g) /\ g.sid = h.sid /\ g.obs = h.obs /\ g.cache = h.cache
      /\ g.deleted = h.deleted \union {k}
  BY <1>1, <1>2, PartedParts
<1> QED
  BY <1>2, <1>3 DEF SameKey

\* Several keys put.
LEMMA PutAllSays ==
    ASSUME NEW h, IsHandle(h), NEW kv
    PROVE  LET g == PutAll(h, kv) IN
           /\ IsHandle(g) /\ g.sid = h.sid /\ g.obs = h.obs
           /\ \A x \in DOMAIN kv : x \in DOMAIN g.cache /\ g.cache[x] = kv[x] /\ x \notin g.deleted
           /\ \A x : x \notin DOMAIN kv => SameKey(g, h, x)
<1>1. PutAll(h, kv) = Parted(h.sid, Over(kv, h.cache), h.deleted \ DOMAIN kv, h.obs)
  BY HandleParts
<1>2. PICK g : g = PutAll(h, kv)
  OBVIOUS
<1>3. IsHandle(g) /\ g.sid = h.sid /\ g.obs = h.obs /\ g.cache = Over(kv, h.cache)
      /\ g.deleted = h.deleted \ DOMAIN kv
  BY <1>1, <1>2, PartedParts
<1>4. DOMAIN g.cache = DOMAIN kv \union DOMAIN h.cache
      /\ \A x \in DOMAIN g.cache : g.cache[x] = IF x \in DOMAIN kv THEN kv[x] ELSE h.cache[x]
  BY <1>3 DEF Over
<1> QED
  BY <1>2, <1>3, <1>4 DEF SameKey

\* Several keys deleted.
LEMMA DeleteAllSays ==
    ASSUME NEW h, IsHandle(h), NEW K
    PROVE  LET g == DeleteAll(h, K) IN
           /\ IsHandle(g) /\ g.sid = h.sid /\ g.obs = h.obs /\ g.cache = h.cache
           /\ g.deleted = h.deleted \union K
           /\ \A x : x \notin K => SameKey(g, h, x)
<1>1. DeleteAll(h, K) = Parted(h.sid, h.cache, h.deleted \union K, h.obs)
  BY HandleParts
<1>2. PICK g : g = DeleteAll(h, K)
  OBVIOUS
<1>3. IsHandle(g) /\ g.sid = h.sid /\ g.obs = h.obs /\ g.cache = h.cache
      /\ g.deleted = h.deleted \union K
  BY <1>1, <1>2, PartedParts
<1> QED
  BY <1>2, <1>3 DEF SameKey

\* New replies for the observers of a handle.
LEMMA ObsSays ==
    ASSUME NEW h, IsHandle(h), NEW o
    PROVE  LET g == [h EXCEPT !.obs = o] IN
           IsHandle(g) /\ g.sid = h.sid /\ g.cache = h.cache /\ g.deleted = h.deleted /\ g.obs = o
<1>1. [h EXCEPT !.obs = o] = Parted(h.sid, h.cache, h.deleted, o)
  BY HandleParts
<1> QED
  BY <1>1, PartedParts

\* kept of Only, for the first n elements.
IsKeeping(f, seq, S, n) ==
    f = [k \in 0..n |-> IF k = 0 THEN <<>> ELSE IF seq[k] \in S THEN Append(f[k - 1], seq[k]) ELSE f[k - 1]]

\* One element more.
LEMMA KeepingMore ==
    ASSUME NEW seq, NEW S, NEW n \in Nat, NEW g, IsKeeping(g, seq, S, n)
    PROVE  \E f : IsKeeping(f, seq, S, n + 1)
<1>1. PICK next : next = IF seq[n + 1] \in S THEN Append(g[n], seq[n + 1]) ELSE g[n]
  OBVIOUS
<1> DEFINE f == [k \in 0..(n + 1) |-> IF k <= n THEN g[k] ELSE next]
<1>2. ASSUME NEW k \in 0..(n + 1)
      PROVE  f[k] = IF k = 0 THEN <<>> ELSE IF seq[k] \in S THEN Append(f[k - 1], seq[k]) ELSE f[k - 1]
  <2>1. CASE k \in 0..n
    <3>1. g[k] = IF k = 0 THEN <<>> ELSE IF seq[k] \in S THEN Append(g[k - 1], seq[k]) ELSE g[k - 1]
      BY <2>1, Zenon DEF IsKeeping
    <3>2. f[k] = g[k] /\ (k # 0 => f[k - 1] = g[k - 1])
      BY <2>1
    <3> HIDE DEF f
    <3> QED
      BY <3>1, <3>2, Zenon
  <2>2. CASE k = n + 1
    <3>1. k # 0 /\ f[k] = next /\ f[k - 1] = g[n]
      BY <2>2
    <3> HIDE DEF f
    <3> QED
      BY <1>1, <2>2, <3>1, Zenon
  <2>3. k \in 0..n \/ k = n + 1
    OBVIOUS
  <2> HIDE DEF f
  <2> QED
    BY <2>1, <2>2, <2>3, Zenon
<1>3. f = [k \in 0..(n + 1) |-> f[k]]
  OBVIOUS
<1> HIDE DEF f
<1>4. IsKeeping(f, seq, S, n + 1)
  BY <1>2, <1>3, Zenon DEF IsKeeping
<1> QED
  BY <1>4

\* So there is such a function for every number of them.
LEMMA KeepingExists ==
    ASSUME NEW seq, NEW S, NEW n \in Nat
    PROVE  \E f : IsKeeping(f, seq, S, n)
<1> DEFINE D == {m \in Nat : ~ \E f : IsKeeping(f, seq, S, m)}
<1> SUFFICES ASSUME D # {} PROVE FALSE
  OBVIOUS
<1>1. PICK m \in D : \A k \in D : m <= k
  BY LeastExists
<1>2. IsKeeping([k \in 0..0 |-> <<>>], seq, S, 0)
  <2>1. [k \in 0..0 |-> <<>>] = [k \in 0..0 |-> IF k = 0 THEN <<>>
                ELSE IF seq[k] \in S THEN Append([j \in 0..0 |-> <<>>][k - 1], seq[k]) ELSE [j \in 0..0 |-> <<>>][k - 1]]
    <3>1. \A k \in 0..0 : k = 0
      OBVIOUS
    <3> QED
      BY <3>1, Zenon
  <2> QED
    BY <2>1, Zenon DEF IsKeeping
<1>3. m # 0 /\ m \in Nat
  BY <1>2
<1>4. m - 1 \in Nat /\ m - 1 \notin D /\ (m - 1) + 1 = m
  BY <1>1, <1>3
<1>5. PICK g : IsKeeping(g, seq, S, m - 1)
  BY <1>4
<1>6. \E f : IsKeeping(f, seq, S, (m - 1) + 1)
  BY <1>4, <1>5, KeepingMore
<1> QED
  BY <1>1, <1>4, <1>6

\* after of Unlinked, for the first n values.
IsUnlinking(f, d, h, values, link, n) ==
    f = [k \in 0..n |-> IF k = 0 THEN Result(h, "success") ELSE IF f[k - 1].r # "success" THEN f[k - 1] ELSE RemoveIndexValue(d, f[k - 1].h, values[k], link)]

\* One value more.
LEMMA UnlinkingMore ==
    ASSUME NEW d, NEW h, NEW values, NEW link, NEW n \in Nat, NEW g, IsUnlinking(g, d, h, values, link, n)
    PROVE  \E f : IsUnlinking(f, d, h, values, link, n + 1)
<1>1. PICK next : next = IF g[n].r # "success" THEN g[n] ELSE RemoveIndexValue(d, g[n].h, values[n + 1], link)
  OBVIOUS
<1> DEFINE f == [k \in 0..(n + 1) |-> IF k <= n THEN g[k] ELSE next]
<1>2. ASSUME NEW k \in 0..(n + 1)
      PROVE  f[k] = IF k = 0 THEN Result(h, "success") ELSE IF f[k - 1].r # "success" THEN f[k - 1] ELSE RemoveIndexValue(d, f[k - 1].h, values[k], link)
  <2>1. CASE k \in 0..n
    <3>1. g[k] = IF k = 0 THEN Result(h, "success") ELSE IF g[k - 1].r # "success" THEN g[k - 1] ELSE RemoveIndexValue(d, g[k - 1].h, values[k], link)
      BY <2>1, Zenon DEF IsUnlinking
    <3>2. f[k] = g[k] /\ (k # 0 => f[k - 1] = g[k - 1])
      BY <2>1
    <3> HIDE DEF f
    <3> QED
      BY <3>1, <3>2, Zenon
  <2>2. CASE k = n + 1
    <3>1. k # 0 /\ f[k] = next /\ f[k - 1] = g[n]
      BY <2>2
    <3> HIDE DEF f
    <3> QED
      BY <1>1, <2>2, <3>1, Zenon
  <2>3. k \in 0..n \/ k = n + 1
    OBVIOUS
  <2> HIDE DEF f
  <2> QED
    BY <2>1, <2>2, <2>3, Zenon
<1>3. f = [k \in 0..(n + 1) |-> f[k]]
  OBVIOUS
<1> HIDE DEF f
<1>4. IsUnlinking(f, d, h, values, link, n + 1)
  BY <1>2, <1>3, Zenon DEF IsUnlinking
<1> QED
  BY <1>4

\* So there is such a function for every number of them.
LEMMA UnlinkingExists ==
    ASSUME NEW d, NEW h, NEW values, NEW link, NEW n \in Nat
    PROVE  \E f : IsUnlinking(f, d, h, values, link, n)
<1> DEFINE D == {m \in Nat : ~ \E f : IsUnlinking(f, d, h, values, link, m)}
<1> SUFFICES ASSUME D # {} PROVE FALSE
  OBVIOUS
<1>1. PICK m \in D : \A k \in D : m <= k
  BY LeastExists
<1>2. IsUnlinking([k \in 0..0 |-> Result(h, "success")], d, h, values, link, 0)
  <2>1. [k \in 0..0 |-> Result(h, "success")] = [k \in 0..0 |-> IF k = 0 THEN Result(h, "success")
                ELSE IF [j \in 0..0 |-> Result(h, "success")][k - 1].r # "success" THEN [j \in 0..0 |-> Result(h, "success")][k - 1] ELSE RemoveIndexValue(d, [j \in 0..0 |-> Result(h, "success")][k - 1].h, values[k], link)]
    <3>1. \A k \in 0..0 : k = 0
      OBVIOUS
    <3> QED
      BY <3>1, Zenon
  <2> QED
    BY <2>1, Zenon DEF IsUnlinking
<1>3. m # 0 /\ m \in Nat
  BY <1>2
<1>4. m - 1 \in Nat /\ m - 1 \notin D /\ (m - 1) + 1 = m
  BY <1>1, <1>3
<1>5. PICK g : IsUnlinking(g, d, h, values, link, m - 1)
  BY <1>4
<1>6. \E f : IsUnlinking(f, d, h, values, link, (m - 1) + 1)
  BY <1>4, <1>5, UnlinkingMore
<1> QED
  BY <1>1, <1>4, <1>6

\* Only keeps the elements that are in S, and no others.
LEMMA OnlyFacts ==
    ASSUME NEW T, NEW seq \in Seq(T), NEW S
    PROVE  /\ Only(seq, S) \in Seq(T \intersect S)
           /\ Range(Only(seq, S)) = Range(seq) \intersect S
<1> DEFINE L == Len(seq)
           kept == CHOOSE f : IsKeeping(f, seq, S, L)
<1>1. L \in Nat /\ DOMAIN seq = 1..L /\ \A k \in 1..L : seq[k] \in T
  BY LenProperties, ElementOfSeq
<1>2. IsKeeping(kept, seq, S, L)
  BY <1>1, KeepingExists, Zenon
<1>3. Only(seq, S) = kept[L]
  BY Zenon DEF Only, IsKeeping
<1> HIDE DEF kept, L
<1>4. \A k \in 0..L : kept[k] = IF k = 0 THEN <<>>
                                ELSE IF seq[k] \in S THEN Append(kept[k - 1], seq[k]) ELSE kept[k - 1]
  BY <1>2 DEF IsKeeping
<1> DEFINE Good(k) == /\ kept[k] \in Seq(T \intersect S)
                      /\ Range(kept[k]) = {seq[m] : m \in 1..k} \intersect S
           Bad == {k \in 0..L : ~Good(k)}
<1> HIDE DEF Good
<1>5. Bad = {}
  <2> SUFFICES ASSUME Bad # {} PROVE FALSE
    OBVIOUS
  <2>1. PICK k \in Bad : \A m \in Bad : k <= m
    <3>1. Bad \in SUBSET Nat
      BY <1>1
    <3> HIDE DEF Bad
    <3> QED
      BY <3>1, LeastExists
  <2>2. k \in 0..L /\ ~Good(k)
    BY <2>1
  <2>3. k # 0
    <3>1. kept[0] = <<>>
      BY <1>1, <1>4
    <3>2. <<>> \in Seq(T \intersect S) /\ Range(<<>>) = {}
      BY DEF Range
    <3>3. Good(0)
      BY <3>1, <3>2 DEF Good
    <3> QED
      BY <2>2, <3>3
  <2>4. k - 1 \in 0..L /\ k - 1 < k /\ k \in 1..L /\ k \in Nat
    BY <1>1, <2>2, <2>3
  <2>5. Good(k - 1)
    BY <2>1, <2>4
  <2>6. PICK p : p = kept[k - 1]
    OBVIOUS
  <2>7. p \in Seq(T \intersect S) /\ Range(p) = {seq[m] : m \in 1..(k - 1)} \intersect S
    BY <2>5, <2>6 DEF Good
  <2>8. {seq[m] : m \in 1..k} = {seq[m] : m \in 1..(k - 1)} \union {seq[k]}
    <3>1. ASSUME NEW m
          PROVE  m \in 1..k <=> m \in 1..(k - 1) \/ m = k
      <4>1. CASE m \in Int
        BY <2>4, <4>1
      <4>2. CASE m \notin Int
        BY <2>4, <4>2
      <4> QED
        BY <4>1, <4>2
    <3>2. \A x : x \in {seq[m] : m \in 1..k} <=> x \in {seq[m] : m \in 1..(k - 1)} \/ x = seq[k]
      BY <3>1, Zenon
    <3> QED
      BY <3>2, Zenon
  <2>9. CASE seq[k] \in S
    <3>1. kept[k] = Append(p, seq[k])
      BY <1>4, <2>2, <2>3, <2>6, <2>9
    <3>2. seq[k] \in T \intersect S
      BY <1>1, <2>4, <2>9
    <3>3. PICK x : x = seq[k]
      OBVIOUS
    <3>4. /\ Append(p, x) \in Seq(T \intersect S) /\ Len(Append(p, x)) = Len(p) + 1 /\ Len(p) \in Nat
          /\ \A i \in 1..Len(p) : Append(p, x)[i] = p[i]
          /\ Append(p, x)[Len(p) + 1] = x
      BY <2>7, <3>2, <3>3, AppendAt
    <3>5. DOMAIN Append(p, x) = 1..(Len(p) + 1) /\ DOMAIN p = 1..Len(p)
      BY <2>7, <3>4, LenProperties
    <3>6. Range(Append(p, x)) = Range(p) \union {x}
      BY <3>4, <3>5 DEF Range
    <3> QED
      BY <2>2, <2>7, <2>8, <2>9, <3>1, <3>3, <3>4, <3>6 DEF Good
  <2>10. CASE seq[k] \notin S
    <3>1. kept[k] = p
      BY <1>4, <2>2, <2>3, <2>6, <2>10
    <3> QED
      BY <2>2, <2>7, <2>8, <2>10, <3>1 DEF Good
  <2> QED
    BY <2>9, <2>10
<1>6. Good(L)
  BY <1>1, <1>5
<1>7. Range(seq) = {seq[m] : m \in 1..L}
  BY <1>1, Zenon DEF Range
<1> QED
  BY <1>3, <1>6, <1>7 DEF Good

\* The pending writes of g say of documents what those of h say.
SameDocs(g, h) ==
    /\ IsHandle(g) /\ g.sid = h.sid
    /\ \A i, s : SameKey(g, h, StartKey(i)) /\ SameKey(g, h, DocKey(i, s))

\* It is as good as h for whatever comes next.
LEMMA SameDocsAgain ==
    ASSUME NEW f, NEW g, NEW h, SameDocs(g, h), SameDocs(f, g)
    PROVE  SameDocs(f, h)
BY DEF SameDocs, SameKey

\* Index entries are not documents.
LEMMA EntrySameDocs ==
    ASSUME NEW h, IsHandle(h), NEW s, NEW v, NEW x
    PROVE  SameDocs(h, h) /\ SameDocs(Put(h, IvKey(s, v), x), h) /\ SameDocs(Delete(h, IvKey(s, v)), h)
<1>1. \A i, r : StartKey(i) # IvKey(s, v) /\ DocKey(i, r) # IvKey(s, v)
  BY Keys
<1>2. SameDocs(h, h)
  BY DEF SameDocs, SameKey
<1>3. SameDocs(Put(h, IvKey(s, v), x), h)
  <2>1. PICK k : k = IvKey(s, v)
    OBVIOUS
  <2> QED
    BY <1>1, <2>1, PutSays DEF SameDocs
<1>4. SameDocs(Delete(h, IvKey(s, v)), h)
  <2>1. PICK k : k = IvKey(s, v)
    OBVIOUS
  <2> QED
    BY <1>1, <2>1, DeleteSays DEF SameDocs
<1> QED
  BY <1>2, <1>3, <1>4

\* addIndexValue and removeIndexValue.
LEMMA IndexSameDocs ==
    ASSUME NEW d, NEW h, IsHandle(h), NEW v, NEW i, NEW link
    PROVE  SameDocs(AddIndexValue(d, h, v, i), h) /\ SameDocs(RemoveIndexValue(d, h, v, link).h, h)
<1>1. AddIndexValue(d, h, v, i) = h \/ \E x : AddIndexValue(d, h, v, i) = Put(h, IvKey(h.sid, v), x)
  BY Zenon DEF AddIndexValue
<1>2. \/ RemoveIndexValue(d, h, v, link).h = h
      \/ RemoveIndexValue(d, h, v, link).h = Delete(h, IvKey(h.sid, v))
      \/ \E x : RemoveIndexValue(d, h, v, link).h = Put(h, IvKey(h.sid, v), x)
  BY DEF RemoveIndexValue, Result
<1> QED
  BY <1>1, <1>2, EntrySameDocs, Zenon

\* Taking a link out of several entries.
LEMMA UnlinkedSameDocs ==
    ASSUME NEW d, NEW h, IsHandle(h), NEW T, NEW values \in Seq(T), NEW link
    PROVE  SameDocs(Unlinked(d, h, values, link).h, h)
<1> DEFINE L == Len(values)
           after == CHOOSE f : IsUnlinking(f, d, h, values, link, L)
<1>1. L \in Nat
  BY LenProperties
<1>2. IsUnlinking(after, d, h, values, link, L)
  BY <1>1, UnlinkingExists, Zenon
<1>3. Unlinked(d, h, values, link) = after[L]
  BY Zenon DEF Unlinked, IsUnlinking
<1> HIDE DEF after, L
<1>4. \A k \in 0..L : after[k] = IF k = 0 THEN Result(h, "success")
                                 ELSE IF after[k - 1].r # "success" THEN after[k - 1]
                                 ELSE RemoveIndexValue(d, after[k - 1].h, values[k], link)
  BY <1>2 DEF IsUnlinking
<1> DEFINE Good(k) == SameDocs(after[k].h, h)
           Bad == {k \in 0..L : ~Good(k)}
<1>5. Bad = {}
  <2> SUFFICES ASSUME Bad # {} PROVE FALSE
    OBVIOUS
  <2>1. PICK k \in Bad : \A m \in Bad : k <= m
    <3>1. Bad \in SUBSET Nat
      BY <1>1
    <3> HIDE DEF Bad
    <3> QED
      BY <3>1, LeastExists
  <2>2. k \in 0..L /\ ~Good(k)
    BY <2>1
  <2>3. k # 0
    <3>1. after[0] = Result(h, "success")
      BY <1>1, <1>4
    <3>2. after[0].h = h
      BY <3>1 DEF Result
    <3> QED
      BY <2>2, <3>2, EntrySameDocs
  <2>4. k - 1 \in 0..L /\ k - 1 < k
    BY <1>1, <2>2, <2>3
  <2>5. SameDocs(after[k - 1].h, h)
    BY <2>1, <2>4
  <2>6. IsHandle(after[k - 1].h)
    BY <2>5 DEF SameDocs
  <2>7. SameDocs(RemoveIndexValue(d, after[k - 1].h, values[k], link).h, after[k - 1].h)
    BY <2>6, IndexSameDocs
  <2>8. after[k] = after[k - 1] \/ after[k] = RemoveIndexValue(d, after[k - 1].h, values[k], link)
    BY <1>4, <2>2, <2>3, Zenon
  <2> QED
    BY <2>2, <2>5, <2>7, <2>8, SameDocsAgain, Zenon
<1>6. SameDocs(after[L].h, h)
  BY <1>1, <1>5
<1> QED
  BY <1>3, <1>6, Zenon

-----------------------------------------------------------------------------
(* What a write may do to the documents.                                   *)

\* The versions of a store are those of the snapshots there are, and each
\* holds a value or a tombstone; one that holds a value has its start key.
StoreOK(d, top) ==
    \A i \in Id, s \in Sid : DocKey(i, s) \in DOMAIN d =>
        /\ s <= top
        /\ d[DocKey(i, s)] = Tomb \/ (d[DocKey(i, s)] \in Val /\ HasStart(d, i))

\* The key is written, and not deleted.
Puts(h, k) == k \in DOMAIN h.cache \ h.deleted

\* A handle writes versions of its own snapshot only, a value together with its
\* start key; it deletes a start key only when there is no version but its own,
\* and never leaves a value behind it.
HandleOK(d, sid, h) ==
    /\ IsHandle(h) /\ h.sid = sid
    /\ \A i \in Id, s \in Sid : DocKey(i, s) \in DOMAIN h.cache \union h.deleted => s = sid
    /\ \A i \in Id : Puts(h, DocKey(i, sid)) =>
          \/ h.cache[DocKey(i, sid)] = Tomb
          \/ h.cache[DocKey(i, sid)] \in Val /\ Puts(h, StartKey(i))
    /\ \A i \in Id : StartKey(i) \in h.deleted =>
          /\ Versions(d, i) \subseteq {sid}
          /\ \/ DocKey(i, sid) \in h.deleted
             \/ DocKey(i, sid) \in DOMAIN h.cache /\ h.cache[DocKey(i, sid)] = Tomb

\* It does not matter what else a handle writes.
LEMMA HandleSameDocs ==
    ASSUME NEW d, NEW sid, NEW h, NEW g, HandleOK(d, sid, h), SameDocs(g, h)
    PROVE  HandleOK(d, sid, g)
<1>1. IsHandle(g) /\ g.sid = sid
  BY DEF HandleOK, SameDocs
<1>2. \A i, s : SameKey(g, h, StartKey(i)) /\ SameKey(g, h, DocKey(i, s))
  BY DEF SameDocs
<1>3. \A i \in Id, s \in Sid : DocKey(i, s) \in DOMAIN g.cache \union g.deleted => s = sid
  BY <1>2 DEF HandleOK, SameKey
<1>4. ASSUME NEW i \in Id, Puts(g, DocKey(i, sid))
      PROVE  \/ g.cache[DocKey(i, sid)] = Tomb
             \/ g.cache[DocKey(i, sid)] \in Val /\ Puts(g, StartKey(i))
  BY <1>2, <1>4 DEF HandleOK, SameKey, Puts
<1>5. ASSUME NEW i \in Id, StartKey(i) \in g.deleted
      PROVE  /\ Versions(d, i) \subseteq {sid}
             /\ \/ DocKey(i, sid) \in g.deleted
                \/ DocKey(i, sid) \in DOMAIN g.cache /\ g.cache[DocKey(i, sid)] = Tomb
  BY <1>2, <1>5 DEF HandleOK, SameKey
<1> QED
  BY <1>1, <1>3, <1>4, <1>5 DEF HandleOK

\* A new handle writes nothing.
LEMMA NewHandleOK ==
    ASSUME NEW d
    PROVE  HandleOK(d, snapshotId, NewHandle)
<1>1. NewHandle = Parted(snapshotId, NoKeys, {}, observers)
  BY DEF NewHandle, Parted
<1>2. PICK h : h = NewHandle
  OBVIOUS
<1>3. IsHandle(h) /\ h.sid = snapshotId /\ h.cache = NoKeys /\ h.deleted = {}
  BY <1>1, <1>2, PartedParts
<1>4. DOMAIN NoKeys = {}
  BY DEF NoKeys
<1> QED
  BY <1>2, <1>3, <1>4 DEF HandleOK, Puts

\* A version of a document that a reader at s may look at is the greatest one.
LEMMA UpToMax ==
    ASSUME NEW d, NEW i, NEW s, UpTo(d, i, s) # {}
    PROVE  /\ UpTo(d, i, s) \in SUBSET Sid /\ Sid \in SUBSET Nat
           /\ Max(UpTo(d, i, s)) \in UpTo(d, i, s)
           /\ \A r \in UpTo(d, i, s) : r <= Max(UpTo(d, i, s))
<1>1. UpTo(d, i, s) \in SUBSET Sid /\ Sid \in SUBSET Nat
  BY ConstAssumption DEF UpTo, Versions, Sid
<1>2. Bounded(UpTo(d, i, s))
  BY <1>1, ConstAssumption DEF Bounded, Sid
<1>3. UpTo(d, i, s) \in SUBSET Nat
  BY <1>1
<1> QED
  BY <1>1, <1>2, <1>3, MaxFacts

\* A value that is read is one that is there.
LEMMA ValueThere ==
    ASSUME NEW d, NEW i \in Id, NEW s, NEW top, StoreOK(d, top), Value(d, i, s) # None
    PROVE  /\ HasStart(d, i) /\ UpTo(d, i, s) # {} /\ Value(d, i, s) \in Val
           /\ Value(d, i, s) = d[DocKey(i, Max(UpTo(d, i, s)))]
<1>1. HasStart(d, i) /\ UpTo(d, i, s) # {} /\ d[DocKey(i, Max(UpTo(d, i, s)))] # Tomb
      /\ Value(d, i, s) = d[DocKey(i, Max(UpTo(d, i, s)))]
  BY DEF Value
<1>2. Max(UpTo(d, i, s)) \in UpTo(d, i, s)
  BY <1>1, UpToMax
<1>3. Max(UpTo(d, i, s)) \in Sid /\ DocKey(i, Max(UpTo(d, i, s))) \in DOMAIN d
  BY <1>2 DEF UpTo, Versions
<1> QED
  BY <1>1, <1>3 DEF StoreOK

\* A search lands on the document it looks for or, when that has no keys, on
\* another one.
LEMMA LandFacts ==
    ASSUME NEW d, NEW i, Store = "map" => i \in Id, Land(d, i) # None
    PROVE  /\ Land(d, i) \in Id /\ HasStart(d, Land(d, i))
           /\ i \in Id /\ Land(d, i) # i => ~HasStart(d, i) /\ Versions(d, i) = {}
<1> DEFINE at == IF Store = "map" THEN {i} ELSE {j \in Id : j >= i}
           from == {j \in at : HasStart(d, j) \/ Versions(d, j) # {}}
<1>1. Land(d, i) = IF from # {} /\ HasStart(d, Min(from)) THEN Min(from) ELSE None
  BY Zenon DEF Land
<1>2. from \in SUBSET Id /\ Id \in SUBSET Nat
  BY ConstAssumption DEF Id
<1>3. i \in Id /\ (HasStart(d, i) \/ Versions(d, i) # {}) => i \in from /\ \A j \in from : j >= i
  BY <1>2
<1> HIDE DEF from
<1>4. from # {} /\ HasStart(d, Min(from)) /\ Land(d, i) = Min(from)
  BY <1>1
<1>5. Min(from) \in from /\ \A k \in from : Min(from) <= k
  <2>1. from \in SUBSET Nat
    BY <1>2
  <2> QED
    BY <1>4, <2>1, MinFacts
<1>6. ASSUME i \in Id, HasStart(d, i) \/ Versions(d, i) # {}
      PROVE  Min(from) = i
  <2>1. i \in from /\ Min(from) \in Nat /\ i \in Nat /\ Min(from) >= i /\ Min(from) <= i
    BY <1>2, <1>3, <1>5, <1>6
  <2> QED
    BY <2>1
<1> QED
  BY <1>2, <1>4, <1>5, <1>6

\* insert writes the start key and the version.
LEMMA InsertHandle ==
    ASSUME NEW d, NEW sid, NEW h, HandleOK(d, sid, h), NEW i, NEW v \in Val, NEW overwrite, NEW ignore
    PROVE  HandleOK(d, sid, Insert(d, h, i, v, overwrite, ignore).h)
<1> DEFINE one == Put(h, StartKey(i), Start)
           put == Put(one, DocKey(i, h.sid), v)
           linked == IF indexed THEN AddIndexValue(d, put, v, i) ELSE put
<1>1. IsHandle(h) /\ h.sid = sid
  BY DEF HandleOK
<1>2. PICK k1, k2 : k1 = StartKey(i) /\ k2 = DocKey(i, sid)
  OBVIOUS
<1>3. IsHandle(one) /\ one.sid = sid
      /\ k1 \in DOMAIN one.cache /\ k1 \notin one.deleted
      /\ \A x : x # k1 => SameKey(one, h, x)
  BY <1>1, <1>2, PutSays
<1> HIDE DEF one
<1>4. IsHandle(put) /\ put.sid = sid
      /\ k2 \in DOMAIN put.cache /\ put.cache[k2] = v /\ k2 \notin put.deleted
      /\ \A x : x # k2 => SameKey(put, one, x)
  BY <1>1, <1>2, <1>3, PutSays
<1> HIDE DEF put
<1>5. k1 # k2 /\ (\A j : StartKey(j) # k2 /\ (StartKey(j) = k1 => j = i))
      /\ \A j, s : DocKey(j, s) # k1 /\ (DocKey(j, s) = k2 => j = i /\ s = sid)
  BY <1>2, Keys
<1>6. Puts(put, k1) /\ Puts(put, k2)
  BY <1>3, <1>4, <1>5 DEF SameKey, Puts
<1>7. \A x : x # k1 /\ x # k2 => SameKey(put, h, x)
  BY <1>3, <1>4 DEF SameKey
<1>8. HandleOK(d, sid, put)
  <2>1. \A j \in Id, s \in Sid : DocKey(j, s) \in DOMAIN put.cache \union put.deleted => s = sid
    BY <1>5, <1>7 DEF HandleOK, SameKey
  <2>2. ASSUME NEW j \in Id, Puts(put, DocKey(j, sid))
        PROVE  \/ put.cache[DocKey(j, sid)] = Tomb
               \/ put.cache[DocKey(j, sid)] \in Val /\ Puts(put, StartKey(j))
    <3>1. CASE j = i
      BY <1>2, <1>4, <1>6, <3>1
    <3>2. CASE j # i
      <4>1. SameKey(put, h, DocKey(j, sid)) /\ SameKey(put, h, StartKey(j))
        BY <1>5, <1>7, <3>2
      <4> QED
        BY <2>2, <4>1 DEF HandleOK, SameKey, Puts
    <3> QED
      BY <3>1, <3>2
  <2>3. ASSUME NEW j \in Id, StartKey(j) \in put.deleted
        PROVE  /\ Versions(d, j) \subseteq {sid}
               /\ \/ DocKey(j, sid) \in put.deleted
                  \/ DocKey(j, sid) \in DOMAIN put.cache /\ put.cache[DocKey(j, sid)] = Tomb
    <3>1. j # i
      BY <1>2, <1>6, <2>3 DEF Puts
    <3>2. SameKey(put, h, DocKey(j, sid)) /\ SameKey(put, h, StartKey(j))
      BY <1>5, <1>7, <3>1
    <3> QED
      BY <2>3, <3>2 DEF HandleOK, SameKey
  <2> QED
    BY <1>4, <2>1, <2>2, <2>3 DEF HandleOK
<1>9. SameDocs(linked, put)
  BY <1>4, EntrySameDocs, IndexSameDocs
<1>10. HandleOK(d, sid, linked)
  BY <1>8, <1>9, HandleSameDocs
<1> HIDE DEF linked
<1>11. IsHandle(linked)
  BY <1>10 DEF HandleOK
<1>12. \A o : SameDocs([linked EXCEPT !.obs = o], linked)
  <2> TAKE o
  <2>1. PICK g : g = [linked EXCEPT !.obs = o]
    OBVIOUS
  <2>2. IsHandle(g) /\ g.sid = linked.sid /\ g.cache = linked.cache /\ g.deleted = linked.deleted
    BY <1>11, <2>1, ObsSays
  <2> QED
    BY <2>1, <2>2 DEF SameDocs, SameKey
<1>13. \/ Insert(d, h, i, v, overwrite, ignore).h = h
       \/ \E o : Insert(d, h, i, v, overwrite, ignore).h = [linked EXCEPT !.obs = o]
  <2>1. \A g, r : Result(g, r).h = g
    BY DEF Result
  <2> DEFINE old == GetJsonValue(d, i, h.sid)
             o == [n \in DOMAIN linked.obs |-> ObserveInsert(linked.obs[n], Doc(i, v), old # None)]
  <2>2. \/ Insert(d, h, i, v, overwrite, ignore) = Result(h, "errorAlreadyExists")
        \/ Insert(d, h, i, v, overwrite, ignore) = Result(h, "errorObjectIsReadOnly")
        \/ Insert(d, h, i, v, overwrite, ignore) = Result([linked EXCEPT !.obs = o], "success")
    BY Zenon DEF Insert, linked, put, one
  <2> HIDE DEF o
  <2>3. \/ Insert(d, h, i, v, overwrite, ignore).h = h
        \/ Insert(d, h, i, v, overwrite, ignore).h = [linked EXCEPT !.obs = o]
    <3>1. PICK g : g = [linked EXCEPT !.obs = o]
      OBVIOUS
    <3> QED
      BY <2>1, <2>2, <3>1
  <2> QED
    BY <2>3
<1> QED
  BY <1>10, <1>12, <1>13, HandleSameDocs

\* removeById deletes a version without older ones together with the start key,
\* and writes a tombstone otherwise.
LEMMA RemoveHandle ==
    ASSUME NEW d, NEW sid \in Sid, StoreOK(d, sid), NEW h, HandleOK(d, sid, h),
           NEW i, Store = "map" => i \in Id, NEW ignore
    PROVE  HandleOK(d, sid, RemoveById(d, h, i, ignore).h)
<1> DEFINE j == Land(d, i)
           v == GetJsonValue(d, i, h.sid)
           out == OutSid(d, j, h.sid)
           tomb == Put(h, DocKey(i, h.sid), Tomb)
           one == Delete(h, DocKey(i, h.sid))
           both == Delete(one, StartKey(i))
           gone == IF out # h.sid \/ ~IsNaked(d, j, h.sid) THEN tomb ELSE both
           unlinked == IF indexed THEN Unlinked(d, gone, Parts[v], <<i, out>>)
                                  ELSE Result(gone, "success")
           o == [n \in DOMAIN unlinked.h.obs |-> ObserveRemove(unlinked.h.obs[n], Doc(j, v))]
<1>1. \A g, r : Result(g, r).h = g
  BY DEF Result
<1>2. \/ RemoveById(d, h, i, ignore).h = h
      \/ /\ v # None
         /\ RemoveById(d, h, i, ignore).h \in {unlinked.h, [unlinked.h EXCEPT !.obs = o]}
  <2>1. \/ RemoveById(d, h, i, ignore) = Result(h, "errorDatabase")
        \/ RemoveById(d, h, i, ignore) = Result(h, "errorObjectIsReadOnly")
        \/ v # None /\ RemoveById(d, h, i, ignore) = unlinked
        \/ v # None /\ RemoveById(d, h, i, ignore) = Result([unlinked.h EXCEPT !.obs = o], "success")
    <3>1. CASE v = None
      BY <3>1 DEF RemoveById
    <3>2. CASE v # None
      BY <3>2, Zenon DEF RemoveById
    <3> QED
      BY <3>1, <3>2, Zenon
  <2> HIDE DEF o, unlinked, v
  <2>2. PICK g : g = [unlinked.h EXCEPT !.obs = o]
    OBVIOUS
  <2> QED
    BY <1>1, <2>1, <2>2
<1> HIDE DEF o
<1> SUFFICES ASSUME v # None PROVE HandleOK(d, sid, unlinked.h) 
                                   /\ HandleOK(d, sid, [unlinked.h EXCEPT !.obs = o])
  <2> HIDE DEF unlinked, v
  <2>1. PICK g : g = [unlinked.h EXCEPT !.obs = o]
    OBVIOUS
  <2> QED
    BY <1>2, <2>1
<1>3. IsHandle(h) /\ h.sid = sid
  BY DEF HandleOK
<1>4. j # None /\ v = Value(d, j, sid)
  BY <1>3, Zenon DEF GetJsonValue
<1>5. j \in Id /\ HasStart(d, j) /\ (i \in Id /\ j # i => ~HasStart(d, i) /\ Versions(d, i) = {})
  BY <1>4, LandFacts
<1>6. v \in Val
  <2> HIDE DEF v, j
  <2> QED
    BY <1>4, <1>5, ValueThere
<1>7. Parts[v] \in Seq(Val)
  BY <1>6, ConstAssumption
<1>8. PICK k1, k2 : k1 = StartKey(i) /\ k2 = DocKey(i, sid)
  OBVIOUS
<1>9. k1 # k2 /\ (\A x : StartKey(x) # k2 /\ (StartKey(x) = k1 => x = i))
      /\ \A x, s : DocKey(x, s) # k1 /\ (DocKey(x, s) = k2 => x = i /\ s = sid)
  BY <1>8, Keys
<1>10. IsHandle(tomb) /\ tomb.sid = sid
       /\ k2 \in DOMAIN tomb.cache /\ tomb.cache[k2] = Tomb /\ k2 \notin tomb.deleted
       /\ \A x : x # k2 => SameKey(tomb, h, x)
  BY <1>3, <1>8, PutSays
<1>11. IsHandle(one) /\ one.sid = sid
       /\ k2 \in one.deleted /\ \A x : x # k2 => SameKey(one, h, x)
  BY <1>3, <1>8, DeleteSays
<1>12. IsHandle(both) /\ both.sid = sid
       /\ k1 \in both.deleted /\ \A x : x # k1 => SameKey(both, one, x)
  BY <1>8, <1>11, DeleteSays
<1> HIDE DEF tomb, one, both
<1>13. HandleOK(d, sid, tomb)
  <2>1. \A x \in Id, s \in Sid : DocKey(x, s) \in DOMAIN tomb.cache \union tomb.deleted => s = sid
    BY <1>9, <1>10 DEF HandleOK, SameKey
  <2>2. ASSUME NEW x \in Id
        PROVE  /\ SameKey(tomb, h, StartKey(x))
               /\ x # i => SameKey(tomb, h, DocKey(x, sid))
    BY <1>9, <1>10
  <2>3. ASSUME NEW x \in Id, Puts(tomb, DocKey(x, sid))
        PROVE  \/ tomb.cache[DocKey(x, sid)] = Tomb
               \/ tomb.cache[DocKey(x, sid)] \in Val /\ Puts(tomb, StartKey(x))
    <3>1. CASE x = i
      BY <1>8, <1>10, <3>1
    <3>2. CASE x # i
      BY <2>2, <2>3, <3>2 DEF HandleOK, SameKey, Puts
    <3> QED
      BY <3>1, <3>2
  <2>4. ASSUME NEW x \in Id, StartKey(x) \in tomb.deleted
        PROVE  /\ Versions(d, x) \subseteq {sid}
               /\ \/ DocKey(x, sid) \in tomb.deleted
                  \/ DocKey(x, sid) \in DOMAIN tomb.cache /\ tomb.cache[DocKey(x, sid)] = Tomb
    <3>1. StartKey(x) \in h.deleted
      BY <2>2, <2>4 DEF SameKey
    <3>2. CASE x = i
      BY <1>8, <1>10, <3>1, <3>2 DEF HandleOK
    <3>3. CASE x # i
      BY <2>2, <3>1, <3>3 DEF HandleOK, SameKey
    <3> QED
      BY <3>2, <3>3
  <2> QED
    BY <1>10, <2>1, <2>3, <2>4 DEF HandleOK
<1>14. ASSUME IsNaked(d, j, sid)
       PROVE  HandleOK(d, sid, both)
  <2>1. ASSUME i \in Id
        PROVE  Versions(d, i) \subseteq {sid}
    <3>1. CASE j = i
      <4>1. UpTo(d, i, sid) = {sid}
        BY <1>14, <3>1 DEF IsNaked
      <4>2. \A s \in Versions(d, i) : s <= sid
        BY <2>1 DEF StoreOK, Versions
      <4> QED
        BY <4>1, <4>2 DEF UpTo
    <3>2. CASE j # i
      BY <1>5, <2>1, <3>2
    <3> QED
      BY <3>1, <3>2
  <2>2. \A x : x # k1 /\ x # k2 => SameKey(both, h, x)
    BY <1>11, <1>12 DEF SameKey
  <2>3. k1 \in both.deleted /\ k2 \in both.deleted
    BY <1>9, <1>11, <1>12 DEF SameKey
  <2>4. \A x \in Id, s \in Sid : DocKey(x, s) \in DOMAIN both.cache \union both.deleted => s = sid
    BY <1>9, <2>2 DEF HandleOK, SameKey
  <2>5. ASSUME NEW x \in Id, x # i
        PROVE  SameKey(both, h, StartKey(x)) /\ SameKey(both, h, DocKey(x, sid))
    BY <1>9, <2>2, <2>5
  <2>6. ASSUME NEW x \in Id, Puts(both, DocKey(x, sid))
        PROVE  \/ both.cache[DocKey(x, sid)] = Tomb
               \/ both.cache[DocKey(x, sid)] \in Val /\ Puts(both, StartKey(x))
    <3>1. x # i
      BY <1>8, <2>3, <2>6 DEF Puts
    <3> QED
      BY <2>5, <2>6, <3>1 DEF HandleOK, SameKey, Puts
  <2>7. ASSUME NEW x \in Id, StartKey(x) \in both.deleted
        PROVE  /\ Versions(d, x) \subseteq {sid}
               /\ \/ DocKey(x, sid) \in both.deleted
                  \/ DocKey(x, sid) \in DOMAIN both.cache /\ both.cache[DocKey(x, sid)] = Tomb
    <3>1. CASE x = i
      BY <1>8, <2>1, <2>3, <3>1
    <3>2. CASE x # i
      BY <2>5, <2>7, <3>2 DEF HandleOK, SameKey
    <3> QED
      BY <3>1, <3>2
  <2> QED
    BY <1>12, <2>4, <2>6, <2>7 DEF HandleOK
<1>15. HandleOK(d, sid, gone)
  BY <1>3, <1>13, <1>14
<1> HIDE DEF gone, v, out
<1>16. IsHandle(gone)
  BY <1>15 DEF HandleOK
<1>17. SameDocs(unlinked.h, gone)
  <2>1. SameDocs(Unlinked(d, gone, Parts[v], <<i, out>>).h, gone)
    BY <1>7, <1>16, UnlinkedSameDocs
  <2>2. SameDocs(gone, gone)
    BY <1>16, EntrySameDocs
  <2> QED
    BY <1>1, <2>1, <2>2
<1>18. HandleOK(d, sid, unlinked.h)
  BY <1>15, <1>17, HandleSameDocs
<1> HIDE DEF unlinked
<1>19. IsHandle(unlinked.h)
  BY <1>18 DEF HandleOK
<1>20. SameDocs([unlinked.h EXCEPT !.obs = o], unlinked.h)
  <2>1. PICK g : g = [unlinked.h EXCEPT !.obs = o]
    OBVIOUS
  <2>2. IsHandle(g) /\ g.sid = unlinked.h.sid /\ g.cache = unlinked.h.cache /\ g.deleted = unlinked.h.deleted
    BY <1>19, <2>1, ObsSays
  <2> QED
    BY <2>1, <2>2 DEF SameDocs, SameKey
<1> QED
  BY <1>18, <1>20, HandleSameDocs

\* What an operation made of a handle, and its result.
LEMMA ResultParts ==
    ASSUME NEW h, NEW r
    PROVE  Result(h, r).h = h /\ Result(h, r).r = r
BY DEF Result

\* after of RemoveEach, for the first n documents.
IsRemoving(f, d, acc, docs, n) ==
    f = [k \in 0..n |-> IF k = 0 THEN acc ELSE IF f[k - 1].r # "success" THEN f[k - 1] ELSE RemoveById(d, f[k - 1].h, docs[k].id, FALSE)]

\* One document more.
LEMMA RemovingMore ==
    ASSUME NEW d, NEW acc, NEW docs, NEW n \in Nat, NEW g, IsRemoving(g, d, acc, docs, n)
    PROVE  \E f : IsRemoving(f, d, acc, docs, n + 1)
<1>1. PICK next : next = IF g[n].r # "success" THEN g[n] ELSE RemoveById(d, g[n].h, docs[n + 1].id, FALSE)
  OBVIOUS
<1> DEFINE f == [k \in 0..(n + 1) |-> IF k <= n THEN g[k] ELSE next]
<1>2. ASSUME NEW k \in 0..(n + 1)
      PROVE  f[k] = IF k = 0 THEN acc ELSE IF f[k - 1].r # "success" THEN f[k - 1] ELSE RemoveById(d, f[k - 1].h, docs[k].id, FALSE)
  <2>1. CASE k \in 0..n
    <3>1. g[k] = IF k = 0 THEN acc ELSE IF g[k - 1].r # "success" THEN g[k - 1] ELSE RemoveById(d, g[k - 1].h, docs[k].id, FALSE)
      BY <2>1, Zenon DEF IsRemoving
    <3>2. f[k] = g[k] /\ (k # 0 => f[k - 1] = g[k - 1])
      BY <2>1
    <3> HIDE DEF f
    <3> QED
      BY <3>1, <3>2, Zenon
  <2>2. CASE k = n + 1
    <3>1. k # 0 /\ f[k] = next /\ f[k - 1] = g[n]
      BY <2>2
    <3> HIDE DEF f
    <3> QED
      BY <1>1, <2>2, <3>1, Zenon
  <2>3. k \in 0..n \/ k = n + 1
    OBVIOUS
  <2> HIDE DEF f
  <2> QED
    BY <2>1, <2>2, <2>3, Zenon
<1>3. f = [k \in 0..(n + 1) |-> f[k]]
  OBVIOUS
<1> HIDE DEF f
<1>4. IsRemoving(f, d, acc, docs, n + 1)
  BY <1>2, <1>3, Zenon DEF IsRemoving
<1> QED
  BY <1>4

\* So there is such a function for every number of them.
LEMMA RemovingExists ==
    ASSUME NEW d, NEW acc, NEW docs, NEW n \in Nat
    PROVE  \E f : IsRemoving(f, d, acc, docs, n)
<1> DEFINE D == {m \in Nat : ~ \E f : IsRemoving(f, d, acc, docs, m)}
<1> SUFFICES ASSUME D # {} PROVE FALSE
  OBVIOUS
<1>1. PICK m \in D : \A k \in D : m <= k
  BY LeastExists
<1>2. IsRemoving([k \in 0..0 |-> acc], d, acc, docs, 0)
  <2>1. [k \in 0..0 |-> acc] = [k \in 0..0 |-> IF k = 0 THEN acc
                ELSE IF [j \in 0..0 |-> acc][k - 1].r # "success" THEN [j \in 0..0 |-> acc][k - 1] ELSE RemoveById(d, [j \in 0..0 |-> acc][k - 1].h, docs[k].id, FALSE)]
    <3>1. \A k \in 0..0 : k = 0
      OBVIOUS
    <3> QED
      BY <3>1, Zenon
  <2> QED
    BY <2>1, Zenon DEF IsRemoving
<1>3. m # 0 /\ m \in Nat
  BY <1>2
<1>4. m - 1 \in Nat /\ m - 1 \notin D /\ (m - 1) + 1 = m
  BY <1>1, <1>3
<1>5. PICK g : IsRemoving(g, d, acc, docs, m - 1)
  BY <1>4
<1>6. \E f : IsRemoving(f, d, acc, docs, (m - 1) + 1)
  BY <1>4, <1>5, RemovingMore
<1> QED
  BY <1>1, <1>4, <1>6

\* after of InsertEach, for the first n documents.
IsInserting(f, d, h, docs, n) ==
    f = [k \in 0..n |-> IF k = 0 THEN Result(h, "success") ELSE IF f[k - 1].r # "success" THEN f[k - 1] ELSE Insert(d, f[k - 1].h, docs[k].id, docs[k].f, TRUE, FALSE)]

\* One document more.
LEMMA InsertingMore ==
    ASSUME NEW d, NEW h, NEW docs, NEW n \in Nat, NEW g, IsInserting(g, d, h, docs, n)
    PROVE  \E f : IsInserting(f, d, h, docs, n + 1)
<1>1. PICK next : next = IF g[n].r # "success" THEN g[n] ELSE Insert(d, g[n].h, docs[n + 1].id, docs[n + 1].f, TRUE, FALSE)
  OBVIOUS
<1> DEFINE f == [k \in 0..(n + 1) |-> IF k <= n THEN g[k] ELSE next]
<1>2. ASSUME NEW k \in 0..(n + 1)
      PROVE  f[k] = IF k = 0 THEN Result(h, "success") ELSE IF f[k - 1].r # "success" THEN f[k - 1] ELSE Insert(d, f[k - 1].h, docs[k].id, docs[k].f, TRUE, FALSE)
  <2>1. CASE k \in 0..n
    <3>1. g[k] = IF k = 0 THEN Result(h, "success") ELSE IF g[k - 1].r # "success" THEN g[k - 1] ELSE Insert(d, g[k - 1].h, docs[k].id, docs[k].f, TRUE, FALSE)
      BY <2>1, Zenon DEF IsInserting
    <3>2. f[k] = g[k] /\ (k # 0 => f[k - 1] = g[k - 1])
      BY <2>1
    <3> HIDE DEF f
    <3> QED
      BY <3>1, <3>2, Zenon
  <2>2. CASE k = n + 1
    <3>1. k # 0 /\ f[k] = next /\ f[k - 1] = g[n]
      BY <2>2
    <3> HIDE DEF f
    <3> QED
      BY <1>1, <2>2, <3>1, Zenon
  <2>3. k \in 0..n \/ k = n + 1
    OBVIOUS
  <2> HIDE DEF f
  <2> QED
    BY <2>1, <2>2, <2>3, Zenon
<1>3. f = [k \in 0..(n + 1) |-> f[k]]
  OBVIOUS
<1> HIDE DEF f
<1>4. IsInserting(f, d, h, docs, n + 1)
  BY <1>2, <1>3, Zenon DEF IsInserting
<1> QED
  BY <1>4

\* So there is such a function for every number of them.
LEMMA InsertingExists ==
    ASSUME NEW d, NEW h, NEW docs, NEW n \in Nat
    PROVE  \E f : IsInserting(f, d, h, docs, n)
<1> DEFINE D == {m \in Nat : ~ \E f : IsInserting(f, d, h, docs, m)}
<1> SUFFICES ASSUME D # {} PROVE FALSE
  OBVIOUS
<1>1. PICK m \in D : \A k \in D : m <= k
  BY LeastExists
<1>2. IsInserting([k \in 0..0 |-> Result(h, "success")], d, h, docs, 0)
  <2>1. [k \in 0..0 |-> Result(h, "success")] = [k \in 0..0 |-> IF k = 0 THEN Result(h, "success")
                ELSE IF [j \in 0..0 |-> Result(h, "success")][k - 1].r # "success" THEN [j \in 0..0 |-> Result(h, "success")][k - 1] ELSE Insert(d, [j \in 0..0 |-> Result(h, "success")][k - 1].h, docs[k].id, docs[k].f, TRUE, FALSE)]
    <3>1. \A k \in 0..0 : k = 0
      OBVIOUS
    <3> QED
      BY <3>1, Zenon
  <2> QED
    BY <2>1, Zenon DEF IsInserting
<1>3. m # 0 /\ m \in Nat
  BY <1>2
<1>4. m - 1 \in Nat /\ m - 1 \notin D /\ (m - 1) + 1 = m
  BY <1>1, <1>3
<1>5. PICK g : IsInserting(g, d, h, docs, m - 1)
  BY <1>4
<1>6. \E f : IsInserting(f, d, h, docs, (m - 1) + 1)
  BY <1>4, <1>5, InsertingMore
<1> QED
  BY <1>1, <1>4, <1>6

\* after of CreateIndexHandle, for the first n documents.
IsIndexing(f, d, h, found, n) ==
    f = [k \in 0..n |-> IF k = 0 THEN h ELSE AddIndexValue(d, f[k - 1], found[k].f, found[k].id)]

\* One document more.
LEMMA IndexingMore ==
    ASSUME NEW d, NEW h, NEW found, NEW n \in Nat, NEW g, IsIndexing(g, d, h, found, n)
    PROVE  \E f : IsIndexing(f, d, h, found, n + 1)
<1>1. PICK next : next = AddIndexValue(d, g[n], found[n + 1].f, found[n + 1].id)
  OBVIOUS
<1> DEFINE f == [k \in 0..(n + 1) |-> IF k <= n THEN g[k] ELSE next]
<1>2. ASSUME NEW k \in 0..(n + 1)
      PROVE  f[k] = IF k = 0 THEN h ELSE AddIndexValue(d, f[k - 1], found[k].f, found[k].id)
  <2>1. CASE k \in 0..n
    <3>1. g[k] = IF k = 0 THEN h ELSE AddIndexValue(d, g[k - 1], found[k].f, found[k].id)
      BY <2>1, Zenon DEF IsIndexing
    <3>2. f[k] = g[k] /\ (k # 0 => f[k - 1] = g[k - 1])
      BY <2>1
    <3> HIDE DEF f
    <3> QED
      BY <3>1, <3>2, Zenon
  <2>2. CASE k = n + 1
    <3>1. k # 0 /\ f[k] = next /\ f[k - 1] = g[n]
      BY <2>2
    <3> HIDE DEF f
    <3> QED
      BY <1>1, <2>2, <3>1, Zenon
  <2>3. k \in 0..n \/ k = n + 1
    OBVIOUS
  <2> HIDE DEF f
  <2> QED
    BY <2>1, <2>2, <2>3, Zenon
<1>3. f = [k \in 0..(n + 1) |-> f[k]]
  OBVIOUS
<1> HIDE DEF f
<1>4. IsIndexing(f, d, h, found, n + 1)
  BY <1>2, <1>3, Zenon DEF IsIndexing
<1> QED
  BY <1>4

\* So there is such a function for every number of them.
LEMMA IndexingExists ==
    ASSUME NEW d, NEW h, NEW found, NEW n \in Nat
    PROVE  \E f : IsIndexing(f, d, h, found, n)
<1> DEFINE D == {m \in Nat : ~ \E f : IsIndexing(f, d, h, found, m)}
<1> SUFFICES ASSUME D # {} PROVE FALSE
  OBVIOUS
<1>1. PICK m \in D : \A k \in D : m <= k
  BY LeastExists
<1>2. IsIndexing([k \in 0..0 |-> h], d, h, found, 0)
  <2>1. [k \in 0..0 |-> h] = [k \in 0..0 |-> IF k = 0 THEN h
                ELSE AddIndexValue(d, [j \in 0..0 |-> h][k - 1], found[k].f, found[k].id)]
    <3>1. \A k \in 0..0 : k = 0
      OBVIOUS
    <3> QED
      BY <3>1, Zenon
  <2> QED
    BY <2>1, Zenon DEF IsIndexing
<1>3. m # 0 /\ m \in Nat
  BY <1>2
<1>4. m - 1 \in Nat /\ m - 1 \notin D /\ (m - 1) + 1 = m
  BY <1>1, <1>3
<1>5. PICK g : IsIndexing(g, d, h, found, m - 1)
  BY <1>4
<1>6. \E f : IsIndexing(f, d, h, found, (m - 1) + 1)
  BY <1>4, <1>5, IndexingMore
<1> QED
  BY <1>1, <1>4, <1>6

\* removeById for one document after another.
LEMMA RemoveEachHandle ==
    ASSUME NEW d, NEW sid \in Sid, StoreOK(d, sid), NEW acc, HandleOK(d, sid, acc.h), NEW found,
           NEW T, \A e \in T : e.id \in Id, NEW docs, found.byLink \/ docs \in Seq(T)
    PROVE  HandleOK(d, sid, RemoveEach(d, acc, found, docs).h)
<1> DEFINE L == Len(docs)
           after == CHOOSE f : IsRemoving(f, d, acc, docs, L)
<1>1. \/ RemoveEach(d, acc, found, docs) = acc
      \/ RemoveEach(d, acc, found, docs) = Result(acc.h, "errorDatabase")
      \/ /\ docs = <<>> \/ ~found.byLink
         /\ RemoveEach(d, acc, found, docs) = after[L]
  BY Zenon DEF RemoveEach, IsRemoving
<1>2. Result(acc.h, "errorDatabase").h = acc.h
  BY DEF Result
<1> HIDE DEF after
<1> SUFFICES ASSUME docs = <<>> \/ ~found.byLink PROVE HandleOK(d, sid, after[L].h)
  BY <1>1, <1>2
<1>3. docs \in Seq(T)
  <2>1. <<>> \in Seq(T)
    OBVIOUS
  <2> QED
    BY <2>1, Zenon
<1>4. L \in Nat /\ \A k \in 1..L : docs[k] \in T
  BY <1>3, LenProperties, ElementOfSeq
<1>5. IsRemoving(after, d, acc, docs, L)
  <2>1. \E f : IsRemoving(f, d, acc, docs, L)
    BY <1>4, RemovingExists
  <2> QED
    BY <2>1, Zenon DEF after
<1> HIDE DEF L
<1>6. \A k \in 0..L : after[k] = IF k = 0 THEN acc
                                 ELSE IF after[k - 1].r # "success" THEN after[k - 1]
                                 ELSE RemoveById(d, after[k - 1].h, docs[k].id, FALSE)
  BY <1>5 DEF IsRemoving
<1> DEFINE Good(k) == HandleOK(d, sid, after[k].h)
           Bad == {k \in 0..L : ~Good(k)}
<1> HIDE DEF Good
<1>7. Bad = {}
  <2> SUFFICES ASSUME Bad # {} PROVE FALSE
    OBVIOUS
  <2>1. PICK k \in Bad : \A m \in Bad : k <= m
    <3>1. Bad \in SUBSET Nat
      BY <1>4
    <3> HIDE DEF Bad
    <3> QED
      BY <3>1, LeastExists
  <2>2. k \in 0..L /\ ~Good(k)
    BY <2>1
  <2>3. k # 0
    <3>1. 0 \in 0..L
      BY <1>4
    <3>2. after[0] = acc
      BY <1>6, <3>1, Zenon
    <3> QED
      BY <2>2, <3>2 DEF Good
  <2>4. k - 1 \in 0..L /\ k - 1 < k /\ k \in 1..L
    BY <1>4, <2>2, <2>3
  <2>5. HandleOK(d, sid, after[k - 1].h)
    BY <2>1, <2>4 DEF Good
  <2>6. docs[k].id \in Id
    BY <1>4, <2>4
  <2>7. HandleOK(d, sid, RemoveById(d, after[k - 1].h, docs[k].id, FALSE).h)
    BY <2>5, <2>6, RemoveHandle
  <2>8. after[k] = after[k - 1] \/ after[k] = RemoveById(d, after[k - 1].h, docs[k].id, FALSE)
    BY <1>6, <2>2, <2>3, Zenon
  <2> QED
    BY <2>2, <2>5, <2>7, <2>8, Zenon DEF Good
<1>8. Good(L)
  BY <1>4, <1>7
<1> QED
  BY <1>8 DEF Good

\* insert for one document after another.
LEMMA InsertEachHandle ==
    ASSUME NEW d, NEW sid, NEW h, HandleOK(d, sid, h), NEW T, \A e \in T : e.f \in Val, NEW docs \in Seq(T)
    PROVE  HandleOK(d, sid, InsertEach(d, h, docs).h)
<1> DEFINE L == Len(docs)
           after == CHOOSE f : IsInserting(f, d, h, docs, L)
<1>1. InsertEach(d, h, docs) = after[L]
  BY Zenon DEF InsertEach, IsInserting
<1> HIDE DEF after
<1>2. L \in Nat /\ \A k \in 1..L : docs[k] \in T
  BY LenProperties, ElementOfSeq
<1>3. IsInserting(after, d, h, docs, L)
  <2>1. \E f : IsInserting(f, d, h, docs, L)
    BY <1>2, InsertingExists
  <2> QED
    BY <2>1, Zenon DEF after
<1> HIDE DEF L
<1>4. \A k \in 0..L : after[k] = IF k = 0 THEN Result(h, "success")
                                 ELSE IF after[k - 1].r # "success" THEN after[k - 1]
                                 ELSE Insert(d, after[k - 1].h, docs[k].id, docs[k].f, TRUE, FALSE)
  BY <1>3 DEF IsInserting
<1> DEFINE Good(k) == HandleOK(d, sid, after[k].h)
           Bad == {k \in 0..L : ~Good(k)}
<1> HIDE DEF Good
<1>5. Bad = {}
  <2> SUFFICES ASSUME Bad # {} PROVE FALSE
    OBVIOUS
  <2>1. PICK k \in Bad : \A m \in Bad : k <= m
    <3>1. Bad \in SUBSET Nat
      BY <1>2
    <3> HIDE DEF Bad
    <3> QED
      BY <3>1, LeastExists
  <2>2. k \in 0..L /\ ~Good(k)
    BY <2>1
  <2>3. k # 0
    <3>1. 0 \in 0..L
      BY <1>2
    <3>2. after[0].h = h
      BY <1>4, <3>1, ResultParts, Zenon
    <3> QED
      BY <2>2, <3>2 DEF Good
  <2>4. k - 1 \in 0..L /\ k - 1 < k /\ k \in 1..L
    BY <1>2, <2>2, <2>3
  <2>5. HandleOK(d, sid, after[k - 1].h)
    BY <2>1, <2>4 DEF Good
  <2>6. docs[k].f \in Val
    BY <1>2, <2>4
  <2>7. HandleOK(d, sid, Insert(d, after[k - 1].h, docs[k].id, docs[k].f, TRUE, FALSE).h)
    BY <2>5, <2>6, InsertHandle
  <2>8. \/ after[k] = after[k - 1]
        \/ after[k] = Insert(d, after[k - 1].h, docs[k].id, docs[k].f, TRUE, FALSE)
    BY <1>4, <2>2, <2>3, Zenon
  <2> QED
    BY <2>2, <2>5, <2>7, <2>8, Zenon DEF Good
<1>6. Good(L)
  BY <1>2, <1>5
<1> QED
  BY <1>1, <1>6 DEF Good

\* A full search goes through a sequence of documents.
LEMMA ScanFacts ==
    ASSUME NEW d, NEW s
    PROVE  /\ Scan(d, s) \in Seq({Doc(i, Value(d, i, s)) : i \in Id})
           /\ Range(Scan(d, s)) = {Doc(i, Value(d, i, s)) : i \in {j \in Id : Value(d, j, s) # None}}
<1> DEFINE S == {i \in Id : Value(d, i, s) # None}
           ids == Only([i \in Id |-> i], S)
<1>1. PICK all : all = [i \in Id |-> i]
  OBVIOUS
<1>2. all \in Seq(Id) /\ Range(all) = Id
  BY <1>1, ConstAssumption DEF Id, Range
<1> HIDE DEF S
<1>3. Only(all, S) \in Seq(Id \intersect S) /\ Range(Only(all, S)) = Id \intersect S
  BY <1>2, OnlyFacts
<1>4. ids \in Seq(Id \intersect S) /\ Range(ids) = Id \intersect S
  BY <1>1, <1>3, Zenon
<1>5. Scan(d, s) = [n \in DOMAIN ids |-> Doc(ids[n], Value(d, ids[n], s))]
  BY Zenon DEF Scan, S
<1> HIDE DEF ids
<1>6. Len(ids) \in Nat /\ DOMAIN ids = 1..Len(ids) /\ \A n \in 1..Len(ids) : ids[n] \in Id
  BY <1>4, LenProperties, ElementOfSeq
<1> DEFINE T == {Doc(i, Value(d, i, s)) : i \in Id}
<1>7. \A n \in 1..Len(ids) : Doc(ids[n], Value(d, ids[n], s)) \in T
  BY <1>6
<1> HIDE DEF T
<1>8. Scan(d, s) \in Seq(T)
  BY <1>5, <1>6, <1>7
<1>9. Range(Scan(d, s)) = {Doc(i, Value(d, i, s)) : i \in Range(ids)}
  <2>1. DOMAIN Scan(d, s) = DOMAIN ids
        /\ \A n \in DOMAIN ids : Scan(d, s)[n] = Doc(ids[n], Value(d, ids[n], s))
    BY <1>5
  <2> QED
    BY <2>1, Zenon DEF Range
<1>10. Range(ids) = {j \in Id : Value(d, j, s) # None}
  BY <1>4 DEF S
<1> QED
  BY <1>8, <1>9, <1>10, Zenon DEF T

\* createIndex leaves the documents alone.
LEMMA CreateIndexSameDocs ==
    ASSUME NEW d, NEW h, IsHandle(h)
    PROVE  SameDocs(CreateIndexHandle(d, h), h)
<1> DEFINE found == Scan(d, h.sid)
           L == Len(found)
           after == CHOOSE f : IsIndexing(f, d, h, found, L)
<1>1. CreateIndexHandle(d, h) = after[L]
  BY Zenon DEF CreateIndexHandle, IsIndexing
<1> HIDE DEF after
<1>2. L \in Nat
  BY ScanFacts, LenProperties
<1>3. IsIndexing(after, d, h, found, L)
  <2>1. \E f : IsIndexing(f, d, h, found, L)
    BY <1>2, IndexingExists
  <2> QED
    BY <2>1, Zenon DEF after
<1> HIDE DEF L, found
<1>4. \A k \in 0..L : after[k] = IF k = 0 THEN h
                                 ELSE AddIndexValue(d, after[k - 1], found[k].f, found[k].id)
  BY <1>3 DEF IsIndexing
<1> DEFINE Good(k) == SameDocs(after[k], h)
           Bad == {k \in 0..L : ~Good(k)}
<1> HIDE DEF Good
<1>5. Bad = {}
  <2> SUFFICES ASSUME Bad # {} PROVE FALSE
    OBVIOUS
  <2>1. PICK k \in Bad : \A m \in Bad : k <= m
    <3>1. Bad \in SUBSET Nat
      BY <1>2
    <3> HIDE DEF Bad
    <3> QED
      BY <3>1, LeastExists
  <2>2. k \in 0..L /\ ~Good(k)
    BY <2>1
  <2>3. k # 0
    <3>1. after[0] = h
      BY <1>2, <1>4
    <3> QED
      BY <2>2, <3>1, EntrySameDocs DEF Good
  <2>4. k - 1 \in 0..L /\ k - 1 < k /\ k \in 1..L
    BY <1>2, <2>2, <2>3
  <2>5. SameDocs(after[k - 1], h)
    BY <2>1, <2>4 DEF Good
  <2>6. SameDocs(AddIndexValue(d, after[k - 1], found[k].f, found[k].id), after[k - 1])
    BY <2>5, IndexSameDocs DEF SameDocs
  <2>7. after[k] = AddIndexValue(d, after[k - 1], found[k].f, found[k].id)
    BY <1>4, <2>2, <2>3, Zenon
  <2> QED
    BY <2>2, <2>5, <2>6, <2>7, SameDocsAgain, Zenon DEF Good
<1>6. Good(L)
  BY <1>2, <1>5
<1> QED
  BY <1>1, <1>6 DEF Good

\* A full search returns documents that are there.
LEMMA FullSearchFacts ==
    ASSUME NEW d, NEW s, NEW q
    PROVE  /\ FullSearch(d, s, q) \in Seq({Doc(i, Value(d, i, s)) : i \in Id})
           /\ Range(FullSearch(d, s, q)) = {e \in Range(Scan(d, s)) : Matches(q, e)}
<1> DEFINE T == {Doc(i, Value(d, i, s)) : i \in Id}
           S == {e \in Range(Scan(d, s)) : Matches(q, e)}
<1>1. Scan(d, s) \in Seq(T)
  BY ScanFacts
<1>2. FullSearch(d, s, q) = Only(Scan(d, s), S)
  BY Zenon DEF FullSearch
<1>3. S \subseteq Range(Scan(d, s))
  OBVIOUS
<1> HIDE DEF S, T
<1>4. Only(Scan(d, s), S) \in Seq(T \intersect S) /\ Range(Only(Scan(d, s), S)) = Range(Scan(d, s)) \intersect S
  BY <1>1, OnlyFacts
<1>5. FullSearch(d, s, q) \in Seq(T)
  BY <1>2, <1>4, SeqMonotonic
<1>6. Range(FullSearch(d, s, q)) = S
  BY <1>2, <1>3, <1>4
<1> QED
  BY <1>5, <1>6 DEF S, T

\* A find that does not go through link keys returns documents by their ids.
LEMMA FindReply ==
    ASSUME NEW d, NEW h, NEW q
    PROVE  \/ Find(d, h, q, None).byLink
           \/ Find(d, h, q, None).reply \in Seq({Doc(i, Value(d, i, h.sid)) : i \in Id})
<1>1. ApplyOptions(FullSearch(d, h.sid, q), None) = FullSearch(d, h.sid, q)
  BY Zenon DEF ApplyOptions
<1>2. FullSearch(d, h.sid, q) \in Seq({Doc(i, Value(d, i, h.sid)) : i \in Id})
  BY FullSearchFacts
<1>3. \/ Find(d, h, q, None).byLink
      \/ Find(d, h, q, None).reply = ApplyOptions(FullSearch(d, h.sid, q), None)
  <2>1. CASE q.kind = "id"
    BY <2>1 DEF Find
  <2>2. CASE q.kind = "f" /\ indexed
    BY <2>2 DEF Find
  <2>3. CASE ~(q.kind = "id") /\ ~(q.kind = "f" /\ indexed)
    BY <2>3 DEF Find
  <2> QED
    BY <2>1, <2>2, <2>3
<1> QED
  BY <1>1, <1>2, <1>3

\* remove and set, made of the operations above.
LEMMA RequestHandles ==
    ASSUME NEW d, NEW sid \in Sid, StoreOK(d, sid), NEW h, HandleOK(d, sid, h), NEW q
    PROVE  /\ HandleOK(d, sid, RemoveByQuery(d, h, q).h)
           /\ \A docs \in Docs : HandleOK(d, sid, SetDocs(d, h, q, docs).h)
<1> DEFINE T == {Doc(i, Value(d, i, sid)) : i \in Id}
           found == Find(d, h, q, None)
<1>1. h.sid = sid
  BY DEF HandleOK
<1>2. found.byLink \/ found.reply \in Seq(T)
  BY <1>1, FindReply
<1>3. \A e \in T : e.id \in Id
  BY DEF Doc
<1> HIDE DEF T, found
<1>4. HandleOK(d, sid, RemoveByQuery(d, h, q).h)
  <2>1. RemoveByQuery(d, h, q) = RemoveEach(d, Result(h, found.r), found, found.reply)
    BY Zenon DEF RemoveByQuery, found
  <2>2. HandleOK(d, sid, Result(h, found.r).h)
    BY ResultParts
  <2> QED
    BY <1>2, <1>3, <2>1, <2>2, RemoveEachHandle
<1>5. ASSUME NEW docs \in Docs
      PROVE  HandleOK(d, sid, SetDocs(d, h, q, docs).h)
  <2> DEFINE known == Range(docs) \intersect Range(found.reply)
             matching == {e \in Range(docs) : Matches(q, e)}
             kept == {e.id : e \in known \union matching}
             keep == {e \in Range(found.reply) : found.byLink \/ e.id \notin kept}
             rest == Only(found.reply, keep)
             put == Only(docs, matching \ known)
  <2>1. SetDocs(d, h, q, docs) = RemoveEach(d, InsertEach(d, h, put), found, rest)
    BY Zenon DEF SetDocs, found
  <2> HIDE DEF known, matching, keep
  <2> DEFINE D == [id : 1..MaxId, f : Val]
  <2>2. docs \in Seq(D) /\ \A e \in D : e.f \in Val
    BY ConstAssumption
  <2> HIDE DEF D
  <2>3. put \in Seq(D \intersect (matching \ known))
    BY <2>2, OnlyFacts
  <2>4. HandleOK(d, sid, InsertEach(d, h, put).h)
    BY <2>2, <2>3, InsertEachHandle
  <2>5. found.byLink \/ rest \in Seq(T \intersect keep)
    BY <1>2, OnlyFacts
  <2>6. \A e \in T \intersect keep : e.id \in Id
    BY <1>3
  <2> HIDE DEF put, rest
  <2> QED
    BY <2>1, <2>4, <2>5, <2>6, RemoveEachHandle
<1> QED
  BY <1>4, <1>5

\* copyIndexValues leaves the documents alone.
LEMMA CopySameDocs ==
    ASSUME NEW d, NEW h, IsHandle(h), NEW r, NEW s
    PROVE  SameDocs(CopyIndexValues(d, h, r, s), h)
<1> DEFINE from == {k \in DOMAIN d : k[1] = "iv" /\ k[2] = s}
           kv == [k \in {IvKey(r, k[3]) : k \in from} |-> d[IvKey(s, k[3])]]
<1>1. CopyIndexValues(d, h, r, s) = PutAll(h, kv)
  BY Zenon DEF CopyIndexValues
<1>2. \A i, x : StartKey(i) \notin DOMAIN kv /\ DocKey(i, x) \notin DOMAIN kv
  BY Keys
<1> HIDE DEF kv
<1>3. PICK g : g = PutAll(h, kv)
  OBVIOUS
<1>4. IsHandle(g) /\ g.sid = h.sid /\ \A x : x \notin DOMAIN kv => SameKey(g, h, x)
  BY <1>3, PutAllSays
<1> QED
  BY <1>1, <1>2, <1>3, <1>4 DEF SameDocs

\* What LevelDB holds after the writes of a handle.
LEMMA WrittenFacts ==
    ASSUME Store # "map", NEW d, NEW h, NEW k
    PROVE  /\ k \in DOMAIN Written(d, h) <=> Puts(h, k) \/ (k \in DOMAIN d /\ k \notin h.deleted)
           /\ Puts(h, k) => Written(d, h)[k] = h.cache[k]
           /\ k \in DOMAIN d /\ k \notin h.deleted /\ ~Puts(h, k) => Written(d, h)[k] = d[k]
<1> DEFINE f == Restrict(h.cache, DOMAIN h.cache \ h.deleted)
           g == Restrict(d, DOMAIN d \ h.deleted)
<1>1. Written(d, h) = Over(f, g)
  BY DEF Written
<1>2. DOMAIN f = DOMAIN h.cache \ h.deleted /\ \A x \in DOMAIN f : f[x] = h.cache[x]
  BY DEF Restrict
<1>3. DOMAIN g = DOMAIN d \ h.deleted /\ \A x \in DOMAIN g : g[x] = d[x]
  BY DEF Restrict
<1> HIDE DEF f, g
<1>4. DOMAIN Over(f, g) = DOMAIN f \union DOMAIN g
      /\ \A x \in DOMAIN Over(f, g) : Over(f, g)[x] = IF x \in DOMAIN f THEN f[x] ELSE g[x]
  BY DEF Over
<1> QED
  BY <1>1, <1>2, <1>3, <1>4 DEF Puts

\* A write at snapshot sid: no other version changes, and a start key goes only
\* when there is no other version.
DocWrite(d, e, sid) ==
    /\ StoreOK(e, sid)
    /\ \A i \in Id, s \in Sid : s # sid =>
          /\ DocKey(i, s) \in DOMAIN e <=> DocKey(i, s) \in DOMAIN d
          /\ DocKey(i, s) \in DOMAIN d => e[DocKey(i, s)] = d[DocKey(i, s)]
    /\ \A i \in Id : HasStart(d, i) /\ ~HasStart(e, i) => Versions(d, i) \subseteq {sid}

\* That is what the operations of a handle amount to.
LEMMA HandleWrites ==
    ASSUME Store # "map", NEW d, NEW sid \in Sid, StoreOK(d, sid), NEW h, HandleOK(d, sid, h)
    PROVE  DocWrite(d, Written(d, h), sid)
<1> DEFINE e == Written(d, h)
<1>1. \A k : /\ k \in DOMAIN e <=> Puts(h, k) \/ (k \in DOMAIN d /\ k \notin h.deleted)
             /\ Puts(h, k) => e[k] = h.cache[k]
             /\ k \in DOMAIN d /\ k \notin h.deleted /\ ~Puts(h, k) => e[k] = d[k]
  BY WrittenFacts
<1> HIDE DEF e
<1>2. ASSUME NEW i \in Id, NEW s \in Sid, DocKey(i, s) \in DOMAIN e
      PROVE  /\ s <= sid
             /\ e[DocKey(i, s)] = Tomb \/ (e[DocKey(i, s)] \in Val /\ HasStart(e, i))
  <2>1. CASE Puts(h, DocKey(i, s))
    <3>1. s = sid
      BY <2>1 DEF HandleOK, Puts
    <3>2. e[DocKey(i, s)] = h.cache[DocKey(i, s)]
      BY <1>1, <2>1
    <3>3. Puts(h, StartKey(i)) => HasStart(e, i)
      BY <1>1 DEF HasStart
    <3> QED
      BY <2>1, <3>1, <3>2, <3>3, ConstAssumption DEF HandleOK, Sid
  <2>2. CASE ~Puts(h, DocKey(i, s))
    <3>1. DocKey(i, s) \in DOMAIN d /\ DocKey(i, s) \notin h.deleted /\ e[DocKey(i, s)] = d[DocKey(i, s)]
      BY <1>1, <1>2, <2>2
    <3>2. s <= sid /\ (d[DocKey(i, s)] = Tomb \/ (d[DocKey(i, s)] \in Val /\ HasStart(d, i)))
      BY <3>1 DEF StoreOK
    <3>3. StartKey(i) \notin h.deleted
      <4> SUFFICES ASSUME StartKey(i) \in h.deleted PROVE FALSE
        OBVIOUS
      <4>1. s = sid
        BY <3>1 DEF HandleOK, Versions
      <4>2. DocKey(i, sid) \in DOMAIN h.cache
        BY <3>1, <4>1 DEF HandleOK
      <4> QED
        BY <2>2, <3>1, <4>1, <4>2 DEF Puts
    <3>4. HasStart(d, i) => HasStart(e, i)
      BY <1>1, <3>3 DEF HasStart
    <3> QED
      BY <3>1, <3>2, <3>4
  <2> QED
    BY <2>1, <2>2
<1>3. ASSUME NEW i \in Id, NEW s \in Sid, s # sid
      PROVE  /\ DocKey(i, s) \in DOMAIN e <=> DocKey(i, s) \in DOMAIN d
             /\ DocKey(i, s) \in DOMAIN d => e[DocKey(i, s)] = d[DocKey(i, s)]
  <2>1. DocKey(i, s) \notin DOMAIN h.cache /\ DocKey(i, s) \notin h.deleted
    BY <1>3 DEF HandleOK
  <2> QED
    BY <1>1, <2>1 DEF Puts
<1>4. ASSUME NEW i \in Id, HasStart(d, i), ~HasStart(e, i)
      PROVE  Versions(d, i) \subseteq {sid}
  <2>1. StartKey(i) \in h.deleted
    BY <1>1, <1>4 DEF HasStart
  <2> QED
    BY <2>1 DEF HandleOK
<1> QED
  BY <1>2, <1>3, <1>4 DEF DocWrite, StoreOK, e

\* Two stores that differ at snapshot sid only.
SameBut(d, e, sid) ==
    \A i \in Id, s \in Sid : s # sid =>
        /\ DocKey(i, s) \in DOMAIN e <=> DocKey(i, s) \in DOMAIN d
        /\ DocKey(i, s) \in DOMAIN d => e[DocKey(i, s)] = d[DocKey(i, s)]

\* What is read below that snapshot is the same in both.
LEMMA SameViews ==
    ASSUME NEW d, NEW e, NEW sid, StoreOK(d, sid), StoreOK(e, sid), SameBut(d, e, sid),
           NEW i \in Id, NEW s, s < sid, sid \in Sid, s \in Sid
    PROVE  Value(e, i, s) = Value(d, i, s)
<1>1. \A r \in Sid : r <= s => r # sid
  BY ConstAssumption DEF Sid
<1>2. UpTo(e, i, s) = UpTo(d, i, s)
  BY <1>1 DEF UpTo, Versions, SameBut
<1>3. CASE UpTo(d, i, s) = {}
  BY <1>2, <1>3 DEF Value
<1>4. CASE UpTo(d, i, s) # {}
  <2> DEFINE m == Max(UpTo(d, i, s))
  <2>1. m \in UpTo(d, i, s) /\ UpTo(d, i, s) \in SUBSET Sid
    BY <1>4, UpToMax
  <2>2. m \in Sid /\ m # sid /\ DocKey(i, m) \in DOMAIN d
    BY <1>1, <2>1 DEF UpTo, Versions
  <2>3. DocKey(i, m) \in DOMAIN e /\ e[DocKey(i, m)] = d[DocKey(i, m)]
    BY <2>2 DEF SameBut
  <2>4. ~HasStart(e, i) => d[DocKey(i, m)] = Tomb
    BY <2>2, <2>3 DEF StoreOK
  <2>5. ~HasStart(d, i) => d[DocKey(i, m)] = Tomb
    BY <2>2 DEF StoreOK
  <2>6. Value(e, i, s) = IF ~HasStart(e, i) \/ d[DocKey(i, m)] = Tomb THEN None ELSE d[DocKey(i, m)]
    BY <1>2, <1>4, <2>3 DEF Value
  <2>7. Value(d, i, s) = IF ~HasStart(d, i) \/ d[DocKey(i, m)] = Tomb THEN None ELSE d[DocKey(i, m)]
    BY <1>4 DEF Value
  <2> HIDE DEF m
  <2> QED
    BY <2>4, <2>5, <2>6, <2>7
<1> QED
  BY <1>3, <1>4

\* What is read below the snapshot that was written does not change.
LEMMA WriteViews ==
    ASSUME NEW d, NEW e, NEW sid, StoreOK(d, sid), DocWrite(d, e, sid), NEW i \in Id, NEW s, s < sid,
           sid \in Sid, s \in Sid
    PROVE  Value(e, i, s) = Value(d, i, s)
BY SameViews DEF DocWrite, SameBut

\* A handle made for one of two such stores, written to each of them.
LEMMA SameWrites ==
    ASSUME Store # "map", NEW d, NEW e, NEW sid \in Sid, StoreOK(d, sid), StoreOK(e, sid),
           SameBut(d, e, sid), NEW h, HandleOK(d, sid, h)
    PROVE  /\ StoreOK(Written(e, h), sid)
           /\ SameBut(d, Written(e, h), sid)
           /\ SameBut(Written(d, h), Written(e, h), sid)
<1>1. \A i \in Id : Versions(d, i) \subseteq {sid} => Versions(e, i) \subseteq {sid}
  BY DEF SameBut, Versions
<1>2. HandleOK(e, sid, h)
  BY <1>1 DEF HandleOK
<1>3. PICK f, g : f = Written(d, h) /\ g = Written(e, h)
  OBVIOUS
<1>4. DocWrite(d, f, sid) /\ DocWrite(e, g, sid)
  BY <1>2, <1>3, HandleWrites
<1> QED
  BY <1>3, <1>4 DEF DocWrite, SameBut

\* A handle stays as it should be when another one at its snapshot is written.
LEMMA HandleStays ==
    ASSUME NEW d, NEW e, NEW sid, NEW g, HandleOK(d, sid, g), DocWrite(d, e, sid)
    PROVE  HandleOK(e, sid, g)
<1>1. \A i \in Id : Versions(d, i) \subseteq {sid} => Versions(e, i) \subseteq {sid}
  BY DEF DocWrite, Versions
<1> QED
  BY <1>1 DEF HandleOK

-----------------------------------------------------------------------------
(* Snapshots before and after a request.                                   *)

\* getSnapshotId of the name at a position of the list, while there are no more
\* snapshots than ids.
LEMMA SidOfAt ==
    ASSUME NEW ss, ListOK(ss), Len(ss) <= SnapshotIds, NEW p \in 1..Len(ss)
    PROVE  SidOf(ss, ss[p]) = p - 1 /\ p - 1 \in Sid
<1>1. DOMAIN ss = 1..Len(ss) /\ Len(ss) \in Nat
  BY ListLength
<1>2. PICK n : n = ss[p]
  OBVIOUS
<1> DEFINE Is(k) == ss[k] = n /\ \A m \in 1..(k - 1) : ss[m] # n
           q == CHOOSE k \in DOMAIN ss : Is(k)
<1>3. SidOf(ss, n) = (q - 1) % SnapshotIds
  BY DEF SidOf
<1>4. \A k \in DOMAIN ss : ss[k] = n => k = p
  BY <1>1, <1>2 DEF ListOK, SnapshotListOK
<1>5. p \in DOMAIN ss /\ \A k \in DOMAIN ss : Is(k) <=> k = p
  <2>1. p \in DOMAIN ss /\ \A m \in 1..(p - 1) : m \in DOMAIN ss /\ m # p
    BY <1>1
  <2>2. Is(p)
    BY <1>2, <1>4, <2>1
  <2>3. \A k \in DOMAIN ss : Is(k) => k = p
    BY <1>4
  <2> HIDE DEF Is
  <2> QED
    BY <2>1, <2>2, <2>3
<1> HIDE DEF Is
<1>6. q = p
  BY <1>5
<1> HIDE DEF q
<1>7. p - 1 \in 0..(SnapshotIds - 1) /\ p - 1 = SnapshotIds * 0 + (p - 1)
  BY <1>1, ConstAssumption
<1>8. (p - 1) % SnapshotIds = p - 1
  <2>1. p - 1 \in Int /\ SnapshotIds \in Nat \ {0} /\ 0 \in Int
    BY <1>1, ConstAssumption
  <2> QED
    BY <1>7, <2>1, ModUnique
<1> QED
  BY <1>2, <1>3, <1>7, <1>6, <1>8 DEF Sid

\* A name in the list stands before its end.
LEMMA NameAt ==
    ASSUME NEW ss, ListOK(ss), NEW n \in Names(ss)
    PROVE  \E p \in 1..(Len(ss) - 1) : ss[p] = n
<1>1. DOMAIN ss = 1..Len(ss) /\ Len(ss) \in Nat \ {0} /\ ss[Len(ss)] = Current
  BY ListLength DEF ListOK, SnapshotListOK
<1>2. PICK p \in DOMAIN ss : ss[p] = n
  BY DEF Names, Range
<1>3. n # Current
  BY DEF Names
<1> QED
  BY <1>1, <1>2, <1>3

\* Snapshots that are in both lists show the same documents in both stores.
SameSnapshots(d, ss, e, tt) ==
    \A n \in Names(ss) \intersect Names(tt) : View(e, SidOf(tt, n)) = View(d, SidOf(ss, n))

\* It is enough that every snapshot of the new list was in the old one at a
\* place where the same was to be read.
LEMMA SnapshotsStay ==
    ASSUME NEW d, NEW e, NEW ss, NEW tt, ListOK(ss), ListOK(tt),
           Len(ss) <= SnapshotIds, Len(tt) <= SnapshotIds,
           NEW at, \A p \in 1..(Len(tt) - 1) :
                      tt[p] \in Names(ss) => /\ at[p] \in 1..Len(ss) /\ ss[at[p]] = tt[p]
                                             /\ \A i \in Id : Value(e, i, p - 1) = Value(d, i, at[p] - 1)
    PROVE  SameSnapshots(d, ss, e, tt)
<1> SUFFICES ASSUME NEW n \in Names(ss) \intersect Names(tt)
             PROVE  View(e, SidOf(tt, n)) = View(d, SidOf(ss, n))
  BY DEF SameSnapshots
<1>1. PICK p \in 1..(Len(tt) - 1) : tt[p] = n
  BY NameAt
<1>2. at[p] \in 1..Len(ss) /\ ss[at[p]] = n /\ \A i \in Id : Value(e, i, p - 1) = Value(d, i, at[p] - 1)
  BY <1>1
<1>3. p \in 1..Len(tt)
  BY <1>1, ListLength
<1>4. SidOf(tt, n) = p - 1 /\ SidOf(ss, n) = at[p] - 1
  BY <1>1, <1>2, <1>3, SidOfAt
<1> QED
  BY <1>2, <1>4 DEF View

\* A new handle with nothing for documents, written.
LEMMA DocsUnchanged ==
    ASSUME Store # "map", NEW d, NEW h, SameDocs(h, NewHandle), NEW top, NEW more,
           StoreOK(d, top), top \in Int, more \in Int, top <= more
    PROVE  LET e == Written(d, h) IN
           /\ StoreOK(e, more)
           /\ \A i \in Id : \A s : Value(e, i, s) = Value(d, i, s)
<1> DEFINE e == Written(d, h)
<1>1. HandleOK(d, snapshotId, NewHandle) /\ NewHandle.cache = NoKeys /\ NewHandle.deleted = {}
  BY NewHandleOK DEF NewHandle
<1>2. \A i, s : /\ ~Puts(h, StartKey(i)) /\ StartKey(i) \notin h.deleted
                /\ ~Puts(h, DocKey(i, s)) /\ DocKey(i, s) \notin h.deleted
  BY <1>1 DEF SameDocs, SameKey, NoKeys, Puts
<1>3. \A k : ~Puts(h, k) /\ k \notin h.deleted =>
                /\ k \in DOMAIN e <=> k \in DOMAIN d
                /\ k \in DOMAIN d => e[k] = d[k]
  BY WrittenFacts
<1> HIDE DEF e
<1>4. \A i : HasStart(e, i) <=> HasStart(d, i)
  BY <1>2, <1>3 DEF HasStart
<1>5. \A i, s : /\ DocKey(i, s) \in DOMAIN e <=> DocKey(i, s) \in DOMAIN d
                /\ DocKey(i, s) \in DOMAIN d => e[DocKey(i, s)] = d[DocKey(i, s)]
  BY <1>2, <1>3
<1>6. StoreOK(e, more)
  <2> SUFFICES ASSUME NEW i \in Id, NEW s \in Sid, DocKey(i, s) \in DOMAIN e
               PROVE  /\ s <= more
                      /\ e[DocKey(i, s)] = Tomb \/ (e[DocKey(i, s)] \in Val /\ HasStart(e, i))
    BY DEF StoreOK
  <2>1. DocKey(i, s) \in DOMAIN d /\ e[DocKey(i, s)] = d[DocKey(i, s)]
    BY <1>5
  <2>2. s <= top /\ (d[DocKey(i, s)] = Tomb \/ (d[DocKey(i, s)] \in Val /\ HasStart(d, i)))
    BY <2>1 DEF StoreOK
  <2>3. s <= more
    BY <2>2, ConstAssumption DEF Sid
  <2> QED
    BY <1>4, <2>1, <2>2, <2>3
<1>7. ASSUME NEW i \in Id, NEW s
      PROVE  Value(e, i, s) = Value(d, i, s)
  <2>1. UpTo(e, i, s) = UpTo(d, i, s)
    BY <1>5 DEF UpTo, Versions
  <2>2. UpTo(d, i, s) # {} => DocKey(i, Max(UpTo(d, i, s))) \in DOMAIN d
    BY UpToMax DEF UpTo, Versions
  <2>3. UpTo(d, i, s) # {} => e[DocKey(i, Max(UpTo(d, i, s)))] = d[DocKey(i, Max(UpTo(d, i, s)))]
    BY <1>5, <2>2
  <2> QED
    BY <1>4, <2>1, <2>3 DEF Value
<1> QED
  BY <1>6, <1>7 DEF e

\* A small number is its own remainder.
LEMMA ModSmall ==
    ASSUME NEW n \in Nat, NEW S \in Nat \ {0}, n < S
    PROVE  n % S = n
<1>1. n \in 0..(S - 1) /\ n = S * 0 + n
  OBVIOUS
<1> QED
  BY <1>1, ModUnique

\* A start key owns the versions of its document.
LEMMA OwnerIs ==
    ASSUME NEW d, NEW i \in Id, HasStart(d, i)
    PROVE  Owner(d, i) = i
<1> DEFINE S == {0} \union {j \in 1..i : HasStart(d, j)}
<1>1. i \in Nat /\ i \in S /\ S \in SUBSET Nat /\ \A j \in S : j <= i
  BY ConstAssumption DEF Id
<1>2. Owner(d, i) = Max(S)
  BY DEF Owner
<1> HIDE DEF S
<1>3. Bounded(S) /\ S # {}
  BY <1>1 DEF Bounded
<1>4. Max(S) \in S /\ \A j \in S : j <= Max(S)
  BY <1>1, <1>3, MaxFacts
<1>5. Max(S) \in Nat /\ Max(S) <= i /\ i <= Max(S)
  BY <1>1, <1>4
<1> QED
  BY <1>1, <1>2, <1>5

\* revertToSnapshot leaves the versions up to k, and the start keys of the
\* documents that have any; of the index entries those of snapshots up to k.
LEMMA RevertEffect ==
    ASSUME Store # "map", NEW d, NEW k \in Nat, k < Len(snapshots), Len(snapshots) \in Nat,
           Len(snapshots) <= SnapshotIds, StoreOK(d, Len(snapshots) - 1)
    PROVE  LET e == Written(d, RevertHandle(d, k)) IN
           /\ StoreOK(e, k)
           /\ \A i \in Id, s \in 0..k : Value(e, i, s) = Value(d, i, s) /\ UpTo(e, i, s) = UpTo(d, i, s)
           /\ \A x \in DOMAIN e : x \in DOMAIN d /\ e[x] = d[x]
           /\ \A x \in DOMAIN d : x[1] = "iv" =>
                 (x \in DOMAIN e <=> x[2] \notin (k + 1)..(Len(snapshots) - 1))
<1> DEFINE later == {n % SnapshotIds : n \in (k + 1)..(Len(snapshots) - 1)}
           gone == {c \in Id \X Sid : c[2] \in Versions(d, c[1]) /\ c[2] \in later}
           bare == {i \in Id : HasStart(d, i) /\ Group(d, i) \subseteq gone}
           iv == {x \in DOMAIN d : x[1] = "iv" /\ x[2] \in later}
           K == VersionKeys(gone) \union {StartKey(i) : i \in bare} \union iv
           h == RevertHandle(d, k)
           e == Written(d, h)
<1>1. h = DeleteAll(NewHandle, K)
  BY Zenon DEF RevertHandle
<1>2. IsHandle(NewHandle) /\ NewHandle.cache = NoKeys /\ NewHandle.deleted = {}
  BY NewHandleOK DEF HandleOK, NewHandle
<1>3. later = (k + 1)..(Len(snapshots) - 1)
  <2>1. \A n \in (k + 1)..(Len(snapshots) - 1) : n \in Nat /\ n < SnapshotIds /\ n % SnapshotIds = n
    <3>1. SnapshotIds \in Nat \ {0}
      BY ConstAssumption
    <3> SUFFICES ASSUME NEW n \in (k + 1)..(Len(snapshots) - 1)
                 PROVE  n \in Nat /\ n < SnapshotIds /\ n % SnapshotIds = n
      OBVIOUS
    <3>2. n \in Nat /\ n < SnapshotIds
      BY <3>1
    <3> QED
      BY <3>1, <3>2, ModSmall
  <2> QED
    BY <2>1
<1> HIDE DEF later
<1>4. ASSUME NEW i \in Id, NEW s \in Sid
      PROVE  DocKey(i, s) \in K <=> s \in Versions(d, i) /\ s \in later
  <2>1. DocKey(i, s) \in VersionKeys(gone) <=> <<i, s>> \in gone
    <3>1. ASSUME DocKey(i, s) \in VersionKeys(gone)
          PROVE  <<i, s>> \in gone
      <4>1. PICK c \in gone : DocKey(i, s) = DocKey(c[1], c[2])
        BY <3>1 DEF VersionKeys
      <4>2. c \in Id \X Sid /\ c[1] = i /\ c[2] = s
        BY <4>1, Keys
      <4>3. c = <<i, s>>
        BY <4>2
      <4> QED
        BY <4>1, <4>3
    <3>2. ASSUME <<i, s>> \in gone
          PROVE  DocKey(i, s) \in VersionKeys(gone)
      <4>1. DocKey(i, s) = DocKey(<<i, s>>[1], <<i, s>>[2])
        OBVIOUS
      <4> HIDE DEF gone
      <4> QED
        BY <3>2, <4>1, Zenon DEF VersionKeys
    <3> QED
      BY <3>1, <3>2
  <2>2. DocKey(i, s) \notin iv
    BY DEF DocKey
  <2>3. DocKey(i, s) \notin {StartKey(j) : j \in bare}
    BY Keys
  <2>4. <<i, s>> \in gone <=> s \in Versions(d, i) /\ s \in later
    OBVIOUS
  <2> HIDE DEF gone, iv, bare
  <2> QED
    BY <2>1, <2>2, <2>3, <2>4
<1>5. ASSUME NEW i \in Id
      PROVE  StartKey(i) \in K <=> i \in bare
  <2>1. StartKey(i) \notin VersionKeys(gone)
    BY Keys DEF VersionKeys
  <2>2. StartKey(i) \notin iv
    BY DEF StartKey
  <2>3. StartKey(i) \in {StartKey(j) : j \in bare} <=> i \in bare
    BY Keys
  <2> HIDE DEF gone, iv, bare
  <2> QED
    BY <2>1, <2>2, <2>3
<1>6. ASSUME NEW x, x[1] = "iv"
       PROVE  x \in K <=> x \in DOMAIN d /\ x[2] \in later
  <2>1. x \in iv <=> x \in DOMAIN d /\ x[2] \in later
    BY <1>6
  <2>2. \A i, s : DocKey(i, s)[1] = "d" /\ StartKey(i)[1] = "d"
    BY DEF DocKey, StartKey
  <2>3. x \notin VersionKeys(gone)
    <3> HIDE DEF gone
    <3> QED
      BY <1>6, <2>2 DEF VersionKeys
  <2>4. x \notin {StartKey(i) : i \in bare}
    BY <1>6, <2>2
  <2> HIDE DEF gone, iv, bare
  <2> QED
    BY <2>1, <2>3, <2>4
<1>7. h.cache = NoKeys /\ h.deleted = K
  <2> HIDE DEF K, h
  <2>1. DeleteAll(NewHandle, K).cache = NewHandle.cache
        /\ DeleteAll(NewHandle, K).deleted = NewHandle.deleted \union K
    BY <1>2, DeleteAllSays
  <2> QED
    BY <1>1, <1>2, <2>1
<1> HIDE DEF K
<1>8. \A x : /\ x \in DOMAIN e <=> x \in DOMAIN d /\ x \notin K
             /\ x \in DOMAIN e => e[x] = d[x]
  <2> HIDE DEF h
  <2>1. \A x : ~Puts(h, x)
    BY <1>7 DEF Puts, NoKeys
  <2> QED
    BY <1>7, <2>1, WrittenFacts
<1> HIDE DEF e, h
<1>9. ASSUME NEW i \in Id, HasStart(d, i), NEW s \in Versions(d, i), s <= k
      PROVE  HasStart(e, i)
  <2>1. <<i, s>> \in Group(d, i)
    BY <1>9, OwnerIs DEF Group, Versions
  <2>2. s \notin later
    BY <1>3, <1>9, ConstAssumption DEF Versions, Sid
  <2>3. i \notin bare
    BY <2>1, <2>2
  <2> HIDE DEF bare
  <2> QED
    BY <1>5, <1>8, <1>9, <2>3 DEF HasStart
<1>10. ASSUME NEW i \in Id, NEW s \in Sid
      PROVE  DocKey(i, s) \in DOMAIN e <=> DocKey(i, s) \in DOMAIN d /\ s <= k
  <2>1. DocKey(i, s) \in DOMAIN d => s <= Len(snapshots) - 1
    BY DEF StoreOK
  <2>2. DocKey(i, s) \in DOMAIN d => (s \in later <=> ~(s <= k))
    BY <1>3, <2>1, ConstAssumption DEF Sid
  <2> QED
    BY <1>4, <1>8, <2>2 DEF Versions
<1>11. StoreOK(e, k)
  <2> SUFFICES ASSUME NEW i \in Id, NEW s \in Sid, DocKey(i, s) \in DOMAIN e
               PROVE  /\ s <= k
                      /\ e[DocKey(i, s)] = Tomb \/ (e[DocKey(i, s)] \in Val /\ HasStart(e, i))
    BY DEF StoreOK
  <2>1. DocKey(i, s) \in DOMAIN d /\ s <= k /\ e[DocKey(i, s)] = d[DocKey(i, s)]
    BY <1>8, <1>10
  <2>2. d[DocKey(i, s)] = Tomb \/ (d[DocKey(i, s)] \in Val /\ HasStart(d, i))
    BY <2>1 DEF StoreOK
  <2>3. s \in Versions(d, i)
    BY <2>1 DEF Versions
  <2> QED
    BY <1>9, <2>1, <2>2, <2>3
<1>12. ASSUME NEW i \in Id, NEW s \in 0..k
       PROVE  Value(e, i, s) = Value(d, i, s) /\ UpTo(e, i, s) = UpTo(d, i, s)
  <2>1. UpTo(e, i, s) = UpTo(d, i, s)
    <3>1. \A r \in Sid : r <= s => r <= k
      BY ConstAssumption DEF Sid
    <3> QED
      BY <1>10, <3>1 DEF UpTo, Versions
  <2>2. CASE UpTo(d, i, s) = {}
    BY <2>1, <2>2 DEF Value
  <2>3. CASE UpTo(d, i, s) # {}
    <3> DEFINE m == Max(UpTo(d, i, s))
    <3>1. m \in UpTo(e, i, s) /\ m \in UpTo(d, i, s)
      BY <2>1, <2>3, UpToMax
    <3>2. m \in Versions(d, i) /\ m <= k /\ DocKey(i, m) \in DOMAIN e
      BY <3>1, ConstAssumption DEF UpTo, Versions, Sid
    <3>3. e[DocKey(i, m)] = d[DocKey(i, m)]
      BY <1>8, <3>2
    <3>4. HasStart(e, i) <=> HasStart(d, i)
      <4>1. HasStart(e, i) => HasStart(d, i)
        BY <1>8 DEF HasStart
      <4> QED
        BY <1>9, <3>2, <4>1
    <3> QED
      BY <2>1, <2>3, <3>3, <3>4 DEF Value
  <2> QED
    BY <2>2, <2>3
<1>13. \A x \in DOMAIN d : x[1] = "iv" => (x \in DOMAIN e <=> x[2] \notin later)
  BY <1>8, <1>6
<1> QED
  BY <1>3, <1>8, <1>11, <1>12, <1>13 DEF e, h

\* removeSnapshot leaves the documents alone when it goes through the index.
LEMMA ShiftIndexSameDocs ==
    ASSUME NEW d, NEW h, IsHandle(h), NEW k
    PROVE  SameDocs(ShiftIndex(d, h, k), h)
<1> DEFINE entries == {x \in DOMAIN d : x[1] = "iv" /\ x[2] >= k}
           down(l) == IF l[2] > k THEN <<l[1], l[2] - 1>> ELSE l
           moved == [x \in {IvKey(x[2] - 1, x[3]) : x \in {y \in entries : y[2] > k}} |->
                     LET links == d[IvKey(x[2] + 1, x[3])] IN [n \in DOMAIN links |-> down(links[n])]]
           one == DeleteAll(h, entries)
<1>1. ShiftIndex(d, h, k) = PutAll(one, moved)
  BY Zenon DEF ShiftIndex
<1>2. \A i, s : StartKey(i) \notin entries /\ DocKey(i, s) \notin entries
  BY DEF StartKey, DocKey
<1>3. \A i, s : StartKey(i) \notin DOMAIN moved /\ DocKey(i, s) \notin DOMAIN moved
  BY Keys
<1> HIDE DEF entries, moved
<1>4. IsHandle(one) /\ one.sid = h.sid /\ \A x : x \notin entries => SameKey(one, h, x)
  BY DeleteAllSays
<1> HIDE DEF one
<1>5. PICK g : g = PutAll(one, moved)
  OBVIOUS
<1>6. IsHandle(g) /\ g.sid = one.sid /\ \A x : x \notin DOMAIN moved => SameKey(g, one, x)
  BY <1>4, <1>5, PutAllSays
<1>7. SameDocs(one, h) /\ SameDocs(g, one)
  BY <1>2, <1>3, <1>4, <1>6 DEF SameDocs
<1> QED
  BY <1>1, <1>5, <1>7, SameDocsAgain

\* The version is behind k, and the last of its document.
IsLast(d, i, s, k) == s \in Versions(d, i) /\ s > k /\ \A r \in Versions(d, i) : r <= s
\* The next version is behind k: it takes the place of this one.
Takes(d, i, s, k) == s + 1 \in Versions(d, i) /\ s + 1 > k

\* What removeSnapshot makes of each key when there is no tombstone.
LEMMA ShiftEffect ==
    ASSUME Store # "map", NEW d, NEW k \in Nat, NEW top \in Nat, StoreOK(d, top),
           \A x \in DOMAIN d : d[x] # Tomb
    PROVE  LET e == Written(d, ShiftIndex(d, ShiftDocuments(d, NewHandle, k), k)) IN
           /\ \A i \in Id : HasStart(e, i) <=> HasStart(d, i)
           /\ \A i \in Id, s \in Sid :
                 /\ s \in Versions(e, i) <=>
                        Takes(d, i, s, k) \/ (s \in Versions(d, i) /\ ~IsLast(d, i, s, k))
                 /\ Takes(d, i, s, k) => e[DocKey(i, s)] = d[DocKey(i, s + 1)]
                 /\ ~Takes(d, i, s, k) /\ s \in Versions(e, i) => e[DocKey(i, s)] = d[DocKey(i, s)]
<1> DEFINE above == {c \in Id \X Sid : c[2] \in Versions(d, c[1]) /\ c[2] > k}
           tombs == {c \in above : d[DocKey(c[1], c[2])] = Tomb}
           after(c, e) == c[1] < e[1] \/ (c[1] = e[1] /\ c[2] < e[2])
           lasts == {c \in above : \A e \in above :
                        after(c, e) => Owner(d, e[1]) # Owner(d, c[1])}
           bare == {i \in Id : HasStart(d, i) /\ \E c \in tombs \intersect Group(d, i) :
                     c[2] = k + 1 /\ \A e \in (above \ tombs) \intersect Group(d, i) : ~after(c, e)}
           moved == [x \in {DocKey(c[1], c[2] - 1) : c \in above \ tombs} |->
                        d[DocKey(x[2], x[3] + 1)]]
           dropped == {DocKey(c[1], c[2] - 1) : c \in tombs}
           K == dropped \union VersionKeys(lasts) \union {StartKey(i) : i \in bare}
           one == PutAll(NewHandle, moved)
           two == ShiftDocuments(d, NewHandle, k)
           h == ShiftIndex(d, two, k)
           e == Written(d, h)
<1>1. two = DeleteAll(one, K)
  BY Zenon DEF ShiftDocuments
<1>2. IsHandle(NewHandle) /\ NewHandle.cache = NoKeys /\ NewHandle.deleted = {}
  BY NewHandleOK DEF HandleOK, NewHandle
<1>3. \A c \in above : c \in Id \X Sid /\ DocKey(c[1], c[2]) \in DOMAIN d /\ c[2] > k
  BY DEF Versions
<1>4. tombs = {}
  BY <1>3
<1>5. \A c \in above : HasStart(d, c[1]) /\ Owner(d, c[1]) = c[1]
  <2> SUFFICES ASSUME NEW c \in above PROVE HasStart(d, c[1]) /\ Owner(d, c[1]) = c[1]
    OBVIOUS
  <2>1. c[1] \in Id /\ c[2] \in Sid /\ DocKey(c[1], c[2]) \in DOMAIN d
    BY <1>3
  <2>2. HasStart(d, c[1])
    BY <2>1 DEF StoreOK
  <2> QED
    BY <2>1, <2>2, OwnerIs
<1>6. ASSUME NEW i \in Id, NEW s \in Sid
      PROVE  <<i, s>> \in lasts <=> IsLast(d, i, s, k)
  <2>1. <<i, s>> \in above <=> s \in Versions(d, i) /\ s > k
    OBVIOUS
  <2>2. ASSUME NEW r \in Versions(d, i), r > s, s > k
        PROVE  <<i, r>> \in above /\ after(<<i, s>>, <<i, r>>)
    <3>1. r \in Sid
      BY DEF Versions
    <3>2. r \in Int /\ s \in Int /\ r > k
      BY <2>2, <3>1, ConstAssumption DEF Sid
    <3> QED
      BY <2>2, <3>1, <3>2
  <2>3. ASSUME NEW c \in above, c[1] = i, ~(c[2] <= s)
        PROVE  c[2] \in Versions(d, i)
    BY <1>3, <2>3
  <2>4. ASSUME <<i, s>> \in lasts
        PROVE  IsLast(d, i, s, k)
    <3>1. s \in Versions(d, i) /\ s > k
      BY <2>1, <2>4
    <3>2. ASSUME NEW r \in Versions(d, i), ~(r <= s) PROVE FALSE
      <4>1. r > s
        BY <3>2, ConstAssumption DEF Versions, Sid
      <4>2. <<i, r>> \in above /\ after(<<i, s>>, <<i, r>>)
        BY <2>2, <3>1, <4>1
      <4>3. Owner(d, <<i, r>>[1]) # Owner(d, <<i, s>>[1])
        BY <2>4, <4>2
      <4> QED
        BY <4>3
    <3> QED
      BY <3>1, <3>2 DEF IsLast
  <2>5. ASSUME IsLast(d, i, s, k)
        PROVE  <<i, s>> \in lasts
    <3>1. <<i, s>> \in above
      BY <2>1, <2>5 DEF IsLast
    <3>2. ASSUME NEW c \in above, after(<<i, s>>, c)
          PROVE  Owner(d, c[1]) # Owner(d, <<i, s>>[1])
      <4>1. Owner(d, c[1]) = c[1] /\ Owner(d, i) = i /\ c \in Id \X Sid
        BY <1>3, <1>5, <3>1
      <4>2. c[1] # i
        <5> SUFFICES ASSUME c[1] = i PROVE FALSE
          OBVIOUS
        <5>1. s < c[2] /\ c[2] \in Versions(d, i)
          BY <3>2, ConstAssumption DEF Id
        <5>2. c[2] <= s
          BY <2>5, <5>1 DEF IsLast
        <5> QED
          BY <4>1, <5>1, <5>2, ConstAssumption DEF Sid
      <4> QED
        BY <4>1, <4>2
    <3> QED
      BY <3>1, <3>2
  <2> QED
    BY <2>4, <2>5
<1>7. ASSUME NEW i \in Id, NEW s \in Sid
      PROVE  /\ DocKey(i, s) \in DOMAIN moved <=> Takes(d, i, s, k)
             /\ Takes(d, i, s, k) => moved[DocKey(i, s)] = d[DocKey(i, s + 1)]
  <2>1. DOMAIN moved = {DocKey(c[1], c[2] - 1) : c \in above}
    BY <1>4
  <2>2. ASSUME DocKey(i, s) \in DOMAIN moved
        PROVE  Takes(d, i, s, k)
    <3>1. PICK c \in above : DocKey(i, s) = DocKey(c[1], c[2] - 1)
      BY <2>1, <2>2
    <3>2. c[1] = i /\ c[2] - 1 = s /\ c[2] \in Sid
      BY <3>1, Keys
    <3>3. c[2] = s + 1
      BY <3>2, ConstAssumption DEF Sid
    <3> QED
      BY <3>1, <3>2, <3>3 DEF Takes
  <2>3. ASSUME Takes(d, i, s, k)
        PROVE  DocKey(i, s) \in DOMAIN moved /\ moved[DocKey(i, s)] = d[DocKey(i, s + 1)]
    <3>1. <<i, s + 1>> \in above
      BY <2>3 DEF Takes, Versions
    <3>2. (s + 1) - 1 = s
      BY ConstAssumption DEF Sid
    <3>3. DocKey(i, s) = DocKey(<<i, s + 1>>[1], <<i, s + 1>>[2] - 1)
      BY <3>2
    <3>4. DocKey(i, s) \in DOMAIN moved
      <4> HIDE DEF above, moved
      <4> QED
        BY <2>1, <3>1, <3>3, Zenon
    <3>5. DocKey(i, s)[2] = i /\ DocKey(i, s)[3] = s
      BY DEF DocKey
    <3>6. moved[DocKey(i, s)] = d[DocKey(DocKey(i, s)[2], DocKey(i, s)[3] + 1)]
      BY <3>4
    <3> QED
      BY <3>4, <3>5, <3>6
  <2> QED
    BY <2>2, <2>3
<1>8. ASSUME NEW i \in Id, NEW s \in Sid
      PROVE  DocKey(i, s) \in K <=> IsLast(d, i, s, k)
  <2>1. dropped = {} /\ bare = {}
    BY <1>4
  <2>2. ASSUME DocKey(i, s) \in VersionKeys(lasts)
        PROVE  <<i, s>> \in lasts
    <3>1. PICK c \in lasts : DocKey(i, s) = DocKey(c[1], c[2])
      BY <2>2 DEF VersionKeys
    <3>2. c \in Id \X Sid /\ c[1] = i /\ c[2] = s
      BY <3>1, Keys
    <3>3. c = <<i, s>>
      BY <3>2
    <3> HIDE DEF lasts
    <3> QED
      BY <3>1, <3>3
  <2>3. ASSUME <<i, s>> \in lasts
        PROVE  DocKey(i, s) \in VersionKeys(lasts)
    <3>1. DocKey(i, s) = DocKey(<<i, s>>[1], <<i, s>>[2])
      OBVIOUS
    <3> HIDE DEF lasts
    <3> QED
      BY <2>3, <3>1, Zenon DEF VersionKeys
  <2> HIDE DEF dropped, bare, lasts
  <2> QED
    BY <1>6, <2>1, <2>2, <2>3
<1>9. ASSUME NEW i
      PROVE  StartKey(i) \notin K /\ StartKey(i) \notin DOMAIN moved
  <2>1. dropped = {} /\ bare = {}
    BY <1>4
  <2>2. StartKey(i) \notin VersionKeys(lasts)
    BY Keys DEF VersionKeys
  <2>3. StartKey(i) \notin DOMAIN moved
    BY Keys
  <2> HIDE DEF dropped, bare, lasts, moved
  <2> QED
    BY <2>1, <2>2, <2>3
<1> HIDE DEF K, moved
<1>10. /\ IsHandle(one) /\ \A x \in DOMAIN moved : x \in DOMAIN one.cache /\ one.cache[x] = moved[x] /\ x \notin one.deleted
       /\ \A x : x \notin DOMAIN moved => SameKey(one, NewHandle, x)
  BY <1>2, PutAllSays
<1> HIDE DEF one
<1>11. IsHandle(two) /\ two.cache = one.cache /\ two.deleted = one.deleted \union K
  <2>1. PICK g : g = DeleteAll(one, K)
    OBVIOUS
  <2>2. IsHandle(g) /\ g.cache = one.cache /\ g.deleted = one.deleted \union K
    BY <1>10, <2>1, DeleteAllSays
  <2> HIDE DEF two
  <2> QED
    BY <1>1, <2>1, <2>2
<1> HIDE DEF two
<1>12. \A i, s : SameKey(h, two, StartKey(i)) /\ SameKey(h, two, DocKey(i, s))
  BY <1>11, ShiftIndexSameDocs DEF SameDocs
<1> HIDE DEF h
<1>13. \A x : x \notin DOMAIN one.cache \/ x \in DOMAIN moved
  BY <1>2, <1>10 DEF SameKey, NoKeys
<1>14. \A x : x \in one.deleted => FALSE
  BY <1>2, <1>10 DEF SameKey
<1>15. ASSUME NEW x, SameKey(h, two, x)
       PROVE  /\ Puts(h, x) <=> x \in DOMAIN moved /\ x \notin K
              /\ Puts(h, x) => h.cache[x] = moved[x]
              /\ x \in h.deleted <=> x \in K
  BY <1>10, <1>11, <1>13, <1>14, <1>15 DEF SameKey, Puts
<1>16. \A x : /\ x \in DOMAIN e <=> Puts(h, x) \/ (x \in DOMAIN d /\ x \notin h.deleted)
              /\ Puts(h, x) => e[x] = h.cache[x]
              /\ x \in DOMAIN d /\ x \notin h.deleted /\ ~Puts(h, x) => e[x] = d[x]
  BY WrittenFacts
<1> HIDE DEF e
<1>17. ASSUME NEW i \in Id
       PROVE  HasStart(e, i) <=> HasStart(d, i)
  BY <1>9, <1>12, <1>15, <1>16 DEF HasStart
<1>18. ASSUME NEW i \in Id, NEW s \in Sid, Takes(d, i, s, k)
       PROVE  ~IsLast(d, i, s, k)
  BY <1>18, ConstAssumption DEF Takes, IsLast, Sid
<1>19. ASSUME NEW i \in Id, NEW s \in Sid
       PROVE  /\ s \in Versions(e, i) <=>
                     Takes(d, i, s, k) \/ (s \in Versions(d, i) /\ ~IsLast(d, i, s, k))
              /\ Takes(d, i, s, k) => e[DocKey(i, s)] = d[DocKey(i, s + 1)]
              /\ ~Takes(d, i, s, k) /\ s \in Versions(e, i) => e[DocKey(i, s)] = d[DocKey(i, s)]
  <2>1. PICK x : x = DocKey(i, s)
    OBVIOUS
  <2>2. /\ Puts(h, x) <=> x \in DOMAIN moved /\ x \notin K
        /\ Puts(h, x) => h.cache[x] = moved[x]
        /\ x \in h.deleted <=> x \in K
    BY <1>12, <1>15, <2>1
  <2>3. /\ x \in K <=> IsLast(d, i, s, k)
        /\ x \in DOMAIN moved <=> Takes(d, i, s, k)
        /\ Takes(d, i, s, k) => moved[x] = d[DocKey(i, s + 1)]
    BY <1>7, <1>8, <2>1
  <2>4. /\ s \in Versions(e, i) <=> x \in DOMAIN e
        /\ s \in Versions(d, i) <=> x \in DOMAIN d
    BY <2>1 DEF Versions
  <2> QED
    BY <1>16, <1>18, <2>1, <2>2, <2>3, <2>4
<1> QED
  BY <1>17, <1>19 DEF e, h, two

\* In a store without tombstones a reader sees a document when there is a
\* version to look at.
LEMMA PlainValue ==
    ASSUME NEW d, NEW top, StoreOK(d, top), \A x \in DOMAIN d : d[x] # Tomb, NEW i \in Id, NEW s
    PROVE  Value(d, i, s) = IF UpTo(d, i, s) = {} THEN None ELSE d[DocKey(i, Max(UpTo(d, i, s)))]
<1>1. CASE UpTo(d, i, s) = {}
  BY <1>1 DEF Value
<1>2. CASE UpTo(d, i, s) # {}
  <2> DEFINE m == Max(UpTo(d, i, s))
  <2>1. m \in UpTo(d, i, s)
    BY <1>2, UpToMax
  <2>2. m \in Sid /\ DocKey(i, m) \in DOMAIN d
    BY <2>1 DEF UpTo, Versions
  <2>3. d[DocKey(i, m)] # Tomb /\ HasStart(d, i)
    BY <2>2 DEF StoreOK
  <2> QED
    BY <1>2, <2>3 DEF Value
<1> QED
  BY <1>1, <1>2

\* The versions of document i follow on one another, but for the first snapshot.
Gapless(d, i) == \A r, s \in Versions(d, i) \ {0} : r < s => r + 1 \in Versions(d, i)

\* Then a reader of e at s finds the version that a reader of d at s + 1 finds,
\* one id further down if that is behind k.
Lowered(d, e, i, s, k) ==
    LET m == Max(UpTo(d, i, s + 1)) IN
    Gapless(d, i) /\ UpTo(d, i, s + 1) # {} =>
        Max(UpTo(e, i, s)) = IF m > k THEN m - 1 ELSE m

\* removeSnapshot, in a store without tombstones: a reader of a snapshot behind
\* k, or of the current state, sees what it saw, one id further down.
LEMMA RemoveEffect ==
    ASSUME Store # "map", NEW d, NEW k \in Nat, NEW L \in Nat, k + 1 < L, L <= SnapshotIds,
           StoreOK(d, L - 1), \A x \in DOMAIN d : d[x] # Tomb
    PROVE  LET e == Written(d, ShiftIndex(d, ShiftDocuments(d, NewHandle, k), k)) IN
           /\ StoreOK(e, L - 2)
           /\ \A i \in Id, s \in 0..(L - 2) :
                 /\ Value(e, i, s) = Value(d, i, IF s < k THEN s ELSE s + 1)
                 /\ IF s < k THEN UpTo(e, i, s) = UpTo(d, i, s) ELSE Lowered(d, e, i, s, k)
<1> DEFINE e == Written(d, ShiftIndex(d, ShiftDocuments(d, NewHandle, k), k))
<1>1. L - 1 \in Nat
  OBVIOUS
<1>2. /\ \A i \in Id : HasStart(e, i) <=> HasStart(d, i)
      /\ \A i \in Id, s \in Sid :
            /\ s \in Versions(e, i) <=>
                   Takes(d, i, s, k) \/ (s \in Versions(d, i) /\ ~IsLast(d, i, s, k))
            /\ Takes(d, i, s, k) => e[DocKey(i, s)] = d[DocKey(i, s + 1)]
            /\ ~Takes(d, i, s, k) /\ s \in Versions(e, i) => e[DocKey(i, s)] = d[DocKey(i, s)]
  BY <1>1, ShiftEffect
<1> HIDE DEF e
<1>3. Sid \in SUBSET Nat /\ SnapshotIds \in Nat \ {0}
  BY ConstAssumption DEF Sid
<1>4. ASSUME NEW i \in Id, NEW s \in Sid, s \in Versions(d, i)
      PROVE  s <= L - 1 /\ d[DocKey(i, s)] \in Val /\ d[DocKey(i, s)] # Tomb /\ HasStart(d, i)
  BY <1>4 DEF StoreOK, Versions
<1>5. ASSUME NEW i \in Id, NEW s \in Sid, s \in Versions(e, i)
      PROVE  s <= L - 2 /\ e[DocKey(i, s)] \in Val /\ e[DocKey(i, s)] # Tomb /\ HasStart(e, i)
  <2>1. CASE Takes(d, i, s, k)
    <3>1. s + 1 \in Versions(d, i) /\ s + 1 \in Sid
      BY <2>1 DEF Takes, Versions
    <3>2. s + 1 <= L - 1 /\ d[DocKey(i, s + 1)] \in Val /\ d[DocKey(i, s + 1)] # Tomb /\ HasStart(d, i)
      BY <1>4, <3>1
    <3> QED
      BY <1>2, <1>3, <2>1, <3>2
  <2>2. CASE ~Takes(d, i, s, k)
    <3>1. s \in Versions(d, i) /\ ~IsLast(d, i, s, k) /\ e[DocKey(i, s)] = d[DocKey(i, s)]
      BY <1>2, <1>5, <2>2
    <3>2. s <= L - 1 /\ d[DocKey(i, s)] \in Val /\ d[DocKey(i, s)] # Tomb /\ HasStart(d, i)
      BY <1>4, <3>1
    <3>3. s # L - 1
      <4> SUFFICES ASSUME s = L - 1 PROVE FALSE
        OBVIOUS
      <4>1. s > k
        BY <1>3
      <4>2. \A r \in Versions(d, i) : r <= s
        BY <1>4 DEF Versions
      <4> QED
        BY <3>1, <4>1, <4>2 DEF IsLast
    <3> QED
      BY <1>2, <1>3, <3>1, <3>2, <3>3
  <2> QED
    BY <2>1, <2>2
<1>6. StoreOK(e, L - 2)
  BY <1>5 DEF StoreOK, Versions
<1>7. ASSUME NEW i \in Id, NEW s
      PROVE  Value(e, i, s) = IF UpTo(e, i, s) = {} THEN None ELSE e[DocKey(i, Max(UpTo(e, i, s)))]
  <2>1. CASE UpTo(e, i, s) = {}
    BY <2>1 DEF Value
  <2>2. CASE UpTo(e, i, s) # {}
    <3> DEFINE m == Max(UpTo(e, i, s))
    <3>1. m \in UpTo(e, i, s)
      BY <2>2, UpToMax
    <3>2. m \in Sid /\ m \in Versions(e, i)
      BY <3>1 DEF UpTo, Versions
    <3>3. e[DocKey(i, m)] # Tomb /\ HasStart(e, i)
      BY <1>5, <3>2
    <3> QED
      BY <2>2, <3>3 DEF Value
  <2> QED
    BY <2>1, <2>2
<1>8. ASSUME NEW i \in Id, NEW s \in 0..(L - 2), s < k
      PROVE  Value(e, i, s) = Value(d, i, s) /\ UpTo(e, i, s) = UpTo(d, i, s)
  <2>1. ASSUME NEW r \in Sid, r <= s
        PROVE  ~Takes(d, i, r, k) /\ ~IsLast(d, i, r, k)
    BY <1>3, <1>8, <2>1 DEF Takes, IsLast
  <2>2. UpTo(e, i, s) = UpTo(d, i, s)
    BY <1>2, <2>1 DEF UpTo, Versions
  <2>3. UpTo(d, i, s) # {} => e[DocKey(i, Max(UpTo(d, i, s)))] = d[DocKey(i, Max(UpTo(d, i, s)))]
    <3> SUFFICES ASSUME UpTo(d, i, s) # {}
                 PROVE  e[DocKey(i, Max(UpTo(d, i, s)))] = d[DocKey(i, Max(UpTo(d, i, s)))]
      OBVIOUS
    <3> DEFINE m == Max(UpTo(d, i, s))
    <3>1. m \in UpTo(d, i, s) /\ m \in UpTo(e, i, s)
      BY <2>2, UpToMax
    <3>2. m \in Sid /\ m <= s /\ m \in Versions(e, i)
      BY <3>1 DEF UpTo, Versions
    <3> HIDE DEF m
    <3>3. e[DocKey(i, m)] = d[DocKey(i, m)]
      BY <1>2, <2>1, <3>2
    <3> QED
      BY <3>3 DEF m
  <2> QED
    BY <1>7, <2>2, <2>3, PlainValue
<1>9. ASSUME NEW i \in Id, NEW s \in 0..(L - 2), ~(s < k)
      PROVE  Value(e, i, s) = Value(d, i, s + 1) /\ Lowered(d, e, i, s, k)
  <2>1. s \in Nat /\ s \in Sid /\ s + 1 \in Sid
    BY <1>3 DEF Sid
  <2>2. \A r : r \in UpTo(e, i, s) <=> r \in Sid /\ r \in Versions(e, i) /\ r <= s
    BY DEF UpTo, Versions
  <2>3. \A r : r \in UpTo(d, i, s + 1) <=> r \in Sid /\ r \in Versions(d, i) /\ r <= s + 1
    BY DEF UpTo, Versions
  <2>4. ASSUME NEW r \in UpTo(e, i, s)
        PROVE  \/ Takes(d, i, r, k) /\ r + 1 \in UpTo(d, i, s + 1)
               \/ ~Takes(d, i, r, k) /\ r \in UpTo(d, i, s + 1)
    <3>1. r \in Sid /\ r \in Versions(e, i) /\ r <= s
      BY <2>2
    <3>2. Takes(d, i, r, k) => r + 1 \in UpTo(d, i, s + 1)
      <4> SUFFICES ASSUME Takes(d, i, r, k) PROVE r + 1 \in UpTo(d, i, s + 1)
        OBVIOUS
      <4>1. r + 1 \in Sid /\ r + 1 \in Versions(d, i)
        BY DEF Takes, Versions
      <4>2. r + 1 <= s + 1
        BY <1>3, <2>1, <3>1
      <4> QED
        BY <2>3, <4>1, <4>2
    <3>3. ~Takes(d, i, r, k) => r \in UpTo(d, i, s + 1)
      <4> SUFFICES ASSUME ~Takes(d, i, r, k) PROVE r \in UpTo(d, i, s + 1)
        OBVIOUS
      <4>1. r \in Versions(d, i)
        BY <1>2, <3>1
      <4>2. r <= s + 1
        BY <1>3, <2>1, <3>1
      <4> QED
        BY <2>3, <3>1, <4>1, <4>2
    <3> QED
      BY <3>2, <3>3
  <2>5. CASE UpTo(d, i, s + 1) = {}
    <3>1. UpTo(e, i, s) = {}
      BY <2>4, <2>5
    <3> QED
      BY <1>7, <2>5, <3>1, PlainValue DEF Lowered
  <2>6. CASE UpTo(d, i, s + 1) # {}
    <3> DEFINE m == Max(UpTo(d, i, s + 1))
               n == Max(UpTo(e, i, s))
    <3>1. m \in UpTo(d, i, s + 1) /\ \A r \in UpTo(d, i, s + 1) : r <= m
      BY <2>6, UpToMax
    <3>2. Value(d, i, s + 1) = d[DocKey(i, m)]
      BY <2>6, PlainValue
    <3>3. UpTo(e, i, s) # {} => n \in UpTo(e, i, s) /\ \A r \in UpTo(e, i, s) : r <= n
      BY UpToMax
    <3>4. UpTo(e, i, s) # {} => Value(e, i, s) = e[DocKey(i, n)]
      BY <1>7
    <3>5. (Gapless(d, i) => n = IF m > k THEN m - 1 ELSE m) => Lowered(d, e, i, s, k)
      BY DEF Lowered
    <3> HIDE DEF m, n
    <3>6. m \in Sid /\ m \in Nat /\ m \in Versions(d, i) /\ m <= s + 1
      BY <1>3, <2>3, <3>1
    <3>7. CASE m > k
      <4>1. m - 1 \in Sid /\ (m - 1) + 1 = m /\ m - 1 <= s
        BY <1>3, <2>1, <3>6, <3>7 DEF Sid
      <4>2. Takes(d, i, m - 1, k)
        BY <3>6, <3>7, <4>1 DEF Takes
      <4>3. m - 1 \in UpTo(e, i, s)
        BY <1>2, <2>2, <4>1, <4>2
      <4>4. n \in UpTo(e, i, s) /\ m - 1 <= n /\ Value(e, i, s) = e[DocKey(i, n)]
        BY <3>3, <3>4, <4>3
      <4>5. n \in Sid /\ n \in Nat /\ n \in Versions(e, i)
        BY <1>3, <2>2, <4>4
      <4>6. CASE Takes(d, i, n, k)
        <5>1. n + 1 <= m
          BY <2>4, <3>1, <4>4, <4>6
        <5>2. n + 1 = m
          BY <3>6, <4>4, <4>5, <5>1
        <5>3. n = m - 1
          BY <3>6, <4>5, <5>2
        <5> QED
          BY <1>2, <3>2, <3>7, <3>5, <4>4, <4>5, <4>6, <5>2, <5>3
      <4>7. CASE ~Takes(d, i, n, k)
        <5>1. n <= m
          BY <2>4, <3>1, <4>4, <4>7
        <5>2. n # m - 1
          BY <4>2, <4>7
        <5>3. n = m
          BY <3>6, <4>4, <4>5, <5>1, <5>2
        <5>4. ~Gapless(d, i)
          <6>1. m \in Versions(d, i) /\ ~IsLast(d, i, m, k) /\ ~Takes(d, i, m, k)
            BY <1>2, <4>5, <4>7, <5>3
          <6>2. PICK r \in Versions(d, i) : ~(r <= m)
            BY <3>7, <6>1 DEF IsLast
          <6>3. r \in Nat /\ m < r /\ m # 0 /\ r # 0
            BY <1>3, <3>6, <3>7, <6>2 DEF Versions
          <6>4. m + 1 \notin Versions(d, i)
            BY <3>6, <3>7, <6>1 DEF Takes
          <6> QED
            BY <6>1, <6>2, <6>3, <6>4 DEF Gapless
        <5> QED
          BY <1>2, <3>2, <3>5, <4>4, <4>5, <4>7, <5>3, <5>4
      <4> QED
        BY <4>6, <4>7
    <3>8. CASE ~(m > k)
      <4>1. m <= s /\ ~IsLast(d, i, m, k)
        BY <1>9, <2>1, <3>6, <3>8 DEF IsLast
      <4>2. m \in UpTo(e, i, s)
        BY <1>2, <2>2, <3>6, <4>1
      <4>3. n \in UpTo(e, i, s) /\ m <= n /\ Value(e, i, s) = e[DocKey(i, n)]
        BY <3>3, <3>4, <4>2
      <4>4. n \in Sid /\ n \in Nat /\ n \in Versions(e, i)
        BY <1>3, <2>2, <4>3
      <4>5. ~Takes(d, i, n, k)
        <5> SUFFICES ASSUME Takes(d, i, n, k) PROVE FALSE
          OBVIOUS
        <5>1. n + 1 <= m
          BY <2>4, <3>1, <4>3
        <5> QED
          BY <3>6, <4>3, <4>4, <5>1
      <4>6. n = m
        <5>1. n <= m
          BY <2>4, <3>1, <4>3, <4>5
        <5> QED
          BY <3>6, <4>3, <4>4, <5>1
      <4> QED
        BY <1>2, <3>2, <3>8, <3>5, <4>3, <4>4, <4>5, <4>6
    <3> QED
      BY <3>7, <3>8
  <2> QED
    BY <2>5, <2>6
<1> QED
  BY <1>6, <1>8, <1>9 DEF e

-----------------------------------------------------------------------------
(* The documents of the collection and of its snapshots.                   *)

\* The list tt with the store e may follow the list ss with the store d.
Goes(d, ss, e, tt) ==
    /\ Len(tt) <= SnapshotIds
    /\ StoreOK(e, Len(tt) - 1)
    /\ SameSnapshots(d, ss, e, tt)

\* The store of the collection and those in doubt: they may follow it, and what
\* failed writes of documents left differs from it at the current snapshot only.
DInv ==
    /\ Goes(db, snapshots, db, snapshots)
    /\ \A u \in inDoubt : Goes(db, snapshots, u.db, u.snapshots)
    /\ \A u \in inDoubt : u.snapshots = snapshots => SameBut(db, u.db, snapshotId)

\* The open transactions.
TInv ==
    /\ DOMAIN tx = Tx
    /\ \A t \in Tx : tx[t] # None => HandleOK(db, snapshotId, tx[t])

\* The inductive invariant of the documents.
CInv == SInv /\ DInv /\ TInv

\* What a step does to the documents.
Proceeds == Goes(db, snapshots, db', snapshots')

\* Clients that open the collection again before they write behind a failed
\* request, or write nothing but documents, behind requests on documents.
Careful == "settled" \in Discipline \/ "reopens" \in Discipline

\* With LevelDB, as many snapshots as there are ids, no snapshot request while
\* a transaction is open, and no snapshot removed while there is a tombstone.
Sheltered ==
    /\ Store = "leveldb"
    /\ Careful
    /\ Tx = {} \/ "quiet" \in Discipline
    /\ MaxSnapshots <= SnapshotIds
    /\ "removeSnapshot" \in Ops => "noTombs" \in Discipline

\* The snapshot id is the last position of the list: the byte has not wrapped.
LEMMA LastId ==
    ASSUME SInv, Len(snapshots) <= SnapshotIds
    PROVE  snapshotId = Len(snapshots) - 1 /\ snapshotId \in Sid /\ Len(snapshots) \in Nat \ {0}
<1>1. Len(snapshots) \in Nat \ {0}
  BY ListLength DEF SInv
<1> DEFINE a == Len(snapshots) - 1
<1>2. a \in Nat /\ SnapshotIds \in Nat \ {0} /\ a < SnapshotIds
  BY <1>1, ConstAssumption
<1>3. snapshotId = a % SnapshotIds
  BY DEF SInv
<1> HIDE DEF a
<1>4. snapshotId = a
  BY <1>2, <1>3, ModSmall
<1> QED
  BY <1>1, <1>2, <1>4 DEF a, Sid

\* A list follows itself.
LEMMA GoesOn ==
    ASSUME NEW d, NEW ss, NEW e, NEW tt, Goes(d, ss, e, tt)
    PROVE  Goes(e, tt, e, tt)
BY DEF Goes, SameSnapshots

\* What may be written behind a failed write.
LEMMA MayWriteSays ==
    ASSUME Careful, NEW STATE ss, NEW STATE ix, MayWrite(ss, ix)
    PROVE  /\ ss # snapshots => inDoubt = {}
           /\ \A u \in inDoubt : u.snapshots = snapshots
BY DEF Careful, MayWrite, Settled

\* A list of snapshots stays when the store changes at the current snapshot.
LEMMA TopGoes ==
    ASSUME SInv, Len(snapshots) <= SnapshotIds, NEW d, NEW e,
           StoreOK(d, snapshotId), StoreOK(e, snapshotId), SameBut(d, e, snapshotId)
    PROVE  Goes(d, snapshots, e, snapshots)
<1>2. snapshotId = Len(snapshots) - 1 /\ snapshotId \in Sid /\ Len(snapshots) \in Nat \ {0}
  BY LastId
<1> DEFINE at == [p \in 1..Len(snapshots) |-> p]
<1>6. ASSUME NEW p \in 1..(Len(snapshots) - 1)
      PROVE  /\ at[p] \in 1..Len(snapshots) /\ snapshots[at[p]] = snapshots[p]
             /\ \A i \in Id : Value(e, i, p - 1) = Value(d, i, at[p] - 1)
  <2>1. at[p] = p /\ p \in 1..Len(snapshots)
    BY <1>2
  <2>2. p - 1 < snapshotId /\ p - 1 \in Sid
    BY <1>2, ConstAssumption DEF Sid
  <2>3. \A i \in Id : Value(e, i, p - 1) = Value(d, i, p - 1)
    BY <1>2, <2>2, SameViews
  <2> QED
    BY <2>1, <2>3
<1> HIDE DEF at
<1>7. SameSnapshots(d, snapshots, e, snapshots)
  BY <1>6, SnapshotsStay DEF SInv
<1> QED
  BY <1>2, <1>7 DEF Goes

\* What the requests on documents and indexes write.
LEMMA HandleGoes ==
    ASSUME Store = "leveldb", SInv, DInv, NEW h, HandleOK(db, snapshotId, h)
    PROVE  /\ Goes(db, snapshots, Written(db, h), snapshots)
           /\ DocWrite(db, Written(db, h), snapshotId)
<1>1. Len(snapshots) <= SnapshotIds /\ StoreOK(db, Len(snapshots) - 1)
  BY DEF DInv, Goes
<1>2. snapshotId = Len(snapshots) - 1 /\ snapshotId \in Sid /\ Len(snapshots) \in Nat \ {0}
  BY <1>1, LastId
<1>3. PICK e : e = Written(db, h)
  OBVIOUS
<1>4. DocWrite(db, e, snapshotId)
  BY <1>1, <1>2, <1>3, HandleWrites
<1>5. Goes(db, snapshots, e, snapshots)
  BY <1>1, <1>2, <1>4, TopGoes DEF DocWrite, SameBut
<1> QED
  BY <1>3, <1>4, <1>5

\* A write of documents or of index entries: it is done, in doubt or lost, above
\* and beneath others of the kind.
LEMMA WriteGoes ==
    ASSUME Store = "leveldb", Careful, SInv, DInv, NEW STATE h, NEW STATE ix,
           HandleOK(db, snapshotId, h), snapshotId' = snapshotId,
           StoreWrites(h, snapshots, ix) \/ StoreFails(h, snapshots, ix)
    PROVE  DInv' /\ Proceeds
<1>0. Store # "map"
  OBVIOUS
<1>1. /\ Len(snapshots) <= SnapshotIds /\ snapshotId \in Sid /\ snapshotId = Len(snapshots) - 1
      /\ StoreOK(db, snapshotId)
  <2>1. Len(snapshots) <= SnapshotIds /\ StoreOK(db, Len(snapshots) - 1)
    BY DEF DInv, Goes
  <2> QED
    BY <2>1, LastId
<1>2. PICK e : e = Written(db, h)
  OBVIOUS
<1>3. Goes(db, snapshots, e, snapshots) /\ StoreOK(e, snapshotId) /\ SameBut(db, e, snapshotId)
  BY <1>2, HandleGoes DEF DocWrite, SameBut
<1>4. snapshots' = snapshots
  BY DEF StoreWrites, StoreFails
<1>5. \A u : Landed(u, h, snapshots, ix).db = Written(u.db, h)
             /\ Landed(u, h, snapshots, ix).snapshots = u.snapshots
  BY DEF Landed
<1>6. ASSUME MayWrite(snapshots, ix), NEW u \in inDoubt
      PROVE  /\ u.snapshots = snapshots
             /\ Goes(db, snapshots, Written(u.db, h), snapshots)
             /\ SameBut(db, Written(u.db, h), snapshotId)
             /\ Goes(e, snapshots, Written(u.db, h), snapshots)
             /\ SameBut(e, Written(u.db, h), snapshotId)
  <2>1. u.snapshots = snapshots
    BY <1>6, MayWriteSays
  <2>2. StoreOK(u.db, snapshotId) /\ SameBut(db, u.db, snapshotId)
    BY <1>1, <2>1 DEF DInv, Goes
  <2>3. PICK f, g : f = u.db /\ g = Written(f, h)
    OBVIOUS
  <2>4. StoreOK(g, snapshotId) /\ SameBut(db, g, snapshotId) /\ SameBut(e, g, snapshotId)
    BY <1>0, <1>1, <1>2, <2>2, <2>3, SameWrites
  <2>5. Goes(db, snapshots, g, snapshots) /\ Goes(e, snapshots, g, snapshots)
    BY <1>1, <1>3, <2>4, TopGoes
  <2> QED
    BY <2>1, <2>3, <2>4, <2>5
<1>7. CASE StoreWrites(h, snapshots, ix)
  <2>1. /\ db' = e /\ MayWrite(snapshots, ix)
        /\ inDoubt' = {Landed(u, h, snapshots, ix) : u \in inDoubt}
    BY <1>2, <1>7 DEF StoreWrites
  <2>2. Goes(e, snapshots, e, snapshots)
    BY <1>3, GoesOn
  <2>3. ASSUME NEW w \in inDoubt'
        PROVE  Goes(e, snapshots, w.db, w.snapshots) /\ SameBut(e, w.db, snapshotId)
    <3>1. PICK u \in inDoubt : w = Landed(u, h, snapshots, ix)
      BY <2>1
    <3> QED
      BY <1>5, <1>6, <2>1, <3>1
  <2> QED
    BY <1>3, <1>4, <2>1, <2>2, <2>3 DEF DInv, Proceeds
<1>8. CASE StoreFails(h, snapshots, ix)
  <2>1. /\ db' = db
        /\ \/ inDoubt' = inDoubt
           \/ /\ MayWrite(snapshots, ix)
              /\ inDoubt' = inDoubt \union {Landed(u, h, snapshots, ix) : u \in inDoubt \union {Committed}}
    BY <1>8 DEF StoreFails
  <2>2. Committed.db = db /\ Committed.snapshots = snapshots
    BY DEF Committed
  <2>3. ASSUME NEW w \in inDoubt'
        PROVE  /\ Goes(db, snapshots, w.db, w.snapshots)
               /\ w.snapshots = snapshots => SameBut(db, w.db, snapshotId)
    <3>1. CASE w \in inDoubt
      BY <3>1 DEF DInv
    <3>2. CASE MayWrite(snapshots, ix) /\ \E u \in inDoubt : w = Landed(u, h, snapshots, ix)
      <4>1. PICK u \in inDoubt : w = Landed(u, h, snapshots, ix)
        BY <3>2
      <4> QED
        BY <1>5, <1>6, <3>2, <4>1
    <3>3. CASE w = Landed(Committed, h, snapshots, ix)
      BY <1>2, <1>3, <1>5, <2>2, <3>3
    <3> QED
      BY <2>1, <3>1, <3>2, <3>3
  <2> QED
    BY <1>4, <2>1, <2>3 DEF DInv, Proceeds
<1> QED
  BY <1>7, <1>8

\* A write of another list of snapshots, with nothing beneath it in doubt.
LEMMA MoveGoes ==
    ASSUME Store = "leveldb", Careful, DInv, NEW STATE h, NEW STATE ss, NEW STATE ix,
           Goes(db, snapshots, Written(db, h), ss), ss # snapshots,
           StoreWrites(h, ss, ix) \/ (StoreFails(h, ss, ix) /\ snapshotId' = snapshotId)
    PROVE  DInv' /\ Proceeds
<1> DEFINE e == Written(db, h)
<1>1. CASE StoreWrites(h, ss, ix)
  <2>1. db' = e /\ snapshots' = ss /\ inDoubt' = {}
    BY <1>1, MayWriteSays DEF StoreWrites
  <2> HIDE DEF e
  <2>2. Goes(e, ss, e, ss)
    BY GoesOn DEF e
  <2> QED
    BY <2>1, <2>2 DEF DInv, Proceeds, e
<1>2. CASE StoreFails(h, ss, ix) /\ snapshotId' = snapshotId
  <2>1. Landed(Committed, h, ss, ix).db = e /\ Landed(Committed, h, ss, ix).snapshots = ss
    BY DEF Landed, Committed
  <2>2. db' = db /\ snapshots' = snapshots
        /\ (inDoubt' = inDoubt \/ inDoubt' = {Landed(Committed, h, ss, ix)})
    BY <1>2, MayWriteSays DEF StoreFails
  <2> HIDE DEF e
  <2>3. \A u \in inDoubt' : /\ Goes(db, snapshots, u.db, u.snapshots)
                            /\ u.snapshots = snapshots => SameBut(db, u.db, snapshotId)
    BY <2>1, <2>2 DEF DInv, e
  <2> QED
    BY <1>2, <2>2, <2>3 DEF DInv, Proceeds
<1> QED
  BY <1>1, <1>2

\* Nothing is written.
LEMMA Rests ==
    ASSUME DInv, UNCHANGED <<db, snapshots, inDoubt, snapshotId>>
    PROVE  DInv' /\ Proceeds
BY DEF DInv, Proceeds

\* The open transactions, after a write at the snapshot they are at.
LEMMA TransactionsStay ==
    ASSUME TInv, db' = db \/ DocWrite(db, db', snapshotId), snapshotId' = snapshotId,
           DOMAIN tx' = Tx, \A t \in Tx : tx'[t] = tx[t] \/ tx'[t] = None
    PROVE  TInv'
<1> SUFFICES ASSUME NEW t \in Tx, tx'[t] # None
             PROVE  HandleOK(db', snapshotId, tx'[t])
  BY DEF TInv
<1>1. tx'[t] = tx[t] /\ HandleOK(db, snapshotId, tx[t])
  BY DEF TInv
<1> QED
  BY <1>1, HandleStays

\* writeTransaction() of a handle.
LEMMA WriteHandleKeeps ==
    ASSUME Store = "leveldb", Careful, CInv, NEW STATE h, NEW STATE request,
           HandleOK(db, snapshotId, h), snapshotId' = snapshotId, WriteHandle(h, request)
    PROVE  DInv' /\ Proceeds /\ (db' = db \/ DocWrite(db, db', snapshotId))
<1>1. Goes(db, snapshots, Written(db, h), snapshots) /\ DocWrite(db, Written(db, h), snapshotId)
  BY HandleGoes DEF CInv
<1>2. StoreWrites(h, snapshots, indexed) \/ StoreFails(h, snapshots, indexed)
  BY DEF WriteHandle
<1>3. DInv' /\ Proceeds
  BY <1>2, WriteGoes DEF CInv
<1>4. db' = db \/ db' = Written(db, h)
  BY <1>2 DEF StoreWrites, StoreFails
<1> QED
  BY <1>1, <1>3, <1>4

\* The invariant without the list of snapshots, and what the step did.
Kept == DInv' /\ TInv' /\ Proceeds

\* A request on documents, alone or in a transaction.
LEMMA PerformKeeps ==
    ASSUME Store = "leveldb", Careful, CInv, NEW x \in Tx \union {NoTx}, NEW STATE call, NEW STATE res,
           HandleOK(db, snapshotId, HandleOf(x)) => HandleOK(db, snapshotId, res.h),
           Perform(x, call, res)
    PROVE  Kept
<1>1. CASE x = NoTx /\ WriteHandle(res.h, Request(call, x, res.r)) /\ UNCHANGED tx
  <2>1. HandleOK(db, snapshotId, res.h)
    BY <1>1, NewHandleOK DEF HandleOf
  <2>3. snapshotId' = snapshotId
    BY DEF Perform
  <2>2. DInv' /\ Proceeds /\ (db' = db \/ DocWrite(db, db', snapshotId))
    BY <1>1, <2>1, <2>3, WriteHandleKeeps
  <2>4. TInv'
    BY <1>1, <2>2, <2>3, TransactionsStay DEF CInv, TInv
  <2> QED
    BY <2>2, <2>4 DEF Kept
<1>2. CASE /\ x # NoTx /\ tx[x] # None /\ tx' = [tx EXCEPT ![x] = res.h]
           /\ UNCHANGED <<db, snapshots, inDoubt>>
  <2>1. x \in Tx /\ HandleOK(db, snapshotId, HandleOf(x))
    BY <1>2 DEF HandleOf, CInv, TInv
  <2>2. HandleOK(db, snapshotId, res.h)
    BY <2>1
  <2>3. snapshotId' = snapshotId
    BY DEF Perform
  <2>4. TInv'
    BY <1>2, <2>1, <2>2, <2>3 DEF CInv, TInv
  <2>5. DInv' /\ Proceeds
    BY <1>2, <2>3, Rests DEF CInv
  <2> QED
    BY <2>4, <2>5 DEF Kept
<1> QED
  BY <1>1, <1>2 DEF Perform

\* insert, removeId, remove and set.
LEMMA DocumentsKept ==
    ASSUME Store = "leveldb", Careful, CInv, NEW x \in Tx \union {NoTx}
    PROVE  /\ \A i \in Id, v \in Val, overwrite \in Overwrite, ignore \in Ignore :
                 InsertRequest(x, i, v, overwrite, ignore) => Kept
           /\ \A i \in Id, ignore \in Ignore : RemoveIdRequest(x, i, ignore) => Kept
           /\ \A q \in Query : RemoveRequest(x, q) => Kept
           /\ \A q \in Query, docs \in Docs : SetRequest(x, q, docs) => Kept
<1>1. snapshotId \in Sid /\ StoreOK(db, snapshotId)
  <2>1. Len(snapshots) <= SnapshotIds /\ StoreOK(db, Len(snapshots) - 1)
    BY DEF CInv, DInv, Goes
  <2> QED
    BY <2>1, LastId DEF CInv
<1>2. ASSUME NEW i \in Id, NEW v \in Val, NEW overwrite \in Overwrite, NEW ignore \in Ignore,
             InsertRequest(x, i, v, overwrite, ignore)
      PROVE  Kept
  <2>1. HandleOK(db, snapshotId, HandleOf(x)) =>
            HandleOK(db, snapshotId, Insert(db, HandleOf(x), i, v, overwrite, ignore).h)
    BY InsertHandle
  <2>2. Perform(x, <<"insert", i, v, ignore>>, Insert(db, HandleOf(x), i, v, overwrite, ignore))
    BY <1>2 DEF InsertRequest
  <2> QED
    BY <2>1, <2>2, PerformKeeps
<1>3. ASSUME NEW i \in Id, NEW ignore \in Ignore, RemoveIdRequest(x, i, ignore)
      PROVE  Kept
  <2>1. HandleOK(db, snapshotId, HandleOf(x)) =>
            HandleOK(db, snapshotId, RemoveById(db, HandleOf(x), i, ignore).h)
    BY <1>1, RemoveHandle
  <2>2. Perform(x, <<"removeId", i, ignore>>, RemoveById(db, HandleOf(x), i, ignore))
    BY <1>3 DEF RemoveIdRequest
  <2> QED
    BY <2>1, <2>2, PerformKeeps
<1>4. ASSUME NEW q \in Query, RemoveRequest(x, q)
      PROVE  Kept
  <2>1. HandleOK(db, snapshotId, HandleOf(x)) =>
            HandleOK(db, snapshotId, RemoveByQuery(db, HandleOf(x), q).h)
    BY <1>1, RequestHandles
  <2>2. Perform(x, <<"remove", q>>, RemoveByQuery(db, HandleOf(x), q))
    BY <1>4 DEF RemoveRequest
  <2> QED
    BY <2>1, <2>2, PerformKeeps
<1>5. ASSUME NEW q \in Query, NEW docs \in Docs, SetRequest(x, q, docs)
      PROVE  Kept
  <2>1. HandleOK(db, snapshotId, HandleOf(x)) =>
            HandleOK(db, snapshotId, SetDocs(db, HandleOf(x), q, docs).h)
    BY <1>1, RequestHandles
  <2>2. Perform(x, <<"set", q, docs>>, SetDocs(db, HandleOf(x), q, docs))
    BY <1>5 DEF SetRequest
  <2> QED
    BY <2>1, <2>2, PerformKeeps
<1> QED
  BY <1>2, <1>3, <1>4, <1>5

\* createIndex: it writes no keys of documents.
LEMMA CreateIndexKept ==
    ASSUME Store = "leveldb", Careful, CInv, CreateIndexRequest
    PROVE  Kept
<1> DEFINE h == IF indexed THEN NewHandle ELSE CreateIndexHandle(db, NewHandle)
<1>1. HandleOK(db, snapshotId, NewHandle) /\ IsHandle(NewHandle)
  BY NewHandleOK DEF HandleOK
<1>2. HandleOK(db, snapshotId, CreateIndexHandle(db, NewHandle))
  BY <1>1, CreateIndexSameDocs, HandleSameDocs
<1>3. HandleOK(db, snapshotId, h)
  BY <1>1, <1>2
<1>4. MoveTo(<<"createIndex">>, h, snapshots, TRUE, snapshotId, observers)
  BY DEF CreateIndexRequest
<1> HIDE DEF h
<1>5. Goes(db, snapshots, Written(db, h), snapshots) /\ DocWrite(db, Written(db, h), snapshotId)
  BY <1>3, HandleGoes DEF CInv
<1>6. StoreWrites(h, snapshots, TRUE) \/ StoreFails(h, snapshots, TRUE)
  BY <1>4 DEF MoveTo
<1>8. db' = db \/ db' = Written(db, h)
  BY <1>6 DEF StoreWrites, StoreFails
<1>9. snapshotId' = snapshotId /\ tx' = tx
  BY <1>4 DEF MoveTo
<1>7. DInv' /\ Proceeds
  BY <1>3, <1>6, <1>9, WriteGoes DEF CInv
<1>10. TInv'
  BY <1>5, <1>8, <1>9, TransactionsStay DEF CInv, TInv
<1> QED
  BY <1>7, <1>10 DEF Kept

\* newTransaction, writeTransaction and discardTransaction.
LEMMA TransactionsKept ==
    ASSUME Store = "leveldb", Careful, CInv, NEW t \in Tx
    PROVE  /\ NewTransaction(t) => Kept
           /\ WriteTransaction(t) => Kept
           /\ DiscardTransaction(t) => Kept
<1>1. ASSUME NewTransaction(t) PROVE Kept
  <2>1. tx' = [tx EXCEPT ![t] = NewHandle] /\ UNCHANGED <<db, snapshots, inDoubt, snapshotId>>
    BY <1>1 DEF NewTransaction
  <2>2. HandleOK(db, snapshotId, NewHandle)
    BY NewHandleOK
  <2>3. TInv'
    BY <2>1, <2>2 DEF CInv, TInv
  <2> QED
    BY <2>1, <2>3, Rests DEF CInv, Kept
<1>2. ASSUME WriteTransaction(t) PROVE Kept
  <2>1. /\ tx[t] # None /\ tx' = [tx EXCEPT ![t] = None] /\ snapshotId' = snapshotId
        /\ WriteHandle(tx[t], Request(<<"writeTransaction">>, t, "success"))
    BY <1>2 DEF WriteTransaction
  <2>2. HandleOK(db, snapshotId, tx[t])
    BY <2>1 DEF CInv, TInv
  <2>3. DInv' /\ Proceeds /\ (db' = db \/ DocWrite(db, db', snapshotId))
    BY <2>1, <2>2, WriteHandleKeeps
  <2>4. DOMAIN tx' = Tx /\ \A u \in Tx : tx'[u] = tx[u] \/ tx'[u] = None
    BY <2>1 DEF CInv, TInv
  <2>5. TInv'
    BY <2>1, <2>3, <2>4, TransactionsStay DEF CInv
  <2> QED
    BY <2>3, <2>5 DEF Kept
<1>3. ASSUME DiscardTransaction(t) PROVE Kept
  <2>1. tx' = [tx EXCEPT ![t] = None] /\ UNCHANGED <<db, snapshots, inDoubt, snapshotId>>
    BY <1>3 DEF DiscardTransaction
  <2>2. TInv'
    BY <2>1 DEF CInv, TInv
  <2> QED
    BY <2>1, <2>2, Rests DEF CInv, Kept
<1> QED
  BY <1>1, <1>2, <1>3

\* Observers are no business of the store.
LEMMA ObserversKept ==
    ASSUME CInv, NEW o
    PROVE  /\ \A q, limit : Observe(o, q, limit) => Kept
           /\ Unobserve(o) => Kept
<1>1. ASSUME UNCHANGED <<db, snapshots, inDoubt, snapshotId, tx>> PROVE Kept
  <2>1. TInv'
    BY <1>1 DEF CInv, TInv
  <2> QED
    BY <1>1, <2>1, Rests DEF CInv, Kept
<1> QED
  BY <1>1 DEF Observe, Unobserve

\* A request on snapshots, made while no transaction is open.
LEMMA MovesKept ==
    ASSUME Store = "leveldb", Careful, CInv, Tx = {} \/ NoneOpen,
           NEW STATE call, NEW STATE h, NEW STATE ss, NEW STATE ix, NEW STATE sid, NEW STATE obs,
           Goes(db, snapshots, Written(db, h), ss), ss # snapshots,
           MoveTo(call, h, ss, ix, sid, obs)
    PROVE  Kept
<1>1. StoreWrites(h, ss, ix) \/ (StoreFails(h, ss, ix) /\ snapshotId' = snapshotId)
  BY DEF MoveTo
<1>2. DInv' /\ Proceeds
  BY <1>1, MoveGoes DEF CInv
<1>3. tx' = tx
  BY DEF MoveTo
<1>4. TInv'
  BY <1>3 DEF CInv, TInv, NoneOpen
<1> QED
  BY <1>2, <1>4 DEF Kept

\* A refused request on snapshots.
LEMMA RefusedKept ==
    ASSUME CInv, NEW STATE call, NEW STATE r, Refuse(call, r)
    PROVE  Kept
<1>1. UNCHANGED <<db, snapshots, inDoubt, snapshotId, tx>>
  BY DEF Refuse
<1>2. TInv'
  BY <1>1 DEF CInv, TInv
<1> QED
  BY <1>1, <1>2, Rests DEF CInv, Kept

\* newSnapshot: the documents of the current state become those of the name.
LEMMA NewSnapshotKept ==
    ASSUME Sheltered, CInv, NEW n \in Name, NewSnapshot(n)
    PROVE  Kept
<1> DEFINE next == (snapshotId + 1) % SnapshotIds
           tt == Append(Front(snapshots), n) \o <<Current>>
           h == CopyIndexValues(db, NewHandle, next, snapshotId)
           L == Len(snapshots)
<1>1. CASE Refuse(<<"newSnapshot", n>>, "errorSnapshotIsExists")
  BY <1>1, RefusedKept
<1>2. CASE /\ n \notin Range(snapshots) /\ L < MaxSnapshots
           /\ MoveTo(<<"newSnapshot", n>>, h, tt, indexed, next, observers)
  <2>1. ListOK(tt) /\ Len(tt) = L + 1 /\ tt[L] = n /\ \A p \in 1..(L - 1) : tt[p] = snapshots[p]
    BY <1>2, GrowList DEF CInv, SInv
  <2>2. L <= SnapshotIds /\ StoreOK(db, L - 1) /\ ListOK(snapshots)
    BY DEF CInv, DInv, Goes, SInv
  <2>3. L \in Nat \ {0}
    BY <2>2, ListLength
  <2>4. SameDocs(h, NewHandle)
    <3>1. IsHandle(NewHandle)
      BY NewHandleOK DEF HandleOK
    <3> QED
      BY <3>1, CopySameDocs
  <2> HIDE DEF tt, h, next
  <2>5. PICK e : e = Written(db, h)
    OBVIOUS
  <2>6. StoreOK(e, L) /\ \A i \in Id : \A s : Value(e, i, s) = Value(db, i, s)
    <3>1. L - 1 \in Int /\ L \in Int /\ L - 1 <= L
      BY <2>3
    <3> HIDE DEF L
    <3> QED
      BY <2>2, <2>4, <2>5, <3>1, DocsUnchanged DEF Sheltered
  <2>7. Len(tt) <= SnapshotIds
    BY <1>2, <2>1, <2>3, ConstAssumption DEF Sheltered
  <2> DEFINE at == [p \in 1..L |-> p]
  <2>8. ASSUME NEW p \in 1..(Len(tt) - 1), tt[p] \in Names(snapshots)
        PROVE  /\ at[p] \in 1..L /\ snapshots[at[p]] = tt[p]
               /\ \A i \in Id : Value(e, i, p - 1) = Value(db, i, at[p] - 1)
    <3>1. p \in 1..L /\ p # L
      BY <1>2, <2>1, <2>3, <2>8 DEF Names
    <3>2. p \in 1..(L - 1) /\ at[p] = p
      BY <2>3, <3>1
    <3> QED
      BY <2>1, <2>6, <3>1, <3>2
  <2> HIDE DEF at
  <2>9. SameSnapshots(db, snapshots, e, tt)
    BY <2>1, <2>2, <2>7, <2>8, SnapshotsStay
  <2>10. Goes(db, snapshots, Written(db, h), tt)
    <3>1. Len(tt) - 1 = L
      BY <2>1, <2>3
    <3> QED
      BY <2>5, <2>6, <2>7, <2>9, <3>1 DEF Goes
  <2>11. Tx = {} \/ NoneOpen
    BY DEF Sheltered, NewSnapshot, MayMove
  <2>12. tt # snapshots
    BY <2>1, <2>3
  <2> QED
    BY <1>2, <2>10, <2>11, <2>12, MovesKept DEF Sheltered
<1> QED
  BY <1>1, <1>2 DEF NewSnapshot

\* revertToSnapshot: the snapshots before the one reverted to stay.
LEMMA RevertKept ==
    ASSUME Sheltered, CInv, NEW n \in Name, RevertToSnapshot(n)
    PROVE  Kept
<1> DEFINE k == SidOf(snapshots, n)
           tt == Append(SubSeq(snapshots, 1, k), Current)
           h == RevertHandle(db, k)
           obs == Reloaded(Written(db, h), k)
           L == Len(snapshots)
<1>1. CASE Refuse(<<"revert", n>>, "errorInvalidObject")
  BY <1>1, RefusedKept
<1>2. CASE n \in Range(snapshots) /\ MoveTo(<<"revert", n>>, h, tt, indexed, k, obs)
  <2>1. L <= SnapshotIds /\ StoreOK(db, L - 1) /\ ListOK(snapshots)
    BY DEF CInv, DInv, Goes, SInv
  <2>2. L \in Nat \ {0} /\ SnapshotIds \in Nat \ {0}
    BY <2>1, ListLength, ConstAssumption
  <2>3. k \in 0..(SnapshotIds - 1) /\ k + 1 < L
    BY <1>2, <2>1, SidOfName
  <2> HIDE DEF k
  <2>4. k \in Nat /\ k < L
    BY <2>2, <2>3
  <2>5. ListOK(tt) /\ Len(tt) = k + 1 /\ \A p \in 1..k : tt[p] = snapshots[p]
    BY <2>1, <2>4, CutList
  <2> HIDE DEF tt, h, obs
  <2>6. PICK e : e = Written(db, h)
    OBVIOUS
  <2>7. StoreOK(e, k) /\ \A i \in Id, s \in 0..k : Value(e, i, s) = Value(db, i, s)
    BY <2>1, <2>2, <2>4, <2>6, RevertEffect DEF Sheltered, h
  <2>8. Len(tt) <= SnapshotIds
    BY <2>1, <2>2, <2>3, <2>5
  <2> DEFINE at == [p \in 1..L |-> p]
  <2>9. ASSUME NEW p \in 1..(Len(tt) - 1)
        PROVE  /\ at[p] \in 1..L /\ snapshots[at[p]] = tt[p]
               /\ \A i \in Id : Value(e, i, p - 1) = Value(db, i, at[p] - 1)
    <3>1. p \in 1..k /\ p \in 1..L /\ p - 1 \in 0..k
      BY <2>2, <2>4, <2>5
    <3> QED
      BY <2>5, <2>7, <3>1
  <2> HIDE DEF at
  <2>10. SameSnapshots(db, snapshots, e, tt)
    BY <2>1, <2>5, <2>8, <2>9, SnapshotsStay
  <2>11. Goes(db, snapshots, Written(db, h), tt)
    <3>1. Len(tt) - 1 = k
      BY <2>4, <2>5
    <3> QED
      BY <2>6, <2>7, <2>8, <2>10, <3>1 DEF Goes
  <2>12. Tx = {} \/ NoneOpen
    BY DEF Sheltered, RevertToSnapshot, MayMove
  <2>13. tt # snapshots
    BY <2>2, <2>3, <2>5
  <2> QED
    BY <1>2, <2>11, <2>12, <2>13, MovesKept DEF Sheltered
<1> QED
  BY <1>1, <1>2 DEF RevertToSnapshot

\* removeSnapshot: the snapshots behind the one removed move one id down.
LEMMA RemoveKept ==
    ASSUME Sheltered, CInv, NEW n \in Name, RemoveSnapshot(n)
    PROVE  Kept
<1> DEFINE k == SidOf(snapshots, n)
           tt == RemoveAt(snapshots, k + 1)
           h == ShiftIndex(db, ShiftDocuments(db, NewHandle, k), k)
           sid == (snapshotId - 1) % SnapshotIds
           obs == Reloaded(Written(db, h), sid)
           L == Len(snapshots)
<1>1. CASE Refuse(<<"removeSnapshot", n>>, "errorInvalidObject")
  BY <1>1, RefusedKept
<1>2. CASE n \in Range(snapshots) /\ MoveTo(<<"removeSnapshot", n>>, h, tt, indexed, sid, obs)
  <2>1. L <= SnapshotIds /\ StoreOK(db, L - 1) /\ ListOK(snapshots)
    BY DEF CInv, DInv, Goes, SInv
  <2>2. L \in Nat \ {0} /\ SnapshotIds \in Nat \ {0}
    BY <2>1, ListLength, ConstAssumption
  <2>3. k \in 0..(SnapshotIds - 1) /\ k + 1 < L
    BY <1>2, <2>1, SidOfName
  <2> HIDE DEF k
  <2>4. k \in Nat /\ L \in Nat
    BY <2>2, <2>3
  <2>5. /\ ListOK(tt) /\ Len(tt) = L - 1
        /\ \A p \in 1..(L - 1) : tt[p] = snapshots[IF p <= k THEN p ELSE p + 1]
    BY <2>1, <2>3, <2>4, ShrinkList
  <2> HIDE DEF tt, h, sid, obs
  <2>6. PICK e : e = Written(db, h)
    OBVIOUS
  <2>7. \A x \in DOMAIN db : db[x] # Tomb
    BY DEF Sheltered, RemoveSnapshot, MayRemove
  <2>8. /\ StoreOK(e, L - 2)
        /\ \A i \in Id, s \in 0..(L - 2) : Value(e, i, s) = Value(db, i, IF s < k THEN s ELSE s + 1)
    <3> HIDE DEF L
    <3> QED
      BY <2>1, <2>3, <2>4, <2>6, <2>7, RemoveEffect DEF Sheltered, h
  <2>9. Len(tt) <= SnapshotIds
    BY <2>1, <2>2, <2>5
  <2> DEFINE at == [p \in 1..L |-> IF p <= k THEN p ELSE p + 1]
  <2>10. ASSUME NEW p \in 1..(Len(tt) - 1)
         PROVE  /\ at[p] \in 1..L /\ snapshots[at[p]] = tt[p]
                /\ \A i \in Id : Value(e, i, p - 1) = Value(db, i, at[p] - 1)
    <3>1. p \in 1..L /\ p \in 1..(L - 1) /\ p - 1 \in 0..(L - 2) /\ p + 1 \in 1..L
      BY <2>2, <2>5
    <3>2. at[p] = IF p <= k THEN p ELSE p + 1
      BY <3>1
    <3>3. (IF p - 1 < k THEN p - 1 ELSE (p - 1) + 1) = at[p] - 1
      BY <2>4, <3>1, <3>2
    <3> HIDE DEF at
    <3>4. \A i \in Id : Value(e, i, p - 1) = Value(db, i, at[p] - 1)
      BY <2>8, <3>1, <3>3
    <3> QED
      BY <2>5, <3>1, <3>2, <3>4
  <2> HIDE DEF at
  <2>11. SameSnapshots(db, snapshots, e, tt)
    BY <2>1, <2>5, <2>9, <2>10, SnapshotsStay
  <2>12. Goes(db, snapshots, Written(db, h), tt)
    <3>1. Len(tt) - 1 = L - 2
      BY <2>4, <2>5
    <3> QED
      BY <2>6, <2>8, <2>9, <2>11, <3>1 DEF Goes
  <2>13. Tx = {} \/ NoneOpen
    BY DEF Sheltered, RemoveSnapshot, MayRemove, MayMove
  <2>14. tt # snapshots
    BY <2>2, <2>5
  <2> QED
    BY <1>2, <2>12, <2>13, <2>14, MovesKept DEF Sheltered
<1> QED
  BY <1>1, <1>2 DEF RemoveSnapshot

\* The collection is opened again, with the store it had or the one in doubt.
LEMMA ReopenKept ==
    ASSUME Store = "leveldb", CInv, Reopen
    PROVE  Kept
<1>1. PICK u \in {Committed} \union inDoubt : db' = u.db /\ snapshots' = u.snapshots
  BY DEF Reopen
<1>2. Goes(db, snapshots, u.db, u.snapshots)
  BY DEF CInv, DInv, Committed
<1>3. inDoubt' = {} /\ tx' = [t \in Tx |-> None]
  BY DEF Reopen
<1>4. Goes(db', snapshots', db', snapshots')
  BY <1>1, <1>2, GoesOn
<1> QED
  BY <1>1, <1>2, <1>3, <1>4 DEF Kept, DInv, TInv, Proceeds

\* Every step keeps the invariant, and the documents of the snapshots.
LEMMA CollectionStep ==
    ASSUME Sheltered, CInv, [Next]_vars
    PROVE  CInv' /\ Proceeds
<1>1. SInv'
  BY SnapshotListStep DEF CInv
<1>2. Store = "leveldb" /\ Careful
  BY DEF Sheltered
<1>3. Kept
  <2>1. CASE UNCHANGED vars
    <3>1. UNCHANGED <<db, snapshots, inDoubt, snapshotId, tx>>
      BY <2>1 DEF vars
    <3>2. TInv'
      BY <3>1 DEF CInv, TInv
    <3> QED
      BY <3>1, <3>2, Rests DEF CInv, Kept
  <2>2. CASE \E x \in Tx \union {NoTx} :
               \/ \E i \in Id, ignore \in Ignore :
                   \/ \E v \in Val, overwrite \in Overwrite : InsertRequest(x, i, v, overwrite, ignore)
                   \/ RemoveIdRequest(x, i, ignore)
               \/ \E q \in Query : RemoveRequest(x, q) \/ \E docs \in Docs : SetRequest(x, q, docs)
    BY <1>2, <2>2, DocumentsKept
  <2>3. CASE CreateIndexRequest
    BY <1>2, <2>3, CreateIndexKept
  <2>4. CASE \E t \in Tx : NewTransaction(t) \/ WriteTransaction(t) \/ DiscardTransaction(t)
    BY <1>2, <2>4, TransactionsKept
  <2>5. CASE \E n \in Name : NewSnapshot(n) \/ RevertToSnapshot(n) \/ RemoveSnapshot(n)
    BY <2>5, NewSnapshotKept, RevertKept, RemoveKept
  <2>6. CASE \E o \in ObsId : Unobserve(o) \/ \E q \in Query, limit \in Limit : Observe(o, q, limit)
    BY <2>6, ObserversKept
  <2>7. CASE Reopen
    BY <1>2, <2>7, ReopenKept
  <2> QED
    BY <2>1, <2>2, <2>3, <2>4, <2>5, <2>6, <2>7 DEF Next
<1> QED
  BY <1>1, <1>3 DEF Kept, CInv

\* The invariant holds at the start, with one snapshot id at least.
LEMMA CollectionInit ==
    ASSUME Init
    PROVE  CInv
<1>1. SInv
  BY ConstAssumption DEF Init, SInv, ListOK, SnapshotListOK, SizeOK
<1>2. Goes(db, snapshots, db, snapshots) /\ inDoubt = {}
  <2>1. Len(snapshots) = 1 /\ inDoubt = {}
    BY DEF Init
  <2>2. StoreOK(db, Len(snapshots) - 1)
    BY DEF Init, StoreOK, NoKeys
  <2> QED
    BY <2>1, <2>2, ConstAssumption DEF Goes, SameSnapshots
<1>3. TInv
  BY DEF Init, TInv
<1> QED
  BY <1>1, <1>2, <1>3 DEF CInv, DInv

\* CInv is an invariant of a sheltered collection.
THEOREM DocumentsInvariant == Sheltered => (Spec => []CInv)
<1> SUFFICES ASSUME Sheltered PROVE Spec => []CInv
  OBVIOUS
<1>1. Init => CInv
  BY CollectionInit
<1>2. CInv /\ [Next]_vars => CInv'
  BY CollectionStep
<1> QED
  BY <1>1, <1>2, PTL DEF Spec

\* No version that holds a document is without the start key from which every
\* search begins, after every sequence of requests, failed and in-doubt writes
\* and restarts.
THEOREM NoDocumentLost == Sheltered => (Spec => []NoLostDocument)
<1> SUFFICES ASSUME Sheltered PROVE Spec => []NoLostDocument
  OBVIOUS
<1>1. CInv => NoLostDocument
  BY DEF CInv, DInv, Goes, StoreOK, NoLostDocument, Versions
<1> QED
  BY <1>1, DocumentsInvariant, PTL

\* Snapshots are read-only: whatever is done to the collection, a snapshot that
\* is there before and after a step shows the same documents.
THEOREM SnapshotsStayReadOnly == Sheltered => (Spec => SnapshotsReadOnly)
<1> SUFFICES ASSUME Sheltered PROVE Spec => SnapshotsReadOnly
  OBVIOUS
<1>1. CInv /\ [Next]_vars =>
         [\A n \in Names(snapshots) \intersect Names(snapshots') :
             View(db', SidOf(snapshots', n)) = View(db, SidOf(snapshots, n))]_vars
  BY CollectionStep DEF Proceeds, Goes, SameSnapshots
<1> QED
  BY <1>1, DocumentsInvariant, PTL DEF Spec, SnapshotsReadOnly

\* getModified of a snapshot names every document that the current state shows
\* differently, while there are no more snapshots than half the ids: then the
\* version, read as a signed char, is the version.
THEOREM ModifiedNamesAll == MaxSnapshots <= SnapshotIds \div 2 => (Spec => []ModifiedComplete)
<1> SUFFICES ASSUME MaxSnapshots <= SnapshotIds \div 2 PROVE Spec => []ModifiedComplete
  OBVIOUS
<1>1. ASSUME SInv
      PROVE  ModifiedComplete
  <2> SUFFICES ASSUME NEW n \in Names(snapshots), NEW i \in Id,
                      Value(db, i, SidOf(snapshots, n)) # Value(db, i, snapshotId)
               PROVE  i \in GetModified(db, SidOf(snapshots, n))
    BY DEF ModifiedComplete
  <2>1. PICK p \in 1..(Len(snapshots) - 1) : snapshots[p] = n
    BY <1>1, NameAt DEF SInv
  <2>2. Len(snapshots) \in Nat /\ Len(snapshots) >= 2 /\ Len(snapshots) <= MaxSnapshots
    BY <1>1, <2>1, ListLength DEF SInv, SizeOK
  <2>3. SnapshotIds \in Nat \ {0} /\ MaxSnapshots \in Nat
        /\ SnapshotIds \div 2 \in Nat /\ SnapshotIds \div 2 <= SnapshotIds
    BY ConstAssumption
  <2>4. Len(snapshots) <= SnapshotIds /\ Len(snapshots) <= SnapshotIds \div 2
    BY <2>2, <2>3
  <2>5. snapshotId = Len(snapshots) - 1 /\ snapshotId \in Sid
    BY <1>1, <2>4, LastId
  <2>6. SidOf(snapshots, n) = p - 1
    <3>1. p \in 1..Len(snapshots)
      BY <2>1, <2>2
    <3> QED
      BY <1>1, <2>1, <2>4, <3>1, SidOfAt DEF SInv
  <2> DEFINE s == SidOf(snapshots, n)
  <2>7. s < snapshotId /\ s \in Nat
    BY <2>1, <2>2, <2>5, <2>6
  <2> HIDE DEF s
  <2>8. HasStart(db, i)
    BY DEF Value, s
  <2>9. UpTo(db, i, s) # UpTo(db, i, snapshotId)
    BY DEF Value, s
  <2>10. PICK r \in Versions(db, i) : ~(r <= s) /\ r <= snapshotId
    <3>1. \A r \in Versions(db, i) : r <= s => r <= snapshotId
      BY <2>2, <2>5, <2>7, ConstAssumption DEF Versions, Sid
    <3> QED
      BY <2>9, <3>1 DEF UpTo
  <2>11. r \in Nat /\ r > s /\ r < SnapshotIds \div 2
    BY <2>2, <2>3, <2>4, <2>5, <2>7, <2>10 DEF Versions, Sid
  <2>12. Signed(r) = r
    BY <2>3, <2>11 DEF Signed
  <2> QED
    BY <2>8, <2>10, <2>11, <2>12 DEF GetModified, s
<1> QED
  BY <1>1, SnapshotListInvariant, PTL

-----------------------------------------------------------------------------
(* Documents that two stores read alike, and lists without doubles.        *)

\* Two stores hold the same at key k.
SameAt(e, f, k) ==
    /\ k \in DOMAIN e <=> k \in DOMAIN f
    /\ k \in DOMAIN f => e[k] = f[k]

\* Two stores hold the same of document i.
SameDoc(e, f, i) == SameAt(e, f, StartKey(i)) /\ \A s \in Sid : SameAt(e, f, DocKey(i, s))

\* Then every reader sees the same of it.
LEMMA SameDocRead ==
    ASSUME NEW e, NEW f, NEW i, SameDoc(e, f, i)
    PROVE  /\ HasStart(e, i) <=> HasStart(f, i)
           /\ Versions(e, i) = Versions(f, i)
           /\ \A s : UpTo(e, i, s) = UpTo(f, i, s) /\ Value(e, i, s) = Value(f, i, s)
<1>1. HasStart(e, i) <=> HasStart(f, i)
  BY DEF SameDoc, SameAt, HasStart
<1>2. Versions(e, i) = Versions(f, i)
  BY DEF SameDoc, SameAt, Versions
<1>3. ASSUME NEW s
      PROVE  UpTo(e, i, s) = UpTo(f, i, s) /\ Value(e, i, s) = Value(f, i, s)
  <2>1. UpTo(e, i, s) = UpTo(f, i, s)
    BY <1>2 DEF UpTo
  <2>2. CASE UpTo(f, i, s) = {}
    BY <2>1, <2>2 DEF Value
  <2>3. CASE UpTo(f, i, s) # {}
    <3>1. PICK m : m = Max(UpTo(f, i, s))
      OBVIOUS
    <3>2. m \in UpTo(f, i, s)
      BY <2>3, <3>1, UpToMax
    <3>3. m \in Sid /\ DocKey(i, m) \in DOMAIN f
      BY <3>2 DEF UpTo, Versions
    <3>4. e[DocKey(i, m)] = f[DocKey(i, m)]
      BY <3>3 DEF SameDoc, SameAt
    <3> QED
      BY <1>1, <2>1, <3>1, <3>4, Zenon DEF Value
  <2> QED
    BY <2>1, <2>2, <2>3
<1> QED
  BY <1>1, <1>2, <1>3

\* The greatest version up to one that is there.
LEMMA MaxUpTo ==
    ASSUME NEW e, NEW i, NEW s \in Sid, s \in Versions(e, i)
    PROVE  UpTo(e, i, s) # {} /\ Max(UpTo(e, i, s)) = s
<1>1. s \in UpTo(e, i, s)
  BY ConstAssumption DEF UpTo, Sid
<1>2. PICK m : m = Max(UpTo(e, i, s))
  OBVIOUS
<1>3. m \in UpTo(e, i, s) /\ s <= m /\ m \in Sid
  BY <1>1, <1>2, UpToMax DEF Sid
<1>4. m <= s
  BY <1>3 DEF UpTo
<1> QED
  BY <1>1, <1>2, <1>3, <1>4, ConstAssumption DEF Sid

\* Document i is v at snapshot s.
IsDoc(e, i, s, v) == HasStart(e, i) /\ DocKey(i, s) \in DOMAIN e /\ e[DocKey(i, s)] = v

\* Document i is not there at snapshot s.
NoDoc(e, i, s) ==
    ~HasStart(e, i) \/ (DocKey(i, s) \in DOMAIN e /\ e[DocKey(i, s)] = Tomb)

\* What a reader makes of the two.
LEMMA DocRead ==
    ASSUME NEW e, NEW i, NEW s \in Sid
    PROVE  /\ \A v \in Val : IsDoc(e, i, s, v) =>
                  Value(e, i, s) = v /\ UpTo(e, i, s) # {} /\ Max(UpTo(e, i, s)) = s
           /\ NoDoc(e, i, s) => Value(e, i, s) = None
<1>1. DocKey(i, s) \in DOMAIN e => UpTo(e, i, s) # {} /\ Max(UpTo(e, i, s)) = s
  BY MaxUpTo DEF Versions
<1>2. ASSUME NEW v \in Val, IsDoc(e, i, s, v)
      PROVE  Value(e, i, s) = v
  <2>1. v # Tomb
    BY ConstAssumption
  <2>2. HasStart(e, i) /\ UpTo(e, i, s) # {} /\ e[DocKey(i, Max(UpTo(e, i, s)))] = v
    BY <1>1, <1>2 DEF IsDoc
  <2> QED
    BY <2>1, <2>2, Zenon DEF Value
<1>3. ASSUME NoDoc(e, i, s)
      PROVE  Value(e, i, s) = None
  <2>1. CASE ~HasStart(e, i)
    BY <2>1, Zenon DEF Value
  <2>2. CASE DocKey(i, s) \in DOMAIN e /\ e[DocKey(i, s)] = Tomb
    <3>1. e[DocKey(i, Max(UpTo(e, i, s)))] = Tomb
      BY <1>1, <2>2
    <3> QED
      BY <3>1, Zenon DEF Value
  <2> QED
    BY <1>3, <2>1, <2>2 DEF NoDoc
<1> QED
  BY <1>1, <1>2, <1>3 DEF IsDoc

\* A sequence and one more element.
LEMMA AppendRange ==
    ASSUME NEW S, NEW s \in Seq(S), NEW x \in S
    PROVE  Append(s, x) \in Seq(S) /\ Range(Append(s, x)) = Range(s) \union {x}
<1>1. /\ Append(s, x) \in Seq(S) /\ Len(Append(s, x)) = Len(s) + 1 /\ Len(s) \in Nat
      /\ \A i \in 1..Len(s) : Append(s, x)[i] = s[i]
      /\ Append(s, x)[Len(s) + 1] = x
  BY AppendAt
<1>2. DOMAIN s = 1..Len(s) /\ DOMAIN Append(s, x) = 1..(Len(s) + 1)
  BY <1>1, LenProperties
<1>3. Range(Append(s, x)) \subseteq Range(s) \union {x}
  BY AppendFacts
<1>4. ASSUME NEW y \in Range(s) \union {x}
      PROVE  \E i \in DOMAIN Append(s, x) : Append(s, x)[i] = y
  <2>1. CASE y = x
    BY <1>1, <1>2, <2>1
  <2>2. CASE y \in Range(s)
    <3>1. PICK i \in 1..Len(s) : s[i] = y
      BY <1>2, <2>2, Zenon DEF Range
    <3>2. i \in DOMAIN Append(s, x) /\ Append(s, x)[i] = y
      BY <1>1, <1>2, <3>1
    <3> QED
      BY <3>2
  <2> QED
    BY <2>1, <2>2, <1>4
<1>5. Range(s) \union {x} \subseteq Range(Append(s, x))
  BY <1>4, Zenon DEF Range
<1> QED
  BY <1>1, <1>3, <1>5

\* Only takes no element twice from a sequence that has none twice.
LEMMA OnlyOnce ==
    ASSUME NEW T, NEW seq \in Seq(T), NEW S, IsInjective(seq)
    PROVE  IsInjective(Only(seq, S))
<1> DEFINE L == Len(seq)
           kept == CHOOSE f : IsKeeping(f, seq, S, L)
<1>1. L \in Nat /\ DOMAIN seq = 1..L /\ \A k \in 1..L : seq[k] \in T
  BY LenProperties, ElementOfSeq
<1>2. IsKeeping(kept, seq, S, L)
  BY <1>1, KeepingExists, Zenon
<1>3. Only(seq, S) = kept[L]
  BY Zenon DEF Only, IsKeeping
<1> HIDE DEF kept, L
<1>4. \A k \in 0..L : kept[k] = IF k = 0 THEN <<>>
                                ELSE IF seq[k] \in S THEN Append(kept[k - 1], seq[k]) ELSE kept[k - 1]
  BY <1>2 DEF IsKeeping
<1> DEFINE Good(k) == /\ kept[k] \in Seq(T)
                      /\ \A n \in DOMAIN kept[k] : \E m \in 1..k : kept[k][n] = seq[m]
                      /\ IsInjective(kept[k])
           Bad == {k \in 0..L : ~Good(k)}
<1> HIDE DEF Good
<1>5. Bad = {}
  <2> SUFFICES ASSUME Bad # {} PROVE FALSE
    OBVIOUS
  <2>1. PICK k \in Bad : \A m \in Bad : k <= m
    <3>1. Bad \in SUBSET Nat
      BY <1>1
    <3> HIDE DEF Bad
    <3> QED
      BY <3>1, LeastExists
  <2>2. k \in 0..L /\ ~Good(k)
    BY <2>1
  <2>3. k # 0
    <3>1. kept[0] = <<>>
      BY <1>1, <1>4
    <3>2. <<>> \in Seq(T) /\ DOMAIN <<>> = {}
      OBVIOUS
    <3>3. Good(0)
      BY <3>1, <3>2 DEF Good, IsInjective
    <3> QED
      BY <2>2, <3>3
  <2>4. k - 1 \in 0..L /\ k - 1 < k /\ k \in 1..L /\ k \in Nat
    BY <1>1, <2>2, <2>3
  <2>5. Good(k - 1)
    BY <2>1, <2>4
  <2>6. PICK p : p = kept[k - 1]
    OBVIOUS
  <2>7. p \in Seq(T) /\ IsInjective(p) /\ \A n \in DOMAIN p : \E m \in 1..(k - 1) : p[n] = seq[m]
    BY <2>5, <2>6 DEF Good
  <2>8. \A n \in DOMAIN p : \E m \in 1..k : p[n] = seq[m]
    BY <2>4, <2>7
  <2>9. CASE seq[k] \in S
    <3>1. PICK x : x = seq[k]
      OBVIOUS
    <3>2. kept[k] = Append(p, x) /\ x \in T
      BY <1>1, <1>4, <2>2, <2>3, <2>4, <2>6, <2>9, <3>1
    <3>3. /\ Append(p, x) \in Seq(T) /\ Len(Append(p, x)) = Len(p) + 1 /\ Len(p) \in Nat
          /\ \A i \in 1..Len(p) : Append(p, x)[i] = p[i]
          /\ Append(p, x)[Len(p) + 1] = x
      BY <2>7, <3>2, AppendAt
    <3>4. DOMAIN Append(p, x) = 1..(Len(p) + 1) /\ DOMAIN p = 1..Len(p)
      BY <2>7, <3>3, LenProperties
    <3>5. \A n \in DOMAIN p : p[n] # x
      BY <1>1, <2>4, <2>7, <3>1 DEF IsInjective
    <3>6. PICK w : w = Append(p, x)
      OBVIOUS
    <3>7. IsInjective(w)
      BY <2>7, <3>3, <3>4, <3>5, <3>6 DEF IsInjective
    <3>8. \A n \in DOMAIN w : \E m \in 1..k : w[n] = seq[m]
      <4> SUFFICES ASSUME NEW n \in DOMAIN w PROVE \E m \in 1..k : w[n] = seq[m]
        OBVIOUS
      <4>1. CASE n \in DOMAIN p
        <5>1. w[n] = p[n]
          BY <3>3, <3>4, <3>6, <4>1
        <5> QED
          BY <2>8, <4>1, <5>1
      <4>2. CASE n \notin DOMAIN p
        <5>1. n = Len(p) + 1
          BY <3>3, <3>4, <3>6, <4>2
        <5>2. w[n] = seq[k] /\ k \in 1..k
          BY <2>4, <3>1, <3>3, <3>6, <5>1
        <5> QED
          BY <5>2
      <4> QED
        BY <4>1, <4>2
    <3>9. Good(k)
      BY <3>2, <3>3, <3>6, <3>7, <3>8 DEF Good
    <3> QED
      BY <2>2, <3>9
  <2>10. CASE seq[k] \notin S
    <3>1. kept[k] = p
      BY <1>4, <2>2, <2>3, <2>6, <2>10
    <3>2. Good(k)
      BY <2>7, <2>8, <3>1 DEF Good
    <3> QED
      BY <2>2, <3>2
  <2> QED
    BY <2>9, <2>10
<1>6. Good(L)
  BY <1>1, <1>5
<1> QED
  BY <1>3, <1>6 DEF Good

\* No document is twice in a list.
Distinct(docs) == \A m, n \in DOMAIN docs : docs[m].id = docs[n].id => m = n

\* A full search meets every document once.
LEMMA ScanOnce ==
    ASSUME NEW d, NEW s
    PROVE  Distinct(Scan(d, s)) /\ IsInjective(Scan(d, s))
<1> DEFINE S == {i \in Id : Value(d, i, s) # None}
           ids == Only([i \in Id |-> i], S)
<1>1. PICK all : all = [i \in Id |-> i]
  OBVIOUS
<1>2. all \in Seq(Id) /\ IsInjective(all)
  BY <1>1, ConstAssumption DEF Id, IsInjective
<1> HIDE DEF S
<1>3. IsInjective(Only(all, S))
  BY <1>2, OnlyOnce
<1>4. IsInjective(ids)
  BY <1>1, <1>3, Zenon
<1>5. Scan(d, s) = [n \in DOMAIN ids |-> Doc(ids[n], Value(d, ids[n], s))]
  BY Zenon DEF Scan, S
<1> HIDE DEF ids
<1>6. DOMAIN Scan(d, s) = DOMAIN ids /\ \A n \in DOMAIN ids : Scan(d, s)[n].id = ids[n]
  BY <1>5 DEF Doc
<1> QED
  BY <1>4, <1>6 DEF Distinct, IsInjective

\* So does what is left of it.
LEMMA OnlyDistinct ==
    ASSUME NEW T, NEW docs \in Seq(T), NEW S, Distinct(docs)
    PROVE  Distinct(Only(docs, S))
<1>1. IsInjective(docs)
  BY DEF Distinct, IsInjective
<1>2. IsInjective(Only(docs, S)) /\ Range(Only(docs, S)) \subseteq Range(docs)
  <2>1. IsInjective(Only(docs, S))
    BY <1>1, OnlyOnce
  <2>2. Range(Only(docs, S)) = Range(docs) \intersect S
    BY OnlyFacts
  <2> QED
    BY <2>1, <2>2
<1>3. PICK g : g = Only(docs, S)
  OBVIOUS
<1>4. ASSUME NEW m \in DOMAIN g, NEW n \in DOMAIN g, g[m].id = g[n].id
      PROVE  m = n
  <2>1. g[m] \in Range(docs) /\ g[n] \in Range(docs)
    BY <1>2, <1>3 DEF Range
  <2>2. PICK a \in DOMAIN docs, b \in DOMAIN docs : docs[a] = g[m] /\ docs[b] = g[n]
    BY <2>1 DEF Range
  <2>3. a = b
    BY <1>4, <2>2 DEF Distinct
  <2> QED
    BY <1>2, <1>3, <2>2, <2>3 DEF IsInjective
<1> QED
  BY <1>3, <1>4 DEF Distinct

\* What holds the same of a document as the same holds the same.
LEMMA SameDocAgain ==
    ASSUME NEW e, NEW f, NEW g, NEW i, SameDoc(g, f, i), SameDoc(f, e, i)
    PROVE  SameDoc(g, e, i)
BY DEF SameDoc, SameAt

\* The queries that go through an index or a full search.
Plain(q) == q = All \/ \E v \in Val : q = ByField(v)

\* What a full search returns.
LEMMA SearchRange ==
    ASSUME NEW d, NEW s, NEW q, NEW x
    PROVE  x \in Range(FullSearch(d, s, q)) <=>
              \E i \in Id : x = Doc(i, Value(d, i, s)) /\ Value(d, i, s) # None /\ Matches(q, x)
<1>1. x \in Range(Scan(d, s)) <=> \E i \in Id : x = Doc(i, Value(d, i, s)) /\ Value(d, i, s) # None
  <2>1. Range(Scan(d, s)) = {Doc(i, Value(d, i, s)) : i \in {j \in Id : Value(d, j, s) # None}}
    BY ScanFacts
  <2> QED
    BY <2>1
<1>2. x \in Range(FullSearch(d, s, q)) <=> x \in Range(Scan(d, s)) /\ Matches(q, x)
  <2>1. Range(FullSearch(d, s, q)) = {e \in Range(Scan(d, s)) : Matches(q, e)}
    BY FullSearchFacts
  <2> QED
    BY <2>1
<1> QED
  BY <1>1, <1>2

\* A handle of its own for every request.
LEMMA FreshHandle ==
    ASSUME NEW d
    PROVE  HandleOK(d, snapshotId, NewHandle) /\ IsHandle(NewHandle) /\ NewHandle.sid = snapshotId
BY NewHandleOK DEF HandleOK

\* Document i is there at snapshot s, and the query asks for it.
Hit(d, s, q, i) == Value(d, i, s) # None /\ Matches(q, Doc(i, Value(d, i, s)))

\* The documents that a query asks for, each once; all of them have keys.
DocsAt(d, s) == {Doc(i, Value(d, i, s)) : i \in Id}

\* The place of a name in the list.
LEMMA NamePlace ==
    ASSUME NEW ss, ListOK(ss), Len(ss) <= SnapshotIds, NEW n \in Name, n \in Range(ss)
    PROVE  SidOf(ss, n) \in Nat /\ SidOf(ss, n) + 1 < Len(ss) /\ ss[SidOf(ss, n) + 1] = n
<1>1. n \in Names(ss)
  BY ConstAssumption DEF Names
<1>2. PICK p \in 1..(Len(ss) - 1) : ss[p] = n
  BY <1>1, NameAt
<1>3. Len(ss) \in Nat \ {0}
  BY ListLength
<1>4. p \in 1..Len(ss) /\ p - 1 \in Nat /\ (p - 1) + 1 = p /\ p < Len(ss)
  BY <1>2, <1>3
<1>5. SidOf(ss, n) = p - 1
  BY <1>2, <1>4, SidOfAt
<1> QED
  BY <1>2, <1>4, <1>5

\* Append, SubSeq and RemoveAt on a sequence, by position.
LEMMA ListChanges ==
    ASSUME NEW m \in Nat, NEW f, f = [j \in 1..m |-> f[j]]
    PROVE  /\ \A x : Append(f, x) = [j \in 1..(m + 1) |-> IF j <= m THEN f[j] ELSE x]
           /\ \A k \in 0..m : SubSeq(f, 1, k) = [j \in 1..k |-> f[j]]
           /\ \A k \in Nat : k < m =>
                 RemoveAt(f, k + 1) = [j \in 1..(m - 1) |-> f[IF j <= k THEN j ELSE j + 1]]
<1> DEFINE T == {f[j] : j \in 1..m}
<1>1. f \in Seq(T) /\ Len(f) = m
  <2>1. f \in [1..m -> T]
    <3>1. \A j \in 1..m : f[j] \in T
      OBVIOUS
    <3> HIDE DEF T
    <3> QED
      BY <3>1
  <2> HIDE DEF T
  <2> QED
    BY <2>1
<1> HIDE DEF T
<1>2. ASSUME NEW x
      PROVE  Append(f, x) = [j \in 1..(m + 1) |-> IF j <= m THEN f[j] ELSE x]
  <2> DEFINE U == T \union {x}
             u == Append(f, x)
  <2>1. f \in Seq(U) /\ x \in U
    BY <1>1
  <2> HIDE DEF U
  <2>2. u \in Seq(U) /\ Len(u) = m + 1 /\ u[m + 1] = x /\ \A j \in 1..m : u[j] = f[j]
    BY <1>1, <2>1
  <2> HIDE DEF u
  <2>3. u = [j \in 1..(m + 1) |-> u[j]]
    BY <2>2
  <2>4. \A j \in 1..(m + 1) : u[j] = IF j <= m THEN f[j] ELSE x
    BY <2>2
  <2>5. u = [j \in 1..(m + 1) |-> IF j <= m THEN f[j] ELSE x]
    BY <2>3, <2>4
  <2> QED
    BY <2>5 DEF u
<1>3. ASSUME NEW k \in 0..m
      PROVE  /\ SubSeq(f, 1, k) = [j \in 1..k |-> f[j]]
             /\ SubSeq(f, 1, k) \in Seq(T) /\ Len(SubSeq(f, 1, k)) = k
  <2> DEFINE u == SubSeq(f, 1, k)
  <2>1. u \in Seq(T) /\ Len(u) = k /\ \A j \in 1..k : u[j] = f[j]
    BY <1>1
  <2> HIDE DEF u
  <2>2. u = [j \in 1..k |-> u[j]]
    BY <2>1
  <2>3. u = [j \in 1..k |-> f[j]]
    BY <2>1, <2>2
  <2> QED
    BY <2>1, <2>3 DEF u
<1>4. ASSUME NEW k \in Nat, k < m
      PROVE  RemoveAt(f, k + 1) = [j \in 1..(m - 1) |-> f[IF j <= k THEN j ELSE j + 1]]
  <2> DEFINE a == SubSeq(f, 1, k)
             b == SubSeq(f, k + 2, m)
             u == a \o b
  <2>1. a \in Seq(T) /\ Len(a) = k /\ \A j \in 1..k : a[j] = f[j]
    <3>1. k \in 0..m
      BY <1>4
    <3>2. a = [j \in 1..k |-> f[j]]
      BY <1>3, <3>1
    <3> QED
      BY <1>3, <3>1, <3>2
  <2>2. /\ b \in Seq(T) /\ Len(b) = m - (k + 1)
        /\ \A j \in 1..(m - (k + 1)) : b[j] = f[j + (k + 1)]
    <3>1. PICK lo \in Int : lo = k + 2
      OBVIOUS
    <3>2. /\ b \in Seq(T)
          /\ Len(b) = IF k + 2 <= m THEN m - (k + 2) + 1 ELSE 0
          /\ \A j \in 1..(m - (k + 2) + 1) : b[j] = f[(k + 2) + j - 1]
      <4>1. \A j \in lo..m : f[j] \in T
        BY <1>1, <3>1
      <4>2. m \in Int
        OBVIOUS
      <4>3. /\ SubSeq(f, lo, m) \in Seq(T)
            /\ Len(SubSeq(f, lo, m)) = IF lo <= m THEN m - lo + 1 ELSE 0
            /\ \A j \in 1..(m - lo + 1) : SubSeq(f, lo, m)[j] = f[lo + j - 1]
        BY <4>1, <4>2, SubSeqProperties
      <4> QED
        BY <3>1, <4>3
    <3> HIDE DEF b
    <3>3. m - (k + 2) + 1 = m - (k + 1)
      OBVIOUS
    <3>4. Len(b) = m - (k + 1)
      BY <1>4, <3>2, <3>3
    <3>5. ASSUME NEW j \in 1..(m - (k + 1))
          PROVE  b[j] = f[j + (k + 1)]
      <4>1. (k + 2) + j - 1 = j + (k + 1)
        OBVIOUS
      <4> QED
        BY <4>1, <3>2, <3>3
    <3> QED
      BY <3>2, <3>4, <3>5
  <2>3. RemoveAt(f, k + 1) = u
    <3>1. (k + 1) - 1 = k /\ (k + 1) + 1 = k + 2
      OBVIOUS
    <3> QED
      BY <1>1, <3>1 DEF RemoveAt
  <2> HIDE DEF a, b
  <2>4. /\ u \in Seq(T) /\ Len(u) = m - 1
        /\ \A j \in 1..(m - 1) : u[j] = IF j <= k THEN a[j] ELSE b[j - k]
    BY <1>4, <2>1, <2>2
  <2> HIDE DEF u
  <2>5. ASSUME NEW j \in 1..(m - 1)
        PROVE  u[j] = f[IF j <= k THEN j ELSE j + 1]
    <3>1. CASE j <= k
      <4>1. j \in 1..k
        BY <3>1
      <4> QED
        BY <2>1, <2>4, <3>1, <4>1
    <3>2. CASE ~(j <= k)
      <4>1. j - k \in 1..(m - (k + 1)) /\ (j - k) + (k + 1) = j + 1
        BY <3>2
      <4> QED
        BY <2>2, <2>4, <3>2, <4>1
    <3> QED
      BY <3>1, <3>2
  <2>6. u = [j \in 1..(m - 1) |-> u[j]]
    BY <2>4
  <2> QED
    BY <2>3, <2>5, <2>6
<1> QED
  BY <1>2, <1>3, <1>4

-----------------------------------------------------------------------------
(* Observers.  In the map a write erases and puts single keys.             *)

\* What the map holds after the writes of a handle.
LEMMA MapWritten ==
    ASSUME Store = "map", NEW d, NEW h, NEW k
    PROVE  /\ k \in DOMAIN Written(d, h) <=> k \in DOMAIN h.cache \/ (k \in DOMAIN d /\ k \notin h.deleted)
           /\ k \in DOMAIN h.cache => Written(d, h)[k] = h.cache[k]
           /\ k \in DOMAIN d /\ k \notin h.deleted /\ k \notin DOMAIN h.cache => Written(d, h)[k] = d[k]
<1> DEFINE g == Restrict(d, DOMAIN d \ h.deleted)
<1>1. Written(d, h) = Over(h.cache, g)
  BY DEF Written
<1>2. DOMAIN g = DOMAIN d \ h.deleted /\ \A x \in DOMAIN g : g[x] = d[x]
  BY DEF Restrict
<1> HIDE DEF g
<1>3. DOMAIN Over(h.cache, g) = DOMAIN h.cache \union DOMAIN g
      /\ \A x \in DOMAIN Over(h.cache, g) :
            Over(h.cache, g)[x] = IF x \in DOMAIN h.cache THEN h.cache[x] ELSE g[x]
  BY DEF Over
<1> QED
  BY <1>1, <1>2, <1>3

\* Pending writes that say the same of a key leave the same there.
LEMMA MapSame ==
    ASSUME Store = "map", NEW d, NEW g, NEW h, NEW k, SameKey(g, h, k)
    PROVE  SameAt(Written(d, g), Written(d, h), k)
<1>1. PICK e : e = Written(d, g)
  OBVIOUS
<1>2. PICK f : f = Written(d, h)
  OBVIOUS
<1>3. /\ k \in DOMAIN e <=> k \in DOMAIN g.cache \/ (k \in DOMAIN d /\ k \notin g.deleted)
      /\ k \in DOMAIN g.cache => e[k] = g.cache[k]
      /\ k \in DOMAIN d /\ k \notin g.deleted /\ k \notin DOMAIN g.cache => e[k] = d[k]
  BY <1>1, MapWritten
<1>4. /\ k \in DOMAIN f <=> k \in DOMAIN h.cache \/ (k \in DOMAIN d /\ k \notin h.deleted)
      /\ k \in DOMAIN h.cache => f[k] = h.cache[k]
      /\ k \in DOMAIN d /\ k \notin h.deleted /\ k \notin DOMAIN h.cache => f[k] = d[k]
  BY <1>2, MapWritten
<1> QED
  BY <1>1, <1>2, <1>3, <1>4 DEF SameAt, SameKey

\* Pending writes that say nothing of a key leave what was there.
LEMMA MapUntouched ==
    ASSUME Store = "map", NEW d, NEW h, NEW k, k \notin h.deleted, k \notin DOMAIN h.cache
    PROVE  SameAt(Written(d, h), d, k)
BY MapWritten DEF SameAt

\* In the map a search lands on the document it looks for.
LEMMA MapLand ==
    ASSUME Store = "map", NEW d, NEW i \in Id
    PROVE  Land(d, i) = IF HasStart(d, i) THEN i ELSE None
<1> DEFINE from == {j \in {i} : HasStart(d, j) \/ Versions(d, j) # {}}
<1>1. Land(d, i) = IF from # {} /\ HasStart(d, Min(from)) THEN Min(from) ELSE None
  BY Zenon DEF Land
<1>2. i \in Nat /\ from \in SUBSET Nat /\ from \subseteq {i}
  BY ConstAssumption DEF Id
<1>3. HasStart(d, i) => from # {}
  OBVIOUS
<1> HIDE DEF from
<1>4. from # {} => Min(from) = i
  BY <1>2, MinFacts
<1> QED
  BY <1>1, <1>3, <1>4

\* So it finds what a reader sees of that document.
LEMMA MapGet ==
    ASSUME Store = "map", NEW d, NEW i \in Id, NEW s
    PROVE  GetJsonValue(d, i, s) = Value(d, i, s)
<1>1. i # None
  BY ConstAssumption DEF Id
<1>2. CASE HasStart(d, i)
  BY <1>1, <1>2, MapLand DEF GetJsonValue
<1>3. CASE ~HasStart(d, i)
  <2>1. Value(d, i, s) = None
    BY <1>3, Zenon DEF Value
  <2> QED
    BY <1>3, <2>1, MapLand DEF GetJsonValue
<1> QED
  BY <1>2, <1>3

-----------------------------------------------------------------------------
(* The replies of observers.                                               *)

\* The observer o holds the documents that its query asks for, each once.
Answers(d, s, o) ==
    /\ o = [q |-> o.q, limit |-> None, reply |-> o.reply]
    /\ Plain(o.q)
    /\ o.reply \in Seq(Range(o.reply)) /\ Distinct(o.reply)
    /\ \A x : x \in Range(o.reply) <=> \E i \in Id : x = Doc(i, Value(d, i, s)) /\ Hit(d, s, o.q, i)

\* A document tells its id and its value.
LEMMA DocParts ==
    ASSUME NEW i, NEW v
    PROVE  Doc(i, v).id = i /\ Doc(i, v).f = v /\ \A j, w : Doc(i, v) = Doc(j, w) => i = j /\ v = w
BY DEF Doc

\* A full search is an answer.
LEMMA SearchAnswers ==
    ASSUME NEW d, NEW s, NEW q, Plain(q), NEW o, o = [q |-> q, limit |-> None, reply |-> FullSearch(d, s, q)]
    PROVE  Answers(d, s, o)
<1>1. PICK docs : docs = FullSearch(d, s, q)
  OBVIOUS
<1>2. o.q = q /\ o.reply = docs /\ o = [q |-> o.q, limit |-> None, reply |-> o.reply]
  BY <1>1
<1>3. docs \in Seq({Doc(i, Value(d, i, s)) : i \in Id})
  BY <1>1, FullSearchFacts
<1>4. docs \in Seq(Range(docs))
  BY <1>3, OwnElements
<1>5. Distinct(docs)
  <2>1. Scan(d, s) \in Seq({Doc(i, Value(d, i, s)) : i \in Id}) /\ Distinct(Scan(d, s))
    BY ScanFacts, ScanOnce
  <2> QED
    BY <1>1, <2>1, OnlyDistinct DEF FullSearch
<1>6. \A x : x \in Range(docs) <=> \E i \in Id : x = Doc(i, Value(d, i, s)) /\ Hit(d, s, q, i)
  BY <1>1, SearchRange DEF Hit
<1> QED
  BY <1>2, <1>4, <1>5, <1>6 DEF Answers

\* An answer stays one when the documents look the same.
LEMMA SameAnswers ==
    ASSUME NEW d, NEW s, NEW o, Answers(d, s, o), NEW e, NEW r,
           \A i \in Id : Value(e, i, r) = Value(d, i, s)
    PROVE  Answers(e, r, o)
BY DEF Answers, Hit

\* No option leaves a reply as it is.
LEMMA NoOption ==
    ASSUME NEW r
    PROVE  ApplyOptions(r, None) = r
BY Zenon DEF ApplyOptions

\* What an observer consists of.
LEMMA ReplyParts ==
    ASSUME NEW o, NEW x, NEW r, o = [q |-> x, limit |-> None, reply |-> r]
    PROVE  o.q = x /\ o.limit = None /\ o.reply = r
OBVIOUS

\* One document more in a list without it.
LEMMA DistinctAppend ==
    ASSUME NEW S, NEW docs \in Seq(S), NEW x \in S, Distinct(docs),
           \A n \in DOMAIN docs : docs[n].id # x.id
    PROVE  Distinct(Append(docs, x))
<1>1. /\ Append(docs, x) \in Seq(S) /\ Len(Append(docs, x)) = Len(docs) + 1 /\ Len(docs) \in Nat
      /\ \A i \in 1..Len(docs) : Append(docs, x)[i] = docs[i]
      /\ Append(docs, x)[Len(docs) + 1] = x
  BY AppendAt
<1>2. DOMAIN docs = 1..Len(docs) /\ DOMAIN Append(docs, x) = 1..(Len(docs) + 1)
  BY <1>1, LenProperties
<1>3. PICK f, L : f = Append(docs, x) /\ L = Len(docs)
  OBVIOUS
<1>4. \A m \in 1..L : f[m] = docs[m] /\ docs[m].id # x.id
  BY <1>1, <1>2, <1>3
<1>5. ASSUME NEW m \in 1..(L + 1), NEW n \in 1..(L + 1), f[m].id = f[n].id
      PROVE  m = n
  <2>1. L \in Nat /\ f[L + 1] = x
    BY <1>1, <1>3
  <2>2. (m \in 1..L \/ m = L + 1) /\ (n \in 1..L \/ n = L + 1)
    BY <2>1
  <2>3. CASE m \in 1..L /\ n \in 1..L
    BY <1>2, <1>3, <1>4, <1>5, <2>3 DEF Distinct
  <2> QED
    BY <1>4, <1>5, <2>1, <2>2, <2>3
<1> QED
  BY <1>2, <1>3, <1>5 DEF Distinct

\* What insert of a new document does to an observer.
Added(o, e) ==
    IF Matches(o.q, e) THEN [o EXCEPT !.reply = ApplyOptions(Append(o.reply, e), o.limit)] ELSE o

\* It is what ObserveInsert does for a document that was not there.
LEMMA ObserveNew ==
    ASSUME NEW old, old = None, NEW o, NEW e
    PROVE  ObserveInsert(o, e, old # None) = Added(o, e)
BY Zenon DEF ObserveInsert, Added

\* insert of a document that was not there, as an observer sees it.
LEMMA InsertAnswers ==
    ASSUME NEW d, NEW s, NEW o, Answers(d, s, o), NEW f, NEW i \in Id, NEW v, v # None,
           Value(d, i, s) = None, Value(f, i, s) = v,
           \A j \in Id : j # i => Value(f, j, s) = Value(d, j, s),
           NEW p, p = Added(o, Doc(i, v))
    PROVE  Answers(f, s, p) /\ p.q = o.q
<1>1. PICK e : e = Doc(i, v)
  OBVIOUS
<1>2. e.id = i /\ e.f = v
  BY <1>1, DocParts
<1>3. CASE ~Matches(o.q, e)
  <2>1. p = o
    BY <1>1, <1>3, Zenon DEF Added
  <2>2. ~Hit(f, s, o.q, i) /\ ~Hit(d, s, o.q, i)
    BY <1>1, <1>3 DEF Hit
  <2>3. \A j \in Id : Hit(f, s, o.q, j) <=> Hit(d, s, o.q, j)
    BY <2>2 DEF Hit
  <2>4. ASSUME NEW x
        PROVE  (\E j \in Id : x = Doc(j, Value(f, j, s)) /\ Hit(f, s, o.q, j)) <=>
               (\E j \in Id : x = Doc(j, Value(d, j, s)) /\ Hit(d, s, o.q, j))
    BY <2>2, <2>3
  <2> QED
    BY <2>1, <2>4 DEF Answers
<1>4. CASE Matches(o.q, e)
  <2>1. PICK r : r = Append(o.reply, e)
    OBVIOUS
  <2>2. PICK q, l : o = [q |-> q, limit |-> None, reply |-> l]
    BY DEF Answers
  <2>3. o.q = q /\ o.limit = None
    BY <2>2
  <2>4. ApplyOptions(r, o.limit) = r
    BY <2>3, NoOption
  <2>5. p = [o EXCEPT !.reply = r]
    <3>1. p = [o EXCEPT !.reply = ApplyOptions(r, o.limit)]
      BY <1>1, <1>4, <2>1, Zenon DEF Added
    <3> QED
      BY <2>4, <3>1, Zenon
  <2>6. p = [q |-> q, limit |-> None, reply |-> r]
    BY <2>2, <2>5
  <2>7. p = [q |-> o.q, limit |-> None, reply |-> r] /\ p.q = o.q /\ p.reply = r
    <3>1. p.q = q /\ p.reply = r
      BY <2>6, ReplyParts, Zenon
    <3>2. [q |-> q, limit |-> None, reply |-> r] = [q |-> o.q, limit |-> None, reply |-> r]
      BY <2>3, Zenon
    <3> QED
      BY <2>3, <2>6, <3>1, <3>2, Zenon
  <2>8. \A x : x \in Range(o.reply) <=> \E j \in Id : x = Doc(j, Value(d, j, s)) /\ Hit(d, s, o.q, j)
    BY DEF Answers
  <2>9. PICK S : S = Range(o.reply) \union {e}
    OBVIOUS
  <2>10. o.reply \in Seq(S) /\ e \in S
    BY <2>9, SeqMonotonic DEF Answers
  <2>11. r \in Seq(S) /\ Range(r) = Range(o.reply) \union {e}
    BY <2>1, <2>10, AppendRange
  <2>12. r \in Seq(Range(r))
    BY <2>11, OwnElements
  <2>13. \A n \in DOMAIN o.reply : o.reply[n].id # e.id
    <3> SUFFICES ASSUME NEW n \in DOMAIN o.reply PROVE o.reply[n].id # i
      BY <1>2
    <3>1. o.reply[n] \in Range(o.reply)
      BY DEF Range
    <3>2. PICK j \in Id : o.reply[n] = Doc(j, Value(d, j, s)) /\ Hit(d, s, o.q, j)
      BY <2>8, <3>1
    <3>3. j # i
      BY <3>2 DEF Hit
    <3> QED
      BY <3>2, <3>3, DocParts
  <2>14. Distinct(r)
    BY <2>1, <2>10, <2>13, DistinctAppend DEF Answers
  <2>15. Hit(f, s, o.q, i) /\ e = Doc(i, Value(f, i, s)) /\ ~Hit(d, s, o.q, i)
    BY <1>1, <1>4 DEF Hit
  <2>16. \A j \in Id : j # i => (Hit(f, s, o.q, j) <=> Hit(d, s, o.q, j))
    BY DEF Hit
  <2>17. ASSUME NEW x
         PROVE  x \in Range(r) <=> \E j \in Id : x = Doc(j, Value(f, j, s)) /\ Hit(f, s, o.q, j)
    <3>1. x \in Range(r) <=> x = e \/ \E j \in Id : x = Doc(j, Value(d, j, s)) /\ Hit(d, s, o.q, j)
      BY <2>8, <2>11
    <3>2. ASSUME x \in Range(r)
          PROVE  \E j \in Id : x = Doc(j, Value(f, j, s)) /\ Hit(f, s, o.q, j)
      BY <2>15, <2>16, <3>1, <3>2
    <3>3. ASSUME NEW j \in Id, x = Doc(j, Value(f, j, s)), Hit(f, s, o.q, j)
          PROVE  x \in Range(r)
      BY <2>15, <2>16, <3>1, <3>3
    <3> QED
      BY <3>2, <3>3
  <2> QED
    BY <2>7, <2>12, <2>14, <2>17 DEF Answers
<1> QED
  BY <1>3, <1>4

\* One document less.
LEMMA WithoutAt ==
    ASSUME NEW docs, docs \in Seq(Range(docs)), Distinct(docs), NEW p \in DOMAIN docs
    PROVE  LET r == RemoveAt(docs, p) IN
           r \in Seq(Range(r)) /\ Distinct(r) /\ Range(r) = Range(docs) \ {docs[p]}
<1>1. PICK m : m = Len(docs)
  OBVIOUS
<1>2. m \in Nat /\ DOMAIN docs = 1..m /\ docs = [j \in 1..m |-> docs[j]]
  BY <1>1, LenProperties
<1>3. p \in 1..m /\ p - 1 \in Nat /\ p - 1 < m /\ (p - 1) + 1 = p /\ m - 1 \in Nat
  BY <1>2
<1>4. PICK r : r = RemoveAt(docs, p)
  OBVIOUS
<1>5. \A k \in Nat : k < m => RemoveAt(docs, k + 1) = [j \in 1..(m - 1) |-> docs[IF j <= k THEN j ELSE j + 1]]
  BY <1>2, ListChanges
<1>6. r = [j \in 1..(m - 1) |-> docs[IF j <= p - 1 THEN j ELSE j + 1]]
  BY <1>3, <1>4, <1>5
<1> DEFINE at(j) == IF j <= p - 1 THEN j ELSE j + 1
<1>7. DOMAIN r = 1..(m - 1) /\ \A j \in 1..(m - 1) : r[j] = docs[at(j)]
  BY <1>6
<1>8. \A j \in 1..(m - 1) : at(j) \in 1..m /\ at(j) # p
  BY <1>2, <1>3
<1>9. \A j, k \in 1..(m - 1) : at(j) = at(k) => j = k
  BY <1>2, <1>3
<1>10. \A k \in 1..m : k # p => \E j \in 1..(m - 1) : at(j) = k
  <2> SUFFICES ASSUME NEW k \in 1..m, k # p PROVE \E j \in 1..(m - 1) : at(j) = k
    OBVIOUS
  <2>1. CASE k < p
    <3>1. k \in 1..(m - 1) /\ at(k) = k
      BY <1>2, <1>3, <2>1
    <3> QED
      BY <3>1
  <2>2. CASE k > p
    <3>1. k - 1 \in 1..(m - 1) /\ at(k - 1) = k
      BY <1>2, <1>3, <2>2
    <3> QED
      BY <3>1
  <2> QED
    BY <1>2, <1>3, <2>1, <2>2
<1> HIDE DEF at
<1>11. Distinct(r)
  <2> SUFFICES ASSUME NEW j \in 1..(m - 1), NEW k \in 1..(m - 1), r[j].id = r[k].id
               PROVE  j = k
    BY <1>7 DEF Distinct
  <2>1. docs[at(j)].id = docs[at(k)].id /\ at(j) \in DOMAIN docs /\ at(k) \in DOMAIN docs
    BY <1>2, <1>7, <1>8
  <2>2. at(j) = at(k)
    BY <2>1 DEF Distinct
  <2> QED
    BY <1>9, <2>2
<1>12. Range(r) = Range(docs) \ {docs[p]}
  <2>1. ASSUME NEW j \in 1..(m - 1)
        PROVE  r[j] \in Range(docs) \ {docs[p]}
    <3>1. docs[at(j)] # docs[p]
      BY <1>2, <1>3, <1>8 DEF Distinct
    <3> QED
      BY <1>2, <1>7, <1>8, <3>1 DEF Range
  <2>2. ASSUME NEW k \in 1..m, docs[k] # docs[p]
        PROVE  docs[k] \in Range(r)
    <3>1. k # p
      BY <2>2
    <3>2. PICK j \in 1..(m - 1) : at(j) = k
      BY <1>10, <3>1
    <3> QED
      BY <1>7, <3>2 DEF Range
  <2>3. \A x : x \in Range(docs) <=> \E k \in 1..m : x = docs[k]
    BY <1>2 DEF Range
  <2>4. \A x : x \in Range(r) <=> \E j \in 1..(m - 1) : x = r[j]
    BY <1>7 DEF Range
  <2>5. \A x : x \in Range(r) <=> x \in Range(docs) /\ x # docs[p]
    BY <2>1, <2>2, <2>3, <2>4
  <2> QED
    BY <2>5
<1>13. r \in Seq(Range(r))
  <2>1. r = [j \in 1..(m - 1) |-> r[j]] /\ \A j \in 1..(m - 1) : r[j] \in Range(r)
    BY <1>6, <1>7 DEF Range
  <2>2. r \in [1..(m - 1) -> Range(r)]
    BY <2>1
  <2> QED
    BY <1>3, <2>2
<1> QED
  BY <1>4, <1>11, <1>12, <1>13

\* The place of a document in a reply.
LEMMA AtPlace ==
    ASSUME NEW docs, docs \in Seq(Range(docs)), Distinct(docs), NEW n \in DOMAIN docs, NEW i, docs[n].id = i
    PROVE  At(docs, i) = n /\ Holds(docs, i)
<1> DEFINE P(k) == docs[k].id = i /\ \A m \in 1..(k - 1) : docs[m].id # i
<1>1. DOMAIN docs = 1..Len(docs) /\ Len(docs) \in Nat
  BY LenProperties
<1>2. P(n)
  <2> SUFFICES ASSUME NEW m \in 1..(n - 1) PROVE docs[m].id # i
    OBVIOUS
  <2>1. m \in DOMAIN docs /\ m # n
    BY <1>1
  <2> QED
    BY <2>1 DEF Distinct
<1>3. \A k \in DOMAIN docs : P(k) => k = n
  BY DEF Distinct
<1>4. At(docs, i) = CHOOSE k \in DOMAIN docs : P(k)
  BY DEF At
<1> HIDE DEF P
<1>5. At(docs, i) = n
  BY <1>2, <1>3, <1>4
<1> QED
  BY <1>5 DEF Holds

\* removeById of a document that was there, as an observer sees it.
LEMMA RemoveAnswers ==
    ASSUME NEW d, NEW s, NEW o, Answers(d, s, o), NEW f, NEW i \in Id, NEW v, v # None,
           Value(d, i, s) = v, Value(f, i, s) = None,
           \A j \in Id : j # i => Value(f, j, s) = Value(d, j, s),
           NEW p, p = ObserveRemove(o, Doc(i, v))
    PROVE  Answers(f, s, p) /\ p.q = o.q
<1>1. PICK e : e = Doc(i, v)
  OBVIOUS
<1>2. e.id = i /\ e.f = v
  BY <1>1, DocParts
<1>3. \A x : x \in Range(o.reply) <=> \E j \in Id : x = Doc(j, Value(d, j, s)) /\ Hit(d, s, o.q, j)
  BY DEF Answers
<1>4. Hit(d, s, o.q, i) <=> Matches(o.q, e)
  BY <1>1 DEF Hit
<1>5. ~Hit(f, s, o.q, i)
  BY DEF Hit
<1>6. \A j \in Id : j # i => (Hit(f, s, o.q, j) <=> Hit(d, s, o.q, j))
  BY DEF Hit
<1>7. CASE ~Matches(o.q, e)
  <2>1. p = o
    BY <1>1, <1>7, Zenon DEF ObserveRemove
  <2>2. ASSUME NEW x
        PROVE  (\E j \in Id : x = Doc(j, Value(f, j, s)) /\ Hit(f, s, o.q, j)) <=>
               (\E j \in Id : x = Doc(j, Value(d, j, s)) /\ Hit(d, s, o.q, j))
    BY <1>4, <1>5, <1>6, <1>7
  <2> QED
    BY <2>1, <2>2 DEF Answers
<1>8. CASE Matches(o.q, e)
  <2>1. e \in Range(o.reply)
    BY <1>1, <1>3, <1>4, <1>8
  <2>2. PICK n \in DOMAIN o.reply : o.reply[n] = e
    BY <2>1 DEF Range
  <2>3. At(o.reply, i) = n /\ Holds(o.reply, i)
    BY <1>2, <2>2, AtPlace DEF Answers
  <2>4. PICK r : r = RemoveAt(o.reply, n)
    OBVIOUS
  <2>5. PICK q, l : o = [q |-> q, limit |-> None, reply |-> l]
    BY DEF Answers
  <2>6. o.q = q /\ o.limit = None /\ o.reply = l
    BY <2>5
  <2>7. ApplyOptions(r, o.limit) = r
    BY <2>6, NoOption
  <2>8. p = [o EXCEPT !.reply = r]
    <3>1. p = [o EXCEPT !.reply = ApplyOptions(RemoveAt(@, At(@, e.id)), o.limit)]
      BY <1>1, <1>2, <1>8, <2>3, Zenon DEF ObserveRemove
    <3>2. ApplyOptions(RemoveAt(o.reply, At(o.reply, e.id)), o.limit) = r
      BY <1>2, <2>3, <2>4, <2>7
    <3>3. [o EXCEPT !.reply = ApplyOptions(RemoveAt(@, At(@, e.id)), o.limit)]
          = [o EXCEPT !.reply = ApplyOptions(RemoveAt(o.reply, At(o.reply, e.id)), o.limit)]
      BY <2>5
    <3> QED
      BY <3>1, <3>2, <3>3, Zenon
  <2>9. p = [q |-> q, limit |-> None, reply |-> r]
    BY <2>5, <2>8
  <2>10. p.q = q /\ p.reply = r
    BY <2>9, ReplyParts, Zenon
  <2>11. p = [q |-> p.q, limit |-> None, reply |-> p.reply]
    BY <2>9, <2>10, Zenon
  <2>12. r \in Seq(Range(r)) /\ Distinct(r) /\ Range(r) = Range(o.reply) \ {e}
    BY <2>2, <2>4, WithoutAt DEF Answers
  <2>13. ASSUME NEW x
         PROVE  x \in Range(r) <=> \E j \in Id : x = Doc(j, Value(f, j, s)) /\ Hit(f, s, o.q, j)
    <3>1. x \in Range(r) <=> x # e /\ \E j \in Id : x = Doc(j, Value(d, j, s)) /\ Hit(d, s, o.q, j)
      BY <1>3, <2>12
    <3>2. ASSUME NEW j \in Id, x = Doc(j, Value(d, j, s)), Hit(d, s, o.q, j), x # e
          PROVE  j # i
      BY <1>1, <3>2
    <3>3. ASSUME x \in Range(r)
          PROVE  \E j \in Id : x = Doc(j, Value(f, j, s)) /\ Hit(f, s, o.q, j)
      BY <1>6, <3>1, <3>2, <3>3
    <3>4. ASSUME NEW j \in Id, x = Doc(j, Value(f, j, s)), Hit(f, s, o.q, j)
          PROVE  x \in Range(r)
      <4>1. j # i
        BY <1>5, <3>4
      <4>2. x # e
        BY <1>1, <3>4, <4>1, DocParts
      <4> QED
        BY <1>6, <3>1, <3>4, <4>1, <4>2
    <3> QED
      BY <3>3, <3>4
  <2> QED
    BY <2>6, <2>10, <2>11, <2>12, <2>13 DEF Answers
<1> QED
  BY <1>7, <1>8

\* A find for an observer, without an index, is a full search.
LEMMA FindSearch ==
    ASSUME ~indexed, NEW d, NEW h, NEW q, Plain(q)
    PROVE  /\ Find(d, h, q, None).r = "success"
           /\ ~Find(d, h, q, None).byLink
           /\ Find(d, h, q, None).reply = FullSearch(d, h.sid, q)
<1>1. q.kind # "id"
  BY DEF Plain, All, ByField
<1>2. Find(d, h, q, None) = [r |-> "success", byLink |-> FALSE,
                             reply |-> ApplyOptions(FullSearch(d, h.sid, q), None)]
  BY <1>1 DEF Find
<1>3. ApplyOptions(FullSearch(d, h.sid, q), None) = FullSearch(d, h.sid, q)
  BY NoOption
<1> QED
  BY <1>2, <1>3

\* Two lists of the same documents are as long as each other.
LEMMA SameLength ==
    ASSUME NEW a, a \in Seq(Range(a)), Distinct(a), NEW b, b \in Seq(Range(b)), Distinct(b), Range(a) = Range(b)
    PROVE  Len(a) = Len(b)
<1>1. ASSUME NEW c, c \in Seq(Range(c)), Distinct(c)
      PROVE  Len(c) \in Nat /\ IsFiniteSet(Range(c)) /\ Cardinality(Range(c)) = Len(c)
  <2>1. Len(c) \in Nat /\ DOMAIN c = 1..Len(c) /\ c \in [1..Len(c) -> Range(c)]
    BY <1>1, LenProperties DEF Range
  <2>2. \A m, n \in 1..Len(c) : c[m] = c[n] => m = n
    BY <1>1, <2>1 DEF Distinct
  <2>3. \A x \in Range(c) : \E m \in 1..Len(c) : c[m] = x
    BY <2>1 DEF Range
  <2>4. c \in Bijection(1..Len(c), Range(c))
    BY <2>1, <2>2, <2>3 DEF Bijection, Injection, Surjection, IsInjective
  <2>5. IsFiniteSet(1..Len(c)) /\ Cardinality(1..Len(c)) = Len(c)
    <3>1. PICK n : n = Len(c)
      OBVIOUS
    <3>2. n \in Int /\ 1 \in Int /\ n \in Nat
      BY <2>1, <3>1
    <3>3. IsFiniteSet(1..n) /\ Cardinality(1..n) = IF 1 > n THEN 0 ELSE n - 1 + 1
      BY <3>2, FS_Interval
    <3>4. (IF 1 > n THEN 0 ELSE n - 1 + 1) = n
      BY <3>2
    <3> QED
      BY <3>1, <3>3, <3>4
  <2>6. ExistsBijection(1..Len(c), Range(c))
    BY <2>4 DEF ExistsBijection
  <2> QED
    BY <2>1, <2>5, <2>6, FS_Bijection
<1> QED
  BY <1>1

\* Answers are what ObserversCurrent asks for.
LEMMA AnswersSuffice ==
    ASSUME NEW d, NEW s, NEW o, Answers(d, s, o)
    PROVE  LET now == FullSearch(d, s, o.q) IN
           /\ Range(o.reply) \subseteq Range(now)
           /\ Len(o.reply) = Len(ApplyOptions(now, o.limit))
<1>1. PICK now : now = FullSearch(d, s, o.q)
  OBVIOUS
<1>2. PICK p : p = [q |-> o.q, limit |-> None, reply |-> now]
  OBVIOUS
<1>3. Answers(d, s, p)
  BY <1>1, <1>2, SearchAnswers DEF Answers
<1>4. p.q = o.q /\ p.reply = now
  BY <1>2, ReplyParts, Zenon
<1>5. now \in Seq(Range(now)) /\ Distinct(now)
      /\ \A x : x \in Range(now) <=> \E i \in Id : x = Doc(i, Value(d, i, s)) /\ Hit(d, s, o.q, i)
  BY <1>3, <1>4 DEF Answers
<1>6. o.reply \in Seq(Range(o.reply)) /\ Distinct(o.reply)
      /\ \A x : x \in Range(o.reply) <=> \E i \in Id : x = Doc(i, Value(d, i, s)) /\ Hit(d, s, o.q, i)
  BY DEF Answers
<1>7. Range(o.reply) = Range(now)
  BY <1>5, <1>6
<1>8. Len(o.reply) = Len(now)
  BY <1>5, <1>6, <1>7, SameLength
<1>9. o.limit = None
  <2>1. PICK q, l : o = [q |-> q, limit |-> None, reply |-> l]
    BY DEF Answers
  <2> QED
    BY <2>1
<1> QED
  BY <1>1, <1>7, <1>8, <1>9, NoOption

-----------------------------------------------------------------------------
(* What the operations of a handle tell its observers.                     *)

\* A key of one of the documents U that a request at the current snapshot writes.
Own(k, U) == \E i \in U : k = StartKey(i) \/ k = DocKey(i, snapshotId)

\* A handle at the current snapshot writes documents of U only; if it has
\* observers, it deletes only what is there, and they hold the answers that will
\* be right once it is written.
Serves(d, h, U) ==
    /\ IsHandle(h) /\ h.sid = snapshotId
    /\ \A k \in DOMAIN h.cache : Own(k, U)
    /\ DOMAIN h.obs # {} =>
          /\ \A k \in h.deleted : k \in DOMAIN d /\ Own(k, U)
          /\ DOMAIN h.obs = DOMAIN observers
          /\ \A n \in DOMAIN h.obs : /\ Answers(Written(d, h), snapshotId, h.obs[n])
                                    /\ h.obs[n].q = observers[n].q

\* From h to g only what is pending for document i changes.
Touches(g, h, i) ==
    /\ IsHandle(g) /\ g.sid = h.sid /\ g.obs = h.obs
    /\ \A k : k # StartKey(i) /\ k # DocKey(i, snapshotId) => SameKey(g, h, k)

\* What is not pending leaves the document as it is.
LEMMA NotPending ==
    ASSUME Store = "map", NEW d, NEW h, NEW U, Serves(d, h, U), DOMAIN h.obs # {}, NEW i, i \notin U
    PROVE  SameDoc(Written(d, h), d, i)
<1>1. ASSUME NEW k, Own(k, U)
      PROVE  k # StartKey(i) /\ \A s : k # DocKey(i, s)
  BY <1>1, Keys DEF Own
<1>2. ASSUME NEW k, ~Own(k, U)
      PROVE  SameAt(Written(d, h), d, k)
  <2>1. k \notin h.deleted /\ k \notin DOMAIN h.cache
    BY <1>2 DEF Serves
  <2> QED
    BY <2>1, MapUntouched
<1> QED
  BY <1>1, <1>2 DEF SameDoc

\* A change of what is pending for i.
LEMMA TouchedKeys ==
    ASSUME Store = "map", NEW d, NEW g, NEW h, NEW i, Touches(g, h, i), NEW U, Serves(d, h, U)
    PROVE  /\ \A k \in DOMAIN g.cache : Own(k, U \union {i})
           /\ DOMAIN h.obs # {} => \A k \in g.deleted : Own(k, U \union {i})
<1>1. ASSUME NEW k, k = StartKey(i) \/ k = DocKey(i, snapshotId) \/ Own(k, U)
      PROVE  Own(k, U \union {i})
  BY <1>1 DEF Own
<1>2. \A k \in DOMAIN g.cache : Own(k, U \union {i})
  BY <1>1 DEF Touches, SameKey, Serves
<1>3. DOMAIN h.obs # {} => \A k \in g.deleted : Own(k, U \union {i})
  BY <1>1 DEF Touches, SameKey, Serves
<1> QED
  BY <1>2, <1>3

\* Other documents are to be written as they were.
LEMMA TouchedDocs ==
    ASSUME Store = "map", NEW d, NEW g, NEW h, NEW i, Touches(g, h, i)
    PROVE  \A j : j # i => SameDoc(Written(d, g), Written(d, h), j)
<1> SUFFICES ASSUME NEW j, j # i
             PROVE  SameDoc(Written(d, g), Written(d, h), j)
  OBVIOUS
<1>1. ASSUME NEW k, k # StartKey(i), k # DocKey(i, snapshotId)
      PROVE  SameAt(Written(d, g), Written(d, h), k)
  <2>1. SameKey(g, h, k)
    BY <1>1 DEF Touches
  <2> QED
    BY <2>1, MapSame
<1>2. StartKey(j) # StartKey(i) /\ StartKey(j) # DocKey(i, snapshotId)
  BY Keys
<1>3. \A s : DocKey(j, s) # StartKey(i) /\ DocKey(j, s) # DocKey(i, snapshotId)
  BY Keys
<1> QED
  BY <1>1, <1>2, <1>3 DEF SameDoc

\* The same observers, whatever they hold.
SameObs(g, h) == DOMAIN g.obs = DOMAIN h.obs

\* A change of document i, and of the replies with it.
LEMMA TouchServes ==
    ASSUME Store = "map", NEW d, NEW h, NEW U, Serves(d, h, U), NEW i \in Id,
           NEW g, Touches(g, h, i),
           DOMAIN h.obs # {} => \A k \in g.deleted : k \in DOMAIN d,
           NEW obs, DOMAIN obs = DOMAIN h.obs,
           \A n \in DOMAIN obs : Answers(Written(d, g), snapshotId, obs[n]) /\ obs[n].q = h.obs[n].q,
           NEW p, p = [g EXCEPT !.obs = obs]
    PROVE  Serves(d, p, U \union {i}) /\ SameObs(p, h)
<1>1. IsHandle(g)
  BY DEF Touches
<1>2. IsHandle(p) /\ p.sid = g.sid /\ p.cache = g.cache /\ p.deleted = g.deleted /\ p.obs = obs
  BY <1>1, ObsSays
<1>3. Written(d, p) = Written(d, g)
  BY <1>2 DEF Written
<1>4. p.sid = snapshotId
  BY <1>2 DEF Touches, Serves
<1>5. /\ \A k \in DOMAIN g.cache : Own(k, U \union {i})
      /\ DOMAIN h.obs # {} => \A k \in g.deleted : Own(k, U \union {i})
  BY TouchedKeys
<1> QED
  BY <1>2, <1>3, <1>4, <1>5 DEF Serves, SameObs

\* A handle that stays as it is.
LEMMA StillServes ==
    ASSUME NEW d, NEW h, NEW U, Serves(d, h, U), NEW V, U \subseteq V
    PROVE  Serves(d, h, V)
<1>1. \A k : Own(k, U) => Own(k, V)
  BY DEF Own
<1> QED
  BY <1>1 DEF Serves

\* insert, as the observers of the handle see it.
LEMMA InsertServes ==
    ASSUME Store = "map", ~indexed, snapshotId \in Sid, NEW d, NEW h, NEW U, Serves(d, h, U),
           NEW i \in Id, NEW v \in Val, NEW overwrite \in BOOLEAN, ~overwrite, NEW ignore,
           DOMAIN h.obs # {} => i \notin U,
           NEW got, got = Insert(d, h, i, v, overwrite, ignore)
    PROVE  Serves(d, got.h, U \union {i}) /\ SameObs(got.h, h)
<1>1. PICK old : old = GetJsonValue(d, i, h.sid)
  OBVIOUS
<1>2. PICK put : put = Put(Put(h, StartKey(i), Start), DocKey(i, h.sid), v)
  OBVIOUS
<1> DEFINE obs == [n \in DOMAIN put.obs |-> Added(put.obs[n], Doc(i, v))]
<1>3. h.sid = snapshotId /\ IsHandle(h)
  BY DEF Serves
<1>4. CASE old # None
  <2>1. got = Result(h, "errorAlreadyExists")
    BY <1>1, <1>4, Zenon DEF Insert
  <2>2. got.h = h
    BY <2>1, ResultParts
  <2>3. U \subseteq U \union {i}
    OBVIOUS
  <2>4. Serves(d, h, U \union {i})
    BY <2>3, StillServes
  <2> QED
    BY <2>2, <2>4, Zenon DEF SameObs
<1>5. CASE old = None
  <2>1. got = Result([put EXCEPT !.obs = [n \in DOMAIN @ |-> ObserveInsert(@[n], Doc(i, v), old # None)]], "success")
    BY <1>1, <1>2, <1>5, Zenon DEF Insert
  <2>2. PICK mid : mid = Put(h, StartKey(i), Start)
    OBVIOUS
  <2>3. /\ IsHandle(mid) /\ mid.sid = h.sid /\ mid.obs = h.obs
        /\ StartKey(i) \in DOMAIN mid.cache
        /\ \A k : k # StartKey(i) => SameKey(mid, h, k)
    BY <1>3, <2>2, PutSays
  <2>4. put = Put(mid, DocKey(i, snapshotId), v)
    BY <1>2, <1>3, <2>2
  <2>5. /\ IsHandle(put) /\ put.sid = mid.sid /\ put.obs = mid.obs
        /\ DocKey(i, snapshotId) \in DOMAIN put.cache /\ put.cache[DocKey(i, snapshotId)] = v
        /\ \A k : k # DocKey(i, snapshotId) => SameKey(put, mid, k)
    BY <2>3, <2>4, PutSays
  <2>6. Touches(put, h, i)
    BY <2>3, <2>5 DEF Touches, SameKey
  <2>7. StartKey(i) \in DOMAIN put.cache
    BY <2>3, <2>5, Keys DEF SameKey
  <2>8. put.deleted \subseteq h.deleted
    <3>1. mid.deleted = h.deleted \ {StartKey(i)}
      <4>1. mid = Parted(h.sid, With(h.cache, StartKey(i), Start), h.deleted \ {StartKey(i)}, h.obs)
        BY <1>3, <2>2, HandleParts
      <4> QED
        BY <4>1, PartedParts
    <3>2. put.deleted = mid.deleted \ {DocKey(i, snapshotId)}
      <4>1. put = Parted(mid.sid, With(mid.cache, DocKey(i, snapshotId), v),
                         mid.deleted \ {DocKey(i, snapshotId)}, mid.obs)
        BY <2>3, <2>4, HandleParts
      <4> QED
        BY <4>1, PartedParts
    <3> QED
      BY <3>1, <3>2
  <2>9. PICK o : o = obs
    OBVIOUS
  <2>10. DOMAIN o = DOMAIN h.obs /\ \A n \in DOMAIN o : o[n] = Added(h.obs[n], Doc(i, v))
    BY <2>3, <2>5, <2>9
  <2>11. got.h = [put EXCEPT !.obs = o]
    <3>1. got.h = [put EXCEPT !.obs = [n \in DOMAIN @ |-> ObserveInsert(@[n], Doc(i, v), old # None)]]
      BY <2>1, ResultParts
    <3>2. [put EXCEPT !.obs = [n \in DOMAIN @ |-> ObserveInsert(@[n], Doc(i, v), old # None)]]
          = [put EXCEPT !.obs = [n \in DOMAIN put.obs |-> ObserveInsert(put.obs[n], Doc(i, v), old # None)]]
      BY Zenon
    <3>3. \A n : ObserveInsert(put.obs[n], Doc(i, v), old # None) = Added(put.obs[n], Doc(i, v))
      BY <1>5, ObserveNew, Zenon
    <3>4. [n \in DOMAIN put.obs |-> ObserveInsert(put.obs[n], Doc(i, v), old # None)] = obs
      BY <3>3, Zenon
    <3> QED
      BY <2>9, <3>1, <3>2, <3>4, Zenon
  <2>12. PICK e, f : e = Written(d, h) /\ f = Written(d, put)
    OBVIOUS
  <2>13. IsDoc(f, i, snapshotId, v)
    BY <2>5, <2>7, <2>12, MapWritten DEF IsDoc, HasStart
  <2>14. Value(f, i, snapshotId) = v
    BY <2>13, DocRead
  <2>15. \A j \in Id : j # i => Value(f, j, snapshotId) = Value(e, j, snapshotId)
    <3>1. \A j : j # i => SameDoc(f, e, j)
      <4>1. \A j : j # i => SameDoc(Written(d, put), Written(d, h), j)
        BY <2>6, TouchedDocs
      <4> QED
        BY <2>12, <4>1
    <3>2. ASSUME NEW j \in Id, j # i
          PROVE  Value(f, j, snapshotId) = Value(e, j, snapshotId)
      <4>1. SameDoc(f, e, j)
        BY <3>1, <3>2
      <4> QED
        BY <4>1, SameDocRead
    <3> QED
      BY <3>2
  <2>16. v # None
    BY ConstAssumption
  <2>17. ASSUME NEW n \in DOMAIN o
         PROVE  Answers(f, snapshotId, o[n]) /\ o[n].q = h.obs[n].q
    <3>1. DOMAIN h.obs # {} /\ n \in DOMAIN h.obs
      BY <2>10
    <3>2. Answers(e, snapshotId, h.obs[n])
      BY <2>12, <3>1 DEF Serves
    <3>3. SameDoc(e, d, i)
      <4>1. SameDoc(Written(d, h), d, i)
        BY <3>1, NotPending
      <4> QED
        BY <2>12, <4>1
    <3>4. Value(e, i, snapshotId) = None
      <4>1. GetJsonValue(d, i, snapshotId) = None
        BY <1>1, <1>3, <1>5
      <4>2. Value(d, i, snapshotId) = None
        BY <4>1, MapGet
      <4> QED
        BY <3>3, <4>2, SameDocRead
    <3>5. PICK a, p : a = h.obs[n] /\ p = o[n]
      OBVIOUS
    <3>6. p = Added(a, Doc(i, v))
      BY <2>10, <3>5
    <3>7. Answers(e, snapshotId, a)
      BY <3>2, <3>5
    <3> HIDE DEF obs
    <3>8. Answers(f, snapshotId, p) /\ p.q = a.q
      BY <2>14, <2>15, <2>16, <3>4, <3>6, <3>7, InsertAnswers
    <3> QED
      BY <3>5, <3>8
  <2>18. DOMAIN h.obs # {} => \A k \in put.deleted : k \in DOMAIN d
    BY <2>8 DEF Serves
  <2> HIDE DEF obs
  <2>19. \A n \in DOMAIN o : Answers(Written(d, put), snapshotId, o[n]) /\ o[n].q = h.obs[n].q
    BY <2>12, <2>17
  <2>20. PICK p : p = [put EXCEPT !.obs = o]
    OBVIOUS
  <2>21. Serves(d, p, U \union {i}) /\ SameObs(p, h)
    BY <2>6, <2>10, <2>18, <2>19, <2>20, TouchServes
  <2> QED
    BY <2>11, <2>20, <2>21
<1> QED
  BY <1>4, <1>5

\* What removeById makes of a handle, without an index.
GoneFrom(d, h, j, i) ==
    IF OutSid(d, j, h.sid) # h.sid \/ ~IsNaked(d, j, h.sid)
    THEN Put(h, DocKey(i, h.sid), Tomb)
    ELSE Delete(Delete(h, DocKey(i, h.sid)), StartKey(i))

\* The observers of the handle hear of the document.
ToldGone(g, e) == [g EXCEPT !.obs = [n \in DOMAIN @ |-> ObserveRemove(@[n], e)]]

\* removeById without an index, one case after the other.
LEMMA RemovePlainCases ==
    ASSUME ~indexed, NEW d, NEW h, NEW i, NEW ignore,
           NEW j, j = Land(d, i), NEW v, v = GetJsonValue(d, i, h.sid), NEW gone, gone = GoneFrom(d, h, j, i),
           NEW got, got = RemoveById(d, h, i, ignore)
    PROVE  \/ got = Result(h, "errorDatabase")
           \/ got = Result(h, "errorObjectIsReadOnly")
           \/ /\ v # None
              /\ got = Result(ToldGone(gone, Doc(j, v)), "success")
<1>1. Result(gone, "success").r = "success" /\ Result(gone, "success").h = gone
  BY ResultParts
<1>2. CASE v = None
  BY <1>2 DEF RemoveById
<1>3. CASE v # None /\ v \in ReadOnly /\ ~ignore
  BY <1>3, Zenon DEF RemoveById
<1>4. CASE v # None /\ ~(v \in ReadOnly /\ ~ignore)
  <2> DEFINE unlinked == Result(gone, "success")
  <2>1. RemoveById(d, h, i, ignore) =
            IF unlinked.r # "success" THEN unlinked
            ELSE Result(ToldGone(unlinked.h, Doc(j, v)), "success")
    BY <1>4, Zenon DEF RemoveById, GoneFrom, ToldGone
  <2>2. RemoveById(d, h, i, ignore) = Result(ToldGone(gone, Doc(j, v)), "success")
    BY <1>1, <2>1, Zenon
  <2> QED
    BY <1>4, <2>2, Zenon
<1> QED
  BY <1>2, <1>3, <1>4

\* In one term.
LEMMA RemovePlain ==
    ASSUME ~indexed, NEW d, NEW h, NEW i, NEW ignore
    PROVE  \/ RemoveById(d, h, i, ignore) = Result(h, "errorDatabase")
           \/ RemoveById(d, h, i, ignore) = Result(h, "errorObjectIsReadOnly")
           \/ /\ GetJsonValue(d, i, h.sid) # None
              /\ RemoveById(d, h, i, ignore) =
                    Result(ToldGone(GoneFrom(d, h, Land(d, i), i), Doc(Land(d, i), GetJsonValue(d, i, h.sid))),
                           "success")
BY RemovePlainCases

\* The keys of a document that was there, and what the map makes of removing it.
LEMMA GoneServes ==
    ASSUME Store = "map", snapshotId \in Sid, NEW d, NEW h, NEW U, Serves(d, h, U),
           NEW i \in Id, DOMAIN h.obs # {} => i \notin U, Value(d, i, snapshotId) # None,
           NEW gone, gone = GoneFrom(d, h, i, i)
    PROVE  /\ Touches(gone, h, i)
           /\ DOMAIN h.obs # {} => /\ \A k \in gone.deleted : k \in DOMAIN d
                                   /\ NoDoc(Written(d, gone), i, snapshotId)
<1>1. IsHandle(h) /\ h.sid = snapshotId
  BY DEF Serves
<1>2. CASE gone = Put(h, DocKey(i, snapshotId), Tomb)
  <2>1. /\ IsHandle(gone) /\ gone.sid = h.sid /\ gone.obs = h.obs
        /\ DocKey(i, snapshotId) \in DOMAIN gone.cache /\ gone.cache[DocKey(i, snapshotId)] = Tomb
        /\ \A k : k # DocKey(i, snapshotId) => SameKey(gone, h, k)
    BY <1>1, <1>2, PutSays
  <2>2. gone.deleted = h.deleted \ {DocKey(i, snapshotId)}
    <3>1. gone = Parted(h.sid, With(h.cache, DocKey(i, snapshotId), Tomb),
                        h.deleted \ {DocKey(i, snapshotId)}, h.obs)
      BY <1>1, <1>2, HandleParts
    <3> QED
      BY <3>1, PartedParts
  <2>3. Touches(gone, h, i)
    BY <2>1 DEF Touches
  <2>4. DOMAIN h.obs # {} => \A k \in gone.deleted : k \in DOMAIN d
    BY <2>2 DEF Serves
  <2>5. NoDoc(Written(d, gone), i, snapshotId)
    BY <2>1, MapWritten DEF NoDoc
  <2> QED
    BY <2>3, <2>4, <2>5
<1>3. CASE gone = Delete(Delete(h, DocKey(i, snapshotId)), StartKey(i)) /\ IsNaked(d, i, snapshotId)
  <2>1. PICK mid : mid = Delete(h, DocKey(i, snapshotId))
    OBVIOUS
  <2>2. /\ IsHandle(mid) /\ mid.sid = h.sid /\ mid.obs = h.obs
        /\ \A k : k # DocKey(i, snapshotId) => SameKey(mid, h, k)
    BY <1>1, <2>1, DeleteSays
  <2>3. gone = Delete(mid, StartKey(i))
    BY <1>3, <2>1
  <2>4. /\ IsHandle(gone) /\ gone.sid = mid.sid /\ gone.obs = mid.obs /\ StartKey(i) \in gone.deleted
        /\ \A k : k # StartKey(i) => SameKey(gone, mid, k)
    BY <2>2, <2>3, DeleteSays
  <2>5. Touches(gone, h, i)
    BY <2>2, <2>4 DEF Touches, SameKey
  <2>6. mid.deleted = h.deleted \union {DocKey(i, snapshotId)} /\ mid.cache = h.cache
    <3>1. mid = Parted(h.sid, h.cache, h.deleted \union {DocKey(i, snapshotId)}, h.obs)
      BY <1>1, <2>1, HandleParts
    <3> QED
      BY <3>1, PartedParts
  <2>7. gone.deleted = mid.deleted \union {StartKey(i)} /\ gone.cache = mid.cache
    <3>1. gone = Parted(mid.sid, mid.cache, mid.deleted \union {StartKey(i)}, mid.obs)
      BY <2>2, <2>3, HandleParts
    <3> QED
      BY <3>1, PartedParts
  <2>8. DocKey(i, snapshotId) \in DOMAIN d
    BY <1>3 DEF IsNaked, Versions
  <2>9. StartKey(i) \in DOMAIN d
    <3>1. HasStart(d, i)
      BY Zenon DEF Value
    <3> QED
      BY <3>1 DEF HasStart
  <2>10. DOMAIN h.obs # {} => \A k \in gone.deleted : k \in DOMAIN d
    BY <2>6, <2>7, <2>8, <2>9 DEF Serves
  <2>11. ASSUME DOMAIN h.obs # {}
         PROVE  NoDoc(Written(d, gone), i, snapshotId)
    <3>1. i \notin U
      BY <2>11
    <3>2. ~Own(StartKey(i), U)
      BY <3>1, Keys DEF Own
    <3>3. StartKey(i) \notin DOMAIN gone.cache
      BY <2>6, <2>7, <3>2 DEF Serves
    <3>4. StartKey(i) \notin DOMAIN Written(d, gone)
      BY <2>7, <3>3, MapWritten
    <3> QED
      BY <3>4 DEF NoDoc, HasStart
  <2> QED
    BY <2>5, <2>10, <2>11
<1> QED
  BY <1>1, <1>2, <1>3 DEF GoneFrom

\* removeById, as the observers of the handle see it.
LEMMA RemoveServes ==
    ASSUME Store = "map", ~indexed, snapshotId \in Sid, NEW d, NEW h, NEW U, Serves(d, h, U),
           NEW i \in Id, NEW ignore, DOMAIN h.obs # {} => i \notin U,
           NEW got, got = RemoveById(d, h, i, ignore)
    PROVE  Serves(d, got.h, U \union {i}) /\ SameObs(got.h, h)
<1>1. PICK j : j = Land(d, i)
  OBVIOUS
<1>2. PICK v : v = GetJsonValue(d, i, h.sid)
  OBVIOUS
<1>3. PICK gone : gone = GoneFrom(d, h, j, i)
  OBVIOUS
<1>4. IsHandle(h) /\ h.sid = snapshotId
  BY DEF Serves
<1>5. CASE got.h = h
  <2>1. U \subseteq U \union {i}
    OBVIOUS
  <2>2. Serves(d, h, U \union {i})
    BY <2>1, StillServes
  <2> QED
    BY <1>5, <2>2, Zenon DEF SameObs
<1>6. CASE /\ v # None
           /\ got = Result(ToldGone(gone, Doc(j, v)), "success")
  <2>1. v = Value(d, i, snapshotId)
    BY <1>2, <1>4, MapGet
  <2>2. HasStart(d, i)
    BY <1>6, <2>1, Zenon DEF Value
  <2>3. j = i
    BY <1>1, <2>2, MapLand
  <2>4. gone = GoneFrom(d, h, i, i) /\ Value(d, i, snapshotId) # None
    BY <1>3, <1>6, <2>1, <2>3
  <2>5. /\ Touches(gone, h, i)
        /\ DOMAIN h.obs # {} => /\ \A k \in gone.deleted : k \in DOMAIN d
                                /\ NoDoc(Written(d, gone), i, snapshotId)
    BY <2>4, GoneServes
  <2>6. IsHandle(gone) /\ gone.obs = h.obs
    BY <2>5 DEF Touches
  <2> DEFINE obs == [n \in DOMAIN gone.obs |-> ObserveRemove(gone.obs[n], Doc(i, v))]
  <2>7. PICK o : o = obs
    OBVIOUS
  <2>8. DOMAIN o = DOMAIN h.obs /\ \A n \in DOMAIN o : o[n] = ObserveRemove(h.obs[n], Doc(i, v))
    BY <2>6, <2>7
  <2>9. got.h = [gone EXCEPT !.obs = o]
    <3>1. got.h = [gone EXCEPT !.obs = [n \in DOMAIN @ |-> ObserveRemove(@[n], Doc(j, v))]]
      BY <1>6, ResultParts, Zenon DEF ToldGone
    <3>2. [gone EXCEPT !.obs = [n \in DOMAIN @ |-> ObserveRemove(@[n], Doc(j, v))]]
          = [gone EXCEPT !.obs = [n \in DOMAIN gone.obs |-> ObserveRemove(gone.obs[n], Doc(j, v))]]
      BY Zenon
    <3> QED
      BY <2>3, <2>7, <3>1, <3>2, Zenon
  <2> HIDE DEF obs
  <2>10. PICK e, f : e = Written(d, h) /\ f = Written(d, gone)
    OBVIOUS
  <2>11. \A k \in Id : k # i => Value(f, k, snapshotId) = Value(e, k, snapshotId)
    <3>1. \A k : k # i => SameDoc(f, e, k)
      <4>1. \A k : k # i => SameDoc(Written(d, gone), Written(d, h), k)
        BY <2>5, TouchedDocs
      <4> QED
        BY <2>10, <4>1
    <3>2. ASSUME NEW k \in Id, k # i
          PROVE  Value(f, k, snapshotId) = Value(e, k, snapshotId)
      <4>1. SameDoc(f, e, k)
        BY <3>1, <3>2
      <4> QED
        BY <4>1, SameDocRead
    <3> QED
      BY <3>2
  <2>12. ASSUME NEW n \in DOMAIN o
         PROVE  Answers(f, snapshotId, o[n]) /\ o[n].q = h.obs[n].q
    <3>1. DOMAIN h.obs # {} /\ n \in DOMAIN h.obs
      BY <2>8
    <3>2. Answers(e, snapshotId, h.obs[n])
      BY <2>10, <3>1 DEF Serves
    <3>3. Value(e, i, snapshotId) = v
      <4>1. SameDoc(Written(d, h), d, i)
        BY <3>1, NotPending
      <4>2. SameDoc(e, d, i)
        BY <2>10, <4>1
      <4> QED
        BY <2>1, <4>2, SameDocRead
    <3>4. Value(f, i, snapshotId) = None
      <4>1. NoDoc(f, i, snapshotId)
        BY <2>5, <2>10, <3>1
      <4> QED
        BY <4>1, DocRead
    <3>5. PICK a, p : a = h.obs[n] /\ p = o[n]
      OBVIOUS
    <3>6. p = ObserveRemove(a, Doc(i, v))
      BY <2>8, <3>5
    <3>7. Answers(e, snapshotId, a)
      BY <3>2, <3>5
    <3>8. Answers(f, snapshotId, p) /\ p.q = a.q
      BY <1>6, <2>11, <3>3, <3>4, <3>6, <3>7, RemoveAnswers
    <3> QED
      BY <3>5, <3>8
  <2>13. DOMAIN h.obs # {} => \A k \in gone.deleted : k \in DOMAIN d
    BY <2>5
  <2>14. \A n \in DOMAIN o : Answers(Written(d, gone), snapshotId, o[n]) /\ o[n].q = h.obs[n].q
    BY <2>10, <2>12
  <2>15. PICK p : p = [gone EXCEPT !.obs = o]
    OBVIOUS
  <2>16. Serves(d, p, U \union {i}) /\ SameObs(p, h)
    BY <2>5, <2>8, <2>13, <2>14, <2>15, TouchServes
  <2> QED
    BY <2>9, <2>15, <2>16
<1>7. \/ got.h = h
      \/ /\ v # None
         /\ got = Result(ToldGone(gone, Doc(j, v)), "success")
  <2>1. \/ got = Result(h, "errorDatabase")
        \/ got = Result(h, "errorObjectIsReadOnly")
        \/ /\ v # None
           /\ got = Result(ToldGone(gone, Doc(j, v)), "success")
    BY <1>1, <1>2, <1>3, RemovePlain, Zenon
  <2>2. Result(h, "errorDatabase").h = h /\ Result(h, "errorObjectIsReadOnly").h = h
    BY ResultParts
  <2> QED
    BY <2>1, <2>2, Zenon
<1> QED
  BY <1>5, <1>6, <1>7

\* The documents U and the first n of the list.
Joined(U, docs, n) == U \union {docs[m].id : m \in 1..n}

\* removeById of one document after another, as the observers see it.
LEMMA RemoveEachServes ==
    ASSUME Store = "map", ~indexed, snapshotId \in Sid, NEW d, NEW acc, NEW U, U \subseteq Id,
           Serves(d, acc.h, U), DOMAIN acc.h.obs # {} => U = {}, acc.r = "success",
           NEW found, ~found.byLink, NEW T, NEW docs \in Seq(T), Distinct(docs),
           \A n \in DOMAIN docs : docs[n].id \in Id,
           NEW got, got = RemoveEach(d, acc, found, docs)
    PROVE  Serves(d, got.h, Id) /\ SameObs(got.h, acc.h)
<1> DEFINE L == Len(docs)
           after == CHOOSE g : IsRemoving(g, d, acc, docs, L)
<1>1. got = after[L]
  BY Zenon DEF RemoveEach, IsRemoving
<1> HIDE DEF after
<1>2. L \in Nat /\ DOMAIN docs = 1..L
  BY LenProperties
<1>3. IsRemoving(after, d, acc, docs, L)
  <2>1. \E g : IsRemoving(g, d, acc, docs, L)
    BY <1>2, RemovingExists
  <2> QED
    BY <2>1, Zenon DEF after
<1> HIDE DEF L
<1>4. \A k \in 0..L : after[k] = IF k = 0 THEN acc
                                 ELSE IF after[k - 1].r # "success" THEN after[k - 1]
                                 ELSE RemoveById(d, after[k - 1].h, docs[k].id, FALSE)
  BY <1>3 DEF IsRemoving
<1> DEFINE Good(k) == /\ Serves(d, after[k].h, Joined(U, docs, k))
                      /\ SameObs(after[k].h, acc.h)
           Bad == {k \in 0..L : ~Good(k)}
<1> HIDE DEF Good
<1>5. Bad = {}
  <2> SUFFICES ASSUME Bad # {} PROVE FALSE
    OBVIOUS
  <2>1. PICK k \in Bad : \A m \in Bad : k <= m
    <3>1. Bad \in SUBSET Nat
      BY <1>2
    <3> HIDE DEF Bad
    <3> QED
      BY <3>1, LeastExists
  <2>2. k \in 0..L /\ ~Good(k)
    BY <2>1
  <2>3. k # 0
    <3>1. 0 \in 0..L
      BY <1>2
    <3>2. after[0] = acc
      BY <1>4, <3>1, Zenon
    <3>3. U \subseteq Joined(U, docs, 0)
      BY DEF Joined
    <3>4. Serves(d, acc.h, Joined(U, docs, 0))
      BY <3>3, StillServes
    <3>5. Good(0)
      BY <3>2, <3>4, Zenon DEF Good, SameObs
    <3> QED
      BY <2>2, <3>5
  <2>4. k - 1 \in 0..L /\ k - 1 < k /\ k \in 1..L /\ k \in Nat
    BY <1>2, <2>2, <2>3
  <2>5. Good(k - 1)
    BY <2>1, <2>4
  <2>6. PICK h, V, W : h = after[k - 1].h /\ V = Joined(U, docs, k - 1) /\ W = Joined(U, docs, k)
    OBVIOUS
  <2>7. Serves(d, h, V) /\ SameObs(h, acc.h)
    BY <2>5, <2>6 DEF Good
  <2>8. PICK i : i = docs[k].id
    OBVIOUS
  <2>9. V \union {i} \subseteq W
    BY <2>4, <2>6, <2>8 DEF Joined
  <2>10. CASE after[k - 1].r # "success"
    <3>1. after[k] = after[k - 1]
      BY <1>4, <2>2, <2>3, <2>10
    <3>2. V \subseteq W
      BY <2>9
    <3>3. Serves(d, h, W)
      BY <2>7, <3>2, StillServes
    <3>4. Good(k)
      BY <2>6, <2>7, <3>1, <3>3, Zenon DEF Good
    <3> QED
      BY <2>2, <3>4
  <2>11. CASE after[k - 1].r = "success"
    <3>1. PICK ignore : ignore = FALSE
      OBVIOUS
    <3>2. PICK step : step = RemoveById(d, h, i, ignore)
      OBVIOUS
    <3>3. after[k] = step
      BY <1>4, <2>2, <2>3, <2>6, <2>8, <2>11, <3>1, <3>2
    <3>4. i \in Id
      BY <1>2, <2>4, <2>8
    <3>5. ASSUME DOMAIN h.obs # {}
          PROVE  i \notin V
      <4>1. U = {}
        BY <2>7, <3>5 DEF SameObs
      <4>2. ASSUME NEW m \in 1..(k - 1)
            PROVE  docs[m].id # i
        BY <1>2, <2>4, <2>8 DEF Distinct
      <4> QED
        BY <2>6, <4>1, <4>2 DEF Joined
    <3>6. Serves(d, step.h, V \union {i}) /\ SameObs(step.h, h)
      BY <2>7, <3>2, <3>4, <3>5, RemoveServes
    <3>7. Serves(d, step.h, W)
      BY <2>9, <3>6, StillServes
    <3>8. Good(k)
      BY <2>6, <2>7, <3>3, <3>6, <3>7, Zenon DEF Good, SameObs
    <3> QED
      BY <2>2, <3>8
  <2> QED
    BY <2>10, <2>11
<1>6. Good(L)
  BY <1>2, <1>5
<1>7. Serves(d, got.h, Joined(U, docs, L)) /\ SameObs(got.h, acc.h)
  BY <1>1, <1>6, Zenon DEF Good
<1>8. Joined(U, docs, L) \subseteq Id
  BY <1>2 DEF Joined
<1>9. Serves(d, got.h, Id)
  BY <1>7, <1>8, StillServes
<1> QED
  BY <1>7, <1>9

\* remove, as the observers of the handle see it.
LEMMA RemoveQueryServes ==
    ASSUME Store = "map", ~indexed, snapshotId \in Sid, NEW d, NEW h, NEW U, U \subseteq Id,
           Serves(d, h, U), DOMAIN h.obs # {} => U = {}, NEW q, Plain(q),
           NEW got, got = RemoveByQuery(d, h, q)
    PROVE  Serves(d, got.h, Id) /\ SameObs(got.h, h)
<1>1. PICK found : found = Find(d, h, q, None)
  OBVIOUS
<1>2. PICK docs : docs = found.reply
  OBVIOUS
<1>3. found.r = "success" /\ ~found.byLink /\ docs = FullSearch(d, h.sid, q)
  BY <1>1, <1>2, FindSearch
<1>4. PICK acc : acc = Result(h, found.r)
  OBVIOUS
<1>5. acc.h = h /\ acc.r = "success"
  BY <1>3, <1>4, ResultParts
<1>6. got = RemoveEach(d, acc, found, docs)
  BY <1>1, <1>2, <1>4, Zenon DEF RemoveByQuery
<1>7. PICK s : s = h.sid
  OBVIOUS
<1>8. docs \in Seq(DocsAt(d, s)) /\ Distinct(docs)
  <2>1. Scan(d, s) \in Seq({Doc(i, Value(d, i, s)) : i \in Id}) /\ Distinct(Scan(d, s))
    BY ScanFacts, ScanOnce
  <2>2. docs \in Seq({Doc(i, Value(d, i, s)) : i \in Id})
    BY <1>3, <1>7, FullSearchFacts
  <2>3. Distinct(docs)
    BY <1>3, <1>7, <2>1, OnlyDistinct DEF FullSearch
  <2> QED
    BY <2>2, <2>3 DEF DocsAt
<1>9. \A n \in DOMAIN docs : docs[n].id \in Id
  <2>1. DOMAIN docs = 1..Len(docs) /\ \A n \in 1..Len(docs) : docs[n] \in DocsAt(d, s)
    BY <1>8, LenProperties
  <2>2. \A e \in DocsAt(d, s) : e.id \in Id
    BY DEF DocsAt, Doc
  <2> QED
    BY <2>1, <2>2
<1>10. Serves(d, acc.h, U) /\ (DOMAIN acc.h.obs # {} => U = {})
  BY <1>5
<1>11. Serves(d, got.h, Id) /\ SameObs(got.h, acc.h)
  BY <1>3, <1>5, <1>6, <1>8, <1>9, <1>10, RemoveEachServes
<1> QED
  BY <1>5, <1>11

-----------------------------------------------------------------------------
(* The observers stay current.                                             *)

\* In memory, with as many snapshots as there are ids, no snapshot request
\* while a transaction is open, no transaction while there is an observer, and
\* none of the requests and options for which ObserversCurrent does not hold or
\* is not proved.
Observed ==
    /\ Store = "map"
    /\ Tx = {} \/ {"quiet", "apart"} \subseteq Discipline
    /\ MaxSnapshots <= SnapshotIds
    /\ Overwrite \subseteq {FALSE} /\ Limit \subseteq {None}
    /\ {"set", "createIndex", "removeSnapshot"} \intersect Ops = {}
    /\ \A q \in Query : Plain(q)

\* There are no versions behind the snapshot top.
Below(d, top) == \A i \in Id, s \in Sid : DocKey(i, s) \in DOMAIN d => s <= top

\* A handle without observers that writes at the current snapshot.
Private(h) == Serves(db, h, Id) /\ DOMAIN h.obs = {}

\* All observers hold the answer in the store d at the snapshot s.
AllAnswer(d, s) == \A o \in DOMAIN observers : Answers(d, s, observers[o])

\* So are the handles of all transactions.
TxPrivate == DOMAIN tx = Tx /\ \A t \in Tx : tx[t] # None => Private(tx[t])

\* The inductive invariant of the observers.
OInv ==
    /\ ~indexed /\ Below(db, snapshotId) /\ TxPrivate
    /\ DOMAIN observers # {} => NoneOpen
    /\ AllAnswer(db, snapshotId)

\* The snapshot id is the last position of the list.
LEMMA ObservedId ==
    ASSUME Observed, SInv
    PROVE  /\ Len(snapshots) <= SnapshotIds /\ Len(snapshots) \in Nat \ {0}
           /\ snapshotId = Len(snapshots) - 1 /\ snapshotId \in Sid
<1>1. Len(snapshots) \in Nat \ {0} /\ SizeOK(snapshots)
  BY ListLength DEF SInv
<1>2. Len(snapshots) <= SnapshotIds
  BY <1>1, ConstAssumption DEF SizeOK, Observed
<1> QED
  BY <1>1, <1>2, LastId

\* Without transactions, or with the rule "quiet", none is open when the
\* collection moves.
LEMMA NoneMoves ==
    ASSUME Observed, MayMove
    PROVE  NoneOpen
BY DEF Observed, MayMove, NoneOpen

\* What is pending at the current snapshot for a handle without observers does
\* not depend on what is in the store.
LEMMA StillPrivate ==
    ASSUME TxPrivate, snapshotId' = snapshotId, DOMAIN tx' = Tx,
           \A t \in Tx : tx'[t] = tx[t] \/ tx'[t] = None \/ Private(tx'[t])
    PROVE  TxPrivate'
<1>1. ASSUME NEW t \in Tx, NEW h, h = tx'[t], h # None
      PROVE  /\ IsHandle(h) /\ h.sid = snapshotId' /\ DOMAIN h.obs = {}
             /\ \A k \in DOMAIN h.cache : Own(k, Id)'
  <2>1. Private(h)
    BY <1>1 DEF TxPrivate
  <2>2. /\ IsHandle(h) /\ h.sid = snapshotId /\ DOMAIN h.obs = {}
        /\ \A k \in DOMAIN h.cache : Own(k, Id)
    BY <2>1 DEF Private, Serves
  <2>3. \A k : Own(k, Id) => Own(k, Id)'
    BY DEF Own, Id
  <2> QED
    BY <2>2, <2>3
<1>2. ASSUME NEW t \in Tx, tx'[t] # None
      PROVE  Private(tx[t])'
  BY <1>1, <1>2 DEF Private, Serves, IsHandle
<1> QED
  BY <1>2 DEF TxPrivate

\* The observers that a handle publishes are its own.
LEMMA PublishedIs ==
    ASSUME NEW h, NEW d, Serves(d, h, Id), DOMAIN h.obs = DOMAIN observers, OInv
    PROVE  Published(h) = [n \in DOMAIN observers |-> h.obs[n]]
<1>1. Published(h) = [n \in DOMAIN observers |-> [observers[n] EXCEPT !.reply = h.obs[n].reply]]
  BY DEF Published
<1>2. ASSUME NEW n \in DOMAIN observers
      PROVE  [observers[n] EXCEPT !.reply = h.obs[n].reply] = h.obs[n]
  <2>1. PICK o, p : o = observers[n] /\ p = h.obs[n]
    OBVIOUS
  <2>2. Answers(db, snapshotId, o)
    BY <1>2, <2>1 DEF OInv, AllAnswer
  <2>3. p.q = o.q /\ Answers(Written(d, h), snapshotId, p)
    BY <1>2, <2>1 DEF Serves
  <2>4. PICK q, r : o = [q |-> q, limit |-> None, reply |-> r]
    BY <2>2 DEF Answers
  <2>5. PICK x, l : p = [q |-> x, limit |-> None, reply |-> l]
    BY <2>3 DEF Answers
  <2>6. o.q = q /\ p.q = x /\ p.reply = l
    BY <2>4, <2>5, ReplyParts, Zenon
  <2>7. [o EXCEPT !.reply = l] = [q |-> q, limit |-> None, reply |-> l]
    BY <2>4
  <2>8. q = x
    BY <2>3, <2>6
  <2>9. [o EXCEPT !.reply = p.reply] = p
    BY <2>5, <2>6, <2>7, <2>8, Zenon
  <2> QED
    BY <2>1, <2>9
<1> QED
  BY <1>1, <1>2

\* A handle that is written, or not, leaves the observers current.
LEMMA WriteObserved ==
    ASSUME Observed, SInv, OInv, NEW STATE h, NEW STATE request, Serves(db, h, Id),
           DOMAIN h.obs = DOMAIN observers, WriteHandle(h, request), snapshotId' = snapshotId
    PROVE  /\ (~indexed)' /\ Below(db, snapshotId)' /\ AllAnswer(db, snapshotId)'
           /\ DOMAIN observers' = DOMAIN observers
<1>1. Store = "map" /\ snapshotId \in Sid
  BY ObservedId DEF Observed
<1>2. CASE StoreWrites(h, snapshots, indexed) /\ observers' = Published(h)
  <2>1. db' = Written(db, h) /\ indexed' = indexed
    BY <1>2 DEF StoreWrites
  <2>2. observers' = [n \in DOMAIN observers |-> h.obs[n]]
    BY <1>2, PublishedIs
  <2>3. ASSUME NEW i \in Id, NEW s \in Sid, DocKey(i, s) \in DOMAIN db'
        PROVE  s <= snapshotId
    <3>1. DocKey(i, s) \in DOMAIN h.cache \/ DocKey(i, s) \in DOMAIN db
      BY <1>1, <2>1, <2>3, MapWritten
    <3>2. CASE DocKey(i, s) \in DOMAIN h.cache
      <4>1. Own(DocKey(i, s), Id)
        BY <3>2 DEF Serves
      <4>2. s = snapshotId
        BY <4>1, Keys DEF Own
      <4> QED
        BY <1>1, <4>2, ConstAssumption DEF Sid
    <3> QED
      BY <2>3, <3>1, <3>2 DEF OInv, Below
  <2>4. Below(db, snapshotId)'
    BY <2>3 DEF Below, Id, Sid
  <2>5. ASSUME NEW n \in DOMAIN observers
        PROVE  Answers(db', snapshotId, observers'[n])
    <3>1. Answers(Written(db, h), snapshotId, h.obs[n])
      BY <2>5 DEF Serves
    <3> QED
      BY <2>1, <2>2, <3>1
  <2>6. AllAnswer(db, snapshotId)'
    BY <2>2, <2>5 DEF AllAnswer
  <2> QED
    BY <2>1, <2>2, <2>4, <2>6 DEF OInv
<1>3. CASE StoreFails(h, snapshots, indexed) /\ observers' = observers
  <2>1. /\ ~(h.deleted \subseteq DOMAIN db) /\ indexed' = indexed
        /\ \E K : db' = Restrict(db, DOMAIN db \ K)
    BY <1>1, <1>3 DEF StoreFails, Erasable
  <2>2. DOMAIN db' \subseteq DOMAIN db
    BY <2>1 DEF Restrict
  <2>3. DOMAIN observers = {}
    BY <2>1 DEF Serves
  <2>4. Below(db, snapshotId)'
    BY <2>2 DEF OInv, Below, Id, Sid
  <2>5. AllAnswer(db, snapshotId)'
    BY <1>3, <2>3 DEF AllAnswer
  <2> QED
    BY <1>3, <2>1, <2>4, <2>5 DEF OInv
<1> QED
  BY <1>2, <1>3 DEF WriteHandle

\* Nothing is pending in a new handle.
LEMMA NewValues ==
    ASSUME Store = "map", NEW d, NEW h, h.cache = NoKeys, h.deleted = {}
    PROVE  \A i : SameDoc(Written(d, h), d, i)
<1>1. ASSUME NEW k
      PROVE  SameAt(Written(d, h), d, k)
  <2>1. k \notin h.deleted /\ k \notin DOMAIN h.cache
    BY DEF NoKeys
  <2> QED
    BY <2>1, MapUntouched
<1> QED
  BY <1>1 DEF SameDoc

\* It serves the observers of the collection.
LEMMA FreshServes ==
    ASSUME Observed, OInv
    PROVE  Serves(db, NewHandle, {}) /\ DOMAIN NewHandle.obs = DOMAIN observers
<1>1. PICK h : h = NewHandle
  OBVIOUS
<1>2. IsHandle(h) /\ h.sid = snapshotId
  BY <1>1, FreshHandle
<1>3. h.cache = NoKeys /\ h.deleted = {} /\ h.obs = observers
  BY <1>1 DEF NewHandle
<1>4. \A i : SameDoc(Written(db, h), db, i)
  BY <1>3, NewValues DEF Observed
<1>5. ASSUME NEW n \in DOMAIN observers
      PROVE  Answers(Written(db, h), snapshotId, observers[n])
  <2>1. Answers(db, snapshotId, observers[n])
    BY DEF OInv, AllAnswer
  <2>2. PICK f : f = Written(db, h)
    OBVIOUS
  <2>3. ASSUME NEW i \in Id
        PROVE  Value(f, i, snapshotId) = Value(db, i, snapshotId)
    <3>1. SameDoc(f, db, i)
      BY <1>4, <2>2
    <3> QED
      BY <3>1, SameDocRead
  <2>4. Answers(f, snapshotId, observers[n])
    BY <2>1, <2>3, SameAnswers
  <2> QED
    BY <2>2, <2>4
<1>6. \A k : k \notin DOMAIN h.cache
  BY <1>3 DEF NoKeys
<1>7. Serves(db, h, {})
  BY <1>2, <1>3, <1>5, <1>6 DEF Serves
<1> QED
  BY <1>1, <1>3, <1>7

\* A handle to which an operation can be applied: if it has observers, nothing
\* is pending.
Ready(h) == \E U \in SUBSET Id : Serves(db, h, U) /\ (DOMAIN h.obs # {} => U = {})

\* The handle of every request is ready.
LEMMA HandleReady ==
    ASSUME Observed, OInv, NEW x \in Tx \union {NoTx}, x = NoTx \/ tx[x] # None
    PROVE  Ready(HandleOf(x))
<1>1. CASE x = NoTx
  <2>1. HandleOf(x) = NewHandle
    BY <1>1 DEF HandleOf
  <2>2. Serves(db, NewHandle, {}) /\ {} \in SUBSET Id
    BY FreshServes
  <2> QED
    BY <2>1, <2>2 DEF Ready
<1>2. CASE x # NoTx
  <2>1. HandleOf(x) = tx[x] /\ x \in Tx /\ tx[x] # None
    BY <1>2 DEF HandleOf
  <2>2. Private(tx[x])
    BY <2>1 DEF OInv, TxPrivate
  <2>3. Id \in SUBSET Id
    OBVIOUS
  <2> QED
    BY <2>1, <2>2, <2>3 DEF Ready, Private
<1> QED
  BY <1>1, <1>2

\* A request on documents, alone or in a transaction.
LEMMA PerformObserved ==
    ASSUME Observed, SInv, OInv, NEW x \in Tx \union {NoTx}, NEW STATE call, NEW STATE res,
           Ready(HandleOf(x)) => Serves(db, res.h, Id) /\ SameObs(res.h, HandleOf(x)),
           Perform(x, call, res)
    PROVE  OInv'
<1>1. snapshotId' = snapshotId
  BY DEF Perform
<1>2. CASE x = NoTx /\ WriteHandle(res.h, Request(call, x, res.r)) /\ UNCHANGED tx
  <2>1. HandleOf(x) = NewHandle
    BY <1>2 DEF HandleOf
  <2>2. Ready(HandleOf(x))
    BY <1>2, HandleReady
  <2>3. Serves(db, res.h, Id) /\ DOMAIN res.h.obs = DOMAIN observers
    BY <2>1, <2>2, FreshServes DEF SameObs
  <2>4. /\ (~indexed)' /\ Below(db, snapshotId)' /\ AllAnswer(db, snapshotId)'
        /\ DOMAIN observers' = DOMAIN observers
    BY <1>1, <1>2, <2>3, WriteObserved
  <2>5. TxPrivate'
    <3>1. TxPrivate /\ DOMAIN tx' = Tx
      BY <1>2 DEF OInv, TxPrivate
    <3>2. \A t \in Tx : tx'[t] = tx[t]
      BY <1>2
    <3> QED
      BY <1>1, <3>1, <3>2, StillPrivate
  <2>6. (DOMAIN observers # {} => NoneOpen)'
    BY <1>2, <2>4 DEF OInv, NoneOpen
  <2> QED
    BY <2>4, <2>5, <2>6 DEF OInv
<1>3. CASE /\ x # NoTx /\ tx[x] # None /\ tx' = [tx EXCEPT ![x] = res.h]
           /\ UNCHANGED <<db, snapshots, indexed, inDoubt, observers>>
  <2>1. x \in Tx /\ HandleOf(x) = tx[x] /\ DOMAIN tx = Tx
    BY <1>3 DEF HandleOf, OInv, TxPrivate
  <2>2. Ready(HandleOf(x)) /\ Private(tx[x])
    BY <1>3, <2>1, HandleReady DEF OInv, TxPrivate
  <2>3. Private(res.h)
    BY <2>1, <2>2 DEF Private, SameObs
  <2>4. DOMAIN tx' = Tx /\ \A t \in Tx : tx'[t] = tx[t] \/ tx'[t] = None \/ Private(tx'[t])
    BY <1>3, <2>1, <2>3
  <2>5. TxPrivate'
    BY <1>1, <2>4, StillPrivate DEF OInv
  <2>6. DOMAIN observers = {}
    BY <1>3, <2>1 DEF OInv, NoneOpen
  <2>7. (DOMAIN observers # {} => NoneOpen)' /\ AllAnswer(db, snapshotId)'
    BY <1>3, <2>6 DEF AllAnswer
  <2>8. (~indexed)' /\ Below(db, snapshotId)'
    BY <1>1, <1>3 DEF OInv, Below, Id, Sid
  <2> QED
    BY <2>5, <2>7, <2>8 DEF OInv
<1> QED
  BY <1>2, <1>3 DEF Perform

\* What the operations make of a ready handle.
LEMMA ReadyServes ==
    ASSUME Observed, SInv, OInv, NEW h, Ready(h)
    PROVE  /\ \A i \in Id, v \in Val, overwrite \in Overwrite, ignore \in Ignore :
                 LET got == Insert(db, h, i, v, overwrite, ignore) IN Serves(db, got.h, Id) /\ SameObs(got.h, h)
           /\ \A i \in Id, ignore \in Ignore :
                 LET got == RemoveById(db, h, i, ignore) IN Serves(db, got.h, Id) /\ SameObs(got.h, h)
           /\ \A q \in Query :
                 LET got == RemoveByQuery(db, h, q) IN Serves(db, got.h, Id) /\ SameObs(got.h, h)
<1>1. Store = "map" /\ ~indexed /\ snapshotId \in Sid
  BY ObservedId DEF Observed, OInv
<1>2. PICK U \in SUBSET Id : Serves(db, h, U) /\ (DOMAIN h.obs # {} => U = {})
  BY DEF Ready
<1>3. PICK d : d = db
  OBVIOUS
<1>4. Serves(d, h, U) /\ (DOMAIN h.obs # {} => \A i : i \notin U) /\ U \subseteq Id
  BY <1>2, <1>3
<1>5. ASSUME NEW i \in Id, NEW v \in Val, NEW overwrite \in Overwrite, NEW ignore \in Ignore,
             NEW got, got = Insert(d, h, i, v, overwrite, ignore)
      PROVE  Serves(d, got.h, Id) /\ SameObs(got.h, h)
  <2>1. overwrite \in BOOLEAN /\ ~overwrite
    BY DEF Observed
  <2>2. Serves(d, got.h, U \union {i}) /\ SameObs(got.h, h)
    BY <1>1, <1>4, <1>5, <2>1, InsertServes
  <2>3. U \union {i} \subseteq Id
    BY <1>4
  <2>4. Serves(d, got.h, Id)
    BY <2>2, <2>3, StillServes
  <2> QED
    BY <2>2, <2>4
<1>6. ASSUME NEW i \in Id, NEW ignore \in Ignore, NEW got, got = RemoveById(d, h, i, ignore)
      PROVE  Serves(d, got.h, Id) /\ SameObs(got.h, h)
  <2>1. Serves(d, got.h, U \union {i}) /\ SameObs(got.h, h)
    BY <1>1, <1>4, <1>6, RemoveServes
  <2>2. U \union {i} \subseteq Id
    BY <1>4
  <2>3. Serves(d, got.h, Id)
    BY <2>1, <2>2, StillServes
  <2> QED
    BY <2>1, <2>3
<1>7. ASSUME NEW q \in Query, NEW got, got = RemoveByQuery(d, h, q)
      PROVE  Serves(d, got.h, Id) /\ SameObs(got.h, h)
  <2>1. Plain(q)
    BY DEF Observed
  <2>2. DOMAIN h.obs # {} => U = {}
    BY <1>2
  <2> QED
    BY <1>1, <1>4, <1>7, <2>1, <2>2, RemoveQueryServes
<1> QED
  BY <1>3, <1>5, <1>6, <1>7

\* insert, removeId and remove.
LEMMA DocumentsObserved ==
    ASSUME Observed, SInv, OInv, NEW x \in Tx \union {NoTx}
    PROVE  /\ \A i \in Id, v \in Val, overwrite \in Overwrite, ignore \in Ignore :
                 InsertRequest(x, i, v, overwrite, ignore) => OInv'
           /\ \A i \in Id, ignore \in Ignore : RemoveIdRequest(x, i, ignore) => OInv'
           /\ \A q \in Query : RemoveRequest(x, q) => OInv'
           /\ \A q, docs : ~SetRequest(x, q, docs)
<1>1. ASSUME NEW i \in Id, NEW v \in Val, NEW overwrite \in Overwrite, NEW ignore \in Ignore,
             InsertRequest(x, i, v, overwrite, ignore)
      PROVE  OInv'
  <2> DEFINE res == Insert(db, HandleOf(x), i, v, overwrite, ignore)
             call == <<"insert", i, v, ignore>>
  <2>1. Perform(x, call, res)
    BY <1>1 DEF InsertRequest
  <2>2. Ready(HandleOf(x)) => Serves(db, res.h, Id) /\ SameObs(res.h, HandleOf(x))
    BY ReadyServes
  <2> HIDE DEF res, call
  <2> QED
    BY <2>1, <2>2, PerformObserved
<1>2. ASSUME NEW i \in Id, NEW ignore \in Ignore, RemoveIdRequest(x, i, ignore)
      PROVE  OInv'
  <2> DEFINE res == RemoveById(db, HandleOf(x), i, ignore)
             call == <<"removeId", i, ignore>>
  <2>1. Perform(x, call, res)
    BY <1>2 DEF RemoveIdRequest
  <2>2. Ready(HandleOf(x)) => Serves(db, res.h, Id) /\ SameObs(res.h, HandleOf(x))
    BY ReadyServes
  <2> HIDE DEF res, call
  <2> QED
    BY <2>1, <2>2, PerformObserved
<1>3. ASSUME NEW q \in Query, RemoveRequest(x, q)
      PROVE  OInv'
  <2> DEFINE res == RemoveByQuery(db, HandleOf(x), q)
             call == <<"remove", q>>
  <2>1. Perform(x, call, res)
    BY <1>3 DEF RemoveRequest
  <2>2. Ready(HandleOf(x)) => Serves(db, res.h, Id) /\ SameObs(res.h, HandleOf(x))
    BY ReadyServes
  <2> HIDE DEF res, call
  <2> QED
    BY <2>1, <2>2, PerformObserved
<1>4. \A q, docs : ~SetRequest(x, q, docs)
  BY DEF SetRequest, Observed
<1> QED
  BY <1>1, <1>2, <1>3, <1>4

\* What the invariant looks at.
LEMMA ObservedRests ==
    ASSUME OInv, UNCHANGED <<db, indexed, snapshotId, tx, observers>>
    PROVE  OInv'
<1>1. TxPrivate'
  <2>1. TxPrivate /\ DOMAIN tx' = Tx
    BY DEF OInv, TxPrivate
  <2> QED
    BY <2>1, StillPrivate
<1>2. (~indexed)' /\ Below(db, snapshotId)'
  BY DEF OInv, Below, Id, Sid
<1>3. (DOMAIN observers # {} => NoneOpen)' /\ AllAnswer(db, snapshotId)'
  BY DEF OInv, NoneOpen, AllAnswer
<1> QED
  BY <1>1, <1>2, <1>3 DEF OInv

\* When a transaction is open there are no observers.
LEMMA OpenUnobserved ==
    ASSUME OInv, NEW t \in Tx, tx[t] # None
    PROVE  DOMAIN observers = {} /\ Private(tx[t])
BY DEF OInv, TxPrivate, NoneOpen

\* newTransaction, writeTransaction and discardTransaction.
LEMMA TransactionsObserved ==
    ASSUME Observed, SInv, OInv, NEW t \in Tx
    PROVE  /\ NewTransaction(t) => OInv'
           /\ WriteTransaction(t) => OInv'
           /\ DiscardTransaction(t) => OInv'
<1>1. DOMAIN tx = Tx
  BY DEF OInv, TxPrivate
<1>2. ASSUME NewTransaction(t)
      PROVE  OInv'
  <2>1. DOMAIN observers = {}
    BY <1>2 DEF NewTransaction, MayOpen, Observed
  <2>2. Private(NewHandle)
    <3>1. Serves(db, NewHandle, {}) /\ DOMAIN NewHandle.obs = {}
      BY <2>1, FreshServes
    <3>2. {} \subseteq Id
      OBVIOUS
    <3>3. Serves(db, NewHandle, Id)
      BY <3>1, <3>2, StillServes
    <3> QED
      BY <3>1, <3>3 DEF Private
  <2>3. tx' = [tx EXCEPT ![t] = NewHandle] /\ UNCHANGED <<db, indexed, snapshotId, observers>>
    BY <1>2 DEF NewTransaction
  <2>4. DOMAIN tx' = Tx /\ \A u \in Tx : tx'[u] = tx[u] \/ tx'[u] = None \/ Private(tx'[u])
    BY <1>1, <2>2, <2>3
  <2>5. TxPrivate'
    BY <2>3, <2>4, StillPrivate DEF OInv
  <2>6. (~indexed)' /\ Below(db, snapshotId)'
    BY <2>3 DEF OInv, Below, Id, Sid
  <2>7. (DOMAIN observers # {} => NoneOpen)' /\ AllAnswer(db, snapshotId)'
    BY <2>1, <2>3 DEF AllAnswer
  <2> QED
    BY <2>5, <2>6, <2>7 DEF OInv
<1>3. ASSUME WriteTransaction(t)
      PROVE  OInv'
  <2>1. /\ tx[t] # None /\ WriteHandle(tx[t], Request(<<"writeTransaction">>, t, "success"))
        /\ tx' = [tx EXCEPT ![t] = None] /\ snapshotId' = snapshotId
    BY <1>3 DEF WriteTransaction
  <2>2. DOMAIN observers = {} /\ Serves(db, tx[t], Id) /\ DOMAIN tx[t].obs = DOMAIN observers
    BY <2>1, OpenUnobserved DEF Private
  <2>3. /\ (~indexed)' /\ Below(db, snapshotId)' /\ AllAnswer(db, snapshotId)'
        /\ DOMAIN observers' = DOMAIN observers
    BY <2>1, <2>2, WriteObserved
  <2>4. DOMAIN tx' = Tx /\ \A u \in Tx : tx'[u] = tx[u] \/ tx'[u] = None \/ Private(tx'[u])
    BY <1>1, <2>1
  <2>5. TxPrivate'
    BY <2>1, <2>4, StillPrivate DEF OInv
  <2> QED
    BY <2>2, <2>3, <2>5 DEF OInv
<1>4. ASSUME DiscardTransaction(t)
      PROVE  OInv'
  <2>1. /\ tx[t] # None /\ tx' = [tx EXCEPT ![t] = None]
        /\ UNCHANGED <<db, indexed, snapshotId, observers>>
    BY <1>4 DEF DiscardTransaction
  <2>2. DOMAIN observers = {}
    BY <2>1, OpenUnobserved
  <2>3. DOMAIN tx' = Tx /\ \A u \in Tx : tx'[u] = tx[u] \/ tx'[u] = None \/ Private(tx'[u])
    BY <1>1, <2>1
  <2>4. TxPrivate'
    BY <2>1, <2>3, StillPrivate DEF OInv
  <2>5. (~indexed)' /\ Below(db, snapshotId)'
    BY <2>1 DEF OInv, Below, Id, Sid
  <2>6. (DOMAIN observers # {} => NoneOpen)' /\ AllAnswer(db, snapshotId)'
    BY <2>1, <2>2 DEF AllAnswer
  <2> QED
    BY <2>4, <2>5, <2>6 DEF OInv
<1> QED
  BY <1>2, <1>3, <1>4

\* observe and unobserve.
LEMMA ObserversObserved ==
    ASSUME Observed, SInv, OInv, NEW o
    PROVE  /\ Unobserve(o) => OInv'
           /\ \A q \in Query, limit \in Limit : Observe(o, q, limit) => OInv'
<1>1. ASSUME Unobserve(o)
      PROVE  OInv'
  <2>1. /\ observers' = Restrict(observers, DOMAIN observers \ {o})
        /\ UNCHANGED <<db, indexed, snapshotId, tx>>
    BY <1>1 DEF Unobserve
  <2>2. DOMAIN observers' \subseteq DOMAIN observers
        /\ \A n \in DOMAIN observers' : observers'[n] = observers[n]
    BY <2>1 DEF Restrict
  <2>3. TxPrivate'
    <3>1. TxPrivate /\ DOMAIN tx' = Tx
      BY <2>1 DEF OInv, TxPrivate
    <3> QED
      BY <2>1, <3>1, StillPrivate
  <2>4. (~indexed)' /\ Below(db, snapshotId)'
    BY <2>1 DEF OInv, Below, Id, Sid
  <2>5. AllAnswer(db, snapshotId)'
    BY <2>1, <2>2 DEF OInv, AllAnswer
  <2>6. (DOMAIN observers # {} => NoneOpen)'
    BY <2>1, <2>2 DEF OInv, NoneOpen
  <2> QED
    BY <2>3, <2>4, <2>5, <2>6 DEF OInv
<1>2. ASSUME NEW q \in Query, NEW limit \in Limit, Observe(o, q, limit)
      PROVE  OInv'
  <2>1. PICK p : p = [q |-> q, limit |-> None, reply |-> Find(db, NewHandle, q, None).reply]
    OBVIOUS
  <2>2. limit = None /\ Plain(q)
    BY DEF Observed
  <2>3. /\ observers' = With(observers, o, p)
        /\ UNCHANGED <<db, indexed, snapshotId, tx>>
    BY <1>2, <2>1, <2>2 DEF Observe
  <2>4. NoneOpen
    BY <1>2 DEF Observe, MayObserve, Observed, NoneOpen
  <2>5. ~indexed /\ NewHandle.sid = snapshotId
    BY FreshHandle DEF OInv
  <2>6. Find(db, NewHandle, q, None).reply = FullSearch(db, snapshotId, q)
    BY <2>2, <2>5, FindSearch
  <2>7. p = [q |-> q, limit |-> None, reply |-> FullSearch(db, snapshotId, q)]
    BY <2>1, <2>6
  <2>8. Answers(db, snapshotId, p)
    BY <2>2, <2>7, SearchAnswers
  <2>9. DOMAIN observers' = DOMAIN observers \union {o}
        /\ \A n \in DOMAIN observers' : observers'[n] = IF n = o THEN p ELSE observers[n]
    BY <2>3 DEF With
  <2>10. TxPrivate'
    <3>1. TxPrivate /\ DOMAIN tx' = Tx
      BY <2>3 DEF OInv, TxPrivate
    <3> QED
      BY <2>3, <3>1, StillPrivate
  <2>11. (~indexed)' /\ Below(db, snapshotId)'
    BY <2>3 DEF OInv, Below, Id, Sid
  <2>12. ASSUME NEW n \in DOMAIN observers'
         PROVE  Answers(db, snapshotId, observers'[n])
    BY <2>8, <2>9 DEF OInv, AllAnswer
  <2>13. AllAnswer(db, snapshotId)'
    BY <2>3, <2>12 DEF AllAnswer
  <2>14. NoneOpen'
    BY <2>3, <2>4 DEF NoneOpen
  <2> QED
    BY <2>10, <2>11, <2>13, <2>14 DEF OInv
<1> QED
  BY <1>1, <1>2

\* After a restart of the server the map is empty.
LEMMA ReopenObserved ==
    ASSUME Observed, Reopen
    PROVE  OInv'
<1>1. Store # "leveldb"
  BY DEF Observed
<1>2. /\ db' = NoKeys /\ indexed' = FALSE /\ tx' = [t \in Tx |-> None] /\ observers' = [o \in {} |-> None]
  BY <1>1 DEF Reopen
<1>3. (~indexed)' /\ Below(db, snapshotId)' /\ AllAnswer(db, snapshotId)'
  BY <1>2 DEF Below, AllAnswer, NoKeys
<1>4. TxPrivate' /\ (DOMAIN observers # {} => NoneOpen)'
  BY <1>2 DEF TxPrivate, NoneOpen
<1> QED
  BY <1>3, <1>4 DEF OInv

\* At the start too.
LEMMA ObservedInit ==
    ASSUME Init
    PROVE  OInv
BY DEF Init, OInv, Below, AllAnswer, NoKeys, TxPrivate, NoneOpen

\* A request on snapshots that deletes only what is there cannot fail; the
\* observers obs of its new state hold the answers there.
LEMMA MoveObserved ==
    ASSUME Observed, OInv, NoneOpen,
           NEW STATE call, NEW STATE h, NEW STATE ss, NEW STATE sid, NEW STATE obs,
           \A k \in h.deleted : k \in DOMAIN db, Below(Written(db, h), sid),
           \A n \in DOMAIN obs : Answers(Written(db, h), sid, obs[n]),
           MoveTo(call, h, ss, indexed, sid, obs)
    PROVE  OInv'
<1>1. Store = "map" /\ Store # "leveldb" /\ Erasable(h)
  BY DEF Observed, Erasable
<1>2. ~StoreFails(h, ss, indexed)
  BY <1>1 DEF StoreFails
<1>3. StoreWrites(h, ss, indexed) /\ snapshotId' = sid /\ observers' = obs /\ tx' = tx
  BY <1>2 DEF MoveTo
<1>4. db' = Written(db, h) /\ indexed' = indexed
  BY <1>3 DEF StoreWrites
<1>5. NoneOpen' /\ TxPrivate'
  BY <1>3 DEF OInv, NoneOpen, TxPrivate
<1>6. Below(db, snapshotId)'
  BY <1>3, <1>4 DEF Below, Id, Sid
<1>7. AllAnswer(db, snapshotId)'
  BY <1>3, <1>4 DEF AllAnswer
<1> QED
  BY <1>4, <1>5, <1>6, <1>7 DEF OInv

\* No version lies behind the current snapshot.
LEMMA NextSame ==
    ASSUME NEW d, NEW top \in Sid, Below(d, top), NEW next, next = top + 1, NEW i \in Id
    PROVE  Value(d, i, next) = Value(d, i, top)
<1>1. \A r \in Versions(d, i) : r <= top /\ r <= next
  <2>1. ASSUME NEW r \in Versions(d, i)
        PROVE  r <= top /\ r <= next
    <3>1. r \in Sid /\ r <= top
      BY <2>1 DEF Below, Versions
    <3> QED
      BY <3>1, ConstAssumption DEF Sid
  <2> QED
    BY <2>1
<1>2. UpTo(d, i, next) = UpTo(d, i, top)
  BY <1>1 DEF UpTo
<1> QED
  BY <1>2 DEF Value

\* copyIndexValues erases nothing.
LEMMA CopyErases ==
    ASSUME NEW d, NEW h, IsHandle(h), h.deleted = {}, NEW r, NEW s
    PROVE  CopyIndexValues(d, h, r, s).deleted = {}
<1> DEFINE from == {k \in DOMAIN d : k[1] = "iv" /\ k[2] = s}
           kv == [k \in {IvKey(r, k[3]) : k \in from} |-> d[IvKey(s, k[3])]]
<1>1. CopyIndexValues(d, h, r, s) = PutAll(h, kv)
  BY Zenon DEF CopyIndexValues
<1> HIDE DEF kv
<1>2. PutAll(h, kv) = Parted(h.sid, Over(kv, h.cache), h.deleted \ DOMAIN kv, h.obs)
  BY HandleParts
<1>3. PutAll(h, kv).deleted = h.deleted \ DOMAIN kv
  BY <1>2, PartedParts
<1> QED
  BY <1>1, <1>3

\* newSnapshot: the current state shows what the new snapshot shows.
LEMMA NewSnapshotObserved ==
    ASSUME Observed, SInv, OInv, NEW n \in Name, NewSnapshot(n)
    PROVE  OInv'
<1>1. CASE Refuse(<<"newSnapshot", n>>, "errorSnapshotIsExists")
  BY <1>1, ObservedRests DEF Refuse
<1> DEFINE next == (snapshotId + 1) % SnapshotIds
           h == CopyIndexValues(db, NewHandle, next, snapshotId)
           ss == Append(Front(snapshots), n) \o <<Current>>
           call == <<"newSnapshot", n>>
<1>2. CASE /\ MayMove /\ Len(snapshots) < MaxSnapshots
           /\ MoveTo(call, h, ss, indexed, next, observers)
  <2>1. /\ Store = "map" /\ snapshotId \in Sid /\ snapshotId = Len(snapshots) - 1
        /\ Len(snapshots) \in Nat \ {0} /\ Len(snapshots) < SnapshotIds
    <3>1. /\ snapshotId \in Sid /\ snapshotId = Len(snapshots) - 1 /\ Len(snapshots) \in Nat \ {0}
          /\ Store = "map" /\ MaxSnapshots <= SnapshotIds
      BY ObservedId DEF Observed
    <3>2. MaxSnapshots \in Nat /\ SnapshotIds \in Nat
      BY ConstAssumption
    <3>3. Len(snapshots) < MaxSnapshots
      BY <1>2
    <3> HIDE DEF h, ss, call, next
    <3> QED
      BY <3>1, <3>2, <3>3
  <2>2. next = snapshotId + 1
    <3>1. snapshotId + 1 \in Nat /\ snapshotId + 1 < SnapshotIds /\ SnapshotIds \in Nat \ {0}
      BY <2>1, ConstAssumption
    <3> QED
      BY <3>1, ModSmall
  <2>3. NoneOpen
    BY <1>2, NoneMoves
  <2>4. IsHandle(NewHandle) /\ NewHandle.cache = NoKeys /\ NewHandle.deleted = {}
    BY NewHandleOK DEF HandleOK, NewHandle
  <2>5. SameDocs(h, NewHandle)
    BY <2>4, CopySameDocs
  <2>6. h.deleted = {}
    <3>1. \A r : CopyIndexValues(db, NewHandle, r, snapshotId).deleted = {}
      BY <2>4, CopyErases
    <3> HIDE DEF next
    <3> QED
      BY <3>1, Zenon
  <2> HIDE DEF h, next, ss, call
  <2>7. PICK d, e : d = Written(db, NewHandle) /\ e = Written(db, h)
    OBVIOUS
  <2>8. \A i : SameDoc(d, db, i)
    BY <2>1, <2>4, <2>7, NewValues
  <2>9. \A i : SameDoc(e, d, i)
    <3>1. \A i, s : SameKey(h, NewHandle, StartKey(i)) /\ SameKey(h, NewHandle, DocKey(i, s))
      BY <2>5 DEF SameDocs
    <3>2. \A i, s : SameAt(e, d, StartKey(i)) /\ SameAt(e, d, DocKey(i, s))
      BY <2>1, <2>7, <3>1, MapSame
    <3> QED
      BY <3>2 DEF SameDoc
  <2>10. \A i : SameDoc(e, db, i)
    BY <2>8, <2>9, SameDocAgain
  <2>11. Below(e, next)
    <3> SUFFICES ASSUME NEW i \in Id, NEW s \in Sid, DocKey(i, s) \in DOMAIN e
                 PROVE  s <= next
      BY DEF Below
    <3>1. DocKey(i, s) \in DOMAIN db
      BY <2>10 DEF SameDoc, SameAt
    <3>2. s <= snapshotId
      BY <3>1 DEF OInv, Below
    <3> QED
      BY <2>1, <2>2, <3>2, ConstAssumption DEF Sid
  <2>12. ASSUME NEW i \in Id
         PROVE  Value(e, i, next) = Value(db, i, snapshotId)
    <3>1. SameDoc(e, db, i)
      BY <2>10
    <3>2. Value(e, i, next) = Value(db, i, next)
      BY <3>1, SameDocRead
    <3>3. Value(db, i, next) = Value(db, i, snapshotId)
      BY <2>1, <2>2, NextSame DEF OInv
    <3> QED
      BY <3>2, <3>3
  <2>13. ASSUME NEW m \in DOMAIN observers
         PROVE  Answers(e, next, observers[m])
    <3>1. Answers(db, snapshotId, observers[m])
      BY <2>13 DEF OInv, AllAnswer
    <3> QED
      BY <2>12, <3>1, SameAnswers
  <2>14. \A k \in h.deleted : k \in DOMAIN db
    BY <2>6
  <2>15. Below(Written(db, h), next) /\ \A m \in DOMAIN observers : Answers(Written(db, h), next, observers[m])
    BY <2>7, <2>11, <2>13
  <2> QED
    BY <1>2, <2>3, <2>14, <2>15, MoveObserved
<1> QED
  BY <1>1, <1>2 DEF NewSnapshot

\* revertToSnapshot erases what is there, and all versions behind k.
LEMMA RevertErases ==
    ASSUME Observed, SInv, OInv, NEW k \in Nat, k < Len(snapshots), NEW h, h = RevertHandle(db, k)
    PROVE  (\A x \in h.deleted : x \in DOMAIN db) /\ Below(Written(db, h), k)
<1> DEFINE later == {n % SnapshotIds : n \in (k + 1)..(Len(snapshots) - 1)}
           gone == {c \in Id \X Sid : c[2] \in Versions(db, c[1]) /\ c[2] \in later}
           bare == {i \in Id : HasStart(db, i) /\ Group(db, i) \subseteq gone}
           iv == {x \in DOMAIN db : x[1] = "iv" /\ x[2] \in later}
           K == VersionKeys(gone) \union {StartKey(i) : i \in bare} \union iv
<1>1. h = DeleteAll(NewHandle, K)
  BY Zenon DEF RevertHandle
<1>2. IsHandle(NewHandle) /\ NewHandle.cache = NoKeys /\ NewHandle.deleted = {}
  BY NewHandleOK DEF HandleOK, NewHandle
<1>3. h.cache = NoKeys /\ h.deleted = K
  <2> HIDE DEF K
  <2>1. DeleteAll(NewHandle, K).cache = NewHandle.cache
        /\ DeleteAll(NewHandle, K).deleted = NewHandle.deleted \union K
    BY <1>2, DeleteAllSays
  <2> QED
    BY <1>1, <1>2, <2>1
<1>4. VersionKeys(gone) \subseteq DOMAIN db
  <2> SUFFICES ASSUME NEW x \in VersionKeys(gone) PROVE x \in DOMAIN db
    OBVIOUS
  <2>1. PICK c \in gone : x = DocKey(c[1], c[2])
    BY DEF VersionKeys
  <2> QED
    BY <2>1 DEF Versions
<1>5. {StartKey(i) : i \in bare} \subseteq DOMAIN db
  BY DEF HasStart
<1>6. \A x \in h.deleted : x \in DOMAIN db
  BY <1>3, <1>4, <1>5
<1>7. ASSUME NEW i \in Id, NEW s \in Sid, DocKey(i, s) \in DOMAIN Written(db, h)
      PROVE  s <= k
  <2>1. DocKey(i, s) \in DOMAIN db /\ DocKey(i, s) \notin K
    <3> HIDE DEF K
    <3>1. DocKey(i, s) \notin DOMAIN h.cache
      BY <1>3 DEF NoKeys
    <3> QED
      BY <1>3, <1>7, <3>1, MapWritten DEF Observed
  <2>2. s \in Nat /\ s < SnapshotIds /\ SnapshotIds \in Nat \ {0} /\ s <= Len(snapshots) - 1
    <3>1. s <= snapshotId /\ snapshotId = Len(snapshots) - 1
      BY <2>1, ObservedId DEF OInv, Below
    <3> QED
      BY <3>1, ConstAssumption DEF Sid
  <2>3. ASSUME ~(s <= k)
        PROVE  FALSE
    <3>1. s \in (k + 1)..(Len(snapshots) - 1) /\ s % SnapshotIds = s
      <4>1. s % SnapshotIds = s
        BY <2>2, ModSmall
      <4>2. Len(snapshots) \in Nat
        BY ObservedId
      <4> QED
        BY <2>2, <2>3, <4>1, <4>2
    <3>2. s \in later
      BY <3>1
    <3> HIDE DEF later
    <3>3. <<i, s>> \in gone
      BY <2>1, <3>2 DEF Versions
    <3>4. DocKey(i, s) \in VersionKeys(gone)
      <4>1. DocKey(i, s) = DocKey(<<i, s>>[1], <<i, s>>[2])
        OBVIOUS
      <4> HIDE DEF gone
      <4> QED
        BY <3>3, <4>1, Zenon DEF VersionKeys
    <3> HIDE DEF gone
    <3> QED
      BY <2>1, <3>4
  <2> QED
    BY <2>3
<1>8. Below(Written(db, h), k)
  BY <1>7 DEF Below
<1> QED
  BY <1>6, <1>8

\* revertToSnapshot: the observers are asked again.
LEMMA RevertObserved ==
    ASSUME Observed, SInv, OInv, NEW n \in Name, RevertToSnapshot(n)
    PROVE  OInv'
<1>1. CASE Refuse(<<"revert", n>>, "errorInvalidObject")
  BY <1>1, ObservedRests DEF Refuse
<1> DEFINE k == SidOf(snapshots, n)
           h == RevertHandle(db, k)
           ss == Append(SubSeq(snapshots, 1, k), Current)
           call == <<"revert", n>>
           e == Written(db, h)
<1>2. CASE /\ MayMove /\ n \in Range(snapshots)
           /\ MoveTo(call, h, ss, indexed, k, Reloaded(e, k))
  <2>1. k \in Nat /\ k < Len(snapshots)
    <3>1. ListOK(snapshots) /\ Len(snapshots) <= SnapshotIds /\ Len(snapshots) \in Nat
      BY ObservedId DEF SInv
    <3>2. SidOf(snapshots, n) \in Nat /\ SidOf(snapshots, n) + 1 < Len(snapshots)
      BY <1>2, <3>1, NamePlace
    <3> QED
      BY <3>1, <3>2
  <2>2. NoneOpen
    BY <1>2, NoneMoves
  <2> HIDE DEF k, ss, call
  <2>3. (\A x \in h.deleted : x \in DOMAIN db) /\ Below(e, k)
    <3>1. PICK g : g = h
      OBVIOUS
    <3>2. (\A x \in g.deleted : x \in DOMAIN db) /\ Below(Written(db, g), k)
      BY <2>1, <3>1, RevertErases
    <3> QED
      BY <3>1, <3>2
  <2>4. ASSUME NEW m \in DOMAIN observers
        PROVE  Answers(e, k, Reloaded(e, k)[m])
    <3>1. PICK f : f = e
      OBVIOUS
    <3>2. PICK g : g = [NewHandle EXCEPT !.sid = k]
      OBVIOUS
    <3>3. g.sid = k
      BY <3>2 DEF NewHandle
    <3>4. Answers(db, snapshotId, observers[m])
      BY <2>4 DEF OInv, AllAnswer
    <3>5. PICK q, r : observers[m] = [q |-> q, limit |-> None, reply |-> r]
      BY <3>4 DEF Answers
    <3>6. observers[m].q = q /\ Plain(q)
      BY <3>4, <3>5, ReplyParts DEF Answers
    <3>7. Reloaded(f, k)[m] = [observers[m] EXCEPT !.reply = Find(f, g, q, None).reply]
      BY <2>4, <3>2, <3>6, Zenon DEF Reloaded
    <3>8. Find(f, g, q, None).reply = FullSearch(f, k, q)
      <4>1. ~indexed
        BY DEF OInv
      <4> QED
        BY <3>3, <3>6, <4>1, FindSearch
    <3>9. Reloaded(f, k)[m] = [q |-> q, limit |-> None, reply |-> FullSearch(f, k, q)]
      BY <3>5, <3>7, <3>8
    <3>10. Answers(f, k, Reloaded(f, k)[m])
      BY <3>6, <3>9, SearchAnswers
    <3> QED
      BY <3>1, <3>10
  <2>5. DOMAIN Reloaded(e, k) = DOMAIN observers
    BY DEF Reloaded
  <2> DEFINE obs == Reloaded(e, k)
  <2>6. \A m \in DOMAIN obs : Answers(Written(db, h), k, obs[m])
    BY <2>4, <2>5
  <2>7. MoveTo(call, h, ss, indexed, k, obs)
    BY <1>2
  <2> HIDE DEF obs, h
  <2> QED
    BY <2>2, <2>3, <2>6, <2>7, MoveObserved
<1> QED
  BY <1>1, <1>2 DEF RevertToSnapshot

\* A step keeps the observers current.
LEMMA ObservedStep ==
    ASSUME Observed, SInv, OInv, [Next]_vars
    PROVE  OInv'
<1>1. CASE UNCHANGED vars
  BY <1>1, ObservedRests DEF vars
<1>2. CASE \E x \in Tx \union {NoTx} :
             \/ \E i \in Id, ignore \in Ignore :
                 \/ \E v \in Val, overwrite \in Overwrite : InsertRequest(x, i, v, overwrite, ignore)
                 \/ RemoveIdRequest(x, i, ignore)
             \/ \E q \in Query : RemoveRequest(x, q) \/ \E docs \in Docs : SetRequest(x, q, docs)
  BY <1>2, DocumentsObserved
<1>3. ~CreateIndexRequest /\ \A n : ~RemoveSnapshot(n)
  BY DEF CreateIndexRequest, RemoveSnapshot, Observed
<1>4. CASE \E t \in Tx : NewTransaction(t) \/ WriteTransaction(t) \/ DiscardTransaction(t)
  BY <1>4, TransactionsObserved
<1>5. CASE \E n \in Name : NewSnapshot(n) \/ RevertToSnapshot(n) \/ RemoveSnapshot(n)
  BY <1>3, <1>5, NewSnapshotObserved, RevertObserved
<1>6. CASE \E o \in ObsId : Unobserve(o) \/ \E q \in Query, limit \in Limit : Observe(o, q, limit)
  BY <1>6, ObserversObserved
<1>7. CASE Reopen
  BY <1>7, ReopenObserved
<1> QED
  BY <1>1, <1>2, <1>3, <1>4, <1>5, <1>6, <1>7 DEF Next

\* OInv is an invariant of the collection in memory: what transactions hold
\* pending is theirs, and every observer holds exactly the documents that its
\* query asks for in the current state, each once.
THEOREM ObserversInvariant == Observed => (Spec => []OInv)
<1> SUFFICES ASSUME Observed PROVE Spec => []OInv
  OBVIOUS
<1>1. Init => OInv
  BY ObservedInit
<1>2. SInv /\ OInv /\ [Next]_vars => OInv'
  BY ObservedStep
<1> QED
  BY <1>1, <1>2, SnapshotListInvariant, PTL DEF Spec

\* An observer holds the current answer to its query, whatever was inserted or
\* removed, alone or in transactions, and whatever snapshots were made or
\* reverted to: insert and removeById of the handle keep the reply up to date,
\* revertToSnapshot asks again.
THEOREM ObserversStayCurrent == Observed => (Spec => []ObserversCurrent)
<1> SUFFICES ASSUME Observed PROVE Spec => []ObserversCurrent
  OBVIOUS
<1>1. OInv => ObserversCurrent
  <2> SUFFICES ASSUME OInv, NEW o \in DOMAIN observers
               PROVE  LET now == FullSearch(db, snapshotId, observers[o].q)
                          reply == observers[o].reply
                      IN /\ Range(reply) \subseteq Range(now)
                         /\ Len(reply) = Len(ApplyOptions(now, observers[o].limit))
    BY DEF ObserversCurrent
  <2>1. Answers(db, snapshotId, observers[o])
    BY DEF OInv, AllAnswer
  <2> QED
    BY <2>1, AnswersSuffice
<1> QED
  BY <1>1, ObserversInvariant, PTL
=============================================================================
