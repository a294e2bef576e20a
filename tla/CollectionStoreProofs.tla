------------------------ MODULE CollectionStoreProofs ------------------------
(***************************************************************************)
(* Finds through the index are right, and a collection is a DocumentStore, *)
(* for every number of documents, snapshot names and snapshot ids.  Both   *)
(* rest on the invariant of module CollectionProofs.                       *)
(*                                                                         *)
(* FindsAgree.  At every snapshot, the entry of a value links exactly the  *)
(* newest versions of the documents that have the value there (IndexOK).   *)
(* A request on documents changes the entries of the current snapshot,     *)
(* one for each document it writes (AtTop); the requests on snapshots copy *)
(* them, delete them or renumber them with their links (XInv).             *)
(*                                                                         *)
(* ImplementsDocumentStore.  With both invariants every request does to    *)
(* the views of the current state and of the snapshots what DocumentStore  *)
(* says (Storing, StoreStep): a write leads to the new views, or fails and *)
(* leaves them, or leaves a store in doubt that shows either (AttemptMade).*)
(***************************************************************************)
EXTENDS CollectionProofs

-----------------------------------------------------------------------------
(* What the operations of a handle change, key by key, in the store that   *)
(* would be written.                                                       *)

\* Pending writes that say the same of a key leave the same there.
LEMMA SameWritten ==
    ASSUME Store # "map", NEW d, NEW g, NEW h, NEW k, SameKey(g, h, k)
    PROVE  SameAt(Written(d, g), Written(d, h), k)
<1>1. PICK e : e = Written(d, g)
  OBVIOUS
<1>2. PICK f : f = Written(d, h)
  OBVIOUS
<1>3. /\ k \in DOMAIN e <=> Puts(g, k) \/ (k \in DOMAIN d /\ k \notin g.deleted)
      /\ Puts(g, k) => e[k] = g.cache[k]
      /\ k \in DOMAIN d /\ k \notin g.deleted /\ ~Puts(g, k) => e[k] = d[k]
  BY <1>1, WrittenFacts
<1>4. /\ k \in DOMAIN f <=> Puts(h, k) \/ (k \in DOMAIN d /\ k \notin h.deleted)
      /\ Puts(h, k) => f[k] = h.cache[k]
      /\ k \in DOMAIN d /\ k \notin h.deleted /\ ~Puts(h, k) => f[k] = d[k]
  BY <1>2, WrittenFacts
<1> QED
  BY <1>1, <1>2, <1>3, <1>4 DEF SameAt, SameKey, Puts

\* A read by key sees what would be written.
LEMMA GetWritten ==
    ASSUME Store # "map", NEW d, NEW h, NEW k
    PROVE  Get(d, h, k) = IF k \in DOMAIN Written(d, h) THEN Written(d, h)[k] ELSE None
<1>1. PICK e : e = Written(d, h)
  OBVIOUS
<1>2. /\ k \in DOMAIN e <=> Puts(h, k) \/ (k \in DOMAIN d /\ k \notin h.deleted)
      /\ Puts(h, k) => e[k] = h.cache[k]
      /\ k \in DOMAIN d /\ k \notin h.deleted /\ ~Puts(h, k) => e[k] = d[k]
  BY <1>1, WrittenFacts
<1> QED
  BY <1>1, <1>2 DEF Get, Puts

\* A put.
LEMMA PutWritten ==
    ASSUME Store # "map", NEW d, NEW h, IsHandle(h), NEW k, NEW v
    PROVE  LET f == Written(d, Put(h, k, v)) IN
           /\ k \in DOMAIN f /\ f[k] = v
           /\ \A x : x # k => SameAt(f, Written(d, h), x)
<1>1. PICK g : g = Put(h, k, v)
  OBVIOUS
<1>2. k \in DOMAIN g.cache /\ g.cache[k] = v /\ k \notin g.deleted /\ \A x : x # k => SameKey(g, h, x)
  BY <1>1, PutSays
<1>3. \A x : x # k => SameAt(Written(d, g), Written(d, h), x)
  BY <1>2, SameWritten
<1>4. Puts(g, k)
  BY <1>2 DEF Puts
<1>5. k \in DOMAIN Written(d, g) /\ Written(d, g)[k] = v
  BY <1>2, <1>4, WrittenFacts
<1> QED
  BY <1>1, <1>3, <1>5

\* A delete.
LEMMA DeleteWritten ==
    ASSUME Store # "map", NEW d, NEW h, IsHandle(h), NEW k
    PROVE  LET f == Written(d, Delete(h, k)) IN
           k \notin DOMAIN f /\ \A x : x # k => SameAt(f, Written(d, h), x)
<1>1. PICK g : g = Delete(h, k)
  OBVIOUS
<1>2. k \in g.deleted /\ \A x : x # k => SameKey(g, h, x)
  BY <1>1, DeleteSays
<1>3. \A x : x # k => SameAt(Written(d, g), Written(d, h), x)
  BY <1>2, SameWritten
<1>4. ~Puts(g, k)
  BY <1>2 DEF Puts
<1>5. k \notin DOMAIN Written(d, g)
  BY <1>2, <1>4, WrittenFacts
<1> QED
  BY <1>1, <1>3, <1>5

\* A fresh handle changes nothing.
LEMMA NewWritten ==
    ASSUME Store # "map", NEW d, NEW k
    PROVE  SameAt(Written(d, NewHandle), d, k)
<1>1. NewHandle.cache = NoKeys /\ NewHandle.deleted = {}
  BY DEF NewHandle
<1>2. ~Puts(NewHandle, k)
  BY <1>1 DEF Puts, NoKeys
<1> QED
  BY <1>1, <1>2, WrittenFacts DEF SameAt

\* The links of the index entry of value v at snapshot s.
EntryOf(d, s, v) == IF IvKey(s, v) \in DOMAIN d THEN d[IvKey(s, v)] ELSE <<>>

\* A link key names a document and a version.
LinkKey == Id \X Sid

\* An entry is not taken for one that is not found.
LEMMA EntryIsThere ==
    ASSUME NEW l \in Seq(LinkKey)
    PROVE  l # None
<1>1. LinkKey \subseteq (1..MaxId) \X Nat
  BY ConstAssumption DEF LinkKey, Id, Sid
<1>2. l \in Seq((1..MaxId) \X Nat)
  BY <1>1, SeqMonotonic
<1> QED
  BY <1>2, ConstAssumption

\* addIndexValue.
LEMMA AddLink ==
    ASSUME Store # "map", NEW d, NEW h, IsHandle(h), h.sid \in Sid, NEW v, NEW i \in Id,
           NEW e, e = Written(d, h), EntryOf(e, h.sid, v) \in Seq(LinkKey)
    PROVE  LET f == Written(d, AddIndexValue(d, h, v, i)) IN
           /\ \A x : x # IvKey(h.sid, v) => SameAt(f, e, x)
           /\ EntryOf(f, h.sid, v) \in Seq(LinkKey)
           /\ Range(EntryOf(f, h.sid, v)) = Range(EntryOf(e, h.sid, v)) \union {<<i, h.sid>>}
<1>1. PICK k : k = IvKey(h.sid, v)
  OBVIOUS
<1>2. PICK got : got = Get(d, h, k)
  OBVIOUS
<1>3. PICK links : links = IF got = None THEN <<>> ELSE got
  OBVIOUS
<1>4. links = EntryOf(e, h.sid, v) /\ links \in Seq(LinkKey)
  <2>1. got = IF k \in DOMAIN e THEN e[k] ELSE None
    BY <1>2, GetWritten
  <2>2. k \in DOMAIN e => EntryOf(e, h.sid, v) = e[k]
    BY <1>1 DEF EntryOf
  <2>3. k \notin DOMAIN e => EntryOf(e, h.sid, v) = <<>>
    BY <1>1 DEF EntryOf
  <2>4. k \in DOMAIN e => e[k] # None
    BY <2>2, EntryIsThere
  <2> QED
    BY <1>3, <2>1, <2>2, <2>3, <2>4
<1>5. AddIndexValue(d, h, v, i) = IF <<i, h.sid>> \in Range(links) THEN h
                                  ELSE Put(h, k, Append(links, <<i, h.sid>>))
  BY <1>1, <1>2, <1>3, Zenon DEF AddIndexValue
<1>6. <<i, h.sid>> \in LinkKey
  BY DEF LinkKey
<1>7. CASE <<i, h.sid>> \in Range(links)
  <2>1. AddIndexValue(d, h, v, i) = h
    BY <1>5, <1>7
  <2>2. \A x : SameAt(e, e, x)
    BY DEF SameAt
  <2> QED
    BY <1>4, <1>7, <2>1, <2>2
<1>8. CASE <<i, h.sid>> \notin Range(links)
  <2>1. PICK more : more = Append(links, <<i, h.sid>>)
    OBVIOUS
  <2>2. AddIndexValue(d, h, v, i) = Put(h, k, more)
    BY <1>5, <1>8, <2>1
  <2>3. more \in Seq(LinkKey) /\ Range(more) = Range(links) \union {<<i, h.sid>>}
    <3>1. PICK l : l = <<i, h.sid>>
      OBVIOUS
    <3>2. Append(links, l) \in Seq(LinkKey) /\ Range(Append(links, l)) = Range(links) \union {l}
      BY <1>4, <1>6, <3>1, AppendRange
    <3> QED
      BY <2>1, <3>1, <3>2
  <2>4. PICK f : f = Written(d, Put(h, k, more))
    OBVIOUS
  <2>5. k \in DOMAIN f /\ f[k] = more /\ \A x : x # k => SameAt(f, e, x)
    BY <2>4, PutWritten
  <2>6. EntryOf(f, h.sid, v) = more
    BY <1>1, <2>5 DEF EntryOf
  <2>7. Written(d, AddIndexValue(d, h, v, i)) = f
    BY <2>2, <2>4, Zenon
  <2>8. \A x : x # IvKey(h.sid, v) => SameAt(f, e, x)
    BY <1>1, <2>5
  <2>9. EntryOf(f, h.sid, v) \in Seq(LinkKey)
        /\ Range(EntryOf(f, h.sid, v)) = Range(EntryOf(e, h.sid, v)) \union {<<i, h.sid>>}
    BY <1>4, <2>3, <2>6
  <2> QED
    BY <2>7, <2>8, <2>9, Zenon
<1> QED
  BY <1>7, <1>8

\* removeIndexValue, of an entry that is there.
LEMMA RemoveLink ==
    ASSUME Store # "map", NEW d, NEW h, IsHandle(h), NEW v, NEW link,
           NEW e, e = Written(d, h), IvKey(h.sid, v) \in DOMAIN e, e[IvKey(h.sid, v)] \in Seq(LinkKey),
           NEW got, got = RemoveIndexValue(d, h, v, link), NEW f, f = Written(d, got.h)
    PROVE  /\ got.r = "success"
           /\ \A x : x # IvKey(h.sid, v) => SameAt(f, e, x)
           /\ EntryOf(f, h.sid, v) \in Seq(LinkKey)
           /\ \A l : l \in Range(EntryOf(f, h.sid, v)) <=> l \in Range(EntryOf(e, h.sid, v)) /\ l # link
<1>1. PICK k : k = IvKey(h.sid, v)
  OBVIOUS
<1>2. PICK links : links = Get(d, h, k)
  OBVIOUS
<1>3. links = e[k] /\ links \in Seq(LinkKey) /\ links # None
  <2>1. links = e[k]
    BY <1>1, <1>2, GetWritten
  <2> QED
    BY <1>1, <2>1, EntryIsThere
<1>4. EntryOf(e, h.sid, v) = links
  BY <1>1, <1>3 DEF EntryOf
<1>5. PICK rest : rest = Only(links, Range(links) \ {link})
  OBVIOUS
<1>6. got = IF link \notin Range(links) THEN Result(h, "success")
            ELSE Result(IF rest = <<>> THEN Delete(h, k) ELSE Put(h, k, rest), "success")
  BY <1>1, <1>2, <1>3, <1>5, Zenon DEF RemoveIndexValue
<1> SUFFICES /\ got.r = "success"
             /\ \A x : x # k => SameAt(f, e, x)
             /\ EntryOf(f, h.sid, v) \in Seq(LinkKey)
             /\ Range(EntryOf(f, h.sid, v)) = Range(links) \ {link}
  BY <1>1, <1>4
<1>7. CASE link \notin Range(links)
  <2>1. got.r = "success" /\ got.h = h
    BY <1>6, <1>7, ResultParts
  <2>2. \A x : SameAt(e, e, x)
    BY DEF SameAt
  <2>3. f = e
    BY <2>1
  <2>4. Range(links) = Range(links) \ {link}
    BY <1>7
  <2> QED
    BY <1>3, <1>4, <2>1, <2>2, <2>3, <2>4, Zenon
<1>8. CASE link \in Range(links)
  <2>1. rest \in Seq(LinkKey \intersect (Range(links) \ {link})) /\ Range(rest) = Range(links) \ {link}
    <3>1. PICK S : S = Range(links) \ {link}
      OBVIOUS
    <3>2. Only(links, S) \in Seq(LinkKey \intersect S) /\ Range(Only(links, S)) = Range(links) \intersect S
      BY <1>3, OnlyFacts
    <3>3. Range(links) \intersect S = S
      BY <3>1
    <3> QED
      BY <1>5, <3>1, <3>2, <3>3
  <2>2. rest \in Seq(LinkKey)
    BY <2>1, SeqMonotonic
  <2>3. CASE rest = <<>>
    <3>1. got.r = "success" /\ got.h = Delete(h, k)
      BY <1>6, <1>8, <2>3, ResultParts
    <3>2. k \notin DOMAIN f /\ \A x : x # k => SameAt(f, e, x)
      BY <3>1, DeleteWritten
    <3>3. EntryOf(f, h.sid, v) = rest
      BY <1>1, <2>3, <3>2 DEF EntryOf
    <3> QED
      BY <2>1, <2>2, <3>1, <3>2, <3>3
  <2>4. CASE rest # <<>>
    <3>1. got.r = "success" /\ got.h = Put(h, k, rest)
      BY <1>6, <1>8, <2>4, ResultParts
    <3>2. k \in DOMAIN f /\ f[k] = rest /\ \A x : x # k => SameAt(f, e, x)
      BY <3>1, PutWritten
    <3>3. EntryOf(f, h.sid, v) = rest
      BY <1>1, <3>2 DEF EntryOf
    <3> QED
      BY <2>1, <2>2, <3>1, <3>2, <3>3
  <2> QED
    BY <2>3, <2>4
<1> QED
  BY <1>7, <1>8

\* It changes no other key.
LEMMA RemoveLinkOthers ==
    ASSUME Store # "map", NEW d, NEW h, IsHandle(h), NEW v, NEW link, NEW x, x # IvKey(h.sid, v)
    PROVE  SameAt(Written(d, RemoveIndexValue(d, h, v, link).h), Written(d, h), x)
<1>1. \/ RemoveIndexValue(d, h, v, link).h = h
      \/ RemoveIndexValue(d, h, v, link).h = Delete(h, IvKey(h.sid, v))
      \/ \E y : RemoveIndexValue(d, h, v, link).h = Put(h, IvKey(h.sid, v), y)
  BY DEF RemoveIndexValue, Result
<1>2. PICK k : k = IvKey(h.sid, v)
  OBVIOUS
<1>3. SameAt(Written(d, Delete(h, k)), Written(d, h), x)
  BY <1>2, DeleteWritten
<1>4. \A y : SameAt(Written(d, Put(h, k, y)), Written(d, h), x)
  BY <1>2, PutWritten
<1>5. SameAt(Written(d, h), Written(d, h), x)
  BY DEF SameAt
<1> QED
  BY <1>1, <1>2, <1>3, <1>4, <1>5

\* Of a document whose field holds one value, the link goes out of one entry.
LEMMA UnlinkedOne ==
    ASSUME NEW d, NEW h, NEW v, NEW link
    PROVE  Unlinked(d, h, <<v>>, link) = RemoveIndexValue(d, h, v, link)
<1> DEFINE after == CHOOSE f : IsUnlinking(f, d, h, <<v>>, link, 1)
<1>1. Unlinked(d, h, <<v>>, link) = after[1]
  <2>1. Len(<<v>>) = 1
    OBVIOUS
  <2> QED
    BY <2>1, Zenon DEF Unlinked, IsUnlinking
<1>2. IsUnlinking(after, d, h, <<v>>, link, 1)
  <2>1. \E f : IsUnlinking(f, d, h, <<v>>, link, 1)
    BY UnlinkingExists
  <2> QED
    BY <2>1, Zenon DEF after
<1> HIDE DEF after
<1>3. \A n \in 0..1 : after[n] = IF n = 0 THEN Result(h, "success")
                                 ELSE IF after[n - 1].r # "success" THEN after[n - 1]
                                 ELSE RemoveIndexValue(d, after[n - 1].h, <<v>>[n], link)
  BY <1>2 DEF IsUnlinking
<1>4. after[0] = Result(h, "success")
  <2>1. 0 \in 0..1
    OBVIOUS
  <2> QED
    BY <1>3, <2>1, Zenon
<1>5. after[1] = IF after[0].r # "success" THEN after[0] ELSE RemoveIndexValue(d, after[0].h, v, link)
  <2>1. 1 \in 0..1 /\ 1 # 0 /\ 1 - 1 = 0 /\ <<v>>[1] = v
    OBVIOUS
  <2> QED
    BY <1>3, <2>1, Zenon
<1>6. after[0].r = "success" /\ after[0].h = h
  BY <1>4, ResultParts
<1> QED
  BY <1>1, <1>5, <1>6, Zenon

\* From e to f nothing changes but the keys of document i at snapshot s and the
\* index entry of v there.
OthersSame(f, e, i, s, v) ==
    \A x : x \notin {StartKey(i), DocKey(i, s), IvKey(s, v)} => SameAt(f, e, x)

\* The index entry of v at snapshot s, if there is an index, has the links L.
EntryBecomes(f, e, s, v, L) ==
    IF indexed THEN EntryOf(f, s, v) \in Seq(LinkKey) /\ Range(EntryOf(f, s, v)) = L
               ELSE SameAt(f, e, IvKey(s, v))

\* From e to f document i came in as v, or it went with its link to version out.
Inserted(e, f, i, s, v) ==
    /\ IsDoc(f, i, s, v) /\ OthersSame(f, e, i, s, v)
    /\ EntryBecomes(f, e, s, v, Range(EntryOf(e, s, v)) \union {<<i, s>>})

Removed(e, f, i, s, v, out) ==
    /\ NoDoc(f, i, s) /\ OthersSame(f, e, i, s, v)
    /\ EntryBecomes(f, e, s, v, Range(EntryOf(e, s, v)) \ {<<i, out>>})

\* What holds the same as the same holds the same.
LEMMA SameAtAgain ==
    ASSUME NEW e, NEW f, NEW g, NEW k, SameAt(g, f, k), SameAt(f, e, k)
    PROVE  SameAt(g, e, k)
BY DEF SameAt

\* The observers of a handle are no part of what it writes.
LEMMA ObsWritten ==
    ASSUME NEW d, NEW h, IsHandle(h), NEW o
    PROVE  Written(d, [h EXCEPT !.obs = o]) = Written(d, h)
<1>1. PICK g : g = [h EXCEPT !.obs = o]
  OBVIOUS
<1>2. g.cache = h.cache /\ g.deleted = h.deleted
  BY <1>1, ObsSays
<1>3. Written(d, g) = Written(d, h)
  BY <1>2, Zenon DEF Written
<1> QED
  BY <1>1, <1>3

\* insert without overwrite works only when nothing was found.
LEMMA InsertOld ==
    ASSUME NEW d, NEW h, NEW i, NEW v, NEW ignore, GetJsonValue(d, i, h.sid) # None
    PROVE  Insert(d, h, i, v, FALSE, ignore).r # "success"
BY DEF Insert, Result

\* insert that fails changes nothing.
LEMMA InsertFails ==
    ASSUME NEW d, NEW h, NEW i, NEW v, NEW overwrite, NEW ignore,
           Insert(d, h, i, v, overwrite, ignore).r # "success"
    PROVE  Insert(d, h, i, v, overwrite, ignore).h = h
BY DEF Insert, Result

\* insert: the document is there, and linked if there is an index.
LEMMA InsertEffect ==
    ASSUME NEW d, NEW h, NEW i \in Id, NEW v, NEW overwrite, NEW ignore, NEW e, e = Written(d, h),
           NEW got, got = Insert(d, h, i, v, overwrite, ignore), NEW f, f = Written(d, got.h),
           Store # "map", IsHandle(h), h.sid \in Sid,
           indexed => EntryOf(e, h.sid, v) \in Seq(LinkKey), got.r = "success"
    PROVE  Inserted(e, f, i, h.sid, v)
<1> DEFINE old == GetJsonValue(d, i, h.sid)
           begun == Put(h, StartKey(i), Start)
           put == Put(begun, DocKey(i, h.sid), v)
           linked == IF indexed THEN AddIndexValue(d, put, v, i) ELSE put
           o == [n \in DOMAIN linked.obs |-> ObserveInsert(linked.obs[n], Doc(i, v), old # None)]
<1>1. \/ got = Result(h, "errorAlreadyExists")
      \/ got = Result(h, "errorObjectIsReadOnly")
      \/ got = Result([linked EXCEPT !.obs = o], "success")
  <2>1. CASE old # None /\ ~overwrite
    BY <2>1 DEF Insert
  <2>2. CASE ~(old # None /\ ~overwrite)
    BY <2>2, Zenon DEF Insert
  <2> QED
    BY <2>1, <2>2
<1> HIDE DEF old, o, linked
<1>2. CASE got = Result(h, "errorAlreadyExists") \/ got = Result(h, "errorObjectIsReadOnly")
  BY <1>2, ResultParts
<1>3. CASE got = Result([linked EXCEPT !.obs = o], "success")
  <2>1. PICK k1, k2, k3 : k1 = StartKey(i) /\ k2 = DocKey(i, h.sid) /\ k3 = IvKey(h.sid, v)
    OBVIOUS
  <2>2. k1 # k2 /\ k1 # k3 /\ k2 # k3
    BY <2>1, Keys
  <2>3. IsHandle(begun) /\ begun.sid = h.sid
    BY PutSays
  <2> HIDE DEF begun
  <2>4. IsHandle(put) /\ put.sid = h.sid
    BY <2>3, PutSays
  <2> HIDE DEF put
  <2>5. PICK e1 : e1 = Written(d, begun)
    OBVIOUS
  <2>6. k1 \in DOMAIN e1 /\ \A x : x # k1 => SameAt(e1, e, x)
    BY <2>1, <2>5, PutWritten DEF begun
  <2>7. PICK e2 : e2 = Written(d, put)
    OBVIOUS
  <2>8. k2 \in DOMAIN e2 /\ e2[k2] = v /\ \A x : x # k2 => SameAt(e2, e1, x)
    BY <2>1, <2>3, <2>5, <2>7, PutWritten DEF put
  <2>9. k1 \in DOMAIN e2 /\ k2 \in DOMAIN e2 /\ e2[k2] = v
        /\ \A x : x # k1 /\ x # k2 => SameAt(e2, e, x)
    BY <2>2, <2>6, <2>8 DEF SameAt
  <2>10. EntryOf(e2, h.sid, v) = EntryOf(e, h.sid, v)
    BY <2>1, <2>2, <2>9 DEF EntryOf, SameAt
  <2>11. PICK e3 : e3 = Written(d, linked)
    OBVIOUS
  <2>12. /\ IsHandle(linked)
         /\ \A x : x # k3 => SameAt(e3, e2, x)
         /\ EntryBecomes(e3, e, h.sid, v, Range(EntryOf(e, h.sid, v)) \union {<<i, h.sid>>})
    <3>1. CASE indexed
      <4>1. linked = AddIndexValue(d, put, v, i)
        BY <3>1 DEF linked
      <4>2. IsHandle(linked)
        BY <2>4, <4>1, IndexSameDocs DEF SameDocs
      <4>3. /\ \A x : x # IvKey(put.sid, v) => SameAt(e3, e2, x)
            /\ EntryOf(e3, put.sid, v) \in Seq(LinkKey)
            /\ Range(EntryOf(e3, put.sid, v)) = Range(EntryOf(e2, put.sid, v)) \union {<<i, put.sid>>}
        <5>1. EntryOf(e2, put.sid, v) \in Seq(LinkKey) /\ put.sid \in Sid
          BY <2>4, <2>10, <3>1
        <5> QED
          BY <2>4, <2>7, <2>11, <4>1, <5>1, AddLink
      <4> QED
        BY <2>1, <2>4, <2>10, <3>1, <4>2, <4>3 DEF EntryBecomes
    <3>2. CASE ~indexed
      <4>1. linked = put /\ e3 = e2
        BY <2>7, <2>11, <3>2 DEF linked
      <4>2. \A x : SameAt(e3, e2, x)
        BY <4>1 DEF SameAt
      <4>3. SameAt(e3, e, k3)
        BY <2>2, <2>9, <4>1
      <4> QED
        BY <2>1, <2>4, <3>2, <4>1, <4>2, <4>3 DEF EntryBecomes
    <3> QED
      BY <3>1, <3>2
  <2>13. f = e3
    <3>1. got.h = [linked EXCEPT !.obs = o]
      BY <1>3, ResultParts
    <3>2. Written(d, got.h) = Written(d, linked)
      BY <2>12, <3>1, ObsWritten
    <3> QED
      BY <2>11, <3>2
  <2>14. k1 \in DOMAIN f /\ k2 \in DOMAIN f /\ f[k2] = v
         /\ \A x : x \notin {k1, k2, k3} => SameAt(f, e, x)
    BY <2>2, <2>9, <2>12, <2>13 DEF SameAt
  <2>15. IsDoc(f, i, h.sid, v) /\ OthersSame(f, e, i, h.sid, v)
    BY <2>1, <2>14 DEF IsDoc, HasStart, OthersSame
  <2> QED
    BY <2>12, <2>13, <2>15 DEF Inserted
<1> QED
  BY <1>1, <1>2, <1>3

\* A handle with other observers.
WithObs(h, o) == [h EXCEPT !.obs = o]

\* The ways out of removeById.
RemovedKeys(d, h, i) ==
    IF OutSid(d, Land(d, i), h.sid) # h.sid \/ ~IsNaked(d, Land(d, i), h.sid)
    THEN Put(h, DocKey(i, h.sid), Tomb)
    ELSE Delete(Delete(h, DocKey(i, h.sid)), StartKey(i))

RemovedLink(d, h, i) ==
    IF indexed THEN Unlinked(d, RemovedKeys(d, h, i), Parts[GetJsonValue(d, i, h.sid)],
                             <<i, OutSid(d, Land(d, i), h.sid)>>)
               ELSE Result(RemovedKeys(d, h, i), "success")

\* removeById refuses, or takes the link out and tells the observers.
LEMMA RemoveWays ==
    ASSUME NEW d, NEW h, NEW i, NEW ignore
    PROVE  \/ RemoveById(d, h, i, ignore) = Result(h, "errorDatabase")
           \/ RemoveById(d, h, i, ignore) = Result(h, "errorObjectIsReadOnly")
           \/ /\ GetJsonValue(d, i, h.sid) # None
              /\ \/ RemovedLink(d, h, i).r # "success" /\ RemoveById(d, h, i, ignore) = RemovedLink(d, h, i)
                 \/ /\ RemovedLink(d, h, i).r = "success"
                    /\ \E o : RemoveById(d, h, i, ignore) = Result(WithObs(RemovedLink(d, h, i).h, o), "success")
<1> DEFINE o == [n \in DOMAIN RemovedLink(d, h, i).h.obs |->
                    ObserveRemove(RemovedLink(d, h, i).h.obs[n], Doc(Land(d, i), GetJsonValue(d, i, h.sid)))]
<1>1. CASE GetJsonValue(d, i, h.sid) = None
  BY <1>1 DEF RemoveById
<1>2. CASE GetJsonValue(d, i, h.sid) # None
  <2>1. \/ RemoveById(d, h, i, ignore) = Result(h, "errorObjectIsReadOnly")
        \/ RemovedLink(d, h, i).r # "success" /\ RemoveById(d, h, i, ignore) = RemovedLink(d, h, i)
        \/ /\ RemovedLink(d, h, i).r = "success"
           /\ RemoveById(d, h, i, ignore) = Result([RemovedLink(d, h, i).h EXCEPT !.obs = o], "success")
    BY <1>2, Zenon DEF RemoveById, RemovedLink, RemovedKeys
  <2> QED
    BY <1>2, <2>1, Zenon DEF WithObs
<1> QED
  BY <1>1, <1>2

\* removeById: the document is gone, and its link too if there is an index.
LEMMA RemoveEffectById ==
    ASSUME Store # "map", NEW d, NEW h, IsHandle(h), h.sid \in Sid, NEW i \in Id, NEW ignore,
           NEW e, e = Written(d, h), NEW v, v = GetJsonValue(d, i, h.sid),
           indexed => /\ v # None => /\ Parts[v] = <<v>> /\ IvKey(h.sid, v) \in DOMAIN e
                                     /\ e[IvKey(h.sid, v)] \in Seq(LinkKey),
           NEW got, got = RemoveById(d, h, i, ignore),
           NEW f, f = Written(d, got.h)
    PROVE  \/ got.h = h /\ got.r # "success"
           \/ /\ got.r = "success" /\ v # None
              /\ Removed(e, f, i, h.sid, v, OutSid(d, Land(d, i), h.sid))
<1> DEFINE out == OutSid(d, Land(d, i), h.sid)
           tomb == Put(h, DocKey(i, h.sid), Tomb)
           one == Delete(h, DocKey(i, h.sid))
           both == Delete(one, StartKey(i))
<1>1. PICK gone : gone = RemovedKeys(d, h, i)
  OBVIOUS
<1>2. PICK unlinked : unlinked = RemovedLink(d, h, i)
  OBVIOUS
<1>3. \/ got = Result(h, "errorDatabase")
      \/ got = Result(h, "errorObjectIsReadOnly")
      \/ v # None /\ unlinked.r # "success" /\ got = unlinked
      \/ v # None /\ unlinked.r = "success" /\ \E o : got = Result(WithObs(unlinked.h, o), "success")
  BY <1>2, RemoveWays
<1>4. CASE got = Result(h, "errorDatabase") \/ got = Result(h, "errorObjectIsReadOnly")
  BY <1>4, ResultParts
<1>5. CASE v # None /\ (\/ unlinked.r # "success" /\ got = unlinked
                        \/ unlinked.r = "success"
                           /\ \E o : got = Result(WithObs(unlinked.h, o), "success"))
  <2>1. PICK k1, k2, k3 : k1 = StartKey(i) /\ k2 = DocKey(i, h.sid) /\ k3 = IvKey(h.sid, v)
    OBVIOUS
  <2>2. k1 # k2 /\ k1 # k3 /\ k2 # k3
    BY <2>1, Keys
  <2>3. IsHandle(tomb) /\ tomb.sid = h.sid
    BY PutSays
  <2>4. k2 \in DOMAIN Written(d, tomb) /\ Written(d, tomb)[k2] = Tomb
        /\ \A x : x # k2 => SameAt(Written(d, tomb), e, x)
    BY <2>1, PutWritten
  <2>5. IsHandle(one) /\ one.sid = h.sid
    BY DeleteSays
  <2>6. \A x : x # k2 => SameAt(Written(d, one), e, x)
    BY <2>1, DeleteWritten
  <2> HIDE DEF one
  <2>7. IsHandle(both) /\ both.sid = h.sid
    BY <2>5, DeleteSays
  <2>8. k1 \notin DOMAIN Written(d, both) /\ \A x : x # k1 => SameAt(Written(d, both), Written(d, one), x)
    BY <2>1, <2>5, DeleteWritten
  <2> HIDE DEF tomb, both
  <2>9. IsHandle(gone) /\ gone.sid = h.sid
    BY <1>1, <2>3, <2>7 DEF RemovedKeys, both, one, tomb
  <2>10. PICK g : g = Written(d, gone)
    OBVIOUS
  <2>11. /\ k1 \notin DOMAIN g \/ (k2 \in DOMAIN g /\ g[k2] = Tomb)
         /\ \A x : x # k1 /\ x # k2 => SameAt(g, e, x)
    <3>1. gone = tomb \/ gone = both
      BY <1>1 DEF RemovedKeys, both, one, tomb
    <3>2. CASE gone = tomb
      BY <2>4, <2>10, <3>2
    <3>3. CASE gone = both
      <4>1. \A x : x # k1 /\ x # k2 => SameAt(Written(d, both), e, x)
        BY <2>6, <2>8 DEF SameAt
      <4> QED
        BY <2>8, <2>10, <3>3, <4>1
    <3> QED
      BY <3>2, <3>3, <3>1
  <2> HIDE DEF out
  <2>12. SameAt(g, e, k3) /\ EntryOf(g, h.sid, v) = EntryOf(e, h.sid, v)
    BY <2>1, <2>2, <2>11 DEF EntryOf, SameAt
  <2>13. PICK w : w = Written(d, unlinked.h)
    OBVIOUS
  <2>14. /\ unlinked.r = "success" /\ IsHandle(unlinked.h)
         /\ \A x : x # k3 => SameAt(w, g, x)
         /\ EntryBecomes(w, e, h.sid, v, Range(EntryOf(e, h.sid, v)) \ {<<i, out>>})
    <3>1. CASE indexed
      <4>1. unlinked = RemoveIndexValue(d, gone, v, <<i, out>>)
        BY <1>5, <1>1, <1>2, <3>1, UnlinkedOne DEF RemovedLink, out
      <4>2. IsHandle(unlinked.h)
        BY <2>9, <4>1, IndexSameDocs DEF SameDocs
      <4>3. k3 \in DOMAIN g /\ g[k3] \in Seq(LinkKey)
        BY <1>5, <2>1, <2>12, <3>1 DEF SameAt
      <4>4. /\ unlinked.r = "success"
            /\ \A x : x # IvKey(gone.sid, v) => SameAt(w, g, x)
            /\ EntryOf(w, gone.sid, v) \in Seq(LinkKey)
            /\ Range(EntryOf(w, gone.sid, v)) = Range(EntryOf(g, gone.sid, v)) \ {<<i, out>>}
        <5>1. IvKey(gone.sid, v) \in DOMAIN g /\ g[IvKey(gone.sid, v)] \in Seq(LinkKey)
          BY <2>1, <2>9, <4>3
        <5>2. PICK l : l = <<i, out>>
          OBVIOUS
        <5>3. PICK took : took = RemoveIndexValue(d, gone, v, l)
          OBVIOUS
        <5>4. unlinked = took
          BY <4>1, <5>2, <5>3
        <5>5. w = Written(d, took.h)
          BY <2>13, <5>4
        <5>6. took.r = "success"
          BY <2>9, <2>10, <5>1, <5>3, <5>5, RemoveLink
        <5>7. ASSUME NEW x, x # IvKey(gone.sid, v)
              PROVE  SameAt(w, g, x)
          BY <2>9, <2>10, <5>3, <5>5, <5>7, RemoveLinkOthers
        <5>8. EntryOf(w, gone.sid, v) \in Seq(LinkKey)
          BY <2>9, <2>10, <5>1, <5>3, <5>5, RemoveLink
        <5>9. \A y : y \in Range(EntryOf(w, gone.sid, v)) <=> y \in Range(EntryOf(g, gone.sid, v)) /\ y # l
          BY <2>9, <2>10, <5>1, <5>3, <5>5, RemoveLink
        <5>10. PICK A, B : A = Range(EntryOf(w, gone.sid, v)) /\ B = Range(EntryOf(g, gone.sid, v))
          OBVIOUS
        <5>11. A = B \ {l}
          <6>1. \A y : y \in A <=> y \in B /\ y # l
            BY <5>10, <5>9
          <6> QED
            BY <6>1
        <5> QED
          BY <5>2, <5>4, <5>6, <5>10, <5>11, <5>8, <5>7
      <4> QED
        BY <2>1, <2>9, <2>12, <3>1, <4>2, <4>4 DEF EntryBecomes
    <3>2. CASE ~indexed
      <4>1. unlinked = Result(gone, "success")
        BY <1>1, <1>2, <3>2 DEF RemovedLink
      <4>2. unlinked.h = gone /\ unlinked.r = "success" /\ w = g
        BY <2>10, <2>13, <4>1, ResultParts
      <4>3. \A x : SameAt(w, g, x)
        BY <4>2 DEF SameAt
      <4> QED
        BY <2>1, <2>9, <2>12, <3>2, <4>2, <4>3 DEF EntryBecomes
    <3> QED
      BY <3>1, <3>2
  <2>15. got.r = "success" /\ f = w
    <3>1. \A o : Written(d, WithObs(unlinked.h, o)) = w
      BY <2>13, <2>14, ObsWritten DEF WithObs
    <3> QED
      BY <1>5, <2>13, <2>14, <3>1, ResultParts
  <2>16. /\ k1 \notin DOMAIN f \/ (k2 \in DOMAIN f /\ f[k2] = Tomb)
         /\ \A x : x \notin {k1, k2, k3} => SameAt(f, e, x)
    BY <2>2, <2>11, <2>14, <2>15 DEF SameAt
  <2>17. NoDoc(f, i, h.sid) /\ OthersSame(f, e, i, h.sid, v)
    BY <2>1, <2>16 DEF NoDoc, HasStart, OthersSame
  <2> QED
    BY <1>5, <2>14, <2>15, <2>17 DEF out, Removed
<1> QED
  BY <1>3, <1>4, <1>5

-----------------------------------------------------------------------------
(* The index.                                                              *)

\* The version of document i that a reader at snapshot s finds.
Newest(d, i, s) == Max(UpTo(d, i, s))

\* The links that a reader at snapshot s should find for value v.
Links(d, s, v) == {<<i, Newest(d, i, s)>> : i \in {j \in Id : Value(d, j, s) = v}}

\* The entries of snapshot s hold these links and no others.
EntriesAt(d, s) ==
    \A v \in Val : EntryOf(d, s, v) \in Seq(LinkKey) /\ Range(EntryOf(d, s, v)) = Links(d, s, v)

\* x is the key of an index entry.
IsEntry(x) == x[1] = "iv"

\* There are entries for the snapshots up to top only, and they are right.
IndexOK(d, top) ==
    /\ \A x \in DOMAIN d : IsEntry(x) => \E s \in Sid, v \in Val : x = IvKey(s, v) /\ s <= top
    /\ \A s \in 0..top : EntriesAt(d, s)

\* What a link is.
LEMMA InLinks ==
    ASSUME NEW d, NEW s, NEW v, NEW l
    PROVE  l \in Links(d, s, v) <=> \E i \in Id : Value(d, i, s) = v /\ l = <<i, Newest(d, i, s)>>
BY DEF Links

\* The keys of entries and those of documents.
LEMMA EntryKeys ==
    ASSUME NEW i, NEW s, NEW v
    PROVE  /\ ~IsEntry(StartKey(i)) /\ ~IsEntry(DocKey(i, s)) /\ IsEntry(IvKey(s, v))
           /\ \A r, w : IvKey(s, v) = IvKey(r, w) => s = r /\ v = w
BY DEF IsEntry, StartKey, DocKey, IvKey

\* What a change of document i leaves alone.
LEMMA OthersRead ==
    ASSUME NEW e, NEW f, NEW i, NEW s, NEW v, OthersSame(f, e, i, s, v)
    PROVE  /\ \A j : j # i => SameDoc(f, e, j)
           /\ \A j, r : j # i => Value(f, j, r) = Value(e, j, r) /\ Newest(f, j, r) = Newest(e, j, r)
           /\ \A x : IsEntry(x) /\ x # IvKey(s, v) => SameAt(f, e, x)
<1>1. ASSUME NEW j, j # i
      PROVE  SameDoc(f, e, j)
  <2>1. StartKey(j) \notin {StartKey(i), DocKey(i, s), IvKey(s, v)}
    BY <1>1, Keys
  <2>2. \A r : DocKey(j, r) \notin {StartKey(i), DocKey(i, s), IvKey(s, v)}
    BY <1>1, Keys
  <2> QED
    BY <2>1, <2>2 DEF SameDoc, OthersSame
<1>2. ASSUME NEW j, NEW r, j # i
      PROVE  Value(f, j, r) = Value(e, j, r) /\ Newest(f, j, r) = Newest(e, j, r)
  <2>1. SameDoc(f, e, j)
    BY <1>1, <1>2
  <2>2. UpTo(f, j, r) = UpTo(e, j, r) /\ Value(f, j, r) = Value(e, j, r)
    BY <2>1, SameDocRead
  <2> QED
    BY <2>2, Zenon DEF Newest
<1>3. ASSUME NEW x, IsEntry(x), x # IvKey(s, v)
      PROVE  SameAt(f, e, x)
  <2>1. x # StartKey(i) /\ x # DocKey(i, s)
    BY <1>3, EntryKeys
  <2> QED
    BY <1>3, <2>1 DEF OthersSame
<1> QED
  BY <1>1, <1>2, <1>3

\* How the links change with one document.
LEMMA LinkChange ==
    ASSUME NEW e, NEW f, NEW i \in Id, NEW s, NEW w, NEW l,
           \A j : j # i => Value(f, j, s) = Value(e, j, s) /\ Newest(f, j, s) = Newest(e, j, s)
    PROVE  l \in Links(f, s, w) <=>
              \/ l \in Links(e, s, w) /\ l[1] # i
              \/ Value(f, i, s) = w /\ l = <<i, Newest(f, i, s)>>
<1>1. l \in Links(f, s, w) <=> \E j \in Id : Value(f, j, s) = w /\ l = <<j, Newest(f, j, s)>>
  BY InLinks
<1>2. l \in Links(e, s, w) <=> \E j \in Id : Value(e, j, s) = w /\ l = <<j, Newest(e, j, s)>>
  BY InLinks
<1>3. \A j, r : l = <<j, r>> => l[1] = j
  OBVIOUS
<1> QED
  BY <1>1, <1>2, <1>3

\* A handle at snapshot s on the store d would leave the store e with right
\* entries for its snapshot, and those of others as they are.
AtTop(d, e, s) ==
    /\ EntriesAt(e, s)
    /\ \A x : IsEntry(x) /\ ~(\E v \in Val : x = IvKey(s, v)) => SameAt(e, d, x)

\* Other entries than the one of v.
LEMMA OtherEntries ==
    ASSUME NEW d, NEW e, NEW f, NEW i \in Id, NEW s, NEW v \in Val,
           AtTop(d, e, s), OthersSame(f, e, i, s, v)
    PROVE  /\ \A x : IsEntry(x) /\ ~(\E w \in Val : x = IvKey(s, w)) => SameAt(f, d, x)
           /\ \A w \in Val : w # v => EntryOf(f, s, w) = EntryOf(e, s, w)
<1>1. \A x : IsEntry(x) /\ x # IvKey(s, v) => SameAt(f, e, x)
  BY OthersRead
<1>2. ASSUME NEW x, IsEntry(x), ~(\E w \in Val : x = IvKey(s, w))
      PROVE  SameAt(f, d, x)
  <2>1. SameAt(f, e, x) /\ SameAt(e, d, x)
    BY <1>1, <1>2 DEF AtTop
  <2> QED
    BY <2>1, SameAtAgain
<1>3. ASSUME NEW w \in Val, w # v
      PROVE  EntryOf(f, s, w) = EntryOf(e, s, w)
  <2>1. PICK k : k = IvKey(s, w)
    OBVIOUS
  <2>2. IsEntry(k) /\ k # IvKey(s, v)
    BY <1>3, <2>1, EntryKeys
  <2>3. SameAt(f, e, k)
    BY <1>1, <2>2
  <2> QED
    BY <2>1, <2>3 DEF EntryOf, SameAt
<1> QED
  BY <1>2, <1>3

\* insert of a document that was not there.
LEMMA InsertAtTop ==
    ASSUME NEW d, NEW e, NEW f, NEW i \in Id, NEW s \in Sid, NEW v \in Val,
           AtTop(d, e, s), Value(e, i, s) = None, Inserted(e, f, i, s, v), indexed
    PROVE  AtTop(d, f, s)
<1>1. /\ OthersSame(f, e, i, s, v) /\ IsDoc(f, i, s, v)
      /\ EntryBecomes(f, e, s, v, Range(EntryOf(e, s, v)) \union {<<i, s>>})
  BY DEF Inserted
<1>2. /\ \A x : IsEntry(x) /\ ~(\E w \in Val : x = IvKey(s, w)) => SameAt(f, d, x)
      /\ \A w \in Val : w # v => EntryOf(f, s, w) = EntryOf(e, s, w)
  BY <1>1, OtherEntries
<1>3. \A j : j # i => Value(f, j, s) = Value(e, j, s) /\ Newest(f, j, s) = Newest(e, j, s)
  BY <1>1, OthersRead
<1>4. Value(f, i, s) = v /\ Newest(f, i, s) = s
  BY <1>1, DocRead DEF Newest
<1>5. ASSUME NEW w \in Val, NEW l
      PROVE  l \in Links(f, s, w) <=> l \in Links(e, s, w) \/ (w = v /\ l = <<i, s>>)
  <2>1. l \in Links(f, s, w) <=>
              \/ l \in Links(e, s, w) /\ l[1] # i
              \/ Value(f, i, s) = w /\ l = <<i, Newest(f, i, s)>>
    BY <1>3, LinkChange
  <2>2. l \in Links(e, s, w) => l[1] # i
    <3>1. w # None
      BY ConstAssumption
    <3> QED
      BY <3>1, InLinks
  <2> QED
    BY <1>4, <2>1, <2>2
<1>6. ASSUME NEW w \in Val
      PROVE  EntryOf(f, s, w) \in Seq(LinkKey) /\ Range(EntryOf(f, s, w)) = Links(f, s, w)
  <2>1. EntryOf(e, s, w) \in Seq(LinkKey) /\ Range(EntryOf(e, s, w)) = Links(e, s, w)
    BY DEF AtTop, EntriesAt
  <2>2. CASE w = v
    <3>1. EntryOf(f, s, v) \in Seq(LinkKey) /\ Range(EntryOf(f, s, v)) = Range(EntryOf(e, s, v)) \union {<<i, s>>}
      BY <1>1 DEF EntryBecomes
    <3>2. \A l : l \in Range(EntryOf(f, s, v)) <=> l \in Links(f, s, v)
      BY <1>5, <2>1, <2>2, <3>1
    <3> QED
      BY <2>2, <3>1, <3>2
  <2>3. CASE w # v
    <3>1. EntryOf(f, s, w) = EntryOf(e, s, w)
      BY <1>2, <2>3
    <3>2. \A l : l \in Links(f, s, w) <=> l \in Links(e, s, w)
      BY <1>5, <2>3
    <3> QED
      BY <2>1, <3>1, <3>2
  <2> QED
    BY <2>2, <2>3
<1> QED
  BY <1>2, <1>6 DEF AtTop, EntriesAt

\* removeById, of a document that is there or of one that is not.
LEMMA RemoveAtTop ==
    ASSUME NEW d, NEW e, NEW f, NEW i \in Id, NEW s \in Sid, NEW v \in Val, NEW out,
           AtTop(d, e, s), Removed(e, f, i, s, v, out), indexed,
           Value(e, i, s) = None \/ (Value(e, i, s) = v /\ out = Newest(e, i, s))
    PROVE  AtTop(d, f, s)
<1>1. /\ OthersSame(f, e, i, s, v) /\ NoDoc(f, i, s)
      /\ EntryBecomes(f, e, s, v, Range(EntryOf(e, s, v)) \ {<<i, out>>})
  BY DEF Removed
<1>2. /\ \A x : IsEntry(x) /\ ~(\E w \in Val : x = IvKey(s, w)) => SameAt(f, d, x)
      /\ \A w \in Val : w # v => EntryOf(f, s, w) = EntryOf(e, s, w)
  BY <1>1, OtherEntries
<1>3. \A j : j # i => Value(f, j, s) = Value(e, j, s) /\ Newest(f, j, s) = Newest(e, j, s)
  BY <1>1, OthersRead
<1>4. Value(f, i, s) = None
  BY <1>1, DocRead
<1>5. ASSUME NEW w \in Val, NEW l
      PROVE  l \in Links(f, s, w) <=> l \in Links(e, s, w) /\ ~(w = v /\ l = <<i, out>>)
  <2>1. l \in Links(f, s, w) <=>
              \/ l \in Links(e, s, w) /\ l[1] # i
              \/ Value(f, i, s) = w /\ l = <<i, Newest(f, i, s)>>
    BY <1>3, LinkChange
  <2>2. l \in Links(e, s, w) => (l[1] = i <=> w = v /\ l = <<i, out>>)
    <3>1. w # None /\ v # None
      BY ConstAssumption
    <3>2. l \in Links(e, s, w) <=> \E j \in Id : Value(e, j, s) = w /\ l = <<j, Newest(e, j, s)>>
      BY InLinks
    <3>3. \A j, r : l = <<j, r>> => l[1] = j
      OBVIOUS
    <3> QED
      BY <3>1, <3>2, <3>3
  <2>3. Value(f, i, s) # w
    BY <1>4, ConstAssumption
  <2> QED
    BY <2>1, <2>2, <2>3
<1>6. ASSUME NEW w \in Val
      PROVE  EntryOf(f, s, w) \in Seq(LinkKey) /\ Range(EntryOf(f, s, w)) = Links(f, s, w)
  <2>1. EntryOf(e, s, w) \in Seq(LinkKey) /\ Range(EntryOf(e, s, w)) = Links(e, s, w)
    BY DEF AtTop, EntriesAt
  <2>2. CASE w = v
    <3>1. EntryOf(f, s, v) \in Seq(LinkKey) /\ Range(EntryOf(f, s, v)) = Range(EntryOf(e, s, v)) \ {<<i, out>>}
      BY <1>1 DEF EntryBecomes
    <3>2. \A l : l \in Range(EntryOf(f, s, v)) <=> l \in Links(f, s, v)
      BY <1>5, <2>1, <2>2, <3>1
    <3> QED
      BY <2>2, <3>1, <3>2
  <2>3. CASE w # v
    <3>1. EntryOf(f, s, w) = EntryOf(e, s, w)
      BY <1>2, <2>3
    <3>2. \A l : l \in Links(f, s, w) <=> l \in Links(e, s, w)
      BY <1>5, <2>3
    <3> QED
      BY <2>1, <3>1, <3>2
  <2> QED
    BY <2>2, <2>3
<1> QED
  BY <1>2, <1>6 DEF AtTop, EntriesAt

\* A search for a document with a start key lands on it.
LEMMA LandSelf ==
    ASSUME Store # "map", NEW d, NEW i \in Id, HasStart(d, i)
    PROVE  Land(d, i) = i
<1> DEFINE from == {j \in {k \in Id : k >= i} : HasStart(d, j) \/ Versions(d, j) # {}}
<1>1. Land(d, i) = IF from # {} /\ HasStart(d, Min(from)) THEN Min(from) ELSE None
  BY Zenon DEF Land
<1>2. from \in SUBSET Nat /\ i \in Nat
  BY ConstAssumption DEF Id
<1>3. i \in from /\ \A j \in from : j >= i
  BY <1>2
<1> HIDE DEF from
<1>4. Min(from) \in from /\ \A k \in from : Min(from) <= k
  BY <1>2, <1>3, MinFacts
<1>5. Min(from) = i
  <2>1. Min(from) \in Nat /\ Min(from) >= i /\ Min(from) <= i
    BY <1>2, <1>3, <1>4
  <2> QED
    BY <1>2, <2>1
<1> QED
  BY <1>1, <1>3, <1>5

\* Readers that see the same documents in the same versions see the same links.
LEMMA SameLinks ==
    ASSUME NEW d, NEW e, NEW r, NEW s, NEW v \in Val,
           \A i \in Id : /\ Value(e, i, s) = Value(d, i, r)
                         /\ Value(e, i, s) # None => Newest(e, i, s) = Newest(d, i, r)
    PROVE  Links(e, s, v) = Links(d, r, v)
<1>1. v # None
  BY ConstAssumption
<1>2. \A l : l \in Links(e, s, v) <=> \E i \in Id : Value(e, i, s) = v /\ l = <<i, Newest(e, i, s)>>
  BY InLinks
<1>3. \A l : l \in Links(d, r, v) <=> \E i \in Id : Value(d, i, r) = v /\ l = <<i, Newest(d, i, r)>>
  BY InLinks
<1>4. \A l : l \in Links(e, s, v) <=> l \in Links(d, r, v)
  BY <1>1, <1>2, <1>3
<1> QED
  BY <1>4

\* The same entry holds the same links.
LEMMA SameEntry ==
    ASSUME NEW d, NEW e, NEW s, NEW v, SameAt(e, d, IvKey(s, v))
    PROVE  EntryOf(e, s, v) = EntryOf(d, s, v)
BY DEF EntryOf, SameAt

\* Below the snapshot that was written the versions are what they were.
LEMMA WriteVersions ==
    ASSUME NEW d, NEW e, NEW sid \in Sid, DocWrite(d, e, sid), NEW i \in Id, NEW s \in Sid, s < sid
    PROVE  UpTo(e, i, s) = UpTo(d, i, s) /\ Newest(e, i, s) = Newest(d, i, s)
<1>1. \A r \in Sid : r <= s => r # sid
  BY ConstAssumption DEF Sid
<1>2. UpTo(e, i, s) = UpTo(d, i, s)
  BY <1>1 DEF UpTo, Versions, DocWrite
<1> QED
  BY <1>2, Zenon DEF Newest

\* The index of a store is right up to top, or there is none: ix tells which.
IdxAt(ix, d, top) ==
    IF ix THEN IndexOK(d, top) ELSE \A x \in DOMAIN d : ~IsEntry(x)

\* What a handle at snapshot s would leave of it.
TopOK(d, e, s) ==
    IF indexed THEN AtTop(d, e, s) ELSE \A x : IsEntry(x) => SameAt(e, d, x)

\* Entries that are right at the snapshot written are right at all of them.
LEMMA TopIndex ==
    ASSUME NEW d, NEW e, NEW sid \in Sid, StoreOK(d, sid), DocWrite(d, e, sid),
           IdxAt(indexed, d, sid), TopOK(d, e, sid)
    PROVE  IdxAt(indexed, e, sid)
<1>1. CASE indexed
  <2>1. IndexOK(d, sid) /\ AtTop(d, e, sid)
    BY <1>1 DEF IdxAt, TopOK
  <2>2. ASSUME NEW x \in DOMAIN e, IsEntry(x)
        PROVE  \E s \in Sid, v \in Val : x = IvKey(s, v) /\ s <= sid
    <3>1. CASE \E v \in Val : x = IvKey(sid, v)
      BY <3>1, ConstAssumption DEF Sid
    <3>2. CASE ~(\E v \in Val : x = IvKey(sid, v))
      <4>1. SameAt(e, d, x)
        BY <2>1, <2>2, <3>2 DEF AtTop
      <4>2. x \in DOMAIN d
        BY <2>2, <4>1 DEF SameAt
      <4> QED
        BY <2>1, <2>2, <4>2 DEF IndexOK
    <3> QED
      BY <3>1, <3>2
  <2>3. ASSUME NEW s \in 0..sid
        PROVE  EntriesAt(e, s)
    <3>1. CASE s = sid
      BY <2>1, <3>1 DEF AtTop
    <3>2. CASE s # sid
      <4>1. s \in Sid /\ s < sid
        BY <3>2, ConstAssumption DEF Sid
      <4>2. ASSUME NEW v \in Val
            PROVE  EntryOf(e, s, v) \in Seq(LinkKey) /\ Range(EntryOf(e, s, v)) = Links(e, s, v)
        <5>1. EntriesAt(d, s)
          BY <2>1 DEF IndexOK
        <5>2. PICK k : k = IvKey(s, v)
          OBVIOUS
        <5>3. IsEntry(k) /\ ~(\E w \in Val : k = IvKey(sid, w))
          BY <3>2, <5>2, EntryKeys
        <5>4. SameAt(e, d, k)
          BY <2>1, <5>3 DEF AtTop
        <5>5. EntryOf(e, s, v) = EntryOf(d, s, v)
          BY <5>2, <5>4, SameEntry
        <5>6. \A i \in Id : Value(e, i, s) = Value(d, i, s) /\ Newest(e, i, s) = Newest(d, i, s)
          BY <4>1, WriteViews, WriteVersions
        <5>7. Links(e, s, v) = Links(d, s, v)
          BY <5>6, SameLinks
        <5> QED
          BY <5>1, <5>5, <5>7 DEF EntriesAt
      <4> QED
        BY <4>2 DEF EntriesAt
    <3> QED
      BY <3>1, <3>2
  <2> QED
    BY <1>1, <2>2, <2>3 DEF IdxAt, IndexOK
<1>2. CASE ~indexed
  <2>1. \A x : IsEntry(x) => SameAt(e, d, x)
    BY <1>2 DEF TopOK
  <2> QED
    BY <1>2, <2>1 DEF IdxAt, SameAt
<1> QED
  BY <1>1, <1>2

\* A store that holds what d holds.
LEMMA SameIsTop ==
    ASSUME NEW d, NEW e, NEW s \in Nat, IdxAt(indexed, d, s), \A x : SameAt(e, d, x)
    PROVE  TopOK(d, e, s) /\ \A i : SameDoc(e, d, i)
<1>1. \A i : SameDoc(e, d, i)
  BY DEF SameDoc
<1>2. CASE indexed
  <2>1. EntriesAt(d, s)
    BY <1>2 DEF IdxAt, IndexOK
  <2>2. ASSUME NEW v \in Val
        PROVE  EntryOf(e, s, v) \in Seq(LinkKey) /\ Range(EntryOf(e, s, v)) = Links(e, s, v)
    <3>1. EntryOf(e, s, v) = EntryOf(d, s, v)
      BY SameEntry
    <3>2. \A i \in Id : UpTo(e, i, s) = UpTo(d, i, s) /\ Value(e, i, s) = Value(d, i, s)
      BY <1>1, SameDocRead
    <3>3. \A i \in Id : Newest(e, i, s) = Newest(d, i, s)
      BY <3>2, Zenon DEF Newest
    <3>4. Links(e, s, v) = Links(d, s, v)
      BY <3>2, <3>3, SameLinks
    <3> QED
      BY <2>1, <3>1, <3>4 DEF EntriesAt
  <2> QED
    BY <1>1, <1>2, <2>2 DEF TopOK, AtTop, EntriesAt
<1>3. CASE ~indexed
  BY <1>1, <1>3 DEF TopOK
<1> QED
  BY <1>2, <1>3

\* An operation of a handle on document i failed and wrote nothing, or the
\* document is v now and the index is right.
Stepped(d, e, f, sid, h, got, i, v) ==
    \/ got.h = h /\ got.r # "success"
    \/ /\ got.r = "success" /\ TopOK(d, f, sid) /\ Value(f, i, sid) = v
       /\ \A j : j # i => SameDoc(f, e, j)

\* insert, by a handle that leaves the index right: of a document that was
\* there only when there is no index.
LEMMA InsertStep ==
    ASSUME Store # "map", NEW d, NEW sid \in Sid, NEW h, HandleOK(d, sid, h),
           NEW i \in Id, NEW v \in Val, NEW overwrite, NEW ignore,
           NEW e, e = Written(d, h), TopOK(d, e, sid),
           NEW got, got = Insert(d, h, i, v, overwrite, ignore), NEW f, f = Written(d, got.h),
           indexed /\ got.r = "success" => GetJsonValue(d, i, sid) = None /\ SameDoc(e, d, i)
    PROVE  Stepped(d, e, f, sid, h, got, i, v)
<1>1. IsHandle(h) /\ h.sid = sid
  BY DEF HandleOK
<1>2. indexed => EntryOf(e, sid, v) \in Seq(LinkKey)
  BY DEF TopOK, AtTop, EntriesAt
<1>3. (got.h = h /\ got.r # "success") \/ (got.r = "success" /\ Inserted(e, f, i, h.sid, v))
  <2>1. h.sid \in Sid /\ (indexed => EntryOf(e, h.sid, v) \in Seq(LinkKey))
    BY <1>1, <1>2
  <2>2. got.r # "success" => got.h = h
    BY InsertFails
  <2>3. got.r = "success" => Inserted(e, f, i, h.sid, v)
    BY <1>1, <2>1, InsertEffect
  <2> QED
    BY <2>2, <2>3
<1>4. CASE got.h = h /\ got.r # "success"
  BY <1>4 DEF Stepped
<1>5. CASE got.r = "success" /\ Inserted(e, f, i, h.sid, v)
  <2>1. Inserted(e, f, i, sid, v)
    BY <1>1, <1>5
  <2>2. /\ IsDoc(f, i, sid, v) /\ OthersSame(f, e, i, sid, v)
        /\ EntryBecomes(f, e, sid, v, Range(EntryOf(e, sid, v)) \union {<<i, sid>>})
    BY <2>1 DEF Inserted
  <2>3. Value(f, i, sid) = v
    BY <2>2, DocRead
  <2>4. /\ \A j : j # i => SameDoc(f, e, j)
        /\ \A x : IsEntry(x) /\ x # IvKey(sid, v) => SameAt(f, e, x)
    BY <2>2, OthersRead
  <2>5. CASE indexed
    <3>1. GetJsonValue(d, i, sid) = None /\ SameDoc(e, d, i) /\ AtTop(d, e, sid)
      BY <1>5, <2>5 DEF TopOK
    <3>2. Value(d, i, sid) = None
      <4>1. CASE HasStart(d, i)
        <5>1. Land(d, i) = i /\ i # None
          BY <4>1, LandSelf, ConstAssumption DEF Id
        <5> QED
          BY <3>1, <5>1 DEF GetJsonValue
      <4>2. CASE ~HasStart(d, i)
        BY <4>2, Zenon DEF Value
      <4> QED
        BY <4>1, <4>2
    <3>3. Value(e, i, sid) = None
      BY <3>1, <3>2, SameDocRead
    <3>4. AtTop(d, f, sid)
      BY <2>1, <2>5, <3>1, <3>3, InsertAtTop
    <3>5. TopOK(d, f, sid)
      BY <2>5, <3>4 DEF TopOK
    <3> QED
      BY <1>5, <2>3, <2>4, <3>5 DEF Stepped
  <2>6. CASE ~indexed
    <3>1. SameAt(f, e, IvKey(sid, v))
      BY <2>2, <2>6 DEF EntryBecomes
    <3>2. ASSUME NEW x, IsEntry(x)
          PROVE  SameAt(f, d, x)
      <4>1. SameAt(f, e, x)
        BY <2>4, <3>1, <3>2
      <4>2. SameAt(e, d, x)
        BY <2>6, <3>2 DEF TopOK
      <4> QED
        BY <4>1, <4>2, SameAtAgain
    <3>3. TopOK(d, f, sid)
      BY <2>6, <3>2 DEF TopOK
    <3> QED
      BY <1>5, <2>3, <2>4, <3>3 DEF Stepped
  <2> QED
    BY <2>5, <2>6
<1> QED
  BY <1>3, <1>4, <1>5

\* The last version up to the current snapshot is the one that iterator::value
\* hands back.
LEMMA OutIsNewest ==
    ASSUME NEW d, NEW sid \in Sid, StoreOK(d, sid), NEW i \in Id
    PROVE  OutSid(d, i, sid) = Newest(d, i, sid)
<1>1. CASE sid \in Versions(d, i)
  BY <1>1, MaxUpTo DEF OutSid, Newest
<1>2. CASE sid \notin Versions(d, i)
  <2>1. UpTo(d, i, sid) = Versions(d, i)
    BY DEF UpTo, Versions, StoreOK
  <2> QED
    BY <1>2, <2>1, Zenon DEF OutSid, Newest
<1> QED
  BY <1>1, <1>2

\* A document that is there has a link.
LEMMA LinkThere ==
    ASSUME NEW e, NEW s, EntriesAt(e, s), NEW i \in Id, NEW v \in Val, Value(e, i, s) = v
    PROVE  IvKey(s, v) \in DOMAIN e /\ e[IvKey(s, v)] \in Seq(LinkKey)
<1>1. EntryOf(e, s, v) \in Seq(LinkKey) /\ Range(EntryOf(e, s, v)) = Links(e, s, v)
  BY DEF EntriesAt
<1>2. <<i, Newest(e, i, s)>> \in Links(e, s, v)
  BY InLinks
<1>3. Range(<<>>) = {}
  BY DEF Range
<1>4. IvKey(s, v) \in DOMAIN e
  BY <1>1, <1>2, <1>3 DEF EntryOf
<1> QED
  BY <1>1, <1>4 DEF EntryOf

\* removeById, by such a handle, of a document it has not touched.
LEMMA RemoveStep ==
    ASSUME Store # "map", indexed => \A w \in Val : Parts[w] = <<w>>,
           NEW d, NEW sid \in Sid, StoreOK(d, sid), NEW h, HandleOK(d, sid, h),
           NEW i \in Id, NEW ignore,
           NEW e, e = Written(d, h), TopOK(d, e, sid), SameDoc(e, d, i),
           Land(d, i) # None => SameDoc(e, d, Land(d, i)),
           NEW got, got = RemoveById(d, h, i, ignore), NEW f, f = Written(d, got.h)
    PROVE  Stepped(d, e, f, sid, h, got, i, None)
<1>1. IsHandle(h) /\ h.sid = sid
  BY DEF HandleOK
<1>2. PICK v : v = GetJsonValue(d, i, sid)
  OBVIOUS
<1>3. PICK j : j = Land(d, i)
  OBVIOUS
<1>4. ASSUME v # None
      PROVE  /\ j \in Id /\ v \in Val /\ Value(d, j, sid) = v /\ Value(e, j, sid) = v
             /\ j # i => ~HasStart(d, i)
  <2>1. j # None /\ v = Value(d, j, sid)
    BY <1>2, <1>3, <1>4 DEF GetJsonValue
  <2>2. j \in Id /\ (j # i => ~HasStart(d, i))
    BY <1>3, <2>1, LandFacts
  <2>3. v \in Val
    BY <1>4, <2>1, <2>2, ValueThere
  <2>4. Value(e, j, sid) = Value(d, j, sid)
    BY <1>3, <2>1, SameDocRead
  <2> QED
    BY <2>1, <2>2, <2>3, <2>4
<1>5. indexed => EntriesAt(e, sid)
  BY DEF TopOK, AtTop
<1>6. indexed => /\ v # None => /\ Parts[v] = <<v>> /\ IvKey(h.sid, v) \in DOMAIN e
                                /\ e[IvKey(h.sid, v)] \in Seq(LinkKey)
  BY <1>1, <1>4, <1>5, LinkThere
<1>7. PICK out : out = OutSid(d, Land(d, i), h.sid)
  OBVIOUS
<1>8. \/ got.h = h /\ got.r # "success"
      \/ got.r = "success" /\ v # None /\ Removed(e, f, i, h.sid, v, out)
  <2>1. h.sid \in Sid /\ v = GetJsonValue(d, i, h.sid)
    BY <1>1, <1>2
  <2> QED
    BY <1>1, <1>6, <1>7, <2>1, RemoveEffectById
<1>9. CASE got.h = h /\ got.r # "success"
  BY <1>9 DEF Stepped
<1>10. CASE got.r = "success" /\ v # None /\ Removed(e, f, i, h.sid, v, out)
  <2>1. out = OutSid(d, j, sid)
    BY <1>1, <1>3, <1>7
  <2>2. Removed(e, f, i, sid, v, out)
    BY <1>1, <1>10
  <2>3. /\ NoDoc(f, i, sid) /\ OthersSame(f, e, i, sid, v)
        /\ EntryBecomes(f, e, sid, v, Range(EntryOf(e, sid, v)) \ {<<i, out>>})
    BY <2>2 DEF Removed
  <2>4. Value(f, i, sid) = None
    BY <2>3, DocRead
  <2>5. /\ \A k : k # i => SameDoc(f, e, k)
         /\ \A x : IsEntry(x) /\ x # IvKey(sid, v) => SameAt(f, e, x)
    BY <2>3, OthersRead
  <2>6. CASE indexed
    <3>1. Value(e, i, sid) = None \/ (Value(e, i, sid) = v /\ out = Newest(e, i, sid))
      <4>1. CASE j = i
        <5>1. out = Newest(d, i, sid)
          BY <2>1, <4>1, OutIsNewest
        <5>2. UpTo(e, i, sid) = UpTo(d, i, sid)
          BY SameDocRead
        <5>3. Newest(e, i, sid) = Newest(d, i, sid)
          BY <5>2, Zenon DEF Newest
        <5> QED
          BY <1>4, <1>10, <4>1, <5>1, <5>3
      <4>2. CASE j # i
        <5>1. ~HasStart(e, i)
          BY <1>4, <1>10, <4>2, SameDocRead
        <5> QED
          BY <5>1, Zenon DEF Value
      <4> QED
        BY <4>1, <4>2
    <3>2. AtTop(d, f, sid)
      BY <1>4, <1>10, <2>2, <2>6, <3>1, RemoveAtTop DEF TopOK
    <3>3. TopOK(d, f, sid)
      BY <2>6, <3>2 DEF TopOK
    <3> QED
      BY <1>10, <2>4, <2>5, <3>3 DEF Stepped
  <2>7. CASE ~indexed
    <3>1. SameAt(f, e, IvKey(sid, v))
      BY <2>3, <2>7 DEF EntryBecomes
    <3>2. ASSUME NEW x, IsEntry(x)
          PROVE  SameAt(f, d, x)
      <4>1. SameAt(f, e, x)
        BY <2>5, <3>1, <3>2
      <4>2. SameAt(e, d, x)
        BY <2>7, <3>2 DEF TopOK
      <4> QED
        BY <4>1, <4>2, SameAtAgain
    <3>3. TopOK(d, f, sid)
      BY <2>7, <3>2 DEF TopOK
    <3> QED
      BY <1>10, <2>4, <2>5, <3>3 DEF Stepped
  <2> QED
    BY <2>6, <2>7
<1> QED
  BY <1>8, <1>9, <1>10

-----------------------------------------------------------------------------
(* remove, set and insert of several documents.                            *)

\* A document is the same in one store.
LEMMA SameDocSelf ==
    ASSUME NEW e, NEW i
    PROVE  SameDoc(e, e, i)
BY DEF SameDoc, SameAt

\* From e to f the documents of the list went, or some of them.
Went(f, e, docs, n, s) ==
    \A i : \/ SameDoc(f, e, i)
           \/ Value(f, i, s) = None /\ \E m \in 1..n : docs[m].id = i

AllWent(f, docs, n, s) == \A m \in 1..n : Value(f, docs[m].id, s) = None

\* removeById for one document after another: each of them is there and was not
\* touched before.
LEMMA RemoveEachTop ==
    ASSUME Store # "map", indexed => \A w \in Val : Parts[w] = <<w>>,
           NEW d, NEW sid \in Sid, StoreOK(d, sid), NEW acc, HandleOK(d, sid, acc.h), acc.r = "success",
           NEW e, e = Written(d, acc.h), TopOK(d, e, sid),
           NEW found, ~found.byLink, NEW T, NEW docs \in Seq(T), Distinct(docs),
           \A n \in DOMAIN docs : docs[n].id \in Id /\ HasStart(d, docs[n].id) /\ SameDoc(e, d, docs[n].id),
           NEW got, got = RemoveEach(d, acc, found, docs), NEW f, f = Written(d, got.h)
    PROVE  /\ TopOK(d, f, sid) /\ Went(f, e, docs, Len(docs), sid)
           /\ got.r = "success" => AllWent(f, docs, Len(docs), sid)
<1> DEFINE L == Len(docs)
           after == CHOOSE g : IsRemoving(g, d, acc, docs, L)
<1>1. got = after[L]
  BY Zenon DEF RemoveEach, IsRemoving
<1> HIDE DEF after
<1>2. L \in Nat /\ DOMAIN docs = 1..L
  BY LenProperties
<1>3. IsRemoving(after, d, acc, docs, L)
  <2>1. \E g : IsRemoving(g, d, acc, docs, L)
    BY <1>2, RemovingExists
  <2> QED
    BY <2>1, Zenon DEF after
<1> HIDE DEF L
<1>4. \A k \in 0..L : after[k] = IF k = 0 THEN acc
                                 ELSE IF after[k - 1].r # "success" THEN after[k - 1]
                                 ELSE RemoveById(d, after[k - 1].h, docs[k].id, FALSE)
  BY <1>3 DEF IsRemoving
<1> DEFINE Good(k) == /\ HandleOK(d, sid, after[k].h) /\ TopOK(d, Written(d, after[k].h), sid)
                      /\ Went(Written(d, after[k].h), e, docs, k, sid)
                      /\ after[k].r = "success" => AllWent(Written(d, after[k].h), docs, k, sid)
           Bad == {k \in 0..L : ~Good(k)}
<1> HIDE DEF Good
<1>5. Bad = {}
  <2> SUFFICES ASSUME Bad # {} PROVE FALSE
    OBVIOUS
  <2>1. PICK k \in Bad : \A m \in Bad : k <= m
    <3>1. Bad \in SUBSET Nat
      BY <1>2
    <3> HIDE DEF Bad
    <3> QED
      BY <3>1, LeastExists
  <2>2. k \in 0..L /\ ~Good(k)
    BY <2>1
  <2>3. k # 0
    <3>1. 0 \in 0..L
      BY <1>2
    <3>2. after[0] = acc
      BY <1>4, <3>1, Zenon
    <3>3. Went(e, e, docs, 0, sid) /\ AllWent(e, docs, 0, sid)
      BY SameDocSelf DEF Went, AllWent
    <3>4. Written(d, after[0].h) = e
      BY <3>2
    <3>5. Good(0)
      BY <3>2, <3>3, <3>4, Zenon DEF Good
    <3> QED
      BY <2>2, <3>5
  <2>4. k - 1 \in 0..L /\ k - 1 < k /\ k \in 1..L /\ k \in Nat
    BY <1>2, <2>2, <2>3
  <2>5. Good(k - 1)
    BY <2>1, <2>4
  <2>6. PICK h, g, r : h = after[k - 1].h /\ g = Written(d, h) /\ r = after[k - 1].r
    OBVIOUS
  <2>7. /\ HandleOK(d, sid, h) /\ TopOK(d, g, sid) /\ Went(g, e, docs, k - 1, sid)
        /\ r = "success" => AllWent(g, docs, k - 1, sid)
    BY <2>5, <2>6 DEF Good
  <2>8. Went(g, e, docs, k, sid)
    BY <2>4, <2>7 DEF Went
  <2>9. CASE r # "success"
    <3>1. after[k] = after[k - 1]
      BY <1>4, <2>2, <2>3, <2>6, <2>9
    <3>2. Good(k)
      BY <2>6, <2>7, <2>8, <2>9, <3>1 DEF Good
    <3> QED
      BY <2>2, <3>2
  <2>10. CASE r = "success"
    <3>1. PICK i : i = docs[k].id
      OBVIOUS
    <3>2. PICK step : step = RemoveById(d, h, i, FALSE)
      OBVIOUS
    <3>3. after[k] = step
      BY <1>4, <2>2, <2>3, <2>6, <2>10, <3>1, <3>2
    <3>4. PICK w : w = Written(d, step.h)
      OBVIOUS
    <3>5. i \in Id /\ HasStart(d, i) /\ SameDoc(e, d, i)
      BY <1>2, <2>4, <3>1
    <3>6. \A m \in 1..(k - 1) : docs[m].id # i
      BY <1>2, <2>4, <3>1 DEF Distinct
    <3>7. SameDoc(g, d, i)
      <4>1. SameDoc(g, e, i)
        BY <2>7, <3>6 DEF Went
      <4> QED
        BY <3>5, <4>1, SameDocAgain
    <3>8. Land(d, i) # None => SameDoc(g, d, Land(d, i))
      BY <3>5, <3>7, LandSelf
    <3>9. PICK ignore : ignore = FALSE
      OBVIOUS
    <3>10. step = RemoveById(d, h, i, ignore)
      BY <3>2, <3>9
    <3>11. HandleOK(d, sid, h) /\ TopOK(d, g, sid) /\ g = Written(d, h)
      BY <2>6, <2>7
    <3>12. Stepped(d, g, w, sid, h, step, i, None)
      BY <3>4, <3>5, <3>7, <3>8, <3>10, <3>11, RemoveStep
    <3>13. HandleOK(d, sid, step.h)
      BY <2>7, <3>2, <3>5, RemoveHandle
    <3>14. CASE step.h = h /\ step.r # "success"
      <4>1. Good(k)
        BY <2>6, <2>7, <2>8, <3>3, <3>14 DEF Good
      <4> QED
        BY <2>2, <4>1
    <3>15. CASE /\ step.r = "success" /\ TopOK(d, w, sid) /\ Value(w, i, sid) = None
                /\ \A j : j # i => SameDoc(w, g, j)
      <4>1. Went(w, e, docs, k, sid)
        <5> SUFFICES ASSUME NEW j
                     PROVE  \/ SameDoc(w, e, j)
                            \/ Value(w, j, sid) = None /\ \E m \in 1..k : docs[m].id = j
          BY DEF Went
        <5>1. CASE j = i
          BY <2>4, <3>1, <3>15, <5>1
        <5>2. CASE j # i
          <6>1. SameDoc(w, g, j) /\ Value(w, j, sid) = Value(g, j, sid)
            BY <3>15, <5>2, SameDocRead
          <6>2. \/ SameDoc(g, e, j)
                \/ Value(g, j, sid) = None /\ \E m \in 1..k : docs[m].id = j
            BY <2>8 DEF Went
          <6> QED
            BY <6>1, <6>2, SameDocAgain
        <5> QED
          BY <5>1, <5>2
      <4>2. AllWent(w, docs, k, sid)
        <5> SUFFICES ASSUME NEW m \in 1..k
                     PROVE  Value(w, docs[m].id, sid) = None
          BY DEF AllWent
        <5>1. CASE m = k
          BY <3>1, <3>15, <5>1
        <5>2. CASE m # k
          <6>1. m \in 1..(k - 1)
            BY <2>4, <5>2
          <6>2. docs[m].id # i /\ Value(g, docs[m].id, sid) = None
            BY <2>7, <2>10, <3>6, <6>1 DEF AllWent
          <6>3. SameDoc(w, g, docs[m].id)
            BY <3>15, <6>2
          <6> QED
            BY <6>2, <6>3, SameDocRead
        <5> QED
          BY <5>1, <5>2
      <4>3. Good(k)
        BY <3>3, <3>4, <3>13, <3>15, <4>1, <4>2 DEF Good
      <4> QED
        BY <2>2, <4>3
    <3> QED
      BY <3>12, <3>14, <3>15 DEF Stepped
  <2> QED
    BY <2>9, <2>10
<1>6. Good(L)
  BY <1>2, <1>5
<1>7. f = Written(d, after[L].h)
  BY <1>1
<1> QED
  BY <1>1, <1>6, <1>7, Zenon DEF Good, L

\* From e to f documents of the list came, or some of them.
Came(f, e, docs, n, s) ==
    \A i : \/ SameDoc(f, e, i)
           \/ \E m \in 1..n : docs[m].id = i /\ Value(f, i, s) = docs[m].f

AllCame(f, docs, n, s) == \A m \in 1..n : Value(f, docs[m].id, s) = docs[m].f

\* insert for one document after another, without an index.
LEMMA InsertEachTop ==
    ASSUME Store # "map", ~indexed, NEW d, NEW sid \in Sid, NEW h, HandleOK(d, sid, h),
           NEW e, e = Written(d, h), TopOK(d, e, sid),
           NEW T, \A x \in T : x.id \in Id /\ x.f \in Val, NEW docs \in Seq(T),
           NEW got, got = InsertEach(d, h, docs), NEW f, f = Written(d, got.h)
    PROVE  /\ TopOK(d, f, sid) /\ Came(f, e, docs, Len(docs), sid)
           /\ got.r = "success" /\ Distinct(docs) => AllCame(f, docs, Len(docs), sid)
<1> DEFINE L == Len(docs)
           after == CHOOSE g : IsInserting(g, d, h, docs, L)
<1>1. got = after[L]
  BY Zenon DEF InsertEach, IsInserting
<1> HIDE DEF after
<1>2. L \in Nat /\ DOMAIN docs = 1..L /\ \A k \in 1..L : docs[k] \in T
  BY LenProperties, ElementOfSeq
<1>3. IsInserting(after, d, h, docs, L)
  <2>1. \E g : IsInserting(g, d, h, docs, L)
    BY <1>2, InsertingExists
  <2> QED
    BY <2>1, Zenon DEF after
<1> HIDE DEF L
<1>4. \A k \in 0..L : after[k] = IF k = 0 THEN Result(h, "success")
                                 ELSE IF after[k - 1].r # "success" THEN after[k - 1]
                                 ELSE Insert(d, after[k - 1].h, docs[k].id, docs[k].f, TRUE, FALSE)
  BY <1>3 DEF IsInserting
<1> DEFINE Good(k) == /\ HandleOK(d, sid, after[k].h) /\ TopOK(d, Written(d, after[k].h), sid)
                      /\ Came(Written(d, after[k].h), e, docs, k, sid)
                      /\ after[k].r = "success" /\ Distinct(docs) =>
                            AllCame(Written(d, after[k].h), docs, k, sid)
           Bad == {k \in 0..L : ~Good(k)}
<1> HIDE DEF Good
<1>5. Bad = {}
  <2> SUFFICES ASSUME Bad # {} PROVE FALSE
    OBVIOUS
  <2>1. PICK k \in Bad : \A m \in Bad : k <= m
    <3>1. Bad \in SUBSET Nat
      BY <1>2
    <3> HIDE DEF Bad
    <3> QED
      BY <3>1, LeastExists
  <2>2. k \in 0..L /\ ~Good(k)
    BY <2>1
  <2>3. k # 0
    <3>1. 0 \in 0..L
      BY <1>2
    <3>2. after[0] = Result(h, "success")
      BY <1>4, <3>1, Zenon
    <3>3. after[0].h = h
      BY <3>2, ResultParts
    <3>4. Came(e, e, docs, 0, sid) /\ AllCame(e, docs, 0, sid)
      BY SameDocSelf DEF Came, AllCame
    <3>5. Written(d, after[0].h) = e
      BY <3>3
    <3>6. HandleOK(d, sid, after[0].h) /\ TopOK(d, Written(d, after[0].h), sid)
      BY <3>3, <3>5
    <3>7. Came(Written(d, after[0].h), e, docs, 0, sid) /\ AllCame(Written(d, after[0].h), docs, 0, sid)
      BY <3>4, <3>5
    <3>8. Good(0)
      BY <3>6, <3>7 DEF Good
    <3> QED
      BY <2>2, <3>8
  <2>4. k - 1 \in 0..L /\ k - 1 < k /\ k \in 1..L /\ k \in Nat
    BY <1>2, <2>2, <2>3
  <2>5. Good(k - 1)
    BY <2>1, <2>4
  <2>6. PICK p, g, r : p = after[k - 1].h /\ g = Written(d, p) /\ r = after[k - 1].r
    OBVIOUS
  <2>7. /\ HandleOK(d, sid, p) /\ TopOK(d, g, sid) /\ Came(g, e, docs, k - 1, sid)
        /\ r = "success" /\ Distinct(docs) => AllCame(g, docs, k - 1, sid)
    BY <2>5, <2>6 DEF Good
  <2>8. Came(g, e, docs, k, sid)
    BY <2>4, <2>7 DEF Came
  <2>9. CASE r # "success"
    <3>1. after[k] = after[k - 1]
      BY <1>4, <2>2, <2>3, <2>6, <2>9
    <3>2. Good(k)
      BY <2>6, <2>7, <2>8, <2>9, <3>1 DEF Good
    <3> QED
      BY <2>2, <3>2
  <2>10. CASE r = "success"
    <3>1. PICK i, v : i = docs[k].id /\ v = docs[k].f
      OBVIOUS
    <3>2. PICK overwrite, ignore : overwrite = TRUE /\ ignore = FALSE
      OBVIOUS
    <3>3. PICK step : step = Insert(d, p, i, v, overwrite, ignore)
      OBVIOUS
    <3>4. after[k] = step
      <4>1. after[k] = Insert(d, p, i, v, TRUE, FALSE)
        BY <1>4, <2>2, <2>3, <2>6, <2>10, <3>1
      <4> QED
        BY <3>2, <3>3, <4>1
    <3>5. PICK w : w = Written(d, step.h)
      OBVIOUS
    <3>6. i \in Id /\ v \in Val
      BY <1>2, <2>4, <3>1
    <3>7. HandleOK(d, sid, p) /\ TopOK(d, g, sid) /\ g = Written(d, p)
      BY <2>6, <2>7
    <3>8. Stepped(d, g, w, sid, p, step, i, v)
      BY <3>3, <3>5, <3>6, <3>7, InsertStep
    <3>9. HandleOK(d, sid, step.h)
      BY <3>3, <3>6, <3>7, InsertHandle
    <3>10. CASE step.h = p /\ step.r # "success"
      <4>1. Good(k)
        BY <2>6, <2>7, <2>8, <3>4, <3>10 DEF Good
      <4> QED
        BY <2>2, <4>1
    <3>11. CASE /\ step.r = "success" /\ TopOK(d, w, sid) /\ Value(w, i, sid) = v
                /\ \A j : j # i => SameDoc(w, g, j)
      <4>1. Came(w, e, docs, k, sid)
        <5> SUFFICES ASSUME NEW j
                     PROVE  \/ SameDoc(w, e, j)
                            \/ \E m \in 1..k : docs[m].id = j /\ Value(w, j, sid) = docs[m].f
          BY DEF Came
        <5>1. CASE j = i
          BY <2>4, <3>1, <3>11, <5>1
        <5>2. CASE j # i
          <6>1. SameDoc(w, g, j) /\ Value(w, j, sid) = Value(g, j, sid)
            BY <3>11, <5>2, SameDocRead
          <6>2. \/ SameDoc(g, e, j)
                \/ \E m \in 1..k : docs[m].id = j /\ Value(g, j, sid) = docs[m].f
            BY <2>8 DEF Came
          <6> QED
            BY <6>1, <6>2, SameDocAgain
        <5> QED
          BY <5>1, <5>2
      <4>2. ASSUME Distinct(docs)
            PROVE  AllCame(w, docs, k, sid)
        <5> SUFFICES ASSUME NEW m \in 1..k
                     PROVE  Value(w, docs[m].id, sid) = docs[m].f
          BY DEF AllCame
        <5>1. CASE m = k
          BY <3>1, <3>11, <5>1
        <5>2. CASE m # k
          <6>1. m \in 1..(k - 1) /\ m \in DOMAIN docs /\ k \in DOMAIN docs
            BY <1>2, <2>4, <5>2
          <6>2. docs[m].id # i
            BY <3>1, <4>2, <5>2, <6>1 DEF Distinct
          <6>3. Value(g, docs[m].id, sid) = docs[m].f
            BY <2>7, <2>10, <4>2, <6>1 DEF AllCame
          <6>4. SameDoc(w, g, docs[m].id)
            BY <3>11, <6>2
          <6> QED
            BY <6>3, <6>4, SameDocRead
        <5> QED
          BY <5>1, <5>2
      <4>3. Good(k)
        BY <3>4, <3>5, <3>9, <3>11, <4>1, <4>2 DEF Good
      <4> QED
        BY <2>2, <4>3
    <3> QED
      BY <3>8, <3>10, <3>11 DEF Stepped
  <2> QED
    BY <2>9, <2>10
<1>6. Good(L)
  BY <1>2, <1>5
<1>7. f = Written(d, after[L].h)
  BY <1>1
<1> QED
  BY <1>1, <1>6, <1>7, Zenon DEF Good, L

-----------------------------------------------------------------------------
(* A find through the index.                                               *)

\* A read of a fresh handle.
LEMMA NewGet ==
    ASSUME NEW d, NEW k
    PROVE  Get(d, NewHandle, k) = IF k \in DOMAIN d THEN d[k] ELSE None
<1>1. NewHandle.cache = NoKeys /\ NewHandle.deleted = {}
  BY DEF NewHandle
<1> QED
  BY <1>1, Zenon DEF Get, NoKeys

\* What a find through link keys returns.
LEMMA LinkedRange ==
    ASSUME NEW d, NEW h, NEW q, NEW links \in Seq(LinkKey), NEW x
    PROVE  x \in Range(Linked(d, h, q, links)) <=>
              /\ \E l \in Range(links) : x = Doc(l[1], Get(d, h, DocKey(l[1], l[2])))
              /\ x.f \notin {None, Tomb} /\ Matches(q, x)
<1> DEFINE Read(l) == Doc(l[1], Get(d, h, DocKey(l[1], l[2])))
           read == [n \in DOMAIN links |-> Read(links[n])]
           S == {e \in Range(read) : e.f \notin {None, Tomb} /\ Matches(q, e)}
<1>1. Linked(d, h, q, links) = Only(read, S)
  BY Zenon DEF Linked
<1>2. Len(links) \in Nat /\ DOMAIN links = 1..Len(links)
  BY LenProperties
<1> DEFINE T == Range(read)
<1>3. DOMAIN read = DOMAIN links /\ \A n \in DOMAIN links : read[n] = Read(links[n])
  BY Zenon
<1>4. read = [n \in 1..Len(links) |-> read[n]]
  BY <1>2
<1> HIDE DEF read, Read
<1>5. \A n \in DOMAIN read : read[n] \in T
  BY DEF Range
<1> HIDE DEF T, S
<1>6. read \in Seq(T)
  BY <1>2, <1>3, <1>4, <1>5
<1>7. Range(Only(read, S)) = Range(read) \intersect S
  BY <1>6, OnlyFacts
<1>8. x \in Range(read) <=> \E l \in Range(links) : x = Read(l)
  BY <1>3 DEF Range
<1> QED
  BY <1>1, <1>7, <1>8 DEF S, Read

\* What a field query asks of a document with one value.
LEMMA FieldMatches ==
    ASSUME \A w \in Val : Parts[w] = <<w>>, NEW v, NEW i, NEW w \in Val
    PROVE  Matches(ByField(v), Doc(i, w)) <=> w = v
<1>1. Parts[w] = <<w>>
  OBVIOUS
<1>2. Range(Parts[w]) = {w}
  BY <1>1 DEF Range
<1>3. ByField(v).kind = "f" /\ ByField(v).f = v /\ Doc(i, w).f = w
  BY DEF ByField, Doc
<1> QED
  BY <1>2, <1>3 DEF Matches

\* A right index answers as a full search does.
LEMMA FindSame ==
    ASSUME NEW d, snapshotId \in Sid, StoreOK(d, snapshotId), IdxAt(indexed, d, snapshotId),
           indexed => \A w \in Val : Parts[w] = <<w>>, NEW q, Plain(q)
    PROVE  Range(Find(d, NewHandle, q, None).reply) = Range(FullSearch(d, snapshotId, q))
<1>1. NewHandle.sid = snapshotId
  BY DEF NewHandle
<1>2. CASE ~(q.kind = "f" /\ indexed)
  <2>1. q.kind # "id"
    BY DEF Plain, All, ByField
  <2>2. Find(d, NewHandle, q, None).reply = ApplyOptions(FullSearch(d, snapshotId, q), None)
    BY <1>1, <1>2, <2>1 DEF Find
  <2> QED
    BY <2>2, Zenon DEF ApplyOptions
<1>3. CASE q.kind = "f" /\ indexed
  <2>1. PICK v \in Val : q = ByField(v)
    BY <1>3 DEF Plain, All
  <2>2. q.f = v /\ q.kind = "f"
    BY <2>1 DEF ByField
  <2>3. PICK k : k = IvKey(snapshotId, v)
    OBVIOUS
  <2>4. EntryOf(d, snapshotId, v) \in Seq(LinkKey)
        /\ Range(EntryOf(d, snapshotId, v)) = Links(d, snapshotId, v)
    <3>1. snapshotId \in 0..snapshotId
      BY ConstAssumption DEF Sid
    <3> QED
      BY <1>3, <3>1 DEF IdxAt, IndexOK, EntriesAt
  <2>5. PICK links : links = Get(d, NewHandle, IvKey(NewHandle.sid, q.f))
    OBVIOUS
  <2>6. links = IF k \in DOMAIN d THEN d[k] ELSE None
    BY <1>1, <2>2, <2>3, <2>5, NewGet
  <2>7. Find(d, NewHandle, q, None).reply =
            IF links = None THEN <<>> ELSE Linked(d, NewHandle, q, links)
    BY <1>3, <2>2, <2>5 DEF Find
  <2>8. ASSUME NEW x
        PROVE  x \in Range(FullSearch(d, snapshotId, q)) <=>
                  \E i \in Id : x = Doc(i, v) /\ Value(d, i, snapshotId) = v
    <3>1. ASSUME NEW i \in Id, Value(d, i, snapshotId) # None
          PROVE  Matches(q, Doc(i, Value(d, i, snapshotId))) <=> Value(d, i, snapshotId) = v
      <4>1. Value(d, i, snapshotId) \in Val
        BY <3>1, ValueThere
      <4> QED
        BY <1>3, <2>1, <4>1, FieldMatches
    <3>2. v # None
      BY ConstAssumption
    <3>3. x \in Range(FullSearch(d, snapshotId, q)) <=>
              \E i \in Id : x = Doc(i, Value(d, i, snapshotId)) /\ Value(d, i, snapshotId) # None /\ Matches(q, x)
      BY SearchRange
    <3> QED
      BY <3>1, <3>2, <3>3
  <2>9. CASE k \in DOMAIN d
    <3>1. links = d[k] /\ links = EntryOf(d, snapshotId, v)
      BY <2>3, <2>6, <2>9 DEF EntryOf
    <3>2. links \in Seq(LinkKey) /\ links # None
      BY <2>4, <3>1, EntryIsThere
    <3>3. ASSUME NEW i \in Id, Value(d, i, snapshotId) = v
          PROVE  Get(d, NewHandle, DocKey(i, Newest(d, i, snapshotId))) = v
      <4>1. v # None
        BY ConstAssumption
      <4>2. PICK m : m = Newest(d, i, snapshotId)
        OBVIOUS
      <4>3. UpTo(d, i, snapshotId) # {} /\ v = d[DocKey(i, Max(UpTo(d, i, snapshotId)))]
        BY <3>3, <4>1, ValueThere
      <4>4. m = Max(UpTo(d, i, snapshotId))
        BY <4>2, Zenon DEF Newest
      <4>5. m \in UpTo(d, i, snapshotId)
        BY <4>3, <4>4, UpToMax
      <4>6. DocKey(i, m) \in DOMAIN d /\ d[DocKey(i, m)] = v
        BY <4>3, <4>4, <4>5 DEF UpTo, Versions
      <4> QED
        BY <4>2, <4>6, NewGet
    <3>4. ASSUME NEW x
          PROVE  (\E l \in Range(links) : x = Doc(l[1], Get(d, NewHandle, DocKey(l[1], l[2])))) <=>
                     \E i \in Id : x = Doc(i, v) /\ Value(d, i, snapshotId) = v
      <4>1. \A l : l \in Range(links) <=>
                \E i \in Id : Value(d, i, snapshotId) = v /\ l = <<i, Newest(d, i, snapshotId)>>
        BY <2>4, <3>1, InLinks
      <4> DEFINE Read(l) == Doc(l[1], Get(d, NewHandle, DocKey(l[1], l[2])))
      <4>2. \A i \in Id : Value(d, i, snapshotId) = v => Read(<<i, Newest(d, i, snapshotId)>>) = Doc(i, v)
        BY <3>3
      <4> HIDE DEF Read
      <4>3. (\E l \in Range(links) : x = Read(l)) <=>
                \E i \in Id : Value(d, i, snapshotId) = v /\ x = Read(<<i, Newest(d, i, snapshotId)>>)
        BY <4>1
      <4> QED
        BY <4>2, <4>3 DEF Read
    <3>5. \A i \in Id : Doc(i, v).f \notin {None, Tomb} /\ Matches(q, Doc(i, v))
      <4>1. v # None /\ v # Tomb
        BY ConstAssumption
      <4>2. \A i \in Id : Doc(i, v).f = v /\ Matches(q, Doc(i, v))
        BY <1>3, <2>1, FieldMatches DEF Doc
      <4> QED
        BY <4>1, <4>2
    <3>6. \A x : x \in Range(Linked(d, NewHandle, q, links)) <=>
              /\ \E l \in Range(links) : x = Doc(l[1], Get(d, NewHandle, DocKey(l[1], l[2])))
              /\ x.f \notin {None, Tomb} /\ Matches(q, x)
      BY <3>2, LinkedRange
    <3>7. \A x : x \in Range(Linked(d, NewHandle, q, links)) <=> x \in Range(FullSearch(d, snapshotId, q))
      BY <2>8, <3>4, <3>5, <3>6
    <3>8. Range(Linked(d, NewHandle, q, links)) = Range(FullSearch(d, snapshotId, q))
      BY <3>7
    <3> QED
      BY <2>7, <3>2, <3>8
  <2>10. CASE k \notin DOMAIN d
    <3>1. links = None /\ EntryOf(d, snapshotId, v) = <<>>
      BY <2>3, <2>6, <2>10 DEF EntryOf
    <3>2. Range(<<>>) = {}
      BY DEF Range
    <3>3. \A i \in Id : Value(d, i, snapshotId) # v
      <4>1. Links(d, snapshotId, v) = {}
        BY <2>4, <3>1, <3>2
      <4> QED
        BY <4>1, InLinks
    <3>4. Range(FullSearch(d, snapshotId, q)) = {}
      BY <2>8, <3>3
    <3> QED
      BY <2>7, <3>1, <3>2, <3>4
  <2> QED
    BY <2>9, <2>10
<1> QED
  BY <1>2, <1>3

-----------------------------------------------------------------------------
(* createIndex and the requests on snapshots.                              *)

\* From d to g the first n documents of a list got their links at snapshot s.
IndexedTo(d, g, found, n, s) ==
    /\ \A x : ~(\E v \in Val : x = IvKey(s, v)) => SameAt(g, d, x)
    /\ \A v \in Val : EntryOf(g, s, v) \in Seq(LinkKey)
    /\ \A v \in Val : \A l : l \in Range(EntryOf(g, s, v)) <=>
                                 \E m \in 1..n : found[m].f = v /\ l = <<found[m].id, s>>

\* One document more.
LEMMA IndexedOneMore ==
    ASSUME NEW d, NEW g, NEW w, NEW found, NEW n \in Nat, NEW s,
           IndexedTo(d, g, found, n, s), NEW i, NEW v \in Val,
           found[n + 1].f = v, found[n + 1].id = i,
           \A x : x # IvKey(s, v) => SameAt(w, g, x), EntryOf(w, s, v) \in Seq(LinkKey),
           Range(EntryOf(w, s, v)) = Range(EntryOf(g, s, v)) \union {<<i, s>>}
    PROVE  IndexedTo(d, w, found, n + 1, s)
<1>1. ASSUME NEW x, ~(\E u \in Val : x = IvKey(s, u))
      PROVE  SameAt(w, d, x)
  <2>1. SameAt(w, g, x) /\ SameAt(g, d, x)
    BY <1>1 DEF IndexedTo
  <2> QED
    BY <2>1, SameAtAgain
<1>2. \A m : m \in 1..(n + 1) <=> m \in 1..n \/ m = n + 1
  <2>1. \A m \in Int : m \in 1..(n + 1) <=> m \in 1..n \/ m = n + 1
    OBVIOUS
  <2>2. \A m : m \notin Int => m \notin 1..(n + 1) /\ m \notin 1..n /\ m # n + 1
    OBVIOUS
  <2> QED
    BY <2>1, <2>2
<1>3. ASSUME NEW u \in Val
      PROVE  /\ EntryOf(w, s, u) \in Seq(LinkKey)
             /\ \A l : l \in Range(EntryOf(w, s, u)) <=>
                           \E m \in 1..(n + 1) : found[m].f = u /\ l = <<found[m].id, s>>
  <2>1. EntryOf(g, s, u) \in Seq(LinkKey)
        /\ \A l : l \in Range(EntryOf(g, s, u)) <=>
                      \E m \in 1..n : found[m].f = u /\ l = <<found[m].id, s>>
    BY DEF IndexedTo
  <2>2. \A l : l \in Range(EntryOf(w, s, u)) <=>
                   l \in Range(EntryOf(g, s, u)) \/ (u = v /\ l = <<i, s>>)
    <3>1. CASE u = v
      BY <3>1
    <3>2. CASE u # v
      <4>1. IvKey(s, u) # IvKey(s, v)
        BY <3>2 DEF IvKey
      <4>2. SameAt(w, g, IvKey(s, u))
        BY <4>1
      <4>3. EntryOf(w, s, u) = EntryOf(g, s, u)
        BY <4>2, SameEntry
      <4> QED
        BY <3>2, <4>3
    <3> QED
      BY <3>1, <3>2
  <2>3. EntryOf(w, s, u) \in Seq(LinkKey)
    <3>1. CASE u # v
      <4>1. IvKey(s, u) # IvKey(s, v)
        BY <3>1 DEF IvKey
      <4>2. SameAt(w, g, IvKey(s, u))
        BY <4>1
      <4> QED
        BY <2>1, <4>2, SameEntry
    <3> QED
      BY <3>1
  <2> QED
    BY <1>2, <2>1, <2>2, <2>3
<1> QED
  BY <1>1, <1>3 DEF IndexedTo

\* createIndex links every document a full search meets.
LEMMA CreateIndexLinks ==
    ASSUME Store # "map", snapshotId \in Sid, NEW d, StoreOK(d, snapshotId),
           \A x \in DOMAIN d : ~IsEntry(x),
           NEW e, e = Written(d, CreateIndexHandle(d, NewHandle))
    PROVE  IndexedTo(d, e, Scan(d, snapshotId), Len(Scan(d, snapshotId)), snapshotId)
<1> DEFINE found == Scan(d, snapshotId)
           L == Len(found)
           after == CHOOSE f : IsIndexing(f, d, NewHandle, found, L)
<1>1. NewHandle.sid = snapshotId
  BY DEF NewHandle
<1>2. CreateIndexHandle(d, NewHandle) = after[L]
  BY <1>1, Zenon DEF CreateIndexHandle, IsIndexing
<1> HIDE DEF after
<1>3. found \in Seq({Doc(i, Value(d, i, snapshotId)) : i \in Id})
      /\ Range(found) = {Doc(i, Value(d, i, snapshotId)) : i \in {j \in Id : Value(d, j, snapshotId) # None}}
  BY ScanFacts
<1>4. L \in Nat /\ DOMAIN found = 1..L
  BY <1>3, LenProperties
<1>5. \A k \in 1..L : found[k].f \in Val /\ found[k].id \in Id
  <2> SUFFICES ASSUME NEW k \in 1..L PROVE found[k].f \in Val /\ found[k].id \in Id
    OBVIOUS
  <2> HIDE DEF found
  <2>1. found[k] \in Range(found)
    BY <1>4 DEF Range
  <2>2. PICK i \in Id : Value(d, i, snapshotId) # None /\ found[k] = Doc(i, Value(d, i, snapshotId))
    BY <1>3, <2>1
  <2>3. Value(d, i, snapshotId) \in Val
    BY <2>2, ValueThere
  <2> QED
    BY <2>2, <2>3 DEF Doc
<1>6. IsIndexing(after, d, NewHandle, found, L)
  <2>1. \E f : IsIndexing(f, d, NewHandle, found, L)
    BY <1>4, IndexingExists
  <2> QED
    BY <2>1, Zenon DEF after
<1> HIDE DEF L, found
<1>7. \A k \in 0..L : after[k] = IF k = 0 THEN NewHandle
                                 ELSE AddIndexValue(d, after[k - 1], found[k].f, found[k].id)
  BY <1>6 DEF IsIndexing
<1> DEFINE Good(k) == /\ IsHandle(after[k]) /\ after[k].sid = snapshotId
                      /\ IndexedTo(d, Written(d, after[k]), found, k, snapshotId)
           Bad == {k \in 0..L : ~Good(k)}
<1> HIDE DEF Good
<1>8. Bad = {}
  <2> SUFFICES ASSUME Bad # {} PROVE FALSE
    OBVIOUS
  <2>1. PICK k \in Bad : \A m \in Bad : k <= m
    <3>1. Bad \in SUBSET Nat
      BY <1>4
    <3> HIDE DEF Bad
    <3> QED
      BY <3>1, LeastExists
  <2>2. k \in 0..L /\ ~Good(k)
    BY <2>1
  <2>3. k # 0
    <3>1. 0 \in 0..L
      BY <1>4
    <3>2. after[0] = NewHandle
      BY <1>7, <3>1
    <3>3. IsHandle(NewHandle) /\ NewHandle.sid = snapshotId
      BY NewHandleOK DEF HandleOK
    <3>4. PICK g : g = Written(d, NewHandle)
      OBVIOUS
    <3>5. \A x : SameAt(g, d, x)
      BY <3>4, NewWritten
    <3>6. \A v \in Val : EntryOf(g, snapshotId, v) = <<>>
      <4>1. \A v \in Val : IvKey(snapshotId, v) \notin DOMAIN d
        BY EntryKeys
      <4> QED
        BY <3>5, <4>1 DEF EntryOf, SameAt
    <3>7. <<>> \in Seq(LinkKey) /\ Range(<<>>) = {} /\ \A m : m \notin 1..0
      BY DEF Range
    <3>8. IndexedTo(d, g, found, 0, snapshotId)
      BY <3>5, <3>6, <3>7 DEF IndexedTo
    <3>9. Good(0)
      BY <3>2, <3>3, <3>4, <3>8 DEF Good
    <3> QED
      BY <2>2, <3>9
  <2>4. k - 1 \in 0..L /\ k - 1 < k /\ k \in 1..L /\ k - 1 \in Nat /\ (k - 1) + 1 = k
    BY <1>4, <2>2, <2>3
  <2>5. Good(k - 1)
    BY <2>1, <2>4
  <2>6. PICK h, g : h = after[k - 1] /\ g = Written(d, h)
    OBVIOUS
  <2>7. IsHandle(h) /\ h.sid = snapshotId /\ IndexedTo(d, g, found, k - 1, snapshotId)
    BY <2>5, <2>6 DEF Good
  <2>8. PICK i, v : i = found[k].id /\ v = found[k].f
    OBVIOUS
  <2>9. i \in Id /\ v \in Val
    BY <1>5, <2>4, <2>8
  <2>10. PICK next : next = AddIndexValue(d, h, v, i)
    OBVIOUS
  <2>11. after[k] = next
    BY <1>7, <2>2, <2>3, <2>6, <2>8, <2>10
  <2>12. IsHandle(next) /\ next.sid = snapshotId
    <3>1. SameDocs(next, h)
      BY <2>7, <2>10, IndexSameDocs
    <3> QED
      BY <2>7, <3>1 DEF SameDocs
  <2>13. PICK w : w = Written(d, next)
    OBVIOUS
  <2>14. EntryOf(g, h.sid, v) \in Seq(LinkKey) /\ h.sid \in Sid
    BY <2>7, <2>9 DEF IndexedTo
  <2>15. /\ \A x : x # IvKey(h.sid, v) => SameAt(w, g, x)
         /\ EntryOf(w, h.sid, v) \in Seq(LinkKey)
         /\ Range(EntryOf(w, h.sid, v)) = Range(EntryOf(g, h.sid, v)) \union {<<i, h.sid>>}
    BY <2>6, <2>7, <2>9, <2>10, <2>13, <2>14, AddLink
  <2>16. IndexedTo(d, w, found, (k - 1) + 1, snapshotId)
    <3>1. found[(k - 1) + 1].f = v /\ found[(k - 1) + 1].id = i
      BY <2>4, <2>8
    <3>2. /\ \A x : x # IvKey(snapshotId, v) => SameAt(w, g, x)
          /\ EntryOf(w, snapshotId, v) \in Seq(LinkKey)
          /\ Range(EntryOf(w, snapshotId, v)) = Range(EntryOf(g, snapshotId, v)) \union {<<i, snapshotId>>}
      BY <2>7, <2>15
    <3> QED
      BY <2>4, <2>7, <2>9, <3>1, <3>2, IndexedOneMore
  <2>17. Good(k)
    BY <2>4, <2>11, <2>12, <2>13, <2>16 DEF Good
  <2> QED
    BY <2>2, <2>17
<1>9. Good(L)
  BY <1>4, <1>8
<1>10. e = Written(d, after[L])
  BY <1>2
<1> QED
  BY <1>9, <1>10, Zenon DEF Good, L, found

\* createIndex, in a collection without snapshots.
LEMMA CreateIndexEffect ==
    ASSUME Store # "map", snapshotId = 0, NEW d, StoreOK(d, 0),
           \A x \in DOMAIN d : ~IsEntry(x),
           NEW e, e = Written(d, CreateIndexHandle(d, NewHandle))
    PROVE  IndexOK(e, 0) /\ \A i : SameDoc(e, d, i)
<1> DEFINE found == Scan(d, 0)
           L == Len(found)
<1>1. 0 \in Sid
  BY ConstAssumption DEF Sid
<1>2. IndexedTo(d, e, found, L, 0)
  BY <1>1, CreateIndexLinks
<1>3. \A i : SameDoc(e, d, i)
  <2>1. \A i, s : ~(\E v \in Val : StartKey(i) = IvKey(0, v)) /\ ~(\E v \in Val : DocKey(i, s) = IvKey(0, v))
    BY Keys
  <2> QED
    BY <1>2, <2>1 DEF IndexedTo, SameDoc
<1>4. \A x \in DOMAIN e : IsEntry(x) => \E s \in Sid, v \in Val : x = IvKey(s, v) /\ s <= 0
  <2> SUFFICES ASSUME NEW x \in DOMAIN e, IsEntry(x), ~(\E v \in Val : x = IvKey(0, v)) PROVE FALSE
    BY <1>1
  <2>1. SameAt(e, d, x)
    BY <1>2 DEF IndexedTo
  <2> QED
    BY <2>1 DEF SameAt
<1>5. ASSUME NEW v \in Val, NEW l
      PROVE  l \in Links(e, 0, v) <=> \E m \in 1..L : found[m].f = v /\ l = <<found[m].id, 0>>
  <2>1. v # None
    BY ConstAssumption
  <2>2. ASSUME NEW i \in Id, Value(e, i, 0) = v
        PROVE  Newest(e, i, 0) = 0
    <3>1. UpTo(e, i, 0) # {}
      BY <2>1, <2>2 DEF Value
    <3>2. Newest(e, i, 0) \in UpTo(e, i, 0)
      BY <3>1, UpToMax DEF Newest
    <3>3. Newest(e, i, 0) \in Nat /\ Newest(e, i, 0) <= 0
      BY <3>2, ConstAssumption DEF UpTo, Versions, Sid
    <3> QED
      BY <3>3
  <2>3. l \in Links(e, 0, v) <=> \E i \in Id : Value(e, i, 0) = v /\ l = <<i, 0>>
    <3>1. l \in Links(e, 0, v) <=> \E i \in Id : Value(e, i, 0) = v /\ l = <<i, Newest(e, i, 0)>>
      BY InLinks
    <3> QED
      BY <2>2, <3>1
  <2>4. \A i : Value(e, i, 0) = Value(d, i, 0)
    BY <1>3, SameDocRead
  <2>5. found \in Seq({Doc(i, Value(d, i, 0)) : i \in Id})
        /\ Range(found) = {Doc(i, Value(d, i, 0)) : i \in {j \in Id : Value(d, j, 0) # None}}
    BY ScanFacts
  <2> HIDE DEF found
  <2>6. DOMAIN found = 1..L
    BY <2>5, LenProperties
  <2>7. (\E m \in 1..L : found[m].f = v /\ l = <<found[m].id, 0>>) <=>
            \E x \in Range(found) : x.f = v /\ l = <<x.id, 0>>
    BY <2>6 DEF Range
  <2>8. (\E x \in Range(found) : x.f = v /\ l = <<x.id, 0>>) <=>
            \E i \in Id : Value(d, i, 0) = v /\ l = <<i, 0>>
    <3>1. \A x : x \in Range(found) <=>
              \E i \in Id : Value(d, i, 0) # None /\ x = Doc(i, Value(d, i, 0))
      BY <2>5
    <3>2. \A i, w : Doc(i, w).f = w /\ Doc(i, w).id = i
      BY DEF Doc
    <3> QED
      BY <2>1, <3>1, <3>2
  <2> QED
    BY <2>3, <2>4, <2>7, <2>8
<1> HIDE DEF found
<1>6. ASSUME NEW v \in Val
      PROVE  EntryOf(e, 0, v) \in Seq(LinkKey) /\ Range(EntryOf(e, 0, v)) = Links(e, 0, v)
  <2>1. EntryOf(e, 0, v) \in Seq(LinkKey) /\ \A l : l \in Range(EntryOf(e, 0, v)) <=> l \in Links(e, 0, v)
    BY <1>2, <1>5 DEF IndexedTo
  <2> QED
    BY <2>1
<1>7. EntriesAt(e, 0)
  BY <1>6 DEF EntriesAt
<1>8. \A s \in 0..0 : s = 0
  OBVIOUS
<1> QED
  BY <1>3, <1>4, <1>7, <1>8 DEF IndexOK

\* Every entry is one of a snapshot and a value.
EntriesNamed(d) == \A x \in DOMAIN d : IsEntry(x) => \E s \in Sid, v \in Val : x = IvKey(s, v)

\* copyIndexValues, written.
LEMMA CopyEffect ==
    ASSUME Store # "map", NEW d, EntriesNamed(d), NEW r, NEW s,
           NEW e, e = Written(d, CopyIndexValues(d, NewHandle, r, s))
    PROVE  /\ \A x : ~(\E v \in Val : x = IvKey(r, v)) => SameAt(e, d, x)
           /\ \A v \in Val : IF IvKey(s, v) \in DOMAIN d
                             THEN IvKey(r, v) \in DOMAIN e /\ e[IvKey(r, v)] = d[IvKey(s, v)]
                             ELSE SameAt(e, d, IvKey(r, v))
<1> DEFINE from == {k \in DOMAIN d : k[1] = "iv" /\ k[2] = s}
           kv == [k \in {IvKey(r, k[3]) : k \in from} |-> d[IvKey(s, k[3])]]
           h == PutAll(NewHandle, kv)
<1>1. e = Written(d, h)
  BY Zenon DEF CopyIndexValues
<1>2. IsHandle(NewHandle)
  BY NewHandleOK DEF HandleOK
<1>3. \A k : k \in from <=> \E v \in Val : k = IvKey(s, v) /\ k \in DOMAIN d
  <2>1. ASSUME NEW k \in from
        PROVE  \E v \in Val : k = IvKey(s, v)
    <3>1. IsEntry(k) /\ k \in DOMAIN d /\ k[2] = s
      BY DEF IsEntry
    <3>2. PICK u \in Sid, v \in Val : k = IvKey(u, v)
      BY <3>1 DEF EntriesNamed
    <3>3. u = s
      BY <3>1, <3>2 DEF IvKey
    <3> QED
      BY <3>2, <3>3
  <2>2. ASSUME NEW v \in Val, IvKey(s, v) \in DOMAIN d
        PROVE  IvKey(s, v) \in from
    <3>1. IvKey(s, v)[1] = "iv" /\ IvKey(s, v)[2] = s
      BY DEF IvKey
    <3> QED
      BY <2>2, <3>1
  <2> QED
    BY <2>1, <2>2
<1> HIDE DEF from
<1>4. \A x : x \in DOMAIN kv <=> \E v \in Val : x = IvKey(r, v) /\ IvKey(s, v) \in DOMAIN d
  <2>1. \A x : x \in DOMAIN kv <=> \E k \in from : x = IvKey(r, k[3])
    OBVIOUS
  <2>2. \A v : IvKey(s, v)[3] = v
    BY DEF IvKey
  <2> HIDE DEF kv
  <2> QED
    BY <1>3, <2>1, <2>2
<1>5. \A v \in Val : IvKey(r, v) \in DOMAIN kv => kv[IvKey(r, v)] = d[IvKey(s, v)]
  <2>1. \A v : IvKey(r, v)[3] = v
    BY DEF IvKey
  <2> QED
    BY <2>1
<1> HIDE DEF kv
<1>6. /\ \A x \in DOMAIN kv : x \in DOMAIN h.cache /\ h.cache[x] = kv[x] /\ x \notin h.deleted
      /\ \A x : x \notin DOMAIN kv => SameKey(h, NewHandle, x)
  BY <1>2, PutAllSays
<1> HIDE DEF h
<1>7. \A x \in DOMAIN kv : x \in DOMAIN e /\ e[x] = kv[x]
  <2>1. \A x \in DOMAIN kv : Puts(h, x)
    BY <1>6 DEF Puts
  <2> QED
    BY <1>1, <1>6, <2>1, WrittenFacts
<1>8. \A x : x \notin DOMAIN kv => SameAt(e, d, x)
  <2> SUFFICES ASSUME NEW x, x \notin DOMAIN kv PROVE SameAt(e, d, x)
    OBVIOUS
  <2>1. PICK g : g = Written(d, NewHandle)
    OBVIOUS
  <2>2. SameAt(e, g, x)
    BY <1>1, <1>6, <2>1, SameWritten
  <2>3. SameAt(g, d, x)
    BY <2>1, NewWritten
  <2> QED
    BY <2>2, <2>3, SameAtAgain
<1>9. ASSUME NEW x, ~(\E v \in Val : x = IvKey(r, v))
      PROVE  SameAt(e, d, x)
  BY <1>4, <1>8, <1>9
<1>10. ASSUME NEW v \in Val, IvKey(s, v) \in DOMAIN d
       PROVE  IvKey(r, v) \in DOMAIN e /\ e[IvKey(r, v)] = d[IvKey(s, v)]
  BY <1>4, <1>5, <1>7, <1>10
<1>11. ASSUME NEW v \in Val, IvKey(s, v) \notin DOMAIN d
       PROVE  SameAt(e, d, IvKey(r, v))
  <2>1. \A w : IvKey(r, v) = IvKey(r, w) => v = w
    BY DEF IvKey
  <2> QED
    BY <1>4, <1>8, <1>11, <2>1
<1> QED
  BY <1>9, <1>10, <1>11

\* A key of a document is not one of an entry.
LEMMA DocNoEntry ==
    ASSUME NEW d, NEW e, \A x : ~IsEntry(x) => SameAt(e, d, x)
    PROVE  \A i : SameDoc(e, d, i)
BY EntryKeys DEF SameDoc

\* Entries of a snapshot that is read as it was.
LEMMA EntriesStay ==
    ASSUME NEW d, NEW e, NEW r, NEW s, EntriesAt(d, r),
           \A v \in Val : EntryOf(e, s, v) = EntryOf(d, r, v) /\ Links(e, s, v) = Links(d, r, v)
    PROVE  EntriesAt(e, s)
BY DEF EntriesAt

\* newSnapshot: the new current state starts with the entries of the last one.
LEMMA NewSnapshotIndex ==
    ASSUME Store # "map", NEW ix, NEW top \in Sid, top + 1 \in Sid, NEW d, StoreOK(d, top), IdxAt(ix, d, top),
           NEW e, e = Written(d, CopyIndexValues(d, NewHandle, top + 1, top))
    PROVE  IdxAt(ix, e, top + 1)
<1>1. top \in Nat /\ Sid \in SUBSET Nat
  BY ConstAssumption DEF Sid
<1>2. EntriesNamed(d)
  BY DEF IdxAt, IndexOK, EntriesNamed
<1>3. /\ \A x : ~(\E v \in Val : x = IvKey(top + 1, v)) => SameAt(e, d, x)
      /\ \A v \in Val : IF IvKey(top, v) \in DOMAIN d
                        THEN IvKey(top + 1, v) \in DOMAIN e /\ e[IvKey(top + 1, v)] = d[IvKey(top, v)]
                        ELSE SameAt(e, d, IvKey(top + 1, v))
  BY <1>2, CopyEffect
<1>4. \A i : SameDoc(e, d, i)
  <2>1. \A x : ~IsEntry(x) => SameAt(e, d, x)
    BY <1>3, EntryKeys
  <2> QED
    BY <2>1, DocNoEntry
<1>5. \A i, s : Value(e, i, s) = Value(d, i, s) /\ Newest(e, i, s) = Newest(d, i, s)
  BY <1>4, SameDocRead DEF Newest
<1>6. CASE ix
  <2>1. IndexOK(d, top)
    BY <1>6 DEF IdxAt
  <2>2. ASSUME NEW x \in DOMAIN e, IsEntry(x)
        PROVE  \E s \in Sid, v \in Val : x = IvKey(s, v) /\ s <= top + 1
    <3>1. CASE \E v \in Val : x = IvKey(top + 1, v)
      BY <1>1, <3>1
    <3>2. CASE ~(\E v \in Val : x = IvKey(top + 1, v))
      <4>1. x \in DOMAIN d
        BY <1>3, <3>2 DEF SameAt
      <4>2. PICK s \in Sid, v \in Val : x = IvKey(s, v) /\ s <= top
        BY <2>1, <2>2, <4>1 DEF IndexOK
      <4> QED
        BY <1>1, <4>2
    <3> QED
      BY <3>1, <3>2
  <2>3. ASSUME NEW s \in 0..top
        PROVE  EntriesAt(e, s)
    <3>1. EntriesAt(d, s) /\ s # top + 1
      BY <1>1, <2>1 DEF IndexOK
    <3>2. ASSUME NEW v \in Val
          PROVE  EntryOf(e, s, v) = EntryOf(d, s, v) /\ Links(e, s, v) = Links(d, s, v)
      <4>1. ~(\E w \in Val : IvKey(s, v) = IvKey(top + 1, w))
        BY <3>1 DEF IvKey
      <4>2. EntryOf(e, s, v) = EntryOf(d, s, v)
        BY <1>3, <4>1, SameEntry
      <4> QED
        BY <1>5, <4>2, SameLinks
    <3> QED
      BY <3>1, <3>2, EntriesStay
  <2>4. EntriesAt(e, top + 1)
    <3>1. EntriesAt(d, top)
      BY <1>1, <2>1 DEF IndexOK
    <3>2. ASSUME NEW i \in Id
          PROVE  UpTo(d, i, top + 1) = UpTo(d, i, top)
      <4>1. \A r \in Versions(d, i) : r \in Nat /\ r <= top
        BY <1>1 DEF StoreOK, Versions
      <4>2. \A r \in Versions(d, i) : r <= top + 1
        BY <1>1, <4>1
      <4> QED
        BY <4>1, <4>2 DEF UpTo
    <3>3. ASSUME NEW i \in Id
          PROVE  Value(e, i, top + 1) = Value(d, i, top) /\ Newest(e, i, top + 1) = Newest(d, i, top)
      <4>1. Value(d, i, top + 1) = Value(d, i, top) /\ Newest(d, i, top + 1) = Newest(d, i, top)
        BY <3>2, Zenon DEF Value, Newest
      <4> QED
        BY <1>5, <4>1
    <3>4. ASSUME NEW v \in Val
          PROVE  EntryOf(e, top + 1, v) = EntryOf(d, top, v) /\ Links(e, top + 1, v) = Links(d, top, v)
      <4>1. CASE IvKey(top, v) \in DOMAIN d
        BY <1>3, <3>3, <4>1, SameLinks DEF EntryOf
      <4>2. CASE IvKey(top, v) \notin DOMAIN d
        <5>1. SameAt(e, d, IvKey(top + 1, v))
          BY <1>3, <4>2
        <5>2. IvKey(top + 1, v) \notin DOMAIN d
          <6> SUFFICES ASSUME IvKey(top + 1, v) \in DOMAIN d PROVE FALSE
            OBVIOUS
          <6>1. PICK s \in Sid, w \in Val : IvKey(top + 1, v) = IvKey(s, w) /\ s <= top
            BY <2>1, EntryKeys DEF IndexOK
          <6>2. s = top + 1
            BY <6>1 DEF IvKey
          <6> QED
            BY <1>1, <6>1, <6>2
        <5>3. EntryOf(e, top + 1, v) = EntryOf(d, top, v)
          BY <4>2, <5>1, <5>2 DEF EntryOf, SameAt
        <5>4. Links(e, top + 1, v) = Links(d, top, v)
          BY <3>3, SameLinks
        <5> QED
          BY <5>3, <5>4
      <4> QED
        BY <4>1, <4>2
    <3> QED
      BY <3>1, <3>4, EntriesStay
  <2>5. \A s \in 0..(top + 1) : s \in 0..top \/ s = top + 1
    BY <1>1
  <2>6. IndexOK(e, top + 1)
    BY <2>2, <2>3, <2>4, <2>5 DEF IndexOK
  <2> QED
    BY <1>6, <2>6 DEF IdxAt
<1>7. CASE ~ix
  <2>1. \A v \in Val : IvKey(top, v) \notin DOMAIN d
    BY <1>7, EntryKeys DEF IdxAt
  <2>2. \A x : SameAt(e, d, x)
    BY <1>3, <2>1
  <2> QED
    BY <1>7, <2>2 DEF IdxAt, SameAt
<1> QED
  BY <1>6, <1>7

\* revertToSnapshot keeps the entries of the snapshots up to k.
LEMMA RevertIndex ==
    ASSUME Store # "map", NEW ix, NEW d, NEW k \in Nat, k < Len(snapshots), Len(snapshots) \in Nat,
           Len(snapshots) <= SnapshotIds, StoreOK(d, Len(snapshots) - 1), IdxAt(ix, d, Len(snapshots) - 1),
           NEW e, e = Written(d, RevertHandle(d, k))
    PROVE  IdxAt(ix, e, k)
<1>1. /\ \A i \in Id, s \in 0..k : Value(e, i, s) = Value(d, i, s) /\ UpTo(e, i, s) = UpTo(d, i, s)
      /\ \A x \in DOMAIN e : x \in DOMAIN d /\ e[x] = d[x]
      /\ \A x \in DOMAIN d : IsEntry(x) => (x \in DOMAIN e <=> x[2] \notin (k + 1)..(Len(snapshots) - 1))
  BY RevertEffect DEF IsEntry
<1>2. Sid \in SUBSET Nat
  BY ConstAssumption DEF Sid
<1>3. CASE ix
  <2>1. IndexOK(d, Len(snapshots) - 1)
    BY <1>3 DEF IdxAt
  <2>2. ASSUME NEW x \in DOMAIN e, IsEntry(x)
        PROVE  \E s \in Sid, v \in Val : x = IvKey(s, v) /\ s <= k
    <3>1. PICK s \in Sid, v \in Val : x = IvKey(s, v) /\ s <= Len(snapshots) - 1
      BY <1>1, <2>1, <2>2 DEF IndexOK
    <3>2. x[2] = s /\ s \in Nat
      BY <1>2, <3>1 DEF IvKey
    <3>3. s \notin (k + 1)..(Len(snapshots) - 1)
      BY <1>1, <2>2, <3>2
    <3> QED
      BY <3>1, <3>2, <3>3
  <2>3. ASSUME NEW s \in 0..k
        PROVE  EntriesAt(e, s)
    <3>1. EntriesAt(d, s)
      BY <2>1 DEF IndexOK
    <3>2. ASSUME NEW v \in Val
          PROVE  EntryOf(e, s, v) = EntryOf(d, s, v) /\ Links(e, s, v) = Links(d, s, v)
      <4>1. IsEntry(IvKey(s, v)) /\ IvKey(s, v)[2] = s
        BY DEF IsEntry, IvKey
      <4>2. s \notin (k + 1)..(Len(snapshots) - 1)
        OBVIOUS
      <4>3. SameAt(e, d, IvKey(s, v))
        BY <1>1, <4>1, <4>2 DEF SameAt
      <4>4. \A i \in Id : Value(e, i, s) = Value(d, i, s) /\ Newest(e, i, s) = Newest(d, i, s)
        BY <1>1 DEF Newest
      <4> QED
        BY <4>3, <4>4, SameEntry, SameLinks
    <3> QED
      BY <3>1, <3>2, EntriesStay
  <2> QED
    BY <1>3, <2>2, <2>3 DEF IdxAt, IndexOK
<1>4. CASE ~ix
  BY <1>1, <1>4 DEF IdxAt
<1> QED
  BY <1>3, <1>4

\* removeSnapshot moves a link key behind k down, alone and in an entry.
LowerLink(k, l) == IF l[2] > k THEN <<l[1], l[2] - 1>> ELSE l

LowerLinks(k, links) == [n \in DOMAIN links |-> LowerLink(k, links[n])]

\* The links are as many, each moved down.
LEMMA LowerFacts ==
    ASSUME NEW k \in Nat, NEW links \in Seq(LinkKey)
    PROVE  /\ LowerLinks(k, links) \in Seq(LinkKey)
           /\ \A l : l \in Range(LowerLinks(k, links)) <=> \E m \in Range(links) : l = LowerLink(k, m)
<1>1. Len(links) \in Nat /\ DOMAIN links = 1..Len(links) /\ \A n \in 1..Len(links) : links[n] \in LinkKey
  BY LenProperties, ElementOfSeq
<1>2. ASSUME NEW l \in LinkKey
      PROVE  LowerLink(k, l) \in LinkKey
  <2>1. PICK i \in Id, s \in Sid : l = <<i, s>>
    BY DEF LinkKey
  <2>2. l[1] = i /\ l[2] = s
    BY <2>1
  <2>3. s > k => s - 1 \in Sid
    BY ConstAssumption DEF Sid
  <2> QED
    BY <2>1, <2>2, <2>3 DEF LowerLink, LinkKey
<1>3. LowerLinks(k, links) = [n \in 1..Len(links) |-> LowerLink(k, links[n])]
  BY <1>1 DEF LowerLinks
<1>4. \A n \in 1..Len(links) : LowerLink(k, links[n]) \in LinkKey
  BY <1>1, <1>2
<1>5. LowerLinks(k, links) \in Seq(LinkKey)
  BY <1>1, <1>3, <1>4
<1>6. \A l : l \in Range(LowerLinks(k, links)) <=> \E n \in 1..Len(links) : l = LowerLink(k, links[n])
  BY <1>3 DEF Range
<1>7. \A m : m \in Range(links) <=> \E n \in 1..Len(links) : m = links[n]
  BY <1>1 DEF Range
<1> QED
  BY <1>5, <1>6, <1>7

\* It leaves the index alone when it goes through the documents.
LEMMA ShiftDocumentsEntries ==
    ASSUME NEW d, NEW k
    PROVE  LET g == ShiftDocuments(d, NewHandle, k) IN
           IsHandle(g) /\ \A x : IsEntry(x) => SameKey(g, NewHandle, x)
<1> DEFINE above == {c \in Id \X Sid : c[2] \in Versions(d, c[1]) /\ c[2] > k}
           tombs == {c \in above : d[DocKey(c[1], c[2])] = Tomb}
           after(c, e) == c[1] < e[1] \/ (c[1] = e[1] /\ c[2] < e[2])
           lasts == {c \in above : \A e \in above :
                        after(c, e) => Owner(d, e[1]) # Owner(d, c[1])}
           bare == {i \in Id : HasStart(d, i) /\ \E c \in tombs \intersect Group(d, i) :
                        c[2] = k + 1 /\ \A e \in (above \ tombs) \intersect Group(d, i) : ~after(c, e)}
           moved == [x \in {DocKey(c[1], c[2] - 1) : c \in above \ tombs} |->
                        d[DocKey(x[2], x[3] + 1)]]
           dropped == {DocKey(c[1], c[2] - 1) : c \in tombs}
           K == dropped \union VersionKeys(lasts) \union {StartKey(i) : i \in bare}
           h == PutAll(NewHandle, moved)
<1>1. ShiftDocuments(d, NewHandle, k) = DeleteAll(h, K)
  BY Zenon DEF ShiftDocuments
<1>2. \A i, s : ~IsEntry(DocKey(i, s)) /\ ~IsEntry(StartKey(i))
  BY EntryKeys
<1>3. \A x \in DOMAIN moved : ~IsEntry(x)
  <2>1. DOMAIN moved = {DocKey(c[1], c[2] - 1) : c \in above \ tombs}
    OBVIOUS
  <2> HIDE DEF moved, above, tombs
  <2> QED
    BY <1>2, <2>1
<1>4. \A x \in K : ~IsEntry(x)
  <2> HIDE DEF tombs, lasts, bare
  <2> QED
    BY <1>2 DEF VersionKeys
<1> HIDE DEF moved, K
<1>5. IsHandle(NewHandle)
  BY NewHandleOK DEF HandleOK
<1>6. IsHandle(h) /\ \A x : x \notin DOMAIN moved => SameKey(h, NewHandle, x)
  BY <1>5, PutAllSays
<1> HIDE DEF h
<1>7. IsHandle(DeleteAll(h, K)) /\ \A x : x \notin K => SameKey(DeleteAll(h, K), h, x)
  BY <1>6, DeleteAllSays
<1>8. ASSUME NEW x, IsEntry(x)
      PROVE  SameKey(DeleteAll(h, K), NewHandle, x)
  <2>1. SameKey(DeleteAll(h, K), h, x) /\ SameKey(h, NewHandle, x)
    BY <1>3, <1>4, <1>6, <1>7, <1>8
  <2> QED
    BY <2>1 DEF SameKey
<1> QED
  BY <1>1, <1>7, <1>8

\* What removeSnapshot makes of the index.
LEMMA ShiftIndexEffect ==
    ASSUME Store # "map", NEW d, EntriesNamed(d), NEW k \in Nat,
           NEW e, e = Written(d, ShiftIndex(d, ShiftDocuments(d, NewHandle, k), k))
    PROVE  /\ \A x \in DOMAIN e : IsEntry(x) => \E s \in Int, v \in Val :
                 x = IvKey(s, v) /\ IvKey(IF s < k THEN s ELSE s + 1, v) \in DOMAIN d
           /\ \A s \in Sid, v \in Val :
                 IF s < k THEN SameAt(e, d, IvKey(s, v))
                 ELSE /\ IvKey(s, v) \in DOMAIN e <=> IvKey(s + 1, v) \in DOMAIN d
                      /\ IvKey(s + 1, v) \in DOMAIN d =>
                            e[IvKey(s, v)] = LowerLinks(k, d[IvKey(s + 1, v)])
<1> DEFINE entries == {x \in DOMAIN d : x[1] = "iv" /\ x[2] >= k}
           behind == {y \in entries : y[2] > k}
           moved == [x \in {IvKey(x[2] - 1, x[3]) : x \in behind} |-> LowerLinks(k, d[IvKey(x[2] + 1, x[3])])]
           g == ShiftDocuments(d, NewHandle, k)
           f == DeleteAll(g, entries)
           h == PutAll(f, moved)
<1>1. \A s, v : IvKey(s, v)[1] = "iv" /\ IvKey(s, v)[2] = s /\ IvKey(s, v)[3] = v
  BY DEF IvKey
<1>2. ShiftIndex(d, g, k) = h
  BY Zenon DEF ShiftIndex, LowerLinks, LowerLink
<1>3. IsHandle(g) /\ \A x : IsEntry(x) => SameKey(g, NewHandle, x)
  BY ShiftDocumentsEntries
<1>4. e = Written(d, h)
  BY <1>2
<1> HIDE DEF g
<1>5. IsHandle(f) /\ f.deleted = g.deleted \union entries /\ \A x : x \notin entries => SameKey(f, g, x)
  BY <1>3, DeleteAllSays
<1> HIDE DEF f
<1>6. /\ \A x \in DOMAIN moved : x \in DOMAIN h.cache /\ h.cache[x] = moved[x] /\ x \notin h.deleted
      /\ \A x : x \notin DOMAIN moved => SameKey(h, f, x)
  BY <1>5, PutAllSays
<1> HIDE DEF h
<1>7. \A x : x \in entries <=> \E s \in Sid, v \in Val : x = IvKey(s, v) /\ s >= k /\ x \in DOMAIN d
  <2>1. ASSUME NEW x \in entries
        PROVE  \E s \in Sid, v \in Val : x = IvKey(s, v) /\ s >= k /\ x \in DOMAIN d
    <3>1. IsEntry(x) /\ x \in DOMAIN d /\ x[2] >= k
      BY DEF IsEntry
    <3>2. PICK s \in Sid, v \in Val : x = IvKey(s, v)
      BY <3>1 DEF EntriesNamed
    <3> QED
      BY <1>1, <3>1, <3>2
  <2>2. ASSUME NEW s \in Sid, NEW v \in Val, s >= k, IvKey(s, v) \in DOMAIN d
        PROVE  IvKey(s, v) \in entries
    BY <1>1, <2>2
  <2> QED
    BY <2>1, <2>2
<1>8. \A x : x \in behind <=> \E s \in Sid, v \in Val : x = IvKey(s, v) /\ s > k /\ x \in DOMAIN d
  <2>1. \A s \in Sid : s > k => s >= k
    BY ConstAssumption DEF Sid
  <2>2. \A x : x \in behind <=> x \in entries /\ x[2] > k
    OBVIOUS
  <2> HIDE DEF behind, entries
  <2> QED
    BY <1>1, <1>7, <2>1, <2>2
<1>9. \A x : x \in DOMAIN moved <=>
                 \E s \in Sid, v \in Val : x = IvKey(s - 1, v) /\ s > k /\ IvKey(s, v) \in DOMAIN d
  <2>1. \A x : x \in DOMAIN moved <=> \E y \in behind : x = IvKey(y[2] - 1, y[3])
    OBVIOUS
  <2> HIDE DEF moved, behind
  <2> QED
    BY <1>1, <1>8, <2>1
<1>10. \A x \in DOMAIN moved : moved[x] = LowerLinks(k, d[IvKey(x[2] + 1, x[3])])
  OBVIOUS
<1> HIDE DEF moved, entries, behind
<1>11. \A x \in DOMAIN moved : x \in DOMAIN e /\ e[x] = LowerLinks(k, d[IvKey(x[2] + 1, x[3])])
  <2>1. \A x \in DOMAIN moved : Puts(h, x)
    BY <1>6 DEF Puts
  <2> QED
    BY <1>4, <1>6, <1>10, <2>1, WrittenFacts
<1>12. ASSUME NEW x, x \notin DOMAIN moved, x \in entries
       PROVE  x \notin DOMAIN e
  <2>1. x \in h.deleted
    BY <1>5, <1>6, <1>12 DEF SameKey
  <2>2. ~Puts(h, x)
    BY <2>1 DEF Puts
  <2> QED
    BY <1>4, <2>1, <2>2, WrittenFacts
<1>13. ASSUME NEW x, x \notin DOMAIN moved, x \notin entries, IsEntry(x)
       PROVE  SameAt(e, d, x)
  <2>1. SameKey(h, f, x) /\ SameKey(f, g, x) /\ SameKey(g, NewHandle, x)
    BY <1>3, <1>5, <1>6, <1>13
  <2>2. SameKey(h, NewHandle, x)
    BY <2>1 DEF SameKey
  <2>3. PICK w : w = Written(d, NewHandle)
    OBVIOUS
  <2>4. SameAt(e, w, x) /\ SameAt(w, d, x)
    BY <1>4, <2>2, <2>3, SameWritten, NewWritten
  <2> QED
    BY <2>4, SameAtAgain
<1>14. Sid \in SUBSET Nat
  BY ConstAssumption DEF Sid
<1>15. ASSUME NEW s \in Int, NEW v
       PROVE  IvKey(s, v) \in DOMAIN moved <=>
                  s + 1 \in Sid /\ v \in Val /\ s >= k /\ IvKey(s + 1, v) \in DOMAIN d
  <2>1. ASSUME IvKey(s, v) \in DOMAIN moved
        PROVE  s + 1 \in Sid /\ v \in Val /\ s >= k /\ IvKey(s + 1, v) \in DOMAIN d
    <3>1. PICK r \in Sid, w \in Val : IvKey(s, v) = IvKey(r - 1, w) /\ r > k /\ IvKey(r, w) \in DOMAIN d
      BY <1>9, <2>1
    <3>2. s = r - 1 /\ v = w
      BY <1>1, <3>1
    <3>3. r = s + 1 /\ s >= k
      BY <1>14, <3>1, <3>2
    <3> QED
      BY <3>1, <3>2, <3>3
  <2>2. ASSUME s + 1 \in Sid, v \in Val, s >= k, IvKey(s + 1, v) \in DOMAIN d
        PROVE  IvKey(s, v) \in DOMAIN moved
    <3>1. (s + 1) - 1 = s /\ s + 1 > k
      BY <2>2
    <3> QED
      BY <1>9, <2>2, <3>1
  <2> QED
    BY <2>1, <2>2
<1>16. ASSUME NEW s \in Int, NEW v
       PROVE  IvKey(s, v) \in entries <=> s \in Sid /\ v \in Val /\ s >= k /\ IvKey(s, v) \in DOMAIN d
  <2>1. \A r, w : IvKey(s, v) = IvKey(r, w) => s = r /\ v = w
    BY DEF IvKey
  <2> QED
    BY <1>7, <2>1
<1>17. ASSUME NEW x \in DOMAIN e, IsEntry(x)
       PROVE  \E s \in Int, v \in Val : x = IvKey(s, v) /\ IvKey(IF s < k THEN s ELSE s + 1, v) \in DOMAIN d
  <2>1. CASE x \in DOMAIN moved
    <3>1. PICK s \in Sid, v \in Val : x = IvKey(s - 1, v) /\ s > k /\ IvKey(s, v) \in DOMAIN d
      BY <1>9, <2>1
    <3>2. s - 1 \in Int /\ ~(s - 1 < k) /\ (s - 1) + 1 = s
      BY <1>14, <3>1
    <3> QED
      BY <3>1, <3>2
  <2>2. CASE x \notin DOMAIN moved
    <3>1. x \notin entries /\ SameAt(e, d, x)
      BY <1>12, <1>13, <1>17, <2>2
    <3>2. x \in DOMAIN d
      BY <3>1 DEF SameAt
    <3>3. PICK s \in Sid, v \in Val : x = IvKey(s, v)
      BY <1>17, <3>2 DEF EntriesNamed
    <3>4. s \in Int /\ s < k
      BY <1>7, <1>14, <3>1, <3>2, <3>3
    <3> QED
      BY <3>2, <3>3, <3>4
  <2> QED
    BY <2>1, <2>2
<1>18. ASSUME NEW s \in Sid, NEW v \in Val, s < k
       PROVE  SameAt(e, d, IvKey(s, v))
  <2>1. IvKey(s, v) \notin DOMAIN moved /\ IvKey(s, v) \notin entries
    BY <1>14, <1>15, <1>16, <1>18
  <2>2. IsEntry(IvKey(s, v))
    BY EntryKeys
  <2> QED
    BY <1>13, <2>1, <2>2
<1>19. ASSUME NEW s \in Sid, NEW v \in Val, ~(s < k)
       PROVE  /\ IvKey(s, v) \in DOMAIN e <=> IvKey(s + 1, v) \in DOMAIN d
              /\ IvKey(s + 1, v) \in DOMAIN d => e[IvKey(s, v)] = LowerLinks(k, d[IvKey(s + 1, v)])
  <2>1. s \in Int /\ s >= k /\ IsEntry(IvKey(s, v)) /\ IsEntry(IvKey(s + 1, v))
    BY <1>14, <1>19, EntryKeys
  <2>2. CASE IvKey(s + 1, v) \in DOMAIN d
    <3>1. s + 1 \in Sid
      <4>1. PICK r \in Sid, w \in Val : IvKey(s + 1, v) = IvKey(r, w)
        BY <2>1, <2>2 DEF EntriesNamed
      <4>2. s + 1 = r
        BY <4>1 DEF IvKey
      <4> QED
        BY <4>2
    <3>2. IvKey(s, v) \in DOMAIN moved
      BY <1>15, <2>1, <2>2, <3>1
    <3>3. IvKey(s, v)[2] = s /\ IvKey(s, v)[3] = v
      BY <1>1
    <3> QED
      BY <1>11, <2>2, <3>2, <3>3
  <2>3. CASE IvKey(s + 1, v) \notin DOMAIN d
    <3>1. IvKey(s, v) \notin DOMAIN moved
      BY <1>15, <2>1, <2>3
    <3>2. IvKey(s, v) \notin DOMAIN e
      <4>1. CASE IvKey(s, v) \in DOMAIN d
        BY <1>12, <1>16, <2>1, <3>1, <4>1
      <4>2. CASE IvKey(s, v) \notin DOMAIN d
        <5>1. IvKey(s, v) \notin entries
          BY <1>7, <4>2
        <5> QED
          BY <1>13, <2>1, <3>1, <4>2, <5>1 DEF SameAt
      <4> QED
        BY <4>1, <4>2
    <3> QED
      BY <2>3, <3>2
  <2> QED
    BY <2>2, <2>3
<1> QED
  BY <1>17, <1>18, <1>19

\* removeSnapshot moves the entries behind k down, with their links: they are
\* right there as long as the versions follow on one another.
LEMMA RemoveIndex ==
    ASSUME Store # "map", NEW ix, NEW d, NEW k \in Nat, NEW L \in Nat, k + 1 < L, L <= SnapshotIds,
           StoreOK(d, L - 1), \A x \in DOMAIN d : d[x] # Tomb, ix => \A i \in Id : Gapless(d, i),
           IdxAt(ix, d, L - 1),
           NEW e, e = Written(d, ShiftIndex(d, ShiftDocuments(d, NewHandle, k), k))
    PROVE  IdxAt(ix, e, L - 2)
<1>1. EntriesNamed(d)
  BY DEF IdxAt, IndexOK, EntriesNamed
<1>2. /\ \A x \in DOMAIN e : IsEntry(x) => \E s \in Int, v \in Val :
            x = IvKey(s, v) /\ IvKey(IF s < k THEN s ELSE s + 1, v) \in DOMAIN d
      /\ \A s \in Sid, v \in Val :
            IF s < k THEN SameAt(e, d, IvKey(s, v))
            ELSE /\ IvKey(s, v) \in DOMAIN e <=> IvKey(s + 1, v) \in DOMAIN d
                 /\ IvKey(s + 1, v) \in DOMAIN d =>
                       e[IvKey(s, v)] = LowerLinks(k, d[IvKey(s + 1, v)])
  BY <1>1, ShiftIndexEffect
<1>3. \A i \in Id, s \in 0..(L - 2) :
         /\ Value(e, i, s) = Value(d, i, IF s < k THEN s ELSE s + 1)
         /\ IF s < k THEN UpTo(e, i, s) = UpTo(d, i, s) ELSE Lowered(d, e, i, s, k)
  BY RemoveEffect
<1>4. Sid \in SUBSET Nat /\ SnapshotIds \in Nat \ {0} /\ 0..(L - 1) \in SUBSET Sid /\ Sid = 0..(SnapshotIds - 1)
  BY ConstAssumption DEF Sid
<1>5. CASE ix
  <2>1. IndexOK(d, L - 1)
    BY <1>5 DEF IdxAt
  <2>2. ASSUME NEW x \in DOMAIN e, IsEntry(x)
        PROVE  \E s \in Sid, v \in Val : x = IvKey(s, v) /\ s <= L - 2
    <3>1. PICK s \in Int, v \in Val : x = IvKey(s, v) /\ IvKey(IF s < k THEN s ELSE s + 1, v) \in DOMAIN d
      BY <1>2, <2>2
    <3>2. PICK r : r = IF s < k THEN s ELSE s + 1
      OBVIOUS
    <3>3. IvKey(r, v) \in DOMAIN d /\ IsEntry(IvKey(r, v))
      BY <3>1, <3>2, EntryKeys
    <3>4. PICK q \in Sid, w \in Val : IvKey(r, v) = IvKey(q, w) /\ q <= L - 1
      BY <2>1, <3>3 DEF IndexOK
    <3>5. r \in Sid /\ r <= L - 1
      BY <3>4 DEF IvKey
    <3>6. s \in Sid /\ s <= L - 2
      BY <1>4, <3>2, <3>5
    <3> QED
      BY <3>1, <3>6
  <2>3. ASSUME NEW s \in 0..(L - 2), s < k
        PROVE  EntriesAt(e, s)
    <3>1. EntriesAt(d, s) /\ s \in Sid
      BY <1>4, <2>1 DEF IndexOK
    <3>2. ASSUME NEW v \in Val
          PROVE  EntryOf(e, s, v) = EntryOf(d, s, v) /\ Links(e, s, v) = Links(d, s, v)
      <4>1. SameAt(e, d, IvKey(s, v))
        BY <1>2, <2>3, <3>1
      <4>2. \A i \in Id : Value(e, i, s) = Value(d, i, s) /\ Newest(e, i, s) = Newest(d, i, s)
        BY <1>3, <2>3 DEF Newest
      <4> QED
        BY <4>1, <4>2, SameEntry, SameLinks
    <3> QED
      BY <3>1, <3>2, EntriesStay
  <2>4. ASSUME NEW s \in 0..(L - 2), ~(s < k), NEW v \in Val
        PROVE  EntryOf(e, s, v) \in Seq(LinkKey) /\ Range(EntryOf(e, s, v)) = Links(e, s, v)
    <3>1. s \in Sid /\ s + 1 \in 0..(L - 1)
      BY <1>4
    <3>2. EntryOf(d, s + 1, v) \in Seq(LinkKey) /\ Range(EntryOf(d, s + 1, v)) = Links(d, s + 1, v)
      BY <2>1, <3>1 DEF IndexOK, EntriesAt
    <3>3. /\ EntryOf(e, s, v) \in Seq(LinkKey)
          /\ \A l : l \in Range(EntryOf(e, s, v)) <=>
                        \E m \in Range(EntryOf(d, s + 1, v)) : l = LowerLink(k, m)
      <4>1. CASE IvKey(s + 1, v) \in DOMAIN d
        <5>1. EntryOf(d, s + 1, v) = d[IvKey(s + 1, v)]
          BY <4>1 DEF EntryOf
        <5>2. EntryOf(e, s, v) = LowerLinks(k, d[IvKey(s + 1, v)])
          BY <1>2, <2>4, <3>1, <4>1 DEF EntryOf
        <5> QED
          BY <3>2, <5>1, <5>2, LowerFacts
      <4>2. CASE IvKey(s + 1, v) \notin DOMAIN d
        <5>1. EntryOf(d, s + 1, v) = <<>>
          BY <4>2 DEF EntryOf
        <5>2. EntryOf(e, s, v) = <<>>
          BY <1>2, <2>4, <3>1, <4>2 DEF EntryOf
        <5>3. <<>> \in Seq(LinkKey) /\ Range(<<>>) = {}
          BY DEF Range
        <5> QED
          BY <5>1, <5>2, <5>3
      <4> QED
        BY <4>1, <4>2
    <3>4. \A i \in Id : Value(e, i, s) = Value(d, i, s + 1)
      BY <1>3, <2>4
    <3>5. ASSUME NEW i \in Id, Value(d, i, s + 1) = v
          PROVE  <<i, Newest(e, i, s)>> = LowerLink(k, <<i, Newest(d, i, s + 1)>>)
      <4>1. UpTo(d, i, s + 1) # {}
        BY <3>5, ConstAssumption DEF Value
      <4>2. Lowered(d, e, i, s, k) /\ Gapless(d, i)
        BY <1>3, <1>5, <2>4
      <4>3. Newest(e, i, s) = IF Newest(d, i, s + 1) > k THEN Newest(d, i, s + 1) - 1 ELSE Newest(d, i, s + 1)
        BY <4>1, <4>2 DEF Lowered, Newest
      <4> QED
        BY <4>3 DEF LowerLink
    <3>6. \A l : l \in Links(e, s, v) <=> \E i \in Id : Value(e, i, s) = v /\ l = <<i, Newest(e, i, s)>>
      BY InLinks
    <3>7. \A m : m \in Links(d, s + 1, v) <=>
                     \E i \in Id : Value(d, i, s + 1) = v /\ m = <<i, Newest(d, i, s + 1)>>
      BY InLinks
    <3>8. \A l : l \in Links(e, s, v) <=> \E m \in Links(d, s + 1, v) : l = LowerLink(k, m)
      <4>1. ASSUME NEW l \in Links(e, s, v)
            PROVE  \E m \in Links(d, s + 1, v) : l = LowerLink(k, m)
        <5>1. PICK i \in Id : Value(e, i, s) = v /\ l = <<i, Newest(e, i, s)>>
          BY <3>6, <4>1
        <5>2. Value(d, i, s + 1) = v
          BY <3>4, <5>1
        <5>3. <<i, Newest(d, i, s + 1)>> \in Links(d, s + 1, v)
          BY <5>2, <3>7
        <5>4. l = LowerLink(k, <<i, Newest(d, i, s + 1)>>)
          BY <3>5, <5>1, <5>2
        <5> QED
          BY <5>3, <5>4, Zenon
      <4>2. ASSUME NEW m \in Links(d, s + 1, v)
            PROVE  LowerLink(k, m) \in Links(e, s, v)
        <5>1. PICK i \in Id : Value(d, i, s + 1) = v /\ m = <<i, Newest(d, i, s + 1)>>
          BY <3>7, <4>2
        <5>2. Value(e, i, s) = v
          BY <3>4, <5>1
        <5>3. LowerLink(k, m) = <<i, Newest(e, i, s)>>
          BY <3>5, <5>1, Zenon
        <5> QED
          BY <3>6, <5>2, <5>3
      <4> QED
        BY <4>1, <4>2, Zenon
    <3> QED
      BY <3>2, <3>3, <3>8
  <2>5. ASSUME NEW s \in 0..(L - 2), ~(s < k)
        PROVE  EntriesAt(e, s)
    BY <2>4, <2>5 DEF EntriesAt
  <2>6. IndexOK(e, L - 2)
    BY <2>2, <2>3, <2>5 DEF IndexOK
  <2> QED
    BY <1>5, <2>6 DEF IdxAt
<1>6. CASE ~ix
  <2>1. \A s, v : IvKey(s, v) \notin DOMAIN d
    BY <1>6, EntryKeys DEF IdxAt
  <2> QED
    BY <1>2, <1>6, <2>1 DEF IdxAt
<1> QED
  BY <1>5, <1>6

-----------------------------------------------------------------------------
(* What the requests on documents make of the store and its index.         *)

\* A new handle leaves the index as it is.
LEMMA NewTop ==
    ASSUME Store # "map", NEW d, snapshotId \in Sid, IdxAt(indexed, d, snapshotId),
           NEW e, e = Written(d, NewHandle)
    PROVE  TopOK(d, e, snapshotId) /\ \A i : SameDoc(e, d, i)
<1>1. \A x : SameAt(e, d, x)
  BY NewWritten
<1>2. snapshotId \in Nat
  BY ConstAssumption DEF Sid
<1> QED
  BY <1>1, <1>2, SameIsTop

\* The index is right after a request on document i, and the document is v if
\* the request worked; nothing else changes.
Did(d, f, got, i, v) ==
    /\ TopOK(d, f, snapshotId)
    /\ \A j : j # i => SameDoc(f, d, j)
    /\ IF got.r = "success" THEN Value(f, i, snapshotId) = v ELSE SameDoc(f, d, i)

\* That is one step of a new handle.
LEMMA NewSteps ==
    ASSUME Store # "map", NEW d, snapshotId \in Sid, IdxAt(indexed, d, snapshotId),
           NEW e, e = Written(d, NewHandle), NEW got, NEW f, f = Written(d, got.h), NEW i, NEW v,
           Stepped(d, e, f, snapshotId, NewHandle, got, i, v)
    PROVE  Did(d, f, got, i, v)
<1>1. TopOK(d, e, snapshotId) /\ \A j : SameDoc(e, d, j)
  BY NewTop
<1>2. CASE got.h = NewHandle /\ got.r # "success"
  <2>1. f = e
    BY <1>2
  <2> QED
    BY <1>1, <1>2, <2>1 DEF Did
<1>3. CASE /\ got.r = "success" /\ TopOK(d, f, snapshotId) /\ Value(f, i, snapshotId) = v
           /\ \A j : j # i => SameDoc(f, e, j)
  <2>1. \A j : j # i => SameDoc(f, d, j)
    BY <1>1, <1>3, SameDocAgain
  <2> QED
    BY <1>3, <2>1 DEF Did
<1> QED
  BY <1>2, <1>3 DEF Stepped

\* insert.
LEMMA InsertTop ==
    ASSUME Store # "map", NEW d, snapshotId \in Sid, IdxAt(indexed, d, snapshotId),
           NEW i \in Id, NEW v \in Val, NEW overwrite \in BOOLEAN, indexed => ~overwrite, NEW ignore,
           NEW got, got = Insert(d, NewHandle, i, v, overwrite, ignore), NEW f, f = Written(d, got.h)
    PROVE  Did(d, f, got, i, v)
<1>1. PICK e : e = Written(d, NewHandle)
  OBVIOUS
<1>2. TopOK(d, e, snapshotId) /\ SameDoc(e, d, i)
  BY <1>1, NewTop
<1>3. HandleOK(d, snapshotId, NewHandle) /\ NewHandle.sid = snapshotId
  BY FreshHandle
<1>4. ASSUME indexed, got.r = "success"
      PROVE  GetJsonValue(d, i, snapshotId) = None
  <2>1. overwrite = FALSE
    BY <1>4
  <2>2. got = Insert(d, NewHandle, i, v, FALSE, ignore)
    BY <2>1
  <2> QED
    BY <1>3, <1>4, <2>2, InsertOld
<1>5. Stepped(d, e, f, snapshotId, NewHandle, got, i, v)
  BY <1>1, <1>2, <1>3, <1>4, InsertStep
<1> QED
  BY <1>1, <1>5, NewSteps

\* removeById.
LEMMA RemoveTop ==
    ASSUME Store # "map", NEW d, snapshotId \in Sid, StoreOK(d, snapshotId), IdxAt(indexed, d, snapshotId),
           indexed => \A w \in Val : Parts[w] = <<w>>, NEW i \in Id, NEW ignore,
           NEW got, got = RemoveById(d, NewHandle, i, ignore), NEW f, f = Written(d, got.h)
    PROVE  Did(d, f, got, i, None)
<1>1. PICK e : e = Written(d, NewHandle)
  OBVIOUS
<1>2. TopOK(d, e, snapshotId) /\ \A j : SameDoc(e, d, j)
  BY <1>1, NewTop
<1>3. HandleOK(d, snapshotId, NewHandle)
  BY FreshHandle
<1>4. Stepped(d, e, f, snapshotId, NewHandle, got, i, None)
  BY <1>1, <1>2, <1>3, RemoveStep
<1> QED
  BY <1>1, <1>4, NewSteps

Searched(d, s, q, docs) ==
    /\ docs \in Seq(DocsAt(d, s)) /\ Distinct(docs)
    /\ Len(docs) \in Nat /\ DOMAIN docs = 1..Len(docs)
    /\ \A n \in DOMAIN docs : /\ docs[n].id \in Id /\ HasStart(d, docs[n].id)
                              /\ Hit(d, s, q, docs[n].id)
                              /\ docs[n].f = Value(d, docs[n].id, s)
    /\ \A i \in Id : Hit(d, s, q, i) => \E n \in DOMAIN docs : docs[n] = Doc(i, Value(d, i, s))

\* That is what a full search returns.
LEMMA SearchHits ==
    ASSUME NEW d, NEW s, NEW q, NEW docs, docs = FullSearch(d, s, q), NEW top, StoreOK(d, top)
    PROVE  Searched(d, s, q, docs)
<1>1. docs \in Seq(DocsAt(d, s))
  BY FullSearchFacts DEF DocsAt
<1>2. Distinct(docs)
  <2>1. Scan(d, s) \in Seq({Doc(i, Value(d, i, s)) : i \in Id}) /\ Distinct(Scan(d, s))
    BY ScanFacts, ScanOnce
  <2> QED
    BY <2>1, OnlyDistinct DEF FullSearch
<1>3. Len(docs) \in Nat /\ DOMAIN docs = 1..Len(docs)
  BY <1>1, LenProperties
<1>4. \A x : x \in Range(docs) <=> \E i \in Id : x = Doc(i, Value(d, i, s)) /\ Value(d, i, s) # None /\ Matches(q, x)
  BY SearchRange
<1>5. ASSUME NEW n \in DOMAIN docs
      PROVE  /\ docs[n].id \in Id /\ HasStart(d, docs[n].id) /\ Hit(d, s, q, docs[n].id)
             /\ docs[n].f = Value(d, docs[n].id, s)
  <2>1. docs[n] \in Range(docs)
    BY DEF Range
  <2>2. PICK i \in Id : docs[n] = Doc(i, Value(d, i, s)) /\ Value(d, i, s) # None /\ Matches(q, docs[n])
    BY <1>4, <2>1
  <2>3. docs[n].id = i /\ docs[n].f = Value(d, i, s)
    BY <2>2 DEF Doc
  <2>4. HasStart(d, i)
    BY <2>2, ValueThere
  <2> QED
    BY <2>2, <2>3, <2>4 DEF Hit
<1>6. ASSUME NEW i \in Id, Hit(d, s, q, i)
      PROVE  \E n \in DOMAIN docs : docs[n] = Doc(i, Value(d, i, s))
  <2>1. Doc(i, Value(d, i, s)) \in Range(docs)
    BY <1>4, <1>6 DEF Hit
  <2> QED
    BY <2>1 DEF Range
<1> QED
  BY <1>1, <1>2, <1>3, <1>5, <1>6 DEF Searched

\* The index is right, the documents that the query asks for are gone if the
\* request worked, some of them otherwise; nothing else changes.
Cleared(d, f, got, q) ==
    /\ TopOK(d, f, snapshotId)
    /\ \A i \in Id : \/ SameDoc(f, d, i)
                     \/ Hit(d, snapshotId, q, i) /\ Value(f, i, snapshotId) = None
    /\ got.r = "success" =>
           \A i \in Id : Hit(d, snapshotId, q, i) => Value(f, i, snapshotId) = None

\* A plain query goes through the index or is a full search without a limit.
LEMMA FindWays ==
    ASSUME NEW d, NEW q, Plain(q), NEW found, found = Find(d, NewHandle, q, None)
    PROVE  \/ found.byLink /\ indexed
           \/ /\ found.r = "success" /\ ~found.byLink
              /\ found.reply = FullSearch(d, snapshotId, q)
<1>1. NewHandle.sid = snapshotId
  BY DEF NewHandle
<1>2. q.kind # "id"
  BY DEF Plain, All, ByField
<1>3. CASE ~(q.kind = "f" /\ indexed)
  <2>1. found = [r |-> "success", byLink |-> FALSE, reply |-> ApplyOptions(FullSearch(d, snapshotId, q), None)]
    BY <1>1, <1>2, <1>3 DEF Find
  <2>2. ApplyOptions(FullSearch(d, snapshotId, q), None) = FullSearch(d, snapshotId, q)
    BY Zenon DEF ApplyOptions
  <2> QED
    BY <2>1, <2>2
<1>4. CASE q.kind = "f" /\ indexed
  <2>1. found.byLink
    BY <1>2, <1>4 DEF Find
  <2> QED
    BY <1>4, <2>1
<1> QED
  BY <1>3, <1>4

\* removeById for documents a find through link keys returned, or for none.
LEMMA RemoveEachLinks ==
    ASSUME NEW d, NEW acc, NEW found, NEW docs, found.byLink, NEW got, got = RemoveEach(d, acc, found, docs)
    PROVE  got.h = acc.h /\ (got.r = "success" => docs = <<>>)
<1> DEFINE L == Len(docs)
           after == CHOOSE f : IsRemoving(f, d, acc, docs, L)
<1>1. \/ acc.r # "success" /\ got = acc
      \/ got = Result(acc.h, "errorDatabase") /\ docs # <<>>
      \/ docs = <<>> /\ got = after[L]
  BY Zenon DEF RemoveEach, IsRemoving
<1> HIDE DEF after
<1>2. Result(acc.h, "errorDatabase").h = acc.h /\ Result(acc.h, "errorDatabase").r # "success"
  BY DEF Result
<1>3. ASSUME docs = <<>>
      PROVE  after[L] = acc
  <2>1. L = 0 /\ L \in Nat
    BY <1>3
  <2> HIDE DEF L
  <2>2. IsRemoving(after, d, acc, docs, L)
    <3>1. \E g : IsRemoving(g, d, acc, docs, L)
      BY <2>1, RemovingExists
    <3> QED
      BY <3>1, Zenon DEF after
  <2>3. after[0] = acc
    <3>1. 0 \in 0..0
      OBVIOUS
    <3> QED
      BY <2>1, <2>2, <3>1 DEF IsRemoving
  <2> QED
    BY <2>1, <2>3
<1> QED
  BY <1>1, <1>2, <1>3

\* remove, by query.
LEMMA RemoveQueryTop ==
    ASSUME Store # "map", NEW d, snapshotId \in Sid, StoreOK(d, snapshotId), IdxAt(indexed, d, snapshotId),
           indexed => \A w \in Val : Parts[w] = <<w>>, NEW q, Plain(q),
           NEW got, got = RemoveByQuery(d, NewHandle, q), NEW f, f = Written(d, got.h)
    PROVE  Cleared(d, f, got, q)
<1>1. PICK e : e = Written(d, NewHandle)
  OBVIOUS
<1>2. TopOK(d, e, snapshotId) /\ \A j : SameDoc(e, d, j)
  BY <1>1, NewTop
<1>3. HandleOK(d, snapshotId, NewHandle)
  BY FreshHandle
<1>4. PICK found : found = Find(d, NewHandle, q, None)
  OBVIOUS
<1>5. PICK acc : acc = Result(NewHandle, found.r)
  OBVIOUS
<1>6. acc.h = NewHandle /\ acc.r = found.r
  BY <1>5 DEF Result
<1>7. got = RemoveEach(d, acc, found, found.reply)
  BY <1>4, <1>5, Zenon DEF RemoveByQuery
<1>8. CASE found.byLink
  <2>1. got.h = acc.h /\ (got.r = "success" => found.reply = <<>>)
    BY <1>7, <1>8, RemoveEachLinks
  <2>2. f = e
    BY <1>1, <1>6, <2>1
  <2>3. ASSUME got.r = "success", NEW i \in Id, Hit(d, snapshotId, q, i)
        PROVE  FALSE
    <3>1. found.reply = <<>>
      BY <2>1, <2>3
    <3>2. Range(found.reply) = Range(FullSearch(d, snapshotId, q))
      BY <1>4, FindSame
    <3>3. Range(<<>>) = {}
      BY DEF Range
    <3>4. Doc(i, Value(d, i, snapshotId)) \in Range(FullSearch(d, snapshotId, q))
      BY <2>3, SearchRange DEF Hit
    <3> QED
      BY <3>1, <3>2, <3>3, <3>4
  <2> QED
    BY <1>2, <2>2, <2>3 DEF Cleared
<1>9. CASE found.r = "success" /\ ~found.byLink /\ found.reply = FullSearch(d, snapshotId, q)
  <2>1. PICK docs : docs = found.reply
    OBVIOUS
  <2>2. docs = FullSearch(d, snapshotId, q)
    BY <1>9, <2>1
  <2>3. /\ docs \in Seq(DocsAt(d, snapshotId)) /\ Distinct(docs) /\ DOMAIN docs = 1..Len(docs)
        /\ \A n \in DOMAIN docs : /\ docs[n].id \in Id /\ HasStart(d, docs[n].id)
                                  /\ Hit(d, snapshotId, q, docs[n].id)
        /\ \A i \in Id : Hit(d, snapshotId, q, i) =>
               \E n \in DOMAIN docs : docs[n] = Doc(i, Value(d, i, snapshotId))
    BY <2>2, SearchHits DEF Searched
  <2>4. HandleOK(d, snapshotId, acc.h) /\ acc.r = "success" /\ e = Written(d, acc.h)
    BY <1>1, <1>3, <1>6, <1>9
  <2>5. \A n \in DOMAIN docs : docs[n].id \in Id /\ HasStart(d, docs[n].id) /\ SameDoc(e, d, docs[n].id)
    BY <1>2, <2>3
  <2>6. got = RemoveEach(d, acc, found, docs)
    BY <1>7, <2>1
  <2>7. /\ TopOK(d, f, snapshotId) /\ Went(f, e, docs, Len(docs), snapshotId)
        /\ got.r = "success" => AllWent(f, docs, Len(docs), snapshotId)
    BY <1>2, <1>9, <2>3, <2>4, <2>5, <2>6, RemoveEachTop
  <2>8. ASSUME NEW i \in Id
        PROVE  \/ SameDoc(f, d, i)
               \/ Hit(d, snapshotId, q, i) /\ Value(f, i, snapshotId) = None
    <3>1. CASE SameDoc(f, e, i)
      BY <1>2, <3>1, SameDocAgain
    <3>2. CASE Value(f, i, snapshotId) = None /\ \E m \in 1..Len(docs) : docs[m].id = i
      BY <2>3, <3>2
    <3> QED
      BY <2>7, <3>1, <3>2 DEF Went
  <2>9. ASSUME got.r = "success", NEW i \in Id, Hit(d, snapshotId, q, i)
        PROVE  Value(f, i, snapshotId) = None
    <3>1. PICK n \in DOMAIN docs : docs[n] = Doc(i, Value(d, i, snapshotId))
      BY <2>3, <2>9
    <3>2. docs[n].id = i /\ n \in 1..Len(docs)
      BY <2>3, <3>1 DEF Doc
    <3> QED
      BY <2>7, <2>9, <3>2 DEF AllWent
  <2> QED
    BY <2>7, <2>8, <2>9 DEF Cleared
<1> QED
  BY <1>4, <1>8, <1>9, FindWays

\* A document that set brings in or keeps.
NewFor(q, docs, i, x) == x \in Range(docs) /\ x.id = i /\ Matches(q, x)

\* The documents of the list that the query asks for are there if the request
\* worked and the others it asks for are gone; or only some of this is done.
Replaced(d, f, got, q, docs) ==
    /\ TopOK(d, f, snapshotId)
    /\ \A i \in Id : \A x : NewFor(q, docs, i, x) =>
           /\ SameDoc(f, d, i) \/ Value(f, i, snapshotId) = x.f
           /\ got.r = "success" => Value(f, i, snapshotId) = x.f
    /\ \A i \in Id : (\A x : ~NewFor(q, docs, i, x)) =>
           /\ SameDoc(f, d, i) \/ (Hit(d, snapshotId, q, i) /\ Value(f, i, snapshotId) = None)
           /\ got.r = "success" /\ Hit(d, snapshotId, q, i) => Value(f, i, snapshotId) = None

\* The steps of set, named.
SetMatching(q, docs) == {x \in Range(docs) : Matches(q, x)}

SetKnown(docs, reply) == Range(docs) \intersect Range(reply)

SetInserted(q, docs, reply) == Only(docs, SetMatching(q, docs) \ SetKnown(docs, reply))

SetKept(q, docs, reply) == {x.id : x \in SetKnown(docs, reply) \union SetMatching(q, docs)}

SetRest(q, docs, found) ==
    Only(found.reply, {x \in Range(found.reply) : found.byLink \/ x.id \notin SetKept(q, docs, found.reply)})

\* set inserts the documents that are not there and removes the rest.
LEMMA SetSteps ==
    ASSUME NEW d, NEW h, NEW q, NEW docs, NEW found, found = Find(d, h, q, None)
    PROVE  SetDocs(d, h, q, docs) =
               RemoveEach(d, InsertEach(d, h, SetInserted(q, docs, found.reply)), found, SetRest(q, docs, found))
BY Zenon DEF SetDocs, SetInserted, SetRest, SetKept, SetMatching, SetKnown

\* set, without an index.
LEMMA SetTop ==
    ASSUME Store # "map", ~indexed, NEW d, snapshotId \in Sid, StoreOK(d, snapshotId),
           IdxAt(indexed, d, snapshotId), NEW q, Plain(q),
           NEW docs \in Seq([id : Id, f : Val]),
           NEW got, got = SetDocs(d, NewHandle, q, docs), NEW f, f = Written(d, got.h)
    PROVE  TopOK(d, f, snapshotId) /\ (Distinct(docs) => Replaced(d, f, got, q, docs))
<1>1. PICK e : e = Written(d, NewHandle)
  OBVIOUS
<1>2. TopOK(d, e, snapshotId) /\ \A j : SameDoc(e, d, j)
  BY <1>1, NewTop
<1>3. HandleOK(d, snapshotId, NewHandle)
  BY FreshHandle
<1>4. PICK found : found = Find(d, NewHandle, q, None)
  OBVIOUS
<1>5. PICK reply : reply = FullSearch(d, snapshotId, q)
  OBVIOUS
<1>6. ~found.byLink /\ found.reply = reply
  BY <1>4, <1>5, FindWays
<1>7. Searched(d, snapshotId, q, reply)
  BY <1>5, SearchHits
<1>8. PICK ins : ins = SetInserted(q, docs, reply)
  OBVIOUS
<1>9. PICK rest : rest = SetRest(q, docs, found)
  OBVIOUS
<1>10. PICK acc : acc = InsertEach(d, NewHandle, ins)
  OBVIOUS
<1>11. got = RemoveEach(d, acc, found, rest)
  BY <1>4, <1>6, <1>8, <1>9, <1>10, SetSteps
<1>12. \A x \in Range(docs) : x.id \in Id /\ x.f \in Val
  <2>1. DOMAIN docs = 1..Len(docs) /\ \A n \in 1..Len(docs) : docs[n] \in [id : Id, f : Val]
    BY LenProperties, ElementOfSeq
  <2> QED
    BY <2>1 DEF Range
\* No two documents of the list have one identifier.
<1>13. ASSUME Distinct(docs)
       PROVE  \A x, y \in Range(docs) : x.id = y.id => x = y
  BY <1>13 DEF Range, Distinct
<1>14. \A x : x \in Range(reply) => Hit(d, snapshotId, q, x.id) /\ x.f = Value(d, x.id, snapshotId) /\ Matches(q, x)
  <2> SUFFICES ASSUME NEW n \in DOMAIN reply
               PROVE  /\ Hit(d, snapshotId, q, reply[n].id) /\ reply[n].f = Value(d, reply[n].id, snapshotId)
                      /\ Matches(q, reply[n])
    BY DEF Range
  <2>1. Hit(d, snapshotId, q, reply[n].id) /\ reply[n].f = Value(d, reply[n].id, snapshotId)
    BY <1>7 DEF Searched
  <2>2. reply[n] \in DocsAt(d, snapshotId)
    BY <1>7, ElementOfSeq DEF Searched
  <2>3. PICK i \in Id : reply[n] = Doc(i, Value(d, i, snapshotId))
    BY <2>2 DEF DocsAt
  <2>4. reply[n].id = i
    BY <2>3 DEF Doc
  <2> QED
    BY <2>1, <2>3, <2>4 DEF Hit
<1>15. /\ ins \in Seq([id : Id, f : Val]) /\ (Distinct(docs) => Distinct(ins)) /\ Len(ins) \in Nat /\ DOMAIN ins = 1..Len(ins)
       /\ \A x : x \in Range(ins) <=> x \in Range(docs) /\ Matches(q, x) /\ x \notin Range(reply)
  <2>1. PICK S : S = SetMatching(q, docs) \ SetKnown(docs, reply)
    OBVIOUS
  <2>2. ins = Only(docs, S)
    BY <1>8, <2>1 DEF SetInserted
  <2>3. ins \in Seq([id : Id, f : Val] \intersect S) /\ Range(ins) = Range(docs) \intersect S
    BY <2>2, OnlyFacts
  <2>4. Distinct(docs) => Distinct(ins)
    BY <2>2, OnlyDistinct
  <2>5. Len(ins) \in Nat /\ DOMAIN ins = 1..Len(ins)
    BY <2>3, LenProperties
  <2>6. ins \in Seq([id : Id, f : Val])
    <3>1. PICK T : T = [id : Id, f : Val]
      OBVIOUS
    <3>2. ins \in Seq(T \intersect S)
      BY <2>3, <3>1
    <3>3. T \intersect S \subseteq T
      OBVIOUS
    <3>4. Seq(T \intersect S) \subseteq Seq(T)
      BY <3>3, SeqMonotonic
    <3> QED
      BY <3>1, <3>2, <3>4
  <2> QED
    BY <2>1, <2>3, <2>4, <2>5, <2>6 DEF SetMatching, SetKnown
<1>16. /\ rest \in Seq(DocsAt(d, snapshotId)) /\ Distinct(rest) /\ Len(rest) \in Nat /\ DOMAIN rest = 1..Len(rest)
       /\ \A x : x \in Range(rest) <=> x \in Range(reply) /\ \A y : ~NewFor(q, docs, x.id, y)
  <2>1. PICK S : S = {x \in Range(found.reply) : found.byLink \/ x.id \notin SetKept(q, docs, found.reply)}
    OBVIOUS
  <2>2. rest = Only(reply, S)
    BY <1>6, <1>9, <2>1 DEF SetRest
  <2>3. reply \in Seq(DocsAt(d, snapshotId)) /\ Distinct(reply)
    BY <1>7 DEF Searched
  <2>4. rest \in Seq(DocsAt(d, snapshotId) \intersect S) /\ Range(rest) = Range(reply) \intersect S
    BY <2>2, <2>3, OnlyFacts
  <2>5. Distinct(rest)
    BY <2>2, <2>3, OnlyDistinct
  <2>6. Len(rest) \in Nat /\ DOMAIN rest = 1..Len(rest) /\ rest \in Seq(DocsAt(d, snapshotId))
    BY <2>4, LenProperties
  <2>7. ASSUME NEW i
        PROVE  i \in SetKept(q, docs, reply) <=> \E y : NewFor(q, docs, i, y)
    <3>1. SetKnown(docs, reply) \subseteq SetMatching(q, docs)
      BY <1>14 DEF SetKnown, SetMatching
    <3>2. i \in SetKept(q, docs, reply) <=> \E y \in SetMatching(q, docs) : y.id = i
      BY <3>1 DEF SetKept
    <3> QED
      BY <3>2 DEF SetMatching, NewFor
  <2>8. \A x : x \in S <=> x \in Range(reply) /\ x.id \notin SetKept(q, docs, reply)
    BY <1>6, <2>1
  <2> QED
    BY <2>4, <2>5, <2>6, <2>7, <2>8
<1>17. PICK g : g = Written(d, acc.h)
  OBVIOUS
<1>18. /\ TopOK(d, g, snapshotId) /\ Came(g, e, ins, Len(ins), snapshotId)
       /\ acc.r = "success" /\ Distinct(docs) => AllCame(g, ins, Len(ins), snapshotId)
  <2>1. PICK T : T = [id : Id, f : Val]
    OBVIOUS
  <2>2. \A x \in T : x.id \in Id /\ x.f \in Val
    BY <2>1
  <2>3. ins \in Seq(T)
    BY <1>15, <2>1
  <2> QED
    BY <1>1, <1>2, <1>3, <1>10, <1>15, <1>17, <2>2, <2>3, InsertEachTop
\* What insert did to the documents.
<1>19. ASSUME Distinct(docs), NEW i \in Id, NEW x, NewFor(q, docs, i, x)
       PROVE  /\ SameDoc(g, d, i) \/ Value(g, i, snapshotId) = x.f
              /\ acc.r = "success" => Value(g, i, snapshotId) = x.f
  <2>1. x \in Range(docs) /\ x.id = i /\ Matches(q, x)
    BY <1>19 DEF NewFor
  <2>2. CASE x \in Range(ins)
    <3>1. PICK m \in 1..Len(ins) : ins[m] = x
      BY <1>15, <2>2 DEF Range
    <3>2. \A n \in 1..Len(ins) : ins[n].id = i => ins[n] = x
      <4> SUFFICES ASSUME NEW n \in 1..Len(ins), ins[n].id = i PROVE ins[n] = x
        OBVIOUS
      <4>1. ins[n] \in Range(ins)
        BY <1>15 DEF Range
      <4> QED
        BY <1>13, <1>15, <1>19, <2>1, <4>1
    <3>3. acc.r = "success" => Value(g, i, snapshotId) = x.f
      BY <1>18, <1>19, <2>1, <3>1 DEF AllCame
    <3>4. SameDoc(g, e, i) \/ Value(g, i, snapshotId) = x.f
      BY <1>18, <3>2 DEF Came
    <3> QED
      BY <1>2, <3>3, <3>4, SameDocAgain
  <2>3. CASE x \notin Range(ins)
    <3>1. x \in Range(reply) /\ x.f = Value(d, i, snapshotId)
      BY <1>14, <1>15, <2>1, <2>3
    <3>2. \A n \in 1..Len(ins) : ins[n].id # i
      <4> SUFFICES ASSUME NEW n \in 1..Len(ins), ins[n].id = i PROVE FALSE
        OBVIOUS
      <4>1. ins[n] \in Range(ins)
        BY <1>15 DEF Range
      <4>2. ins[n] = x
        BY <1>13, <1>15, <1>19, <2>1, <4>1
      <4> QED
        BY <2>3, <4>1, <4>2
    <3>3. SameDoc(g, d, i)
      BY <1>2, <1>18, <3>2, SameDocAgain DEF Came
    <3>4. Value(g, i, snapshotId) = Value(d, i, snapshotId)
      BY <3>3, SameDocRead
    <3> QED
      BY <3>1, <3>3, <3>4
  <2> QED
    BY <2>2, <2>3
<1>20. ASSUME NEW i \in Id, \A x : ~NewFor(q, docs, i, x)
       PROVE  SameDoc(g, d, i)
  <2>1. \A n \in 1..Len(ins) : ins[n].id # i
    <3> SUFFICES ASSUME NEW n \in 1..Len(ins), ins[n].id = i PROVE FALSE
      OBVIOUS
    <3>1. ins[n] \in Range(ins)
      BY <1>15 DEF Range
    <3> QED
      BY <1>15, <1>20, <3>1 DEF NewFor
  <2> QED
    BY <1>2, <1>18, <2>1, SameDocAgain DEF Came
<1>21. CASE acc.r # "success"
  <2>1. got = acc
    BY <1>11, <1>21, Zenon DEF RemoveEach
  <2>2. f = g
    BY <1>17, <2>1
  <2> QED
    BY <1>18, <1>19, <1>20, <1>21, <2>1, <2>2 DEF Replaced
<1>22. CASE acc.r = "success"
  <2>1. HandleOK(d, snapshotId, acc.h)
    <3>1. PICK T : T = [id : Id, f : Val]
      OBVIOUS
    <3>2. \A x \in T : x.f \in Val
      BY <3>1
    <3>3. ins \in Seq(T)
      BY <1>15, <3>1
    <3> QED
      BY <1>3, <1>10, <3>2, <3>3, InsertEachHandle
  <2>2. ASSUME NEW n \in DOMAIN rest
        PROVE  /\ rest[n].id \in Id /\ HasStart(d, rest[n].id) /\ SameDoc(g, d, rest[n].id)
               /\ Hit(d, snapshotId, q, rest[n].id) /\ \A y : ~NewFor(q, docs, rest[n].id, y)
    <3>1. rest[n] \in Range(rest)
      BY DEF Range
    <3>2. rest[n] \in Range(reply) /\ \A y : ~NewFor(q, docs, rest[n].id, y)
      BY <1>16, <3>1
    <3>3. PICK m \in DOMAIN reply : reply[m] = rest[n]
      BY <3>2 DEF Range
    <3>4. rest[n].id \in Id /\ HasStart(d, rest[n].id) /\ Hit(d, snapshotId, q, rest[n].id)
      BY <1>7, <3>3 DEF Searched
    <3> QED
      BY <1>20, <3>2, <3>4
  <2>3. /\ TopOK(d, f, snapshotId) /\ Went(f, g, rest, Len(rest), snapshotId)
        /\ got.r = "success" => AllWent(f, rest, Len(rest), snapshotId)
    BY <1>6, <1>11, <1>16, <1>17, <1>18, <1>22, <2>1, <2>2, RemoveEachTop
  <2>4. ASSUME NEW i \in Id, NEW x, NewFor(q, docs, i, x)
        PROVE  SameDoc(f, g, i)
    <3>1. \A m \in 1..Len(rest) : rest[m].id # i
      BY <1>16, <2>2, <2>4
    <3> QED
      BY <2>3, <3>1 DEF Went
  <2>5. ASSUME Distinct(docs), NEW i \in Id, NEW x, NewFor(q, docs, i, x)
        PROVE  /\ SameDoc(f, d, i) \/ Value(f, i, snapshotId) = x.f
               /\ Value(f, i, snapshotId) = x.f
    <3>1. SameDoc(f, g, i)
      BY <2>4, <2>5
    <3>2. Value(g, i, snapshotId) = x.f
      BY <1>19, <1>22, <2>5
    <3> QED
      BY <3>1, <3>2, SameDocRead
  <2>6. ASSUME NEW i \in Id, \A x : ~NewFor(q, docs, i, x)
        PROVE  /\ SameDoc(f, d, i) \/ (Hit(d, snapshotId, q, i) /\ Value(f, i, snapshotId) = None)
               /\ got.r = "success" /\ Hit(d, snapshotId, q, i) => Value(f, i, snapshotId) = None
    <3>1. SameDoc(g, d, i)
      BY <1>20, <2>6
    <3>2. SameDoc(f, d, i) \/ (Hit(d, snapshotId, q, i) /\ Value(f, i, snapshotId) = None)
      <4>1. CASE SameDoc(f, g, i)
        BY <3>1, <4>1, SameDocAgain
      <4>2. CASE Value(f, i, snapshotId) = None /\ \E m \in 1..Len(rest) : rest[m].id = i
        BY <1>16, <2>2, <4>2
      <4> QED
        BY <2>3, <4>1, <4>2 DEF Went
    <3>3. ASSUME got.r = "success", Hit(d, snapshotId, q, i)
          PROVE  Value(f, i, snapshotId) = None
      <4>1. PICK n \in DOMAIN reply : reply[n] = Doc(i, Value(d, i, snapshotId))
        BY <1>7, <3>3 DEF Searched
      <4>2. reply[n] \in Range(reply) /\ reply[n].id = i
        BY <4>1 DEF Range, Doc
      <4>3. reply[n] \in Range(rest)
        BY <1>16, <2>6, <4>2
      <4>4. PICK m \in 1..Len(rest) : rest[m] = reply[n]
        BY <1>16, <4>3 DEF Range
      <4> QED
        BY <2>3, <3>3, <4>2, <4>4 DEF AllWent
    <3> QED
      BY <3>2, <3>3
  <2> QED
    BY <2>3, <2>5, <2>6 DEF Replaced
<1> QED
  BY <1>21, <1>22

-----------------------------------------------------------------------------
(* The index of the collection and of its snapshots.                       *)

\* What the index relies on: no transactions, and the rules of the clients that
\* the requests on snapshots and on the index need, and that a failed one needs.
Indexable ==
    /\ Sheltered /\ Tx = {} /\ "reopens" \in Discipline
    /\ \A q \in Query : Plain(q)
    /\ "createIndex" \in Ops =>
          /\ {"indexFirst", "fresh"} \subseteq Discipline
          /\ "removeSnapshot" \in Ops => "noGaps" \in Discipline
          /\ \A v \in Val : Parts[v] = <<v>>

\* The index of every snapshot is right, in the store and in the one in doubt.
IndexRight(ix, d, ss) == IdxAt(ix, d, Len(ss) - 1) /\ (ix => "createIndex" \in Ops)

XInv ==
    /\ IndexRight(indexed, db, snapshots)
    /\ \A u \in inDoubt : IndexRight(u.indexed, u.db, u.snapshots)

\* The parts of the invariants that the requests need.
LEMMA IndexedStore ==
    ASSUME Indexable, CInv, XInv
    PROVE  /\ Store # "map" /\ Store = "leveldb" /\ "reopens" \in Discipline
           /\ snapshotId = Len(snapshots) - 1 /\ snapshotId \in Sid /\ Len(snapshots) \in Nat \ {0}
           /\ Len(snapshots) <= SnapshotIds
           /\ StoreOK(db, snapshotId) /\ IdxAt(indexed, db, snapshotId)
           /\ indexed => /\ {"indexFirst", "fresh"} \subseteq Discipline
                         /\ "removeSnapshot" \in Ops => "noGaps" \in Discipline
                         /\ \A v \in Val : Parts[v] = <<v>>
<1>1. Len(snapshots) <= SnapshotIds /\ StoreOK(db, Len(snapshots) - 1)
  BY DEF CInv, DInv, Goes
<1>2. snapshotId = Len(snapshots) - 1 /\ snapshotId \in Sid /\ Len(snapshots) \in Nat \ {0}
  BY <1>1, LastId DEF CInv
<1>3. IdxAt(indexed, db, snapshotId) /\ (indexed => "createIndex" \in Ops)
  BY <1>2 DEF XInv, IndexRight
<1>4. Store = "leveldb"
  BY DEF Indexable, Sheltered
<1>5. Store # "map"
  BY <1>4
<1> QED
  BY <1>1, <1>2, <1>3, <1>4, <1>5 DEF Indexable

\* Nothing is written behind a failed write.
LEMMA NothingBehind ==
    ASSUME Store = "leveldb", "reopens" \in Discipline, NEW STATE h, NEW STATE ss, NEW STATE ix
    PROVE  /\ StoreWrites(h, ss, ix) => inDoubt = {} /\ inDoubt' = {}
           /\ StoreFails(h, ss, ix) => \/ inDoubt' = inDoubt
                                       \/ inDoubt = {} /\ inDoubt' = {Landed(Committed, h, ss, ix)}
           /\ Landed(Committed, h, ss, ix) =
                 [db |-> Written(db, h), snapshots |-> ss, indexed |-> ix]
<1>1. StoreWrites(h, ss, ix) => inDoubt = {} /\ inDoubt' = {}
  BY DEF StoreWrites, MayWrite
<1>2. ASSUME StoreFails(h, ss, ix)
      PROVE  inDoubt' = inDoubt \/ (inDoubt = {} /\ inDoubt' = {Landed(Committed, h, ss, ix)})
  <2>1. \/ inDoubt' = inDoubt
        \/ /\ inDoubt = {}
           /\ inDoubt' = inDoubt \union {Landed(u, h, ss, ix) : u \in inDoubt \union {Committed}}
    BY <1>2 DEF StoreFails, MayWrite
  <2>2. inDoubt = {} => {Landed(u, h, ss, ix) : u \in inDoubt \union {Committed}}
                            = {Landed(Committed, h, ss, ix)}
    OBVIOUS
  <2> QED
    BY <2>1, <2>2
<1>3. Landed(Committed, h, ss, ix) = [db |-> Written(db, h), snapshots |-> ss, indexed |-> ix]
  BY DEF Landed, Committed
<1> QED
  BY <1>1, <1>2, <1>3

\* A write whose result has a right index: done, in doubt, or not done.
LEMMA WriteIndex ==
    ASSUME Store = "leveldb", "reopens" \in Discipline, XInv, NEW STATE h, NEW STATE ss, NEW STATE ix,
           IndexRight(ix, Written(db, h), ss), StoreWrites(h, ss, ix) \/ StoreFails(h, ss, ix)
    PROVE  XInv'
<1> DEFINE e == Written(db, h)
<1>1. CASE StoreWrites(h, ss, ix)
  <2>1. db' = e /\ snapshots' = ss /\ indexed' = ix /\ inDoubt' = {}
    BY <1>1, NothingBehind DEF StoreWrites
  <2> HIDE DEF e
  <2> QED
    BY <2>1 DEF XInv, IndexRight, IdxAt, IndexOK, EntriesAt, e
<1>2. CASE StoreFails(h, ss, ix)
  <2>1. UNCHANGED <<db, snapshots, indexed>>
        /\ (inDoubt' = inDoubt \/ inDoubt' = {[db |-> e, snapshots |-> ss, indexed |-> ix]})
    BY <1>2, NothingBehind DEF StoreFails
  <2> HIDE DEF e
  <2>2. \A u \in inDoubt' : IndexRight(u.indexed, u.db, u.snapshots)
    BY <2>1 DEF XInv, e
  <2> QED
    BY <2>1, <2>2 DEF XInv
<1> QED
  BY <1>1, <1>2

\* Nothing is written.
LEMMA IndexRests ==
    ASSUME XInv, UNCHANGED <<db, snapshots, indexed, inDoubt>>
    PROVE  XInv'
BY DEF XInv

\* A handle that keeps the index of the current snapshot right.
LEMMA HandleIndex ==
    ASSUME Indexable, CInv, XInv, NEW h, HandleOK(db, snapshotId, h),
           NEW e, e = Written(db, h), TopOK(db, e, snapshotId)
    PROVE  IndexRight(indexed, e, snapshots)
<1>1. DocWrite(db, e, snapshotId)
  BY IndexedStore, HandleGoes DEF CInv
<1>2. IdxAt(indexed, e, snapshotId)
  BY <1>1, IndexedStore, TopIndex
<1> QED
  BY <1>2, IndexedStore DEF IndexRight, XInv

\* A request on documents, which works on a handle of its own.
LEMMA PerformIndex ==
    ASSUME Indexable, CInv, XInv, NEW x \in Tx \union {NoTx}, NEW STATE call, NEW STATE res,
           HandleOK(db, snapshotId, res.h), TopOK(db, Written(db, res.h), snapshotId),
           Perform(x, call, res)
    PROVE  XInv'
<1>1. x = NoTx
  BY DEF Indexable
<1>2. StoreWrites(res.h, snapshots, indexed) \/ StoreFails(res.h, snapshots, indexed)
  BY <1>1 DEF Perform, WriteHandle
<1>3. IndexRight(indexed, Written(db, res.h), snapshots)
  BY HandleIndex
<1> QED
  BY <1>2, <1>3, IndexedStore, WriteIndex

\* insert, removeId, remove and set keep the index of the current snapshot.
LEMMA DocumentsIndex ==
    ASSUME Indexable, CInv, XInv, NEW x \in Tx \union {NoTx}
    PROVE  /\ \A i \in Id, v \in Val, overwrite \in Overwrite, ignore \in Ignore :
                 InsertRequest(x, i, v, overwrite, ignore) => XInv'
           /\ \A i \in Id, ignore \in Ignore : RemoveIdRequest(x, i, ignore) => XInv'
           /\ \A q \in Query : RemoveRequest(x, q) => XInv'
           /\ \A q \in Query, docs \in Docs : SetRequest(x, q, docs) => XInv'
<1>1. HandleOf(x) = NewHandle /\ HandleOK(db, snapshotId, NewHandle)
  BY NewHandleOK DEF Indexable, HandleOf
<1>2. ASSUME NEW i \in Id, NEW v \in Val, NEW overwrite \in Overwrite, NEW ignore \in Ignore,
             InsertRequest(x, i, v, overwrite, ignore)
      PROVE  XInv'
  <2> DEFINE got == Insert(db, NewHandle, i, v, overwrite, ignore)
  <2>1. Perform(x, <<"insert", i, v, ignore>>, got) /\ (overwrite => MayOverwrite)
    BY <1>1, <1>2 DEF InsertRequest
  <2>2. indexed => ~overwrite
    BY <2>1, IndexedStore DEF MayOverwrite
  <2>3. HandleOK(db, snapshotId, got.h)
    BY <1>1, InsertHandle
  <2>4. overwrite \in BOOLEAN
    BY ConstAssumption
  <2>5. TopOK(db, Written(db, got.h), snapshotId)
    <3>1. PICK gg, ff : gg = got /\ ff = Written(db, gg.h)
      OBVIOUS
    <3>2. Did(db, ff, gg, i, v)
      BY <2>2, <2>4, <3>1, IndexedStore, InsertTop
    <3> QED
      BY <3>1, <3>2 DEF Did
  <2> HIDE DEF got
  <2> QED
    BY <2>1, <2>3, <2>5, PerformIndex
<1>3. ASSUME NEW i \in Id, NEW ignore \in Ignore, RemoveIdRequest(x, i, ignore)
      PROVE  XInv'
  <2> DEFINE got == RemoveById(db, NewHandle, i, ignore)
  <2>1. Perform(x, <<"removeId", i, ignore>>, got)
    BY <1>1, <1>3 DEF RemoveIdRequest
  <2>2. HandleOK(db, snapshotId, got.h)
    BY <1>1, IndexedStore, RemoveHandle
  <2>3. TopOK(db, Written(db, got.h), snapshotId)
    <3>1. PICK gg, ff : gg = got /\ ff = Written(db, gg.h)
      OBVIOUS
    <3>2. Did(db, ff, gg, i, None)
      BY <3>1, IndexedStore, RemoveTop
    <3> QED
      BY <3>1, <3>2 DEF Did
  <2> HIDE DEF got
  <2> QED
    BY <2>1, <2>2, <2>3, PerformIndex
<1>4. ASSUME NEW q \in Query, RemoveRequest(x, q)
      PROVE  XInv'
  <2> DEFINE got == RemoveByQuery(db, NewHandle, q)
  <2>1. Perform(x, <<"remove", q>>, got)
    BY <1>1, <1>4 DEF RemoveRequest
  <2>2. HandleOK(db, snapshotId, got.h)
    BY <1>1, IndexedStore, RequestHandles
  <2>3. TopOK(db, Written(db, got.h), snapshotId)
    <3>1. PICK gg, ff : gg = got /\ ff = Written(db, gg.h)
      OBVIOUS
    <3>2. Plain(q)
      BY DEF Indexable
    <3>3. Cleared(db, ff, gg, q)
      BY <3>1, <3>2, IndexedStore, RemoveQueryTop
    <3> QED
      BY <3>1, <3>3 DEF Cleared
  <2> HIDE DEF got
  <2> QED
    BY <2>1, <2>2, <2>3, PerformIndex
<1>5. ASSUME NEW q \in Query, NEW docs \in Docs, SetRequest(x, q, docs)
      PROVE  XInv'
  <2> DEFINE got == SetDocs(db, NewHandle, q, docs)
  <2>1. Perform(x, <<"set", q, docs>>, got) /\ MayOverwrite
    BY <1>1, <1>5 DEF SetRequest
  <2>2. ~indexed
    BY <2>1, IndexedStore DEF MayOverwrite
  <2>3. HandleOK(db, snapshotId, got.h)
    BY <1>1, IndexedStore, RequestHandles
  <2>4. TopOK(db, Written(db, got.h), snapshotId)
    <3>1. PICK gg, ff : gg = got /\ ff = Written(db, gg.h)
      OBVIOUS
    <3>2. Plain(q) /\ docs \in Seq([id : Id, f : Val])
      BY ConstAssumption DEF Indexable, Id
    <3>3. TopOK(db, ff, snapshotId)
      BY <2>2, <3>1, <3>2, IndexedStore, SetTop
    <3> QED
      BY <3>1, <3>3
  <2> HIDE DEF got
  <2> QED
    BY <2>1, <2>3, <2>4, PerformIndex
<1> QED
  BY <1>2, <1>3, <1>4, <1>5

\* createIndex: nothing happens when there is one; otherwise there is no
\* snapshot yet.
LEMMA CreateIndexIndex ==
    ASSUME Indexable, CInv, XInv, CreateIndexRequest
    PROVE  XInv'
<1> DEFINE h == IF indexed THEN NewHandle ELSE CreateIndexHandle(db, NewHandle)
<1>1. StoreWrites(h, snapshots, TRUE) \/ StoreFails(h, snapshots, TRUE)
  BY DEF CreateIndexRequest, MoveTo
<1>2. "createIndex" \in Ops /\ snapshots = <<Current>>
  BY DEF CreateIndexRequest, MayIndex, Indexable
<1>3. PICK e : e = Written(db, h)
  OBVIOUS
<1>4. IndexRight(TRUE, e, snapshots)
  <2>1. CASE indexed
    <3>1. e = Written(db, NewHandle) /\ HandleOK(db, snapshotId, NewHandle)
      BY <1>3, <2>1, NewHandleOK
    <3>2. TopOK(db, e, snapshotId)
      BY <3>1, IndexedStore, NewTop
    <3>3. IndexRight(indexed, e, snapshots)
      BY <3>1, <3>2, HandleIndex
    <3> QED
      BY <2>1, <3>3 DEF IndexRight, IdxAt
  <2>2. CASE ~indexed
    <3>1. Len(snapshots) - 1 = 0
      BY <1>2
    <3>2. snapshotId = 0 /\ StoreOK(db, 0) /\ \A y \in DOMAIN db : ~IsEntry(y)
      BY <2>2, <3>1, IndexedStore DEF IdxAt
    <3>3. IndexOK(e, 0)
      BY <1>3, <2>2, <3>2, IndexedStore, CreateIndexEffect
    <3> QED
      BY <1>2, <3>1, <3>3 DEF IndexRight, IdxAt
  <2> QED
    BY <2>1, <2>2
<1> HIDE DEF h
<1> QED
  BY <1>1, <1>3, <1>4, IndexedStore, WriteIndex

\* A request on snapshots: what it writes has a right index.
LEMMA MoveIndex ==
    ASSUME Indexable, CInv, XInv,
           NEW STATE call, NEW STATE h, NEW STATE ss, NEW STATE sid, NEW STATE obs,
           IndexRight(indexed, Written(db, h), ss), MoveTo(call, h, ss, indexed, sid, obs)
    PROVE  XInv'
<1>1. StoreWrites(h, ss, indexed) \/ StoreFails(h, ss, indexed)
  BY DEF MoveTo
<1> QED
  BY <1>1, IndexedStore, WriteIndex

\* A refused request writes nothing.
LEMMA RefusedIndex ==
    ASSUME XInv, NEW STATE call, NEW STATE r, Refuse(call, r)
    PROVE  XInv'
BY IndexRests DEF Refuse

\* newSnapshot: the entries of the new snapshot are copies.
LEMMA NewSnapshotIndexed ==
    ASSUME Indexable, CInv, XInv, NEW n \in Name, NewSnapshot(n)
    PROVE  XInv'
<1> DEFINE next == (snapshotId + 1) % SnapshotIds
           tt == Append(Front(snapshots), n) \o <<Current>>
           h == CopyIndexValues(db, NewHandle, next, snapshotId)
           L == Len(snapshots)
<1>1. CASE Refuse(<<"newSnapshot", n>>, "errorSnapshotIsExists")
  BY <1>1, RefusedIndex
<1>2. CASE /\ n \notin Range(snapshots) /\ L < MaxSnapshots
           /\ MoveTo(<<"newSnapshot", n>>, h, tt, indexed, next, observers)
  <2>1. Len(tt) = L + 1
    BY <1>2, GrowList DEF CInv, SInv
  <2>2. L \in Nat \ {0} /\ snapshotId = L - 1 /\ L < MaxSnapshots /\ MaxSnapshots <= SnapshotIds
        /\ MaxSnapshots \in Nat /\ SnapshotIds \in Nat \ {0}
    BY <1>2, IndexedStore, ConstAssumption DEF Indexable, Sheltered
  <2> HIDE DEF L, tt
  <2>3. snapshotId + 1 = L /\ L \in Nat /\ L < SnapshotIds
    BY <2>2
  <2>4. next = L
    BY <2>2, <2>3, ModSmall
  <2>5. snapshotId \in Sid /\ snapshotId + 1 \in Sid
    BY <2>2, <2>3 DEF Sid
  <2>6. h = CopyIndexValues(db, NewHandle, snapshotId + 1, snapshotId)
    BY <2>3, <2>4
  <2> HIDE DEF h, next
  <2>7. PICK e : e = Written(db, h)
    OBVIOUS
  <2>8. IdxAt(indexed, e, snapshotId + 1)
    BY <2>5, <2>6, <2>7, IndexedStore, NewSnapshotIndex
  <2>9. Len(tt) - 1 = snapshotId + 1
    BY <2>1, <2>2
  <2>10. IndexRight(indexed, Written(db, h), tt)
    BY <2>7, <2>8, <2>9 DEF IndexRight, XInv
  <2> QED
    BY <1>2, <2>10, MoveIndex
<1> QED
  BY <1>1, <1>2 DEF NewSnapshot

\* revertToSnapshot: the entries of the snapshots behind it go.
LEMMA RevertIndexed ==
    ASSUME Indexable, CInv, XInv, NEW n \in Name, RevertToSnapshot(n)
    PROVE  XInv'
<1> DEFINE k == SidOf(snapshots, n)
           tt == Append(SubSeq(snapshots, 1, k), Current)
           h == RevertHandle(db, k)
           obs == Reloaded(Written(db, h), k)
           L == Len(snapshots)
<1>1. CASE Refuse(<<"revert", n>>, "errorInvalidObject")
  BY <1>1, RefusedIndex
<1>2. CASE n \in Range(snapshots) /\ MoveTo(<<"revert", n>>, h, tt, indexed, k, obs)
  <2>1. ListOK(snapshots) /\ L \in Nat \ {0} /\ L <= SnapshotIds /\ SnapshotIds \in Nat \ {0}
    BY IndexedStore, ConstAssumption DEF CInv, SInv
  <2>2. k \in 0..(SnapshotIds - 1) /\ k + 1 < L
    BY <1>2, <2>1, SidOfName
  <2> HIDE DEF k
  <2>3. k \in Nat /\ k < L
    BY <2>1, <2>2
  <2>4. Len(tt) - 1 = k
    <3>1. Len(tt) = k + 1
      BY <2>1, <2>3, CutList
    <3> QED
      BY <2>3, <3>1
  <2> HIDE DEF tt, obs
  <2>5. PICK e : e = Written(db, h)
    OBVIOUS
  <2>6. IdxAt(indexed, e, k)
    <3>1. StoreOK(db, Len(snapshots) - 1) /\ IdxAt(indexed, db, Len(snapshots) - 1)
      BY IndexedStore
    <3> QED
      BY <2>1, <2>3, <2>5, <3>1, IndexedStore, RevertIndex
  <2> HIDE DEF h
  <2>7. IndexRight(indexed, Written(db, h), tt)
    BY <2>4, <2>5, <2>6 DEF IndexRight, XInv
  <2> QED
    BY <1>2, <2>7, MoveIndex
<1> QED
  BY <1>1, <1>2 DEF RevertToSnapshot

\* removeSnapshot: the entries behind it move down with their links.
LEMMA RemoveIndexed ==
    ASSUME Indexable, CInv, XInv, NEW n \in Name, RemoveSnapshot(n)
    PROVE  XInv'
<1> DEFINE k == SidOf(snapshots, n)
           tt == RemoveAt(snapshots, k + 1)
           h == ShiftIndex(db, ShiftDocuments(db, NewHandle, k), k)
           sid == (snapshotId - 1) % SnapshotIds
           obs == Reloaded(Written(db, h), sid)
           L == Len(snapshots)
<1>1. CASE Refuse(<<"removeSnapshot", n>>, "errorInvalidObject")
  BY <1>1, RefusedIndex
<1>2. CASE n \in Range(snapshots) /\ MoveTo(<<"removeSnapshot", n>>, h, tt, indexed, sid, obs)
  <2>1. ListOK(snapshots) /\ L \in Nat \ {0} /\ L <= SnapshotIds
    BY IndexedStore DEF CInv, SInv
  <2>2. k \in 0..(SnapshotIds - 1) /\ k + 1 < L
    BY <1>2, <2>1, SidOfName
  <2> HIDE DEF k
  <2>3. k \in Nat /\ L \in Nat
    BY <2>1, <2>2, ConstAssumption
  <2>4. Len(tt) - 1 = L - 2
    <3>1. Len(tt) = L - 1
      BY <2>1, <2>2, <2>3, ShrinkList
    <3> QED
      BY <2>3, <3>1
  <2> HIDE DEF tt, sid, obs
  <2>5. PICK e : e = Written(db, h)
    OBVIOUS
  <2>6. \A x \in DOMAIN db : db[x] # Tomb
    BY DEF Indexable, Sheltered, RemoveSnapshot, MayRemove
  <2>7. indexed => \A i \in Id : Gapless(db, i)
    <3> SUFFICES ASSUME indexed, NEW i \in Id PROVE Gapless(db, i)
      OBVIOUS
    <3>1. "removeSnapshot" \in Ops /\ MayRemove
      BY DEF RemoveSnapshot
    <3>2. ~HasGap(i)
      BY <3>1, IndexedStore DEF MayRemove
    <3> QED
      BY <3>2 DEF HasGap, Gapless
  <2>8. IdxAt(indexed, e, L - 2)
    <3>1. StoreOK(db, L - 1) /\ IdxAt(indexed, db, L - 1)
      BY IndexedStore
    <3> HIDE DEF L
    <3> QED
      BY <2>1, <2>2, <2>3, <2>5, <2>6, <2>7, <3>1, IndexedStore, RemoveIndex
  <2> HIDE DEF h
  <2>9. IndexRight(indexed, Written(db, h), tt)
    BY <2>4, <2>5, <2>8 DEF IndexRight, XInv
  <2> QED
    BY <1>2, <2>9, MoveIndex
<1> QED
  BY <1>1, <1>2 DEF RemoveSnapshot

\* The collection is opened again, with the store it had or the one in doubt.
LEMMA ReopenIndex ==
    ASSUME Store = "leveldb", XInv, Reopen
    PROVE  XInv'
<1>1. PICK u \in {Committed} \union inDoubt :
          db' = u.db /\ snapshots' = u.snapshots /\ indexed' = u.indexed
  BY DEF Reopen
<1>2. IndexRight(u.indexed, u.db, u.snapshots)
  BY DEF XInv, Committed
<1>3. inDoubt' = {}
  BY DEF Reopen
<1>4. IndexRight(indexed', db', snapshots')
  BY <1>1, <1>2
<1> QED
  BY <1>3, <1>4 DEF XInv, IndexRight, IdxAt, IndexOK, EntriesAt

\* Every step keeps the index right.
LEMMA IndexStep ==
    ASSUME Indexable, CInv, XInv, [Next]_vars
    PROVE  XInv'
<1>1. CASE UNCHANGED vars
  BY <1>1, IndexRests DEF vars
<1>2. CASE \E x \in Tx \union {NoTx} :
             \/ \E i \in Id, ignore \in Ignore :
                 \/ \E v \in Val, overwrite \in Overwrite : InsertRequest(x, i, v, overwrite, ignore)
                 \/ RemoveIdRequest(x, i, ignore)
             \/ \E q \in Query : RemoveRequest(x, q) \/ \E docs \in Docs : SetRequest(x, q, docs)
  BY <1>2, DocumentsIndex
<1>3. CASE CreateIndexRequest
  BY <1>3, CreateIndexIndex
<1>4. CASE \E t \in Tx : NewTransaction(t) \/ WriteTransaction(t) \/ DiscardTransaction(t)
  BY <1>4 DEF Indexable
<1>5. CASE \E n \in Name : NewSnapshot(n) \/ RevertToSnapshot(n) \/ RemoveSnapshot(n)
  BY <1>5, NewSnapshotIndexed, RevertIndexed, RemoveIndexed
<1>6. CASE \E o \in ObsId : Unobserve(o) \/ \E q \in Query, limit \in Limit : Observe(o, q, limit)
  BY <1>6, IndexRests DEF Unobserve, Observe
<1>7. CASE Reopen
  BY <1>7, IndexedStore, ReopenIndex
<1> QED
  BY <1>1, <1>2, <1>3, <1>4, <1>5, <1>6, <1>7 DEF Next

\* There is no index at the start.
LEMMA IndexInit ==
    ASSUME Init
    PROVE  XInv
BY DEF Init, XInv, IndexRight, IdxAt, NoKeys

\* XInv is an invariant of a sheltered collection whose clients keep the rules
\* of the index: in the store, and in the one a failed write leaves in doubt,
\* the index entry of every snapshot and value links exactly the newest versions
\* of the documents that have the value at that snapshot.
THEOREM IndexInvariant == Indexable => (Spec => [](CInv /\ XInv))
<1> SUFFICES ASSUME Indexable PROVE Spec => [](CInv /\ XInv)
  OBVIOUS
<1>1. Init => CInv /\ XInv
  BY CollectionInit, IndexInit
<1>2. CInv /\ XInv /\ [Next]_vars => (CInv /\ XInv)'
  BY CollectionStep, IndexStep DEF Indexable
<1> QED
  BY <1>1, <1>2, PTL DEF Spec

\* A find through the index answers with the documents that a full search
\* finds, whatever snapshots were made, reverted to or removed, and whether a
\* failed write came back with a restart or not, for clients that open the
\* collection again when a request failed.  (A list of links that is written
\* behind a failed one does not name the document that comes back.)
THEOREM IndexFinds == Indexable => (Spec => []FindsAgree)
<1> SUFFICES ASSUME Indexable PROVE Spec => []FindsAgree
  OBVIOUS
<1>1. CInv /\ XInv => FindsAgree
  <2> SUFFICES ASSUME CInv, XInv, NEW q \in Query
               PROVE  Range(Find(db, NewHandle, q, None).reply) = Range(FullSearch(db, snapshotId, q))
    BY DEF FindsAgree
  <2>1. Plain(q)
    BY DEF Indexable
  <2> QED
    BY <2>1, IndexedStore, FindSame
<1> QED
  BY <1>1, IndexInvariant, PTL

-----------------------------------------------------------------------------
(* The collection implements DocumentStore.                                *)

\* Two readers that read the same of each document.
LEMMA SameView ==
    ASSUME NEW d, NEW e, NEW r, NEW s, \A i \in Id : Value(e, i, r) = Value(d, i, s)
    PROVE  View(e, r) = View(d, s)
BY DEF View

\* A saved copy: the name of a snapshot and what it shows.
Copy(n, v) == [name |-> n, docs |-> v]

\* The ids of the snapshots are their positions, as long as the byte suffices.
LEMMA CopiesAre ==
    ASSUME NEW d, NEW ss, ListOK(ss), Len(ss) <= SnapshotIds
    PROVE  Copies(d, ss) = [k \in 1..(Len(ss) - 1) |-> Copy(ss[k], View(d, k - 1))]
<1>1. Len(ss) \in Nat \ {0} /\ SnapshotIds \in Nat \ {0}
  BY ListLength, ConstAssumption
<1>2. ASSUME NEW k \in 1..(Len(ss) - 1)
      PROVE  (k - 1) % SnapshotIds = k - 1
  <2>1. k - 1 \in Nat /\ k - 1 < SnapshotIds
    BY <1>1
  <2> QED
    BY <1>1, <2>1, ModSmall
<1> QED
  BY <1>2 DEF Copies, Copy

\* Two lists that show the same at each position.
LEMMA SameCopies ==
    ASSUME NEW d, NEW e, NEW ss, ListOK(ss), Len(ss) <= SnapshotIds,
           \A k \in 0..(Len(ss) - 2) : \A i \in Id : Value(e, i, k) = Value(d, i, k)
    PROVE  Copies(e, ss) = Copies(d, ss)
<1>1. ASSUME NEW k \in 1..(Len(ss) - 1)
      PROVE  View(e, k - 1) = View(d, k - 1)
  <2>1. k - 1 \in 0..(Len(ss) - 2)
    BY ListLength
  <2> QED
    BY <2>1, SameView
<1> QED
  BY <1>1, CopiesAre

\* The store e, with the list ss and the current snapshot top: the documents c
\* and the copies s if the result r of the request is success, otherwise what
\* there was.
Leads(e, top, ss, r, c, s) ==
    IF r = "success" THEN View(e, top) = c /\ Copies(e, ss) = s
    ELSE View(e, top) = View(db, snapshotId) /\ Copies(e, ss) = Copies(db, snapshots)

\* The store in doubt after a write that failed, as DocumentStore has it.
Doubt(e, ss) ==
    [current |-> View(e, (Len(ss) - 1) % SnapshotIds), saved |-> Copies(e, ss)]

\* A write that fails leaves the store it would have written in doubt, or nothing.
LEMMA FailsDoubt ==
    ASSUME Store = "leveldb", "reopens" \in Discipline, NEW STATE h, NEW STATE ss, NEW STATE ix, StoreFails(h, ss, ix)
    PROVE  /\ UNCHANGED <<db, snapshots>>
           /\ \/ UNCHANGED inDoubt
              \/ inDoubt = {} /\ {Doubt(u.db, u.snapshots) : u \in inDoubt'} = {Doubt(Written(db, h), ss)}
<1> DEFINE e == Written(db, h)
<1>1. /\ UNCHANGED <<db, snapshots>>
      /\ \/ UNCHANGED inDoubt
         \/ inDoubt = {} /\ inDoubt' = {[db |-> e, snapshots |-> ss, indexed |-> ix]}
  BY NothingBehind DEF StoreFails
<1> HIDE DEF e
<1>2. CASE inDoubt = {} /\ inDoubt' = {[db |-> e, snapshots |-> ss, indexed |-> ix]}
  <2>1. {Doubt(u.db, u.snapshots) : u \in inDoubt'} = {Doubt(e, ss)}
    BY <1>2
  <2> QED
    BY <1>1, <1>2, <2>1 DEF e
<1> QED
  BY <1>1, <1>2

\* A write of the store, or its failure, is an attempt of a request: it leads to
\* the documents c and the copies s if the request worked.
LEMMA AttemptMade ==
    ASSUME Store = "leveldb", "reopens" \in Discipline, NEW STATE h, NEW STATE ss, NEW STATE ix, NEW STATE call, NEW STATE r,
           NEW STATE c, NEW STATE s, NEW STATE top, top = (Len(ss) - 1) % SnapshotIds,
           Leads(Written(db, h), top, ss, r, c, s),
           \/ StoreWrites(h, ss, ix) /\ snapshotId' = top /\ last' = Request(call, NoTx, r)
           \/ /\ StoreFails(h, ss, ix) /\ snapshotId' = snapshotId
              /\ last' = Request(call, NoTx, "errorWriteTransaction")
    PROVE  Abstract!Attempt(call, c, s)
<1> DEFINE e == Written(db, h)
<1>1. CASE StoreWrites(h, ss, ix) /\ snapshotId' = top /\ last' = Request(call, NoTx, r)
  <2>1. db' = e /\ snapshots' = ss /\ inDoubt' = {} /\ inDoubt = {}
    BY <1>1, NothingBehind DEF StoreWrites
  <2>2. last'.call = call /\ last'.r = r
    BY <1>1 DEF Request
  <2> HIDE DEF e
  <2>3. CASE r = "success"
    <3>1. View(db', snapshotId') = c /\ Copies(db', snapshots') = s
      BY <1>1, <2>1, <2>3 DEF Leads, e
    <3> QED
      BY <2>1, <2>2, <2>3, <3>1 DEF Abstract!Attempt
  <2>4. CASE r # "success"
    <3>1. View(db', snapshotId') = View(db, snapshotId) /\ Copies(db', snapshots') = Copies(db, snapshots)
      BY <1>1, <2>1, <2>4 DEF Leads, e
    <3> QED
      BY <2>1, <2>2, <2>4, <3>1 DEF Abstract!Attempt
  <2> QED
    BY <2>3, <2>4
<1>2. CASE /\ StoreFails(h, ss, ix) /\ snapshotId' = snapshotId
           /\ last' = Request(call, NoTx, "errorWriteTransaction")
  <2>1. last'.call = call /\ last'.r # "success"
    BY <1>2 DEF Request
  <2>2. View(db', snapshotId') = View(db, snapshotId) /\ Copies(db', snapshots') = Copies(db, snapshots)
    BY <1>2, FailsDoubt
  <2>3. \/ UNCHANGED inDoubt
        \/ /\ inDoubt = {}
           /\ \/ {Doubt(u.db, u.snapshots) : u \in inDoubt'} = {[current |-> c, saved |-> s]}
              \/ {Doubt(u.db, u.snapshots) : u \in inDoubt'} =
                     {[current |-> View(db, snapshotId), saved |-> Copies(db, snapshots)]}
    BY <1>2, FailsDoubt DEF Leads, Doubt
  <2> QED
    BY <2>1, <2>2, <2>3 DEF Abstract!Attempt, Abstract!State, Doubt
<1> QED
  BY <1>1, <1>2

\* What a write leads to when it does some of the changes from the current
\* documents to c.
Halfway(e, c) ==
    /\ View(e, snapshotId) \in [Id -> Val \union {None}]
    /\ \A i \in Id : View(e, snapshotId)[i] \in {View(db, snapshotId)[i], c[i]}
    /\ Copies(e, snapshots) = Copies(db, snapshots)

\* A request that failed halfway, and was written all the same, is a StopHalfway
\* of DocumentStore; when the write fails, the half is in doubt.
LEMMA HalfwayMade ==
    ASSUME Store = "leveldb", "reopens" \in Discipline, snapshotId = (Len(snapshots) - 1) % SnapshotIds,
           NEW STATE h, NEW STATE ix, NEW STATE call, NEW STATE r, NEW STATE c,
           r # "success", Halfway(Written(db, h), c), snapshotId' = snapshotId,
           \/ StoreWrites(h, snapshots, ix) /\ last' = Request(call, NoTx, r)
           \/ StoreFails(h, snapshots, ix) /\ last' = Request(call, NoTx, "errorWriteTransaction")
    PROVE  Abstract!Attempt(call, c, Copies(db, snapshots)) \/ Abstract!StopHalfway(call, c)
<1> DEFINE e == Written(db, h)
           half == View(e, snapshotId)
<1>1. /\ half \in [1..MaxId -> Val \union {None}]
      /\ \A i \in 1..MaxId : half[i] \in {View(db, snapshotId)[i], c[i]}
      /\ Copies(e, snapshots) = Copies(db, snapshots)
  BY DEF Halfway, Id
<1>2. last'.call = call /\ last'.r # "success"
  BY DEF Request
<1>3. CASE StoreWrites(h, snapshots, ix)
  <2>1. db' = e /\ snapshots' = snapshots /\ inDoubt' = {} /\ inDoubt = {}
    BY <1>3, NothingBehind DEF StoreWrites
  <2> HIDE DEF e
  <2>2. View(db', snapshotId') = half /\ Copies(db', snapshots') = Copies(db, snapshots)
    BY <1>1, <2>1
  <2> HIDE DEF half
  <2> QED
    BY <1>1, <1>2, <2>1, <2>2 DEF Abstract!StopHalfway
<1>4. CASE StoreFails(h, snapshots, ix)
  <2>1. View(db', snapshotId') = View(db, snapshotId) /\ Copies(db', snapshots') = Copies(db, snapshots)
    BY <1>4, FailsDoubt
  <2>2. CASE UNCHANGED inDoubt
    BY <1>2, <2>1, <2>2 DEF Abstract!Attempt
  <2>3. CASE /\ inDoubt = {}
             /\ {Doubt(u.db, u.snapshots) : u \in inDoubt'} = {Doubt(e, snapshots)}
    <3> HIDE DEF e
    <3>1. Doubt(e, snapshots) = [current |-> half, saved |-> Copies(db, snapshots)]
      BY <1>1 DEF Doubt
    <3> HIDE DEF half
    <3>2. {Doubt(u.db, u.snapshots) : u \in inDoubt'} = {[current |-> half, saved |-> Copies(db, snapshots)]}
      BY <2>3, <3>1
    <3> QED
      BY <1>1, <1>2, <2>1, <2>3, <3>2 DEF Abstract!StopHalfway, Abstract!State, Doubt
  <2> HIDE DEF e
  <2> QED
    BY <1>4, <2>2, <2>3, FailsDoubt DEF e
<1> QED
  BY <1>3, <1>4

\* What a handle writes shows in no snapshot.
LEMMA WriteCopies ==
    ASSUME Indexable, CInv, XInv, NEW h, HandleOK(db, snapshotId, h), NEW e, e = Written(db, h)
    PROVE  Copies(e, snapshots) = Copies(db, snapshots) /\ View(e, snapshotId) \in [Id -> Val \union {None}]
<1>1. DocWrite(db, e, snapshotId)
  BY IndexedStore, HandleGoes DEF CInv
<1>2. ASSUME NEW k \in 0..(Len(snapshots) - 2), NEW i \in Id
      PROVE  Value(e, i, k) = Value(db, i, k)
  <2>1. snapshotId = Len(snapshots) - 1 /\ snapshotId \in Sid /\ Len(snapshots) \in Nat \ {0}
        /\ StoreOK(db, snapshotId)
    BY IndexedStore
  <2>2. k < snapshotId /\ k \in Sid
    BY <2>1, ConstAssumption DEF Sid
  <2> QED
    BY <1>1, <2>1, <2>2, WriteViews
<1>3. ListOK(snapshots) /\ Len(snapshots) <= SnapshotIds
  BY IndexedStore DEF CInv, SInv
<1>4. Copies(e, snapshots) = Copies(db, snapshots)
  BY <1>2, <1>3, SameCopies
<1>5. ASSUME NEW i \in Id
      PROVE  Value(e, i, snapshotId) \in Val \union {None}
  <2>1. StoreOK(e, snapshotId)
    BY <1>1 DEF DocWrite
  <2> QED
    BY <2>1, ValueThere
<1> QED
  BY <1>4, <1>5 DEF View

\* A request on documents: it leads to the documents c if it works; otherwise
\* it changes nothing, or some of the documents that c changes.
LEMMA PerformMade ==
    ASSUME Indexable, CInv, XInv, NEW x \in Tx \union {NoTx}, NEW STATE call, NEW STATE res, NEW STATE c,
           HandleOK(db, snapshotId, res.h), Perform(x, call, res),
           res.r = "success" => View(Written(db, res.h), snapshotId) = c
    PROVE  /\ (res.r # "success" => View(Written(db, res.h), snapshotId) = View(db, snapshotId))
              => Abstract!Attempt(call, c, Copies(db, snapshots))
           /\ (\A i \in Id : View(Written(db, res.h), snapshotId)[i] \in {View(db, snapshotId)[i], c[i]})
              => Abstract!Attempt(call, c, Copies(db, snapshots)) \/ Abstract!StopHalfway(call, c)
<1>1. x = NoTx /\ Store = "leveldb" /\ "reopens" \in Discipline /\ snapshotId' = snapshotId
  BY IndexedStore DEF Indexable, Perform
<1>2. \/ StoreWrites(res.h, snapshots, indexed) /\ last' = Request(call, NoTx, res.r)
      \/ StoreFails(res.h, snapshots, indexed) /\ last' = Request(call, NoTx, "errorWriteTransaction")
  <2>1. WriteHandle(res.h, Request(call, NoTx, res.r))
    BY <1>1 DEF Perform
  <2>2. [Request(call, NoTx, res.r) EXCEPT !.r = "errorWriteTransaction"]
            = Request(call, NoTx, "errorWriteTransaction")
    BY DEF Request
  <2> QED
    BY <2>1, <2>2 DEF WriteHandle
<1>3. snapshotId = (Len(snapshots) - 1) % SnapshotIds
  BY DEF CInv, SInv
<1>4. /\ Copies(Written(db, res.h), snapshots) = Copies(db, snapshots)
      /\ View(Written(db, res.h), snapshotId) \in [Id -> Val \union {None}]
  BY WriteCopies
<1>5. ASSUME res.r # "success" => View(Written(db, res.h), snapshotId) = View(db, snapshotId)
      PROVE  Abstract!Attempt(call, c, Copies(db, snapshots))
  <2>1. Leads(Written(db, res.h), snapshotId, snapshots, res.r, c, Copies(db, snapshots))
    BY <1>4, <1>5 DEF Leads
  <2> QED
    BY <1>1, <1>2, <1>3, <2>1, AttemptMade
<1>6. ASSUME \A i \in Id : View(Written(db, res.h), snapshotId)[i] \in {View(db, snapshotId)[i], c[i]},
             res.r # "success"
      PROVE  Abstract!Attempt(call, c, Copies(db, snapshots)) \/ Abstract!StopHalfway(call, c)
  <2>1. Halfway(Written(db, res.h), c)
    BY <1>4, <1>6 DEF Halfway
  <2> QED
    BY <1>1, <1>2, <1>3, <1>6, <2>1, HalfwayMade
<1> QED
  BY <1>5, <1>6

\* The use in which the collection implements DocumentStore, which knows neither
\* transactions nor observers and does not say which of two documents with one
\* id a set leaves.
Storing == Indexable /\ ObsId = {} /\ \A docs \in Docs : Distinct(docs)

\* What insert and removeById do to the documents.
LEMMA DidView ==
    ASSUME NEW f, NEW got, NEW i \in Id, NEW v, Did(db, f, got, i, v)
    PROVE  View(f, snapshotId) = IF got.r = "success" THEN [View(db, snapshotId) EXCEPT ![i] = v]
                                                      ELSE View(db, snapshotId)
<1>1. \A j : j # i => Value(f, j, snapshotId) = Value(db, j, snapshotId)
  BY SameDocRead DEF Did
<1>2. Value(f, i, snapshotId) = IF got.r = "success" THEN v ELSE Value(db, i, snapshotId)
  BY SameDocRead DEF Did
<1> QED
  BY <1>1, <1>2 DEF View

\* The documents that remove leads to.
ClearTo(q) == [i \in Id |-> IF Hit(db, snapshotId, q, i) THEN None ELSE Value(db, i, snapshotId)]

\* What remove does to them.
LEMMA ClearedView ==
    ASSUME NEW f, NEW got, NEW q, Cleared(db, f, got, q), NEW c, c = ClearTo(q)
    PROVE  /\ got.r = "success" => View(f, snapshotId) = c
           /\ \A i \in Id : View(f, snapshotId)[i] \in {View(db, snapshotId)[i], c[i]}
<1> USE DEF ClearTo
<1>1. ASSUME NEW i \in Id
      PROVE  /\ Value(f, i, snapshotId) \in {Value(db, i, snapshotId), c[i]}
             /\ got.r = "success" => Value(f, i, snapshotId) = c[i]
  <2>1. CASE SameDoc(f, db, i)
    <3>1. Value(f, i, snapshotId) = Value(db, i, snapshotId)
      BY <2>1, SameDocRead
    <3> QED
      BY <3>1 DEF Cleared
  <2>2. CASE Hit(db, snapshotId, q, i) /\ Value(f, i, snapshotId) = None
    BY <2>2
  <2> QED
    BY <2>1, <2>2 DEF Cleared
<1> QED
  BY <1>1 DEF View

\* The documents of a list that set stores under i.
New(q, docs, i) == {e \in Range(docs) : e.id = i /\ Matches(q, e)}

\* The documents that set leads to.
SetTo(q, docs) ==
    [i \in Id |-> IF New(q, docs, i) # {} THEN (CHOOSE e \in New(q, docs, i) : TRUE).f
                  ELSE IF Hit(db, snapshotId, q, i) THEN None ELSE Value(db, i, snapshotId)]

\* What set does to them.
LEMMA ReplacedView ==
    ASSUME NEW f, NEW got, NEW q, NEW docs, Replaced(db, f, got, q, docs),
           NEW c, c = SetTo(q, docs)
    PROVE  /\ got.r = "success" => View(f, snapshotId) = c
           /\ \A i \in Id : View(f, snapshotId)[i] \in {View(db, snapshotId)[i], c[i]}
<1> USE DEF SetTo
<1>1. ASSUME NEW i \in Id
      PROVE  /\ Value(f, i, snapshotId) \in {Value(db, i, snapshotId), c[i]}
             /\ got.r = "success" => Value(f, i, snapshotId) = c[i]
  <2>1. CASE New(q, docs, i) # {}
    <3>1. PICK x : x = CHOOSE e \in New(q, docs, i) : TRUE
      OBVIOUS
    <3>2. x \in New(q, docs, i) /\ c[i] = x.f
      BY <2>1, <3>1
    <3>3. NewFor(q, docs, i, x)
      BY <3>2 DEF New, NewFor
    <3>4. /\ SameDoc(f, db, i) \/ Value(f, i, snapshotId) = x.f
          /\ got.r = "success" => Value(f, i, snapshotId) = x.f
      BY <3>3 DEF Replaced
    <3>5. SameDoc(f, db, i) => Value(f, i, snapshotId) = Value(db, i, snapshotId)
      BY SameDocRead
    <3> QED
      BY <3>2, <3>4, <3>5
  <2>2. CASE New(q, docs, i) = {}
    <3>1. \A x : ~NewFor(q, docs, i, x)
      BY <2>2 DEF New, NewFor
    <3>2. /\ SameDoc(f, db, i) \/ (Hit(db, snapshotId, q, i) /\ Value(f, i, snapshotId) = None)
          /\ got.r = "success" /\ Hit(db, snapshotId, q, i) => Value(f, i, snapshotId) = None
      BY <3>1 DEF Replaced
    <3>3. SameDoc(f, db, i) => Value(f, i, snapshotId) = Value(db, i, snapshotId)
      BY SameDocRead
    <3>4. c[i] = IF Hit(db, snapshotId, q, i) THEN None ELSE Value(db, i, snapshotId)
      BY <2>2
    <3> QED
      BY <3>2, <3>3, <3>4
  <2> QED
    BY <2>1, <2>2
<1> QED
  BY <1>1 DEF View

\* insert and removeId.
LEMMA OneDocument ==
    ASSUME Storing, CInv, XInv, NEW x \in Tx \union {NoTx}, NEW i \in Id, NEW ignore \in Ignore
    PROVE  /\ \A v \in Val, overwrite \in Overwrite :
                 InsertRequest(x, i, v, overwrite, ignore) => Abstract!Insert(i, v, ignore)
           /\ RemoveIdRequest(x, i, ignore) => Abstract!RemoveId(i, ignore)
<1>1. HandleOf(x) = NewHandle /\ HandleOK(db, snapshotId, NewHandle) /\ Indexable
  BY NewHandleOK DEF Storing, Indexable, HandleOf
<1>2. ASSUME NEW v \in Val, NEW overwrite \in Overwrite, InsertRequest(x, i, v, overwrite, ignore)
      PROVE  Abstract!Insert(i, v, ignore)
  <2> DEFINE got == Insert(db, NewHandle, i, v, overwrite, ignore)
             c == [View(db, snapshotId) EXCEPT ![i] = v]
  <2>1. Perform(x, <<"insert", i, v, ignore>>, got) /\ (overwrite => MayOverwrite)
    BY <1>1, <1>2 DEF InsertRequest
  <2>2. indexed => ~overwrite
    BY <1>1, <2>1, IndexedStore DEF MayOverwrite
  <2>3. HandleOK(db, snapshotId, got.h)
    BY <1>1, InsertHandle
  <2>4. overwrite \in BOOLEAN
    BY ConstAssumption
  <2>5. View(Written(db, got.h), snapshotId) = IF got.r = "success" THEN c ELSE View(db, snapshotId)
    <3>1. PICK gg, ff : gg = got /\ ff = Written(db, gg.h)
      OBVIOUS
    <3>2. Did(db, ff, gg, i, v)
      BY <1>1, <2>2, <2>4, <3>1, IndexedStore, InsertTop
    <3> HIDE DEF got
    <3> QED
      BY <3>1, <3>2, DidView
  <2> HIDE DEF got, c
  <2>6. Abstract!Attempt(<<"insert", i, v, ignore>>, c, Copies(db, snapshots))
    BY <1>1, <2>1, <2>3, <2>5, PerformMade
  <2> QED
    BY <2>6 DEF Abstract!Insert, c
<1>3. ASSUME RemoveIdRequest(x, i, ignore)
      PROVE  Abstract!RemoveId(i, ignore)
  <2> DEFINE got == RemoveById(db, NewHandle, i, ignore)
             c == [View(db, snapshotId) EXCEPT ![i] = None]
  <2>1. Perform(x, <<"removeId", i, ignore>>, got)
    BY <1>1, <1>3 DEF RemoveIdRequest
  <2>2. HandleOK(db, snapshotId, got.h)
    BY <1>1, IndexedStore, RemoveHandle
  <2>3. View(Written(db, got.h), snapshotId) = IF got.r = "success" THEN c ELSE View(db, snapshotId)
    <3>1. PICK gg, ff : gg = got /\ ff = Written(db, gg.h)
      OBVIOUS
    <3>2. Did(db, ff, gg, i, None)
      BY <1>1, <3>1, IndexedStore, RemoveTop
    <3> HIDE DEF got
    <3> QED
      BY <3>1, <3>2, DidView
  <2> HIDE DEF got, c
  <2>4. Abstract!Attempt(<<"removeId", i, ignore>>, c, Copies(db, snapshots))
    BY <1>1, <2>1, <2>2, <2>3, PerformMade
  <2> QED
    BY <2>4 DEF Abstract!RemoveId, c
<1> QED
  BY <1>2, <1>3

\* The documents DocumentStore calls hits.
LEMMA HitsAreHits ==
    ASSUME NEW q, NEW i \in Id
    PROVE  Abstract!Hits(q, i) <=> Hit(db, snapshotId, q, i)
BY DEF Abstract!Hits, Hit, View, Doc

\* remove and set.
LEMMA SeveralDocuments ==
    ASSUME Storing, CInv, XInv, NEW x \in Tx \union {NoTx}, NEW q \in Query
    PROVE  /\ RemoveRequest(x, q) => Abstract!RemoveQuery(q)
           /\ \A docs \in Docs : SetRequest(x, q, docs) => Abstract!SetQuery(q, docs)
<1>1. HandleOf(x) = NewHandle /\ HandleOK(db, snapshotId, NewHandle) /\ Indexable /\ Plain(q)
  BY NewHandleOK DEF Storing, Indexable, HandleOf
<1>2. ASSUME RemoveRequest(x, q)
      PROVE  Abstract!RemoveQuery(q)
  <2> DEFINE got == RemoveByQuery(db, NewHandle, q)
             c == ClearTo(q)
  <2>1. Perform(x, <<"remove", q>>, got)
    BY <1>1, <1>2 DEF RemoveRequest
  <2>2. HandleOK(db, snapshotId, got.h)
    BY <1>1, IndexedStore, RequestHandles
  <2>3. /\ got.r = "success" => View(Written(db, got.h), snapshotId) = c
        /\ \A i \in Id : View(Written(db, got.h), snapshotId)[i] \in {View(db, snapshotId)[i], c[i]}
    <3>1. PICK gg, ff : gg = got /\ ff = Written(db, gg.h)
      OBVIOUS
    <3>2. Cleared(db, ff, gg, q)
      BY <1>1, <3>1, IndexedStore, RemoveQueryTop
    <3>3. PICK cc : cc = c
      OBVIOUS
    <3>4. /\ gg.r = "success" => View(ff, snapshotId) = cc
          /\ \A i \in Id : View(ff, snapshotId)[i] \in {View(db, snapshotId)[i], cc[i]}
      BY <3>2, <3>3, ClearedView
    <3> HIDE DEF got, c
    <3> QED
      BY <3>1, <3>3, <3>4
  <2>4. c = [i \in 1..MaxId |-> IF Abstract!Hits(q, i) THEN None ELSE View(db, snapshotId)[i]]
    BY HitsAreHits DEF View, Id, ClearTo
  <2> HIDE DEF got, c
  <2>5. Abstract!Attempt(<<"remove", q>>, c, Copies(db, snapshots)) \/ Abstract!StopHalfway(<<"remove", q>>, c)
    BY <1>1, <2>1, <2>2, <2>3, PerformMade
  <2> QED
    BY <2>4, <2>5, Zenon DEF Abstract!RemoveQuery
<1>3. ASSUME NEW docs \in Docs, SetRequest(x, q, docs)
      PROVE  Abstract!SetQuery(q, docs)
  <2> DEFINE got == SetDocs(db, NewHandle, q, docs)
             c == SetTo(q, docs)
  <2>1. Perform(x, <<"set", q, docs>>, got) /\ MayOverwrite
    BY <1>1, <1>3 DEF SetRequest
  <2>2. ~indexed
    BY <1>1, <2>1, IndexedStore DEF MayOverwrite
  <2>3. HandleOK(db, snapshotId, got.h)
    BY <1>1, IndexedStore, RequestHandles
  <2>4. /\ got.r = "success" => View(Written(db, got.h), snapshotId) = c
        /\ \A i \in Id : View(Written(db, got.h), snapshotId)[i] \in {View(db, snapshotId)[i], c[i]}
    <3>1. PICK gg, ff : gg = got /\ ff = Written(db, gg.h)
      OBVIOUS
    <3>2. docs \in Seq([id : Id, f : Val]) /\ Distinct(docs)
      BY ConstAssumption DEF Storing, Id
    <3>3. Replaced(db, ff, gg, q, docs)
      BY <1>1, <2>2, <3>1, <3>2, IndexedStore, SetTop
    <3>4. PICK cc : cc = c
      OBVIOUS
    <3>5. /\ gg.r = "success" => View(ff, snapshotId) = cc
          /\ \A i \in Id : View(ff, snapshotId)[i] \in {View(db, snapshotId)[i], cc[i]}
      BY <3>3, <3>4, ReplacedView
    <3> HIDE DEF got, c
    <3> QED
      BY <3>1, <3>4, <3>5
  <2>5. c = [i \in 1..MaxId |->
                IF New(q, docs, i) # {} THEN (CHOOSE e \in New(q, docs, i) : TRUE).f
                ELSE IF Abstract!Hits(q, i) THEN None ELSE View(db, snapshotId)[i]]
    BY HitsAreHits DEF View, Id, SetTo
  <2> HIDE DEF got, c
  <2>6. Abstract!Attempt(<<"set", q, docs>>, c, Copies(db, snapshots)) \/ Abstract!StopHalfway(<<"set", q, docs>>, c)
    BY <1>1, <2>1, <2>3, <2>4, PerformMade
  <2>7. Range(docs) = Abstract!Range(docs)
    BY DEF Range, Abstract!Range
  <2>8. c = [i \in 1..MaxId |->
                IF {e \in Abstract!Range(docs) : e.id = i /\ Matches(q, e)} # {}
                THEN (CHOOSE e \in {e \in Abstract!Range(docs) : e.id = i /\ Matches(q, e)} : TRUE).f
                ELSE IF Abstract!Hits(q, i) THEN None ELSE View(db, snapshotId)[i]]
    BY <2>5, <2>7 DEF New
  <2> QED
    BY <2>6, <2>8, Zenon DEF Abstract!SetQuery
<1> QED
  BY <1>2, <1>3

\* The copies DocumentStore finds under a name.
LEMMA NamedCopies ==
    ASSUME SInv, Len(snapshots) <= SnapshotIds, NEW n \in Name
    PROVE  /\ n \notin Range(snapshots) => Abstract!Named(n) = {}
           /\ n \in Range(snapshots) => SidOf(snapshots, n) + 1 \in Abstract!Named(n)
<1> DEFINE cc == Copies(db, snapshots)
           L == Len(snapshots)
<1>1. ListOK(snapshots) /\ L \in Nat \ {0} /\ DOMAIN snapshots = 1..L
  BY ListLength DEF SInv
<1>2. DOMAIN cc = 1..(L - 1) /\ \A k \in 1..(L - 1) : cc[k].name = snapshots[k]
  BY <1>1 DEF Copies
<1>3. ASSUME n \notin Range(snapshots)
      PROVE  \A k \in 1..(L - 1) : snapshots[k] # n
  BY <1>1, <1>3 DEF Range
<1>4. ASSUME n \in Range(snapshots)
      PROVE  /\ SidOf(snapshots, n) + 1 \in 1..(L - 1)
             /\ snapshots[SidOf(snapshots, n) + 1] = n
  BY <1>1, <1>4, NamePlace
<1> HIDE DEF cc
<1>5. Abstract!Named(n) = {k \in DOMAIN cc : cc[k].name = n}
  BY DEF Abstract!Named, cc
<1> QED
  BY <1>2, <1>3, <1>4, <1>5

\* A refused request changes nothing and is answered so.
LEMMA RefusedMade ==
    ASSUME NEW STATE call, NEW STATE r, r # "success", Refuse(call, r)
    PROVE  /\ [call |-> last'.call, ok |-> last'.r = "success"] = [call |-> call, ok |-> FALSE]
           /\ UNCHANGED <<db, snapshots, inDoubt, snapshotId>>
BY DEF Refuse, Request

\* A request on snapshots or on the index: it leads to the documents c and the
\* copies s if it works.
LEMMA MoveMade ==
    ASSUME Store = "leveldb", "reopens" \in Discipline, NEW STATE call, NEW STATE h, NEW STATE ss, NEW STATE ix,
           NEW STATE sid, NEW STATE obs, NEW STATE c, NEW STATE s,
           sid = (Len(ss) - 1) % SnapshotIds,
           View(Written(db, h), sid) = c, Copies(Written(db, h), ss) = s,
           MoveTo(call, h, ss, ix, sid, obs)
    PROVE  Abstract!Attempt(call, c, s)
<1>1. Leads(Written(db, h), sid, ss, "success", c, s)
  BY DEF Leads
<1>2. \/ StoreWrites(h, ss, ix) /\ snapshotId' = sid /\ last' = Request(call, NoTx, "success")
      \/ /\ StoreFails(h, ss, ix) /\ snapshotId' = snapshotId
         /\ last' = Request(call, NoTx, "errorWriteTransaction")
  BY DEF MoveTo
<1> QED
  BY <1>1, <1>2, AttemptMade

\* createIndex writes no documents.
LEMMA IndexMade ==
    ASSUME Storing, CInv, XInv, CreateIndexRequest
    PROVE  Abstract!CreateIndex
<1> DEFINE h == IF indexed THEN NewHandle ELSE CreateIndexHandle(db, NewHandle)
<1>1. IsHandle(NewHandle) /\ Store = "leveldb" /\ Store # "map" /\ "reopens" \in Discipline
  BY NewHandleOK, IndexedStore DEF HandleOK, Storing
<1>2. SameDocs(NewHandle, NewHandle)
  BY <1>1, EntrySameDocs
<1>3. SameDocs(h, NewHandle)
  BY <1>1, <1>2, CreateIndexSameDocs
<1>4. MoveTo(<<"createIndex">>, h, snapshots, TRUE, snapshotId, observers)
  BY DEF CreateIndexRequest
<1> HIDE DEF h
<1>5. PICK e : e = Written(db, h)
  OBVIOUS
<1>6. \A i \in Id : \A s : Value(e, i, s) = Value(db, i, s)
  <2>1. StoreOK(db, snapshotId) /\ snapshotId \in Int
    <3>1. StoreOK(db, snapshotId) /\ snapshotId \in Sid
      BY IndexedStore DEF Storing
    <3> QED
      BY <3>1, ConstAssumption DEF Sid
  <2> QED
    BY <1>1, <1>3, <1>5, <2>1, DocsUnchanged
<1>7. ListOK(snapshots) /\ Len(snapshots) <= SnapshotIds /\ snapshotId = (Len(snapshots) - 1) % SnapshotIds
  BY IndexedStore DEF Storing, CInv, SInv
<1>8. View(e, snapshotId) = View(db, snapshotId) /\ Copies(e, snapshots) = Copies(db, snapshots)
  BY <1>6, <1>7, SameView, SameCopies
<1>9. Abstract!Attempt(<<"createIndex">>, View(db, snapshotId), Copies(db, snapshots))
  BY <1>1, <1>4, <1>5, <1>7, <1>8, MoveMade
<1> QED
  BY <1>9 DEF Abstract!CreateIndex

\* newSnapshot: a copy of the current documents is saved.
LEMMA NewSnapshotMade ==
    ASSUME Storing, CInv, XInv, NEW n \in Name, NewSnapshot(n)
    PROVE  Abstract!NewSnapshot(n)
<1> DEFINE next == (snapshotId + 1) % SnapshotIds
           tt == Append(Front(snapshots), n) \o <<Current>>
           h == CopyIndexValues(db, NewHandle, next, snapshotId)
           L == Len(snapshots)
           cc == Copies(db, snapshots)
           now == View(db, snapshotId)
<1>1. SInv /\ ListOK(snapshots)
  BY DEF CInv, SInv
<1>2. /\ L \in Nat \ {0} /\ L <= SnapshotIds /\ snapshotId = L - 1
      /\ Store # "map" /\ Store = "leveldb" /\ "reopens" \in Discipline /\ StoreOK(db, L - 1)
  BY IndexedStore DEF Storing
<1>3. CASE n \in Range(snapshots) /\ Refuse(<<"newSnapshot", n>>, "errorSnapshotIsExists")
  <2>1. Abstract!Named(n) # {}
    BY <1>1, <1>2, <1>3, NamedCopies
  <2>2. /\ [call |-> last'.call, ok |-> last'.r = "success"] = [call |-> <<"newSnapshot", n>>, ok |-> FALSE]
        /\ UNCHANGED <<db, snapshots, inDoubt, snapshotId>>
    BY <1>3, RefusedMade
  <2> QED
    BY <2>1, <2>2 DEF Abstract!NewSnapshot
<1>4. CASE /\ n \notin Range(snapshots) /\ L < MaxSnapshots
           /\ MoveTo(<<"newSnapshot", n>>, h, tt, indexed, next, observers)
  <2>1. ListOK(tt) /\ Len(tt) = L + 1 /\ tt[L] = n /\ \A p \in 1..(L - 1) : tt[p] = snapshots[p]
    BY <1>1, <1>4, GrowList
  <2>2. MaxSnapshots <= SnapshotIds /\ MaxSnapshots \in Nat /\ SnapshotIds \in Nat \ {0}
    BY ConstAssumption DEF Storing, Indexable, Sheltered
  <2>3. SameDocs(h, NewHandle)
    <3>1. IsHandle(NewHandle)
      BY NewHandleOK DEF HandleOK
    <3> QED
      BY <3>1, CopySameDocs
  <2>4. next = L /\ Len(tt) <= SnapshotIds /\ L = (Len(tt) - 1) % SnapshotIds
    <3>1. L \in Nat /\ L < SnapshotIds /\ snapshotId + 1 = L /\ Len(tt) - 1 = L
      BY <1>2, <1>4, <2>1, <2>2
    <3> HIDE DEF L, tt
    <3>2. L % SnapshotIds = L
      BY <2>2, <3>1, ModSmall
    <3> QED
      BY <2>1, <2>2, <3>1, <3>2
  <2> HIDE DEF tt, h, next
  <2>5. PICK e : e = Written(db, h)
    OBVIOUS
  <2>6. \A i \in Id : \A s : Value(e, i, s) = Value(db, i, s)
    <3>1. snapshotId \in Int /\ snapshotId <= snapshotId /\ StoreOK(db, snapshotId)
      BY <1>2
    <3> HIDE DEF L
    <3> QED
      BY <1>2, <2>3, <2>5, <3>1, DocsUnchanged
  <2>7. View(e, L) = now
    <3>1. ASSUME NEW i \in Id
          PROVE  Value(db, i, L) = Value(db, i, snapshotId)
      <4>1. \A r \in Versions(db, i) : r \in Nat /\ (r <= L <=> r <= L - 1)
        BY <1>2, ConstAssumption DEF StoreOK, Versions, Sid
      <4> HIDE DEF L
      <4>2. UpTo(db, i, L) = UpTo(db, i, snapshotId)
        BY <1>2, <4>1 DEF UpTo
      <4> QED
        BY <4>2 DEF Value
    <3> HIDE DEF L
    <3> QED
      BY <2>6, <3>1, SameView
  <2>8. Copies(e, tt) = Append(cc, Copy(n, now))
    <3>1. cc = [k \in 1..(L - 1) |-> Copy(snapshots[k], View(db, k - 1))]
      BY <1>1, <1>2, CopiesAre
    <3>2. Copies(e, tt) = [k \in 1..L |-> Copy(tt[k], View(e, k - 1))]
      <4>1. Copies(e, tt) = [k \in 1..(Len(tt) - 1) |-> Copy(tt[k], View(e, k - 1))]
        BY <2>1, <2>4, CopiesAre
      <4>2. Len(tt) - 1 = L
        BY <1>2, <2>1
      <4> QED
        BY <4>1, <4>2
    <3> HIDE DEF cc, now
    <3>3. Append(cc, Copy(n, now)) = [j \in 1..((L - 1) + 1) |-> IF j <= L - 1 THEN cc[j] ELSE Copy(n, now)]
      <4>1. cc = [j \in 1..(L - 1) |-> cc[j]] /\ L - 1 \in Nat
        BY <1>2, <3>1
      <4> QED
        BY <4>1, ListChanges
    <3>4. ASSUME NEW k \in 1..L
          PROVE  Copy(tt[k], View(e, k - 1)) = IF k <= L - 1 THEN cc[k] ELSE Copy(n, now)
      <4>1. View(e, k - 1) = View(db, k - 1)
        BY <2>6, SameView
      <4>2. CASE k <= L - 1
        <5>1. k \in 1..(L - 1)
          BY <1>2, <4>2
        <5>2. tt[k] = snapshots[k] /\ cc[k] = Copy(snapshots[k], View(db, k - 1))
          BY <2>1, <3>1, <5>1
        <5> QED
          BY <4>1, <4>2, <5>2
      <4>3. CASE ~(k <= L - 1)
        <5>1. k = L
          BY <1>2, <4>3
        <5>2. View(e, k - 1) = now
          BY <1>2, <4>1, <5>1 DEF now
        <5> QED
          BY <2>1, <4>3, <5>1, <5>2
      <4> QED
        BY <4>2, <4>3
    <3>5. Append(cc, Copy(n, now)) = [j \in 1..L |-> IF j <= L - 1 THEN cc[j] ELSE Copy(n, now)]
      <4>1. (L - 1) + 1 = L
        BY <1>2
      <4> QED
        BY <3>3, <4>1
    <3>6. Copies(e, tt) = [j \in 1..L |-> IF j <= L - 1 THEN cc[j] ELSE Copy(n, now)]
      BY <3>2, <3>4, Zenon
    <3> QED
      BY <3>5, <3>6
  <2>9. Abstract!Attempt(<<"newSnapshot", n>>, now, Append(cc, Copy(n, now)))
    <3> HIDE DEF L, cc, now
    <3>1. MoveTo(<<"newSnapshot", n>>, h, tt, indexed, L, observers)
      BY <1>4, <2>4
    <3>2. View(Written(db, h), L) = now /\ Copies(Written(db, h), tt) = Append(cc, Copy(n, now))
      BY <2>5, <2>7, <2>8
    <3> QED
      BY <1>2, <2>4, <3>1, <3>2, MoveMade
  <2>10. Abstract!Named(n) = {}
    BY <1>1, <1>2, <1>4, NamedCopies
  <2> QED
    BY <2>9, <2>10 DEF Abstract!NewSnapshot, Copy
<1> QED
  BY <1>3, <1>4 DEF NewSnapshot

\* revertToSnapshot: the copy becomes current, and those behind it go.
LEMMA RevertMade ==
    ASSUME Storing, CInv, XInv, NEW n \in Name, RevertToSnapshot(n)
    PROVE  Abstract!RevertToSnapshot(n)
<1> DEFINE k == SidOf(snapshots, n)
           tt == Append(SubSeq(snapshots, 1, k), Current)
           h == RevertHandle(db, k)
           obs == Reloaded(Written(db, h), k)
           L == Len(snapshots)
           cc == Copies(db, snapshots)
<1>1. SInv /\ ListOK(snapshots)
  BY DEF CInv, SInv
<1>2. /\ L \in Nat \ {0} /\ L <= SnapshotIds /\ snapshotId = L - 1 /\ SnapshotIds \in Nat \ {0}
      /\ Store # "map" /\ Store = "leveldb" /\ "reopens" \in Discipline /\ StoreOK(db, L - 1)
  BY IndexedStore, ConstAssumption DEF Storing
<1>3. CASE n \notin Range(snapshots) /\ Refuse(<<"revert", n>>, "errorInvalidObject")
  <2>1. Abstract!Named(n) = {}
    BY <1>1, <1>2, <1>3, NamedCopies
  <2>2. /\ [call |-> last'.call, ok |-> last'.r = "success"] = [call |-> <<"revert", n>>, ok |-> FALSE]
        /\ UNCHANGED <<db, snapshots, inDoubt, snapshotId>>
    BY <1>3, RefusedMade
  <2> QED
    BY <2>1, <2>2 DEF Abstract!RevertToSnapshot
<1>4. CASE n \in Range(snapshots) /\ MoveTo(<<"revert", n>>, h, tt, indexed, k, obs)
  <2>1. k \in Nat /\ k + 1 < L /\ snapshots[k + 1] = n /\ k + 1 \in Abstract!Named(n)
    BY <1>1, <1>2, <1>4, NamePlace, NamedCopies
  <2> HIDE DEF k
  <2>2. ListOK(tt) /\ Len(tt) = k + 1 /\ \A p \in 1..k : tt[p] = snapshots[p]
    BY <1>1, <1>2, <2>1, CutList
  <2>3. Len(tt) <= SnapshotIds /\ k = (Len(tt) - 1) % SnapshotIds
    <3>1. Len(tt) - 1 = k /\ k < SnapshotIds /\ Len(tt) <= SnapshotIds
      BY <1>2, <2>1, <2>2
    <3> HIDE DEF L, tt
    <3> QED
      BY <1>2, <2>1, <3>1, ModSmall
  <2>4. PICK e : e = Written(db, h)
    OBVIOUS
  <2>5. \A i \in Id, s \in 0..k : Value(e, i, s) = Value(db, i, s)
    <3>1. k < Len(snapshots) /\ Len(snapshots) \in Nat
      BY <1>2, <2>1
    <3> QED
      BY <1>2, <2>1, <2>4, <3>1, RevertEffect DEF h
  <2> HIDE DEF tt, h, obs, cc
  <2>6. cc = [j \in 1..(L - 1) |-> Copy(snapshots[j], View(db, j - 1))]
    BY <1>1, <1>2, CopiesAre DEF cc
  <2>7. View(e, k) = cc[k + 1].docs
    <3>1. k + 1 \in 1..(L - 1) /\ (k + 1) - 1 = k /\ k \in 0..k
      BY <1>2, <2>1
    <3>2. cc[k + 1].docs = View(db, k)
      BY <2>6, <3>1 DEF Copy
    <3>3. View(e, k) = View(db, k)
      BY <2>5, <3>1, SameView
    <3> QED
      BY <3>2, <3>3
  <2>8. Copies(e, tt) = SubSeq(cc, 1, (k + 1) - 1)
    <3>1. Copies(e, tt) = [j \in 1..k |-> Copy(tt[j], View(e, j - 1))]
      <4>1. Copies(e, tt) = [j \in 1..(Len(tt) - 1) |-> Copy(tt[j], View(e, j - 1))]
        BY <2>2, <2>3, CopiesAre
      <4>2. Len(tt) - 1 = k
        BY <2>1, <2>2
      <4> QED
        BY <4>1, <4>2
    <3>2. SubSeq(cc, 1, k) = [j \in 1..k |-> cc[j]]
      <4>1. cc = [j \in 1..(L - 1) |-> cc[j]] /\ L - 1 \in Nat /\ k \in 0..(L - 1)
        BY <1>2, <2>1, <2>6
      <4> QED
        BY <4>1, ListChanges
    <3>3. ASSUME NEW j \in 1..k
          PROVE  Copy(tt[j], View(e, j - 1)) = cc[j]
      <4>1. j \in 1..(L - 1) /\ j - 1 \in 0..k
        BY <1>2, <2>1
      <4>2. View(e, j - 1) = View(db, j - 1)
        BY <2>5, <4>1, SameView
      <4> QED
        BY <2>2, <2>6, <4>1, <4>2
    <3>4. (k + 1) - 1 = k
      BY <2>1
    <3> QED
      BY <3>1, <3>2, <3>3, <3>4
  <2>9. Abstract!Attempt(<<"revert", n>>, cc[k + 1].docs, SubSeq(cc, 1, (k + 1) - 1))
    <3>1. View(Written(db, h), k) = cc[k + 1].docs /\ Copies(Written(db, h), tt) = SubSeq(cc, 1, (k + 1) - 1)
      BY <2>4, <2>7, <2>8
    <3> QED
      BY <1>2, <1>4, <2>3, <3>1, MoveMade
  <2> QED
    BY <2>1, <2>9 DEF Abstract!RevertToSnapshot, cc
<1> QED
  BY <1>3, <1>4 DEF RevertToSnapshot

\* removeSnapshot: the copy goes, the current documents stay.
LEMMA RemoveMade ==
    ASSUME Storing, CInv, XInv, NEW n \in Name, RemoveSnapshot(n)
    PROVE  Abstract!RemoveSnapshot(n)
<1> DEFINE k == SidOf(snapshots, n)
           tt == RemoveAt(snapshots, k + 1)
           h == ShiftIndex(db, ShiftDocuments(db, NewHandle, k), k)
           sid == (snapshotId - 1) % SnapshotIds
           obs == Reloaded(Written(db, h), sid)
           L == Len(snapshots)
           cc == Copies(db, snapshots)
           now == View(db, snapshotId)
<1>1. SInv /\ ListOK(snapshots)
  BY DEF CInv, SInv
<1>2. /\ L \in Nat \ {0} /\ L <= SnapshotIds /\ snapshotId = L - 1 /\ SnapshotIds \in Nat \ {0}
      /\ Store # "map" /\ Store = "leveldb" /\ "reopens" \in Discipline /\ StoreOK(db, L - 1)
  BY IndexedStore, ConstAssumption DEF Storing
<1>3. CASE n \notin Range(snapshots) /\ Refuse(<<"removeSnapshot", n>>, "errorInvalidObject")
  <2>1. Abstract!Named(n) = {}
    BY <1>1, <1>2, <1>3, NamedCopies
  <2>2. /\ [call |-> last'.call, ok |-> last'.r = "success"]
              = [call |-> <<"removeSnapshot", n>>, ok |-> FALSE]
        /\ UNCHANGED <<db, snapshots, inDoubt, snapshotId>>
    BY <1>3, RefusedMade
  <2> QED
    BY <2>1, <2>2 DEF Abstract!RemoveSnapshot
<1>4. CASE n \in Range(snapshots) /\ MoveTo(<<"removeSnapshot", n>>, h, tt, indexed, sid, obs)
  <2>1. k \in Nat /\ k + 1 < L /\ snapshots[k + 1] = n /\ k + 1 \in Abstract!Named(n)
    BY <1>1, <1>2, <1>4, NamePlace, NamedCopies
  <2> HIDE DEF k
  <2>2. /\ ListOK(tt) /\ Len(tt) = L - 1
        /\ \A p \in 1..(L - 1) : tt[p] = snapshots[IF p <= k THEN p ELSE p + 1]
    BY <1>1, <1>2, <2>1, ShrinkList
  <2>3. Len(tt) <= SnapshotIds /\ sid = (Len(tt) - 1) % SnapshotIds /\ sid = L - 2
    <3>1. Len(tt) - 1 = L - 2 /\ snapshotId - 1 = L - 2 /\ L - 2 \in Nat /\ L - 2 < SnapshotIds
          /\ Len(tt) <= SnapshotIds
      BY <1>2, <2>1, <2>2
    <3> HIDE DEF L, tt
    <3> QED
      BY <1>2, <3>1, ModSmall
  <2>4. PICK e : e = Written(db, h)
    OBVIOUS
  <2>5. \A i \in Id, s \in 0..(L - 2) : Value(e, i, s) = Value(db, i, IF s < k THEN s ELSE s + 1)
    <3>1. \A x \in DOMAIN db : db[x] # Tomb
      BY DEF Storing, Indexable, Sheltered, RemoveSnapshot, MayRemove
    <3>2. L \in Nat
      BY <1>2
    <3> HIDE DEF L
    <3> QED
      BY <1>2, <2>1, <2>4, <3>1, <3>2, RemoveEffect DEF h
  <2> HIDE DEF tt, h, obs, cc, sid, now
  <2>6. cc = [j \in 1..(L - 1) |-> Copy(snapshots[j], View(db, j - 1))]
    BY <1>1, <1>2, CopiesAre DEF cc
  <2>7. ASSUME NEW s \in 0..(L - 2), NEW r, r = IF s < k THEN s ELSE s + 1
        PROVE  View(e, s) = View(db, r)
    BY <2>5, <2>7, SameView
  <2>8. View(e, sid) = now
    <3>1. L - 2 \in 0..(L - 2) /\ ~(L - 2 < k) /\ (L - 2) + 1 = snapshotId
      BY <1>2, <2>1
    <3>2. snapshotId = IF L - 2 < k THEN L - 2 ELSE (L - 2) + 1
      BY <3>1
    <3> HIDE DEF L
    <3> QED
      BY <2>3, <2>7, <3>1, <3>2 DEF now
  <2>9. Copies(e, tt) = RemoveAt(cc, k + 1)
    <3>1. Copies(e, tt) = [j \in 1..((L - 1) - 1) |-> Copy(tt[j], View(e, j - 1))]
      BY <2>2, <2>3, CopiesAre
    <3>2. RemoveAt(cc, k + 1) = [j \in 1..((L - 1) - 1) |-> cc[IF j <= k THEN j ELSE j + 1]]
      <4>1. PICK m \in Nat : m = L - 1
        BY <1>2, <2>1
      <4>2. k < m
        BY <1>2, <2>1, <4>1
      <4>3. cc = [j \in 1..m |-> cc[j]]
        BY <2>6, <4>1
      <4>4. \A i \in Nat : i < m =>
               RemoveAt(cc, i + 1) = [j \in 1..(m - 1) |-> cc[IF j <= i THEN j ELSE j + 1]]
        BY <4>3, ListChanges
      <4>5. RemoveAt(cc, k + 1) = [j \in 1..(m - 1) |-> cc[IF j <= k THEN j ELSE j + 1]]
        BY <2>1, <4>2, <4>4
      <4> QED
        BY <4>1, <4>5
    <3>3. ASSUME NEW j \in 1..((L - 1) - 1)
          PROVE  Copy(tt[j], View(e, j - 1)) = cc[IF j <= k THEN j ELSE j + 1]
      <4>1. PICK p : p = IF j <= k THEN j ELSE j + 1
        OBVIOUS
      <4>2. p \in 1..(L - 1) /\ j \in 1..(L - 1) /\ j - 1 \in 0..(L - 2)
            /\ p - 1 = IF j - 1 < k THEN j - 1 ELSE (j - 1) + 1
        BY <1>2, <2>1, <4>1
      <4>3. View(e, j - 1) = View(db, p - 1)
        <5>1. PICK s, r : s \in 0..(L - 2) /\ s = j - 1 /\ r = p - 1
          BY <4>2
        <5>2. r = IF s < k THEN s ELSE s + 1
          BY <4>2, <5>1
        <5>3. View(e, s) = View(db, r)
          BY <2>7, <5>1, <5>2
        <5> QED
          BY <5>1, <5>3
      <4>4. tt[j] = snapshots[p]
        <5>1. tt[j] = snapshots[IF j <= k THEN j ELSE j + 1]
          BY <2>2, <4>2
        <5> QED
          BY <4>1, <5>1
      <4>5. cc[p] = Copy(snapshots[p], View(db, p - 1))
        BY <2>6, <4>2
      <4> QED
        BY <4>1, <4>3, <4>4, <4>5
    <3> QED
      BY <3>1, <3>2, <3>3
  <2>10. RemoveAt(cc, k + 1) = Abstract!RemoveAt(cc, k + 1)
    BY DEF RemoveAt, Abstract!RemoveAt
  <2>11. Abstract!Attempt(<<"removeSnapshot", n>>, now, Abstract!RemoveAt(cc, k + 1))
    <3>1. View(Written(db, h), sid) = now /\ Copies(Written(db, h), tt) = Abstract!RemoveAt(cc, k + 1)
      BY <2>4, <2>8, <2>9, <2>10
    <3> QED
      BY <1>2, <1>4, <2>3, <3>1, MoveMade
  <2> QED
    BY <2>1, <2>11 DEF Abstract!RemoveSnapshot, cc, now
<1> QED
  BY <1>3, <1>4 DEF RemoveSnapshot

\* The collection is opened with the store it had or with the one in doubt.
LEMMA ReopenMade ==
    ASSUME Storing, CInv, XInv, Reopen
    PROVE  Abstract!Open
<1>1. PICK u \in {Committed} \union inDoubt :
          /\ db' = u.db /\ snapshots' = u.snapshots
          /\ snapshotId' = (Len(u.snapshots) - 1) % SnapshotIds
  BY IndexedStore DEF Reopen, Storing
<1>2. inDoubt' = {} /\ last' = Request(<<"open">>, NoTx, "success")
  BY DEF Reopen
<1>3. [call |-> last'.call, ok |-> last'.r = "success"] = [call |-> <<"open">>, ok |-> TRUE]
  BY <1>2 DEF Request
<1>4. snapshotId = (Len(snapshots) - 1) % SnapshotIds
  BY DEF CInv, SInv
<1> DEFINE then == Abstract!State(View(db', snapshotId'), Copies(db', snapshots'))
           was == Abstract!State(View(db, snapshotId), Copies(db, snapshots))
           doubts == {Doubt(w.db, w.snapshots) : w \in inDoubt}
<1>5. then = Doubt(u.db, u.snapshots)
  BY <1>1 DEF Abstract!State, Doubt
<1>6. was = Doubt(db, snapshots)
  BY <1>4 DEF Abstract!State, Doubt
<1> HIDE DEF then, was
<1>7. then \in {was} \union doubts
  BY <1>1, <1>5, <1>6 DEF Committed
<1>8. {Doubt(w.db, w.snapshots) : w \in inDoubt'} = {}
  BY <1>2
<1> QED
  BY <1>3, <1>7, <1>8, Zenon DEF Abstract!Open, Doubt, then, was

\* An empty collection is an empty DocumentStore.
LEMMA InitMade ==
    ASSUME Init
    PROVE  Abstract!Init
<1>1. View(db, snapshotId) = [i \in Id |-> None]
  BY DEF Init, View, Value, HasStart, NoKeys
<1>2. Copies(db, snapshots) = <<>>
  BY DEF Init, Copies
<1>3. inDoubt = {} /\ last = Request(<<"open">>, NoTx, "success")
  BY DEF Init
<1> QED
  BY <1>1, <1>2, <1>3 DEF Abstract!Init, Id, Request

\* Every step of the collection is a step of DocumentStore, or changes nothing
\* that DocumentStore knows of.
LEMMA StoreStep ==
    ASSUME Storing, CInv, XInv, [Next]_vars
    PROVE  [Abstract!Next]_(Abstract!abstractVars)
<1>1. CASE UNCHANGED vars
  BY <1>1 DEF vars, Abstract!abstractVars
<1>2. ASSUME NEW x \in Tx \union {NoTx}, NEW i \in Id, NEW ignore \in Ignore,
             \/ \E v \in Val, overwrite \in Overwrite : InsertRequest(x, i, v, overwrite, ignore)
             \/ RemoveIdRequest(x, i, ignore)
      PROVE  Abstract!Next
  <2>1. Abstract!RemoveId(i, ignore) \/ \E v \in Val : Abstract!Insert(i, v, ignore)
    BY <1>2, OneDocument
  <2> QED
    BY <2>1 DEF Abstract!Next, Id
<1>3. ASSUME NEW x \in Tx \union {NoTx}, NEW q \in Query,
             RemoveRequest(x, q) \/ \E docs \in Docs : SetRequest(x, q, docs)
      PROVE  Abstract!Next
  <2>1. Abstract!RemoveQuery(q) \/ \E docs \in Docs : Abstract!SetQuery(q, docs)
    BY <1>3, SeveralDocuments
  <2> QED
    BY <2>1 DEF Abstract!Next
<1>4. CASE CreateIndexRequest
  BY <1>4, IndexMade DEF Abstract!Next
<1>5. CASE \E t \in Tx : NewTransaction(t) \/ WriteTransaction(t) \/ DiscardTransaction(t)
  BY <1>5 DEF Storing, Indexable
<1>6. ASSUME NEW n \in Name, NewSnapshot(n) \/ RevertToSnapshot(n) \/ RemoveSnapshot(n)
      PROVE  Abstract!Next
  <2>1. Abstract!NewSnapshot(n) \/ Abstract!RevertToSnapshot(n) \/ Abstract!RemoveSnapshot(n)
    BY <1>6, NewSnapshotMade, RevertMade, RemoveMade
  <2> QED
    BY <2>1 DEF Abstract!Next
<1>7. CASE \E o \in ObsId : Unobserve(o) \/ \E q \in Query, limit \in Limit : Observe(o, q, limit)
  BY <1>7 DEF Storing
<1>8. CASE Reopen
  BY <1>8, ReopenMade DEF Abstract!Next
<1> QED
  BY <1>1, <1>2, <1>3, <1>4, <1>5, <1>6, <1>7, <1>8 DEF Next

\* Versions, start keys, tombstones, the index and the byte arithmetic on
\* snapshot ids add up to plain saved copies: the collection implements
\* DocumentStore, a request that failed and is there after a restart, or is not,
\* included, for clients that open the collection again when one failed.
THEOREM CollectionIsStore == Storing => (Spec => ImplementsDocumentStore)
<1> SUFFICES ASSUME Storing PROVE Spec => ImplementsDocumentStore
  OBVIOUS
<1>1. Init => Abstract!Init
  BY InitMade
<1>2. CInv /\ XInv /\ [Next]_vars => [Abstract!Next]_(Abstract!abstractVars)
  BY StoreStep
<1>3. Spec => [](CInv /\ XInv)
  BY IndexInvariant DEF Storing
<1> QED
  BY <1>1, <1>2, <1>3, PTL DEF Spec, ImplementsDocumentStore, Abstract!Spec
=============================================================================
