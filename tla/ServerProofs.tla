---------------------------- MODULE ServerProofs ----------------------------
(***************************************************************************)
(* What the server promises, for every number of connections, databases,   *)
(* requests and observers: transactions are kept apart though their        *)
(* numbers wrap, an exclusive lock excludes, and the data of an observer   *)
(* reach the client that made it.                                          *)
(*                                                                         *)
(* A request waits on a socket, then perhaps behind a lock, and what it    *)
(* names may be gone when it is performed.  The invariants therefore       *)
(* speak of every request still to be performed: Pending(c).               *)
(***************************************************************************)
EXTENDS Server, Lemmas

Requests == [n : Nat, kind : Kinds, base : Base, arg : Int]

\* The requests of a client that are not performed yet.
Pending(c) == Range(inbox[c]) \union Range(unlockWait[c])

\* The queues, and the onUnlocked at work: it never hands back more requests
\* than wait.
QueuesOK ==
    /\ clients \subseteq Client
    /\ sent \in [Client -> Nat]
    /\ inbox \in [Client -> Seq(Requests)]
    /\ unlockWait \in [Client -> Seq(Requests)]
    /\ \/ draining = <<None, 0>>
       \/ \E c \in Client, n \in Nat \ {0} : draining = <<c, n>> /\ n <= Len(unlockWait[c])

\* What a base, observeClient and observeCollection say of an observer number
\* agrees, and the numbers in use were given out before.
EnteredOK ==
    /\ nextNumber \in Int
    /\ observers \in [Base -> PartialFn(Int, Client)]
    /\ observeClient \in PartialFn(Int, clients)
    /\ observeCollection \in PartialFn(Int, Base)
    /\ \A o \in DOMAIN observeClient : o < nextNumber
    /\ \A o \in DOMAIN observeCollection : o < nextNumber
    /\ \A b \in Base : \A o \in DOMAIN observers[b] :
           /\ o \in DOMAIN observeClient /\ observeClient[o] = observers[b][o]
           /\ o \in DOMAIN observeCollection /\ observeCollection[o] = b

\* A queued signal is about an observer of the client it was queued for, or one
\* that is gone.
SignalOK(e) ==
    /\ e.id \in Int /\ e.id < nextNumber
    /\ e.id \in DOMAIN observeClient => observeClient[e.id] = e.client

\* A request to unobserve names its client's own observer or one that is gone.
AsksOwn(c, r) ==
    /\ c \in clients
    /\ r.kind = "observe" => r.arg = -1
    /\ r.kind = "unobserve" =>
          /\ r.arg \in Int /\ r.arg < nextNumber
          /\ r.arg \in DOMAIN observeCollection =>
                 r.arg \in DOMAIN observeClient /\ observeClient[r.arg] = c

ObserversOK ==
    /\ QueuesOK /\ EnteredOK
    /\ \A e \in changed : SignalOK(e)
    /\ \A c \in Client : \A r \in Pending(c) : AsksOwn(c, r)

\* No transaction number was given out twice: the count has not wrapped.
NotWrapped == transactionId < MaxNumber

Transactions == [base : Base, client : Client]

\* While numbers do not wrap an open transaction has a number given out before.
OpenOK ==
    /\ transactionId \in Nat
    /\ transactions \in PartialFn(Nat, Transactions)
    /\ \A t \in DOMAIN transactions : t < transactionId

\* A request to write or discard names its client's own transaction or one that
\* is gone.
NamesOwn(c, r) ==
    r.kind \in {"writeTransaction", "discardTransaction"} =>
        /\ r.arg < transactionId
        /\ r.arg \in DOMAIN transactions => transactions[r.arg] = [base |-> r.base, client |-> c]

\* A transaction of a locked base that is not the holder's was open before.
Guarded(b) ==
    databaseLocks[b] # None =>
        \A t \in DOMAIN transactions : transactions[t].base = b =>
            t \in older[b] \/ transactions[t].client = databaseLocks[b]

LocksOK ==
    /\ QueuesOK /\ OpenOK
    /\ databaseLocks \in [Base -> Client \union {None}] /\ DOMAIN older = Base
    /\ \A c \in Client : \A r \in Pending(c) : NamesOwn(c, r)
    /\ \A b \in Base : Guarded(b)

-----------------------------------------------------------------------------
(* The queues of requests.                                                 *)

\* The request at hand was pending, and performing it or putting it off makes
\* no other one pending.
LEMMA TakeFacts ==
    ASSUME QueuesOK, NEW c \in Client, NEW r \in Ready(c),
           NEW put, put = <<>> \/ put = <<r>>, Take(c, put)
    PROVE  /\ QueuesOK' /\ r \in Requests /\ r \in Pending(c)
           /\ \A d \in Client : Pending(d)' \subseteq Pending(d)
<1> USE ServerAssumption
<1>1. CASE draining = <<None, 0>>
  <2>1. inbox[c] \in Seq(Requests) /\ inbox[c] # <<>> /\ r = inbox[c][1]
    <3>1. Ready(c) = {inbox[c][k] : k \in 1..Min({1, Len(inbox[c])})}
      BY <1>1 DEF Ready
    <3>2. inbox[c] \in Seq(Requests) /\ Len(inbox[c]) \in Nat
      BY LenProperties DEF QueuesOK
    <3>3. Min({1, Len(inbox[c])}) \in {1, Len(inbox[c])} /\ Min({1, Len(inbox[c])}) <= 1
          /\ Min({1, Len(inbox[c])}) <= Len(inbox[c])
      BY <3>2 DEF Min
    <3> QED
      BY <3>1, <3>2, <3>3
  <2>2. r \in Requests /\ r \in Range(inbox[c]) /\ Tail(inbox[c]) \in Seq(Requests)
        /\ Range(Tail(inbox[c])) \subseteq Range(inbox[c])
    BY <2>1, TailFacts
  <2>3. put \in Seq(Requests) /\ Range(put) \subseteq {r}
    BY <2>2, PutFacts
  <2>4. unlockWait[c] \o put \in Seq(Requests)
        /\ Range(unlockWait[c] \o put) \subseteq Range(unlockWait[c]) \union {r}
    BY <2>3, ConcatFacts DEF QueuesOK
  <2>5. /\ inbox' = [inbox EXCEPT ![c] = Tail(@)]
        /\ unlockWait' = [unlockWait EXCEPT ![c] = @ \o put]
        /\ draining' = draining /\ clients' = clients /\ sent' = sent
    BY <1>1 DEF Take, socketVars
  <2>6. QueuesOK'
    BY <1>1, <2>2, <2>4, <2>5 DEF QueuesOK
  <2>7. \A d \in Client : Pending(d)' \subseteq Pending(d)
    BY <2>2, <2>4, <2>5 DEF QueuesOK, Pending
  <2> QED
    BY <2>2, <2>6, <2>7 DEF Pending
<1>2. CASE draining # <<None, 0>>
  <2>1. PICK n \in Nat \ {0} : draining = <<c, n>> /\ n <= Len(unlockWait[c])
    BY <1>2 DEF QueuesOK, Ready
  <2>2. r = unlockWait[c][1] /\ unlockWait[c] \in Seq(Requests) /\ unlockWait[c] # <<>>
    BY <2>1, EmptySeq DEF Ready, QueuesOK
  <2>3. r \in Requests /\ r \in Range(unlockWait[c]) /\ Tail(unlockWait[c]) \in Seq(Requests)
        /\ Len(Tail(unlockWait[c])) = Len(unlockWait[c]) - 1
        /\ Range(Tail(unlockWait[c])) \subseteq Range(unlockWait[c])
    BY <2>2, TailFacts
  <2>4. put \in Seq(Requests) /\ Range(put) \subseteq {r} /\ Len(put) \in Nat
    BY <2>3, PutFacts, LenProperties
  <2>5. Tail(unlockWait[c]) \o put \in Seq(Requests)
        /\ Len(Tail(unlockWait[c]) \o put) = Len(unlockWait[c]) - 1 + Len(put)
        /\ Range(Tail(unlockWait[c]) \o put) \subseteq Range(unlockWait[c])
    <3> DEFINE rest == Tail(unlockWait[c])
    <3>1. rest \in Seq(Requests) /\ Range(rest) \subseteq Range(unlockWait[c])
          /\ Len(rest) = Len(unlockWait[c]) - 1 /\ Range(put) \subseteq Range(unlockWait[c])
      BY <2>3, <2>4
    <3> HIDE DEF rest
    <3>2. rest \o put \in Seq(Requests) /\ Len(rest \o put) = Len(rest) + Len(put)
          /\ Range(rest \o put) \subseteq Range(rest) \union Range(put)
      BY <2>4, <3>1, ConcatFacts
    <3> QED
      BY <3>1, <3>2 DEF rest
  <2>6. /\ unlockWait' = [unlockWait EXCEPT ![c] = Tail(@) \o put]
        /\ draining' = IF n = 1 THEN <<None, 0>> ELSE <<c, n - 1>>
        /\ inbox' = inbox /\ clients' = clients /\ sent' = sent
    BY <2>1 DEF Take, socketVars
  <2>7. QueuesOK'
    <3>1. unlockWait' \in [Client -> Seq(Requests)] /\ Len(unlockWait'[c]) >= Len(unlockWait[c]) - 1
      BY <2>4, <2>5, <2>6, LenProperties DEF QueuesOK
    <3>2. n - 1 <= Len(unlockWait'[c])
      BY <2>1, <2>2, <3>1, LenProperties
    <3>3. CASE n = 1
      BY <2>6, <3>1, <3>3 DEF QueuesOK
    <3>4. CASE n # 1
      <4>1. n - 1 \in Nat \ {0} /\ draining' = <<c, n - 1>>
        BY <2>6, <3>4
      <4> QED
        BY <2>6, <3>1, <3>2, <4>1 DEF QueuesOK
    <3> QED
      BY <3>3, <3>4
  <2>8. \A d \in Client : Pending(d)' \subseteq Pending(d)
    BY <2>5, <2>6 DEF QueuesOK, Pending
  <2> QED
    BY <2>3, <2>7, <2>8 DEF Pending
<1> QED
  BY <1>1, <1>2

\* What is pending is a request.
LEMMA PendingType ==
    ASSUME QueuesOK, NEW c \in Client, NEW r \in Pending(c)
    PROVE  r \in Requests
<1>1. \A s \in Seq(Requests) : Range(s) \subseteq Requests
  BY ElementOfSeq, LenProperties DEF Range
<1> QED
  BY <1>1 DEF QueuesOK, Pending

\* A request is performed.
Perform(c, r) ==
    \/ Operate(c, r)
    \/ NewTransaction(c, r) \/ WriteTransaction(c, r) \/ DiscardTransaction(c, r)
    \/ Observe(c, r) \/ Unobserve(c, r)
    \/ ExclusiveLock(c, r) \/ Unlock(c, r)

\* receive puts a pending request off or performs it.
LEMMA ReceiveFacts ==
    ASSUME QueuesOK, NEW c \in Client, Receive(c)
    PROVE  \E r \in Requests :
               /\ QueuesOK' /\ r \in Pending(c)
               /\ \A d \in Client : Pending(d)' \subseteq Pending(d)
               /\ AppendUnlockWait(c, r) \/ (~Locked(c, r) /\ Perform(c, r))
<1>1. PICK r \in Ready(c) : AppendUnlockWait(c, r) \/ (~Locked(c, r) /\ Perform(c, r))
  BY DEF Receive, Perform
<1>2. PICK put : (put = <<>> \/ put = <<r>>) /\ Take(c, put)
  <2>1. AppendUnlockWait(c, r) => Take(c, <<r>>)
    BY DEF AppendUnlockWait
  <2>2. Perform(c, r) => Take(c, <<>>)
    BY DEF Perform, Operate, NewTransaction, WriteTransaction, DiscardTransaction, Observe,
           Unobserve, ExclusiveLock, Unlock, Done
  <2> QED
    BY <1>1, <2>1, <2>2
<1>3. /\ QueuesOK' /\ r \in Requests /\ r \in Pending(c)
      /\ \A d \in Client : Pending(d)' \subseteq Pending(d)
  BY <1>2, TakeFacts
<1> QED
  BY <1>1, <1>3

\* A client sends a request; no other becomes pending.
LEMMA SendFacts ==
    ASSUME QueuesOK, NEW c \in Client, NEW kind \in Kinds, NEW b \in Base, NEW arg \in Int,
           Send(c, kind, b, arg)
    PROVE  /\ QueuesOK'
           /\ \A d \in Client : \A r \in Pending(d)' :
                  r \in Pending(d) \/ (d = c /\ \E n \in Nat : r = Request(n, kind, b, arg))
<1> DEFINE n == IF kind = "unlock" THEN 0 ELSE sent[c] + 1
           r == Request(n, kind, b, arg)
<1>1. n \in Nat /\ r \in Requests
  BY DEF QueuesOK, Requests, Request
<1>2. /\ inbox' = [inbox EXCEPT ![c] = Append(@, r)]
      /\ clients' = clients /\ unlockWait' = unlockWait /\ draining' = draining
      /\ sent' \in [Client -> Nat]
  BY DEF Send, QueuesOK
<1> HIDE DEF n, r
<1>3. Append(inbox[c], r) \in Seq(Requests)
      /\ Range(Append(inbox[c], r)) \subseteq Range(inbox[c]) \union {r}
  BY <1>1, AppendFacts DEF QueuesOK
<1>4. QueuesOK'
  BY <1>2, <1>3 DEF QueuesOK
<1>5. \A d \in Client : \A x \in Pending(d)' : x \in Pending(d) \/ (d = c /\ x = r)
  BY <1>2, <1>3 DEF QueuesOK, Pending
<1> QED
  BY <1>1, <1>4, <1>5 DEF r

\* The other handlers make no request pending either, and a client that goes
\* takes its own with it.
LEMMA OtherQueues ==
    ASSUME QueuesOK,
           \/ \E c \in Client : OnUnlocked(c) \/ ClientRemoved(c)
           \/ \E e \in changed : ObserveQueryChanged(e)
    PROVE  /\ QueuesOK'
           /\ \A d \in Client : Pending(d)' \subseteq Pending(d)
           /\ \A d \in Client : ClientRemoved(d) => Pending(d)' = {}
<1> USE ServerAssumption
<1>1. ASSUME NEW e \in changed, ObserveQueryChanged(e)
      PROVE  QueuesOK' /\ \A d \in Client : Pending(d)' \subseteq Pending(d)
  BY <1>1 DEF ObserveQueryChanged, QueuesOK, socketVars, Pending
<1>2. ASSUME NEW c \in Client, OnUnlocked(c)
      PROVE  QueuesOK' /\ \A d \in Client : Pending(d)' \subseteq Pending(d)
  <2>1. inbox' = inbox /\ unlockWait' = unlockWait /\ clients' = clients /\ sent' = sent
    BY <1>2 DEF OnUnlocked, socketVars
  <2>2. draining' = draining \/ (draining' = <<c, Len(unlockWait[c])>> /\ unlockWait[c] # <<>>)
    BY <1>2 DEF OnUnlocked
  <2>3. unlockWait[c] # <<>> => Len(unlockWait[c]) \in Nat \ {0}
    BY EmptySeq, LenProperties DEF QueuesOK
  <2> QED
    BY <2>1, <2>2, <2>3 DEF QueuesOK, Pending
<1>3. ASSUME NEW c \in Client, ClientRemoved(c)
      PROVE  QueuesOK' /\ \A d \in Client : Pending(d)' \subseteq Pending(d)
  <2>1. /\ inbox' = [inbox EXCEPT ![c] = <<>>] /\ unlockWait' = [unlockWait EXCEPT ![c] = <<>>]
        /\ clients' = clients \ {c} /\ sent' = sent /\ draining' = draining /\ draining[1] = None
    BY <1>3 DEF ClientRemoved
  <2>2. draining = <<None, 0>>
    BY <2>1 DEF QueuesOK
  <2>3. QueuesOK'
    BY <2>1, <2>2 DEF QueuesOK
  <2>4. Range(<<>>) = {}
    BY DEF Range
  <2> QED
    BY <2>1, <2>3, <2>4 DEF QueuesOK, Pending
<1>4. \A d \in Client : ClientRemoved(d) => Pending(d)' = {}
  BY DEF ClientRemoved, QueuesOK, Pending, Range
<1> QED
  BY <1>1, <1>2, <1>3, <1>4

-----------------------------------------------------------------------------
(* Transaction numbers.                                                    *)

\* The next number to try is a number: past the greatest it is 0 again.
NumbersOK == transactionId \in Number

\* While a number is free getNextTransactionId returns a free one, however the
\* count has wrapped: of the free ones the first it comes to.
LEMMA NextIsFree ==
    ASSUME NumbersOK, Number \ DOMAIN transactions # {}
    PROVE  /\ NextTransactionId \in Number \ DOMAIN transactions
           /\ transactionId \notin DOMAIN transactions => NextTransactionId = transactionId
<1> DEFINE free == Number \ DOMAIN transactions
           ahead(n) == (n - transactionId) % (MaxNumber + 1)
<1>1. \A n \in Number : ahead(n) \in 0..MaxNumber /\ n - transactionId \in (0 - MaxNumber)..MaxNumber
  BY ServerAssumption DEF NumbersOK, Number
<1>2. \E n \in free : \A m \in free : ahead(n) <= ahead(m)
  <2> DEFINE T == {ahead(n) : n \in free}
  <2>1. T \in SUBSET Nat /\ T # {}
    BY <1>1, ServerAssumption
  <2>2. PICK a \in T : \A b \in T : a <= b
    <3> HIDE DEF T
    <3> QED
      BY <2>1, LeastExists
  <2>3. PICK n \in free : a = ahead(n)
    BY <2>2
  <2>4. \A m \in free : ahead(m) \in T
    OBVIOUS
  <2> QED
    BY <2>2, <2>3, <2>4
<1>3. NextTransactionId = CHOOSE n \in free : \A m \in free : ahead(n) <= ahead(m)
  BY DEF NextTransactionId
<1> HIDE DEF ahead
<1>4. NextTransactionId \in free /\ \A m \in free : ahead(NextTransactionId) <= ahead(m)
  BY <1>2, <1>3
<1>5. ASSUME transactionId \in free PROVE NextTransactionId = transactionId
  <2>1. ahead(transactionId) = 0
    BY ServerAssumption DEF ahead, NumbersOK, Number
  <2>2. ahead(NextTransactionId) = 0
    BY <1>1, <1>4, <1>5, <2>1
  <2>3. ASSUME NEW n \in Number, ahead(n) = 0 PROVE n = transactionId
    <3>1. CASE n >= transactionId
      BY <2>3, <3>1, ServerAssumption DEF ahead, NumbersOK, Number
    <3>2. CASE n < transactionId
      BY <2>3, <3>2, ServerAssumption DEF ahead, NumbersOK, Number
    <3> QED
      BY <3>1, <3>2 DEF NumbersOK, Number
  <2> QED
    BY <1>4, <2>2, <2>3
<1> QED
  BY <1>4, <1>5 DEF NumbersOK

\* A transaction number stands for one transaction until that is written or
\* discarded (getNextTransactionId), for every number of clients, requests and
\* transactions, and though the count of numbers wraps.
THEOREM NumbersStand == Spec => TransactionsKept
<1> DEFINE Kept == \A t \in DOMAIN transactions \intersect DOMAIN transactions' :
                       transactions'[t] = transactions[t]
<1>1. Init => NumbersOK
  BY ServerAssumption DEF Init, NumbersOK, Number
<1>2. ASSUME NumbersOK, [Next]_vars
      PROVE  NumbersOK' /\ Kept
  <2>1. CASE /\ transactionId' = transactionId
             /\ transactions' = transactions \/ \E t : transactions' = Without(transactions, t)
    <3>1. NumbersOK'
      BY <1>2, <2>1 DEF NumbersOK, Number
    <3>2. ASSUME NEW t, transactions' = Without(transactions, t) PROVE Kept
      BY <3>2 DEF Without
    <3> QED
      BY <2>1, <3>1, <3>2
  <2>2. ASSUME NEW c \in Client, NEW r, NewTransaction(c, r)
        PROVE  NumbersOK' /\ Kept
    <3>1. NextTransactionId \in Number \ DOMAIN transactions
      BY <1>2, <2>2, NextIsFree DEF NewTransaction
    <3>2. /\ transactions' = With(transactions, NextTransactionId, [base |-> r.base, client |-> c])
          /\ transactionId' = (NextTransactionId + 1) % (MaxNumber + 1)
      BY <2>2 DEF NewTransaction
    <3>3. NumbersOK'
      BY <3>1, <3>2, ServerAssumption DEF NumbersOK, Number
    <3> QED
      BY <3>1, <3>2, <3>3 DEF With
  <2>3. ASSUME NEW c \in Client, Receive(c)
        PROVE  NumbersOK' /\ Kept
    <3>1. PICK r : AppendUnlockWait(c, r) \/ Perform(c, r)
      BY <2>3 DEF Receive, Perform
    <3> QED
      BY <2>1, <2>2, <3>1
      DEF AppendUnlockWait, Perform, Operate, WriteTransaction, DiscardTransaction, Observe,
          Unobserve, ExclusiveLock, Unlock, txVars
  <2>4. CASE UNCHANGED txVars
    BY <2>1, <2>4 DEF txVars
  <2> QED
    BY <1>2, <2>3, <2>4
    DEF Next, vars, txVars, Send, OnUnlocked, ClientRemoved, ObserveQueryChanged
<1>3. Kept => [Kept]_vars
  OBVIOUS
<1> QED
  BY <1>1, <1>2, PTL DEF Spec, TransactionsKept

-----------------------------------------------------------------------------
(* Exclusive locks.                                                        *)

\* A transaction that is written, discarded or left alone.
LEMMA FewerOpen ==
    ASSUME OpenOK, transactionId' = transactionId,
           transactions' = transactions \/ \E t : transactions' = Without(transactions, t)
    PROVE  /\ OpenOK' /\ DOMAIN transactions' \subseteq DOMAIN transactions
           /\ \A t \in DOMAIN transactions' : transactions'[t] = transactions[t]
<1>1. ASSUME NEW t, transactions' = Without(transactions, t)
      PROVE  /\ transactions' \in PartialFn(Nat, Transactions)
             /\ DOMAIN transactions' \subseteq DOMAIN transactions
             /\ \A u \in DOMAIN transactions' : transactions'[u] = transactions[u]
  <2>1. transactions \in PartialFn(Nat, Transactions)
    BY DEF OpenOK
  <2>2. Without(transactions, t) \in PartialFn(Nat, Transactions)
    BY <2>1, WithoutFacts
  <2> QED
    BY <1>1, <2>2 DEF Without
<1> QED
  BY <1>1 DEF OpenOK

\* A new transaction takes the next number, which nothing pending names.
LEMMA OneMoreOpen ==
    ASSUME OpenOK, NotWrapped, NotWrapped', NEW c \in Client, NEW r \in Requests, NewTransaction(c, r)
    PROVE  /\ OpenOK' /\ transactionId' = transactionId + 1
           /\ DOMAIN transactions' = DOMAIN transactions \union {transactionId}
           /\ transactions'[transactionId] = [base |-> r.base, client |-> c]
           /\ \A t \in DOMAIN transactions : transactions'[t] = transactions[t]
<1>1. NumbersOK /\ transactionId \notin DOMAIN transactions
  BY ServerAssumption DEF OpenOK, NotWrapped, NumbersOK, Number
<1>2. NextTransactionId = transactionId
  BY <1>1, NextIsFree DEF NewTransaction
<1>3. /\ transactions' = With(transactions, transactionId, [base |-> r.base, client |-> c])
      /\ transactionId' = (transactionId + 1) % (MaxNumber + 1)
  BY <1>2 DEF NewTransaction
<1>4. [base |-> r.base, client |-> c] \in Transactions
  BY DEF Requests, Transactions
<1>5. /\ transactions' \in PartialFn(Nat, Transactions)
      /\ DOMAIN transactions' = DOMAIN transactions \union {transactionId}
      /\ transactions'[transactionId] = [base |-> r.base, client |-> c]
      /\ \A t \in DOMAIN transactions \ {transactionId} : transactions'[t] = transactions[t]
  <2>1. transactionId \in Nat /\ transactions \in PartialFn(Nat, Transactions)
    BY DEF OpenOK
  <2>2. transactions' \in PartialFn(Nat, Transactions)
    BY <1>3, <1>4, <2>1, WithFacts
  <2> QED
    BY <1>3, <2>2 DEF With
<1>6. transactionId' = transactionId + 1
  BY <1>1, <1>3, ServerAssumption DEF NumbersOK, NotWrapped, Number
<1>7. \A t \in DOMAIN transactions : t \in Nat /\ t < transactionId
  BY PartialFnElim DEF OpenOK
<1> QED
  BY <1>1, <1>5, <1>6, <1>7 DEF OpenOK, NumbersOK, Number

\* Requests that leave the locks alone and open no transaction.
LEMMA LocksStay ==
    ASSUME LocksOK, QueuesOK', \A d \in Client : Pending(d)' \subseteq Pending(d),
           transactionId' = transactionId,
           transactions' = transactions \/ \E t : transactions' = Without(transactions, t),
           databaseLocks' = databaseLocks, older' = older
    PROVE  LocksOK'
<1> USE DEF LocksOK
<1>1. /\ OpenOK' /\ DOMAIN transactions' \subseteq DOMAIN transactions
      /\ \A t \in DOMAIN transactions' : transactions'[t] = transactions[t]
  BY FewerOpen
<1>2. (\A c \in Client : \A r \in Pending(c) : NamesOwn(c, r))'
  <2> SUFFICES ASSUME NEW c \in Client, NEW r \in Pending(c)' PROVE NamesOwn(c, r)'
    OBVIOUS
  <2>1. NamesOwn(c, r)
    OBVIOUS
  <2> QED
    BY <1>1, <2>1 DEF NamesOwn
<1>3. (\A b \in Base : Guarded(b))'
  BY <1>1 DEF Guarded
<1> QED
  BY <1>1, <1>2, <1>3

\* A lock is taken, given back or erased: a base that stays locked keeps its
\* holder, and one newly locked remembers what is open.
LEMMA LocksMove ==
    ASSUME LocksOK, QueuesOK', \A d \in Client : Pending(d)' \subseteq Pending(d),
           UNCHANGED txVars,
           databaseLocks' \in [Base -> Client \union {None}], DOMAIN older' = Base,
           \A b \in Base :
               \/ databaseLocks'[b] = None
               \/ databaseLocks'[b] = databaseLocks[b] /\ older'[b] = older[b]
               \/ older'[b] = {t \in DOMAIN transactions : transactions[t].base = b}
    PROVE  LocksOK'
<1> USE DEF LocksOK
<1>1. transactions' = transactions /\ transactionId' = transactionId
  BY DEF txVars
<1>2. OpenOK' /\ (\A c \in Client : \A r \in Pending(c) : NamesOwn(c, r))'
  BY <1>1 DEF OpenOK, NamesOwn
<1>3. (\A b \in Base : Guarded(b))'
  BY <1>1 DEF Guarded
<1> QED
  BY <1>2, <1>3

\* A request of a client.
LEMMA SendLocks ==
    ASSUME LocksOK, NEW c \in Client, NEW kind \in Kinds, NEW b \in Base, NEW arg \in Int,
           Send(c, kind, b, arg)
    PROVE  LocksOK'
<1> USE DEF LocksOK
<1>1. /\ QueuesOK'
      /\ \A d \in Client : \A r \in Pending(d)' :
             r \in Pending(d) \/ (d = c /\ \E n \in Nat : r = Request(n, kind, b, arg))
  BY SendFacts
<1>2. UNCHANGED <<transactions, transactionId, databaseLocks, older>> /\ Sensible(c, kind, b, arg)
  BY DEF Send, txVars, lockVars
<1>3. kind \in {"writeTransaction", "discardTransaction"} =>
          arg \in DOMAIN transactions /\ transactions[arg] = [base |-> b, client |-> c]
  BY <1>2 DEF Sensible, OwnTransaction
<1>4. \A d \in Client : \A r \in Pending(d)' : NamesOwn(d, r)
  <2> SUFFICES ASSUME NEW n \in Nat PROVE NamesOwn(c, Request(n, kind, b, arg))
    BY <1>1
  <2> QED
    BY <1>3 DEF NamesOwn, Request, OpenOK
<1>5. (\A d \in Client : \A r \in Pending(d) : NamesOwn(d, r))'
  BY <1>2, <1>4 DEF NamesOwn
<1>6. OpenOK' /\ (\A x \in Base : Guarded(x))'
  BY <1>2 DEF OpenOK, Guarded
<1> QED
  BY <1>1, <1>2, <1>5, <1>6

\* A new transaction of a base that nobody else has locked.
LEMMA NewTransactionLocks ==
    ASSUME LocksOK, NotWrapped, NotWrapped', NEW c \in Client, NEW r \in Requests,
           QueuesOK', \A d \in Client : Pending(d)' \subseteq Pending(d),
           ~Locked(c, r), NewTransaction(c, r)
    PROVE  LocksOK'
<1> USE DEF LocksOK
<1>1. /\ OpenOK' /\ transactionId' = transactionId + 1
      /\ DOMAIN transactions' = DOMAIN transactions \union {transactionId}
      /\ transactions'[transactionId] = [base |-> r.base, client |-> c]
      /\ \A t \in DOMAIN transactions : transactions'[t] = transactions[t]
  BY OneMoreOpen
<1>2. UNCHANGED <<databaseLocks, older>> /\ databaseLocks[r.base] \in {None, c}
  BY DEF NewTransaction, Locked, UrlNeeded, lockVars
<1>3. (\A d \in Client : \A x \in Pending(d) : NamesOwn(d, x))'
  <2> SUFFICES ASSUME NEW d \in Client, NEW x \in Pending(d)' PROVE NamesOwn(d, x)'
    OBVIOUS
  <2>1. NamesOwn(d, x) /\ x \in Requests
    BY PendingType
  <2> QED
    BY <1>1, <2>1 DEF NamesOwn, Requests, OpenOK
<1>4. (\A b \in Base : Guarded(b))'
  BY <1>1, <1>2 DEF Guarded
<1> QED
  BY <1>1, <1>2, <1>3, <1>4

\* What a step that changes a base may be while the base is locked.
Excluded ==
    last'.what \in {"operate", "writeTransaction"} =>
        \/ databaseLocks[last'.base] \in {None, last'.client}
        \/ last'.what = "writeTransaction" /\ last'.to \in older[last'.base]

\* A request that is performed keeps the invariant, and a write of another
\* client's base is of a transaction that was open before the lock.
LEMMA PerformLocks ==
    ASSUME LocksOK, NotWrapped, NotWrapped', NEW c \in Client, NEW r \in Requests, r \in Pending(c),
           QueuesOK', \A d \in Client : Pending(d)' \subseteq Pending(d),
           ~Locked(c, r), Perform(c, r)
    PROVE  LocksOK' /\ Excluded
<1>1. CASE Operate(c, r)
  <2>1. LocksOK'
    BY <1>1, LocksStay DEF Operate, lockVars, txVars
  <2>2. databaseLocks[r.base] \in {None, c}
    BY <1>1 DEF Operate, Locked, UrlNeeded
  <2>3. last'.what = "operate" => last'.base = r.base /\ last'.client = c
    BY <1>1 DEF Operate, Done
  <2>4. last'.what # "writeTransaction"
    BY <1>1 DEF Operate, Done
  <2> QED
    BY <2>1, <2>2, <2>3, <2>4 DEF Excluded
<1>2. CASE NewTransaction(c, r)
  <2>1. last'.what = "none"
    BY <1>2 DEF NewTransaction, Done
  <2> QED
    BY <1>2, <2>1, NewTransactionLocks DEF Excluded
<1>3. CASE WriteTransaction(c, r)
  <2>1. LocksOK'
    BY <1>3, LocksStay DEF WriteTransaction, lockVars
  <2>2. CASE r.arg \in DOMAIN transactions
    <3>1. /\ last'.what = "writeTransaction" /\ last'.base = r.base
          /\ last'.client = c /\ last'.to = r.arg
      <4>1. Done(c, r, "writeTransaction", r.arg)
        BY <1>3, <2>2 DEF WriteTransaction
      <4>2. last' = [what |-> "writeTransaction", client |-> c, base |-> r.base, to |-> r.arg]
        BY <4>1 DEF Done
      <4> QED
        BY <4>2
    <3>2. transactions[r.arg].base = r.base /\ transactions[r.arg].client = c
      <4>1. r.kind = "writeTransaction"
        BY <1>3 DEF WriteTransaction
      <4>2. NamesOwn(c, r)
        BY DEF LocksOK
      <4> QED
        BY <2>2, <4>1, <4>2 DEF NamesOwn
    <3>3. Guarded(r.base)
      BY DEF LocksOK, Requests
    <3> QED
      BY <2>1, <2>2, <3>1, <3>2, <3>3 DEF Excluded, Guarded
  <2>3. CASE r.arg \notin DOMAIN transactions
    <3>1. last'.what = "none"
      BY <1>3, <2>3 DEF WriteTransaction, Done
    <3> QED
      BY <2>1, <3>1 DEF Excluded
  <2> QED
    BY <2>2, <2>3
<1>4. CASE DiscardTransaction(c, r)
  <2>1. LocksOK'
    BY <1>4, LocksStay DEF DiscardTransaction, lockVars
  <2>2. last'.what = "none"
    BY <1>4 DEF DiscardTransaction, Done
  <2> QED
    BY <2>1, <2>2 DEF Excluded
<1>5. CASE Observe(c, r) \/ Unobserve(c, r)
  <2>1. LocksOK'
    BY <1>5, LocksStay DEF Observe, Unobserve, lockVars, txVars
  <2>2. last'.what = "none"
    BY <1>5 DEF Observe, Unobserve, Done
  <2> QED
    BY <2>1, <2>2 DEF Excluded
<1>6. CASE ExclusiveLock(c, r)
  <2>1. databaseLocks[r.base] \in {None, c}
    BY <1>6 DEF ExclusiveLock, Locked, UrlNeeded
  <2>2. /\ databaseLocks' = [databaseLocks EXCEPT ![r.base] = c]
        /\ older' = IF databaseLocks[r.base] = c THEN older
                    ELSE [older EXCEPT ![r.base] =
                             {t \in DOMAIN transactions : transactions[t].base = r.base}]
    BY <1>6 DEF ExclusiveLock
  <2>3. LocksOK'
    <3>1. databaseLocks \in [Base -> Client \union {None}] /\ DOMAIN older = Base /\ r.base \in Base
      BY DEF LocksOK, Requests
    <3>2. databaseLocks' \in [Base -> Client \union {None}] /\ DOMAIN older' = Base
      BY <2>2, <3>1
    <3>3. \A b \in Base :
              \/ databaseLocks'[b] = databaseLocks[b] /\ older'[b] = older[b]
              \/ older'[b] = {t \in DOMAIN transactions : transactions[t].base = b}
      BY <2>1, <2>2, <3>1
    <3> QED
      BY <1>6, <3>2, <3>3, LocksMove DEF ExclusiveLock
  <2>4. last'.what = "none"
    BY <1>6 DEF ExclusiveLock, Done
  <2> QED
    BY <2>3, <2>4 DEF Excluded
<1>7. CASE Unlock(c, r)
  <2>1. older' = older /\ databaseLocks' \in {databaseLocks, [databaseLocks EXCEPT ![r.base] = None]}
    BY <1>7 DEF Unlock
  <2>2. LocksOK'
    <3>1. databaseLocks \in [Base -> Client \union {None}] /\ DOMAIN older = Base /\ r.base \in Base
      BY DEF LocksOK, Requests
    <3>2. databaseLocks' \in [Base -> Client \union {None}] /\ DOMAIN older' = Base
      BY <2>1, <3>1
    <3>3. \A b \in Base :
              databaseLocks'[b] = None \/ (databaseLocks'[b] = databaseLocks[b] /\ older'[b] = older[b])
      BY <2>1, <3>1
    <3> QED
      BY <1>7, <3>2, <3>3, LocksMove DEF Unlock
  <2>3. last'.what = "none"
    BY <1>7 DEF Unlock, Done
  <2> QED
    BY <2>2, <2>3 DEF Excluded
<1> QED
  BY <1>1, <1>2, <1>3, <1>4, <1>5, <1>6, <1>7 DEF Perform

\* The other handlers; a client that goes leaves its base unlocked.
LEMMA OtherLocks ==
    ASSUME LocksOK,
           \/ \E c \in Client : OnUnlocked(c) \/ ClientRemoved(c)
           \/ \E e \in changed : ObserveQueryChanged(e)
    PROVE  LocksOK' /\ last'.what \in {"none", "data"}
<1>1. QueuesOK' /\ \A d \in Client : Pending(d)' \subseteq Pending(d)
  BY OtherQueues DEF LocksOK
<1>2. last'.what \in {"none", "data"}
  <2>1. last' = Idle \/ last'.what = "data"
    <3>1. ASSUME NEW c \in Client, OnUnlocked(c) \/ ClientRemoved(c) PROVE last' = Idle
      BY <3>1 DEF OnUnlocked, ClientRemoved
    <3>2. ASSUME NEW e \in changed, ObserveQueryChanged(e) PROVE last' = Idle \/ last'.what = "data"
      BY <3>2 DEF ObserveQueryChanged
    <3> QED
      BY <3>1, <3>2
  <2> QED
    BY <2>1 DEF Idle
<1>3. CASE UNCHANGED <<txVars, databaseLocks, older>>
  BY <1>1, <1>2, <1>3, LocksStay DEF txVars
<1>4. ASSUME NEW c \in Client, ClientRemoved(c)
      PROVE  LocksOK'
  <2>1. /\ databaseLocks' = [b \in Base |-> IF databaseLocks[b] = c THEN None ELSE databaseLocks[b]]
        /\ older' = older /\ UNCHANGED txVars
    BY <1>4 DEF ClientRemoved
  <2>2. databaseLocks \in [Base -> Client \union {None}] /\ DOMAIN older = Base
    BY DEF LocksOK
  <2> QED
    BY <1>1, <2>1, <2>2, LocksMove
<1> QED
  BY <1>2, <1>3, <1>4 DEF OnUnlocked, ObserveQueryChanged, lockVars

\* While a client holds a base only its own requests change it, or the writing
\* of a transaction that was open before, for every number of clients and bases,
\* until the count of transactions wraps: after that a request to write which
\* was sent twice may name somebody else's transaction.
THEOREM LocksExclude == Spec /\ []NotWrapped => LockExcludes
<1>1. Init => LocksOK
  <2> SUFFICES ASSUME Init PROVE LocksOK
    OBVIOUS
  <2>1. \A c \in Client : Pending(c) = {}
    BY DEF Init, Pending, Range
  <2>2. transactions \in [{} -> Transactions] /\ DOMAIN transactions = {}
    BY DEF Init, Empty
  <2>3. OpenOK
    BY <2>2, PartialFnIntro DEF OpenOK, Init
  <2>4. QueuesOK
    BY DEF QueuesOK, Init
  <2> QED
    BY <2>1, <2>3, <2>4 DEF LocksOK, Init, Guarded
<1>2. ASSUME LocksOK, NotWrapped, NotWrapped', [Next]_vars
      PROVE  LocksOK' /\ (UNCHANGED vars \/ Excluded)
  <2>1. ASSUME NEW c \in Client, NEW kind \in Kinds, NEW b \in Base,
               NEW arg \in {-1} \union Number \union ObserverNumber, Send(c, kind, b, arg)
        PROVE  LocksOK' /\ Excluded
    <3>1. arg \in Int /\ last'.what = "none"
      BY <2>1, ServerAssumption DEF Send, Idle, Number, ObserverNumber
    <3> QED
      BY <1>2, <2>1, <3>1, SendLocks DEF Excluded
  <2>2. ASSUME NEW c \in Client, Receive(c)
        PROVE  LocksOK' /\ Excluded
    <3>1. PICK r \in Requests :
               /\ QueuesOK' /\ r \in Pending(c)
               /\ \A d \in Client : Pending(d)' \subseteq Pending(d)
               /\ AppendUnlockWait(c, r) \/ (~Locked(c, r) /\ Perform(c, r))
      BY <1>2, <2>2, ReceiveFacts DEF LocksOK
    <3>2. CASE AppendUnlockWait(c, r)
      <4>1. LocksOK'
        BY <1>2, <3>1, <3>2, LocksStay DEF AppendUnlockWait, lockVars, txVars
      <4> QED
        BY <3>2, <4>1 DEF AppendUnlockWait, Idle, Excluded
    <3> QED
      BY <1>2, <3>1, <3>2, PerformLocks
  <2>3. CASE \/ \E c \in Client : OnUnlocked(c) \/ ClientRemoved(c)
             \/ \E e \in changed : ObserveQueryChanged(e)
    BY <1>2, <2>3, OtherLocks DEF Excluded
  <2>4. CASE UNCHANGED vars
    <3>1. QueuesOK' /\ \A d \in Client : Pending(d)' \subseteq Pending(d)
      BY <1>2, <2>4 DEF vars, LocksOK, QueuesOK, Pending
    <3> QED
      BY <1>2, <2>4, <3>1, LocksStay DEF vars
  <2> QED
    BY <1>2, <2>1, <2>2, <2>3, <2>4 DEF Next
<1> QED
  BY <1>1, <1>2, PTL DEF Spec, LockExcludes, Excluded

-----------------------------------------------------------------------------
(* Observers.                                                              *)

\* Requests that leave the observers alone, though they may queue signals.
LEMMA ObserversStay ==
    ASSUME ObserversOK, QueuesOK', \A d \in Client : Pending(d)' \subseteq Pending(d),
           UNCHANGED observerVars, clients' = clients,
           changed' \subseteq changed \/ \E b \in Base : Trigger(b)
    PROVE  ObserversOK'
<1> USE DEF ObserversOK
<1>1. /\ observers' = observers /\ observeClient' = observeClient
      /\ observeCollection' = observeCollection /\ nextNumber' = nextNumber
  BY DEF observerVars
<1>2. EnteredOK' /\ \A c \in Client : \A r \in Pending(c) : AsksOwn(c, r)'
  BY <1>1 DEF EnteredOK, AsksOwn
<1>3. \A e \in changed : SignalOK(e)'
  BY <1>1 DEF SignalOK
<1>4. ASSUME NEW b \in Base, NEW o \in DOMAIN observers[b],
             NEW e, e = [id |-> o, client |-> observers[b][o]]
      PROVE  SignalOK(e)'
  <2>1. o \in DOMAIN observeClient /\ observeClient[o] = observers[b][o] /\ o < nextNumber
    BY DEF EnteredOK
  <2>2. o \in Int
    BY <2>1, PartialFnElim DEF EnteredOK
  <2> QED
    BY <1>1, <1>4, <2>1, <2>2 DEF SignalOK
<1>5. \A e \in changed' : SignalOK(e)'
  BY <1>3, <1>4 DEF Trigger
<1> QED
  BY <1>2, <1>5

\* A request of a client.
LEMMA SendObservers ==
    ASSUME Prefer = {-1}, ObserversOK, NEW c \in Client, NEW kind \in Kinds, NEW b \in Base,
           NEW arg \in Int, Send(c, kind, b, arg)
    PROVE  ObserversOK'
<1> USE DEF ObserversOK
<1>1. /\ QueuesOK'
      /\ \A d \in Client : \A r \in Pending(d)' :
             r \in Pending(d) \/ (d = c /\ \E n \in Nat : r = Request(n, kind, b, arg))
  BY SendFacts
<1>2. /\ UNCHANGED <<observers, observeClient, observeCollection, nextNumber, changed, clients>>
      /\ Sensible(c, kind, b, arg) /\ c \in clients
  BY DEF Send, observerVars
<1>3. EnteredOK' /\ (\A e \in changed : SignalOK(e))'
  BY <1>2 DEF EnteredOK, SignalOK
<1>4. kind = "observe" => arg = -1
  BY <1>2 DEF Sensible
<1>5. kind = "unobserve" => arg \in DOMAIN observers[b] /\ observers[b][arg] = c
  BY <1>2 DEF Sensible
<1>6. \A n \in Nat : AsksOwn(c, Request(n, kind, b, arg))
  BY <1>2, <1>4, <1>5 DEF AsksOwn, Request, EnteredOK
<1>7. \A d \in Client : \A r \in Pending(d)' : AsksOwn(d, r)
  BY <1>1, <1>6
<1>8. (\A d \in Client : \A r \in Pending(d) : AsksOwn(d, r))'
  BY <1>2, <1>7 DEF AsksOwn
<1> QED
  BY <1>1, <1>3, <1>8

\* A new observer takes a number that was not given out before.
LEMMA ObserveObservers ==
    ASSUME ObserversOK, NEW c \in Client, NEW r \in Requests, r \in Pending(c), QueuesOK',
           \A d \in Client : Pending(d)' \subseteq Pending(d), clients' = clients, Observe(c, r)
    PROVE  ObserversOK'
<1> USE DEF ObserversOK
<1>1. r.kind = "observe" /\ r.arg = -1 /\ c \in clients /\ r.base \in Base
  BY DEF Observe, AsksOwn, Requests
<1>2. /\ nextNumber' = nextNumber + 1
      /\ observers' = [observers EXCEPT ![r.base] = With(@, nextNumber, c)]
      /\ observeClient' = With(observeClient, nextNumber, c)
      /\ observeCollection' = With(observeCollection, nextNumber, r.base)
      /\ changed' = changed \union {[id |-> nextNumber, client |-> c]}
  BY <1>1 DEF Observe
<1>3. /\ nextNumber \in Int /\ observers[r.base] \in PartialFn(Int, Client)
      /\ observeClient \in PartialFn(Int, clients) /\ observeCollection \in PartialFn(Int, Base)
      /\ observers \in [Base -> PartialFn(Int, Client)]
  BY <1>1 DEF EnteredOK
<1>4. /\ DOMAIN observeClient \subseteq Int /\ DOMAIN observeCollection \subseteq Int
      /\ nextNumber \notin DOMAIN observeClient /\ nextNumber \notin DOMAIN observeCollection
  BY <1>3, PartialFnElim DEF EnteredOK
<1>5. /\ observeClient' \in PartialFn(Int, clients)
      /\ DOMAIN observeClient' = DOMAIN observeClient \union {nextNumber}
      /\ observeClient'[nextNumber] = c
      /\ \A o \in DOMAIN observeClient : observeClient'[o] = observeClient[o]
  <2>1. observeClient' \in PartialFn(Int, clients)
    BY <1>1, <1>2, <1>3, WithFacts
  <2> QED
    BY <1>2, <1>4, <2>1 DEF With
<1>6. /\ observeCollection' \in PartialFn(Int, Base)
      /\ DOMAIN observeCollection' = DOMAIN observeCollection \union {nextNumber}
      /\ observeCollection'[nextNumber] = r.base
      /\ \A o \in DOMAIN observeCollection : observeCollection'[o] = observeCollection[o]
  <2>1. observeCollection' \in PartialFn(Int, Base)
    BY <1>1, <1>2, <1>3, WithFacts
  <2> QED
    BY <1>2, <1>4, <2>1 DEF With
<1>7. observers' \in [Base -> PartialFn(Int, Client)]
  <2>1. With(observers[r.base], nextNumber, c) \in PartialFn(Int, Client)
    BY <1>3, WithFacts
  <2> QED
    BY <1>2, <1>3, <2>1
<1>8. \A b \in Base : \A o \in DOMAIN observers'[b] :
          \/ o \in DOMAIN observers[b] /\ observers'[b][o] = observers[b][o] /\ o # nextNumber
          \/ o = nextNumber /\ b = r.base /\ observers'[b][o] = c
  <2> SUFFICES ASSUME NEW b \in Base, NEW o \in DOMAIN observers'[b]
               PROVE  \/ o \in DOMAIN observers[b] /\ observers'[b][o] = observers[b][o] /\ o # nextNumber
                      \/ o = nextNumber /\ b = r.base /\ observers'[b][o] = c
    OBVIOUS
  <2>1. o \in DOMAIN observers[b] => o # nextNumber
    BY <1>4 DEF EnteredOK
  <2>2. CASE b = r.base
    <3>1. observers'[b] = With(observers[b], nextNumber, c)
      BY <1>2, <1>3, <2>2
    <3> QED
      BY <2>1, <2>2, <3>1 DEF With
  <2>3. CASE b # r.base
    <3>1. observers'[b] = observers[b]
      BY <1>2, <1>3, <2>3
    <3> QED
      BY <2>1, <3>1
  <2> QED
    BY <2>2, <2>3
<1>9. EnteredOK'
  <2>1. \A o \in DOMAIN observeClient' : o < nextNumber'
    BY <1>2, <1>3, <1>4, <1>5 DEF EnteredOK
  <2>2. \A o \in DOMAIN observeCollection' : o < nextNumber'
    BY <1>2, <1>3, <1>4, <1>6 DEF EnteredOK
  <2>3. \A b \in Base : \A o \in DOMAIN observers'[b] :
            /\ o \in DOMAIN observeClient' /\ observeClient'[o] = observers'[b][o]
            /\ o \in DOMAIN observeCollection' /\ observeCollection'[o] = b
    BY <1>5, <1>6, <1>8 DEF EnteredOK
  <2>4. nextNumber' \in Int
    BY <1>2, <1>3
  <2> QED
    BY <1>5, <1>6, <1>7, <2>1, <2>2, <2>3, <2>4 DEF EnteredOK
<1>10. \A e \in changed' : SignalOK(e)'
  <2>1. ASSUME NEW e \in changed PROVE SignalOK(e)'
    <3>1. SignalOK(e)
      OBVIOUS
    <3> QED
      BY <1>2, <1>3, <1>5, <3>1 DEF SignalOK
  <2>2. ASSUME NEW e, e = [id |-> nextNumber, client |-> c] PROVE SignalOK(e)'
    BY <1>2, <1>3, <1>5, <2>2 DEF SignalOK
  <2> QED
    BY <1>2, <2>1, <2>2
<1>11. \A d \in Client : \A x \in Pending(d) : AsksOwn(d, x)'
  <2> SUFFICES ASSUME NEW d \in Client, NEW x \in Pending(d) PROVE AsksOwn(d, x)'
    OBVIOUS
  <2>1. AsksOwn(d, x)
    OBVIOUS
  <2> QED
    BY <1>2, <1>3, <1>5, <1>6, <2>1 DEF AsksOwn
<1> QED
  BY <1>9, <1>10, <1>11

\* Whatever a request to unobserve names, only its client's own observer goes,
\* and nobody is entered for a number that has none.
LEMMA UnobserveObservers ==
    ASSUME ObserversOK, NEW c \in Client, NEW r \in Requests, r \in Pending(c), QueuesOK',
           \A d \in Client : Pending(d)' \subseteq Pending(d), clients' = clients, Unobserve(c, r)
    PROVE  ObserversOK'
<1> USE DEF ObserversOK
<1>1. UNCHANGED <<changed, nextNumber>> /\ AsksOwn(c, r) /\ r.kind = "unobserve"
  BY DEF Unobserve
<1>2. CASE r.arg \notin DOMAIN observeCollection
  <2>1. UNCHANGED observerVars
    BY <1>1, <1>2 DEF Unobserve, observerVars
  <2> QED
    BY <1>1, <2>1, ObserversStay
<1>3. CASE r.arg \in DOMAIN observeCollection
  <2> DEFINE b == observeCollection[r.arg]
  <2>1. r.arg \in DOMAIN observeClient /\ observeClient[r.arg] = c
    BY <1>1, <1>3 DEF AsksOwn
  <2>2. /\ observers' = [observers EXCEPT ![b] = Without(@, r.arg)]
        /\ observeClient' = Without(observeClient, r.arg)
        /\ observeCollection' = Without(observeCollection, r.arg)
    BY <1>3, <2>1 DEF Unobserve
  <2>3. /\ observeClient \in PartialFn(Int, clients) /\ observeCollection \in PartialFn(Int, Base)
        /\ observers \in [Base -> PartialFn(Int, Client)]
    BY DEF EnteredOK
  <2>4. b \in Base
    BY <1>3, <2>3, PartialFnElim
  <2> HIDE DEF b
  <2>5. /\ observeClient' \in PartialFn(Int, clients)
        /\ DOMAIN observeClient' = DOMAIN observeClient \ {r.arg}
        /\ \A o \in DOMAIN observeClient' : observeClient'[o] = observeClient[o]
    <3>1. observeClient' \in PartialFn(Int, clients)
      BY <2>2, <2>3, WithoutFacts
    <3> QED
      BY <2>2, <3>1 DEF Without
  <2>6. /\ observeCollection' \in PartialFn(Int, Base)
        /\ DOMAIN observeCollection' = DOMAIN observeCollection \ {r.arg}
        /\ \A o \in DOMAIN observeCollection' : observeCollection'[o] = observeCollection[o]
    <3>1. observeCollection' \in PartialFn(Int, Base)
      BY <2>2, <2>3, WithoutFacts
    <3> QED
      BY <2>2, <3>1 DEF Without
  <2>7. observers' \in [Base -> PartialFn(Int, Client)]
    <3>1. Without(observers[b], r.arg) \in PartialFn(Int, Client)
      BY <2>3, <2>4, WithoutFacts
    <3> QED
      BY <2>2, <2>3, <3>1
  <2>8. ASSUME NEW x \in Base, NEW o \in DOMAIN observers'[x]
        PROVE  o \in DOMAIN observers[x] /\ observers'[x][o] = observers[x][o] /\ o # r.arg
    <3>1. CASE x = b
      <4>1. observers'[x] = Without(observers[x], r.arg)
        BY <2>2, <2>3, <3>1
      <4> QED
        BY <2>8, <4>1 DEF Without
    <3>2. CASE x # b
      <4>1. observers'[x] = observers[x]
        BY <2>2, <2>3, <3>2
      <4>2. o \in DOMAIN observers[x] /\ observeCollection[o] = x
        BY <2>8, <4>1 DEF EnteredOK
      <4> QED
        BY <3>2, <4>1, <4>2 DEF b
    <3> QED
      BY <3>1, <3>2
  <2>9. EnteredOK'
    <3>1. \A x \in Base : \A o \in DOMAIN observers'[x] :
              /\ o \in DOMAIN observeClient' /\ observeClient'[o] = observers'[x][o]
              /\ o \in DOMAIN observeCollection' /\ observeCollection'[o] = x
      BY <2>5, <2>6, <2>8 DEF EnteredOK
    <3> QED
      BY <1>1, <2>5, <2>6, <2>7, <3>1 DEF EnteredOK
  <2>10. (\A e \in changed : SignalOK(e))'
    <3> SUFFICES ASSUME NEW e \in changed PROVE SignalOK(e)'
      BY <1>1
    <3>1. SignalOK(e)
      OBVIOUS
    <3> QED
      BY <1>1, <2>5, <3>1 DEF SignalOK
  <2>11. (\A d \in Client : \A x \in Pending(d) : AsksOwn(d, x))'
    <3> SUFFICES ASSUME NEW d \in Client, NEW x \in Pending(d)' PROVE AsksOwn(d, x)'
      OBVIOUS
    <3>1. AsksOwn(d, x)
      OBVIOUS
    <3> QED
      BY <1>1, <2>5, <2>6, <3>1 DEF AsksOwn
  <2> QED
    BY <2>9, <2>10, <2>11
<1> QED
  BY <1>2, <1>3

\* The observers of a client that goes are not entered any more, anywhere but
\* in observeCollection.
LEMMA RemovedObservers ==
    ASSUME ObserversOK, NEW c \in Client, ClientRemoved(c)
    PROVE  ObserversOK'
<1> USE DEF ObserversOK
<1> DEFINE mine == {o \in DOMAIN observeClient : observeClient[o] = c}
           left(b) == DOMAIN observers[b] \ {o \in mine : observeCollection[o] = b}
<1>1. /\ QueuesOK' /\ \A d \in Client : Pending(d)' \subseteq Pending(d) /\ Pending(c)' = {}
  BY OtherQueues
<1>2. /\ clients' = clients \ {c} /\ UNCHANGED <<changed, observeCollection, nextNumber>>
      /\ observers' = [b \in Base |-> Restrict(observers[b], left(b))]
      /\ observeClient' = Restrict(observeClient, DOMAIN observeClient \ mine)
  BY DEF ClientRemoved
<1>3. /\ observeClient \in [DOMAIN observeClient -> clients] /\ DOMAIN observeClient \subseteq Int
      /\ observers \in [Base -> PartialFn(Int, Client)]
  BY PartialFnElim DEF EnteredOK
<1>4. /\ DOMAIN observeClient' = DOMAIN observeClient \ mine
      /\ \A o \in DOMAIN observeClient' : observeClient'[o] = observeClient[o]
  BY <1>2 DEF Restrict
<1>5. observeClient' \in PartialFn(Int, clients')
  <2>1. Restrict(observeClient, DOMAIN observeClient \ mine)
            \in [DOMAIN observeClient \ mine -> clients \ {c}]
    BY <1>3 DEF Restrict
  <2>2. DOMAIN observeClient \ mine \in SUBSET Int
    BY <1>3
  <2> HIDE DEF mine
  <2>3. Restrict(observeClient, DOMAIN observeClient \ mine) \in PartialFn(Int, clients \ {c})
    BY <2>1, <2>2, PartialFnIntro
  <2> QED
    BY <1>2, <2>3
<1>6. ASSUME NEW b \in Base
      PROVE  /\ observers'[b] \in PartialFn(Int, Client)
             /\ \A o \in DOMAIN observers'[b] :
                    /\ o \in DOMAIN observers[b] /\ observers'[b][o] = observers[b][o]
                    /\ o \notin mine
  <2>1. observers'[b] = Restrict(observers[b], left(b)) /\ left(b) \in SUBSET DOMAIN observers[b]
    BY <1>2
  <2>2. \A o \in left(b) : o \notin mine
    BY DEF EnteredOK
  <2> HIDE DEF left, mine
  <2>3. observers'[b] \in PartialFn(Int, Client)
    BY <1>3, <2>1, Restricted
  <2> QED
    BY <2>1, <2>2, <2>3 DEF Restrict
<1>7. EnteredOK'
  <2> HIDE DEF mine, left
  <2>1. \A b \in Base : \A o \in DOMAIN observers'[b] :
            /\ o \in DOMAIN observeClient' /\ observeClient'[o] = observers'[b][o]
            /\ o \in DOMAIN observeCollection' /\ observeCollection'[o] = b
    <3> SUFFICES ASSUME NEW b \in Base, NEW o \in DOMAIN observers'[b]
                 PROVE  /\ o \in DOMAIN observeClient' /\ observeClient'[o] = observers'[b][o]
                        /\ o \in DOMAIN observeCollection' /\ observeCollection'[o] = b
      OBVIOUS
    <3>1. o \in DOMAIN observers[b] /\ observers'[b][o] = observers[b][o] /\ o \notin mine
      BY <1>6
    <3>2. /\ o \in DOMAIN observeClient /\ observeClient[o] = observers[b][o]
          /\ o \in DOMAIN observeCollection /\ observeCollection[o] = b
      BY <3>1 DEF EnteredOK
    <3> QED
      BY <1>2, <1>4, <3>1, <3>2
  <2>2. observers' \in [Base -> PartialFn(Int, Client)]
    BY <1>2, <1>6
  <2> QED
    BY <1>2, <1>4, <1>5, <2>1, <2>2 DEF EnteredOK
<1>8. (\A e \in changed : SignalOK(e))'
  <2> SUFFICES ASSUME NEW e \in changed PROVE SignalOK(e)'
    BY <1>2
  <2>1. SignalOK(e)
    OBVIOUS
  <2> QED
    BY <1>2, <1>4, <2>1 DEF SignalOK
<1>9. (\A d \in Client : \A x \in Pending(d) : AsksOwn(d, x))'
  <2> SUFFICES ASSUME NEW d \in Client, NEW x \in Pending(d)' PROVE AsksOwn(d, x)'
    OBVIOUS
  <2>1. AsksOwn(d, x) /\ d # c
    BY <1>1
  <2> QED
    BY <1>2, <1>4, <2>1 DEF AsksOwn
<1> QED
  BY <1>1, <1>7, <1>8, <1>9

\* ObserversOK holds initially and every step keeps it.
LEMMA ObserversStep ==
    ASSUME Prefer = {-1}, ObserversOK, [Next]_vars
    PROVE  ObserversOK'
<1>1. ASSUME NEW c \in Client, NEW kind \in Kinds, NEW b \in Base,
             NEW arg \in {-1} \union Number \union ObserverNumber, Send(c, kind, b, arg)
      PROVE  ObserversOK'
  <2>1. arg \in Int
    BY ServerAssumption DEF Number, ObserverNumber
  <2> QED
    BY <1>1, <2>1, SendObservers
<1>2. ASSUME NEW c \in Client, Receive(c)
      PROVE  ObserversOK'
  <2>1. PICK r \in Requests :
             /\ QueuesOK' /\ r \in Pending(c)
             /\ \A d \in Client : Pending(d)' \subseteq Pending(d)
             /\ AppendUnlockWait(c, r) \/ (~Locked(c, r) /\ Perform(c, r))
    BY <1>2, ReceiveFacts DEF ObserversOK
  <2>2. clients' = clients
    BY <2>1 DEF AppendUnlockWait, Perform, Operate, NewTransaction, WriteTransaction,
                DiscardTransaction, Observe, Unobserve, ExclusiveLock, Unlock, Done, Take, socketVars
  <2>3. CASE Observe(c, r) \/ Unobserve(c, r)
    BY <2>1, <2>2, <2>3, ObserveObservers, UnobserveObservers
  <2>4. ASSUME UNCHANGED observerVars, changed' = changed \/ Trigger(r.base)
        PROVE  ObserversOK'
    BY <2>1, <2>2, <2>4, ObserversStay DEF Requests
  <2>5. CASE AppendUnlockWait(c, r)
    BY <2>4, <2>5 DEF AppendUnlockWait
  <2>6. CASE Operate(c, r) \/ WriteTransaction(c, r)
    BY <2>4, <2>6 DEF Operate, WriteTransaction
  <2>7. CASE \/ NewTransaction(c, r) \/ DiscardTransaction(c, r)
             \/ ExclusiveLock(c, r) \/ Unlock(c, r)
    BY <2>4, <2>7 DEF NewTransaction, DiscardTransaction, ExclusiveLock, Unlock
  <2> QED
    BY <2>1, <2>3, <2>5, <2>6, <2>7 DEF Perform
<1>3. ASSUME NEW c \in Client, OnUnlocked(c)
      PROVE  ObserversOK'
  BY <1>3, OtherQueues, ObserversStay DEF OnUnlocked, socketVars, ObserversOK
<1>4. ASSUME NEW e \in changed, ObserveQueryChanged(e)
      PROVE  ObserversOK'
  BY <1>4, OtherQueues, ObserversStay DEF ObserveQueryChanged, socketVars, ObserversOK
<1>5. CASE UNCHANGED vars
  <2>1. QueuesOK' /\ \A d \in Client : Pending(d)' \subseteq Pending(d)
    BY <1>5 DEF vars, ObserversOK, QueuesOK, Pending
  <2> QED
    BY <1>5, <2>1, ObserversStay DEF vars, observerVars
<1> QED
  BY <1>1, <1>2, <1>3, <1>4, <1>5, RemovedObservers DEF Next

\* The data of an observer go to the client that made it and to a connection
\* that is still there (observeQueryChanged, which looks the client up when the
\* queued signal arrives), as long as no client asks for a number of its own:
\* a client does that only for the observers it had before it reconnected.
THEOREM DataReachMaker ==
    ASSUME Prefer = {-1}
    PROVE  Spec => DataToMaker
<1> DEFINE Reaches == last'.what = "data" => last'.to = last'.client /\ last'.to \in clients
<1>1. Init => ObserversOK
  <2> SUFFICES ASSUME Init PROVE ObserversOK
    OBVIOUS
  <2>1. \A c \in Client : Pending(c) = {}
    BY DEF Init, Pending, Range
  <2>2. \A T : Empty \in [{} -> T] /\ DOMAIN Empty = {}
    BY DEF Empty
  <2>3. \A T : Empty \in PartialFn(Int, T)
    BY <2>2, PartialFnIntro
  <2>4. EnteredOK
    BY <2>2, <2>3 DEF EnteredOK, Init
  <2>5. QueuesOK
    BY DEF QueuesOK, Init
  <2> QED
    BY <2>1, <2>4, <2>5 DEF ObserversOK, Init
<1>2. ASSUME ObserversOK, [Next]_vars
      PROVE  UNCHANGED vars \/ Reaches
  <2>1. ASSUME NEW e \in changed, ObserveQueryChanged(e) PROVE Reaches
    <3>1. SignalOK(e) /\ observeClient \in [DOMAIN observeClient -> clients]
      BY PartialFnElim, <1>2 DEF ObserversOK, EnteredOK
    <3>2. last' = IF e.id \notin DOMAIN observeClient THEN Idle
                 ELSE [what |-> "data", client |-> e.client, base |-> None,
                       to |-> observeClient[e.id]]
      BY <2>1 DEF ObserveQueryChanged
    <3> QED
      BY <3>1, <3>2 DEF SignalOK, Idle
  <2>2. ASSUME NEW c \in Client, Receive(c) PROVE last'.what # "data"
    <3>1. PICK r : AppendUnlockWait(c, r) \/ Perform(c, r)
      BY <2>2 DEF Receive, Perform
    <3>2. last' = Idle \/ \E what \in {"operate", "writeTransaction", "none"} : \E to : Done(c, r, what, to)
      BY <3>1 DEF AppendUnlockWait, Perform, Operate, NewTransaction, WriteTransaction,
                  DiscardTransaction, Observe, Unobserve, ExclusiveLock, Unlock
    <3> QED
      BY <3>2 DEF Idle, Done
  <2>3. ASSUME last' = Idle PROVE Reaches
    BY <2>3 DEF Idle
  <2> QED
    BY <1>2, <2>1, <2>2, <2>3 DEF Next, Send, OnUnlocked, ClientRemoved
<1> QED
  BY <1>1, <1>2, ObserversStep, PTL DEF Spec, DataToMaker
=============================================================================
