------------------------------- MODULE Server -------------------------------
(***************************************************************************)
(* The server process: QDocdbServer (qdocdbserver.cpp), the queue of       *)
(* waiting requests of QDocdbLinkBase (qdocdblinkbase.cpp) and the open    *)
(* collections of QDocDatabase (qdocdatabase.cpp).                         *)
(*                                                                         *)
(* The server has one thread.  Its event loop handles one socket with data,*)
(* one lost connection or one queued signal at a time, in any order across *)
(* clients; a handler runs to its end.  A client is one connection.  What  *)
(* a request does to the documents is the business of module Collection:   *)
(* here a request reads or changes a base, or takes and gives back a lock, *)
(* a transaction number or an observer number.  A base is a database with  *)
(* its one collection.                                                     *)
(***************************************************************************)
EXTENDS Integers, Sequences, FiniteSets, SequencesExt, Maps

CONSTANTS
    Client,         \* connections
    Base,           \* databases, each with one collection
    MaxRequests,    \* MaxRequests[c] bounds what c sends beside "unlock"
    Kinds,          \* the kinds of requests that clients send
    MaxNumber,      \* the greatest int, as far as transaction numbers go
    MaxObservers,   \* bound on the observer numbers handed out
    Prefer,         \* the preferedId arguments of observe; -1 asks for none
    Vanish,         \* whether a client may go away while it holds a lock
    None

ASSUME ServerAssumption ==
    /\ MaxRequests \in [Client -> Nat]
    /\ MaxNumber \in Nat
    /\ MaxObservers \in Nat
    /\ None \notin Client
    /\ Vanish \in BOOLEAN

VARIABLES
    clients,            \* the connections the server knows
    sent,               \* how many requests each client has sent
    inbox,              \* requests on each client's socket
    unlockWait,         \* requests put off until a lock is given back
    unlocked,           \* queued calls of each client's onUnlocked
    draining,           \* the onUnlocked at work: <<client, requests left>>
    answered,           \* the requests of each client that got a reply
    databaseLocks,      \* who holds each base, None for nobody
    transactions,       \* open transactions by number
    transactionId,      \* the next transaction number to try
    observers,          \* the observers of each base: number to client
    observeClient, observeCollection,   \* number to client, to collection
    nextNumber,         \* of the id generator
    changed,            \* queued observeQueryChanged signals
    older,              \* the transactions that were open at the last lock
    last                \* what the last step did to which base, for whom

vars == <<clients, sent, inbox, unlockWait, unlocked, draining, answered, databaseLocks,
          transactions, transactionId, observers, observeClient, observeCollection,
          nextNumber, changed, older, last>>

socketVars == <<clients, sent>>
lockVars == <<databaseLocks, unlocked, older>>
txVars == <<transactions, transactionId>>
observerVars == <<observers, observeClient, observeCollection, nextNumber>>

Number == 0..MaxNumber
ObserverNumber == 1..MaxObservers
Empty == [x \in {} |-> None]
Idle == [what |-> "none", client |-> None, base |-> None, to |-> None]

\* A request: its number, its kind, the base its url names, and the number of
\* a transaction or an observer, -1 for none.
Request(n, kind, b, arg) == [n |-> n, kind |-> kind, base |-> b, arg |-> arg]

\* Requests that carry a url; the others pass by the locks.
UrlNeeded(r) == r.kind \notin {"writeTransaction", "discardTransaction", "unobserve"}

-----------------------------------------------------------------------------

Init ==
    /\ clients = Client
    /\ sent = [c \in Client |-> 0]
    /\ inbox = [c \in Client |-> <<>>]
    /\ unlockWait = [c \in Client |-> <<>>]
    /\ unlocked = [c \in Client |-> 0]
    /\ draining = <<None, 0>>
    /\ answered = [c \in Client |-> {}]
    /\ databaseLocks = [b \in Base |-> None]
    /\ transactions = Empty
    /\ transactionId = 0
    /\ observers = [b \in Base |-> Empty]
    /\ observeClient = Empty
    /\ observeCollection = Empty
    /\ nextNumber = 1
    /\ changed = {}
    /\ older = [b \in Base |-> {}]
    /\ last = Idle

-----------------------------------------------------------------------------
(* The clients' side.                                                      *)

\* Bound: no more transactions are asked for than there are numbers.
MayOpen ==
    LET asked == {x \in Client \X (1..Max(Range(MaxRequests))) :
                     \E r \in Range(inbox[x[1]] \o unlockWait[x[1]]) :
                         r.n = x[2] /\ r.kind = "newTransaction"}
    IN Cardinality(DOMAIN transactions) + Cardinality(asked) <= MaxNumber

OwnTransaction(c, b, t) ==
    t \in DOMAIN transactions /\ transactions[t] = [base |-> b, client |-> c]

\* What a client may ask for: it names its own transactions and observers, and
\* gives back only a lock it holds.
Sensible(c, kind, b, arg) ==
    CASE kind \in {"writeTransaction", "discardTransaction"} -> OwnTransaction(c, b, arg)
      [] kind = "unobserve" -> arg \in DOMAIN observers[b] /\ observers[b][arg] = c
      [] kind = "observe" -> arg \in Prefer /\ nextNumber <= MaxObservers
      [] kind = "unlock" -> arg = -1 /\ databaseLocks[b] = c
      [] kind = "newTransaction" -> arg = -1 /\ MayOpen
      [] kind = "operate" -> arg = -1 \/ OwnTransaction(c, b, arg)
      [] OTHER -> arg = -1

\* A client does not wait for the answer to one request before it sends the
\* next: its calls time out, and its event loops nest.  It unlocks once.
Send(c, kind, b, arg) ==
    /\ c \in clients /\ kind \in Kinds /\ Sensible(c, kind, b, arg)
    /\ IF kind = "unlock" THEN \A r \in Range(inbox[c]) : r.kind # "unlock" \/ r.base # b
                          ELSE sent[c] < MaxRequests[c]
    /\ LET n == IF kind = "unlock" THEN 0 ELSE sent[c] + 1
       IN inbox' = [inbox EXCEPT ![c] = Append(@, Request(n, kind, b, arg))]
    /\ sent' = IF kind = "unlock" THEN sent ELSE [sent EXCEPT ![c] = @ + 1]
    /\ last' = Idle
    /\ UNCHANGED <<clients, unlockWait, draining, answered, changed>>
    /\ UNCHANGED <<lockVars, txVars, observerVars>>

-----------------------------------------------------------------------------
(* QDocdbServer::receive.                                                  *)

\* The request that receive is called with next: from the socket, or from
\* onUnlocked while it hands back what waited.
Ready(c) ==
    IF draining[1] = None THEN {inbox[c][k] : k \in 1..Min({1, Len(inbox[c])})}
    ELSE IF draining[1] = c THEN {unlockWait[c][1]}
    ELSE {}

\* It is taken from there, and put is added to what waits.
Take(c, put) ==
    /\ IF draining[1] = None
       THEN /\ inbox' = [inbox EXCEPT ![c] = Tail(@)]
            /\ unlockWait' = [unlockWait EXCEPT ![c] = @ \o put]
            /\ UNCHANGED draining
       ELSE /\ unlockWait' = [unlockWait EXCEPT ![c] = Tail(@) \o put]
            /\ draining' = IF draining[2] = 1 THEN <<None, 0>> ELSE <<c, draining[2] - 1>>
            /\ UNCHANGED inbox
    /\ UNCHANGED socketVars

\* The request is performed to its end and answered.
Done(c, r, what, to) ==
    /\ Take(c, <<>>)
    /\ answered' = [answered EXCEPT ![c] = @ \union ({r.n} \ {0})]
    /\ last' = [what |-> what, client |-> c, base |-> r.base, to |-> to]

\* Mutant of Locked: a new transaction does not wait for the lock.
LockedNotNew(c, r) ==
    UrlNeeded(r) /\ r.kind # "newTransaction" /\ databaseLocks[r.base] \notin {None, c}

Locked(c, r) == UrlNeeded(r) /\ databaseLocks[r.base] \notin {None, c}

AppendUnlockWait(c, r) ==
    /\ Locked(c, r)
    /\ Take(c, <<r>>)
    /\ last' = Idle
    /\ UNCHANGED <<answered, changed, lockVars, txVars, observerVars>>

\* The observers of a base whose reply a write may have changed; their
\* signals are queued.
Trigger(b) ==
    \E hit \in SUBSET DOMAIN observers[b] :
        changed' = changed \union {[id |-> o, client |-> observers[b][o]] : o \in hit}

\* The requests on documents, indexes and snapshots: outside a transaction they
\* may change the base, inside one they change only the transaction.  A failure
\* changes nothing here and is answered too.
Operate(c, r) ==
    /\ r.kind = "operate"
    /\ IF r.arg = -1 THEN Done(c, r, "operate", None) /\ Trigger(r.base)
                     ELSE Done(c, r, "none", None) /\ UNCHANGED changed
    /\ UNCHANGED <<lockVars, txVars, observerVars>>

\* Mutant of NextTransactionId: numbers in use are not skipped.
NextTransactionIdAny == transactionId

\* getNextTransactionId: the next number not in use; past the greatest int the
\* count starts again at 0.
NextTransactionId ==
    LET ahead(n) == (n - transactionId) % (MaxNumber + 1)
    IN CHOOSE n \in Number \ DOMAIN transactions :
           \A m \in Number \ DOMAIN transactions : ahead(n) <= ahead(m)

NewTransaction(c, r) ==
    /\ r.kind = "newTransaction"
    /\ Number \ DOMAIN transactions # {}
    /\ LET id == NextTransactionId IN
       /\ transactions' = With(transactions, id, [base |-> r.base, client |-> c])
       /\ transactionId' = (id + 1) % (MaxNumber + 1)
    /\ Done(c, r, "none", None)
    /\ UNCHANGED <<changed, lockVars, observerVars>>

\* Written or not, the transaction is deleted.
WriteTransaction(c, r) ==
    /\ r.kind = "writeTransaction"
    /\ IF r.arg \in DOMAIN transactions
       THEN /\ Trigger(r.base)
            /\ Done(c, r, "writeTransaction", r.arg)
       ELSE UNCHANGED changed /\ Done(c, r, "none", None)
    /\ transactions' = Without(transactions, r.arg)
    /\ UNCHANGED <<transactionId, lockVars, observerVars>>

DiscardTransaction(c, r) ==
    /\ r.kind = "discardTransaction"
    /\ transactions' = Without(transactions, r.arg)
    /\ Done(c, r, "none", None)
    /\ UNCHANGED <<transactionId, changed, lockVars, observerVars>>

\* The preferred number if the collection has no such observer, else the next
\* of the id generator.
Observe(c, r) ==
    LET own == r.arg = -1 \/ r.arg \in DOMAIN observers[r.base]
        id == IF own THEN nextNumber ELSE r.arg
    IN /\ r.kind = "observe"
       /\ nextNumber' = IF own THEN nextNumber + 1 ELSE nextNumber
       /\ observers' = [observers EXCEPT ![r.base] = With(@, id, c)]
       /\ observeClient' = With(observeClient, id, c)
       /\ observeCollection' = With(observeCollection, id, r.base)
       /\ changed' = changed \union {[id |-> id, client |-> c]}
       /\ Done(c, r, "none", None)
       /\ UNCHANGED <<lockVars, txVars>>

\* Only the client that the number is entered for removes the observer; looking
\* that client up enters nobody when the number has none.
Unobserve(c, r) ==
    /\ r.kind = "unobserve"
    /\ IF r.arg \notin DOMAIN observeCollection
       THEN UNCHANGED <<observers, observeClient, observeCollection>>
       ELSE IF r.arg \in DOMAIN observeClient /\ observeClient[r.arg] = c
       THEN /\ observers' = [observers EXCEPT ![observeCollection[r.arg]] = Without(@, r.arg)]
            /\ observeClient' = Without(observeClient, r.arg)
            /\ observeCollection' = Without(observeCollection, r.arg)
       ELSE /\ observeClient' = IF r.arg \in DOMAIN observeClient THEN observeClient
                                ELSE With(observeClient, r.arg, None)
            /\ UNCHANGED <<observers, observeCollection>>
    /\ Done(c, r, "none", None)
    /\ UNCHANGED <<nextNumber, changed, lockVars, txVars>>

ExclusiveLock(c, r) ==
    /\ r.kind = "exclusiveLock"
    /\ databaseLocks' = [databaseLocks EXCEPT ![r.base] = c]
    /\ older' = IF databaseLocks[r.base] = c THEN older
                ELSE [older EXCEPT ![r.base] =
                         {t \in DOMAIN transactions : transactions[t].base = r.base}]
    /\ Done(c, r, "none", None)
    /\ UNCHANGED <<unlocked, changed, txVars, observerVars>>

\* Mutant of Unlock: the signal unlocked is not emitted.
UnlockSilently(c, r) ==
    /\ r.kind = "unlock"
    /\ databaseLocks' = [databaseLocks EXCEPT ![r.base] = IF @ = c THEN None ELSE @]
    /\ Done(c, r, "none", None)
    /\ UNCHANGED <<unlocked, older, changed, txVars, observerVars>>

\* The signal unlocked queues a call of onUnlocked for every connection.
Unlock(c, r) ==
    /\ r.kind = "unlock"
    /\ IF databaseLocks[r.base] = c
       THEN /\ databaseLocks' = [databaseLocks EXCEPT ![r.base] = None]
            /\ unlocked' = [d \in Client |-> unlocked[d] + IF d \in clients THEN 1 ELSE 0]
       ELSE UNCHANGED <<databaseLocks, unlocked>>
    /\ Done(c, r, "none", None)
    /\ UNCHANGED <<older, changed, txVars, observerVars>>

Receive(c) ==
    \E r \in Ready(c) :
        \/ AppendUnlockWait(c, r)
        \/ /\ ~Locked(c, r)
           /\ \/ Operate(c, r)
              \/ NewTransaction(c, r) \/ WriteTransaction(c, r) \/ DiscardTransaction(c, r)
              \/ Observe(c, r) \/ Unobserve(c, r)
              \/ ExclusiveLock(c, r) \/ Unlock(c, r)

-----------------------------------------------------------------------------
(* The other handlers.                                                     *)

\* Every request that waits, for whichever base, is handed to receive again.
OnUnlocked(c) ==
    /\ draining[1] = None /\ unlocked[c] > 0
    /\ unlocked' = [unlocked EXCEPT ![c] = @ - 1]
    /\ draining' = IF unlockWait[c] = <<>> THEN draining ELSE <<c, Len(unlockWait[c])>>
    /\ last' = Idle
    /\ UNCHANGED <<inbox, unlockWait, answered, changed, databaseLocks, older>>
    /\ UNCHANGED <<socketVars, txVars, observerVars>>

\* A queued signal: the data go to the client entered for the number.
ObserveQueryChanged(e) ==
    /\ draining[1] = None
    /\ changed' = changed \ {e}
    /\ last' = IF e.id \notin DOMAIN observeClient THEN Idle
               ELSE [what |-> "data", client |-> e.client, base |-> None,
                     to |-> observeClient[e.id]]
    /\ UNCHANGED <<inbox, unlockWait, draining, answered>>
    /\ UNCHANGED <<socketVars, lockVars, txVars, observerVars>>

\* Mutant of ClientRemoved: the client stays entered for its observers.
ClientRemovedKeeps(c) ==
    /\ c \in clients /\ draining[1] = None
    /\ \A b \in Base : databaseLocks[b] # c
    /\ clients' = clients \ {c}
    /\ inbox' = [inbox EXCEPT ![c] = <<>>]
    /\ unlockWait' = [unlockWait EXCEPT ![c] = <<>>]
    /\ unlocked' = [unlocked EXCEPT ![c] = 0]
    /\ last' = Idle
    /\ UNCHANGED <<observers, observeClient, databaseLocks, sent, draining, answered, older>>
    /\ UNCHANGED <<changed, txVars, observeCollection, nextNumber>>

\* A connection is lost.  Its observers go, its locks are erased without the
\* signal unlocked, its transactions stay (transactionClient is never filled),
\* and its numbers stay in observeCollection.
ClientRemoved(c) ==
    LET mine == {o \in DOMAIN observeClient : observeClient[o] = c} IN
    /\ c \in clients /\ draining[1] = None
    /\ Vanish \/ \A b \in Base : databaseLocks[b] # c
    /\ clients' = clients \ {c}
    /\ inbox' = [inbox EXCEPT ![c] = <<>>]
    /\ unlockWait' = [unlockWait EXCEPT ![c] = <<>>]
    /\ unlocked' = [unlocked EXCEPT ![c] = 0]
    /\ observers' = [b \in Base |-> Restrict(observers[b], DOMAIN observers[b]
                                       \ {o \in mine : observeCollection[o] = b})]
    /\ observeClient' = Restrict(observeClient, DOMAIN observeClient \ mine)
    /\ databaseLocks' = [b \in Base |-> IF databaseLocks[b] = c THEN None ELSE databaseLocks[b]]
    /\ last' = Idle
    /\ UNCHANGED <<sent, draining, answered, older, changed, txVars, observeCollection, nextNumber>>

-----------------------------------------------------------------------------

Next ==
    \/ \E c \in Client :
        \/ \E kind \in Kinds, b \in Base, arg \in {-1} \union Number \union ObserverNumber :
               Send(c, kind, b, arg)
        \/ Receive(c)
        \/ OnUnlocked(c)
        \/ ClientRemoved(c)
    \/ \E e \in changed : ObserveQueryChanged(e)

\* The event loop gets round to every socket and every queued signal, and a
\* client that holds a lock gives it back.
Fairness ==
    /\ \A c \in Client : WF_vars(Receive(c)) /\ WF_vars(OnUnlocked(c))
    /\ \A c \in Client, b \in Base : WF_vars(Send(c, "unlock", b, -1))
    /\ WF_vars(\E e \in changed : ObserveQueryChanged(e))

Spec == Init /\ [][Next]_vars /\ Fairness

-----------------------------------------------------------------------------
(* Properties.                                                             *)

\* An exclusive lock excludes: while a client holds a base only its own requests
\* change it, except that a transaction which was open before the lock was taken
\* can be written (writeTransaction names no base and does not wait).
LockExcludes ==
    [][last'.what \in {"operate", "writeTransaction"} =>
          \/ databaseLocks[last'.base] \in {None, last'.client}
          \/ last'.what = "writeTransaction" /\ last'.to \in older[last'.base]]_vars

\* A transaction number stands for one transaction until that is written or
\* discarded, though the count of numbers wraps and clients that went away leave
\* their transactions open (getNextTransactionId).
TransactionsKept ==
    [][\A t \in DOMAIN transactions \intersect DOMAIN transactions' :
          transactions'[t] = transactions[t]]_vars

\* The data of an observer go to the client that made it, and to a connection
\* that is still there (observeClient, which queued signals look up later).
DataToMaker ==
    [][last'.what = "data" => last'.to = last'.client /\ last'.to \in clients]_vars

\* Every request of a client that stays is answered, though it may wait for
\* locks and be put off again by clients that come first (under Fairness).
AllAnswered ==
    \A c \in Client : \A n \in 1..MaxRequests[c] :
        (sent[c] >= n /\ c \in clients) ~> (n \in answered[c] \/ c \notin clients)
=============================================================================
