------------------------------- MODULE Client -------------------------------
(***************************************************************************)
(* A client process: QDocdbClient (qdocdbclient.cpp), the connectors that  *)
(* use it (qdocdbconnector.cpp) and QDocdbLinkObject::waitForDone          *)
(* (qdocdblinkbase.cpp).                                                   *)
(*                                                                         *)
(* The client has one thread.  A call sends its request and runs an event  *)
(* loop until the reply comes or ten seconds have passed; other calls,     *)
(* data of observers, timers and the loss of the connection are handled    *)
(* inside that loop.  Calls therefore nest: calls is the stack of those    *)
(* that wait, and one whose loop was told to quit returns only when it is  *)
(* the innermost.                                                          *)
(*                                                                         *)
(* The server is external to this module (see module Server): it answers   *)
(* requests in order and sends every observer its data when it is made and *)
(* after every operation.  Its documents are a version, counted up by      *)
(* operations.                                                             *)
(***************************************************************************)
EXTENDS Integers, Sequences, FiniteSets, SequencesExt, Maps

CONSTANTS
    Conn,           \* connectors
    Query,          \* queries
    FirstQuery,     \* the query each connector starts with
    Stolen,         \* whether other clients get the numbers of observers that a
                    \* lost connection had
    MaxCalls,       \* bound on the calls users make
    MaxDepth,       \* bound on nested calls
    MaxLosses,      \* bound on how often the connection is lost
    Inside,         \* the kinds of calls inside which users make calls
    LossInside,     \* the kinds of calls inside which the connection is lost
    SlowKinds,      \* the kinds of calls whose timer can run out
    Offline,        \* whether users change connectors without a connection
    None

ASSUME ClientAssumption ==
    /\ FirstQuery \in Query
    /\ MaxCalls \in Nat /\ MaxDepth \in Nat /\ MaxLosses \in Nat
    /\ Stolen \in BOOLEAN /\ Offline \in BOOLEAN

VARIABLES
    link,               \* whether client is not NULL
    calls,              \* the calls that wait, innermost last
    nextFId,            \* the number of the next request
    subs, observerInfo, \* number to connector, to connector and query
    observeData, observeDataLock,   \* data not handled yet, and their lock
    process,            \* whether a call of observeDataProcess is queued
    connectTimer,       \* whether the timer for reconnecting runs
    query, observable, observeId, value,    \* of each connector
    toServer, toClient, \* the connection
    served, taken,      \* the server's observers: this client's, other clients'
    nextNumber, version,    \* its counter of observers, and its documents
    used,               \* how many calls users have made
    losses,
    last,               \* the call that returned last
    crashed             \* whether the process has used a pointer it must not

clientVars == <<subs, observerInfo, observeDataLock, process>>
connVars == <<query, observable, observeId>>
serverVars == <<served, taken, nextNumber, version>>
vars == <<link, calls, nextFId, clientVars, observeData, connectTimer, connVars, value, toServer,
          toClient, serverVars, used, losses, last, crashed>>

Empty == [x \in {} |-> None]
Idle == [r |-> None, serial |-> 0, of |-> 0]

\* What a call is told: the server's reply to a request, or that the link is
\* lost.
Reply == [kind : {"reply"}, id : Nat, of : Nat, number : Int]
Canceled == [kind |-> "canceled", of |-> 0]

ASSUME NoneAssumption == None \notin Reply \union {Canceled} \union Query \union Int

\* A call that waits: its number, the connector, the query and the observer
\* number it is about, whether its loop was told to quit, whether its timer
\* still runs.  A request and its reply carry the call's number.
Frame(id, kind, k, q, n) ==
    [serial |-> nextFId, id |-> id, kind |-> kind, k |-> k, q |-> q, n |-> n,
     quit |-> FALSE, timer |-> TRUE, reply |-> None]
Depth == Len(calls)
Top == calls[Depth]
Settled == Depth > 0 => ~Top.quit

Init ==
    /\ link = TRUE
    /\ calls = <<>>
    /\ nextFId = 1
    /\ subs = Empty /\ observerInfo = Empty
    /\ observeData = <<>> /\ observeDataLock = FALSE /\ process = FALSE
    /\ connectTimer = FALSE
    /\ query = [k \in Conn |-> FirstQuery]
    /\ observable = [k \in Conn |-> FALSE]
    /\ observeId = [k \in Conn |-> -1]
    /\ value = [k \in Conn |-> None]
    /\ toServer = <<>> /\ toClient = <<>>
    /\ served = Empty /\ taken = {} /\ nextNumber = 1 /\ version = 0
    /\ used = 0 /\ losses = 0
    /\ last = Idle
    /\ crashed = FALSE

-----------------------------------------------------------------------------
(* Sending a request and waiting for its reply, on top of stack.           *)

\* Mutant of NewFId: a number is free again when its call has returned.
NewFIdReused(stack) == Len(stack) + 1

\* newLinkObject: requests are numbered for the life of the client.
NewFId(stack) == nextFId

\* sendAndWaitReply up to its event loop; without a link (up is false) it uses
\* a NULL pointer.
Start(up, stack, kind, k, q, n) ==
    LET f == Frame(NewFId(stack), kind, k, q, n) IN
    IF up
    THEN /\ calls' = Append(stack, f)
         /\ nextFId' = nextFId + 1
         /\ toServer' = Append(toServer, [serial |-> f.serial, id |-> f.id, kind |-> kind,
                                          q |-> q, n |-> n])
         /\ UNCHANGED crashed
    ELSE /\ crashed' = TRUE
         /\ calls' = stack
         /\ UNCHANGED <<nextFId, toServer>>

Leave(stack) == calls' = stack /\ UNCHANGED <<nextFId, toServer, crashed>>

\* QDocdbConnector::observe does nothing unless valid().
ConnObserve(stack, k, q) ==
    IF link THEN Start(TRUE, stack, "observe", k, q, -1) /\ observeDataLock' = TRUE
            ELSE Leave(stack) /\ UNCHANGED observeDataLock

-----------------------------------------------------------------------------
(* What users of the connectors do, from any event loop.                   *)

\* QDocdbConnector::valid, of a connector that is complete and has a valid URL.
Valid == link

MayUse == ~crashed /\ Settled /\ used < MaxCalls /\ Depth < MaxDepth
            /\ \A n \in 1..Depth : calls[n].kind \in Inside
User == used' = used + 1
Rest == UNCHANGED <<link, subs, observerInfo, observeData, process, connectTimer, value,
                    toClient, serverVars, losses>>

\* The calls of QDocdbClient that are one request and its reply.
Request(k) == Start(link, calls, "operation", k, None, -1)

\* insert, remove, find and the like: refused unless valid().
Operate(k) ==
    /\ MayUse /\ Valid /\ User
    /\ Request(k)
    /\ last' = Idle
    /\ Rest /\ UNCHANGED <<observeDataLock, connVars>>

\* setQuery and setQueryOptions: unobserve, the assignment, observe; the two
\* last come when the first returns.
SetQuery(k, q) ==
    /\ MayUse /\ (link \/ Offline) /\ q # query[k] /\ User
    /\ IF link THEN Start(TRUE, calls, "unobserve", k, q, observeId[k]) /\ UNCHANGED query
               ELSE Leave(calls) /\ query' = [query EXCEPT ![k] = q]
    /\ last' = Idle
    /\ Rest /\ UNCHANGED <<observeDataLock, observable, observeId>>

\* componentComplete and setObservable(true).
Watch(k) ==
    /\ MayUse /\ (link \/ Offline) /\ ~observable[k] /\ User
    /\ observable' = [observable EXCEPT ![k] = TRUE]
    /\ ConnObserve(calls, k, query[k])
    /\ last' = Idle
    /\ Rest /\ UNCHANGED <<query, observeId>>

\* setObservable(false), and the destruction of a connector.
Unwatch(k) ==
    /\ MayUse /\ (link \/ Offline) /\ observable[k] /\ User
    /\ observable' = [observable EXCEPT ![k] = FALSE]
    /\ IF link THEN Start(TRUE, calls, "unobserve", k, None, observeId[k]) ELSE Leave(calls)
    /\ last' = Idle
    /\ Rest /\ UNCHANGED <<observeDataLock, query, observeId>>

-----------------------------------------------------------------------------
(* Events inside the loops.                                                *)

Quit(n, reply) == [calls EXCEPT ![n].quit = TRUE, ![n].reply = reply]

\* QDocdbClient::receive: data of an observer are queued; a reply ends the loop
\* of the call with its number; any other reply is dropped.
Receive ==
    /\ ~crashed /\ toClient # <<>>
    /\ toClient' = Tail(toClient)
    /\ LET m == Head(toClient) IN
       IF m.kind = "data"
       THEN /\ observeData' = Append(observeData, m)
            /\ process' = TRUE
            /\ UNCHANGED calls
       ELSE /\ calls' = [n \in DOMAIN calls |-> IF calls[n].id = m.id THEN Quit(n, m)[n] ELSE calls[n]]
            /\ UNCHANGED <<observeData, process>>
    /\ last' = Idle
    /\ UNCHANGED <<link, nextFId, subs, observerInfo, observeDataLock, connectTimer, connVars,
                   value, toServer, serverVars, used, losses, crashed>>

\* The queued data go to the connectors entered for their numbers; without an
\* entry they are lost.
ObserveDataProcess ==
    /\ ~crashed /\ process
    /\ process' = FALSE
    /\ IF observeDataLock THEN UNCHANGED <<observeData, value>>
       ELSE /\ value' = FoldLeft(LAMBDA v, d : IF d.number \in DOMAIN subs
                                    THEN [v EXCEPT ![subs[d.number]] = [q |-> d.q, version |-> d.version]]
                                    ELSE v, value, observeData)
            /\ observeData' = <<>>
    /\ last' = Idle
    /\ UNCHANGED <<link, calls, nextFId, subs, observerInfo, observeDataLock, connectTimer,
                   connVars, toServer, toClient, serverVars, used, losses, crashed>>

\* Mutant of Timeout: the timer runs out and the loop goes on.
TimeoutStays(n) ==
    /\ ~crashed /\ Settled
    /\ calls[n].timer /\ calls[n].kind \in SlowKinds
    /\ calls' = [calls EXCEPT ![n].timer = FALSE]
    /\ last' = Idle
    /\ UNCHANGED <<link, nextFId, clientVars, observeData, connectTimer, connVars, value, toServer,
                   toClient, serverVars, used, losses, crashed>>

\* waitForDone: the timer of a call runs out.  An outer call whose reply is
\* there already, but which waits for inner ones, counts as timed out then.
Timeout(n) ==
    /\ ~crashed /\ Settled
    /\ calls[n].timer /\ calls[n].kind \in SlowKinds
    /\ calls' = [calls EXCEPT ![n].timer = FALSE, ![n].quit = TRUE]
    /\ last' = Idle
    /\ UNCHANGED <<link, nextFId, clientVars, observeData, connectTimer, connVars, value, toServer,
                   toClient, serverVars, used, losses, crashed>>

\* clientRemoved: every call that waits is cancelled, the subscribers are
\* forgotten, the timer for reconnecting starts.  The server drops what it held
\* for the connection.
LinkLost ==
    /\ ~crashed /\ link /\ losses < MaxLosses
    /\ \A n \in 1..Depth : calls[n].kind \in LossInside
    /\ link' = FALSE
    /\ losses' = losses + 1
    /\ calls' = [n \in DOMAIN calls |-> Quit(n, Canceled)[n]]
    /\ subs' = Empty
    /\ connectTimer' = TRUE
    /\ toServer' = <<>> /\ toClient' = <<>> /\ served' = Empty
    /\ taken' = IF Stolen THEN taken \union DOMAIN served ELSE taken
    /\ last' = Idle
    /\ UNCHANGED <<nextFId, observerInfo, observeData, observeDataLock, process, connVars, value,
                   nextNumber, version, used, crashed>>

\* Mutant of NextInfo: the number behind the last one is passed over.
NextInfoSkips(info, n) ==
    LET rest == {m \in DOMAIN info : m > n + 1} IN IF rest = {} THEN None ELSE Min(rest)

\* The entry behind number n in the order of the map observerInfo.
NextInfo(info, n) ==
    LET rest == {m \in DOMAIN info : m > n} IN IF rest = {} THEN None ELSE Min(rest)

\* One step of the loop over observerInfo in onConnectTimer: observe again,
\* with the old number as the preferred one.
Reobserve(up, stack, info, n) ==
    IF n = None THEN Leave(stack) /\ observeDataLock' = FALSE
    ELSE /\ Start(up, stack, "reobserve", info[n].k, info[n].q, n)
         /\ observeDataLock' = TRUE

\* There is a new QDocdbLinkBase.
connectToServer == link' = TRUE

\* onConnectTimer, when the server is there again; otherwise the timer is set
\* to a longer interval, which changes nothing else.
OnConnectTimer ==
    /\ ~crashed /\ Settled /\ connectTimer
    /\ connectTimer' = FALSE
    /\ connectToServer
    /\ Reobserve(TRUE, calls, observerInfo, NextInfo(observerInfo, 0))
    /\ last' = Idle
    /\ UNCHANGED <<subs, observerInfo, observeData, process, connVars, value, toClient, serverVars,
                   used, losses>>

-----------------------------------------------------------------------------
(* The innermost call returns once its loop was told to quit.              *)

\* The rest of sendAndWaitReply.
Outcome(f) ==
    IF ~f.timer THEN "errorConnection" ELSE IF f.reply.kind = "canceled" THEN "error" ELSE "success"

Returns(kind) ==
    /\ ~crashed /\ Depth > 0 /\ Top.quit /\ Top.kind = kind
    /\ last' = [r |-> Outcome(Top), serial |-> Top.serial,
                of |-> IF Top.reply = None THEN 0 ELSE Top.reply.of]
    /\ UNCHANGED <<link, observeData, connectTimer, value, toClient, serverVars, used, losses>>

ReturnOperation ==
    /\ Returns("operation")
    /\ Leave(Front(calls))
    /\ UNCHANGED <<clientVars, connVars>>

\* Mutant of ReturnUnobserve: the entry in observerInfo stays.
ReturnUnobserveKeeps ==
    /\ Returns("unobserve")
    /\ subs' = Without(subs, Top.n)
    /\ IF Top.q = None THEN Leave(Front(calls)) /\ UNCHANGED <<query, observeDataLock>>
       ELSE /\ query' = [query EXCEPT ![Top.k] = Top.q]
            /\ IF observable[Top.k] THEN ConnObserve(Front(calls), Top.k, Top.q)
               ELSE Leave(Front(calls)) /\ UNCHANGED observeDataLock
    /\ UNCHANGED <<observerInfo, process, observable, observeId>>

\* unobserve, then the rest of setQuery if that was the caller.
ReturnUnobserve ==
    /\ Returns("unobserve")
    /\ IF Outcome(Top) = "success"
       THEN subs' = Without(subs, Top.n) /\ observerInfo' = Without(observerInfo, Top.n)
       ELSE UNCHANGED <<subs, observerInfo>>
    /\ IF Top.q = None THEN Leave(Front(calls)) /\ UNCHANGED <<query, observeDataLock>>
       ELSE /\ query' = [query EXCEPT ![Top.k] = Top.q]
            /\ IF observable[Top.k] THEN ConnObserve(Front(calls), Top.k, Top.q)
               ELSE Leave(Front(calls)) /\ UNCHANGED observeDataLock
    /\ UNCHANGED <<process, observable, observeId>>

\* Mutant of Entered: an observer whose entry is there is not subscribed again.
EnteredOnce(f) ==
    IF Outcome(f) = "success" /\ f.reply.number \notin DOMAIN observerInfo
    THEN /\ subs' = With(subs, f.reply.number, f.k)
         /\ observerInfo' = With(observerInfo, f.reply.number, [k |-> f.k, q |-> f.q])
         /\ process' = TRUE
    ELSE UNCHANGED <<subs, observerInfo, process>>

\* The rest of QDocdbClient::observe: the number is entered, and data that came
\* before this are handled.  A failure says nothing to the connector.
Entered(f) ==
    IF Outcome(f) = "success"
    THEN /\ subs' = With(subs, f.reply.number, f.k)
         /\ observerInfo' = IF f.reply.number \in DOMAIN observerInfo THEN observerInfo
                            ELSE With(observerInfo, f.reply.number, [k |-> f.k, q |-> f.q])
         /\ process' = TRUE
    ELSE UNCHANGED <<subs, observerInfo, process>>

ReturnObserve ==
    /\ Returns("observe")
    /\ Entered(Top)
    /\ Leave(Front(calls))
    /\ observeDataLock' = FALSE
    /\ observeId' = [observeId EXCEPT ![Top.k] =
                        IF Outcome(Top) = "success" THEN Top.reply.number ELSE -1]
    /\ UNCHANGED <<query, observable>>

\* The loop of onConnectTimer goes on, from the entry it stands at; the numbers
\* that come with it are not told to the connectors.
ReturnReobserve ==
    /\ Returns("reobserve")
    /\ Entered(Top)
    /\ IF Top.n \in DOMAIN observerInfo
       THEN Reobserve(link, Front(calls), observerInfo', NextInfo(observerInfo', Top.n))
       ELSE /\ crashed' = TRUE
            /\ calls' = Front(calls)
            /\ UNCHANGED <<nextFId, toServer, observeDataLock>>
    /\ UNCHANGED connVars

-----------------------------------------------------------------------------
(* The server.                                                             *)

Data(n, v) == [kind |-> "data", number |-> n, q |-> served[n], version |-> v]

\* The data of all observers, in the order of their numbers.
AllData(v) ==
    LET before(n) == {m \in DOMAIN served : m < n}
        ith(i) == CHOOSE n \in DOMAIN served : Cardinality(before(n)) = i - 1
    IN [i \in 1..Cardinality(DOMAIN served) |-> Data(ith(i), v)]

\* It takes the next request, and answers.
Serve ==
    /\ toServer # <<>>
    /\ toServer' = Tail(toServer)
    /\ LET m == Head(toServer)
           reply(n) == [kind |-> "reply", id |-> m.id, of |-> m.serial, number |-> n]
           own == m.n = -1 \/ m.n \in taken \union DOMAIN served
           n == IF own THEN nextNumber ELSE m.n
       IN CASE m.kind = "operation" ->
                 /\ version' = version + 1
                 /\ toClient' = toClient \o <<reply(-1)>> \o AllData(version + 1)
                 /\ UNCHANGED <<served, taken, nextNumber>>
            [] m.kind = "unobserve" ->
                 /\ served' = Without(served, m.n)
                 /\ toClient' = Append(toClient, reply(-1))
                 /\ UNCHANGED <<taken, nextNumber, version>>
            [] OTHER ->
                 /\ served' = With(served, n, m.q)
                 /\ nextNumber' = IF own THEN nextNumber + 1 ELSE nextNumber
                 /\ toClient' = toClient \o <<reply(n), [kind |-> "data", number |-> n, q |-> m.q,
                                                         version |-> version]>>
                 /\ UNCHANGED <<taken, version>>
    /\ last' = Idle
    /\ UNCHANGED <<link, calls, nextFId, clientVars, observeData, connectTimer, connVars, value,
                   used, losses, crashed>>

\* An operation waits for a lock that is never given back.
PutOff ==
    /\ toServer # <<>> /\ Head(toServer).kind = "operation"
    /\ toServer' = Tail(toServer)
    /\ last' = Idle
    /\ UNCHANGED <<link, calls, nextFId, clientVars, observeData, connectTimer, connVars, value,
                   toClient, serverVars, used, losses, crashed>>

-----------------------------------------------------------------------------

Next ==
    \/ \E k \in Conn : Operate(k) \/ Watch(k) \/ Unwatch(k) \/ \E q \in Query : SetQuery(k, q)
    \/ Receive \/ ObserveDataProcess
    \/ \E n \in DOMAIN calls : Timeout(n)
    \/ LinkLost \/ OnConnectTimer
    \/ ReturnOperation \/ ReturnUnobserve \/ ReturnObserve \/ ReturnReobserve
    \/ Serve \/ PutOff

\* The event loop handles what is there, timers run out, and the server answers
\* and can be reached again.
Fairness ==
    /\ WF_vars(Receive) /\ WF_vars(ObserveDataProcess)
    /\ WF_vars(\E n \in DOMAIN calls : Timeout(n))
    /\ WF_vars(OnConnectTimer)
    /\ WF_vars(ReturnOperation \/ ReturnUnobserve \/ ReturnObserve \/ ReturnReobserve)
    /\ WF_vars(Serve)

Spec == Init /\ [][Next]_vars /\ Fairness

-----------------------------------------------------------------------------
(* Properties.                                                             *)

\* A call that succeeds has the reply to its own request, however calls nest,
\* time out and are answered late (receive looks a reply up by its number).
OwnReply == last.r = "success" => last.of = last.serial

\* The client keeps one entry per connector that observes, so that a connection
\* made again asks the server for what the connectors want and no more (observe
\* and unobserve keep observerInfo by number, connectors come and go).
OneObserverEach ==
    \A m, n \in DOMAIN observerInfo : observerInfo[m].k = observerInfo[n].k => m = n

\* Whenever the connection is there and nobody is about to observe or to stop
\* observing, four records of who observes what agree, whatever was lost, made
\* again, nested or answered late: the connectors' own, the client's two maps,
\* and the server's (observe, unobserve, clientRemoved and onConnectTimer each
\* change some of them).
ObserversAgree ==
    link /\ (\A n \in DOMAIN calls : calls[n].kind = "operation") =>
        /\ served = [n \in DOMAIN observerInfo |-> observerInfo[n].q]
        /\ subs = [n \in DOMAIN observerInfo |-> observerInfo[n].k]
        /\ \A k \in Conn : observable[k] =
                (\E n \in DOMAIN observerInfo : observerInfo[n] = [k |-> k, q |-> query[k]])

\* Every call returns, whatever is nested in it (waitForDone has a timer).
EveryCallReturns == (Depth > 0) ~> (Depth = 0)

\* A connector that observes comes to show the current answer to its current
\* query, through changes of the query, lost connections and operations that time
\* out (README: "Result of query is observable").
EventuallyCurrent ==
    \A k \in Conn :
        <>[](observable[k] => value[k] = [q |-> query[k], version |-> version])
=============================================================================
