---------------------------- MODULE ClientProofs ----------------------------
(***************************************************************************)
(* What a client promises, for every number of connectors, queries, calls, *)
(* nested calls and lost connections: a call that succeeds has the reply   *)
(* to its own request, whatever times out and is answered late; it keeps   *)
(* one observer for each connector; and the connectors, the client and the *)
(* server agree on who observes what.                                      *)
(*                                                                         *)
(* The last two hold as long as nothing interferes with a call that        *)
(* observes, observes again or stops observing.                            *)
(***************************************************************************)
EXTENDS Client, Lemmas, FiniteSetTheorems

Kind == {"operation", "observe", "unobserve", "reobserve"}

Frames == [serial : Nat, id : Nat, kind : Kind, k : Conn, q : Query \union {None}, n : Int,
           quit : BOOLEAN, timer : BOOLEAN, reply : Reply \union {None, Canceled}]

Requests == [serial : Nat, id : Nat, kind : Kind, q : Query \union {None}, n : Int]

Entries == [k : Conn, q : Query \union {None}]

-----------------------------------------------------------------------------
(* The inductive invariants.                                               *)

\* A call that waits has a number of its own and, unless it timed out, does not
\* return without the reply to that number.
FrameOK(f) ==
    /\ f.id = f.serial /\ f.serial < nextFId
    /\ f.reply \in Reply => f.reply.of = f.serial
    /\ f.quit /\ f.timer => f.reply # None

\* Requests and replies carry the number of a call that was made.
RequestOK(m) == m.id = m.serial /\ m.serial < nextFId
MessageOK(m) == m.kind = "data" \/ (m \in Reply /\ m.id = m.of /\ m.of < nextFId)

StackOK(stack) == stack \in Seq(Frames) /\ \A n \in 1..Len(stack) : FrameOK(stack[n])

RequestsOK ==
    /\ nextFId \in Nat /\ StackOK(calls)
    /\ toServer \in Seq(Requests) /\ \A m \in Range(toServer) : RequestOK(m)

MessagesOK == toClient \in Seq(Range(toClient)) /\ \A m \in Range(toClient) : MessageOK(m)

TypesOK ==
    /\ query \in [Conn -> Query] /\ observeId \in [Conn -> Int] /\ observable \in [Conn -> BOOLEAN]
    /\ observerInfo \in PartialFn(Int, Entries)
    /\ nextNumber \in Int /\ IsFiniteSet(DOMAIN served)

ClientOK == RequestsOK /\ MessagesOK /\ TypesOK

\* A call that observes, observes again or stops observing is innermost and has
\* the link; onConnectTimer stands at an entry of observerInfo.
CallsOK ==
    /\ ClientOK /\ crashed = FALSE
    /\ \A n \in 1..(Len(calls) - 1) : calls[n].kind = "operation"
    /\ ~link => \A n \in 1..Len(calls) : calls[n].kind = "operation"
    /\ connectTimer => ~link
    /\ Depth > 0 /\ Top.kind = "reobserve" => Top.n \in DOMAIN observerInfo

\* The innermost call, if it is one of those.
Innermost(kind) == Depth > 0 /\ Top.kind = kind

\* The reply to the innermost call, on its way or arrived.
Answers == {m \in Range(toClient) : m \in Reply /\ m.of = Top.serial}
             \union {m \in {Top.reply} : m \in Reply}

\* An entry is the one of its connector, which observes or is about to stop.
EntriesOK ==
    \A n \in DOMAIN observerInfo :
        LET k == observerInfo[n].k IN
        /\ n > 0 /\ observeId[k] = n
        /\ observable[k] \/ (Innermost("unobserve") /\ Top.k = k)

\* While a call observes there is no entry for its connector, and the number it
\* is going to get is none of -1 (the number of other replies).
ObservingOK ==
    Innermost("observe") =>
        /\ observable[Top.k]
        /\ \A n \in DOMAIN observerInfo : observerInfo[n].k # Top.k
        /\ \A m \in Range(toServer) : m.serial = Top.serial => m.kind = "observe" /\ m.n = -1
        /\ \A m \in Answers : m.number > 0

\* The loop of onConnectTimer asks for one old number after the other, and the
\* server, which has only smaller ones yet, gives that number.
ReobservingOK ==
    Innermost("reobserve") =>
        /\ \A m \in DOMAIN served : m <= Top.n
        /\ \/ toServer = <<>>
           \/ /\ Len(toServer) = 1 /\ toServer[1].serial = Top.serial
              /\ toServer[1].kind = "reobserve" /\ toServer[1].n = Top.n
              /\ Top.n \notin DOMAIN served /\ Answers = {}
        /\ \A m \in Answers : m.number = Top.n

ServerOK ==
    /\ taken = {} /\ nextNumber > 0
    /\ \A m \in DOMAIN served : m \in Int
    /\ ~link => DOMAIN served = {} /\ toServer = <<>>

InnerOK ==
    /\ Innermost("unobserve") => Top.n = observeId[Top.k]
    /\ Depth > 0 /\ Top.kind # "operation" => Top.timer /\ Top.reply # Canceled

ObserversOK == CallsOK /\ EntriesOK /\ ObservingOK /\ ReobservingOK /\ ServerOK /\ InnerOK

-----------------------------------------------------------------------------
(* Calls and replies.                                                      *)

\* The stack a new call is put on: all calls, or all but the innermost.
IsStack(stack) == stack = calls \/ (Depth > 0 /\ stack = Front(calls))

\* It holds calls that wait.
LEMMA StackFacts ==
    ASSUME RequestsOK, NEW stack, IsStack(stack)
    PROVE  StackOK(stack) /\ Len(stack) \in Nat /\ \A n \in 1..Len(stack) : stack[n] = calls[n]
<1>1. CASE stack = calls
  BY <1>1, LenProperties DEF RequestsOK, StackOK
<1>2. CASE Depth > 0 /\ stack = Front(calls)
  <2>1. /\ stack \in Seq(Frames) /\ Len(stack) = Len(calls) - 1 /\ Len(calls) \in Nat
        /\ \A n \in 1..(Len(calls) - 1) : stack[n] = calls[n]
    BY <1>2, FrontFacts DEF RequestsOK, StackOK, Depth
  <2> QED
    BY <2>1 DEF RequestsOK, StackOK
<1> QED
  BY <1>1, <1>2 DEF IsStack

\* The calls that waited and do not return are still well formed when requests
\* have been numbered in between.
LEMMA StackStays ==
    ASSUME nextFId \in Nat, nextFId' \in Nat, nextFId' >= nextFId, NEW f \in Frames, FrameOK(f)
    PROVE  FrameOK(f)'
BY DEF FrameOK, Frames

\* sendAndWaitReply numbers its request anew.
LEMMA StartFacts ==
    ASSUME RequestsOK, NEW stack, IsStack(stack), NEW kind \in Kind, NEW k \in Conn,
           NEW q \in Query \union {None}, NEW n \in Int, Start(TRUE, stack, kind, k, q, n)
    PROVE  /\ RequestsOK' /\ nextFId' = nextFId + 1 /\ crashed' = crashed
           /\ Len(calls') = Len(stack) + 1 /\ Len(stack) \in Nat
           /\ calls'[Len(stack) + 1] = Frame(nextFId, kind, k, q, n)
           /\ \A i \in 1..Len(stack) : calls'[i] = calls[i]
           /\ toServer' = Append(toServer, [serial |-> nextFId, id |-> nextFId, kind |-> kind,
                                           q |-> q, n |-> n])
<1>1. StackOK(stack) /\ Len(stack) \in Nat /\ \A i \in 1..Len(stack) : stack[i] = calls[i]
  BY StackFacts
<1>2. PICK f : f = Frame(nextFId, kind, k, q, n)
  OBVIOUS
<1>3. PICK m : m = [serial |-> nextFId, id |-> nextFId, kind |-> kind, q |-> q, n |-> n]
  OBVIOUS
<1>4. /\ nextFId \in Nat /\ f \in Frames /\ f.serial = nextFId /\ f.id = nextFId
      /\ f.reply = None /\ f.quit = FALSE
  BY <1>2 DEF RequestsOK, Frame, Frames
<1>5. m \in Requests /\ m.serial = nextFId /\ m.id = nextFId
  BY <1>3, <1>4 DEF Requests
<1>6. /\ calls' = Append(stack, f) /\ nextFId' = nextFId + 1 /\ crashed' = crashed
      /\ toServer' = Append(toServer, m)
  BY <1>2, <1>3, <1>4 DEF Start, NewFId
<1>7. FrameOK(f)' /\ RequestOK(m)'
  BY <1>4, <1>5, <1>6, NoneAssumption DEF FrameOK, RequestOK
<1>8. /\ calls' \in Seq(Frames) /\ Len(calls') = Len(stack) + 1 /\ calls'[Len(stack) + 1] = f
      /\ \A i \in 1..Len(stack) : calls'[i] = stack[i]
  BY <1>1, <1>4, <1>6, AppendAt DEF StackOK
<1>9. StackOK(calls)'
  <2>1. ASSUME NEW i \in 1..Len(stack) PROVE FrameOK(calls[i])'
    <3>1. stack[i] \in Frames /\ FrameOK(stack[i])
      BY <1>1, ElementOfSeq DEF StackOK
    <3> QED
      BY <1>4, <1>6, <1>8, <3>1 DEF FrameOK, Frames
  <2>2. FrameOK(calls[Len(stack) + 1])'
    BY <1>7, <1>8 DEF FrameOK
  <2>3. \A i \in 1..(Len(stack) + 1) : i \in 1..Len(stack) \/ i = Len(stack) + 1
    BY <1>1
  <2> QED
    BY <1>8, <2>1, <2>2, <2>3 DEF StackOK
<1>10. toServer' \in Seq(Requests) /\ Range(toServer') \subseteq Range(toServer) \union {m}
  BY <1>5, <1>6, AppendFacts DEF RequestsOK
<1>11. \A x \in Range(toServer) : RequestOK(x)'
  <2>1. \A x \in Range(toServer) : x \in Requests /\ RequestOK(x)
    BY ElementOfSeq, LenProperties DEF RequestsOK, Range
  <2> QED
    BY <1>4, <1>6, <2>1 DEF RequestOK, Requests
<1>12. RequestsOK'
  BY <1>4, <1>6, <1>7, <1>9, <1>10, <1>11 DEF RequestsOK
<1> QED
  BY <1>1, <1>2, <1>3, <1>6, <1>8, <1>12

\* A call returns, and nothing is sent.
LEMMA LeaveFacts ==
    ASSUME RequestsOK, NEW stack, IsStack(stack), calls' = stack, UNCHANGED <<nextFId, toServer>>
    PROVE  /\ RequestsOK' /\ Len(calls') = Len(stack) /\ Len(stack) \in Nat
           /\ \A i \in 1..Len(stack) : calls'[i] = calls[i]
<1>1. StackOK(stack) /\ Len(stack) \in Nat /\ \A i \in 1..Len(stack) : stack[i] = calls[i]
  BY StackFacts
<1> QED
  BY <1>1 DEF RequestsOK, StackOK, FrameOK, RequestOK

\* The two together, with or without a link.
LEMMA StartsOrNot ==
    ASSUME RequestsOK, NEW stack, IsStack(stack), NEW kind \in Kind, NEW k \in Conn,
           NEW q \in Query \union {None}, NEW n \in Int, NEW up, Start(up, stack, kind, k, q, n)
    PROVE  RequestsOK' /\ nextFId' \in Nat /\ nextFId' >= nextFId
<1>1. CASE up
  <2>1. Start(TRUE, stack, kind, k, q, n)
    BY <1>1 DEF Start
  <2>2. RequestsOK' /\ nextFId' = nextFId + 1
    BY <2>1, StartFacts
  <2> QED
    BY <2>2 DEF RequestsOK
<1>2. CASE ~up
  <2>1. calls' = stack /\ UNCHANGED <<nextFId, toServer>>
    BY <1>2 DEF Start
  <2> QED
    BY <2>1, LeaveFacts DEF RequestsOK
<1> QED
  BY <1>1, <1>2

\* A number in the map observerInfo behind another one.
LEMMA NextFacts ==
    ASSUME NEW T, NEW info \in PartialFn(Int, T), NEW n \in Int, NextInfo(info, n) # None
    PROVE  /\ NextInfo(info, n) \in DOMAIN info /\ NextInfo(info, n) > n
           /\ info[NextInfo(info, n)] \in T
           /\ \A m \in DOMAIN info : m > n => NextInfo(info, n) <= m
<1> DEFINE rest == {m \in DOMAIN info : m > n}
           above == {m - n : m \in rest}
<1>1. info \in [DOMAIN info -> T] /\ DOMAIN info \subseteq Int
  BY PartialFnElim
<1>2. rest # {} /\ NextInfo(info, n) = Min(rest)
  BY DEF NextInfo
<1>3. above \in SUBSET Nat /\ above # {}
  BY <1>1, <1>2
<1>4. PICK x \in above : \A y \in above : x <= y
  <2> HIDE DEF above
  <2> QED
    BY <1>3, LeastExists
<1>5. PICK m \in rest : x = m - n
  BY <1>4
<1>6. \A y \in rest : y - n \in above /\ y \in Int
  BY <1>1
<1>7. \A y \in rest : m <= y
  BY <1>1, <1>4, <1>5, <1>6
<1>8. Min(rest) \in rest /\ \A y \in rest : Min(rest) <= y
  BY <1>5, <1>7 DEF Min
<1> QED
  BY <1>1, <1>2, <1>8

\* The innermost call.
LEMMA TopFacts ==
    ASSUME RequestsOK, Depth > 0
    PROVE  /\ Top \in Frames /\ FrameOK(Top) /\ IsStack(Front(calls)) /\ IsStack(calls)
           /\ Len(Front(calls)) = Len(calls) - 1 /\ Len(calls) \in Nat
           /\ Outcome(Top) = "success" => Top.timer /\ (Top.quit => Top.reply \in Reply)
<1>1. Len(calls) \in Nat /\ Depth \in 1..Len(calls) /\ calls \in Seq(Frames)
  BY LenProperties DEF RequestsOK, StackOK, Depth
<1>2. Top \in Frames /\ FrameOK(Top)
  BY <1>1, ElementOfSeq DEF RequestsOK, StackOK, Top, Depth
<1>3. Len(Front(calls)) = Len(calls) - 1
  BY <1>1, FrontFacts
<1>4. ASSUME Outcome(Top) = "success" PROVE Top.timer /\ (Top.quit => Top.reply \in Reply)
  BY <1>2, <1>4 DEF Outcome, Frames, FrameOK, Canceled
<1> QED
  BY <1>1, <1>2, <1>3, <1>4 DEF IsStack

-----------------------------------------------------------------------------
(* Calls, replies and requests stay well formed.                           *)

\* What the client has been sent stays well formed while it takes from it.
LEMMA MessagesStay ==
    ASSUME MessagesOK, nextFId \in Nat, nextFId' \in Nat, nextFId' >= nextFId, toClient' = toClient
    PROVE  MessagesOK'
<1>1. \A m \in Range(toClient) : MessageOK(m)'
  BY DEF MessagesOK, MessageOK, Reply
<1> QED
  BY <1>1 DEF MessagesOK

\* So is what users send.
LEMMA UsersKeep ==
    ASSUME ClientOK, NEW k \in Conn, Operate(k) \/ Watch(k) \/ Unwatch(k) \/ \E q \in Query : SetQuery(k, q)
    PROVE  ClientOK'
<1>1. IsStack(calls) /\ RequestsOK /\ query[k] \in Query /\ observeId[k] \in Int
  BY DEF IsStack, ClientOK, TypesOK
<1>2. Kind = {"operation", "observe", "unobserve", "reobserve"} /\ -1 \in Int
  BY DEF Kind
<1>3. CASE Operate(k)
  <2>1. RequestsOK' /\ nextFId' \in Nat /\ nextFId' >= nextFId
    BY <1>1, <1>2, <1>3, StartsOrNot DEF Operate, Request
  <2> QED
    BY <1>3, <2>1, MessagesStay DEF Operate, Rest, ClientOK, TypesOK, RequestsOK, connVars, serverVars
<1>4. CASE Watch(k)
  <2>1. RequestsOK' /\ nextFId' \in Nat /\ nextFId' >= nextFId
    <3>1. CASE link
      BY <1>1, <1>2, <1>4, <3>1, StartsOrNot DEF Watch, ConnObserve
    <3>2. CASE ~link
      <4>1. RequestsOK' /\ nextFId' = nextFId
        BY <1>1, <1>4, <3>2, LeaveFacts DEF Watch, ConnObserve, Leave
      <4> QED
        BY <1>1, <4>1 DEF RequestsOK
    <3> QED
      BY <3>1, <3>2
  <2> QED
    BY <1>4, <2>1, MessagesStay DEF Watch, Rest, ClientOK, TypesOK, RequestsOK, serverVars
<1>5. CASE Unwatch(k)
  <2>1. RequestsOK' /\ nextFId' \in Nat /\ nextFId' >= nextFId
    <3>1. CASE link
      BY <1>1, <1>2, <1>5, <3>1, StartsOrNot DEF Unwatch
    <3>2. CASE ~link
      <4>1. RequestsOK' /\ nextFId' = nextFId
        BY <1>1, <1>5, <3>2, LeaveFacts DEF Unwatch, Leave
      <4> QED
        BY <1>1, <4>1 DEF RequestsOK
    <3> QED
      BY <3>1, <3>2
  <2> QED
    BY <1>5, <2>1, MessagesStay DEF Unwatch, Rest, ClientOK, TypesOK, RequestsOK, serverVars
<1>6. ASSUME NEW q \in Query, SetQuery(k, q) PROVE ClientOK'
  <2>1. /\ RequestsOK' /\ nextFId' \in Nat /\ nextFId' >= nextFId
        /\ query' = query \/ query' = [query EXCEPT ![k] = q]
    <3>1. CASE link
      BY <1>1, <1>2, <1>6, <3>1, StartsOrNot DEF SetQuery
    <3>2. CASE ~link
      <4>1. RequestsOK' /\ nextFId' = nextFId /\ query' = [query EXCEPT ![k] = q]
        BY <1>1, <1>6, <3>2, LeaveFacts DEF SetQuery, Leave
      <4> QED
        BY <1>1, <4>1 DEF RequestsOK
    <3> QED
      BY <3>1, <3>2
  <2> QED
    BY <1>6, <2>1, MessagesStay DEF SetQuery, Rest, ClientOK, TypesOK, RequestsOK, serverVars
<1> QED
  BY <1>3, <1>4, <1>5, <1>6

\* Calls that wait change in what they know of the reply.
LEMMA CallsChange ==
    ASSUME RequestsOK, nextFId' = nextFId, toServer' = toServer,
           DOMAIN calls' = DOMAIN calls, calls' = [n \in DOMAIN calls |-> calls'[n]],
           \A n \in DOMAIN calls : calls'[n] \in Frames /\ FrameOK(calls'[n])
    PROVE  RequestsOK' /\ Len(calls') = Len(calls)
<1>1. Len(calls) \in Nat /\ DOMAIN calls = 1..Len(calls)
  BY LenProperties DEF RequestsOK, StackOK
<1>2. calls' \in [1..Len(calls) -> Frames]
  BY <1>1
<1>3. calls' \in Seq(Frames) /\ Len(calls') = Len(calls)
  BY <1>1, <1>2, SeqDef, LenProperties
<1>4. \A n \in 1..Len(calls') : FrameOK(calls'[n])
  BY <1>1, <1>3
<1> QED
  BY <1>3, <1>4 DEF RequestsOK, StackOK, FrameOK, RequestOK

\* A call that waits is one of the stack.
LEMMA CallFacts ==
    ASSUME RequestsOK, NEW n \in DOMAIN calls
    PROVE  calls[n] \in Frames /\ FrameOK(calls[n])
BY LenProperties, ElementOfSeq DEF RequestsOK, StackOK

\* That the link is lost is no reply.
LEMMA CanceledFacts == Canceled \notin Reply /\ Canceled # None
BY NoneAssumption DEF Canceled, Reply

\* A reply is kept by the call whose number it carries.
LEMMA ReceiveKeeps ==
    ASSUME ClientOK, Receive
    PROVE  ClientOK'
<1>1. /\ RequestsOK /\ MessagesOK /\ TypesOK /\ Head(toClient) = toClient[1] /\ toClient # <<>>
      /\ toClient \in Seq(Range(toClient)) /\ toClient' = Tail(toClient)
  BY DEF ClientOK, MessagesOK, Receive
<1>2. PICK m : m = Head(toClient)
  OBVIOUS
<1>3. m \in Range(toClient) /\ MessageOK(m) /\ Range(Tail(toClient)) \subseteq Range(toClient)
  BY <1>1, <1>2, TailFacts DEF MessagesOK
<1>4. toClient' \in Seq(Range(toClient'))
  BY <1>1, OwnElements, TailFacts
<1>5. MessagesOK'
  BY <1>1, <1>3, <1>4 DEF MessagesOK, MessageOK, Receive
<1>6. TypesOK'
  BY <1>1 DEF TypesOK, Receive, connVars, serverVars
<1>7. CASE m.kind = "data"
  BY <1>1, <1>2, <1>5, <1>6, <1>7 DEF Receive, ClientOK, RequestsOK, StackOK, FrameOK, RequestOK
<1>8. CASE m.kind # "data"
  <2>1. calls' = [n \in DOMAIN calls |-> IF calls[n].id = m.id THEN Quit(n, m)[n] ELSE calls[n]]
    BY <1>2, <1>8 DEF Receive
  <2>2. m \in Reply /\ m.id = m.of
    BY <1>3, <1>8 DEF MessageOK
  <2>3. ASSUME NEW n \in DOMAIN calls PROVE calls'[n] \in Frames /\ FrameOK(calls'[n])
    <3>1. calls[n] \in Frames /\ FrameOK(calls[n])
      BY <1>1, CallFacts
    <3>2. CASE calls[n].id = m.id
      <4>1. calls'[n] = [calls[n] EXCEPT !.quit = TRUE, !.reply = m]
        BY <2>1, <3>1, <3>2 DEF Quit, Frames
      <4> QED
        BY <2>2, <3>1, <3>2, <4>1, NoneAssumption DEF Frames, FrameOK
    <3> QED
      BY <2>1, <3>1, <3>2
  <2>4. UNCHANGED <<nextFId, toServer>>
    BY DEF Receive
  <2> QED
    BY <1>1, <1>5, <1>6, <2>1, <2>3, <2>4, CallsChange DEF ClientOK
<1> QED
  BY <1>7, <1>8

\* A call whose timer runs out has failed, and one whose link is lost has been
\* told so.
LEMMA LossesKeep ==
    ASSUME ClientOK, (\E n \in DOMAIN calls : Timeout(n)) \/ LinkLost
    PROVE  ClientOK'
<1>1. RequestsOK /\ MessagesOK /\ TypesOK
  BY DEF ClientOK
<1>2. ASSUME NEW i \in DOMAIN calls, Timeout(i) PROVE ClientOK'
  <2>1. calls' = [calls EXCEPT ![i].timer = FALSE, ![i].quit = TRUE] /\ UNCHANGED <<nextFId, toServer>>
    BY <1>2 DEF Timeout
  <2>2. ASSUME NEW n \in DOMAIN calls PROVE calls'[n] \in Frames /\ FrameOK(calls'[n])
    <3>1. calls[n] \in Frames /\ FrameOK(calls[n])
      BY <1>1, CallFacts
    <3>2. CASE n = i
      <4>1. calls'[n] = [calls[n] EXCEPT !.timer = FALSE, !.quit = TRUE]
        BY <2>1, <3>1, <3>2 DEF Frames
      <4> QED
        BY <3>1, <4>1 DEF Frames, FrameOK
    <3> QED
      BY <2>1, <3>1, <3>2
  <2>3. DOMAIN calls' = DOMAIN calls /\ calls' = [n \in DOMAIN calls |-> calls'[n]]
    <3>1. calls \in Seq(Frames)
      BY <1>1 DEF RequestsOK, StackOK
    <3> QED
      BY <2>1, <3>1, LenProperties
  <2>4. RequestsOK'
    BY <1>1, <2>1, <2>2, <2>3, CallsChange
  <2>5. nextFId \in Nat /\ nextFId' = nextFId /\ toClient' = toClient
    BY <1>1, <1>2 DEF Timeout, RequestsOK
  <2>6. MessagesOK'
    BY <1>1, <2>5, MessagesStay
  <2>7. TypesOK'
    BY <1>1, <1>2 DEF Timeout, TypesOK, clientVars, connVars, serverVars
  <2> QED
    BY <2>4, <2>6, <2>7 DEF ClientOK
<1>3. CASE LinkLost
  <2>1. calls' = [n \in DOMAIN calls |-> Quit(n, Canceled)[n]] /\ UNCHANGED nextFId /\ toServer' = <<>>
    BY <1>3 DEF LinkLost
  <2>2. ASSUME NEW n \in DOMAIN calls PROVE calls'[n] \in Frames /\ FrameOK(calls'[n])
    <3>1. calls[n] \in Frames /\ FrameOK(calls[n])
      BY <1>1, CallFacts
    <3>2. calls'[n] = [calls[n] EXCEPT !.quit = TRUE, !.reply = Canceled]
      BY <2>1, <3>1 DEF Quit, Frames
    <3> QED
      BY <3>1, <3>2, CanceledFacts DEF Frames, FrameOK
  <2>3. RequestsOK'
    <3>1. Len(calls) \in Nat /\ DOMAIN calls = 1..Len(calls)
      BY <1>1, LenProperties DEF RequestsOK, StackOK
    <3>2. calls' \in [1..Len(calls) -> Frames]
      BY <2>1, <2>2, <3>1
    <3>3. calls' \in Seq(Frames) /\ Len(calls') = Len(calls)
      BY <3>1, <3>2, SeqDef, LenProperties
    <3>4. \A n \in 1..Len(calls') : FrameOK(calls'[n])
      BY <2>2, <3>1, <3>3
    <3>5. toServer' \in Seq(Requests) /\ Range(toServer') = {}
      BY <2>1 DEF Range
    <3> QED
      BY <1>1, <2>1, <3>3, <3>4, <3>5 DEF RequestsOK, StackOK, FrameOK
  <2>4. MessagesOK'
    <3>1. toClient' = <<>> /\ Range(toClient') = {} /\ toClient' \in Seq(Range(toClient'))
      BY <1>3 DEF LinkLost, Range
    <3> QED
      BY <3>1 DEF MessagesOK
  <2>5. TypesOK'
    <3>1. DOMAIN served' = {} /\ IsFiniteSet(DOMAIN served')
      BY <1>3, FS_EmptySet DEF LinkLost, Empty
    <3> QED
      BY <1>1, <1>3, <3>1 DEF LinkLost, TypesOK, connVars
  <2> QED
    BY <2>3, <2>4, <2>5 DEF ClientOK
<1> QED
  BY <1>2, <1>3

\* A connector observes again, or the loop of onConnectTimer is over.
LEMMA ReobserveKeeps ==
    ASSUME RequestsOK, NEW stack, IsStack(stack), NEW info \in PartialFn(Int, Entries),
           NEW n \in Int, NEW up, Reobserve(up, stack, info, NextInfo(info, n))
    PROVE  RequestsOK' /\ nextFId' \in Nat /\ nextFId' >= nextFId
<1> DEFINE m == NextInfo(info, n)
<1>1. CASE m = None
  <2>1. RequestsOK' /\ nextFId' = nextFId
    BY <1>1, LeaveFacts DEF Reobserve, Leave
  <2> QED
    BY <2>1 DEF RequestsOK
<1>2. CASE m # None
  <2>1. m \in DOMAIN info /\ info[m] \in Entries /\ m \in Int
    BY <1>2, NextFacts, PartialFnElim
  <2>2. info[m].k \in Conn /\ info[m].q \in Query \union {None} /\ "reobserve" \in Kind
    BY <2>1 DEF Entries, Kind
  <2>3. Start(up, stack, "reobserve", info[m].k, info[m].q, m)
    BY <1>2 DEF Reobserve
  <2> HIDE DEF m
  <2> QED
    BY <2>1, <2>2, <2>3, StartsOrNot
<1> QED
  BY <1>1, <1>2

\* The loop of onConnectTimer starts.
LEMMA ConnectKeeps ==
    ASSUME ClientOK, OnConnectTimer
    PROVE  ClientOK'
<1>1. RequestsOK /\ MessagesOK /\ TypesOK /\ IsStack(calls)
  BY DEF ClientOK, IsStack
<1>2. observerInfo \in PartialFn(Int, Entries) /\ Reobserve(TRUE, calls, observerInfo, NextInfo(observerInfo, 0))
  BY <1>1 DEF TypesOK, OnConnectTimer
<1>3. RequestsOK' /\ nextFId' \in Nat /\ nextFId' >= nextFId
  <2>1. PICK up : up = TRUE
    OBVIOUS
  <2>2. PICK n : n = 0
    OBVIOUS
  <2>3. PICK info, stack : info = observerInfo /\ stack = calls
    OBVIOUS
  <2>4. Reobserve(up, stack, info, NextInfo(info, n)) /\ n \in Int /\ info \in PartialFn(Int, Entries)
    BY <1>2, <2>1, <2>2, <2>3 DEF Reobserve, Start, Leave, NewFId
  <2>5. RequestsOK /\ IsStack(stack)
    BY <1>1, <2>3
  <2> QED
    BY <2>4, <2>5, ReobserveKeeps
<1>4. TypesOK'
  BY <1>1 DEF TypesOK, OnConnectTimer, connVars, serverVars
<1> QED
  BY <1>1, <1>3, <1>4, MessagesStay DEF ClientOK, RequestsOK, OnConnectTimer

\* A number is entered that the server gave.
LEMMA EnteredKeeps ==
    ASSUME ClientOK, NEW kind, Returns(kind), Entered(Top)
    PROVE  observerInfo' \in PartialFn(Int, Entries) /\ DOMAIN observerInfo \subseteq DOMAIN observerInfo'
<1>1. RequestsOK /\ observerInfo \in PartialFn(Int, Entries) /\ Depth > 0 /\ Top.quit
  BY DEF ClientOK, TypesOK, Returns
<1>2. CASE Outcome(Top) = "success"
  <2>1. Top \in Frames /\ Top.reply \in Reply
    BY <1>1, <1>2, TopFacts
  <2>2. PICK n : n = Top.reply.number
    OBVIOUS
  <2>3. PICK e : e = [k |-> Top.k, q |-> Top.q]
    OBVIOUS
  <2>4. n \in Int /\ e \in Entries
    BY <2>1, <2>2, <2>3 DEF Reply, Frames, Entries
  <2>5. observerInfo' = IF n \in DOMAIN observerInfo THEN observerInfo ELSE With(observerInfo, n, e)
    BY <1>2, <2>2, <2>3 DEF Entered
  <2>6. With(observerInfo, n, e) \in PartialFn(Int, Entries)
    BY <1>1, <2>4, WithFacts
  <2>7. DOMAIN With(observerInfo, n, e) = DOMAIN observerInfo \union {n}
    BY DEF With
  <2> QED
    BY <1>1, <2>5, <2>6, <2>7
<1>3. CASE Outcome(Top) # "success"
  BY <1>1, <1>3 DEF Entered
<1> QED
  BY <1>2, <1>3

\* Every call that returns leaves the others as they are.
LEMMA ReturnsKeep ==
    ASSUME ClientOK, ReturnOperation \/ ReturnUnobserve \/ ReturnObserve \/ ReturnReobserve
    PROVE  ClientOK'
<1>1. RequestsOK /\ MessagesOK /\ TypesOK
  BY DEF ClientOK
<1>2. /\ Depth > 0 /\ Top.quit
      /\ UNCHANGED <<link, observeData, connectTimer, value, toClient, serverVars, used, losses>>
  BY DEF ReturnOperation, ReturnUnobserve, ReturnObserve, ReturnReobserve, Returns
<1>3. PICK stack : stack = Front(calls)
  OBVIOUS
<1>4. Top \in Frames /\ IsStack(stack)
  BY <1>1, <1>2, <1>3, TopFacts
<1>5. ASSUME RequestsOK', nextFId' >= nextFId,
             query' \in [Conn -> Query], observeId' \in [Conn -> Int], UNCHANGED observable,
             observerInfo' \in PartialFn(Int, Entries)
      PROVE  ClientOK'
  BY <1>1, <1>2, <1>5, MessagesStay DEF ClientOK, RequestsOK, TypesOK, serverVars
<1>6. ASSUME Leave(stack) PROVE RequestsOK' /\ nextFId' >= nextFId
  <2>1. RequestsOK' /\ nextFId' = nextFId
    BY <1>1, <1>4, <1>6, LeaveFacts DEF Leave
  <2> QED
    BY <1>1, <2>1 DEF RequestsOK
<1>7. CASE ReturnOperation
  BY <1>1, <1>3, <1>5, <1>6, <1>7 DEF ReturnOperation, clientVars, connVars, TypesOK
<1>8. CASE ReturnUnobserve
  <2>1. observerInfo' \in PartialFn(Int, Entries)
    <3>1. observerInfo \in PartialFn(Int, Entries)
      BY <1>1 DEF TypesOK
    <3>2. Without(observerInfo, Top.n) \in PartialFn(Int, Entries)
      BY <3>1, WithoutFacts
    <3> QED
      BY <1>8, <3>1, <3>2 DEF ReturnUnobserve
  <2>2. RequestsOK' /\ nextFId' >= nextFId /\ query' \in [Conn -> Query]
    <3>1. CASE Top.q = None
      BY <1>1, <1>3, <1>6, <1>8, <3>1 DEF ReturnUnobserve, TypesOK
    <3>2. CASE Top.q # None
      <4>1. Top.q \in Query /\ Top.q \in Query \union {None} /\ Top.k \in Conn /\ "observe" \in Kind /\ -1 \in Int
        BY <1>4, <3>2 DEF Frames, Kind
      <4>2. query' \in [Conn -> Query]
        BY <1>1, <1>8, <3>2, <4>1 DEF ReturnUnobserve, TypesOK
      <4>3. Leave(stack) \/ Start(TRUE, stack, "observe", Top.k, Top.q, -1)
        BY <1>3, <1>8, <3>2 DEF ReturnUnobserve, ConnObserve
      <4>4. ASSUME Start(TRUE, stack, "observe", Top.k, Top.q, -1)
            PROVE  RequestsOK' /\ nextFId' = nextFId + 1
        <5>1. PICK n : n = -1
          OBVIOUS
        <5>2. Start(TRUE, stack, "observe", Top.k, Top.q, n) /\ n \in Int
          BY <4>1, <4>4, <5>1
        <5> QED
          BY <1>1, <1>4, <4>1, <5>2, StartFacts
      <4>5. nextFId \in Nat
        BY <1>1 DEF RequestsOK
      <4>6. RequestsOK' /\ nextFId' >= nextFId
        <5>1. CASE Leave(stack)
          BY <1>6, <5>1
        <5>2. CASE Start(TRUE, stack, "observe", Top.k, Top.q, -1)
          BY <4>4, <4>5, <5>2
        <5> QED
          BY <4>3, <5>1, <5>2
      <4> QED
        BY <4>2, <4>6
    <3> QED
      BY <3>1, <3>2
  <2>3. UNCHANGED <<observable, observeId>>
    BY <1>8 DEF ReturnUnobserve
  <2> QED
    BY <1>1, <1>5, <2>1, <2>2, <2>3 DEF TypesOK
<1>9. CASE ReturnObserve
  <2>1. observerInfo' \in PartialFn(Int, Entries)
    BY <1>9, EnteredKeeps DEF ReturnObserve
  <2>2. RequestsOK' /\ nextFId' >= nextFId
    BY <1>3, <1>6, <1>9 DEF ReturnObserve
  <2>3. Outcome(Top) = "success" => Top.reply.number \in Int
    BY <1>1, <1>2, TopFacts DEF Reply
  <2>4. observeId' \in [Conn -> Int]
    <3>1. PICK n : n = IF Outcome(Top) = "success" THEN Top.reply.number ELSE -1
      OBVIOUS
    <3>2. n \in Int /\ observeId' = [observeId EXCEPT ![Top.k] = n]
      BY <1>9, <2>3, <3>1 DEF ReturnObserve
    <3> QED
      BY <1>1, <3>2 DEF TypesOK
  <2> QED
    BY <1>1, <1>5, <1>9, <2>1, <2>2, <2>4 DEF ReturnObserve, TypesOK
<1>10. CASE ReturnReobserve
  <2>1. observerInfo' \in PartialFn(Int, Entries) /\ Top.n \in Int
    BY <1>4, <1>10, EnteredKeeps DEF ReturnReobserve, Frames
  <2>2. RequestsOK' /\ nextFId' >= nextFId
    <3>1. CASE Top.n \in DOMAIN observerInfo
      <4>1. PICK info : info = observerInfo'
        OBVIOUS
      <4>2. PICK up : up = link
        OBVIOUS
      <4>3. Reobserve(up, stack, info, NextInfo(info, Top.n))
        BY <1>3, <1>10, <3>1, <4>1, <4>2 DEF ReturnReobserve
      <4> QED
        BY <1>1, <1>4, <2>1, <4>1, <4>3, ReobserveKeeps
    <3>2. CASE Top.n \notin DOMAIN observerInfo
      <4>1. calls' = stack /\ UNCHANGED <<nextFId, toServer>>
        BY <1>3, <1>10, <3>2 DEF ReturnReobserve
      <4>2. RequestsOK' /\ nextFId' = nextFId
        BY <1>1, <1>4, <4>1, LeaveFacts
      <4> QED
        BY <1>1, <4>2 DEF RequestsOK
    <3> QED
      BY <3>1, <3>2
  <2>3. UNCHANGED <<query, observeId, observable>>
    BY <1>10 DEF ReturnReobserve, connVars
  <2> QED
    BY <1>1, <1>5, <2>1, <2>2, <2>3 DEF TypesOK
<1> QED
  BY <1>7, <1>8, <1>9, <1>10

\* What the server sends the observers are data.
LEMMA DataFacts ==
    ASSUME IsFiniteSet(DOMAIN served), NEW v
    PROVE  /\ AllData(v) \in Seq(Range(AllData(v)))
           /\ \A m \in Range(AllData(v)) : m.kind = "data"
<1> DEFINE N == Cardinality(DOMAIN served)
           D == AllData(v)
<1>1. N \in Nat
  BY FS_CardinalityType
<1>2. DOMAIN D = 1..N /\ D = [i \in 1..N |-> D[i]] /\ \A i \in 1..N : D[i].kind = "data"
  BY DEF AllData, Data
<1> HIDE DEF N, D
<1>3. D \in Seq(Range(D))
  <2>1. D \in [1..N -> Range(D)]
    BY <1>2 DEF Range
  <2> QED
    BY <1>1, <2>1, SeqDef
<1>4. \A m \in Range(D) : m.kind = "data"
  BY <1>2 DEF Range
<1> QED
  BY <1>3, <1>4 DEF D

\* One message, or two.
LEMMA FewMessages ==
    ASSUME NEW a, NEW b
    PROVE  /\ <<a>> \in Seq(Range(<<a>>)) /\ Range(<<a>>) = {a}
           /\ <<a, b>> \in Seq(Range(<<a, b>>)) /\ Range(<<a, b>>) = {a, b}
<1>1. DOMAIN <<a>> = {1} /\ <<a>>[1] = a /\ <<a>> \in Seq({a})
  OBVIOUS
<1>2. DOMAIN <<a, b>> = {1, 2} /\ <<a, b>>[1] = a /\ <<a, b>>[2] = b /\ <<a, b>> \in Seq({a, b})
  OBVIOUS
<1>3. Range(<<a>>) = {a}
  BY <1>1 DEF Range
<1>4. Range(<<a, b>>) = {a, b}
  BY <1>2 DEF Range
<1> QED
  BY <1>1, <1>2, <1>3, <1>4

\* Messages that follow others.
LEMMA MoreMessages ==
    ASSUME MessagesOK, nextFId' = nextFId, NEW s, s \in Seq(Range(s)),
           \A m \in Range(s) : MessageOK(m), toClient' = toClient \o s
    PROVE  MessagesOK'
<1>1. toClient' \in Seq(Range(toClient')) /\ Range(toClient') \subseteq Range(toClient) \union Range(s)
  BY JoinOwn DEF MessagesOK
<1> QED
  BY <1>1 DEF MessagesOK, MessageOK

\* The request the server takes.
LEMMA RequestFacts ==
    ASSUME RequestsOK, toServer # <<>>, toServer' = Tail(toServer), UNCHANGED <<nextFId, calls>>
    PROVE  RequestsOK' /\ toServer[1] \in Requests /\ RequestOK(toServer[1])
<1>1. /\ toServer[1] \in Requests /\ toServer[1] \in Range(toServer)
      /\ toServer' \in Seq(Requests) /\ Range(toServer') \subseteq Range(toServer)
  BY TailFacts DEF RequestsOK
<1> QED
  BY <1>1 DEF RequestsOK, StackOK, FrameOK, RequestOK

\* A reply carries the number of its request.
LEMMA ServeKeeps ==
    ASSUME ClientOK, Serve
    PROVE  ClientOK'
<1>1. RequestsOK /\ MessagesOK /\ TypesOK
  BY DEF ClientOK
<1>2. PICK m : m = toServer[1]
  OBVIOUS
<1>3. RequestsOK' /\ m \in Requests /\ RequestOK(m) /\ m = Head(toServer)
  BY <1>1, <1>2, RequestFacts DEF Serve
<1>4. PICK own : own \in BOOLEAN /\ own = (m.n = -1 \/ m.n \in taken \union DOMAIN served)
  OBVIOUS
<1>5. PICK n : n = IF own THEN nextNumber ELSE m.n
  OBVIOUS
<1>6. n \in Int /\ nextNumber \in Int /\ -1 \in Int
  BY <1>1, <1>3, <1>5 DEF TypesOK, Requests
<1> DEFINE Rep(x) == [kind |-> "reply", id |-> m.id, of |-> m.serial, number |-> x]
<1>7. ASSUME NEW x \in Int PROVE MessageOK(Rep(x))
  BY <1>3, <1>7 DEF MessageOK, Reply, RequestOK, Requests
<1>8. UNCHANGED <<query, observeId, observable, observerInfo, nextFId>>
  BY DEF Serve, connVars, clientVars
<1>9. CASE m.kind = "operation"
  <2>1. PICK a, D : a = Rep(-1) /\ D = AllData(version + 1)
    OBVIOUS
  <2>2. toClient' = toClient \o <<a>> \o D /\ UNCHANGED <<served, nextNumber>>
    BY <1>3, <1>9, <2>1 DEF Serve
  <2>3. /\ D \in Seq(Range(D)) /\ \A x \in Range(D) : MessageOK(x)
    BY <1>1, <2>1, DataFacts DEF TypesOK, MessageOK
  <2>4. <<a>> \in Seq(Range(<<a>>)) /\ \A x \in Range(<<a>>) : MessageOK(x)
    <3>1. MessageOK(a)
      BY <1>6, <1>7, <2>1
    <3>2. <<a>> \in Seq(Range(<<a>>)) /\ Range(<<a>>) = {a}
      BY FewMessages
    <3> QED
      BY <3>1, <3>2
  <2>5. <<a>> \o D \in Seq(Range(<<a>> \o D)) /\ \A x \in Range(<<a>> \o D) : MessageOK(x)
    BY <2>3, <2>4, JoinOwn
  <2>6. toClient' = toClient \o (<<a>> \o D)
    BY <1>1, <2>2, <2>3, <2>4, ConcatAssociative, JoinOwn DEF MessagesOK
  <2>7. MessagesOK'
    BY <1>1, <1>8, <2>5, <2>6, MoreMessages
  <2> QED
    BY <1>1, <1>3, <1>8, <2>2, <2>7 DEF ClientOK, TypesOK
<1>10. CASE m.kind = "unobserve"
  <2>1. PICK a : a = Rep(-1)
    OBVIOUS
  <2>2. toClient' = Append(toClient, a) /\ served' = Without(served, m.n) /\ nextNumber' = nextNumber
    BY <1>3, <1>10, <2>1 DEF Serve
  <2>3. toClient' = toClient \o <<a>>
    BY <1>1, <2>2, AppendIsConcat DEF MessagesOK
  <2>4. MessagesOK'
    <3>1. MessageOK(a)
      BY <1>6, <1>7, <2>1
    <3>2. <<a>> \in Seq(Range(<<a>>)) /\ Range(<<a>>) = {a}
      BY FewMessages
    <3>3. PICK t : t = <<a>>
      OBVIOUS
    <3>4. t \in Seq(Range(t)) /\ (\A x \in Range(t) : MessageOK(x)) /\ toClient' = toClient \o t
      BY <2>3, <3>1, <3>2, <3>3
    <3> QED
      BY <1>1, <1>8, <3>4, MoreMessages
  <2>5. DOMAIN served' = DOMAIN served \ {m.n}
    BY <2>2 DEF Without
  <2>6. IsFiniteSet(DOMAIN served')
    BY <1>1, <2>5, FS_Subset DEF TypesOK
  <2> QED
    BY <1>1, <1>3, <1>8, <2>2, <2>4, <2>6 DEF ClientOK, TypesOK
<1>11. CASE m.kind \notin {"operation", "unobserve"}
  <2>1. PICK a, b : a = Rep(n) /\ b = [kind |-> "data", number |-> n, q |-> m.q, version |-> version]
    OBVIOUS
  <2>2. /\ toClient' = toClient \o <<a, b>> /\ served' = With(served, n, m.q)
        /\ nextNumber' = IF own THEN nextNumber + 1 ELSE nextNumber
    BY <1>3, <1>4, <1>5, <1>11, <2>1 DEF Serve
  <2>3. MessageOK(a) /\ MessageOK(b)
    BY <1>6, <1>7, <2>1 DEF MessageOK
  <2>4. MessagesOK'
    <3>1. <<a, b>> \in Seq(Range(<<a, b>>)) /\ Range(<<a, b>>) = {a, b}
      BY FewMessages
    <3>2. PICK t : t = <<a, b>>
      OBVIOUS
    <3>3. t \in Seq(Range(t)) /\ (\A x \in Range(t) : MessageOK(x)) /\ toClient' = toClient \o t
      BY <2>2, <2>3, <3>1, <3>2
    <3> QED
      BY <1>1, <1>8, <3>3, MoreMessages
  <2>5. DOMAIN served' = DOMAIN served \union {n}
    BY <2>2 DEF With
  <2>6. IsFiniteSet(DOMAIN served')
    BY <1>1, <2>5, FS_AddElement DEF TypesOK
  <2> QED
    BY <1>1, <1>3, <1>6, <1>8, <2>2, <2>4, <2>6 DEF ClientOK, TypesOK
<1> QED
  BY <1>9, <1>10, <1>11

\* The rest takes a request or data away.
LEMMA TakersKeep ==
    ASSUME ClientOK, PutOff \/ ObserveDataProcess \/ UNCHANGED vars
    PROVE  ClientOK'
<1>1. RequestsOK /\ MessagesOK /\ TypesOK
  BY DEF ClientOK
<1>2. UNCHANGED <<nextFId, calls, toClient, observerInfo, query, observable, observeId, served, nextNumber>>
  BY DEF PutOff, ObserveDataProcess, vars, clientVars, connVars, serverVars
<1>3. MessagesOK' /\ TypesOK'
  BY <1>1, <1>2 DEF MessagesOK, MessageOK, TypesOK
<1>4. RequestsOK'
  <2>1. CASE PutOff
    BY <1>1, <1>2, <2>1, RequestFacts DEF PutOff
  <2>2. CASE toServer' = toServer
    BY <1>1, <1>2, <2>2 DEF RequestsOK, StackOK, FrameOK, RequestOK
  <2> QED
    BY <2>1, <2>2 DEF ObserveDataProcess, vars
<1> QED
  BY <1>3, <1>4 DEF ClientOK

\* The first state.
LEMMA ClientInit == Init => ClientOK
<1> SUFFICES ASSUME Init PROVE ClientOK
  OBVIOUS
<1>1. calls = <<>> /\ Len(calls) = 0 /\ nextFId = 1 /\ toServer = <<>> /\ toClient = <<>>
  BY DEF Init
<1>2. Range(toServer) = {} /\ Range(toClient) = {} /\ toClient \in Seq(Range(toClient))
  BY <1>1 DEF Range
<1>3. RequestsOK
  BY <1>1, <1>2 DEF RequestsOK, StackOK
<1>4. MessagesOK
  BY <1>2 DEF MessagesOK
<1>5. observerInfo \in PartialFn(Int, Entries)
  <2>1. observerInfo \in [{} -> Entries] /\ {} \in SUBSET Int
    BY DEF Init, Empty
  <2> QED
    BY <2>1, PartialFnIntro
<1>6. IsFiniteSet(DOMAIN served)
  BY FS_EmptySet DEF Init, Empty
<1>7. TypesOK
  BY <1>5, <1>6, ClientAssumption DEF Init, TypesOK
<1> QED
  BY <1>3, <1>4, <1>7 DEF ClientOK

\* Every step.
LEMMA ClientStep == ClientOK /\ [Next]_vars => ClientOK'
<1> SUFFICES ASSUME ClientOK, [Next]_vars PROVE ClientOK'
  OBVIOUS
<1>1. ASSUME NEW k \in Conn, Operate(k) \/ Watch(k) \/ Unwatch(k) \/ \E q \in Query : SetQuery(k, q)
      PROVE  ClientOK'
  BY <1>1, UsersKeep
<1> QED
  BY <1>1, ReceiveKeeps, LossesKeep, ConnectKeeps, ReturnsKeep, ServeKeeps, TakersKeep DEF Next

\* A call that succeeds has the reply to its own request, however many calls
\* nest in it, whatever times out, is cancelled or is answered late: requests
\* are numbered for the life of the client (newLinkObject), receive looks the
\* call up by that number, and sendAndWaitReply reports an error when the timer
\* ran out or the link was lost.
THEOREM RepliesOwn == Spec => []OwnReply
<1>1. Init => OwnReply
  BY DEF Init, OwnReply, Idle
<1>2. ClientOK /\ OwnReply /\ [Next]_vars => OwnReply'
  <2> SUFFICES ASSUME ClientOK, OwnReply, [Next]_vars PROVE OwnReply'
    OBVIOUS
  <2>1. CASE last' = Idle \/ UNCHANGED vars
    BY <2>1, NoneAssumption DEF OwnReply, Idle, vars
  <2>2. ASSUME NEW kind, Returns(kind) PROVE OwnReply'
    <3>1. last' = [r |-> Outcome(Top), serial |-> Top.serial,
                   of |-> IF Top.reply = None THEN 0 ELSE Top.reply.of]
      BY <2>2 DEF Returns
    <3>2. ASSUME Outcome(Top) = "success" PROVE Top.reply \in Reply /\ Top.reply.of = Top.serial
      BY <2>2, <3>2, TopFacts DEF Returns, ClientOK, FrameOK
    <3> QED
      BY <3>1, <3>2, NoneAssumption DEF OwnReply
  <2> QED
    BY <2>1, <2>2 DEF Next, Operate, Watch, Unwatch, SetQuery, Receive, ObserveDataProcess, Timeout,
       LinkLost, OnConnectTimer, ReturnOperation, ReturnUnobserve, ReturnObserve, ReturnReobserve,
       Serve, PutOff
<1> QED
  BY <1>1, <1>2, ClientInit, ClientStep, PTL DEF Spec

-----------------------------------------------------------------------------
(* The link and the entries a call uses are there.  Users make calls, and  *)
(* the connection is lost, inside operations only: inside the others the   *)
(* client really does crash (see the README).                              *)

Undisturbed == Inside \subseteq {"operation"} /\ LossInside \subseteq {"operation"}

OnlyOperations(stack) == \A n \in 1..Len(stack) : stack[n].kind = "operation"

\* A call starts while only operations wait.
LEMMA StartsIn ==
    ASSUME RequestsOK, ClientOK', crashed = FALSE, NEW stack, IsStack(stack), OnlyOperations(stack),
           NEW kind \in Kind, NEW k \in Conn, NEW q \in Query \union {None}, NEW n \in Int,
           Start(TRUE, stack, kind, k, q, n), link', connectTimer' => ~link',
           kind = "reobserve" => n \in DOMAIN observerInfo'
    PROVE  CallsOK'
<1>1. /\ crashed' = crashed /\ Len(calls') = Len(stack) + 1 /\ Len(stack) \in Nat
      /\ calls'[Len(stack) + 1] = Frame(nextFId, kind, k, q, n)
      /\ \A i \in 1..Len(stack) : calls'[i] = calls[i]
  BY StartFacts
<1>2. \A i \in 1..Len(stack) : stack[i] = calls[i]
  BY StackFacts
<1>3. calls'[Len(calls')].kind = kind /\ calls'[Len(calls')].n = n
  BY <1>1 DEF Frame
<1>4. \A i \in 1..(Len(calls') - 1) : calls'[i].kind = "operation"
  BY <1>1, <1>2 DEF OnlyOperations
<1> QED
  BY <1>1, <1>3, <1>4 DEF CallsOK, Depth, Top

\* No call starts.
LEMMA LeavesIn ==
    ASSUME RequestsOK, ClientOK', crashed = FALSE, NEW stack, IsStack(stack), OnlyOperations(stack),
           Leave(stack), connectTimer' => ~link'
    PROVE  CallsOK'
<1>1. Len(stack) \in Nat /\ calls' = stack /\ crashed' = FALSE
  BY StackFacts DEF Leave
<1>2. \A n \in 1..Len(calls') : calls'[n].kind = "operation"
  BY <1>1 DEF OnlyOperations
<1> QED
  BY <1>1, <1>2 DEF CallsOK, Depth, Top

\* The calls that wait stay the same but for what they know of the reply.
SameCalls ==
    /\ Len(calls') = Len(calls)
    /\ \A n \in 1..Len(calls) : calls'[n].kind = calls[n].kind /\ calls'[n].n = calls[n].n

\* A step that leaves the calls, the link and the observers as they are.
LEMMA SameIn ==
    ASSUME CallsOK, ClientOK', SameCalls, UNCHANGED <<link, connectTimer, crashed, observerInfo>>
    PROVE  CallsOK'
<1>1. Len(calls) \in Nat
  BY LenProperties DEF CallsOK, ClientOK, RequestsOK, StackOK
<1> QED
  BY <1>1 DEF CallsOK, SameCalls, Depth, Top

\* What users do.
LEMMA UsersIn ==
    ASSUME Undisturbed, CallsOK, ClientOK', NEW k \in Conn,
           Operate(k) \/ Watch(k) \/ Unwatch(k) \/ \E q \in Query : SetQuery(k, q)
    PROVE  CallsOK'
<1>1. /\ RequestsOK /\ IsStack(calls) /\ query[k] \in Query /\ observeId[k] \in Int
      /\ crashed = FALSE /\ (connectTimer => ~link)
  BY DEF IsStack, CallsOK, ClientOK, TypesOK
<1>2. OnlyOperations(calls) /\ UNCHANGED <<link, connectTimer>>
  BY DEF Operate, Watch, Unwatch, SetQuery, MayUse, Undisturbed, OnlyOperations, Depth, Rest
<1>3. ASSUME Leave(calls) PROVE CallsOK'
  BY <1>1, <1>2, <1>3, LeavesIn
<1>4. ASSUME link, NEW kind \in Kind \ {"reobserve"}, NEW q \in Query \union {None}, NEW n \in Int,
             Start(TRUE, calls, kind, k, q, n)
      PROVE  CallsOK'
  BY <1>1, <1>2, <1>4, StartsIn
<1>5. PICK none : none = -1
  OBVIOUS
<1>6. {"operation", "observe", "unobserve"} \subseteq Kind \ {"reobserve"} /\ none \in Int
  BY <1>5 DEF Kind
<1>7. CASE Operate(k)
  <2>1. Start(TRUE, calls, "operation", k, None, none) /\ link
    BY <1>5, <1>7 DEF Operate, Request, Valid, Start
  <2> QED
    BY <1>4, <1>6, <2>1
<1>8. CASE Watch(k)
  <2>1. Leave(calls) \/ (link /\ Start(TRUE, calls, "observe", k, query[k], none))
    BY <1>5, <1>8 DEF Watch, ConnObserve
  <2> QED
    BY <1>1, <1>3, <1>4, <1>6, <2>1
<1>9. CASE Unwatch(k)
  <2>1. Leave(calls) \/ (link /\ Start(TRUE, calls, "unobserve", k, None, observeId[k]))
    BY <1>9 DEF Unwatch
  <2> QED
    BY <1>1, <1>3, <1>4, <1>6, <2>1
<1>10. ASSUME NEW q \in Query, SetQuery(k, q) PROVE CallsOK'
  <2>1. Leave(calls) \/ (link /\ Start(TRUE, calls, "unobserve", k, q, observeId[k]))
    BY <1>10 DEF SetQuery
  <2> QED
    BY <1>1, <1>3, <1>4, <1>6, <2>1
<1> QED
  BY <1>7, <1>8, <1>9, <1>10

\* What happens inside the loops, and at the server.
LEMMA EventsIn ==
    ASSUME CallsOK, ClientOK',
           Receive \/ ObserveDataProcess \/ (\E n \in DOMAIN calls : Timeout(n)) \/ Serve \/ PutOff
           \/ UNCHANGED vars
    PROVE  CallsOK' /\ SameCalls
<1>1. UNCHANGED <<link, connectTimer, crashed, observerInfo>>
  BY DEF Receive, ObserveDataProcess, Timeout, Serve, PutOff, vars, clientVars
<1>2. SameCalls
  <2>1. calls \in Seq(Frames) /\ Len(calls) \in Nat /\ DOMAIN calls = 1..Len(calls)
    BY LenProperties DEF CallsOK, ClientOK, RequestsOK, StackOK
  <2>2. \A n \in DOMAIN calls : calls[n] \in Frames
    BY <2>1, ElementOfSeq
  <2>3. calls' \in Seq(Frames) /\ DOMAIN calls' = 1..Len(calls') /\ Len(calls') \in Nat
    BY LenProperties DEF CallsOK, ClientOK, RequestsOK, StackOK
  <2>4. CASE calls' = calls
    BY <2>4 DEF SameCalls
  <2>5. ASSUME Receive, calls' # calls PROVE SameCalls
    <3>1. PICK m : calls' = [n \in DOMAIN calls |-> IF calls[n].id = m.id THEN Quit(n, m)[n] ELSE calls[n]]
      BY <2>5 DEF Receive
    <3>2. \A n \in DOMAIN calls : calls'[n].kind = calls[n].kind /\ calls'[n].n = calls[n].n
      BY <2>2, <3>1 DEF Quit, Frames
    <3> QED
      BY <2>1, <2>3, <3>1, <3>2 DEF SameCalls
  <2>6. ASSUME NEW n \in DOMAIN calls, Timeout(n) PROVE SameCalls
    <3>1. calls' = [calls EXCEPT ![n].timer = FALSE, ![n].quit = TRUE]
      BY <2>6 DEF Timeout
    <3>2. \A i \in DOMAIN calls : calls'[i].kind = calls[i].kind /\ calls'[i].n = calls[i].n
      BY <2>2, <3>1 DEF Frames
    <3> QED
      BY <2>1, <2>3, <3>1, <3>2 DEF SameCalls
  <2> QED
    BY <2>4, <2>5, <2>6 DEF ObserveDataProcess, Serve, PutOff, vars
<1> QED
  BY <1>1, <1>2, SameIn

\* The connection is lost.
LEMMA LossIn ==
    ASSUME Undisturbed, CallsOK, ClientOK', LinkLost
    PROVE  CallsOK'
<1>1. RequestsOK /\ crashed' = FALSE /\ link' = FALSE
  BY DEF CallsOK, ClientOK, LinkLost
<1>2. Len(calls) \in Nat /\ DOMAIN calls = 1..Len(calls)
  BY <1>1, LenProperties DEF RequestsOK, StackOK
<1>3. \A n \in DOMAIN calls : calls'[n].kind = "operation"
  <2> SUFFICES ASSUME NEW n \in DOMAIN calls PROVE calls'[n].kind = "operation"
    OBVIOUS
  <2>1. calls[n] \in Frames /\ calls[n].kind = "operation"
    BY <1>1, <1>2, CallFacts DEF LinkLost, Undisturbed, Depth
  <2>2. calls'[n] = [calls[n] EXCEPT !.quit = TRUE, !.reply = Canceled]
    BY <2>1 DEF LinkLost, Quit, Frames
  <2> QED
    BY <2>1, <2>2 DEF Frames
<1>4. DOMAIN calls' = DOMAIN calls /\ DOMAIN calls' = 1..Len(calls') /\ Len(calls') \in Nat
  <2>1. DOMAIN calls' = DOMAIN calls
    BY DEF LinkLost
  <2>2. calls' \in Seq(Frames)
    BY DEF ClientOK, RequestsOK, StackOK
  <2> QED
    BY <2>1, <2>2, LenProperties
<1>5. \A n \in 1..Len(calls') : calls'[n].kind = "operation"
  BY <1>3, <1>4
<1> QED
  BY <1>1, <1>4, <1>5 DEF CallsOK, Depth, Top

\* The loop of onConnectTimer starts, or goes on.
LEMMA ReobserveIn ==
    ASSUME RequestsOK, ClientOK', crashed = FALSE, NEW stack, IsStack(stack), OnlyOperations(stack),
           NEW info \in PartialFn(Int, Entries), NEW n \in Int,
           Reobserve(TRUE, stack, info, NextInfo(info, n)), info = observerInfo',
           link', connectTimer' => ~link'
    PROVE  CallsOK'
<1>1. CASE NextInfo(info, n) = None
  BY <1>1, LeavesIn DEF Reobserve
<1>2. CASE NextInfo(info, n) # None
  <2>1. PICK m : m = NextInfo(info, n)
    OBVIOUS
  <2>2. m \in DOMAIN info /\ info[m] \in Entries /\ m \in Int
    BY <1>2, <2>1, NextFacts, PartialFnElim
  <2>3. info[m].k \in Conn /\ info[m].q \in Query \union {None} /\ "reobserve" \in Kind
    BY <2>2 DEF Entries, Kind
  <2>4. Start(TRUE, stack, "reobserve", info[m].k, info[m].q, m)
    BY <1>2, <2>1 DEF Reobserve
  <2> QED
    BY <2>2, <2>3, <2>4, StartsIn
<1> QED
  BY <1>1, <1>2

\* The timer finds the server again: the loop begins, or there is nothing to ask for.
LEMMA ConnectIn ==
    ASSUME CallsOK, ClientOK', OnConnectTimer
    PROVE  CallsOK'
<1>1. RequestsOK /\ crashed = FALSE /\ ~link /\ link' /\ ~connectTimer' /\ IsStack(calls)
  BY DEF CallsOK, ClientOK, OnConnectTimer, connectToServer, IsStack
<1>2. OnlyOperations(calls)
  BY <1>1 DEF CallsOK, OnlyOperations
<1>3. PICK info, stack, n : info = observerInfo /\ stack = calls /\ n = 0
  OBVIOUS
<1>4. Reobserve(TRUE, stack, info, NextInfo(info, n)) /\ info = observerInfo'
  BY <1>3 DEF OnConnectTimer, Reobserve, Leave, Start, NewFId
<1>5. info \in PartialFn(Int, Entries) /\ n \in Int /\ IsStack(stack) /\ OnlyOperations(stack)
  BY <1>1, <1>2, <1>3 DEF CallsOK, ClientOK, TypesOK
<1> QED
  BY <1>1, <1>4, <1>5, ReobserveIn

\* A call returns.
LEMMA ReturnsIn ==
    ASSUME CallsOK, ClientOK', ReturnOperation \/ ReturnUnobserve \/ ReturnObserve \/ ReturnReobserve
    PROVE  CallsOK'
<1>1. /\ RequestsOK /\ crashed = FALSE /\ UNCHANGED <<link, connectTimer>> /\ Depth > 0
      /\ (connectTimer => ~link)
  BY DEF CallsOK, ClientOK, ReturnOperation, ReturnUnobserve, ReturnObserve, ReturnReobserve, Returns
<1>2. PICK stack : stack = Front(calls)
  OBVIOUS
<1>3. Top \in Frames /\ IsStack(stack) /\ Len(stack) = Len(calls) - 1 /\ Len(calls) \in Nat
  BY <1>1, <1>2, TopFacts
<1>4. OnlyOperations(stack)
  BY <1>1, <1>3, StackFacts DEF CallsOK, OnlyOperations
<1>5. ASSUME Leave(stack) PROVE CallsOK'
  BY <1>1, <1>3, <1>4, <1>5, LeavesIn
<1>6. CASE ReturnOperation
  BY <1>2, <1>5, <1>6 DEF ReturnOperation
<1>7. CASE ReturnUnobserve
  <2>1. PICK none : none = -1
    OBVIOUS
  <2>2. Leave(stack) \/ (link /\ Top.q # None /\ Start(TRUE, stack, "observe", Top.k, Top.q, none))
    BY <1>2, <1>7, <2>1 DEF ReturnUnobserve, ConnObserve
  <2>3. "observe" \in Kind /\ Top.k \in Conn /\ Top.q \in Query \union {None} /\ none \in Int
    BY <1>3, <2>1 DEF Kind, Frames
  <2>4. ASSUME link, Start(TRUE, stack, "observe", Top.k, Top.q, none) PROVE CallsOK'
    BY <1>1, <1>3, <1>4, <2>3, <2>4, StartsIn
  <2> QED
    BY <1>5, <2>2, <2>4
<1>8. CASE ReturnObserve
  BY <1>2, <1>5, <1>8 DEF ReturnObserve
<1>9. CASE ReturnReobserve
  <2>1. link /\ Top.n \in DOMAIN observerInfo
    <3>1. Top.kind = "reobserve" /\ Depth \in 1..Len(calls)
      BY <1>1, <1>3, <1>9 DEF ReturnReobserve, Returns, Depth
    <3> QED
      BY <1>1, <3>1 DEF CallsOK, Top, Depth
  <2>2. PICK info : info = observerInfo'
    OBVIOUS
  <2>3. Reobserve(TRUE, stack, info, NextInfo(info, Top.n))
    BY <1>2, <1>9, <2>1, <2>2 DEF ReturnReobserve, Reobserve, Start
  <2>4. info \in PartialFn(Int, Entries) /\ Top.n \in Int
    BY <1>3, <2>2 DEF ClientOK, TypesOK, Frames
  <2> QED
    BY <1>1, <1>3, <1>4, <2>1, <2>2, <2>3, <2>4, ReobserveIn
<1> QED
  BY <1>6, <1>7, <1>8, <1>9

\* At first no call waits.
LEMMA CallsInit == Init => CallsOK
<1> SUFFICES ASSUME Init PROVE CallsOK
  OBVIOUS
<1>1. calls = <<>> /\ Len(calls) = 0 /\ link /\ ~connectTimer /\ crashed = FALSE
  BY DEF Init
<1> QED
  BY <1>1, ClientInit DEF CallsOK, Depth

\* Calls are in order after every step.
LEMMA CallsStep == Undisturbed /\ CallsOK /\ [Next]_vars => CallsOK'
<1> SUFFICES ASSUME Undisturbed, CallsOK, [Next]_vars PROVE CallsOK'
  OBVIOUS
<1>1. ClientOK'
  BY ClientStep DEF CallsOK
<1>2. ASSUME NEW k \in Conn, Operate(k) \/ Watch(k) \/ Unwatch(k) \/ \E q \in Query : SetQuery(k, q)
      PROVE  CallsOK'
  BY <1>1, <1>2, UsersIn
<1> QED
  BY <1>1, <1>2, EventsIn, LossIn, ConnectIn, ReturnsIn DEF Next

-----------------------------------------------------------------------------
(* One observer for each connector, when besides no call but an operation  *)
(* times out, connectors are used with a connection only and the server    *)
(* gives no other client the numbers of a lost connection.                 *)

Quiet == Undisturbed /\ SlowKinds \subseteq {"operation"} /\ Stolen = FALSE /\ Offline = FALSE

\* A call that starts is innermost, and nothing answers it yet.
LEMMA NewTop ==
    ASSUME ClientOK, NEW stack, IsStack(stack), NEW kind \in Kind, NEW k \in Conn,
           NEW q \in Query \union {None}, NEW n \in Int, Start(TRUE, stack, kind, k, q, n),
           toClient' = toClient
    PROVE  /\ Depth' > 0 /\ Top'.serial = nextFId /\ Top'.kind = kind /\ Top'.k = k /\ Top'.n = n
           /\ Top'.timer = TRUE /\ Top'.reply = None
           /\ Answers' = {}
           /\ \A m \in Range(toServer') : m.serial = nextFId => m.kind = kind /\ m.n = n
           /\ toServer = <<>> => /\ Len(toServer') = 1 /\ toServer'[1].serial = nextFId
                                 /\ toServer'[1].kind = kind /\ toServer'[1].n = n
<1>1. RequestsOK /\ MessagesOK
  BY DEF ClientOK
<1>2. PICK m : m = [serial |-> nextFId, id |-> nextFId, kind |-> kind, q |-> q, n |-> n]
  OBVIOUS
<1>3. /\ Len(calls') = Len(stack) + 1 /\ Len(stack) \in Nat
      /\ calls'[Len(stack) + 1] = Frame(nextFId, kind, k, q, n)
      /\ toServer' = Append(toServer, m)
  BY <1>1, <1>2, StartFacts
<1>4. /\ Depth' > 0 /\ Top'.serial = nextFId /\ Top'.kind = kind /\ Top'.k = k /\ Top'.n = n
      /\ Top'.timer = TRUE /\ Top'.reply = None
  BY <1>3 DEF Depth, Top, Frame
<1>5. nextFId \in Nat /\ toServer \in Seq(Requests) /\ \A x \in Range(toServer) : x.serial < nextFId
  BY <1>1 DEF RequestsOK, RequestOK
<1>6. Answers' = {}
  <2>1. \A x \in Range(toClient) : x \in Reply => x.of # nextFId
    BY <1>1, <1>5 DEF MessagesOK, MessageOK, Reply
  <2> QED
    BY <1>4, <2>1, NoneAssumption DEF Answers
<1>7. m \in Requests
  BY <1>2, <1>5 DEF Requests
<1>8. Range(toServer') \subseteq Range(toServer) \union {m}
  BY <1>3, <1>5, <1>7, AppendFacts
<1>9. ASSUME NEW x \in Range(toServer'), x.serial = nextFId PROVE x.kind = kind /\ x.n = n
  <2>1. x \notin Range(toServer)
    BY <1>5, <1>9
  <2> QED
    BY <1>2, <1>8, <2>1
<1>10. ASSUME toServer = <<>>
       PROVE  /\ Len(toServer') = 1 /\ toServer'[1].serial = nextFId
              /\ toServer'[1].kind = kind /\ toServer'[1].n = n
  BY <1>2, <1>3, <1>10
<1> QED
  BY <1>4, <1>6, <1>9, <1>10

\* Only operations wait.
LEMMA OutsideObserving ==
    ASSUME CallsOK', EntriesOK', ServerOK', OnlyOperations(calls')
    PROVE  ObserversOK'
<1>1. Len(calls') \in Nat
  BY LenProperties DEF CallsOK, ClientOK, RequestsOK, StackOK
<1>2. ~(Depth' > 0 /\ Top'.kind # "operation")
  BY <1>1 DEF OnlyOperations, Depth, Top
<1>3. InnerOK' /\ ObservingOK' /\ ReobservingOK'
  BY <1>2 DEF InnerOK, ObservingOK, ReobservingOK, Innermost
<1> QED
  BY <1>3 DEF ObserversOK

\* The server's part is left alone, but for requests while there is a link.
LEMMA ServerStays ==
    ASSUME ServerOK, UNCHANGED <<served, taken, nextNumber>>, link'
    PROVE  ServerOK'
BY DEF ServerOK

\* What users do.
LEMMA UsersObserve ==
    ASSUME Quiet, ObserversOK, CallsOK', NEW k \in Conn,
           Operate(k) \/ Watch(k) \/ Unwatch(k) \/ \E q \in Query : SetQuery(k, q)
    PROVE  ObserversOK'
<1>1. /\ ClientOK /\ RequestsOK /\ TypesOK /\ IsStack(calls) /\ query[k] \in Query /\ observeId[k] \in Int
      /\ observerInfo \in PartialFn(Int, Entries) /\ EntriesOK
  BY DEF IsStack, ObserversOK, CallsOK, ClientOK, TypesOK
<1>2. OnlyOperations(calls) /\ link /\ link' /\ UNCHANGED <<toClient, observerInfo, observeId, served, taken, nextNumber>>
  <2>1. MayUse /\ Rest /\ (link \/ Offline) /\ UNCHANGED observeId
    BY DEF Operate, Watch, Unwatch, SetQuery, Valid, connVars
  <2>2. OnlyOperations(calls)
    BY <2>1 DEF MayUse, Quiet, Undisturbed, OnlyOperations, Depth
  <2>3. link /\ UNCHANGED <<link, toClient, observerInfo, served, taken, nextNumber>>
    BY <2>1 DEF Rest, Quiet, serverVars
  <2> QED
    BY <2>1, <2>2, <2>3
<1>3. ServerOK'
  BY <1>2, ServerStays DEF ObserversOK
<1>4. \A n \in DOMAIN observerInfo : observable[observerInfo[n].k] /\ observerInfo[n].k \in Conn
  <2>1. ~Innermost("unobserve")
    BY <1>1, <1>2, LenProperties DEF OnlyOperations, Innermost, Depth, Top, RequestsOK, StackOK
  <2>2. \A n \in DOMAIN observerInfo : observerInfo[n] \in Entries
    BY <1>1, PartialFnElim
  <2> QED
    BY <1>1, <2>1, <2>2 DEF EntriesOK, Entries
<1>5. PICK none : none = -1
  OBVIOUS
<1>6. {"operation", "observe", "unobserve"} \subseteq Kind /\ none \in Int
  BY <1>5 DEF Kind
<1>7. CASE Operate(k)
  <2>1. Start(TRUE, calls, "operation", k, None, none)
    BY <1>2, <1>5, <1>7 DEF Operate, Request, Start
  <2>2. Top'.kind = "operation"
    BY <1>1, <1>2, <1>6, <2>1, NewTop
  <2>3. UNCHANGED observable
    BY <1>7 DEF Operate, connVars
  <2>4. EntriesOK'
    BY <1>1, <1>2, <1>4, <2>3 DEF EntriesOK
  <2>5. ObservingOK' /\ ReobservingOK' /\ InnerOK'
    BY <2>2 DEF ObservingOK, ReobservingOK, InnerOK, Innermost
  <2> QED
    BY <1>3, <2>4, <2>5 DEF ObserversOK
<1>8. CASE Watch(k)
  <2>1. Start(TRUE, calls, "observe", k, query[k], none) /\ ~observable[k]
    BY <1>2, <1>5, <1>8 DEF Watch, ConnObserve
  <2>2. query[k] \in Query \union {None}
    BY <1>1
  <2>3. /\ Depth' > 0 /\ Top'.serial = nextFId /\ Top'.kind = "observe" /\ Top'.k = k
        /\ Top'.timer = TRUE /\ Top'.reply = None /\ Answers' = {}
        /\ \A m \in Range(toServer') : m.serial = nextFId => m.kind = "observe" /\ m.n = none
    BY <1>1, <1>2, <1>6, <2>1, <2>2, NewTop
  <2>4. observable' = [observable EXCEPT ![k] = TRUE]
    BY <1>8 DEF Watch
  <2>5. EntriesOK'
    BY <1>1, <1>2, <1>4, <2>4 DEF EntriesOK, TypesOK
  <2>6. ObservingOK'
    BY <1>1, <1>2, <1>4, <1>5, <2>1, <2>3, <2>4 DEF ObservingOK, TypesOK
  <2>7. ReobservingOK' /\ InnerOK'
    BY <2>3, CanceledFacts DEF ReobservingOK, InnerOK, Innermost
  <2> QED
    BY <1>3, <2>5, <2>6, <2>7 DEF ObserversOK
<1>9. ASSUME NEW q \in Query \union {None}, Start(TRUE, calls, "unobserve", k, q, observeId[k]),
             UNCHANGED observable \/ observable' = [observable EXCEPT ![k] = FALSE]
      PROVE  ObserversOK'
  <2>1. /\ Depth' > 0 /\ Top'.kind = "unobserve" /\ Top'.k = k /\ Top'.n = observeId[k]
        /\ Top'.timer = TRUE /\ Top'.reply = None
    BY <1>1, <1>2, <1>6, <1>9, NewTop
  <2>2. EntriesOK'
    BY <1>1, <1>2, <1>4, <1>9, <2>1 DEF EntriesOK, TypesOK, Innermost
  <2>3. ObservingOK' /\ ReobservingOK' /\ InnerOK'
    BY <1>2, <2>1, CanceledFacts DEF ObservingOK, ReobservingOK, InnerOK, Innermost
  <2> QED
    BY <1>3, <2>2, <2>3 DEF ObserversOK
<1>10. CASE Unwatch(k)
  <2>1. /\ Start(TRUE, calls, "unobserve", k, None, observeId[k])
        /\ observable' = [observable EXCEPT ![k] = FALSE] /\ None \in Query \union {None}
    BY <1>2, <1>10 DEF Unwatch
  <2> QED
    BY <1>9, <2>1
<1>11. ASSUME NEW q \in Query, SetQuery(k, q) PROVE ObserversOK'
  <2>1. /\ Start(TRUE, calls, "unobserve", k, q, observeId[k]) /\ q \in Query \union {None}
        /\ UNCHANGED observable
    BY <1>2, <1>11 DEF SetQuery
  <2> QED
    BY <1>9, <2>1
<1> QED
  BY <1>7, <1>8, <1>10, <1>11

\* A reply comes, or data.
LEMMA ReceiveObserves ==
    ASSUME ObserversOK, CallsOK', SameCalls, Receive
    PROVE  ObserversOK'
<1>1. /\ RequestsOK /\ MessagesOK /\ toClient # <<>> /\ toClient \in Seq(Range(toClient))
      /\ Head(toClient) = toClient[1] /\ toClient' = Tail(toClient)
      /\ UNCHANGED <<link, observerInfo, observable, observeId, toServer, served, taken, nextNumber>>
  BY DEF ObserversOK, CallsOK, ClientOK, MessagesOK, Receive, clientVars, connVars, serverVars
<1>2. PICK m : m = Head(toClient)
  OBVIOUS
<1>3. m \in Range(toClient) /\ MessageOK(m) /\ Range(toClient') \subseteq Range(toClient)
  BY <1>1, <1>2, TailFacts DEF MessagesOK
<1>4. ServerOK'
  BY <1>1 DEF ObserversOK, ServerOK
<1>5. Len(calls) \in Nat /\ DOMAIN calls = 1..Len(calls) /\ Depth' = Depth
  BY <1>1, LenProperties DEF RequestsOK, StackOK, SameCalls, Depth
<1>6. CASE Depth = 0
  BY <1>1, <1>4, <1>5, <1>6
     DEF ObserversOK, EntriesOK, ObservingOK, ReobservingOK, InnerOK, Innermost
<1>7. CASE Depth > 0
  <2>1. Depth \in DOMAIN calls /\ Top \in Frames /\ FrameOK(Top)
    BY <1>1, <1>5, <1>7, CallFacts DEF Depth, Top
  <2>2. \/ Top' = Top
        \/ m \in Reply /\ m.of = Top.serial /\ Top' = [Top EXCEPT !.quit = TRUE, !.reply = m]
    <3>1. CASE calls' = calls
      BY <3>1 DEF Top, Depth
    <3>2. CASE m.kind # "data"
      <4>1. calls' = [n \in DOMAIN calls |-> IF calls[n].id = m.id THEN Quit(n, m)[n] ELSE calls[n]]
        BY <1>2, <3>2 DEF Receive
      <4>2. m \in Reply /\ m.id = m.of
        BY <1>3, <3>2 DEF MessageOK
      <4>3. Top' = IF Top.id = m.id THEN Quit(Depth, m)[Depth] ELSE Top
        BY <1>5, <2>1, <4>1 DEF Top
      <4>4. Quit(Depth, m)[Depth] = [Top EXCEPT !.quit = TRUE, !.reply = m]
        BY <2>1 DEF Quit, Top, Frames
      <4> QED
        BY <2>1, <4>2, <4>3, <4>4 DEF FrameOK
    <3> QED
      BY <1>2, <3>1, <3>2 DEF Receive
  <2>3. /\ Top'.serial = Top.serial /\ Top'.kind = Top.kind /\ Top'.k = Top.k /\ Top'.n = Top.n
        /\ Top'.timer = Top.timer /\ (Top.reply # Canceled => Top'.reply # Canceled)
    BY <2>1, <2>2, CanceledFacts DEF Frames
  <2>4. Answers' \subseteq Answers
    <3>1. CASE Top' = Top
      BY <1>3, <3>1 DEF Answers
    <3>2. CASE m \in Reply /\ m.of = Top.serial /\ Top' = [Top EXCEPT !.quit = TRUE, !.reply = m]
      <4>1. Top'.reply = m
        BY <2>1, <3>2 DEF Frames
      <4> QED
        BY <1>3, <2>3, <3>2, <4>1 DEF Answers
    <3> QED
      BY <2>2, <3>1, <3>2
  <2>5. EntriesOK' /\ InnerOK'
    BY <1>1, <1>5, <2>3 DEF ObserversOK, EntriesOK, InnerOK, Innermost
  <2>6. ObservingOK'
    BY <1>1, <1>5, <2>3, <2>4 DEF ObserversOK, ObservingOK, Innermost
  <2>7. ReobservingOK'
    BY <1>1, <1>5, <2>3, <2>4 DEF ObserversOK, ReobservingOK, Innermost
  <2> QED
    BY <1>4, <2>5, <2>6, <2>7 DEF ObserversOK
<1> QED
  BY <1>5, <1>6, <1>7 DEF Depth

\* The timer of an operation runs out.
LEMMA TimeoutObserves ==
    ASSUME Quiet, ObserversOK, CallsOK', SameCalls, NEW n \in DOMAIN calls, Timeout(n)
    PROVE  ObserversOK'
<1>1. /\ RequestsOK /\ calls[n].kind = "operation"
      /\ calls' = [calls EXCEPT ![n].timer = FALSE, ![n].quit = TRUE]
      /\ UNCHANGED <<link, observerInfo, observable, observeId, toServer, toClient, served, taken, nextNumber>>
  BY DEF ObserversOK, CallsOK, ClientOK, Timeout, Quiet, clientVars, connVars, serverVars
<1>2. ServerOK'
  BY <1>1 DEF ObserversOK, ServerOK
<1>3. Len(calls) \in Nat /\ DOMAIN calls = 1..Len(calls) /\ Depth' = Depth
  BY <1>1, LenProperties DEF RequestsOK, StackOK, SameCalls, Depth
<1>4. CASE Depth > 0 /\ Top.kind # "operation"
  <2>1. Top' = Top /\ Answers' = Answers
    BY <1>1, <1>3, <1>4 DEF Top, Depth, Answers
  <2> QED
    BY <1>1, <1>2, <1>3, <2>1
       DEF ObserversOK, EntriesOK, ObservingOK, ReobservingOK, InnerOK, Innermost
<1>5. CASE ~(Depth > 0 /\ Top.kind # "operation")
  <2>1. ~(Depth' > 0 /\ Top'.kind # "operation")
    BY <1>3, <1>5 DEF SameCalls, Top, Depth
  <2> QED
    BY <1>1, <1>2, <1>5, <2>1
       DEF ObserversOK, EntriesOK, ObservingOK, ReobservingOK, InnerOK, Innermost
<1> QED
  BY <1>4, <1>5

\* Data are handled, and nothing happens.
LEMMA DataObserve ==
    ASSUME ObserversOK, CallsOK', ObserveDataProcess \/ UNCHANGED vars
    PROVE  ObserversOK'
<1>1. UNCHANGED <<link, calls, observerInfo, observable, observeId, toServer, toClient, served, taken, nextNumber>>
  BY DEF ObserveDataProcess, vars, clientVars, connVars, serverVars
<1>2. Depth' = Depth /\ Top' = Top /\ Answers' = Answers
  BY <1>1 DEF Depth, Top, Answers
<1> QED
  BY <1>1, <1>2
     DEF ObserversOK, EntriesOK, ObservingOK, ReobservingOK, InnerOK, Innermost, ServerOK

\* The connection is lost, and the server forgets the observers.
LEMMA LossObserves ==
    ASSUME Quiet, ObserversOK, CallsOK', LinkLost
    PROVE  ObserversOK'
<1>1. /\ RequestsOK /\ link' = FALSE /\ taken' = taken /\ served' = Empty /\ toServer' = <<>>
      /\ UNCHANGED <<observerInfo, observable, observeId, nextNumber>>
  BY DEF ObserversOK, CallsOK, ClientOK, LinkLost, Quiet, connVars
<1>2. OnlyOperations(calls')
  BY <1>1 DEF CallsOK, OnlyOperations
<1>3. ServerOK'
  BY <1>1 DEF ObserversOK, ServerOK, Empty
<1>4. ~Innermost("unobserve")
  BY <1>1, LenProperties DEF LinkLost, Quiet, Undisturbed, Innermost, Top, Depth, RequestsOK, StackOK
<1>5. EntriesOK'
  BY <1>1, <1>4 DEF ObserversOK, EntriesOK
<1> QED
  BY <1>2, <1>3, <1>5, OutsideObserving

\* The call by which the loop of onConnectTimer asks for the next number.
LEMMA NextTop ==
    ASSUME ClientOK, NEW stack, IsStack(stack), NEW info \in PartialFn(Int, Entries), NEW n \in Int,
           NextInfo(info, n) # None, Reobserve(TRUE, stack, info, NextInfo(info, n)),
           toServer = <<>>, toClient' = toClient
    PROVE  /\ Depth' > 0 /\ Top'.kind = "reobserve"
           /\ Top'.n \in Int /\ Top'.n > n
           /\ Top'.timer = TRUE /\ Top'.reply = None /\ Answers' = {}
           /\ Len(toServer') = 1 /\ toServer'[1].serial = Top'.serial
           /\ toServer'[1].kind = "reobserve" /\ toServer'[1].n = Top'.n
<1>1. PICK m : m = NextInfo(info, n)
  OBVIOUS
<1>2. m \in DOMAIN info /\ info[m] \in Entries /\ m > n
  BY <1>1, NextFacts
<1>3. m \in Int
  BY <1>2, PartialFnElim
<1>4. PICK kind, k, q : kind = "reobserve" /\ k = info[m].k /\ q = info[m].q
  OBVIOUS
<1>5. kind \in Kind /\ k \in Conn /\ q \in Query \union {None}
  BY <1>2, <1>4 DEF Entries, Kind
<1>6. Start(TRUE, stack, kind, k, q, m)
  BY <1>1, <1>4 DEF Reobserve
<1>7. /\ Depth' > 0 /\ Top'.serial = nextFId /\ Top'.kind = kind /\ Top'.n = m
      /\ Top'.timer = TRUE /\ Top'.reply = None /\ Answers' = {}
  BY <1>3, <1>5, <1>6, NewTop
<1>8. /\ Len(toServer') = 1 /\ toServer'[1].serial = nextFId
      /\ toServer'[1].kind = kind /\ toServer'[1].n = m
  BY <1>3, <1>5, <1>6, NewTop
<1> QED
  BY <1>2, <1>3, <1>4, <1>7, <1>8

\* The server has only smaller numbers then.
LEMMA NextObserve ==
    ASSUME ClientOK, CallsOK', ServerOK', NEW stack, IsStack(stack), OnlyOperations(stack),
           NEW info \in PartialFn(Int, Entries), NEW n \in Int,
           Reobserve(TRUE, stack, info, NextInfo(info, n)), EntriesOK',
           toServer = <<>>, toClient' = toClient, served' = served,
           \A m \in DOMAIN served : m \in Int /\ m <= n
    PROVE  ObserversOK'
<1>1. CASE NextInfo(info, n) = None
  <2>1. calls' = stack
    BY <1>1 DEF Reobserve, Leave
  <2> QED
    BY <2>1, OutsideObserving
<1>2. CASE NextInfo(info, n) # None
  <2>1. /\ Depth' > 0 /\ Top'.kind = "reobserve" /\ Top'.n \in Int /\ Top'.n > n
        /\ Top'.timer = TRUE /\ Top'.reply = None /\ Answers' = {}
        /\ Len(toServer') = 1 /\ toServer'[1].serial = Top'.serial
        /\ toServer'[1].kind = "reobserve" /\ toServer'[1].n = Top'.n
    BY <1>2, NextTop
  <2>2. ReobservingOK'
    BY <2>1 DEF ReobservingOK
  <2>3. ObservingOK' /\ InnerOK'
    BY <2>1, CanceledFacts DEF ObservingOK, InnerOK, Innermost
  <2> QED
    BY <2>2, <2>3 DEF ObserversOK
<1> QED
  BY <1>1, <1>2

\* It starts when there is no observer of this client.
LEMMA ConnectObserves ==
    ASSUME ObserversOK, CallsOK', OnConnectTimer
    PROVE  ObserversOK'
<1>1. /\ ClientOK /\ ~link /\ link' /\ IsStack(calls) /\ EntriesOK /\ ServerOK
      /\ UNCHANGED <<observerInfo, observable, observeId, toClient, served, taken, nextNumber>>
  BY DEF ObserversOK, CallsOK, OnConnectTimer, connectToServer, IsStack, connVars, serverVars
<1>2. OnlyOperations(calls)
  BY <1>1 DEF ObserversOK, CallsOK, OnlyOperations
<1>3. ServerOK' /\ toServer = <<>> /\ DOMAIN served = {}
  BY <1>1 DEF ServerOK
<1>4. ~Innermost("unobserve")
  BY <1>1, <1>2, LenProperties DEF Innermost, OnlyOperations, Top, Depth, ClientOK, RequestsOK, StackOK
<1>5. PICK info, stack, n : info = observerInfo /\ stack = calls /\ n = 0
  OBVIOUS
<1>6. Reobserve(TRUE, stack, info, NextInfo(info, n))
  BY <1>1, <1>5 DEF OnConnectTimer, Reobserve, Leave, Start, NewFId
<1>7. info \in PartialFn(Int, Entries) /\ n \in Int /\ IsStack(stack) /\ OnlyOperations(stack) /\ EntriesOK'
  BY <1>1, <1>2, <1>4, <1>5 DEF ClientOK, TypesOK, EntriesOK
<1>8. \A m \in DOMAIN served : m \in Int /\ m <= n
  BY <1>3
<1> QED
  BY <1>1, <1>3, <1>6, <1>7, <1>8, NextObserve

\* A call returns: that of an operation, that which stops observing, and that
\* which observes.
LEMMA ReturnsObserve ==
    ASSUME Quiet, ObserversOK, CallsOK', ReturnOperation \/ ReturnUnobserve \/ ReturnObserve
    PROVE  ObserversOK'
<1>1. /\ ClientOK /\ RequestsOK /\ Depth > 0 /\ Top.quit /\ EntriesOK /\ ObservingOK /\ InnerOK /\ ServerOK
      /\ observerInfo \in PartialFn(Int, Entries) /\ observeId \in [Conn -> Int]
      /\ UNCHANGED <<link, toClient, served, taken, nextNumber, observable>>
  BY DEF ObserversOK, CallsOK, ClientOK, TypesOK, ReturnOperation, ReturnUnobserve, ReturnObserve,
         Returns, serverVars, connVars
<1>2. PICK stack : stack = Front(calls)
  OBVIOUS
<1>3. Top \in Frames /\ FrameOK(Top) /\ IsStack(stack) /\ Len(stack) = Len(calls) - 1 /\ Len(calls) \in Nat
  BY <1>1, <1>2, TopFacts
<1>4. OnlyOperations(stack)
  BY <1>1, <1>3, StackFacts DEF ObserversOK, CallsOK, OnlyOperations
<1>5. \A n \in DOMAIN observerInfo : observerInfo[n] \in Entries /\ observerInfo[n].k \in Conn
  <2>1. observerInfo \in [DOMAIN observerInfo -> Entries]
    BY <1>1, PartialFnElim
  <2> QED
    BY <2>1 DEF Entries
<1>6. Top.kind # "operation" => link /\ Outcome(Top) = "success" /\ Top.reply \in Reply
  <2> SUFFICES ASSUME Top.kind # "operation" PROVE link /\ Outcome(Top) = "success" /\ Top.reply \in Reply
    OBVIOUS
  <2>1. Top.timer /\ Top.reply # Canceled
    BY <1>1 DEF InnerOK
  <2>2. Top.reply \in Reply
    BY <1>1, <1>3, <2>1 DEF FrameOK, Frames
  <2>3. Top.reply.kind # "canceled"
    BY <2>2 DEF Reply
  <2>4. link
    BY <1>1, <1>3 DEF ObserversOK, CallsOK, Top, Depth
  <2> QED
    BY <2>1, <2>2, <2>3, <2>4 DEF Outcome
<1>7. ASSUME link, UNCHANGED link PROVE ServerOK'
  BY <1>1, <1>7, ServerStays
<1>8. CASE ReturnOperation
  <2>1. Leave(stack) /\ UNCHANGED <<observerInfo, observeId>> /\ Top.kind = "operation"
    BY <1>2, <1>8 DEF ReturnOperation, Returns, clientVars, connVars
  <2>2. OnlyOperations(calls')
    BY <1>4, <2>1 DEF Leave
  <2>3. EntriesOK'
    BY <1>1, <2>1 DEF EntriesOK, Innermost
  <2>4. ServerOK'
    BY <1>1, <2>1 DEF ServerOK, Leave
  <2> QED
    BY <2>2, <2>3, <2>4, OutsideObserving
<1>9. CASE ReturnUnobserve
  <2>1. /\ Top.kind = "unobserve" /\ observerInfo' = Without(observerInfo, Top.n) /\ UNCHANGED observeId
        /\ Top.n = observeId[Top.k]
    BY <1>1, <1>6, <1>9 DEF ReturnUnobserve, Returns, InnerOK, Innermost
  <2>2. /\ DOMAIN observerInfo' = DOMAIN observerInfo \ {Top.n}
        /\ \A n \in DOMAIN observerInfo' : observerInfo'[n] = observerInfo[n]
    BY <1>1, <2>1 DEF Without
  <2>3. \A n \in DOMAIN observerInfo' : /\ n > 0 /\ observeId'[observerInfo'[n].k] = n
                                        /\ observable'[observerInfo'[n].k] /\ observerInfo'[n].k # Top.k
    BY <1>1, <1>5, <2>1, <2>2 DEF EntriesOK, Innermost
  <2>4. EntriesOK' /\ ServerOK'
    BY <1>1, <1>6, <1>7, <2>1, <2>3 DEF EntriesOK
  <2>5. CASE Leave(stack)
    <3>1. OnlyOperations(calls')
      BY <1>4, <2>5 DEF Leave
    <3> QED
      BY <2>4, <3>1, OutsideObserving
  <2>6. CASE ~Leave(stack)
    <3>1. PICK none : none = -1
      OBVIOUS
    <3>2. PICK k, q, kind : k = Top.k /\ q = Top.q /\ kind = "observe"
      OBVIOUS
    <3>3. observable[k] /\ Start(TRUE, stack, kind, k, q, none)
      BY <1>2, <1>9, <2>6, <3>1, <3>2 DEF ReturnUnobserve, ConnObserve
    <3>4. kind \in Kind /\ k \in Conn /\ q \in Query \union {None} /\ none \in Int
      BY <1>3, <3>1, <3>2 DEF Kind, Frames
    <3>5. /\ Depth' > 0 /\ Top'.serial = nextFId /\ Top'.kind = kind /\ Top'.k = k
          /\ Top'.timer = TRUE /\ Top'.reply = None /\ Answers' = {}
          /\ \A m \in Range(toServer') : m.serial = nextFId => m.kind = kind /\ m.n = none
      BY <1>1, <1>3, <3>3, <3>4, NewTop
    <3>6. ObservingOK'
      BY <1>1, <2>3, <3>1, <3>2, <3>3, <3>5 DEF ObservingOK
    <3>7. ReobservingOK' /\ InnerOK'
      BY <3>2, <3>5, CanceledFacts DEF ReobservingOK, InnerOK, Innermost
    <3> QED
      BY <2>4, <3>6, <3>7 DEF ObserversOK
  <2> QED
    BY <2>5, <2>6
<1>10. CASE ReturnObserve
  <2>1. PICK n : n = Top.reply.number
    OBVIOUS
  <2>2. PICK e : e = [k |-> Top.k, q |-> Top.q]
    OBVIOUS
  <2>3. /\ Top.kind = "observe" /\ Leave(stack) /\ observeId' = [observeId EXCEPT ![Top.k] = n]
        /\ observerInfo' = IF n \in DOMAIN observerInfo THEN observerInfo ELSE With(observerInfo, n, e)
    BY <1>2, <1>6, <1>10, <2>1, <2>2 DEF ReturnObserve, Returns, Entered
  <2>4. n > 0 /\ observable[Top.k] /\ \A i \in DOMAIN observerInfo : observerInfo[i].k # Top.k
    BY <1>1, <1>6, <2>1, <2>3 DEF ObservingOK, Innermost, Answers
  <2>5. \A i \in DOMAIN observerInfo : /\ i > 0 /\ observeId'[observerInfo[i].k] = i
                                       /\ observable[observerInfo[i].k]
    BY <1>1, <1>5, <2>3, <2>4 DEF EntriesOK, Innermost
  <2>6. EntriesOK'
    <3>1. CASE n \in DOMAIN observerInfo
      BY <1>1, <2>3, <2>5, <3>1 DEF EntriesOK
    <3>2. CASE n \notin DOMAIN observerInfo
      <4>1. /\ DOMAIN observerInfo' = DOMAIN observerInfo \union {n} /\ observerInfo'[n] = e
            /\ \A i \in DOMAIN observerInfo : observerInfo'[i] = observerInfo[i]
        BY <2>3, <3>2 DEF With
      <4>2. e.k = Top.k /\ Top.k \in Conn /\ observeId'[Top.k] = n
        BY <1>1, <1>3, <2>2, <2>3 DEF Frames
      <4> QED
        BY <1>1, <2>4, <2>5, <4>1, <4>2 DEF EntriesOK
    <3> QED
      BY <3>1, <3>2
  <2>7. OnlyOperations(calls')
    BY <1>4, <2>3 DEF Leave
  <2>8. ServerOK'
    BY <1>1, <1>6, <1>7, <2>3
  <2> QED
    BY <2>6, <2>7, <2>8, OutsideObserving
<1> QED
  BY <1>8, <1>9, <1>10

\* The loop of onConnectTimer has the number it asked for, and goes on.
LEMMA LoopObserves ==
    ASSUME ObserversOK, CallsOK', ReturnReobserve
    PROVE  ObserversOK'
<1>1. /\ ClientOK /\ RequestsOK /\ Depth > 0 /\ Top.quit /\ Top.kind = "reobserve"
      /\ EntriesOK /\ ReobservingOK /\ InnerOK /\ ServerOK
      /\ observerInfo \in PartialFn(Int, Entries)
      /\ UNCHANGED <<link, toClient, served, taken, nextNumber, observable, observeId>>
  BY DEF ObserversOK, CallsOK, ClientOK, TypesOK, ReturnReobserve, Returns, serverVars, connVars
<1>2. PICK stack : stack = Front(calls)
  OBVIOUS
<1>3. Top \in Frames /\ FrameOK(Top) /\ IsStack(stack) /\ Len(stack) = Len(calls) - 1 /\ Len(calls) \in Nat
  BY <1>1, <1>2, TopFacts
<1>4. OnlyOperations(stack)
  BY <1>1, <1>3, StackFacts DEF ObserversOK, CallsOK, OnlyOperations
<1>5. Outcome(Top) = "success" /\ Top.reply \in Reply /\ Top.reply \in Answers
  <2>1. Top.timer /\ Top.reply # Canceled
    BY <1>1 DEF InnerOK
  <2>2. Top.reply \in Reply
    BY <1>1, <1>3, <2>1 DEF FrameOK, Frames
  <2>3. Top.reply.kind # "canceled"
    BY <2>2 DEF Reply
  <2> QED
    BY <2>1, <2>2, <2>3 DEF Outcome, Answers
<1>6. link /\ Top.n \in DOMAIN observerInfo
  BY <1>1, <1>3 DEF ObserversOK, CallsOK, Top, Depth
<1>7. /\ Top.reply.number = Top.n /\ toServer = <<>> /\ \A m \in DOMAIN served : m <= Top.n
  BY <1>1, <1>5 DEF ReobservingOK, Innermost
<1>8. observerInfo' = observerInfo
  BY <1>5, <1>6, <1>7 DEF ReturnReobserve, Entered
<1>9. EntriesOK'
  BY <1>1, <1>8 DEF EntriesOK, Innermost
<1>10. ServerOK'
  BY <1>1, <1>6, ServerStays
<1>11. PICK info, n : info = observerInfo /\ n = Top.n
  OBVIOUS
<1>12. Reobserve(TRUE, stack, info, NextInfo(info, n))
  BY <1>2, <1>6, <1>8, <1>11 DEF ReturnReobserve, Reobserve, Start, Leave, NewFId
<1>13. /\ info \in PartialFn(Int, Entries) /\ n \in Int /\ \A m \in DOMAIN served : m \in Int /\ m <= n
  BY <1>1, <1>3, <1>7, <1>11 DEF Frames, ServerOK
<1> QED
  BY <1>1, <1>3, <1>4, <1>7, <1>9, <1>10, <1>12, <1>13, NextObserve

\* What the server sends besides the reply to the innermost call answers nothing.
LEMMA OtherMessages ==
    ASSUME NEW S, NEW T, Range(toClient') \subseteq Range(toClient) \union S \union T,
           \A m \in S : m.kind = "data",
           \A m \in T : m \in Reply => m.of # Top.serial,
           Top' = Top
    PROVE  Answers' \subseteq Answers
BY DEF Answers, Reply

\* The server takes a request and answers.
LEMMA ServeObserves ==
    ASSUME ObserversOK, CallsOK', Serve
    PROVE  ObserversOK'
<1>1. /\ ClientOK /\ RequestsOK /\ MessagesOK /\ TypesOK /\ toServer # <<>> /\ toServer' = Tail(toServer)
      /\ EntriesOK /\ ObservingOK /\ ReobservingOK /\ InnerOK /\ ServerOK
      /\ UNCHANGED <<link, calls, observerInfo, observable, observeId>>
  BY DEF ObserversOK, CallsOK, ClientOK, Serve, clientVars, connVars
<1>2. Depth' = Depth /\ Top' = Top
  BY <1>1 DEF Depth, Top
<1>3. EntriesOK' /\ InnerOK'
  BY <1>1, <1>2 DEF EntriesOK, InnerOK, Innermost
<1>4. PICK m : m = toServer[1]
  OBVIOUS
<1>5. /\ m \in Requests /\ m \in Range(toServer) /\ m = Head(toServer) /\ Len(toServer') = Len(toServer) - 1
      /\ Range(toServer') \subseteq Range(toServer)
  BY <1>1, <1>4, TailFacts DEF RequestsOK
<1>6. link /\ taken = {} /\ nextNumber > 0 /\ \A x \in DOMAIN served : x \in Int
  BY <1>1 DEF ServerOK
<1>7. PICK own : own \in BOOLEAN /\ own = (m.n = -1 \/ m.n \in taken \union DOMAIN served)
  OBVIOUS
<1>8. PICK n : n = IF own THEN nextNumber ELSE m.n
  OBVIOUS
<1>9. n \in Int /\ nextNumber \in Int /\ m.n \in Int
  BY <1>1, <1>5, <1>8 DEF TypesOK, Requests
<1>10. Innermost("reobserve") =>
        /\ Len(toServer) = 1 /\ m.serial = Top.serial /\ m.kind = "reobserve" /\ m.n = Top.n
        /\ Top.n \notin DOMAIN served /\ Answers = {}
  BY <1>1, <1>4 DEF ReobservingOK
<1>11. Innermost("observe") /\ m.serial = Top.serial => m.kind = "observe" /\ m.n = -1
  BY <1>1, <1>5 DEF ObservingOK
<1>12. CASE m.kind = "operation" \/ m.kind = "unobserve"
  <2>1. taken' = {} /\ nextNumber' = nextNumber /\ DOMAIN served' \subseteq DOMAIN served
    BY <1>5, <1>6, <1>12 DEF Serve, Without
  <2>2. ServerOK'
    BY <1>1, <1>6, <2>1 DEF ServerOK
  <2>3. PICK a, D : /\ a = [kind |-> "reply", id |-> m.id, of |-> m.serial, number |-> -1]
                    /\ D = IF m.kind = "operation" THEN AllData(version + 1) ELSE <<>>
    OBVIOUS
  <2>4. Range(toClient') \subseteq Range(toClient) \union Range(D) \union {a}
    <3>1. toClient \in Seq(Range(toClient))
      BY <1>1 DEF MessagesOK
    <3>2. <<a>> \in Seq(Range(<<a>>)) /\ Range(<<a>>) = {a}
      BY FewMessages
    <3>3. toClient \o <<a>> \in Seq(Range(toClient \o <<a>>)) /\ Range(toClient \o <<a>>) \subseteq Range(toClient) \union {a}
      BY <3>1, <3>2, JoinOwn
    <3>4. CASE m.kind = "operation"
      <4>1. D \in Seq(Range(D)) /\ toClient' = (toClient \o <<a>>) \o D
        BY <1>1, <1>5, <2>3, <3>4, DataFacts DEF Serve, TypesOK
      <4> QED
        BY <3>3, <4>1, JoinOwn
    <3>5. CASE m.kind = "unobserve"
      <4>1. toClient' = Append(toClient, a)
        BY <1>5, <2>3, <3>5 DEF Serve
      <4>2. toClient' = toClient \o <<a>>
        BY <3>1, <4>1, AppendIsConcat
      <4> QED
        BY <3>3, <4>2
    <3> QED
      BY <1>12, <3>4, <3>5
  <2>5. \A x \in Range(D) : x.kind = "data"
    <3>1. Range(<<>>) = {}
      BY DEF Range
    <3> QED
      BY <1>1, <2>3, <3>1, DataFacts DEF TypesOK
  <2>6. ASSUME Innermost("observe") PROVE Answers' \subseteq Answers
    <3>1. \A x \in {a} : x \in Reply => x.of # Top.serial
      BY <1>11, <1>12, <2>3, <2>6
    <3> QED
      BY <1>2, <2>4, <2>5, <3>1, OtherMessages
  <2>7. ObservingOK'
    BY <1>1, <1>2, <1>5, <2>6 DEF ObservingOK, Innermost
  <2>8. ReobservingOK'
    BY <1>2, <1>10, <1>12 DEF ReobservingOK, Innermost
  <2> QED
    BY <1>3, <2>2, <2>7, <2>8 DEF ObserversOK
<1>13. CASE m.kind \notin {"operation", "unobserve"}
  <2>1. PICK a, b : /\ a = [kind |-> "reply", id |-> m.id, of |-> m.serial, number |-> n]
                    /\ b = [kind |-> "data", number |-> n, q |-> m.q, version |-> version]
    OBVIOUS
  <2>2. /\ toClient' = toClient \o <<a, b>> /\ served' = With(served, n, m.q) /\ taken' = taken
        /\ nextNumber' = IF own THEN nextNumber + 1 ELSE nextNumber
    BY <1>5, <1>7, <1>8, <1>13, <2>1 DEF Serve
  <2>3. DOMAIN served' = DOMAIN served \union {n}
    BY <2>2 DEF With
  <2>4. ServerOK'
    BY <1>1, <1>6, <1>9, <2>2, <2>3 DEF ServerOK
  <2>5. Range(toClient') \subseteq Range(toClient) \union {b} \union {a}
    <3>1. PICK t : t = <<a, b>>
      OBVIOUS
    <3>2. t \in Seq(Range(t)) /\ Range(t) = {a, b} /\ toClient' = toClient \o t
      BY <2>2, <3>1, FewMessages
    <3>3. Range(toClient \o t) \subseteq Range(toClient) \union Range(t)
      BY <1>1, <3>2, JoinOwn DEF MessagesOK
    <3> QED
      BY <3>2, <3>3
  <2>6. \A x \in Answers' : x \in Answers \/ (x = a /\ m.serial = Top.serial)
    <3>1. b \notin Reply
      BY <2>1 DEF Reply
    <3> QED
      BY <1>2, <2>1, <2>5, <3>1 DEF Answers
  <2>7. ObservingOK'
    <3>1. Innermost("observe") /\ m.serial = Top.serial => a.number > 0
      BY <1>6, <1>7, <1>8, <1>11, <2>1
    <3>2. Innermost("observe") => \A x \in Answers' : x.number > 0
      BY <1>1, <2>6, <3>1 DEF ObservingOK
    <3> QED
      BY <1>1, <1>2, <1>5, <3>2 DEF ObservingOK, Innermost
  <2>8. ReobservingOK'
    <3> SUFFICES ASSUME Innermost("reobserve")
                 PROVE  /\ \A x \in DOMAIN served' : x <= Top.n
                        /\ toServer' = <<>> /\ \A x \in Answers' : x.number = Top.n
      BY <1>2 DEF ReobservingOK, Innermost
    <3>1. Top.n # -1
      <4>1. Top.n \in DOMAIN observerInfo
        BY DEF ObserversOK, CallsOK, Innermost
      <4> QED
        BY <1>1, <4>1 DEF EntriesOK
    <3>2. n = Top.n
      BY <1>6, <1>7, <1>8, <1>10, <3>1
    <3>3. \A x \in DOMAIN served' : x <= Top.n
      BY <1>1, <1>9, <2>3, <3>2 DEF ReobservingOK
    <3>4. toServer' = <<>>
      <4>1. toServer' \in Seq(Requests) /\ Len(toServer') = 0
        BY <1>1, <1>5, <1>10, TailFacts DEF RequestsOK
      <4> QED
        BY <4>1, EmptySeq
    <3>5. \A x \in Answers' : x.number = Top.n
      BY <1>10, <2>1, <2>6, <3>2
    <3> QED
      BY <3>3, <3>4, <3>5
  <2> QED
    BY <1>3, <2>4, <2>7, <2>8 DEF ObserversOK
<1> QED
  BY <1>12, <1>13

\* The server puts an operation off.
LEMMA PutOffObserves ==
    ASSUME ObserversOK, CallsOK', PutOff
    PROVE  ObserversOK'
<1>1. /\ RequestsOK /\ toServer # <<>> /\ toServer' = Tail(toServer) /\ Head(toServer).kind = "operation"
      /\ UNCHANGED <<link, calls, observerInfo, observable, observeId, toClient, served, taken, nextNumber>>
  BY DEF ObserversOK, CallsOK, ClientOK, PutOff, clientVars, connVars, serverVars
<1>2. Depth' = Depth /\ Top' = Top /\ Answers' = Answers
  BY <1>1 DEF Depth, Top, Answers
<1>3. Range(toServer') \subseteq Range(toServer) /\ toServer[1].kind = "operation"
  BY <1>1, TailFacts DEF RequestsOK
<1>4. EntriesOK' /\ InnerOK' /\ ServerOK'
  BY <1>1, <1>2 DEF ObserversOK, EntriesOK, InnerOK, Innermost, ServerOK
<1>5. ObservingOK'
  BY <1>1, <1>2, <1>3 DEF ObserversOK, ObservingOK, Innermost
<1>6. ReobservingOK'
  BY <1>1, <1>2, <1>3 DEF ObserversOK, ReobservingOK, Innermost
<1> QED
  BY <1>4, <1>5, <1>6 DEF ObserversOK

\* At first nobody observes.
LEMMA ObserversInit == Init => ObserversOK
<1> SUFFICES ASSUME Init PROVE ObserversOK
  OBVIOUS
<1>1. CallsOK /\ calls = <<>> /\ Len(calls) = 0 /\ Depth = 0
  BY CallsInit DEF Init, Depth
<1>2. EntriesOK /\ ServerOK
  BY DEF Init, EntriesOK, ServerOK, Empty
<1>3. ObservingOK /\ ReobservingOK /\ InnerOK
  BY <1>1 DEF ObservingOK, ReobservingOK, InnerOK, Innermost
<1> QED
  BY <1>1, <1>2, <1>3 DEF ObserversOK

\* The observers are in order after every step.
LEMMA ObserversStep == Quiet /\ ObserversOK /\ [Next]_vars => ObserversOK'
<1> SUFFICES ASSUME Quiet, ObserversOK, [Next]_vars PROVE ObserversOK'
  OBVIOUS
<1>1. CallsOK /\ CallsOK' /\ ClientOK'
  BY CallsStep, ClientStep DEF ObserversOK, CallsOK, Quiet
<1>2. ASSUME NEW k \in Conn, Operate(k) \/ Watch(k) \/ Unwatch(k) \/ \E q \in Query : SetQuery(k, q)
      PROVE  ObserversOK'
  BY <1>1, <1>2, UsersObserve
<1>3. CASE Receive
  BY <1>1, <1>3, EventsIn, ReceiveObserves
<1>4. ASSUME NEW n \in DOMAIN calls, Timeout(n) PROVE ObserversOK'
  BY <1>1, <1>4, EventsIn, TimeoutObserves
<1> QED
  BY <1>1, <1>2, <1>3, <1>4, DataObserve, LossObserves, ConnectObserves, ReturnsObserve, LoopObserves,
     ServeObserves, PutOffObserves DEF Next

\* observerInfo has no two entries of one connector, so that a connection made
\* again does not ask the server for a connector twice: observe enters the
\* number of its reply, unobserve takes it out again and the loop of
\* onConnectTimer gets the numbers it asks for, through changes of queries and
\* lost connections, as long as nothing else comes between these calls and their
\* replies.
THEOREM OneEntryEach == ASSUME Quiet PROVE Spec => []OneObserverEach
<1>1. ObserversOK => OneObserverEach
  BY DEF ObserversOK, EntriesOK, OneObserverEach
<1>2. ObserversOK /\ [Next]_vars => ObserversOK'
  BY ObserversStep
<1> QED
  BY <1>1, <1>2, ObserversInit, PTL DEF Spec

-----------------------------------------------------------------------------
(* The records of who observes what agree.                                 *)

\* The innermost call observes, observes again or stops observing.
Apart == Depth > 0 /\ Top.kind # "operation"

\* The entries the server has been asked for on this connection, besides that of
\* the innermost call, and the queries they are for.
Asked == {n \in DOMAIN observerInfo : link /\ (Innermost("reobserve") => n < Top.n)}
Told == [n \in Asked |-> observerInfo[n].q]

\* An entry has the query of its connector, and a connector that is observed has
\* an entry or is about to get it.
WantedOK ==
    /\ \A n \in DOMAIN observerInfo : observerInfo[n].q = query[observerInfo[n].k]
    /\ \A k \in Conn : observable[k] => \/ \E n \in DOMAIN observerInfo : observerInfo[n].k = k
                                        \/ Innermost("observe") /\ Top.k = k

\* No two connectors have had the same number, and the server's next one is new.
NumbersOK ==
    /\ \A k \in Conn : observeId[k] < nextNumber
    /\ \A j, k \in Conn : observeId[j] = observeId[k] => j = k \/ observeId[k] = -1
    /\ Innermost("observe") => \A m \in Answers :
           m.number < nextNumber /\ \A k \in Conn : observeId[k] # m.number

\* A request that is no operation is the last one and that of the innermost call,
\* which has no answer yet.
PendingOK ==
    \A i \in 1..Len(toServer) :
        \/ toServer[i].kind = "operation" /\ (Apart => toServer[i].serial # Top.serial)
        \/ /\ Apart /\ i = Len(toServer) /\ Answers = {}
           /\ toServer[i].kind = Top.kind /\ toServer[i].serial = Top.serial
           /\ toServer[i].n = Top.n /\ toServer[i].q = Top.q

\* What the innermost call is about is what its connector or entry says.
AboutOK ==
    /\ Innermost("observe") => Top.q = query[Top.k] /\ Top.n = -1
    /\ Innermost("unobserve") /\ Top.q = None => ~observable[Top.k]
    /\ Innermost("reobserve") => observerInfo[Top.n] = [k |-> Top.k, q |-> Top.q]

\* The subscribers and the server's observers are what was asked for; the server's
\* have changed already when the innermost call is answered.
BooksOK ==
    /\ subs = [n \in Asked |-> observerInfo[n].k]
    /\ ~Apart \/ Answers = {} => served = Told
    /\ Apart => \A m \in Answers :
           served = IF Top.kind = "unobserve" THEN Without(Told, Top.n) ELSE With(Told, m.number, Top.q)

AgreeOK == ObserversOK /\ WantedOK /\ NumbersOK /\ PendingOK /\ AboutOK /\ BooksOK

\* Nothing but operations is on its way.
Clear == \A i \in 1..Len(toServer) : toServer[i].kind = "operation"

\* While only operations wait, and when a call that observes or the like has its
\* answer, only operations are on their way.
LEMMA ClearFacts ==
    ASSUME PendingOK, ~Apart \/ Answers # {}
    PROVE  Clear
BY DEF PendingOK, Clear

\* A call that starts is then the only one of its kind on its way.
LEMMA StartsPending ==
    ASSUME ClientOK, NEW stack, IsStack(stack), NEW kind \in Kind, NEW k \in Conn,
           NEW q \in Query \union {None}, NEW n \in Int, Start(TRUE, stack, kind, k, q, n),
           toClient' = toClient, Clear
    PROVE  /\ Depth' > 0 /\ Top'.kind = kind /\ Top'.k = k /\ Top'.q = q /\ Top'.n = n
           /\ Answers' = {} /\ PendingOK'
<1>1. RequestsOK
  BY DEF ClientOK
<1>2. PICK m : m = [serial |-> nextFId, id |-> nextFId, kind |-> kind, q |-> q, n |-> n]
  OBVIOUS
<1>3. /\ Len(calls') = Len(stack) + 1 /\ Len(stack) \in Nat
      /\ calls'[Len(stack) + 1] = Frame(nextFId, kind, k, q, n)
      /\ toServer' = Append(toServer, m)
  BY <1>1, <1>2, StartFacts
<1>4. /\ Depth' > 0 /\ Top'.serial = nextFId /\ Top'.kind = kind /\ Top'.k = k /\ Top'.q = q /\ Top'.n = n
  BY <1>3 DEF Depth, Top, Frame
<1>5. Answers' = {}
  BY NewTop
<1>6. nextFId \in Nat /\ m \in Requests /\ toServer \in Seq(Requests) /\ Len(toServer) \in Nat
  BY <1>1, <1>2, LenProperties DEF RequestsOK, Requests
<1>7. /\ Len(toServer') = Len(toServer) + 1 /\ toServer'[Len(toServer) + 1] = m
      /\ \A i \in 1..Len(toServer) : toServer'[i] = toServer[i]
  BY <1>3, <1>6, AppendAt
<1>8. \A i \in 1..Len(toServer) : toServer[i].serial < nextFId /\ toServer[i].serial \in Nat
  <2> SUFFICES ASSUME NEW i \in 1..Len(toServer)
               PROVE  toServer[i].serial < nextFId /\ toServer[i].serial \in Nat
    OBVIOUS
  <2>1. toServer[i] \in Requests
    BY <1>6, ElementOfSeq
  <2>2. toServer[i] \in Range(toServer)
    BY <1>6, LenProperties DEF Range
  <2>3. RequestOK(toServer[i])
    BY <1>1, <2>2 DEF RequestsOK
  <2> QED
    BY <2>1, <2>3 DEF RequestOK, Requests
<1>9. ASSUME NEW i \in 1..Len(toServer')
      PROVE  \/ toServer'[i].kind = "operation" /\ (Apart' => toServer'[i].serial # Top'.serial)
             \/ /\ Apart' /\ i = Len(toServer') /\ Answers' = {}
                /\ toServer'[i].kind = Top'.kind /\ toServer'[i].serial = Top'.serial
                /\ toServer'[i].n = Top'.n /\ toServer'[i].q = Top'.q
  <2>1. CASE i \in 1..Len(toServer)
    <3>1. toServer'[i] = toServer[i] /\ toServer[i].serial < nextFId /\ toServer[i].serial \in Nat
      BY <1>7, <1>8, <2>1
    <3>2. toServer[i].serial # nextFId /\ toServer[i].kind = "operation"
      BY <1>6, <2>1, <3>1 DEF Clear
    <3> QED
      BY <1>4, <3>1, <3>2
  <2>2. CASE i = Len(toServer) + 1
    <3>1. toServer'[i] = m /\ i = Len(toServer')
      BY <1>7, <2>2
    <3>2. m.kind = kind /\ m.serial = nextFId /\ m.n = n /\ m.q = q
      BY <1>2
    <3>3. CASE kind = "operation"
      BY <1>4, <3>1, <3>2, <3>3 DEF Apart
    <3>4. CASE kind # "operation"
      BY <1>4, <1>5, <3>1, <3>2, <3>4 DEF Apart
    <3> QED
      BY <3>3, <3>4
  <2> QED
    BY <1>6, <1>7, <2>1, <2>2
<1> QED
  BY <1>4, <1>5, <1>9 DEF PendingOK

\* Only operations wait, and nothing else is on its way.
LEMMA OutsideAgrees ==
    ASSUME ObserversOK', WantedOK', OnlyOperations(calls'), Clear',
           \A k \in Conn : observeId'[k] < nextNumber',
           \A j, k \in Conn : observeId'[j] = observeId'[k] => j = k \/ observeId'[k] = -1,
           link' => /\ subs' = [n \in DOMAIN observerInfo' |-> observerInfo'[n].k]
                    /\ served' = [n \in DOMAIN observerInfo' |-> observerInfo'[n].q],
           ~link' => subs' = Empty /\ served' = Empty
    PROVE  AgreeOK'
<1>1. Len(calls') \in Nat
  BY LenProperties DEF ObserversOK, CallsOK, ClientOK, RequestsOK, StackOK
<1>2. ~Apart' /\ \A kind : Innermost(kind)' => kind = "operation"
  BY <1>1 DEF OnlyOperations, Apart, Innermost, Depth, Top
<1>3. NumbersOK' /\ AboutOK'
  BY <1>2 DEF NumbersOK, AboutOK
<1>4. PendingOK'
  BY <1>2 DEF PendingOK, Clear
<1>5. Asked' = IF link' THEN DOMAIN observerInfo' ELSE {}
  BY <1>2 DEF Asked
<1>6. BooksOK'
  <2>1. CASE link'
    BY <1>2, <1>5, <2>1 DEF BooksOK, Told
  <2>2. CASE ~link'
    BY <1>2, <1>5, <2>2 DEF BooksOK, Told, Empty
  <2> QED
    BY <2>1, <2>2
<1> QED
  BY <1>3, <1>4, <1>6 DEF AgreeOK

\* A sequence has what its head and its tail have.
LEMMA HeadAndTail ==
    ASSUME NEW S, NEW s \in Seq(S), s # <<>>
    PROVE  Range(s) \subseteq Range(Tail(s)) \union {s[1]}
<1>1. /\ Len(s) \in Nat /\ Len(s) > 0 /\ DOMAIN s = 1..Len(s)
      /\ Tail(s) \in Seq(S) /\ Len(Tail(s)) = Len(s) - 1
  BY LenProperties, EmptySeq, TailFacts
<1>2. DOMAIN Tail(s) = 1..(Len(s) - 1) /\ \A i \in 1..(Len(s) - 1) : Tail(s)[i] = s[i + 1]
  BY <1>1, LenProperties, HeadTailProperties
<1> SUFFICES ASSUME NEW i \in 1..Len(s), s[i] # s[1] PROVE s[i] \in Range(Tail(s))
  BY <1>1 DEF Range
<1>3. i - 1 \in 1..(Len(s) - 1) /\ Tail(s)[i - 1] = s[i]
  BY <1>1, <1>2
<1> QED
  BY <1>2, <1>3 DEF Range

\* What users do: only operations wait before it.
LEMMA UsersAgree ==
    ASSUME Quiet, AgreeOK, ObserversOK', NEW k \in Conn,
           Operate(k) \/ Watch(k) \/ Unwatch(k) \/ \E q \in Query : SetQuery(k, q)
    PROVE  AgreeOK'
<1>1. /\ ClientOK /\ RequestsOK /\ TypesOK /\ IsStack(calls) /\ query[k] \in Query /\ observeId[k] \in Int
      /\ observerInfo \in PartialFn(Int, Entries)
  BY DEF IsStack, AgreeOK, ObserversOK, CallsOK, ClientOK, TypesOK
<1>2. /\ MayUse /\ link /\ link' /\ query' = query
      /\ UNCHANGED <<toClient, observerInfo, observeId, subs, served, nextNumber>>
  <2>1. MayUse /\ Rest /\ (link \/ Offline) /\ UNCHANGED observeId
    BY DEF Operate, Watch, Unwatch, SetQuery, Valid, connVars
  <2>2. link /\ link' /\ UNCHANGED <<toClient, observerInfo, subs, served, nextNumber>>
    BY <2>1 DEF Rest, Quiet, serverVars
  <2>3. query' = query
    BY <2>2 DEF Operate, Watch, Unwatch, SetQuery, connVars
  <2> QED
    BY <2>1, <2>2, <2>3
<1>3. ~Apart
  <2>1. \A n \in 1..Len(calls) : calls[n].kind = "operation"
    BY <1>2 DEF MayUse, Quiet, Undisturbed, Depth
  <2> QED
    BY <1>1, <2>1, LenProperties DEF Apart, Depth, Top, RequestsOK, StackOK
<1>4. Clear /\ \A kind : Innermost(kind) => kind = "operation"
  BY <1>3, ClearFacts DEF AgreeOK, Apart, Innermost
<1>5. /\ subs = [n \in DOMAIN observerInfo |-> observerInfo[n].k]
      /\ served = [n \in DOMAIN observerInfo |-> observerInfo[n].q]
      /\ \A j \in Conn : observable[j] => \E n \in DOMAIN observerInfo : observerInfo[n].k = j
      /\ \A n \in DOMAIN observerInfo : observerInfo[n].q = query[observerInfo[n].k]
  <2>1. Asked = DOMAIN observerInfo
    BY <1>2, <1>4 DEF Asked
  <2> QED
    BY <1>3, <1>4, <2>1 DEF AgreeOK, BooksOK, Told, WantedOK
<1>6. PICK none : none = -1
  OBVIOUS
<1>7. {"operation", "observe", "unobserve"} \subseteq Kind /\ none \in Int
  BY <1>6 DEF Kind
<1>8. ASSUME NEW kind \in {"operation", "observe", "unobserve"}, NEW q \in Query \union {None},
             NEW n \in Int, Start(TRUE, calls, kind, k, q, n),
             kind = "observe" => q = query[k] /\ n = -1,
             kind = "unobserve" /\ q = None => ~observable'[k],
             \A j \in Conn : observable'[j] => observable[j] \/ (kind = "observe" /\ j = k)
      PROVE  AgreeOK'
  <2>1. /\ Depth' > 0 /\ Top'.kind = kind /\ Top'.k = k /\ Top'.q = q /\ Top'.n = n
        /\ Answers' = {} /\ PendingOK'
    BY <1>1, <1>2, <1>4, <1>7, <1>8, StartsPending
  <2>2. Asked' = DOMAIN observerInfo
    BY <1>2, <2>1 DEF Asked, Innermost
  <2>3. BooksOK'
    BY <1>2, <1>5, <2>1, <2>2 DEF BooksOK, Told
  <2>4. NumbersOK'
    BY <1>2, <2>1 DEF AgreeOK, NumbersOK
  <2>5. AboutOK'
    BY <1>2, <1>8, <2>1 DEF AboutOK, Innermost
  <2>6. WantedOK'
    BY <1>2, <1>5, <1>8, <2>1 DEF WantedOK, Innermost
  <2> QED
    BY <2>1, <2>3, <2>4, <2>5, <2>6 DEF AgreeOK
<1>9. CASE Operate(k)
  <2>1. Start(TRUE, calls, "operation", k, None, none) /\ UNCHANGED observable
    BY <1>2, <1>6, <1>9 DEF Operate, Request, Start, connVars
  <2> QED
    BY <1>7, <1>8, <2>1
<1>10. CASE Watch(k)
  <2>1. Start(TRUE, calls, "observe", k, query[k], none) /\ observable' = [observable EXCEPT ![k] = TRUE]
    BY <1>2, <1>6, <1>10 DEF Watch, ConnObserve
  <2>2. \A j \in Conn : observable'[j] => observable[j] \/ j = k
    BY <1>1, <2>1 DEF TypesOK
  <2>3. PICK q : q = query[k]
    OBVIOUS
  <2>4. q \in Query \union {None} /\ Start(TRUE, calls, "observe", k, q, none)
    BY <1>1, <2>1, <2>3
  <2> QED
    BY <1>6, <1>7, <1>8, <2>2, <2>3, <2>4
<1>11. CASE Unwatch(k)
  <2>1. Start(TRUE, calls, "unobserve", k, None, observeId[k]) /\ observable' = [observable EXCEPT ![k] = FALSE]
    BY <1>2, <1>11 DEF Unwatch
  <2>2. \A j \in Conn : observable'[j] => observable[j] /\ j # k
    BY <1>1, <2>1 DEF TypesOK
  <2> QED
    BY <1>1, <1>8, <2>1, <2>2
<1>12. ASSUME NEW q \in Query, SetQuery(k, q) PROVE AgreeOK'
  <2>1. Start(TRUE, calls, "unobserve", k, q, observeId[k]) /\ UNCHANGED observable
    BY <1>2, <1>12 DEF SetQuery
  <2>2. q # None /\ q \in Query \union {None}
    BY NoneAssumption
  <2> QED
    BY <1>1, <1>8, <2>1, <2>2
<1> QED
  BY <1>9, <1>10, <1>11, <1>12

\* The innermost call and its answers are as before, or it has got one of them.
LEMMA SameAgrees ==
    ASSUME AgreeOK, ObserversOK', Depth' = Depth, Depth > 0 => /\ Top'.kind = Top.kind /\ Top'.k = Top.k
                                                               /\ Top'.q = Top.q /\ Top'.n = Top.n,
           Apart => Top'.serial = Top.serial /\ Answers' \subseteq Answers /\ (Answers' = {} => Answers = {}),
           UNCHANGED <<link, observerInfo, subs, query, observable, observeId, nextNumber, served, toServer>>
    PROVE  AgreeOK'
<1>1. Apart' = Apart /\ \A kind : Innermost(kind)' = Innermost(kind)
  BY DEF Apart, Innermost
<1>2. Asked' = Asked
  BY <1>1 DEF Asked, Innermost
<1>3. Told' = Told
  BY <1>2 DEF Told
<1>4. WantedOK'
  BY <1>1 DEF AgreeOK, WantedOK, Innermost
<1>5. NumbersOK'
  BY <1>1 DEF AgreeOK, NumbersOK, Innermost, Apart
<1>6. AboutOK'
  BY <1>1 DEF AgreeOK, AboutOK, Innermost
<1>7. PendingOK'
  BY <1>1 DEF AgreeOK, PendingOK, Apart
<1>8. BooksOK'
  <2>1. subs' = [n \in Asked' |-> observerInfo'[n].k]
    BY <1>2 DEF AgreeOK, BooksOK
  <2>2. CASE Apart
    BY <1>1, <1>3, <2>1, <2>2 DEF AgreeOK, BooksOK, Apart
  <2>3. CASE ~Apart
    BY <1>1, <1>3, <2>1, <2>3 DEF AgreeOK, BooksOK
  <2> QED
    BY <2>2, <2>3
<1> QED
  BY <1>4, <1>5, <1>6, <1>7, <1>8 DEF AgreeOK

\* A reply comes, or data.
LEMMA ReceiveAgrees ==
    ASSUME AgreeOK, ObserversOK', SameCalls, Receive
    PROVE  AgreeOK'
<1>1. /\ RequestsOK /\ MessagesOK /\ toClient # <<>> /\ toClient \in Seq(Range(toClient))
      /\ Head(toClient) = toClient[1] /\ toClient' = Tail(toClient)
      /\ UNCHANGED <<link, observerInfo, subs, query, observable, observeId, nextNumber, served, toServer>>
  BY DEF AgreeOK, ObserversOK, CallsOK, ClientOK, MessagesOK, Receive, clientVars, connVars, serverVars
<1>2. PICK m : m = Head(toClient)
  OBVIOUS
<1>3. /\ m \in Range(toClient) /\ MessageOK(m) /\ Range(toClient') \subseteq Range(toClient)
      /\ Range(toClient) \subseteq Range(toClient') \union {m}
  <2>1. Range(toClient) \subseteq Range(Tail(toClient)) \union {m}
    BY <1>1, <1>2, HeadAndTail
  <2> QED
    BY <1>1, <1>2, <2>1, TailFacts DEF MessagesOK
<1>4. Len(calls) \in Nat /\ DOMAIN calls = 1..Len(calls) /\ Depth' = Depth
  BY <1>1, LenProperties DEF RequestsOK, StackOK, SameCalls, Depth
<1>5. CASE Depth = 0
  BY <1>1, <1>4, <1>5, SameAgrees DEF Apart
<1>6. CASE Depth > 0
  <2>1. Depth \in DOMAIN calls /\ Top \in Frames /\ FrameOK(Top)
    BY <1>1, <1>4, <1>6, CallFacts DEF Depth, Top
  <2>2. \/ Top' = Top /\ ~(m \in Reply /\ m.of = Top.serial)
        \/ m \in Reply /\ m.of = Top.serial /\ Top' = [Top EXCEPT !.quit = TRUE, !.reply = m]
    <3>1. CASE m.kind = "data"
      <4>1. calls' = calls
        BY <1>2, <3>1 DEF Receive
      <4> QED
        BY <3>1, <4>1 DEF Top, Depth, Reply
    <3>2. CASE m.kind # "data"
      <4>1. calls' = [n \in DOMAIN calls |-> IF calls[n].id = m.id THEN Quit(n, m)[n] ELSE calls[n]]
        BY <1>2, <3>2 DEF Receive
      <4>2. m \in Reply /\ m.id = m.of
        BY <1>3, <3>2 DEF MessageOK
      <4>3. Top' = IF Top.id = m.id THEN Quit(Depth, m)[Depth] ELSE Top
        BY <1>4, <2>1, <4>1 DEF Top
      <4>4. Quit(Depth, m)[Depth] = [Top EXCEPT !.quit = TRUE, !.reply = m]
        BY <2>1 DEF Quit, Top, Frames
      <4> QED
        BY <2>1, <4>2, <4>3, <4>4 DEF FrameOK
    <3> QED
      BY <3>1, <3>2
  <2>3. /\ Top'.kind = Top.kind /\ Top'.k = Top.k /\ Top'.q = Top.q /\ Top'.n = Top.n
        /\ Top'.serial = Top.serial
    BY <2>1, <2>2 DEF Frames
  <2>4. CASE Top' = Top /\ ~(m \in Reply /\ m.of = Top.serial)
    <3>1. Answers' = Answers
      BY <1>3, <2>4 DEF Answers
    <3> QED
      BY <1>1, <1>4, <2>3, <3>1, SameAgrees
  <2>5. CASE m \in Reply /\ m.of = Top.serial /\ Top' = [Top EXCEPT !.quit = TRUE, !.reply = m]
    <3>1. Top'.reply = m
      BY <2>1, <2>5 DEF Frames
    <3>2. m \in Answers' /\ Answers' \subseteq Answers
      BY <1>3, <2>3, <2>5, <3>1 DEF Answers
    <3> QED
      BY <1>1, <1>4, <2>3, <3>2, SameAgrees
  <2> QED
    BY <2>2, <2>4, <2>5
<1> QED
  BY <1>4, <1>5, <1>6 DEF Depth

\* A set of integers above one of them has a least element.
LEMMA LeastInt ==
    ASSUME NEW S \in SUBSET Int, NEW n \in Int, {x \in S : x > n} # {}
    PROVE  Min({x \in S : x > n}) \in Int
<1> DEFINE rest == {x \in S : x > n}
           above == {x - n : x \in rest}
<1>1. above \in SUBSET Nat /\ above # {}
  <2>1. \A x \in rest : x - n \in Nat
    OBVIOUS
  <2>2. PICK y \in rest : TRUE
    OBVIOUS
  <2> QED
    BY <2>1, <2>2
<1>2. PICK x \in above : \A y \in above : x <= y
  <2> HIDE DEF above
  <2> QED
    BY <1>1, LeastExists
<1>3. PICK m \in rest : x = m - n
  BY <1>2
<1>4. \A y \in rest : y - n \in above /\ y \in Int
  OBVIOUS
<1>5. \A y \in rest : m <= y
  BY <1>2, <1>3, <1>4
<1>6. Min(rest) \in rest
  BY <1>3, <1>5 DEF Min
<1> QED
  BY <1>4, <1>6

\* The timer of an operation runs out.
LEMMA TimeoutAgrees ==
    ASSUME Quiet, AgreeOK, ObserversOK', SameCalls, NEW n \in DOMAIN calls, Timeout(n)
    PROVE  AgreeOK'
<1>1. /\ RequestsOK /\ calls[n].kind = "operation"
      /\ calls' = [calls EXCEPT ![n].timer = FALSE, ![n].quit = TRUE]
      /\ UNCHANGED <<link, observerInfo, subs, query, observable, observeId, nextNumber, served, toServer, toClient>>
  BY DEF AgreeOK, ObserversOK, CallsOK, ClientOK, Timeout, Quiet, clientVars, connVars, serverVars
<1>2. Len(calls) \in Nat /\ DOMAIN calls = 1..Len(calls) /\ Depth' = Depth
  BY <1>1, LenProperties DEF RequestsOK, StackOK, SameCalls, Depth
<1>3. ASSUME Depth > 0
      PROVE  /\ Top'.kind = Top.kind /\ Top'.k = Top.k /\ Top'.q = Top.q /\ Top'.n = Top.n
             /\ Apart => Top' = Top
  <2>1. Depth \in DOMAIN calls /\ Top \in Frames
    BY <1>1, <1>2, <1>3, CallFacts DEF Depth, Top
  <2>2. Top' = IF n = Depth THEN [Top EXCEPT !.timer = FALSE, !.quit = TRUE] ELSE Top
    BY <1>1, <1>2, <2>1 DEF Top, Frames
  <2>3. CASE n = Depth
    <3>1. Top.kind = "operation"
      BY <1>1, <2>3 DEF Top
    <3>2. Top' = [Top EXCEPT !.timer = FALSE, !.quit = TRUE]
      BY <2>2, <2>3
    <3> QED
      BY <2>1, <3>1, <3>2 DEF Frames, Apart
  <2>4. CASE n # Depth
    BY <2>2, <2>4
  <2> QED
    BY <2>3, <2>4
<1>4. Apart => Top'.serial = Top.serial /\ Answers' = Answers
  BY <1>1, <1>3 DEF Apart, Answers
<1> QED
  BY <1>1, <1>2, <1>3, <1>4, SameAgrees

\* Data are handled, and nothing happens.
LEMMA DataAgree ==
    ASSUME AgreeOK, ObserversOK', ObserveDataProcess \/ UNCHANGED vars
    PROVE  AgreeOK'
<1>1. UNCHANGED <<link, calls, observerInfo, subs, query, observable, observeId, nextNumber, served, toServer, toClient>>
  BY DEF ObserveDataProcess, vars, clientVars, connVars, serverVars
<1>2. Depth' = Depth /\ Top' = Top /\ Answers' = Answers
  BY <1>1 DEF Depth, Top, Answers
<1> QED
  BY <1>1, <1>2, SameAgrees

\* The connection is lost.
LEMMA LossAgrees ==
    ASSUME Quiet, AgreeOK, ObserversOK', LinkLost
    PROVE  AgreeOK'
<1>1. /\ RequestsOK /\ link' = FALSE /\ served' = Empty /\ subs' = Empty /\ toServer' = <<>>
      /\ UNCHANGED <<observerInfo, query, observable, observeId, nextNumber>>
  BY DEF AgreeOK, ObserversOK, CallsOK, ClientOK, LinkLost, connVars
<1>2. OnlyOperations(calls')
  BY <1>1 DEF ObserversOK, CallsOK, OnlyOperations
<1>3. ~Innermost("observe")
  BY <1>1, LenProperties DEF LinkLost, Quiet, Undisturbed, Innermost, Top, Depth, RequestsOK, StackOK
<1>4. WantedOK'
  BY <1>1, <1>3 DEF AgreeOK, WantedOK
<1>5. Clear'
  BY <1>1 DEF Clear
<1>6. /\ \A k \in Conn : observeId'[k] < nextNumber'
      /\ \A j, k \in Conn : observeId'[j] = observeId'[k] => j = k \/ observeId'[k] = -1
  BY <1>1 DEF AgreeOK, NumbersOK
<1> QED
  BY <1>1, <1>2, <1>4, <1>5, <1>6, OutsideAgrees

\* The loop of onConnectTimer asks for the entry behind number n, or ends.
LEMMA NextAgrees ==
    ASSUME ClientOK, ObserversOK', NEW stack, IsStack(stack), OnlyOperations(stack), link', Clear,
           NEW info \in PartialFn(Int, Entries), info = observerInfo', NEW n \in Int,
           Reobserve(TRUE, stack, info, NextInfo(info, n)),
           \A i \in DOMAIN info : info[i].q = query'[info[i].k],
           \A k \in Conn : observable'[k] => \E i \in DOMAIN info : info[i].k = k,
           \A k \in Conn : observeId'[k] < nextNumber',
           \A j, k \in Conn : observeId'[j] = observeId'[k] => j = k \/ observeId'[k] = -1,
           toClient' = toClient,
           subs' = [i \in {x \in DOMAIN info : x <= n} |-> info[i].k],
           served' = [i \in {x \in DOMAIN info : x <= n} |-> info[i].q]
    PROVE  AgreeOK'
<1>1. DOMAIN info \subseteq Int /\ \A i \in DOMAIN info : info[i] \in Entries
  BY PartialFnElim
<1>2. WantedOK'
  BY DEF WantedOK
<1>3. CASE NextInfo(info, n) = None
  <2>1. calls' = stack /\ toServer' = toServer
    BY <1>3 DEF Reobserve, Leave
  <2>2. {x \in DOMAIN info : x > n} = {}
    <3> SUFFICES ASSUME {x \in DOMAIN info : x > n} # {} PROVE FALSE
      OBVIOUS
    <3>1. NextInfo(info, n) = Min({x \in DOMAIN info : x > n})
      BY DEF NextInfo
    <3>2. Min({x \in DOMAIN info : x > n}) \in Int
      BY <1>1, LeastInt
    <3> QED
      BY <1>3, <3>1, <3>2, NoneAssumption
  <2>3. {x \in DOMAIN info : x <= n} = DOMAIN info
    <3>1. \A x \in DOMAIN info : x \in Int /\ ~(x > n)
      BY <1>1, <2>2
    <3>2. \A x \in DOMAIN info : x <= n
      BY <3>1
    <3> QED
      BY <3>2
  <2>4. OnlyOperations(calls') /\ Clear'
    BY <2>1 DEF Clear
  <2> QED
    BY <1>2, <2>3, <2>4, OutsideAgrees
<1>4. CASE NextInfo(info, n) # None
  <2>1. PICK m : m = NextInfo(info, n)
    OBVIOUS
  <2>2. m \in DOMAIN info /\ info[m] \in Entries /\ m > n /\ \A x \in DOMAIN info : x > n => m <= x
    BY <1>4, <2>1, NextFacts
  <2>3. m \in Int
    BY <1>1, <2>2
  <2>4. PICK kind, k, q : kind = "reobserve" /\ k = info[m].k /\ q = info[m].q
    OBVIOUS
  <2>5. kind \in Kind /\ k \in Conn /\ q \in Query \union {None} /\ info[m] = [k |-> k, q |-> q]
    BY <2>2, <2>4 DEF Entries, Kind
  <2>6. Start(TRUE, stack, kind, k, q, m)
    BY <1>4, <2>1, <2>4 DEF Reobserve
  <2>7. /\ Depth' > 0 /\ Top'.kind = kind /\ Top'.k = k /\ Top'.q = q /\ Top'.n = m
        /\ Answers' = {} /\ PendingOK'
    BY <2>3, <2>5, <2>6, StartsPending
  <2>8. Asked' = {x \in DOMAIN info : x <= n}
    <3>1. Asked' = {x \in DOMAIN info : x < m}
      BY <2>4, <2>7 DEF Asked, Innermost
    <3>2. \A x \in DOMAIN info : x < m <=> x <= n
      BY <1>1, <2>2, <2>3
    <3> QED
      BY <3>1, <3>2
  <2>9. BooksOK'
    BY <2>7, <2>8 DEF BooksOK, Told
  <2>10. NumbersOK' /\ AboutOK'
    BY <2>4, <2>5, <2>7 DEF NumbersOK, AboutOK, Innermost
  <2> QED
    BY <1>2, <2>7, <2>9, <2>10 DEF AgreeOK
<1> QED
  BY <1>3, <1>4

\* It starts when the client has asked for nothing.
LEMMA ConnectAgrees ==
    ASSUME AgreeOK, ObserversOK', OnConnectTimer
    PROVE  AgreeOK'
<1>1. /\ ClientOK /\ ~link /\ link' /\ IsStack(calls) /\ observerInfo \in PartialFn(Int, Entries)
      /\ UNCHANGED <<observerInfo, subs, query, observable, observeId, toClient, served, nextNumber>>
  BY DEF AgreeOK, ObserversOK, CallsOK, ClientOK, TypesOK, OnConnectTimer, connectToServer, IsStack, connVars, serverVars
<1>2. OnlyOperations(calls) /\ ~Apart
  <2>1. OnlyOperations(calls)
    BY <1>1 DEF AgreeOK, ObserversOK, CallsOK, OnlyOperations
  <2> QED
    BY <1>1, <2>1, LenProperties DEF Apart, OnlyOperations, Top, Depth, ClientOK, RequestsOK, StackOK
<1>3. Clear
  BY <1>2, ClearFacts DEF AgreeOK
<1>4. PICK info, stack, n : info = observerInfo /\ stack = calls /\ n = 0
  OBVIOUS
<1>5. Reobserve(TRUE, stack, info, NextInfo(info, n))
  BY <1>1, <1>4 DEF OnConnectTimer, Reobserve, Leave, Start, NewFId
<1>6. /\ info \in PartialFn(Int, Entries) /\ n \in Int /\ IsStack(stack) /\ OnlyOperations(stack)
      /\ info = observerInfo'
  BY <1>1, <1>2, <1>4
<1>7. {x \in DOMAIN info : x <= n} = {} /\ Asked = {}
  <2>1. \A x \in DOMAIN observerInfo : x > 0 /\ x \in Int
    BY <1>1, PartialFnElim DEF AgreeOK, ObserversOK, EntriesOK
  <2> QED
    BY <1>1, <1>4, <2>1 DEF Asked
<1>8. /\ subs' = [i \in {x \in DOMAIN info : x <= n} |-> info[i].k]
      /\ served' = [i \in {x \in DOMAIN info : x <= n} |-> info[i].q]
  BY <1>1, <1>2, <1>7 DEF AgreeOK, BooksOK, Told
<1>9. /\ \A i \in DOMAIN info : info[i].q = query'[info[i].k]
      /\ \A k \in Conn : observable'[k] => \E i \in DOMAIN info : info[i].k = k
  BY <1>1, <1>2, <1>4 DEF AgreeOK, WantedOK, Innermost, Apart
<1>10. /\ \A k \in Conn : observeId'[k] < nextNumber'
       /\ \A j, k \in Conn : observeId'[j] = observeId'[k] => j = k \/ observeId'[k] = -1
  BY <1>1 DEF AgreeOK, NumbersOK
<1> QED
  BY <1>1, <1>3, <1>5, <1>6, <1>8, <1>9, <1>10, NextAgrees

\* A call of an operation returns, and one that stops observing or observes.
LEMMA ReturnsAgree ==
    ASSUME Quiet, AgreeOK, ObserversOK', ReturnOperation \/ ReturnUnobserve \/ ReturnObserve
    PROVE  AgreeOK'
<1>1. /\ ClientOK /\ RequestsOK /\ Depth > 0 /\ Top.quit /\ EntriesOK /\ InnerOK
      /\ observerInfo \in PartialFn(Int, Entries) /\ observeId \in [Conn -> Int]
      /\ UNCHANGED <<link, toClient, served, nextNumber, observable>>
  BY DEF AgreeOK, ObserversOK, CallsOK, ClientOK, TypesOK, ReturnOperation, ReturnUnobserve,
         ReturnObserve, Returns, serverVars, connVars
<1>2. PICK stack : stack = Front(calls)
  OBVIOUS
<1>3. Top \in Frames /\ FrameOK(Top) /\ IsStack(stack) /\ Len(stack) = Len(calls) - 1 /\ Len(calls) \in Nat
  BY <1>1, <1>2, TopFacts
<1>4. OnlyOperations(stack)
  BY <1>1, <1>3, StackFacts DEF AgreeOK, ObserversOK, CallsOK, OnlyOperations
<1>5. \A n \in DOMAIN observerInfo : observerInfo[n] \in Entries /\ observerInfo[n].k \in Conn
  <2>1. observerInfo \in [DOMAIN observerInfo -> Entries]
    BY <1>1, PartialFnElim
  <2> QED
    BY <2>1 DEF Entries
<1>6. Top.kind # "operation" => /\ link /\ Outcome(Top) = "success" /\ Top.reply \in Reply
                                /\ Top.reply \in Answers /\ Apart
  <2> SUFFICES ASSUME Top.kind # "operation"
               PROVE  /\ link /\ Outcome(Top) = "success" /\ Top.reply \in Reply
                      /\ Top.reply \in Answers /\ Apart
    OBVIOUS
  <2>1. Top.timer /\ Top.reply # Canceled
    BY <1>1 DEF InnerOK
  <2>2. Top.reply \in Reply
    BY <1>1, <1>3, <2>1 DEF FrameOK, Frames
  <2>3. Top.reply.kind # "canceled"
    BY <2>2 DEF Reply
  <2>4. link
    BY <1>1, <1>3 DEF AgreeOK, ObserversOK, CallsOK, Top, Depth
  <2> QED
    BY <1>1, <2>1, <2>2, <2>3, <2>4 DEF Outcome, Answers, Apart
<1>7. Clear
  BY <1>6, ClearFacts DEF AgreeOK, Apart
<1>8. /\ \A k \in Conn : observeId[k] < nextNumber
      /\ \A j, k \in Conn : observeId[j] = observeId[k] => j = k \/ observeId[k] = -1
      /\ \A n \in DOMAIN observerInfo : observerInfo[n].q = query[observerInfo[n].k]
  BY DEF AgreeOK, NumbersOK, WantedOK
<1>9. ~Innermost("reobserve") => Asked = IF link THEN DOMAIN observerInfo ELSE {}
  BY DEF Asked
<1>10. CASE ReturnOperation
  <2>1. /\ Leave(stack) /\ UNCHANGED <<observerInfo, observeId, subs, query>>
        /\ Top.kind = "operation"
    BY <1>2, <1>10 DEF ReturnOperation, Returns, clientVars, connVars
  <2>2. OnlyOperations(calls') /\ Clear'
    BY <1>4, <1>7, <2>1 DEF Leave, Clear
  <2>3. ~Apart /\ Asked = IF link THEN DOMAIN observerInfo ELSE {}
    BY <1>9, <2>1 DEF Apart, Innermost
  <2>4. /\ WantedOK'
        /\ subs = [n \in Asked |-> observerInfo[n].k] /\ served = [n \in Asked |-> observerInfo[n].q]
    BY <1>1, <2>1, <2>3 DEF AgreeOK, WantedOK, Innermost, BooksOK, Told
  <2>5. /\ link' => /\ subs' = [n \in DOMAIN observerInfo' |-> observerInfo'[n].k]
                    /\ served' = [n \in DOMAIN observerInfo' |-> observerInfo'[n].q]
        /\ ~link' => subs' = Empty /\ served' = Empty
    BY <1>1, <2>1, <2>3, <2>4 DEF Empty
  <2>6. /\ \A k \in Conn : observeId'[k] < nextNumber'
        /\ \A j, k \in Conn : observeId'[j] = observeId'[k] => j = k \/ observeId'[k] = -1
    BY <1>1, <1>8, <2>1
  <2> QED
    BY <2>2, <2>4, <2>5, <2>6, OutsideAgrees
<1>11. CASE ReturnUnobserve
  <2>1. /\ Top.kind = "unobserve" /\ Top.n = observeId[Top.k] /\ link
        /\ observerInfo' = Without(observerInfo, Top.n) /\ subs' = Without(subs, Top.n)
        /\ UNCHANGED observeId
    BY <1>1, <1>6, <1>11 DEF ReturnUnobserve, Returns, InnerOK, Innermost
  <2>2. Asked = DOMAIN observerInfo
    BY <1>9, <2>1 DEF Innermost
  <2>3. /\ DOMAIN observerInfo' = DOMAIN observerInfo \ {Top.n}
        /\ \A n \in DOMAIN observerInfo' : observerInfo'[n] = observerInfo[n]
    BY <2>1 DEF Without
  <2>4. /\ subs = [n \in DOMAIN observerInfo |-> observerInfo[n].k]
        /\ served = Without([n \in DOMAIN observerInfo |-> observerInfo[n].q], Top.n)
    <3>1. Apart /\ Top.reply \in Answers
      BY <1>6, <2>1
    <3> QED
      BY <2>1, <2>2, <3>1 DEF AgreeOK, BooksOK, Told
  <2>5. /\ subs' = [n \in DOMAIN observerInfo' |-> observerInfo'[n].k]
        /\ served' = [n \in DOMAIN observerInfo' |-> observerInfo'[n].q]
    <3>1. subs' = [n \in DOMAIN observerInfo \ {Top.n} |-> observerInfo[n].k]
      BY <2>1, <2>4 DEF Without
    <3>2. served' = [n \in DOMAIN observerInfo \ {Top.n} |-> observerInfo[n].q]
      BY <1>1, <2>4 DEF Without
    <3> QED
      BY <2>3, <3>1, <3>2
  <2>6. Top.k \in Conn /\ Top.q \in Query \union {None} /\ Top.n \in Int
    BY <1>3 DEF Frames
  <2>7. /\ query \in [Conn -> Query]
        /\ query' = IF Top.q = None THEN query ELSE [query EXCEPT ![Top.k] = Top.q]
    BY <1>11 DEF ReturnUnobserve, AgreeOK, ObserversOK, CallsOK, ClientOK, TypesOK
  <2>8. \A n \in DOMAIN observerInfo' : observerInfo'[n].k # Top.k
    BY <1>1, <2>1, <2>3 DEF EntriesOK
  <2>9. \A n \in DOMAIN observerInfo' : observerInfo'[n].q = query'[observerInfo'[n].k]
    BY <1>5, <1>8, <2>3, <2>6, <2>7, <2>8
  <2>10. ASSUME NEW k \in Conn, observable'[k], k # Top.k
         PROVE  \E n \in DOMAIN observerInfo' : observerInfo'[n].k = k
    <3>1. observable[k] /\ ~Innermost("observe")
      BY <1>1, <2>1, <2>10 DEF Innermost
    <3>2. PICK n \in DOMAIN observerInfo : observerInfo[n].k = k
      BY <3>1 DEF AgreeOK, WantedOK
    <3>3. n > 0 /\ observeId[k] = n
      BY <1>1, <3>2 DEF EntriesOK
    <3>4. n # Top.n
      BY <1>1, <1>8, <2>1, <2>6, <2>10, <3>3
    <3> QED
      BY <2>3, <3>2, <3>4
  <2>11. /\ \A j \in Conn : observeId'[j] < nextNumber'
         /\ \A i, j \in Conn : observeId'[i] = observeId'[j] => i = j \/ observeId'[j] = -1
    BY <1>1, <1>8, <2>1
  <2>12. CASE Top.q = None \/ ~observable[Top.k]
    <3>1. Leave(stack)
      BY <1>2, <1>11, <2>12 DEF ReturnUnobserve
    <3>2. ~observable[Top.k]
      BY <1>1, <2>1, <2>12 DEF AgreeOK, AboutOK, Innermost
    <3>3. WantedOK'
      BY <1>1, <2>9, <2>10, <3>2 DEF WantedOK
    <3>4. OnlyOperations(calls') /\ Clear'
      BY <1>4, <1>7, <3>1 DEF Leave, Clear
    <3> QED
      BY <1>1, <2>1, <2>5, <2>11, <3>3, <3>4, OutsideAgrees
  <2>13. CASE Top.q # None /\ observable[Top.k]
    <3>1. PICK none : none = -1
      OBVIOUS
    <3>2. PICK k, q, kind : k = Top.k /\ q = Top.q /\ kind = "observe"
      OBVIOUS
    <3>3. Start(TRUE, stack, kind, k, q, none)
      BY <1>2, <1>11, <2>1, <2>13, <3>1, <3>2 DEF ReturnUnobserve, ConnObserve
    <3>4. kind \in Kind /\ k \in Conn /\ q \in Query \union {None} /\ none \in Int
      BY <2>6, <3>1, <3>2 DEF Kind
    <3>5. /\ Depth' > 0 /\ Top'.kind = kind /\ Top'.k = k /\ Top'.q = q /\ Top'.n = none
          /\ Answers' = {} /\ PendingOK'
      BY <1>1, <1>3, <1>7, <3>3, <3>4, StartsPending
    <3>6. Asked' = DOMAIN observerInfo'
      BY <1>1, <2>1, <3>2, <3>5 DEF Asked, Innermost
    <3>7. BooksOK'
      BY <2>5, <3>5, <3>6 DEF BooksOK, Told
    <3>8. NumbersOK'
      BY <2>11, <3>5 DEF NumbersOK
    <3>9. AboutOK'
      BY <2>6, <2>7, <2>13, <3>1, <3>2, <3>5 DEF AboutOK, Innermost
    <3>10. WantedOK'
      BY <2>9, <2>10, <3>2, <3>5 DEF WantedOK, Innermost
    <3> QED
      BY <3>5, <3>7, <3>8, <3>9, <3>10 DEF AgreeOK
  <2> QED
    BY <2>12, <2>13
<1>12. CASE ReturnObserve
  <2>1. PICK n : n = Top.reply.number
    OBVIOUS
  <2>2. PICK k, q : k = Top.k /\ q = Top.q
    OBVIOUS
  <2>3. PICK e : e = [k |-> k, q |-> q]
    OBVIOUS
  <2>4. Top.kind = "observe" /\ link /\ Outcome(Top) = "success" /\ Innermost("observe")
    BY <1>1, <1>6, <1>12 DEF ReturnObserve, Returns, Innermost
  <2>5. /\ Leave(stack) /\ observeId' = [observeId EXCEPT ![k] = n] /\ query' = query
        /\ subs' = With(subs, n, k)
        /\ observerInfo' = IF n \in DOMAIN observerInfo THEN observerInfo ELSE With(observerInfo, n, e)
    BY <1>2, <1>12, <2>1, <2>2, <2>3, <2>4 DEF ReturnObserve, Entered
  <2>6. /\ n > 0 /\ n < nextNumber /\ \A j \in Conn : observeId[j] # n
        /\ k \in Conn /\ n \in Int /\ q = query[k]
    <3>1. Top.reply \in Answers /\ Top.reply \in Reply
      BY <1>6, <2>4
    <3>2. n > 0
      BY <2>1, <2>4, <3>1 DEF AgreeOK, ObserversOK, ObservingOK
    <3>3. n < nextNumber /\ \A j \in Conn : observeId[j] # n
      BY <2>1, <2>4, <3>1 DEF AgreeOK, NumbersOK
    <3>4. k \in Conn /\ n \in Int
      BY <1>3, <2>1, <2>2, <3>1 DEF Frames, Reply
    <3>5. q = query[k]
      BY <2>2, <2>4 DEF AgreeOK, AboutOK
    <3> QED
      BY <3>2, <3>3, <3>4, <3>5
  <2>7. n \notin DOMAIN observerInfo
    BY <1>1, <1>5, <2>6 DEF EntriesOK
  <2>8. /\ DOMAIN observerInfo' = DOMAIN observerInfo \union {n} /\ observerInfo'[n] = e
        /\ \A i \in DOMAIN observerInfo : observerInfo'[i] = observerInfo[i]
        /\ e.k = k /\ e.q = q
    BY <2>3, <2>5, <2>7 DEF With
  <2>9. Asked = DOMAIN observerInfo
    BY <1>9, <2>4 DEF Innermost
  <2>10. /\ subs = [i \in DOMAIN observerInfo |-> observerInfo[i].k]
         /\ served = With([i \in DOMAIN observerInfo |-> observerInfo[i].q], n, q)
    <3>1. Apart /\ Top.reply \in Answers
      BY <1>6, <2>4
    <3> QED
      BY <2>1, <2>2, <2>4, <2>9, <3>1 DEF AgreeOK, BooksOK, Told
  <2>11. /\ subs' = [i \in DOMAIN observerInfo' |-> observerInfo'[i].k]
         /\ served' = [i \in DOMAIN observerInfo' |-> observerInfo'[i].q]
    <3>1. subs' = [i \in DOMAIN observerInfo \union {n} |-> IF i = n THEN k ELSE observerInfo[i].k]
      BY <2>5, <2>10 DEF With
    <3>2. served' = [i \in DOMAIN observerInfo \union {n} |-> IF i = n THEN q ELSE observerInfo[i].q]
      BY <1>1, <2>10 DEF With
    <3> QED
      BY <2>7, <2>8, <3>1, <3>2
  <2>12. WantedOK'
    <3>1. \A i \in DOMAIN observerInfo' : observerInfo'[i].q = query'[observerInfo'[i].k]
      BY <1>8, <2>5, <2>6, <2>8
    <3>2. ASSUME NEW j \in Conn, observable'[j] PROVE \E i \in DOMAIN observerInfo' : observerInfo'[i].k = j
      <4>1. CASE j = k
        BY <2>8, <4>1
      <4>2. CASE j # k
        <5>1. PICK i \in DOMAIN observerInfo : observerInfo[i].k = j
          BY <1>1, <2>2, <3>2, <4>2 DEF AgreeOK, WantedOK
        <5> QED
          BY <2>8, <5>1
      <4> QED
        BY <4>1, <4>2
    <3> QED
      BY <3>1, <3>2 DEF WantedOK
  <2>13. /\ \A j \in Conn : observeId'[j] < nextNumber'
         /\ \A i, j \in Conn : observeId'[i] = observeId'[j] => i = j \/ observeId'[j] = -1
    BY <1>1, <1>8, <2>5, <2>6
  <2>14. OnlyOperations(calls') /\ Clear'
    BY <1>4, <1>7, <2>5 DEF Leave, Clear
  <2> QED
    BY <1>1, <2>4, <2>11, <2>12, <2>13, <2>14, OutsideAgrees
<1> QED
  BY <1>10, <1>11, <1>12

\* What two sequences have, one behind the other has.
LEMMA JoinedRange ==
    ASSUME NEW s, NEW t, s \in Seq(Range(s)), t \in Seq(Range(t))
    PROVE  Range(s \o t) = Range(s) \union Range(t)
<1>1. /\ Len(s) \in Nat /\ DOMAIN s = 1..Len(s) /\ Len(t) \in Nat /\ DOMAIN t = 1..Len(t)
  BY LenProperties
<1>2. PICK S : S = Range(s) \union Range(t)
  OBVIOUS
<1>3. s \in Seq(S) /\ t \in Seq(S)
  BY <1>1, <1>2, SeqDef
<1>4. /\ s \o t \in Seq(S) /\ Len(s \o t) = Len(s) + Len(t)
      /\ \A i \in 1..(Len(s) + Len(t)) : (s \o t)[i] = IF i <= Len(s) THEN s[i] ELSE t[i - Len(s)]
  BY <1>3, ConcatProperties
<1>5. DOMAIN (s \o t) = 1..(Len(s) + Len(t))
  BY <1>4, LenProperties
<1>6. Range(s) \subseteq Range(s \o t)
  <2> SUFFICES ASSUME NEW i \in 1..Len(s) PROVE s[i] \in Range(s \o t)
    BY <1>1 DEF Range
  <2>1. i \in 1..(Len(s) + Len(t)) /\ (s \o t)[i] = s[i]
    BY <1>1, <1>4
  <2> QED
    BY <1>5, <2>1 DEF Range
<1>7. Range(t) \subseteq Range(s \o t)
  <2> SUFFICES ASSUME NEW i \in 1..Len(t) PROVE t[i] \in Range(s \o t)
    BY <1>1 DEF Range
  <2>1. PICK j : j = i + Len(s)
    OBVIOUS
  <2>2. j \in 1..(Len(s) + Len(t)) /\ ~(j <= Len(s)) /\ j - Len(s) = i
    BY <1>1, <2>1
  <2>3. (s \o t)[j] = t[i]
    BY <1>4, <2>2
  <2> QED
    BY <1>5, <2>2, <2>3 DEF Range
<1> QED
  BY <1>6, <1>7, JoinOwn

\* The server takes a request from the front.
LEMMA TailPending ==
    ASSUME RequestsOK, PendingOK, toServer # <<>>, toServer' = Tail(toServer), Top' = Top,
           Apart' = Apart, Apart => Answers' = Answers
    PROVE  PendingOK'
<1>1. /\ toServer \in Seq(Requests) /\ Len(toServer) \in Nat /\ Len(toServer) > 0
      /\ Len(toServer') = Len(toServer) - 1
  BY LenProperties, EmptySeq, TailFacts DEF RequestsOK
<1>2. \A i \in 1..(Len(toServer) - 1) : toServer'[i] = toServer[i + 1]
  BY <1>1, HeadTailProperties, TailFacts, LenProperties
<1> SUFFICES ASSUME NEW i \in 1..Len(toServer')
             PROVE  \/ toServer'[i].kind = "operation" /\ (Apart' => toServer'[i].serial # Top'.serial)
                    \/ /\ Apart' /\ i = Len(toServer') /\ Answers' = {}
                       /\ toServer'[i].kind = Top'.kind /\ toServer'[i].serial = Top'.serial
                       /\ toServer'[i].n = Top'.n /\ toServer'[i].q = Top'.q
  BY DEF PendingOK
<1>3. PICK j : j = i + 1
  OBVIOUS
<1>4. j \in 1..Len(toServer) /\ toServer'[i] = toServer[j] /\ (j = Len(toServer) => i = Len(toServer'))
  <2>1. PICK l : l = Len(toServer) /\ l \in Nat /\ Len(toServer') = l - 1
    BY <1>1
  <2>2. i \in 1..(l - 1) /\ i \in Nat
    BY <2>1
  <2>3. j \in 1..l /\ (j = l => i = l - 1)
    BY <1>3, <2>1, <2>2
  <2>4. toServer'[i] = toServer[i + 1]
    BY <1>2, <2>1, <2>2
  <2> QED
    BY <1>3, <2>1, <2>3, <2>4
<1>5. \/ toServer[j].kind = "operation" /\ (Apart => toServer[j].serial # Top.serial)
      \/ /\ Apart /\ j = Len(toServer) /\ Answers = {}
         /\ toServer[j].kind = Top.kind /\ toServer[j].serial = Top.serial
         /\ toServer[j].n = Top.n /\ toServer[j].q = Top.q
  BY <1>4 DEF PendingOK
<1> QED
  BY <1>4, <1>5

\* The loop of onConnectTimer has the number it asked for, and goes on.
LEMMA LoopAgrees ==
    ASSUME AgreeOK, ObserversOK', ReturnReobserve
    PROVE  AgreeOK'
<1>1. /\ ClientOK /\ RequestsOK /\ Depth > 0 /\ Top.quit /\ Top.kind = "reobserve"
      /\ ReobservingOK /\ InnerOK /\ observerInfo \in PartialFn(Int, Entries)
      /\ UNCHANGED <<link, toClient, served, nextNumber, query, observable, observeId>>
  BY DEF AgreeOK, ObserversOK, CallsOK, ClientOK, TypesOK, ReturnReobserve, Returns, serverVars, connVars
<1>2. PICK stack : stack = Front(calls)
  OBVIOUS
<1>3. Top \in Frames /\ FrameOK(Top) /\ IsStack(stack) /\ Len(stack) = Len(calls) - 1 /\ Len(calls) \in Nat
  BY <1>1, <1>2, TopFacts
<1>4. OnlyOperations(stack)
  BY <1>1, <1>3, StackFacts DEF AgreeOK, ObserversOK, CallsOK, OnlyOperations
<1>5. Outcome(Top) = "success" /\ Top.reply \in Reply /\ Top.reply \in Answers
  <2>1. Top.timer /\ Top.reply # Canceled
    BY <1>1 DEF InnerOK
  <2>2. Top.reply \in Reply
    BY <1>1, <1>3, <2>1 DEF FrameOK, Frames
  <2>3. Top.reply.kind # "canceled"
    BY <2>2 DEF Reply
  <2> QED
    BY <2>1, <2>2, <2>3 DEF Outcome, Answers
<1>6. link /\ Top.n \in DOMAIN observerInfo /\ Apart
  BY <1>1, <1>3 DEF AgreeOK, ObserversOK, CallsOK, Top, Depth, Apart
<1>7. Top.reply.number = Top.n
  BY <1>1, <1>5 DEF ReobservingOK, Innermost
<1>8. observerInfo' = observerInfo /\ subs' = With(subs, Top.n, Top.k)
  BY <1>5, <1>6, <1>7 DEF ReturnReobserve, Entered
<1>9. PICK info, n : info = observerInfo /\ n = Top.n
  OBVIOUS
<1>10. Reobserve(TRUE, stack, info, NextInfo(info, n))
  BY <1>2, <1>6, <1>8, <1>9 DEF ReturnReobserve, Reobserve, Start, Leave, NewFId
<1>11. info \in PartialFn(Int, Entries) /\ n \in Int /\ info = observerInfo' /\ n \in DOMAIN info
  BY <1>1, <1>3, <1>6, <1>8, <1>9 DEF Frames
<1>12. Clear
  BY <1>5, ClearFacts DEF AgreeOK
<1>13. /\ Asked = {x \in DOMAIN info : x < n}
       /\ subs = [x \in Asked |-> info[x].k]
       /\ served = With([x \in Asked |-> info[x].q], n, Top.q)
       /\ info[n].k = Top.k /\ info[n].q = Top.q
  <2>1. Asked = {x \in DOMAIN info : x < n}
    BY <1>1, <1>6, <1>9 DEF Asked, Innermost
  <2>2. subs = [x \in Asked |-> info[x].k] /\ served = With([x \in Asked |-> info[x].q], n, Top.q)
    BY <1>1, <1>5, <1>6, <1>7, <1>9 DEF AgreeOK, BooksOK, Told
  <2>3. info[n] = [k |-> Top.k, q |-> Top.q]
    BY <1>1, <1>9 DEF AgreeOK, AboutOK, Innermost
  <2> QED
    BY <2>1, <2>2, <2>3
<1>14. {x \in DOMAIN info : x <= n} = Asked \union {n} /\ n \notin Asked
  <2>1. \A x \in DOMAIN info : x \in Int
    BY <1>11, PartialFnElim
  <2>2. \A x \in DOMAIN info : x <= n <=> x < n \/ x = n
    BY <1>11, <2>1
  <2>3. ~(n < n)
    BY <1>11
  <2> QED
    BY <1>11, <1>13, <2>2, <2>3
<1>15. /\ subs' = [i \in {x \in DOMAIN info : x <= n} |-> info[i].k]
       /\ served' = [i \in {x \in DOMAIN info : x <= n} |-> info[i].q]
  <2>1. subs' = [i \in Asked \union {n} |-> IF i = n THEN Top.k ELSE info[i].k]
    BY <1>8, <1>9, <1>13, <1>14 DEF With
  <2>2. served' = [i \in Asked \union {n} |-> IF i = n THEN Top.q ELSE info[i].q]
    BY <1>1, <1>13, <1>14 DEF With
  <2> QED
    BY <1>13, <1>14, <2>1, <2>2
<1>16. /\ \A i \in DOMAIN info : info[i].q = query'[info[i].k]
       /\ \A k \in Conn : observable'[k] => \E i \in DOMAIN info : info[i].k = k
  BY <1>1, <1>9 DEF AgreeOK, WantedOK, Innermost
<1>17. /\ \A k \in Conn : observeId'[k] < nextNumber'
       /\ \A j, k \in Conn : observeId'[j] = observeId'[k] => j = k \/ observeId'[k] = -1
  BY <1>1 DEF AgreeOK, NumbersOK
<1> QED
  BY <1>1, <1>3, <1>4, <1>6, <1>10, <1>11, <1>12, <1>15, <1>16, <1>17, NextAgrees

\* The server puts an operation off.
LEMMA PutOffAgrees ==
    ASSUME AgreeOK, ObserversOK', PutOff
    PROVE  AgreeOK'
<1>1. /\ RequestsOK /\ toServer # <<>> /\ toServer' = Tail(toServer)
      /\ UNCHANGED <<link, calls, observerInfo, subs, query, observable, observeId, nextNumber, served, toClient>>
  BY DEF AgreeOK, ObserversOK, CallsOK, ClientOK, PutOff, clientVars, connVars, serverVars
<1>2. Depth' = Depth /\ Top' = Top /\ Answers' = Answers
  BY <1>1 DEF Depth, Top, Answers
<1>3. Apart' = Apart /\ \A kind : Innermost(kind)' = Innermost(kind)
  BY <1>2 DEF Apart, Innermost
<1>4. Asked' = Asked
  BY <1>1, <1>2, <1>3 DEF Asked, Innermost
<1>5. BooksOK'
  BY <1>1, <1>2, <1>3, <1>4 DEF AgreeOK, BooksOK, Told
<1>6. WantedOK' /\ NumbersOK' /\ AboutOK'
  BY <1>1, <1>2 DEF AgreeOK, WantedOK, NumbersOK, AboutOK, Innermost
<1>7. PendingOK'
  BY <1>1, <1>2, <1>3, TailPending DEF AgreeOK
<1> QED
  BY <1>5, <1>6, <1>7 DEF AgreeOK

\* The server takes an operation: it answers, and all observers get their data.
LEMMA ServeOperationAgrees ==
    ASSUME AgreeOK, ObserversOK', Serve, toServer[1].kind = "operation"
    PROVE  AgreeOK'
<1>1. /\ RequestsOK /\ MessagesOK /\ TypesOK /\ toServer # <<>> /\ toServer' = Tail(toServer)
      /\ UNCHANGED <<link, calls, observerInfo, subs, query, observable, observeId>>
  BY DEF AgreeOK, ObserversOK, CallsOK, ClientOK, Serve, clientVars, connVars
<1>2. PICK m : m = toServer[1]
  OBVIOUS
<1>3. /\ m \in Requests /\ m = Head(toServer) /\ Len(toServer) \in Nat /\ Len(toServer) > 0
      /\ m.kind = "operation"
  BY <1>1, <1>2, TailFacts, LenProperties, EmptySeq DEF RequestsOK
<1>4. PICK a, D : /\ a = [kind |-> "reply", id |-> m.id, of |-> m.serial, number |-> -1]
                  /\ D = AllData(version + 1)
  OBVIOUS
<1>5. toClient' = toClient \o <<a>> \o D /\ served' = served /\ nextNumber' = nextNumber
  BY <1>3, <1>4 DEF Serve
<1>6. Depth' = Depth /\ Top' = Top
  BY <1>1 DEF Depth, Top
<1>7. Apart' = Apart /\ \A kind : Innermost(kind)' = Innermost(kind)
  BY <1>6 DEF Apart, Innermost
<1>8. Apart => Answers' = Answers
  <2> SUFFICES ASSUME Apart PROVE Answers' = Answers
    OBVIOUS
  <2>1. m.serial # Top.serial
    <3>1. 1 \in 1..Len(toServer)
      BY <1>3
    <3>2. CASE Top.kind = "operation"
      BY <3>2 DEF Apart
    <3>3. CASE Top.kind # "operation"
      BY <1>2, <1>3, <3>1, <3>3 DEF AgreeOK, PendingOK
    <3> QED
      BY <3>2, <3>3
  <2>2. D \in Seq(Range(D)) /\ \A x \in Range(D) : x.kind = "data"
    BY <1>1, <1>4, DataFacts DEF TypesOK
  <2>3. <<a>> \in Seq(Range(<<a>>)) /\ Range(<<a>>) = {a}
    BY FewMessages
  <2>4. /\ toClient \o <<a>> \in Seq(Range(toClient \o <<a>>))
        /\ Range(toClient \o <<a>>) = Range(toClient) \union {a}
    <3>1. toClient \in Seq(Range(toClient))
      BY <1>1 DEF MessagesOK
    <3> QED
      BY <2>3, <3>1, JoinOwn, JoinedRange
  <2>5. Range(toClient') = Range(toClient) \union {a} \union Range(D)
    BY <1>5, <2>2, <2>4, JoinedRange
  <2>6. Answers' \subseteq Answers
    BY <1>4, <1>6, <2>1, <2>2, <2>5 DEF Answers, Reply
  <2>7. Answers \subseteq Answers'
    BY <1>6, <2>5 DEF Answers
  <2> QED
    BY <2>6, <2>7
<1>9. Asked' = Asked
  BY <1>1, <1>6, <1>7 DEF Asked, Innermost
<1>10. BooksOK'
  BY <1>1, <1>5, <1>6, <1>7, <1>8, <1>9 DEF AgreeOK, BooksOK, Told
<1>11. WantedOK' /\ AboutOK'
  BY <1>1, <1>6 DEF AgreeOK, WantedOK, AboutOK, Innermost
<1>12. NumbersOK'
  BY <1>1, <1>5, <1>6, <1>8 DEF AgreeOK, NumbersOK, Innermost, Apart
<1>13. PendingOK'
  BY <1>1, <1>6, <1>7, <1>8, TailPending DEF AgreeOK
<1> QED
  BY <1>10, <1>11, <1>12, <1>13 DEF AgreeOK

\* It takes the request of a call that observes or stops observing.
LEMMA ServeOthersAgree ==
    ASSUME AgreeOK, ObserversOK', Serve, toServer[1].kind # "operation"
    PROVE  AgreeOK'
<1>1. /\ RequestsOK /\ MessagesOK /\ TypesOK /\ toServer # <<>> /\ toServer' = Tail(toServer)
      /\ ReobservingOK /\ ServerOK /\ EntriesOK
      /\ UNCHANGED <<link, calls, observerInfo, subs, query, observable, observeId>>
  BY DEF AgreeOK, ObserversOK, CallsOK, ClientOK, Serve, clientVars, connVars
<1>2. PICK m : m = toServer[1]
  OBVIOUS
<1>3. /\ m \in Requests /\ m = Head(toServer) /\ Len(toServer) \in Nat /\ Len(toServer) > 0
      /\ Len(toServer') = Len(toServer) - 1 /\ m.kind # "operation"
  BY <1>1, <1>2, TailFacts, LenProperties, EmptySeq DEF RequestsOK
<1>4. /\ Apart /\ Len(toServer) = 1 /\ Answers = {}
      /\ m.kind = Top.kind /\ m.serial = Top.serial /\ m.n = Top.n /\ m.q = Top.q
  BY <1>2, <1>3 DEF AgreeOK, PendingOK
<1>5. served = Told /\ taken = {}
  BY <1>1, <1>4 DEF AgreeOK, BooksOK, ServerOK
<1>6. Depth' = Depth /\ Top' = Top
  BY <1>1 DEF Depth, Top
<1>7. Apart' /\ \A kind : Innermost(kind)' = Innermost(kind)
  BY <1>4, <1>6 DEF Apart, Innermost
<1>8. Asked' = Asked /\ Told' = Told
  <2>1. Asked' = Asked
    BY <1>1, <1>6, <1>7 DEF Asked, Innermost
  <2> QED
    BY <1>1, <2>1 DEF Told
<1>9. WantedOK' /\ AboutOK'
  BY <1>1, <1>6 DEF AgreeOK, WantedOK, AboutOK, Innermost
<1>10. PendingOK'
  BY <1>3, <1>4 DEF PendingOK
<1>11. PICK own : own \in BOOLEAN /\ own = (m.n = -1 \/ m.n \in taken \union DOMAIN served)
  OBVIOUS
<1>12. PICK n : n = IF own THEN nextNumber ELSE m.n
  OBVIOUS
<1>13. n \in Int /\ nextNumber \in Int /\ m.n \in Int /\ m.id = m.serial /\ m.serial \in Nat
  <2>1. RequestOK(m)
    BY <1>1, <1>2, RequestFacts DEF Serve
  <2> QED
    BY <1>1, <1>3, <1>12, <2>1 DEF TypesOK, Requests, RequestOK
<1>14. ASSUME NEW x \in Int, NEW S,
              Range(toClient') = Range(toClient) \union {[kind |-> "reply", id |-> m.id, of |-> m.serial, number |-> x]} \union S,
              \A y \in S : y.kind = "data"
       PROVE  Answers' # {} /\ \A y \in Answers' : y.number = x
  <2>1. PICK a : a = [kind |-> "reply", id |-> m.id, of |-> m.serial, number |-> x]
    OBVIOUS
  <2>2. a \in Reply /\ a.of = Top.serial /\ a.number = x
    BY <1>4, <1>13, <2>1 DEF Reply
  <2>3. a \in Answers'
    BY <1>6, <1>14, <2>1, <2>2 DEF Answers
  <2>4. \A y \in Answers' : y \in Answers \/ y = a
    <3>1. \A y \in S : y \notin Reply
      BY <1>14 DEF Reply
    <3> QED
      BY <1>6, <1>14, <2>1, <3>1 DEF Answers
  <2> QED
    BY <1>4, <2>2, <2>3, <2>4
<1>15. toClient \in Seq(Range(toClient))
  BY <1>1 DEF MessagesOK
<1>16. CASE m.kind = "unobserve"
  <2>1. PICK a : a = [kind |-> "reply", id |-> m.id, of |-> m.serial, number |-> -1]
    OBVIOUS
  <2>2. served' = Without(served, m.n) /\ nextNumber' = nextNumber /\ toClient' = Append(toClient, a)
    BY <1>3, <1>16, <2>1 DEF Serve
  <2>3. Range(toClient') = Range(toClient) \union {a}
    <3>1. <<a>> \in Seq(Range(<<a>>)) /\ Range(<<a>>) = {a}
      BY FewMessages
    <3>2. toClient' = toClient \o <<a>>
      BY <1>15, <2>2, AppendIsConcat
    <3> QED
      BY <1>15, <3>1, <3>2, JoinedRange
  <2>4. PICK none : none = -1
    OBVIOUS
  <2>5. Answers' # {}
    <3>1. none \in Int /\ a = [kind |-> "reply", id |-> m.id, of |-> m.serial, number |-> none]
      BY <2>1, <2>4
    <3>2. Range(toClient') = Range(toClient) \union {a} \union {}
      BY <2>3
    <3> QED
      BY <1>14, <3>1, <3>2
  <2>6. BooksOK'
    <3>1. subs' = [i \in Asked' |-> observerInfo'[i].k]
      BY <1>1, <1>8 DEF AgreeOK, BooksOK
    <3>2. served' = Without(Told', Top'.n) /\ Top'.kind = "unobserve"
      BY <1>4, <1>5, <1>6, <1>8, <1>16, <2>2
    <3> QED
      BY <1>7, <2>5, <3>1, <3>2 DEF BooksOK
  <2>7. NumbersOK'
    BY <1>1, <1>4, <1>6, <1>16, <2>2 DEF AgreeOK, NumbersOK, Innermost
  <2> QED
    BY <1>9, <1>10, <2>6, <2>7 DEF AgreeOK
<1>17. CASE m.kind # "unobserve"
  <2>1. PICK a, b : /\ a = [kind |-> "reply", id |-> m.id, of |-> m.serial, number |-> n]
                    /\ b = [kind |-> "data", number |-> n, q |-> m.q, version |-> version]
    OBVIOUS
  <2>2. /\ toClient' = toClient \o <<a, b>> /\ served' = With(served, n, m.q)
        /\ nextNumber' = IF own THEN nextNumber + 1 ELSE nextNumber
    BY <1>3, <1>11, <1>12, <1>17, <2>1 DEF Serve
  <2>3. Range(toClient') = Range(toClient) \union {a} \union {b}
    <3>1. PICK t : t = <<a, b>>
      OBVIOUS
    <3>2. t \in Seq(Range(t)) /\ Range(t) = {a, b} /\ toClient' = toClient \o t
      BY <2>2, <3>1, FewMessages
    <3>3. Range(toClient \o t) = Range(toClient) \union Range(t)
      BY <1>15, <3>2, JoinedRange
    <3> QED
      BY <3>2, <3>3
  <2>4. Answers' # {} /\ \A y \in Answers' : y.number = n
    <3>1. PICK S, x : S = {b} /\ x = n
      OBVIOUS
    <3>2. x \in Int /\ \A y \in S : y.kind = "data"
      BY <1>13, <2>1, <3>1
    <3>3. Range(toClient') = Range(toClient) \union {[kind |-> "reply", id |-> m.id, of |-> m.serial, number |-> x]} \union S
      BY <2>1, <2>3, <3>1
    <3>4. Answers' # {} /\ \A y \in Answers' : y.number = x
      BY <1>14, <3>2, <3>3
    <3> QED
      BY <3>1, <3>4
  <2>5. BooksOK'
    <3>1. subs' = [i \in Asked' |-> observerInfo'[i].k]
      BY <1>1, <1>8 DEF AgreeOK, BooksOK
    <3>2. served' = With(Told', n, Top'.q) /\ Top'.kind # "unobserve"
      BY <1>4, <1>5, <1>6, <1>8, <1>17, <2>2
    <3> QED
      BY <1>7, <2>4, <3>1, <3>2 DEF BooksOK
  <2>6. NumbersOK'
    <3>1. /\ nextNumber' \in {nextNumber, nextNumber + 1}
          /\ \A k \in Conn : observeId[k] < nextNumber /\ observeId[k] \in Int
          /\ \A j, k \in Conn : observeId[j] = observeId[k] => j = k \/ observeId[k] = -1
      BY <1>1, <2>2 DEF AgreeOK, NumbersOK, TypesOK
    <3>2. \A k \in Conn : observeId[k] < nextNumber'
      BY <1>13, <3>1
    <3>3. ASSUME Innermost("observe") PROVE n = nextNumber /\ nextNumber' = nextNumber + 1
      <4>1. m.n = -1
        BY <1>4, <3>3 DEF AgreeOK, AboutOK
      <4> QED
        BY <1>11, <1>12, <2>2, <4>1
    <3>4. Innermost("observe") => \A y \in Answers' : y.number < nextNumber' /\ \A k \in Conn : observeId[k] # y.number
      BY <1>13, <2>4, <3>1, <3>3
    <3> QED
      BY <1>1, <1>7, <3>1, <3>2, <3>4 DEF NumbersOK
  <2> QED
    BY <1>9, <1>10, <2>5, <2>6 DEF AgreeOK
<1> QED
  BY <1>16, <1>17

\* At first nobody observes.
LEMMA AgreeInit == Init => AgreeOK
<1> SUFFICES ASSUME Init PROVE AgreeOK
  OBVIOUS
<1>1. /\ ObserversOK /\ Depth = 0 /\ link /\ toServer = <<>> /\ observerInfo = Empty /\ subs = Empty
      /\ served = Empty /\ nextNumber = 1
      /\ \A k \in Conn : observeId[k] = -1 /\ observable[k] = FALSE
  BY ObserversInit DEF Init, Depth
<1>2. ~Apart /\ \A kind : ~Innermost(kind)
  BY <1>1 DEF Apart, Innermost
<1>3. WantedOK /\ NumbersOK /\ AboutOK /\ PendingOK
  BY <1>1, <1>2 DEF WantedOK, NumbersOK, AboutOK, PendingOK, Empty
<1>4. Asked = {}
  BY <1>1 DEF Asked, Empty
<1>5. BooksOK
  BY <1>1, <1>2, <1>4 DEF BooksOK, Told, Empty
<1> QED
  BY <1>1, <1>3, <1>5 DEF AgreeOK

\* The records agree after every step.
LEMMA AgreeStep == Quiet /\ AgreeOK /\ [Next]_vars => AgreeOK'
<1> SUFFICES ASSUME Quiet, AgreeOK, [Next]_vars PROVE AgreeOK'
  OBVIOUS
<1>1. ObserversOK' /\ ClientOK /\ CallsOK
  BY ObserversStep DEF AgreeOK, ObserversOK, CallsOK
<1>2. ASSUME NEW k \in Conn, Operate(k) \/ Watch(k) \/ Unwatch(k) \/ \E q \in Query : SetQuery(k, q)
      PROVE  AgreeOK'
  BY <1>1, <1>2, UsersAgree
<1>3. CASE Receive
  BY <1>1, <1>3, EventsIn, ReceiveAgrees DEF ObserversOK, CallsOK
<1>4. ASSUME NEW n \in DOMAIN calls, Timeout(n) PROVE AgreeOK'
  BY <1>1, <1>4, EventsIn, TimeoutAgrees DEF ObserversOK, CallsOK
<1>5. CASE Serve
  BY <1>1, <1>5, ServeOperationAgrees, ServeOthersAgree
<1> QED
  BY <1>1, <1>2, <1>3, <1>4, <1>5, DataAgree, LossAgrees, ConnectAgrees, ReturnsAgree, LoopAgrees,
     PutOffAgrees DEF Next

\* Whenever the connection is there and no call observes or stops observing, the
\* server has exactly the observers the client has entered, with their queries,
\* the client hands the data of each to the connector of its entry, and the
\* entries are those of the connectors that are observed, with the queries they
\* have: through changes of queries, operations that nest, time out and are
\* answered late, and connections lost and made again by the loop of
\* onConnectTimer, under the same conditions as OneEntryEach.
THEOREM RecordsAgree == ASSUME Quiet PROVE Spec => []ObserversAgree
<1>1. AgreeOK => ObserversAgree
  <2> SUFFICES ASSUME AgreeOK, link, \A n \in DOMAIN calls : calls[n].kind = "operation"
               PROVE  /\ served = [n \in DOMAIN observerInfo |-> observerInfo[n].q]
                      /\ subs = [n \in DOMAIN observerInfo |-> observerInfo[n].k]
                      /\ \A k \in Conn : observable[k] =
                            (\E n \in DOMAIN observerInfo : observerInfo[n] = [k |-> k, q |-> query[k]])
    BY DEF ObserversAgree
  <2>1. RequestsOK /\ TypesOK /\ EntriesOK
    BY DEF AgreeOK, ObserversOK, CallsOK, ClientOK
  <2>2. ~Apart
    BY <2>1, LenProperties DEF Apart, Depth, Top, RequestsOK, StackOK
  <2>3. Asked = DOMAIN observerInfo /\ ~Innermost("observe") /\ ~Innermost("unobserve")
    BY <2>2 DEF Asked, Apart, Innermost
  <2>4. /\ served = [n \in DOMAIN observerInfo |-> observerInfo[n].q]
        /\ subs = [n \in DOMAIN observerInfo |-> observerInfo[n].k]
    BY <2>2, <2>3 DEF AgreeOK, BooksOK, Told
  <2>5. ASSUME NEW k \in Conn, observable[k]
        PROVE  \E n \in DOMAIN observerInfo : observerInfo[n] = [k |-> k, q |-> query[k]]
    <3>1. PICK n \in DOMAIN observerInfo : observerInfo[n].k = k
      BY <2>3, <2>5 DEF AgreeOK, WantedOK
    <3>2. observerInfo[n] \in Entries /\ observerInfo[n].q = query[k]
      BY <2>1, <3>1, PartialFnElim DEF AgreeOK, WantedOK, TypesOK
    <3> QED
      BY <3>1, <3>2 DEF Entries
  <2>6. ASSUME NEW k \in Conn, NEW n \in DOMAIN observerInfo, observerInfo[n] = [k |-> k, q |-> query[k]]
        PROVE  observable[k]
    BY <2>1, <2>3, <2>6 DEF EntriesOK
  <2> QED
    BY <2>1, <2>4, <2>5, <2>6 DEF TypesOK
<1>2. AgreeOK /\ [Next]_vars => AgreeOK'
  BY AgreeStep
<1> QED
  BY <1>1, <1>2, AgreeInit, PTL DEF Spec
=============================================================================
