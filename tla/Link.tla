-------------------------------- MODULE Link --------------------------------
(***************************************************************************)
(* The framing of messages: QDocdbLinkBase::send, readyRead and            *)
(* disconnected, QDocdbLinkObject::marshal and unmarshal                   *)
(* (qdocdblinkbase.cpp), in one of the two directions of a connection.     *)
(*                                                                         *)
(* A byte is named by its message and its place in it; the first kHeader   *)
(* of them hold the length of the rest, the marshalled map.  The socket    *)
(* delivers bytes in order and in portions of any size, and drops those on *)
(* their way when the connection is lost.                                  *)
(***************************************************************************)
EXTENDS Integers, Sequences, SequencesExt

CONSTANTS
    kHeader,        \* bytes of the length: 4
    Lengths,        \* lengths of marshalled maps, never 0
    MaxMessages,    \* messages sent
    MaxConnections

LinkAssumption ==
    /\ {kHeader, MaxMessages, MaxConnections} \subseteq Nat \ {0}
    /\ Lengths \subseteq Nat \ {0}

VARIABLES
    connections,    \* connections made, each with a QDocdbLinkBase of its own
    sent,           \* lengths of the messages sent
    before,         \* how many of them were sent over earlier connections
    wire,           \* bytes on their way
    socket,         \* bytes that arrived and are unread
    rxData, rxDataLength,
    reading,        \* readyRead is at work
    received        \* messages handed to receive() over this connection

vars == <<connections, sent, before, wire, socket, rxData, rxDataLength, reading, received>>

marshal(m, length) == [i \in 1..(kHeader + length) |-> <<m, i>>]

\* The length that a header holds; other bytes may hold anything, here 0.
HeldLength(bytes) == LET m == bytes[1][1] IN IF bytes = marshal(m, 0) THEN sent[m] ELSE 0

\* The messages in a frame; the map of any other bytes is empty.
unmarshal(bytes) ==
    LET m == bytes[1][1] IN IF bytes = marshal(m, sent[m]) THEN <<m>> ELSE <<>>

-----------------------------------------------------------------------------
Init ==
    /\ connections = 1 /\ sent = <<>> /\ before = 0 /\ wire = <<>> /\ socket = <<>>
    /\ rxData = <<>> /\ rxDataLength = 0 /\ reading = FALSE /\ received = <<>>

\* send: bytes of one message follow those of the one before.
send(length) ==
    /\ Len(sent) < MaxMessages
    /\ sent' = Append(sent, length)
    /\ wire' = wire \o marshal(Len(sent) + 1, length)
    /\ UNCHANGED <<connections, before, socket, rxData, rxDataLength, reading, received>>

\* Bytes arrive, and the socket signals it.  Only the event loop takes them in,
\* so none arrive while readyRead is at work.
Arrive(n) ==
    /\ ~reading
    /\ socket' = socket \o SubSeq(wire, 1, n)
    /\ wire' = SubSeq(wire, n + 1, Len(wire))
    /\ reading' = TRUE
    /\ UNCHANGED <<connections, sent, before, rxData, rxDataLength, received>>

\* One round of readyRead.  It waits for a whole header, takes as much of the
\* frame as there is, and hands a whole frame on.
Waits == rxDataLength = 0 /\ Len(socket) < kHeader

Return ==
    /\ reading
    /\ socket = <<>> \/ Waits
    /\ reading' = FALSE
    /\ UNCHANGED <<connections, sent, before, wire, socket, rxData, rxDataLength, received>>

MaxLength(length, data) == length - Len(data) + kHeader

readyRead ==
    /\ reading /\ socket # <<>> /\ ~Waits
    /\ LET begins == rxDataLength = 0
           header == IF begins THEN SubSeq(socket, 1, kHeader) ELSE rxData
           length == IF begins THEN HeldLength(header) ELSE rxDataLength
           rest == IF begins THEN SubSeq(socket, kHeader + 1, Len(socket)) ELSE socket
           n == IF length = 0 THEN 0 ELSE Min({Len(rest), MaxLength(length, header)})
           data == header \o SubSeq(rest, 1, n)
           whole == length # 0 /\ Len(data) - kHeader = length
       IN  /\ socket' = SubSeq(rest, n + 1, Len(rest))
           /\ rxData' = IF whole THEN <<>> ELSE data
           /\ rxDataLength' = IF whole THEN 0 ELSE length
           /\ received' = IF whole THEN received \o unmarshal(data) ELSE received
           /\ reading' = (length # 0)
    /\ UNCHANGED <<connections, sent, before, wire>>

disconnectedOnly ==     \* mutant: the next connection goes on with what was read over this one
    /\ ~reading
    /\ connections < MaxConnections
    /\ connections' = connections + 1
    /\ before' = Len(sent)
    /\ wire' = <<>> /\ socket' = <<>> /\ received' = <<>>
    /\ UNCHANGED <<sent, reading, rxData, rxDataLength>>

\* disconnected: the link goes, with what it had read; a new connection has a new one.
disconnected ==
    /\ ~reading
    /\ connections < MaxConnections
    /\ connections' = connections + 1
    /\ before' = Len(sent)
    /\ wire' = <<>> /\ socket' = <<>> /\ rxData' = <<>> /\ rxDataLength' = 0 /\ received' = <<>>
    /\ UNCHANGED <<sent, reading>>

Next ==
    \/ \E length \in Lengths : send(length)
    \/ \E n \in 1..Len(wire) : Arrive(n)
    \/ Return \/ readyRead \/ disconnected

Spec == Init /\ [][Next]_vars

-----------------------------------------------------------------------------
\* Whatever the portions: messages are received whole and in order, and when all
\* bytes have arrived, all messages have been received (readyRead keeps a frame,
\* or waits for a header, across its calls).
FramesRight ==
    /\ received = [i \in DOMAIN received |-> before + i]
    /\ wire = <<>> /\ ~reading => before + Len(received) = Len(sent)
=============================================================================
