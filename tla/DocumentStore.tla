--------------------------- MODULE DocumentStore ---------------------------
(***************************************************************************)
(* What a collection promises a client that makes one request at a time:   *)
(* the current documents, a list of saved copies of them (the read-only    *)
(* snapshots), and requests that take effect as a whole or not at all.     *)
(* Nothing is said here of versions, tombstones, start keys or indexes.    *)
(*                                                                         *)
(* A write that the disk refused is in doubt until the collection is       *)
(* opened again; its clients write nothing before that.                    *)
(***************************************************************************)
EXTENDS Integers, Sequences, FiniteSets, SequencesExt

CONSTANTS MaxId, Val, Name, Query, Docs, Ignore, None, Matches(_, _)

VARIABLES
    current,    \* current[i] is the value of document i, or None
    saved,      \* the snapshots, oldest first: a name and a copy of current
    maybe,      \* the outcome of the write in doubt, if there is one
    answer      \* the last request and whether it succeeded

abstractVars == <<current, saved, maybe, answer>>

State(c, s) == [current |-> c, saved |-> s]
Hits(q, i) == current[i] # None /\ Matches(q, [id |-> i, f |-> current[i]])
Named(n) == {k \in DOMAIN saved : saved[k].name = n}

Init ==
    /\ current = [i \in 1..MaxId |-> None]
    /\ saved = <<>>
    /\ maybe = {}
    /\ answer = [call |-> <<"open">>, ok |-> TRUE]

\* The request succeeds and leads to c and s, or fails and changes nothing.
Attempt(call, c, s) ==
    /\ answer' \in [call : {call}, ok : BOOLEAN]
    /\ \/ /\ answer'.ok
          /\ maybe = {}
          /\ current' = c
          /\ saved' = s
          /\ UNCHANGED maybe
       \/ /\ ~answer'.ok
          /\ \/ UNCHANGED maybe
             \/ maybe = {} /\ maybe' \in {{State(c, s)}, {State(current, saved)}}
          /\ UNCHANGED <<current, saved>>

\* A request on several documents that stops at a read-only one: those before
\* it are done, or in doubt.
StopHalfway(call, c) ==
    /\ answer' = [call |-> call, ok |-> FALSE]
    /\ maybe = {}
    /\ \E half \in [1..MaxId -> Val \union {None}] :
          /\ \A i \in 1..MaxId : half[i] \in {current[i], c[i]}
          /\ \/ current' = half /\ UNCHANGED maybe
             \/ maybe' = {State(half, saved)} /\ UNCHANGED current
    /\ UNCHANGED saved

Insert(i, v, ignore) ==
    Attempt(<<"insert", i, v, ignore>>, [current EXCEPT ![i] = v], saved)

RemoveId(i, ignore) ==
    Attempt(<<"removeId", i, ignore>>, [current EXCEPT ![i] = None], saved)

RemoveQuery(q) ==
    LET c == [i \in 1..MaxId |-> IF Hits(q, i) THEN None ELSE current[i]] IN
    Attempt(<<"remove", q>>, c, saved) \/ StopHalfway(<<"remove", q>>, c)

\* The documents that match q become those of docs that match it.
SetQuery(q, docs) ==
    LET new(i) == {e \in Range(docs) : e.id = i /\ Matches(q, e)}
        c == [i \in 1..MaxId |->
                IF new(i) # {} THEN (CHOOSE e \in new(i) : TRUE).f
                ELSE IF Hits(q, i) THEN None ELSE current[i]]
    IN Attempt(<<"set", q, docs>>, c, saved) \/ StopHalfway(<<"set", q, docs>>, c)

NewSnapshot(n) ==
    /\ \/ /\ Named(n) = {}
          /\ Attempt(<<"newSnapshot", n>>, current, Append(saved, [name |-> n, docs |-> current]))
       \/ /\ Named(n) # {}
          /\ answer' = [call |-> <<"newSnapshot", n>>, ok |-> FALSE]
          /\ UNCHANGED <<current, saved, maybe>>

\* The copy becomes current again; it and the ones behind it are gone.
RevertToSnapshot(n) ==
    \/ \E k \in Named(n) :
        Attempt(<<"revert", n>>, saved[k].docs, SubSeq(saved, 1, k - 1))
    \/ /\ Named(n) = {}
       /\ answer' = [call |-> <<"revert", n>>, ok |-> FALSE]
       /\ UNCHANGED <<current, saved, maybe>>

RemoveSnapshot(n) ==
    \/ \E k \in Named(n) :
        Attempt(<<"removeSnapshot", n>>, current, RemoveAt(saved, k))
    \/ /\ Named(n) = {}
       /\ answer' = [call |-> <<"removeSnapshot", n>>, ok |-> FALSE]
       /\ UNCHANGED <<current, saved, maybe>>

CreateIndex == Attempt(<<"createIndex">>, current, saved)

Open ==
    /\ answer' = [call |-> <<"open">>, ok |-> TRUE]
    /\ State(current', saved') \in {State(current, saved)} \union maybe
    /\ maybe' = {}

Next ==
    \/ \E i \in 1..MaxId, ignore \in Ignore :
        RemoveId(i, ignore) \/ \E v \in Val : Insert(i, v, ignore)
    \/ \E q \in Query : RemoveQuery(q) \/ \E docs \in Docs : SetQuery(q, docs)
    \/ \E n \in Name : NewSnapshot(n) \/ RevertToSnapshot(n) \/ RemoveSnapshot(n)
    \/ CreateIndex
    \/ Open

Spec == Init /\ [][Next]_abstractVars
=============================================================================
