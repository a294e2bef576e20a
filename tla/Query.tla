-------------------------------- MODULE Query --------------------------------
(***************************************************************************)
(* The evaluation of a query: QDocCollection::find, checkValidR and        *)
(* applyOptions (qdoccollection.cpp), on QDocUtils::getJsonValueByPath,    *)
(* compare and multiply (qdocutils.cpp).                                   *)
(*                                                                         *)
(* A JSON value is a pair of its type and its content.  Strings and        *)
(* numbers are naturals, the content of an array is a sequence, that of an *)
(* object in a document a function from names.  The content of an object   *)
(* in a query is the sequence of its entries in the order of their keys:   *)
(* key is an operator or "field", path the names in a dotted field.        *)
(* The parts of $or and $and are objects: for another part the code reads  *)
(* a flag that was never set.                                              *)
(***************************************************************************)
EXTENDS Integers, Sequences, FiniteSets, SequencesExt

CONSTANT Plan       \* the searches: [docs, indexed, query, malformed, orderBy,
                    \* up, limit]; no option is <<>>, a limit of 2 <<2>>

VARIABLES
    search,         \* the search: documents in the order of their ids, the
                    \* paths with an index, the query and the options
    keys,           \* the documents still to be looked at, by number
    byLink,         \* whether they are link keys
    reply,          \* the numbers of the documents found
    r,              \* the result of find
    pc,             \* "find", "visit", "sort", "limit" or "done"
    at, swapped,    \* the loops of applyOptions
    passes          \* how often the outer loop began, for SortEnds only

vars == <<search, keys, byLink, reply, r, pc, at, swapped, passes>>

Undefined == <<"undefined">>
Nothing == <<>>

\* getJsonValueByPath, one name at a time.
Place == [n \in {"0", "1"} |-> IF n = "0" THEN 1 ELSE 2]
Child(value, name) ==
    CASE value[1] = "object" /\ name \in DOMAIN value[2] -> value[2][name]
      [] value[1] = "array" /\ name \in DOMAIN Place ->
            IF Place[name] \in DOMAIN value[2] THEN value[2][Place[name]] ELSE Undefined
      [] OTHER -> Undefined
GetJsonValueByPath(value, path) == FoldLeft(Child, value, path)

Comparisons == {"$gt", "$gte", "$lt", "$lte"}

\* Mutant of Compare: equal values count as greater and as less.
CompareLoosely(a, b, oper) ==
    /\ a[1] = b[1] /\ a[1] \in {"double", "string"}
    /\ IF oper \in {"$gt", "$gte"} THEN a[2] >= b[2] ELSE a[2] <= b[2]

\* Only two numbers or two strings compare.
Compare(a, b, oper) ==
    /\ a[1] = b[1] /\ a[1] \in {"double", "string"}
    /\ \/ oper \in {"$gt", "$gte"} /\ a[2] > b[2]
       \/ oper \in {"$lt", "$lte"} /\ a[2] < b[2]
       \/ oper \in {"$gte", "$lte"} /\ a[2] = b[2]

Valid(b) == [r |-> "success", valid |-> b]
Error == [r |-> "errorQuery", valid |-> FALSE]

\* checkValidR: the entries one after the other, up to the first error; $or and
\* $and stop at the first part that decides them.
RECURSIVE CheckValidR(_, _)
CheckEntry(e, value) ==
    LET until(b) == FoldLeft(LAMBDA a, p : IF a.r # "success" \/ a.valid = b THEN a
                                           ELSE CheckValidR(p, value),
                             Valid(~b), e.arg[2])
        negated(a) == IF a.r = "success" THEN Valid(~a.valid) ELSE a
        inside == GetJsonValueByPath(value, e.path)
    IN CASE e.key = "$exists" /\ e.arg[1] = "bool" -> Valid(e.arg[2] = (value # Undefined))
         [] e.key \in Comparisons -> Valid(Compare(value, e.arg, e.key))
         [] e.key = "$in" /\ e.arg[1] = "array" -> Valid(value \in Range(e.arg[2]))
         [] e.key = "$or" /\ e.arg[1] = "array" -> until(TRUE)
         [] e.key = "$and" /\ e.arg[1] = "array" -> until(FALSE)
         [] e.key = "$not" -> negated(CheckValidR(e.arg, value))
         [] e.key = "field" /\ e.arg[1] = "object" -> CheckValidR(e.arg, inside)
         [] e.key = "field" /\ e.arg[1] # "object" ->
                Valid(IF inside[1] = "array" THEN e.arg \in Range(inside[2]) ELSE inside = e.arg)
         [] OTHER -> Error
CheckValidR(part, value) ==
    IF part[1] # "object" THEN Valid(TRUE)
    ELSE FoldLeft(LAMBDA a, e : IF a.r # "success" THEN a
                                ELSE LET b == CheckEntry(e, value)
                                     IN IF b.r # "success" THEN b ELSE Valid(a.valid /\ b.valid),
                  Valid(TRUE), part[2])

-----------------------------------------------------------------------------
(* The documents that find looks at.                                       *)

\* multiply erases from the list it iterates over.  QList moves the shorter
\* side: the iterator then stands before the next element, or on it, which is
\* skipped; erasing the last of several elements takes it past the end, where
\* anything may be found.
RECURSIVE MultiplyFrom(_, _, _)
MultiplyFrom(a, b, i) ==
    CASE i > Len(a) + 1 -> [r |-> "undefined", keys |-> a]
      [] i = Len(a) + 1 -> [r |-> "success", keys |-> a]
      [] i <= Len(a) /\ a[i] \in Range(b) -> MultiplyFrom(a, b, i + 1)
      [] OTHER -> MultiplyFrom(RemoveAt(a, i), b, IF 2 * (i - 1) < Len(a) THEN i ELSE i + 1)
Multiply(a, b) == MultiplyFrom(a, b, 1)

\* The index of a path links each value to the documents that hold it.
LinkKeys(path, value) ==
    SelectSeq([i \in DOMAIN search.docs |-> i],
              LAMBDA i : GetJsonValueByPath(search.docs[i], path) = value)

\* The keys after an index: its own, or those that were there before as well.
IndexKeys(first, found, links) ==
    CASE links = <<>> -> [r |-> "errorDatabase", keys |-> <<>>]
      [] links # <<>> /\ first -> [r |-> "success", keys |-> links]
      [] OTHER -> Multiply(found, links)

\* What the entries on _id and on indexed fields lead to.
FirstKeys ==
    LET ids(arg) == CASE arg[1] = "array" -> SelectSeq(arg[2], LAMBDA v : v[1] = "string")
                      [] arg[1] = "string" -> <<arg>>
                      [] OTHER -> <<>>
        step(a, e) ==
            CASE a.r # "success" \/ e.key # "field" -> a
              [] a.r = "success" /\ e.key = "field" /\ e.path = <<"_id">> ->
                    [a EXCEPT !.first = FALSE,
                              !.keys = @ \o [n \in DOMAIN ids(e.arg) |-> ids(e.arg)[n][2]]]
              [] a.r = "success" /\ e.key = "field" /\ e.path # <<"_id">>
                 /\ e.path \in search.indexed /\ e.arg[1] \notin {"array", "object"} ->
                    LET k == IndexKeys(a.first, a.keys, LinkKeys(e.path, e.arg))
                    IN [first |-> FALSE, keys |-> k.keys, r |-> k.r]
              [] OTHER -> a
    IN FoldLeft(step, [first |-> TRUE, keys |-> <<>>, r |-> "success"], search.query[2])

-----------------------------------------------------------------------------
Init ==
    /\ search \in Plan
    /\ keys = <<>> /\ byLink = FALSE /\ reply = <<>> /\ r = "success" /\ pc = "find"
    /\ at = 1 /\ swapped = FALSE /\ passes = 0

\* find up to its loop: link keys, or every document.
Find ==
    /\ pc = "find"
    /\ r' = FirstKeys.r
    /\ byLink' = ~FirstKeys.first
    /\ keys' = IF FirstKeys.first THEN [i \in DOMAIN search.docs |-> i] ELSE FirstKeys.keys
    /\ pc' = IF FirstKeys.r = "success" THEN "visit" ELSE "done"
    /\ UNCHANGED <<search, reply, at, swapped, passes>>

\* One document of the loop; a link key may lead nowhere.
Visit ==
    /\ pc = "visit" /\ keys # <<>>
    /\ LET here == Head(keys)
           a == IF here \in DOMAIN search.docs THEN CheckValidR(search.query, search.docs[here])
                ELSE Valid(FALSE)
       IN /\ r' = a.r
          /\ reply' = IF a.valid THEN Append(reply, here) ELSE reply
          /\ pc' = IF a.r = "success" THEN pc ELSE "done"
    /\ keys' = Tail(keys)
    /\ UNCHANGED <<search, byLink, at, swapped, passes>>

\* A search by link keys has no options.
VisitedAll ==
    /\ pc = "visit" /\ keys = <<>>
    /\ pc' = CASE byLink -> "done"
               [] ~byLink /\ search.orderBy # Nothing -> "sort"
               [] OTHER -> "limit"
    /\ passes' = 1
    /\ UNCHANGED <<search, keys, byLink, reply, r, at, swapped>>

\* applyOptions, $orderBy: neighbours in the wrong order change places, again
\* and again until a pass changes nothing.
OrderValue(i) == GetJsonValueByPath(search.docs[i], search.orderBy)
Wrong(i, j) == Compare(OrderValue(i), OrderValue(j), IF search.up THEN "$gt" ELSE "$lt")
CompareNeighbours ==
    /\ pc = "sort" /\ at < Len(reply)
    /\ LET i == reply[at]
           j == reply[at + 1]
       IN IF Wrong(i, j)
          THEN swapped' = TRUE /\ reply' = [reply EXCEPT ![at] = j, ![at + 1] = i]
          ELSE UNCHANGED <<swapped, reply>>
    /\ at' = at + 1
    /\ UNCHANGED <<search, keys, byLink, r, pc, passes>>
NextPass ==
    /\ pc = "sort" /\ at >= Len(reply)
    /\ at' = 1 /\ swapped' = FALSE
    /\ IF swapped THEN passes' = passes + 1 /\ UNCHANGED pc ELSE pc' = "limit" /\ UNCHANGED passes
    /\ UNCHANGED <<search, keys, byLink, reply, r>>

\* applyOptions, $limit.
Smaller(m, n) == IF m < n THEN m ELSE n
ApplyLimit ==
    /\ pc = "limit"
    /\ reply' = IF search.limit = Nothing THEN reply
                ELSE SubSeq(reply, 1, Smaller(search.limit[1], Len(reply)))
    /\ pc' = "done"
    /\ UNCHANGED <<search, keys, byLink, r, at, swapped, passes>>

Next == Find \/ Visit \/ VisitedAll \/ CompareNeighbours \/ NextPass \/ ApplyLimit

Spec == Init /\ [][Next]_vars

-----------------------------------------------------------------------------
(* What the operators promise, without the loops and early returns.        *)

RECURSIVE Satisfies(_, _)
Satisfies(value, part) ==
    \A n \in DOMAIN part[2] :
        LET e == part[2][n]
            inside == GetJsonValueByPath(value, e.path)
        IN CASE e.key = "$exists" -> e.arg[2] <=> value # Undefined
             [] e.key = "$in" -> \E m \in DOMAIN e.arg[2] : e.arg[2][m] = value
             [] e.key = "$or" -> \E m \in DOMAIN e.arg[2] : Satisfies(value, e.arg[2][m])
             [] e.key = "$and" -> \A m \in DOMAIN e.arg[2] : Satisfies(value, e.arg[2][m])
             [] e.key = "$not" -> ~Satisfies(value, e.arg)
             [] e.key = "field" ->
                    \/ e.arg[1] = "object" /\ Satisfies(inside, e.arg)
                    \/ e.arg[1] # "object" /\ e.arg = inside
                    \/ inside[1] = "array" /\ \E m \in DOMAIN inside[2] : inside[2][m] = e.arg
             [] OTHER -> /\ value[1] = e.arg[1] /\ value[1] \in {"double", "string"}
                         /\ CASE e.key = "$gt" -> value[2] > e.arg[2]
                              [] e.key = "$gte" -> ~(value[2] < e.arg[2])
                              [] e.key = "$lt" -> value[2] < e.arg[2]
                              [] e.key = "$lte" -> ~(value[2] > e.arg[2])

Matching == {i \in DOMAIN search.docs : Satisfies(search.docs[i], search.query)}

\* A find by _id, by indexes or through all documents answers with the
\* documents that satisfy the query, each of them once and as many as $limit
\* allows.  An error other than that of a malformed query, which the searches
\* mark, tells that nothing matches: that of an index without the value.
FindsMatching ==
    pc = "done" /\ ~search.malformed =>
        /\ Range(reply) \subseteq Matching
        /\ Cardinality(Range(reply)) = Len(reply)
        /\ r = "success" =>
              Len(reply) = IF search.limit = Nothing THEN Cardinality(Matching)
                           ELSE Smaller(search.limit[1], Cardinality(Matching))
        /\ r # "success" => r = "errorDatabase" /\ Matching = {}

\* $orderBy sorts when all values compare, keeps the order of equal ones, and
\* $limit takes the first of all: what stays out comes after what is in.
Comparable == \A i, j \in Matching : OrderValue(i)[1] = OrderValue(j)[1]
                                     /\ OrderValue(i)[1] \in {"double", "string"}
Sorted ==
    pc = "done" /\ r = "success" /\ ~byLink /\ search.orderBy # Nothing /\ Comparable =>
        /\ \A m, n \in DOMAIN reply : m < n =>
              ~Wrong(reply[m], reply[n]) /\ (Wrong(reply[n], reply[m]) \/ reply[m] < reply[n])
        /\ \A i \in Matching \ Range(reply), n \in DOMAIN reply : ~Wrong(reply[n], i)

\* The loop of $orderBy ends, also over values of which some do not compare:
\* after as many passes as there are documents nothing is left to swap.
SortEnds == passes <= Len(reply) + 1 \/ pc = "done"
=============================================================================
