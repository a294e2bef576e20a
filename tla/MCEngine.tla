------------------------------- MODULE MCEngine -------------------------------
(* Small instances of Engine for TLC.                                      *)
EXTENDS Engine, TLC
CONSTANTS w1, w2, c1, r1

MCBatchOf == w1 :> <<"x", "y">> @@ w2 :> <<"x">>

Calls(a, b, c, r) == w1 :> a @@ w2 :> b @@ c1 :> c @@ r1 :> r

\* Three courses: a manual compaction beside the writers; a reader beside them;
\* failing calls, synchronous writes, and closing.
Calm == [recovered |-> TRUE, calls |-> Calls(1, 1, 1, 0), sync |-> {FALSE},
         seeks |-> FALSE, close |-> FALSE, faults |-> {}]
MCPlan ==
    {Calm,
     [Calm EXCEPT !.calls = Calls(2, 1, 0, 1), !.seeks = TRUE, !.recovered = FALSE],
     [Calm EXCEPT !.calls = Calls(2, 1, 0, 0), !.sync = BOOLEAN, !.close = TRUE,
                  !.faults = {"newfile", "addrecord", "sync", "build", "manifest"}]}
===============================================================================
