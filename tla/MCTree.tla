------------------------------- MODULE MCTree -------------------------------
(* Tree on a small instance; each plan is one course.                      *)
EXTENDS Tree

MCKey == 1..3

\* A positive number writes the key, a negative one deletes it.
Writes(s) == [i \in DOMAIN s |-> [key |-> IF s[i] < 0 THEN - s[i] ELSE s[i],
                                  deleted |-> s[i] < 0]]

Course == [writes |-> <<>>, snapshots |-> 0, seeks |-> 0, manual |-> 0, cuts |-> "anywhere",
           gaps |-> FALSE]

\* Overwrites, deletions and keys between the keys of wider files.
Histories == {<<1, 3, 2, 1, 3>>, <<1, -1, 1, 2, -1>>, <<2, 1, -2, 3, 2>>, <<1, 2, 3, -2, -1>>,
              <<3, 1, -3, 3, 1>>, <<1, 2, 3, 1, 2, 3>>, <<1, 3, 2, -3, -1, 1>>,
              <<2, 2, 1, 3, -2, 2>>, <<3, 1, 2, -1, -2, -3>>, <<1, 1, -1, 3, 1, 2>>}

\* Snapshots; seek compactions; a manual compaction.
MCPlan == UNION {{[Course EXCEPT !.writes = Writes(h), !.snapshots = 1, !.cuts = "keys"],
                  [Course EXCEPT !.writes = Writes(h), !.seeks = 1],
                  [Course EXCEPT !.writes = Writes(h), !.manual = 1]} : h \in Histories}

\* Outputs end between two entries of one user key.
CutsPlan == {[Course EXCEPT !.writes = Writes(<<1, 1>>), !.snapshots = 1, !.manual = 2]}

\* A memtable is flushed while a manual compaction works.
GapsPlan == {[Course EXCEPT !.writes = Writes(<<1, 3, 1, 3, 2>>), !.manual = 1, !.gaps = TRUE]}

=============================================================================
