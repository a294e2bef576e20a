----------------------------- MODULE MCRecovery -----------------------------
(* Recovery on a small instance.  Each plan is one fault model.            *)
EXTENDS Recovery

Course == [faults |-> {}, replayed |-> "last", renaming |-> FALSE, repair |-> "no",
           impatient |-> FALSE]
AllCalls == {"newdb", "tmp", "replay", "readlog", "newlog", "manifest", "descriptor",
             "rename"}

\* Crashes with calls that fail; crashes with repairs.
MCPlan == {[Course EXCEPT !.faults = AllCalls], [Course EXCEPT !.repair = "filled", !.faults = {"tmp"}]}

\* A crash between the halves of RenameFile.
RenamingPlan == {[Course EXCEPT !.renaming = TRUE]}

\* A failed table while any log is replayed.
ReplayPlan == {[Course EXCEPT !.faults = {"replay"}, !.replayed = "any"]}

\* A log with records that cannot be opened.
UnreadPlan == {[Course EXCEPT !.faults = {"readlog"}, !.replayed = "any"]}

\* A database opened although its repair was not finished.
ImpatientPlan == {[Course EXCEPT !.repair = "filled", !.impatient = TRUE]}

=============================================================================
