------------------------------ MODULE MCServer ------------------------------
(* A small instance of Server for TLC. *)
EXTENDS Server, TLC

CONSTANTS c1, c2

\* One client sends more requests than the other.
FewRequests == c1 :> 1 @@ c2 :> 3

\* Nobody asks for an observer number of its own.
NoPreference == {-1}
=============================================================================
