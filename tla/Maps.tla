-------------------------------- MODULE Maps --------------------------------
(***************************************************************************)
(* Maps as functions: what insert and remove of the program's QMap, QHash  *)
(* and std::map do.                                                        *)
(***************************************************************************)
\* The map f with y entered for x, whatever was entered before.
With(f, x, y) == [z \in DOMAIN f \union {x} |-> IF z = x THEN y ELSE f[z]]

\* The map f with nothing entered for x.
Without(f, x) == [z \in DOMAIN f \ {x} |-> f[z]]

\* The map f, and what g has entered besides.
Over(f, g) == [z \in DOMAIN f \union DOMAIN g |-> IF z \in DOMAIN f THEN f[z] ELSE g[z]]
=============================================================================
