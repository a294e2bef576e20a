---------------------------- MODULE MCCollection ----------------------------
(* Small instances of Collection for TLC. *)
EXTENDS Collection, TLC

CONSTANTS v1, v2, n1, n2, o1

\* Scalar values only.
ScalarParts == [v \in Val |-> <<v>>]

NoLimit == {None}
LimitOne == {1}
AllQuery == {All}
AllOrField == {All, ByField(v1)}
FieldQuery == {ByField(v1)}
IdQuery == {ById(1)}

NoDocs == {<<>>}
SomeDocs == {<<>>, <<Doc(2, v1), Doc(1, v1)>>}

SymmetricNames == Permutations(Name)
SymmetricTransactions == Permutations(Tx)
=============================================================================
