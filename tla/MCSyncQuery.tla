-------------------------------- MODULE MCSyncQuery -------------------------------
(* Small instances of SyncQuery. *)
EXTENDS SyncQuery, TLC

CONSTANTS p, q, v, w

TwoQueries == {p, q}
TwoValues == {v, w}

Symmetry == Permutations(Query) \cup Permutations(Value)

===================================================================================
