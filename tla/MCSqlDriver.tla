-------------------------------- MODULE MCSqlDriver -------------------------------
(* Small instances of SqlDriver. *)
EXTENDS SqlDriver, TLC

CONSTANTS p, q, v, list

TwoResults == {p, q}
OneResult == {p}
TwoTables == {"t", "u"}
OneValue == {list}
TwoValues == {v, list}

Symmetry == Permutations(Result)

===================================================================================
