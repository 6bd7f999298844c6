------------------------------- MODULE MCSharedHandle -----------------------------
(* Small instances of SharedHandle. *)
EXTENDS SharedHandle, TLC

CONSTANTS r1, r2, x1, x2

OneRow == {r1}
TwoRows == {r1, r2}
OneFile == {x1}
TwoFiles == {x1, x2}

===================================================================================
