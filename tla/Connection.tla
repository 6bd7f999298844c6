-------------------------------- MODULE Connection -------------------------------
(***************************************************************************)
(* One connection of SQLite, as qsql_sqlite.cpp and SyncableDatabase.cpp   *)
(* use it: what the connection sees, what is on disk, whether it is in     *)
(* autocommit mode, and which statements have written and not come to      *)
(* their end.  SQLite commits by itself when the last such statement ends; *)
(* an INSERT ... RETURNING ends only when its rows are read to the end or  *)
(* it is reset.  The journal is one with rollback, so that a commit waits  *)
(* for the readers of other processes and may fail.                        *)
(***************************************************************************)

Fresh(content) == [now |-> content, saved |-> content, auto |-> TRUE, writers |-> {}]

Kept(c) == [c EXCEPT !.saved = c.now, !.auto = TRUE]

Undone(c) == [c EXCEPT !.now = c.saved, !.auto = TRUE]

InProgress(c) == c.writers # {}

\* The writing statement w comes to its end, and its commit succeeds or fails.
Halted(c, w) ==
  LET left == [c EXCEPT !.writers = @ \ {w}]
  IN  IF ~ c.auto \/ InProgress(left) THEN {[ok |-> TRUE, c |-> left]}
      ELSE {[ok |-> TRUE, c |-> Kept(left)]}
           \cup (IF c.now = c.saved THEN {} ELSE {[ok |-> FALSE, c |-> Undone(left)]})

\* BEGIN, COMMIT and ROLLBACK: what they may do, and what is the case when they are refused.
Begun(c) == IF c.auto THEN {[ok |-> TRUE, c |-> [c EXCEPT !.auto = FALSE]]}
            ELSE {[ok |-> FALSE, c |-> c]}

Committed(c) ==
  {[ok |-> FALSE, c |-> c]} \cup
  (IF c.auto \/ InProgress(c) THEN {} ELSE {[ok |-> TRUE, c |-> Kept(c)]})

RolledBack(c) == IF c.auto THEN {[ok |-> FALSE, c |-> c]} ELSE {[ok |-> TRUE, c |-> Undone(c)]}

\* What can be on disk after sqlite3_close, all statements being finalized before:
\* an open transaction is lost, a statement that ends commits.
Closed(c) ==
  IF c.auto /\ InProgress(c) THEN {c.now, c.saved} ELSE {c.saved}

===================================================================================
