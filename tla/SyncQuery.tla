--------------------------------- MODULE SyncQuery --------------------------------
(***************************************************************************)
(* Prepared queries, SyncQuery.cpp: objects that each own a statement of   *)
(* SQLite, on one connection and one thread.  The statements are           *)
(*   "insert"     INSERT INTO t VALUES (?)                                 *)
(*   "returning"  INSERT INTO t VALUES (?) RETURNING v                     *)
(*   "select"     SELECT v FROM t ORDER BY rowid                           *)
(* A statement of SQLite is "ready" to start, stands on a "row", or is     *)
(* "done"; a step of one that is done starts it again.  exec(sql) is       *)
(* Prepare followed by Exec.                                               *)
(***************************************************************************)
EXTENDS Naturals, Sequences, FiniteSets

CONSTANTS Query,          \* the SyncQuery objects
          Value,          \* what is inserted
          Null,           \* the value of a parameter that was not bound
          None,           \* no statement
          MaxStatements,  \* bound: how many statements are prepared
          MaxRows         \* bound: the rows of the table

ASSUME SyncQueryAssumption ==
  /\ Null \notin Value
  /\ MaxStatements \in Nat /\ MaxRows \in Nat
  /\ None \notin Nat

VARIABLES
  table,   \* the values in t, in the order of their rowids
  made,    \* how many statements have been prepared; they are numbered from 1
  live,    \* live[s]: the state of statement s, while it is not finalized
  stmt,    \* stmt[q]: the statement of q, or None
  error,   \* error[q]: lastDbError is not empty
  past,    \* history of q: `asked`, the value last given to bindValue(); `read`,
           \*   the rowids of the rows next() has returned since exec(); `fresh`,
           \*   not executed yet
  log      \* history of table: for each row, what its statement was asked to insert,
           \*   and whether it was executed for the first time

vars == <<table, made, live, stmt, error, past, log>>

Kind == {"insert", "returning", "select"}

-----------------------------------------------------------------------------------
(* SQLite. *)

\* What a step of statement s may do: give a row, end, or fail.
GivesRow(s, at, rows) == [code |-> "row", table |-> rows, s |-> [s EXCEPT !.vm = "row", !.at = at]]

Ends(s, code, rows) == [code |-> code, table |-> rows, s |-> [s EXCEPT !.vm = "done"]]

Step(s) ==
  LET next == IF s.vm = "row" THEN s.at + 1 ELSE 1
      more == Append(table, s.bound)
  IN  IF s.kind = "select"
        THEN {IF next <= Len(table) THEN GivesRow(s, next, table) ELSE Ends(s, "done", table)}
      ELSE IF s.vm = "row" THEN {Ends(s, "done", table)}
      ELSE {Ends(s, "error", table),
            IF s.kind = "insert" THEN Ends(s, "done", more) ELSE GivesRow(s, Len(more), more)}

Reset(s) == [s EXCEPT !.vm = "ready", !.at = 0]

\* sqlite3_bind: refused with SQLITE_MISUSE by a statement that is not ready; and
\* the slip of counting the parameters from 0, which is refused always.
BoundFromZero(s, v) == s

Bound(s, v) == IF s.vm = "ready" THEN [s EXCEPT !.bound = v] ELSE s

\* The statements that are left when that of q is finalized.
Without(q) == [s \in DOMAIN live \ {stmt[q]} |-> live[s]]

-----------------------------------------------------------------------------------
(* SyncQuery. *)

\* The history of a statement that has just been prepared, or of none.
NoPast == [asked |-> Null, read |-> << >>, fresh |-> TRUE]

Init ==
  /\ table = << >> /\ made = 0 /\ live = << >>
  /\ stmt = [q \in Query |-> None]
  /\ error = [q \in Query |-> FALSE]
  /\ past = [q \in Query |-> NoPast]
  /\ log = << >>

\* prepare() of a good statement, and of one that SQLite does not accept.
Prepare(q) ==
  /\ made < MaxStatements
  /\ \E kind \in Kind :
       LET new == [kind |-> kind, vm |-> "ready", bound |-> Null, at |-> 0]
       IN  live' = [s \in DOMAIN Without(q) \cup {made + 1} |->
                      IF s = made + 1 THEN new ELSE live[s]]
  /\ made' = made + 1
  /\ stmt' = [stmt EXCEPT ![q] = made + 1]
  /\ error' = [error EXCEPT ![q] = FALSE]
  /\ past' = [past EXCEPT ![q] = NoPast]
  /\ UNCHANGED <<table, log>>

Finalize(q, failed) ==
  /\ live' = Without(q)
  /\ stmt' = [stmt EXCEPT ![q] = None]
  /\ error' = [error EXCEPT ![q] = failed]
  /\ past' = [past EXCEPT ![q] = NoPast]
  /\ UNCHANGED <<table, made, log>>

PrepareFails(q) == Finalize(q, TRUE)

\* The object is destroyed, and another one constructed.
Destroy(q) == Finalize(q, FALSE)

BindValue(q) ==
  /\ stmt[q] # None
  /\ \E v \in Value :
       /\ live' = [live EXCEPT ![stmt[q]] = Bound(@, v)]
       /\ past' = [past EXCEPT ![q].asked = v]
  /\ UNCHANGED <<table, made, stmt, error, log>>

\* A row that q has inserted is logged.
Logged(q) ==
  log' = IF table' = table THEN log
         ELSE Append(log, [asked |-> past[q].asked, first |-> past[q].fresh])

\* How exec() leaves the statement after a step: reset, if it gave a row, for
\* next() to begin there; and the slip of leaving it on that row.
LeftOnRow(step) == step.s

Left(step) == IF step.code = "row" THEN Reset(step.s) ELSE step.s

Exec(q) ==
  /\ stmt[q] # None /\ Len(table) < MaxRows
  /\ \E step \in Step(live[stmt[q]]) :
       /\ table' = step.table
       /\ live' = [live EXCEPT ![stmt[q]] = Left(step)]
       /\ error' = [error EXCEPT ![q] = step.code = "error"]
  /\ past' = [past EXCEPT ![q].read = << >>, ![q].fresh = FALSE]
  /\ Logged(q)
  /\ UNCHANGED <<made, stmt>>

ExecUnprepared(q) ==
  /\ stmt[q] = None
  /\ error' = [error EXCEPT ![q] = TRUE]
  /\ UNCHANGED <<table, made, live, stmt, past, log>>

\* next(), followed by value().
NextRow(q) ==
  /\ stmt[q] # None /\ Len(table) < MaxRows
  /\ \E step \in Step(live[stmt[q]]) :
       /\ table' = step.table
       /\ live' = [live EXCEPT ![stmt[q]] = step.s]
       /\ error' = [error EXCEPT ![q] = @ \/ step.code = "error"]
       /\ past' = [past EXCEPT ![q].fresh = FALSE,
                               ![q].read = IF step.code = "row"
                                 THEN Append(@, step.s.at) ELSE << >>]
  /\ Logged(q)
  /\ UNCHANGED <<made, stmt>>

\* The statements of all objects after q is assigned from r; and the slip of
\* leaving r its statement.
MovedShared(q, r) == [stmt EXCEPT ![q] = stmt[r]]

Moved(q, r) == [stmt EXCEPT ![q] = stmt[r], ![r] = None]

\* q = std::move(r), or q constructed from r.
Move(q, r) ==
  /\ q # r
  /\ live' = Without(q)
  /\ stmt' = Moved(q, r)
  /\ error' = [error EXCEPT ![q] = error[r], ![r] = FALSE]
  /\ past' = [past EXCEPT ![q] = past[r], ![r] = NoPast]
  /\ UNCHANGED <<table, made, log>>

Next ==
  \E q \in Query :
    \/ Prepare(q) \/ PrepareFails(q) \/ BindValue(q)
    \/ Exec(q) \/ ExecUnprepared(q) \/ NextRow(q)
    \/ \E r \in Query : Move(q, r)
    \/ Destroy(q)

Spec == Init /\ [][Next]_vars

-----------------------------------------------------------------------------------
(* Properties. *)

Statement == [kind : Kind, vm : {"ready", "row", "done"}, bound : Value \cup {Null}, at : Nat]

TypeOK ==
  /\ table \in Seq(Value \cup {Null})
  /\ made \in Nat
  /\ DOMAIN live \subseteq 1 .. made /\ \A s \in DOMAIN live : live[s] \in Statement
  /\ stmt \in [Query -> DOMAIN live \cup {None}]
  /\ error \in [Query -> BOOLEAN]
  /\ past \in [Query -> [asked : Value \cup {Null}, read : Seq(Nat), fresh : BOOLEAN]]
  /\ log \in Seq([asked : Value \cup {Null}, first : BOOLEAN]) /\ Len(log) = Len(table)

\* Every statement that is not finalized belongs to exactly one object, and no
\* object has a statement that is finalized: none leaks and none is finalized
\* twice, whatever is prepared again, moved and destroyed.
OwnedOnce ==
  /\ \A s \in DOMAIN live : \E q \in Query : stmt[q] = s
  /\ \A q \in Query : stmt[q] # None => stmt[q] \in DOMAIN live
  /\ \A q, r \in Query : (stmt[q] = stmt[r] /\ stmt[q] # None) => q = r

\* After exec() of a query, next() returns the rows of the table from the first
\* one on, without a gap, although exec() has stepped onto the first row and
\* others may insert meanwhile.
ReadsFromFirst ==
  \A q \in Query : (stmt[q] # None /\ live[stmt[q]].kind = "select") =>
    \A i \in DOMAIN past[q].read : past[q].read[i] = i /\ i <= Len(table)

\* What a statement inserts when it is executed for the first time is the value
\* that bindValue() was last given for it, also when the object was moved since.
FirstInsertAsAsked == \A i \in DOMAIN log : log[i].first => table[i] = log[i].asked

===================================================================================
