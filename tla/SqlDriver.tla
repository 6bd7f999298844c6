--------------------------------- MODULE SqlDriver --------------------------------
(***************************************************************************)
(* The QSQLITE_SYNC driver, qsql_sqlite.cpp: QSqlQuery objects, each with  *)
(* a QSQLiteResult that owns a statement, on one QSQLiteDriver and so one  *)
(* connection.  The statements are                                         *)
(*   "insert"     INSERT INTO t VALUES (?)                                 *)
(*   "returning"  INSERT INTO t VALUES (?) RETURNING v                     *)
(*   "select"     SELECT v FROM t ORDER BY rowid                           *)
(* exec() of a result steps its statement once to learn whether it gives   *)
(* rows, keeps that row, and hands it out at the first next().  QSqlQuery  *)
(* and QSqlCachedResult belong to Qt and are modelled as the driver uses   *)
(* them.  exec(sql) is Prepare followed by Exec.                           *)
(***************************************************************************)
EXTENDS Integers, Sequences, FiniteSets, Connection

CONSTANTS Result,    \* the QSqlQuery objects, each with its QSQLiteResult
          Value,     \* what is inserted
          List,      \* the value as which SQLite stores a QVariantList
          None,      \* no statement, or no value bound
          Table,     \* the tables to subscribe to
          Surplus,   \* more values bound than the statement has parameters
          MaxRows,   \* bound: the rows of the table
          MaxNotes   \* bound: the queued calls

Kind == {"insert", "returning", "select"}

ASSUME SqlDriverAssumption ==
  /\ List \in Value
  /\ None \notin Value \cup Kind /\ Surplus \notin Value /\ None # Surplus
  /\ MaxRows \in Nat /\ MaxNotes \in Nat

VARIABLES
  isOpen,  \* QSqlDriver::isOpen; isOpenError is never set while it holds
  db,      \* the connection; its contents are the values of t in order of rowid
  res,     \* res[r]: the state of result r
  subs,    \* notificationid
  hooked,  \* an update hook is installed
  notes    \* how many calls of handleNotification are queued, all for t

vars == <<isOpen, db, res, subs, hooked, notes>>

Before == -1   \* QSql::BeforeFirstRow
After == -2    \* QSql::AfterLastRow

Written == "t"   \* the table that the statements write

Writes(kind) == kind \in {"insert", "returning"}
Columns(kind) == kind \in {"returning", "select"}

(***************************************************************************)
(* A result:                                                               *)
(*   kind   its statement, or None       at     the row the statement is   *)
(*   bound  the parameter in SQLite             on, 0 if it is ready       *)
(*   given  the values of QSqlResult     pos    QSqlResult::at             *)
(*   mode   "inactive", "active" (isActive), "select" (also isSelect)      *)
(*   skip   skipRow                      cache  the rows the cache holds   *)
(*   held   firstRow, until it is handed out; 0, skippedStatus being FALSE *)
(*   ended  QSqlCachedResult: the end has been reached                     *)
(* and the history since its last exec:                                    *)
(*   want   what was to be inserted      made   what was inserted          *)
(*   ok     what exec returned                                             *)
(***************************************************************************)
Emptied(s) == [s EXCEPT !.pos = Before, !.skip = FALSE, !.held = 0, !.cache = << >>, !.ended = FALSE]

NoResult == [kind |-> None, at |-> 0, bound |-> None, given |-> None, mode |-> "inactive",
             pos |-> Before, skip |-> FALSE, held |-> 0, cache |-> << >>, ended |-> FALSE,
             want |-> << >>, made |-> << >>, ok |-> FALSE]

\* finalize(); and the slip of leaving the pointer to the statement as it is.
FinalizedOnly(s) == s

Finalized(s) == [s EXCEPT !.kind = None, !.at = 0, !.bound = None]

Init ==
  /\ isOpen = FALSE
  /\ db = Fresh(<< >>)
  /\ res = [r \in Result |-> NoResult]
  /\ subs = {} /\ hooked = FALSE /\ notes = 0

-----------------------------------------------------------------------------------
(* SQLite. *)

\* What sqlite3_step may do for the statement of r: stand on row `at`, end, or fail, having
\* inserted `new`.
Stepped(c, s, r) ==
  LET next == IF s.at < Len(c.now) THEN s.at + 1 ELSE 0
      more == [c EXCEPT !.now = Append(@, s.bound)]
      Step(at, error, to, new) == [at |-> at, error |-> error, c |-> to, new |-> new]
      Ends(hs, new) == {Step(0, ~ h.ok, h.c, new) : h \in hs}
  IN  IF s.kind = "select" THEN {Step(next, FALSE, c, << >>)}
      ELSE IF s.at > 0 THEN Ends(Halted(c, r), << >>)
      ELSE {Step(0, TRUE, c, << >>)} \cup
           (IF Len(c.now) >= MaxRows THEN {}
            ELSE IF s.kind = "insert" THEN Ends(Halted(more, r), <<s.bound>>)
            ELSE {Step(Len(more.now), FALSE, [more EXCEPT !.writers = @ \cup {r}], <<s.bound>>)})

\* sqlite3_reset and sqlite3_finalize end the statement.
Ended(c, r) == IF r \in c.writers THEN Halted(c, r) ELSE {[ok |-> TRUE, c |-> c]}

\* sqlite3_bind on a statement that is not ready is SQLITE_MISUSE.
Bindable(s) == s.at = 0

-----------------------------------------------------------------------------------
(* QSQLiteResult and QSqlCachedResult. *)

Params(kind) == IF Writes(kind) THEN 1 ELSE 0
Given(s) == IF s.given = None THEN 0 ELSE IF s.given = Surplus THEN 2 ELSE 1

\* fetchNext() past its first lines: the row it gives, or 0, and whether it sets an error.
Fetch(c, s, r, initial) ==
  IF s.kind = None
    THEN {[row |-> 0, error |-> TRUE, c |-> c, s |-> [s EXCEPT !.skip = initial, !.pos = After]]}
  ELSE {[row |-> st.at, error |-> st.error, c |-> st.c,
         s |-> [s EXCEPT !.skip = initial,
                         !.at = st.at,
                         !.held = IF initial THEN st.at ELSE @,
                         !.pos = IF st.at = 0 THEN After ELSE @,
                         !.made = @ \o st.new]] : st \in Stepped(c, s, r)}

FetchNext(c, s, r, initial) ==
  IF s.skip
    THEN {[row |-> s.held, error |-> FALSE, c |-> c, s |-> [s EXCEPT !.skip = FALSE, !.held = 0]]}
    ELSE Fetch(c, s, r, initial)

Refused(c, s) == {[ok |-> FALSE, c |-> c, s |-> s]}

\* The outcome o, but with the result in the state s.
Left(o, s) == [ok |-> o.ok, c |-> o.c, s |-> s]

\* The first fetch of exec(), once the parameters are bound.
Started(c, s, r) ==
  {[ok |-> ~ f.error, c |-> f.c,
    s |-> [f.s EXCEPT !.mode = IF f.error THEN "inactive"
                               ELSE IF Columns(s.kind) THEN "select" ELSE "active"]]
     : f \in FetchNext(c, s, r, TRUE)}

\* How exec() leaves the statement: on the first row; and the slip of resetting it, the row
\* being held.
LeftReset(o, r) == {[ok |-> o.ok, c |-> h.c, s |-> [o.s EXCEPT !.at = 0]] : h \in Ended(o.c, r)}

LeftOnRow(o, r) == {o}

\* exec().  After "Parameter count mismatch" the result is as active as it was before.
Executed(c, s0, r) ==
  UNION {LET s == [Emptied(s0) EXCEPT !.at = 0]
         IN  IF ~ h.ok THEN Refused(h.c, Finalized(s))
             ELSE IF Params(s.kind) # Given(s) THEN Refused(h.c, s)
             ELSE IF ~ Bindable(s) THEN Refused(h.c, Finalized(s))
             ELSE UNION {LeftOnRow(o, r) : o \in Started(h.c, [s EXCEPT !.bound = s.given], r)}
           : h \in Ended(c, r)}

\* execBatch() of two values: the second is executed if the first succeeds.  The list of
\* both is what remains bound.
ExecutedWith(o, v, r) == Executed(o.c, [o.s EXCEPT !.given = v], r)

ExecutedBatch(c, s, r, v, w) ==
  LET first == ExecutedWith([c |-> c, s |-> s], v, r)
      both == {o \in first : ~ o.ok}
              \cup UNION {ExecutedWith(o, w, r) : o \in {f \in first : f.ok}}
  IN  {Left(o, [o.s EXCEPT !.given = List]) : o \in both}

\* QSqlCachedResult::cacheNext, over gotoNext().
CacheNext(c, s, r) ==
  IF s.ended THEN Refused(c, s)
  ELSE {[ok |-> f.row # 0, c |-> f.c,
         s |-> IF f.row = 0 THEN [f.s EXCEPT !.ended = TRUE]
               ELSE [f.s EXCEPT !.cache = Append(@, f.row), !.pos = @ + 1]]
          : f \in FetchNext(c, s, r, FALSE)}

\* QSqlQuery::next and previous.
NextRow(c, s, r) ==
  LET to == IF s.pos = Before THEN 0 ELSE s.pos + 1
      Missed(o) == IF o.ok \/ s.pos = Before THEN o ELSE Left(o, [o.s EXCEPT !.pos = After])
  IN  IF s.pos = After THEN Refused(c, s)
      ELSE IF to < Len(s.cache) THEN {[ok |-> TRUE, c |-> c, s |-> [s EXCEPT !.pos = to]]}
      ELSE {Missed(o) : o \in CacheNext(c, s, r)}

PreviousRow(c, s, r) ==
  LET last == Len(s.cache) - 1
  IN  IF s.pos = Before THEN Refused(c, s)
      ELSE IF s.pos # After THEN {[ok |-> s.pos > 0, c |-> c, s |-> [s EXCEPT !.pos = @ - 1]]}
      ELSE IF ~ s.ended THEN CacheNext(c, s, r)
      ELSE IF last < 0 THEN Refused(c, s)
      ELSE {[ok |-> TRUE, c |-> c, s |-> [s EXCEPT !.pos = last]]}

-----------------------------------------------------------------------------------
(* The actions of QSqlQuery. *)

\* r is left in one of the outcomes os; what it has inserted is told to the update hook.
Becomes(r, s, os) ==
  \E o \in os :
    LET new == Len(o.s.made) - Len(s.made)
    IN  /\ notes' = notes + (IF hooked THEN new ELSE 0)
        /\ notes' <= MaxNotes
        /\ db' = o.c
        /\ res' = [res EXCEPT ![r] = o.s]
        /\ UNCHANGED <<isOpen, subs, hooked>>

\* A result before exec() of `want`, and after it.
Begins(r, want) == [res[r] EXCEPT !.want = want, !.made = << >>, !.ok = FALSE]

Returns(os) == {Left(o, [o.s EXCEPT !.ok = o.ok]) : o \in os}

\* prepare(), of a statement that SQLite accepts and of one that it does not, on a
\* connection that is open and on one that is not.
Prepare(r) ==
  /\ isOpen
  /\ \E kind \in Kind \cup {None} :
       Becomes(r, NoResult,
               {[c |-> h.c, s |-> [NoResult EXCEPT !.kind = kind]] : h \in Ended(db, r)})

PrepareUnopened(r) ==
  /\ ~ isOpen
  /\ res' = [res EXCEPT ![r].mode = "inactive", ![r].pos = Before]
  /\ UNCHANGED <<isOpen, db, subs, hooked, notes>>

\* What is bound before prepare() is gone after it.
BindValue(r) ==
  /\ res[r].kind # None
  /\ \E g \in Value \cup {Surplus} :
       res' = [res EXCEPT ![r].given = IF @ = Surplus THEN @ ELSE g]
  /\ UNCHANGED <<isOpen, db, subs, hooked, notes>>

Exec(r) ==
  LET s == Begins(r, IF Writes(res[r].kind) THEN <<res[r].given>> ELSE << >>)
  IN  Becomes(r, s, Returns(Executed(db, s, r)))

\* Two lists of values, or more values than there are lists, are an error of the caller.
ExecBatch(r) ==
  /\ res[r].given # Surplus
  /\ \E v, w \in Value :
       LET s == Begins(r, IF Writes(res[r].kind) THEN <<v, w>> ELSE << >>)
       IN  Becomes(r, s, Returns(ExecutedBatch(db, s, r, v, w)))

Next_(r) ==
  /\ res[r].mode = "select"
  /\ Becomes(r, res[r], NextRow(db, res[r], r))

Previous(r) ==
  /\ res[r].mode = "select"
  /\ Becomes(r, res[r], PreviousRow(db, res[r], r))

\* finish(), which asks detachFromResultSet() to reset the statement and does not hear
\* whether that has failed; and the slip of not resetting it.
DetachedOnly(c, s, r) == {[c |-> c, s |-> s]}

Detached(c, s, r) == {[c |-> h.c, s |-> [s EXCEPT !.at = 0]] : h \in Ended(c, r)}

Finish(r) ==
  /\ res[r].mode # "inactive"
  /\ Becomes(r, res[r], Detached(db, [res[r] EXCEPT !.mode = "inactive", !.pos = Before], r))

\* The query is destroyed, and another one constructed.
Destroy(r) ==
  Becomes(r, NoResult, {[c |-> h.c, s |-> NoResult] : h \in Ended(db, r)})

-----------------------------------------------------------------------------------
(* The actions of QSQLiteDriver. *)

\* The subscriptions that close() leaves; and the slip of leaving them all.
AllSubscribed == subs

NoneSubscribed == {}

\* close() of an open driver: every statement is finalized, the subscriptions are gone.
Leave ==
  /\ isOpen
  /\ \E disk \in Closed(db) : db' = Fresh(disk)
  /\ res' = [r \in Result |-> Finalized(res[r])]
  /\ subs' = NoneSubscribed
  /\ hooked' = FALSE
  /\ UNCHANGED notes

Close == Leave /\ isOpen' = FALSE

\* open(), which closes first, and may fail.
Open ==
  /\ isOpen' \in BOOLEAN
  /\ IF isOpen THEN Leave ELSE UNCHANGED <<db, res, subs, hooked, notes>>

\* beginTransaction(), commitTransaction(), rollbackTransaction().
Transaction ==
  /\ isOpen
  /\ \E o \in Begun(db) \cup Committed(db) \cup RolledBack(db) : db' = o.c
  /\ UNCHANGED <<isOpen, res, subs, hooked, notes>>

Subscribe ==
  /\ isOpen
  /\ \E t \in Table \ subs : subs' = subs \cup {t}
  /\ hooked' = (hooked \/ Cardinality(subs') = 1)
  /\ UNCHANGED <<isOpen, db, res, notes>>

Unsubscribe ==
  /\ isOpen
  /\ \E t \in subs : subs' = subs \ {t}
  /\ hooked' = (hooked /\ subs' # {})
  /\ UNCHANGED <<isOpen, db, res, notes>>

\* handleNotification(): the signal is emitted if t is still subscribed to.
HandleNotification ==
  /\ notes > 0
  /\ notes' = notes - 1
  /\ UNCHANGED <<isOpen, db, res, subs, hooked>>

Next ==
  \/ Open \/ Close \/ Transaction
  \/ Subscribe \/ Unsubscribe \/ HandleNotification
  \/ \E r \in Result :
       Prepare(r) \/ PrepareUnopened(r) \/ BindValue(r) \/ Exec(r) \/ ExecBatch(r)
       \/ Next_(r) \/ Previous(r) \/ Finish(r) \/ Destroy(r)

Spec == Init /\ [][Next]_vars

-----------------------------------------------------------------------------------
(* Properties. *)

ConnectionType ==
  [now : Seq(Value), saved : Seq(Value), auto : BOOLEAN, writers : SUBSET Result]

ResultType ==
  [kind : Kind \cup {None}, at : Nat, bound : Value \cup {None}, given : Value \cup {None, Surplus},
   mode : {"inactive", "active", "select"}, pos : Int, skip : BOOLEAN, held : Nat,
   cache : Seq(Nat), ended : BOOLEAN,
   want : Seq(Value \cup {None, Surplus}), made : Seq(Value), ok : BOOLEAN]

\* A result is before or after its rows or on one that its cache holds.
Placed(s) == s.pos \in {Before, After} \cup 0 .. Len(s.cache) - 1

\* Types: a result is where its cache has a row, and the statements that have begun to write
\* are those of results that stand on a row of INSERT ... RETURNING.
TypeOK ==
  /\ isOpen \in BOOLEAN
  /\ db \in ConnectionType
  /\ res \in [Result -> ResultType]
  /\ \A r \in Result : Placed(res[r])
  /\ db.writers = {r \in Result : res[r].kind = "returning" /\ res[r].at > 0}
  /\ subs \subseteq Table /\ hooked \in BOOLEAN /\ notes \in 0 .. MaxNotes

\* The row that exec() has fetched to learn of, and those that are read again with
\* previous(), are neither lost nor given twice: the rows of a SELECT are read in order from
\* the first, whatever is inserted and rolled back meanwhile.
ReadsEveryRow ==
  \A r \in Result : res[r].kind = "select" =>
    \A i \in 1 .. Len(res[r].cache) : res[r].cache[i] = i

\* What an application can see of a result whose statement has ended.
Idle(r) == res[r].mode = "inactive" \/ res[r].pos = After \/ res[r].kind = None

\* A result that is inactive or after its last row keeps no statement that holds the commits
\* back: outside a transaction, when all results are so, everything is on disk.
NothingHeldBack ==
  db.auto /\ (\A r \in Result : Idle(r)) => db.now = db.saved

\* A successful exec() of an INSERT inserts what is bound exactly once, however the row that
\* it returns is read, read again or left, until the next exec(); an exec() that fails is
\* followed by at most one insertion.
ExecOnce ==
  \A r \in Result :
    /\ res[r].ok => res[r].made = res[r].want
    /\ res[r].made # res[r].want => Len(res[r].made) <= 1

\* The rows that a step inserts while their table is subscribed to are queued for
\* notification, whatever other tables are subscribed to or not any more, and also over
\* closing and opening.
NotifiesSubscribers ==
  [][(Written \in subs /\ Len(db'.now) > Len(db.now))
       => notes' >= notes + Len(db'.now) - Len(db.now)]_vars

===================================================================================
