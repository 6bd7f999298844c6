-------------------------------- MODULE SharedHandle ------------------------------
(***************************************************************************)
(* A SyncEngine on the connection of a QSQLITE_SYNC database, where the    *)
(* application's statements and transactions and those of the engine are   *)
(* on one handle.  SyncEngine.tla has the engines of many clients whose    *)
(* statements commit at once; here there is one, and what matters is that  *)
(* the event loop may run its handlers while the application has a         *)
(* transaction open or has not read an INSERT ... RETURNING to its end.    *)
(* The application inserts rows; each file of another client brings one    *)
(* row.  The folder takes every file.                                      *)
(***************************************************************************)
EXTENDS Naturals, FiniteSets, Connection

CONSTANTS Local,    \* the rows the application inserts
          Remote,   \* the rows of other clients, each with its file
          None,     \* no session
          Explicit, \* whether the application calls beginWrite() and endWrite()
          MaxCalls  \* bound: the queued calls that are counted; more change nothing

Row == Local \cup Remote

ASSUME SharedHandleAssumption ==
  /\ Local \cap Remote = {} /\ None \notin Row /\ \A rows \in SUBSET Row : rows # None
  /\ IsFiniteSet(Local) /\ IsFiniteSet(Remote)
  /\ Explicit \in BOOLEAN
  /\ MaxCalls \in Nat \ {0}

VARIABLES
  db,       \* the connection; its contents are the rows and the files in _sync_applied
  session,  \* the rows the session has seen inserted, or None
  running,  \* the engine runs, and its commit hook is installed
  manual,   \* inManualWrite
  calls,    \* how many calls of onTransactionCommitted are queued
  files,    \* the rows in the files this client has written
  fate      \* history: whether a row was inserted under a session that was ended
            \* ("watched"), deleted ("dropped"), or under no engine ("unwatched")

vars == <<db, session, running, manual, calls, files, fate>>

Init ==
  /\ db = Fresh([rows |-> {}, marks |-> {}])
  /\ session = None
  /\ running = FALSE /\ manual = FALSE
  /\ calls = 0
  /\ files = {}
  /\ fate = [r \in Local |-> "unwatched"]

-----------------------------------------------------------------------------------
(* The handle. *)

\* The calls that the commit hook queues while the connection goes from c to d, a commit
\* that finds the database busy calling no hook; and the slip of minding only the transactions of
\* the application.
HooksOfCommit(c, d) == IF d.saved # c.saved /\ ~ c.auto THEN 1 ELSE 0

Hooks(c, d) == IF d.saved # c.saved THEN 1 ELSE 0

AtMost(n) == IF n > MaxCalls THEN MaxCalls ELSE n

Queue(left, n) == calls' = AtMost(left + IF running' THEN n ELSE 0)

With(c, r) == [c EXCEPT !.now = [c.now EXCEPT !.rows = @ \cup {r}]]

\* The handle goes to d by a statement of the application.
Goes(d) ==
  /\ db' = d
  /\ UNCHANGED <<running, manual, files>>
  /\ Queue(calls, Hooks(db, d))

-----------------------------------------------------------------------------------
(* The application. *)

Begin == \E o \in {b \in Begun(db) : b.ok} : Goes(o.c) /\ UNCHANGED <<session, fate>>

Commit == ~ db.auto /\ \E o \in Committed(db) : Goes(o.c) /\ UNCHANGED <<session, fate>>

Rollback == ~ db.auto /\ \E o \in RolledBack(db) : Goes(o.c) /\ UNCHANGED <<session, fate>>

\* A row is inserted by a statement that ends at once, or by an INSERT ... RETURNING.
Insert(r) ==
  /\ r \notin db.now.rows /\ r \notin db.writers
  /\ \/ \E h \in Halted(With(db, r), r) : Goes(h.c)
     \/ Goes([With(db, r) EXCEPT !.writers = @ \cup {r}])
  /\ session' = IF session = None THEN None ELSE session \cup {r}
  /\ fate' = [fate EXCEPT ![r] = IF running THEN "watched" ELSE "unwatched"]

\* The query of r is read to its end, finished or destroyed.
FinishReading(r) ==
  /\ r \in db.writers
  /\ \E h \in Halted(db, r) : Goes(h.c) /\ UNCHANGED <<session, fate>>

-----------------------------------------------------------------------------------
(* The engine. *)

Drop == fate' = [r \in Local |-> IF session # None /\ r \in session \ files
                                 THEN "dropped" ELSE fate[r]]

\* beginSession() after endSession(); and the slip of leaving the engine without a session.
NotRestarted == None

Restarted == {}

Changeset == IF session = None THEN {} ELSE session \cap db.now.rows

\* The statements of recordRowHlcs() for these rows: outside a transaction they commit, or
\* fail to, one by one.
Stamps(rows) ==
  IF db.auto /\ ~ InProgress(db) THEN 0 .. Cardinality(rows) ELSE {0}

\* What is captured is stamped and written to the folder, `left` calls being queued.
Flush(left) ==
  /\ files' = files \cup Changeset
  /\ session' = Restarted
  /\ UNCHANGED <<db, running, fate>>
  /\ \E n \in Stamps(Changeset) : Queue(left, n)

\* Of the files that are pending, those that a sync() may apply: a changeset is applied in a
\* savepoint, for which no statement may be writing, and without a transaction it commits by
\* itself or fails to.
CanApply(pending) ==
  IF InProgress(db) THEN {{}} ELSE IF db.auto THEN SUBSET pending ELSE {pending}

\* Of the files that it applies, those that it marks, by a statement of its own, the result of
\* which is not looked at; and the slip of marking also what could not be applied.
CanMarkAny(applied) == SUBSET (Remote \ db.now.marks)

CanMark(applied) == IF db.auto THEN SUBSET applied ELSE {applied}

Synced ==
  LET Outcome(applied, marked) ==
        LET new == applied \ db.now.rows
            d == [db EXCEPT !.now = [rows |-> @.rows \cup new, marks |-> @.marks \cup marked]]
        IN  [c |-> IF db.auto /\ ~ InProgress(db) THEN Kept(d) ELSE d,
             hooks |-> IF db.auto THEN Cardinality(new) + Cardinality(marked) ELSE 0,
             new |-> new]
      Outcomes(applied) == {Outcome(applied, marked) : marked \in CanMark(applied)}
  IN  UNION {Outcomes(applied) : applied \in CanApply(Remote \ db.now.marks)}

Sync ==
  /\ UNCHANGED <<running, manual, files, fate>>
  /\ \E o \in Synced :
       /\ db' = o.c
       /\ session' = IF session = None THEN None ELSE session \cup o.new
       /\ Queue(calls, o.hooks)

\* start(): a session, a snapshot if this client has written no file, and a sync.
Start ==
  /\ ~ running /\ running' = TRUE
  /\ Drop
  /\ LET snapshot == IF files = {} THEN db.now.rows ELSE {}
     IN  /\ files' = files \cup snapshot
         /\ \E o \in Synced, n \in Stamps(snapshot) :
              /\ db' = o.c
              /\ session' = o.new
              /\ Queue(calls, n + o.hooks)
  /\ UNCHANGED manual

Stop ==
  /\ running' = FALSE
  /\ session' = None
  /\ Drop
  /\ UNCHANGED <<db, manual, calls, files>>

BeginWrite ==
  /\ Explicit
  /\ manual' = TRUE
  /\ session' = {}
  /\ Drop
  /\ UNCHANGED <<db, running, calls, files>>

EndWrite ==
  /\ Explicit
  /\ manual' = FALSE
  /\ Flush(calls)

\* The event loop runs a queued call of onTransactionCommitted; and the slip of putting it
\* off while the application has a transaction open.
PutOffInTransaction ==
  /\ calls > 0
  /\ IF ~ running \/ manual
       THEN calls' = calls - 1 /\ UNCHANGED <<db, session, running, files, fate>>
       ELSE db.auto /\ Flush(calls - 1)
  /\ UNCHANGED manual

OnTransactionCommitted ==
  /\ calls > 0
  /\ IF ~ running \/ manual
       THEN calls' = calls - 1 /\ UNCHANGED <<db, session, running, files, fate>>
       ELSE Flush(calls - 1)
  /\ UNCHANGED manual

Next ==
  \/ Begin \/ Commit \/ Rollback
  \/ \E r \in Local : Insert(r) \/ FinishReading(r)
  \/ Start \/ Stop \/ Sync \/ BeginWrite \/ EndWrite \/ OnTransactionCommitted

\* The event loop comes to the calls that are queued.
Spec == Init /\ [][Next]_vars /\ WF_vars(OnTransactionCommitted)

-----------------------------------------------------------------------------------
(* Properties. *)

Content == [rows : SUBSET Row, marks : SUBSET Remote]

\* Types, and a running engine has a session.
TypeOK ==
  /\ db \in [now : Content, saved : Content, auto : BOOLEAN, writers : SUBSET Local]
  /\ session = None \/ session \subseteq Row
  /\ running => session # None
  /\ running \in BOOLEAN /\ manual \in BOOLEAN
  /\ calls \in 0 .. MaxCalls
  /\ files \subseteq Row
  /\ fate \in [Local -> {"watched", "dropped", "unwatched"}]

\* A file that is marked as applied is applied, in the database and on disk, whatever the
\* application rolls back, leaves unfinished or fails to commit.
MarkedIsApplied ==
  db.now.marks \subseteq db.now.rows /\ db.saved.marks \subseteq db.saved.rows

\* r is committed and the engine has had every chance to see it.
Watched(r) == running /\ r \in db.saved.rows /\ fate[r] = "watched"

\* While the engine runs, a committed row is published, or captured with the call queued or
\* the endWrite() to come that publishes it, unless beginWrite() or stop() has thrown it away.
CapturedUntilPublished ==
  \A r \in Local : Watched(r) =>
    r \in files \/ (session # None /\ r \in session /\ (calls > 0 \/ manual))

\* A committed row is eventually published, if the engine goes on to run and no manual write
\* stands in the way.
EventuallyPublished ==
  \A r \in Local :
    Watched(r) /\ ~ manual ~> r \in files \/ manual \/ ~ Watched(r)

\* What an application inserts in a transaction that it rolls back is not published.
RolledBackNotSynced ==
  [][\A r \in Local :
       ~ db.auto /\ r \in db.now.rows \ db'.now.rows /\ fate[r] = "watched" => r \notin files]_vars

===================================================================================
