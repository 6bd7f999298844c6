-------------------------------- MODULE SyncEngine --------------------------------
(***************************************************************************)
(* Clients that synchronise their databases through a shared folder of     *)
(* changeset files: SyncEngine, ChangesetManager, SyncableDatabase,        *)
(* ConflictResolver, HybridLogicalClock and SharedFolderTransport of each  *)
(* client, and the folder.                                                 *)
(*                                                                         *)
(* An engine runs on one thread: a handler (endWrite, sync,                *)
(* onTransactionCommitted, start) runs to its end before another starts.   *)
(* It is cut here into one step per transaction or file operation, so that *)
(* other clients may step in between and a crash may fall there.  pc[c]    *)
(* says where c is:                                                        *)
(*   "down"      no process          "stopped"  stop() was called          *)
(*   "idle"      in the event loop                                         *)
(*   "publish", "own"           in endWrite or onTransactionCommitted: the *)
(*                              file is to be written, then marked         *)
(*   "snapshot", "ownSnapshot"  the same for the snapshot in start()       *)
(*   "list"      start() is about to call sync()                           *)
(*   "first", "retry"           in the passes of sync()                    *)
(***************************************************************************)
EXTENDS Changeset, FiniteSets

CONSTANTS AutoCapture,  \* clients whose engine captures every commit
          Explicit,     \* clients whose application calls beginWrite()
          Faults,       \* what may go wrong, a subset of AllFaults
          Wall,         \* the readings a wall clock can give
          InitDb,       \* the rows each client has before its first start
          InitTables,   \* the tables each client has then
          InitVersion,  \* the schema version each application passes
          TopVersion,   \* the newest schema version
          Statements,   \* what applications do: "insert", "update", "delete"
          FreshValues,  \* every write writes a value of its own
          MaxWrites,    \* bound: writes of all applications together
          MaxRestarts,  \* bound: crashes, exits and stops
          MaxLogical    \* bound: a clock beyond it starts no handler

AllFaults ==
  {"crash",    \* a process dies between two steps
   "exit",     \* a process ends in the event loop and is started again
   "stop",     \* stop() and start() on one engine
   "lost",     \* the transport fails to write a file
   "delay",    \* a file becomes visible to other clients later, in any order
   "torn",     \* a file is visible before all of it is, and cannot be read
   "midwrite"} \* the event loop runs between beginWrite() and endWrite()

ASSUME SyncEngineAssumption ==
  /\ AutoCapture \subseteq Client /\ Explicit \subseteq Client
  /\ Faults \subseteq AllFaults
  /\ Wall \subseteq Nat
  /\ InitDb \in [Client -> [Key -> Row \cup {None}]]
  /\ InitTables \in [Client -> SUBSET Table]
  /\ TopVersion \in Nat
  /\ InitVersion \in [Client -> 0 .. TopVersion]
  /\ Statements \subseteq {"insert", "update", "delete"}
  /\ FreshValues \in BOOLEAN
  /\ MaxWrites \in Nat /\ MaxRestarts \in Nat /\ MaxLogical \in Nat

VARIABLES
  \* In the database file of each client.
  db,        \* db[c][k]: the row, or None
  rowHlc,    \* rowHlc[c][k]: its timestamp in _sync_row_hlc, 0 if absent
  applied,   \* applied[c]: the names in _sync_applied
  tables,    \* tables[c]: the user tables that exist
  \* In the memory of each process.
  version,   \* version[c]: currentSchemaVersion
  clock,     \* clock[c]: the word of the hybrid logical clock
  seqno,     \* seqno[c]: ChangesetManager::sequence
  base,      \* base[c]: the database when the open session began, or None
  manual,    \* manual[c]: inManualWrite
  queued,    \* queued[c]: a call of onTransactionCommitted is queued
  pc,        \* pc[c]: where the engine is
  out,       \* out[c]: the changeset being published, or None
  todo,      \* todo[c]: changesets left in this pass of sync()
  deferred,  \* deferred[c]: changesets put off by the first pass
  progress,  \* progress[c]: this sync() has applied something
  cur,       \* cur[c]: the changeset applied and not yet marked, or None
  \* Shared.
  folder,    \* the files, a function from names to contents
  seen,      \* seen[c]: the names the folder lists at c
  torn,      \* torn[c]: those of which c can only read a part
  \* Bounds.
  writes, restarts

durable == <<db, rowHlc, applied, tables>>
session == <<base, manual, queued>>
syncing == <<todo, deferred, progress, cur>>
shared  == <<folder, seen, torn>>
budget  == <<writes, restarts>>
vars == <<db, rowHlc, applied, tables, version, clock, seqno, base, manual, queued,
          pc, out, todo, deferred, progress, cur, folder, seen, torn, writes, restarts>>

-----------------------------------------------------------------------------------
(* Shorthands. *)

\* What a session that begins now will be compared with.
Here(c) == [db |-> db[c], applied |-> applied[c], rowHlc |-> rowHlc[c]]

\* A transaction of c commits: its commit hook queues a call; and the slip of
\* minding only the commits of the application.
HookFiresIfIdle(c) ==
  queued' = [queued EXCEPT ![c] = @ \/ (c \in AutoCapture /\ pc[c] = "idle")]

HookFires(c) == queued' = [queued EXCEPT ![c] = @ \/ c \in AutoCapture]

\* A handler of c may start: it is in the event loop.
Ready(c) == pc[c] = "idle" /\ Logical(clock[c]) < MaxLogical

\* The engine is running.
Running(c) == pc[c] \notin {"down", "stopped"}

\* The name of the next changeset of c, stamped h; and the slip of leaving the
\* client out of it.
NamelessName(c, h) ==
  [client |-> CHOOSE d \in Client : TRUE, hlc |-> h, seq |-> seqno[c], ver |-> version[c]]

NextName(c, h) == [client |-> c, hlc |-> h, seq |-> seqno[c], ver |-> version[c]]

\* The rows of a new changeset carry its timestamp (recordRowHlcs); and the slip
\* of leaving local writes without one.
Unstamped(c, content, h) == rowHlc[c]

Stamped(c, content, h) ==
  [k \in Key |-> IF k \in DOMAIN content.rows THEN h ELSE rowHlc[c][k]]

\* recordRowHlcs() and writeChangeset() up to the file name: c has stamped
\* content with h and is about to write it.
Stamp(c, content, h, next) ==
  /\ clock' = [clock EXCEPT ![c] = h]
  /\ rowHlc' = [rowHlc EXCEPT ![c] = Stamped(c, content, h)]
  /\ seqno' = [seqno EXCEPT ![c] = @ + 1]
  /\ out' = [out EXCEPT ![c] = [name |-> NextName(c, h), content |-> content]]
  /\ pc' = [pc EXCEPT ![c] = next]

-----------------------------------------------------------------------------------
(* A process, its engine, start() and stop(). *)

Init ==
  /\ db = InitDb
  /\ rowHlc = [c \in Client |-> [k \in Key |-> 0]]
  /\ applied = [c \in Client |-> {}]
  /\ tables = InitTables
  /\ version = InitVersion
  /\ clock = [c \in Client |-> 0]
  /\ seqno = [c \in Client |-> 0]
  /\ base = [c \in Client |-> None]
  /\ manual = [c \in Client |-> FALSE]
  /\ queued = [c \in Client |-> FALSE]
  /\ pc = [c \in Client |-> "down"]
  /\ out = [c \in Client |-> None]
  /\ todo = [c \in Client |-> {}]
  /\ deferred = [c \in Client |-> {}]
  /\ progress = [c \in Client |-> FALSE]
  /\ cur = [c \in Client |-> None]
  /\ folder = << >>
  /\ seen = [c \in Client |-> {}]
  /\ torn = [c \in Client |-> {}]
  /\ writes = 0
  /\ restarts = 0

\* A process constructs its engine: the clock and the sequence number are not
\* stored anywhere, and start anew.
Construct(c) ==
  /\ pc[c] = "down"
  /\ \E w \in Wall : clock' = [clock EXCEPT ![c] = Pack(w, 0)]
  /\ seqno' = [seqno EXCEPT ![c] = 0]
  /\ pc' = [pc EXCEPT ![c] = "stopped"]
  /\ UNCHANGED <<durable, version, session, out, syncing, shared, budget>>

\* start() looks for rows to publish when the folder lists no file of c: generateSnapshot()
\* creates each table in an empty database that it attaches.
LooksForRows(c) == tables[c] # {} /\ \A n \in seen[c] : n.client # c

NeedsSnapshot(c) == LooksForRows(c) /\ ~IsEmpty(Snapshot(db[c]))

\* installCommitHook() opens the session of an engine that captures commits.
InstallHook(c) == base' = [base EXCEPT ![c] = IF c \in AutoCapture THEN Here(c) ELSE None]

StartWithSnapshot(c) ==
  /\ pc[c] = "stopped" /\ Logical(clock[c]) < MaxLogical
  /\ NeedsSnapshot(c)
  /\ InstallHook(c)
  /\ \E w \in Wall : Stamp(c, Snapshot(db[c]), Now(clock[c], w), "snapshot")
  /\ HookFires(c)
  /\ UNCHANGED <<db, applied, tables, version, manual, syncing, shared, budget>>

StartWithoutSnapshot(c) ==
  /\ pc[c] = "stopped"
  /\ ~NeedsSnapshot(c)
  /\ InstallHook(c)
  /\ IF LooksForRows(c) THEN HookFires(c) ELSE UNCHANGED queued
  /\ pc' = [pc EXCEPT ![c] = "list"]
  /\ UNCHANGED <<durable, version, clock, seqno, manual, out, syncing, shared, budget>>

\* stop(): the session is deleted with what it has captured, and the calls
\* that are queued stay queued.
Stop(c) ==
  /\ "stop" \in Faults /\ restarts < MaxRestarts
  /\ pc[c] = "idle"
  /\ base' = [base EXCEPT ![c] = None]
  /\ pc' = [pc EXCEPT ![c] = "stopped"]
  /\ restarts' = restarts + 1
  /\ UNCHANGED <<durable, version, clock, seqno, manual, queued, out, syncing, shared,
                 writes>>

\* The process ends: between two handlers, or anywhere when it crashes.
End(c) ==
  /\ restarts < MaxRestarts
  /\ \/ "crash" \in Faults /\ pc[c] # "down"
     \/ "exit" \in Faults /\ pc[c] \in {"idle", "stopped"}
  /\ clock' = [clock EXCEPT ![c] = 0]
  /\ seqno' = [seqno EXCEPT ![c] = 0]
  /\ base' = [base EXCEPT ![c] = None]
  /\ manual' = [manual EXCEPT ![c] = FALSE]
  /\ queued' = [queued EXCEPT ![c] = FALSE]
  /\ pc' = [pc EXCEPT ![c] = "down"]
  /\ out' = [out EXCEPT ![c] = None]
  /\ todo' = [todo EXCEPT ![c] = {}]
  /\ deferred' = [deferred EXCEPT ![c] = {}]
  /\ progress' = [progress EXCEPT ![c] = FALSE]
  /\ cur' = [cur EXCEPT ![c] = None]
  /\ restarts' = restarts + 1
  /\ UNCHANGED <<durable, version, shared, writes>>

-----------------------------------------------------------------------------------
(* The application: it writes, and it migrates its schema. *)

\* beginWrite() replaces a session that is open.
BeginWrite(c) ==
  /\ c \in Explicit /\ Ready(c) /\ ~manual[c]
  /\ manual' = [manual EXCEPT ![c] = TRUE]
  /\ base' = [base EXCEPT ![c] = Here(c)]
  /\ UNCHANGED <<durable, version, clock, seqno, queued, pc, out, syncing, shared, budget>>

\* The values a write may store.
Payload == IF FreshValues THEN {v \in Val : v = writes + 1} ELSE Val

\* The rows that one statement can make of `row`.
Inserted == {[f \in Col |-> v] : v \in Payload}

Updated(row) == {[f \in Col |-> IF f \in D THEN v ELSE row[f]] :
                   v \in Payload, D \in (SUBSET Col) \ {{}}}

Rewritten(row) ==
  (IF row = None /\ "insert" \in Statements THEN Inserted ELSE {})
    \cup (IF row # None /\ "update" \in Statements THEN Updated(row) ELSE {})
    \cup (IF row # None /\ "delete" \in Statements THEN {None} ELSE {})

\* The application commits a statement while a session is open.
Exec(c) ==
  /\ pc[c] = "idle" /\ base[c] # None
  /\ writes < MaxWrites
  /\ \E k \in Key : \E row \in Rewritten(db[c][k]) \ {db[c][k]} :
       /\ TableOf[k] \in tables[c]
       /\ db' = [db EXCEPT ![c][k] = row]
  /\ writes' = writes + 1
  /\ HookFires(c)
  /\ UNCHANGED <<rowHlc, applied, tables, version, clock, seqno, base, manual, pc, out,
                 syncing, shared, restarts>>

CreateTable(c) ==
  /\ pc[c] = "idle"
  /\ \E t \in Table \ tables[c] : tables' = [tables EXCEPT ![c] = @ \cup {t}]
  /\ HookFires(c)
  /\ UNCHANGED <<db, rowHlc, applied, version, clock, seqno, base, manual, pc, out,
                 syncing, shared, budget>>

\* setSchemaVersion() after the application was upgraded.
SetSchemaVersion(c) ==
  /\ pc[c] \in {"idle", "stopped"}
  /\ version[c] < TopVersion
  /\ version' = [version EXCEPT ![c] = @ + 1]
  /\ UNCHANGED <<durable, clock, seqno, session, pc, out, syncing, shared, budget>>

-----------------------------------------------------------------------------------
(* Publishing: endWrite() and onTransactionCommitted(). *)

\* What endSession() returns: nothing when no session is open.
Captured(c) ==
  IF base[c] = None
    THEN [rows |-> << >>, marks |-> {}, stamps |-> << >>]
    ELSE Capture(base[c], db[c], applied[c], rowHlc[c])

\* beginSession() at the end of a handler, for an engine that captures
\* commits; marks is what _sync_applied holds by then.
Reopen(c, marks) ==
  base' = [base EXCEPT ![c] = IF c \in AutoCapture
                                THEN [Here(c) EXCEPT !.applied = marks] ELSE None]

EndWriteEmpty(c) ==
  /\ pc[c] = "idle" /\ manual[c]
  /\ IsEmpty(Captured(c))
  /\ manual' = [manual EXCEPT ![c] = FALSE]
  /\ Reopen(c, applied[c])
  /\ UNCHANGED <<durable, version, clock, seqno, queued, pc, out, syncing, shared, budget>>

EndWrite(c) ==
  /\ Ready(c) /\ manual[c]
  /\ ~IsEmpty(Captured(c))
  /\ manual' = [manual EXCEPT ![c] = FALSE]
  /\ base' = [base EXCEPT ![c] = None]
  /\ \E w \in Wall : Stamp(c, Captured(c), Now(clock[c], w), "publish")
  /\ HookFires(c)
  /\ UNCHANGED <<db, applied, tables, version, syncing, shared, budget>>

\* The queued call finds the engine stopped, or inside a manual write.
FlushDropped(c) ==
  /\ queued[c] /\ (pc[c] = "stopped" \/ (pc[c] = "idle" /\ manual[c]))
  /\ queued' = [queued EXCEPT ![c] = FALSE]
  /\ UNCHANGED <<durable, version, clock, seqno, base, manual, pc, out, syncing, shared,
                 budget>>

FlushEmpty(c) ==
  /\ pc[c] = "idle" /\ queued[c] /\ ~manual[c]
  /\ IsEmpty(Captured(c))
  /\ queued' = [queued EXCEPT ![c] = FALSE]
  /\ base' = [base EXCEPT ![c] = Here(c)]
  /\ UNCHANGED <<durable, version, clock, seqno, manual, pc, out, syncing, shared, budget>>

\* The commits of recordRowHlcs() queue the next call, if it stamps a row.
Flush(c) ==
  /\ Ready(c) /\ queued[c] /\ ~manual[c]
  /\ ~IsEmpty(Captured(c))
  /\ queued' = [queued EXCEPT ![c] = DOMAIN Captured(c).rows # {}]
  /\ base' = [base EXCEPT ![c] = None]
  /\ \E w \in Wall : Stamp(c, Captured(c), Now(clock[c], w), "publish")
  /\ UNCHANGED <<db, applied, tables, version, manual, syncing, shared, budget>>

\* The handler goes on after the file: start() to its sync(), the others to
\* the event loop.
AfterPublish(c, marks) ==
  IF pc[c] \in {"snapshot", "ownSnapshot"}
    THEN pc' = [pc EXCEPT ![c] = "list"] /\ UNCHANGED base
    ELSE pc' = [pc EXCEPT ![c] = "idle"] /\ Reopen(c, marks)

\* The transport writes the file: over the old one if the name exists.
Publish(c) ==
  /\ pc[c] \in {"publish", "snapshot"}
  /\ LET n == out[c].name
     IN  /\ folder' = [m \in DOMAIN folder \cup {n} |->
                         IF m = n THEN out[c].content ELSE folder[m]]
         /\ seen' = [d \in Client |-> IF d = c \/ "delay" \notin Faults
                                        THEN seen[d] \cup {n} ELSE seen[d]]
  /\ pc' = [pc EXCEPT ![c] = IF pc[c] = "publish" THEN "own" ELSE "ownSnapshot"]
  /\ UNCHANGED <<durable, version, clock, seqno, session, out, syncing, torn, budget>>

\* The transport fails: the changeset is dropped and never written again.
PublishFails(c) ==
  /\ "lost" \in Faults
  /\ pc[c] \in {"publish", "snapshot"}
  /\ out' = [out EXCEPT ![c] = None]
  /\ AfterPublish(c, applied[c])
  /\ UNCHANGED <<durable, version, clock, seqno, manual, queued, syncing, shared, budget>>

MarkOwn(c) ==
  /\ pc[c] \in {"own", "ownSnapshot"}
  /\ applied' = [applied EXCEPT ![c] = @ \cup {out[c].name}]
  /\ out' = [out EXCEPT ![c] = None]
  /\ AfterPublish(c, applied'[c])
  /\ HookFires(c)
  /\ UNCHANGED <<db, rowHlc, tables, version, clock, seqno, manual, syncing, shared, budget>>

-----------------------------------------------------------------------------------
(* sync(). *)

\* pendingChangesets(): what the folder lists and _sync_applied does not have;
\* and the slips of keeping only the highest timestamp applied and of passing over one's
\* own files.
PendingAbove(c) == {n \in seen[c] : \A m \in applied[c] : m.hlc < n.hlc}

PendingOfOthers(c) == {n \in seen[c] \ applied[c] : n.client # c}

Pending(c) == seen[c] \ applied[c]

\* start() calls sync(), or the timer fires in the event loop.
SyncStart(c) ==
  /\ \/ pc[c] = "list"
     \/ Ready(c) /\ (manual[c] => "midwrite" \in Faults)
  /\ todo' = [todo EXCEPT ![c] = Pending(c)]
  /\ pc' = [pc EXCEPT ![c] = IF Pending(c) = {} THEN "idle" ELSE "first"]
  /\ UNCHANGED <<durable, version, clock, seqno, session, out, deferred, progress, cur,
                 shared, budget>>

\* A pass that is about to take the next changeset; and the slip of taking it
\* before the one it has applied is marked.
InPassUnmarked(c) == pc[c] \in {"first", "retry"}

InPass(c) == pc[c] \in {"first", "retry"} /\ cur[c] = None

\* The schema version of file n is not newer than that of the application.
Accepts(c, n) == n.ver <= version[c]

\* changeset_apply logs no warning of a table that is missing; and the slip of
\* looking for an error alone.
AppliesAny(c, content) == TRUE

AppliesWhole(c, content) == TablesOf(content) \subseteq tables[c]

\* applyOneChangeset() refuses a file of a newer schema version, and reads
\* nothing of it.
RejectVersion(c) ==
  /\ InPass(c)
  /\ \E n \in Earliest(todo[c]) :
       /\ ~Accepts(c, n)
       /\ todo' = [todo EXCEPT ![c] = @ \ {n}]
  /\ UNCHANGED <<durable, version, clock, seqno, session, pc, out, deferred, progress, cur,
                 shared, budget>>

\* The file is empty so far, or SQLite finds it corrupt; the clock has been
\* shown its timestamp in the second case only.
Unreadable(c) ==
  /\ InPass(c)
  /\ \E n \in Earliest(todo[c]) \cap torn[c] :
       /\ Accepts(c, n)
       /\ todo' = [todo EXCEPT ![c] = @ \ {n}]
       /\ \/ UNCHANGED clock
          \/ \E w \in Wall : clock' = [clock EXCEPT ![c] = Receive(@, n.hlc, w)]
  /\ UNCHANGED <<durable, version, seqno, session, pc, out, deferred, progress, cur,
                 shared, budget>>

\* applyOneChangeset() on file n up to the end of the transaction of
\* changeset_apply.  If a table is missing, what was applied stays applied, and
\* the changeset is put off by the first pass and given up by the second.
ApplyFile(c, n, w, stampsFirst) ==
  LET content == folder[n]
      result  == Applied(content, n, c, db[c], rowHlc[c], tables[c], stampsFirst)
      whole   == AppliesWhole(c, content)
  IN  /\ Accepts(c, n)
      /\ clock' = [clock EXCEPT ![c] = Receive(@, n.hlc, w)]
      /\ db' = [db EXCEPT ![c] = result.db]
      /\ rowHlc' = [rowHlc EXCEPT ![c] = result.rowHlc]
      /\ applied' = [applied EXCEPT ![c] = @ \cup content.marks]
      /\ cur' = [cur EXCEPT ![c] = IF whole THEN n ELSE None]
      /\ todo' = [todo EXCEPT ![c] = @ \ {n}]
      /\ deferred' = [deferred EXCEPT ![c] = IF whole \/ pc[c] = "retry"
                                               THEN @ ELSE @ \cup {n}]

Apply(c) ==
  /\ InPass(c)
  /\ \E n \in Earliest(todo[c]) \ torn[c], w \in Wall, stampsFirst \in BOOLEAN :
       ApplyFile(c, n, w, stampsFirst)
  /\ HookFires(c)
  /\ UNCHANGED <<tables, version, seqno, base, manual, pc, out, progress, shared, budget>>

\* markChangesetApplied(), a transaction of its own.
Mark(c) ==
  /\ cur[c] # None
  /\ applied' = [applied EXCEPT ![c] = @ \cup {cur[c]}]
  /\ cur' = [cur EXCEPT ![c] = None]
  /\ progress' = [progress EXCEPT ![c] = TRUE]
  /\ HookFires(c)
  /\ UNCHANGED <<db, rowHlc, tables, version, clock, seqno, base, manual, pc, out, todo,
                 deferred, shared, budget>>

\* The first pass is followed by a second one over the changesets it put off,
\* if it applied any other.
EndPass(c) ==
  /\ InPass(c) /\ todo[c] = {}
  /\ LET again == pc[c] = "first" /\ deferred[c] # {} /\ progress[c]
     IN  /\ pc' = [pc EXCEPT ![c] = IF again THEN "retry" ELSE "idle"]
         /\ todo' = [todo EXCEPT ![c] = IF again THEN deferred[c] ELSE {}]
  /\ deferred' = [deferred EXCEPT ![c] = {}]
  /\ progress' = [progress EXCEPT ![c] = FALSE]
  /\ UNCHANGED <<durable, version, clock, seqno, session, out, cur, shared, budget>>

-----------------------------------------------------------------------------------
(* The shared folder: whatever replicates it between the devices. *)

Deliver(c) ==
  /\ \E n \in DOMAIN folder \ seen[c] :
       /\ seen' = [seen EXCEPT ![c] = @ \cup {n}]
       /\ \/ UNCHANGED torn
          \/ "torn" \in Faults /\ torn' = [torn EXCEPT ![c] = @ \cup {n}]
  /\ UNCHANGED <<durable, version, clock, seqno, session, pc, out, syncing, folder, budget>>

DeliverRest(c) ==
  /\ \E n \in torn[c] : torn' = [torn EXCEPT ![c] = @ \ {n}]
  /\ UNCHANGED <<durable, version, clock, seqno, session, pc, out, syncing, folder, seen,
                 budget>>

-----------------------------------------------------------------------------------
Process(c) == Construct(c) \/ StartWithSnapshot(c) \/ StartWithoutSnapshot(c)
              \/ Stop(c) \/ End(c)

Application(c) == BeginWrite(c) \/ Exec(c) \/ EndWriteEmpty(c) \/ EndWrite(c)
                  \/ CreateTable(c) \/ SetSchemaVersion(c)

Publishing(c) == FlushDropped(c) \/ FlushEmpty(c) \/ Flush(c)
                 \/ Publish(c) \/ PublishFails(c) \/ MarkOwn(c)

Syncing(c) == SyncStart(c) \/ RejectVersion(c) \/ Unreadable(c) \/ Apply(c)
              \/ Mark(c) \/ EndPass(c)

Delivery(c) == Deliver(c) \/ DeliverRest(c)

Next == \E c \in Client : Process(c) \/ Application(c) \/ Publishing(c)
                          \/ Syncing(c) \/ Delivery(c)

Spec == Init /\ [][Next]_vars

\* The event loop runs.  A handler that has begun goes on to its end, and an
\* application that has begun a write ends it.  Whenever the loop is free again
\* it may serve a queued call or the sync timer, so neither is passed over for
\* ever although the application begins writes again and again.  A constructed
\* engine is started, and files arrive.
Fairness ==
  \A c \in Client :
    /\ WF_vars(Construct(c) \/ StartWithSnapshot(c) \/ StartWithoutSnapshot(c))
    /\ WF_vars(Publish(c) \/ PublishFails(c) \/ MarkOwn(c))
    /\ WF_vars(RejectVersion(c) \/ Unreadable(c) \/ Apply(c) \/ Mark(c) \/ EndPass(c))
    /\ WF_vars(EndWrite(c) \/ EndWriteEmpty(c))
    /\ SF_vars(SyncStart(c))
    /\ SF_vars(FlushDropped(c) \/ FlushEmpty(c) \/ Flush(c))
    /\ WF_vars(Delivery(c))

FairSpec == Spec /\ Fairness

-----------------------------------------------------------------------------------
(* Properties. *)

\* The types of all variables.  The database and the folder are described by
\* quantifiers: the sets of all their values are too large to be enumerated.
TypeOK ==
  /\ db \in [Client -> [Key -> Row \cup {None}]]
  /\ rowHlc \in [Client -> [Key -> Nat]]
  /\ \A c \in Client : applied[c] \subseteq Name
  /\ tables \in [Client -> SUBSET Table]
  /\ version \in [Client -> 0 .. TopVersion]
  /\ clock \in [Client -> Nat] /\ seqno \in [Client -> Nat]
  /\ manual \in [Client -> BOOLEAN] /\ queued \in [Client -> BOOLEAN]
  /\ \A c \in Client : base[c] # None =>
       /\ base[c].db \in [Key -> Row \cup {None}]
       /\ base[c].rowHlc \in [Key -> Nat]
       /\ base[c].applied \subseteq applied[c]
  /\ pc \in [Client -> {"down", "stopped", "idle", "publish", "own", "snapshot",
                        "ownSnapshot", "list", "first", "retry"}]
  /\ \A c \in Client :
       IF pc[c] \in {"publish", "own", "snapshot", "ownSnapshot"}
         THEN out[c].name \in Name /\ DOMAIN out[c].content.rows \subseteq Key
         ELSE out[c] = None
  /\ \A c \in Client : todo[c] \cup deferred[c] \subseteq seen[c]
  /\ progress \in [Client -> BOOLEAN]
  /\ \A c \in Client : cur[c] # None => cur[c] \in seen[c] \ todo[c]
  /\ DOMAIN folder \subseteq Name
  /\ \A n \in DOMAIN folder : DOMAIN folder[n].rows \subseteq Key
  /\ \A c \in Client : torn[c] \subseteq seen[c] /\ seen[c] \subseteq DOMAIN folder
  /\ writes \in 0 .. MaxWrites /\ restarts \in 0 .. MaxRestarts

\* A changeset of another client is only recorded as applied at c when every
\* table it touches exists there and its schema version is not newer: nothing
\* that was skipped for a missing table or refused for its version is ever
\* taken for done, whatever the passes of sync() do (applyOneChangeset).
AppliedInFull ==
  \A c \in Client : \A n \in applied[c] \cap DOMAIN folder :
    n.client # c => TablesOf(folder[n]) \subseteq tables[c] /\ n.ver <= version[c]

\* What sync() has still to apply, retry or mark is not marked already: the
\* passes never apply a changeset a second time after it was recorded.
NothingTwice ==
  \A c \in Client :
    (todo[c] \cup deferred[c] \cup ({cur[c]} \ {None})) \cap applied[c] = {}

\* No file is ever written over by another changeset: the names a client
\* builds from its clock and its sequence number are new (buildFilename).
FilesImmutable ==
  [][\A n \in DOMAIN folder : n \in DOMAIN folder' /\ folder'[n] = folder[n]]_vars

\* A file that its client has not marked is not written over either, though a process that
\* starts anew counts its files from 0 and takes its clock from the wall: after a crash
\* between writing a file and marking it, sync() in start() reads the client's own file and
\* shows its timestamp to the clock before anything can be written.
UnmarkedIsKept ==
  [][\A n \in DOMAIN folder : n \notin applied[n.client] =>
       n \in DOMAIN folder' /\ folder'[n] = folder[n]]_vars

\* While a process lives its clock does not go back, and it covers every marker and every
\* timestamp of a row that the process records: what a client writes is stamped above all
\* that the same process has synced, whatever the clock of an earlier process has shown.
RecordsUnderClock ==
  [][\A c \in Client : pc[c] # "down" /\ pc'[c] # "down" =>
       /\ clock'[c] >= clock[c]
       /\ \A n \in applied'[c] \ applied[c] : n.hlc <= clock'[c]
       /\ \A k \in Key : rowHlc'[c][k] # rowHlc[c][k] => rowHlc'[c][k] <= clock'[c]]_vars

\* A changeset about to be published is stamped above every changeset that
\* is recorded as applied.  SyncEngine.h says so of the writes that follow
\* a sync ("any subsequent local write is guaranteed to have a higher HLC
\* than anything previously synced").
StampsAboveSynced ==
  \A c \in Client : out[c] # None =>
    \A n \in applied[c] \ {out[c].name} : n.hlc < out[c].name.hlc

\* The timestamp recorded for a row never goes back, neither when the row is
\* written locally nor when a conflict is resolved (updateRowHlc).
RowHlcMonotone ==
  [][\A c \in Client, k \in Key : rowHlc'[c][k] >= rowHlc[c][k]]_vars

\* The clock of an engine covers what its database has recorded.
ClockCoversDb ==
  \A c \in Client : Running(c) =>
    /\ \A k \in Key : rowHlc[c][k] <= clock[c]
    /\ \A n \in applied[c] : n.hlc <= clock[c]

\* What an engine has captured is never left behind: outside a manual write, a
\* call that will publish it is queued, also when the change was made by
\* start(), sync() or endWrite() themselves (onTransactionCommitted).
CapturedIsQueued ==
  \A c \in AutoCapture : (pc[c] = "idle" /\ ~manual[c] /\ ~IsEmpty(Captured(c))) => queued[c]

\* Nothing is left to do anywhere: every file is everywhere, read and marked.
Settled(c) ==
  /\ pc[c] = "idle" /\ ~manual[c] /\ ~queued[c]
  /\ torn[c] = {} /\ DOMAIN folder \subseteq applied[c] \cap seen[c]

\* Once every client has applied every changeset, all databases are equal:
\* the promise of the engine as a whole.
Convergence ==
  (\A c \in Client : Settled(c)) => \A c, d \in Client : db[c] = db[d]

\* The row is as the change left it, in the columns the change wrote.
Shows(row, change) ==
  IF change.new = None THEN row = None
  ELSE row # None /\ \A f \in DOMAIN change.new : row[f] = change.new[f]

\* Between handlers, every row of c shows the change with the highest
\* timestamp of all those c has applied or made ("the change with the higher
\* HLC wins").
HigherHlcWins ==
  \A c \in Client : (pc[c] = "idle" /\ ~manual[c] /\ ~queued[c]) =>
    \A k \in Key :
      LET touching == {n \in applied[c] \cap DOMAIN folder : k \in DOMAIN folder[n].rows}
      IN  \A n \in touching :
            (\A m \in touching : ~Precedes(n, m)) => Shows(db[c][k], folder[n].rows[k])

\* _sync_applied of a client gains no name but that of a changeset the client
\* has itself applied in full or published.
MarksAreOwn ==
  [][\A c \in Client : \A n \in applied'[c] \ applied[c] :
       n = cur[c] \/ (out[c] # None /\ n = out[c].name)]_vars

\* Applying one's own changeset again changes no row: after a crash between
\* writing the file and marking it, the replay is harmless.
OwnReplayHarmless ==
  [][\A c \in Client :
       (cur[c] = None /\ cur'[c] # None /\ cur'[c].client = c) => db'[c] = db[c]]_vars

\* An engine that keeps running catches up: when its schema is up to date and
\* stays so, everything the folder lists is eventually applied, also the
\* changesets it had refused before its upgrade.
CatchesUp ==
  \A c \in Client :
    (version[c] = TopVersion /\ tables[c] = Table) ~> (seen[c] \subseteq applied[c])

===================================================================================
