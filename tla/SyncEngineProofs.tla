----------------------------- MODULE SyncEngineProofs -----------------------------
(***************************************************************************)
(* Theorems about SyncEngine, for any number of clients, tables, rows and  *)
(* changesets, and for any bounds.                                         *)
(*                                                                         *)
(* Types.  That a database holds whole rows only does not follow from its  *)
(* type alone: a changeset may hold the modified columns of a row and      *)
(* nothing else.  The invariant is strengthened by what every changeset    *)
(* looks like (GoodContent): a partial row is always an UPDATE, and an     *)
(* UPDATE never creates a row.                                             *)
(*                                                                         *)
(* FilesImmutable rests on the sequence number: a client never uses one    *)
(* twice while its process lives.  The inductive invariant says where each *)
(* number in use has come from; it needs the part about processes that are *)
(* not constructed yet, because constructing an engine sets its number to  *)
(* zero.  It fails once a process can be lost.                             *)
(*                                                                         *)
(* Then follow what is recorded as applied, what is captured and queued,   *)
(* the timestamps, and what holds although processes are lost: files that  *)
(* are not marked are kept, and records stay under the clock.  Each comes  *)
(* with the invariant it needs.                                            *)
(***************************************************************************)
EXTENDS SyncEngine, HybridLogicalClockProofs

MaybeRow == Row \cup {None}

Busy == {"publish", "own", "snapshot", "ownSnapshot"}

\* A change writes nothing, or a whole row, or some columns of a row it expects.
GoodChange(change) ==
  \/ change.new \in MaybeRow
  \/ change.old # None /\ change.new \in PartialRow

GoodContent(content) ==
  /\ DOMAIN content.rows \subseteq Key
  /\ \A k \in DOMAIN content.rows : GoodChange(content.rows[k])
  /\ content.marks \subseteq Name
  /\ DOMAIN content.stamps \subseteq Key
  /\ \A k \in DOMAIN content.stamps : content.stamps[k].new \in Nat

GoodContents ==
  /\ \A n \in DOMAIN folder : GoodContent(folder[n])
  /\ \A c \in Client : pc[c] \in Busy => GoodContent(out[c].content)

\* A changeset waits to be marked only while a pass of sync() runs, and the
\* variables TypeOK describes by quantifiers are functions over the clients.
Places ==
  /\ \A c \in Client : cur[c] # None => pc[c] \in {"first", "retry"}
  /\ \A c \in Client : pc[c] \in {"own", "ownSnapshot"} => out[c].name \in seen[c]
  /\ DOMAIN applied = Client /\ DOMAIN base = Client /\ DOMAIN out = Client
  /\ DOMAIN todo = Client /\ DOMAIN deferred = Client /\ DOMAIN cur = Client
  /\ DOMAIN seen = Client /\ DOMAIN torn = Client

TypeInv == TypeOK /\ GoodContents /\ Places

-----------------------------------------------------------------------------------
(* What the operators of Changeset return. *)

\* A row is a partial row over all columns.
LEMMA RowIsPartial == Row \subseteq PartialRow
  BY DEF Row, PartialRow

\* What a session or a diff produces is well formed.
LEMMA DiffGood ==
  ASSUME NEW before \in MaybeRow, NEW after \in MaybeRow
  PROVE  GoodChange(DiffRow(before, after))
  <1>1. CASE before = None \/ after = None
        BY <1>1 DEF DiffRow, GoodChange
  <1>2. CASE before # None /\ after # None
        <2> DEFINE modified == {f \in Col : before[f] # after[f]}
        <2>1. before \in [Col -> Val] /\ after \in [Col -> Val] /\ modified \in SUBSET Col
              BY <1>2 DEF MaybeRow, Row
        <2>2. /\ Restrict(before, modified) \in [modified -> Val]
              /\ Restrict(after, modified) \in [modified -> Val]
              BY <2>1 DEF Restrict
        <2>3. Restrict(before, modified) \in PartialRow /\ Restrict(after, modified) \in PartialRow
              BY <2>1, <2>2 DEF PartialRow
        <2>4. DiffRow(before, after) =
                [old |-> Restrict(before, modified), new |-> Restrict(after, modified)]
              BY <1>2 DEF DiffRow
        <2>5. Restrict(before, modified) # None
              BY <2>3, NoneAssumption
        <2> QED BY <2>3, <2>4, <2>5 DEF GoodChange
  <1> QED BY <1>1, <1>2

LEMMA CaptureGood ==
  ASSUME NEW b, NEW d \in [Key -> MaybeRow], NEW a \in SUBSET Name, NEW r \in [Key -> Nat],
         b.db \in [Key -> MaybeRow]
  PROVE  GoodContent(Capture(b, d, a, r))
  <1> DEFINE content == Capture(b, d, a, r)
  <1>1. /\ content.rows = Diff(b.db, d)
        /\ content.marks = a \ b.applied
        /\ content.stamps = [k \in {x \in Key : b.rowHlc[x] # r[x]} |->
                               [old |-> b.rowHlc[k], new |-> r[k]]]
        BY DEF Capture
  <1>2. \A k \in DOMAIN content.rows :
           k \in Key /\ content.rows[k] = DiffRow(b.db[k], d[k])
        BY <1>1 DEF Diff
  <1>3. \A k \in DOMAIN content.stamps : k \in Key /\ content.stamps[k].new = r[k]
        BY <1>1
  <1>4. \A k \in Key : GoodChange(DiffRow(b.db[k], d[k]))
        BY DiffGood
  <1>5. /\ \A k \in DOMAIN content.rows : k \in Key /\ GoodChange(content.rows[k])
        /\ content.marks \subseteq Name
        /\ \A k \in DOMAIN content.stamps : k \in Key /\ content.stamps[k].new \in Nat
        <2> HIDE DEF content
        <2> QED BY <1>1, <1>2, <1>3, <1>4
  <1> QED BY <1>5 DEF GoodContent

LEMMA SnapshotGood ==
  ASSUME NEW d \in [Key -> MaybeRow]
  PROVE  GoodContent(Snapshot(d))
  <1> DEFINE nothing == [k \in Key |-> None]
  <1>1. \A k \in Key : nothing[k] \in MaybeRow /\ d[k] \in MaybeRow
        BY DEF MaybeRow
  <1>2. /\ Snapshot(d).rows = Diff(nothing, d)
        /\ Snapshot(d).marks = {}
        /\ Snapshot(d).stamps = << >>
        BY DEF Snapshot
  <1>3. /\ DOMAIN Diff(nothing, d) \subseteq Key
        /\ \A k \in DOMAIN Diff(nothing, d) : Diff(nothing, d)[k] = DiffRow(nothing[k], d[k])
        BY DEF Diff
  <1>4. \A k \in Key : GoodChange(DiffRow(nothing[k], d[k]))
        BY <1>1, DiffGood
  <1>5. DOMAIN << >> = {}
        OBVIOUS
  <1> HIDE DEF nothing
  <1> QED BY <1>2, <1>3, <1>4, <1>5 DEF GoodContent

\* Applying a well-formed change to a row gives a row.
LEMMA ResolveTyped ==
  ASSUME NEW change, GoodChange(change), NEW row \in MaybeRow, NEW h \in Nat,
         NEW n \in Name, NEW c \in Client
  PROVE  /\ Resolve(change, row, h, n, c).row \in MaybeRow
         /\ Resolve(change, row, h, n, c).hlc \in Nat
  <1>1. n.hlc \in Nat
        BY DEF Name
  <1>2. ASSUME Clean(change, row) \/ ~NotFound(change, row)
        PROVE  Effect(change, row) \in MaybeRow
        <2>1. CASE change.new = None
              BY <2>1 DEF Effect, MaybeRow
        <2>2. CASE change.new # None /\ row = None
              <3>1. change.old = None
                    BY <1>2, <2>2 DEF Clean, NotFound
              <3>2. change.new \in MaybeRow
                    BY <3>1 DEF GoodChange
              <3> QED BY <2>2, <3>2 DEF Effect
        <2>3. CASE change.new # None /\ row # None
              <3>1. change.new \in PartialRow
                    BY <2>3, RowIsPartial DEF GoodChange, MaybeRow
              <3>2. PICK D \in SUBSET Col : change.new \in [D -> Val]
                    BY <3>1 DEF PartialRow
              <3>3. row \in [Col -> Val]
                    BY <2>3 DEF MaybeRow, Row
              <3>4. [f \in Col |-> IF f \in DOMAIN change.new THEN change.new[f] ELSE row[f]]
                      \in [Col -> Val]
                    BY <3>2, <3>3
              <3> QED BY <2>3, <3>4 DEF Effect, MaybeRow, Row
        <2> QED BY <2>1, <2>2, <2>3
  <1> QED BY <1>1, <1>2 DEF Resolve

LEMMA StampsTyped ==
  ASSUME NEW r \in [Key -> Nat], NEW content, GoodContent(content)
  PROVE  AddStamps(r, content.stamps) \in [Key -> Nat]
  BY DEF AddStamps, GoodContent

LEMMA AppliedTyped ==
  ASSUME NEW content, GoodContent(content), NEW n \in Name, NEW c \in Client,
         NEW d \in [Key -> MaybeRow], NEW r \in [Key -> Nat], NEW t, NEW f \in BOOLEAN
  PROVE  /\ Applied(content, n, c, d, r, t, f).db \in [Key -> MaybeRow]
         /\ Applied(content, n, c, d, r, t, f).rowHlc \in [Key -> Nat]
  <1> DEFINE before   == IF f THEN AddStamps(r, content.stamps) ELSE r
             resolved == [k \in Reached(content, t) |->
                            Resolve(content.rows[k], d[k], before[k], n, c)]
             after    == [k \in Key |-> IF k \in DOMAIN resolved THEN resolved[k].hlc
                                                                 ELSE before[k]]
  <1>1. before \in [Key -> Nat]
        BY StampsTyped
  <1>2. \A k \in Reached(content, t) : k \in Key /\ GoodChange(content.rows[k])
        BY DEF Reached, GoodContent
  <1>3. \A k \in Reached(content, t) :
           resolved[k].row \in MaybeRow /\ resolved[k].hlc \in Nat
        <2> SUFFICES ASSUME NEW k \in Reached(content, t)
                     PROVE  /\ Resolve(content.rows[k], d[k], before[k], n, c).row \in MaybeRow
                            /\ Resolve(content.rows[k], d[k], before[k], n, c).hlc \in Nat
            OBVIOUS
        <2>1. d[k] \in MaybeRow /\ before[k] \in Nat
              BY <1>1, <1>2
        <2> HIDE DEF before
        <2> QED BY <2>1, <1>2, ResolveTyped
  <1>4. DOMAIN resolved = Reached(content, t)
        OBVIOUS
  <1> HIDE DEF before, resolved
  <1>5. after \in [Key -> Nat]
        BY <1>1, <1>3, <1>4
  <1>6. [k \in Key |-> IF k \in DOMAIN resolved THEN resolved[k].row ELSE d[k]]
          \in [Key -> MaybeRow]
        BY <1>3, <1>4
  <1> HIDE DEF after
  <1>7. AddStamps(after, content.stamps) \in [Key -> Nat]
        BY <1>5, StampsTyped
  <1>8. Applied(content, n, c, d, r, t, f) =
          [db     |-> [k \in Key |-> IF k \in DOMAIN resolved THEN resolved[k].row ELSE d[k]],
           rowHlc |-> IF f THEN after ELSE AddStamps(after, content.stamps)]
        BY DEF Applied, before, resolved, after
  <1> QED BY <1>5, <1>6, <1>7, <1>8

-----------------------------------------------------------------------------------
(* The steps. *)

LEMMA InitTypes == Init => TypeInv
  <1> SUFFICES ASSUME Init PROVE TypeInv
      OBVIOUS
  <1> USE DEF Init
  <1>1. TypeOK
        BY SyncEngineAssumption DEF TypeOK
  <1>2. GoodContents /\ Places
        BY DEF GoodContents, Places, Busy
  <1> QED BY <1>1, <1>2 DEF TypeInv

LEMMA QuietTypes ==
  ASSUME TypeInv, NEW c \in Client,
         \/ Construct(c) \/ StartWithoutSnapshot(c) \/ Stop(c) \/ End(c)
  PROVE  TypeInv'
  <1> USE DEF TypeInv, TypeOK, GoodContents, Places, Busy, durable, session, syncing,
              shared, budget
  <1>1. CASE Construct(c)
        <2>1. PICK h \in Nat : clock' = [clock EXCEPT ![c] = h]
              BY <1>1, SyncEngineAssumption, PartsOfPack DEF Construct
        <2> QED BY <1>1, <2>1 DEF Construct
  <1>2. CASE StartWithoutSnapshot(c)
        <2>1. queued' = queued \/ queued' = [queued EXCEPT ![c] = @ \/ c \in AutoCapture]
              BY <1>2 DEF StartWithoutSnapshot, HookFires
        <2>2. queued' \in [Client -> BOOLEAN]
              <3>1. queued \in [Client -> BOOLEAN]
                    OBVIOUS
              <3> QED BY <2>1, <3>1, ZenonT(30)
        <2> QED BY <1>2, <2>2 DEF StartWithoutSnapshot, InstallHook, Here
  <1>3. CASE Stop(c)
        BY <1>3, SyncEngineAssumption DEF Stop
  <1>4. CASE End(c)
        BY <1>4, SyncEngineAssumption DEF End
  <1> QED BY <1>1, <1>2, <1>3, <1>4

\* Numbering a changeset whose content is well formed.
LEMMA StampTypes ==
  ASSUME TypeInv, NEW c \in Client, NEW content, GoodContent(content), NEW w \in Wall,
         NEW next \in {"publish", "snapshot"}, pc[c] \notin Busy,
         Stamp(c, content, Now(clock[c], w), next)
  PROVE  /\ clock' \in [Client -> Nat] /\ rowHlc' \in [Client -> [Key -> Nat]]
         /\ seqno' \in [Client -> Nat]
         /\ pc' = [pc EXCEPT ![c] = next]
         /\ DOMAIN out' = Client /\ \A d \in Client \ {c} : out'[d] = out[d]
         /\ out'[c].name \in Name /\ out'[c].content = content
  <1> DEFINE h == Now(clock[c], w)
  <1>1. h \in Nat
        BY SyncEngineAssumption, NowPhysical DEF TypeInv, TypeOK
  <1> HIDE DEF h
  <1>2. /\ clock' = [clock EXCEPT ![c] = h]
        /\ rowHlc' = [rowHlc EXCEPT ![c] = Stamped(c, content, h)]
        /\ seqno' = [seqno EXCEPT ![c] = @ + 1]
        /\ out' = [out EXCEPT ![c] = [name |-> NextName(c, h), content |-> content]]
        /\ pc' = [pc EXCEPT ![c] = next]
        BY DEF Stamp, h
  <1>3. NextName(c, h) \in Name
        BY <1>1, SyncEngineAssumption DEF NextName, Name, TypeInv, TypeOK
  <1>4. Stamped(c, content, h) \in [Key -> Nat]
        BY <1>1 DEF Stamped, TypeInv, TypeOK
  <1> QED BY <1>1, <1>2, <1>3, <1>4 DEF TypeInv, TypeOK, Places

\* The rest of a step that numbers a changeset: the session ends or begins.
LEMMA NumberTypes ==
  ASSUME TypeInv, NEW c \in Client, NEW content, GoodContent(content), NEW w \in Wall,
         NEW next \in {"publish", "snapshot"},
         Stamp(c, content, Now(clock[c], w), next),
         StartWithSnapshot(c) \/ EndWrite(c) \/ Flush(c)
  PROVE  TypeInv'
  <1>1. pc[c] \in {"stopped", "idle"}
        BY DEF StartWithSnapshot, EndWrite, Flush, Ready
  <1>2. /\ clock' \in [Client -> Nat] /\ rowHlc' \in [Client -> [Key -> Nat]]
        /\ seqno' \in [Client -> Nat]
        /\ pc' = [pc EXCEPT ![c] = next]
        /\ DOMAIN out' = Client /\ \A d \in Client \ {c} : out'[d] = out[d]
        /\ out'[c].name \in Name /\ out'[c].content = content
        BY <1>1, StampTypes DEF Busy
  <1>3. UNCHANGED <<db, applied, tables, version, todo, deferred, progress, cur, folder,
                    seen, torn, writes, restarts>>
        BY DEF StartWithSnapshot, EndWrite, Flush, syncing, shared, budget
  <1>4. /\ manual' \in [Client -> BOOLEAN] /\ queued' \in [Client -> BOOLEAN]
        /\ base' = [base EXCEPT ![c] = None] \/ base' = [base EXCEPT ![c] = Here(c)]
        BY DEF StartWithSnapshot, EndWrite, Flush, InstallHook, HookFires, TypeInv, TypeOK
  <1>5. \A d \in Client : base'[d] # None =>
          /\ base'[d].db \in [Key -> Row \cup {None}]
          /\ base'[d].rowHlc \in [Key -> Nat]
          /\ base'[d].applied \subseteq applied'[d]
        BY <1>3, <1>4 DEF TypeInv, TypeOK, Places, Here
  <1>6. /\ pc' \in [Client -> {"down", "stopped", "idle", "publish", "own", "snapshot",
                              "ownSnapshot", "list", "first", "retry"}]
        /\ \A d \in Client :
             IF pc'[d] \in {"publish", "own", "snapshot", "ownSnapshot"}
               THEN out'[d].name \in Name /\ DOMAIN out'[d].content.rows \subseteq Key
               ELSE out'[d] = None
        BY <1>2 DEF TypeInv, TypeOK, GoodContent
  <1>7. TypeOK'
        BY <1>2, <1>3, <1>4, <1>5, <1>6 DEF TypeInv, TypeOK
  <1>8. GoodContents' /\ Places'
        BY <1>1, <1>2, <1>3, <1>4 DEF TypeInv, GoodContents, Places, Busy
  <1> QED BY <1>7, <1>8 DEF TypeInv

LEMMA NumberingTypes ==
  ASSUME TypeInv, NEW c \in Client,
         StartWithSnapshot(c) \/ EndWrite(c) \/ Flush(c)
  PROVE  TypeInv'
  <1>1. db[c] \in [Key -> MaybeRow] /\ applied[c] \in SUBSET Name /\ rowHlc[c] \in [Key -> Nat]
        BY DEF TypeInv, TypeOK, MaybeRow
  <1>2. GoodContent(Snapshot(db[c]))
        BY <1>1, SnapshotGood
  <1>3. GoodContent(Captured(c))
        <2>1. CASE base[c] = None
              BY <2>1 DEF Captured, GoodContent
        <2>2. CASE base[c] # None
              <3>1. base[c].db \in [Key -> MaybeRow]
                    BY <2>2 DEF TypeInv, TypeOK, MaybeRow
              <3> QED BY <1>1, <2>2, <3>1, CaptureGood DEF Captured
        <2> QED BY <2>1, <2>2
  <1>4. CASE StartWithSnapshot(c)
        <2>1. PICK w \in Wall : Stamp(c, Snapshot(db[c]), Now(clock[c], w), "snapshot")
              BY <1>4 DEF StartWithSnapshot
        <2> QED BY <1>2, <1>4, <2>1, NumberTypes
  <1>5. CASE EndWrite(c) \/ Flush(c)
        <2>1. PICK w \in Wall : Stamp(c, Captured(c), Now(clock[c], w), "publish")
              BY <1>5 DEF EndWrite, Flush
        <2> QED BY <1>3, <1>5, <2>1, NumberTypes
  <1> QED BY <1>4, <1>5

\* A statement turns a row into a row.
LEMMA RewrittenTyped ==
  ASSUME NEW row \in MaybeRow
  PROVE  Rewritten(row) \subseteq MaybeRow
  <1>1. Payload \subseteq Val
        BY DEF Payload
  <1>2. Inserted \subseteq Row
        BY <1>1 DEF Inserted, Row
  <1>3. row # None => Updated(row) \subseteq Row
        BY <1>1 DEF Updated, Row, MaybeRow
  <1> QED BY <1>2, <1>3 DEF Rewritten, MaybeRow

LEMMA ApplicationTypes ==
  ASSUME TypeInv, NEW c \in Client, Application(c)
  PROVE  TypeInv'
  <1> USE DEF durable, session, syncing, shared, budget
  <1>1. CASE EndWrite(c)
        BY <1>1, NumberingTypes
  <1>2. CASE BeginWrite(c)
        BY <1>2 DEF TypeInv, TypeOK, GoodContents, Places, Busy, BeginWrite, Here
  <1>3. CASE Exec(c)
        <2>1. PICK k \in Key : \E row \in Rewritten(db[c][k]) :
                db' = [db EXCEPT ![c][k] = row]
              BY <1>3 DEF Exec
        <2>2. Rewritten(db[c][k]) \subseteq MaybeRow
              BY RewrittenTyped DEF TypeInv, TypeOK, MaybeRow
        <2>3. db' \in [Client -> [Key -> Row \cup {None}]]
              BY <2>1, <2>2 DEF TypeInv, TypeOK, MaybeRow
        <2>4. writes' \in 0 .. MaxWrites
              BY <1>3, SyncEngineAssumption DEF Exec, TypeInv, TypeOK
        <2>5. queued' \in [Client -> BOOLEAN]
              BY <1>3 DEF Exec, HookFires, TypeInv, TypeOK
        <2> QED BY <1>3, <2>3, <2>4, <2>5 DEF TypeInv, TypeOK, GoodContents, Places, Busy, Exec
  <1>4. CASE EndWriteEmpty(c)
        BY <1>4 DEF TypeInv, TypeOK, GoodContents, Places, Busy, EndWriteEmpty, Reopen, Here
  <1>5. CASE CreateTable(c)
        BY <1>5 DEF TypeInv, TypeOK, GoodContents, Places, Busy, CreateTable, HookFires
  <1>6. CASE SetSchemaVersion(c)
        BY <1>6, SyncEngineAssumption
           DEF TypeInv, TypeOK, GoodContents, Places, Busy, SetSchemaVersion
  <1> QED BY <1>1, <1>2, <1>3, <1>4, <1>5, <1>6 DEF Application

\* The file that is written holds the well-formed changeset that was waiting.
LEMMA PublishTypes ==
  ASSUME TypeInv, NEW c \in Client, Publish(c)
  PROVE  TypeInv'
  <1> DEFINE N == out[c].name
  <1>1. /\ folder' = [m \in DOMAIN folder \cup {N} |->
                        IF m = N THEN out[c].content ELSE folder[m]]
        /\ seen' = [d \in Client |-> IF d = c \/ "delay" \notin Faults
                                       THEN seen[d] \cup {N} ELSE seen[d]]
        /\ pc[c] \in {"publish", "snapshot"}
        /\ pc' = [pc EXCEPT ![c] = IF pc[c] = "publish" THEN "own" ELSE "ownSnapshot"]
        /\ UNCHANGED <<db, rowHlc, applied, tables, version, clock, seqno, base, manual, queued,
                       out, todo, deferred, progress, cur, torn, writes, restarts>>
        BY DEF Publish, durable, session, syncing, budget
  <1>2. N \in Name /\ GoodContent(out[c].content)
        BY <1>1 DEF TypeInv, TypeOK, GoodContents, Busy
  <1>3. \A d \in Client : seen[d] \subseteq seen'[d] /\ seen'[d] \subseteq seen[d] \cup {N}
        BY <1>1
  <1>4. /\ DOMAIN folder' = DOMAIN folder \cup {N}
        /\ \A n \in DOMAIN folder' : GoodContent(folder'[n])
        BY <1>1, <1>2 DEF TypeInv, GoodContents
  <1>5. TypeOK'
        BY <1>1, <1>2, <1>3, <1>4 DEF TypeInv, TypeOK, GoodContent
  <1>6. GoodContents' /\ Places'
        BY <1>1, <1>3, <1>4 DEF TypeInv, GoodContents, Places, Busy
  <1> QED BY <1>5, <1>6 DEF TypeInv

\* The engine forgets the changeset; _sync_applied may have gained a name.
LEMMA ForgetTypes ==
  ASSUME TypeInv, NEW c \in Client, NEW marks \in SUBSET Name, pc[c] \in Busy,
         DOMAIN applied' = Client, applied'[c] = marks, applied[c] \subseteq marks,
         \A d \in Client \ {c} : applied'[d] = applied[d],
         out' = [out EXCEPT ![c] = None], AfterPublish(c, marks),
         queued' \in [Client -> BOOLEAN],
         UNCHANGED <<db, rowHlc, tables, version, clock, seqno, manual, todo, deferred,
                     progress, cur, folder, seen, torn, writes, restarts>>
  PROVE  TypeInv'
  <1>1. pc' = [pc EXCEPT ![c] = "list"] \/ pc' = [pc EXCEPT ![c] = "idle"]
        BY DEF AfterPublish
  <1>2. \/ base' = base
        \/ base' = [base EXCEPT ![c] = None]
        \/ base' = [base EXCEPT ![c] = [Here(c) EXCEPT !.applied = marks]]
        BY DEF AfterPublish, Reopen
  <1>3. /\ DOMAIN base' = Client
        /\ \A d \in Client : base'[d] # None =>
             /\ base'[d].db \in [Key -> Row \cup {None}]
             /\ base'[d].rowHlc \in [Key -> Nat]
             /\ base'[d].applied \subseteq applied'[d]
        <2>1. /\ [Here(c) EXCEPT !.applied = marks].db = db[c]
              /\ [Here(c) EXCEPT !.applied = marks].rowHlc = rowHlc[c]
              /\ [Here(c) EXCEPT !.applied = marks].applied = marks
              BY DEF Here
        <2>2. db[c] \in [Key -> Row \cup {None}] /\ rowHlc[c] \in [Key -> Nat]
              BY DEF TypeInv, TypeOK
        <2>3. \A d \in Client : base[d] # None =>
                 /\ base[d].db \in [Key -> Row \cup {None}]
                 /\ base[d].rowHlc \in [Key -> Nat]
                 /\ base[d].applied \subseteq applied'[d]
              BY DEF TypeInv, TypeOK
        <2>4. DOMAIN base = Client
              BY DEF TypeInv, Places
        <2> QED BY <1>2, <2>1, <2>2, <2>3, <2>4
  <1>4. /\ pc' \in [Client -> {"down", "stopped", "idle", "publish", "own", "snapshot",
                              "ownSnapshot", "list", "first", "retry"}]
        /\ \A d \in Client : pc'[d] = IF d = c THEN pc'[c] ELSE pc[d]
        /\ pc'[c] \in {"list", "idle"}
        <2>1. pc \in [Client -> {"down", "stopped", "idle", "publish", "own", "snapshot",
                                "ownSnapshot", "list", "first", "retry"}]
              BY DEF TypeInv, TypeOK
        <2>2. CASE pc' = [pc EXCEPT ![c] = "list"]
              BY <2>1, <2>2
        <2>3. CASE pc' = [pc EXCEPT ![c] = "idle"]
              BY <2>1, <2>3
        <2> QED BY <1>1, <2>2, <2>3
  <1>5. /\ DOMAIN out' = Client
        /\ \A d \in Client : out'[d] = IF d = c THEN None ELSE out[d]
        BY DEF TypeInv, Places
  <1>6. cur[c] = None
        BY DEF TypeInv, Places, Busy
  <1>7. \A d \in Client : applied'[d] \subseteq Name
        BY DEF TypeInv, TypeOK
  <1>8. TypeOK'
        BY <1>3, <1>4, <1>5, <1>7 DEF TypeInv, TypeOK
  <1>9. GoodContents' /\ Places'
        BY <1>3, <1>4, <1>5, <1>6 DEF TypeInv, GoodContents, Places, Busy
  <1> QED BY <1>8, <1>9 DEF TypeInv

LEMMA PublishingTypes ==
  ASSUME TypeInv, NEW c \in Client, Publishing(c)
  PROVE  TypeInv'
  <1> USE DEF durable, session, syncing, shared, budget
  <1>1. CASE Flush(c)
        BY <1>1, NumberingTypes
  <1>2. CASE FlushDropped(c)
        BY <1>2 DEF TypeInv, TypeOK, GoodContents, Places, Busy, FlushDropped
  <1>3. CASE FlushEmpty(c)
        BY <1>3 DEF TypeInv, TypeOK, GoodContents, Places, Busy, FlushEmpty, Here
  <1>4. CASE Publish(c)
        BY <1>4, PublishTypes
  <1>5. CASE PublishFails(c)
        BY <1>5, ForgetTypes DEF PublishFails, TypeInv, TypeOK, Places, Busy
  <1>6. CASE MarkOwn(c)
        <2>1. /\ pc[c] \in {"own", "ownSnapshot"}
              /\ applied' = [applied EXCEPT ![c] = @ \cup {out[c].name}]
              /\ AfterPublish(c, applied'[c])
              BY <1>6 DEF MarkOwn
        <2>2. out[c].name \in Name /\ applied[c] \subseteq Name /\ DOMAIN applied = Client
              BY <2>1 DEF TypeInv, TypeOK, Places
        <2>3. queued' \in [Client -> BOOLEAN]
              BY <1>6 DEF MarkOwn, HookFires, TypeInv, TypeOK
        <2> QED BY <1>6, <2>1, <2>2, <2>3, ForgetTypes DEF MarkOwn, Busy
  <1> QED BY <1>1, <1>2, <1>3, <1>4, <1>5, <1>6 DEF Publishing

\* sync().  A name that is taken from the list is a name, and what it stands for
\* in the folder is well formed.
LEMMA TakenTypes ==
  ASSUME TypeInv, NEW c \in Client, NEW n \in Earliest(todo[c])
  PROVE  n \in todo[c] /\ n \in seen[c] /\ n \in Name /\ n.hlc \in Nat /\ GoodContent(folder[n])
  <1>1. n \in todo[c] /\ n \in seen[c]
        BY DEF Earliest, TypeInv, TypeOK
  <1>2. n \in DOMAIN folder /\ n \in Name
        BY <1>1 DEF TypeInv, TypeOK
  <1> QED BY <1>1, <1>2 DEF TypeInv, GoodContents, Name

LEMMA ApplyTypes ==
  ASSUME TypeInv, NEW c \in Client, Apply(c)
  PROVE  TypeInv'
  <1>0. PICK n \in Earliest(todo[c]) \ torn[c], w \in Wall, stampsFirst \in BOOLEAN :
          ApplyFile(c, n, w, stampsFirst)
        BY DEF Apply
  <1> DEFINE result == Applied(folder[n], n, c, db[c], rowHlc[c], tables[c], stampsFirst)
             whole  == AppliesWhole(c, folder[n])
  <1>1. /\ clock' = [clock EXCEPT ![c] = Receive(@, n.hlc, w)]
        /\ db' = [db EXCEPT ![c] = result.db]
        /\ rowHlc' = [rowHlc EXCEPT ![c] = result.rowHlc]
        /\ applied' = [applied EXCEPT ![c] = @ \cup folder[n].marks]
        /\ cur' = [cur EXCEPT ![c] = IF whole THEN n ELSE None]
        /\ todo' = [todo EXCEPT ![c] = @ \ {n}]
        /\ deferred' = [deferred EXCEPT ![c] = IF whole \/ pc[c] = "retry"
                                                 THEN @ ELSE @ \cup {n}]
        BY <1>0 DEF ApplyFile
  <1>2. n \in todo[c] /\ n \in seen[c] /\ n \in Name /\ n.hlc \in Nat /\ GoodContent(folder[n])
        BY TakenTypes
  <1>3. result.db \in [Key -> MaybeRow] /\ result.rowHlc \in [Key -> Nat]
        BY <1>2, AppliedTyped DEF TypeInv, TypeOK, MaybeRow
  <1> HIDE DEF result, whole
  <1>4. db' \in [Client -> [Key -> Row \cup {None}]] /\ rowHlc' \in [Client -> [Key -> Nat]]
        BY <1>1, <1>3 DEF TypeInv, TypeOK, MaybeRow
  <1>5. clock' \in [Client -> Nat]
        BY <1>1, <1>2, SyncEngineAssumption, ReceivePhysical DEF TypeInv, TypeOK
  <1>6. /\ DOMAIN applied' = Client
        /\ \A d \in Client : applied[d] \subseteq applied'[d] /\ applied'[d] \subseteq Name
        BY <1>1, <1>2 DEF TypeInv, TypeOK, Places, GoodContent
  <1>7. /\ DOMAIN todo' = Client /\ DOMAIN deferred' = Client
        /\ \A d \in Client : todo'[d] \cup deferred'[d] \subseteq seen[d]
        BY <1>1, <1>2 DEF TypeInv, TypeOK, Places
  <1>8. /\ pc[c] \in {"first", "retry"}
        /\ DOMAIN cur' = Client
        /\ \A d \in Client : cur'[d] # None =>
             cur'[d] \in seen[d] \ todo'[d] /\ pc[d] \in {"first", "retry"}
        BY <1>1, <1>2 DEF TypeInv, TypeOK, Places, Apply, InPass
  <1>9. queued' \in [Client -> BOOLEAN]
        BY DEF Apply, HookFires, TypeInv, TypeOK
  <1>10. UNCHANGED <<tables, version, seqno, base, manual, pc, out, progress, folder, seen,
                     torn, writes, restarts>>
        BY DEF Apply, shared, budget
  <1>11. \A d \in Client : base[d] # None => base[d].applied \subseteq applied'[d]
        BY <1>6 DEF TypeInv, TypeOK
  <1>12. TypeOK'
        BY <1>4, <1>5, <1>6, <1>7, <1>8, <1>9, <1>10, <1>11 DEF TypeInv, TypeOK
  <1>13. GoodContents' /\ Places'
        BY <1>6, <1>7, <1>8, <1>10 DEF TypeInv, GoodContents, Places
  <1> QED BY <1>12, <1>13 DEF TypeInv

LEMMA SyncingTypes ==
  ASSUME TypeInv, NEW c \in Client, Syncing(c)
  PROVE  TypeInv'
  <1> USE DEF durable, session, syncing, shared, budget
  <1>1. CASE SyncStart(c)
        <2>1. Pending(c) \subseteq seen[c]
              BY DEF Pending
        <2>2. cur[c] = None
              BY <1>1 DEF SyncStart, Ready, TypeInv, Places
        <2>3. pc[c] \notin Busy
              BY <1>1 DEF SyncStart, Ready, Busy
        <2>4. pc' = [pc EXCEPT ![c] = "idle"] \/ pc' = [pc EXCEPT ![c] = "first"]
              BY <1>1 DEF SyncStart
        <2> QED BY <1>1, <2>1, <2>2, <2>3, <2>4
                DEF SyncStart, TypeInv, TypeOK, GoodContents, Places, Busy
  <1>2. CASE RejectVersion(c)
        BY <1>2, TakenTypes DEF RejectVersion, TypeInv, TypeOK, GoodContents, Places, Busy
  <1>3. CASE Unreadable(c)
        <2>1. PICK n \in Earliest(todo[c]) :
                /\ todo' = [todo EXCEPT ![c] = @ \ {n}]
                /\ \/ UNCHANGED clock
                   \/ \E w \in Wall : clock' = [clock EXCEPT ![c] = Receive(@, n.hlc, w)]
              BY <1>3 DEF Unreadable
        <2>2. n.hlc \in Nat
              BY TakenTypes
        <2>3. clock \in [Client -> Nat] /\ \A w \in Wall : Receive(clock[c], n.hlc, w) \in Nat
              BY <2>2, SyncEngineAssumption, ReceivePhysical DEF TypeInv, TypeOK
        <2>4. clock' \in [Client -> Nat]
              BY <2>1, <2>3
        <2> QED BY <1>3, <2>1, <2>4
                DEF Unreadable, TypeInv, TypeOK, GoodContents, Places, Busy
  <1>4. CASE Apply(c)
        BY <1>4, ApplyTypes
  <1>5. CASE Mark(c)
        <2>1. cur[c] \in Name /\ pc[c] \in {"first", "retry"}
              BY <1>5 DEF Mark, TypeInv, TypeOK, Places
        <2>2. /\ DOMAIN applied' = Client
              /\ \A d \in Client : applied[d] \subseteq applied'[d] /\ applied'[d] \subseteq Name
              BY <1>5, <2>1 DEF Mark, TypeInv, TypeOK, Places
        <2>3. queued' \in [Client -> BOOLEAN]
              BY <1>5 DEF Mark, HookFires, TypeInv, TypeOK
        <2> QED BY <1>5, <2>2, <2>3 DEF Mark, TypeInv, TypeOK, GoodContents, Places, Busy
  <1>6. CASE EndPass(c)
        <2>1. cur[c] = None /\ pc[c] \in {"first", "retry"}
              BY <1>6 DEF EndPass, InPass
        <2> QED BY <1>6, <2>1 DEF EndPass, TypeInv, TypeOK, GoodContents, Places, Busy
  <1> QED BY <1>1, <1>2, <1>3, <1>4, <1>5, <1>6 DEF Syncing

LEMMA DeliveryTypes ==
  ASSUME TypeInv, NEW c \in Client, Delivery(c)
  PROVE  TypeInv'
  <1> USE DEF durable, session, syncing, budget
  <1>1. CASE Deliver(c)
        BY <1>1 DEF Deliver, TypeInv, TypeOK, GoodContents, Places, Busy
  <1>2. CASE DeliverRest(c)
        BY <1>2 DEF DeliverRest, TypeInv, TypeOK, GoodContents, Places, Busy
  <1> QED BY <1>1, <1>2 DEF Delivery

LEMMA NextTypes == TypeInv /\ [Next]_vars => TypeInv'
  <1> SUFFICES ASSUME TypeInv, [Next]_vars PROVE TypeInv'
      OBVIOUS
  <1>1. CASE UNCHANGED vars
        BY <1>1 DEF vars, TypeInv, TypeOK, GoodContents, Places
  <1>2. CASE Next
        <2>1. PICK c \in Client : \/ Process(c) \/ Application(c) \/ Publishing(c)
                                 \/ Syncing(c) \/ Delivery(c)
              BY <1>2 DEF Next
        <2>2. CASE Process(c)
              BY <2>2, QuietTypes, NumberingTypes DEF Process
        <2> QED BY <2>1, <2>2, ApplicationTypes, PublishingTypes, SyncingTypes, DeliveryTypes
  <1> QED BY <1>1, <1>2

\* Every database holds whole rows, every file and every session is what it should
\* be, and the handlers take the places and the names they may (TypeOK), whatever
\* goes wrong, for all clients, rows and columns.
THEOREM EngineTypeOK == Spec => []TypeOK
  <1>1. TypeInv => TypeOK
        BY DEF TypeInv
  <1> QED BY <1>1, InitTypes, NextTypes, PTL DEF Spec

-----------------------------------------------------------------------------------
(* The names of changesets. *)

Spots == {"down", "stopped", "idle", "publish", "own", "snapshot", "ownSnapshot",
           "list", "first", "retry"}

Writing(c) == pc[c] \in {"publish", "snapshot"}

NamesOf(c) == {n \in DOMAIN folder : n.client = c}

\* The variables the argument is about are functions over all clients.
Shape ==
  /\ pc \in [Client -> Spots]
  /\ seqno \in [Client -> Nat]
  /\ DOMAIN out = Client

\* Every sequence number in the folder has been given out by the engine that
\* runs now.
NumbersUsed == \A c \in Client : \A n \in NamesOf(c) : n.seq \in Nat /\ n.seq < seqno[c]

\* A process that has not constructed its engine has written nothing.
NothingBefore == \A c \in Client : pc[c] = "down" => NamesOf(c) = {}

\* The changeset about to be written has the number given out last.
NumberFresh ==
  \A c \in Client : Writing(c) =>
    /\ out[c].name.client = c
    /\ out[c].name.seq \in Nat /\ out[c].name.seq < seqno[c]
    /\ \A n \in NamesOf(c) : n.seq < out[c].name.seq

NamesInv == Shape /\ NumbersUsed /\ NothingBefore /\ NumberFresh

NoLoss == "crash" \notin Faults /\ "exit" \notin Faults

-----------------------------------------------------------------------------------
\* The invariant holds at the start: the folder is empty.
LEMMA InitNames == Init => NamesInv
  BY DEF Init, NamesInv, Shape, NumbersUsed, NothingBefore, NumberFresh, Writing,
         NamesOf, Spots

\* A step that neither numbers nor writes a changeset keeps the invariant.
LEMMA QuietStep ==
  ASSUME NamesInv, UNCHANGED <<folder, seqno, out>>, NEW c \in Client, NEW p \in Spots,
         p \notin {"down", "publish", "snapshot"}, pc' = [pc EXCEPT ![c] = p]
  PROVE  NamesInv'
  BY DEF NamesInv, Shape, NumbersUsed, NothingBefore, NumberFresh, Writing, NamesOf

\* The same of a step that leaves the engine where it is.
LEMMA StillStep ==
  ASSUME NamesInv, UNCHANGED <<folder, seqno, out, pc>>
  PROVE  NamesInv'
  BY DEF NamesInv, Shape, NumbersUsed, NothingBefore, NumberFresh, Writing, NamesOf

\* Numbering a changeset: the number is above those in the folder.
LEMMA StampStep ==
  ASSUME NamesInv, NEW c \in Client, NEW content, NEW h, NEW next \in {"publish", "snapshot"},
         Stamp(c, content, h, next), UNCHANGED folder
  PROVE  NamesInv'
  <1> USE DEF NamesInv, Shape, NumbersUsed, NothingBefore, NumberFresh, Writing, NamesOf
  <1>1. /\ seqno' = [seqno EXCEPT ![c] = @ + 1]
        /\ pc' = [pc EXCEPT ![c] = next]
        /\ out' = [out EXCEPT ![c] = [name |-> NextName(c, h), content |-> content]]
        BY DEF Stamp
  <1>2. /\ out'[c].name.client = c
        /\ out'[c].name.seq = seqno[c]
        BY <1>1 DEF NextName
  <1>3. \A d \in Client \ {c} : pc'[d] = pc[d] /\ seqno'[d] = seqno[d] /\ out'[d] = out[d]
        BY <1>1
  <1>4. pc'[c] = next /\ seqno'[c] = seqno[c] + 1 /\ seqno[c] \in Nat
        BY <1>1
  <1>5. Shape'
        BY <1>1 DEF Spots
  <1>6. NumbersUsed'
        <2> SUFFICES ASSUME NEW d \in Client, NEW n \in NamesOf(d)
                     PROVE  n.seq \in Nat /\ n.seq < seqno'[d]
            OBVIOUS
        <2>1. CASE d = c
              BY <2>1, <1>4
        <2>2. CASE d # c
              BY <2>2, <1>3
        <2> QED BY <2>1, <2>2
  <1>7. NothingBefore'
        BY <1>3, <1>4
  <1>8. NumberFresh'
        <2> SUFFICES ASSUME NEW d \in Client, Writing(d)'
                     PROVE  /\ out'[d].name.client = d
                            /\ out'[d].name.seq \in Nat /\ out'[d].name.seq < seqno'[d]
                            /\ \A n \in NamesOf(d) : n.seq < out'[d].name.seq
            OBVIOUS
        <2>1. CASE d = c
              BY <2>1, <1>2, <1>4
        <2>2. CASE d # c
              BY <2>2, <1>3
        <2> QED BY <2>1, <2>2
  <1> QED BY <1>5, <1>6, <1>7, <1>8

\* Writing a file: its name is new, and nobody else's.
LEMMA PublishStep ==
  ASSUME NamesInv, NEW c \in Client, Publish(c)
  PROVE  /\ NamesInv'
         /\ \A n \in DOMAIN folder : n \in DOMAIN folder' /\ folder'[n] = folder[n]
  <1> DEFINE N == out[c].name
  <1> USE DEF NamesInv, Shape, NumbersUsed, NothingBefore, NumberFresh, Writing, NamesOf
  <1>1. /\ folder' = [m \in DOMAIN folder \cup {N} |->
                        IF m = N THEN out[c].content ELSE folder[m]]
        /\ UNCHANGED <<seqno, out>>
        /\ pc[c] \in {"publish", "snapshot"}
        /\ pc' = [pc EXCEPT ![c] = IF pc[c] = "publish" THEN "own" ELSE "ownSnapshot"]
        BY DEF Publish
  <1>2. N.client = c /\ N.seq \in Nat /\ N.seq < seqno[c]
        BY <1>1
  <1>3. N \notin DOMAIN folder
        <2> SUFFICES ASSUME N \in DOMAIN folder PROVE FALSE
            OBVIOUS
        <2>1. N \in NamesOf(c)
              BY <1>2
        <2>2. N.seq < N.seq
              BY <2>1, <1>1
        <2> QED BY <2>2, <1>2
  <1>4. /\ pc'[c] \in {"own", "ownSnapshot"}
        /\ \A d \in Client \ {c} : pc'[d] = pc[d] /\ NamesOf(d)' = NamesOf(d)
        BY <1>1, <1>2
  <1>5. NamesOf(c)' = NamesOf(c) \cup {N}
        BY <1>1, <1>2
  <1>6. Shape'
        BY <1>1 DEF Spots
  <1>7. NumbersUsed'
        <2> SUFFICES ASSUME NEW d \in Client, NEW n \in NamesOf(d)'
                     PROVE  n.seq \in Nat /\ n.seq < seqno[d]
            BY <1>1
        <2>1. CASE d = c
              BY <2>1, <1>5, <1>2
        <2>2. CASE d # c
              BY <2>2, <1>4
        <2> QED BY <2>1, <2>2
  <1>8. NothingBefore'
        BY <1>4
  <1>9. NumberFresh'
        BY <1>1, <1>4
  <1>10. \A n \in DOMAIN folder : n \in DOMAIN folder' /\ folder'[n] = folder[n]
        BY <1>1, <1>3
  <1> QED BY <1>6, <1>7, <1>8, <1>9, <1>10

\* No file changes or disappears in this step.
FilesKept == \A n \in DOMAIN folder : n \in DOMAIN folder' /\ folder'[n] = folder[n]

\* The actions of the process and of its application.
LEMMA ProcessNames ==
  ASSUME NoLoss, NamesInv, NEW c \in Client, Process(c)
  PROVE  NamesInv' /\ FilesKept
  <1> USE DEF shared
  <1>1. CASE Construct(c)
        <2>1. /\ pc[c] = "down" /\ pc' = [pc EXCEPT ![c] = "stopped"]
              /\ seqno' = [seqno EXCEPT ![c] = 0]
              /\ UNCHANGED <<folder, out>>
              BY <1>1 DEF Construct
        <2>2. NamesOf(c) = {}
              BY <2>1 DEF NamesInv, NothingBefore
        <2> QED BY <2>1, <2>2 DEF NamesInv, Shape, Spots, NumbersUsed, NothingBefore,
                                  NumberFresh, Writing, NamesOf, FilesKept
  <1>2. CASE StartWithSnapshot(c)
        <2>1. PICK w \in Wall :
                Stamp(c, Snapshot(db[c]), Now(clock[c], w), "snapshot")
              BY <1>2 DEF StartWithSnapshot
        <2>2. UNCHANGED folder
              BY <1>2 DEF StartWithSnapshot
        <2> QED BY <2>1, <2>2, StampStep DEF FilesKept
  <1>3. CASE StartWithoutSnapshot(c)
        BY <1>3, QuietStep DEF StartWithoutSnapshot, Spots, FilesKept
  <1>4. CASE Stop(c)
        BY <1>4, QuietStep DEF Stop, Spots, FilesKept
  <1>5. ~End(c)
        BY DEF End, NoLoss
  <1> QED BY <1>1, <1>2, <1>3, <1>4, <1>5 DEF Process

LEMMA ApplicationNames ==
  ASSUME NamesInv, NEW c \in Client, Application(c)
  PROVE  NamesInv' /\ FilesKept
  <1> USE DEF shared
  <1>1. CASE EndWrite(c)
        <2>1. PICK w \in Wall : Stamp(c, Captured(c), Now(clock[c], w), "publish")
              BY <1>1 DEF EndWrite
        <2>2. UNCHANGED folder
              BY <1>1 DEF EndWrite
        <2> QED BY <2>1, <2>2, StampStep DEF FilesKept
  <1>2. CASE BeginWrite(c)
        BY <1>2, StillStep DEF BeginWrite, FilesKept
  <1>3. CASE Exec(c)
        BY <1>3, StillStep DEF Exec, FilesKept
  <1>4. CASE EndWriteEmpty(c)
        BY <1>4, StillStep DEF EndWriteEmpty, FilesKept
  <1>5. CASE CreateTable(c)
        BY <1>5, StillStep DEF CreateTable, FilesKept
  <1>6. CASE SetSchemaVersion(c)
        BY <1>6, StillStep DEF SetSchemaVersion, FilesKept
  <1> QED BY <1>1, <1>2, <1>3, <1>4, <1>5, <1>6 DEF Application

\* Publishing.  After the file has been written, or has failed to be written, the
\* engine may forget the changeset.
LEMMA ForgetStep ==
  ASSUME NamesInv, NEW c \in Client, NEW marks, UNCHANGED <<folder, seqno>>,
         out' = [out EXCEPT ![c] = None], AfterPublish(c, marks)
  PROVE  NamesInv' /\ FilesKept
  <1>1. /\ pc' = [pc EXCEPT ![c] = "list"] \/ pc' = [pc EXCEPT ![c] = "idle"]
        /\ \A d \in Client \ {c} : out'[d] = out[d]
        BY DEF AfterPublish, NamesInv, Shape
  <1> QED BY <1>1 DEF NamesInv, Shape, Spots, NumbersUsed, NothingBefore, NumberFresh,
                      Writing, NamesOf, FilesKept

LEMMA PublishingNames ==
  ASSUME NamesInv, NEW c \in Client, Publishing(c)
  PROVE  NamesInv' /\ FilesKept
  <1> USE DEF shared
  <1>1. CASE Flush(c)
        <2>1. PICK w \in Wall : Stamp(c, Captured(c), Now(clock[c], w), "publish")
              BY <1>1 DEF Flush
        <2>2. UNCHANGED folder
              BY <1>1 DEF Flush
        <2> QED BY <2>1, <2>2, StampStep DEF FilesKept
  <1>2. CASE FlushDropped(c)
        BY <1>2, StillStep DEF FlushDropped, FilesKept
  <1>3. CASE FlushEmpty(c)
        BY <1>3, StillStep DEF FlushEmpty, FilesKept
  <1>4. CASE Publish(c)
        BY <1>4, PublishStep DEF FilesKept
  <1>5. CASE PublishFails(c)
        BY <1>5, ForgetStep DEF PublishFails
  <1>6. CASE MarkOwn(c)
        BY <1>6, ForgetStep DEF MarkOwn
  <1> QED BY <1>1, <1>2, <1>3, <1>4, <1>5, <1>6 DEF Publishing

\* sync() and the folder touch neither the numbers nor the files.
LEMMA SyncingNames ==
  ASSUME NamesInv, NEW c \in Client, Syncing(c) \/ Delivery(c)
  PROVE  NamesInv' /\ FilesKept
  <1> USE DEF shared
  <1>1. CASE SyncStart(c)
        BY <1>1, QuietStep DEF SyncStart, Spots, FilesKept
  <1>2. CASE EndPass(c)
        BY <1>2, QuietStep DEF EndPass, Spots, FilesKept
  <1>3. CASE RejectVersion(c)
        BY <1>3, StillStep DEF RejectVersion, FilesKept
  <1>4. CASE Unreadable(c)
        BY <1>4, StillStep DEF Unreadable, FilesKept
  <1>5. CASE Apply(c)
        BY <1>5, StillStep DEF Apply, FilesKept
  <1>6. CASE Mark(c)
        BY <1>6, StillStep DEF Mark, FilesKept
  <1>7. CASE Delivery(c)
        BY <1>7, StillStep DEF Delivery, Deliver, DeliverRest, FilesKept
  <1> QED BY <1>1, <1>2, <1>3, <1>4, <1>5, <1>6, <1>7 DEF Syncing

LEMMA NextNames ==
  ASSUME NoLoss, NamesInv, [Next]_vars
  PROVE  NamesInv' /\ FilesKept
  <1>1. CASE UNCHANGED vars
        BY <1>1, StillStep DEF vars, FilesKept
  <1>2. CASE Next
        <2>1. PICK c \in Client : \/ Process(c) \/ Application(c) \/ Publishing(c)
                                 \/ Syncing(c) \/ Delivery(c)
              BY <1>2 DEF Next
        <2> QED BY <2>1, ProcessNames, ApplicationNames, PublishingNames, SyncingNames
  <1> QED BY <1>1, <1>2

\* As long as no process is lost, no changeset file is ever written over,
\* whatever the clocks and the folder do (buildFilename, writeChangeset).
THEOREM FilesAreImmutable == NoLoss => (Spec => FilesImmutable)
  <1> SUFFICES ASSUME NoLoss PROVE Spec => FilesImmutable
      OBVIOUS
  <1>1. Init => NamesInv
        BY InitNames
  <1>2. NamesInv /\ [Next]_vars => NamesInv'
        BY NextNames
  <1>3. NamesInv /\ [Next]_vars =>
          [\A n \in DOMAIN folder : n \in DOMAIN folder' /\ folder'[n] = folder[n]]_vars
        BY NextNames DEF FilesKept
  <1> QED BY <1>1, <1>2, <1>3, PTL DEF Spec, FilesImmutable

-----------------------------------------------------------------------------------
(***************************************************************************)
(* The passes of sync().  That nothing is applied twice and that nothing   *)
(* is recorded that was not applied in full depend on the names of others  *)
(* staying out of changesets (MarksStayHome), which holds while no engine  *)
(* captures commits and none syncs inside a manual write: then a session   *)
(* is open only between beginWrite() and endWrite().                       *)
(***************************************************************************)
ManualOnly == AutoCapture = {} /\ "midwrite" \notin Faults

InSync(c) == pc[c] \in {"first", "retry"}

\* A session sees no mark being made.
SessionsQuiet ==
  \A c \in Client :
    /\ ~queued[c]
    /\ base[c] # None => manual[c] /\ pc[c] = "idle" /\ base[c].applied = applied[c]

MarksStayHome ==
  /\ \A n \in DOMAIN folder : folder[n].marks = {}
  /\ \A c \in Client : pc[c] \in Busy => out[c].content.marks = {}

\* The lists of a pass have nothing in common, and are empty when no pass runs.
ListsApart ==
  \A c \in Client :
    /\ ~InSync(c) => todo[c] = {} /\ deferred[c] = {}
    /\ todo[c] \cap deferred[c] = {}
    /\ cur[c] # None => cur[c] \notin deferred[c]

PassInv == TypeInv /\ SessionsQuiet /\ MarksStayHome /\ ListsApart /\ NothingTwice

LEMMA InitPass == Init => PassInv
  <1> SUFFICES ASSUME Init PROVE PassInv
      OBVIOUS
  <1>1. TypeInv
        BY InitTypes
  <1> QED BY <1>1 DEF Init, PassInv, SessionsQuiet, MarksStayHome, ListsApart, NothingTwice,
                      InSync, Busy

\* What a manual write has captured holds no mark.
LEMMA CapturedUnmarked ==
  ASSUME PassInv, NEW c \in Client
  PROVE  Captured(c).marks = {}
  BY DEF Captured, Capture, PassInv, SessionsQuiet

LEMMA QuietPass ==
  ASSUME ManualOnly, PassInv, TypeInv', NEW c \in Client,
         \/ Construct(c) \/ StartWithoutSnapshot(c) \/ Stop(c) \/ End(c)
         \/ BeginWrite(c) \/ Exec(c) \/ EndWriteEmpty(c) \/ CreateTable(c)
         \/ SetSchemaVersion(c) \/ FlushDropped(c) \/ FlushEmpty(c) \/ Delivery(c)
  PROVE  PassInv'
  <1> USE DEF PassInv, TypeInv, TypeOK, Places, Busy, SessionsQuiet, MarksStayHome, ListsApart,
              NothingTwice, InSync, durable, session, syncing, shared, budget, HookFires,
              ManualOnly
  <1>1. CASE Construct(c)
        BY <1>1 DEF Construct
  <1>2. CASE StartWithoutSnapshot(c)
        BY <1>2 DEF StartWithoutSnapshot, InstallHook
  <1>3. CASE Stop(c)
        BY <1>3 DEF Stop
  <1>4. CASE End(c)
        BY <1>4 DEF End
  <1>5. CASE BeginWrite(c)
        BY <1>5 DEF BeginWrite, Here, Ready
  <1>6. CASE Exec(c)
        BY <1>6 DEF Exec
  <1>7. CASE EndWriteEmpty(c)
        BY <1>7 DEF EndWriteEmpty, Reopen
  <1>8. CASE CreateTable(c) \/ SetSchemaVersion(c)
        BY <1>8 DEF CreateTable, SetSchemaVersion
  <1>9. CASE FlushDropped(c) \/ FlushEmpty(c)
        BY <1>9 DEF FlushDropped, FlushEmpty
  <1>10. CASE Delivery(c)
        BY <1>10 DEF Delivery, Deliver, DeliverRest
  <1> QED BY <1>1, <1>2, <1>3, <1>4, <1>5, <1>6, <1>7, <1>8, <1>9, <1>10

LEMMA StampedPass ==
  ASSUME PassInv, TypeInv', NEW c \in Client, NEW content, content.marks = {}, NEW h,
         NEW next \in {"publish", "snapshot"}, Stamp(c, content, h, next), ~InSync(c),
         UNCHANGED <<applied, folder, todo, deferred, cur>>,
         base' = [base EXCEPT ![c] = None],
         \A d \in Client \ {c} : manual'[d] = manual[d], \A d \in Client : ~queued'[d]
  PROVE  PassInv'
  <1>1. /\ pc' = [pc EXCEPT ![c] = next] /\ next \in Busy
        /\ out' = [out EXCEPT ![c] = [name |-> NextName(c, h), content |-> content]]
        BY DEF Stamp, Busy
  <1>2. /\ DOMAIN pc = Client /\ DOMAIN out = Client /\ DOMAIN base = Client
        BY DEF PassInv, TypeInv, TypeOK, Places
  <1>3. /\ pc'[c] = next /\ out'[c].content = content /\ base'[c] = None
        /\ \A d \in Client \ {c} : pc'[d] = pc[d] /\ out'[d] = out[d] /\ base'[d] = base[d]
        BY <1>1, <1>2
  <1>4. SessionsQuiet'
        BY <1>3 DEF PassInv, SessionsQuiet
  <1>5. MarksStayHome'
        BY <1>3 DEF PassInv, MarksStayHome
  <1>6. \A d \in Client : ~InSync(d)' => ~InSync(d) \/ d = c
        BY <1>3 DEF InSync
  <1>7. ListsApart' /\ NothingTwice'
        BY <1>6 DEF PassInv, ListsApart, NothingTwice
  <1> QED BY <1>4, <1>5, <1>7 DEF PassInv

LEMMA StampPass ==
  ASSUME ManualOnly, PassInv, TypeInv', NEW c \in Client,
         StartWithSnapshot(c) \/ EndWrite(c) \/ Flush(c)
  PROVE  PassInv'
  <1>1. ~Flush(c)
        BY DEF Flush, PassInv, SessionsQuiet
  <1>2. DOMAIN manual = Client /\ \A d \in Client : queued[d] = FALSE
        BY DEF PassInv, TypeInv, TypeOK, SessionsQuiet
  <1>3. queued \in [Client -> BOOLEAN]
        BY DEF PassInv, TypeInv, TypeOK
  <1>4. CASE StartWithSnapshot(c)
        <2>1. PICK w \in Wall : Stamp(c, Snapshot(db[c]), Now(clock[c], w), "snapshot")
              BY <1>4 DEF StartWithSnapshot
        <2>2. Snapshot(db[c]).marks = {}
              BY DEF Snapshot
        <2>3. UNCHANGED <<applied, folder, todo, deferred, cur, manual>> /\ ~InSync(c)
              BY <1>4 DEF StartWithSnapshot, syncing, shared, InSync
        <2>4. base' = [base EXCEPT ![c] = None]
              BY <1>4 DEF StartWithSnapshot, InstallHook, ManualOnly
        <2>5. \A d \in Client : ~queued'[d]
              BY <1>2, <1>3, <1>4 DEF StartWithSnapshot, HookFires, ManualOnly
        <2> QED BY <2>1, <2>2, <2>3, <2>4, <2>5, StampedPass
  <1>5. CASE EndWrite(c)
        <2>1. PICK w \in Wall : Stamp(c, Captured(c), Now(clock[c], w), "publish")
              BY <1>5 DEF EndWrite
        <2>2. UNCHANGED <<applied, folder, todo, deferred, cur>> /\ ~InSync(c)
              BY <1>5 DEF EndWrite, Ready, syncing, shared, InSync
        <2>3. /\ base' = [base EXCEPT ![c] = None]
              /\ \A d \in Client \ {c} : manual'[d] = manual[d]
              BY <1>2, <1>5 DEF EndWrite
        <2>4. \A d \in Client : ~queued'[d]
              BY <1>2, <1>3, <1>5 DEF EndWrite, HookFires, ManualOnly
        <2> QED BY <2>1, <2>2, <2>3, <2>4, CapturedUnmarked, StampedPass
  <1> QED BY <1>1, <1>4, <1>5

LEMMA PublishingPass ==
  ASSUME ManualOnly, PassInv, TypeInv', NEW c \in Client,
         Publish(c) \/ PublishFails(c) \/ MarkOwn(c)
  PROVE  PassInv'
  <1>1. /\ pc[c] \in Busy /\ ~InSync(c)
        /\ \E p \in {"own", "ownSnapshot", "list", "idle"} : pc' = [pc EXCEPT ![c] = p]
        BY DEF Publish, PublishFails, MarkOwn, AfterPublish, Busy, InSync
  <1>2. /\ UNCHANGED <<manual, todo, deferred, cur>>
        /\ \A d \in Client \ {c} : base'[d] = base[d] /\ applied'[d] = applied[d]
        /\ \A d \in Client : ~queued'[d]
        /\ base'[c] = None
        BY <1>1 DEF Publish, PublishFails, MarkOwn, AfterPublish, Reopen, HookFires, session,
                    syncing, durable, ManualOnly, PassInv, TypeInv, TypeOK, Places,
                    SessionsQuiet, Busy
  <1>3. \A d \in Client : pc'[d] \in Busy =>
          pc[d] \in Busy /\ out'[d].content.marks = out[d].content.marks
        BY <1>1 DEF Publish, PublishFails, MarkOwn, AfterPublish, PassInv, TypeInv, TypeOK,
                    Places, Busy
  <1>4. \A n \in DOMAIN folder' : folder'[n].marks = {}
        <2>1. CASE Publish(c)
              BY <1>1, <2>1 DEF Publish, PassInv, MarksStayHome
        <2>2. CASE PublishFails(c) \/ MarkOwn(c)
              BY <2>2 DEF PublishFails, MarkOwn, shared, PassInv, MarksStayHome
        <2> QED BY <2>1, <2>2
  <1>5. TypeOK /\ Places
        BY DEF PassInv, TypeInv
  <1>6. SessionsQuiet'
        BY <1>1, <1>2, <1>5 DEF SessionsQuiet, PassInv, TypeOK
  <1>7. MarksStayHome'
        BY <1>3, <1>4 DEF PassInv, MarksStayHome
  <1>8. \A d \in Client : InSync(d)' <=> InSync(d)
        BY <1>1, <1>5 DEF InSync, TypeOK
  <1>9. ListsApart'
        BY <1>2, <1>8 DEF PassInv, ListsApart
  <1>10. NothingTwice'
        BY <1>1, <1>2, <1>5 DEF PassInv, ListsApart, NothingTwice, Places, InSync
  <1> QED BY <1>6, <1>7, <1>9, <1>10 DEF PassInv

\* A step of sync() at c concerns no session, no file and no changeset that waits
\* to be published.
LEMMA SyncStepQuiet ==
  ASSUME PassInv, NEW c \in Client, base[c] = None, pc'[c] \notin Busy,
         UNCHANGED <<base, manual, out, folder>>,
         \A d \in Client \ {c} : pc'[d] = pc[d] /\ applied'[d] = applied[d],
         \A d \in Client : ~queued'[d]
  PROVE  SessionsQuiet' /\ MarksStayHome'
  BY DEF PassInv, SessionsQuiet, MarksStayHome

\* What one step of sync() at c does to its lists is enough.
LEMMA SyncStepLists ==
  ASSUME PassInv, NEW c \in Client,
         \A d \in Client \ {c} :
           /\ pc'[d] = pc[d] /\ applied'[d] = applied[d] /\ todo'[d] = todo[d]
           /\ deferred'[d] = deferred[d] /\ cur'[d] = cur[d],
         InSync(c)' \/ (todo'[c] = {} /\ deferred'[c] = {}),
         todo'[c] \cap deferred'[c] = {},
         cur'[c] # None => cur'[c] \notin deferred'[c],
         (todo'[c] \cup deferred'[c] \cup ({cur'[c]} \ {None})) \cap applied'[c] = {}
  PROVE  ListsApart' /\ NothingTwice'
  <1>1. \A d \in Client \ {c} : InSync(d)' <=> InSync(d)
        BY DEF InSync
  <1>2. ListsApart'
        BY <1>1 DEF PassInv, ListsApart
  <1>3. NothingTwice'
        BY DEF PassInv, NothingTwice
  <1> QED BY <1>2, <1>3

\* The variables that sync() changes are functions over the clients.
LEMMA SyncDomains ==
  ASSUME PassInv
  PROVE  /\ DOMAIN pc = Client /\ DOMAIN applied = Client /\ DOMAIN todo = Client
         /\ DOMAIN deferred = Client /\ DOMAIN cur = Client
         /\ \A d \in Client : ~queued[d]
         /\ queued \in [Client -> BOOLEAN]
  BY DEF PassInv, TypeInv, TypeOK, Places, SessionsQuiet

LEMMA SyncStartPass ==
  ASSUME ManualOnly, PassInv, TypeInv', NEW c \in Client, SyncStart(c)
  PROVE  PassInv'
  <1>1. /\ pc[c] \in {"list", "idle"} /\ (pc[c] = "idle" => ~manual[c])
        /\ todo' = [todo EXCEPT ![c] = Pending(c)]
        /\ pc' = [pc EXCEPT ![c] = IF Pending(c) = {} THEN "idle" ELSE "first"]
        /\ UNCHANGED <<applied, base, manual, queued, out, deferred, cur, folder>>
        BY DEF SyncStart, Ready, ManualOnly, durable, session, shared
  <1>2. base[c] = None /\ deferred[c] = {} /\ cur[c] = None
        BY <1>1 DEF PassInv, TypeInv, Places, SessionsQuiet, ListsApart, InSync
  <1>3. /\ pc'[c] = IF Pending(c) = {} THEN "idle" ELSE "first"
        /\ todo'[c] = Pending(c) /\ Pending(c) \cap applied[c] = {}
        /\ \A d \in Client \ {c} : pc'[d] = pc[d] /\ todo'[d] = todo[d]
        BY <1>1, SyncDomains DEF Pending
  <1>4. SessionsQuiet' /\ MarksStayHome'
        BY <1>1, <1>2, <1>3, SyncDomains, SyncStepQuiet DEF Busy
  <1>5. ListsApart' /\ NothingTwice'
        BY <1>1, <1>2, <1>3, SyncStepLists DEF InSync
  <1> QED BY <1>4, <1>5 DEF PassInv

LEMMA DropPass ==
  ASSUME ManualOnly, PassInv, TypeInv', NEW c \in Client, RejectVersion(c) \/ Unreadable(c)
  PROVE  PassInv'
  <1>1. /\ UNCHANGED <<applied, base, manual, queued, out, deferred, cur, folder, pc>>
        /\ \E n : todo' = [todo EXCEPT ![c] = @ \ {n}]
        /\ InSync(c)
        BY DEF RejectVersion, Unreadable, InPass, InSync, durable, session, shared
  <1>2. base[c] = None /\ pc[c] \notin Busy
        BY <1>1 DEF PassInv, SessionsQuiet, InSync, Busy
  <1>3. /\ todo'[c] \subseteq todo[c]
        /\ \A d \in Client \ {c} : todo'[d] = todo[d]
        BY <1>1, SyncDomains
  <1>4. SessionsQuiet' /\ MarksStayHome'
        BY <1>1, <1>2, SyncDomains, SyncStepQuiet
  <1>5. ListsApart' /\ NothingTwice'
        BY <1>1, <1>3, SyncStepLists DEF InSync, PassInv, ListsApart, NothingTwice
  <1> QED BY <1>4, <1>5 DEF PassInv

\* What one step of Apply does to the lists of c.  The file holds no mark, so
\* nothing is recorded yet.
LEMMA ApplyLists ==
  ASSUME PassInv, NEW c \in Client, NEW n \in Earliest(todo[c]), NEW w \in Wall,
         NEW stampsFirst \in BOOLEAN, ApplyFile(c, n, w, stampsFirst)
  PROVE  /\ n \in todo[c] /\ \A d \in Client : applied'[d] = applied[d]
         /\ todo'[c] = todo[c] \ {n}
         /\ \A d \in Client \ {c} :
              todo'[d] = todo[d] /\ deferred'[d] = deferred[d] /\ cur'[d] = cur[d]
         /\ \/ cur'[c] = n /\ deferred'[c] = deferred[c]
            \/ cur'[c] = None /\ deferred'[c] \subseteq deferred[c] \cup {n}
  <1> DEFINE whole == AppliesWhole(c, folder[n])
  <1>1. /\ applied' = [applied EXCEPT ![c] = @ \cup folder[n].marks]
        /\ cur' = [cur EXCEPT ![c] = IF whole THEN n ELSE None]
        /\ todo' = [todo EXCEPT ![c] = @ \ {n}]
        /\ deferred' = [deferred EXCEPT ![c] = IF whole \/ pc[c] = "retry"
                                                 THEN @ ELSE @ \cup {n}]
        BY DEF ApplyFile
  <1> HIDE DEF whole
  <1>2. n \in todo[c] /\ n \in DOMAIN folder
        BY TakenTypes DEF PassInv, TypeInv, TypeOK
  <1>3. folder[n].marks = {}
        BY <1>2 DEF PassInv, MarksStayHome
  <1>4. \A d \in Client : applied'[d] = applied[d]
        <2>1. applied[c] \cup folder[n].marks = applied[c]
              BY <1>3
        <2> QED BY <1>1, <2>1, SyncDomains
  <1>5. /\ cur'[c] = IF whole THEN n ELSE None
        /\ todo'[c] = todo[c] \ {n}
        /\ deferred'[c] = IF whole \/ pc[c] = "retry" THEN deferred[c] ELSE deferred[c] \cup {n}
        /\ \A d \in Client \ {c} :
              todo'[d] = todo[d] /\ deferred'[d] = deferred[d] /\ cur'[d] = cur[d]
        BY <1>1, SyncDomains
  <1> QED BY <1>2, <1>4, <1>5

LEMMA ApplyPass ==
  ASSUME ManualOnly, PassInv, TypeInv', NEW c \in Client, Apply(c)
  PROVE  PassInv'
  <1>1. PICK n \in Earliest(todo[c]), w \in Wall, stampsFirst \in BOOLEAN :
          ApplyFile(c, n, w, stampsFirst)
        BY DEF Apply
  <1>2. /\ UNCHANGED <<base, manual, pc, out, folder>>
        /\ cur[c] = None /\ InSync(c)
        /\ queued' = [queued EXCEPT ![c] = @ \/ c \in AutoCapture]
        BY DEF Apply, InPass, InSync, HookFires, shared
  <1>3. \A d \in Client : ~queued'[d]
        BY <1>2, SyncDomains DEF ManualOnly
  <1>4. base[c] = None /\ pc[c] \notin Busy
        BY <1>2 DEF PassInv, SessionsQuiet, InSync, Busy
  <1>5. /\ n \in todo[c] /\ \A d \in Client : applied'[d] = applied[d]
        /\ todo'[c] = todo[c] \ {n}
        /\ \A d \in Client \ {c} :
              todo'[d] = todo[d] /\ deferred'[d] = deferred[d] /\ cur'[d] = cur[d]
        /\ \/ cur'[c] = n /\ deferred'[c] = deferred[c]
           \/ cur'[c] = None /\ deferred'[c] \subseteq deferred[c] \cup {n}
        BY <1>1, ApplyLists
  <1>6. SessionsQuiet' /\ MarksStayHome'
        BY <1>2, <1>3, <1>4, <1>5, SyncStepQuiet
  <1>7. /\ todo[c] \cap deferred[c] = {}
        /\ (todo[c] \cup deferred[c]) \cap applied[c] = {}
        BY DEF PassInv, ListsApart, NothingTwice
  <1>8. ListsApart' /\ NothingTwice'
        BY <1>2, <1>5, <1>7, SyncStepLists DEF InSync
  <1> QED BY <1>6, <1>8 DEF PassInv

LEMMA MarkPass ==
  ASSUME ManualOnly, PassInv, TypeInv', NEW c \in Client, Mark(c)
  PROVE  PassInv'
  <1>1. /\ applied' = [applied EXCEPT ![c] = @ \cup {cur[c]}]
        /\ cur' = [cur EXCEPT ![c] = None] /\ cur[c] # None
        /\ UNCHANGED <<base, manual, pc, out, todo, deferred, folder>>
        /\ queued' = [queued EXCEPT ![c] = @ \/ c \in AutoCapture]
        BY DEF Mark, HookFires, shared
  <1>2. \A d \in Client : ~queued'[d]
        BY <1>1, SyncDomains DEF ManualOnly
  <1>3. /\ applied'[c] = applied[c] \cup {cur[c]} /\ cur'[c] = None
        /\ \A d \in Client \ {c} : applied'[d] = applied[d] /\ cur'[d] = cur[d]
        BY <1>1, SyncDomains
  <1>4. InSync(c) /\ cur[c] \notin todo[c] \cup deferred[c]
        BY <1>1 DEF PassInv, TypeInv, TypeOK, Places, ListsApart, InSync
  <1>5. base[c] = None /\ pc[c] \notin Busy
        BY <1>4 DEF PassInv, SessionsQuiet, InSync, Busy
  <1>6. SessionsQuiet' /\ MarksStayHome'
        BY <1>1, <1>2, <1>3, <1>5, SyncStepQuiet
  <1>7. /\ todo[c] \cap deferred[c] = {}
        /\ (todo[c] \cup deferred[c]) \cap applied[c] = {}
        BY DEF PassInv, ListsApart, NothingTwice
  <1>8. ListsApart' /\ NothingTwice'
        BY <1>1, <1>3, <1>4, <1>7, SyncStepLists DEF InSync
  <1> QED BY <1>6, <1>8 DEF PassInv

LEMMA EndPassPass ==
  ASSUME ManualOnly, PassInv, TypeInv', NEW c \in Client, EndPass(c)
  PROVE  PassInv'
  <1>1. /\ InSync(c) /\ cur[c] = None /\ todo[c] = {}
        /\ \/ pc' = [pc EXCEPT ![c] = "retry"] /\ todo' = [todo EXCEPT ![c] = deferred[c]]
           \/ pc' = [pc EXCEPT ![c] = "idle"] /\ todo' = [todo EXCEPT ![c] = {}]
        /\ deferred' = [deferred EXCEPT ![c] = {}]
        /\ UNCHANGED <<applied, base, manual, queued, out, cur, folder>>
        BY DEF EndPass, InPass, InSync, durable, session, shared
  <1>2. base[c] = None
        BY <1>1 DEF PassInv, SessionsQuiet, InSync
  <1>3. /\ \/ pc'[c] = "retry" /\ todo'[c] = deferred[c]
           \/ pc'[c] = "idle" /\ todo'[c] = {}
        /\ deferred'[c] = {}
        /\ \A d \in Client \ {c} :
             pc'[d] = pc[d] /\ todo'[d] = todo[d] /\ deferred'[d] = deferred[d]
        BY <1>1, SyncDomains
  <1>4. SessionsQuiet' /\ MarksStayHome'
        BY <1>1, <1>2, <1>3, SyncDomains, SyncStepQuiet DEF Busy
  <1>5. ListsApart' /\ NothingTwice'
        BY <1>1, <1>3, SyncStepLists DEF InSync, PassInv, NothingTwice
  <1> QED BY <1>4, <1>5 DEF PassInv

LEMMA NextPass == ManualOnly /\ PassInv /\ [Next]_vars => PassInv'
  <1> SUFFICES ASSUME ManualOnly, PassInv, [Next]_vars PROVE PassInv'
      OBVIOUS
  <1>1. TypeInv'
        BY NextTypes DEF PassInv
  <1>2. CASE UNCHANGED vars
        BY <1>1, <1>2 DEF vars, PassInv, SessionsQuiet, MarksStayHome, ListsApart, NothingTwice,
                          InSync
  <1>3. CASE Next
        <2>1. PICK c \in Client : \/ Process(c) \/ Application(c) \/ Publishing(c)
                                 \/ Syncing(c) \/ Delivery(c)
              BY <1>3 DEF Next
        <2>2. CASE Process(c) \/ Application(c)
              BY <1>1, <2>2, QuietPass, StampPass DEF Process, Application
        <2>3. CASE Publishing(c) \/ Delivery(c)
              BY <1>1, <2>3, QuietPass, StampPass, PublishingPass DEF Publishing
        <2>4. CASE Syncing(c)
              BY <1>1, <2>4, SyncStartPass, DropPass, ApplyPass, MarkPass, EndPassPass DEF Syncing
        <2> QED BY <2>1, <2>2, <2>3, <2>4
  <1> QED BY <1>2, <1>3

\* What the passes of sync() still have to apply, to retry or to mark is never
\* marked already: no changeset is applied again once it is recorded, for all
\* clients that publish their manual writes only, whatever is lost or crashes.
THEOREM NothingIsAppliedTwice == ManualOnly => (Spec => []NothingTwice)
  <1> SUFFICES ASSUME ManualOnly PROVE Spec => []NothingTwice
      OBVIOUS
  <1>1. PassInv => NothingTwice
        BY DEF PassInv
  <1>2. PassInv /\ [Next]_vars => PassInv'
        BY NextPass
  <1> QED BY <1>1, <1>2, InitPass, PTL DEF Spec

-----------------------------------------------------------------------------------
(***************************************************************************)
(* What is recorded was applied in full.  The invariant adds the changeset *)
(* applied and not yet marked, and says that a recorded name of another    *)
(* client is a file: a file that appears later is then not recorded yet.   *)
(***************************************************************************)

\* Changeset n can be applied in full at c, and has been published.
InFull(c, n) ==
  /\ n \in DOMAIN folder /\ TablesOf(folder[n]) \subseteq tables[c]
  /\ n.ver <= version[c]

Taken(c) == applied[c] \cup ({cur[c]} \ {None})

FullInv == \A c \in Client : \A n \in Taken(c) : n.client # c => InFull(c, n)

\* No table disappears and no application is downgraded.
SchemaGrows ==
  \A c \in Client : tables[c] \subseteq tables'[c] /\ version[c] <= version'[c]

\* What a step takes is its own, was taken before, or is applied in full.
TakenInFull ==
  \A c \in Client : \A n \in Taken(c)' : n \in Taken(c) \/ n.client = c \/ InFull(c, n)

LEMMA SchemaKept ==
  ASSUME TypeInv, [Next]_vars
  PROVE  SchemaGrows
  <1>1. tables \in [Client -> SUBSET Table] /\ version \in [Client -> 0 .. TopVersion]
        BY DEF TypeInv, TypeOK
  <1>2. TopVersion \in Nat
        BY SyncEngineAssumption
  <1>3. ASSUME UNCHANGED <<tables, version>> PROVE SchemaGrows
        BY <1>1, <1>2, <1>3 DEF SchemaGrows
  <1>4. CASE UNCHANGED vars
        BY <1>3, <1>4 DEF vars
  <1>5. ASSUME NEW c \in Client, CreateTable(c) PROVE SchemaGrows
        <2>1. /\ \E t \in Table : tables' = [tables EXCEPT ![c] = @ \cup {t}]
              /\ UNCHANGED version
              BY <1>5 DEF CreateTable
        <2> QED BY <1>1, <1>2, <2>1 DEF SchemaGrows
  <1>6. ASSUME NEW c \in Client, SetSchemaVersion(c) PROVE SchemaGrows
        <2>1. version' = [version EXCEPT ![c] = @ + 1] /\ UNCHANGED tables
              BY <1>6 DEF SetSchemaVersion, durable
        <2> QED BY <1>1, <1>2, <2>1 DEF SchemaGrows
  <1>7. ASSUME NEW c \in Client, Process(c) PROVE UNCHANGED <<tables, version>>
        BY <1>7 DEF Process, Construct, StartWithSnapshot, StartWithoutSnapshot, Stop, End, durable
  <1>8. ASSUME NEW c \in Client, BeginWrite(c) \/ Exec(c) \/ EndWriteEmpty(c) \/ EndWrite(c)
        PROVE  UNCHANGED <<tables, version>>
        BY <1>8 DEF BeginWrite, Exec, EndWriteEmpty, EndWrite, durable
  <1>9. ASSUME NEW c \in Client, Publishing(c) PROVE UNCHANGED <<tables, version>>
        BY <1>9 DEF Publishing, FlushDropped, FlushEmpty, Flush, Publish, PublishFails, MarkOwn,
                    durable
  <1>10. ASSUME NEW c \in Client, Syncing(c) \/ Delivery(c) PROVE UNCHANGED <<tables, version>>
        BY <1>10 DEF Syncing, SyncStart, RejectVersion, Unreadable, Apply, Mark, EndPass,
                     Delivery, Deliver, DeliverRest, durable
  <1> QED BY <1>3, <1>4, <1>5, <1>6, <1>7, <1>8, <1>9, <1>10 DEF Next, Application

\* Only three steps take anything.
LEMMA NothingTaken ==
  ASSUME UNCHANGED <<applied, cur>>
  PROVE  TakenInFull
  BY DEF TakenInFull, Taken

\* The changeset that is published is the engine's own.
OwnPublished == \A c \in Client : pc[c] \in Busy => out[c].name.client = c

LEMMA ApplyTakes ==
  ASSUME PassInv, NEW c \in Client, Apply(c)
  PROVE  TakenInFull
  <1>1. PICK n \in Earliest(todo[c]), w \in Wall, stampsFirst \in BOOLEAN :
          ApplyFile(c, n, w, stampsFirst)
        BY DEF Apply
  <1>2. /\ n \in todo[c] /\ \A d \in Client : applied'[d] = applied[d]
        /\ \A d \in Client \ {c} : cur'[d] = cur[d]
        /\ cur'[c] \in {n, None}
        BY <1>1, ApplyLists
  <1>3. Accepts(c, n) /\ cur' = [cur EXCEPT ![c] = IF AppliesWhole(c, folder[n]) THEN n ELSE None]
        BY <1>1 DEF ApplyFile
  <1>4. cur'[c] = IF AppliesWhole(c, folder[n]) THEN n ELSE None
        BY <1>3, SyncDomains
  <1>5. n \in DOMAIN folder
        BY <1>2 DEF PassInv, TypeInv, TypeOK
  <1>6. cur'[c] # None => InFull(c, cur'[c])
        BY <1>3, <1>4, <1>5 DEF InFull, Accepts, AppliesWhole
  <1> QED BY <1>2, <1>6 DEF TakenInFull, Taken

LEMMA NextTakes ==
  ASSUME PassInv, OwnPublished, [Next]_vars
  PROVE  TakenInFull
  <1>1. CASE UNCHANGED vars
        BY <1>1, NothingTaken DEF vars
  <1>2. ASSUME NEW c \in Client, End(c) PROVE TakenInFull
        <2>1. cur' = [cur EXCEPT ![c] = None] /\ UNCHANGED applied
              BY <1>2 DEF End, durable
        <2>2. \A d \in Client : cur'[d] \in {cur[d], None}
              BY <2>1, SyncDomains
        <2> QED BY <2>1, <2>2 DEF TakenInFull, Taken
  <1>3. ASSUME NEW c \in Client, MarkOwn(c) PROVE TakenInFull
        <2>1. /\ pc[c] \in Busy /\ UNCHANGED cur
              /\ applied' = [applied EXCEPT ![c] = @ \cup {out[c].name}]
              BY <1>3 DEF MarkOwn, Busy, syncing
        <2>2. /\ applied'[c] = applied[c] \cup {out[c].name}
              /\ \A d \in Client \ {c} : applied'[d] = applied[d]
              BY <2>1, SyncDomains
        <2>3. out[c].name.client = c
              BY <2>1 DEF OwnPublished
        <2> QED BY <2>1, <2>2, <2>3 DEF TakenInFull, Taken
  <1>4. ASSUME NEW c \in Client, Mark(c) PROVE TakenInFull
        <2>1. /\ applied' = [applied EXCEPT ![c] = @ \cup {cur[c]}]
              /\ cur' = [cur EXCEPT ![c] = None] /\ cur[c] # None
              BY <1>4 DEF Mark
        <2>2. /\ applied'[c] = applied[c] \cup {cur[c]} /\ cur'[c] = None
              /\ \A d \in Client \ {c} : applied'[d] = applied[d] /\ cur'[d] = cur[d]
              BY <2>1, SyncDomains
        <2> QED BY <2>1, <2>2 DEF TakenInFull, Taken
  <1>5. ASSUME NEW c \in Client, Application(c) PROVE UNCHANGED <<applied, cur>>
        BY <1>5 DEF Application, BeginWrite, Exec, EndWriteEmpty, EndWrite, CreateTable,
                    SetSchemaVersion, durable, syncing
  <1>6. ASSUME NEW c \in Client, Process(c), ~End(c) PROVE UNCHANGED <<applied, cur>>
        BY <1>6 DEF Process, Construct, StartWithSnapshot, StartWithoutSnapshot, Stop, durable,
                    syncing
  <1>7. ASSUME NEW c \in Client, Publishing(c), ~MarkOwn(c) PROVE UNCHANGED <<applied, cur>>
        BY <1>7 DEF Publishing, FlushDropped, FlushEmpty, Flush, Publish, PublishFails, durable,
                    syncing
  <1>8. ASSUME NEW c \in Client, Syncing(c) \/ Delivery(c), ~Apply(c), ~Mark(c)
        PROVE  UNCHANGED <<applied, cur>>
        BY <1>8 DEF Syncing, SyncStart, RejectVersion, Unreadable, EndPass, Delivery, Deliver,
                    DeliverRest, durable, syncing
  <1> QED BY <1>1, <1>2, <1>3, <1>4, <1>5, <1>6, <1>7, <1>8, NothingTaken, ApplyTakes DEF Next

LEMMA NextFull ==
  ASSUME NoLoss, NamesInv, PassInv, OwnPublished, FullInv, [Next]_vars
  PROVE  FullInv'
  <1>1. SchemaGrows /\ TakenInFull /\ FilesKept
        BY SchemaKept, NextTakes, NextNames DEF PassInv
  <1>2. TypeInv /\ TypeInv'
        BY NextTypes DEF PassInv
  <1> SUFFICES ASSUME NEW c \in Client, NEW n \in Taken(c)', n.client # c
               PROVE  InFull(c, n)'
      BY DEF FullInv
  <1>3. InFull(c, n)
        BY <1>1 DEF TakenInFull, FullInv
  <1>4. n \in DOMAIN folder' /\ folder'[n] = folder[n]
        BY <1>1, <1>3 DEF FilesKept, InFull
  <1>5. n \in Name
        BY <1>2, <1>3 DEF InFull, TypeInv, TypeOK
  <1>6. n.ver \in Nat /\ version[c] \in Nat /\ version'[c] \in Nat
        BY <1>2, <1>5, SyncEngineAssumption DEF Name, TypeInv, TypeOK
  <1>7. n.ver <= version'[c]
        BY <1>1, <1>3, <1>6 DEF SchemaGrows, InFull
  <1> QED BY <1>1, <1>3, <1>4, <1>7 DEF SchemaGrows, InFull, TablesOf

\* An engine that is publishing has just named the changeset after itself.
LEMMA NextOwn ==
  ASSUME PassInv, OwnPublished, [Next]_vars
  PROVE  OwnPublished'
  <1>1. DOMAIN pc = Client /\ DOMAIN out = Client
        BY DEF PassInv, TypeInv, TypeOK, Places
  <1>2. ASSUME NEW c \in Client, \A d \in Client \ {c} : pc'[d] = pc[d] /\ out'[d] = out[d],
               \/ pc'[c] \notin Busy
               \/ pc[c] \in Busy /\ out'[c] = out[c]
               \/ out'[c].name.client = c
        PROVE  OwnPublished'
        BY <1>2 DEF OwnPublished
  <1>3. ASSUME NEW c \in Client, NEW content, NEW h, NEW next, Stamp(c, content, h, next)
        PROVE  OwnPublished'
        <2>1. /\ out' = [out EXCEPT ![c] = [name |-> NextName(c, h), content |-> content]]
              /\ pc' = [pc EXCEPT ![c] = next]
              BY <1>3 DEF Stamp
        <2>2. /\ out'[c].name.client = c
              /\ \A d \in Client \ {c} : pc'[d] = pc[d] /\ out'[d] = out[d]
              BY <1>1, <2>1 DEF NextName
        <2> QED BY <1>2, <2>2
  <1>4. ASSUME NEW c \in Client, StartWithSnapshot(c) \/ EndWrite(c) \/ Flush(c)
        PROVE  OwnPublished'
        <2>1. \E content, h, next : Stamp(c, content, h, next)
              BY <1>4 DEF StartWithSnapshot, EndWrite, Flush
        <2> QED BY <1>3, <2>1
  <1>5. ASSUME NEW c \in Client, Publish(c) PROVE OwnPublished'
        <2>1. /\ pc[c] \in Busy /\ out' = out
              /\ \E p : pc' = [pc EXCEPT ![c] = p]
              BY <1>5 DEF Publish, Busy
        <2> QED BY <1>1, <1>2, <2>1
  <1>6. ASSUME NEW c \in Client, PublishFails(c) \/ MarkOwn(c) PROVE OwnPublished'
        <2>1. /\ out' = [out EXCEPT ![c] = None]
              /\ pc' = [pc EXCEPT ![c] = "list"] \/ pc' = [pc EXCEPT ![c] = "idle"]
              BY <1>6 DEF PublishFails, MarkOwn, AfterPublish
        <2> QED BY <1>1, <1>2, <2>1 DEF Busy
  <1>7. ASSUME NEW c \in Client,
               \/ Construct(c) \/ StartWithoutSnapshot(c) \/ Stop(c) \/ SyncStart(c)
               \/ EndPass(c)
        PROVE  OwnPublished'
        <2>1. out' = out /\ \E p : p \notin Busy /\ pc' = [pc EXCEPT ![c] = p]
              BY <1>7 DEF Construct, StartWithoutSnapshot, Stop, SyncStart, EndPass, Busy
        <2> QED BY <1>1, <1>2, <2>1
  <1>8. ASSUME NEW c \in Client, End(c) PROVE OwnPublished'
        <2>1. out' = [out EXCEPT ![c] = None] /\ pc' = [pc EXCEPT ![c] = "down"]
              BY <1>8 DEF End
        <2> QED BY <1>1, <1>2, <2>1 DEF Busy
  <1>9. ASSUME UNCHANGED <<pc, out>> PROVE OwnPublished'
        BY <1>9 DEF OwnPublished
  <1>10. ASSUME NEW c \in Client,
                \/ BeginWrite(c) \/ Exec(c) \/ EndWriteEmpty(c) \/ CreateTable(c)
                \/ SetSchemaVersion(c) \/ FlushDropped(c) \/ FlushEmpty(c)
         PROVE  UNCHANGED <<pc, out>>
        BY <1>10 DEF BeginWrite, Exec, EndWriteEmpty, CreateTable, SetSchemaVersion,
                     FlushDropped, FlushEmpty
  <1>11. ASSUME NEW c \in Client,
                RejectVersion(c) \/ Unreadable(c) \/ Apply(c) \/ Mark(c) \/ Delivery(c)
         PROVE  UNCHANGED <<pc, out>>
        BY <1>11 DEF RejectVersion, Unreadable, Apply, Mark, Delivery, Deliver, DeliverRest
  <1>12. CASE UNCHANGED vars
        BY <1>9, <1>12 DEF vars
  <1> QED BY <1>4, <1>5, <1>6, <1>7, <1>8, <1>9, <1>10, <1>11, <1>12
          DEF Next, Process, Application, Publishing, Syncing

\* Nothing that was skipped for a missing table or refused for its version is
\* ever recorded as applied (applyOneChangeset), for all clients that publish
\* their manual writes only and lose no process, whatever the folder does.
THEOREM RecordedIsAppliedInFull == NoLoss /\ ManualOnly => (Spec => []AppliedInFull)
  <1> SUFFICES ASSUME NoLoss, ManualOnly PROVE Spec => []AppliedInFull
      OBVIOUS
  <1> DEFINE IInv == NamesInv /\ PassInv /\ OwnPublished /\ FullInv
  <1>1. Init => IInv
        BY InitNames, InitPass DEF Init, OwnPublished, FullInv, Taken, Busy
  <1>2. IInv /\ [Next]_vars => IInv'
        BY NextNames, NextPass, NextOwn, NextFull
  <1>3. IInv => AppliedInFull
        BY DEF FullInv, Taken, InFull, AppliedInFull
  <1> QED BY <1>1, <1>2, <1>3, PTL DEF Spec

-----------------------------------------------------------------------------------
(***************************************************************************)
(* What an engine has captured has its call.  The invariant says so of     *)
(* every place in a handler, because start(), sync() and endWrite() commit *)
(* too, and adds that an engine that does not run has no session.          *)
(***************************************************************************)

\* The session of c has just begun.
Opened(c) ==
  base[c].db = db[c] /\ base[c].applied = applied[c] /\ base[c].rowHlc = rowHlc[c]

\* Without a running engine no session is open; outside a manual write, what is captured has
\* its call, also while a handler runs.
Waits(c) ==
  /\ pc[c] \in {"down", "stopped"} => base[c] = None
  /\ ~manual[c] => queued[c] \/ IsEmpty(Captured(c))

QueueInv == \A c \in AutoCapture : Waits(c)

\* What a step sees of the session of d.
View(d) == <<db[d], applied[d], rowHlc[d], base[d], queued[d], manual[d]>>

\* A session that has just begun has captured nothing.
LEMMA NothingYet ==
  ASSUME NEW b, NEW d, NEW a, NEW r, b.db = d, b.applied = a, b.rowHlc = r
  PROVE  IsEmpty(Capture(b, d, a, r))
  <1> DEFINE content == Capture(b, d, a, r)
  <1>1. /\ content.rows = Diff(d, d) /\ content.marks = a \ a
        /\ content.stamps = [k \in {x \in Key : r[x] # r[x]} |->
                               [old |-> b.rowHlc[k], new |-> r[k]]]
        BY DEF Capture
  <1>2. DOMAIN Diff(d, d) = {}
        BY DEF Diff
  <1>3. IsEmpty(content)
        <2> HIDE DEF content
        <2> QED BY <1>1, <1>2 DEF IsEmpty
  <1> QED BY <1>3

\* How a step of c may leave what c has captured.
Served(c) ==
  \/ queued'[c] \/ manual'[c] \/ base'[c] = None \/ Opened(c)'
  \/ View(c)' = View(c)

\* One client's step is no other client's business.
Apart(c) == \A d \in Client \ {c} : View(d)' = View(d) /\ pc'[d] = pc[d]

Halts(c) == pc'[c] \in {"down", "stopped"} => base'[c] = None

LEMMA ServedQueue ==
  ASSUME QueueInv, NEW c \in Client, AutoCapture \subseteq Client,
         Apart(c), c \in AutoCapture => Served(c) /\ Halts(c)
  PROVE  QueueInv'
  <1> SUFFICES ASSUME NEW d \in AutoCapture PROVE Waits(d)'
      BY DEF QueueInv
  <1>1. ASSUME View(d)' = View(d)
        PROVE  /\ Captured(d)' = Captured(d)
               /\ manual'[d] = manual[d] /\ queued'[d] = queued[d] /\ base'[d] = base[d]
        BY <1>1 DEF View, Captured
  <1>2. Waits(d)
        BY DEF QueueInv
  <1>3. CASE d # c
        BY <1>1, <1>2, <1>3 DEF Apart, Waits
  <1>4. CASE d = c
        <2>1. IsEmpty(Captured(d))' \/ queued'[d] \/ manual'[d] \/ View(d)' = View(d)
              <3>1. CASE base'[d] = None
                    BY <3>1 DEF Captured, IsEmpty
              <3>2. CASE base'[d] # None /\ Opened(d)'
                    <4>1. IsEmpty(Capture(base'[d], db'[d], applied'[d], rowHlc'[d]))
                          BY <3>2, NothingYet DEF Opened
                    <4> QED BY <3>2, <4>1 DEF Captured, IsEmpty
              <3> QED BY <1>4, <3>1, <3>2 DEF Served
        <2> QED BY <1>1, <1>2, <1>4, <2>1 DEF Waits, Halts
  <1> QED BY <1>3, <1>4

LEMMA ProcessServed ==
  ASSUME TypeInv, QueueInv, NEW c \in Client, Process(c)
  PROVE  Apart(c) /\ (c \in AutoCapture => Served(c) /\ Halts(c))
  <1> USE DEF TypeInv, TypeOK, Places, View, Apart, Served, Halts, QueueInv, Waits, durable,
              session
  <1>1. CASE Construct(c)
        BY <1>1 DEF Construct
  <1>2. CASE StartWithSnapshot(c)
        <2>1. UNCHANGED <<db, applied, manual>>
              BY <1>2 DEF StartWithSnapshot
        <2>2. /\ queued' = [queued EXCEPT ![c] = @ \/ c \in AutoCapture]
              /\ \E b : base' = [base EXCEPT ![c] = b]
              /\ \E r : rowHlc' = [rowHlc EXCEPT ![c] = r]
              /\ pc' = [pc EXCEPT ![c] = "snapshot"]
              BY <1>2 DEF StartWithSnapshot, Stamp, HookFires, InstallHook
        <2> QED BY <2>1, <2>2
  <1>3. CASE StartWithoutSnapshot(c)
        <2>1. /\ UNCHANGED <<db, applied, rowHlc, manual>>
              /\ \/ queued' = queued
                 \/ queued' = [queued EXCEPT ![c] = @ \/ c \in AutoCapture]
              BY <1>3 DEF StartWithoutSnapshot, HookFires
        <2>2. /\ base' = [base EXCEPT ![c] = IF c \in AutoCapture THEN Here(c) ELSE None]
              /\ pc' = [pc EXCEPT ![c] = "list"]
              BY <1>3 DEF StartWithoutSnapshot, InstallHook
        <2>3. c \in AutoCapture => base'[c] = Here(c)
              BY <2>2
        <2>4. c \in AutoCapture => Opened(c)'
              BY <2>1, <2>3 DEF Here, Opened
        <2> QED BY <2>1, <2>2, <2>4
  <1>4. CASE Stop(c)
        BY <1>4 DEF Stop
  <1>5. CASE End(c)
        BY <1>5 DEF End
  <1> QED BY <1>1, <1>2, <1>3, <1>4, <1>5 DEF Process

LEMMA ApplicationServed ==
  ASSUME TypeInv, QueueInv, NEW c \in Client, Application(c)
  PROVE  Apart(c) /\ (c \in AutoCapture => Served(c) /\ Halts(c))
  <1> USE DEF TypeInv, TypeOK, Places, View, Apart, Served, Halts, QueueInv, Waits, durable,
              session, HookFires
  <1>1. CASE BeginWrite(c)
        BY <1>1 DEF BeginWrite, Ready
  <1>2. CASE Exec(c)
        <2>1. \E row : db' = [db EXCEPT ![c] = row]
              BY <1>2 DEF Exec
        <2> QED BY <1>2, <2>1 DEF Exec
  <1>3. CASE EndWriteEmpty(c)
        <2>1. UNCHANGED <<db, applied, rowHlc, queued, pc>> /\ pc[c] = "idle"
              BY <1>3 DEF EndWriteEmpty
        <2>2. /\ manual' = [manual EXCEPT ![c] = FALSE]
              /\ base' = [base EXCEPT ![c] = IF c \in AutoCapture
                            THEN [Here(c) EXCEPT !.applied = applied[c]] ELSE None]
              BY <1>3 DEF EndWriteEmpty, Reopen
        <2>3. c \in AutoCapture => base'[c] = [Here(c) EXCEPT !.applied = applied[c]]
              BY <2>2
        <2>4. c \in AutoCapture => Opened(c)'
              BY <2>1, <2>3 DEF Here, Opened
        <2> QED BY <2>1, <2>2, <2>4
  <1>4. CASE EndWrite(c)
        <2>1. UNCHANGED <<db, applied>>
              BY <1>4 DEF EndWrite
        <2>2. /\ queued' = [queued EXCEPT ![c] = @ \/ c \in AutoCapture]
              /\ base' = [base EXCEPT ![c] = None]
              /\ manual' = [manual EXCEPT ![c] = FALSE]
              /\ \E r : rowHlc' = [rowHlc EXCEPT ![c] = r]
              /\ pc' = [pc EXCEPT ![c] = "publish"]
              BY <1>4 DEF EndWrite, Stamp
        <2> QED BY <2>1, <2>2
  <1>5. CASE CreateTable(c)
        BY <1>5 DEF CreateTable
  <1>6. CASE SetSchemaVersion(c)
        BY <1>6 DEF SetSchemaVersion
  <1> QED BY <1>1, <1>2, <1>3, <1>4, <1>5, <1>6 DEF Application

LEMMA PublishingServed ==
  ASSUME TypeInv, QueueInv, NEW c \in Client, Publishing(c)
  PROVE  Apart(c) /\ (c \in AutoCapture => Served(c) /\ Halts(c))
  <1> USE DEF TypeInv, TypeOK, Places, View, Apart, Served, Halts, QueueInv, Waits, durable,
              session, HookFires
  <1>1. CASE FlushDropped(c)
        BY <1>1 DEF FlushDropped
  <1>2. CASE FlushEmpty(c)
        <2>1. UNCHANGED <<db, applied, rowHlc, manual, pc>> /\ pc[c] = "idle"
              BY <1>2 DEF FlushEmpty
        <2>2. /\ queued' = [queued EXCEPT ![c] = FALSE]
              /\ base' = [base EXCEPT ![c] = Here(c)]
              BY <1>2 DEF FlushEmpty
        <2>3. Opened(c)'
              BY <2>1, <2>2 DEF Here, Opened
        <2> QED BY <2>1, <2>2, <2>3
  <1>3. CASE Flush(c)
        <2>1. UNCHANGED <<db, applied, manual>>
              BY <1>3 DEF Flush
        <2>2. /\ \E q : queued' = [queued EXCEPT ![c] = q]
              /\ base' = [base EXCEPT ![c] = None]
              /\ \E r : rowHlc' = [rowHlc EXCEPT ![c] = r]
              /\ pc' = [pc EXCEPT ![c] = "publish"]
              BY <1>3 DEF Flush, Stamp
        <2> QED BY <2>1, <2>2
  <1>4. CASE Publish(c)
        BY <1>4 DEF Publish
  <1>5. CASE PublishFails(c)
        <2>1. UNCHANGED <<db, applied, rowHlc, queued, manual>>
              BY <1>5 DEF PublishFails
        <2>2. CASE pc[c] = "snapshot"
              BY <1>5, <2>1, <2>2 DEF PublishFails, AfterPublish
        <2>3. CASE pc[c] = "publish"
              <3>1. /\ pc' = [pc EXCEPT ![c] = "idle"]
                    /\ base' = [base EXCEPT ![c] = IF c \in AutoCapture
                                  THEN [Here(c) EXCEPT !.applied = applied[c]] ELSE None]
                    BY <1>5, <2>3 DEF PublishFails, AfterPublish, Reopen
              <3>2. c \in AutoCapture => base'[c] = [Here(c) EXCEPT !.applied = applied[c]]
                    BY <3>1
              <3>3. c \in AutoCapture => Opened(c)'
                    BY <2>1, <3>2 DEF Here, Opened
              <3> QED BY <2>1, <3>1, <3>3
        <2> QED BY <1>5, <2>2, <2>3 DEF PublishFails
  <1>6. CASE MarkOwn(c)
        <2>1. UNCHANGED <<db, rowHlc, manual>>
              BY <1>6 DEF MarkOwn, durable
        <2>2. /\ queued' = [queued EXCEPT ![c] = @ \/ c \in AutoCapture]
              /\ base' = base \/ \E b : base' = [base EXCEPT ![c] = b]
              /\ \E a : applied' = [applied EXCEPT ![c] = a]
              /\ pc' = [pc EXCEPT ![c] = "list"] \/ pc' = [pc EXCEPT ![c] = "idle"]
              BY <1>6 DEF MarkOwn, AfterPublish, Reopen
        <2>3. c \in AutoCapture => queued'[c]
              BY <2>2
        <2>4. /\ pc'[c] \in {"list", "idle"}
              /\ \A d \in Client \ {c} : pc'[d] = pc[d] /\ base'[d] = base[d]
                                        /\ applied'[d] = applied[d] /\ queued'[d] = queued[d]
              BY <2>2
        <2> QED BY <2>1, <2>3, <2>4
  <1> QED BY <1>1, <1>2, <1>3, <1>4, <1>5, <1>6 DEF Publishing

LEMMA SyncingServed ==
  ASSUME TypeInv, QueueInv, NEW c \in Client, Syncing(c) \/ Delivery(c)
  PROVE  Apart(c) /\ (c \in AutoCapture => Served(c) /\ Halts(c))
  <1> USE DEF TypeInv, TypeOK, Places, View, Apart, Served, Halts, QueueInv, Waits, durable,
              session, HookFires
  <1>1. CASE SyncStart(c)
        BY <1>1 DEF SyncStart
  <1>2. CASE RejectVersion(c) \/ Unreadable(c)
        BY <1>2 DEF RejectVersion, Unreadable
  <1>3. CASE Apply(c)
        <2>1. /\ \E d : db' = [db EXCEPT ![c] = d]
              /\ \E r : rowHlc' = [rowHlc EXCEPT ![c] = r]
              /\ \E a : applied' = [applied EXCEPT ![c] = a]
              BY <1>3 DEF Apply, ApplyFile
        <2>2. UNCHANGED <<base, manual, pc>> /\ pc[c] \in {"first", "retry"}
              BY <1>3 DEF Apply, InPass
        <2>3. queued' = [queued EXCEPT ![c] = @ \/ c \in AutoCapture]
              BY <1>3 DEF Apply
        <2> QED BY <2>1, <2>2, <2>3
  <1>4. CASE Mark(c)
        <2>1. pc[c] \in {"first", "retry"}
              BY <1>4 DEF Mark
        <2> QED BY <1>4, <2>1 DEF Mark
  <1>5. CASE EndPass(c)
        BY <1>5 DEF EndPass
  <1>6. CASE Delivery(c)
        BY <1>6 DEF Delivery, Deliver, DeliverRest
  <1> QED BY <1>1, <1>2, <1>3, <1>4, <1>5, <1>6 DEF Syncing

\* Nothing that an engine which captures every commit has captured is left without a call
\* that will publish it, under all faults together, for any clients, rows and bounds
\* (onTransactionCommitted).
THEOREM CapturedHasItsCall == Spec => []CapturedIsQueued
  <1>1. Init => QueueInv
        BY SyncEngineAssumption DEF Init, QueueInv, Waits, Captured, IsEmpty
  <1>2. TypeInv /\ QueueInv /\ [Next]_vars => QueueInv'
        <2> SUFFICES ASSUME TypeInv, QueueInv, [Next]_vars PROVE QueueInv'
            OBVIOUS
        <2>1. CASE Next
              <3>1. PICK c \in Client : \/ Process(c) \/ Application(c) \/ Publishing(c)
                                        \/ Syncing(c) \/ Delivery(c)
                    BY <2>1 DEF Next
              <3>2. Apart(c) /\ (c \in AutoCapture => Served(c) /\ Halts(c))
                    BY <3>1, ProcessServed, ApplicationServed, PublishingServed, SyncingServed
              <3> QED BY <3>2, SyncEngineAssumption, ServedQueue
        <2>2. CASE UNCHANGED vars
              BY <2>2 DEF vars, QueueInv, Waits, Captured
        <2> QED BY <2>1, <2>2
  <1>3. QueueInv => CapturedIsQueued
        BY DEF QueueInv, Waits, CapturedIsQueued
  <1>4. Init => TypeInv
        BY InitTypes
  <1>5. TypeInv /\ [Next]_vars => TypeInv'
        BY NextTypes
  <1> QED BY <1>1, <1>2, <1>3, <1>4, <1>5, PTL DEF Spec

-----------------------------------------------------------------------------------
(***************************************************************************)
(* Time.  The clock of an engine covers its database, so that what it      *)
(* stamps is newer than all it knows.  The invariant needs the files: a    *)
(* changeset carries marks and timestamps, and they are no newer than the  *)
(* changeset, so the clock that is shown its timestamp covers them too.  A *)
(* change carried for a timestamp raises it, because the session that      *)
(* recorded the change began earlier.  It fails when a process is lost (a  *)
(* new clock starts at the wall's reading) and when a counter wraps.       *)
(***************************************************************************)

\* No counter stands at its last value: fewer than 65535 calls of now() and receive() fall
\* on one millisecond.
HasRoom == \A c \in Client : ~AtLimit(clock[c])

\* What is marked and stamped in a changeset is no newer than the changeset, and a stamp
\* that was changed was raised.
Dated(h, content) ==
  /\ ~AtLimit(h)
  /\ \A n \in content.marks : n.hlc <= h
  /\ \A k \in DOMAIN content.stamps :
       /\ content.stamps[k].new <= h
       /\ content.stamps[k].old <= content.stamps[k].new

FilesDated == \A n \in DOMAIN folder : Dated(n.hlc, folder[n])

\* The clock of c covers the database of c, which is empty of records before the first
\* start; what c is about to publish is newer than what it has applied.
Covers(c) ==
  /\ \A k \in Key : rowHlc[c][k] <= clock[c]
  /\ \A n \in applied[c] : n.hlc <= clock[c]
  /\ cur[c] # None => cur[c].hlc <= clock[c]

Unrecorded(c) ==
  pc[c] = "down" => clock[c] = 0 /\ applied[c] = {} /\ \A k \in Key : rowHlc[c][k] = 0

SessionBefore(c) == base[c] # None => \A k \in Key : base[c].rowHlc[k] <= rowHlc[c][k]

Ahead(c) ==
  pc[c] \in Busy =>
    /\ Dated(out[c].name.hlc, out[c].content)
    /\ out[c].name.hlc <= clock[c]
    /\ \A n \in applied[c] \ {out[c].name} : n.hlc < out[c].name.hlc

Timely(c) == Covers(c) /\ Unrecorded(c) /\ SessionBefore(c) /\ Ahead(c)

ClockInv == FilesDated /\ \A c \in Client : Timely(c)

LEMMA ResolveDates ==
  ASSUME NEW change, NEW row, NEW h \in Nat, NEW n \in Name, NEW c \in Client
  PROVE  LET x == Resolve(change, row, h, n, c).hlc
         IN  x >= h /\ (x = h \/ x = n.hlc)
  <1>1. n.hlc \in Nat
        BY DEF Name
  <1> QED BY <1>1 DEF Resolve, Wins

LEMMA AddStampsDates ==
  ASSUME NEW r \in [Key -> Nat], NEW h \in Nat, NEW content, GoodContent(content),
         Dated(h, content), NEW k \in Key
  PROVE  LET x == AddStamps(r, content.stamps)[k]
         IN  x \in Nat /\ x >= r[k] /\ (x = r[k] \/ x <= h)
  BY DEF AddStamps, GoodContent, Dated

\* Applying a changeset raises timestamps only, and not above its own.
LEMMA AppliedDates ==
  ASSUME NEW content, GoodContent(content), NEW n \in Name, Dated(n.hlc, content),
         NEW c \in Client, NEW d \in [Key -> MaybeRow], NEW r \in [Key -> Nat], NEW t,
         NEW f \in BOOLEAN, NEW k \in Key
  PROVE  LET x == Applied(content, n, c, d, r, t, f).rowHlc[k]
         IN  x >= r[k] /\ (x = r[k] \/ x <= n.hlc)
  <1> DEFINE before   == IF f THEN AddStamps(r, content.stamps) ELSE r
             resolved == [j \in Reached(content, t) |->
                            Resolve(content.rows[j], d[j], before[j], n, c)]
             after    == [j \in Key |-> IF j \in DOMAIN resolved THEN resolved[j].hlc
                                                                 ELSE before[j]]
             final    == IF f THEN after ELSE AddStamps(after, content.stamps)
  <1>1. Applied(content, n, c, d, r, t, f).rowHlc = final
        BY DEF Applied
  <1>2. n.hlc \in Nat
        BY DEF Name
  <1>3. before \in [Key -> Nat]
        BY StampsTyped
  <1>4. before[k] \in Nat /\ before[k] >= r[k] /\ (before[k] = r[k] \/ before[k] <= n.hlc)
        BY <1>2, AddStampsDates
  <1>5. /\ after \in [Key -> Nat]
        /\ after[k] >= before[k] /\ (after[k] = before[k] \/ after[k] <= n.hlc)
        <2>1. \A j \in Key : j \in DOMAIN resolved =>
                /\ resolved[j].hlc >= before[j]
                /\ resolved[j].hlc = before[j] \/ resolved[j].hlc = n.hlc
              <3>1. SUFFICES ASSUME NEW j \in Key, j \in DOMAIN resolved
                             PROVE  /\ resolved[j].hlc >= before[j]
                                    /\ resolved[j].hlc = before[j] \/ resolved[j].hlc = n.hlc
                    OBVIOUS
              <3>2. resolved[j] = Resolve(content.rows[j], d[j], before[j], n, c)
                    BY <3>1
              <3>3. before[j] \in Nat
                    BY <1>3
              <3> HIDE DEF resolved, before
              <3> QED BY <3>2, <3>3, ResolveDates
        <2>2. \A j \in Key : after[j] = (IF j \in DOMAIN resolved THEN resolved[j].hlc
                                                                  ELSE before[j])
              OBVIOUS
        <2>3. DOMAIN after = Key /\ after = [j \in Key |-> after[j]]
              OBVIOUS
        <2> HIDE DEF after, resolved, before
        <2>4. \A j \in Key : after[j] \in Nat
              BY <1>2, <1>3, <2>1, <2>2
        <2> QED BY <1>2, <1>3, <2>1, <2>2, <2>3, <2>4
  <1>6. final[k] >= after[k] /\ (final[k] = after[k] \/ final[k] <= n.hlc)
        <2> HIDE DEF after
        <2>1. CASE f
              BY <1>5, <2>1
        <2>2. CASE ~f
              BY <1>2, <1>5, <2>2, AddStampsDates
        <2> QED BY <2>1, <2>2
  <1>7. final[k] \in Nat
        <2> HIDE DEF after
        <2> QED BY <1>5, StampsTyped
  <1> HIDE DEF final, after, before
  <1> QED BY <1>1, <1>2, <1>4, <1>5, <1>6, <1>7

LEMMA CaptureDates ==
  ASSUME NEW b, NEW d, NEW a, NEW r, NEW h, ~AtLimit(h),
         \A n \in a : n.hlc <= h, \A k \in Key : r[k] <= h /\ b.rowHlc[k] <= r[k]
  PROVE  Dated(h, Capture(b, d, a, r))
  <1> DEFINE content == Capture(b, d, a, r)
  <1>1. /\ content.marks = a \ b.applied
        /\ content.stamps = [k \in {x \in Key : b.rowHlc[x] # r[x]} |->
                               [old |-> b.rowHlc[k], new |-> r[k]]]
        BY DEF Capture
  <1>2. \A k \in DOMAIN content.stamps :
          k \in Key /\ content.stamps[k].old = b.rowHlc[k] /\ content.stamps[k].new = r[k]
        BY <1>1
  <1>3. Dated(h, content)
        <2> HIDE DEF content
        <2> QED BY <1>1, <1>2 DEF Dated
  <1> QED BY <1>3

\* What c publishes next is dated.
LEMMA CapturedDates ==
  ASSUME TypeInv, NEW c \in Client, Timely(c), NEW h \in Nat, h >= clock[c], ~AtLimit(h)
  PROVE  Dated(h, Captured(c)) /\ Dated(h, Snapshot(db[c]))
  <1>1. /\ clock[c] \in Nat /\ rowHlc[c] \in [Key -> Nat]
        /\ \A n \in applied[c] : n.hlc \in Nat
        BY DEF TypeInv, TypeOK, Name
  <1>0. DOMAIN << >> = {}
        OBVIOUS
  <1>2. base[c] = None => Dated(h, Captured(c))
        <2>1. SUFFICES ASSUME base[c] = None PROVE Dated(h, Captured(c))
              OBVIOUS
        <2>2. Captured(c).marks = {} /\ Captured(c).stamps = << >>
              BY <2>1 DEF Captured
        <2> QED BY <1>0, <2>2 DEF Dated
  <1>3. ASSUME base[c] # None
        PROVE  Dated(h, Captured(c))
        <2>1. Captured(c) = Capture(base[c], db[c], applied[c], rowHlc[c])
              BY <1>3 DEF Captured
        <2>2. \A n \in applied[c] : n.hlc <= h
              BY <1>1 DEF Timely, Covers
        <2>3. \A k \in Key : rowHlc[c][k] <= h /\ base[c].rowHlc[k] <= rowHlc[c][k]
              BY <1>1, <1>3 DEF Timely, Covers, SessionBefore
        <2> QED BY <2>1, <2>2, <2>3, CaptureDates
  <1>4. Dated(h, Snapshot(db[c]))
        <2>1. Snapshot(db[c]).marks = {} /\ Snapshot(db[c]).stamps = << >>
              BY DEF Snapshot
        <2> QED BY <1>0, <2>1 DEF Dated
  <1> QED BY <1>2, <1>3, <1>4

\* A step of c that stamps nothing and takes nothing from a changeset.
LEMMA KeptTimely ==
  ASSUME TypeInv, TypeInv', NEW c \in Client, Timely(c), NoLoss,
         rowHlc'[c] = rowHlc[c], clock'[c] >= clock[c], cur'[c] \in {None, cur[c]},
         \A n \in applied'[c] \ applied[c] : n.hlc <= clock[c],
         pc[c] = "down" => clock'[c] = clock[c] \/ pc'[c] # "down",
         pc'[c] = "down" => pc[c] = "down" /\ applied'[c] = applied[c],
         base'[c] \in {None, base[c]} \/ base'[c].rowHlc = rowHlc[c],
         pc'[c] \in Busy => pc[c] \in Busy /\ out'[c] = out[c] /\ applied'[c] = applied[c]
  PROVE  Timely(c)'
  <1>1. /\ clock[c] \in Nat /\ clock'[c] \in Nat /\ rowHlc[c] \in [Key -> Nat]
        /\ \A n \in applied[c] \cup applied'[c] : n.hlc \in Nat
        /\ cur[c] # None => cur[c].hlc \in Nat
        /\ pc[c] \in Busy => out[c].name.hlc \in Nat
        <2>1. cur[c] # None => cur[c] \in Name
              BY DEF TypeInv, TypeOK
        <2> QED BY <2>1 DEF TypeInv, TypeOK, Name, Busy
  <1>2. Covers(c)'
        BY <1>1 DEF Timely, Covers
  <1>3. Unrecorded(c)'
        BY DEF Timely, Unrecorded
  <1>4. SessionBefore(c)'
        BY <1>1 DEF Timely, SessionBefore
  <1>5. Ahead(c)'
        BY <1>1 DEF Timely, Ahead
  <1> QED BY <1>2, <1>3, <1>4, <1>5 DEF Timely

\* A step of c that stamps what it is about to publish.
LEMMA StampedTimely ==
  ASSUME TypeInv, TypeInv', NEW c \in Client, Timely(c), HasRoom, HasRoom',
         NEW w \in Wall, NEW next \in Busy, NEW content,
         content = Captured(c) \/ content = Snapshot(db[c]),
         Stamp(c, content, Now(clock[c], w), next),
         applied'[c] = applied[c], cur'[c] = cur[c],
         base'[c] = None \/ base'[c].rowHlc = rowHlc[c]
  PROVE  Timely(c)' /\ \A k \in Key : rowHlc'[c][k] >= rowHlc[c][k]
  <1> DEFINE h == Now(clock[c], w)
  <1>1. /\ clock[c] \in Nat /\ rowHlc[c] \in [Key -> Nat]
        /\ \A n \in applied[c] : n.hlc \in Nat
        /\ cur[c] # None => cur[c].hlc \in Nat
        /\ DOMAIN clock = Client /\ DOMAIN rowHlc = Client /\ DOMAIN out = Client
        /\ DOMAIN pc = Client /\ w \in Nat
        <2>1. cur[c] # None => cur[c] \in Name
              BY DEF TypeInv, TypeOK
        <2> QED BY <2>1, SyncEngineAssumption DEF TypeInv, TypeOK, Name, Places
  <1>2. h \in Nat /\ h > clock[c]
        BY <1>1, NowPhysical, NowAdvances DEF HasRoom, NowWraps
  <1> HIDE DEF h
  <1>3. /\ clock'[c] = h
        /\ rowHlc'[c] = Stamped(c, content, h)
        /\ out'[c] = [name |-> NextName(c, h), content |-> content]
        /\ pc'[c] = next
        BY <1>1 DEF Stamp, h
  <1>4. \A k \in Key : rowHlc'[c][k] = h \/ rowHlc'[c][k] = rowHlc[c][k]
        BY <1>3 DEF Stamped
  <1>5. \A k \in Key : rowHlc'[c][k] >= rowHlc[c][k] /\ rowHlc'[c][k] <= h
        BY <1>1, <1>2, <1>4 DEF Timely, Covers
  <1>6. Dated(h, content)
        <2>1. ~AtLimit(h)
              BY <1>3 DEF HasRoom
        <2>2. h >= clock[c]
              BY <1>1, <1>2
        <2> QED BY <1>2, <2>1, <2>2, CapturedDates
  <1>7. out'[c].name.hlc = h /\ out'[c].content = content
        BY <1>3 DEF NextName
  <1>8. Covers(c)'
        BY <1>1, <1>2, <1>3, <1>5 DEF Timely, Covers
  <1>9. Ahead(c)'
        BY <1>1, <1>2, <1>3, <1>6, <1>7 DEF Timely, Covers, Ahead
  <1>10. SessionBefore(c)'
        BY <1>1, <1>5 DEF SessionBefore
  <1>11. Unrecorded(c)'
        BY <1>3 DEF Unrecorded, Busy
  <1> QED BY <1>5, <1>8, <1>9, <1>10, <1>11 DEF Timely

\* What the argument looks at of client d.
Sight(d) == <<rowHlc[d], applied[d], clock[d], cur[d], pc[d], base[d], out[d]>>

Elsewhere(c) == \A d \in Client \ {c} : Sight(d)' = Sight(d)

Rises(c) == \A k \in Key : rowHlc'[c][k] >= rowHlc[c][k]

LEMMA ProcessTimely ==
  ASSUME TypeInv, TypeInv', ClockInv, NoLoss, HasRoom, HasRoom', NEW c \in Client, Process(c)
  PROVE  Elsewhere(c) /\ Timely(c)' /\ Rises(c)
  <1>0. TypeOK /\ Places /\ Timely(c) /\ rowHlc[c] \in [Key -> Nat] /\ clock[c] \in Nat
        BY DEF TypeInv, TypeOK, ClockInv
  <1>1. CASE Construct(c)
        <2>1. PICK h \in Nat : clock' = [clock EXCEPT ![c] = h]
              BY <1>1, SyncEngineAssumption, PartsOfPack DEF Construct
        <2>2. /\ pc[c] = "down" /\ pc' = [pc EXCEPT ![c] = "stopped"]
              /\ UNCHANGED <<rowHlc, applied, base, out, cur>>
              BY <1>1 DEF Construct, durable, session, syncing
        <2>3. Elsewhere(c)
              BY <1>0, <2>1, <2>2 DEF Elsewhere, Sight, TypeOK
        <2>4. clock'[c] >= clock[c] /\ pc'[c] = "stopped"
              BY <1>0, <2>1, <2>2 DEF Timely, Unrecorded, TypeOK
        <2>5. Timely(c)'
              BY <1>0, <2>2, <2>4, KeptTimely DEF Busy
        <2> QED BY <1>0, <2>2, <2>3, <2>5 DEF Rises
  <1>2. CASE StartWithSnapshot(c)
        <2>1. PICK w \in Wall : Stamp(c, Snapshot(db[c]), Now(clock[c], w), "snapshot")
              BY <1>2 DEF StartWithSnapshot
        <2>2. UNCHANGED <<applied, cur>>
              BY <1>2 DEF StartWithSnapshot, syncing
        <2>3. /\ \E b : base' = [base EXCEPT ![c] = b]
              /\ base'[c] = (IF c \in AutoCapture THEN Here(c) ELSE None)
              BY <1>0, <1>2 DEF StartWithSnapshot, InstallHook, Places
        <2>4. base'[c] = None \/ base'[c].rowHlc = rowHlc[c]
              BY <2>3 DEF Here
        <2>5. Elsewhere(c)
              BY <1>0, <2>1, <2>2, <2>3 DEF Stamp, Elsewhere, Sight, TypeOK, Places
        <2>6. Timely(c)' /\ Rises(c)
              BY <1>0, <2>1, <2>2, <2>4, StampedTimely DEF Busy, Rises
        <2> QED BY <2>5, <2>6
  <1>3. CASE StartWithoutSnapshot(c)
        <2>1. /\ pc[c] = "stopped" /\ pc' = [pc EXCEPT ![c] = "list"]
              /\ UNCHANGED <<rowHlc, applied, clock, out, cur>>
              BY <1>3 DEF StartWithoutSnapshot, durable, syncing
        <2>2. /\ \E b : base' = [base EXCEPT ![c] = b]
              /\ base'[c] = (IF c \in AutoCapture THEN Here(c) ELSE None)
              BY <1>0, <1>3 DEF StartWithoutSnapshot, InstallHook, Places
        <2>3. base'[c] = None \/ base'[c].rowHlc = rowHlc[c]
              BY <2>2 DEF Here
        <2>4. Elsewhere(c) /\ pc'[c] = "list"
              BY <1>0, <2>1, <2>2 DEF Elsewhere, Sight, TypeOK, Places
        <2>5. Timely(c)'
              BY <1>0, <2>1, <2>3, <2>4, KeptTimely DEF Busy
        <2> QED BY <1>0, <2>1, <2>4, <2>5 DEF Rises
  <1>4. CASE Stop(c)
        <2>1. /\ pc[c] = "idle" /\ pc' = [pc EXCEPT ![c] = "stopped"]
              /\ base' = [base EXCEPT ![c] = None]
              /\ UNCHANGED <<rowHlc, applied, clock, out, cur>>
              BY <1>4 DEF Stop, durable, syncing
        <2>2. Elsewhere(c) /\ pc'[c] = "stopped" /\ base'[c] = None
              BY <1>0, <2>1 DEF Elsewhere, Sight, TypeOK, Places
        <2>3. Timely(c)'
              BY <1>0, <2>1, <2>2, KeptTimely DEF Busy
        <2> QED BY <1>0, <2>1, <2>2, <2>3 DEF Rises
  <1>5. ~End(c)
        BY DEF End, NoLoss
  <1> QED BY <1>1, <1>2, <1>3, <1>4, <1>5 DEF Process

LEMMA ApplicationTimely ==
  ASSUME TypeInv, TypeInv', ClockInv, NoLoss, HasRoom, HasRoom', NEW c \in Client,
         Application(c) \/ FlushDropped(c) \/ FlushEmpty(c) \/ Flush(c)
  PROVE  Elsewhere(c) /\ Timely(c)' /\ Rises(c)
  <1>0. TypeOK /\ Places /\ Timely(c) /\ rowHlc[c] \in [Key -> Nat] /\ clock[c] \in Nat
        BY DEF TypeInv, TypeOK, ClockInv
  <1>1. CASE EndWrite(c) \/ Flush(c)
        <2>1. PICK w \in Wall : Stamp(c, Captured(c), Now(clock[c], w), "publish")
              BY <1>1 DEF EndWrite, Flush
        <2>2. UNCHANGED <<applied, cur>> /\ base' = [base EXCEPT ![c] = None]
              BY <1>1 DEF EndWrite, Flush, syncing
        <2>3. Elsewhere(c) /\ base'[c] = None
              BY <1>0, <2>1, <2>2 DEF Stamp, Elsewhere, Sight, TypeOK, Places
        <2>4. Timely(c)' /\ Rises(c)
              BY <1>0, <2>1, <2>2, <2>3, StampedTimely DEF Busy, Rises
        <2> QED BY <2>3, <2>4
  <1>2. CASE BeginWrite(c) \/ EndWriteEmpty(c) \/ FlushEmpty(c)
        <2>1. /\ pc[c] = "idle" /\ UNCHANGED <<rowHlc, applied, clock, out, cur, pc>>
              BY <1>2 DEF BeginWrite, EndWriteEmpty, FlushEmpty, Ready, durable, syncing
        <2>2. PICK b : base' = [base EXCEPT ![c] = b] /\ (b = None \/ b.rowHlc = rowHlc[c])
              BY <1>2 DEF BeginWrite, EndWriteEmpty, FlushEmpty, Reopen, Here
        <2>3. Elsewhere(c) /\ (base'[c] = None \/ base'[c].rowHlc = rowHlc[c])
              BY <1>0, <2>1, <2>2 DEF Elsewhere, Sight, Places
        <2>4. Timely(c)'
              BY <1>0, <2>1, <2>3, KeptTimely DEF Busy
        <2> QED BY <1>0, <2>1, <2>3, <2>4 DEF Rises
  <1>3. CASE Exec(c) \/ CreateTable(c) \/ SetSchemaVersion(c) \/ FlushDropped(c)
        <2>1. /\ pc[c] \in {"idle", "stopped"}
              /\ UNCHANGED <<rowHlc, applied, clock, out, cur, pc, base>>
              BY <1>3 DEF Exec, CreateTable, SetSchemaVersion, FlushDropped, durable, session,
                          syncing
        <2>2. Elsewhere(c)
              BY <2>1 DEF Elsewhere, Sight
        <2>3. Timely(c)'
              BY <1>0, <2>1, KeptTimely DEF Busy
        <2> QED BY <1>0, <2>1, <2>2, <2>3 DEF Rises
  <1> QED BY <1>1, <1>2, <1>3 DEF Application

\* Publishing gives the folder a changeset that is dated.
LEMMA PublishTimely ==
  ASSUME TypeInv, TypeInv', ClockInv, NoLoss, NEW c \in Client,
         Publish(c) \/ PublishFails(c) \/ MarkOwn(c)
  PROVE  Elsewhere(c) /\ Timely(c)' /\ Rises(c) /\ FilesDated'
  <1>0. /\ TypeOK /\ Places /\ Timely(c) /\ FilesDated /\ rowHlc[c] \in [Key -> Nat]
        /\ clock[c] \in Nat
        BY DEF TypeInv, TypeOK, ClockInv
  <1>1. CASE Publish(c)
        <2>1. /\ pc[c] \in {"publish", "snapshot"}
              /\ UNCHANGED <<rowHlc, applied, clock, out, cur, base>>
              /\ pc' = [pc EXCEPT ![c] = IF pc[c] = "publish" THEN "own" ELSE "ownSnapshot"]
              /\ folder' = [m \in DOMAIN folder \cup {out[c].name} |->
                              IF m = out[c].name THEN out[c].content ELSE folder[m]]
              BY <1>1 DEF Publish, durable, session, syncing
        <2>2. Elsewhere(c) /\ pc'[c] \in {"own", "ownSnapshot"}
              BY <1>0, <2>1 DEF Elsewhere, Sight, TypeOK
        <2>3. Timely(c)'
              BY <1>0, <2>1, <2>2, KeptTimely DEF Busy
        <2>4. Dated(out[c].name.hlc, out[c].content)
              BY <1>0, <2>1 DEF Timely, Ahead, Busy
        <2>5. FilesDated'
              BY <1>0, <2>1, <2>4 DEF FilesDated
        <2> QED BY <1>0, <2>1, <2>2, <2>3, <2>5 DEF Rises
  <1>2. CASE PublishFails(c) \/ MarkOwn(c)
        <2>1. /\ pc[c] \in Busy /\ UNCHANGED <<rowHlc, clock, cur, folder>>
              /\ \/ UNCHANGED applied
                 \/ applied' = [applied EXCEPT ![c] = @ \cup {out[c].name}]
              /\ out' = [out EXCEPT ![c] = None]
              BY <1>2 DEF PublishFails, MarkOwn, Busy, durable, syncing, shared
        <2>2. /\ \E p \in {"list", "idle"} : pc' = [pc EXCEPT ![c] = p]
              /\ \/ UNCHANGED base
                 \/ \E b : base' = [base EXCEPT ![c] = b] /\ (b = None \/ b.rowHlc = rowHlc[c])
              BY <1>2 DEF PublishFails, MarkOwn, AfterPublish, Reopen, Here
        <2>3. Elsewhere(c) /\ pc'[c] \in {"list", "idle"}
              BY <1>0, <2>1, <2>2 DEF Elsewhere, Sight, TypeOK, Places
        <2>4. base'[c] \in {None, base[c]} \/ base'[c].rowHlc = rowHlc[c]
              BY <1>0, <2>2 DEF Places
        <2>5. \A n \in applied'[c] \ applied[c] : n.hlc <= clock[c]
              <3>1. applied'[c] = applied[c] \/ applied'[c] = applied[c] \cup {out[c].name}
                    BY <1>0, <2>1 DEF Places
              <3>2. out[c].name.hlc <= clock[c]
                    BY <1>0, <2>1 DEF Timely, Ahead
              <3> QED BY <3>1, <3>2
        <2>6. Timely(c)'
              BY <1>0, <2>1, <2>3, <2>4, <2>5, KeptTimely DEF Busy
        <2> QED BY <1>0, <2>1, <2>3, <2>6 DEF Rises, FilesDated
  <1> QED BY <1>1, <1>2

\* The clock is shown the timestamp of a file: it moves past both.
LEMMA ShownDates ==
  ASSUME TypeInv, ClockInv, HasRoom, NEW c \in Client, NEW n \in Earliest(todo[c]),
         NEW w \in Wall
  PROVE  LET x == Receive(clock[c], n.hlc, w)
         IN  x \in Nat /\ x > clock[c] /\ x > n.hlc
  <1>1. n \in seen[c] /\ n.hlc \in Nat
        BY TakenTypes
  <1>2. n \in DOMAIN folder
        BY <1>1 DEF TypeInv, TypeOK
  <1>3. ~AtLimit(n.hlc) /\ ~AtLimit(clock[c])
        BY <1>2 DEF ClockInv, FilesDated, Dated, HasRoom
  <1>4. clock[c] \in Nat /\ w \in Nat
        BY SyncEngineAssumption DEF TypeInv, TypeOK
  <1>5. ~ReceiveWraps(clock[c], n.hlc, w)
        BY <1>3 DEF ReceiveWraps
  <1> QED BY <1>1, <1>4, <1>5, ReceivePhysical, ReceiveAdvances

LEMMA ApplyTimely ==
  ASSUME TypeInv, TypeInv', ClockInv, HasRoom, NEW c \in Client, Apply(c)
  PROVE  Elsewhere(c) /\ Timely(c)' /\ Rises(c)
  <1>0. /\ TypeOK /\ Places /\ Timely(c) /\ FilesDated /\ clock[c] \in Nat
        /\ rowHlc[c] \in [Key -> Nat] /\ db[c] \in [Key -> MaybeRow]
        BY DEF TypeInv, TypeOK, ClockInv, MaybeRow
  <1>1. PICK n \in Earliest(todo[c]) \ torn[c], w \in Wall, stampsFirst \in BOOLEAN :
          ApplyFile(c, n, w, stampsFirst)
        BY DEF Apply
  <1>2. n \in Earliest(todo[c]) /\ n \in seen[c] /\ n \in Name /\ n.hlc \in Nat
        /\ GoodContent(folder[n])
        BY TakenTypes
  <1>3. n \in DOMAIN folder /\ Dated(n.hlc, folder[n])
        BY <1>0, <1>2 DEF TypeOK, FilesDated
  <1> DEFINE h == Receive(clock[c], n.hlc, w)
             r == Applied(folder[n], n, c, db[c], rowHlc[c], tables[c], stampsFirst).rowHlc
             m == folder[n].marks
             q == IF AppliesWhole(c, folder[n]) THEN n ELSE None
  <1>4. h \in Nat /\ h > clock[c] /\ h > n.hlc
        BY <1>2, ShownDates
  <1>5. \A k \in Key : r[k] >= rowHlc[c][k] /\ (r[k] = rowHlc[c][k] \/ r[k] <= n.hlc)
        BY <1>0, <1>2, <1>3, AppliedDates
  <1>6. /\ clock' = [clock EXCEPT ![c] = h]
        /\ rowHlc' = [rowHlc EXCEPT ![c] = r]
        /\ applied' = [applied EXCEPT ![c] = @ \cup m]
        /\ cur' = [cur EXCEPT ![c] = q]
        /\ UNCHANGED <<pc, base, out>> /\ pc[c] \in {"first", "retry"}
        BY <1>1 DEF ApplyFile, Apply, InPass
  <1>7. q \in {n, None} /\ \A x \in m : x \in Name /\ x.hlc <= n.hlc
        BY <1>2, <1>3 DEF GoodContent, Dated
  <1> HIDE DEF h, r, m, q
  <1>8. /\ clock'[c] = h /\ rowHlc'[c] = r /\ applied'[c] = applied[c] \cup m /\ cur'[c] = q
        /\ Elsewhere(c)
        BY <1>0, <1>6 DEF Elsewhere, Sight, TypeOK, Places
  <1>9. rowHlc'[c] \in [Key -> Nat] /\ \A x \in applied[c] : x.hlc \in Nat
        BY <1>0 DEF TypeInv, TypeOK, Name
  <1>10. Covers(c)'
        <2>1. \A k \in Key : rowHlc'[c][k] <= clock'[c]
              <3> SUFFICES ASSUME NEW k \in Key PROVE r[k] <= h
                  BY <1>8
              <3>1. r[k] \in Nat /\ rowHlc[c][k] \in Nat /\ rowHlc[c][k] <= clock[c]
                    BY <1>0, <1>8, <1>9 DEF Timely, Covers
              <3> QED BY <1>0, <1>2, <1>4, <1>5, <3>1
        <2>2. \A x \in applied'[c] : x.hlc <= clock'[c]
              <3> SUFFICES ASSUME NEW x \in applied[c] \cup m PROVE x.hlc <= h
                  BY <1>8
              <3>1. x.hlc \in Nat
                    BY <1>7, <1>9 DEF Name
              <3> QED BY <1>0, <1>2, <1>4, <1>7, <3>1 DEF Timely, Covers
        <2>3. cur'[c] # None => cur'[c].hlc <= clock'[c]
              BY <1>2, <1>4, <1>7, <1>8
        <2> QED BY <2>1, <2>2, <2>3 DEF Covers
  <1>11. Rises(c)
        BY <1>5, <1>8 DEF Rises
  <1>12. SessionBefore(c)'
        <2>1. base[c] # None => base[c].rowHlc \in [Key -> Nat]
              BY <1>0 DEF TypeOK
        <2> QED BY <1>0, <1>6, <1>9, <1>11, <2>1 DEF Timely, SessionBefore, Rises
  <1>13. Ahead(c)' /\ Unrecorded(c)'
        BY <1>6 DEF Ahead, Unrecorded, Busy
  <1> QED BY <1>8, <1>10, <1>11, <1>12, <1>13 DEF Timely

LEMMA SyncingTimely ==
  ASSUME TypeInv, TypeInv', ClockInv, NoLoss, HasRoom, NEW c \in Client,
         Syncing(c) \/ Delivery(c)
  PROVE  Elsewhere(c) /\ Timely(c)' /\ Rises(c)
  <1>0. TypeOK /\ Places /\ Timely(c) /\ rowHlc[c] \in [Key -> Nat] /\ clock[c] \in Nat
        BY DEF TypeInv, TypeOK, ClockInv
  <1>1. CASE SyncStart(c) \/ EndPass(c)
        <2>1. /\ pc[c] \in {"list", "idle", "first", "retry"}
              /\ \E p \in {"idle", "first", "retry"} : pc' = [pc EXCEPT ![c] = p]
              /\ UNCHANGED <<rowHlc, applied, clock, base, out, cur>>
              BY <1>1 DEF SyncStart, EndPass, InPass, Ready, durable, session, syncing
        <2>2. Elsewhere(c) /\ pc'[c] \in {"idle", "first", "retry"}
              BY <1>0, <2>1 DEF Elsewhere, Sight, TypeOK
        <2>3. Timely(c)'
              BY <1>0, <2>1, <2>2, KeptTimely DEF Busy
        <2> QED BY <1>0, <2>1, <2>2, <2>3 DEF Rises
  <1>2. CASE RejectVersion(c) \/ Delivery(c)
        <2>1. UNCHANGED <<rowHlc, applied, clock, base, out, cur, pc>>
              BY <1>2 DEF RejectVersion, Delivery, Deliver, DeliverRest, durable, session, syncing
        <2>2. Elsewhere(c) /\ Timely(c)'
              BY <1>0, <2>1 DEF Elsewhere, Sight, Timely, Covers, Unrecorded, SessionBefore, Ahead
        <2> QED BY <1>0, <2>1, <2>2 DEF Rises
  <1>3. CASE Unreadable(c)
        <2>1. /\ pc[c] \in {"first", "retry"} /\ UNCHANGED <<rowHlc, applied, base, out, cur, pc>>
              /\ \E n \in Earliest(todo[c]) :
                   \/ UNCHANGED clock
                   \/ \E w \in Wall : clock' = [clock EXCEPT ![c] = Receive(@, n.hlc, w)]
              BY <1>3 DEF Unreadable, InPass, durable, session
        <2>2. /\ clock'[c] >= clock[c]
              /\ \A d \in Client \ {c} : clock'[d] = clock[d]
              <3>1. PICK n \in Earliest(todo[c]) :
                      \/ UNCHANGED clock
                      \/ \E w \in Wall : clock' = [clock EXCEPT ![c] = Receive(@, n.hlc, w)]
                    BY <2>1
              <3>2. CASE UNCHANGED clock
                    BY <1>0, <3>2
              <3>3. ASSUME NEW w \in Wall, clock' = [clock EXCEPT ![c] = Receive(@, n.hlc, w)]
                    PROVE  /\ clock'[c] >= clock[c]
                           /\ \A d \in Client \ {c} : clock'[d] = clock[d]
                    <4>1. clock'[c] = Receive(clock[c], n.hlc, w)
                          BY <1>0, <3>3 DEF TypeOK
                    <4>2. /\ Receive(clock[c], n.hlc, w) \in Nat
                          /\ Receive(clock[c], n.hlc, w) > clock[c]
                          BY ShownDates
                    <4> QED BY <1>0, <3>3, <4>1, <4>2 DEF TypeOK
              <3> QED BY <3>1, <3>2, <3>3
        <2>3. Elsewhere(c)
              BY <2>1, <2>2 DEF Elsewhere, Sight
        <2>4. Timely(c)'
              BY <1>0, <2>1, <2>2, KeptTimely DEF Busy
        <2> QED BY <1>0, <2>1, <2>3, <2>4 DEF Rises
  <1>4. CASE Apply(c)
        BY <1>4, ApplyTimely
  <1>5. CASE Mark(c)
        <2>1. /\ pc[c] \in {"first", "retry"} /\ cur[c] # None
              /\ UNCHANGED <<rowHlc, clock, base, out, pc>>
              /\ applied' = [applied EXCEPT ![c] = @ \cup {cur[c]}]
              /\ cur' = [cur EXCEPT ![c] = None]
              BY <1>0, <1>5 DEF Mark, Places
        <2>2. /\ applied'[c] = applied[c] \cup {cur[c]} /\ cur'[c] = None /\ Elsewhere(c)
              BY <1>0, <2>1 DEF Elsewhere, Sight, Places
        <2>3. \A n \in applied'[c] \ applied[c] : n.hlc <= clock[c]
              BY <1>0, <2>1, <2>2 DEF Timely, Covers
        <2>4. Timely(c)'
              BY <1>0, <2>1, <2>2, <2>3, KeptTimely DEF Busy
        <2> QED BY <1>0, <2>1, <2>2, <2>4 DEF Rises
  <1> QED BY <1>1, <1>2, <1>3, <1>4, <1>5 DEF Syncing

\* Every step keeps the argument, and no step takes a row back.
LEMMA NextTimely ==
  ASSUME TypeInv, TypeInv', ClockInv, NoLoss, HasRoom, HasRoom', [Next]_vars
  PROVE  ClockInv' /\ \A c \in Client : Rises(c)
  <1>0. \A c \in Client : rowHlc[c] \in [Key -> Nat]
        BY DEF TypeInv, TypeOK
  <1>1. CASE UNCHANGED vars
        BY <1>0, <1>1 DEF vars, ClockInv, FilesDated, Timely, Covers, Unrecorded, SessionBefore,
                          Ahead, Rises
  <1>2. CASE Next
        <2>1. PICK c \in Client : \/ Process(c) \/ Application(c) \/ Publishing(c)
                                 \/ Syncing(c) \/ Delivery(c)
              BY <1>2 DEF Next
        <2>2. CASE Publish(c) \/ PublishFails(c) \/ MarkOwn(c)
              <3>1. Elsewhere(c) /\ Timely(c)' /\ Rises(c) /\ FilesDated'
                    BY <2>2, PublishTimely
              <3>2. \A d \in Client \ {c} : Timely(d)' /\ Rises(d)
                    BY <1>0, <3>1 DEF Elsewhere, Sight, ClockInv, Timely, Covers, Unrecorded,
                                      SessionBefore, Ahead, Rises
              <3> QED BY <3>1, <3>2 DEF ClockInv
        <2>3. CASE \/ Process(c) \/ Application(c) \/ FlushDropped(c) \/ FlushEmpty(c)
                   \/ Flush(c) \/ Syncing(c) \/ Delivery(c)
              <3>1. Elsewhere(c) /\ Timely(c)' /\ Rises(c)
                    BY <2>3, ProcessTimely, ApplicationTimely, SyncingTimely
              <3>2. \A d \in Client \ {c} : Timely(d)' /\ Rises(d)
                    BY <1>0, <3>1 DEF Elsewhere, Sight, ClockInv, Timely, Covers, Unrecorded,
                                      SessionBefore, Ahead, Rises
              <3>3. UNCHANGED folder
                    BY <2>3 DEF Process, Construct, StartWithSnapshot, StartWithoutSnapshot, Stop,
                                End, Application, BeginWrite, Exec, EndWriteEmpty, EndWrite,
                                CreateTable, SetSchemaVersion, FlushDropped, FlushEmpty, Flush,
                                Syncing, SyncStart, RejectVersion, Unreadable, Apply, Mark,
                                EndPass, Delivery, Deliver, DeliverRest, shared
              <3> QED BY <3>1, <3>2, <3>3 DEF ClockInv, FilesDated
        <2> QED BY <2>1, <2>2, <2>3 DEF Publishing
  <1> QED BY <1>1, <1>2

LEMMA InitTimely == Init => ClockInv
  BY DEF Init, ClockInv, FilesDated, Timely, Covers, Unrecorded, SessionBefore, Ahead, Busy

\* The clock of an engine covers what its database has recorded, for any number of clients,
\* as long as no process is lost and no counter of a clock is used up.
THEOREM ClocksCoverDatabases == NoLoss => (Spec /\ []HasRoom => []ClockCoversDb)
  <1> SUFFICES ASSUME NoLoss PROVE Spec /\ []HasRoom => []ClockCoversDb
      OBVIOUS
  <1>1. TypeInv /\ TypeInv' /\ ClockInv /\ HasRoom /\ HasRoom' /\ [Next]_vars => ClockInv'
        BY NextTimely
  <1>2. ClockInv => ClockCoversDb
        BY DEF ClockInv, Timely, Covers, ClockCoversDb
  <1>3. TypeInv /\ [Next]_vars => TypeInv'
        BY NextTypes
  <1> QED BY <1>1, <1>2, <1>3, InitTypes, InitTimely, PTL DEF Spec

\* A changeset is stamped above all that its engine has recorded as applied, under the same
\* assumptions ("any subsequent local write is guaranteed to have a higher HLC").
THEOREM StampsExceedSynced == NoLoss => (Spec /\ []HasRoom => []StampsAboveSynced)
  <1> SUFFICES ASSUME NoLoss PROVE Spec /\ []HasRoom => []StampsAboveSynced
      OBVIOUS
  <1>1. TypeInv /\ TypeInv' /\ ClockInv /\ HasRoom /\ HasRoom' /\ [Next]_vars => ClockInv'
        BY NextTimely
  <1>2. TypeInv /\ ClockInv => StampsAboveSynced
        <2> SUFFICES ASSUME TypeInv, ClockInv, NEW c \in Client, out[c] # None
                     PROVE  \A n \in applied[c] \ {out[c].name} : n.hlc < out[c].name.hlc
            BY DEF StampsAboveSynced
        <2>1. pc[c] \in Busy
              BY DEF TypeInv, TypeOK, Busy
        <2> QED BY <2>1 DEF ClockInv, Timely, Ahead
  <1>3. TypeInv /\ [Next]_vars => TypeInv'
        BY NextTypes
  <1> QED BY <1>1, <1>2, <1>3, InitTypes, InitTimely, PTL DEF Spec

\* The timestamp of a row never goes back, under the same assumptions (updateRowHlc).
THEOREM RowTimestampsRise == NoLoss => (Spec /\ []HasRoom => RowHlcMonotone)
  <1> SUFFICES ASSUME NoLoss PROVE Spec /\ []HasRoom => RowHlcMonotone
      OBVIOUS
  <1>1. TypeInv /\ TypeInv' /\ ClockInv /\ HasRoom /\ HasRoom' /\ [Next]_vars =>
          ClockInv' /\ [\A c \in Client, k \in Key : rowHlc'[c][k] >= rowHlc[c][k]]_vars
        BY NextTimely DEF Rises
  <1>2. TypeInv /\ [Next]_vars => TypeInv'
        BY NextTypes
  <1> QED BY <1>1, <1>2, InitTypes, InitTimely, PTL DEF Spec, RowHlcMonotone

-----------------------------------------------------------------------------------
(***************************************************************************)
(* Unmarked files.  Here processes may end and start again, and every      *)
(* fault is allowed.  What is to be published has its client, a timestamp  *)
(* that its clock has reached and a version it accepts (Numbered); and     *)
(* nothing can be written over a file that its client has not marked:      *)
(* start() sees it and publishes no snapshot, the passes of sync() do not  *)
(* end before the clock was shown its timestamp, and a name is stamped     *)
(* above the clock (Watched).                                              *)
(***************************************************************************)

FilesRoomy == \A n \in DOMAIN folder : ~AtLimit(n.hlc)

Numbered(c) ==
  pc[c] \in Busy =>
    /\ out[c].name.client = c /\ out[c].name.ver <= version[c]
    /\ ~AtLimit(out[c].name.hlc) /\ out[c].name.hlc <= clock[c]

NumberedInv == FilesRoomy /\ \A c \in Client : Numbered(c)

\* The clock is shown the timestamp of a file: it moves past both.
LEMMA ShownAbove ==
  ASSUME TypeInv, FilesRoomy, HasRoom, NEW c \in Client, NEW n \in Earliest(todo[c]),
         NEW w \in Wall
  PROVE  LET x == Receive(clock[c], n.hlc, w)
         IN  x \in Nat /\ x > clock[c] /\ x > n.hlc
  <1>1. n \in seen[c] /\ n.hlc \in Nat
        BY TakenTypes
  <1>2. n \in DOMAIN folder
        BY <1>1 DEF TypeInv, TypeOK
  <1>3. ~AtLimit(n.hlc) /\ ~AtLimit(clock[c])
        BY <1>2 DEF FilesRoomy, HasRoom
  <1>4. clock[c] \in Nat /\ w \in Nat
        BY SyncEngineAssumption DEF TypeInv, TypeOK
  <1>5. ~ReceiveWraps(clock[c], n.hlc, w)
        BY <1>3 DEF ReceiveWraps
  <1> QED BY <1>1, <1>4, <1>5, ReceivePhysical, ReceiveAdvances

\* A new changeset has the timestamp of its engine's clock, which has moved.
LEMMA StampRises ==
  ASSUME TypeInv, HasRoom, HasRoom', NEW c \in Client, NEW w \in Wall,
         NEW next \in {"publish", "snapshot"}, NEW content,
         content = Captured(c) \/ content = Snapshot(db[c]),
         Stamp(c, content, Now(clock[c], w), next)
  PROVE  /\ clock'[c] \in Nat /\ clock'[c] > clock[c]
         /\ out'[c] = [name |-> NextName(c, clock'[c]), content |-> content]
         /\ ~AtLimit(clock'[c]) /\ pc'[c] = next
         /\ \A k \in Key : rowHlc'[c][k] \in {rowHlc[c][k], clock'[c]}
         /\ \A d \in Client \ {c} : /\ clock'[d] = clock[d] /\ out'[d] = out[d]
                                    /\ pc'[d] = pc[d] /\ rowHlc'[d] = rowHlc[d]
  <1> DEFINE h == Now(clock[c], w)
  <1>1. /\ clock[c] \in Nat /\ w \in Nat
        /\ DOMAIN clock = Client /\ DOMAIN rowHlc = Client /\ DOMAIN out = Client
        /\ DOMAIN pc = Client
        BY SyncEngineAssumption DEF TypeInv, TypeOK, Places
  <1>2. h \in Nat /\ h > clock[c]
        BY <1>1, NowPhysical, NowAdvances DEF HasRoom, NowWraps
  <1> HIDE DEF h
  <1>3. /\ clock' = [clock EXCEPT ![c] = h]
        /\ rowHlc' = [rowHlc EXCEPT ![c] = Stamped(c, content, h)]
        /\ out' = [out EXCEPT ![c] = [name |-> NextName(c, h), content |-> content]]
        /\ pc' = [pc EXCEPT ![c] = next]
        BY DEF Stamp, h
  <1>4. clock'[c] = h /\ rowHlc'[c] = Stamped(c, content, h)
        BY <1>1, <1>3
  <1>5. \A k \in Key : rowHlc'[c][k] \in {rowHlc[c][k], h}
        BY <1>4 DEF Stamped
  <1> QED BY <1>1, <1>2, <1>3, <1>4, <1>5 DEF HasRoom

\* What is c's own, its process, its database and its view of the folder.
Self(d) == <<pc[d], clock[d], out[d], todo[d], cur[d], base[d], applied[d], rowHlc[d],
             version[d], torn[d]>>

Alone(c) == \A d \in Client \ {c} : Self(d)' = Self(d) /\ seen[d] \subseteq seen'[d]

\* A step of c changes nothing of another client, whose folder may list more.
LEMMA StepAlone ==
  ASSUME TypeInv, NEW c \in Client,
         Process(c) \/ Application(c) \/ Publishing(c) \/ Syncing(c) \/ Delivery(c)
  PROVE  Alone(c)
  <1> USE DEF Alone, Self, durable, session, syncing, shared
  <1>0. /\ DOMAIN pc = Client /\ DOMAIN clock = Client /\ DOMAIN out = Client
        /\ DOMAIN todo = Client /\ DOMAIN cur = Client /\ DOMAIN base = Client
        /\ DOMAIN applied = Client /\ DOMAIN rowHlc = Client /\ DOMAIN version = Client
        /\ DOMAIN torn = Client /\ DOMAIN seen = Client
        BY DEF TypeInv, TypeOK, Places
  <1>1. CASE Construct(c) \/ Stop(c) \/ End(c)
        BY <1>0, <1>1 DEF Construct, Stop, End
  <1>2. CASE StartWithoutSnapshot(c) \/ StartWithSnapshot(c)
        BY <1>0, <1>2 DEF StartWithoutSnapshot, StartWithSnapshot, Stamp, InstallHook
  <1>3. CASE EndWrite(c) \/ Flush(c)
        BY <1>0, <1>3 DEF EndWrite, Flush, Stamp
  <1>4. CASE BeginWrite(c) \/ EndWriteEmpty(c) \/ FlushEmpty(c) \/ FlushDropped(c)
        BY <1>0, <1>4 DEF BeginWrite, EndWriteEmpty, FlushEmpty, FlushDropped, Reopen
  <1>5. CASE Exec(c) \/ CreateTable(c) \/ SetSchemaVersion(c)
        BY <1>0, <1>5 DEF Exec, CreateTable, SetSchemaVersion
  <1>6. CASE Publish(c)
        <2>1. \A d \in Client : seen[d] \subseteq seen'[d]
              BY <1>6 DEF Publish
        <2> QED BY <1>0, <1>6, <2>1 DEF Publish
  <1>7. CASE PublishFails(c) \/ MarkOwn(c)
        BY <1>0, <1>7 DEF PublishFails, MarkOwn, AfterPublish, Reopen
  <1>8. CASE SyncStart(c) \/ EndPass(c) \/ RejectVersion(c)
        BY <1>0, <1>8 DEF SyncStart, EndPass, RejectVersion
  <1>9. CASE Unreadable(c)
        BY <1>0, <1>9 DEF Unreadable
  <1>10. CASE Apply(c)
        BY <1>0, <1>10 DEF Apply, ApplyFile
  <1>11. CASE Mark(c)
        BY <1>0, <1>11 DEF Mark
  <1>12. CASE Delivery(c)
        BY <1>0, <1>12 DEF Delivery, Deliver, DeliverRest
  <1> QED BY <1>1, <1>2, <1>3, <1>4, <1>5, <1>6, <1>7, <1>8, <1>9, <1>10, <1>11, <1>12
          DEF Process, Application, Publishing, Syncing

\* The steps of c that neither name nor write a changeset.
Unpublishing(c) ==
  \/ Construct(c) \/ StartWithoutSnapshot(c) \/ Stop(c) \/ End(c)
  \/ BeginWrite(c) \/ Exec(c) \/ EndWriteEmpty(c) \/ CreateTable(c) \/ SetSchemaVersion(c)
  \/ FlushDropped(c) \/ FlushEmpty(c) \/ PublishFails(c) \/ MarkOwn(c)
  \/ Syncing(c)

Numbering(c) == StartWithSnapshot(c) \/ EndWrite(c) \/ Flush(c)

\* They write no file, and leave nothing to be published.
LEMMA UnpublishingQuiet ==
  ASSUME TypeInv, NEW c \in Client, Unpublishing(c)
  PROVE  pc'[c] \notin Busy /\ UNCHANGED folder
  <1> USE DEF shared, Busy
  <1>0. DOMAIN pc = Client
        BY DEF TypeInv, TypeOK
  <1>1. CASE Construct(c) \/ StartWithoutSnapshot(c) \/ Stop(c) \/ End(c)
        <2>1. /\ UNCHANGED folder
              /\ \E p \in {"stopped", "list", "down"} : pc' = [pc EXCEPT ![c] = p]
              BY <1>1 DEF Construct, StartWithoutSnapshot, Stop, End
        <2> QED BY <1>0, <2>1
  <1>2. CASE BeginWrite(c) \/ Exec(c) \/ EndWriteEmpty(c) \/ CreateTable(c) \/ SetSchemaVersion(c)
        BY <1>2 DEF BeginWrite, Ready, Exec, EndWriteEmpty, CreateTable, SetSchemaVersion
  <1>3. CASE FlushDropped(c) \/ FlushEmpty(c)
        BY <1>3 DEF FlushDropped, FlushEmpty
  <1>4. CASE PublishFails(c) \/ MarkOwn(c)
        <2>1. UNCHANGED folder /\ \E p \in {"list", "idle"} : pc' = [pc EXCEPT ![c] = p]
              BY <1>4 DEF PublishFails, MarkOwn, AfterPublish
        <2> QED BY <1>0, <2>1
  <1>5. CASE SyncStart(c) \/ EndPass(c)
        <2>1. /\ UNCHANGED folder
              /\ \E p \in {"idle", "first", "retry"} : pc' = [pc EXCEPT ![c] = p]
              BY <1>5 DEF SyncStart, EndPass
        <2> QED BY <1>0, <2>1
  <1>6. CASE RejectVersion(c) \/ Unreadable(c) \/ Apply(c)
        BY <1>6 DEF RejectVersion, Unreadable, Apply, InPass
  <1>7. CASE Mark(c)
        BY <1>7 DEF Mark, TypeInv, Places
  <1> QED BY <1>1, <1>2, <1>3, <1>4, <1>5, <1>6, <1>7 DEF Unpublishing, Syncing

\* A step that names a changeset.
LEMMA NumberingStep ==
  ASSUME TypeInv, HasRoom, HasRoom', NEW c \in Client, Numbering(c)
  PROVE  /\ clock'[c] \in Nat /\ clock'[c] > clock[c] /\ ~AtLimit(clock'[c])
         /\ out'[c].name = NextName(c, clock'[c])
         /\ out'[c].content \in {Snapshot(db[c]), Captured(c)}
         /\ \A k \in Key : rowHlc'[c][k] \in {rowHlc[c][k], clock'[c]}
         /\ UNCHANGED <<folder, version, applied, torn, seen, cur>>
         /\ \/ StartWithSnapshot(c) /\ pc'[c] = "snapshot"
            \/ ~StartWithSnapshot(c) /\ pc[c] = "idle" /\ pc'[c] = "publish"
  <1>1. CASE StartWithSnapshot(c)
        <2>1. PICK w \in Wall : Stamp(c, Snapshot(db[c]), Now(clock[c], w), "snapshot")
              BY <1>1 DEF StartWithSnapshot
        <2>2. UNCHANGED <<folder, version, applied, torn, seen, cur>>
              BY <1>1 DEF StartWithSnapshot, shared, syncing
        <2>3. /\ clock'[c] \in Nat /\ clock'[c] > clock[c] /\ ~AtLimit(clock'[c])
              /\ out'[c] = [name |-> NextName(c, clock'[c]), content |-> Snapshot(db[c])]
              /\ pc'[c] = "snapshot"
              /\ \A k \in Key : rowHlc'[c][k] \in {rowHlc[c][k], clock'[c]}
              BY <2>1, StampRises
        <2>4. out'[c].name = NextName(c, clock'[c]) /\ out'[c].content = Snapshot(db[c])
              BY <2>3
        <2> QED BY <1>1, <2>2, <2>3, <2>4
  <1>2. CASE EndWrite(c) \/ Flush(c)
        <2>1. PICK w \in Wall : Stamp(c, Captured(c), Now(clock[c], w), "publish")
              BY <1>2 DEF EndWrite, Flush
        <2>2. UNCHANGED <<folder, version, applied, torn, seen, cur>> /\ pc[c] = "idle"
              BY <1>2 DEF EndWrite, Flush, Ready, shared, syncing
        <2>3. ~StartWithSnapshot(c)
              BY <2>2 DEF StartWithSnapshot
        <2>4. /\ clock'[c] \in Nat /\ clock'[c] > clock[c] /\ ~AtLimit(clock'[c])
              /\ out'[c] = [name |-> NextName(c, clock'[c]), content |-> Captured(c)]
              /\ pc'[c] = "publish"
              /\ \A k \in Key : rowHlc'[c][k] \in {rowHlc[c][k], clock'[c]}
              BY <2>1, StampRises
        <2>5. out'[c].name = NextName(c, clock'[c]) /\ out'[c].content = Captured(c)
              BY <2>4
        <2> QED BY <2>2, <2>3, <2>4, <2>5
  <1> QED BY <1>1, <1>2 DEF Numbering

\* Names stay below the clock of their client, and files below the last reading.
LEMMA NextNumbered ==
  ASSUME TypeInv, NumberedInv, HasRoom, HasRoom', [Next]_vars
  PROVE  NumberedInv'
  <1>1. CASE UNCHANGED vars
        BY <1>1 DEF vars, NumberedInv, FilesRoomy, Numbered
  <1>2. CASE Next
        <2>1. PICK c \in Client : \/ Process(c) \/ Application(c) \/ Publishing(c)
                                  \/ Syncing(c) \/ Delivery(c)
              BY <1>2 DEF Next
        <2>2. \A d \in Client \ {c} : Numbered(d)'
              BY <2>1, StepAlone DEF Alone, Self, NumberedInv, Numbered
        <2>3. CASE Unpublishing(c)
              <3>1. pc'[c] \notin Busy /\ UNCHANGED folder
                    BY <2>3, UnpublishingQuiet
              <3>2. Numbered(c)'
                    BY <3>1 DEF Numbered
              <3>3. FilesRoomy'
                    BY <3>1 DEF NumberedInv, FilesRoomy
              <3> QED BY <2>2, <3>2, <3>3 DEF NumberedInv
        <2>4. CASE Numbering(c)
              <3>1. version[c] \in Nat
                    BY SyncEngineAssumption DEF TypeInv, TypeOK
              <3>0. /\ clock'[c] \in Nat /\ ~AtLimit(clock'[c]) /\ version' = version
                    /\ out'[c].name = NextName(c, clock'[c])
                    BY <2>4, NumberingStep
              <3>2. Numbered(c)'
                    BY <3>0, <3>1 DEF Numbered, NextName
              <3>3. FilesRoomy'
                    BY <2>4, NumberingStep DEF NumberedInv, FilesRoomy
              <3> QED BY <2>2, <3>2, <3>3 DEF NumberedInv
        <2>5. CASE Publish(c)
              <3>1. /\ pc[c] \in Busy /\ UNCHANGED <<out, version, clock>>
                    /\ DOMAIN folder' = DOMAIN folder \cup {out[c].name}
                    BY <2>5 DEF Publish, Busy
              <3>2. Numbered(c)'
                    BY <3>1 DEF NumberedInv, Numbered
              <3>3. FilesRoomy'
                    BY <3>1 DEF NumberedInv, Numbered, FilesRoomy
              <3> QED BY <2>2, <3>2, <3>3 DEF NumberedInv
        <2>6. CASE Delivery(c)
              BY <2>6 DEF Delivery, Deliver, DeliverRest, NumberedInv, FilesRoomy, Numbered
        <2> QED BY <2>1, <2>3, <2>4, <2>5, <2>6
            DEF Process, Application, Publishing, Unpublishing, Numbering
  <1> QED BY <1>1, <1>2

\* The files of c in the folder that c has not marked.
Loose(c) == {n \in DOMAIN folder : n.client = c /\ n \notin applied[c]}

\* What c does with such a file n before it can be overwritten.  start() does not take it
\* for a first start, the pass of sync() has it to read or the clock has been shown its
\* timestamp, and a changeset is only named after that.
Watched(c, n) ==
  /\ n \in seen[c] \ torn[c]
  /\ n.ver <= version[c]
  /\ pc[c] # "snapshot"
  /\ pc[c] \in {"idle", "publish", "own"} => n.hlc <= clock[c]
  /\ pc[c] \in {"first", "retry"} => n \in todo[c] \/ n.hlc <= clock[c]
  /\ pc[c] = "publish" => n.hlc < out[c].name.hlc

Own(c) == \A n \in Loose(c) : Watched(c, n)

OwnInv == NumberedInv /\ \A c \in Client : Own(c)

\* A step of c that is in the event loop or in a pass, or leaves it, and whose clock does
\* not go back.
LEMMA KeptWatched ==
  ASSUME TypeInv, NEW c \in Client, NEW n \in Loose(c), Watched(c, n),
         n \in seen'[c] \ torn'[c], version'[c] \in Nat, version'[c] >= version[c],
         clock'[c] \in Nat, clock'[c] >= clock[c],
         \/ pc'[c] \in {"down", "stopped", "list", "ownSnapshot"}
         \/ /\ pc'[c] \in {"idle", "own"}
            /\ pc[c] \in {"idle", "own", "publish"}
         \/ /\ pc'[c] \in {"first", "retry"} /\ pc[c] \in {"first", "retry"}
            /\ n \in todo[c] => n \in todo'[c] \/ n.hlc <= clock'[c]
  PROVE  Watched(c, n)'
  <1>1. n.hlc \in Nat /\ n.ver \in Nat /\ version[c] \in Nat /\ clock[c] \in Nat
        BY SyncEngineAssumption DEF TypeInv, TypeOK, Name, Loose
  <1> QED BY <1>1 DEF Watched

LEMMA ProcessOwn ==
  ASSUME TypeInv, TypeInv', OwnInv, HasRoom, HasRoom', NEW c \in Client, Process(c)
  PROVE  Own(c)' /\ UNCHANGED folder
  <1>0. /\ DOMAIN pc = Client /\ clock[c] \in Nat /\ version[c] \in Nat /\ Own(c)
        /\ clock'[c] \in Nat /\ version'[c] \in Nat
        BY SyncEngineAssumption DEF TypeInv, TypeOK, OwnInv
  <1>1. CASE Construct(c) \/ Stop(c) \/ End(c) \/ StartWithoutSnapshot(c)
        <2>1. /\ UNCHANGED <<folder, applied, seen, torn, version>>
              /\ \E p \in {"down", "stopped", "list"} : pc' = [pc EXCEPT ![c] = p]
              BY <1>1 DEF Construct, Stop, End, StartWithoutSnapshot, durable, shared
        <2>2. pc'[c] \in {"down", "stopped", "list"}
              BY <1>0, <2>1
        <2> QED BY <1>0, <2>1, <2>2 DEF Own, Watched, Loose
  <1>2. CASE StartWithSnapshot(c)
        <2>1. \A n \in seen[c] : n.client # c
              BY <1>2 DEF StartWithSnapshot, NeedsSnapshot, LooksForRows
        <2>2. UNCHANGED <<folder, applied>>
              BY <1>2, NumberingStep DEF Numbering
        <2>3. Loose(c) = {}
              BY <1>0, <2>1 DEF Own, Watched, Loose
        <2> QED BY <2>2, <2>3 DEF Own, Loose
  <1> QED BY <1>1, <1>2 DEF Process

LEMMA ApplicationOwn ==
  ASSUME TypeInv, TypeInv', OwnInv, HasRoom, HasRoom', NEW c \in Client,
         Application(c) \/ FlushDropped(c) \/ FlushEmpty(c) \/ Flush(c)
  PROVE  Own(c)' /\ UNCHANGED folder
  <1>0. /\ clock[c] \in Nat /\ version[c] \in Nat /\ Own(c) /\ clock'[c] \in Nat
        /\ version'[c] \in Nat /\ DOMAIN version = Client
        BY SyncEngineAssumption DEF TypeInv, TypeOK, OwnInv
  <1>1. CASE EndWrite(c) \/ Flush(c)
        <2>1. UNCHANGED <<folder, applied, seen, torn, version>>
              BY <1>1, NumberingStep DEF Numbering
        <2>2. pc[c] = "idle"
              BY <1>1 DEF EndWrite, Flush, Ready
        <2>3. clock'[c] > clock[c] /\ out'[c].name.hlc = clock'[c] /\ pc'[c] = "publish"
              <3>1. /\ clock'[c] > clock[c] /\ out'[c].name = NextName(c, clock'[c])
                    /\ \/ StartWithSnapshot(c) /\ pc'[c] = "snapshot"
                       \/ ~StartWithSnapshot(c) /\ pc[c] = "idle" /\ pc'[c] = "publish"
                    BY <1>1, NumberingStep DEF Numbering
              <3> QED BY <2>2, <3>1 DEF StartWithSnapshot, NextName
        <2>4. \A n \in Loose(c) : n.hlc \in Nat /\ n.hlc <= clock[c] /\ n \in seen[c] \ torn[c]
                                  /\ n.ver <= version[c]
              BY <1>0, <2>2 DEF Own, Watched, Loose, TypeInv, TypeOK, Name
        <2> QED BY <1>0, <2>1, <2>3, <2>4 DEF Own, Watched, Loose
  <1>2. CASE \/ BeginWrite(c) \/ EndWriteEmpty(c) \/ FlushEmpty(c)
             \/ Exec(c) \/ CreateTable(c) \/ FlushDropped(c)
        <2>1. UNCHANGED <<folder, applied, seen, torn, version, clock, pc, out, todo>>
              BY <1>2 DEF BeginWrite, EndWriteEmpty, FlushEmpty, Exec, CreateTable,
                          FlushDropped, durable, shared, syncing
        <2> QED BY <1>0, <2>1 DEF Own, Watched, Loose
  <1>3. CASE SetSchemaVersion(c)
        <2>1. /\ UNCHANGED <<folder, applied, seen, torn, clock, pc>>
              /\ pc[c] \in {"idle", "stopped"} /\ version' = [version EXCEPT ![c] = @ + 1]
              BY <1>3 DEF SetSchemaVersion, durable, shared
        <2>2. version'[c] >= version[c]
              BY <1>0, <2>1
        <2>3. \A n \in Loose(c) : Watched(c, n)'
              BY <1>0, <2>1, <2>2, KeptWatched DEF Own, Watched
        <2> QED BY <2>1, <2>3 DEF Own, Loose
  <1> QED BY <1>1, <1>2, <1>3 DEF Application

LooseKept ==
  \A n \in DOMAIN folder : n \notin applied[n.client] =>
    n \in DOMAIN folder' /\ folder'[n] = folder[n]

\* Writing a file overwrites none that is loose, and the file is then the clock's.
LEMMA PublishOwn ==
  ASSUME TypeInv, TypeInv', OwnInv, NEW c \in Client, Publish(c)
  PROVE  /\ Own(c)'
         /\ LooseKept
         /\ DOMAIN folder' = DOMAIN folder \cup {out[c].name}
  <1> DEFINE N == out[c].name
  <1>0. /\ clock[c] \in Nat /\ version[c] \in Nat /\ Own(c) /\ DOMAIN pc = Client
        /\ DOMAIN seen = Client /\ Numbered(c)
        BY SyncEngineAssumption DEF TypeInv, TypeOK, Places, OwnInv, NumberedInv
  <1>1. /\ pc[c] \in {"publish", "snapshot"}
        /\ folder' = [m \in DOMAIN folder \cup {N} |->
                         IF m = N THEN out[c].content ELSE folder[m]]
        /\ UNCHANGED <<applied, torn, version, clock>>
        /\ N \in seen'[c] /\ seen[c] \subseteq seen'[c]
        /\ pc'[c] \in {"own", "ownSnapshot"}
        /\ pc[c] = "publish" <=> pc'[c] = "own"
        BY <1>0 DEF Publish, durable
  <1>2. N.client = c /\ N.ver <= version[c] /\ N.hlc <= clock[c]
        BY <1>0, <1>1 DEF Numbered, Busy
  <1>3. \A n \in Loose(c) : n \in seen[c] \ torn[c] /\ n.ver <= version[c] /\ pc[c] = "publish"
                            /\ n.hlc <= clock[c] /\ n.hlc < N.hlc
        BY <1>0, <1>1 DEF Own, Watched
  <1>4. N \notin Loose(c)
        <2>1. N \in Name /\ N.hlc \in Nat
              BY <1>1 DEF TypeInv, TypeOK, Name
        <2> QED BY <1>3, <2>1
  <1>5. N \in DOMAIN folder => N \in applied[c]
        BY <1>2, <1>4 DEF Loose
  <1>6. torn[c] \subseteq DOMAIN folder
        BY DEF TypeInv, TypeOK
  <1>7. Loose(c)' \subseteq Loose(c) \cup {N}
        BY <1>1 DEF Loose
  <1>8. N \in Loose(c)' => N \notin torn[c]
        BY <1>1, <1>5, <1>6 DEF Loose
  <1>9. Own(c)'
        <2>1. SUFFICES ASSUME NEW n \in Loose(c)' PROVE Watched(c, n)'
              BY DEF Own
        <2>2. CASE n = N
              BY <1>1, <1>2, <1>8, <2>1, <2>2 DEF Watched
        <2>3. CASE n \in Loose(c)
              BY <1>1, <1>3, <2>3 DEF Watched
        <2> QED BY <1>7, <2>1, <2>2, <2>3
  <1>10. \A n \in DOMAIN folder : n \notin applied[n.client] => n # N
        BY <1>2, <1>5
  <1> QED BY <1>1, <1>9, <1>10 DEF LooseKept

LEMMA MarkingOwn ==
  ASSUME TypeInv, TypeInv', OwnInv, NEW c \in Client, PublishFails(c) \/ MarkOwn(c)
  PROVE  Own(c)' /\ UNCHANGED folder
  <1>0. /\ clock[c] \in Nat /\ version[c] \in Nat /\ Own(c) /\ DOMAIN pc = Client
        /\ DOMAIN applied = Client
        BY SyncEngineAssumption DEF TypeInv, TypeOK, Places, OwnInv
  <1>1. /\ UNCHANGED <<folder, seen, torn, version, clock>>
        /\ applied[c] \subseteq applied'[c]
        BY <1>0 DEF PublishFails, MarkOwn, durable, shared
  <1>2. \/ pc[c] \in {"publish", "own"} /\ pc'[c] = "idle"
        \/ pc'[c] = "list"
        BY <1>0 DEF PublishFails, MarkOwn, AfterPublish
  <1>3. Loose(c)' \subseteq Loose(c)
        BY <1>1 DEF Loose
  <1>4. \A n \in Loose(c) : Watched(c, n)'
        BY <1>0, <1>1, <1>2, KeptWatched DEF Own, Watched
  <1> QED BY <1>1, <1>3, <1>4 DEF Own

LEMMA SyncingOwn ==
  ASSUME TypeInv, TypeInv', OwnInv, HasRoom, NEW c \in Client, Syncing(c)
  PROVE  Own(c)' /\ UNCHANGED folder
  <1>0. /\ clock[c] \in Nat /\ version[c] \in Nat /\ Own(c) /\ DOMAIN pc = Client
        /\ DOMAIN todo = Client /\ DOMAIN applied = Client /\ DOMAIN clock = Client
        /\ FilesRoomy
        /\ \A n \in Loose(c) : n \in Name /\ n.hlc \in Nat /\ n.ver \in Nat
        BY SyncEngineAssumption DEF TypeInv, TypeOK, Places, OwnInv, NumberedInv, Loose, Name
  <1>1. CASE SyncStart(c)
        <2>1. /\ UNCHANGED <<folder, applied, seen, torn, version, clock>>
              /\ todo'[c] = Pending(c)
              /\ pc'[c] = IF Pending(c) = {} THEN "idle" ELSE "first"
              BY <1>0, <1>1 DEF SyncStart, durable, shared
        <2>2. Loose(c) \subseteq Pending(c)
              BY <1>0 DEF Own, Watched, Loose, Pending
        <2>3. \A n \in Loose(c) : Watched(c, n)'
              BY <1>0, <2>1, <2>2 DEF Own, Watched
        <2> QED BY <2>1, <2>3 DEF Own, Loose
  <1>2. CASE EndPass(c)
        <2>1. /\ UNCHANGED <<folder, applied, seen, torn, version, clock>>
              /\ pc[c] \in {"first", "retry"} /\ todo[c] = {}
              /\ pc'[c] \in {"idle", "retry"}
              BY <1>0, <1>2 DEF EndPass, InPass, durable, shared
        <2>2. \A n \in Loose(c) : Watched(c, n)'
              BY <1>0, <2>1 DEF Own, Watched
        <2> QED BY <2>1, <2>2 DEF Own, Loose
  <1>3. CASE RejectVersion(c)
        <2>1. PICK n \in Earliest(todo[c]) : /\ ~Accepts(c, n)
                                             /\ todo' = [todo EXCEPT ![c] = @ \ {n}]
              BY <1>3 DEF RejectVersion
        <2>2. /\ UNCHANGED <<folder, applied, seen, torn, version, clock, pc>>
              /\ pc[c] \in {"first", "retry"}
              BY <1>3 DEF RejectVersion, InPass, durable, shared
        <2>3. n \notin Loose(c) /\ todo'[c] = todo[c] \ {n}
              BY <1>0, <2>1 DEF Own, Watched, Accepts
        <2>4. \A m \in Loose(c) : Watched(c, m)'
              BY <1>0, <2>2, <2>3 DEF Own, Watched
        <2> QED BY <2>2, <2>4 DEF Own, Loose
  <1>4. CASE Unreadable(c)
        <2>1. PICK n \in Earliest(todo[c]) \cap torn[c] :
                /\ todo' = [todo EXCEPT ![c] = @ \ {n}]
                /\ \/ UNCHANGED clock
                   \/ \E w \in Wall : clock' = [clock EXCEPT ![c] = Receive(@, n.hlc, w)]
              BY <1>4 DEF Unreadable
        <2>2. /\ UNCHANGED <<folder, applied, seen, torn, version, pc>>
              /\ pc[c] \in {"first", "retry"}
              BY <1>4 DEF Unreadable, InPass, durable, shared
        <2>3. n \notin Loose(c) /\ todo'[c] = todo[c] \ {n}
              BY <1>0, <2>1 DEF Own, Watched
        <2>4. clock'[c] \in Nat /\ clock'[c] >= clock[c]
              BY <1>0, <2>1, ShownAbove DEF OwnInv, NumberedInv
        <2>5. \A m \in Loose(c) : Watched(c, m)'
              BY <1>0, <2>2, <2>3, <2>4, KeptWatched DEF Own, Watched
        <2> QED BY <2>2, <2>5 DEF Own, Loose
  <1>5. CASE Apply(c)
        <2>1. PICK n \in Earliest(todo[c]), w \in Wall, stampsFirst \in BOOLEAN :
                ApplyFile(c, n, w, stampsFirst)
              BY <1>5 DEF Apply
        <2>2. /\ UNCHANGED <<folder, seen, torn, version, pc>>
              /\ pc[c] \in {"first", "retry"}
              BY <1>5 DEF Apply, InPass, shared
        <2>3. /\ todo'[c] = todo[c] \ {n} /\ clock'[c] = Receive(clock[c], n.hlc, w)
              /\ applied[c] \subseteq applied'[c]
              BY <1>0, <2>1 DEF ApplyFile
        <2>4. clock'[c] \in Nat /\ clock'[c] > clock[c] /\ clock'[c] > n.hlc
              BY <2>3, ShownAbove DEF OwnInv, NumberedInv
        <2>5. \A m \in Loose(c) : Watched(c, m)'
              <3>1. TAKE m \in Loose(c)
              <3>2. m \in todo[c] => m \in todo'[c] \/ m.hlc <= clock'[c]
                    BY <1>0, <2>3, <2>4
              <3> QED BY <1>0, <2>2, <2>4, <3>2, KeptWatched DEF Own, Watched
        <2> QED BY <2>2, <2>3, <2>5 DEF Own, Loose
  <1>6. CASE Mark(c)
        <2>1. /\ UNCHANGED <<folder, seen, torn, version, clock, pc, out, todo>>
              /\ applied[c] \subseteq applied'[c]
              BY <1>0, <1>6 DEF Mark, shared
        <2> QED BY <1>0, <2>1 DEF Own, Watched, Loose
  <1> QED BY <1>1, <1>2, <1>3, <1>4, <1>5, <1>6 DEF Syncing

LEMMA DeliveryOwn ==
  ASSUME TypeInv, TypeInv', OwnInv, NEW c \in Client, Delivery(c)
  PROVE  Own(c)' /\ UNCHANGED folder
  <1>0. Own(c) /\ DOMAIN seen = Client /\ DOMAIN torn = Client
        BY DEF TypeInv, TypeOK, Places, OwnInv
  <1>1. UNCHANGED <<folder, applied, version, clock, pc, out, todo>>
        BY DEF Delivery, Deliver, DeliverRest, durable, syncing
  <1>2. \A n \in seen[c] \ torn[c] : n \in seen'[c] \ torn'[c]
        BY <1>0 DEF Delivery, Deliver, DeliverRest
  <1> QED BY <1>0, <1>1, <1>2 DEF Own, Watched, Loose

\* What is c's own is disturbed by no other client.
LEMMA OthersOwn ==
  ASSUME TypeInv, TypeInv', OwnInv, NEW c \in Client, Alone(c),
         NEW d \in Client \ {c},
         \/ UNCHANGED folder
         \/ /\ DOMAIN folder' = DOMAIN folder \cup {out[c].name} /\ out[c].name.client = c
  PROVE  Own(d)'
  <1>1. Self(d)' = Self(d) /\ seen[d] \subseteq seen'[d] /\ Own(d)
        BY DEF Alone, OwnInv
  <1>2. Loose(d)' = Loose(d)
        BY <1>1 DEF Self, Loose
  <1> QED BY <1>1, <1>2 DEF Own, Watched, Self

\* Every step, and the clients that it does not concern.
LEMMA StepOwn ==
  ASSUME TypeInv, TypeInv', OwnInv, HasRoom, HasRoom', Next
  PROVE  OwnInv' /\ LooseKept
  <1>1. NumberedInv'
        BY NextNumbered DEF OwnInv
  <1>2. PICK c \in Client : \/ Process(c) \/ Application(c) \/ Publishing(c)
                            \/ Syncing(c) \/ Delivery(c)
        BY DEF Next
  <1>3. Alone(c)
        BY <1>2, StepAlone
  <1>4. CASE Publish(c)
        <2>1. out[c].name.client = c
              BY <1>4 DEF Publish, OwnInv, NumberedInv, Numbered, Busy
        <2> QED BY <1>1, <1>3, <1>4, <2>1, PublishOwn, OthersOwn DEF OwnInv
  <1>5. CASE ~Publish(c)
        <2>1. Own(c)' /\ UNCHANGED folder
              BY <1>2, <1>5, ProcessOwn, ApplicationOwn, MarkingOwn, SyncingOwn,
                 DeliveryOwn DEF Publishing
        <2> QED BY <1>1, <1>3, <2>1, OthersOwn DEF OwnInv, LooseKept
  <1> QED BY <1>4, <1>5

\* A file that is not marked is not written over, while no clock nears its last reading,
\* whatever fails and however often clients end and start again.
THEOREM UnmarkedFilesAreKept == Spec /\ []HasRoom => UnmarkedIsKept
  <1>1. Init => OwnInv
        BY DEF Init, OwnInv, NumberedInv, FilesRoomy, Numbered, Own, Loose, Busy
  <1>2. TypeInv /\ TypeInv' /\ OwnInv /\ HasRoom /\ HasRoom' /\ [Next]_vars =>
          OwnInv' /\ [LooseKept]_vars
        <2>1. CASE UNCHANGED vars
              BY <2>1 DEF vars, OwnInv, NumberedInv, FilesRoomy, Numbered, Own, Watched, Loose
        <2> QED BY <2>1, StepOwn
  <1>3. TypeInv /\ [Next]_vars => TypeInv'
        BY NextTypes
  <1> QED BY <1>1, <1>2, <1>3, InitTypes, PTL DEF Spec, UnmarkedIsKept, LooseKept

-----------------------------------------------------------------------------------
(***************************************************************************)
(* What a process records stays under its clock, whatever an earlier       *)
(* process has left in its database.  It records names and timestamps of   *)
(* files, which the clock is shown, and the marks and timestamps that are  *)
(* in a file.  These are no newer than the name of the file: a session     *)
(* ends with its process, so it has captured nothing that an earlier       *)
(* process has recorded.                                                   *)
(***************************************************************************)

\* No mark and no timestamp of a row in content is newer than h.
Low(h, content) ==
  /\ \A n \in content.marks : n.hlc <= h
  /\ \A k \in DOMAIN content.stamps : content.stamps[k].new <= h

FilesLow == \A n \in DOMAIN folder : Low(n.hlc, folder[n])

\* What the session of c has seen recorded.
SessionLow(c) ==
  base[c] # None =>
    /\ pc[c] # "down"
    /\ \A n \in applied[c] \ base[c].applied : n.hlc <= clock[c]
    /\ \A k \in Key : rowHlc[c][k] # base[c].rowHlc[k] => rowHlc[c][k] <= clock[c]

Under(c) ==
  /\ cur[c] # None => cur[c].hlc <= clock[c]
  /\ SessionLow(c)
  /\ pc[c] \in Busy => Low(out[c].name.hlc, out[c].content)

UnderInv == NumberedInv /\ FilesLow /\ \A c \in Client : Under(c)

\* What RecordsUnderClock says of one client.
RecordsLow(c) ==
  pc[c] # "down" /\ pc'[c] # "down" =>
    /\ clock'[c] >= clock[c]
    /\ \A n \in applied'[c] \ applied[c] : n.hlc <= clock'[c]
    /\ \A k \in Key : rowHlc'[c][k] # rowHlc[c][k] => rowHlc'[c][k] <= clock'[c]

\* The types that the steps below use.
LEMMA UnderTypes ==
  ASSUME TypeInv, UnderInv, NEW c \in Client
  PROVE  /\ DOMAIN pc = Client /\ DOMAIN applied = Client /\ DOMAIN cur = Client
         /\ DOMAIN base = Client /\ DOMAIN clock = Client /\ DOMAIN rowHlc = Client
         /\ clock[c] \in Nat /\ Under(c)
         /\ rowHlc[c] \in [Key -> Nat] /\ \A n \in applied[c] : n.hlc \in Nat
         /\ cur[c] # None => pc[c] \in {"first", "retry"} /\ cur[c].hlc \in Nat
  <1>1. cur[c] # None => cur[c] \in Name
        BY DEF TypeInv, TypeOK
  <1> QED BY <1>1 DEF UnderInv, TypeInv, TypeOK, Places, Name

\* A step of a process that goes on, and whose session goes on, ends or begins.
LEMMA KeptUnder ==
  ASSUME TypeInv, UnderInv, NEW c \in Client,
         clock'[c] \in Nat, clock'[c] >= clock[c], pc'[c] # "down",
         \A n \in applied'[c] \ applied[c] : n.hlc <= clock'[c],
         \A k \in Key : rowHlc'[c][k] # rowHlc[c][k] => rowHlc'[c][k] <= clock'[c],
         cur'[c] \in {cur[c], None} \/ cur'[c].hlc <= clock'[c],
         \/ base'[c] \in {base[c], None}
         \/ base'[c].rowHlc = rowHlc'[c] /\ base'[c].applied = applied'[c],
         pc'[c] \in Busy => Low(out'[c].name.hlc, out'[c].content)
  PROVE  Under(c)' /\ RecordsLow(c)
  <1>1. /\ clock[c] \in Nat /\ rowHlc[c] \in [Key -> Nat] /\ \A n \in applied[c] : n.hlc \in Nat
        /\ cur[c] # None => cur[c].hlc \in Nat /\ cur[c].hlc <= clock[c]
        /\ SessionLow(c)
        BY UnderTypes DEF Under
  <1>2. SessionLow(c)'
        <2>1. CASE base'[c] = None
              BY <2>1 DEF SessionLow
        <2>2. CASE base'[c].rowHlc = rowHlc'[c] /\ base'[c].applied = applied'[c]
              BY <2>2 DEF SessionLow
        <2>3. CASE base'[c] = base[c] /\ base[c] # None
              <3>1. ASSUME NEW n \in applied'[c] \ base'[c].applied PROVE n.hlc <= clock'[c]
                    <4>1. CASE n \in applied[c]
                          BY <1>1, <2>3, <3>1, <4>1 DEF SessionLow
                    <4> QED BY <3>1, <4>1
              <3>2. ASSUME NEW k \in Key, rowHlc'[c][k] # base'[c].rowHlc[k]
                    PROVE  rowHlc'[c][k] <= clock'[c]
                    <4>1. CASE rowHlc'[c][k] = rowHlc[c][k]
                          <5>1. rowHlc[c][k] <= clock[c] /\ rowHlc[c][k] \in Nat
                                BY <1>1, <2>3, <3>2, <4>1 DEF SessionLow
                          <5> QED BY <1>1, <4>1, <5>1
                    <4> QED BY <3>2, <4>1
              <3> QED BY <3>1, <3>2 DEF SessionLow
        <2> QED BY <2>1, <2>2, <2>3
  <1>3. cur'[c] # None => cur'[c].hlc <= clock'[c]
        BY <1>1
  <1> QED BY <1>2, <1>3 DEF Under, RecordsLow

LEMMA ProcessUnder ==
  ASSUME TypeInv, UnderInv, NEW c \in Client,
         Construct(c) \/ StartWithoutSnapshot(c) \/ Stop(c) \/ End(c)
  PROVE  Under(c)' /\ RecordsLow(c)
  <1>1. CASE Construct(c)
        <2>1. base[c] = None /\ cur[c] = None /\ pc[c] = "down"
              BY <1>1, UnderTypes DEF Construct, Under, SessionLow
        <2>2. UNCHANGED <<base, cur>> /\ pc'[c] = "stopped"
              BY <1>1, UnderTypes DEF Construct, session, syncing
        <2> QED BY <2>1, <2>2 DEF Under, SessionLow, RecordsLow, Busy
  <1>2. CASE End(c)
        BY <1>2, UnderTypes DEF End, Under, SessionLow, RecordsLow, Busy
  <1>3. CASE StartWithoutSnapshot(c) \/ Stop(c)
        <2>1. /\ UNCHANGED <<rowHlc, applied, clock, cur>> /\ pc'[c] \in {"list", "stopped"}
              /\ base'[c] = None \/ base'[c] = Here(c)
              BY <1>3, UnderTypes DEF StartWithoutSnapshot, Stop, InstallHook, durable, syncing
        <2>2. \/ base'[c] = None
              \/ base'[c].rowHlc = rowHlc'[c] /\ base'[c].applied = applied'[c]
              BY <2>1 DEF Here
        <2> QED BY <2>1, <2>2, UnderTypes, KeptUnder DEF Busy
  <1> QED BY <1>1, <1>2, <1>3

LEMMA ApplicationUnder ==
  ASSUME TypeInv, UnderInv, NEW c \in Client,
         \/ BeginWrite(c) \/ EndWriteEmpty(c) \/ FlushEmpty(c)
         \/ Exec(c) \/ CreateTable(c) \/ SetSchemaVersion(c) \/ FlushDropped(c)
  PROVE  Under(c)' /\ RecordsLow(c)
  <1>1. /\ UNCHANGED <<rowHlc, applied, clock, cur, pc>>
        /\ pc[c] \in {"idle", "stopped"}
        BY DEF BeginWrite, EndWriteEmpty, FlushEmpty, Exec, CreateTable, SetSchemaVersion,
               FlushDropped, Ready, durable, syncing
  <1>2. \/ UNCHANGED base
        \/ \E b : /\ base' = [base EXCEPT ![c] = b]
                  /\ b = None \/ (b.rowHlc = rowHlc[c] /\ b.applied = applied[c])
        BY DEF BeginWrite, EndWriteEmpty, FlushEmpty, Exec, CreateTable, SetSchemaVersion,
               FlushDropped, Reopen, Here, session
  <1>3. \/ base'[c] \in {base[c], None}
        \/ base'[c].rowHlc = rowHlc'[c] /\ base'[c].applied = applied'[c]
        BY <1>1, <1>2, UnderTypes
  <1> QED BY <1>1, <1>3, UnderTypes, KeptUnder DEF Busy

LEMMA NumberingUnder ==
  ASSUME TypeInv, UnderInv, HasRoom, HasRoom', NEW c \in Client, Numbering(c)
  PROVE  Under(c)' /\ RecordsLow(c)
  <1>1. /\ clock'[c] \in Nat /\ clock'[c] > clock[c]
        /\ out'[c].name = NextName(c, clock'[c])
        /\ out'[c].content \in {Snapshot(db[c]), Captured(c)}
        /\ \A k \in Key : rowHlc'[c][k] \in {rowHlc[c][k], clock'[c]}
        /\ UNCHANGED <<applied, cur>> /\ pc'[c] # "down"
        BY NumberingStep
  <1>2. /\ clock[c] \in Nat /\ rowHlc[c] \in [Key -> Nat] /\ \A n \in applied[c] : n.hlc \in Nat
        /\ SessionLow(c)
        BY UnderTypes DEF Under
  <1>3. base'[c] = None \/ (StartWithSnapshot(c) /\ c \in AutoCapture /\ base'[c] = Here(c))
        BY UnderTypes DEF Numbering, StartWithSnapshot, EndWrite, Flush, InstallHook
  <1>4. Low(clock'[c], Snapshot(db[c]))
        BY DEF Snapshot, Low
  <1>5. Low(clock'[c], Captured(c))
        <2>1. \A n \in Captured(c).marks : n.hlc <= clock'[c]
              BY <1>1, <1>2 DEF Captured, Capture, SessionLow
        <2>2. \A k \in DOMAIN Captured(c).stamps : Captured(c).stamps[k].new <= clock'[c]
              BY <1>1, <1>2 DEF Captured, Capture, SessionLow
        <2> QED BY <2>1, <2>2 DEF Low
  <1>6. Low(out'[c].name.hlc, out'[c].content)
        BY <1>1, <1>4, <1>5 DEF NextName
  <1>7. SessionLow(c)'
        BY <1>1, <1>2, <1>3 DEF SessionLow, Here
  <1>8. cur'[c] # None => cur'[c].hlc <= clock'[c]
        BY <1>1, <1>2, UnderTypes DEF Under
  <1>9. RecordsLow(c)
        BY <1>1, <1>2 DEF RecordsLow
  <1> QED BY <1>6, <1>7, <1>8, <1>9 DEF Under

LEMMA PublishingUnder ==
  ASSUME TypeInv, UnderInv, NEW c \in Client, Publish(c) \/ PublishFails(c) \/ MarkOwn(c)
  PROVE  Under(c)' /\ RecordsLow(c) /\ FilesLow'
  <1>0. Numbered(c) /\ FilesLow
        BY DEF UnderInv, NumberedInv
  <1>1. pc[c] \in Busy
        BY DEF Publish, PublishFails, MarkOwn, Busy
  <1>2. CASE Publish(c)
        <2>1. /\ UNCHANGED <<rowHlc, applied, clock, base, cur, out>>
              /\ folder' = [m \in DOMAIN folder \cup {out[c].name} |->
                              IF m = out[c].name THEN out[c].content ELSE folder[m]]
              /\ pc'[c] \in Busy
              BY <1>2, UnderTypes DEF Publish, durable, session, syncing, Busy
        <2>2. Low(out[c].name.hlc, out[c].content)
              BY <1>1, UnderTypes DEF Under
        <2>3. FilesLow'
              BY <1>0, <2>1, <2>2 DEF FilesLow
        <2> QED BY <2>1, <2>2, <2>3, UnderTypes, KeptUnder DEF Busy
  <1>3. CASE PublishFails(c) \/ MarkOwn(c)
        <2>1. /\ UNCHANGED <<rowHlc, clock, cur, folder>> /\ pc'[c] \in {"list", "idle"}
              /\ applied'[c] \in {applied[c], applied[c] \cup {out[c].name}}
              BY <1>3, UnderTypes DEF PublishFails, MarkOwn, AfterPublish, durable, syncing, shared
        <2>2. \/ base'[c] \in {base[c], None}
              \/ base'[c] = [Here(c) EXCEPT !.applied = applied'[c]]
              BY <1>3, UnderTypes DEF PublishFails, MarkOwn, AfterPublish, Reopen, durable
        <2>3. \/ base'[c] \in {base[c], None}
              \/ base'[c].rowHlc = rowHlc'[c] /\ base'[c].applied = applied'[c]
              BY <2>1, <2>2 DEF Here
        <2>4. \A n \in applied'[c] \ applied[c] : n.hlc <= clock'[c]
              BY <1>0, <1>1, <2>1 DEF Numbered
        <2> QED BY <1>0, <2>1, <2>3, <2>4, UnderTypes, KeptUnder DEF FilesLow, Busy
  <1> QED BY <1>2, <1>3

LEMMA ApplyUnder ==
  ASSUME TypeInv, UnderInv, HasRoom, NEW c \in Client, Apply(c)
  PROVE  Under(c)' /\ RecordsLow(c)
  <1>0. FilesRoomy /\ FilesLow
        BY DEF UnderInv, NumberedInv
  <1>1. PICK n \in Earliest(todo[c]), w \in Wall, stampsFirst \in BOOLEAN :
          ApplyFile(c, n, w, stampsFirst)
        BY DEF Apply
  <1>2. UNCHANGED <<base, pc>> /\ pc[c] \in {"first", "retry"}
        BY DEF Apply, InPass
  <1>3. /\ clock'[c] = Receive(clock[c], n.hlc, w)
        /\ rowHlc'[c] = Applied(folder[n], n, c, db[c], rowHlc[c], tables[c], stampsFirst).rowHlc
        /\ applied'[c] = applied[c] \cup folder[n].marks
        /\ cur'[c] \in {n, None}
        BY <1>1, UnderTypes DEF ApplyFile
  <1>4. clock'[c] \in Nat /\ clock'[c] > clock[c] /\ clock'[c] > n.hlc
        BY <1>0, <1>3, ShownAbove
  <1>5. n \in DOMAIN folder /\ n.hlc \in Nat /\ GoodContent(folder[n]) /\ Low(n.hlc, folder[n])
        BY <1>0, TakenTypes DEF TypeInv, TypeOK, FilesLow
  <1>6. \A m \in applied'[c] \ applied[c] : m.hlc <= clock'[c]
        <2>1. \A m \in folder[n].marks : m.hlc \in Nat /\ m.hlc <= n.hlc
              BY <1>5 DEF Low, GoodContent, Name
        <2> QED BY <1>3, <1>4, <1>5, <2>1
  <1>7. \A k \in Key : rowHlc'[c][k] # rowHlc[c][k] => rowHlc'[c][k] <= clock'[c]
        <2> TAKE k \in Key
        <2>1. rowHlc'[c][k] \in {rowHlc[c][k], n.hlc}
                \/ (k \in DOMAIN folder[n].stamps /\ rowHlc'[c][k] = folder[n].stamps[k].new)
              BY <1>3 DEF Applied, AddStamps, Resolve
        <2>2. k \in DOMAIN folder[n].stamps =>
                folder[n].stamps[k].new \in Nat /\ folder[n].stamps[k].new <= n.hlc
              BY <1>5 DEF Low, GoodContent
        <2> QED BY <1>4, <1>5, <2>1, <2>2
  <1>8. cur'[c] \in {cur[c], None} \/ cur'[c].hlc <= clock'[c]
        BY <1>3, <1>4, <1>5
  <1>9. pc'[c] \notin Busy /\ pc'[c] # "down" /\ base'[c] = base[c] /\ clock'[c] >= clock[c]
        BY <1>2, <1>4, UnderTypes DEF Busy
  <1> QED BY <1>4, <1>6, <1>7, <1>8, <1>9, KeptUnder

LEMMA SyncingUnder ==
  ASSUME TypeInv, UnderInv, HasRoom, NEW c \in Client, Syncing(c)
  PROVE  Under(c)' /\ RecordsLow(c)
  <1>1. CASE SyncStart(c) \/ EndPass(c) \/ RejectVersion(c)
        <2>1. /\ UNCHANGED <<rowHlc, applied, clock, base, cur>>
              /\ pc'[c] \in {"first", "retry", "idle"}
              BY <1>1, UnderTypes DEF SyncStart, EndPass, RejectVersion, InPass, durable,
                                      session
        <2> QED BY <2>1, UnderTypes, KeptUnder DEF Busy
  <1>2. CASE Unreadable(c)
        <2>1. PICK n \in Earliest(todo[c]) \cap torn[c] :
                \/ UNCHANGED clock
                \/ \E w \in Wall : clock' = [clock EXCEPT ![c] = Receive(@, n.hlc, w)]
              BY <1>2 DEF Unreadable
        <2>2. /\ UNCHANGED <<rowHlc, applied, base, cur, pc>> /\ pc[c] \in {"first", "retry"}
              BY <1>2 DEF Unreadable, InPass, durable, session
        <2>3. clock'[c] \in Nat /\ clock'[c] >= clock[c]
              BY <2>1, UnderTypes, ShownAbove DEF UnderInv, NumberedInv
        <2> QED BY <2>2, <2>3, UnderTypes, KeptUnder DEF Busy
  <1>3. CASE Mark(c)
        <2>1. /\ UNCHANGED <<rowHlc, clock, base, pc>>
              /\ applied'[c] = applied[c] \cup {cur[c]} /\ cur'[c] = None /\ cur[c] # None
              BY <1>3, UnderTypes DEF Mark
        <2>2. pc[c] \in {"first", "retry"} /\ cur[c].hlc <= clock[c]
              BY <2>1, UnderTypes DEF Under
        <2> QED BY <2>1, <2>2, UnderTypes, KeptUnder DEF Busy
  <1> QED BY <1>1, <1>2, <1>3, ApplyUnder DEF Syncing

\* Every step, and the clients that it does not concern.
LEMMA StepUnder ==
  ASSUME TypeInv, UnderInv, HasRoom, HasRoom', Next
  PROVE  FilesLow' /\ \A c \in Client : Under(c)' /\ RecordsLow(c)
  <1>1. PICK c \in Client : \/ Process(c) \/ Application(c) \/ Publishing(c)
                            \/ Syncing(c) \/ Delivery(c)
        BY DEF Next
  <1>2. ASSUME NEW d \in Client \ {c} PROVE Under(d)' /\ RecordsLow(d)
        <2>1. Self(d)' = Self(d)
              BY <1>1, StepAlone DEF Alone
        <2>2. Under(d) /\ clock[d] \in Nat
              BY UnderTypes
        <2> QED BY <2>1, <2>2 DEF Self, Under, SessionLow, RecordsLow
  <1>3. CASE Publish(c) \/ PublishFails(c) \/ MarkOwn(c)
        BY <1>2, <1>3, PublishingUnder
  <1>4. CASE Delivery(c)
        <2>1. UNCHANGED <<rowHlc, applied, clock, base, cur, pc, out, folder>>
              BY <1>4 DEF Delivery, Deliver, DeliverRest, durable, session, syncing
        <2> QED BY <1>2, <2>1, UnderTypes DEF UnderInv, FilesLow, Under, SessionLow, RecordsLow
  <1>5. CASE Unpublishing(c) /\ ~(PublishFails(c) \/ MarkOwn(c))
        <2>1. Under(c)' /\ RecordsLow(c)
              BY <1>5, ProcessUnder, ApplicationUnder, SyncingUnder DEF Unpublishing
        <2>2. UNCHANGED folder
              BY <1>5, UnpublishingQuiet
        <2> QED BY <1>2, <2>1, <2>2 DEF UnderInv, FilesLow
  <1>6. CASE Numbering(c)
        <2>1. UNCHANGED folder
              BY <1>6, NumberingStep
        <2> QED BY <1>2, <1>6, <2>1, NumberingUnder DEF UnderInv, FilesLow
  <1> QED BY <1>1, <1>3, <1>4, <1>5, <1>6
      DEF Process, Application, Publishing, Unpublishing, Numbering

\* While a process lives its clock does not go back and covers what it records, with and
\* without automatic capture, whatever is lost, fails or crashes, while no clock nears its
\* last reading.
THEOREM RecordsStayUnderClock == Spec /\ []HasRoom => RecordsUnderClock
  <1>1. Init => UnderInv
        BY DEF Init, UnderInv, NumberedInv, FilesRoomy, Numbered, FilesLow, Under, SessionLow,
               Busy
  <1>2. TypeInv /\ UnderInv /\ HasRoom /\ HasRoom' /\ [Next]_vars =>
          UnderInv' /\ [\A c \in Client : RecordsLow(c)]_vars
        <2> SUFFICES ASSUME TypeInv, UnderInv, HasRoom, HasRoom', [Next]_vars
                     PROVE  UnderInv' /\ [\A c \in Client : RecordsLow(c)]_vars
            OBVIOUS
        <2>1. NumberedInv'
              BY NextNumbered DEF UnderInv
        <2>2. CASE UNCHANGED vars
              BY <2>1, <2>2 DEF vars, UnderInv, FilesLow, Under, SessionLow
        <2>3. CASE Next
              BY <2>1, <2>3, StepUnder DEF UnderInv
        <2> QED BY <2>2, <2>3
  <1>3. TypeInv /\ [Next]_vars => TypeInv'
        BY NextTypes
  <1> QED BY <1>1, <1>2, <1>3, InitTypes, PTL DEF Spec, RecordsUnderClock, RecordsLow

===================================================================================
