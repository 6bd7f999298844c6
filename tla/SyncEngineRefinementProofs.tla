--------------------------- MODULE SyncEngineRefinementProofs ---------------------------
(***************************************************************************)
(* SyncEngine implements LastWriterWins, for any rows, writes, wall clocks *)
(* and bounds, under the conditions of Steady; from which follow that the  *)
(* change with the higher timestamp wins and that databases converge.      *)
(*                                                                         *)
(* Learning is the step in question.  Abstractly a change takes effect iff *)
(* no later write of its row is known.  The code compares the row with the *)
(* old one in the file, and on a conflict the timestamp of the file with   *)
(* that in _sync_row_hlc, which a change applied without a conflict leaves *)
(* behind.  The two decisions agree (Decision) because:                    *)
(*   - a row that was written is shown as by the latest write known, which *)
(*     is P!IInv, the invariant of the abstract specification;             *)
(*   - no two changesets write the same to a row, so that a row found as a *)
(*     change expects it was written by the very changeset the change was  *)
(*     made on, which is earlier (LogInv);                                 *)
(*   - a pass takes the files of the other client in their order (InOrder) *)
(*     so those known are all earlier than the next one, and what may be   *)
(*     later is one's own, whose timestamps are recorded (Recorded).       *)
(***************************************************************************)
EXTENDS SyncEngineProofs, SyncEngineRefinement

\* The abstract specification with its theorems.
P == INSTANCE LastWriterWinsProofs
       WITH log <- AbstractLog, known <- AbstractKnown, view <- db, draft <- AbstractDraft

-----------------------------------------------------------------------------------
(* The invariant. *)

\* The changesets c knows that write row k.
Writers(c, k) == {n \in Known(c) : k \in DOMAIN Rows(n)}

\* The engine has published what was there before it.
Started(c) == pc[c] \notin {"down", "stopped"}

\* The rows that only c has as they are: those it will publish next.
Private(c) == IF Started(c) THEN Draft(c) ELSE {k \in Key : db[c][k] # None}

\* The rows that the writes to come will write.
Unused == {[f \in Col |-> v] : v \in (writes + 1) .. MaxWrites}

\* What the conditions leave out: nothing is late, torn, put off or refused, and no stamp
\* is captured.
Plain ==
  /\ \A c \in Client :
       /\ seen[c] = DOMAIN folder /\ torn[c] = {} /\ deferred[c] = {}
       /\ tables[c] = Table /\ version[c] = TopVersion
       /\ base[c] # None => base[c].rowHlc = rowHlc[c]
       /\ Taken(c) \subseteq DOMAIN folder
       /\ ~Started(c) => Taken(c) = {}
       /\ pc[c] \in Busy => DOMAIN out[c].content.stamps = {} /\ out[c].name.ver = TopVersion
  /\ \A n \in DOMAIN folder : n.ver = TopVersion /\ DOMAIN folder[n].stamps = {}

\* Of the files of one client, those taken come before those left, and those of the pass
\* before those that have appeared since it began.
InOrder ==
  \A c \in Client : \A m \in Taken(c) \cup todo[c], n \in DOMAIN folder :
    m.client = n.client =>
      /\ m \in Taken(c) /\ n \notin Taken(c) => Precedes(m, n)
      /\ n \notin Taken(c) \cup todo[c] => Precedes(m, n)

\* A change writes a whole row, over one that an earlier changeset wrote.
GoodRow(n, k) ==
  /\ Rows(n)[k].new \in Row \ Unused
  /\ Rows(n)[k].old \in MaybeRow
  /\ Rows(n)[k].old # None =>
       \E t \in Issued : k \in DOMAIN Rows(t) /\ Rows(t)[k].new = Rows(n)[k].old /\ Precedes(t, n)

\* A timestamp and its client name one changeset; a row and what is written to it, too.
LogInv ==
  /\ \A n \in Issued : n.hlc > 0 /\ \A k \in DOMAIN Rows(n) : GoodRow(n, k)
  /\ \A m, n \in Issued : m.client = n.client /\ m.hlc = n.hlc => m = n
  /\ \A m, n \in Issued : \A k \in DOMAIN Rows(m) \cap DOMAIN Rows(n) :
       Rows(m)[k].new = Rows(n)[k].new => m = n

\* The recorded timestamp of a row is that of some write, no earlier than one's own.
Recorded(c) ==
  \A k \in Key :
    /\ rowHlc[c][k] = 0 \/ \E n \in Writers(c, k) : rowHlc[c][k] = n.hlc
    /\ \A n \in Writers(c, k) : n.client = c => n.hlc <= rowHlc[c][k]

\* No changeset has the private rows of c as they are.
Unheard(c) ==
  \A k \in Private(c) :
    /\ db[c][k] # None
    /\ \A n \in Issued : k \in DOMAIN Rows(n) => Rows(n)[k].new # db[c][k]

\* Two clients do not privately make the same row.
Unlike(c, d) == \A k \in Private(c) \cap Private(d) : db[c][k] # db[d][k]

\* A row that nobody has written is not there.
Shown(c) ==
  Started(c) => \A k \in Key \ Draft(c) : Writers(c, k) = {} => db[c][k] = None

\* A session begins with rows that changesets known to c wrote.
Based(c) ==
  base[c] # None => \A k \in Key : base[c].db[k] # None =>
     \E t \in Writers(c, k) : Rows(t)[k].new = base[c].db[k]

\* No row has what later writes will write.
Spent(c) ==
  \A k \in Key : db[c][k] \notin Unused /\ (base[c] # None => base[c].db[k] \notin Unused)

RowsInv ==
  /\ \A c \in Client : Recorded(c) /\ Unheard(c) /\ Shown(c) /\ Based(c) /\ Spent(c)
  /\ \A c, d \in Client : c # d => Unlike(c, d)

\* What the abstract invariant says.
ViewInv ==
  /\ Issued \subseteq Name
  /\ \A c \in Client : Known(c) \subseteq Issued
  /\ \A n \in Issued : n \in Known(n.client)
  /\ \A m, n \in Issued : m = n \/ Precedes(m, n) \/ Precedes(n, m)
  /\ \A c \in Client, k \in Key : Writers(c, k) # {} =>
       \E t \in Writers(c, k) :
         /\ \A m \in Writers(c, k) \ {t} : Precedes(m, t)
         /\ k \notin Draft(c) => db[c][k] = Rows(t)[k].new

\* What SyncEngineProofs has shown already.
Base == PassInv /\ NamesInv /\ ClockInv /\ OwnPublished

RefInv == Base /\ Plain /\ InOrder /\ LogInv /\ RowsInv /\ P!IInv

-----------------------------------------------------------------------------------
(* The names of changesets, and what the abstract invariant says. *)

LEMMA NameFields ==
  ASSUME NEW n \in Name
  PROVE  n.client \in Client /\ n.hlc \in Nat /\ n.seq \in Nat /\ Rank[n.client] \in Nat
  BY RankAssumption DEF Name

LEMMA Strict ==
  ASSUME NEW a \in Name, NEW b \in Name, Precedes(a, b)
  PROVE  ~Precedes(b, a) /\ a # b
  BY NameFields DEF Precedes

LEMMA Transitive ==
  ASSUME NEW a \in Name, NEW b \in Name, NEW c \in Name, Precedes(a, b), Precedes(b, c)
  PROVE  Precedes(a, c)
  BY NameFields DEF Precedes

LEMMA ViewFacts == P!IInv => ViewInv
  <1> SUFFICES ASSUME P!IInv PROVE ViewInv
      OBVIOUS
  <1>1. /\ DOMAIN AbstractLog = Issued
        /\ \A n \in Issued : /\ DOMAIN AbstractLog[n] = DOMAIN Rows(n)
                             /\ \A k \in DOMAIN Rows(n) : AbstractLog[n][k] = Rows(n)[k].new
        /\ \A c \in Client : AbstractKnown[c] = Known(c) /\ AbstractDraft[c] = Draft(c)
        BY DEF AbstractLog, AbstractKnown, AbstractDraft
  <1>2. /\ Issued \subseteq Name
        /\ \A c \in Client : Known(c) \subseteq Issued
        BY <1>1 DEF P!IInv, P!Typed, P!Name, Name
  <1>3. \A n \in Issued : n \in Known(n.client)
        BY <1>1, <1>2 DEF P!IInv, P!KnowsOwn, Name
  <1>4. \A m, n \in Issued : m = n \/ Precedes(m, n) \/ Precedes(n, m)
        BY <1>1 DEF P!IInv, P!Comparable, P!Precedes, Precedes
  <1>5. \A c \in Client, k \in Key : P!Touching(c, k) = Writers(c, k)
        BY <1>1, <1>2 DEF P!Touching, Writers
  <1>6. ASSUME NEW c \in Client, NEW k \in Key, Writers(c, k) # {}
        PROVE  \E t \in Writers(c, k) :
                 /\ \A m \in Writers(c, k) \ {t} : Precedes(m, t)
                 /\ k \notin Draft(c) => db[c][k] = Rows(t)[k].new
        <2>1. PICK t \in Writers(c, k) : P!Tops(t, c, k)
              BY <1>5, <1>6 DEF P!IInv, P!Topped
        <2>2. \A m \in Writers(c, k) \ {t} : Precedes(m, t)
              BY <1>5, <2>1 DEF P!Tops, P!Precedes, Precedes
        <2>3. k \notin Draft(c) => db[c][k] = AbstractLog[t][k]
              BY <1>1, <2>1 DEF P!Tops
        <2> QED BY <1>1, <1>2, <2>2, <2>3 DEF Writers
  <1> QED BY <1>2, <1>3, <1>4, <1>6 DEF ViewInv

-----------------------------------------------------------------------------------
(* Learning. *)

\* What c knows of the changesets in the folder while a pass runs.
LEMMA InPassFacts ==
  ASSUME RefInv, NEW c \in Client, InPass(c)
  PROVE  /\ Known(c) = Taken(c) /\ Taken(c) = applied[c] /\ Draft(c) = {} /\ base[c] = None
         /\ Started(c) /\ Private(c) = {} /\ out[c] = None
  <1>1. pc[c] \in {"first", "retry"} /\ cur[c] = None /\ Started(c)
        BY DEF InPass, Started
  <1>2. base[c] = None /\ out[c] = None
        BY <1>1 DEF RefInv, Base, PassInv, SessionsQuiet, TypeInv, TypeOK
  <1>3. Draft(c) = {}
        <2>1. DOMAIN << >> = {}
              OBVIOUS
        <2> QED BY <1>2, <2>1 DEF Draft, Captured
  <1> QED BY <1>1, <1>2, <1>3 DEF Known, Taken, Unwritten, Private

\* The changesets of a client that is not the author of a file it takes next.
LEMMA NextInOrder ==
  ASSUME Steady, RefInv, NEW c \in Client, InPass(c), NEW n \in Earliest(todo[c])
  PROVE  /\ n \in DOMAIN folder /\ n \in Name /\ n \notin Known(c) /\ n.client # c
         /\ \A t \in Issued : Precedes(t, n) => t \in Known(c)
         /\ \A m \in Known(c) : m.client # c => m.client = n.client /\ Precedes(m, n)
  <1>1. /\ n \in todo[c] /\ n \in DOMAIN folder /\ n \in Name
        /\ \A m \in todo[c] : ~Precedes(m, n)
        <2>1. n \in todo[c] /\ n \in seen[c] /\ n \in Name
              BY TakenTypes DEF RefInv, Base, PassInv
        <2> QED BY <2>1 DEF Earliest, RefInv, Plain
  <1>2. Known(c) = Taken(c) /\ Taken(c) = applied[c]
        BY InPassFacts
  <1>3. n \notin Known(c)
        BY <1>1, <1>2 DEF RefInv, Base, PassInv, NothingTwice
  <1>4. ViewInv
        BY ViewFacts DEF RefInv
  <1>5. n \in Issued /\ n.client # c
        BY <1>1, <1>3, <1>4 DEF ViewInv, Issued
  <1>6. \A m \in Issued : m \in Name /\ m.client \in Client
        BY <1>4 DEF ViewInv, Name
  <1>7. \A m \in Issued : m.client # c => m.client = n.client
        BY <1>1, <1>5, <1>6 DEF Steady
  <1>8. \A m \in Known(c) : m.client # c => m.client = n.client /\ Precedes(m, n)
        BY <1>1, <1>2, <1>3, <1>4, <1>7 DEF RefInv, InOrder, ViewInv
  <1>9. ASSUME NEW t \in Issued, Precedes(t, n)
        PROVE  t \in Known(c)
        <2>1. CASE t.client = c
              BY <1>4, <2>1 DEF ViewInv
        <2>2. CASE t.client # c
              <3> DEFINE d == n.client
              <3>1. d \in Client /\ t.client = d /\ t \in Known(d) /\ n \in Known(d)
                    BY <1>4, <1>5, <1>6, <1>7, <2>2 DEF ViewInv
              <3>2. t \in DOMAIN folder
                    <4>1. SUFFICES ASSUME t \notin DOMAIN folder PROVE FALSE
                          OBVIOUS
                    <4>2. pc[d] \in Busy /\ t = out[d].name
                          BY <3>1, <4>1 DEF Known, Taken, RefInv, Plain, Unwritten, Busy
                    <4>3. cur[d] = None
                          BY <3>1, <4>2 DEF RefInv, Base, PassInv, TypeInv, TypeOK, Places, Busy
                    <4>4. n \in applied[d] /\ n # t
                          BY <1>1, <3>1, <4>1, <4>2, <4>3 DEF Known
                    <4>5. n.hlc < t.hlc
                          BY <3>1, <4>2, <4>3, <4>4 DEF RefInv, Base, ClockInv, Timely, Ahead
                    <4>6. Precedes(n, t)
                          BY <4>5 DEF Precedes
                    <4> QED BY <1>1, <1>6, <1>9, <4>6, Strict
              <3>3. t \notin todo[c]
                    BY <1>1, <1>9
              <3>4. t \notin Taken(c) => Precedes(n, t)
                    BY <1>1, <3>1, <3>2, <3>3 DEF RefInv, InOrder
              <3> QED BY <1>1, <1>2, <1>6, <1>9, <3>4, Strict
        <2> QED BY <2>1, <2>2
  <1> QED BY <1>1, <1>3, <1>5, <1>8, <1>9

LEMMA RowIsSome == None \notin Row
  BY RowIsPartial, NoneAssumption

\* Rows of one column are overwritten as a whole.
LEMMA EffectIsNew ==
  ASSUME \E x \in Col : Col = {x}, NEW change, change.new \in Row, NEW row \in MaybeRow
  PROVE  Effect(change, row) = change.new
  <1>1. change.new # None /\ change.new \in [Col -> Val]
        BY RowIsSome DEF Row
  <1>2. CASE row = None
        BY <1>1, <1>2 DEF Effect
  <1>3. CASE row # None
        <2>1. Effect(change, row) =
                [f \in Col |-> IF f \in DOMAIN change.new THEN change.new[f] ELSE row[f]]
              BY <1>1, <1>3 DEF Effect
        <2>2. [f \in Col |-> IF f \in DOMAIN change.new THEN change.new[f] ELSE row[f]]
                = [f \in Col |-> change.new[f]]
              BY <1>1
        <2> QED BY <1>1, <2>1, <2>2
  <1> QED BY <1>2, <1>3

\* A whole row is met without a conflict when it is exactly the old one.
LEMMA CleanIsOld ==
  ASSUME NEW change, change.new \in Row, change.old \in MaybeRow, NEW row \in MaybeRow
  PROVE  Clean(change, row) <=> row = change.old
  <1>1. change.new # None
        BY RowIsSome
  <1>2. CASE change.old = None
        BY <1>1, <1>2 DEF Clean
  <1>3. CASE change.old # None
        <2>1. Clean(change, row) <=> row # None /\ \A f \in DOMAIN change.old : row[f] = change.old[f]
              BY <1>1, <1>3 DEF Clean
        <2>2. change.old \in [Col -> Val]
              BY <1>3 DEF MaybeRow, Row
        <2>3. CASE row = None
              BY <1>3, <2>1, <2>3
        <2>4. CASE row # None
              <3>1. row \in [Col -> Val]
                    BY <2>4 DEF MaybeRow, Row
              <3>2. row = change.old <=> \A f \in Col : row[f] = change.old[f]
                    BY <2>2, <3>1
              <3> QED BY <2>1, <2>2, <2>4, <3>2
        <2> QED BY <2>3, <2>4
  <1> QED BY <1>2, <1>3

\* The heart of the argument: the code's decision about a row is the abstract one.
LEMMA Decision ==
  ASSUME Steady, RefInv, NEW c \in Client, InPass(c), NEW n \in Earliest(todo[c]),
         NEW k \in DOMAIN Rows(n)
  PROVE  LET latest == \A m \in Writers(c, k) : Precedes(m, n)
             r      == Resolve(Rows(n)[k], db[c][k], rowHlc[c][k], n, c)
         IN  /\ latest => r.row = Rows(n)[k].new
             /\ ~latest => r.row = db[c][k]
             /\ r.hlc >= rowHlc[c][k] /\ r.hlc \in {rowHlc[c][k], n.hlc}
  <1> DEFINE change == Rows(n)[k]
             row    == db[c][k]
             stamp  == rowHlc[c][k]
             latest == \A m \in Writers(c, k) : Precedes(m, n)
             r      == Resolve(change, row, stamp, n, c)
  <1>1. /\ n \in DOMAIN folder /\ n \in Name /\ n \notin Known(c) /\ n.client # c
        /\ \A t \in Issued : Precedes(t, n) => t \in Known(c)
        /\ \A m \in Known(c) : m.client # c => m.client = n.client /\ Precedes(m, n)
        BY NextInOrder
  <1>2. ViewInv /\ n \in Issued
        BY <1>1, ViewFacts DEF RefInv, Issued
  <1>3. n.hlc > 0 /\ GoodRow(n, k)
        BY <1>2 DEF RefInv, LogInv
  <1>4. k \in Key
        BY <1>1 DEF Rows, RefInv, Base, PassInv, TypeInv, TypeOK
  <1>5. /\ change.new \in Row /\ change.old \in MaybeRow /\ row \in MaybeRow /\ stamp \in Nat
        /\ n.hlc \in Nat
        BY <1>1, <1>3, <1>4 DEF GoodRow, RefInv, Base, PassInv, TypeInv, TypeOK, MaybeRow, Name
  <1>6. Draft(c) = {} /\ Started(c)
        BY InPassFacts
  <1>7. \A m \in Writers(c, k) : m \in Issued /\ m \in Name /\ m \in Known(c) /\ k \in DOMAIN Rows(m)
        BY <1>2 DEF Writers, ViewInv
  <1>8. Effect(change, row) = change.new
        BY <1>5, EffectIsNew DEF Steady
  <1>9. Clean(change, row) <=> row = change.old
        BY <1>5, CleanIsOld
  <1>10. row # None => Writers(c, k) # {}
        BY <1>4, <1>6 DEF RefInv, RowsInv, Shown
  \* The row that the change was made on was written by a changeset c knows of.
  <1>11. ASSUME change.old # None
         PROVE  \E t \in Writers(c, k) : Rows(t)[k].new = change.old /\ Precedes(t, n)
        BY <1>1, <1>3, <1>11 DEF GoodRow, Writers
  <1>12. ASSUME NEW u \in Writers(c, k), \A m \in Writers(c, k) \ {u} : Precedes(m, u),
                row = Rows(u)[k].new, row = change.old
         PROVE  latest
        <2>0. Rows(u)[k].new \in Row
              BY <1>7 DEF RefInv, LogInv, GoodRow
        <2>1. change.old # None
              BY <1>12, <2>0, RowIsSome
        <2>2. PICK t \in Writers(c, k) : Rows(t)[k].new = change.old /\ Precedes(t, n)
              BY <1>11, <2>1
        <2>3. t = u
              BY <1>7, <1>12, <2>2 DEF RefInv, LogInv
        <2> QED BY <1>1, <1>7, <1>12, <2>2, <2>3, Transitive
  <1>13. Clean(change, row) => latest
        <2>1. CASE Writers(c, k) = {}
              BY <2>1
        <2>2. CASE Writers(c, k) # {}
              <3>1. PICK u \in Writers(c, k) : /\ \A m \in Writers(c, k) \ {u} : Precedes(m, u)
                                              /\ row = Rows(u)[k].new
                    BY <1>2, <1>4, <1>6, <2>2 DEF ViewInv
              <3> QED BY <1>9, <1>12, <3>1
        <2> QED BY <2>1, <2>2
  <1>14. ~NotFound(change, row)
        <2>1. SUFFICES ASSUME change.old # None PROVE row # None
              BY DEF NotFound
        <2>2. Writers(c, k) # {}
              BY <1>11, <2>1
        <2>3. PICK u \in Writers(c, k) : row = Rows(u)[k].new
              BY <1>2, <1>4, <1>6, <2>2 DEF ViewInv
        <2> QED BY <1>7, <2>3, RowIsSome DEF RefInv, LogInv, GoodRow
  <1>15. Wins(n.hlc, n.client, stamp, c) <=> latest
        <2>1. ASSUME Wins(n.hlc, n.client, stamp, c), NEW m \in Writers(c, k)
              PROVE  Precedes(m, n)
              <3>1. CASE m.client # c
                    BY <1>1, <1>7, <3>1
              <3>2. CASE m.client = c
                    <4>1. m.hlc <= stamp /\ m.hlc \in Nat
                          BY <1>4, <1>7, <3>2 DEF RefInv, RowsInv, Recorded, Name
                    <4> QED BY <1>5, <2>1, <3>2, <4>1 DEF Wins, Precedes
              <3> QED BY <3>1, <3>2
        <2>2. ASSUME latest
              PROVE  Wins(n.hlc, n.client, stamp, c)
              <3>1. CASE stamp = 0
                    BY <1>3, <1>5, <3>1 DEF Wins
              <3>2. ASSUME NEW m \in Writers(c, k), stamp = m.hlc
                    PROVE  Wins(n.hlc, n.client, stamp, c)
                    <4>1. Precedes(m, n) /\ m # n /\ m.hlc \in Nat
                          BY <1>1, <1>7, <2>2 DEF Name
                    <4>2. m.client = c \/ m.client = n.client
                          BY <1>1, <1>7
                    <4>3. m.hlc = n.hlc => m.client # n.client
                          BY <1>2, <1>7, <4>1 DEF RefInv, LogInv
                    <4> QED BY <1>5, <3>2, <4>1, <4>2, <4>3 DEF Wins, Precedes
              <3> QED BY <1>4, <3>1, <3>2 DEF RefInv, RowsInv, Recorded
        <2> QED BY <2>1, <2>2
  <1>16. /\ latest => r.row = change.new
         /\ ~latest => r.row = row
        BY <1>8, <1>13, <1>14, <1>15 DEF Resolve
  <1>17. r.hlc >= stamp /\ r.hlc \in {stamp, n.hlc}
        BY <1>5 DEF Resolve, Wins
  <1> QED BY <1>16, <1>17

\* Without captured stamps and with all tables there, every row is decided by itself.
LEMMA AppliedPointwise ==
  ASSUME NEW content, DOMAIN content.stamps = {}, DOMAIN content.rows \subseteq Key,
         NEW n, NEW c, NEW d, NEW r \in [Key -> Nat], NEW f \in BOOLEAN
  PROVE  \A k \in Key :
           /\ Applied(content, n, c, d, r, Table, f).db[k] =
                IF k \in DOMAIN content.rows
                  THEN Resolve(content.rows[k], d[k], r[k], n, c).row ELSE d[k]
           /\ Applied(content, n, c, d, r, Table, f).rowHlc[k] =
                IF k \in DOMAIN content.rows
                  THEN Resolve(content.rows[k], d[k], r[k], n, c).hlc ELSE r[k]
  <1> DEFINE before   == IF f THEN AddStamps(r, content.stamps) ELSE r
             resolved == [k \in Reached(content, Table) |->
                            Resolve(content.rows[k], d[k], before[k], n, c)]
             after    == [k \in Key |-> IF k \in DOMAIN resolved THEN resolved[k].hlc
                                                                 ELSE before[k]]
             rows     == [k \in Key |-> IF k \in DOMAIN resolved THEN resolved[k].row
                                                                 ELSE d[k]]
             stamps   == IF f THEN after ELSE AddStamps(after, content.stamps)
  <1>1. Applied(content, n, c, d, r, Table, f) = [db |-> rows, rowHlc |-> stamps]
        BY DEF Applied
  <1>2. Reached(content, Table) = DOMAIN content.rows
        BY TableOfAssumption DEF Reached
  <1>3. \A q : (DOMAIN q = Key /\ q = [k \in Key |-> q[k]]) => AddStamps(q, content.stamps) = q
        BY DEF AddStamps
  <1>4. before = r
        BY <1>3
  <1>5. DOMAIN after = Key /\ after = [k \in Key |-> after[k]]
        OBVIOUS
  <1>6. stamps = after
        <2> HIDE DEF after
        <2> QED BY <1>3, <1>5
  <1>7. /\ DOMAIN resolved = DOMAIN content.rows
        /\ \A k \in DOMAIN content.rows :
             resolved[k] = Resolve(content.rows[k], d[k], r[k], n, c)
        BY <1>2, <1>4
  <1>8. \A k \in Key :
          /\ rows[k] = IF k \in DOMAIN resolved THEN resolved[k].row ELSE d[k]
          /\ after[k] = IF k \in DOMAIN resolved THEN resolved[k].hlc ELSE r[k]
        BY <1>4
  <1> HIDE DEF rows, stamps, after, resolved
  <1>9. \A k \in Key : k \in DOMAIN resolved => resolved[k] = Resolve(content.rows[k], d[k], r[k], n, c)
        BY <1>7
  <1> QED BY <1>1, <1>6, <1>7, <1>8, <1>9

\* What a step of Apply comes to.
Learns(c, n) ==
  /\ InPass(c) /\ n \in Earliest(todo[c])
  /\ cur' = [cur EXCEPT ![c] = n] /\ todo' = [todo EXCEPT ![c] = @ \ {n}]
  /\ \A d \in Client \ {c} : db'[d] = db[d] /\ rowHlc'[d] = rowHlc[d]
  /\ \A k \in Key :
       /\ db'[c][k] = IF k \in DOMAIN Rows(n) /\ \A m \in Writers(c, k) : Precedes(m, n)
                        THEN Rows(n)[k].new ELSE db[c][k]
       /\ rowHlc'[c][k] >= rowHlc[c][k]
       /\ \/ rowHlc'[c][k] = rowHlc[c][k]
          \/ k \in DOMAIN Rows(n) /\ rowHlc'[c][k] = n.hlc
  /\ \A d \in Client : applied'[d] = applied[d] /\ deferred'[d] = deferred[d]
  /\ UNCHANGED <<tables, version, base, manual, pc, out, folder, seen, torn, writes>>

LEMMA ApplyLearns ==
  ASSUME Steady, RefInv, NEW c \in Client, Apply(c)
  PROVE  \E n : Learns(c, n)
  <1>1. PICK n \in Earliest(todo[c]) \ torn[c], w \in Wall, f \in BOOLEAN : ApplyFile(c, n, w, f)
        BY DEF Apply
  <1>2. InPass(c) /\ n \in Earliest(todo[c])
        BY <1>1 DEF Apply
  <1>3. n \in DOMAIN folder /\ n \in Name
        BY <1>2, NextInOrder
  <1>4. TypeInv /\ GoodContent(folder[n]) /\ n.ver = TopVersion /\ DOMAIN folder[n].stamps = {}
        /\ folder[n].marks = {} /\ tables[c] = Table
        BY <1>3 DEF RefInv, Base, PassInv, TypeInv, GoodContents, Plain, MarksStayHome
  <1> DEFINE result == Applied(folder[n], n, c, db[c], rowHlc[c], Table, f)
  <1>5. AppliesWhole(c, folder[n])
        BY <1>4, TableOfAssumption DEF AppliesWhole, TablesOf, GoodContent
  <1>6. /\ db' = [db EXCEPT ![c] = result.db]
        /\ rowHlc' = [rowHlc EXCEPT ![c] = result.rowHlc]
        /\ applied' = [applied EXCEPT ![c] = @ \cup folder[n].marks]
        /\ cur' = [cur EXCEPT ![c] = n]
        /\ todo' = [todo EXCEPT ![c] = @ \ {n}]
        /\ deferred' = [deferred EXCEPT ![c] = @]
        BY <1>1, <1>4, <1>5 DEF ApplyFile
  <1>7. UNCHANGED <<tables, version, base, manual, pc, out, folder, seen, torn, writes>>
        BY DEF Apply, shared, budget
  <1>8. /\ DOMAIN applied = Client /\ DOMAIN deferred = Client
        /\ DOMAIN db = Client /\ DOMAIN rowHlc = Client /\ rowHlc[c] \in [Key -> Nat]
        BY <1>4 DEF TypeInv, TypeOK, Places
  <1>9. \A d \in Client : applied'[d] = applied[d] /\ deferred'[d] = deferred[d]
        <2>1. applied[c] \cup folder[n].marks = applied[c]
              BY <1>4
        <2> QED BY <1>6, <1>8, <2>1
  <1>10. Rows(n) = folder[n].rows
        BY <1>3 DEF Rows
  <1>11. \A k \in Key :
           /\ result.db[k] = IF k \in DOMAIN Rows(n)
                THEN Resolve(Rows(n)[k], db[c][k], rowHlc[c][k], n, c).row ELSE db[c][k]
           /\ result.rowHlc[k] = IF k \in DOMAIN Rows(n)
                THEN Resolve(Rows(n)[k], db[c][k], rowHlc[c][k], n, c).hlc ELSE rowHlc[c][k]
        BY <1>4, <1>8, <1>10, AppliedPointwise DEF GoodContent
  <1> HIDE DEF result
  <1>12. db'[c] = result.db /\ rowHlc'[c] = result.rowHlc
         /\ \A d \in Client \ {c} : db'[d] = db[d] /\ rowHlc'[d] = rowHlc[d]
        BY <1>6, <1>8
  <1>13. ASSUME NEW k \in Key
         PROVE  /\ db'[c][k] = IF k \in DOMAIN Rows(n) /\ \A m \in Writers(c, k) : Precedes(m, n)
                                 THEN Rows(n)[k].new ELSE db[c][k]
                /\ rowHlc'[c][k] >= rowHlc[c][k]
                /\ \/ rowHlc'[c][k] = rowHlc[c][k]
                   \/ k \in DOMAIN Rows(n) /\ rowHlc'[c][k] = n.hlc
        <2>1. CASE k \in DOMAIN Rows(n)
              <3> DEFINE r == Resolve(Rows(n)[k], db[c][k], rowHlc[c][k], n, c)
              <3>1. db'[c][k] = r.row /\ rowHlc'[c][k] = r.hlc
                    BY <1>11, <1>12, <2>1
              <3>2. /\ (\A m \in Writers(c, k) : Precedes(m, n)) => r.row = Rows(n)[k].new
                    /\ ~(\A m \in Writers(c, k) : Precedes(m, n)) => r.row = db[c][k]
                    /\ r.hlc >= rowHlc[c][k] /\ r.hlc \in {rowHlc[c][k], n.hlc}
                    BY <1>2, <2>1, Decision
              <3> HIDE DEF r
              <3> QED BY <2>1, <3>1, <3>2
        <2>2. CASE k \notin DOMAIN Rows(n)
              BY <1>8, <1>11, <1>12, <2>2
        <2> QED BY <2>1, <2>2
  <1> QED BY <1>2, <1>6, <1>7, <1>9, <1>12, <1>13 DEF Learns

\* Nothing is known before it is issued, and what is known stays the same when files and
\* places do.
LEMMA SameLog ==
  ASSUME UNCHANGED <<folder, out, pc>>
  PROVE  /\ AbstractLog' = AbstractLog /\ Issued' = Issued
         /\ \A n : Rows(n)' = Rows(n)
  BY DEF AbstractLog, Issued, Rows, Unwritten

LEMMA SameDraft ==
  ASSUME NEW c \in Client, base'[c] = base[c], base[c] = None \/ db'[c] = db[c]
  PROVE  Draft(c)' = Draft(c)
  BY DEF Draft, Captured, Capture

\* What c and the others know after the step.
LEMMA LearnsKnown ==
  ASSUME RefInv, NEW c \in Client, NEW n \in Name, Learns(c, n)
  PROVE  /\ Taken(c)' = Taken(c) \cup {n} /\ Known(c)' = Known(c) \cup {n}
         /\ \A d \in Client \ {c} : Taken(d)' = Taken(d) /\ Known(d)' = Known(d)
         /\ \A d \in Client : Draft(d)' = Draft(d)
         /\ Draft(c) = {}
  <1>1. /\ \A d \in Client : applied'[d] = applied[d]
        /\ UNCHANGED <<pc, out, base>> /\ cur[c] = None
        /\ \A d \in Client \ {c} : db'[d] = db[d]
        BY DEF Learns, InPass
  <1>2. cur'[c] = n /\ n # None /\ \A d \in Client \ {c} : cur'[d] = cur[d]
        BY NoneAssumption DEF Learns, RefInv, Base, PassInv, TypeInv, Places
  <1>3. Draft(c) = {} /\ base[c] = None
        BY InPassFacts DEF Learns
  <1>4. \A d \in Client : Draft(d)' = Draft(d)
        BY <1>1, <1>3, SameDraft
  <1> QED BY <1>1, <1>2, <1>3, <1>4 DEF Known, Taken, Unwritten

LEMMA LearnRefines ==
  ASSUME Steady, RefInv, TypeInv', NEW c \in Client, NEW n, Learns(c, n)
  PROVE  Abstract!Learn(c)
  <1>1. n \in DOMAIN folder /\ n \in Name /\ n \notin Known(c)
        BY NextInOrder DEF Learns
  <1>2. /\ AbstractLog' = AbstractLog /\ DOMAIN AbstractLog = Issued
        /\ DOMAIN AbstractLog[n] = DOMAIN Rows(n)
        /\ \A k \in DOMAIN Rows(n) : AbstractLog[n][k] = Rows(n)[k].new
        /\ n \in Issued
        BY <1>1, SameLog DEF Learns, AbstractLog, Issued
  <1>3. /\ Known(c)' = Known(c) \cup {n}
        /\ \A d \in Client \ {c} : Known(d)' = Known(d)
        /\ \A d \in Client : Draft(d)' = Draft(d)
        /\ Draft(c) = {}
        BY <1>1, LearnsKnown
  <1>4. AbstractKnown' = [AbstractKnown EXCEPT ![c] = @ \cup {n}]
        BY <1>3 DEF AbstractKnown
  <1>5. AbstractDraft' = AbstractDraft /\ AbstractDraft[c] = {}
        BY <1>3 DEF AbstractDraft
  <1>6. ViewInv
        BY ViewFacts DEF RefInv
  <1>7. \A k \in Key : Abstract!Touching(c, k) = Writers(c, k)
        BY <1>6 DEF Abstract!Touching, Writers, AbstractLog, AbstractKnown, ViewInv
  <1> DEFINE shown == [k \in Key |->
               IF /\ k \in DOMAIN AbstractLog[n]
                  /\ \A m \in Abstract!Touching(c, k) : Abstract!Precedes(m, n)
                 THEN AbstractLog[n][k] ELSE db[c][k]]
  <1>8. \A k \in Key : db'[c][k] = shown[k]
        BY <1>2, <1>7 DEF Learns, Abstract!Precedes, Precedes
  <1>9. db' = [db EXCEPT ![c] = shown]
        <2>1. DOMAIN shown = Key /\ shown = [k \in Key |-> shown[k]]
              OBVIOUS
        <2>2. db \in [Client -> [Key -> MaybeRow]] /\ db' \in [Client -> [Key -> MaybeRow]]
              BY DEF RefInv, Base, PassInv, TypeInv, TypeOK, MaybeRow
        <2>3. \A d \in Client \ {c} : db'[d] = db[d]
              BY DEF Learns
        <2> HIDE DEF shown
        <2>4. db'[c] = shown
              BY <1>8, <2>1, <2>2
        <2> QED BY <2>2, <2>3, <2>4
  <1> QED BY <1>1, <1>2, <1>4, <1>5, <1>9 DEF Abstract!Learn, AbstractKnown

\* The abstract specification is the one that the theorems of LastWriterWinsProofs are about.
LEMMA SameActions ==
  ASSUME NEW c \in Client
  PROVE  /\ Abstract!Edit(c) <=> P!Edit(c)
         /\ Abstract!Announce(c) <=> P!Announce(c)
         /\ Abstract!Learn(c) <=> P!Learn(c)
  <1>1. Abstract!Edit(c) <=> P!Edit(c)
        BY DEF Abstract!Edit, P!Edit, Abstract!Row, P!Row
  <1>2. Abstract!Announce(c) <=> P!Announce(c)
        BY DEF Abstract!Announce, P!Announce, Abstract!Name, P!Name, Abstract!Precedes, P!Precedes
  <1>3. Abstract!Learn(c) <=> P!Learn(c)
        BY DEF Abstract!Learn, P!Learn, Abstract!Touching, P!Touching, Abstract!Precedes,
               P!Precedes
  <1> QED BY <1>1, <1>2, <1>3

LEMMA ViewKept == P!IInv /\ [Abstract!Next]_(Abstract!abstract) => P!IInv'
  <1>1. [Abstract!Next]_(Abstract!abstract) => [P!Next]_(P!abstract)
        BY SameActions DEF Abstract!Next, P!Next, Abstract!abstract, P!abstract
  <1>2. P!IInv /\ [P!Next]_(P!abstract) => P!IInv'
        BY P!NextStep, RankAssumption, TableOfAssumption, NoneAssumption
           DEF P!Name, Name, P!PartialRow, PartialRow
  <1> QED BY <1>1, <1>2

LEMMA LearnPlain ==
  ASSUME Steady, RefInv, TypeInv', NEW c \in Client, NEW n, Learns(c, n)
  PROVE  Plain' /\ InOrder'
  <1>1. n \in DOMAIN folder /\ n \in Name /\ n \notin Known(c)
        BY NextInOrder DEF Learns
  <1>2. /\ Taken(c)' = Taken(c) \cup {n}
        /\ \A d \in Client \ {c} : Taken(d)' = Taken(d)
        BY <1>1, LearnsKnown
  <1>3. /\ UNCHANGED <<tables, version, base, pc, out, folder, seen, torn>>
        /\ \A d \in Client : deferred'[d] = deferred[d]
        /\ \A d \in Client \ {c} : rowHlc'[d] = rowHlc[d]
        BY DEF Learns
  <1>4. base[c] = None /\ Started(c)
        BY InPassFacts DEF Learns
  <1>5. Plain'
        BY <1>1, <1>2, <1>3, <1>4 DEF RefInv, Plain, Started
  <1>6. n \in todo[c] /\ (\A m \in todo[c] : ~Precedes(m, n))
        /\ todo'[c] = todo[c] \ {n} /\ \A d \in Client \ {c} : todo'[d] = todo[d]
        BY DEF Learns, Earliest, RefInv, Base, PassInv, TypeInv, Places
  <1>7. ViewInv
        BY ViewFacts DEF RefInv
  <1>8. \A m \in DOMAIN folder : m \notin Taken(c) \cup {n} /\ n.client = m.client => Precedes(n, m)
        <2>1. SUFFICES ASSUME NEW m \in DOMAIN folder, m \notin Taken(c), m # n,
                              n.client = m.client
                       PROVE  Precedes(n, m)
              OBVIOUS
        <2>2. CASE m \in todo[c]
              BY <1>1, <1>6, <1>7, <2>1, <2>2 DEF ViewInv, Issued
        <2>3. CASE m \notin todo[c]
              BY <1>6, <2>1, <2>3 DEF RefInv, InOrder
        <2> QED BY <2>2, <2>3
  <1>9. InOrder'
        <2>1. SUFFICES ASSUME NEW d \in Client, NEW a \in (Taken(d) \cup todo[d])',
                              NEW b \in DOMAIN folder, a.client = b.client
                       PROVE  /\ a \in Taken(d)' /\ b \notin Taken(d)' => Precedes(a, b)
                              /\ b \notin (Taken(d) \cup todo[d])' => Precedes(a, b)
              BY <1>3 DEF InOrder
        <2>2. CASE d # c
              BY <1>2, <1>6, <2>1, <2>2 DEF RefInv, InOrder
        <2>3. CASE d = c
              <3>1. CASE a = n
                    BY <1>2, <1>8, <2>1, <2>3, <3>1
              <3>2. CASE a # n
                    BY <1>2, <1>6, <2>1, <2>3, <3>2 DEF RefInv, InOrder
              <3> QED BY <3>1, <3>2
        <2> QED BY <2>2, <2>3
  <1> QED BY <1>5, <1>9

LEMMA LearnRows ==
  ASSUME Steady, RefInv, TypeInv', NEW c \in Client, NEW n, Learns(c, n)
  PROVE  LogInv' /\ RowsInv'
  <1>1. n \in DOMAIN folder /\ n \in Name /\ n \notin Known(c) /\ n.client # c
        BY NextInOrder DEF Learns
  <1>2. UNCHANGED <<base, pc, writes>> /\ Unused' = Unused
        /\ \A d \in Client \ {c} : db'[d] = db[d] /\ rowHlc'[d] = rowHlc[d]
        BY DEF Learns, Unused
  <1>3. Issued' = Issued /\ \A m : Rows(m)' = Rows(m)
        BY SameLog DEF Learns
  <1>4. /\ Known(c)' = Known(c) \cup {n}
        /\ \A d \in Client \ {c} : Known(d)' = Known(d)
        /\ \A d \in Client : Draft(d)' = Draft(d)
        BY <1>1, LearnsKnown
  <1>5. /\ Draft(c) = {} /\ base[c] = None /\ Started(c) /\ Private(c) = {}
        BY InPassFacts DEF Learns
  <1>6. /\ \A d \in Client \ {c}, k \in Key : Writers(d, k)' = Writers(d, k)
        /\ \A k \in Key : Writers(c, k)' = Writers(c, k) \cup (IF k \in DOMAIN Rows(n) THEN {n} ELSE {})
        BY <1>3, <1>4 DEF Writers
  <1>7. \A d \in Client : Started(d)' = Started(d)
        BY <1>2 DEF Started
  <1>8. Private(c)' = {} /\ \A d \in Client \ {c} : Private(d)' = Private(d)
        BY <1>2, <1>4, <1>5, <1>7 DEF Private
  <1>9. LogInv'
        BY <1>2, <1>3 DEF RefInv, LogInv, GoodRow
  <1>10. ASSUME NEW d \in Client \ {c}
         PROVE  (Recorded(d) /\ Unheard(d) /\ Shown(d) /\ Based(d) /\ Spent(d))'
        <2>1. Recorded(d) /\ Unheard(d) /\ Shown(d) /\ Based(d) /\ Spent(d)
              BY DEF RefInv, RowsInv
        <2>2. Recorded(d)'
              BY <1>2, <1>6, <2>1 DEF Recorded
        <2>3. Unheard(d)' /\ Shown(d)' /\ Spent(d)'
              BY <1>2, <1>3, <1>4, <1>6, <1>7, <1>8, <2>1 DEF Unheard, Shown, Spent
        <2>4. Based(d)'
              BY <1>2, <1>3, <1>6, <2>1 DEF Based
        <2> QED BY <2>2, <2>3, <2>4
  <1>11. Recorded(c)'
        <2>1. SUFFICES ASSUME NEW k \in Key
                       PROVE  /\ rowHlc'[c][k] = 0 \/ \E m \in Writers(c, k)' : rowHlc'[c][k] = m.hlc
                              /\ \A m \in Writers(c, k)' : m.client = c => m.hlc <= rowHlc'[c][k]
              BY DEF Recorded
        <2>2. /\ rowHlc[c][k] \in Nat /\ rowHlc'[c][k] \in Nat
              /\ \A m \in Known(c) : m.hlc \in Nat
              BY ViewFacts DEF RefInv, Base, PassInv, TypeInv, TypeOK, ViewInv, Name
        <2>3. /\ rowHlc'[c][k] >= rowHlc[c][k]
              /\ \/ rowHlc'[c][k] = rowHlc[c][k]
                 \/ k \in DOMAIN Rows(n) /\ rowHlc'[c][k] = n.hlc
              BY DEF Learns
        <2>4. Recorded(c)
              BY DEF RefInv, RowsInv
        <2>5. \A m \in Writers(c, k)' : m.client = c => m \in Writers(c, k) /\ m.hlc \in Nat
              BY <1>1, <1>6, <2>2 DEF Writers
        <2>6. \A m \in Writers(c, k)' : m.client = c => m.hlc <= rowHlc'[c][k]
              BY <2>2, <2>3, <2>4, <2>5 DEF Recorded
        <2>7. rowHlc'[c][k] = 0 \/ \E m \in Writers(c, k)' : rowHlc'[c][k] = m.hlc
              BY <1>6, <2>3, <2>4 DEF Recorded
        <2> QED BY <2>6, <2>7
  <1>12. Unheard(c)' /\ Based(c)'
        BY <1>2, <1>5, <1>8 DEF Unheard, Based
  <1>13. \A k \in Key : db'[c][k] = IF k \in DOMAIN Rows(n) /\ \A m \in Writers(c, k) : Precedes(m, n)
                                      THEN Rows(n)[k].new ELSE db[c][k]
        BY DEF Learns
  <1>14. Shown(c)'
        BY <1>4, <1>5, <1>6, <1>7, <1>13 DEF Shown, RefInv, RowsInv
  <1>15. \A k \in DOMAIN Rows(n) : Rows(n)[k].new \notin Unused
        BY <1>1 DEF RefInv, LogInv, GoodRow, Issued
  <1>16. Spent(c)'
        BY <1>2, <1>5, <1>13, <1>15 DEF Spent, RefInv, RowsInv
  <1>17. \A d, e \in Client : d # e => Unlike(d, e)'
        BY <1>2, <1>8 DEF Unlike, RefInv, RowsInv
  <1> QED BY <1>9, <1>10, <1>11, <1>12, <1>14, <1>16, <1>17 DEF RowsInv

-----------------------------------------------------------------------------------
(* Issuing. *)

\* The change of a row of one column is its old and its new state.
LEMMA DiffOneColumn ==
  ASSUME \E x \in Col : Col = {x}, NEW before \in MaybeRow, NEW after \in MaybeRow,
         before # after
  PROVE  DiffRow(before, after).old = before /\ DiffRow(before, after).new = after
  <1>1. CASE before = None \/ after = None
        BY <1>1 DEF DiffRow
  <1>2. CASE before # None /\ after # None
        <2> DEFINE modified == {f \in Col : before[f] # after[f]}
        <2>1. before \in [Col -> Val] /\ after \in [Col -> Val]
              BY <1>2 DEF MaybeRow, Row
        <2>2. PICK x \in Col : Col = {x}
              OBVIOUS
        <2>3. before[x] # after[x]
              BY <2>1, <2>2
        <2>4. modified = Col
              BY <2>2, <2>3
        <2>5. Restrict(before, Col) = before /\ Restrict(after, Col) = after
              BY <2>1 DEF Restrict
        <2>6. DiffRow(before, after) =
                [old |-> Restrict(before, modified), new |-> Restrict(after, modified)]
              BY <1>2 DEF DiffRow
        <2> HIDE DEF modified
        <2> QED BY <2>4, <2>5, <2>6
  <1> QED BY <1>1, <1>2

\* The rows that a changeset of c is issued with: what c alone has, as it is now.
Offers(c, rows) ==
  /\ DOMAIN rows = Private(c) /\ Draft(c) \subseteq DOMAIN rows
  /\ \A k \in DOMAIN rows :
       /\ k \in Key /\ rows[k].new = db[c][k] /\ rows[k].old \in MaybeRow
       /\ rows[k].old # None => base[c] # None /\ rows[k].old = base[c].db[k]

LEMMA CapturedOffers ==
  ASSUME Steady, RefInv, NEW c \in Client, Started(c), base[c] # None
  PROVE  /\ Offers(c, Captured(c).rows)
         /\ DOMAIN Captured(c).stamps = {}
  <1>1. base[c].db \in [Key -> MaybeRow] /\ db[c] \in [Key -> MaybeRow]
        BY DEF RefInv, Base, PassInv, TypeInv, TypeOK, MaybeRow
  <1>2. /\ Captured(c).rows = Diff(base[c].db, db[c])
        /\ Captured(c).stamps = [k \in {x \in Key : base[c].rowHlc[x] # rowHlc[c][x]} |->
                                  [old |-> base[c].rowHlc[k], new |-> rowHlc[c][k]]]
        BY DEF Captured, Capture
  <1>3. base[c].rowHlc = rowHlc[c]
        BY DEF RefInv, Plain
  <1>4. /\ Draft(c) = {k \in Key : base[c].db[k] # db[c][k]}
        /\ \A k \in Draft(c) : Captured(c).rows[k] = DiffRow(base[c].db[k], db[c][k])
        BY <1>2 DEF Draft, Diff
  <1>5. \A k \in Draft(c) : /\ Captured(c).rows[k].new = db[c][k]
                            /\ Captured(c).rows[k].old = base[c].db[k]
                            /\ base[c].db[k] \in MaybeRow
        BY <1>1, <1>4, DiffOneColumn DEF Steady
  <1>6. Private(c) = Draft(c)
        BY DEF Private
  <1>7. DOMAIN Captured(c).stamps = {}
        BY <1>2, <1>3
  <1> QED BY <1>4, <1>5, <1>6, <1>7 DEF Offers, Draft

LEMMA SnapshotOffers ==
  ASSUME Steady, RefInv, NEW c \in Client, ~Started(c)
  PROVE  /\ Offers(c, Snapshot(db[c]).rows)
         /\ DOMAIN Snapshot(db[c]).stamps = {}
         /\ Draft(c) = {} /\ base[c] = None
  <1>0. DOMAIN << >> = {}
        OBVIOUS
  <1>1. base[c] = None /\ db[c] \in [Key -> MaybeRow]
        BY DEF RefInv, Base, PassInv, SessionsQuiet, TypeInv, TypeOK, MaybeRow, Started
  <1>2. Draft(c) = {}
        BY <1>0, <1>1 DEF Draft, Captured
  <1> DEFINE nothing == [k \in Key |-> None]
  <1>3. Snapshot(db[c]).rows = Diff(nothing, db[c]) /\ Snapshot(db[c]).stamps = << >>
        BY DEF Snapshot
  <1>4. /\ DOMAIN Diff(nothing, db[c]) = {k \in Key : db[c][k] # None}
        /\ \A k \in Key : db[c][k] # None =>
             Diff(nothing, db[c])[k] = [old |-> None, new |-> db[c][k]]
        BY DEF Diff, DiffRow
  <1> HIDE DEF nothing
  <1> DEFINE rows == Snapshot(db[c]).rows
  <1>6. DOMAIN Snapshot(db[c]).stamps = {} /\ rows = Diff(nothing, db[c])
        BY <1>0, <1>3
  <1> HIDE DEF rows
  <1>5. /\ DOMAIN rows = {k \in Key : db[c][k] # None}
        /\ \A k \in DOMAIN rows : k \in Key /\ rows[k] = [old |-> None, new |-> db[c][k]]
        BY <1>4, <1>6
  <1>7. Offers(c, rows)
        <2>1. DOMAIN rows = Private(c)
              BY <1>5 DEF Private
        <2>2. \A k \in DOMAIN rows : /\ k \in Key /\ rows[k].new = db[c][k]
                                     /\ rows[k].old = None /\ rows[k].old \in MaybeRow
              <3>1. SUFFICES ASSUME NEW k \in DOMAIN rows
                             PROVE  /\ k \in Key /\ rows[k].new = db[c][k]
                                    /\ rows[k].old = None /\ None \in MaybeRow
                    OBVIOUS
              <3>2. k \in Key /\ rows[k] = [old |-> None, new |-> db[c][k]]
                    BY <1>5
              <3> QED BY <3>2 DEF MaybeRow
        <2> QED BY <1>2, <2>1, <2>2 DEF Offers
  <1> QED BY <1>1, <1>2, <1>6, <1>7 DEF rows

\* What a step that stamps changeset n comes to.
Issues(c, n, rows) ==
  /\ n \in Name /\ n.client = c /\ n.hlc > 0 /\ n \notin Issued
  /\ \A m \in Known(c) : m.hlc < n.hlc
  /\ Issued' = Issued \cup {n}
  /\ Rows(n)' = rows /\ \A m \in Issued : Rows(m)' = Rows(m)
  /\ Known(c)' = Known(c) \cup {n} /\ \A d \in Client \ {c} : Known(d)' = Known(d)
  /\ \A d \in Client : Taken(d)' = Taken(d)
  /\ base'[c] = None /\ \A d \in Client \ {c} : base'[d] = base[d]
  /\ \A k \in Key : rowHlc'[c][k] = IF k \in DOMAIN rows THEN n.hlc ELSE rowHlc[c][k]
  /\ \A d \in Client \ {c} : rowHlc'[d] = rowHlc[d] /\ pc'[d] = pc[d] /\ out'[d] = out[d]
  /\ pc'[c] \in {"publish", "snapshot"}
  /\ out'[c].name = n /\ out'[c].content.rows = rows
  /\ UNCHANGED <<db, applied, cur, todo, deferred, folder, seen, torn, tables, version, writes>>

\* Both ends of a handler's first half: the captured rows and the snapshot of start().
LEMMA StampIssues ==
  ASSUME Steady, RefInv, TypeInv', HasRoom, NEW c \in Client, pc[c] \in {"idle", "stopped"},
         NEW content, NEW w \in Wall, NEW next \in {"publish", "snapshot"},
         Stamp(c, content, Now(clock[c], w), next),
         base' = [base EXCEPT ![c] = None],
         UNCHANGED <<db, applied, tables, version, syncing, shared, writes>>
  PROVE  \E n : /\ Issues(c, n, content.rows)
                /\ n.ver = TopVersion /\ out'[c].content = content
  <1> DEFINE h == Now(clock[c], w)
  <1>1. /\ clock[c] \in Nat /\ w \in Nat
        /\ DOMAIN rowHlc = Client /\ DOMAIN out = Client /\ DOMAIN pc = Client
        /\ DOMAIN base = Client
        BY SyncEngineAssumption DEF RefInv, Base, PassInv, TypeInv, TypeOK, Places
  <1>2. h \in Nat /\ h > clock[c]
        BY <1>1, NowPhysical, NowAdvances DEF HasRoom, NowWraps
  <1> HIDE DEF h
  <1>0. PICK n : n = NextName(c, h)
        OBVIOUS
  <1>3. /\ rowHlc' = [rowHlc EXCEPT ![c] = Stamped(c, content, h)]
        /\ out' = [out EXCEPT ![c] = [name |-> n, content |-> content]]
        /\ pc' = [pc EXCEPT ![c] = next]
        BY <1>0 DEF Stamp, h
  <1>4. /\ rowHlc'[c] = Stamped(c, content, h)
        /\ out'[c].name = n /\ out'[c].content = content /\ pc'[c] = next
        /\ \A d \in Client \ {c} : rowHlc'[d] = rowHlc[d] /\ pc'[d] = pc[d] /\ out'[d] = out[d]
        /\ base'[c] = None /\ \A d \in Client \ {c} : base'[d] = base[d]
        BY <1>1, <1>3
  <1>5. n \in Name /\ n.client = c /\ n.hlc = h /\ n.ver = TopVersion
        BY <1>0, <1>2, SyncEngineAssumption
           DEF NextName, Name, RefInv, Plain, Base, PassInv, TypeInv, TypeOK
  <1>6. c \notin Unwritten /\ c \in Unwritten' /\ Unwritten' = Unwritten \cup {c}
        BY <1>4 DEF Unwritten
  <1>7. /\ Known(c) = applied[c] /\ Known(c)' = Known(c) \cup {n}
        /\ \A d \in Client \ {c} : Known(d)' = Known(d)
        /\ \A d \in Client : Taken(d)' = Taken(d)
        <2>1. cur[c] = None /\ UNCHANGED <<applied, cur>>
              BY DEF syncing, RefInv, Base, PassInv, TypeInv, Places
        <2> QED BY <1>4, <1>6, <2>1 DEF Known, Taken
  <1>8. \A m \in Known(c) : m.hlc < n.hlc
        <2>1. \A m \in applied[c] : m.hlc \in Nat /\ m.hlc <= clock[c]
              BY DEF RefInv, Base, ClockInv, Timely, Covers, PassInv, TypeInv, TypeOK, Name
        <2> QED BY <1>1, <1>2, <1>5, <1>7, <2>1
  <1>9. n \notin Issued
        BY <1>2, <1>5, <1>8, ViewFacts DEF RefInv, ViewInv
  <1>10. UNCHANGED folder /\ n \notin DOMAIN folder
        BY <1>9 DEF shared, Issued
  <1>11. Issued' = Issued \cup {n}
        <2>1. {out[d].name : d \in Unwritten}' = {out[d].name : d \in Unwritten} \cup {n}
              <3>1. {out[d].name : d \in Unwritten}' = {out'[d].name : d \in Unwritten'}
                    OBVIOUS
              <3>2. \A d \in Unwritten : d # c /\ out'[d] = out[d]
                    BY <1>4, <1>6 DEF Unwritten
              <3> QED BY <1>4, <1>6, <3>1, <3>2
        <2> QED BY <1>10, <2>1 DEF Issued
  <1>12. Rows(n)' = content.rows
        <2>0. \A d \in Unwritten : d # c /\ out'[d] = out[d] /\ out[d].name # n
              BY <1>4, <1>6, <1>9 DEF Issued, Unwritten
        <2>1. \A d \in Unwritten' : out'[d].name = n <=> d = c
              BY <1>4, <1>6, <2>0
        <2>2. (CHOOSE d \in Unwritten' : out'[d].name = n) = c
              BY <1>6, <2>1
        <2>3. Rows(n)' = IF n \in DOMAIN folder' THEN folder'[n].rows
                           ELSE out'[CHOOSE d \in Unwritten' : out'[d].name = n].content.rows
              BY DEF Rows
        <2> QED BY <1>4, <1>10, <2>2, <2>3
  <1>13. ASSUME NEW m \in Issued
         PROVE  Rows(m)' = Rows(m)
        <2>1. CASE m \in DOMAIN folder
              BY <1>10, <2>1 DEF Rows
        <2>2. CASE m \notin DOMAIN folder
              <3>1. \A d : (d \in Unwritten' /\ out'[d].name = m) <=> (d \in Unwritten /\ out[d].name = m)
                    BY <1>4, <1>6, <1>9 DEF Unwritten
              <3>2. (CHOOSE d \in Unwritten' : out'[d].name = m) = (CHOOSE d \in Unwritten : out[d].name = m)
                    BY <3>1
              <3>3. \E d \in Unwritten : out[d].name = m
                    BY <2>2 DEF Issued
              <3>4. (CHOOSE d \in Unwritten : out[d].name = m) \in Unwritten
                    BY <3>3
              <3>5. \A d \in Unwritten : out'[d] = out[d]
                    BY <1>4, <1>6 DEF Unwritten
              <3>6. /\ Rows(m)' = IF m \in DOMAIN folder' THEN folder'[m].rows
                           ELSE out'[CHOOSE d \in Unwritten' : out'[d].name = m].content.rows
                    /\ Rows(m) = IF m \in DOMAIN folder THEN folder[m].rows
                           ELSE out[CHOOSE d \in Unwritten : out[d].name = m].content.rows
                    BY DEF Rows
              <3> QED BY <1>10, <2>2, <3>2, <3>4, <3>5, <3>6
        <2> QED BY <2>1, <2>2
  <1>14. \A k \in Key : rowHlc'[c][k] = IF k \in DOMAIN content.rows THEN n.hlc ELSE rowHlc[c][k]
        BY <1>4, <1>5 DEF Stamped
  <1>15. UNCHANGED <<db, applied, cur, todo, deferred, folder, seen, torn, tables, version, writes>>
        BY DEF syncing, shared
  <1>16. n.hlc > 0
        BY <1>1, <1>2, <1>5
  <1>17. Issues(c, n, content.rows)
        BY <1>4, <1>5, <1>7, <1>8, <1>9, <1>11, <1>12, <1>13, <1>14, <1>15, <1>16 DEF Issues
  <1> QED BY <1>4, <1>5, <1>17

\* What is private and what is known after c has issued its rows.
LEMMA IssueFacts ==
  ASSUME Steady, RefInv, TypeInv', NEW c \in Client, NEW n, NEW rows, Issues(c, n, rows)
  PROVE  /\ Draft(c)' = {} /\ \A d \in Client \ {c} : Draft(d)' = Draft(d)
         /\ Started(c)' /\ \A d \in Client \ {c} : Started(d)' = Started(d)
         /\ Private(c)' = {} /\ \A d \in Client \ {c} : Private(d)' = Private(d)
         /\ \A d \in Client \ {c}, k \in Key : Writers(d, k)' = Writers(d, k)
         /\ \A k \in Key : Writers(c, k)' =
              Writers(c, k) \cup (IF k \in DOMAIN rows THEN {n} ELSE {})
  <1>0. DOMAIN << >> = {}
        OBVIOUS
  <1>1. Draft(c)' = {}
        BY <1>0 DEF Issues, Draft, Captured
  <1>2. \A d \in Client \ {c} : Draft(d)' = Draft(d)
        BY SameDraft DEF Issues
  <1>3. Started(c)' /\ \A d \in Client \ {c} : Started(d)' = Started(d)
        BY DEF Issues, Started
  <1>4. Private(c)' = {} /\ \A d \in Client \ {c} : Private(d)' = Private(d)
        BY <1>1, <1>2, <1>3 DEF Private, Issues
  <1>5. \A d \in Client : Known(d) \subseteq Issued
        BY ViewFacts DEF RefInv, ViewInv
  <1>6. \A d \in Client \ {c}, k \in Key : Writers(d, k)' = Writers(d, k)
        <2>1. SUFFICES ASSUME NEW d \in Client \ {c}, NEW k \in Key
                       PROVE  Writers(d, k)' = Writers(d, k)
              OBVIOUS
        <2>2. Known(d)' = Known(d) /\ \A m \in Known(d) : Rows(m)' = Rows(m)
              BY <1>5 DEF Issues
        <2> QED BY <2>2 DEF Writers
  <1>7. \A k \in Key : Writers(c, k)' =
              Writers(c, k) \cup (IF k \in DOMAIN rows THEN {n} ELSE {})
        <2>1. SUFFICES ASSUME NEW k \in Key
                       PROVE  Writers(c, k)' =
                                Writers(c, k) \cup (IF k \in DOMAIN rows THEN {n} ELSE {})
              OBVIOUS
        <2>2. /\ Known(c)' = Known(c) \cup {n} /\ Rows(n)' = rows
              /\ \A m \in Known(c) : Rows(m)' = Rows(m)
              BY <1>5 DEF Issues
        <2> QED BY <2>2 DEF Writers
  <1> QED BY <1>1, <1>2, <1>3, <1>4, <1>6, <1>7

LEMMA IssueRefines ==
  ASSUME Steady, RefInv, TypeInv', NEW c \in Client, NEW n, NEW rows,
         Issues(c, n, rows), Offers(c, rows)
  PROVE  Abstract!Announce(c)
  <1>1. /\ DOMAIN AbstractLog = Issued /\ DOMAIN AbstractLog' = Issued \cup {n}
        /\ n \notin Issued
        BY DEF AbstractLog, Issues
  <1>2. n \in Abstract!Name /\ n.client = c /\ \A m \in Known(c) : Abstract!Precedes(m, n)
        BY DEF Issues, Abstract!Name, Name, Abstract!Precedes
  <1>3. DOMAIN rows \in SUBSET Key /\ Draft(c) \subseteq DOMAIN rows
        BY DEF Offers
  <1>4. AbstractLog' = [m \in DOMAIN AbstractLog \cup {n} |->
                          IF m = n THEN [k \in DOMAIN rows |-> db[c][k]] ELSE AbstractLog[m]]
        <2>1. AbstractLog' = [m \in Issued \cup {n} |-> [k \in DOMAIN Rows(m)' |-> Rows(m)'[k].new]]
              BY DEF AbstractLog, Issues
        <2>2. ASSUME NEW m \in Issued
              PROVE  [k \in DOMAIN Rows(m)' |-> Rows(m)'[k].new] = AbstractLog[m]
              BY DEF AbstractLog, Issues
        <2>3. [k \in DOMAIN Rows(n)' |-> Rows(n)'[k].new] = [k \in DOMAIN rows |-> db[c][k]]
              <3>1. Rows(n)' = rows /\ \A k \in DOMAIN rows : rows[k].new = db[c][k]
                    BY DEF Issues, Offers
              <3> QED BY <3>1
        <2> QED BY <1>1, <2>1, <2>2, <2>3
  <1>5. AbstractKnown' = [AbstractKnown EXCEPT ![c] = @ \cup {n}]
        BY DEF AbstractKnown, Issues
  <1>6. AbstractDraft' = [AbstractDraft EXCEPT ![c] = {}]
        BY IssueFacts DEF AbstractDraft
  <1>7. AbstractKnown[c] = Known(c) /\ AbstractDraft[c] = Draft(c) /\ UNCHANGED db
        BY DEF AbstractKnown, AbstractDraft, Issues
  <1> QED BY <1>1, <1>2, <1>3, <1>4, <1>5, <1>6, <1>7 DEF Abstract!Announce

LEMMA IssuePlain ==
  ASSUME Steady, RefInv, TypeInv', NEW c \in Client, NEW n, NEW rows, Issues(c, n, rows),
         n.ver = TopVersion, DOMAIN out'[c].content.stamps = {}
  PROVE  Plain' /\ InOrder'
  <1>1. /\ UNCHANGED <<db, applied, cur, todo, deferred, folder, seen, torn, tables, version>>
        /\ \A d \in Client : Taken(d)' = Taken(d)
        /\ \A d \in Client \ {c} : /\ rowHlc'[d] = rowHlc[d] /\ pc'[d] = pc[d]
                                   /\ out'[d] = out[d] /\ base'[d] = base[d]
        /\ base'[c] = None /\ out'[c].name = n
        BY DEF Issues
  <1>2. Started(c)' /\ \A d \in Client \ {c} : Started(d)' = Started(d)
        BY IssueFacts
  <1>3. Plain'
        BY <1>1, <1>2 DEF RefInv, Plain
  <1>4. InOrder'
        BY <1>1 DEF RefInv, InOrder
  <1> QED BY <1>3, <1>4

LEMMA IssueRows ==
  ASSUME Steady, RefInv, TypeInv', NEW c \in Client, NEW n, NEW rows,
         Issues(c, n, rows), Offers(c, rows)
  PROVE  LogInv' /\ RowsInv'
  <1>1. /\ Draft(c)' = {} /\ \A d \in Client \ {c} : Draft(d)' = Draft(d)
        /\ Started(c)' /\ \A d \in Client \ {c} : Started(d)' = Started(d)
        /\ Private(c)' = {} /\ \A d \in Client \ {c} : Private(d)' = Private(d)
        /\ \A d \in Client \ {c}, k \in Key : Writers(d, k)' = Writers(d, k)
        /\ \A k \in Key : Writers(c, k)' =
             Writers(c, k) \cup (IF k \in DOMAIN rows THEN {n} ELSE {})
        BY IssueFacts
  <1>2. ViewInv
        BY ViewFacts DEF RefInv
  <1>3. /\ Issued' = Issued \cup {n} /\ n \notin Issued /\ n \in Name /\ n.client = c
        /\ n.hlc > 0 /\ n.hlc \in Nat /\ \A m \in Known(c) : m.hlc < n.hlc
        /\ Rows(n)' = rows /\ \A m \in Issued : Rows(m)' = Rows(m)
        /\ UNCHANGED <<db, writes>> /\ Unused' = Unused
        BY NameFields DEF Issues, Unused
  <1>4. \A m \in Issued : m.client = c => m \in Known(c) /\ m.hlc < n.hlc
        BY <1>2, <1>3 DEF ViewInv
  <1>5. ASSUME NEW k \in DOMAIN rows
        PROVE  /\ k \in Key /\ k \in Private(c) /\ rows[k].new = db[c][k]
               /\ rows[k].new \in Row /\ rows[k].new \notin Unused
               /\ rows[k].old \in MaybeRow
               /\ \A m \in Issued : k \in DOMAIN Rows(m) => Rows(m)[k].new # rows[k].new
        <2>1. k \in Key /\ k \in Private(c) /\ rows[k].new = db[c][k] /\ rows[k].old \in MaybeRow
              BY DEF Offers
        <2>2. db[c][k] \in Row
              BY <2>1 DEF RefInv, RowsInv, Unheard, Base, PassInv, TypeInv, TypeOK
        <2>3. db[c][k] \notin Unused
              BY <2>1 DEF RefInv, RowsInv, Spent
        <2>4. \A m \in Issued : k \in DOMAIN Rows(m) => Rows(m)[k].new # db[c][k]
              BY <2>1 DEF RefInv, RowsInv, Unheard
        <2> QED BY <2>1, <2>2, <2>3, <2>4
  <1>6. ASSUME NEW k \in DOMAIN rows, rows[k].old # None
        PROVE  \E t \in Issued : k \in DOMAIN Rows(t) /\ Rows(t)[k].new = rows[k].old /\ Precedes(t, n)
        <2>1. base[c] # None /\ rows[k].old = base[c].db[k] /\ k \in Key
              BY <1>6 DEF Offers
        <2>2. PICK t \in Writers(c, k) : Rows(t)[k].new = rows[k].old
              BY <1>6, <2>1 DEF RefInv, RowsInv, Based
        <2>3. t \in Known(c) /\ t \in Issued /\ k \in DOMAIN Rows(t) /\ t.hlc < n.hlc
              BY <1>2, <1>3 DEF Writers, ViewInv
        <2> QED BY <2>2, <2>3 DEF Precedes
  <1>7. \A m \in Issued' : m.hlc > 0 /\ \A k \in DOMAIN Rows(m)' : GoodRow(m, k)'
        <2>1. ASSUME NEW m \in Issued, NEW k \in DOMAIN Rows(m)'
              PROVE  GoodRow(m, k)'
              <3>1. GoodRow(m, k)
                    BY <1>3 DEF RefInv, LogInv
              <3>2. Rows(m)[k].old # None =>
                      \E t \in Issued' : /\ k \in DOMAIN Rows(t)' /\ Rows(t)'[k].new = Rows(m)[k].old
                                         /\ Precedes(t, m)
                    BY <1>3, <3>1 DEF GoodRow
              <3> QED BY <1>3, <3>1, <3>2 DEF GoodRow
        <2>2. ASSUME NEW k \in DOMAIN Rows(n)'
              PROVE  GoodRow(n, k)'
              <3>1. k \in DOMAIN rows
                    BY <1>3
              <3>2. rows[k].old # None =>
                      \E t \in Issued' : /\ k \in DOMAIN Rows(t)' /\ Rows(t)'[k].new = rows[k].old
                                         /\ Precedes(t, n)
                    BY <1>3, <1>6, <3>1
              <3> QED BY <1>3, <1>5, <3>1, <3>2 DEF GoodRow
        <2> QED BY <1>3, <2>1, <2>2 DEF RefInv, LogInv
  <1>8. \A a, b \in Issued' : a.client = b.client /\ a.hlc = b.hlc => a = b
        BY <1>2, <1>3, <1>4, NameFields DEF RefInv, LogInv, ViewInv
  <1>9. \A a, b \in Issued' : \A k \in DOMAIN Rows(a)' \cap DOMAIN Rows(b)' :
          Rows(a)'[k].new = Rows(b)'[k].new => a = b
        BY <1>3, <1>5 DEF RefInv, LogInv
  <1>10. LogInv'
        BY <1>7, <1>8, <1>9 DEF LogInv
  <1>11. Recorded(c)'
        <2>1. SUFFICES ASSUME NEW k \in Key
                       PROVE  /\ rowHlc'[c][k] = 0 \/ \E m \in Writers(c, k)' : rowHlc'[c][k] = m.hlc
                              /\ \A m \in Writers(c, k)' : m.client = c => m.hlc <= rowHlc'[c][k]
              BY DEF Recorded
        <2>2. rowHlc'[c][k] = IF k \in DOMAIN rows THEN n.hlc ELSE rowHlc[c][k]
              BY DEF Issues
        <2>3. \A m \in Writers(c, k) : m.hlc \in Nat /\ m.hlc < n.hlc
              BY <1>2, <1>3, NameFields DEF Writers, ViewInv
        <2>4. Recorded(c)
              BY DEF RefInv, RowsInv
        <2> QED BY <1>1, <1>3, <2>2, <2>3, <2>4 DEF Recorded
  <1>12. Unheard(c)' /\ Based(c)' /\ Spent(c)'
        BY <1>1, <1>3 DEF Unheard, Based, Spent, Issues, RefInv, RowsInv
  <1>13. Shown(c)'
        <2>1. SUFFICES ASSUME NEW k \in Key, Writers(c, k)' = {} PROVE db[c][k] = None
              BY <1>3 DEF Shown
        <2>2. Writers(c, k) = {} /\ k \notin Private(c)
              BY <1>1, <2>1 DEF Offers
        <2>3. CASE Started(c)
              BY <2>2, <2>3 DEF Private, RefInv, RowsInv, Shown
        <2>4. CASE ~Started(c)
              BY <2>2, <2>4 DEF Private
        <2> QED BY <2>3, <2>4
  <1>14. ASSUME NEW d \in Client \ {c}
         PROVE  (Recorded(d) /\ Unheard(d) /\ Shown(d) /\ Based(d) /\ Spent(d))'
        <2>1. Recorded(d) /\ Unheard(d) /\ Shown(d) /\ Based(d) /\ Spent(d) /\ Unlike(c, d)
              BY DEF RefInv, RowsInv
        <2>2. base'[d] = base[d] /\ rowHlc'[d] = rowHlc[d]
              BY DEF Issues
        <2>3. Recorded(d)' /\ Shown(d)' /\ Spent(d)'
              BY <1>1, <1>3, <2>1, <2>2 DEF Recorded, Shown, Spent
        <2>4. Based(d)'
              <3>1. \A k \in Key : \A t \in Writers(d, k) : Rows(t)' = Rows(t)
                    BY <1>2, <1>3 DEF Writers, ViewInv
              <3> QED BY <1>1, <2>1, <2>2, <3>1 DEF Based
        <2>5. Unheard(d)'
              <3>1. \A k \in Private(d) : k \in DOMAIN rows => rows[k].new # db[d][k]
                    BY <1>5, <2>1 DEF Unlike
              <3> QED BY <1>1, <1>3, <2>1, <3>1 DEF Unheard
        <2> QED BY <2>3, <2>4, <2>5
  <1>15. \A d, e \in Client : d # e => Unlike(d, e)'
        BY <1>1, <1>3 DEF Unlike, RefInv, RowsInv
  <1> QED BY <1>10, <1>11, <1>12, <1>13, <1>14, <1>15 DEF RowsInv

-----------------------------------------------------------------------------------
(* The steps that change nothing abstract. *)

\* Nothing is learnt, edited or issued; c may begin or end a session, and may start an
\* engine over an empty database.
Silent(c) ==
  /\ Issued' = Issued /\ \A n \in Issued : Rows(n)' = Rows(n)
  /\ \A d \in Client : Known(d)' = Known(d) /\ Draft(d)' = Draft(d)
  /\ \A d \in Client \ {c} : base'[d] = base[d] /\ Started(d)' = Started(d)
  /\ base'[c] \in {base[c], None} \/ (base'[c] = Here(c) /\ Started(c) /\ Draft(c) = {})
  /\ Started(c)' = Started(c) \/ (~Started(c) /\ \A k \in Key : db[c][k] = None)
  /\ UNCHANGED <<db, rowHlc, writes>>

LEMMA SilentKeeps ==
  ASSUME Steady, RefInv, TypeInv', NEW c \in Client, Silent(c)
  PROVE  UNCHANGED Abstract!abstract /\ LogInv' /\ RowsInv'
  <1>1. ViewInv
        BY ViewFacts DEF RefInv
  <1>2. /\ Issued' = Issued /\ \A n \in Issued : Rows(n)' = Rows(n)
        /\ \A d \in Client : Known(d)' = Known(d) /\ Draft(d)' = Draft(d)
        /\ \A d \in Client \ {c} : base'[d] = base[d] /\ Started(d)' = Started(d)
        /\ UNCHANGED <<db, rowHlc, writes>> /\ Unused' = Unused
        BY DEF Silent, Unused
  <1>3. AbstractLog' = AbstractLog
        BY <1>2 DEF AbstractLog
  <1>4. AbstractKnown' = AbstractKnown /\ AbstractDraft' = AbstractDraft
        BY <1>2 DEF AbstractKnown, AbstractDraft
  <1>5. ASSUME NEW d \in Client
        PROVE  Private(d)' = Private(d)
        <2>1. CASE Started(d)' = Started(d)
              BY <1>2, <2>1 DEF Private
        <2>2. CASE Started(d)' # Started(d)
              <3>1. d = c /\ ~Started(c) /\ \A k \in Key : db[c][k] = None
                    BY <1>2, <2>2 DEF Silent
              <3>2. Draft(c) = {}
                    BY <3>1, SnapshotOffers
              <3> QED BY <1>2, <3>1, <3>2 DEF Private
        <2> QED BY <2>1, <2>2
  <1>6. ASSUME NEW d \in Client, NEW k \in Key
        PROVE  /\ Writers(d, k)' = Writers(d, k)
               /\ \A t \in Writers(d, k) : t \in Issued /\ Rows(t)' = Rows(t)
        <2>1. Known(d)' = Known(d) /\ \A m \in Known(d) : m \in Issued /\ Rows(m)' = Rows(m)
              BY <1>1, <1>2 DEF ViewInv
        <2> QED BY <2>1 DEF Writers
  <1>7. LogInv'
        <2>1. ASSUME NEW n \in Issued, NEW k \in DOMAIN Rows(n)'
              PROVE  GoodRow(n, k)'
              <3>1. GoodRow(n, k)
                    BY <1>2 DEF RefInv, LogInv
              <3>2. Rows(n)[k].old # None =>
                      \E t \in Issued' : /\ k \in DOMAIN Rows(t)' /\ Rows(t)'[k].new = Rows(n)[k].old
                                         /\ Precedes(t, n)
                    BY <1>2, <3>1 DEF GoodRow
              <3> QED BY <1>2, <3>1, <3>2 DEF GoodRow
        <2> QED BY <1>2, <2>1 DEF RefInv, LogInv
  <1>8. ASSUME NEW d \in Client
        PROVE  (Recorded(d) /\ Unheard(d) /\ Shown(d) /\ Based(d) /\ Spent(d))'
        <2>1. Recorded(d) /\ Unheard(d) /\ Shown(d) /\ Based(d) /\ Spent(d)
              BY DEF RefInv, RowsInv
        <2>2. Recorded(d)'
              BY <1>2, <1>6, <2>1 DEF Recorded
        <2>3. Unheard(d)'
              BY <1>2, <1>5, <2>1 DEF Unheard
        <2>4. Shown(d)'
              BY <1>2, <1>6, <2>1 DEF Shown, Silent
        <2>5. Based(d)' /\ Spent(d)'
              <3>1. CASE base'[d] \in {base[d], None}
                    <4>1. Based(d)'
                          BY <1>6, <2>1, <3>1 DEF Based
                    <4>2. Spent(d)'
                          BY <1>2, <2>1, <3>1 DEF Spent
                    <4> QED BY <4>1, <4>2
              <3>2. CASE base'[d] \notin {base[d], None}
                    <4>1. d = c /\ base'[c] = Here(c) /\ Started(c) /\ Draft(c) = {}
                          BY <1>2, <3>2 DEF Silent
                    <4>2. base'[d].db = db[d]
                          BY <4>1 DEF Here
                    <4>3. ASSUME NEW k \in Key, db[d][k] # None
                          PROVE  \E t \in Writers(d, k)' : Rows(t)'[k].new = db[d][k]
                          <5>1. Writers(d, k) # {} /\ k \notin Draft(d)
                                BY <2>1, <4>1, <4>3 DEF Shown
                          <5>2. PICK t \in Writers(d, k) : db[d][k] = Rows(t)[k].new
                                BY <1>1, <5>1 DEF ViewInv
                          <5> QED BY <1>6, <5>2
                    <4>4. Based(d)'
                          BY <4>2, <4>3 DEF Based
                    <4>5. Spent(d)'
                          BY <1>2, <2>1, <4>2 DEF Spent
                    <4> QED BY <4>4, <4>5
              <3> QED BY <3>1, <3>2
        <2> QED BY <2>2, <2>3, <2>4, <2>5
  <1>9. \A d, e \in Client : d # e => Unlike(d, e)'
        BY <1>2, <1>5 DEF Unlike, RefInv, RowsInv
  <1> QED BY <1>2, <1>3, <1>4, <1>7, <1>8, <1>9 DEF RowsInv, Abstract!abstract

\* A step that leaves files, places and marks alone.
LEMMA StillKnown ==
  ASSUME UNCHANGED <<folder, out, applied, cur>>, Unwritten' = Unwritten
  PROVE  /\ Issued' = Issued /\ \A n : Rows(n)' = Rows(n)
         /\ \A d \in Client : Known(d)' = Known(d) /\ Taken(d)' = Taken(d)
  BY DEF Issued, Rows, Known, Taken

LEMMA ConstructQuiet ==
  ASSUME Steady, RefInv, TypeInv', NEW c \in Client, Construct(c)
  PROVE  Silent(c) /\ Plain' /\ InOrder'
  <1>1. /\ UNCHANGED <<db, rowHlc, applied, tables, version, base, out, todo, deferred, cur,
                       folder, seen, torn, writes>>
        /\ pc[c] = "down" /\ pc'[c] = "stopped" /\ \A d \in Client \ {c} : pc'[d] = pc[d]
        BY DEF Construct, durable, session, syncing, shared, budget, RefInv, Base, PassInv,
               TypeInv, TypeOK
  <1>2. Unwritten' = Unwritten /\ \A d \in Client : Started(d)' = Started(d)
        BY <1>1 DEF Unwritten, Started
  <1>3. /\ Issued' = Issued /\ \A n : Rows(n)' = Rows(n)
        /\ \A d \in Client : Known(d)' = Known(d) /\ Taken(d)' = Taken(d)
        BY <1>1, <1>2, StillKnown
  <1>4. \A d \in Client : Draft(d)' = Draft(d)
        BY <1>1, SameDraft
  <1>6. Silent(c)
        BY <1>1, <1>2, <1>3, <1>4 DEF Silent
  <1>7. Plain'
        BY <1>1, <1>2, <1>3 DEF RefInv, Plain, Busy
  <1>8. InOrder'
        BY <1>1, <1>3 DEF RefInv, InOrder
  <1> QED BY <1>6, <1>7, <1>8

\* start() finds nothing to publish when it has never written a file only if it has no row.
LEMMA StartQuiet ==
  ASSUME Steady, RefInv, TypeInv', NEW c \in Client, StartWithoutSnapshot(c)
  PROVE  Silent(c) /\ Plain' /\ InOrder'
  <1>1. /\ UNCHANGED <<db, rowHlc, applied, tables, version, out, todo, deferred, cur,
                       folder, seen, torn, writes>>
        /\ pc[c] = "stopped" /\ pc'[c] = "list" /\ \A d \in Client \ {c} : pc'[d] = pc[d]
        BY DEF StartWithoutSnapshot, durable, syncing, shared, budget, RefInv, Base, PassInv,
               TypeInv, TypeOK
  <1>2. base'[c] = None /\ \A d \in Client \ {c} : base'[d] = base[d]
        BY DEF StartWithoutSnapshot, InstallHook, Steady, RefInv, Base, PassInv, TypeInv, Places
  <1>3. /\ ~Started(c) /\ Started(c)' /\ \A d \in Client \ {c} : Started(d)' = Started(d)
        /\ Unwritten' = Unwritten
        BY <1>1 DEF Unwritten, Started
  <1>4. base[c] = None /\ Draft(c) = {}
        BY <1>3, SnapshotOffers
  <1>5. /\ Issued' = Issued /\ \A n : Rows(n)' = Rows(n)
        /\ \A d \in Client : Known(d)' = Known(d) /\ Taken(d)' = Taken(d)
        BY <1>1, <1>3, StillKnown
  <1>6. \A d \in Client : Draft(d)' = Draft(d)
        BY <1>1, <1>2, <1>4, SameDraft
  <1>7. \A k \in Key : db[c][k] = None
        <2>1. \A n \in seen[c] : n.client # c
              <3>1. SUFFICES ASSUME NEW n \in seen[c], n.client = c PROVE FALSE
                    OBVIOUS
              <3>2. n \in Issued
                    BY <3>1 DEF RefInv, Plain, Issued
              <3>3. n \in Known(c)
                    BY <3>1, <3>2, ViewFacts DEF RefInv, ViewInv
              <3>4. Known(c) = Taken(c)
                    BY <1>1 DEF Known, Taken, Unwritten
              <3> QED BY <1>3, <3>3, <3>4 DEF RefInv, Plain
        <2>2. ~(tables[c] # {} /\ ~IsEmpty(Snapshot(db[c])))
              BY <2>1 DEF StartWithoutSnapshot, NeedsSnapshot, LooksForRows
        <2>3. CASE tables[c] = {}
              BY <2>3, TableOfAssumption DEF RefInv, Plain
        <2>4. CASE IsEmpty(Snapshot(db[c]))
              <3>1. Private(c) = {}
                    BY <1>3, <2>4, SnapshotOffers DEF IsEmpty, Offers
              <3> QED BY <1>3, <3>1 DEF Private
        <2> QED BY <2>2, <2>3, <2>4
  <1>8. Silent(c)
        BY <1>1, <1>2, <1>3, <1>5, <1>6, <1>7 DEF Silent
  <1>9. Plain'
        BY <1>1, <1>2, <1>3, <1>5 DEF RefInv, Plain, Busy
  <1>10. InOrder'
        BY <1>1, <1>5 DEF RefInv, InOrder
  <1> QED BY <1>8, <1>9, <1>10

LEMMA BeginWriteQuiet ==
  ASSUME Steady, RefInv, TypeInv', NEW c \in Client, BeginWrite(c)
  PROVE  Silent(c) /\ Plain' /\ InOrder'
  <1>0. DOMAIN << >> = {}
        OBVIOUS
  <1>1. /\ UNCHANGED <<db, rowHlc, applied, tables, version, pc, out, todo, deferred, cur,
                       folder, seen, torn, writes>>
        /\ pc[c] = "idle" /\ base[c] = None
        BY DEF BeginWrite, Ready, durable, syncing, shared, budget, RefInv, Base, PassInv,
               SessionsQuiet
  <1>2. base'[c] = Here(c) /\ \A d \in Client \ {c} : base'[d] = base[d]
        BY DEF BeginWrite, RefInv, Base, PassInv, TypeInv, Places
  <1>3. Unwritten' = Unwritten /\ Started(c) /\ \A d \in Client : Started(d)' = Started(d)
        BY <1>1 DEF Unwritten, Started
  <1>4. /\ Issued' = Issued /\ \A n : Rows(n)' = Rows(n)
        /\ \A d \in Client : Known(d)' = Known(d) /\ Taken(d)' = Taken(d)
        BY <1>1, <1>3, StillKnown
  <1>5. Draft(c) = {}
        BY <1>0, <1>1 DEF Draft, Captured
  <1>6. Draft(c)' = {}
        <2>1. CASE base'[c] = None
              BY <1>0, <2>1 DEF Draft, Captured
        <2>2. CASE base'[c] # None
              <3>1. Captured(c)'.rows = Diff(db[c], db[c])
                    BY <1>1, <1>2, <2>2 DEF Captured, Capture, Here
              <3> QED BY <3>1 DEF Draft, Diff
        <2> QED BY <2>1, <2>2
  <1>7. \A d \in Client : Draft(d)' = Draft(d)
        BY <1>1, <1>2, <1>5, <1>6, SameDraft
  <1>8. Silent(c)
        BY <1>1, <1>2, <1>3, <1>4, <1>5, <1>7 DEF Silent
  <1>9. Plain'
        BY <1>1, <1>2, <1>3, <1>4 DEF RefInv, Plain, Here
  <1>10. InOrder'
        BY <1>1, <1>4 DEF RefInv, InOrder
  <1> QED BY <1>8, <1>9, <1>10

LEMMA EndWriteEmptyQuiet ==
  ASSUME Steady, RefInv, TypeInv', NEW c \in Client, EndWriteEmpty(c)
  PROVE  Silent(c) /\ Plain' /\ InOrder'
  <1>0. DOMAIN << >> = {}
        OBVIOUS
  <1>1. /\ UNCHANGED <<db, rowHlc, applied, tables, version, pc, out, todo, deferred, cur,
                       folder, seen, torn, writes>>
        /\ IsEmpty(Captured(c))
        BY DEF EndWriteEmpty, durable, syncing, shared, budget
  <1>2. base'[c] = None /\ \A d \in Client \ {c} : base'[d] = base[d]
        BY DEF EndWriteEmpty, Reopen, Steady, RefInv, Base, PassInv, TypeInv, Places
  <1>3. Unwritten' = Unwritten /\ \A d \in Client : Started(d)' = Started(d)
        BY <1>1 DEF Unwritten, Started
  <1>4. /\ Issued' = Issued /\ \A n : Rows(n)' = Rows(n)
        /\ \A d \in Client : Known(d)' = Known(d) /\ Taken(d)' = Taken(d)
        BY <1>1, <1>3, StillKnown
  <1>5. Draft(c) = {} /\ Draft(c)' = {}
        BY <1>0, <1>1, <1>2 DEF Draft, Captured, IsEmpty
  <1>6. \A d \in Client : Draft(d)' = Draft(d)
        BY <1>1, <1>2, <1>5, SameDraft
  <1>7. Silent(c)
        BY <1>1, <1>2, <1>3, <1>4, <1>6 DEF Silent
  <1>8. Plain'
        BY <1>1, <1>2, <1>3, <1>4 DEF RefInv, Plain
  <1>9. InOrder'
        BY <1>1, <1>4 DEF RefInv, InOrder
  <1> QED BY <1>7, <1>8, <1>9

LEMMA SyncStartQuiet ==
  ASSUME Steady, RefInv, TypeInv', NEW c \in Client, SyncStart(c)
  PROVE  Silent(c) /\ Plain' /\ InOrder'
  <1>1. /\ UNCHANGED <<db, rowHlc, applied, tables, version, base, out, deferred, cur,
                       folder, seen, torn, writes>>
        /\ todo'[c] = Pending(c) /\ \A d \in Client \ {c} : todo'[d] = todo[d]
        BY DEF SyncStart, durable, session, shared, budget, RefInv, Base, PassInv, TypeInv, Places
  <1>2. /\ pc[c] \in {"list", "idle"} /\ pc'[c] \in {"idle", "first"}
        /\ \A d \in Client \ {c} : pc'[d] = pc[d]
        BY DEF SyncStart, Ready, RefInv, Base, PassInv, TypeInv, TypeOK
  <1>3. Unwritten' = Unwritten /\ \A d \in Client : Started(d)' = Started(d)
        BY <1>2 DEF Unwritten, Started
  <1>4. /\ Issued' = Issued /\ \A n : Rows(n)' = Rows(n)
        /\ \A d \in Client : Known(d)' = Known(d) /\ Taken(d)' = Taken(d)
        BY <1>1, <1>3, StillKnown
  <1>5. \A d \in Client : Draft(d)' = Draft(d)
        BY <1>1, SameDraft
  <1>6. Silent(c)
        BY <1>1, <1>3, <1>4, <1>5 DEF Silent
  <1>7. Plain'
        BY <1>1, <1>2, <1>3, <1>4 DEF RefInv, Plain, Busy
  <1>8. InOrder'
        <2>1. \A n \in DOMAIN folder : n \in Taken(c) \cup todo'[c]
              BY <1>1 DEF Pending, Taken, RefInv, Plain
        <2>2. \A m \in todo'[c] : m \in seen[c]
              BY <1>1 DEF Pending
        <2> QED BY <1>1, <1>4, <2>1, <2>2 DEF RefInv, InOrder
  <1> QED BY <1>6, <1>7, <1>8

LEMMA MarkQuiet ==
  ASSUME Steady, RefInv, TypeInv', NEW c \in Client, Mark(c)
  PROVE  Silent(c) /\ Plain' /\ InOrder'
  <1>1. /\ UNCHANGED <<db, rowHlc, tables, version, base, pc, out, todo, deferred,
                       folder, seen, torn, writes>>
        BY DEF Mark, shared, budget
  <1>2. /\ cur[c] # None /\ applied'[c] = applied[c] \cup {cur[c]} /\ cur'[c] = None
        /\ \A d \in Client \ {c} : applied'[d] = applied[d] /\ cur'[d] = cur[d]
        BY DEF Mark, RefInv, Base, PassInv, TypeInv, Places
  <1>3. Unwritten' = Unwritten /\ \A d \in Client : Started(d)' = Started(d)
        BY <1>1 DEF Unwritten, Started
  <1>4. Issued' = Issued /\ \A n : Rows(n)' = Rows(n)
        BY <1>1, SameLog
  <1>5. \A d \in Client : Known(d)' = Known(d) /\ Taken(d)' = Taken(d)
        BY <1>1, <1>2, <1>3 DEF Known, Taken
  <1>6. \A d \in Client : Draft(d)' = Draft(d)
        BY <1>1, SameDraft
  <1>7. Silent(c)
        BY <1>1, <1>3, <1>4, <1>5, <1>6 DEF Silent
  <1>8. Plain'
        BY <1>1, <1>3, <1>5 DEF RefInv, Plain
  <1>9. InOrder'
        BY <1>1, <1>5 DEF RefInv, InOrder
  <1> QED BY <1>7, <1>8, <1>9

LEMMA EndPassQuiet ==
  ASSUME Steady, RefInv, TypeInv', NEW c \in Client, EndPass(c)
  PROVE  Silent(c) /\ Plain' /\ InOrder'
  <1>1. /\ UNCHANGED <<db, rowHlc, applied, tables, version, base, out, cur, folder, seen,
                       torn, writes>>
        BY DEF EndPass, durable, session, shared, budget
  <1>2. deferred[c] = {} /\ todo[c] = {} /\ pc[c] \in {"first", "retry"}
        BY DEF EndPass, InPass, RefInv, Plain
  <1>3. /\ pc'[c] = "idle" /\ \A d \in Client \ {c} : pc'[d] = pc[d]
        /\ \A d \in Client : todo'[d] = todo[d] /\ deferred'[d] = {}
        BY <1>2 DEF EndPass, RefInv, Base, PassInv, TypeInv, TypeOK, Places, Plain
  <1>4. Unwritten' = Unwritten /\ \A d \in Client : Started(d)' = Started(d)
        BY <1>2, <1>3 DEF Unwritten, Started
  <1>5. /\ Issued' = Issued /\ \A n : Rows(n)' = Rows(n)
        /\ \A d \in Client : Known(d)' = Known(d) /\ Taken(d)' = Taken(d)
        BY <1>1, <1>4, StillKnown
  <1>6. \A d \in Client : Draft(d)' = Draft(d)
        BY <1>1, SameDraft
  <1>7. Silent(c)
        BY <1>1, <1>4, <1>5, <1>6 DEF Silent
  <1>8. Plain'
        BY <1>1, <1>3, <1>4, <1>5 DEF RefInv, Plain, Busy
  <1>9. InOrder'
        BY <1>1, <1>3, <1>5 DEF RefInv, InOrder
  <1> QED BY <1>7, <1>8, <1>9

\* What has been issued and not written is found by its name.
LEMMA UnwrittenRows ==
  ASSUME RefInv, NEW c \in Unwritten, NEW n, n = out[c].name, n \notin DOMAIN folder
  PROVE  Rows(n) = out[c].content.rows
  <1>1. \A d \in Unwritten : out[d].name = n <=> d = c
        BY DEF RefInv, Base, OwnPublished, Unwritten, Busy
  <1>2. (CHOOSE d \in Unwritten : out[d].name = n) = c
        BY <1>1
  <1> QED BY <1>2 DEF Rows

\* The file is what its writer has known since the stamp.
LEMMA PublishQuiet ==
  ASSUME Steady, RefInv, TypeInv', NEW c \in Client, Publish(c)
  PROVE  Silent(c) /\ Plain' /\ InOrder'
  <1>0. PICK n : n = out[c].name
        OBVIOUS
  <1>1. /\ UNCHANGED <<db, rowHlc, applied, tables, version, base, out, todo, deferred, cur,
                       torn, writes>>
        /\ folder' = [m \in DOMAIN folder \cup {n} |->
                        IF m = n THEN out[c].content ELSE folder[m]]
        BY <1>0 DEF Publish, durable, session, syncing, budget
  <1>2. /\ pc[c] \in {"publish", "snapshot"} /\ pc'[c] \in {"own", "ownSnapshot"}
        /\ \A d \in Client \ {c} : pc'[d] = pc[d]
        BY DEF Publish, RefInv, Base, PassInv, TypeInv, TypeOK
  <1>3. \A d \in Client : seen'[d] = DOMAIN folder \cup {n}
        BY <1>0 DEF Publish, Steady, RefInv, Plain
  <1>4. n.client = c /\ n \in Name /\ n.ver = TopVersion /\ DOMAIN out[c].content.stamps = {}
        BY <1>0, <1>2 DEF RefInv, Base, OwnPublished, Plain, Busy, PassInv, TypeInv, TypeOK
  <1>5. n \notin DOMAIN folder
        <2>1. SUFFICES ASSUME n \in NamesOf(c) PROVE FALSE
              BY <1>4 DEF NamesOf
        <2>2. n.seq < n.seq /\ n.seq \in Nat
              BY <1>0, <1>2, <2>1 DEF RefInv, Base, NamesInv, NumberFresh, Writing
        <2> QED BY <2>2
  <1>6. c \in Unwritten /\ Unwritten' = Unwritten /\ \A d \in Client : Started(d)' = Started(d)
        BY <1>2 DEF Unwritten, Started
  <1>7. Issued' = Issued
        BY <1>0, <1>1, <1>6 DEF Issued
  <1>8. ASSUME NEW m \in Issued
        PROVE  Rows(m)' = Rows(m)
        <2>1. CASE m \in DOMAIN folder
              BY <1>1, <1>5, <2>1 DEF Rows
        <2>2. CASE m = n
              <3>1. Rows(n) = out[c].content.rows
                    BY <1>0, <1>5, <1>6, UnwrittenRows
              <3>2. n \in DOMAIN folder' /\ folder'[n].rows = out[c].content.rows
                    BY <1>1
              <3>3. Rows(n)' = folder'[n].rows
                    BY <3>2 DEF Rows
              <3> QED BY <2>2, <3>1, <3>2, <3>3
        <2>3. CASE m \notin DOMAIN folder /\ m # n
              BY <1>1, <1>6, <2>3 DEF Rows
        <2> QED BY <2>1, <2>2, <2>3
  <1>9. \A d \in Client : Known(d)' = Known(d) /\ Taken(d)' = Taken(d)
        BY <1>1, <1>6 DEF Known, Taken
  <1>10. \A d \in Client : Draft(d)' = Draft(d)
        BY <1>1, SameDraft
  <1>11. Silent(c)
        BY <1>1, <1>6, <1>7, <1>8, <1>9, <1>10 DEF Silent
  <1>12. Plain'
        <2>1. \A d \in Client : Taken(d)' \subseteq DOMAIN folder' /\ seen'[d] = DOMAIN folder'
              BY <1>1, <1>3, <1>9 DEF RefInv, Plain
        <2>2. \A m \in DOMAIN folder' : m.ver = TopVersion /\ DOMAIN folder'[m].stamps = {}
              BY <1>1, <1>4 DEF RefInv, Plain
        <2>3. \A d \in Client : pc'[d] \in Busy => pc[d] \in Busy /\ out'[d] = out[d]
              BY <1>1, <1>2 DEF Busy
        <2> QED BY <1>1, <1>6, <1>9, <2>1, <2>2, <2>3 DEF RefInv, Plain
  <1>13. \A m \in DOMAIN folder : m.client = c => Precedes(m, n)
        <2>1. SUFFICES ASSUME NEW m \in DOMAIN folder, m.client = c PROVE Precedes(m, n)
              OBVIOUS
        <2>2. m \in Known(c)
              BY <2>1, ViewFacts DEF RefInv, ViewInv, Issued
        <2>3. cur[c] = None
              BY <1>2 DEF RefInv, Base, PassInv, TypeInv, Places
        <2>4. m \in applied[c] /\ m # n
              BY <1>0, <1>5, <2>1, <2>2, <2>3 DEF Known
        <2>5. m.hlc < n.hlc
              BY <1>0, <1>2, <2>4 DEF RefInv, Base, ClockInv, Timely, Ahead, Busy
        <2> QED BY <2>5 DEF Precedes
  <1>14. InOrder'
        <2>1. \A d \in Client : Taken(d) \cup todo[d] \subseteq DOMAIN folder
              BY DEF RefInv, Plain, Base, PassInv, TypeInv, TypeOK
        <2>2. SUFFICES ASSUME NEW d \in Client, NEW a \in Taken(d) \cup todo[d],
                              NEW b \in DOMAIN folder', a.client = b.client
                       PROVE  /\ a \in Taken(d) /\ b \notin Taken(d) => Precedes(a, b)
                              /\ b \notin Taken(d) \cup todo[d] => Precedes(a, b)
              BY <1>1, <1>9 DEF InOrder
        <2>3. CASE b = n
              BY <1>4, <1>13, <2>1, <2>2, <2>3
        <2>4. CASE b # n
              BY <1>1, <2>2, <2>4 DEF RefInv, InOrder
        <2> QED BY <2>3, <2>4
  <1> QED BY <1>11, <1>12, <1>14

LEMMA MarkOwnQuiet ==
  ASSUME Steady, RefInv, TypeInv', NEW c \in Client, MarkOwn(c)
  PROVE  Silent(c) /\ Plain' /\ InOrder'
  <1>0. PICK n : n = out[c].name
        OBVIOUS
  <1>1. UNCHANGED <<db, rowHlc, tables, version, todo, deferred, cur, folder, seen, torn, writes>>
        BY DEF MarkOwn, syncing, shared, budget
  <1>2. /\ pc[c] \in {"own", "ownSnapshot"} /\ pc'[c] \in {"list", "idle"}
        /\ \A d \in Client \ {c} : pc'[d] = pc[d]
        BY DEF MarkOwn, AfterPublish, RefInv, Base, PassInv, TypeInv, TypeOK
  <1>3. /\ applied'[c] = applied[c] \cup {n}
        /\ \A d \in Client \ {c} : applied'[d] = applied[d] /\ out'[d] = out[d]
        BY <1>0 DEF MarkOwn, RefInv, Base, PassInv, TypeInv, Places
  <1>4. base'[c] \in {base[c], None} /\ \A d \in Client \ {c} : base'[d] = base[d]
        BY DEF MarkOwn, AfterPublish, Reopen, Steady, RefInv, Base, PassInv, TypeInv, Places
  <1>5. n \in DOMAIN folder /\ n.client = c
        BY <1>0, <1>2 DEF RefInv, Base, PassInv, TypeInv, TypeOK, Places, OwnPublished, Busy
  <1>6. /\ c \in Unwritten /\ Unwritten' = Unwritten \ {c}
        /\ \A d \in Client : Started(d)' = Started(d)
        BY <1>2 DEF Unwritten, Started
  <1>7. \A d \in Unwritten' : d \in Unwritten /\ d # c /\ out'[d] = out[d]
        BY <1>3, <1>6 DEF Unwritten
  <1>8. Issued' = Issued
        <2>1. Issued' = DOMAIN folder \cup {out'[d].name : d \in Unwritten'}
              BY <1>1 DEF Issued
        <2>2. Issued = DOMAIN folder \cup {out[d].name : d \in Unwritten \ {c}}
              BY <1>0, <1>5 DEF Issued
        <2> QED BY <1>6, <1>7, <2>1, <2>2
  <1>9. ASSUME NEW m \in Issued
        PROVE  Rows(m)' = Rows(m)
        <2>1. CASE m \in DOMAIN folder
              BY <1>1, <2>1 DEF Rows
        <2>2. CASE m \notin DOMAIN folder
              <3>1. PICK d \in Unwritten : m = out[d].name
                    BY <2>2 DEF Issued
              <3>2. d \in Unwritten' /\ out'[d] = out[d]
                    BY <1>0, <1>5, <1>6, <1>7, <2>2, <3>1
              <3>3. Rows(m) = out[d].content.rows
                    BY <2>2, <3>1, UnwrittenRows
              <3>4. \A e \in Unwritten' : out'[e].name = m <=> e = d
                    BY <1>7, <3>1, <3>2 DEF RefInv, Base, OwnPublished, Unwritten, Busy
              <3>5. (CHOOSE e \in Unwritten' : out'[e].name = m) = d
                    BY <3>2, <3>4
              <3>6. Rows(m)' = IF m \in DOMAIN folder' THEN folder'[m].rows
                                 ELSE out'[CHOOSE e \in Unwritten' : out'[e].name = m].content.rows
                    BY DEF Rows
              <3> QED BY <1>1, <2>2, <3>2, <3>3, <3>5, <3>6
        <2> QED BY <2>1, <2>2
  <1>10. Taken(c)' = Known(c) /\ \A d \in Client \ {c} : Taken(d)' = Taken(d)
        <2>1. cur[c] = None
              BY <1>2 DEF RefInv, Base, PassInv, TypeInv, Places
        <2> QED BY <1>0, <1>1, <1>3, <1>6, <2>1 DEF Known, Taken
  <1>11. \A d \in Client : Known(d)' = Known(d)
        BY <1>1, <1>3, <1>6, <1>7, <1>10 DEF Known, Taken
  <1>12. \A d \in Client : Draft(d)' = Draft(d)
        <2>1. base[c] = None
              BY <1>2 DEF RefInv, Base, PassInv, SessionsQuiet
        <2> QED BY <1>1, <1>4, <2>1, SameDraft
  <1>13. Silent(c)
        BY <1>1, <1>4, <1>6, <1>8, <1>9, <1>11, <1>12 DEF Silent
  <1>14. Taken(c)' = Taken(c) \cup {n}
        BY <1>0, <1>6, <1>10 DEF Known, Taken
  <1>15. Plain'
        <2>1. \A d \in Client : Taken(d)' \subseteq DOMAIN folder
              BY <1>5, <1>10, <1>14 DEF RefInv, Plain
        <2>2. Started(c)
              BY <1>2 DEF Started
        <2>3. \A d \in Client : ~Started(d) => Taken(d)' = {}
              BY <1>10, <2>2 DEF RefInv, Plain
        <2>4. \A d \in Client : base'[d] # None => base'[d] = base[d]
              BY <1>4
        <2>5. \A d \in Client : pc'[d] \in Busy => pc[d] \in Busy /\ out'[d] = out[d]
              BY <1>2, <1>3 DEF Busy
        <2> QED BY <1>1, <1>6, <2>1, <2>3, <2>4, <2>5 DEF RefInv, Plain
  <1>16. \A b \in DOMAIN folder : b.client = c => b \in Taken(c)'
        BY <1>10, ViewFacts DEF RefInv, ViewInv, Issued
  <1>17. InOrder'
        <2>1. SUFFICES ASSUME NEW d \in Client, NEW a \in (Taken(d) \cup todo[d])',
                              NEW b \in DOMAIN folder, a.client = b.client
                       PROVE  /\ a \in Taken(d)' /\ b \notin Taken(d)' => Precedes(a, b)
                              /\ b \notin (Taken(d) \cup todo[d])' => Precedes(a, b)
              BY <1>1 DEF InOrder
        <2>2. CASE d # c
              BY <1>1, <1>10, <2>1, <2>2 DEF RefInv, InOrder
        <2>3. CASE d = c /\ a = n
              BY <1>5, <1>16, <2>1, <2>3
        <2>4. CASE d = c /\ a # n
              BY <1>1, <1>14, <2>1, <2>4 DEF RefInv, InOrder
        <2> QED BY <2>2, <2>3, <2>4
  <1> QED BY <1>13, <1>15, <1>17

-----------------------------------------------------------------------------------
(* Editing. *)

\* A statement stores a value no row has had yet.
LEMMA FreshRow ==
  ASSUME Steady, NEW old \in MaybeRow, NEW row \in Rewritten(old)
  PROVE  row \in Row /\ row = [f \in Col |-> writes + 1]
  <1>1. Payload = {v \in Val : v = writes + 1}
        BY DEF Payload, Steady
  <1>2. "delete" \notin Statements /\ \A D \in (SUBSET Col) \ {{}} : D = Col
        <2>1. PICK x \in Col : Col = {x}
              BY DEF Steady
        <2>2. ASSUME NEW D \in SUBSET Col, D # {}
              PROVE  D = Col
              <3>1. PICK y \in D : TRUE
                    BY <2>2
              <3>2. y = x
                    BY <2>1, <3>1
              <3> QED BY <2>1, <3>2
        <2>3. "delete" \notin Statements
              BY DEF Steady
        <2> QED BY <2>2, <2>3
  <1>3. row \in Inserted \/ row \in Updated(old)
        BY <1>2 DEF Rewritten
  <1>4. ASSUME NEW v \in Payload
        PROVE  [f \in Col |-> v] \in Row /\ v = writes + 1
        BY <1>1 DEF Row
  <1>5. CASE row \in Inserted
        BY <1>4, <1>5 DEF Inserted
  <1>6. CASE row \in Updated(old)
        <2>1. PICK v \in Payload, D \in (SUBSET Col) \ {{}} :
                row = [f \in Col |-> IF f \in D THEN v ELSE old[f]]
              BY <1>6 DEF Updated
        <2>2. row = [f \in Col |-> v]
              BY <1>2, <2>1
        <2> QED BY <1>4, <2>2
  <1> QED BY <1>3, <1>5, <1>6

\* The values still unused, before and after a write.
LEMMA UnusedShrinks ==
  ASSUME \E x \in Col : Col = {x}, writes \in Nat, writes < MaxWrites, MaxWrites \in Nat,
         writes' = writes + 1
  PROVE  /\ Unused' \subseteq Unused
         /\ [f \in Col |-> writes + 1] \in Unused
         /\ [f \in Col |-> writes + 1] \notin Unused'
  <1>1. Unused' = {[f \in Col |-> v] : v \in (writes + 2) .. MaxWrites}
        BY DEF Unused
  <1>2. ASSUME NEW v \in (writes + 2) .. MaxWrites
        PROVE  [f \in Col |-> v] # [f \in Col |-> writes + 1]
        <2>1. PICK x \in Col : TRUE
              OBVIOUS
        <2>2. [f \in Col |-> v][x] # [f \in Col |-> writes + 1][x]
              BY <1>2
        <2> QED BY <2>2
  <1>3. \A v \in (writes + 2) .. MaxWrites : v \in (writes + 1) .. MaxWrites
        OBVIOUS
  <1>4. Unused' \subseteq Unused
        BY <1>1, <1>3 DEF Unused
  <1>5. writes + 1 \in (writes + 1) .. MaxWrites
        OBVIOUS
  <1>6. [f \in Col |-> writes + 1] \in Unused
        BY <1>5 DEF Unused
  <1> QED BY <1>1, <1>2, <1>4, <1>6

LEMMA PrivateKeys ==
  ASSUME NEW c \in Client
  PROVE  Private(c) \subseteq Key
  <1>1. CASE base[c] = None
        <2>1. Captured(c).rows = << >> /\ DOMAIN << >> = {}
              BY <1>1 DEF Captured
        <2> QED BY <2>1 DEF Private, Draft
  <1>2. CASE base[c] # None
        BY <1>2 DEF Private, Draft, Captured, Capture, Diff
  <1> QED BY <1>1, <1>2

\* c alone changes row k, to one that nobody has had.
Edits(c, k, row) ==
  /\ row \in Row /\ row \in Unused /\ row \notin Unused' /\ Unused' \subseteq Unused
  /\ db' = [db EXCEPT ![c][k] = row]
  /\ Started(c) /\ base[c] # None
  /\ UNCHANGED <<rowHlc, applied, tables, version, base, pc, out, todo, deferred, cur,
                 folder, seen, torn>>

LEMMA ExecEdits ==
  ASSUME Steady, RefInv, NEW c \in Client, Exec(c)
  PROVE  \E k \in Key : \E row : Edits(c, k, row)
  <1>1. PICK k \in Key : \E row \in Rewritten(db[c][k]) : db' = [db EXCEPT ![c][k] = row]
        BY DEF Exec
  <1>2. PICK row \in Rewritten(db[c][k]) : db' = [db EXCEPT ![c][k] = row]
        BY <1>1
  <1>3. db[c][k] \in MaybeRow /\ writes \in Nat /\ MaxWrites \in Nat
        BY SyncEngineAssumption
           DEF RefInv, Base, PassInv, TypeInv, TypeOK, MaybeRow
  <1>4. row \in Row /\ row = [f \in Col |-> writes + 1]
        BY <1>2, <1>3, FreshRow
  <1>5. writes < MaxWrites /\ writes' = writes + 1 /\ Started(c) /\ base[c] # None
        BY DEF Exec, Started
  <1>6. Unused' \subseteq Unused /\ row \in Unused /\ row \notin Unused'
        BY <1>3, <1>4, <1>5, UnusedShrinks DEF Steady
  <1>7. UNCHANGED <<rowHlc, applied, tables, version, base, pc, out, todo, deferred, cur,
                    folder, seen, torn>>
        BY DEF Exec, syncing, shared
  <1> QED BY <1>2, <1>4, <1>5, <1>6, <1>7 DEF Edits

LEMMA EditFacts ==
  ASSUME Steady, RefInv, TypeInv', NEW c \in Client, NEW k \in Key, NEW row, Edits(c, k, row)
  PROVE  /\ Issued' = Issued /\ (\A n : Rows(n)' = Rows(n)) /\ AbstractLog' = AbstractLog
         /\ \A d \in Client : /\ Known(d)' = Known(d) /\ Taken(d)' = Taken(d)
                              /\ Started(d)' = Started(d)
         /\ \A d \in Client, x \in Key : Writers(d, x)' = Writers(d, x)
         /\ Draft(c)' = Draft(c) \cup {k} /\ Private(c)' = Private(c) \cup {k}
         /\ \A d \in Client \ {c} : Draft(d)' = Draft(d) /\ Private(d)' = Private(d)
         /\ db'[c][k] = row /\ \A x \in Key \ {k} : db'[c][x] = db[c][x]
         /\ \A d \in Client \ {c} : db'[d] = db[d]
  <1>1. /\ UNCHANGED <<applied, base, pc, out, cur, folder>>
        /\ Started(c) /\ base[c] # None
        BY DEF Edits
  <1>2. Unwritten' = Unwritten /\ \A d \in Client : Started(d)' = Started(d)
        BY <1>1 DEF Unwritten, Started
  <1>3. /\ Issued' = Issued /\ \A n : Rows(n)' = Rows(n)
        /\ \A d \in Client : Known(d)' = Known(d) /\ Taken(d)' = Taken(d)
        BY <1>1, <1>2, StillKnown
  <1>4. AbstractLog' = AbstractLog
        BY <1>1, SameLog
  <1>5. \A d \in Client, x \in Key : Writers(d, x)' = Writers(d, x)
        BY <1>3 DEF Writers
  <1>6. /\ db'[c][k] = row /\ \A x \in Key \ {k} : db'[c][x] = db[c][x]
        /\ \A d \in Client \ {c} : db'[d] = db[d]
        BY DEF Edits, RefInv, Base, PassInv, TypeInv, TypeOK
  <1>7. \A d \in Client \ {c} : Draft(d)' = Draft(d)
        BY <1>1, <1>6, SameDraft
  <1>8. Draft(c)' = Draft(c) \cup {k}
        <2>1. /\ Draft(c) = {x \in Key : base[c].db[x] # db[c][x]}
              /\ Draft(c)' = {x \in Key : base[c].db[x] # db'[c][x]}
              BY <1>1 DEF Draft, Captured, Capture, Diff
        <2>2. base[c].db[k] # row
              BY <1>1 DEF Edits, RefInv, RowsInv, Spent
        <2> QED BY <1>6, <2>1, <2>2
  <1>9. Private(c)' = Private(c) \cup {k} /\ \A d \in Client \ {c} : Private(d)' = Private(d)
        BY <1>1, <1>2, <1>6, <1>7, <1>8 DEF Private
  <1> QED BY <1>2, <1>3, <1>4, <1>5, <1>6, <1>7, <1>8, <1>9

LEMMA EditRefines ==
  ASSUME Steady, RefInv, TypeInv', NEW c \in Client, NEW k \in Key, NEW row, Edits(c, k, row)
  PROVE  Abstract!Edit(c)
  <1>1. AbstractLog' = AbstractLog /\ AbstractKnown' = AbstractKnown
        BY EditFacts DEF AbstractKnown
  <1>2. AbstractDraft' = [AbstractDraft EXCEPT ![c] = @ \cup {k}]
        BY EditFacts DEF AbstractDraft
  <1>3. row \in Abstract!Row /\ db' = [db EXCEPT ![c][k] = row]
        BY DEF Edits, Abstract!Row, Row
  <1> QED BY <1>1, <1>2, <1>3 DEF Abstract!Edit

LEMMA EditKeeps ==
  ASSUME Steady, RefInv, TypeInv', NEW c \in Client, NEW k \in Key, NEW row, Edits(c, k, row)
  PROVE  Plain' /\ InOrder' /\ LogInv' /\ RowsInv'
  <1>1. /\ Issued' = Issued /\ (\A n : Rows(n)' = Rows(n))
        /\ \A d \in Client : /\ Known(d)' = Known(d) /\ Taken(d)' = Taken(d)
                             /\ Started(d)' = Started(d)
        /\ \A d \in Client, x \in Key : Writers(d, x)' = Writers(d, x)
        /\ Draft(c)' = Draft(c) \cup {k} /\ Private(c)' = Private(c) \cup {k}
        /\ \A d \in Client \ {c} : Draft(d)' = Draft(d) /\ Private(d)' = Private(d)
        /\ db'[c][k] = row /\ \A x \in Key \ {k} : db'[c][x] = db[c][x]
        /\ \A d \in Client \ {c} : db'[d] = db[d]
        BY EditFacts
  <1>2. /\ row \in Row /\ row # None
        /\ row \in Unused /\ row \notin Unused' /\ Unused' \subseteq Unused
        /\ UNCHANGED <<rowHlc, applied, tables, version, base, pc, out, todo, deferred, cur,
                       folder, seen, torn>>
        BY RowIsSome DEF Edits
  <1>3. Plain'
        BY <1>1, <1>2 DEF RefInv, Plain
  <1>4. InOrder'
        BY <1>1, <1>2 DEF RefInv, InOrder
  <1>5. LogInv'
        <2>1. ASSUME NEW n \in Issued, NEW x \in DOMAIN Rows(n)
              PROVE  GoodRow(n, x)'
              <3>1. GoodRow(n, x)
                    BY DEF RefInv, LogInv
              <3> QED BY <1>1, <1>2, <3>1 DEF GoodRow
        <2> QED BY <1>1, <2>1 DEF RefInv, LogInv
  <1>6. \A n \in Issued : k \in DOMAIN Rows(n) => Rows(n)[k].new # row
        BY <1>2 DEF RefInv, LogInv, GoodRow
  <1>7. ASSUME NEW d \in Client
        PROVE  (Recorded(d) /\ Unheard(d) /\ Shown(d) /\ Based(d) /\ Spent(d))'
        <2>1. Recorded(d) /\ Unheard(d) /\ Shown(d) /\ Based(d) /\ Spent(d)
              BY DEF RefInv, RowsInv
        <2>2. Recorded(d)'
              BY <1>1, <1>2, <2>1 DEF Recorded
        <2>6. Based(d)'
              BY <1>1, <1>2, <2>1 DEF Based
        <2>3. Unheard(d)'
              <3>1. SUFFICES ASSUME NEW x \in Private(d)'
                             PROVE  /\ db'[d][x] # None
                                    /\ \A n \in Issued : x \in DOMAIN Rows(n) =>
                                         Rows(n)[x].new # db'[d][x]
                    BY <1>1 DEF Unheard
              <3>2. CASE d = c /\ x = k
                    BY <1>1, <1>2, <1>6, <3>2
              <3>3. CASE ~(d = c /\ x = k)
                    <4>1. x \in Private(d)
                          BY <1>1, <3>1, <3>3
                    <4>0. x \in Key
                          BY <4>1, PrivateKeys
                    <4>2. db'[d][x] = db[d][x]
                          BY <1>1, <3>3, <4>0
                    <4> QED BY <2>1, <4>1, <4>2 DEF Unheard
              <3> QED BY <3>2, <3>3
        <2>4. Shown(d)'
              BY <1>1, <2>1 DEF Shown
        <2>5. Spent(d)'
              BY <1>1, <1>2, <2>1 DEF Spent
        <2> QED BY <2>2, <2>3, <2>4, <2>5, <2>6
  <1>8. ASSUME NEW d \in Client, NEW e \in Client, d # e
        PROVE  Unlike(d, e)'
        <2>1. Unlike(d, e) /\ Spent(d) /\ Spent(e)
              BY <1>8 DEF RefInv, RowsInv
        <2>2. SUFFICES ASSUME NEW x \in Private(d)' \cap Private(e)' PROVE db'[d][x] # db'[e][x]
              BY DEF Unlike
        <2>3. x \in Key
              BY PrivateKeys, <1>1, <2>2
        <2> QED BY <1>1, <1>2, <1>8, <2>1, <2>2, <2>3 DEF Unlike, Spent
  <1> QED BY <1>3, <1>4, <1>5, <1>7, <1>8 DEF RowsInv

-----------------------------------------------------------------------------------
(* The steps together. *)

\* A step of c is one of the abstract specification, or changes nothing of it.
Mirrors(c) ==
  /\ \/ Abstract!Edit(c) \/ Abstract!Announce(c) \/ Abstract!Learn(c)
     \/ UNCHANGED Abstract!abstract
  /\ (Plain /\ InOrder /\ LogInv /\ RowsInv)'

LEMMA SilentMirrors ==
  ASSUME Steady, RefInv, TypeInv', NEW c \in Client, Silent(c), Plain', InOrder'
  PROVE  Mirrors(c)
  BY SilentKeeps DEF Mirrors

LEMMA IssueMirrors ==
  ASSUME Steady, RefInv, TypeInv', NEW c \in Client, NEW n, NEW rows,
         Issues(c, n, rows), Offers(c, rows),
         n.ver = TopVersion, DOMAIN out'[c].content.stamps = {}
  PROVE  Mirrors(c)
  BY IssueRefines, IssuePlain, IssueRows DEF Mirrors

LEMMA ApplyMirrors ==
  ASSUME Steady, RefInv, TypeInv', NEW c \in Client, Apply(c)
  PROVE  Mirrors(c)
  <1>1. PICK n : Learns(c, n)
        BY ApplyLearns
  <1> QED BY <1>1, LearnRefines, LearnPlain, LearnRows DEF Mirrors

LEMMA ExecMirrors ==
  ASSUME Steady, RefInv, TypeInv', NEW c \in Client, Exec(c)
  PROVE  Mirrors(c)
  <1>1. PICK k \in Key : \E row : Edits(c, k, row)
        BY ExecEdits
  <1>2. PICK row : Edits(c, k, row)
        BY <1>1
  <1> QED BY <1>2, EditRefines, EditKeeps DEF Mirrors

LEMMA EndWriteMirrors ==
  ASSUME Steady, RefInv, TypeInv', HasRoom, NEW c \in Client, EndWrite(c)
  PROVE  Mirrors(c)
  <1>0. DOMAIN << >> = {}
        OBVIOUS
  <1>1. pc[c] = "idle" /\ Started(c) /\ ~IsEmpty(Captured(c))
        BY DEF EndWrite, Ready, Started
  <1>2. base[c] # None
        BY <1>0, <1>1 DEF Captured, IsEmpty
  <1>3. Offers(c, Captured(c).rows) /\ DOMAIN Captured(c).stamps = {}
        BY <1>1, <1>2, CapturedOffers
  <1>4. /\ base' = [base EXCEPT ![c] = None]
        /\ UNCHANGED <<db, applied, tables, version, syncing, shared, writes>>
        BY DEF EndWrite, budget
  <1>5. PICK w \in Wall : Stamp(c, Captured(c), Now(clock[c], w), "publish")
        BY DEF EndWrite
  <1>6. PICK content : content = Captured(c)
        OBVIOUS
  <1>7. Stamp(c, content, Now(clock[c], w), "publish")
        BY <1>5, <1>6
  <1>8. PICK n : /\ Issues(c, n, content.rows)
                 /\ n.ver = TopVersion /\ out'[c].content = content
        BY <1>1, <1>4, <1>7, StampIssues
  <1>9. Offers(c, content.rows) /\ DOMAIN out'[c].content.stamps = {}
        BY <1>3, <1>6, <1>8
  <1>10. PICK rows : rows = content.rows
        OBVIOUS
  <1> QED BY <1>8, <1>9, <1>10, IssueMirrors

LEMMA SnapshotMirrors ==
  ASSUME Steady, RefInv, TypeInv', HasRoom, NEW c \in Client, StartWithSnapshot(c)
  PROVE  Mirrors(c)
  <1>1. pc[c] = "stopped" /\ ~Started(c)
        BY DEF StartWithSnapshot, Started
  <1>2. Offers(c, Snapshot(db[c]).rows) /\ DOMAIN Snapshot(db[c]).stamps = {}
        BY <1>1, SnapshotOffers
  <1>3. /\ base' = [base EXCEPT ![c] = None]
        /\ UNCHANGED <<db, applied, tables, version, syncing, shared, writes>>
        BY DEF StartWithSnapshot, InstallHook, Steady, budget
  <1>4. PICK content : content = Snapshot(db[c])
        OBVIOUS
  <1>5. PICK w \in Wall : Stamp(c, content, Now(clock[c], w), "snapshot")
        BY <1>4 DEF StartWithSnapshot
  <1>6. PICK n : /\ Issues(c, n, content.rows)
                 /\ n.ver = TopVersion /\ out'[c].content = content
        BY <1>1, <1>3, <1>5, StampIssues
  <1>7. Offers(c, content.rows) /\ DOMAIN out'[c].content.stamps = {}
        BY <1>2, <1>4, <1>6
  <1>8. PICK rows : rows = content.rows
        OBVIOUS
  <1> QED BY <1>6, <1>7, <1>8, IssueMirrors

LEMMA ProcessMirrors ==
  ASSUME Steady, RefInv, TypeInv', HasRoom, NEW c \in Client, Process(c)
  PROVE  Mirrors(c)
  <1>1. ~Stop(c) /\ ~End(c)
        BY DEF Stop, End, Steady
  <1>2. CASE Construct(c)
        BY <1>2, ConstructQuiet, SilentMirrors
  <1>3. CASE StartWithSnapshot(c)
        BY <1>3, SnapshotMirrors
  <1>4. CASE StartWithoutSnapshot(c)
        BY <1>4, StartQuiet, SilentMirrors
  <1> QED BY <1>1, <1>2, <1>3, <1>4 DEF Process

LEMMA ApplicationMirrors ==
  ASSUME Steady, RefInv, TypeInv', HasRoom, NEW c \in Client, Application(c)
  PROVE  Mirrors(c)
  <1>1. ~CreateTable(c)
        BY DEF CreateTable, RefInv, Plain
  <1>2. ~SetSchemaVersion(c)
        BY SyncEngineAssumption DEF SetSchemaVersion, RefInv, Plain
  <1>3. CASE BeginWrite(c)
        BY <1>3, BeginWriteQuiet, SilentMirrors
  <1>4. CASE Exec(c)
        BY <1>4, ExecMirrors
  <1>5. CASE EndWriteEmpty(c)
        BY <1>5, EndWriteEmptyQuiet, SilentMirrors
  <1>6. CASE EndWrite(c)
        BY <1>6, EndWriteMirrors
  <1> QED BY <1>1, <1>2, <1>3, <1>4, <1>5, <1>6 DEF Application

LEMMA PublishingMirrors ==
  ASSUME Steady, RefInv, TypeInv', NEW c \in Client, Publishing(c)
  PROVE  Mirrors(c)
  <1>1. ~queued[c]
        BY DEF RefInv, Base, PassInv, SessionsQuiet
  <1>2. ~FlushDropped(c) /\ ~FlushEmpty(c) /\ ~Flush(c)
        BY <1>1 DEF FlushDropped, FlushEmpty, Flush
  <1>3. ~PublishFails(c)
        BY DEF PublishFails, Steady
  <1>4. CASE Publish(c)
        BY <1>4, PublishQuiet, SilentMirrors
  <1>5. CASE MarkOwn(c)
        BY <1>5, MarkOwnQuiet, SilentMirrors
  <1> QED BY <1>2, <1>3, <1>4, <1>5 DEF Publishing

LEMMA SyncingMirrors ==
  ASSUME Steady, RefInv, TypeInv', NEW c \in Client, Syncing(c)
  PROVE  Mirrors(c)
  <1>1. ~RejectVersion(c)
        <2>1. SUFFICES ASSUME InPass(c), NEW n \in Earliest(todo[c]) PROVE Accepts(c, n)
              BY DEF RejectVersion
        <2>2. n.ver = TopVersion /\ version[c] = TopVersion
              BY <2>1, NextInOrder DEF RefInv, Plain
        <2> QED BY <2>2, SyncEngineAssumption DEF Accepts
  <1>2. ~Unreadable(c)
        BY DEF Unreadable, RefInv, Plain
  <1>3. CASE SyncStart(c)
        BY <1>3, SyncStartQuiet, SilentMirrors
  <1>4. CASE Apply(c)
        BY <1>4, ApplyMirrors
  <1>5. CASE Mark(c)
        BY <1>5, MarkQuiet, SilentMirrors
  <1>6. CASE EndPass(c)
        BY <1>6, EndPassQuiet, SilentMirrors
  <1> QED BY <1>1, <1>2, <1>3, <1>4, <1>5, <1>6 DEF Syncing

LEMMA NoDelivery ==
  ASSUME RefInv, NEW c \in Client
  PROVE  ~Delivery(c)
  BY DEF Delivery, Deliver, DeliverRest, RefInv, Plain

LEMMA IdleMirrors ==
  ASSUME RefInv, UNCHANGED vars
  PROVE  UNCHANGED Abstract!abstract /\ (Plain /\ InOrder /\ LogInv /\ RowsInv)'
  <1>1. UNCHANGED <<db, rowHlc, applied, tables, version, base, pc, out, todo, deferred, cur,
                    folder, seen, torn, writes>>
        BY DEF vars
  <1>2. Unwritten' = Unwritten /\ Unused' = Unused /\ \A c : Started(c)' = Started(c)
        BY <1>1 DEF Unwritten, Unused, Started
  <1>3. Issued' = Issued /\ \A n : Rows(n)' = Rows(n)
        BY <1>1, SameLog
  <1>4. \A c : Known(c)' = Known(c) /\ Taken(c)' = Taken(c)
        BY <1>1, <1>2 DEF Known, Taken
  <1>5. \A c : Draft(c)' = Draft(c)
        BY <1>1 DEF Draft, Captured
  <1>6. \A c : Private(c)' = Private(c)
        BY <1>1, <1>2, <1>5 DEF Private
  <1>7. \A c, k : Writers(c, k)' = Writers(c, k)
        BY <1>3, <1>4 DEF Writers
  <1>8. UNCHANGED Abstract!abstract
        BY <1>1, <1>3, <1>4, <1>5 DEF Abstract!abstract, AbstractLog, AbstractKnown, AbstractDraft
  <1>9. Plain' /\ InOrder'
        BY <1>1, <1>2, <1>4 DEF RefInv, Plain, InOrder
  <1>10. LogInv'
        BY <1>1, <1>2, <1>3 DEF RefInv, LogInv, GoodRow
  <1>11. RowsInv'
        <2>1. \A c \in Client : (Recorded(c) /\ Unheard(c) /\ Spent(c))'
              BY <1>1, <1>2, <1>3, <1>6, <1>7 DEF RefInv, RowsInv, Recorded, Unheard, Spent
        <2>2. \A c \in Client : (Shown(c) /\ Based(c))'
              BY <1>1, <1>2, <1>3, <1>5, <1>7 DEF RefInv, RowsInv, Shown, Based
        <2>3. \A c, d \in Client : c # d => Unlike(c, d)'
              BY <1>1, <1>6 DEF RefInv, RowsInv, Unlike
        <2> QED BY <2>1, <2>2, <2>3 DEF RowsInv
  <1> QED BY <1>8, <1>9, <1>10, <1>11

\* The inductive step, of the invariant and of the refinement.
LEMMA NextRef ==
  ASSUME Steady, RefInv, HasRoom, HasRoom', [Next]_vars
  PROVE  RefInv' /\ [Abstract!Next]_(Abstract!abstract)
  <1>1. NoLoss /\ ManualOnly
        BY DEF Steady, NoLoss, ManualOnly
  <1>2. TypeInv /\ TypeInv' /\ PassInv'
        BY <1>1, NextTypes, NextPass DEF RefInv, Base, PassInv
  <1>3. NamesInv' /\ OwnPublished'
        BY <1>1, NextNames, NextOwn DEF RefInv, Base
  <1>4. ClockInv'
        BY <1>1, <1>2, NextTimely DEF RefInv, Base
  <1>5. Base'
        BY <1>2, <1>3, <1>4 DEF Base
  <1>6. /\ [Abstract!Next]_(Abstract!abstract)
        /\ (Plain /\ InOrder /\ LogInv /\ RowsInv)'
        <2>1. CASE UNCHANGED vars
              BY <2>1, IdleMirrors
        <2>2. CASE Next
              <3>1. PICK c \in Client : \/ Process(c) \/ Application(c) \/ Publishing(c)
                                        \/ Syncing(c) \/ Delivery(c)
                    BY <2>2 DEF Next
              <3>2. Mirrors(c)
                    BY <1>2, <3>1, ProcessMirrors, ApplicationMirrors, PublishingMirrors,
                       SyncingMirrors, NoDelivery
              <3> QED BY <3>2 DEF Mirrors, Abstract!Next
        <2> QED BY <2>1, <2>2
  <1>7. P!IInv'
        BY <1>6, ViewKept DEF RefInv
  <1> QED BY <1>5, <1>6, <1>7 DEF RefInv

LEMMA InitRef == Steady /\ Init => RefInv /\ Abstract!Init
  <1> SUFFICES ASSUME Steady, Init PROVE RefInv /\ Abstract!Init
      OBVIOUS
  <1>0. DOMAIN << >> = {}
        OBVIOUS
  <1>1. Base
        <2>1. PassInv /\ NamesInv /\ ClockInv
              BY InitPass, InitNames, InitTimely
        <2>2. OwnPublished
              BY DEF Init, OwnPublished, Busy
        <2> QED BY <2>1, <2>2 DEF Base
  <1>2. /\ Issued = {} /\ \A c \in Client : Known(c) = {} /\ Taken(c) = {} /\ Draft(c) = {}
        /\ \A c \in Client : ~Started(c)
        <2>1. Unwritten = {} /\ DOMAIN folder = {}
              BY <1>0 DEF Init, Unwritten
        <2>2. Issued = {}
              BY <2>1 DEF Issued
        <2>3. \A c \in Client : Known(c) = {} /\ Taken(c) = {}
              BY <2>1 DEF Init, Known, Taken
        <2>4. \A c \in Client : Draft(c) = {}
              BY <1>0 DEF Init, Draft, Captured
        <2>5. \A c \in Client : ~Started(c)
              BY DEF Init, Started
        <2> QED BY <2>2, <2>3, <2>4, <2>5
  <1>3. Plain
        BY <1>0, <1>2 DEF Plain, Init, Steady, Busy
  <1>4. InOrder
        BY <1>0 DEF InOrder, Init
  <1>5. LogInv
        BY <1>2 DEF LogInv
  <1>6. ASSUME NEW c \in Client
        PROVE  Recorded(c) /\ Unheard(c) /\ Shown(c) /\ Based(c) /\ Spent(c)
        <2>1. \A k \in Key : Writers(c, k) = {}
              BY <1>2 DEF Writers
        <2>2. Recorded(c) /\ Shown(c)
              BY <1>2, <2>1 DEF Recorded, Shown, Init
        <2>3. Unheard(c)
              BY <1>2 DEF Unheard, Private
        <2>4. base[c] = None
              BY DEF Init
        <2>5. \A k \in Key : db[c][k] \notin Unused
              <3>1. db = InitDb /\ writes = 0
                    BY DEF Init
              <3>2. Unused = {[f \in Col |-> v] : v \in 1 .. MaxWrites}
                    BY <3>1 DEF Unused
              <3> QED BY <3>1, <3>2 DEF Steady
        <2> QED BY <2>2, <2>3, <2>4, <2>5 DEF Based, Spent
  <1>7. ASSUME NEW c \in Client, NEW d \in Client, c # d
        PROVE  Unlike(c, d)
        BY <1>2, <1>7 DEF Unlike, Private, Init, Steady
  <1>8. RowsInv
        BY <1>6, <1>7 DEF RowsInv
  <1>9. /\ AbstractLog = << >> /\ AbstractKnown = [c \in Client |-> {}]
        /\ AbstractDraft = [c \in Client |-> {}]
        <2>1. AbstractLog = << >>
              BY <1>2 DEF AbstractLog
        <2> QED BY <1>2, <2>1 DEF AbstractKnown, AbstractDraft
  <1>10. db \in [Client -> [Key -> Row \cup {None}]]
        BY <1>1 DEF Base, PassInv, TypeInv, TypeOK
  <1>11. Abstract!Init /\ P!Init
        BY <1>9, <1>10 DEF Abstract!Init, P!Init, Abstract!Row, P!Row, Row
  <1>12. P!IInv
        <2>1. P!Init => P!IInv
              BY P!InitStep, RankAssumption, TableOfAssumption, NoneAssumption
                 DEF P!Name, Name, P!PartialRow, PartialRow
        <2> QED BY <1>11, <2>1
  <1> QED BY <1>1, <1>3, <1>4, <1>5, <1>8, <1>11, <1>12 DEF RefInv

LEMMA RefAlways == Steady => (Spec /\ []HasRoom => []RefInv)
  <1> SUFFICES ASSUME Steady PROVE Spec /\ []HasRoom => []RefInv
      OBVIOUS
  <1>1. Init => RefInv
        BY InitRef
  <1>2. RefInv /\ HasRoom /\ HasRoom' /\ [Next]_vars => RefInv'
        BY NextRef
  <1> QED BY <1>1, <1>2, PTL DEF Spec

-----------------------------------------------------------------------------------
(* The theorems. *)

\* Two engines whose rows have one column implement last-writer-wins replication: whatever
\* the interleaving of their handlers, applying a file takes effect exactly on the rows of
\* which the client knows no later write (ConflictResolver, applyOneChangeset).
THEOREM EngineIsLastWriterWins ==
  Steady => (Spec /\ []HasRoom => ImplementsLastWriterWins)
  <1> SUFFICES ASSUME Steady PROVE Spec /\ []HasRoom => ImplementsLastWriterWins
      OBVIOUS
  <1>1. Init => Abstract!Init
        BY InitRef
  <1>2. RefInv /\ HasRoom /\ HasRoom' /\ [Next]_vars => [Abstract!Next]_(Abstract!abstract)
        BY NextRef
  <1>3. Spec /\ []HasRoom => []RefInv
        BY RefAlways
  <1> QED BY <1>1, <1>2, <1>3, PTL DEF Spec, ImplementsLastWriterWins, Abstract!Spec

\* Outside a write, what is applied is what is known, and the rows are as P!IInv has them.
LEMMA LatestWriteShows ==
  ASSUME RefInv, NEW c \in Client, pc[c] = "idle", ~manual[c], NEW k \in Key,
         NEW n \in applied[c] \cap DOMAIN folder, k \in DOMAIN folder[n].rows,
         \A m \in applied[c] \cap DOMAIN folder : k \in DOMAIN folder[m].rows => ~Precedes(n, m)
  PROVE  Shows(db[c][k], folder[n].rows[k])
  <1>0. DOMAIN << >> = {}
        OBVIOUS
  <1>1. base[c] = None /\ cur[c] = None /\ c \notin Unwritten
        BY DEF RefInv, Base, PassInv, SessionsQuiet, TypeInv, Places, Unwritten
  <1>2. Known(c) = applied[c] /\ applied[c] \subseteq DOMAIN folder
        BY <1>1 DEF Known, Taken, RefInv, Plain
  <1>3. \A m \in Known(c) : Rows(m) = folder[m].rows
        BY <1>2 DEF Rows
  <1>4. Draft(c) = {}
        BY <1>0, <1>1 DEF Draft, Captured
  <1>5. n \in Writers(c, k)
        BY <1>2, <1>3 DEF Writers
  <1>6. PICK t \in Writers(c, k) : /\ \A m \in Writers(c, k) \ {t} : Precedes(m, t)
                                   /\ db[c][k] = Rows(t)[k].new
        BY <1>4, <1>5, ViewFacts DEF RefInv, ViewInv
  <1>7. n = t
        BY <1>2, <1>3, <1>5, <1>6 DEF Writers
  <1>8. db[c][k] = folder[n].rows[k].new /\ folder[n].rows[k].new \in Row
        BY <1>2, <1>3, <1>5, <1>6, <1>7 DEF RefInv, LogInv, GoodRow, Issued
  <1> QED BY <1>8, RowIsSome DEF Shows

\* Between handlers, every row shows the change with the highest timestamp of those applied
\* ("the change with the higher HLC wins"), under the same conditions.
THEOREM EngineShowsHigherHlc == Steady => (Spec /\ []HasRoom => []HigherHlcWins)
  <1> SUFFICES ASSUME Steady PROVE Spec /\ []HasRoom => []HigherHlcWins
      OBVIOUS
  <1>1. RefInv => HigherHlcWins
        BY LatestWriteShows DEF HigherHlcWins
  <1>2. Spec /\ []HasRoom => []RefInv
        BY RefAlways
  <1> QED BY <1>1, <1>2, PTL

\* Once every client has applied every changeset, all databases are equal, under the same
\* conditions: also in the rows that nobody ever wrote.
THEOREM EnginesConverge == Steady => (Spec /\ []HasRoom => []Convergence)
  <1> SUFFICES ASSUME Steady PROVE Spec /\ []HasRoom => []Convergence
      OBVIOUS
  <1>0. DOMAIN << >> = {}
        OBVIOUS
  <1>1. RefInv => Convergence
        <2> SUFFICES ASSUME RefInv, \A c \in Client : Settled(c),
                            NEW c \in Client, NEW d \in Client
                     PROVE  db[c] = db[d]
            BY DEF Convergence
        <2>1. ASSUME NEW e \in Client
              PROVE  Known(e) = DOMAIN folder /\ Draft(e) = {} /\ Started(e)
              <3>1. pc[e] = "idle" /\ ~manual[e] /\ DOMAIN folder \subseteq applied[e]
                    BY DEF Settled
              <3>2. base[e] = None /\ cur[e] = None /\ e \notin Unwritten /\ Started(e)
                    BY <3>1 DEF RefInv, Base, PassInv, SessionsQuiet, TypeInv, Places, Unwritten,
                                Started
              <3>3. Known(e) = DOMAIN folder
                    BY <3>1, <3>2 DEF Known, Taken, RefInv, Plain
              <3>4. Draft(e) = {}
                    BY <1>0, <3>2 DEF Draft, Captured
              <3> QED BY <3>2, <3>3, <3>4
        <2>2. ASSUME NEW k \in Key
              PROVE  db[c][k] = db[d][k]
              <3>1. Writers(c, k) = Writers(d, k)
                    BY <2>1 DEF Writers
              <3>2. CASE Writers(c, k) = {}
                    BY <2>1, <3>1, <3>2 DEF RefInv, RowsInv, Shown
              <3>3. CASE Writers(c, k) # {}
                    <4>1. ViewInv
                          BY ViewFacts DEF RefInv
                    <4>2. PICK t \in Writers(c, k) :
                                 /\ \A m \in Writers(c, k) \ {t} : Precedes(m, t)
                                 /\ db[c][k] = Rows(t)[k].new
                          BY <2>1, <3>3, <4>1 DEF ViewInv
                    <4>3. PICK u \in Writers(c, k) :
                                 /\ \A m \in Writers(c, k) \ {u} : Precedes(m, u)
                                 /\ db[d][k] = Rows(u)[k].new
                          BY <2>1, <3>1, <3>3, <4>1 DEF ViewInv
                    <4>4. t \in Name /\ u \in Name
                          BY <4>1 DEF ViewInv, Writers
                    <4>5. t = u
                          BY <4>2, <4>3, <4>4, Strict
                    <4> QED BY <4>2, <4>3, <4>5
              <3> QED BY <3>2, <3>3
        <2>3. db[c] \in [Key -> MaybeRow] /\ db[d] \in [Key -> MaybeRow]
              BY DEF RefInv, Base, PassInv, TypeInv, TypeOK, MaybeRow
        <2> QED BY <2>2, <2>3
  <1>2. Spec /\ []HasRoom => []RefInv
        BY RefAlways
  <1> QED BY <1>1, <1>2, PTL

===================================================================================
