--------------------------------- MODULE Changeset ---------------------------------
(***************************************************************************)
(* What one changeset is, how a session produces it and what applying it   *)
(* to a database does, with the decisions of ConflictResolver.  The        *)
(* session extension of SQLite is not part of the repository: Capture and  *)
(* Clean are its documented behaviour, as SyncableDatabase uses it.        *)
(*                                                                         *)
(* A database is a function from Key to a row or None.  A key stands for   *)
(* one primary key of one table.  Rows carry no other constraint, so the   *)
(* CONSTRAINT and FOREIGN_KEY conflicts, which are omitted, do not arise.  *)
(*                                                                         *)
(* A session sees every table, so a changeset has three parts: rows of     *)
(* user tables, rows of _sync_applied (`marks`, the names of changesets)   *)
(* and rows of _sync_row_hlc (`stamps`).  The column client_id of the last *)
(* is never read back by the code and is left out.                         *)
(***************************************************************************)
EXTENDS HybridLogicalClock, Functions

CONSTANTS Client,   \* client identifiers
          Rank,     \* Rank[c]: the place of c in the order of identifiers
          Table,    \* user tables
          Key,      \* rows, over all tables
          TableOf,  \* TableOf[k]: the table of row k
          Col,      \* columns other than the primary key
          Val,      \* what a column can hold
          None      \* no row, no file, no session

Row == [Col -> Val]
PartialRow == UNION {[D -> Val] : D \in SUBSET Col}
Change == [old : PartialRow \cup {None}, new : PartialRow \cup {None}]

ASSUME RankAssumption ==
  Rank \in [Client -> Nat] /\ \A c, d \in Client : Rank[c] = Rank[d] => c = d
ASSUME TableOfAssumption == TableOf \in [Key -> Table]
\* The name of a changeset file carries its author, timestamp, sequence
\* number and schema version.
Name == [client : Client, hlc : Nat, seq : Nat, ver : Nat]

ASSUME NoneAssumption == None \notin PartialRow /\ None \notin Name

-----------------------------------------------------------------------------------
(* Producing a changeset. *)

\* The net change of one row between two moments: a whole row when it
\* appears or disappears, the modified columns alone when it is updated.
DiffRow(before, after) ==
  IF before = None \/ after = None
    THEN [old |-> before, new |-> after]
    ELSE LET modified == {f \in Col : before[f] # after[f]}
         IN  [old |-> Restrict(before, modified), new |-> Restrict(after, modified)]

Diff(before, after) ==
  [k \in {x \in Key : before[x] # after[x]} |-> DiffRow(before[k], after[k])]

\* The session between the moment `base` and now.
Capture(base, db, applied, rowHlc) ==
  [rows   |-> Diff(base.db, db),
   marks  |-> applied \ base.applied,
   stamps |-> [k \in {x \in Key : base.rowHlc[x] # rowHlc[x]} |->
                 [old |-> base.rowHlc[k], new |-> rowHlc[k]]]]

\* sqlite3session_diff against an empty copy: an INSERT for every row.
Snapshot(db) ==
  [rows |-> Diff([k \in Key |-> None], db), marks |-> {}, stamps |-> << >>]

IsEmpty(content) ==
  DOMAIN content.rows = {} /\ content.marks = {} /\ DOMAIN content.stamps = {}

TablesOf(content) == {TableOf[k] : k \in DOMAIN content.rows}

-----------------------------------------------------------------------------------
(* Applying a changeset. *)

\* The row is what the change expects: no conflict is reported.
Clean(change, row) ==
  IF change.old = None \/ change.new = None
    THEN row = change.old
    ELSE row # None /\ \A f \in DOMAIN change.old : row[f] = change.old[f]

\* SQLITE_CHANGESET_NOTFOUND: the row to update or delete is not there.
NotFound(change, row) == change.old # None /\ row = None

\* The row once the change is written over it.
Effect(change, row) ==
  IF change.new = None THEN None
  ELSE IF row = None THEN change.new
  ELSE [f \in Col |-> IF f \in DOMAIN change.new THEN change.new[f] ELSE row[f]]

\* The decision of the conflict handler of client c about a change of client
\* `from` with timestamp h, for a row whose recorded timestamp is rowHlc; and
\* three slips: the incoming change always wins, it wins every tie, it wins when
\* it is older.
WinsAlways(h, from, rowHlc, c) == TRUE

WinsTies(h, from, rowHlc, c) == h >= rowHlc

WinsIfOlder(h, from, rowHlc, c) ==
  h < rowHlc \/ (h = rowHlc /\ Rank[from] > Rank[c])

Wins(h, from, rowHlc, c) ==
  h > rowHlc \/ (h = rowHlc /\ Rank[from] > Rank[c])

\* One change met with one row: the row and its recorded timestamp after it.
\* A change that applies without conflict leaves the recorded timestamp alone.
Resolve(change, row, rowHlc, n, c) ==
  IF Clean(change, row)
    THEN [row |-> Effect(change, row), hlc |-> rowHlc]
  ELSE IF ~NotFound(change, row) /\ Wins(n.hlc, n.client, rowHlc, c)
    THEN [row |-> Effect(change, row), hlc |-> n.hlc]
  ELSE [row |-> row, hlc |-> rowHlc]

\* The rows of content that changeset_apply tries: a table that is missing is
\* skipped with a warning.
Reached(content, tables) == {k \in DOMAIN content.rows : TableOf[k] \in tables}

\* The captured stamps that apply without conflict; the handler skips the
\* others.
AddStamps(rowHlc, stamps) ==
  [k \in Key |-> IF k \in DOMAIN stamps /\ stamps[k].old = rowHlc[k]
                   THEN stamps[k].new ELSE rowHlc[k]]

\* Everything changeset_apply does at client c with the content of file n.
\* The stamps come before the rows or after them, as the session met the
\* tables.
Applied(content, n, c, db, rowHlc, tables, stampsFirst) ==
  LET before   == IF stampsFirst THEN AddStamps(rowHlc, content.stamps) ELSE rowHlc
      resolved == [k \in Reached(content, tables) |->
                     Resolve(content.rows[k], db[k], before[k], n, c)]
      after    == [k \in Key |-> IF k \in DOMAIN resolved THEN resolved[k].hlc
                                                          ELSE before[k]]
  IN  [db     |-> [k \in Key |-> IF k \in DOMAIN resolved THEN resolved[k].row
                                                          ELSE db[k]],
       rowHlc |-> IF stampsFirst THEN after ELSE AddStamps(after, content.stamps)]

\* The order of ChangesetManager::pendingChangesets.
Precedes(a, b) ==
  \/ a.hlc < b.hlc
  \/ a.hlc = b.hlc /\ Rank[a.client] < Rank[b.client]
  \/ a.hlc = b.hlc /\ a.client = b.client /\ a.seq < b.seq

Earliest(names) == {n \in names : \A m \in names : ~Precedes(m, n)}

===================================================================================
