----------------------------- MODULE SyncEngineRefinement -----------------------------
(***************************************************************************)
(* The engine as an implementation of LastWriterWins.  A client knows a    *)
(* changeset from the moment it has applied it, or stamped it as its own:  *)
(* the file, the marks and the passes of sync() are steps that change      *)
(* nothing abstract.                                                       *)
(***************************************************************************)
EXTENDS SyncEngine

\* A changeset is issued when it is stamped, before its file is written.
Unwritten == {c \in Client : pc[c] \in {"publish", "own", "snapshot", "ownSnapshot"}}

Issued == DOMAIN folder \cup {out[c].name : c \in Unwritten}

\* The changes of rows in changeset n.
Rows(n) ==
  IF n \in DOMAIN folder THEN folder[n].rows
    ELSE out[CHOOSE c \in Unwritten : out[c].name = n].content.rows

\* What c knows of, and the rows it has changed since it last issued a changeset.
Known(c) == applied[c] \cup ({cur[c]} \ {None})
              \cup (IF c \in Unwritten THEN {out[c].name} ELSE {})

Draft(c) == DOMAIN Captured(c).rows

AbstractLog == [n \in Issued |-> [k \in DOMAIN Rows(n) |-> Rows(n)[k].new]]
AbstractKnown == [c \in Client |-> Known(c)]
AbstractDraft == [c \in Client |-> Draft(c)]

Abstract == INSTANCE LastWriterWins
              WITH log <- AbstractLog, known <- AbstractKnown, view <- db, draft <- AbstractDraft

\* The conditions of that implementation.  Two clients that only write by hand; nothing is
\* lost, late, stopped or upgraded; rows have one column and are not deleted; and no two
\* writes, nor the rows that clients start with, make the same row.  TLC refutes
\* ImplementsLastWriterWins as soon as one of these is dropped from the run: by a third
\* client, a late file, a deleted row, two columns or a value that returns.
Steady ==
  /\ AutoCapture = {} /\ Faults = {}
  /\ "delete" \notin Statements /\ FreshValues
  /\ \E x \in Col : Col = {x}
  /\ \A c, d, e \in Client : c = d \/ c = e \/ d = e
  /\ \A c \in Client : InitTables[c] = Table /\ InitVersion[c] = TopVersion
  /\ \A c, d \in Client, k \in Key :
       c # d => InitDb[c][k] = None \/ InitDb[c][k] # InitDb[d][k]
  /\ \A c \in Client, k \in Key, v \in 1 .. MaxWrites : InitDb[c][k] # [f \in Col |-> v]

\* Under these conditions every step of every handler is a step of last-writer-wins
\* replication or changes nothing of it: in particular applying a file takes effect exactly
\* on the rows of which the client knows no later write, though the code compares with the
\* timestamps of _sync_row_hlc, which are not always those of the writes.
ImplementsLastWriterWins == Abstract!Spec

===================================================================================
