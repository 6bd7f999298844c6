------------------------------- MODULE MCSyncEngine -------------------------------
(* Small instances of SyncEngine. *)
EXTENDS SyncEngineRefinement

Two == {"a", "b"}
Three == {"a", "b", "c"}

\* The identifiers in their order as strings.
Order == [c \in Client |-> CASE c = "a" -> 1 [] c = "b" -> 2 [] c = "c" -> 3]

\* Rows r and s of table t, and row u of table z.
OneKey == {"r"}
BothRows == {"r", "u"}
OneTable == {"t"}
BothTables == {"t", "z"}
InTable == [k \in Key |-> IF k = "u" THEN "z" ELSE "t"]

OneCol == {"x"}
TwoCols == {"x", "y"}
Values == 0 .. MaxWrites

NoClients == {}
OnlyA == {"a"}
AllClients == Client

NoFaults == {}
\* Everything but the loss of a process and a sync inside a manual write.
Benign == {"stop", "lost", "delay", "torn"}
Exits == {"exit"}
Delays == {"delay"}
DelaysAndRestarts == {"delay", "stop", "crash"}
StopsAndNesting == {"stop", "lost", "midwrite"}

Reading == {1}
Readings == {1, 2}

InsertUpdate == {"insert", "update"}
UpdateOnly == {"update"}
UpdateDelete == {"update", "delete"}
InsertUpdateDelete == {"insert", "update", "delete"}

Empty == [c \in Client |-> [k \in Key |-> None]]
\* Client a has rows before it joins the folder, and no other client does.
RowsAtA == [c \in Client |-> [k \in Key |-> IF c = "a" THEN [f \in Col |-> 0] ELSE None]]
\* All clients were shipped with the same rows.
SameRows == [c \in Client |-> [k \in Key |-> [f \in Col |-> 0]]]

AllTables == [c \in Client |-> Table]
\* Client b has not created table z yet.
BLacksZ == [c \in Client |-> IF c = "b" THEN Table \ {"z"} ELSE Table]

Version0 == [c \in Client |-> 0]
\* Client a runs the newest version of the application.
ANewest == [c \in Client |-> IF c = "a" THEN TopVersion ELSE 0]

===================================================================================
