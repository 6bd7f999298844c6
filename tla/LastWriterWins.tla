-------------------------------- MODULE LastWriterWins --------------------------------
(***************************************************************************)
(* What the synchronisation engine promises of the rows of its clients     *)
(* ("the change with the higher HLC wins"), without files, timestamps in   *)
(* tables, sessions or passes: every row is a register, and what a client  *)
(* shows of it is the latest write among those it knows.                   *)
(*                                                                         *)
(* A row is written as a whole, as rows of a single column are.            *)
(***************************************************************************)
EXTENDS Changeset

VARIABLES
  log,    \* log[n]: what the write named n writes, from keys to a row or None
  known,  \* known[c]: the names of the writes that c knows
  view,   \* view[c][k]: what c shows of row k
  draft   \* draft[c]: the rows that c has edited and not announced

abstract == <<log, known, view, draft>>

\* The writes of row k that c knows.
Touching(c, k) == {n \in known[c] : k \in DOMAIN log[n]}

Init ==
  /\ log = << >>
  /\ known = [c \in Client |-> {}]
  /\ view \in [Client -> [Key -> Row \cup {None}]]
  /\ draft = [c \in Client |-> {}]

\* c edits a row for itself.
Edit(c) ==
  /\ \E k \in Key, row \in Row \cup {None} :
       /\ view' = [view EXCEPT ![c][k] = row]
       /\ draft' = [draft EXCEPT ![c] = @ \cup {k}]
  /\ UNCHANGED <<log, known>>

\* c announces its rows as they are now, those that it has edited among them, as the latest
\* write of all that it knows.
Announce(c) ==
  /\ \E n \in DOMAIN log' \ DOMAIN log, keys \in SUBSET Key :
       /\ n \in Name /\ n.client = c /\ \A m \in known[c] : Precedes(m, n)
       /\ draft[c] \subseteq keys
       /\ log' = [m \in DOMAIN log \cup {n} |->
                    IF m = n THEN [k \in keys |-> view[c][k]] ELSE log[m]]
       /\ known' = [known EXCEPT ![c] = @ \cup {n}]
  /\ draft' = [draft EXCEPT ![c] = {}]
  /\ UNCHANGED view

\* c learns a write of any client, in any order; it counts where c knows no later one.
Learn(c) ==
  /\ draft[c] = {}
  /\ \E n \in DOMAIN log \ known[c] :
       /\ known' = [known EXCEPT ![c] = @ \cup {n}]
       /\ view' = [view EXCEPT ![c] =
                     [k \in Key |->
                        IF k \in DOMAIN log[n] /\ \A m \in Touching(c, k) : Precedes(m, n)
                          THEN log[n][k] ELSE view[c][k]]]
  /\ UNCHANGED <<log, draft>>

Next == \E c \in Client : Edit(c) \/ Announce(c) \/ Learn(c)

Spec == Init /\ [][Next]_abstract

-----------------------------------------------------------------------------------
(* Properties. *)

\* Every row that has been written is shown as the latest write has it.
LatestShown ==
  \A c \in Client : \A k \in Key \ draft[c] : \A n \in Touching(c, k) :
    (\A m \in Touching(c, k) : ~Precedes(n, m)) => view[c][k] = log[n][k]

\* Clients that know the same writes show the same rows, whatever order they have learned
\* them in.
Agreement ==
  \A c, d \in Client :
    known[c] = known[d] /\ draft[c] = {} /\ draft[d] = {} =>
      \A k \in Key : Touching(c, k) # {} => view[c][k] = view[d][k]

===================================================================================
