------------------------------ MODULE SyncQueryProofs -----------------------------
(***************************************************************************)
(* Statements are owned: every live statement of SQLite belongs to exactly *)
(* one SyncQuery object, for any number of objects and statements.         *)
(* OwnedOnce is inductive together with the numbering of the statements,   *)
(* which makes the one that prepare() returns a new one.                   *)
(***************************************************************************)
EXTENDS SyncQuery, TLAPS

Numbered ==
  /\ made \in Nat
  /\ DOMAIN live \subseteq 1 .. made
  /\ DOMAIN stmt = Query

IInv == Numbered /\ OwnedOnce

LEMMA InitOwned == Init => IInv
  <1> SUFFICES ASSUME Init PROVE IInv
      OBVIOUS
  <1>1. DOMAIN live = {} /\ made = 0 /\ stmt = [q \in Query |-> None]
        BY DEF Init
  <1> QED BY <1>1 DEF IInv, Numbered, OwnedOnce

\* A step that only runs a statement, or none.
LEMMA StillOwned ==
  ASSUME IInv, DOMAIN live' = DOMAIN live, UNCHANGED <<made, stmt>>
  PROVE  IInv'
  BY DEF IInv, Numbered, OwnedOnce

\* The object gives up its statement, and it is finalized.
LEMMA FinalizedOwned ==
  ASSUME IInv, NEW q \in Query, live' = Without(q), made' = made,
         stmt' = [stmt EXCEPT ![q] = None]
  PROVE  IInv'
  <1>1. DOMAIN live' = DOMAIN live \ {stmt[q]}
        BY DEF Without
  <1>2. \A r \in Query : stmt'[r] = IF r = q THEN None ELSE stmt[r]
        BY DEF IInv, Numbered
  <1>3. None \notin DOMAIN live
        BY SyncQueryAssumption DEF IInv, Numbered
  <1> QED BY <1>1, <1>2, <1>3 DEF IInv, Numbered, OwnedOnce

LEMMA PrepareOwned ==
  ASSUME IInv, NEW q \in Query, Prepare(q)
  PROVE  IInv'
  <1>1. /\ DOMAIN live' = (DOMAIN live \ {stmt[q]}) \cup {made + 1}
        /\ made' = made + 1 /\ stmt' = [stmt EXCEPT ![q] = made + 1]
        BY DEF Prepare, Without
  <1>2. \A r \in Query : stmt'[r] = IF r = q THEN made + 1 ELSE stmt[r]
        BY <1>1 DEF IInv, Numbered
  <1>3. made + 1 \in Nat /\ made + 1 \notin DOMAIN live /\ None \notin DOMAIN live
        BY SyncQueryAssumption DEF IInv, Numbered
  <1>4. made + 1 # None
        BY <1>3, SyncQueryAssumption
  <1>5. Numbered'
        BY <1>1, <1>3 DEF IInv, Numbered
  <1>6. OwnedOnce'
        BY <1>1, <1>2, <1>3, <1>4 DEF IInv, OwnedOnce
  <1> QED BY <1>5, <1>6 DEF IInv

LEMMA MoveOwned ==
  ASSUME IInv, NEW q \in Query, NEW r \in Query, Move(q, r)
  PROVE  IInv'
  <1>1. /\ q # r /\ made' = made /\ DOMAIN live' = DOMAIN live \ {stmt[q]}
        /\ stmt' = [stmt EXCEPT ![q] = stmt[r], ![r] = None]
        BY DEF Move, Moved, Without
  <1>2. \A x \in Query : stmt'[x] = IF x = q THEN stmt[r] ELSE IF x = r THEN None ELSE stmt[x]
        BY <1>1 DEF IInv, Numbered
  <1>4. Numbered'
        BY <1>1 DEF IInv, Numbered
  <1>5. \A s \in DOMAIN live' : \E x \in Query : stmt'[x] = s
        <2> SUFFICES ASSUME NEW s \in DOMAIN live' PROVE \E x \in Query : stmt'[x] = s
            OBVIOUS
        <2>1. PICK x \in Query : stmt[x] = s
              BY <1>1 DEF IInv, OwnedOnce
        <2>2. CASE x = r
              BY <1>2, <2>1, <2>2
        <2>3. CASE x # r
              BY <1>1, <1>2, <2>1, <2>3
        <2> QED BY <2>2, <2>3
  <1>6. \A x \in Query : stmt'[x] # None => stmt'[x] \in DOMAIN live'
        BY <1>1, <1>2 DEF IInv, OwnedOnce
  <1>7. \A x, y \in Query : (stmt'[x] = stmt'[y] /\ stmt'[x] # None) => x = y
        BY <1>1, <1>2 DEF IInv, OwnedOnce
  <1> QED BY <1>4, <1>5, <1>6, <1>7 DEF IInv, OwnedOnce

LEMMA NextOwned == IInv /\ [Next]_vars => IInv'
  <1> SUFFICES ASSUME IInv, [Next]_vars PROVE IInv'
      OBVIOUS
  <1>1. CASE UNCHANGED vars
        BY <1>1, StillOwned DEF vars
  <1>2. CASE Next
        <2>1. PICK q \in Query :
                \/ Prepare(q) \/ PrepareFails(q) \/ BindValue(q)
                \/ Exec(q) \/ ExecUnprepared(q) \/ NextRow(q)
                \/ \E r \in Query : Move(q, r)
                \/ Destroy(q)
              BY <1>2 DEF Next
        <2>2. CASE Prepare(q)
              BY <2>2, PrepareOwned
        <2>3. CASE PrepareFails(q) \/ Destroy(q)
              BY <2>3, FinalizedOwned DEF PrepareFails, Destroy, Finalize
        <2>4. CASE BindValue(q) \/ Exec(q) \/ NextRow(q)
              <3>1. DOMAIN live' = DOMAIN live /\ UNCHANGED <<made, stmt>>
                    BY <2>4 DEF BindValue, Exec, NextRow
              <3> QED BY <3>1, StillOwned
        <2>5. CASE ExecUnprepared(q)
              BY <2>5, StillOwned DEF ExecUnprepared
        <2>6. CASE \E r \in Query : Move(q, r)
              BY <2>6, MoveOwned
        <2> QED BY <2>1, <2>2, <2>3, <2>4, <2>5, <2>6
  <1> QED BY <1>1, <1>2

\* No statement leaks, is shared or is finalized twice (finalize(), the move
\* operations and the destructor of SyncQuery), for all objects and values.
THEOREM StatementsOwnedOnce == Spec => []OwnedOnce
  <1>1. IInv => OwnedOnce
        BY DEF IInv
  <1> QED BY <1>1, InitOwned, NextOwned, PTL DEF Spec

-----------------------------------------------------------------------------------
(***************************************************************************)
(* The types, the rows that are read and the values that are inserted.     *)
(* The invariant relates the history of an object to the statement it owns *)
(* now: a statement that was never executed holds what bindValue() was     *)
(* given last, and a query stands on the row that was read last.           *)
(***************************************************************************)

\* The rows that q has read are those from the first one to where it stands.
ReadTo(q) ==
  /\ \A i \in DOMAIN past[q].read : past[q].read[i] = i /\ i <= Len(table)
  /\ IF live[stmt[q]].vm = "row" THEN live[stmt[q]].at = Len(past[q].read)
                                 ELSE past[q].read = << >>

InStep(q) ==
  stmt[q] # None =>
    /\ past[q].fresh => live[stmt[q]].vm = "ready" /\ live[stmt[q]].bound = past[q].asked
    /\ live[stmt[q]].kind = "select" => ReadTo(q)

HistoryInv == TypeOK /\ OwnedOnce /\ FirstInsertAsAsked /\ \A q \in Query : InStep(q)

Cell == Value \cup {Null}

Past == [asked : Cell, read : Seq(Nat), fresh : BOOLEAN]

LEMMA InitHistory == Init => HistoryInv
  <1> SUFFICES ASSUME Init PROVE HistoryInv
      OBVIOUS
  <1>1. /\ table = << >> /\ made = 0 /\ live = << >> /\ log = << >>
        /\ stmt = [q \in Query |-> None] /\ error = [q \in Query |-> FALSE]
        /\ past = [q \in Query |-> NoPast]
        BY DEF Init
  <1>2. NoPast \in Past
        BY DEF NoPast, Past, Cell
  <1>3. TypeOK
        BY <1>1, <1>2 DEF TypeOK, Past, Cell
  <1> QED BY <1>1, <1>3, InitOwned DEF Init, HistoryInv, IInv, FirstInsertAsAsked, InStep

\* What a step of statement s gives: a row of the table, its end, or a row more.
LEMMA StepGives ==
  ASSUME TypeOK, NEW s \in Statement, NEW step \in Step(s)
  PROVE  /\ step.s \in Statement
         /\ step.s.kind = s.kind /\ step.s.bound = s.bound
         /\ step.table = table \/ step.table = Append(table, s.bound)
         /\ s.kind = "select" => step.table = table
         /\ \/ /\ step.code = "row" /\ step.s.vm = "row" /\ step.s.at \in Nat
               /\ s.kind = "select" => /\ step.s.at = IF s.vm = "row" THEN s.at + 1 ELSE 1
                                       /\ step.s.at <= Len(table)
            \/ step.code \in {"done", "error"} /\ step.s.vm = "done"
  <1> DEFINE next == IF s.vm = "row" THEN s.at + 1 ELSE 1
             more == Append(table, s.bound)
  <1>1. /\ s.at \in Nat /\ s.bound \in Cell /\ s.kind \in Kind
        /\ table \in Seq(Cell)
        BY DEF Statement, TypeOK, Cell
  <1>2. next \in Nat /\ Len(more) \in Nat /\ more = Append(table, s.bound)
        BY <1>1
  <1>3. ASSUME NEW at \in Nat, NEW rows
        PROVE  /\ GivesRow(s, at, rows).s \in Statement
               /\ GivesRow(s, at, rows).s.kind = s.kind
               /\ GivesRow(s, at, rows).s.bound = s.bound
               /\ GivesRow(s, at, rows).s.vm = "row"
               /\ GivesRow(s, at, rows).s.at = at
               /\ GivesRow(s, at, rows).code = "row"
               /\ GivesRow(s, at, rows).table = rows
        BY DEF GivesRow, Statement
  <1>4. \A code, rows : /\ Ends(s, code, rows).s \in Statement
                        /\ Ends(s, code, rows).s.kind = s.kind
                        /\ Ends(s, code, rows).s.bound = s.bound
                        /\ Ends(s, code, rows).s.vm = "done"
                        /\ Ends(s, code, rows).code = code
                        /\ Ends(s, code, rows).table = rows
        BY DEF Ends, Statement
  <1>5. \/ s.kind = "select" /\ next <= Len(table) /\ step = GivesRow(s, next, table)
        \/ step = Ends(s, "done", table)
        \/ step = Ends(s, "error", table)
        \/ s.kind # "select" /\ step = Ends(s, "done", more)
        \/ s.kind # "select" /\ step = GivesRow(s, Len(more), more)
        BY DEF Step
  <1> HIDE DEF next, more
  <1>6. CASE s.kind = "select" /\ next <= Len(table) /\ step = GivesRow(s, next, table)
        BY <1>2, <1>3, <1>6 DEF next
  <1>7. CASE step = Ends(s, "done", table) \/ step = Ends(s, "error", table)
        BY <1>4, <1>7
  <1>8. CASE s.kind # "select" /\ step = Ends(s, "done", more)
        BY <1>2, <1>4, <1>8
  <1>9. CASE s.kind # "select" /\ step = GivesRow(s, Len(more), more)
        <2>1. Len(more) \in Nat /\ step = GivesRow(s, Len(more), more)
              BY <1>2, <1>9
        <2>2. /\ step.s \in Statement /\ step.s.kind = s.kind /\ step.s.bound = s.bound
              /\ step.table = more
              /\ step.code = "row" /\ step.s.vm = "row" /\ step.s.at \in Nat
              BY <1>3, <2>1
        <2> QED BY <1>2, <1>9, <2>2
  <1> QED BY <1>5, <1>6, <1>7, <1>8, <1>9

LEMMA AppendKeeps ==
  ASSUME NEW S, NEW x \in Seq(S), NEW e \in S
  PROVE  /\ Append(x, e) \in Seq(S) /\ Len(x) \in Nat /\ Len(Append(x, e)) = Len(x) + 1
         /\ Append(x, e)[Len(x) + 1] = e
         /\ \A i \in 1 .. Len(x) : Append(x, e)[i] = x[i]
  OBVIOUS

\* The statement of q is run: its step and what is left of the statement.
LEMMA RunHistory ==
  ASSUME HistoryInv, OwnedOnce', NEW q \in Query, stmt[q] # None,
         NEW step \in Step(live[stmt[q]]), NEW t \in Statement,
         t.kind = live[stmt[q]].kind, table' = step.table,
         live' = [live EXCEPT ![stmt[q]] = t], UNCHANGED <<stmt, made>>,
         error' \in [Query -> BOOLEAN], past' \in [Query -> Past],
         \A r \in Query \ {q} : past'[r] = past[r], past'[q].fresh = FALSE,
         \/ past'[q].read = << >> /\ t.vm # "row"
         \/ step.code = "row" /\ t = step.s /\ past'[q].read = Append(past[q].read, t.at),
         Logged(q)
  PROVE  HistoryInv'
  <1> DEFINE s == live[stmt[q]]
  <1>1. /\ TypeOK /\ OwnedOnce /\ FirstInsertAsAsked /\ InStep(q)
        /\ \A r \in Query : InStep(r)
        /\ table \in Seq(Cell) /\ past \in [Query -> Past]
        /\ stmt[q] \in DOMAIN live /\ s \in Statement
        /\ log \in Seq([asked : Cell, first : BOOLEAN]) /\ Len(log) = Len(table)
        BY DEF HistoryInv, OwnedOnce, TypeOK, Cell, Past
  <1>2. s.bound \in Cell /\ t.at \in Nat
        BY <1>1 DEF Statement, Cell
  <1>3. /\ table' = table \/ table' = Append(table, s.bound)
        /\ s.kind = "select" => table' = table
        /\ step.code = "row" => /\ step.s.vm = "row"
                                /\ s.kind = "select" =>
                                     /\ step.s.at = IF s.vm = "row" THEN s.at + 1 ELSE 1
                                     /\ step.s.at <= Len(table)
        BY <1>1, StepGives
  <1>4. /\ DOMAIN live' = DOMAIN live /\ live'[stmt[q]] = t
        /\ \A r \in DOMAIN live : r # stmt[q] => live'[r] = live[r]
        BY <1>1
  <1> HIDE DEF s
  <1>5. /\ table' \in Seq(Cell) /\ Len(table') \in Nat /\ Len(table') >= Len(table)
        /\ \A i \in 1 .. Len(table) : table'[i] = table[i]
        <2>1. table \in Seq(Cell) /\ Len(table) \in Nat
              BY <1>1
        <2>2. CASE table' = table
              BY <2>1, <2>2
        <2>3. CASE table' = Append(table, s.bound)
              <3>1. /\ table' \in Seq(Cell) /\ Len(table') = Len(table) + 1
                    /\ \A i \in 1 .. Len(table) : table'[i] = table[i]
                    BY <1>2, <2>1, <2>3, AppendKeeps
              <3> QED BY <2>1, <3>1
        <2> QED BY <1>3, <2>2, <2>3
  <1>6. /\ log' \in Seq([asked : Cell, first : BOOLEAN]) /\ Len(log') = Len(table')
        /\ FirstInsertAsAsked'
        <2> DEFINE entry == [asked |-> past[q].asked, first |-> past[q].fresh]
        <2>1. entry \in [asked : Cell, first : BOOLEAN]
              BY <1>1 DEF Past
        <2>2. CASE table' = table
              BY <1>1, <2>2 DEF Logged, FirstInsertAsAsked
        <2>3. CASE table' # table
              <3>1. table' = Append(table, s.bound) /\ log' = Append(log, entry)
                    BY <1>3, <2>3 DEF Logged
              <3>2. entry.first => s.bound = entry.asked
                    BY <1>1 DEF InStep, s
              <3> HIDE DEF entry
              <3>3. /\ Len(log') = Len(log) + 1 /\ log'[Len(log) + 1] = entry
                    /\ \A i \in 1 .. Len(log) : log'[i] = log[i]
                    BY <1>1, <2>1, <3>1
              <3>4. Len(table') = Len(table) + 1 /\ table'[Len(table) + 1] = s.bound
                    BY <1>1, <1>2, <3>1
              <3>5. log' \in Seq([asked : Cell, first : BOOLEAN])
                    BY <1>1, <2>1, <3>1
              <3>6. DOMAIN log = 1 .. Len(log) /\ DOMAIN log' = 1 .. (Len(log) + 1)
                    BY <1>1, <3>3, <3>5
              <3>7. Len(log) \in Nat
                    BY <1>1
              <3>8. FirstInsertAsAsked'
                    <4> SUFFICES ASSUME NEW i \in DOMAIN log', log'[i].first
                                 PROVE  table'[i] = log'[i].asked
                        BY DEF FirstInsertAsAsked
                    <4>1. CASE i = Len(log) + 1
                          BY <1>1, <3>2, <3>3, <3>4, <4>1
                    <4>2. CASE i \in 1 .. Len(log)
                          BY <1>1, <1>5, <3>3, <3>6, <4>2 DEF FirstInsertAsAsked
                    <4> QED BY <3>6, <3>7, <4>1, <4>2
              <3> QED BY <1>1, <3>3, <3>4, <3>5, <3>8
        <2> QED BY <2>2, <2>3
  <1>7. TypeOK'
        BY <1>1, <1>4, <1>5, <1>6 DEF TypeOK, Cell, Past
  <1>8. InStep(q)'
        <2>1. ASSUME t.kind = "select" PROVE ReadTo(q)'
              <3>1. ReadTo(q) /\ table' = table
                    BY <1>1, <1>3, <2>1 DEF InStep, s
              <3>2. CASE past'[q].read = << >> /\ t.vm # "row"
                    BY <1>4, <3>2 DEF ReadTo
              <3>3. CASE step.code = "row" /\ t = step.s
                         /\ past'[q].read = Append(past[q].read, t.at)
                    <4>1. past[q].read \in Seq(Nat) /\ Len(past[q].read) \in Nat
                          BY <1>1 DEF Past
                    <4>2. t.vm = "row" /\ t.at = Len(past[q].read) + 1 /\ t.at <= Len(table)
                          BY <1>3, <2>1, <3>1, <3>3, <4>1 DEF ReadTo, s
                    <4>3. /\ Len(past'[q].read) = t.at /\ past'[q].read[t.at] = t.at
                          /\ DOMAIN past'[q].read = 1 .. t.at
                          /\ \A i \in 1 .. Len(past[q].read) :
                               past'[q].read[i] = past[q].read[i] /\ i \in DOMAIN past[q].read
                          BY <1>2, <3>3, <4>1, <4>2
                    <4>4. \A i \in 1 .. t.at : i = t.at \/ i \in 1 .. Len(past[q].read)
                          BY <4>1, <4>2
                    <4>5. \A i \in DOMAIN past'[q].read :
                            past'[q].read[i] = i /\ i <= Len(table)
                          BY <3>1, <4>2, <4>3, <4>4 DEF ReadTo
                    <4> QED BY <1>4, <3>1, <4>2, <4>3, <4>5 DEF ReadTo
              <3> QED BY <3>2, <3>3
        <2> QED BY <1>4, <2>1 DEF InStep
  <1>9. ASSUME NEW r \in Query \ {q} PROVE InStep(r)'
        <2> SUFFICES ASSUME stmt[r] # None PROVE InStep(r)'
            BY DEF InStep
        <2>1. stmt[r] # stmt[q] /\ stmt[r] \in DOMAIN live
              BY <1>1 DEF OwnedOnce
        <2>2. live'[stmt'[r]] = live[stmt[r]] /\ past'[r] = past[r]
              BY <1>4, <2>1
        <2>3. InStep(r)
              BY <1>1
        <2>4. \A i \in DOMAIN past[r].read : i <= Len(table) => i <= Len(table')
              <3>1. past[r].read \in Seq(Nat)
                    BY <1>1 DEF Past
              <3> QED BY <1>1, <1>5, <3>1
        <2> QED BY <2>2, <2>3, <2>4 DEF InStep, ReadTo
  <1> QED BY <1>6, <1>7, <1>8, <1>9 DEF HistoryInv

LEMMA RunsHistory ==
  ASSUME HistoryInv, OwnedOnce', NEW q \in Query, Exec(q) \/ NextRow(q)
  PROVE  HistoryInv'
  <1> DEFINE s == live[stmt[q]]
  <1>1. /\ stmt[q] # None /\ UNCHANGED <<made, stmt>> /\ Logged(q)
        BY DEF Exec, NextRow
  <1>2. /\ TypeOK /\ s \in Statement
        /\ past \in [Query -> Past] /\ error \in [Query -> BOOLEAN]
        /\ past[q] \in Past /\ error[q] \in BOOLEAN
        BY <1>1 DEF HistoryInv, OwnedOnce, TypeOK, Cell, Past
  <1>3. CASE Exec(q)
        <2>1. PICK step \in Step(s) :
                /\ table' = step.table
                /\ live' = [live EXCEPT ![stmt[q]] = Left(step)]
                /\ error' = [error EXCEPT ![q] = step.code = "error"]
              BY <1>3 DEF Exec
        <2>2. past' = [past EXCEPT ![q].read = << >>, ![q].fresh = FALSE]
              BY <1>3 DEF Exec
        <2>3. /\ step.s \in Statement /\ step.s.kind = s.kind
              /\ step.code # "row" => step.s.vm # "row"
              BY <1>2, StepGives
        <2>4. Left(step) \in Statement /\ Left(step).kind = s.kind /\ Left(step).vm # "row"
              BY <2>3 DEF Left, Reset, Statement
        <2>5. error' \in [Query -> BOOLEAN]
              <3>1. (step.code = "error") \in BOOLEAN
                    OBVIOUS
              <3> QED BY <1>2, <2>1, <3>1
        <2>6. /\ past' \in [Query -> Past] /\ past'[q].fresh = FALSE /\ past'[q].read = << >>
              /\ \A r \in Query \ {q} : past'[r] = past[r]
              <3> DEFINE newRead == << >>
              <3>1. newRead \in Seq(Nat)
                    OBVIOUS
              <3>2. past' = [past EXCEPT ![q].read = newRead, ![q].fresh = FALSE]
                    BY <2>2
              <3> HIDE DEF newRead
              <3>3. /\ past' \in [Query -> Past] /\ past'[q].fresh = FALSE
                    /\ past'[q].read = newRead
                    /\ \A r \in Query \ {q} : past'[r] = past[r]
                    BY <1>2, <3>1, <3>2 DEF Past
              <3> QED BY <3>3 DEF newRead
        <2> HIDE DEF s
        <2> QED BY <1>1, <2>1, <2>4, <2>5, <2>6, RunHistory DEF s
  <1>4. CASE NextRow(q)
        <2>1. PICK step \in Step(s) :
                /\ table' = step.table
                /\ live' = [live EXCEPT ![stmt[q]] = step.s]
                /\ error' = [error EXCEPT ![q] = @ \/ step.code = "error"]
                /\ past' = [past EXCEPT ![q].fresh = FALSE,
                                        ![q].read = IF step.code = "row"
                                          THEN Append(@, step.s.at) ELSE << >>]
              BY <1>4 DEF NextRow
        <2>3. /\ step.s \in Statement /\ step.s.kind = s.kind
              /\ step.code # "row" => step.s.vm # "row"
              BY <1>2, StepGives
        <2>4. error' \in [Query -> BOOLEAN]
              <3>1. (error[q] \/ step.code = "error") \in BOOLEAN
                    OBVIOUS
              <3> QED BY <1>2, <2>1, <3>1
        <2> DEFINE newRead == IF step.code = "row" THEN Append(past[q].read, step.s.at) ELSE << >>
        <2>5. newRead \in Seq(Nat)
              <3>1. step.s.at \in Nat /\ past[q].read \in Seq(Nat)
                    BY <1>2, <2>3 DEF Statement, Past
              <3> QED BY <3>1, AppendKeeps
        <2>6. past' = [past EXCEPT ![q].fresh = FALSE, ![q].read = newRead]
              BY <2>1
        <2> HIDE DEF newRead
        <2>7. /\ past' \in [Query -> Past] /\ past'[q].fresh = FALSE /\ past'[q].read = newRead
              /\ \A r \in Query \ {q} : past'[r] = past[r]
              BY <1>2, <2>5, <2>6 DEF Past
        <2>8. \/ past'[q].read = << >> /\ step.s.vm # "row"
              \/ step.code = "row" /\ past'[q].read = Append(past[q].read, step.s.at)
              BY <2>3, <2>7 DEF newRead
        <2> QED BY <1>1, <2>1, <2>3, <2>4, <2>7, <2>8, RunHistory
  <1> QED BY <1>3, <1>4

\* A step that runs nothing: every object keeps its statement and its history,
\* or those another object had, or has neither.
LEMMA IdleHistory ==
  ASSUME HistoryInv, OwnedOnce', TypeOK', UNCHANGED <<table, log>>,
         \A q \in Query : stmt'[q] # None =>
           \E r \in Query : /\ stmt[r] = stmt'[q] /\ past'[q] = past[r]
                            /\ live'[stmt'[q]] = live[stmt'[q]]
  PROVE  HistoryInv'
  <1>1. FirstInsertAsAsked'
        BY DEF HistoryInv, FirstInsertAsAsked
  <1>2. ASSUME NEW q \in Query, stmt'[q] # None PROVE InStep(q)'
        <2>1. PICK r \in Query : /\ stmt[r] = stmt'[q] /\ past'[q] = past[r]
                                 /\ live'[stmt'[q]] = live[stmt'[q]]
              BY <1>2
        <2>2. InStep(r)
              BY DEF HistoryInv
        <2> QED BY <1>2, <2>1, <2>2 DEF InStep, ReadTo
  <1>3. \A q \in Query : InStep(q)'
        BY <1>2 DEF InStep
  <1> QED BY <1>1, <1>3 DEF HistoryInv

LEMMA FinalizeHistory ==
  ASSUME HistoryInv, OwnedOnce', NEW q \in Query, PrepareFails(q) \/ Destroy(q)
  PROVE  HistoryInv'
  <1>1. /\ live' = Without(q) /\ stmt' = [stmt EXCEPT ![q] = None]
        /\ error' \in [Query -> BOOLEAN]
        /\ past' = [past EXCEPT ![q] = NoPast]
        /\ UNCHANGED <<table, made, log>>
        <2>1. \/ error' = [error EXCEPT ![q] = TRUE]
              \/ error' = [error EXCEPT ![q] = FALSE]
              BY Zenon DEF PrepareFails, Destroy, Finalize
        <2>2. error' \in [Query -> BOOLEAN]
              BY <2>1 DEF HistoryInv, TypeOK
        <2> QED BY <2>2 DEF PrepareFails, Destroy, Finalize
  <1>2. /\ TypeOK /\ OwnedOnce /\ stmt \in [Query -> DOMAIN live \cup {None}]
        /\ past \in [Query -> Past]
        BY DEF HistoryInv, TypeOK, Past, Cell
  <1>3. NoPast \in Past
        BY DEF NoPast, Past, Cell
  <1>4. /\ DOMAIN live' = DOMAIN live \ {stmt[q]}
        /\ \A s \in DOMAIN live' : live'[s] = live[s]
        BY <1>1 DEF Without
  <1>5. /\ stmt'[q] = None
        /\ \A r \in Query \ {q} : stmt'[r] = stmt[r] /\ past'[r] = past[r]
        BY <1>1, <1>2
  <1>6. \A r \in Query : stmt'[r] # None => stmt'[r] \in DOMAIN live'
        BY DEF OwnedOnce
  <1>7. past' \in [Query -> Past] /\ stmt' \in [Query -> DOMAIN live' \cup {None}]
        BY <1>1, <1>2, <1>3, <1>6
  <1>8. TypeOK'
        BY <1>1, <1>2, <1>4, <1>7 DEF TypeOK, Past, Cell
  <1> QED BY <1>1, <1>4, <1>5, <1>6, <1>8, IdleHistory

LEMMA MoveHistory ==
  ASSUME HistoryInv, OwnedOnce', NEW q \in Query, NEW r \in Query, Move(q, r)
  PROVE  HistoryInv'
  <1>1. /\ q # r /\ live' = Without(q) /\ stmt' = [stmt EXCEPT ![q] = stmt[r], ![r] = None]
        /\ error' = [error EXCEPT ![q] = error[r], ![r] = FALSE]
        /\ past' = [past EXCEPT ![q] = past[r], ![r] = NoPast]
        /\ UNCHANGED <<table, made, log>>
        BY DEF Move, Moved
  <1>2. /\ TypeOK /\ OwnedOnce /\ stmt \in [Query -> DOMAIN live \cup {None}]
        /\ past \in [Query -> Past] /\ error \in [Query -> BOOLEAN]
        BY DEF HistoryInv, TypeOK, Past, Cell
  <1>3. NoPast \in Past
        BY DEF NoPast, Past, Cell
  <1>4. /\ DOMAIN live' = DOMAIN live \ {stmt[q]}
        /\ \A s \in DOMAIN live' : live'[s] = live[s]
        BY <1>1 DEF Without
  <1>5. /\ stmt'[r] = None /\ stmt'[q] = stmt[r] /\ past'[q] = past[r]
        /\ \A x \in Query \ {q, r} : stmt'[x] = stmt[x] /\ past'[x] = past[x]
        BY <1>1, <1>2
  <1>6. \A x \in Query : stmt'[x] # None => stmt'[x] \in DOMAIN live'
        BY DEF OwnedOnce
  <1>7. past' \in [Query -> Past] /\ stmt' \in [Query -> DOMAIN live' \cup {None}]
        BY <1>1, <1>2, <1>3, <1>6
  <1>8. error' \in [Query -> BOOLEAN]
        BY <1>1, <1>2
  <1>9. TypeOK'
        BY <1>1, <1>2, <1>4, <1>7, <1>8 DEF TypeOK, Past, Cell
  <1> QED BY <1>1, <1>4, <1>5, <1>6, <1>9, IdleHistory

LEMMA PrepareHistory ==
  ASSUME HistoryInv, OwnedOnce', NEW q \in Query, Prepare(q)
  PROVE  HistoryInv'
  <1>1. PICK kind \in Kind :
          LET new == [kind |-> kind, vm |-> "ready", bound |-> Null, at |-> 0]
          IN  live' = [s \in DOMAIN Without(q) \cup {made + 1} |->
                         IF s = made + 1 THEN new ELSE live[s]]
        BY DEF Prepare
  <1> DEFINE new == [kind |-> kind, vm |-> "ready", bound |-> Null, at |-> 0]
  <1>2. new \in Statement /\ new.vm = "ready" /\ new.bound = Null
        BY DEF Statement
  <1>3. live' = [s \in DOMAIN Without(q) \cup {made + 1} |->
                   IF s = made + 1 THEN new ELSE live[s]]
        BY <1>1
  <1> HIDE DEF new
  <1>4. /\ made' = made + 1 /\ stmt' = [stmt EXCEPT ![q] = made + 1]
        /\ error' = [error EXCEPT ![q] = FALSE]
        /\ past' = [past EXCEPT ![q] = NoPast]
        /\ UNCHANGED <<table, log>>
        BY DEF Prepare
  <1>5. /\ TypeOK /\ OwnedOnce /\ stmt \in [Query -> DOMAIN live \cup {None}]
        /\ past \in [Query -> Past] /\ error \in [Query -> BOOLEAN]
        /\ DOMAIN live \subseteq 1 .. made /\ made \in Nat
        /\ \A s \in DOMAIN live : live[s] \in Statement
        BY DEF HistoryInv, TypeOK, Past, Cell
  <1>6. /\ NoPast \in Past /\ NoPast.asked = Null /\ NoPast.read = << >>
        BY DEF NoPast, Past, Cell
  <1>7. /\ DOMAIN live' = (DOMAIN live \ {stmt[q]}) \cup {made + 1}
        /\ live'[made + 1] = new
        /\ \A s \in DOMAIN live \ {stmt[q]} : live'[s] = live[s]
        BY <1>3, <1>5 DEF Without
  <1>8. /\ stmt'[q] = made + 1 /\ past'[q] = NoPast
        /\ \A r \in Query \ {q} : stmt'[r] = stmt[r] /\ past'[r] = past[r]
        BY <1>4, <1>5
  <1>9. /\ past' \in [Query -> Past] /\ error' \in [Query -> BOOLEAN]
        /\ stmt' \in [Query -> DOMAIN live' \cup {None}]
        <2>1. \A x \in Query : stmt'[x] # None => stmt'[x] \in DOMAIN live'
              BY DEF OwnedOnce
        <2> QED BY <1>4, <1>5, <1>6, <2>1
  <1>10. DOMAIN live' \subseteq 1 .. made' /\ made' \in Nat
        BY <1>4, <1>5, <1>7
  <1>11. TypeOK'
        BY <1>2, <1>4, <1>5, <1>7, <1>9, <1>10 DEF TypeOK, Past, Cell
  <1>12. FirstInsertAsAsked'
        BY <1>4 DEF HistoryInv, FirstInsertAsAsked
  <1>13. InStep(q)'
        BY <1>2, <1>6, <1>7, <1>8 DEF InStep, ReadTo
  <1>14. ASSUME NEW r \in Query \ {q}, stmt[r] # None PROVE InStep(r)'
        <2>1. stmt[r] \in DOMAIN live \ {stmt[q]}
              BY <1>5, <1>14 DEF OwnedOnce
        <2>2. live'[stmt'[r]] = live[stmt[r]] /\ past'[r] = past[r] /\ stmt'[r] = stmt[r]
              BY <1>7, <1>8, <2>1
        <2>3. InStep(r)
              BY DEF HistoryInv
        <2> QED BY <1>4, <1>14, <2>2, <2>3 DEF InStep, ReadTo
  <1>15. \A r \in Query : InStep(r)'
        BY <1>8, <1>13, <1>14 DEF InStep
  <1> QED BY <1>11, <1>12, <1>15 DEF HistoryInv

LEMMA BindHistory ==
  ASSUME HistoryInv, OwnedOnce', NEW q \in Query, BindValue(q)
  PROVE  HistoryInv'
  <1> DEFINE s == live[stmt[q]]
  <1>1. PICK v \in Value : /\ live' = [live EXCEPT ![stmt[q]] = Bound(@, v)]
                           /\ past' = [past EXCEPT ![q].asked = v]
        BY DEF BindValue
  <1>2. stmt[q] # None /\ UNCHANGED <<table, made, stmt, error, log>>
        BY DEF BindValue
  <1>3. /\ TypeOK /\ OwnedOnce /\ past \in [Query -> Past]
        /\ stmt[q] \in DOMAIN live /\ s \in Statement
        BY <1>2 DEF HistoryInv, OwnedOnce, TypeOK, Past, Cell
  <1>4. /\ DOMAIN live' = DOMAIN live /\ live'[stmt[q]] = Bound(s, v)
        /\ \A t \in DOMAIN live : t # stmt[q] => live'[t] = live[t]
        BY <1>1, <1>3
  <1> HIDE DEF s
  <1>5. /\ Bound(s, v) \in Statement /\ Bound(s, v).kind = s.kind /\ Bound(s, v).vm = s.vm
        /\ Bound(s, v).at = s.at /\ (s.vm = "ready" => Bound(s, v).bound = v)
        BY <1>3 DEF Bound, Statement
  <1>6. /\ past' \in [Query -> Past] /\ past'[q].asked = v
        /\ past'[q].read = past[q].read /\ past'[q].fresh = past[q].fresh
        /\ \A r \in Query \ {q} : past'[r] = past[r]
        BY <1>1, <1>3 DEF Past, Cell
  <1>7. TypeOK'
        BY <1>2, <1>3, <1>4, <1>5, <1>6 DEF TypeOK, Past, Cell
  <1>8. FirstInsertAsAsked'
        BY <1>2 DEF HistoryInv, FirstInsertAsAsked
  <1>9. InStep(q)'
        <2>1. InStep(q)
              BY DEF HistoryInv
        <2> QED BY <1>2, <1>4, <1>5, <1>6, <2>1 DEF InStep, ReadTo, s
  <1>10. ASSUME NEW r \in Query \ {q}, stmt[r] # None PROVE InStep(r)'
        <2>1. stmt[r] \in DOMAIN live /\ stmt[r] # stmt[q]
              BY <1>3, <1>10 DEF OwnedOnce
        <2>2. live'[stmt'[r]] = live[stmt[r]] /\ past'[r] = past[r] /\ stmt'[r] = stmt[r]
              BY <1>2, <1>4, <1>6, <2>1
        <2>3. InStep(r)
              BY DEF HistoryInv
        <2> QED BY <1>2, <1>10, <2>2, <2>3 DEF InStep, ReadTo
  <1>11. \A r \in Query : InStep(r)'
        BY <1>2, <1>9, <1>10 DEF InStep
  <1> QED BY <1>7, <1>8, <1>11 DEF HistoryInv

LEMMA NextHistory == HistoryInv /\ [Next]_vars => HistoryInv'
  <1> SUFFICES ASSUME HistoryInv, [Next]_vars PROVE HistoryInv'
      OBVIOUS
  <1>1. IInv
        BY DEF HistoryInv, TypeOK, IInv, Numbered
  <1>2. OwnedOnce'
        BY <1>1, NextOwned DEF IInv
  <1>3. CASE UNCHANGED vars
        BY <1>3 DEF vars, HistoryInv, TypeOK, OwnedOnce, FirstInsertAsAsked, InStep, ReadTo
  <1>4. CASE Next
        <2>1. PICK q \in Query :
                \/ Prepare(q) \/ PrepareFails(q) \/ BindValue(q)
                \/ Exec(q) \/ ExecUnprepared(q) \/ NextRow(q)
                \/ \E r \in Query : Move(q, r)
                \/ Destroy(q)
              BY <1>4 DEF Next
        <2>2. CASE ExecUnprepared(q)
              <3>1. /\ UNCHANGED <<table, made, live, stmt, past, log>>
                    /\ error' = [error EXCEPT ![q] = TRUE]
                    BY <2>2 DEF ExecUnprepared
              <3>2. error' \in [Query -> BOOLEAN]
                    BY <3>1 DEF HistoryInv, TypeOK
              <3>3. TypeOK'
                    BY <3>1, <3>2 DEF HistoryInv, TypeOK
              <3> QED BY <1>2, <3>1, <3>3, IdleHistory
        <2> QED BY <1>2, <2>1, <2>2, PrepareHistory, FinalizeHistory, BindHistory, RunsHistory,
                   MoveHistory
  <1> QED BY <1>3, <1>4

\* Statements, histories and the table are what they should be, whatever is
\* prepared, executed, moved and destroyed (SyncQuery), for all objects and values.
THEOREM QueryTypeCorrect == Spec => []TypeOK
  <1>1. HistoryInv => TypeOK
        BY DEF HistoryInv
  <1> QED BY <1>1, InitHistory, NextHistory, PTL DEF Spec

\* A row is inserted with the value bindValue() was given last for its statement,
\* when that is executed for the first time, also by an object it was moved to.
THEOREM FirstInsertIsAsAsked == Spec => []FirstInsertAsAsked
  <1>1. HistoryInv => FirstInsertAsAsked
        BY DEF HistoryInv
  <1> QED BY <1>1, InitHistory, NextHistory, PTL DEF Spec

\* next() gives the rows of the table from the first one on and without a gap,
\* although exec() has stepped already (the sqlite3_reset() in SyncQuery::exec).
THEOREM RowsAreReadFromFirst == Spec => []ReadsFromFirst
  <1>1. HistoryInv => ReadsFromFirst
        BY DEF HistoryInv, InStep, ReadTo, ReadsFromFirst
  <1> QED BY <1>1, InitHistory, NextHistory, PTL DEF Spec

===================================================================================
