----------------------------- MODULE SharedHandleProofs ---------------------------
(***************************************************************************)
(* Proofs about an engine on the application's connection.  The types, the *)
(* marks and what is captured go together: a commit publishes nothing by   *)
(* itself, so that what is not committed yet must be captured already, and *)
(* what is dropped must have been captured.                                *)
(***************************************************************************)
EXTENDS SharedHandle, FiniteSetTheorems, TLAPS

Handle == [now : Content, saved : Content, auto : BOOLEAN, writers : SUBSET Local]

\* What holds of the connection: nothing that is saved is undone, outside a transaction only a
\* statement that writes keeps anything from being saved, and marks go with their rows.
Sound(c) ==
  /\ c \in Handle
  /\ c.saved.rows \subseteq c.now.rows
  /\ c.auto /\ c.writers = {} => c.now = c.saved
  /\ c.now.marks \subseteq c.now.rows /\ c.saved.marks \subseteq c.saved.rows

\* A row that was inserted under a session that was not dropped, committed or not, is
\* published or in the session.
Captured ==
  \A r \in Local : fate[r] = "watched" /\ r \in db.now.rows =>
    r \in files \/ (session # None /\ r \in session)

IInv ==
  /\ TypeOK
  /\ Sound(db)
  /\ Captured
  /\ CapturedUntilPublished

\* A statement that inserts `new` may take the connection from c to d.
Moves(c, d, new) ==
  /\ Sound(d)
  /\ d.now.rows \subseteq c.now.rows \cup new
  /\ d.saved = c.saved \/ d.saved.rows \subseteq c.now.rows \cup new

-----------------------------------------------------------------------------------
(* The connection. *)

LEMMA HaltedOutcomes ==
  ASSUME NEW c \in Handle, NEW w, NEW h \in Halted(c, w)
  PROVE  LET left == [c EXCEPT !.writers = @ \ {w}]
         IN  \/ h.c = left /\ (~ c.auto \/ left.writers # {})
             \/ h.c = Kept(left) \/ h.c = Undone(left)
<1> DEFINE left == [c EXCEPT !.writers = @ \ {w}]
<1>1. left.writers = c.writers \ {w} BY DEF Handle
<1>2. \/ h \in {[ok |-> TRUE, c |-> left]} /\ (~ c.auto \/ InProgress(left))
      \/ h \in {[ok |-> TRUE, c |-> Kept(left)]}
               \cup (IF c.now = c.saved THEN {} ELSE {[ok |-> FALSE, c |-> Undone(left)]})
  BY DEF Halted
<1>3. CASE h \in {[ok |-> TRUE, c |-> left]} /\ (~ c.auto \/ InProgress(left))
  BY <1>1, <1>3 DEF InProgress
<1>4. CASE h = [ok |-> TRUE, c |-> Kept(left)] BY <1>4
<1>5. CASE h = [ok |-> FALSE, c |-> Undone(left)] BY <1>5
<1> QED BY <1>2, <1>3, <1>4, <1>5

\* A statement that ends leaves the connection sound, whether its commit succeeds or fails.
LEMMA HaltedSound ==
  ASSUME NEW c \in Handle, NEW w, NEW h \in Halted(c, w),
         c.saved.rows \subseteq c.now.rows,
         c.now.marks \subseteq c.now.rows, c.saved.marks \subseteq c.saved.rows
  PROVE  Sound(h.c) /\ h.c.now.rows \subseteq c.now.rows
         /\ (h.c.saved = c.saved \/ h.c.saved.rows \subseteq c.now.rows)
<1> DEFINE left == [c EXCEPT !.writers = @ \ {w}]
<1>1. /\ left \in Handle /\ left.now = c.now /\ left.saved = c.saved /\ left.auto = c.auto
      /\ left.writers = c.writers \ {w}
  BY DEF Handle
<1>2. \/ h.c = left /\ (~ c.auto \/ left.writers # {})
      \/ h.c = Kept(left) \/ h.c = Undone(left)
  BY HaltedOutcomes
<1> HIDE DEF left
<1>3. CASE h.c = left /\ (~ c.auto \/ left.writers # {})
  BY <1>1, <1>3 DEF Sound
<1>4. CASE h.c = Kept(left)
  <2>1. /\ Kept(left) \in Handle /\ Kept(left).now = c.now /\ Kept(left).saved = c.now
    BY <1>1 DEF Kept, Handle
  <2> HIDE DEF Kept
  <2> QED BY <1>4, <2>1 DEF Sound
<1>5. CASE h.c = Undone(left)
  <2>1. /\ Undone(left) \in Handle /\ Undone(left).now = c.saved /\ Undone(left).saved = c.saved
    BY <1>1 DEF Undone, Handle
  <2> HIDE DEF Undone
  <2> QED BY <1>5, <2>1 DEF Sound
<1> QED BY <1>2, <1>3, <1>4, <1>5

LEMMA WithFacts ==
  ASSUME NEW c \in Handle, NEW r \in Local
  PROVE  /\ With(c, r) \in Handle /\ With(c, r).now.rows = c.now.rows \cup {r}
         /\ With(c, r).now.marks = c.now.marks /\ With(c, r).saved = c.saved
         /\ With(c, r).auto = c.auto /\ With(c, r).writers = c.writers
<1> DEFINE now == [c.now EXCEPT !.rows = @ \cup {r}]
<1>1. c.now \in Content BY DEF Handle
<1>2. now \in Content /\ now.rows = c.now.rows \cup {r} /\ now.marks = c.now.marks
  BY <1>1 DEF Content, Row
<1>3. With(c, r) = [c EXCEPT !.now = now] BY DEF With
<1> HIDE DEF now
<1> QED BY <1>2, <1>3 DEF Handle

LEMMA AtMostFacts ==
  ASSUME NEW left \in Nat, NEW n \in Nat
  PROVE  AtMost(left + n) \in 0 .. MaxCalls /\ (left + n > 0 => AtMost(left + n) > 0)
BY SharedHandleAssumption DEF AtMost

-----------------------------------------------------------------------------------
(* The application. *)

LEMMA GoesStep ==
  ASSUME IInv, NEW d, NEW new \in SUBSET Local, Goes(d), Moves(db, d, new),
         new \cap db.now.rows = {},
         session' = IF session = None THEN None ELSE session \cup new,
         fate' \in [Local -> {"watched", "dropped", "unwatched"}],
         \A r \in Local : r \notin new => fate'[r] = fate[r],
         \A r \in new : fate'[r] = "watched" => running
  PROVE  IInv'
<1>1. /\ db' = d /\ running' = running /\ manual' = manual /\ files' = files
      /\ Queue(calls, Hooks(db, d))
  BY DEF Goes
<1>2. calls \in Nat /\ running \in BOOLEAN BY DEF IInv, TypeOK
<1>3. calls' \in 0 .. MaxCalls /\ (calls > 0 => calls' > 0)
      /\ (running /\ d.saved # db.saved => calls' > 0)
  <2>1. Hooks(db, d) \in {0, 1} /\ (d.saved # db.saved => Hooks(db, d) = 1) BY DEF Hooks
  <2>2. CASE running
    <3>1. calls' = AtMost(calls + Hooks(db, d)) BY <1>1, <2>2 DEF Queue
    <3> QED BY <1>2, <2>1, <3>1, AtMostFacts
  <2>3. CASE ~ running
    <3>1. calls' = AtMost(calls + 0) BY <1>1, <2>3 DEF Queue
    <3> QED BY <1>2, <2>3, <3>1, AtMostFacts
  <2> QED BY <2>2, <2>3
<1>4. session' = None <=> session = None
  <2>1. ASSUME session # None PROVE session \cup new # None
    <3>1. session \cup new \in SUBSET Row BY <2>1 DEF IInv, TypeOK, Row
    <3> QED BY <3>1, SharedHandleAssumption
  <2> QED BY <2>1
<1>5. TypeOK'
  <2>1. db' \in Handle BY <1>1 DEF Moves, Sound
  <2>2. session' = None \/ session' \subseteq Row BY DEF IInv, TypeOK, Row
  <2> QED BY <1>1, <1>3, <1>4, <2>1, <2>2 DEF IInv, TypeOK, Handle
<1>6. ASSUME NEW r \in Local, fate'[r] = "watched", r \in d.now.rows
      PROVE  r \in files \/ (session' # None /\ r \in session')
  <2>1. CASE r \in new
    <3>1. session # None BY <1>6, <2>1 DEF IInv, TypeOK
    <3> QED BY <1>4, <2>1, <3>1
  <2>2. CASE r \notin new
    <3>1. fate[r] = "watched" /\ r \in db.now.rows BY <1>6, <2>2 DEF Moves
    <3> QED BY <1>4, <3>1 DEF IInv, Captured
  <2> QED BY <2>1, <2>2
<1>7. ASSUME NEW r \in Local, running, fate'[r] = "watched", r \in d.saved.rows
      PROVE  r \in files \/ (session' # None /\ r \in session' /\ (calls' > 0 \/ manual))
  <2>1. r \in d.now.rows BY <1>7 DEF Moves, Sound
  <2>2. CASE d.saved # db.saved
    BY <1>3, <1>6, <1>7, <2>1, <2>2
  <2>3. CASE d.saved = db.saved
    <3>1. r \in db.saved.rows /\ r \in db.now.rows BY <1>7, <2>3 DEF IInv, Sound
    <3>2. r \notin new /\ fate[r] = "watched" BY <1>7, <3>1
    <3>3. r \in files \/ (session # None /\ r \in session /\ (calls > 0 \/ manual))
      BY <1>7, <3>1, <3>2 DEF IInv, CapturedUntilPublished, Watched
    <3> QED BY <1>3, <1>4, <3>3
  <2> QED BY <2>2, <2>3
<1> QED BY <1>1, <1>5, <1>6, <1>7 DEF IInv, Moves, Captured, CapturedUntilPublished, Watched

\* A statement that inserts nothing.
LEMMA GoesOn ==
  ASSUME IInv, NEW d, Goes(d), Moves(db, d, {}), UNCHANGED <<session, fate>>
  PROVE  IInv'
<1>1. session' = IF session = None THEN None ELSE session \cup {} OBVIOUS
<1>2. fate' \in [Local -> {"watched", "dropped", "unwatched"}] BY DEF IInv, TypeOK
<1> QED BY <1>1, <1>2, GoesStep

LEMMA TransactionStep ==
  ASSUME IInv, Begin \/ Commit \/ Rollback
  PROVE  IInv'
<1>0. Sound(db) /\ db \in Handle BY DEF IInv, Sound
<1>1. PICK d : /\ Goes(d) /\ UNCHANGED <<session, fate>>
               /\ d \in {db, [db EXCEPT !.auto = FALSE], Kept(db), Undone(db)}
  <2>1. CASE Begin
    <3>1. PICK o \in {b \in Begun(db) : b.ok} : Goes(o.c) /\ UNCHANGED <<session, fate>>
      BY <2>1 DEF Begin
    <3>2. o.c \in {db, [db EXCEPT !.auto = FALSE]} BY DEF Begun
    <3> QED BY <3>1, <3>2
  <2>2. CASE Commit
    <3>1. PICK o \in Committed(db) : Goes(o.c) /\ UNCHANGED <<session, fate>>
      BY <2>2 DEF Commit
    <3>2. o.c = db \/ (o.c = Kept(db) /\ ~ InProgress(db)) BY DEF Committed
    <3> QED BY <3>1, <3>2
  <2>3. CASE Rollback
    <3>1. PICK o \in RolledBack(db) : Goes(o.c) /\ UNCHANGED <<session, fate>>
      BY <2>3 DEF Rollback
    <3>2. o.c \in {db, Undone(db)} BY DEF RolledBack
    <3> QED BY <3>1, <3>2
  <2> QED BY <2>1, <2>2, <2>3
<1>2. Moves(db, d, {})
  <2>1. CASE d = db BY <1>0, <2>1 DEF Moves
  <2>2. CASE d = [db EXCEPT !.auto = FALSE]
    <3>1. d \in Handle /\ d.now = db.now /\ d.saved = db.saved /\ ~ d.auto
      BY <1>0, <2>2 DEF Handle
    <3> QED BY <1>0, <3>1 DEF Moves, Sound
  <2>3. CASE d = Kept(db)
    <3>1. d \in Handle /\ d.now = db.now /\ d.saved = db.now
      BY <1>0, <2>3 DEF Handle, Kept
    <3> QED BY <1>0, <3>1 DEF Moves, Sound
  <2>4. CASE d = Undone(db)
    <3>1. d \in Handle /\ d.now = db.saved /\ d.saved = db.saved
      BY <1>0, <2>4 DEF Handle, Undone
    <3> QED BY <1>0, <3>1 DEF Moves, Sound
  <2> QED BY <1>1, <2>1, <2>2, <2>3, <2>4
<1> QED BY <1>1, <1>2, GoesOn

LEMMA InsertStep ==
  ASSUME IInv, NEW r \in Local, Insert(r)
  PROVE  IInv'
<1> DEFINE c == With(db, r)
<1>0. Sound(db) /\ db \in Handle /\ r \notin db.now.rows BY DEF IInv, Sound, Insert
<1>1. /\ c \in Handle /\ c.now.rows = db.now.rows \cup {r} /\ c.now.marks = db.now.marks
      /\ c.saved = db.saved /\ c.writers = db.writers
  BY <1>0, WithFacts
<1>2. PICK d : Goes(d) /\ ((\E h \in Halted(c, r) : d = h.c)
                           \/ d = [c EXCEPT !.writers = @ \cup {r}])
  BY DEF Insert
<1> HIDE DEF c
<1>3. Moves(db, d, {r})
  <2>1. CASE \E h \in Halted(c, r) : d = h.c
    <3>1. PICK h \in Halted(c, r) : d = h.c BY <2>1
    <3>2. Sound(d) /\ d.now.rows \subseteq c.now.rows
          /\ (d.saved = c.saved \/ d.saved.rows \subseteq c.now.rows)
      BY <1>0, <1>1, <3>1, HaltedSound DEF Sound
    <3> QED BY <1>1, <3>2 DEF Moves
  <2>2. CASE d = [c EXCEPT !.writers = @ \cup {r}]
    <3>1. d \in Handle /\ d.now = c.now /\ d.saved = c.saved /\ d.writers # {}
      BY <1>1, <2>2 DEF Handle
    <3> QED BY <1>0, <1>1, <3>1 DEF Moves, Sound
  <2> QED BY <1>2, <2>1, <2>2
<1>4. /\ session' = (IF session = None THEN None ELSE session \cup {r})
      /\ fate' \in [Local -> {"watched", "dropped", "unwatched"}]
      /\ \A q \in Local : q \notin {r} => fate'[q] = fate[q]
      /\ \A q \in {r} : fate'[q] = "watched" => running
  <2>1. fate \in [Local -> {"watched", "dropped", "unwatched"}] BY DEF IInv, TypeOK
  <2> QED BY <2>1 DEF Insert
<1>5. {r} \cap db.now.rows = {} /\ {r} \in SUBSET Local BY <1>0
<1> QED BY <1>2, <1>3, <1>4, <1>5, GoesStep

LEMMA FinishReadingStep ==
  ASSUME IInv, NEW r \in Local, FinishReading(r)
  PROVE  IInv'
<1>0. Sound(db) /\ db \in Handle BY DEF IInv, Sound
<1>1. PICK h \in Halted(db, r) : Goes(h.c) /\ UNCHANGED <<session, fate>> BY DEF FinishReading
<1>2. Moves(db, h.c, {}) BY <1>0, HaltedSound DEF Moves, Sound
<1> QED BY <1>1, <1>2, GoesOn

-----------------------------------------------------------------------------------
(* The engine. *)

\* What is dropped is not watched any more.
LEMMA DropFacts ==
  ASSUME IInv, Drop
  PROVE  /\ fate' \in [Local -> {"watched", "dropped", "unwatched"}]
         /\ \A r \in Local : fate'[r] = "watched" /\ r \in db.now.rows => r \in files
<1>1. fate \in [Local -> {"watched", "dropped", "unwatched"}] BY DEF IInv, TypeOK
<1>2. fate' \in [Local -> {"watched", "dropped", "unwatched"}] BY <1>1 DEF Drop
<1>3. ASSUME NEW r \in Local, fate'[r] = "watched", r \in db.now.rows PROVE r \in files
  <2>1. ~ (session # None /\ r \in session \ files) /\ fate[r] = "watched"
    BY <1>1, <1>3 DEF Drop
  <2> QED BY <1>3, <2>1 DEF IInv, Captured
<1> QED BY <1>2, <1>3

\* What the engine does with a session: whatever a new session has, every watched row is
\* published then.
LEMMA EngineStep ==
  ASSUME IInv, Sound(db)',
         \A r \in Local : r \in db'.now.rows => r \in db.now.rows,
         running' \in BOOLEAN, manual' \in BOOLEAN, calls' \in 0 .. MaxCalls,
         files \subseteq files', files' \subseteq Row,
         fate' \in [Local -> {"watched", "dropped", "unwatched"}],
         session' = None \/ session' \subseteq Row, running' => session' # None,
         \A r \in Local : fate'[r] = "watched" /\ r \in db.now.rows => r \in files'
  PROVE  IInv'
<1>1. \A r \in Local : r \in db'.saved.rows => r \in db'.now.rows BY DEF Sound
<1>2. TypeOK' BY DEF TypeOK, Sound, Handle
<1>3. Captured' BY DEF Captured
<1>4. CapturedUntilPublished' BY <1>1 DEF CapturedUntilPublished, Watched
<1> QED BY <1>2, <1>3, <1>4 DEF IInv

LEMMA SessionStarts == {} # None /\ \A rows \in SUBSET Row : rows # None
  BY SharedHandleAssumption

LEMMA FlushStep ==
  ASSUME IInv, NEW left \in Nat, Flush(left), manual' \in BOOLEAN
  PROVE  IInv'
<1>1. /\ files' = files \cup Changeset /\ session' = {}
      /\ db' = db /\ running' = running /\ fate' = fate
  BY DEF Flush, Restarted
<1>2. Changeset \subseteq Row /\ files \subseteq Row BY DEF IInv, TypeOK, Changeset
<1>3. calls' \in 0 .. MaxCalls
  <2>1. PICK n \in Stamps(Changeset) : Queue(left, n) BY DEF Flush
  <2>2. n \in Nat BY DEF Stamps
  <2>3. calls' = AtMost(left + n) \/ calls' = AtMost(left + 0) BY <2>1 DEF Queue
  <2> QED BY <2>2, <2>3, AtMostFacts
<1>4. ASSUME NEW r \in Local, fate[r] = "watched", r \in db.now.rows PROVE r \in files'
  BY <1>1, <1>4 DEF IInv, Captured, Changeset
<1>5. Sound(db)' BY <1>1 DEF IInv, Sound
<1>6. running \in BOOLEAN /\ fate \in [Local -> {"watched", "dropped", "unwatched"}]
  BY DEF IInv, TypeOK
<1>7. session' \subseteq Row /\ session' # None BY <1>1, SessionStarts
<1>8. files \subseteq files' /\ files' \subseteq Row BY <1>1, <1>2
<1> QED BY <1>1, <1>3, <1>4, <1>5, <1>6, <1>7, <1>8, EngineStep

\* A sync() brings rows of other clients, and what it commits is its own.
LEMMA SyncedFacts ==
  ASSUME Sound(db), NEW o \in Synced
  PROVE  /\ Sound(o.c) /\ o.new \subseteq Remote /\ o.hooks \in Nat
         /\ \A r \in Local : r \in o.c.now.rows => r \in db.now.rows
         /\ \A r \in Local : r \in o.c.saved.rows => r \in db.saved.rows
<1> DEFINE New(applied) == applied \ db.now.rows
           Now(applied, marked) == [rows |-> db.now.rows \cup New(applied),
                                    marks |-> db.now.marks \cup marked]
           Next_(applied, marked) == [db EXCEPT !.now = Now(applied, marked)]
           Out(applied, marked) ==
             [c |-> IF db.auto /\ ~ InProgress(db) THEN Kept(Next_(applied, marked))
                    ELSE Next_(applied, marked),
              hooks |-> IF db.auto THEN Cardinality(New(applied)) + Cardinality(marked) ELSE 0,
              new |-> New(applied)]
<1>0. /\ db \in Handle /\ db.now \in Content /\ db.saved \in Content /\ db.auto \in BOOLEAN
      /\ db.now.rows \subseteq Row /\ db.now.marks \subseteq Remote
  BY DEF Sound, Handle, Content
<1>1. PICK applied, marked : /\ applied \in CanApply(Remote \ db.now.marks)
                             /\ marked \in CanMark(applied)
                             /\ o = Out(applied, marked)
  BY DEF Synced
<1>2. /\ applied \subseteq Remote /\ marked \subseteq applied
      /\ db.auto /\ InProgress(db) => applied = {}
  BY <1>1 DEF CanApply, CanMark
<1> DEFINE new == New(applied)  now == Now(applied, marked)  d == Next_(applied, marked)
<1>3. new \subseteq Remote /\ applied \subseteq db.now.rows \cup new BY <1>2
<1>4. /\ now \in Content /\ now.rows = db.now.rows \cup new
      /\ now.marks = db.now.marks \cup marked
  BY <1>0, <1>2, <1>3 DEF Content, Row
<1>5. o.new = new /\ o.c = (IF db.auto /\ ~ InProgress(db) THEN Kept(d) ELSE d)
      /\ o.hooks = (IF db.auto THEN Cardinality(new) + Cardinality(marked) ELSE 0)
  BY <1>1
<1>6. o.hooks \in Nat
  <2>1. IsFiniteSet(new) /\ IsFiniteSet(marked)
    BY <1>2, <1>3, FS_Subset, SharedHandleAssumption
  <2>2. Cardinality(new) \in Nat /\ Cardinality(marked) \in Nat
    BY <2>1, FS_CardinalityType
  <2> HIDE DEF new
  <2> QED BY <1>5, <2>2
<1> HIDE DEF new, now
<1>7. /\ d \in Handle /\ d.now = now /\ d.saved = db.saved /\ d.auto = db.auto
      /\ d.writers = db.writers
  <2>1. d = [db EXCEPT !.now = now] BY DEF now
  <2> HIDE DEF d
  <2> QED BY <1>0, <1>4, <2>1 DEF Handle
<1> HIDE DEF d
<1>8. now.marks \subseteq now.rows BY <1>2, <1>3, <1>4 DEF Sound
<1>9. \A r \in Local : r \in now.rows => r \in db.now.rows
  BY <1>3, <1>4, SharedHandleAssumption
<1>10. CASE db.auto /\ ~ InProgress(db)
  <2>1. o.c = Kept(d) BY <1>5, <1>10
  <2>2. /\ Kept(d) \in Handle /\ Kept(d).now = now /\ Kept(d).saved = now
    BY <1>4, <1>7 DEF Kept, Handle
  <2>3. db.now = db.saved BY <1>10 DEF Sound, InProgress
  <2> HIDE DEF Kept
  <2> QED BY <1>3, <1>5, <1>6, <1>8, <1>9, <2>1, <2>2, <2>3 DEF Sound
<1>11. CASE ~ (db.auto /\ ~ InProgress(db))
  <2>1. o.c = d BY <1>5, <1>11
  <2>2. d.auto /\ d.writers = {} => FALSE BY <1>7, <1>11 DEF InProgress
  <2>3. d.saved.rows \subseteq d.now.rows BY <1>4, <1>7 DEF Sound
  <2> QED BY <1>3, <1>5, <1>6, <1>7, <1>8, <1>9, <2>1, <2>2, <2>3 DEF Sound
<1> QED BY <1>10, <1>11

LEMMA SyncStep ==
  ASSUME IInv, Sync
  PROVE  IInv'
<1>0. Sound(db) /\ calls \in Nat BY DEF IInv, TypeOK
<1>1. PICK o \in Synced :
        /\ db' = o.c /\ Queue(calls, o.hooks)
        /\ session' = IF session = None THEN None ELSE session \cup o.new
  BY DEF Sync
<1>2. UNCHANGED <<running, manual, files, fate>> BY DEF Sync
<1>3. /\ Sound(o.c) /\ o.new \subseteq Remote /\ o.hooks \in Nat
      /\ \A r \in Local : r \in o.c.now.rows => r \in db.now.rows
      /\ \A r \in Local : r \in o.c.saved.rows => r \in db.saved.rows
  BY <1>0, SyncedFacts
<1>4. calls' \in 0 .. MaxCalls /\ (calls > 0 => calls' > 0)
  <2>1. calls' = AtMost(calls + o.hooks) \/ calls' = AtMost(calls + 0) BY <1>1 DEF Queue
  <2> QED BY <1>0, <1>3, <2>1, AtMostFacts
<1>5. session = None \/ session \subseteq Row BY DEF IInv, TypeOK
<1>6. /\ session' = None \/ session' \subseteq Row
      /\ session # None => session' # None
      /\ \A r : session # None /\ r \in session => r \in session'
  <2>1. CASE session = None BY <1>1, <2>1
  <2>2. CASE session # None
    <3>1. session' = session \cup o.new /\ session' \in SUBSET Row
      BY <1>1, <1>3, <1>5, <2>2 DEF Row
    <3> QED BY <3>1, SessionStarts
  <2> QED BY <2>1, <2>2
<1>7. TypeOK' BY <1>1, <1>2, <1>3, <1>4, <1>6 DEF IInv, TypeOK, Sound, Handle
<1>8. Captured' BY <1>1, <1>2, <1>3, <1>6 DEF IInv, Captured
<1>9. CapturedUntilPublished'
  BY <1>1, <1>2, <1>3, <1>4, <1>6 DEF IInv, CapturedUntilPublished, Watched
<1>10. Sound(db)' BY <1>1, <1>3 DEF Sound
<1> QED BY <1>7, <1>8, <1>9, <1>10 DEF IInv

LEMMA StartStep ==
  ASSUME IInv, Start
  PROVE  IInv'
<1> DEFINE snapshot == IF files = {} THEN db.now.rows ELSE {}
<1>0. Sound(db) /\ calls \in Nat BY DEF IInv, TypeOK
<1>1. PICK o \in Synced, n \in Stamps(snapshot) :
        db' = o.c /\ session' = o.new /\ Queue(calls, n + o.hooks)
  BY DEF Start
<1>2. /\ running' = TRUE /\ Drop /\ files' = files \cup snapshot /\ manual' = manual
  BY DEF Start
<1>3. snapshot \subseteq Row BY <1>0 DEF Sound, Handle, Content
<1> HIDE DEF snapshot
<1>4. /\ Sound(o.c) /\ o.new \subseteq Remote /\ o.hooks \in Nat
      /\ \A r \in Local : r \in o.c.now.rows => r \in db.now.rows
  BY <1>0, SyncedFacts
<1>5. calls' \in 0 .. MaxCalls
  <2>1. n \in Nat BY DEF Stamps
  <2>2. n + o.hooks \in Nat BY <1>4, <2>1
  <2>3. calls' = AtMost(calls + (n + o.hooks)) BY <1>1, <1>2 DEF Queue
  <2> QED BY <1>0, <2>2, <2>3, AtMostFacts
<1>6. /\ fate' \in [Local -> {"watched", "dropped", "unwatched"}]
      /\ \A r \in Local : fate'[r] = "watched" /\ r \in db.now.rows => r \in files
  BY <1>2, DropFacts
<1>7. session' \in SUBSET Row /\ session' # None
  BY <1>1, <1>4, SessionStarts DEF Row
<1>8. Sound(db)' BY <1>1, <1>4 DEF Sound
<1>9. files \subseteq files' /\ files' \subseteq Row BY <1>2, <1>3 DEF IInv, TypeOK
<1>10. running' \in BOOLEAN /\ manual' \in BOOLEAN BY <1>2 DEF IInv, TypeOK
<1> QED BY <1>1, <1>4, <1>5, <1>6, <1>7, <1>8, <1>9, <1>10, EngineStep

LEMMA DropStep ==
  ASSUME IInv, Stop \/ BeginWrite
  PROVE  IInv'
<1>1. Drop /\ UNCHANGED <<db, calls, files>> BY DEF Stop, BeginWrite
<1>2. /\ fate' \in [Local -> {"watched", "dropped", "unwatched"}]
      /\ \A r \in Local : fate'[r] = "watched" /\ r \in db.now.rows => r \in files
  BY <1>1, DropFacts
<1>3. /\ running' \in BOOLEAN /\ manual' \in BOOLEAN
      /\ session' = None \/ session' \subseteq Row
      /\ running' => session' # None
  <2>1. CASE Stop BY <2>1 DEF Stop, IInv, TypeOK
  <2>2. CASE BeginWrite BY <2>2, SessionStarts DEF BeginWrite, IInv, TypeOK
  <2> QED BY <2>1, <2>2
<1>4. Sound(db)' BY <1>1 DEF IInv, Sound
<1>5. calls' \in 0 .. MaxCalls /\ files' \subseteq Row /\ files \subseteq files'
  BY <1>1 DEF IInv, TypeOK
<1> QED BY <1>1, <1>2, <1>3, <1>4, <1>5, EngineStep

LEMMA OnTransactionCommittedStep ==
  ASSUME IInv, OnTransactionCommitted
  PROVE  IInv'
<1>1. calls \in Nat /\ calls - 1 \in Nat /\ calls <= MaxCalls /\ manual' \in BOOLEAN
  BY SharedHandleAssumption DEF IInv, TypeOK, OnTransactionCommitted
<1>2. CASE Flush(calls - 1) BY <1>1, <1>2, FlushStep
<1>3. CASE /\ ~ running \/ manual
           /\ calls' = calls - 1 /\ UNCHANGED <<db, session, running, files, fate>>
  <2>1. manual' = manual BY DEF OnTransactionCommitted
  <2>2. calls' \in 0 .. MaxCalls BY <1>1, <1>3, SharedHandleAssumption
  <2>3. TypeOK' BY <1>3, <2>1, <2>2 DEF IInv, TypeOK
  <2>4. Sound(db)' /\ Captured' BY <1>3 DEF IInv, Sound, Captured
  <2>5. CapturedUntilPublished'
    BY <1>3, <2>1 DEF IInv, CapturedUntilPublished, Watched
  <2> QED BY <2>3, <2>4, <2>5 DEF IInv
<1> QED BY <1>2, <1>3 DEF OnTransactionCommitted

-----------------------------------------------------------------------------------
(* The theorems. *)

LEMMA InitStep == Init => IInv
<1> SUFFICES ASSUME Init PROVE IInv OBVIOUS
<1> DEFINE empty == [rows |-> {}, marks |-> {}]
<1>1. empty \in Content /\ empty.rows = {} /\ empty.marks = {} BY DEF Content
<1> HIDE DEF empty
<1>2. db = Fresh(empty) BY DEF Init, empty
<1>3. db \in Handle /\ db.now = empty /\ db.saved = empty
  BY <1>1, <1>2 DEF Fresh, Handle
<1>4. Sound(db) BY <1>1, <1>3 DEF Sound
<1>5. /\ session = None /\ ~ running /\ calls = 0 /\ files = {}
      /\ fate = [r \in Local |-> "unwatched"]
  BY DEF Init
<1>6. running \in BOOLEAN /\ manual \in BOOLEAN BY Zenon DEF Init
<1>7. calls \in 0 .. MaxCalls BY <1>5, SharedHandleAssumption
<1>8. TypeOK BY <1>3, <1>5, <1>6, <1>7 DEF TypeOK, Handle
<1>9. Captured /\ CapturedUntilPublished
  BY <1>5 DEF Captured, CapturedUntilPublished, Watched
<1> QED BY <1>4, <1>8, <1>9 DEF IInv

LEMMA NextStep == IInv /\ [Next]_vars => IInv'
<1> SUFFICES ASSUME IInv, [Next]_vars PROVE IInv' OBVIOUS
<1>1. CASE UNCHANGED vars
  BY <1>1 DEF vars, IInv, TypeOK, Sound, Captured, CapturedUntilPublished, Watched
<1>2. CASE Begin \/ Commit \/ Rollback BY <1>2, TransactionStep
<1>3. ASSUME NEW r \in Local, Insert(r) \/ FinishReading(r) PROVE IInv'
  BY <1>3, InsertStep, FinishReadingStep
<1>4. CASE Start BY <1>4, StartStep
<1>5. CASE Stop \/ BeginWrite BY <1>5, DropStep
<1>6. CASE Sync BY <1>6, SyncStep
<1>7. CASE EndWrite
  <2>1. calls \in Nat BY DEF IInv, TypeOK
  <2>2. Flush(calls) BY Zenon, <1>7 DEF EndWrite
  <2>3. manual' \in BOOLEAN BY Zenon, <1>7 DEF EndWrite
  <2> QED BY <2>1, <2>2, <2>3, FlushStep
<1>8. CASE OnTransactionCommitted BY <1>8, OnTransactionCommittedStep
<1> QED BY <1>1, <1>2, <1>3, <1>4, <1>5, <1>6, <1>7, <1>8 DEF Next

LEMMA HandleInvariant == Spec => []IInv
  BY InitStep, NextStep, PTL DEF Spec

\* For any number of rows and files: the types, and a running engine has a session.
THEOREM HandleTypeCorrect == Spec => []TypeOK
  BY HandleInvariant, PTL DEF IInv

\* For any number of rows and files: _sync_applied never says of a file more than the tables
\* of the application do, in the database or on disk.
THEOREM MarksGoWithRows == Spec => []MarkedIsApplied
<1>1. IInv => MarkedIsApplied BY DEF IInv, Sound, MarkedIsApplied
<1> QED BY <1>1, HandleInvariant, PTL

\* For any number of rows and files, and any interleaving of the application's transactions
\* with the engine: nothing that is committed escapes the engine, but by beginWrite() and
\* stop().
THEOREM NothingEscapes == Spec => []CapturedUntilPublished
  BY HandleInvariant, PTL DEF IInv

===================================================================================
