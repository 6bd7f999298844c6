------------------------------ MODULE SqlDriverProofs ----------------------------
(***************************************************************************)
(* Proofs about the driver.  What an operation may do to a result and to   *)
(* the connection is a set of outcomes; one predicate, Good, is kept by    *)
(* every outcome of every operation, first of SQLite's, then of            *)
(* QSQLiteResult's, then of the actions.  A second predicate, Keeps, does  *)
(* the same for what has been read and inserted so far.                   *)
(***************************************************************************)
EXTENDS SqlDriver, FiniteSetTheorems, SequenceTheorems, TLAPS

\* Outside a transaction, what no statement holds back is on disk.
Settled(c) == c.auto /\ c.writers = {} => c.now = c.saved

\* The writer r of c is one that stands on a row.
Counted(c, s, r) == r \in c.writers <=> s.kind = "returning" /\ s.at > 0

\* A statement that stands on a row belongs to a result that can still be read.
Standing(s) == s.at > 0 => s.mode = "select" /\ s.pos # After /\ s.kind # None /\ ~ s.ended

\* A result after its last row knows it, or knows that exec() has found no row.
AtEnd(s) == s.pos = After /\ s.mode = "select" => s.ended \/ (s.skip /\ s.held = 0)

Held(s) == s.skip /\ s.held = 0 => s.at = 0

\* A statement that was executed has its parameter.
HasParameter(s) == s.mode # "inactive" /\ Writes(s.kind) => s.bound \in Value

Good(c, s, r) ==
  /\ c \in ConnectionType /\ Settled(c) /\ Counted(c, s, r)
  /\ s \in ResultType /\ Placed(s)
  /\ Standing(s) /\ AtEnd(s) /\ Held(s) /\ HasParameter(s)

\* What becomes of c, but for r.
SameOthers(c, d, r) == d.writers \ {r} = c.writers \ {r}

\* What an operation of r may do, in general.
Allowed(c, s, r, o) ==
  /\ Good(o.c, o.s, r) /\ SameOthers(c, o.c, r)
  /\ Len(o.s.made) >= Len(s.made) /\ o.s.kind \in {s.kind, None}

\* The two positions that are not rows.
LEMMA Places ==
  /\ After \in Int /\ Before \in Int /\ After # Before
  /\ Before + 1 = 0
  /\ \A n \in Nat : n # After /\ n # Before
  BY DEF After, Before

-----------------------------------------------------------------------------------
(* SQLite. *)

LEMMA Longer ==
  ASSUME NEW S, NEW a \in Seq(S), NEW b \in Seq(S)
  PROVE  a \o b \in Seq(S) /\ Len(a \o b) >= Len(a)
<1>1. Len(a) \in Nat /\ Len(b) \in Nat /\ Len(a \o b) = Len(a) + Len(b) OBVIOUS
<1>2. a \o b \in Seq(S) OBVIOUS
<1> QED BY <1>1, <1>2

LEMMA OneLonger ==
  ASSUME NEW S, NEW a \in Seq(S), NEW x \in S
  PROVE  Append(a, x) \in Seq(S) /\ Len(Append(a, x)) = Len(a) + 1
OBVIOUS

LEMMA HaltedFacts ==
  ASSUME NEW c \in ConnectionType, NEW w \in Result, NEW h \in Halted(c, w)
  PROVE  /\ h.c \in ConnectionType /\ Settled(h.c) /\ h.ok \in BOOLEAN
         /\ h.c.writers = c.writers \ {w}
<1> DEFINE left == [c EXCEPT !.writers = @ \ {w}]
<1>1. left \in ConnectionType /\ left.writers = c.writers \ {w} /\ left.auto = c.auto
  BY DEF ConnectionType
<1>2. CASE h = [ok |-> TRUE, c |-> left] /\ (~ c.auto \/ InProgress(left))
  BY <1>1, <1>2 DEF Settled, InProgress
<1>3. CASE h = [ok |-> TRUE, c |-> Kept(left)]
  BY <1>1, <1>3 DEF Settled, Kept, ConnectionType
<1>4. CASE h = [ok |-> FALSE, c |-> Undone(left)]
  BY <1>1, <1>4 DEF Settled, Undone, ConnectionType
<1> QED BY <1>2, <1>3, <1>4 DEF Halted

LEMMA EndedFacts ==
  ASSUME NEW c \in ConnectionType, Settled(c), NEW r \in Result, NEW h \in Ended(c, r)
  PROVE  /\ h.c \in ConnectionType /\ Settled(h.c) /\ h.ok \in BOOLEAN
         /\ h.c.writers = c.writers \ {r}
<1>1. CASE r \in c.writers
  BY <1>1, HaltedFacts DEF Ended
<1>2. CASE r \notin c.writers
  <2>1. h = [ok |-> TRUE, c |-> c] BY <1>2 DEF Ended
  <2>2. c.writers \ {r} = c.writers BY <1>2
  <2> QED BY <2>1, <2>2
<1> QED BY <1>1, <1>2

\* A step leaves the statement on a row or ended, and only one that stands on a row is
\* counted among the writers.
LEMMA SteppedFacts ==
  ASSUME NEW c \in ConnectionType, Settled(c), NEW r \in Result,
         NEW s \in ResultType, Counted(c, s, r), s.kind # None,
         Writes(s.kind) => s.bound \in Value,
         NEW st \in Stepped(c, s, r)
  PROVE  /\ st.c \in ConnectionType /\ Settled(st.c) /\ SameOthers(c, st.c, r)
         /\ st.at \in Nat /\ st.error \in BOOLEAN /\ st.new \in Seq(Value)
         /\ r \in st.c.writers <=> s.kind = "returning" /\ st.at > 0
         /\ s.kind = "insert" \/ st.error => st.at = 0
<1> DEFINE more == [c EXCEPT !.now = Append(@, s.bound)]
<1> DEFINE End(h, new) == [at |-> 0, error |-> ~ h.ok, c |-> h.c, new |-> new]
<1>1. CASE s.kind = "select"
  <2>1. /\ st.c = c /\ st.at \in Nat /\ st.error = FALSE /\ st.new = << >>
    <3>1. Len(c.now) \in Nat /\ s.at \in Nat BY DEF ConnectionType, ResultType
    <3> QED BY <1>1, <3>1 DEF Stepped
  <2>2. << >> \in Seq(Value) OBVIOUS
  <2>3. r \notin c.writers BY <1>1 DEF Counted
  <2> QED BY <2>1, <2>2, <2>3, <1>1 DEF SameOthers
<1>2. CASE s.kind # "select" /\ s.at > 0
  <2>1. PICK h \in Halted(c, r) : st = End(h, << >>) BY <1>2 DEF Stepped
  <2>2. << >> \in Seq(Value) OBVIOUS
  <2> QED BY <2>1, <2>2, HaltedFacts, <1>2 DEF SameOthers
<1>3. CASE s.kind # "select" /\ ~ (s.at > 0)
  <2> s.kind \in {"insert", "returning"} /\ s.bound \in Value
    BY <1>3 DEF ResultType, Kind, Writes
  <2>1. more \in ConnectionType /\ more.writers = c.writers /\ Len(more.now) > 0
        /\ Len(more.now) \in Nat
    <3>1. c.now \in Seq(Value) BY DEF ConnectionType
    <3>2. Append(c.now, s.bound) \in Seq(Value) /\ Len(Append(c.now, s.bound)) = Len(c.now) + 1
      BY <3>1
    <3>3. Len(c.now) \in Nat BY <3>1
    <3>4. more = [c EXCEPT !.now = Append(c.now, s.bound)] OBVIOUS
    <3>5. more.now = Append(c.now, s.bound) BY <3>4 DEF ConnectionType
    <3>6. more \in ConnectionType /\ more.writers = c.writers BY <3>2, <3>4 DEF ConnectionType
    <3> HIDE DEF more
    <3> QED BY <3>2, <3>3, <3>5, <3>6
  <2>2. r \notin c.writers BY <1>3 DEF Counted
  <2>3. << >> \in Seq(Value) /\ <<s.bound>> \in Seq(Value) OBVIOUS
  <2>4. CASE st = [at |-> 0, error |-> TRUE, c |-> c, new |-> << >>]
    BY <2>4, <2>2, <2>3 DEF SameOthers
  <2>5. CASE s.kind = "insert" /\ \E h \in Halted(more, r) : st = End(h, <<s.bound>>)
    <3>1. PICK h \in Halted(more, r) : st = End(h, <<s.bound>>) BY <2>5
    <3> QED BY <3>1, <2>1, <2>2, <2>3, <2>5, HaltedFacts DEF SameOthers
  <2>6. CASE /\ s.kind = "returning"
             /\ st = [at |-> Len(more.now), error |-> FALSE,
                      c |-> [more EXCEPT !.writers = @ \cup {r}], new |-> <<s.bound>>]
    BY <2>6, <2>1, <2>2, <2>3 DEF SameOthers, ConnectionType, Settled
  <2> QED BY <1>3, <2>4, <2>5, <2>6 DEF Stepped
<1> QED
  <2>1. s.at \in Nat BY DEF ResultType
  <2> QED BY <1>1, <1>2, <1>3, <2>1

-----------------------------------------------------------------------------------
(* QSQLiteResult. *)

\* A fetch puts the statement on the row it gives, or ends it and goes after the last row.
LEMMA FetchFacts ==
  ASSUME NEW c \in ConnectionType, Settled(c), NEW r \in Result,
         NEW s \in ResultType, Counted(c, s, r), s.kind = None => s.at = 0,
         Writes(s.kind) => s.bound \in Value,
         NEW initial \in BOOLEAN, NEW f \in Fetch(c, s, r, initial)
  PROVE  /\ f.c \in ConnectionType /\ Settled(f.c) /\ SameOthers(c, f.c, r)
         /\ f.s \in ResultType /\ Counted(f.c, f.s, r)
         /\ f.row \in Nat /\ f.row = f.s.at /\ f.error \in BOOLEAN
         /\ f.s.skip = initial
         /\ f.s.held = IF initial /\ s.kind # None THEN f.row ELSE s.held
         /\ f.s.pos = IF f.row = 0 THEN After ELSE s.pos
         /\ f.s.kind = s.kind /\ f.s.bound = s.bound /\ f.s.given = s.given
         /\ f.s.mode = s.mode /\ f.s.cache = s.cache /\ f.s.ended = s.ended
         /\ Len(f.s.made) >= Len(s.made)
         /\ s.kind \in {None, "insert"} \/ f.error => f.row = 0
<1>1. CASE s.kind = None
  <2> DEFINE t == [s EXCEPT !.skip = initial, !.pos = After]
  <2>1. f = [row |-> 0, error |-> TRUE, c |-> c, s |-> t] BY <1>1 DEF Fetch
  <2>2. /\ t \in ResultType /\ t.at = s.at /\ t.skip = initial /\ t.held = s.held
        /\ t.pos = After /\ t.kind = s.kind /\ t.bound = s.bound /\ t.given = s.given
        /\ t.mode = s.mode /\ t.cache = s.cache /\ t.ended = s.ended /\ t.made = s.made
    BY Places DEF ResultType
  <2>3. Len(s.made) \in Nat BY DEF ResultType
  <2>4. f.row = 0 /\ f.error \in BOOLEAN /\ f.c = c /\ f.s = t BY <2>1
  <2> HIDE DEF t
  <2>5. Counted(c, t, r) BY <2>2 DEF Counted
  <2>6. SameOthers(c, c, r) BY DEF SameOthers
  <2>7. Len(t.made) >= Len(s.made) BY <2>2, <2>3
  <2> QED BY <1>1, <2>2, <2>4, <2>5, <2>6, <2>7
<1>2. CASE s.kind # None
  <2>1. PICK st \in Stepped(c, s, r) :
          f = [row |-> st.at, error |-> st.error, c |-> st.c,
               s |-> [s EXCEPT !.skip = initial, !.at = st.at,
                               !.held = IF initial THEN st.at ELSE @,
                               !.pos = IF st.at = 0 THEN After ELSE @,
                               !.made = @ \o st.new]]
    BY <1>2 DEF Fetch
  <2>2. /\ st.c \in ConnectionType /\ Settled(st.c) /\ SameOthers(c, st.c, r)
        /\ st.at \in Nat /\ st.error \in BOOLEAN /\ st.new \in Seq(Value)
        /\ r \in st.c.writers <=> s.kind = "returning" /\ st.at > 0
        /\ s.kind = "insert" \/ st.error => st.at = 0
    BY <1>2, SteppedFacts
  <2>3. s.made \o st.new \in Seq(Value) /\ Len(s.made \o st.new) >= Len(s.made)
    <3>1. s.made \in Seq(Value) BY DEF ResultType
    <3>2. st.new \in Seq(Value) BY <2>2
    <3> QED BY <3>1, <3>2, Longer
  <2> DEFINE t == [s EXCEPT !.skip = initial, !.at = st.at,
                            !.held = IF initial THEN st.at ELSE @,
                            !.pos = IF st.at = 0 THEN After ELSE @,
                            !.made = @ \o st.new]
  <2>4. /\ t \in ResultType /\ t.at = st.at /\ t.skip = initial
        /\ t.held = (IF initial THEN st.at ELSE s.held)
        /\ t.pos = (IF st.at = 0 THEN After ELSE s.pos)
        /\ t.kind = s.kind /\ t.bound = s.bound /\ t.given = s.given
        /\ t.mode = s.mode /\ t.cache = s.cache /\ t.ended = s.ended
        /\ t.made = s.made \o st.new
    BY <2>2, <2>3, Places DEF ResultType
  <2> HIDE DEF t
  <2>5. f.row = st.at /\ f.error = st.error /\ f.c = st.c /\ f.s = t BY <2>1 DEF t
  <2>6. Counted(st.c, t, r) BY <2>2, <2>4 DEF Counted
  <2>7. s.kind \in {None, "insert"} \/ st.error => st.at = 0 BY <1>2, <2>2
  <2> QED BY <1>2, <2>2, <2>3, <2>4, <2>5, <2>6, <2>7
<1> QED BY <1>1, <1>2

\* cacheNext() of a result that can be read.
LEMMA CacheNextFacts ==
  ASSUME NEW c, NEW s, NEW r \in Result, Good(c, s, r), s.mode = "select",
         NEW o \in CacheNext(c, s, r)
  PROVE  /\ Allowed(c, s, r, o) /\ o.ok \in BOOLEAN
         /\ ~ o.ok => Good(o.c, [o.s EXCEPT !.pos = After], r)
<1> USE DEF Good
<1>0. Len(s.made) \in Nat /\ Len(s.cache) \in Nat /\ s.pos \in Int /\ s.at \in Nat /\ s.held \in Nat
  BY DEF ResultType
<1>1. CASE s.ended
  <2>1. o = [ok |-> FALSE, c |-> c, s |-> s] BY <1>1 DEF CacheNext, Refused
  <2> DEFINE t == [s EXCEPT !.pos = After]
  <2>2. /\ t \in ResultType /\ t.pos = After /\ t.ended /\ t.kind = s.kind /\ t.at = s.at
        /\ t.mode = s.mode /\ t.skip = s.skip /\ t.held = s.held /\ t.bound = s.bound
    BY <1>1, Places DEF ResultType
  <2>3. s.at = 0 BY <1>0, <1>1 DEF Standing
  <2> HIDE DEF t
  <2>4. Good(c, t, r)
    BY <2>2, <2>3, <1>1 DEF Counted, Placed, Standing, AtEnd, Held, HasParameter
  <2>5. o.ok \in BOOLEAN /\ ~ o.ok /\ o.c = c /\ o.s = s BY <2>1
  <2>6. [o.s EXCEPT !.pos = After] = t BY <2>5 DEF t
  <2>7. SameOthers(c, c, r) BY DEF SameOthers
  <2>8. Good(c, s, r) OBVIOUS
  <2> HIDE DEF Good
  <2> QED BY <2>4, <2>5, <2>6, <2>7, <2>8, <1>0 DEF Allowed
<1>2. CASE ~ s.ended
  <2> DEFINE To(f) == IF f.row = 0 THEN [f.s EXCEPT !.ended = TRUE]
                      ELSE [f.s EXCEPT !.cache = Append(@, f.row), !.pos = @ + 1]
  <2>1. PICK f \in FetchNext(c, s, r, FALSE) : o = [ok |-> f.row # 0, c |-> f.c, s |-> To(f)]
    BY <1>2 DEF CacheNext
  <2>2. /\ f.c \in ConnectionType /\ Settled(f.c) /\ SameOthers(c, f.c, r)
        /\ f.s \in ResultType /\ Counted(f.c, f.s, r) /\ f.row \in Nat
        /\ f.row = 0 => f.s.at = 0
        /\ f.s.skip = FALSE
        /\ f.s.pos = (IF f.row = 0 THEN f.s.pos ELSE s.pos)
        /\ f.s.pos = s.pos \/ f.s.pos = After
        /\ f.s.kind = s.kind /\ f.s.bound = s.bound
        /\ f.s.mode = s.mode /\ f.s.cache = s.cache /\ f.s.ended = s.ended
        /\ Len(f.s.made) >= Len(s.made)
        /\ f.s.kind = None => f.s.at = 0
        /\ f.row # 0 => s.pos # After
    <3>1. CASE s.skip
      <4> DEFINE t == [s EXCEPT !.skip = FALSE, !.held = 0]
      <4>1. f = [row |-> s.held, error |-> FALSE, c |-> c, s |-> t] BY <3>1 DEF FetchNext
      <4>2. /\ t \in ResultType /\ t.at = s.at /\ t.skip = FALSE /\ t.pos = s.pos
            /\ t.kind = s.kind /\ t.bound = s.bound /\ t.mode = s.mode /\ t.cache = s.cache
            /\ t.ended = s.ended /\ t.made = s.made
        BY DEF ResultType
      <4> HIDE DEF t
      <4>3. f.row = s.held /\ f.c = c /\ f.s = t BY <4>1
      <4>4. Counted(c, t, r) BY <4>2 DEF Counted
      <4>5. SameOthers(c, c, r) BY DEF SameOthers
      <4>6. s.held = 0 => s.at = 0 BY <3>1 DEF Held
      <4>7. s.kind = None => s.at = 0 BY <1>0 DEF Standing
      <4>8. s.held # 0 => s.pos # After BY <3>1, <1>2 DEF AtEnd
      <4>9. Len(t.made) >= Len(s.made) BY <4>2, <1>0
      <4> QED BY <3>1, <4>2, <4>3, <4>4, <4>5, <4>6, <4>7, <4>8, <4>9, <1>0
    <3>2. CASE ~ s.skip
      <4>1. f \in Fetch(c, s, r, FALSE) BY <3>2 DEF FetchNext
      <4>2. s.kind = None => s.at = 0 BY <1>0 DEF Standing
      <4>3. Writes(s.kind) => s.bound \in Value BY DEF HasParameter
      <4>4. s.pos # After BY <3>2, <1>2 DEF AtEnd
      <4>5. FALSE \in BOOLEAN OBVIOUS
      <4>6. c \in ConnectionType /\ Settled(c) /\ s \in ResultType /\ Counted(c, s, r) OBVIOUS
      <4> HIDE DEF Good
      <4>7. PICK initial \in BOOLEAN : ~ initial /\ f \in Fetch(c, s, r, initial) BY <4>1, Zenon
      <4>8. /\ f.c \in ConnectionType /\ Settled(f.c) /\ SameOthers(c, f.c, r)
            /\ f.s \in ResultType /\ Counted(f.c, f.s, r) /\ f.row \in Nat /\ f.row = f.s.at
            /\ f.s.skip = initial
            /\ f.s.pos = (IF f.row = 0 THEN After ELSE s.pos)
            /\ f.s.kind = s.kind /\ f.s.bound = s.bound
            /\ f.s.mode = s.mode /\ f.s.cache = s.cache /\ f.s.ended = s.ended
            /\ Len(f.s.made) >= Len(s.made)
            /\ s.kind \in {None, "insert"} => f.row = 0
        BY <4>2, <4>3, <4>6, <4>7, FetchFacts
      <4>9. f.s.skip = FALSE BY <4>7, <4>8
      <4> QED BY <4>4, <4>8, <4>9
    <3> QED BY <3>1, <3>2 DEF ResultType
  <2>3. CASE f.row = 0
    <3> DEFINE t == [f.s EXCEPT !.ended = TRUE]
               u == [t EXCEPT !.pos = After]
    <3>1. /\ t \in ResultType /\ t.at = 0 /\ t.skip = FALSE /\ t.pos = f.s.pos
          /\ t.kind = s.kind /\ t.bound = s.bound /\ t.mode = s.mode /\ t.cache = s.cache
          /\ t.ended = TRUE /\ t.made = f.s.made
      BY <2>2, <2>3 DEF ResultType
    <3>2. /\ u \in ResultType /\ u.at = 0 /\ u.skip = FALSE /\ u.pos = After
          /\ u.kind = s.kind /\ u.bound = s.bound /\ u.mode = s.mode /\ u.ended = TRUE
      BY <3>1, Places DEF ResultType
    <3>3. o.ok \in BOOLEAN /\ ~ o.ok /\ o.c = f.c /\ o.s = t BY <2>1, <2>3
    <3> HIDE DEF t
    <3>4. [o.s EXCEPT !.pos = After] = u BY <3>3
    <3> HIDE DEF u
    <3>5. r \notin f.c.writers BY <2>2, <2>3 DEF Counted
    <3>6. Placed(t) /\ Placed(u) BY <3>1, <3>2, <2>2 DEF Placed
    <3>7. Good(f.c, t, r)
      BY <3>1, <3>5, <3>6, <2>2 DEF Counted, Standing, AtEnd, Held, HasParameter
    <3>8. Good(f.c, u, r)
      BY <3>2, <3>5, <3>6, <2>2 DEF Counted, Standing, AtEnd, Held, HasParameter
    <3> HIDE DEF Good
    <3> QED BY <3>1, <3>3, <3>4, <3>7, <3>8, <2>2 DEF Allowed
  <2>4. CASE f.row # 0
    <3> DEFINE t == [f.s EXCEPT !.cache = Append(@, f.row), !.pos = @ + 1]
    <3>0. Append(s.cache, f.row) \in Seq(Nat) /\ Len(Append(s.cache, f.row)) = Len(s.cache) + 1
      <4>1. s.cache \in Seq(Nat) BY DEF ResultType
      <4>2. f.row \in Nat BY <2>2
      <4> QED BY <4>1, <4>2, OneLonger
    <3>1. /\ t \in ResultType /\ t.at = f.s.at /\ t.skip = FALSE /\ t.pos = s.pos + 1
          /\ t.kind = s.kind /\ t.bound = s.bound /\ t.mode = s.mode
          /\ t.cache = Append(s.cache, f.row)
          /\ t.ended = s.ended /\ t.made = f.s.made
      <4>1. f.s.pos = s.pos /\ s.pos + 1 \in Int BY <2>2, <2>4, <1>0
      <4> QED BY <4>1, <2>2, <3>0 DEF ResultType
    <3>3. o.ok \in BOOLEAN /\ o.ok /\ o.c = f.c /\ o.s = t BY <2>1, <2>4
    <3> HIDE DEF t
    <3>4. s.pos = Before \/ s.pos \in 0 .. Len(s.cache) - 1 BY <2>2, <2>4 DEF Placed
    <3>5. t.pos \in 0 .. Len(t.cache) - 1 /\ t.pos # After
      <4>1. Len(t.cache) = Len(s.cache) + 1 BY <3>0, <3>1
      <4>2. s.pos + 1 \in 0 .. Len(s.cache) BY <3>4, <1>0, Places
      <4> QED BY <4>1, <4>2, <3>1, <1>0, Places
    <3>6. Placed(t) BY <3>5 DEF Placed
    <3>7. Good(f.c, t, r)
      BY <3>1, <3>5, <3>6, <2>2, <1>2 DEF Counted, Standing, AtEnd, Held, HasParameter, ResultType
    <3> HIDE DEF Good
    <3> QED BY <3>1, <3>3, <3>7, <2>2 DEF Allowed
  <2> QED BY <2>3, <2>4
<1> QED
  <2>1. s.ended \in BOOLEAN BY DEF ResultType
  <2> QED BY <1>1, <1>2, <2>1

LEMMA NextRowFacts ==
  ASSUME NEW c, NEW s, NEW r \in Result, Good(c, s, r), s.mode = "select",
         NEW o \in NextRow(c, s, r)
  PROVE  Allowed(c, s, r, o)
<1>0. s \in ResultType /\ Len(s.made) \in Nat /\ Len(s.cache) \in Nat /\ s.pos \in Int
  BY DEF Good, ResultType
<1> DEFINE to == IF s.pos = Before THEN 0 ELSE s.pos + 1
<1>1. CASE s.pos = After
  BY <1>0, <1>1 DEF NextRow, Refused, Allowed, SameOthers
<1>2. CASE s.pos # After /\ to < Len(s.cache)
  <2> DEFINE t == [s EXCEPT !.pos = to]
  <2>1. o.c = c /\ o.s = t BY <1>2 DEF NextRow
  <2>2. to \in Int /\ to \in 0 .. Len(s.cache) - 1 /\ to # After
    <3>1. s.pos = Before \/ s.pos \in 0 .. Len(s.cache) - 1 BY <1>2 DEF Good, Placed
    <3>2. to \in Nat BY <3>1, <1>0
    <3> QED BY <3>2, <1>0, <1>2, Places
  <2> HIDE DEF to
  <2>3. /\ t \in ResultType /\ t.at = s.at /\ t.skip = s.skip /\ t.held = s.held
        /\ t.pos = to /\ t.kind = s.kind /\ t.bound = s.bound
        /\ t.mode = s.mode /\ t.cache = s.cache /\ t.ended = s.ended /\ t.made = s.made
    BY <1>0, <2>2 DEF ResultType
  <2> HIDE DEF t
  <2>4. Good(c, t, r)
    BY <2>2, <2>3 DEF Good, Counted, Placed, Standing, AtEnd, Held, HasParameter
  <2> QED BY <1>0, <2>1, <2>3, <2>4 DEF Allowed, SameOthers
<1>3. CASE s.pos # After /\ ~ (to < Len(s.cache))
  <2>1. PICK n \in CacheNext(c, s, r) :
          o = IF n.ok \/ s.pos = Before THEN n ELSE Left(n, [n.s EXCEPT !.pos = After])
    BY <1>3 DEF NextRow
  <2>2. Allowed(c, s, r, n) /\ n.ok \in BOOLEAN /\ (~ n.ok => Good(n.c, [n.s EXCEPT !.pos = After], r))
    BY CacheNextFacts
  <2>3. CASE o = n BY <2>2, <2>3
  <2>4. CASE o = Left(n, [n.s EXCEPT !.pos = After]) /\ ~ n.ok
    <3> DEFINE t == [n.s EXCEPT !.pos = After]
    <3>1. n.s \in ResultType BY <2>2 DEF Allowed, Good
    <3>2. t.made = n.s.made /\ t.kind = n.s.kind BY <3>1 DEF ResultType
    <3>4. o.c = n.c /\ o.s = t BY <2>4 DEF Left
    <3> HIDE DEF t
    <3> QED BY <2>2, <2>4, <3>2, <3>4 DEF Allowed, t
  <2> QED BY <2>1, <2>3, <2>4
<1> QED BY <1>1, <1>2, <1>3

LEMMA PreviousRowFacts ==
  ASSUME NEW c, NEW s, NEW r \in Result, Good(c, s, r), s.mode = "select",
         NEW o \in PreviousRow(c, s, r)
  PROVE  Allowed(c, s, r, o)
<1>0. s \in ResultType /\ Len(s.made) \in Nat /\ Len(s.cache) \in Nat /\ s.pos \in Int
      /\ s.at \in Nat
  BY DEF Good, ResultType
<1>1. CASE o.c = c /\ o.s = s
  BY <1>0, <1>1 DEF Allowed, SameOthers
<1>2. CASE o \in CacheNext(c, s, r)
  BY <1>2, CacheNextFacts
<1>3. CASE \E to \in -1 .. Len(s.cache) - 1 :
             /\ o.c = c /\ o.s = [s EXCEPT !.pos = to]
             /\ s.pos # After \/ s.ended
  <2>1. PICK to \in -1 .. Len(s.cache) - 1 :
          /\ o.c = c /\ o.s = [s EXCEPT !.pos = to]
          /\ s.pos # After \/ s.ended
    BY <1>3
  <2> DEFINE t == [s EXCEPT !.pos = to]
  <2>2. to = Before \/ to \in 0 .. Len(s.cache) - 1 BY <1>0 DEF Before
  <2>3. to \in Int /\ to # After BY <1>0, <2>2, Places
  <2>4. /\ t \in ResultType /\ t.at = s.at /\ t.skip = s.skip /\ t.held = s.held
        /\ t.pos = to /\ t.kind = s.kind /\ t.bound = s.bound
        /\ t.mode = s.mode /\ t.cache = s.cache /\ t.ended = s.ended /\ t.made = s.made
    BY <1>0, <2>3 DEF ResultType
  <2> HIDE DEF t
  <2>5. Good(c, t, r)
    BY <2>2, <2>3, <2>4 DEF Good, Counted, Placed, Standing, AtEnd, Held, HasParameter
  <2> QED BY <1>0, <2>1, <2>4, <2>5 DEF Allowed, SameOthers, t
<1>4. CASE s.pos # Before /\ s.pos # After
  <2>1. s.pos \in 0 .. Len(s.cache) - 1 BY <1>4 DEF Good, Placed
  <2>2. o.c = c /\ o.s = [s EXCEPT !.pos = s.pos - 1] BY <1>4 DEF PreviousRow
  <2>3. s.pos - 1 \in -1 .. Len(s.cache) - 1 BY <2>1, <1>0
  <2> QED BY <1>3, <1>4, <2>2, <2>3
<1>5. CASE s.pos = After /\ s.ended /\ ~ (Len(s.cache) - 1 < 0)
  <2>1. o.c = c /\ o.s = [s EXCEPT !.pos = Len(s.cache) - 1]
    BY <1>5, Places DEF PreviousRow
  <2>2. Len(s.cache) - 1 \in -1 .. Len(s.cache) - 1 BY <1>0, <1>5
  <2> QED BY <1>3, <1>5, <2>1, <2>2
<1>6. CASE s.pos = After /\ s.ended /\ Len(s.cache) - 1 < 0
  BY <1>1, <1>6, Places DEF PreviousRow, Refused
<1>7. CASE s.pos = After /\ ~ s.ended
  BY <1>2, <1>7, Places DEF PreviousRow
<1>8. CASE s.pos = Before
  BY <1>1, <1>8, Places DEF PreviousRow, Refused
<1> QED BY <1>4, <1>5, <1>6, <1>7, <1>8

\* A result at the beginning of exec().
Blank(s) ==
  /\ s.at = 0 /\ s.pos = Before /\ s.skip = FALSE /\ s.held = 0 /\ s.cache = << >>
  /\ s.ended = FALSE

LEMMA ResetFacts ==
  ASSUME NEW s0 \in ResultType, NEW s, s = [Emptied(s0) EXCEPT !.at = 0]
  PROVE  /\ s \in ResultType /\ s.at = 0 /\ s.pos = Before /\ s.skip = FALSE /\ s.held = 0
         /\ s.cache = << >> /\ s.ended = FALSE
         /\ s.kind = s0.kind /\ s.bound = s0.bound /\ s.given = s0.given /\ s.mode = s0.mode
         /\ s.made = s0.made
<1> DEFINE e == [s0 EXCEPT !.pos = Before, !.skip = FALSE, !.held = 0, !.cache = << >>,
                           !.ended = FALSE]
<1>1. << >> \in Seq(Nat) OBVIOUS
<1>2. /\ e \in ResultType /\ e.pos = Before /\ e.skip = FALSE /\ e.held = 0
      /\ e.cache = << >> /\ e.ended = FALSE
      /\ e.kind = s0.kind /\ e.bound = s0.bound /\ e.given = s0.given /\ e.mode = s0.mode
      /\ e.made = s0.made
  BY <1>1, Places DEF ResultType
<1>3. s = [e EXCEPT !.at = 0] BY DEF Emptied
<1> HIDE DEF e
<1>4. /\ s \in ResultType /\ s.at = 0
      /\ s.pos = e.pos /\ s.skip = e.skip /\ s.held = e.held /\ s.cache = e.cache
      /\ s.ended = e.ended /\ s.kind = e.kind /\ s.bound = e.bound /\ s.given = e.given
      /\ s.mode = e.mode /\ s.made = e.made
  BY <1>2, <1>3 DEF ResultType
<1> QED BY <1>2, <1>4

LEMMA FinalizedFacts ==
  ASSUME NEW s \in ResultType
  PROVE  LET t == Finalized(s)
         IN  /\ t \in ResultType /\ t.at = 0 /\ t.kind = None /\ t.pos = s.pos /\ t.skip = s.skip
             /\ t.held = s.held /\ t.cache = s.cache /\ t.ended = s.ended /\ t.mode = s.mode
             /\ t.made = s.made
  BY DEF ResultType, Finalized

LEMMA StartedFacts ==
  ASSUME NEW c \in ConnectionType, Settled(c), NEW r \in Result, r \notin c.writers,
         NEW s \in ResultType, Blank(s),
         Writes(s.kind) => s.bound \in Value,
         NEW o \in Started(c, s, r)
  PROVE  Allowed(c, s, r, o)
<1> DEFINE Mode(f) == IF f.error THEN "inactive"
                      ELSE IF Columns(s.kind) THEN "select" ELSE "active"
<1>1. PICK initial, f :
        /\ initial \in BOOLEAN /\ initial /\ f \in Fetch(c, s, r, initial)
        /\ o = [ok |-> ~ f.error, c |-> f.c, s |-> [f.s EXCEPT !.mode = Mode(f)]]
  <2>1. PICK f \in Fetch(c, s, r, TRUE) :
          o = [ok |-> ~ f.error, c |-> f.c, s |-> [f.s EXCEPT !.mode = Mode(f)]]
    BY DEF Started, FetchNext, Blank
  <2> HIDE DEF Mode
  <2> QED BY <2>1, Zenon
<1>4. Counted(c, s, r) BY DEF Counted, Blank
<1>0. (s.kind = None => s.at = 0) /\ s.at = 0 BY DEF Blank
<1>5. /\ f.c \in ConnectionType /\ Settled(f.c) /\ SameOthers(c, f.c, r)
      /\ f.s \in ResultType /\ Counted(f.c, f.s, r)
      /\ f.row \in Nat /\ f.row = f.s.at /\ f.error \in BOOLEAN
      /\ f.s.skip = initial
      /\ f.s.held = (IF initial /\ s.kind # None THEN f.row ELSE s.held)
      /\ f.s.pos = (IF f.row = 0 THEN After ELSE s.pos)
      /\ f.s.kind = s.kind /\ f.s.bound = s.bound /\ f.s.given = s.given
      /\ f.s.mode = s.mode /\ f.s.cache = s.cache /\ f.s.ended = s.ended
      /\ Len(f.s.made) >= Len(s.made)
      /\ s.kind \in {None, "insert"} \/ f.error => f.row = 0
  <2>1. initial \in BOOLEAN /\ f \in Fetch(c, s, r, initial) BY <1>1
  <2> QED BY <1>0, <1>4, <2>1, FetchFacts
<1> DEFINE t == [f.s EXCEPT !.mode = Mode(f)]
<1>6. /\ t \in ResultType /\ t.at = f.s.at /\ t.skip = initial /\ t.held = f.s.held
      /\ t.pos = f.s.pos /\ t.kind = s.kind /\ t.bound = s.bound
      /\ t.mode = Mode(f) /\ t.cache = s.cache /\ t.ended = s.ended /\ t.made = f.s.made
  BY <1>5 DEF ResultType
<1>7. o.c = f.c /\ o.s = t BY <1>1
<1> HIDE DEF t
<1>8. f.row # 0 => Mode(f) = "select"
  BY <1>5 DEF Columns, ResultType, Kind
<1> HIDE DEF Mode
<1>9. Placed(t) /\ (t.at = 0 <=> t.pos = After)
  BY <1>5, <1>6, Places DEF Placed, Blank
<1>10. f.row # 0 => s.kind # None BY <1>5
<1>11. Standing(t) /\ AtEnd(t) /\ Held(t) /\ HasParameter(t)
  BY <1>1, <1>5, <1>6, <1>8, <1>9, <1>10 DEF Standing, AtEnd, Held, HasParameter, Blank
<1>12. Counted(f.c, t, r) BY <1>5, <1>6 DEF Counted
<1> QED BY <1>5, <1>6, <1>7, <1>9, <1>11, <1>12 DEF Allowed, Good

LEMMA ExecutedFacts ==
  ASSUME NEW c, NEW s0, NEW r \in Result, Good(c, s0, r), NEW o \in Executed(c, s0, r)
  PROVE  Allowed(c, s0, r, o)
<1> DEFINE s == [Emptied(s0) EXCEPT !.at = 0]
           b == [s EXCEPT !.bound = s.given]
<1>0. c \in ConnectionType /\ Settled(c) /\ s0 \in ResultType BY DEF Good
<1>1. PICK h \in Ended(c, r) :
        \/ o \in Refused(h.c, Finalized(s))
        \/ o \in Refused(h.c, s)
        \/ /\ Params(s.kind) = Given(s)
           /\ o \in UNION {LeftOnRow(u, r) : u \in Started(h.c, b, r)}
  BY DEF Executed
<1>2. /\ h.c \in ConnectionType /\ Settled(h.c) /\ h.c.writers = c.writers \ {r}
  BY <1>0, EndedFacts
<1>3. SameOthers(c, h.c, r) /\ r \notin h.c.writers BY <1>2 DEF SameOthers
<1>4. /\ s \in ResultType /\ s.at = 0 /\ s.pos = Before /\ s.skip = FALSE /\ s.held = 0
      /\ s.cache = << >> /\ s.ended = FALSE
      /\ s.kind = s0.kind /\ s.bound = s0.bound /\ s.given = s0.given /\ s.mode = s0.mode
      /\ s.made = s0.made
  BY <1>0, ResetFacts
<1> HIDE DEF s
<1>5. Len(s.made) \in Nat BY <1>4 DEF ResultType
<1>6. CASE o \in Refused(h.c, s)
  <2>1. o.c = h.c /\ o.s = s BY <1>6 DEF Refused
  <2>2. Good(h.c, s, r)
    BY <1>2, <1>3, <1>4, Places
       DEF Good, Counted, Placed, Standing, AtEnd, Held, HasParameter
  <2> QED BY <2>1, <2>2, <1>3, <1>4, <1>5 DEF Allowed
<1>7. CASE o \in Refused(h.c, Finalized(s))
  <2> DEFINE t == Finalized(s)
  <2>1. o.c = h.c /\ o.s = t BY <1>7 DEF Refused
  <2>2. /\ t \in ResultType /\ t.at = 0 /\ t.kind = None /\ t.pos = s.pos /\ t.skip = s.skip
        /\ t.held = s.held /\ t.cache = s.cache /\ t.ended = s.ended /\ t.mode = s.mode
        /\ t.made = s.made
    BY <1>4, FinalizedFacts
  <2> HIDE DEF t
  <2>3. Good(h.c, t, r)
    BY <1>2, <1>3, <1>4, <2>2, Places, SqlDriverAssumption
       DEF Good, Counted, Placed, Standing, AtEnd, Held, HasParameter, Kind, Writes
  <2> QED BY <2>1, <2>2, <2>3, <1>3, <1>4, <1>5 DEF Allowed
<1>8. CASE /\ Params(s.kind) = Given(s)
           /\ o \in UNION {LeftOnRow(u, r) : u \in Started(h.c, b, r)}
  <2>1. o \in Started(h.c, b, r) BY <1>8 DEF LeftOnRow
  <2>2. s.given \in Value \cup {None} /\ (Writes(s.kind) => s.given \in Value)
    BY <1>4, <1>8 DEF Params, Given, ResultType
  <2>3. /\ b \in ResultType /\ Blank(b) /\ b.kind = s.kind /\ b.bound = s.given
        /\ b.made = s.made
    BY <1>4, <2>2 DEF ResultType, Blank
  <2> HIDE DEF b
  <2>4. Allowed(h.c, b, r, o) BY <1>2, <1>3, <2>1, <2>2, <2>3, StartedFacts
  <2> QED BY <2>3, <2>4, <1>3, <1>4 DEF Allowed, SameOthers
<1> QED BY <1>1, <1>6, <1>7, <1>8

LEMMA ExecutedOk ==
  ASSUME NEW c, NEW s0, NEW r \in Result, Good(c, s0, r), NEW o \in Executed(c, s0, r)
  PROVE  o.ok \in BOOLEAN
<1> DEFINE s == [Emptied(s0) EXCEPT !.at = 0]
           b == [s EXCEPT !.bound = s.given]
<1>1. PICK h \in Ended(c, r) :
        \/ o \in Refused(h.c, Finalized(s))
        \/ o \in Refused(h.c, s)
        \/ /\ Params(s.kind) = Given(s)
           /\ o \in UNION {LeftOnRow(u, r) : u \in Started(h.c, b, r)}
  BY DEF Executed
<1> HIDE DEF b, s
<1>2. CASE o \in Refused(h.c, Finalized(s)) \cup Refused(h.c, s)
  <2>1. PICK t : o = [ok |-> FALSE, c |-> h.c, s |-> t] BY <1>2 DEF Refused
  <2> QED BY <2>1
<1>3. CASE o \in Started(h.c, b, r)
  <2> DEFINE Mode(f) == IF f.error THEN "inactive"
                        ELSE IF Columns(b.kind) THEN "select" ELSE "active"
  <2>1. PICK f : o = [ok |-> ~ f.error, c |-> f.c, s |-> [f.s EXCEPT !.mode = Mode(f)]]
    BY <1>3 DEF Started
  <2> HIDE DEF Mode
  <2>2. o.ok = ~ f.error BY <2>1
  <2> QED BY <2>2
<1> QED BY <1>1, <1>2, <1>3 DEF LeftOnRow

\* What is given to a result, and what it is asked for, do not matter to Good.
LEMMA GivenFacts ==
  ASSUME NEW c, NEW s, NEW r \in Result, Good(c, s, r), NEW g \in Value \cup {None, Surplus}
  PROVE  LET t == [s EXCEPT !.given = g]
         IN  Good(c, t, r) /\ t.kind = s.kind /\ t.made = s.made
<1> DEFINE t == [s EXCEPT !.given = g]
<1>1. s \in ResultType BY DEF Good
<1>2. /\ t \in ResultType /\ t.at = s.at /\ t.skip = s.skip /\ t.held = s.held /\ t.pos = s.pos
      /\ t.kind = s.kind /\ t.bound = s.bound /\ t.mode = s.mode /\ t.cache = s.cache
      /\ t.ended = s.ended /\ t.made = s.made
  BY <1>1 DEF ResultType
<1> HIDE DEF t
<1>3. Good(c, t, r) BY <1>2 DEF Good, Counted, Placed, Standing, AtEnd, Held, HasParameter
<1> QED BY <1>2, <1>3 DEF t

LEMMA AllowedTwice ==
  ASSUME NEW c, NEW s, NEW r \in Result, s \in ResultType, NEW o, Allowed(c, s, r, o),
         NEW t, t.kind = o.s.kind, t.made = o.s.made, NEW u, Allowed(o.c, t, r, u)
  PROVE  Allowed(c, s, r, u)
<1>1. Len(s.made) \in Nat BY DEF ResultType
<1>2. Len(o.s.made) \in Nat /\ Len(u.s.made) \in Nat
  <2>1. o.s \in ResultType /\ u.s \in ResultType BY DEF Allowed, Good
  <2>2. \A x \in ResultType : Len(x.made) \in Nat BY DEF ResultType
  <2> QED BY <2>1, <2>2
<1> QED BY <1>1, <1>2 DEF Allowed, SameOthers

LEMMA BatchFacts ==
  ASSUME NEW c, NEW s, NEW r \in Result, Good(c, s, r), NEW v \in Value, NEW w \in Value,
         NEW o \in ExecutedBatch(c, s, r, v, w)
  PROVE  Allowed(c, s, r, o) /\ o.ok \in BOOLEAN
<1> DEFINE start == [c |-> c, s |-> s]
<1> DEFINE first == ExecutedWith(start, v, r)
<1>1. PICK u : /\ u \in first \cup UNION {ExecutedWith(f, w, r) : f \in first}
               /\ o = Left(u, [u.s EXCEPT !.given = List])
  <2>1. PICK u : /\ u \in {x \in first : ~ x.ok}
                        \cup UNION {ExecutedWith(x, w, r) : x \in {y \in first : y.ok}}
                 /\ o = Left(u, [u.s EXCEPT !.given = List])
    BY DEF ExecutedBatch
  <2> HIDE DEF start, first
  <2>2. u \in first \cup UNION {ExecutedWith(f, w, r) : f \in first} BY <2>1
  <2> QED BY <2>1, <2>2
<1>2. s \in ResultType BY DEF Good
<1>3. \A x : x \in ExecutedWith(start, v, r) => Allowed(c, s, r, x) /\ x.ok \in BOOLEAN
  <2> SUFFICES ASSUME NEW x \in ExecutedWith(start, v, r)
               PROVE  Allowed(c, s, r, x) /\ x.ok \in BOOLEAN
    OBVIOUS
  <2> DEFINE t == [s EXCEPT !.given = v]
  <2>1. x \in Executed(c, t, r) BY DEF ExecutedWith
  <2>2. Good(c, t, r) /\ t.kind = s.kind /\ t.made = s.made BY GivenFacts
  <2> HIDE DEF t
  <2>3. Allowed(c, t, r, x) /\ x.ok \in BOOLEAN BY <2>1, <2>2, ExecutedFacts, ExecutedOk
  <2> QED BY <2>2, <2>3 DEF Allowed
<1>4. Allowed(c, s, r, u) /\ u.ok \in BOOLEAN
  <2>1. CASE u \in ExecutedWith(start, v, r) BY <1>3, <2>1
  <2>2. CASE \E f \in ExecutedWith(start, v, r) : u \in ExecutedWith(f, w, r)
    <3>1. PICK f \in ExecutedWith(start, v, r) : u \in ExecutedWith(f, w, r) BY <2>2
    <3>2. Allowed(c, s, r, f) BY <1>3
    <3> DEFINE t == [f.s EXCEPT !.given = w]
    <3>3. Good(f.c, f.s, r) BY <3>2 DEF Allowed
    <3>4. Good(f.c, t, r) /\ t.kind = f.s.kind /\ t.made = f.s.made BY <3>3, GivenFacts
    <3>5. u \in Executed(f.c, t, r) BY <3>1 DEF ExecutedWith
    <3> HIDE DEF t
    <3>6. Allowed(f.c, t, r, u) /\ u.ok \in BOOLEAN BY <3>4, <3>5, ExecutedFacts, ExecutedOk
    <3> QED BY <1>2, <3>2, <3>4, <3>6, AllowedTwice
  <2> QED BY <1>1, <2>1, <2>2
<1> DEFINE t == [u.s EXCEPT !.given = List]
<1>5. Good(u.c, u.s, r) BY <1>4 DEF Allowed
<1>6. Good(u.c, t, r) /\ t.kind = u.s.kind /\ t.made = u.s.made
  BY <1>5, GivenFacts, SqlDriverAssumption
<1>7. o.c = u.c /\ o.s = t /\ o.ok = u.ok BY <1>1 DEF Left
<1> HIDE DEF t
<1> QED BY <1>4, <1>6, <1>7 DEF Allowed

LEMMA BeginsFacts ==
  ASSUME NEW c, NEW s, NEW r \in Result, Good(c, s, r),
         NEW want \in Seq(Value \cup {None, Surplus})
  PROVE  LET t == [s EXCEPT !.want = want, !.made = << >>, !.ok = FALSE]
         IN  Good(c, t, r) /\ t.kind = s.kind /\ t.made = << >>
<1> DEFINE t == [s EXCEPT !.want = want, !.made = << >>, !.ok = FALSE]
<1>0. << >> \in Seq(Value) OBVIOUS
<1>1. s \in ResultType BY DEF Good
<1>2. /\ t \in ResultType /\ t.at = s.at /\ t.skip = s.skip /\ t.held = s.held /\ t.pos = s.pos
      /\ t.kind = s.kind /\ t.bound = s.bound /\ t.mode = s.mode /\ t.cache = s.cache
      /\ t.ended = s.ended /\ t.made = << >>
  BY <1>0, <1>1 DEF ResultType
<1> HIDE DEF t
<1>3. Good(c, t, r) BY <1>2 DEF Good, Counted, Placed, Standing, AtEnd, Held, HasParameter
<1> QED BY <1>2, <1>3 DEF t

LEMMA ReturnsFacts ==
  ASSUME NEW c, NEW s, NEW r \in Result, NEW o, Allowed(c, s, r, o), o.ok \in BOOLEAN
  PROVE  Allowed(c, s, r, Left(o, [o.s EXCEPT !.ok = o.ok]))
<1> DEFINE t == [o.s EXCEPT !.ok = o.ok]
<1>1. o.s \in ResultType /\ Good(o.c, o.s, r) BY DEF Allowed, Good
<1>2. /\ t \in ResultType /\ t.at = o.s.at /\ t.skip = o.s.skip /\ t.held = o.s.held
      /\ t.pos = o.s.pos /\ t.kind = o.s.kind /\ t.bound = o.s.bound /\ t.mode = o.s.mode
      /\ t.cache = o.s.cache /\ t.ended = o.s.ended /\ t.made = o.s.made
  BY <1>1 DEF ResultType
<1>3. Left(o, t).c = o.c /\ Left(o, t).s = t BY DEF Left
<1> HIDE DEF t
<1>4. Good(o.c, t, r)
  BY <1>1, <1>2 DEF Good, Counted, Placed, Standing, AtEnd, Held, HasParameter
<1>5. Allowed(c, s, r, Left(o, t)) BY <1>2, <1>3, <1>4 DEF Allowed
<1> QED BY <1>5 DEF t

LEMMA NoResultFacts ==
  ASSUME NEW c \in ConnectionType, Settled(c), NEW r \in Result, NEW h \in Ended(c, r),
         NEW kind \in Kind \cup {None}
  PROVE  LET t == [NoResult EXCEPT !.kind = kind]
         IN  /\ Good(h.c, t, r) /\ SameOthers(c, h.c, r)
             /\ t.kind = kind /\ t.made = << >>
<1> DEFINE t == [NoResult EXCEPT !.kind = kind]
<1>1. << >> \in Seq(Nat) /\ << >> \in Seq(Value) /\ << >> \in Seq(Value \cup {None, Surplus})
  OBVIOUS
<1>2. /\ t \in ResultType /\ t.at = 0 /\ t.skip = FALSE /\ t.pos = Before
      /\ t.mode = "inactive" /\ t.cache = << >> /\ t.made = << >> /\ t.kind = kind
  BY <1>1, Places DEF ResultType, NoResult
<1> HIDE DEF t
<1>3. /\ h.c \in ConnectionType /\ Settled(h.c) /\ h.c.writers = c.writers \ {r}
  BY EndedFacts
<1>4. Good(h.c, t, r)
  BY <1>2, <1>3, Places DEF Good, Counted, Placed, Standing, AtEnd, Held, HasParameter
<1> QED BY <1>2, <1>3, <1>4 DEF SameOthers, t

-----------------------------------------------------------------------------------
(* The driver. *)

\* Of a driver that is closed no result has a statement, and with Good for every result this
\* is inductive.
IInv ==
  /\ isOpen \in BOOLEAN
  /\ db \in ConnectionType /\ Settled(db)
  /\ res \in [Result -> ResultType]
  /\ \A r \in Result : Good(db, res[r], r) /\ (isOpen \/ res[r].kind = None)
  /\ subs \subseteq Table /\ hooked \in BOOLEAN /\ notes \in 0 .. MaxNotes

\* r is left in one of the outcomes os.
LEMMA BecomesFacts ==
  ASSUME IInv, NEW r \in Result, NEW s \in ResultType, NEW os, Becomes(r, s, os),
         \A o \in os : /\ Good(o.c, o.s, r) /\ SameOthers(db, o.c, r)
                       /\ Len(o.s.made) >= Len(s.made)
                       /\ isOpen \/ o.s.kind = None
  PROVE  IInv'
<1>1. PICK o \in os :
        /\ notes' = notes + (IF hooked THEN Len(o.s.made) - Len(s.made) ELSE 0)
        /\ notes' <= MaxNotes
        /\ db' = o.c /\ res' = [res EXCEPT ![r] = o.s]
        /\ UNCHANGED <<isOpen, subs, hooked>>
  BY DEF Becomes
<1>2. /\ Good(o.c, o.s, r) /\ SameOthers(db, o.c, r) /\ Len(o.s.made) >= Len(s.made)
      /\ isOpen \/ o.s.kind = None
  OBVIOUS
<1>3. o.s \in ResultType /\ o.c \in ConnectionType /\ Settled(o.c) BY <1>2 DEF Good
<1>4. \A x \in ResultType : Len(x.made) \in Nat BY DEF ResultType
<1>5. notes' \in 0 .. MaxNotes
  <2>1. Len(o.s.made) \in Nat /\ Len(s.made) \in Nat BY <1>3, <1>4
  <2> QED BY <1>1, <1>2, <2>1, SqlDriverAssumption DEF IInv
<1>6. res' \in [Result -> ResultType] /\ res'[r] = o.s BY <1>1, <1>3 DEF IInv
<1>7. ASSUME NEW q \in Result
      PROVE  Good(db', res'[q], q) /\ (isOpen' \/ res'[q].kind = None)
  <2>1. CASE q = r BY <1>1, <1>2, <1>6, <2>1
  <2>2. CASE q # r
    <3>1. res'[q] = res[q] BY <1>1, <2>2 DEF IInv
    <3>2. q \in o.c.writers <=> q \in db.writers BY <1>2, <2>2 DEF SameOthers
    <3>3. Good(o.c, res[q], q) BY <1>3, <3>2 DEF IInv, Good, Counted
    <3> QED BY <1>1, <3>1, <3>3 DEF IInv
  <2> QED BY <2>1, <2>2
<1> QED BY <1>1, <1>3, <1>5, <1>6, <1>7 DEF IInv

LEMMA InitStep == Init => IInv
<1> SUFFICES ASSUME Init PROVE IInv OBVIOUS
<1>1. << >> \in Seq(Value) /\ << >> \in Seq(Nat) /\ << >> \in Seq(Value \cup {None, Surplus})
  OBVIOUS
<1>2. db \in ConnectionType /\ db.writers = {} /\ Settled(db)
  BY <1>1 DEF Init, Fresh, ConnectionType, Settled
<1>3. /\ NoResult \in ResultType /\ NoResult.at = 0 /\ NoResult.kind = None
      /\ NoResult.skip = FALSE /\ NoResult.pos = Before /\ NoResult.mode = "inactive"
  BY <1>1, Places DEF ResultType, NoResult
<1>4. \A r \in Result : res[r] = NoResult BY DEF Init
<1>5. \A r \in Result : Good(db, NoResult, r)
  BY <1>2, <1>3, Places DEF Good, Counted, Placed, Standing, AtEnd, Held, HasParameter
<1>6. res \in [Result -> ResultType] BY <1>3 DEF Init
<1>7. isOpen \in BOOLEAN /\ hooked \in BOOLEAN BY Zenon DEF Init
<1>9. subs \subseteq Table /\ notes \in 0 .. MaxNotes BY SqlDriverAssumption DEF Init
<1> HIDE DEF NoResult
<1>8. \A r \in Result : Good(db, res[r], r) /\ res[r].kind = None BY <1>3, <1>4, <1>5
<1> QED BY <1>2, <1>6, <1>7, <1>8, <1>9 DEF IInv

\* The statements of a result that its operations may change.
LEMMA AllowedStep ==
  ASSUME IInv, NEW r \in Result, NEW s \in ResultType, s.kind = res[r].kind,
         NEW os, Becomes(r, s, os), \A o \in os : Allowed(db, s, r, o)
  PROVE  IInv'
<1>1. \A o \in os : /\ Good(o.c, o.s, r) /\ SameOthers(db, o.c, r)
                    /\ Len(o.s.made) >= Len(s.made)
                    /\ isOpen \/ o.s.kind = None
  BY DEF Allowed, IInv
<1> QED BY <1>1, BecomesFacts

LEMMA ExecStep ==
  ASSUME IInv, NEW r \in Result, Exec(r) \/ ExecBatch(r)
  PROVE  IInv'
<1>0. Good(db, res[r], r) /\ res[r] \in ResultType BY DEF IInv
<1>1. CASE Exec(r)
  <2> DEFINE want == IF Writes(res[r].kind) THEN <<res[r].given>> ELSE << >>
             s == Begins(r, want)
             os == Returns(Executed(db, s, r))
  <2>1. Becomes(r, s, os) BY <1>1 DEF Exec
  <2>2. want \in Seq(Value \cup {None, Surplus})
    <3>1. res[r].given \in Value \cup {None, Surplus} BY <1>0 DEF ResultType
    <3>2. \A x \in Value \cup {None, Surplus} : <<x>> \in Seq(Value \cup {None, Surplus})
      OBVIOUS
    <3>3. << >> \in Seq(Value \cup {None, Surplus}) OBVIOUS
    <3> QED BY <3>1, <3>2, <3>3
  <2> HIDE DEF want
  <2>3. Good(db, s, r) /\ s.kind = res[r].kind BY <1>0, <2>2, BeginsFacts DEF Begins
  <2>4. s \in ResultType BY <2>3 DEF Good
  <2> HIDE DEF s
  <2>5. ASSUME NEW o \in os PROVE Allowed(db, s, r, o)
    <3>1. PICK u \in Executed(db, s, r) : o = Left(u, [u.s EXCEPT !.ok = u.ok])
      BY DEF Returns
    <3>2. Allowed(db, s, r, u) /\ u.ok \in BOOLEAN BY <2>3, ExecutedFacts, ExecutedOk
    <3> QED BY <3>1, <3>2, ReturnsFacts
  <2> HIDE DEF os
  <2> QED BY <2>1, <2>3, <2>4, <2>5, AllowedStep
<1>2. CASE ExecBatch(r)
  <2>0. PICK v \in Value, w \in Value :
          LET s == Begins(r, IF Writes(res[r].kind) THEN <<v, w>> ELSE << >>)
          IN  Becomes(r, s, Returns(ExecutedBatch(db, s, r, v, w)))
    BY <1>2 DEF ExecBatch
  <2> DEFINE want == IF Writes(res[r].kind) THEN <<v, w>> ELSE << >>
             s == Begins(r, want)
             os == Returns(ExecutedBatch(db, s, r, v, w))
  <2>1. Becomes(r, s, os) BY <2>0
  <2>2. want \in Seq(Value \cup {None, Surplus})
    <3>1. <<v, w>> \in Seq(Value \cup {None, Surplus}) OBVIOUS
    <3>2. << >> \in Seq(Value \cup {None, Surplus}) OBVIOUS
    <3> QED BY <3>1, <3>2
  <2> HIDE DEF want
  <2>3. Good(db, s, r) /\ s.kind = res[r].kind BY <1>0, <2>2, BeginsFacts DEF Begins
  <2>4. s \in ResultType BY <2>3 DEF Good
  <2> HIDE DEF s
  <2>5. ASSUME NEW o \in os PROVE Allowed(db, s, r, o)
    <3>1. PICK u \in ExecutedBatch(db, s, r, v, w) : o = Left(u, [u.s EXCEPT !.ok = u.ok])
      BY DEF Returns
    <3>2. Allowed(db, s, r, u) /\ u.ok \in BOOLEAN BY <2>3, BatchFacts
    <3> QED BY <3>1, <3>2, ReturnsFacts
  <2> HIDE DEF os
  <2> QED BY <2>1, <2>3, <2>4, <2>5, AllowedStep
<1> QED BY <1>1, <1>2

LEMMA FinishStep ==
  ASSUME IInv, NEW r \in Result, Finish(r)
  PROVE  IInv'
<1> DEFINE s == [res[r] EXCEPT !.mode = "inactive", !.pos = Before]
           os == Detached(db, s, r)
<1>0. Good(db, res[r], r) /\ res[r] \in ResultType /\ db \in ConnectionType /\ Settled(db)
  BY DEF IInv
<1>1. Becomes(r, res[r], os) BY DEF Finish
<1>2. ASSUME NEW o \in os PROVE Allowed(db, res[r], r, o)
  <2>1. PICK h \in Ended(db, r) : o = [c |-> h.c, s |-> [s EXCEPT !.at = 0]] BY DEF Detached
  <2>2. h.c \in ConnectionType /\ Settled(h.c) /\ h.c.writers = db.writers \ {r}
    BY <1>0, EndedFacts
  <2>3. /\ s \in ResultType /\ s.mode = "inactive" /\ s.pos = Before /\ s.kind = res[r].kind
        /\ s.made = res[r].made
    BY <1>0, Places DEF ResultType
  <2> HIDE DEF s
  <2> DEFINE t == [s EXCEPT !.at = 0]
  <2>4. /\ t \in ResultType /\ t.mode = "inactive" /\ t.pos = Before /\ t.kind = res[r].kind
        /\ t.made = res[r].made /\ t.at = 0
    BY <2>3 DEF ResultType
  <2>5. o.c = h.c /\ o.s = t BY <2>1
  <2> HIDE DEF t
  <2>6. Good(h.c, t, r)
    BY <2>2, <2>4, Places DEF Good, Counted, Placed, Standing, AtEnd, Held, HasParameter
  <2>7. Len(res[r].made) \in Nat BY <1>0 DEF ResultType
  <2> QED BY <2>2, <2>4, <2>5, <2>6, <2>7 DEF Allowed, SameOthers
<1> HIDE DEF os
<1> QED BY <1>0, <1>1, <1>2, AllowedStep

LEMMA PrepareStep ==
  ASSUME IInv, NEW r \in Result, Prepare(r) \/ Destroy(r)
  PROVE  IInv'
<1>0. db \in ConnectionType /\ Settled(db) BY DEF IInv
<1>1. << >> \in Seq(Nat) /\ << >> \in Seq(Value) /\ << >> \in Seq(Value \cup {None, Surplus})
  OBVIOUS
<1>2. NoResult \in ResultType /\ NoResult.made = << >> /\ NoResult.kind = None
  BY <1>1, Places DEF ResultType, NoResult
<1>3. [NoResult EXCEPT !.kind = None] = NoResult
  <2> HIDE DEF NoResult
  <2> QED BY <1>2 DEF ResultType
<1>4. PICK kind \in Kind \cup {None} :
        /\ Becomes(r, NoResult,
                   {[c |-> h.c, s |-> [NoResult EXCEPT !.kind = kind]] : h \in Ended(db, r)})
        /\ isOpen \/ kind = None
  <2>1. CASE Prepare(r) BY <2>1 DEF Prepare
  <2>2. CASE Destroy(r)
    <3> HIDE DEF NoResult
    <3> QED BY <2>2, <1>3 DEF Destroy
  <2> QED BY <2>1, <2>2
<1> DEFINE t == [NoResult EXCEPT !.kind = kind]
           os == {[c |-> h.c, s |-> t] : h \in Ended(db, r)}
<1>5. ASSUME NEW o \in os
      PROVE  /\ Good(o.c, o.s, r) /\ SameOthers(db, o.c, r)
             /\ Len(o.s.made) >= Len(NoResult.made)
             /\ isOpen \/ o.s.kind = None
  <2>1. PICK h \in Ended(db, r) : o = [c |-> h.c, s |-> t] OBVIOUS
  <2>2. Good(h.c, t, r) /\ SameOthers(db, h.c, r) /\ t.kind = kind /\ t.made = << >>
    BY <1>0, NoResultFacts
  <2> HIDE DEF t, NoResult
  <2> QED BY <1>2, <1>4, <2>1, <2>2
<1>6. Becomes(r, NoResult, os) BY <1>4
<1> HIDE DEF os, NoResult
<1> QED BY <1>2, <1>5, <1>6, BecomesFacts

LEMMA BindStep ==
  ASSUME IInv, NEW r \in Result, BindValue(r) \/ PrepareUnopened(r)
  PROVE  IInv'
<1>0. Good(db, res[r], r) /\ res[r] \in ResultType BY DEF IInv
<1>1. PICK t \in ResultType :
        /\ res' = [res EXCEPT ![r] = t] /\ Good(db, t, r) /\ t.kind = res[r].kind
  <2>1. CASE BindValue(r)
    <3>1. PICK g \in Value \cup {Surplus} :
            res' = [res EXCEPT ![r].given = IF @ = Surplus THEN @ ELSE g]
      BY <2>1 DEF BindValue
    <3> DEFINE x == IF res[r].given = Surplus THEN res[r].given ELSE g
               t == [res[r] EXCEPT !.given = x]
    <3>2. x \in Value \cup {None, Surplus} BY <1>0 DEF ResultType
    <3> HIDE DEF x
    <3>3. Good(db, t, r) /\ t.kind = res[r].kind BY <1>0, <3>2, GivenFacts
    <3>4. res' = [res EXCEPT ![r] = t] BY <3>1 DEF x
    <3> QED BY <3>3, <3>4 DEF Good
  <2>2. CASE PrepareUnopened(r)
    <3> DEFINE t == [res[r] EXCEPT !.mode = "inactive", !.pos = Before]
    <3>1. /\ t \in ResultType /\ t.mode = "inactive" /\ t.pos = Before /\ t.at = res[r].at
          /\ t.kind = res[r].kind /\ t.skip = res[r].skip /\ t.held = res[r].held
      BY <1>0, Places DEF ResultType
    <3>2. res' = [res EXCEPT ![r] = t] BY <2>2 DEF PrepareUnopened
    <3>3. res[r].kind = None BY <2>2 DEF IInv, PrepareUnopened
    <3>4. t.at = 0
      <4>1. res[r].at \in Nat BY <1>0 DEF ResultType
      <4> QED BY <1>0, <3>1, <3>3, <4>1 DEF Good, Standing
    <3> HIDE DEF t
    <3>5. Good(db, t, r)
      BY <1>0, <3>1, <3>4, Places DEF Good, Counted, Placed, Standing, AtEnd, Held, HasParameter
    <3> QED BY <3>1, <3>2, <3>5
  <2> QED BY <2>1, <2>2
<1>2. UNCHANGED <<isOpen, db, subs, hooked, notes>> BY DEF BindValue, PrepareUnopened
<1>3. res' \in [Result -> ResultType] /\ res'[r] = t BY <1>1 DEF IInv
<1>4. \A q \in Result : q # r => res'[q] = res[q] BY <1>1 DEF IInv
<1>5. \A q \in Result : Good(db, res'[q], q) /\ (isOpen \/ res'[q].kind = None)
  BY <1>1, <1>3, <1>4 DEF IInv
<1> QED BY <1>2, <1>3, <1>5 DEF IInv

LEMMA LeaveStep ==
  ASSUME IInv, Leave, isOpen' \in BOOLEAN
  PROVE  IInv'
<1>1. PICK disk \in Closed(db) : db' = Fresh(disk) BY DEF Leave
<1>2. disk \in Seq(Value) BY DEF IInv, Closed, ConnectionType
<1>3. db' \in ConnectionType /\ Settled(db') /\ db'.writers = {}
  BY <1>1, <1>2 DEF Fresh, ConnectionType, Settled
<1>4. ASSUME NEW r \in Result
      PROVE  res'[r] \in ResultType /\ Good(db', res'[r], r) /\ res'[r].kind = None
  <2>1. res'[r] = Finalized(res[r]) BY DEF Leave
  <2>2. Good(db, res[r], r) /\ res[r] \in ResultType BY DEF IInv
  <2> DEFINE s == res[r]  t == Finalized(s)
  <2>3. /\ t \in ResultType /\ t.at = 0 /\ t.kind = None /\ t.pos = s.pos /\ t.skip = s.skip
        /\ t.held = s.held /\ t.cache = s.cache /\ t.ended = s.ended /\ t.mode = s.mode
    BY <2>2, FinalizedFacts
  <2> HIDE DEF t
  <2>4. Good(db', t, r)
    BY <1>3, <2>2, <2>3, SqlDriverAssumption
       DEF Good, Counted, Placed, Standing, AtEnd, Held, HasParameter, Kind, Writes
  <2> QED BY <2>1, <2>3, <2>4 DEF t
<1>5. res' \in [Result -> ResultType]
  <2>1. res' = [r \in Result |-> Finalized(res[r])] BY DEF Leave
  <2>2. \A r \in Result : Finalized(res[r]) \in ResultType BY <1>4, <2>1
  <2> QED BY <2>1, <2>2
<1> QED BY <1>3, <1>4, <1>5 DEF IInv, Leave, NoneSubscribed

LEMMA DriverStep ==
  ASSUME IInv, Open \/ Close \/ Transaction \/ Subscribe \/ Unsubscribe \/ HandleNotification
  PROVE  IInv'
<1>1. CASE Leave /\ isOpen' \in BOOLEAN BY <1>1, LeaveStep
<1>2. CASE Open
  <2>1. CASE isOpen BY <1>1, <1>2, <2>1 DEF Open
  <2>2. CASE ~ isOpen BY <1>2, <2>2 DEF Open, IInv
  <2> QED BY <2>1, <2>2
<1>3. CASE Close BY <1>1, <1>3 DEF Close
<1>4. CASE Transaction
  <2>1. PICK o \in Begun(db) \cup Committed(db) \cup RolledBack(db) : db' = o.c
    BY <1>4 DEF Transaction
  <2>2. /\ o.c \in ConnectionType /\ Settled(o.c) /\ o.c.writers = db.writers
    <3>1. db \in ConnectionType /\ Settled(db) BY DEF IInv
    <3>2. o.c \in {db, [db EXCEPT !.auto = FALSE], Kept(db), Undone(db)}
      BY DEF Begun, Committed, RolledBack
    <3>3. CASE o.c = db BY <3>1, <3>3
    <3>4. CASE o.c = [db EXCEPT !.auto = FALSE] BY <3>4, <3>1 DEF ConnectionType, Settled
    <3>5. CASE o.c = Kept(db) BY <3>1, <3>5 DEF Kept, ConnectionType, Settled
    <3>6. CASE o.c = Undone(db) BY <3>1, <3>6 DEF Undone, ConnectionType, Settled
    <3> QED BY <3>2, <3>3, <3>4, <3>5, <3>6
  <2>3. \A r \in Result : Good(db', res[r], r)
    BY <2>1, <2>2 DEF IInv, Good, Counted
  <2>4. UNCHANGED <<isOpen, res, subs, hooked, notes>> BY <1>4 DEF Transaction
  <2> QED BY <2>1, <2>2, <2>3, <2>4 DEF IInv
<1>5. CASE Subscribe BY <1>5 DEF Subscribe, IInv
<1>6. CASE Unsubscribe BY <1>6 DEF Unsubscribe, IInv
<1>7. CASE HandleNotification
  BY <1>7, SqlDriverAssumption DEF HandleNotification, IInv
<1> QED BY <1>2, <1>3, <1>4, <1>5, <1>6, <1>7

LEMMA NextStep == IInv /\ [Next]_vars => IInv'
<1> SUFFICES ASSUME IInv, [Next]_vars PROVE IInv' OBVIOUS
<1>1. CASE UNCHANGED vars
  BY <1>1 DEF IInv, vars, Good, Settled, Counted
<1>2. CASE Open \/ Close \/ Transaction \/ Subscribe \/ Unsubscribe \/ HandleNotification
  BY <1>2, DriverStep
<1>3. ASSUME NEW r \in Result, Next_(r) \/ Previous(r) PROVE IInv'
  <2>1. Good(db, res[r], r) /\ res[r] \in ResultType /\ res[r].mode = "select"
    BY <1>3 DEF IInv, Next_, Previous
  <2>2. CASE Next_(r)
    <3>1. Becomes(r, res[r], NextRow(db, res[r], r)) BY <2>2 DEF Next_
    <3> QED BY <2>1, <3>1, NextRowFacts, AllowedStep
  <2>3. CASE Previous(r)
    <3>1. Becomes(r, res[r], PreviousRow(db, res[r], r)) BY <2>3 DEF Previous
    <3> QED BY <2>1, <3>1, PreviousRowFacts, AllowedStep
  <2> QED BY <1>3, <2>2, <2>3
<1>4. ASSUME NEW r \in Result,
             Prepare(r) \/ PrepareUnopened(r) \/ BindValue(r) \/ Exec(r) \/ ExecBatch(r)
             \/ Finish(r) \/ Destroy(r)
      PROVE  IInv'
  BY <1>4, PrepareStep, BindStep, ExecStep, FinishStep
<1> QED BY <1>1, <1>2, <1>3, <1>4 DEF Next

LEMMA DriverInvariant == Spec => []IInv
  BY InitStep, NextStep, PTL DEF Spec

\* For every number of results and rows: the types, every result is at a row its cache holds,
\* and the statements that have begun to write are those that stand on a row of
\* INSERT ... RETURNING.
THEOREM DriverTypeCorrect == Spec => []TypeOK
<1>1. ASSUME IInv PROVE TypeOK
  <2>1. db.writers = {r \in Result : res[r].kind = "returning" /\ res[r].at > 0}
    <3>1. db.writers \subseteq Result BY <1>1 DEF IInv, ConnectionType
    <3> QED BY <1>1, <3>1 DEF IInv, Good, Counted
  <2> QED BY <1>1, <2>1 DEF IInv, TypeOK, Good
<1> QED BY <1>1, DriverInvariant, PTL

\* For every number of results and rows: no commit is held back by a result that an
\* application sees as inactive or as read to its end.
THEOREM DriverHoldsNothingBack == Spec => []NothingHeldBack
<1>1. ASSUME IInv PROVE NothingHeldBack
  <2> SUFFICES ASSUME db.auto, \A r \in Result : Idle(r) PROVE db.now = db.saved
    BY DEF NothingHeldBack
  <2>1. ASSUME NEW r \in db.writers PROVE FALSE
    <3>1. r \in Result BY <1>1 DEF IInv, ConnectionType
    <3>2. Good(db, res[r], r) /\ Idle(r) BY <1>1, <3>1 DEF IInv
    <3> QED BY <3>2 DEF Good, Counted, Standing, Idle
  <2> QED BY <1>1, <2>1 DEF IInv, Settled
<1> QED BY <1>1, DriverInvariant, PTL

-----------------------------------------------------------------------------------
(* What is read, what is inserted and what is notified of. *)

\* Nothing that is on disk is missing from what the connection sees.
Shorter(c) == Len(c.saved) <= Len(c.now)

\* A SELECT that can be read further stands on the last row in the cache, or on the first,
\* which is held.
InOrder(s) ==
  /\ \A i \in 1 .. Len(s.cache) : s.cache[i] = i
  /\ s.mode = "select" /\ ~ s.ended /\ ~ s.skip => s.at = Len(s.cache)
  /\ s.mode = "select" /\ ~ s.ended /\ s.skip => s.cache = << >> /\ s.held <= 1

Readable(s) ==
  /\ s.kind = "select" => InOrder(s)
  /\ s.mode = "select" => s.kind # "insert"
  /\ s.mode = "select" /\ s.kind # None /\ s.skip => s.at = s.held

\* The next read would execute the INSERT: exec() has failed before it did.
Unspent(s) ==
  s.kind = "returning" /\ s.mode = "select" /\ ~ s.ended /\ ~ s.skip /\ s.at = 0

Once(s) ==
  /\ s.ok => s.made = s.want
  /\ s.made # s.want => Len(s.made) <= 1
  /\ Unspent(s) => ~ s.ok /\ s.made = << >>

Faithful(s) == Readable(s) /\ Once(s)

\* The table grows by no more than what an operation inserts.
Grows(c, s, o) == Len(o.c.now) + Len(s.made) <= Len(c.now) + Len(o.s.made)

Keeps(c, s, o) == Shorter(o.c) /\ Faithful(o.s) /\ Grows(c, s, o)

LEMMA Lengths ==
  /\ \A c \in ConnectionType : Len(c.now) \in Nat /\ Len(c.saved) \in Nat
  /\ \A s \in ResultType : Len(s.made) \in Nat /\ Len(s.cache) \in Nat
  BY DEF ConnectionType, ResultType

LEMMA EmptyLength == Len(<< >>) = 0 /\ \A S : << >> \in Seq(S)
OBVIOUS

LEMMA Joined ==
  ASSUME NEW S, NEW a \in Seq(S)
  PROVE  /\ a \o << >> = a
         /\ \A x \in S : a \o <<x>> = Append(a, x) /\ Len(Append(a, x)) = Len(a) + 1
OBVIOUS

\* Two operations in a row.
LEMMA GrowsTwice ==
  ASSUME NEW c \in ConnectionType, NEW s \in ResultType,
         NEW f, f.c \in ConnectionType, f.s \in ResultType, Grows(c, s, f),
         NEW t, t.made = f.s.made,
         NEW u, u.c \in ConnectionType, u.s \in ResultType, Grows(f.c, t, u)
  PROVE  Grows(c, s, u)
<1>1. PICK x1 \in Nat, x2 \in Nat : x1 = Len(c.now) /\ x2 = Len(s.made) BY Lengths
<1>2. PICK x3 \in Nat, x4 \in Nat : x3 = Len(f.c.now) /\ x4 = Len(f.s.made) BY Lengths
<1>3. PICK x5 \in Nat, x6 \in Nat : x5 = Len(u.c.now) /\ x6 = Len(u.s.made) BY Lengths
<1>4. x3 + x2 <= x1 + x4 BY <1>1, <1>2 DEF Grows
<1>5. x5 + x4 <= x3 + x6 BY <1>2, <1>3 DEF Grows
<1>6. x5 + x2 <= x1 + x6 BY <1>4, <1>5
<1> QED BY <1>1, <1>3, <1>6 DEF Grows

LEMMA HaltedShorter ==
  ASSUME NEW c \in ConnectionType, Shorter(c), NEW w \in Result, NEW h \in Halted(c, w)
  PROVE  Shorter(h.c) /\ Len(h.c.now) <= Len(c.now)
<1> DEFINE left == [c EXCEPT !.writers = @ \ {w}]
<1>0. Len(c.now) \in Nat /\ Len(c.saved) \in Nat BY Lengths
<1>1. left \in ConnectionType /\ left.now = c.now /\ left.saved = c.saved
  BY DEF ConnectionType
<1>2. h.c = left \/ h.c = Kept(left) \/ h.c = Undone(left)
  BY DEF Halted
<1>3. CASE h.c = left BY <1>0, <1>1, <1>3 DEF Shorter
<1>4. CASE h.c = Kept(left)
  <2>1. h.c.now = c.now /\ h.c.saved = c.now BY <1>1, <1>4 DEF Kept, ConnectionType
  <2> QED BY <1>0, <2>1 DEF Shorter
<1>5. CASE h.c = Undone(left)
  <2>1. h.c.now = c.saved /\ h.c.saved = c.saved BY <1>1, <1>5 DEF Undone, ConnectionType
  <2> QED BY <1>0, <2>1 DEF Shorter
<1> QED BY <1>2, <1>3, <1>4, <1>5

LEMMA EndedShorter ==
  ASSUME NEW c \in ConnectionType, Shorter(c), NEW r \in Result, NEW h \in Ended(c, r)
  PROVE  Shorter(h.c) /\ Len(h.c.now) <= Len(c.now)
<1>0. Len(c.now) \in Nat BY Lengths
<1>1. CASE r \in c.writers BY <1>1, HaltedShorter DEF Ended
<1>2. CASE r \notin c.writers
  <2>1. h.c = c BY <1>2 DEF Ended
  <2> QED BY <1>0, <2>1
<1> QED BY <1>1, <1>2

\* What a step inserts, and which row it comes to.
LEMMA SteppedTraces ==
  ASSUME NEW c \in ConnectionType, Settled(c), Shorter(c), NEW r \in Result,
         NEW s \in ResultType, Counted(c, s, r), s.kind # None,
         Writes(s.kind) => s.bound \in Value,
         NEW st \in Stepped(c, s, r)
  PROVE  /\ Shorter(st.c) /\ Len(st.c.now) <= Len(c.now) + Len(st.new)
         /\ st.new = << >> \/ (Writes(s.kind) /\ s.at = 0 /\ st.new = <<s.bound>>)
         /\ Writes(s.kind) /\ s.at = 0 => st.error \/ st.new = <<s.bound>>
         /\ s.kind = "select" => st.at \in {0, s.at + 1}
         /\ s.kind = "returning" /\ s.at > 0 => st.at = 0
         /\ s.kind = "returning" /\ s.at = 0 => st.error \/ st.at > 0
<1> DEFINE more == [c EXCEPT !.now = Append(@, s.bound)]
<1> DEFINE End(h, new) == [at |-> 0, error |-> ~ h.ok, c |-> h.c, new |-> new]
<1>0. Len(c.now) \in Nat /\ Len(c.saved) \in Nat /\ s.at \in Nat BY Lengths DEF ResultType
<1>1. CASE s.kind = "select"
  <2>1. st.c = c /\ st.at \in {0, s.at + 1} /\ st.new = << >> BY <1>0, <1>1 DEF Stepped
  <2> QED BY <1>0, <1>1, <2>1, EmptyLength DEF Writes
<1>2. CASE s.kind # "select" /\ s.at > 0
  <2>1. PICK h \in Halted(c, r) : st = End(h, << >>) BY <1>2 DEF Stepped
  <2>2. st.c = h.c /\ st.new = << >> /\ st.at = 0 BY <2>1
  <2>3. Shorter(h.c) /\ Len(h.c.now) <= Len(c.now) BY HaltedShorter
  <2>4. Len(h.c.now) \in Nat BY HaltedFacts, Lengths
  <2> QED BY <1>0, <1>2, <2>2, <2>3, <2>4, EmptyLength
<1>3. CASE s.kind # "select" /\ ~ (s.at > 0)
  <2>0. s.kind \in {"insert", "returning"} /\ s.bound \in Value /\ s.at = 0
    BY <1>0, <1>3 DEF ResultType, Kind, Writes
  <2>1. /\ more \in ConnectionType /\ Shorter(more) /\ more.now = Append(c.now, s.bound)
        /\ more.saved = c.saved /\ Len(more.now) = Len(c.now) + 1
    <3>1. c.now \in Seq(Value) BY DEF ConnectionType
    <3>2. Append(c.now, s.bound) \in Seq(Value) /\ Len(Append(c.now, s.bound)) = Len(c.now) + 1
      BY <3>1, <2>0
    <3>3. more \in ConnectionType /\ more.now = Append(c.now, s.bound) /\ more.saved = c.saved
      BY <3>2 DEF ConnectionType
    <3> HIDE DEF more
    <3> QED BY <3>2, <3>3, <1>0 DEF Shorter
  <2>2. Len(<<s.bound>>) = 1 OBVIOUS
  <2>3. CASE st = [at |-> 0, error |-> TRUE, c |-> c, new |-> << >>]
    <3>1. st.at = 0 /\ st.c = c /\ st.new = << >> /\ st.error BY <2>3
    <3> QED BY <1>0, <1>3, <3>1, EmptyLength
  <2>4. CASE s.kind = "insert" /\ \E h \in Halted(more, r) : st = End(h, <<s.bound>>)
    <3>1. PICK h \in Halted(more, r) : st = End(h, <<s.bound>>) BY <2>4
    <3>2. st.c = h.c /\ st.new = <<s.bound>> BY <3>1
    <3>3. Shorter(h.c) /\ Len(h.c.now) <= Len(more.now) BY <2>1, HaltedShorter
    <3>4. Len(h.c.now) \in Nat BY <2>1, HaltedFacts, Lengths
    <3> HIDE DEF more
    <3> QED BY <1>0, <2>0, <2>1, <2>2, <2>4, <3>2, <3>3, <3>4 DEF Writes
  <2>5. CASE /\ s.kind = "returning"
             /\ st = [at |-> Len(more.now), error |-> FALSE,
                      c |-> [more EXCEPT !.writers = @ \cup {r}], new |-> <<s.bound>>]
    <3>1. /\ st.at = Len(more.now) /\ st.new = <<s.bound>>
          /\ st.c.now = more.now /\ st.c.saved = more.saved
      BY <2>1, <2>5 DEF ConnectionType
    <3> HIDE DEF more
    <3>2. Len(st.c.now) = Len(c.now) + 1 /\ Len(st.c.saved) = Len(c.saved)
      BY <2>1, <3>1
    <3>3. Shorter(st.c) BY <1>0, <3>2 DEF Shorter
    <3>4. Len(st.new) = 1 BY <2>2, <3>1
    <3>5. st.at > 0 BY <1>0, <2>1, <3>1
    <3>6. Len(st.c.now) <= Len(c.now) + Len(st.new) BY <1>0, <3>2, <3>4
    <3> QED BY <2>0, <2>5, <3>1, <3>3, <3>5, <3>6 DEF Writes
  <2> QED BY <1>3, <2>0, <2>3, <2>4, <2>5 DEF Stepped
<1> QED BY <1>0, <1>1, <1>2, <1>3

LEMMA FetchHistory ==
  ASSUME NEW c, NEW s \in ResultType, NEW r, NEW initial, NEW f \in Fetch(c, s, r, initial)
  PROVE  f.s.want = s.want /\ f.s.ok = s.ok
<1>1. CASE s.kind = None
  <2> DEFINE t == [s EXCEPT !.skip = initial, !.pos = After]
  <2>1. f.s = t BY <1>1 DEF Fetch
  <2>2. t.want = s.want /\ t.ok = s.ok BY DEF ResultType
  <2> HIDE DEF t
  <2> QED BY <2>1, <2>2
<1>2. CASE s.kind # None
  <2> DEFINE To(st) == [s EXCEPT !.skip = initial, !.at = st.at,
                                 !.held = IF initial THEN st.at ELSE @,
                                 !.pos = IF st.at = 0 THEN After ELSE @,
                                 !.made = @ \o st.new]
  <2>1. PICK st \in Stepped(c, s, r) :
          f = [row |-> st.at, error |-> st.error, c |-> st.c, s |-> To(st)]
    BY <1>2 DEF Fetch
  <2>3. f.s = To(st) BY <2>1
  <2>2. To(st).want = s.want /\ To(st).ok = s.ok BY DEF ResultType
  <2> HIDE DEF To
  <2> QED BY <2>2, <2>3
<1> QED BY <1>1, <1>2

\* What a fetch inserts, and which row it gives.
Fetched(c, s, f) ==
  /\ Shorter(f.c) /\ Len(f.c.now) + Len(s.made) <= Len(c.now) + Len(f.s.made)
  /\ \/ f.s.made = s.made
     \/ Writes(s.kind) /\ s.at = 0 /\ f.s.made = Append(s.made, s.bound)
  /\ Writes(s.kind) /\ s.at = 0 => f.error \/ f.s.made = Append(s.made, s.bound)
  /\ s.kind = "select" => f.row \in {0, s.at + 1}
  /\ s.kind = "returning" /\ s.at > 0 => f.row = 0
  /\ s.kind = "returning" /\ s.at = 0 => f.error \/ f.row > 0

LEMMA FetchTraces ==
  ASSUME NEW c \in ConnectionType, Settled(c), Shorter(c), NEW r \in Result,
         NEW s \in ResultType, Counted(c, s, r), s.kind = None => s.at = 0,
         Writes(s.kind) => s.bound \in Value,
         NEW initial \in BOOLEAN, NEW f \in Fetch(c, s, r, initial)
  PROVE  Fetched(c, s, f)
<1> USE DEF Fetched
<1>0. Len(c.now) \in Nat /\ Len(s.made) \in Nat /\ s.made \in Seq(Value)
  BY Lengths DEF ResultType
<1>1. CASE s.kind = None
  <2> DEFINE t == [s EXCEPT !.skip = initial, !.pos = After]
  <2>1. f = [row |-> 0, error |-> TRUE, c |-> c, s |-> t] BY <1>1 DEF Fetch
  <2>2. t.made = s.made BY DEF ResultType
  <2>3. f.row = 0 /\ f.c = c /\ f.s = t /\ f.error BY <2>1
  <2> HIDE DEF t
  <2> QED BY <1>0, <1>1, <2>2, <2>3
<1>2. CASE s.kind # None
  <2>1. PICK st \in Stepped(c, s, r) :
          f = [row |-> st.at, error |-> st.error, c |-> st.c,
               s |-> [s EXCEPT !.skip = initial, !.at = st.at,
                               !.held = IF initial THEN st.at ELSE @,
                               !.pos = IF st.at = 0 THEN After ELSE @,
                               !.made = @ \o st.new]]
    BY <1>2 DEF Fetch
  <2> DEFINE t == [s EXCEPT !.skip = initial, !.at = st.at,
                            !.held = IF initial THEN st.at ELSE @,
                            !.pos = IF st.at = 0 THEN After ELSE @,
                            !.made = @ \o st.new]
  <2>2. t.made = s.made \o st.new BY DEF ResultType
  <2>3. f.row = st.at /\ f.error = st.error /\ f.c = st.c /\ f.s = t BY <2>1 DEF t
  <2> HIDE DEF t
  <2>4. /\ Shorter(st.c) /\ Len(st.c.now) <= Len(c.now) + Len(st.new)
        /\ st.new = << >> \/ (Writes(s.kind) /\ s.at = 0 /\ st.new = <<s.bound>>)
        /\ Writes(s.kind) /\ s.at = 0 => st.error \/ st.new = <<s.bound>>
        /\ s.kind = "select" => st.at \in {0, s.at + 1}
        /\ s.kind = "returning" /\ s.at > 0 => st.at = 0
        /\ s.kind = "returning" /\ s.at = 0 => st.error \/ st.at > 0
    BY <1>2, SteppedTraces
  <2>5. Len(st.c.now) \in Nat
    <3>1. st.c \in ConnectionType BY <1>2, SteppedFacts
    <3> QED BY <3>1, Lengths
  <2>6. st.new = << >> => t.made = s.made /\ Len(st.new) = 0 BY <1>0, <2>2, Joined, EmptyLength
  <2>7. Writes(s.kind) /\ st.new = <<s.bound>> =>
          /\ t.made = Append(s.made, s.bound)
          /\ Len(st.new) = 1 /\ Len(t.made) = Len(s.made) + 1
    <3>1. ASSUME Writes(s.kind)
          PROVE  /\ s.made \o <<s.bound>> = Append(s.made, s.bound)
                 /\ Len(Append(s.made, s.bound)) = Len(s.made) + 1
      <4>1. s.bound \in Value BY <3>1
      <4> QED BY <4>1, <1>0, Joined
    <3>2. Len(<<s.bound>>) = 1 OBVIOUS
    <3> QED BY <2>2, <3>1, <3>2
  <2>8. Len(st.c.now) + Len(s.made) <= Len(c.now) + Len(t.made)
    <3>0. Len(st.c.now) <= Len(c.now) + Len(st.new) BY <2>4
    <3>1. CASE st.new = << >>
      <4>1. Len(t.made) = Len(s.made) /\ Len(st.new) = 0 BY <2>6, <3>1
      <4> QED BY <1>0, <2>5, <3>0, <4>1
    <3>2. CASE Writes(s.kind) /\ st.new = <<s.bound>>
      <4>1. Len(t.made) = Len(s.made) + 1 /\ Len(st.new) = 1 BY <2>7, <3>2
      <4>2. \A a, b, m \in Nat : a <= b + 1 => a + m <= b + (m + 1) OBVIOUS
      <4>3. Len(st.c.now) <= Len(c.now) + 1 BY <3>0, <4>1
      <4> QED BY <1>0, <2>5, <4>1, <4>2, <4>3
    <3> QED BY <2>4, <3>1, <3>2
  <2>9. \/ t.made = s.made
        \/ Writes(s.kind) /\ s.at = 0 /\ t.made = Append(s.made, s.bound)
    BY <2>4, <2>6, <2>7
  <2>10. Writes(s.kind) /\ s.at = 0 => st.error \/ t.made = Append(s.made, s.bound)
    BY <2>4, <2>7
  <2> QED BY <2>2, <2>3, <2>4, <2>8, <2>9, <2>10
<1> QED BY <1>1, <1>2

\* pos and given do not matter to what is kept.
LEMMA SameTraces ==
  ASSUME NEW s, NEW t, Faithful(s),
         t.kind = s.kind, t.mode = s.mode, t.at = s.at, t.skip = s.skip, t.held = s.held,
         t.cache = s.cache, t.ended = s.ended, t.want = s.want, t.made = s.made, t.ok = s.ok
  PROVE  Faithful(t)
BY DEF Faithful, Readable, InOrder, Once, Unspent

LEMMA Unchanged ==
  ASSUME NEW c \in ConnectionType, NEW s \in ResultType, NEW o, o.c = c, o.s.made = s.made
  PROVE  Grows(c, s, o)
<1>1. Len(c.now) \in Nat /\ Len(s.made) \in Nat BY Lengths
<1> QED BY <1>1 DEF Grows

LEMMA CacheNextTraces ==
  ASSUME NEW c, NEW s, NEW r \in Result, Good(c, s, r), s.mode = "select",
         Shorter(c), Faithful(s), NEW o \in CacheNext(c, s, r)
  PROVE  Keeps(c, s, o)
<1>0. /\ c \in ConnectionType /\ Settled(c) /\ Counted(c, s, r) /\ s \in ResultType
      /\ Len(c.now) \in Nat /\ Len(s.made) \in Nat /\ Len(s.cache) \in Nat
      /\ s.at \in Nat /\ s.held \in Nat /\ s.cache \in Seq(Nat) /\ s.made \in Seq(Value)
      /\ s.ended \in BOOLEAN /\ s.skip \in BOOLEAN
  BY Lengths DEF Good, ResultType
<1>1. CASE s.ended
  <2>1. o.c = c /\ o.s = s BY <1>1 DEF CacheNext, Refused
  <2> QED BY <1>0, <2>1 DEF Keeps, Grows
<1>2. CASE ~ s.ended /\ s.skip
  <2> DEFINE t == [s EXCEPT !.skip = FALSE, !.held = 0]
  <2>1. /\ t \in ResultType /\ t.kind = s.kind /\ t.mode = s.mode /\ t.at = s.at
        /\ t.skip = FALSE /\ t.cache = s.cache /\ t.ended = s.ended /\ t.want = s.want
        /\ t.made = s.made /\ t.ok = s.ok
    BY <1>0 DEF ResultType
  <2>2. /\ o.c = c
        /\ o.s = IF s.held = 0 THEN [t EXCEPT !.ended = TRUE]
                 ELSE [t EXCEPT !.cache = Append(@, s.held), !.pos = @ + 1]
    <3> DEFINE To(f) == IF f.row = 0 THEN [f.s EXCEPT !.ended = TRUE]
                        ELSE [f.s EXCEPT !.cache = Append(@, f.row), !.pos = @ + 1]
    <3>1. PICK f \in FetchNext(c, s, r, FALSE) : o = [ok |-> f.row # 0, c |-> f.c, s |-> To(f)]
      BY <1>2 DEF CacheNext
    <3>2. f = [row |-> s.held, error |-> FALSE, c |-> c, s |-> t] BY <1>2, <3>1 DEF FetchNext
    <3> HIDE DEF t
    <3>3. f.row = s.held /\ f.c = c /\ f.s = t BY <3>2
    <3>4. o.c = f.c /\ o.s = To(f) BY <3>1
    <3> QED BY <3>3, <3>4
  <2> HIDE DEF t
  <2>3. CASE s.held = 0
    <3> DEFINE u == [t EXCEPT !.ended = TRUE]
    <3>1. /\ u.kind = s.kind /\ u.mode = s.mode /\ u.skip = FALSE /\ u.cache = s.cache
          /\ u.ended = TRUE /\ u.want = s.want /\ u.made = s.made /\ u.ok = s.ok
      BY <2>1 DEF ResultType
    <3>2. o.s = u BY <2>2, <2>3
    <3> HIDE DEF u
    <3>3. Faithful(u) BY <3>1 DEF Faithful, Readable, InOrder, Once, Unspent
    <3> QED BY <1>0, <2>2, <3>1, <3>2, <3>3, Unchanged DEF Keeps
  <2>4. CASE s.held # 0
    <3> DEFINE u == [t EXCEPT !.cache = Append(@, s.held), !.pos = @ + 1]
    <3>1. /\ u.kind = s.kind /\ u.mode = s.mode /\ u.skip = FALSE /\ u.at = s.at
          /\ u.cache = Append(s.cache, s.held)
          /\ u.ended = s.ended /\ u.want = s.want /\ u.made = s.made /\ u.ok = s.ok
      BY <2>1 DEF ResultType
    <3>2. o.s = u BY <2>2, <2>4
    <3> HIDE DEF u
    <3>3. ASSUME s.kind = "select" PROVE InOrder(u)
      <4>1. s.cache = << >> /\ s.held = 1 /\ s.at = 1
        BY <1>0, <1>2, <2>4, <3>3, SqlDriverAssumption DEF Faithful, Readable, InOrder, Kind
      <4>2. Len(u.cache) = 1 /\ u.cache[1] = 1 BY <3>1, <4>1
      <4> QED BY <3>1, <4>1, <4>2 DEF InOrder
    <3>4. s.kind = "returning" => s.at # 0
      BY <1>2, <2>4, SqlDriverAssumption DEF Faithful, Readable, Kind
    <3>5. Readable(u) BY <3>1, <3>3 DEF Faithful, Readable
    <3>6. Once(u) BY <3>1, <3>4 DEF Faithful, Once, Unspent
    <3> QED BY <1>0, <2>2, <3>1, <3>2, <3>5, <3>6, Unchanged DEF Keeps, Faithful
  <2> QED BY <2>3, <2>4
<1>3. CASE ~ s.ended /\ ~ s.skip
  <2> DEFINE To(f) == IF f.row = 0 THEN [f.s EXCEPT !.ended = TRUE]
                      ELSE [f.s EXCEPT !.cache = Append(@, f.row), !.pos = @ + 1]
  <2>1. PICK f \in Fetch(c, s, r, FALSE) : o = [ok |-> f.row # 0, c |-> f.c, s |-> To(f)]
    BY <1>3 DEF CacheNext, FetchNext
  <2>2. /\ s.kind = None => s.at = 0
        /\ Writes(s.kind) => s.bound \in Value
    BY <1>0 DEF Good, Standing, HasParameter
  <2>3. PICK initial \in BOOLEAN : ~ initial /\ f \in Fetch(c, s, r, initial)
    <3> HIDE DEF To
    <3> QED BY <2>1, Zenon
  <2>4. /\ f.c \in ConnectionType /\ f.s \in ResultType
        /\ f.row \in Nat /\ f.row = f.s.at /\ f.error \in BOOLEAN
        /\ f.s.skip = initial
        /\ f.s.kind = s.kind /\ f.s.mode = s.mode /\ f.s.cache = s.cache
        /\ f.s.ended = s.ended
        /\ s.kind \in {None, "insert"} \/ f.error => f.row = 0
    BY <1>0, <2>2, <2>3, FetchFacts
  <2>5. /\ f.s.want = s.want /\ f.s.ok = s.ok
        /\ Shorter(f.c) /\ Len(f.c.now) + Len(s.made) <= Len(c.now) + Len(f.s.made)
        /\ \/ f.s.made = s.made
           \/ Writes(s.kind) /\ s.at = 0 /\ f.s.made = Append(s.made, s.bound)
        /\ s.kind = "select" => f.row \in {0, s.at + 1}
        /\ s.kind = "returning" /\ s.at > 0 => f.row = 0
    <3>1. f.s.want = s.want /\ f.s.ok = s.ok BY <1>0, <2>3, FetchHistory
    <3>2. Fetched(c, s, f) BY <1>0, <2>2, <2>3, FetchTraces
    <3> QED BY <3>1, <3>2 DEF Fetched
  <2>6. /\ f.s.ok => f.s.made = f.s.want
        /\ f.s.made # f.s.want => Len(f.s.made) <= 1
    <3>1. CASE f.s.made = s.made BY <2>5, <3>1 DEF Faithful, Once
    <3>2. CASE Writes(s.kind) /\ s.at = 0 /\ f.s.made = Append(s.made, s.bound)
      <4>1. s.kind = "returning" BY <3>2 DEF Writes, Faithful, Readable
      <4>2. ~ s.ok /\ s.made = << >> BY <1>3, <3>2, <4>1 DEF Faithful, Once, Unspent
      <4>3. Len(Append(<< >>, s.bound)) = 1 OBVIOUS
      <4> QED BY <2>5, <3>2, <4>2, <4>3
    <3> QED BY <2>5, <3>1, <3>2
  <2>7. CASE f.row = 0
    <3> DEFINE u == [f.s EXCEPT !.ended = TRUE]
    <3>1. /\ u.kind = s.kind /\ u.mode = s.mode /\ u.skip = FALSE /\ u.cache = s.cache
          /\ u.ended = TRUE /\ u.want = f.s.want /\ u.made = f.s.made /\ u.ok = f.s.ok
      BY <2>3, <2>4 DEF ResultType
    <3>2. o.c = f.c /\ o.s = u BY <2>1, <2>7
    <3> HIDE DEF u
    <3>3. Readable(u) BY <3>1 DEF Faithful, Readable, InOrder
    <3>4. Once(u) BY <2>6, <3>1 DEF Once, Unspent
    <3> QED BY <2>5, <3>1, <3>2, <3>3, <3>4 DEF Keeps, Grows, Faithful
  <2>8. CASE f.row # 0
    <3> DEFINE u == [f.s EXCEPT !.cache = Append(@, f.row), !.pos = @ + 1]
    <3>1. /\ u.kind = s.kind /\ u.mode = s.mode /\ u.skip = FALSE /\ u.at = f.row
          /\ u.cache = Append(s.cache, f.row) /\ u.ended = s.ended
          /\ u.want = f.s.want /\ u.made = f.s.made /\ u.ok = f.s.ok
      BY <2>3, <2>4 DEF ResultType
    <3>2. o.c = f.c /\ o.s = u BY <2>1, <2>8
    <3> HIDE DEF u
    <3>3. ASSUME s.kind = "select" PROVE InOrder(u)
      <4>1. f.row = Len(s.cache) + 1
        BY <1>3, <2>5, <2>8, <3>3 DEF Faithful, Readable, InOrder
      <4>2. /\ Len(u.cache) = Len(s.cache) + 1
            /\ u.cache[Len(s.cache) + 1] = f.row
            /\ \A i \in 1 .. Len(s.cache) : u.cache[i] = s.cache[i]
        BY <1>0, <2>4, <3>1
      <4>3. \A i \in 1 .. Len(s.cache) : s.cache[i] = i
        BY <3>3 DEF Faithful, Readable, InOrder
      <4> QED BY <1>0, <3>1, <4>1, <4>2, <4>3 DEF InOrder
    <3>4. Readable(u) BY <3>1, <3>3 DEF Faithful, Readable
    <3>5. Once(u) BY <2>6, <2>8, <3>1 DEF Once, Unspent
    <3> QED BY <2>5, <3>1, <3>2, <3>4, <3>5 DEF Keeps, Grows, Faithful
  <2> QED BY <2>7, <2>8
<1> QED BY <1>0, <1>1, <1>2, <1>3

\* next() and previous() read through the cache, or move in it.
LEMMA MovedTraces ==
  ASSUME NEW c, NEW s, Shorter(c), Faithful(s), s \in ResultType, c \in ConnectionType, NEW o,
         NEW to, o.c = c, o.s = [s EXCEPT !.pos = to]
  PROVE  Keeps(c, s, o)
<1> DEFINE t == [s EXCEPT !.pos = to]
<1>1. /\ t.kind = s.kind /\ t.mode = s.mode /\ t.at = s.at /\ t.skip = s.skip
      /\ t.held = s.held /\ t.cache = s.cache /\ t.ended = s.ended /\ t.want = s.want
      /\ t.made = s.made /\ t.ok = s.ok
  BY DEF ResultType
<1> HIDE DEF t
<1>2. o.s = t BY DEF t
<1>3. Faithful(t) BY <1>1, SameTraces
<1>4. Len(c.now) \in Nat /\ Len(s.made) \in Nat BY Lengths
<1> QED BY <1>1, <1>2, <1>3, <1>4 DEF Keeps, Grows

LEMMA NextRowTraces ==
  ASSUME NEW c, NEW s, NEW r \in Result, Good(c, s, r), s.mode = "select",
         Shorter(c), Faithful(s), NEW o \in NextRow(c, s, r)
  PROVE  Keeps(c, s, o)
<1>0. s \in ResultType /\ c \in ConnectionType BY DEF Good
<1>1. CASE o.c = c /\ o.s = s
  <2>1. Len(c.now) \in Nat /\ Len(s.made) \in Nat BY <1>0, Lengths
  <2> QED BY <1>1, <2>1 DEF Keeps, Grows
<1>2. CASE \E to : o.c = c /\ o.s = [s EXCEPT !.pos = to]
  BY <1>0, <1>2, MovedTraces
<1>3. CASE \E n \in CacheNext(c, s, r) : o = n \/ o = Left(n, [n.s EXCEPT !.pos = After])
  <2>1. PICK n \in CacheNext(c, s, r) : o = n \/ o = Left(n, [n.s EXCEPT !.pos = After])
    BY <1>3
  <2>2. Keeps(c, s, n) BY CacheNextTraces
  <2>3. n.s \in ResultType /\ n.c \in ConnectionType
    BY CacheNextFacts DEF Allowed, Good
  <2>4. CASE o = Left(n, [n.s EXCEPT !.pos = After])
    <3> DEFINE t == [n.s EXCEPT !.pos = After]
    <3>1. o.c = n.c /\ o.s = t BY <2>4 DEF Left
    <3>2. Keeps(n.c, n.s, o) BY <2>2, <2>3, <3>1, MovedTraces DEF Keeps
    <3>3. t.made = n.s.made BY <2>3 DEF ResultType
    <3> HIDE DEF t
    <3> QED BY <2>2, <3>1, <3>2, <3>3 DEF Keeps, Grows
  <2> QED BY <2>1, <2>2, <2>4
<1> DEFINE to == IF s.pos = Before THEN 0 ELSE s.pos + 1
<1>4. CASE s.pos = After BY <1>1, <1>4 DEF NextRow, Refused
<1>5. CASE s.pos # After /\ to < Len(s.cache) BY <1>2, <1>5 DEF NextRow
<1>6. CASE s.pos # After /\ ~ (to < Len(s.cache)) BY <1>3, <1>6 DEF NextRow
<1> QED BY <1>4, <1>5, <1>6

LEMMA PreviousRowTraces ==
  ASSUME NEW c, NEW s, NEW r \in Result, Good(c, s, r), s.mode = "select",
         Shorter(c), Faithful(s), NEW o \in PreviousRow(c, s, r)
  PROVE  Keeps(c, s, o)
<1>0. s \in ResultType /\ c \in ConnectionType BY DEF Good
<1>1. CASE o.c = c /\ o.s = s
  <2>1. Len(c.now) \in Nat /\ Len(s.made) \in Nat BY <1>0, Lengths
  <2> QED BY <1>1, <2>1 DEF Keeps, Grows
<1>2. CASE \E to : o.c = c /\ o.s = [s EXCEPT !.pos = to]
  BY <1>0, <1>2, MovedTraces
<1>3. CASE o \in CacheNext(c, s, r) BY <1>3, CacheNextTraces
<1>4. CASE s.pos = Before BY <1>1, <1>4 DEF PreviousRow, Refused
<1>5. CASE s.pos # Before /\ s.pos # After BY <1>2, <1>5 DEF PreviousRow
<1>6. CASE s.pos # Before /\ s.pos = After /\ ~ s.ended BY <1>3, <1>6 DEF PreviousRow
<1>7. CASE s.pos # Before /\ s.pos = After /\ s.ended
  <2>1. CASE Len(s.cache) - 1 < 0 BY <1>1, <1>7, <2>1 DEF PreviousRow, Refused
  <2>2. CASE ~ (Len(s.cache) - 1 < 0) BY <1>2, <1>7, <2>2 DEF PreviousRow
  <2> QED BY <2>1, <2>2
<1> QED BY <1>4, <1>5, <1>6, <1>7

\* What exec() of what is given does: it inserts it once, or fails before or after that.
Executes(c, s, o) ==
  /\ Shorter(o.c) /\ Grows(c, s, o)
  /\ o.s.want = s.want /\ o.s.ok = s.ok /\ o.s.kind \in {s.kind, None}
  /\ o.s.made = s.made \/ (Writes(s.kind) /\ o.s.made = Append(s.made, s.given))
  /\ o.ok => /\ o.s.kind = s.kind
             /\ o.s.made = IF Writes(s.kind) THEN Append(s.made, s.given) ELSE s.made
  /\ Readable(o.s)
  /\ Unspent(o.s) => ~ o.ok /\ o.s.made = s.made /\ s.given \notin Value

LEMMA StartedTraces ==
  ASSUME NEW c \in ConnectionType, Settled(c), Shorter(c), NEW r \in Result, r \notin c.writers,
         NEW s \in ResultType, Blank(s), s.bound = s.given,
         Writes(s.kind) => s.bound \in Value,
         NEW o \in Started(c, s, r)
  PROVE  Executes(c, s, o)
<1> DEFINE Mode(f) == IF f.error THEN "inactive"
                      ELSE IF Columns(s.kind) THEN "select" ELSE "active"
<1>1. PICK initial, f :
        /\ initial \in BOOLEAN /\ initial /\ f \in Fetch(c, s, r, initial)
        /\ o = [ok |-> ~ f.error, c |-> f.c, s |-> [f.s EXCEPT !.mode = Mode(f)]]
  <2>1. PICK f \in Fetch(c, s, r, TRUE) :
          o = [ok |-> ~ f.error, c |-> f.c, s |-> [f.s EXCEPT !.mode = Mode(f)]]
    BY DEF Started, FetchNext, Blank
  <2> HIDE DEF Mode
  <2> QED BY <2>1, Zenon
<1>2. Counted(c, s, r) /\ s.at = 0 /\ (s.kind = None => s.at = 0) BY DEF Counted, Blank
<1>3. initial \in BOOLEAN /\ f \in Fetch(c, s, r, initial) BY <1>1
<1>4. /\ f.s \in ResultType /\ f.row \in Nat /\ f.row = f.s.at /\ f.error \in BOOLEAN
      /\ f.s.skip = initial
      /\ f.s.held = (IF initial /\ s.kind # None THEN f.row ELSE s.held)
      /\ f.s.kind = s.kind /\ f.s.cache = s.cache /\ f.s.ended = s.ended
      /\ s.kind \in {None, "insert"} \/ f.error => f.row = 0
  BY <1>2, <1>3, FetchFacts
<1>5. /\ f.s.want = s.want /\ f.s.ok = s.ok
      /\ Shorter(f.c) /\ Len(f.c.now) + Len(s.made) <= Len(c.now) + Len(f.s.made)
      /\ f.s.made = s.made \/ (Writes(s.kind) /\ f.s.made = Append(s.made, s.bound))
      /\ Writes(s.kind) => f.error \/ f.s.made = Append(s.made, s.bound)
      /\ s.kind = "select" => f.row \in {0, s.at + 1}
  <2>1. f.s.want = s.want /\ f.s.ok = s.ok BY <1>3, FetchHistory
  <2>2. Fetched(c, s, f) BY <1>2, <1>3, FetchTraces
  <2> QED BY <1>2, <2>1, <2>2 DEF Fetched
<1> DEFINE t == [f.s EXCEPT !.mode = Mode(f)]
<1>6. /\ t.at = f.row /\ t.skip = initial /\ t.held = f.s.held /\ t.kind = s.kind
      /\ t.mode = Mode(f) /\ t.cache = s.cache /\ t.want = s.want /\ t.ok = s.ok
      /\ t.made = f.s.made
  BY <1>4, <1>5 DEF ResultType
<1>7. o.c = f.c /\ o.s = t /\ o.ok = ~ f.error BY <1>1
<1> HIDE DEF t
<1>8. ~ Unspent(t) BY <1>1, <1>6 DEF Unspent
<1>9. ASSUME t.kind = "select" PROVE InOrder(t)
  <2>1. t.cache = << >> /\ t.skip /\ t.held <= 1
    BY <1>1, <1>2, <1>4, <1>5, <1>6, <1>9, SqlDriverAssumption DEF Blank, Kind
  <2>2. Len(t.cache) = 0 BY <2>1, EmptyLength
  <2> QED BY <2>1, <2>2 DEF InOrder
<1>10. Readable(t)
  <2>1. t.mode = "select" => t.kind # "insert" BY <1>4, <1>6 DEF Columns
  <2>2. t.kind # None => t.at = t.held BY <1>1, <1>4, <1>6
  <2> QED BY <1>9, <2>1, <2>2 DEF Readable
<1> HIDE DEF Mode
<1>11. Grows(c, s, o) BY <1>5, <1>6, <1>7 DEF Grows
<1>12. o.ok => o.s.made = IF Writes(s.kind) THEN Append(s.made, s.given) ELSE s.made
  BY <1>4, <1>5, <1>6, <1>7
<1> QED BY <1>5, <1>6, <1>7, <1>8, <1>10, <1>11, <1>12 DEF Executes

LEMMA ExecutedTraces ==
  ASSUME NEW c, NEW s0, NEW r \in Result, Good(c, s0, r), Shorter(c),
         s0.mode = "select" => s0.kind # "insert", NEW o \in Executed(c, s0, r)
  PROVE  Executes(c, s0, o)
<1> DEFINE s == [Emptied(s0) EXCEPT !.at = 0]
           b == [s EXCEPT !.bound = s.given]
<1>0. /\ c \in ConnectionType /\ Settled(c) /\ s0 \in ResultType
      /\ Len(c.now) \in Nat /\ Len(s0.made) \in Nat
  BY Lengths DEF Good
<1>1. PICK h \in Ended(c, r) :
        \/ o \in Refused(h.c, Finalized(s))
        \/ o \in Refused(h.c, s) /\ Params(s.kind) # Given(s)
        \/ o \in Refused(h.c, Finalized(s))
        \/ /\ Params(s.kind) = Given(s)
           /\ o \in UNION {LeftOnRow(u, r) : u \in Started(h.c, b, r)}
  BY DEF Executed
<1>2. /\ h.c \in ConnectionType /\ Settled(h.c) /\ h.c.writers = c.writers \ {r}
      /\ Shorter(h.c) /\ Len(h.c.now) <= Len(c.now) /\ Len(h.c.now) \in Nat
  BY <1>0, EndedFacts, EndedShorter, Lengths
<1>3. /\ s \in ResultType /\ s.at = 0 /\ s.pos = Before /\ s.skip = FALSE /\ s.held = 0
      /\ s.cache = << >> /\ s.ended = FALSE
      /\ s.kind = s0.kind /\ s.given = s0.given /\ s.mode = s0.mode
      /\ s.made = s0.made
  BY <1>0, ResetFacts
<1>4. s.want = s0.want /\ s.ok = s0.ok
  BY <1>0 DEF Emptied, ResultType
<1> HIDE DEF s
<1>5. CASE o \in Refused(h.c, s) /\ Params(s.kind) # Given(s)
  <2>1. o.c = h.c /\ o.s = s /\ ~ o.ok BY <1>5 DEF Refused
  <2>2. Readable(s)
    <3>1. Len(s.cache) = 0 BY <1>3, EmptyLength
    <3> QED BY <1>3, <3>1 DEF Readable, InOrder
  <2>3. Unspent(s) => s0.given \notin Value
    BY <1>3, <1>5, SqlDriverAssumption DEF Unspent, Params, Given, Writes
  <2>4. Grows(c, s0, o)
    <3>1. Len(o.c.now) = Len(h.c.now) /\ Len(o.s.made) = Len(s0.made) BY <1>3, <2>1
    <3>2. \A p, q, m \in Nat : p <= q => p + m <= q + m OBVIOUS
    <3> QED BY <1>0, <1>2, <3>1, <3>2 DEF Grows
  <2> QED BY <1>2, <1>3, <1>4, <2>1, <2>2, <2>3, <2>4 DEF Executes
<1>6. CASE o \in Refused(h.c, Finalized(s))
  <2> DEFINE t == Finalized(s)
  <2>1. o.c = h.c /\ o.s = t /\ ~ o.ok BY <1>6 DEF Refused
  <2>2. /\ t.kind = None /\ t.made = s.made /\ t.want = s.want /\ t.ok = s.ok
    BY <1>3 DEF Finalized, ResultType
  <2> HIDE DEF t
  <2>3. None # "select" /\ None # "insert" /\ None # "returning"
    BY SqlDriverAssumption DEF Kind
  <2>4. Readable(t) /\ ~ Unspent(t) BY <2>2, <2>3 DEF Readable, Unspent
  <2> QED BY <1>0, <1>2, <1>3, <1>4, <2>1, <2>2, <2>4 DEF Executes, Grows
<1>7. CASE /\ Params(s.kind) = Given(s)
           /\ o \in UNION {LeftOnRow(u, r) : u \in Started(h.c, b, r)}
  <2>1. o \in Started(h.c, b, r) BY <1>7 DEF LeftOnRow
  <2>2. s.given \in Value \cup {None} /\ (Writes(s.kind) => s.given \in Value)
    BY <1>3, <1>7 DEF Params, Given, ResultType
  <2>3. /\ b \in ResultType /\ Blank(b) /\ b.kind = s.kind /\ b.bound = s.given
        /\ b.given = s.given /\ b.made = s.made /\ b.want = s.want /\ b.ok = s.ok
    BY <1>3, <2>2 DEF ResultType, Blank
  <2> HIDE DEF b
  <2>4. r \notin h.c.writers BY <1>2
  <2>5. Executes(h.c, b, o) BY <1>2, <2>1, <2>2, <2>3, <2>4, StartedTraces
  <2>6. Len(o.c.now) \in Nat /\ Len(o.s.made) \in Nat
    <3>1. o.c \in ConnectionType /\ o.s \in ResultType BY ExecutedFacts DEF Allowed, Good
    <3> QED BY <3>1, Lengths
  <2>7. Grows(c, s0, o)
    <3>1. Len(o.c.now) + Len(s0.made) <= Len(h.c.now) + Len(o.s.made)
      BY <1>3, <2>3, <2>5 DEF Executes, Grows
    <3>2. \A p, q, u, m, n \in Nat : p + m <= q + n /\ q <= u => p + m <= u + n OBVIOUS
    <3>3. Len(h.c.now) \in Nat /\ Len(c.now) \in Nat /\ Len(s0.made) \in Nat
          /\ Len(h.c.now) <= Len(c.now)
      BY <1>0, <1>2
    <3> QED BY <2>6, <3>1, <3>2, <3>3 DEF Grows
  <2> QED BY <1>3, <1>4, <2>3, <2>5, <2>7 DEF Executes
<1> QED BY <1>1, <1>5, <1>6, <1>7

\* What exec() of a result that has begun leaves, when it returns.
LEMMA ExecTraces ==
  ASSUME NEW c, NEW s, NEW r \in Result, Good(c, s, r), Shorter(c), Readable(s),
         s.made = << >>,
         s.want = IF Writes(s.kind) THEN <<s.given>> ELSE << >>,
         NEW o \in Returns(Executed(c, s, r))
  PROVE  Keeps(c, s, o)
<1>1. PICK u \in Executed(c, s, r) : o = Left(u, [u.s EXCEPT !.ok = u.ok])
  BY DEF Returns
<1>2. Executes(c, s, u) BY ExecutedTraces DEF Readable
<1>3. u.s \in ResultType /\ u.ok \in BOOLEAN BY ExecutedFacts, ExecutedOk DEF Allowed, Good
<1> DEFINE t == [u.s EXCEPT !.ok = u.ok]
<1>4. /\ t.kind = u.s.kind /\ t.mode = u.s.mode /\ t.at = u.s.at /\ t.skip = u.s.skip
      /\ t.held = u.s.held /\ t.cache = u.s.cache /\ t.ended = u.s.ended
      /\ t.want = u.s.want /\ t.made = u.s.made /\ t.ok = u.ok
  BY <1>3 DEF ResultType
<1>5. o.c = u.c /\ o.s = t BY <1>1 DEF Left
<1> HIDE DEF t
<1>6. Readable(t) BY <1>2, <1>4 DEF Executes, Readable, InOrder
<1>7. Append(<< >>, s.given) = <<s.given>> /\ Len(<<s.given>>) = 1 /\ Len(<< >>) = 0
  OBVIOUS
<1>8. Once(t) BY <1>2, <1>4, <1>7 DEF Executes, Once, Unspent
<1> QED BY <1>2, <1>4, <1>5, <1>6, <1>8 DEF Executes, Keeps, Faithful, Grows

LEMMA ExecBatchTraces ==
  ASSUME NEW c, NEW s, NEW r \in Result, Good(c, s, r), Shorter(c), Readable(s),
         s.made = << >>, s.ok = FALSE, NEW v \in Value, NEW w \in Value,
         s.want = IF Writes(s.kind) THEN <<v, w>> ELSE << >>,
         NEW o \in Returns(ExecutedBatch(c, s, r, v, w))
  PROVE  Keeps(c, s, o)
<1> DEFINE start == [c |-> c, s |-> s]
<1> DEFINE first == ExecutedWith(start, v, r)
<1>1. PICK z \in ExecutedBatch(c, s, r, v, w) : o = Left(z, [z.s EXCEPT !.ok = z.ok])
  BY DEF Returns
<1>2. PICK u : /\ \/ u \in first /\ ~ u.ok
                  \/ \E f \in first : f.ok /\ u \in ExecutedWith(f, w, r)
               /\ z = Left(u, [u.s EXCEPT !.given = List])
  <2>1. PICK u : /\ u \in {x \in first : ~ x.ok}
                        \cup UNION {ExecutedWith(x, w, r) : x \in {y \in first : y.ok}}
                 /\ z = Left(u, [u.s EXCEPT !.given = List])
    BY DEF ExecutedBatch
  <2> HIDE DEF start, first
  <2> QED BY <2>1
<1>3. s \in ResultType /\ c \in ConnectionType BY DEF Good
<1> DEFINE a == [s EXCEPT !.given = v]
<1>4. /\ Good(c, a, r) /\ a.kind = s.kind /\ a.mode = s.mode /\ a.made = << >>
      /\ a.want = s.want /\ a.ok = FALSE /\ a.given = v
  BY <1>3, GivenFacts DEF ResultType
<1>5. ASSUME NEW f \in first
      PROVE  Executes(c, a, f) /\ Good(f.c, f.s, r) /\ f.ok \in BOOLEAN
  <2>1. f \in Executed(c, a, r) BY DEF ExecutedWith
  <2> HIDE DEF a
  <2> QED BY <1>4, <2>1, ExecutedTraces, ExecutedFacts, ExecutedOk DEF Readable, Allowed
<1> HIDE DEF a, first
<1>6. /\ Append(<< >>, v) = <<v>> /\ Append(<<v>>, w) = <<v, w>>
      /\ Len(<<v>>) = 1 /\ Len(<< >>) = 0
  <2>1. Append(<< >>, v) = <<v>> OBVIOUS
  <2>2. Append(<<v>>, w) = <<v, w>>
    <3>1. <<v>> \in Seq(Value) /\ <<v, w>> \in Seq(Value) /\ Len(<<v, w>>) = 2 OBVIOUS
    <3>2. /\ Append(<<v>>, w) \in Seq(Value) /\ Len(Append(<<v>>, w)) = 2
          /\ Append(<<v>>, w)[1] = v /\ Append(<<v>>, w)[2] = w
      BY <3>1
    <3>3. \A i \in 1 .. 2 : Append(<<v>>, w)[i] = <<v, w>>[i] BY <3>2
    <3> QED BY <3>1, <3>2, <3>3, SeqEqual
  <2> QED BY <2>1, <2>2
<1>7. /\ Good(u.c, u.s, r) /\ u.ok \in BOOLEAN /\ Shorter(u.c) /\ Grows(c, s, u)
      /\ u.s.want = s.want /\ u.s.ok = FALSE /\ Readable(u.s) /\ ~ Unspent(u.s)
      /\ u.ok => u.s.made = s.want
      /\ u.s.made # s.want => Len(u.s.made) <= 1
  <2>1. CASE u \in first /\ ~ u.ok
    <3>1. Executes(c, a, u) /\ Good(u.c, u.s, r) /\ u.ok \in BOOLEAN BY <1>5, <2>1
    <3>2. Len(u.s.made) <= 1
      <4>1. u.s.made = << >> \/ u.s.made = <<v>> BY <1>4, <1>6, <3>1 DEF Executes
      <4> QED BY <1>6, <4>1
    <3>3. Grows(c, s, u) BY <1>4, <3>1 DEF Executes, Grows
    <3> QED BY <1>4, <2>1, <3>1, <3>2, <3>3 DEF Executes
  <2>2. CASE \E f \in first : f.ok /\ u \in ExecutedWith(f, w, r)
    <3>1. PICK f \in first : f.ok /\ u \in ExecutedWith(f, w, r) BY <2>2
    <3>2. Executes(c, a, f) /\ Good(f.c, f.s, r) BY <1>5
    <3> DEFINE b == [f.s EXCEPT !.given = w]
    <3>3. f.s \in ResultType BY <3>2 DEF Good
    <3>4. /\ Good(f.c, b, r) /\ b.kind = f.s.kind /\ b.mode = f.s.mode /\ b.made = f.s.made
          /\ b.want = f.s.want /\ b.ok = f.s.ok /\ b.given = w
      BY <3>2, <3>3, GivenFacts DEF ResultType
    <3>5. u \in Executed(f.c, b, r) BY <3>1 DEF ExecutedWith
    <3> HIDE DEF b
    <3>6. Shorter(f.c) /\ (b.mode = "select" => b.kind # "insert")
      BY <3>2, <3>4 DEF Executes, Readable
    <3>7. Executes(f.c, b, u) /\ Allowed(f.c, b, r, u) /\ u.ok \in BOOLEAN
      BY <3>4, <3>5, <3>6, ExecutedTraces, ExecutedFacts, ExecutedOk
    <3>8. b.kind = s.kind /\ b.made = IF Writes(s.kind) THEN <<v>> ELSE << >>
      BY <1>4, <1>6, <3>1, <3>2, <3>4 DEF Executes
    <3>9. /\ u.ok => u.s.made = s.want
          /\ u.s.made # s.want => Len(u.s.made) <= 1
      <4>1. CASE Writes(s.kind)
        <5>1. u.s.made = <<v>> \/ u.s.made = <<v, w>> BY <1>6, <3>4, <3>7, <3>8, <4>1 DEF Executes
        <5>2. u.ok => u.s.made = <<v, w>> BY <1>6, <3>4, <3>7, <3>8, <4>1 DEF Executes
        <5> QED BY <1>6, <4>1, <5>1, <5>2
      <4>2. CASE ~ Writes(s.kind)
        <5>1. u.s.made = << >> BY <3>7, <3>8, <4>2 DEF Executes
        <5> QED BY <4>2, <5>1
      <4> QED BY <4>1, <4>2
    <3>10. Grows(c, s, u)
      <4>1. Grows(c, s, f) /\ Grows(f.c, b, u) BY <1>4, <3>2, <3>7 DEF Executes, Grows
      <4>2. f.c \in ConnectionType /\ u.c \in ConnectionType /\ u.s \in ResultType
        BY <3>2, <3>7 DEF Allowed, Good
      <4> QED BY <1>3, <3>3, <3>4, <4>1, <4>2, GrowsTwice
    <3> QED BY <1>4, <3>2, <3>4, <3>7, <3>9, <3>10 DEF Executes, Allowed
  <2> QED BY <1>2, <2>1, <2>2
<1> DEFINE t == [u.s EXCEPT !.given = List]
           x == [t EXCEPT !.ok = u.ok]
<1>8. /\ t \in ResultType /\ t.kind = u.s.kind /\ t.mode = u.s.mode /\ t.at = u.s.at
      /\ t.skip = u.s.skip /\ t.held = u.s.held /\ t.cache = u.s.cache
      /\ t.ended = u.s.ended /\ t.want = u.s.want /\ t.made = u.s.made
  BY <1>7, SqlDriverAssumption DEF Good, ResultType
<1>9. z.c = u.c /\ z.s = t /\ z.ok = u.ok BY <1>2 DEF Left
<1>10. o.c = u.c /\ o.s = x BY <1>1, <1>9 DEF Left
<1> HIDE DEF t
<1>11. /\ x.kind = u.s.kind /\ x.mode = u.s.mode /\ x.at = u.s.at
       /\ x.skip = u.s.skip /\ x.held = u.s.held /\ x.cache = u.s.cache
       /\ x.ended = u.s.ended /\ x.want = u.s.want /\ x.made = u.s.made /\ x.ok = u.ok
  BY <1>8 DEF ResultType
<1> HIDE DEF x
<1>12. Readable(x) BY <1>7, <1>11 DEF Readable, InOrder
<1>13. Once(x) BY <1>7, <1>11 DEF Once, Unspent
<1> QED BY <1>7, <1>10, <1>11, <1>12, <1>13 DEF Keeps, Faithful, Grows

-----------------------------------------------------------------------------------
(* The same of the driver. *)

HInv ==
  /\ Shorter(db)
  /\ \A r \in Result : Faithful(res[r])
  /\ subs # {} => hooked

\* What a step inserts into the table is notified of.
Notified ==
  Written \in subs /\ Len(db'.now) > Len(db.now) =>
    notes' >= notes + Len(db'.now) - Len(db.now)

LEMMA BecomesTraces ==
  ASSUME IInv, IInv', HInv, NEW r \in Result, NEW s \in ResultType, NEW os, Becomes(r, s, os),
         \A o \in os : Keeps(db, s, o) /\ o.s \in ResultType
  PROVE  HInv' /\ Notified
<1>1. PICK o \in os :
        /\ notes' = notes + (IF hooked THEN Len(o.s.made) - Len(s.made) ELSE 0)
        /\ db' = o.c /\ res' = [res EXCEPT ![r] = o.s]
        /\ UNCHANGED <<isOpen, subs, hooked>>
  BY DEF Becomes
<1>2. Keeps(db, s, o) OBVIOUS
<1>3. ASSUME NEW q \in Result PROVE Faithful(res'[q])
  <2>1. CASE q = r BY <1>1, <1>2, <2>1 DEF IInv, Keeps
  <2>2. CASE q # r BY <1>1, <2>2 DEF IInv, HInv
  <2> QED BY <2>1, <2>2
<1>4. HInv' BY <1>1, <1>2, <1>3 DEF HInv, Keeps
<1>5. ASSUME Written \in subs PROVE notes' >= notes + Len(db'.now) - Len(db.now)
  <2>1. hooked BY <1>5 DEF HInv
  <2>2. notes' = notes + (Len(o.s.made) - Len(s.made)) BY <1>1, <2>1
  <2>3. Len(db'.now) + Len(s.made) <= Len(db.now) + Len(o.s.made)
    BY <1>1, <1>2 DEF Keeps, Grows
  <2>4. /\ Len(db'.now) \in Nat /\ Len(db.now) \in Nat /\ Len(s.made) \in Nat
        /\ Len(o.s.made) \in Nat /\ notes \in Nat
    BY Lengths DEF IInv
  <2>5. PICK a \in Nat : a = Len(db.now) BY <2>4
  <2>6. PICK b \in Nat : b = Len(s.made) BY <2>4
  <2>7. PICK d \in Nat : d = Len(o.s.made) BY <2>4
  <2>8. PICK e \in Nat : e = Len(db'.now) BY <2>4
  <2>9. e + b <= a + d /\ notes' = notes + (d - b) BY <2>2, <2>3, <2>5, <2>6, <2>7, <2>8
  <2>10. notes' >= notes + e - a BY <2>4, <2>9
  <2> QED BY <2>5, <2>8, <2>10
<1> QED BY <1>4, <1>5 DEF Notified

\* A step that leaves the table or makes it shorter is not notified of.
LEMMA NothingNew ==
  ASSUME IInv, IInv', Len(db'.now) <= Len(db.now)
  PROVE  Notified
<1>1. Len(db'.now) \in Nat /\ Len(db.now) \in Nat BY Lengths DEF IInv
<1> QED BY <1>1 DEF Notified

LEMMA ExecHistory ==
  ASSUME IInv, IInv', HInv, NEW r \in Result, Exec(r) \/ ExecBatch(r)
  PROVE  HInv' /\ Notified
<1>0. Good(db, res[r], r) /\ res[r] \in ResultType /\ Shorter(db) /\ Faithful(res[r])
  BY DEF IInv, HInv
<1>1. ASSUME NEW want \in Seq(Value \cup {None, Surplus})
      PROVE  LET s == Begins(r, want)
             IN  /\ Good(db, s, r) /\ s.kind = res[r].kind /\ s.given = res[r].given
                 /\ s.made = << >> /\ s.want = want /\ s.ok = FALSE /\ Readable(s)
  <2> DEFINE s == [res[r] EXCEPT !.want = want, !.made = << >>, !.ok = FALSE]
  <2>1. Good(db, s, r) BY <1>0, BeginsFacts
  <2>2. /\ s.kind = res[r].kind /\ s.given = res[r].given /\ s.made = << >>
        /\ s.want = want /\ s.ok = FALSE /\ s.mode = res[r].mode /\ s.cache = res[r].cache
        /\ s.at = res[r].at /\ s.skip = res[r].skip /\ s.held = res[r].held
        /\ s.ended = res[r].ended
    BY <1>0 DEF ResultType
  <2>3. Begins(r, want) = s BY DEF Begins
  <2> HIDE DEF s
  <2>4. Readable(s) BY <1>0, <2>2 DEF Faithful, Readable, InOrder
  <2> QED BY <2>1, <2>2, <2>3, <2>4
<1>2. CASE Exec(r)
  <2> DEFINE want == IF Writes(res[r].kind) THEN <<res[r].given>> ELSE << >>
             s == Begins(r, want)
             os == Returns(Executed(db, s, r))
  <2>1. Becomes(r, s, os) BY <1>2 DEF Exec
  <2>2. want \in Seq(Value \cup {None, Surplus})
    <3>1. res[r].given \in Value \cup {None, Surplus} BY <1>0 DEF ResultType
    <3>2. \A x \in Value \cup {None, Surplus} : <<x>> \in Seq(Value \cup {None, Surplus})
      OBVIOUS
    <3> QED BY <3>1, <3>2, EmptyLength
  <2>3. PICK w \in Seq(Value \cup {None, Surplus}) : w = want BY <2>2
  <2>4. /\ Good(db, s, r) /\ s.kind = res[r].kind /\ s.given = res[r].given
        /\ s.made = << >> /\ s.want = want /\ s.ok = FALSE /\ Readable(s)
    BY <1>1, <2>3
  <2>5. s.want = IF Writes(s.kind) THEN <<s.given>> ELSE << >> BY <2>4
  <2> HIDE DEF want, s
  <2>6. ASSUME NEW o \in os PROVE Keeps(db, s, o) /\ o.s \in ResultType
    <3>1. PICK u \in Executed(db, s, r) : o = Left(u, [u.s EXCEPT !.ok = u.ok])
      BY DEF Returns
    <3>2. Allowed(db, s, r, u) /\ u.ok \in BOOLEAN BY <2>4, ExecutedFacts, ExecutedOk
    <3>3. o.s \in ResultType BY <3>1, <3>2, ReturnsFacts DEF Allowed, Good
    <3> QED BY <1>0, <2>4, <2>5, <3>3, ExecTraces
  <2>7. s \in ResultType BY <2>4 DEF Good
  <2> HIDE DEF os
  <2> QED BY <2>1, <2>6, <2>7, BecomesTraces
<1>3. CASE ExecBatch(r)
  <2>0. PICK v \in Value, w \in Value :
          LET s == Begins(r, IF Writes(res[r].kind) THEN <<v, w>> ELSE << >>)
          IN  Becomes(r, s, Returns(ExecutedBatch(db, s, r, v, w)))
    BY <1>3 DEF ExecBatch
  <2> DEFINE want == IF Writes(res[r].kind) THEN <<v, w>> ELSE << >>
             s == Begins(r, want)
             os == Returns(ExecutedBatch(db, s, r, v, w))
  <2>1. Becomes(r, s, os) BY <2>0
  <2>2. want \in Seq(Value \cup {None, Surplus})
    <3>1. <<v, w>> \in Seq(Value \cup {None, Surplus}) OBVIOUS
    <3> QED BY <3>1, EmptyLength
  <2>3. PICK x \in Seq(Value \cup {None, Surplus}) : x = want BY <2>2
  <2>4. /\ Good(db, s, r) /\ s.kind = res[r].kind
        /\ s.made = << >> /\ s.want = want /\ s.ok = FALSE /\ Readable(s)
    BY <1>1, <2>3
  <2>5. s.want = IF Writes(s.kind) THEN <<v, w>> ELSE << >> BY <2>4
  <2> HIDE DEF want, s
  <2>6. ASSUME NEW o \in os PROVE Keeps(db, s, o) /\ o.s \in ResultType
    <3>1. PICK u \in ExecutedBatch(db, s, r, v, w) : o = Left(u, [u.s EXCEPT !.ok = u.ok])
      BY DEF Returns
    <3>2. Allowed(db, s, r, u) /\ u.ok \in BOOLEAN BY <2>4, BatchFacts
    <3>3. o.s \in ResultType BY <3>1, <3>2, ReturnsFacts DEF Allowed, Good
    <3> QED BY <1>0, <2>4, <2>5, <3>3, ExecBatchTraces
  <2>7. s \in ResultType BY <2>4 DEF Good
  <2> HIDE DEF os
  <2> QED BY <2>1, <2>6, <2>7, BecomesTraces
<1> QED BY <1>2, <1>3

\* A statement that ends and is prepared anew, reset or left: nothing is read or inserted.
LEMMA EndedHistory ==
  ASSUME IInv, HInv, NEW r \in Result, NEW h \in Ended(db, r), NEW s \in ResultType,
         NEW t, Faithful(t), t.made = s.made, NEW o, o.c = h.c, o.s = t
  PROVE  Keeps(db, s, o)
<1>1. db \in ConnectionType /\ Settled(db) /\ Shorter(db) BY DEF IInv, HInv
<1>2. /\ h.c \in ConnectionType /\ Shorter(h.c) /\ Len(h.c.now) <= Len(db.now)
  BY <1>1, EndedFacts, EndedShorter
<1>3. Len(h.c.now) \in Nat /\ Len(db.now) \in Nat /\ Len(s.made) \in Nat
  BY <1>1, <1>2, Lengths
<1>4. Len(o.c.now) = Len(h.c.now) /\ Len(o.s.made) = Len(s.made) OBVIOUS
<1>5. \A a, b, m \in Nat : a <= b => a + m <= b + m OBVIOUS
<1>6. Grows(db, s, o) BY <1>2, <1>3, <1>4, <1>5 DEF Grows
<1> QED BY <1>2, <1>6 DEF Keeps

LEMMA PrepareHistory ==
  ASSUME IInv, IInv', HInv, NEW r \in Result, Prepare(r) \/ Destroy(r)
  PROVE  HInv' /\ Notified
<1>1. \A S : << >> \in Seq(S) OBVIOUS
<1>2. NoResult \in ResultType /\ NoResult.made = << >> /\ NoResult.kind = None
  BY <1>1, Places DEF ResultType, NoResult
<1>3. [NoResult EXCEPT !.kind = None] = NoResult
  <2> HIDE DEF NoResult
  <2> QED BY <1>2 DEF ResultType
<1>4. PICK kind \in Kind \cup {None} :
        Becomes(r, NoResult,
                {[c |-> h.c, s |-> [NoResult EXCEPT !.kind = kind]] : h \in Ended(db, r)})
  <2>1. CASE Prepare(r) BY <2>1 DEF Prepare
  <2>2. CASE Destroy(r)
    <3> HIDE DEF NoResult
    <3>1. Becomes(r, NoResult,
                  {[c |-> h.c, s |-> [NoResult EXCEPT !.kind = None]] : h \in Ended(db, r)})
      BY <2>2, <1>3 DEF Destroy
    <3> QED BY <3>1
  <2> QED BY <2>1, <2>2
<1> DEFINE t == [NoResult EXCEPT !.kind = kind]
           os == {[c |-> h.c, s |-> t] : h \in Ended(db, r)}
<1>5. /\ t \in ResultType /\ t.mode = "inactive" /\ t.cache = << >> /\ t.made = << >>
      /\ t.want = << >> /\ t.ok = FALSE
  BY <1>1, Places DEF ResultType, NoResult
<1>6. Becomes(r, NoResult, os) BY <1>4
<1> HIDE DEF t, NoResult
<1>7. Faithful(t)
  <2>1. Len(t.cache) = 0 BY <1>5, EmptyLength
  <2> QED BY <1>5, <2>1 DEF Faithful, Readable, InOrder, Once, Unspent
<1>8. ASSUME NEW o \in os PROVE Keeps(db, NoResult, o) /\ o.s \in ResultType
  <2>1. PICK h \in Ended(db, r) : o = [c |-> h.c, s |-> t] OBVIOUS
  <2>2. o.c = h.c /\ o.s = t BY <2>1
  <2> QED BY <1>2, <1>5, <1>7, <2>2, EndedHistory
<1> HIDE DEF os
<1> QED BY <1>2, <1>6, <1>8, BecomesTraces

LEMMA FinishHistory ==
  ASSUME IInv, IInv', HInv, NEW r \in Result, Finish(r)
  PROVE  HInv' /\ Notified
<1> DEFINE s == [res[r] EXCEPT !.mode = "inactive", !.pos = Before]
           t == [s EXCEPT !.at = 0]
           os == Detached(db, s, r)
<1>0. res[r] \in ResultType /\ Faithful(res[r]) BY DEF IInv, HInv
<1>1. Becomes(r, res[r], os) BY DEF Finish
<1>2. /\ s \in ResultType /\ s.mode = "inactive" /\ s.kind = res[r].kind
      /\ s.cache = res[r].cache /\ s.want = res[r].want /\ s.made = res[r].made
      /\ s.ok = res[r].ok
  BY <1>0, Places DEF ResultType
<1>3. \A o \in os : \E h \in Ended(db, r) : o = [c |-> h.c, s |-> t] BY DEF Detached
<1> HIDE DEF s, os
<1>4. /\ t \in ResultType /\ t.mode = "inactive" /\ t.kind = res[r].kind
      /\ t.cache = res[r].cache /\ t.want = res[r].want /\ t.made = res[r].made
      /\ t.ok = res[r].ok
  BY <1>2 DEF ResultType
<1> HIDE DEF t
<1>5. Faithful(t) BY <1>0, <1>4 DEF Faithful, Readable, InOrder, Once, Unspent
<1>6. ASSUME NEW o \in os PROVE Keeps(db, res[r], o) /\ o.s \in ResultType
  <2>1. PICK h \in Ended(db, r) : o = [c |-> h.c, s |-> t] BY <1>3
  <2>2. o.c = h.c /\ o.s = t BY <2>1
  <2> QED BY <1>0, <1>4, <1>5, <2>2, EndedHistory
<1> QED BY <1>0, <1>1, <1>6, BecomesTraces

LEMMA BindHistory ==
  ASSUME IInv, IInv', HInv, NEW r \in Result, BindValue(r) \/ PrepareUnopened(r)
  PROVE  HInv' /\ Notified
<1>0. res[r] \in ResultType /\ Faithful(res[r]) BY DEF IInv, HInv
<1>1. UNCHANGED <<isOpen, db, subs, hooked, notes>> BY DEF BindValue, PrepareUnopened
<1>2. Faithful(res'[r])
  <2>1. CASE BindValue(r)
    <3>1. PICK x : res' = [res EXCEPT ![r].given = x] BY <2>1 DEF BindValue
    <3> DEFINE t == [res[r] EXCEPT !.given = x]
    <3>2. res'[r] = t BY <3>1 DEF IInv
    <3>3. /\ t.kind = res[r].kind /\ t.mode = res[r].mode /\ t.at = res[r].at
          /\ t.skip = res[r].skip /\ t.held = res[r].held /\ t.cache = res[r].cache
          /\ t.ended = res[r].ended /\ t.want = res[r].want /\ t.made = res[r].made
          /\ t.ok = res[r].ok
      BY <1>0 DEF ResultType
    <3> HIDE DEF t
    <3> QED BY <1>0, <3>2, <3>3, SameTraces
  <2>2. CASE PrepareUnopened(r)
    <3> DEFINE t == [res[r] EXCEPT !.mode = "inactive", !.pos = Before]
    <3>1. res'[r] = t BY <2>2 DEF IInv, PrepareUnopened
    <3>2. /\ t.kind = res[r].kind /\ t.mode = "inactive" /\ t.cache = res[r].cache
          /\ t.want = res[r].want /\ t.made = res[r].made /\ t.ok = res[r].ok
      BY <1>0 DEF ResultType
    <3> HIDE DEF t
    <3> QED BY <1>0, <3>1, <3>2 DEF Faithful, Readable, InOrder, Once, Unspent
  <2> QED BY <2>1, <2>2
<1>3. \A q \in Result : q # r => res'[q] = res[q] BY DEF IInv, BindValue, PrepareUnopened
<1>4. HInv' BY <1>1, <1>2, <1>3 DEF HInv
<1>5. Len(db'.now) <= Len(db.now)
  <2>1. Len(db.now) \in Nat BY Lengths DEF IInv
  <2> QED BY <1>1, <2>1
<1> QED BY <1>4, <1>5, NothingNew

LEMMA LeaveHistory ==
  ASSUME IInv, IInv', HInv, Leave
  PROVE  HInv' /\ Notified
<1>1. PICK disk \in Closed(db) : db' = Fresh(disk) BY DEF Leave
<1>2. db'.now = disk /\ db'.saved = disk /\ disk \in {db.now, db.saved}
  BY <1>1 DEF Fresh, Closed
<1>3. Len(db.now) \in Nat /\ Len(db.saved) \in Nat BY Lengths DEF IInv
<1>4. Shorter(db') /\ Len(db'.now) <= Len(db.now) BY <1>2, <1>3 DEF HInv, Shorter
<1>5. ASSUME NEW r \in Result PROVE Faithful(res'[r])
  <2>1. res'[r] = Finalized(res[r]) BY DEF Leave
  <2>2. res[r] \in ResultType /\ Faithful(res[r]) BY DEF IInv, HInv
  <2> DEFINE t == Finalized(res[r])
  <2>3. /\ t.kind = None /\ t.want = res[r].want /\ t.made = res[r].made /\ t.ok = res[r].ok
    BY <2>2 DEF ResultType, Finalized
  <2> HIDE DEF t
  <2>4. None # "select" /\ None # "insert" /\ None # "returning"
    BY SqlDriverAssumption DEF Kind
  <2>5. Faithful(t) BY <2>2, <2>3, <2>4 DEF Faithful, Readable, Once, Unspent
  <2> QED BY <2>1, <2>5 DEF t
<1>6. subs' = {} BY DEF Leave, NoneSubscribed
<1> QED BY <1>4, <1>5, <1>6, NothingNew DEF HInv

LEMMA DriverHistory ==
  ASSUME IInv, IInv', HInv,
         Open \/ Close \/ Transaction \/ Subscribe \/ Unsubscribe \/ HandleNotification
  PROVE  HInv' /\ Notified
<1>0. /\ db \in ConnectionType /\ Shorter(db) /\ Len(db.now) \in Nat /\ Len(db.saved) \in Nat
  BY Lengths DEF IInv, HInv
<1>1. CASE Leave BY <1>1, LeaveHistory
<1>2. CASE UNCHANGED <<db, res, subs, hooked>>
  <2>1. HInv' BY <1>2 DEF HInv
  <2> QED BY <1>0, <1>2, <2>1, NothingNew
<1>3. CASE Transaction
  <2>1. PICK o \in Begun(db) \cup Committed(db) \cup RolledBack(db) : db' = o.c
    BY <1>3 DEF Transaction
  <2>2. o.c \in {db, [db EXCEPT !.auto = FALSE], Kept(db), Undone(db)}
    BY DEF Begun, Committed, RolledBack
  <2>3. Shorter(o.c) /\ Len(o.c.now) <= Len(db.now)
    <3>1. CASE o.c = db BY <1>0, <3>1
    <3>2. CASE o.c = [db EXCEPT !.auto = FALSE]
      <4>1. o.c.now = db.now /\ o.c.saved = db.saved BY <1>0, <3>2 DEF ConnectionType
      <4> QED BY <1>0, <4>1 DEF Shorter
    <3>3. CASE o.c = Kept(db)
      <4>1. o.c.now = db.now /\ o.c.saved = db.now BY <1>0, <3>3 DEF Kept, ConnectionType
      <4> QED BY <1>0, <4>1 DEF Shorter
    <3>4. CASE o.c = Undone(db)
      <4>1. o.c.now = db.saved /\ o.c.saved = db.saved
        BY <1>0, <3>4 DEF Undone, ConnectionType
      <4> QED BY <1>0, <4>1 DEF Shorter
    <3> QED BY <2>2, <3>1, <3>2, <3>3, <3>4
  <2>4. UNCHANGED <<res, subs, hooked>> BY <1>3 DEF Transaction
  <2> QED BY <2>1, <2>3, <2>4, NothingNew DEF HInv
<1>4. CASE Subscribe
  <2>1. PICK t \in Table \ subs : subs' = subs \cup {t} BY <1>4 DEF Subscribe
  <2>2. hooked' = (hooked \/ Cardinality(subs') = 1) /\ UNCHANGED <<db, res, notes>>
    BY <1>4 DEF Subscribe
  <2>3. hooked'
    <3>1. CASE subs = {}
      <4>1. subs' = {t} BY <2>1, <3>1
      <4>2. Cardinality(subs') = 1 BY <4>1, FS_Singleton
      <4> QED BY <2>2, <4>2
    <3>2. CASE subs # {} BY <2>2, <3>2 DEF HInv
    <3> QED BY <3>1, <3>2
  <2>4. HInv' BY <2>2, <2>3 DEF HInv
  <2> QED BY <1>0, <2>2, <2>4, NothingNew
<1>5. CASE Unsubscribe
  <2>1. /\ \E t \in subs : subs' = subs \ {t}
        /\ hooked' = (hooked /\ subs' # {}) /\ UNCHANGED <<db, res, notes>>
    BY <1>5 DEF Unsubscribe
  <2>2. HInv' BY <2>1 DEF HInv
  <2> QED BY <1>0, <2>1, <2>2, NothingNew
<1>6. CASE Open BY <1>1, <1>2, <1>6 DEF Open
<1>7. CASE Close BY <1>1, <1>7 DEF Close
<1>8. CASE HandleNotification BY <1>2, <1>8 DEF HandleNotification
<1> QED BY <1>3, <1>4, <1>5, <1>6, <1>7, <1>8

LEMMA HistoryStep == IInv /\ HInv /\ [Next]_vars => HInv' /\ (UNCHANGED vars \/ Notified)
<1> SUFFICES ASSUME IInv, HInv, [Next]_vars PROVE HInv' /\ (UNCHANGED vars \/ Notified)
  OBVIOUS
<1>0. IInv' BY NextStep
<1>1. CASE UNCHANGED vars BY <1>1 DEF HInv, vars
<1>2. CASE Open \/ Close \/ Transaction \/ Subscribe \/ Unsubscribe \/ HandleNotification
  BY <1>0, <1>2, DriverHistory
<1>3. ASSUME NEW r \in Result, Next_(r) \/ Previous(r) PROVE HInv' /\ Notified
  <2>1. /\ Good(db, res[r], r) /\ res[r] \in ResultType /\ res[r].mode = "select"
        /\ Shorter(db) /\ Faithful(res[r])
    BY <1>3 DEF IInv, HInv, Next_, Previous
  <2>2. CASE Next_(r)
    <3>1. Becomes(r, res[r], NextRow(db, res[r], r)) BY <2>2 DEF Next_
    <3>2. \A o \in NextRow(db, res[r], r) : Keeps(db, res[r], o) /\ o.s \in ResultType
      BY <2>1, NextRowTraces, NextRowFacts DEF Allowed, Good
    <3> QED BY <1>0, <2>1, <3>1, <3>2, BecomesTraces
  <2>3. CASE Previous(r)
    <3>1. Becomes(r, res[r], PreviousRow(db, res[r], r)) BY <2>3 DEF Previous
    <3>2. \A o \in PreviousRow(db, res[r], r) : Keeps(db, res[r], o) /\ o.s \in ResultType
      BY <2>1, PreviousRowTraces, PreviousRowFacts DEF Allowed, Good
    <3> QED BY <1>0, <2>1, <3>1, <3>2, BecomesTraces
  <2> QED BY <1>3, <2>2, <2>3
<1>4. ASSUME NEW r \in Result,
             Prepare(r) \/ PrepareUnopened(r) \/ BindValue(r) \/ Exec(r) \/ ExecBatch(r)
             \/ Finish(r) \/ Destroy(r)
      PROVE  HInv' /\ Notified
  BY <1>0, <1>4, PrepareHistory, BindHistory, ExecHistory, FinishHistory
<1> QED BY <1>1, <1>2, <1>3, <1>4 DEF Next

LEMMA InitHistory == Init => HInv
<1> SUFFICES ASSUME Init PROVE HInv OBVIOUS
<1>1. db.now = << >> /\ db.saved = << >> /\ subs = {} BY DEF Init, Fresh
<1>2. Shorter(db) BY <1>1, EmptyLength DEF Shorter
<1>3. /\ NoResult.kind = None /\ NoResult.made = << >> /\ NoResult.want = << >>
      /\ NoResult.ok = FALSE /\ NoResult.mode = "inactive"
  BY DEF NoResult
<1>4. \A r \in Result : res[r] = NoResult BY DEF Init
<1> HIDE DEF NoResult
<1>5. None # "select" /\ None # "returning" BY SqlDriverAssumption DEF Kind
<1>6. Faithful(NoResult) BY <1>3, <1>5 DEF Faithful, Readable, Once, Unspent
<1> QED BY <1>1, <1>2, <1>4, <1>6 DEF HInv

LEMMA HistoryInvariant == Spec => [](IInv /\ HInv)
<1>1. Init => IInv /\ HInv BY InitStep, InitHistory
<1>2. IInv /\ HInv /\ [Next]_vars => (IInv /\ HInv)' BY NextStep, HistoryStep
<1> QED BY <1>1, <1>2, PTL DEF Spec

\* For every number of results and rows: what a SELECT has handed out are the rows of the
\* table from the first, in spite of the row fetched ahead, previous(), other results and
\* transactions.
THEOREM RowsAreReadInOrder == Spec => []ReadsEveryRow
<1>1. HInv => ReadsEveryRow BY DEF HInv, Faithful, Readable, InOrder, ReadsEveryRow
<1> QED BY <1>1, HistoryInvariant, PTL

\* For every number of results and rows: an exec() that succeeds inserts what was bound once.
THEOREM InsertsOnce == Spec => []ExecOnce
<1>1. HInv => ExecOnce BY DEF HInv, Faithful, Once, ExecOnce
<1> QED BY <1>1, HistoryInvariant, PTL

\* For every number of results, rows and tables: what is inserted into a table that is
\* subscribed to is queued for notification.
THEOREM SubscribersAreNotified == Spec => NotifiesSubscribers
<1>1. IInv /\ HInv /\ [Next]_vars =>
        [(Written \in subs /\ Len(db'.now) > Len(db.now))
           => notes' >= notes + Len(db'.now) - Len(db.now)]_vars
  BY HistoryStep DEF Notified
<1> QED BY <1>1, HistoryInvariant, PTL DEF Spec, NotifiesSubscribers

===================================================================================
