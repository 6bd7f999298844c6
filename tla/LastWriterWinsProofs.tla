----------------------------- MODULE LastWriterWinsProofs -----------------------------
(***************************************************************************)
(* Last-writer-wins replication brings clients into agreement, for any     *)
(* number of clients, rows and writes, and whatever the order in which     *)
(* they learn the writes.                                                  *)
(*                                                                         *)
(* That the latest write is shown says too little of a set of writes that  *)
(* may have no latest one: the invariant has that one of the known writes  *)
(* of a row is later than all others (Topped), which rests on writes being *)
(* comparable (Comparable), and that on a client knowing its own           *)
(* (KnowsOwn), above all of which it stamps the next.                      *)
(***************************************************************************)
EXTENDS LastWriterWins, TLAPS

MaybeRow == Row \cup {None}

Typed ==
  /\ DOMAIN log \subseteq Name
  /\ \A n \in DOMAIN log : /\ DOMAIN log[n] \subseteq Key
                           /\ \A k \in DOMAIN log[n] : log[n][k] \in MaybeRow
  /\ known \in [Client -> SUBSET DOMAIN log]
  /\ view \in [Client -> [Key -> MaybeRow]]
  /\ draft \in [Client -> SUBSET Key]

KnowsOwn == \A n \in DOMAIN log : n \in known[n.client]

Comparable == \A m, n \in DOMAIN log : m = n \/ Precedes(m, n) \/ Precedes(n, m)

\* t is the latest write of row k that c knows, and what it shows.
Tops(t, c, k) ==
  /\ t \in Touching(c, k)
  /\ \A m \in Touching(c, k) \ {t} : Precedes(m, t)
  /\ k \notin draft[c] => view[c][k] = log[t][k]

Topped ==
  \A c \in Client, k \in Key : Touching(c, k) # {} => \E t \in Touching(c, k) : Tops(t, c, k)

IInv == Typed /\ KnowsOwn /\ Comparable /\ Topped

-----------------------------------------------------------------------------------
(* Names are ordered. *)

LEMMA NameTypes ==
  ASSUME NEW n \in Name
  PROVE  n.client \in Client /\ n.hlc \in Nat /\ n.seq \in Nat /\ Rank[n.client] \in Nat
  BY RankAssumption DEF Name

LEMMA PrecedesStrict ==
  ASSUME NEW a \in Name, NEW b \in Name, Precedes(a, b)
  PROVE  ~ Precedes(b, a) /\ a # b
  BY NameTypes DEF Precedes

LEMMA PrecedesTransitive ==
  ASSUME NEW a \in Name, NEW b \in Name, NEW c \in Name, Precedes(a, b), Precedes(b, c)
  PROVE  Precedes(a, c)
  BY NameTypes DEF Precedes

\* Names of different clients are always comparable.
LEMMA OthersComparable ==
  ASSUME NEW a \in Name, NEW b \in Name, a.client # b.client
  PROVE  Precedes(a, b) \/ Precedes(b, a)
  BY NameTypes, RankAssumption DEF Precedes

-----------------------------------------------------------------------------------
(* The steps. *)

LEMMA EditStep ==
  ASSUME IInv, NEW c \in Client, Edit(c)
  PROVE  IInv'
<1>1. PICK k \in Key, row \in MaybeRow :
        /\ view' = [view EXCEPT ![c][k] = row]
        /\ draft' = [draft EXCEPT ![c] = @ \cup {k}]
  BY DEF Edit, MaybeRow
<1>2. log' = log /\ known' = known BY DEF Edit
<1>3. Typed' BY <1>1, <1>2 DEF IInv, Typed
<1>4. \A d \in Client, j \in Key : Touching(d, j)' = Touching(d, j)
  BY <1>2 DEF Touching
<1>5. ASSUME NEW d \in Client, NEW j \in Key, NEW t \in Touching(d, j), Tops(t, d, j)
      PROVE  Tops(t, d, j)'
  <2>1. j \notin draft'[d] => j \notin draft[d] /\ view'[d][j] = view[d][j]
    BY <1>1 DEF IInv, Typed
  <2> QED BY <1>2, <1>4, <1>5, <2>1 DEF Tops
<1>6. Topped' BY <1>4, <1>5 DEF IInv, Topped
<1> QED BY <1>2, <1>3, <1>6 DEF IInv, KnowsOwn, Comparable

LEMMA AnnounceStep ==
  ASSUME IInv, NEW c \in Client, Announce(c)
  PROVE  IInv'
<1>1. PICK n \in DOMAIN log' \ DOMAIN log, keys \in SUBSET Key :
        /\ n \in Name /\ n.client = c /\ \A m \in known[c] : Precedes(m, n)
        /\ draft[c] \subseteq keys
        /\ log' = [m \in DOMAIN log \cup {n} |->
                     IF m = n THEN [k \in keys |-> view[c][k]] ELSE log[m]]
        /\ known' = [known EXCEPT ![c] = @ \cup {n}]
  BY DEF Announce
<1>2. draft' = [draft EXCEPT ![c] = {}] /\ view' = view BY DEF Announce
<1>3. /\ DOMAIN log' = DOMAIN log \cup {n}
      /\ log'[n] = [k \in keys |-> view[c][k]]
      /\ \A m \in DOMAIN log : log'[m] = log[m] /\ m # n
  BY <1>1
<1>4. /\ known'[c] = known[c] \cup {n}
      /\ \A d \in Client \ {c} : known'[d] = known[d]
      /\ known' \in [Client -> SUBSET DOMAIN log']
  BY <1>1, <1>3 DEF IInv, Typed
<1>5. Typed' BY <1>1, <1>2, <1>3, <1>4 DEF IInv, Typed
<1>6. KnowsOwn'
  <2>1. \A m \in DOMAIN log : m.client \in Client BY DEF IInv, Typed, Name
  <2> QED BY <1>1, <1>3, <1>4, <2>1 DEF IInv, KnowsOwn
<1>7. ASSUME NEW m \in DOMAIN log
      PROVE  Precedes(m, n) \/ Precedes(n, m)
  <2>1. m \in Name BY DEF IInv, Typed
  <2>2. CASE m.client = c BY <1>1, <2>2 DEF IInv, KnowsOwn
  <2>3. CASE m.client # c BY <1>1, <2>1, <2>3, OthersComparable
  <2> QED BY <2>2, <2>3
<1>8. Comparable' BY <1>3, <1>7 DEF IInv, Comparable
<1>9. ASSUME NEW d \in Client, NEW k \in Key, Touching(d, k)' # {}
      PROVE  \E t \in Touching(d, k)' : Tops(t, d, k)'
  <2>1. known[d] \subseteq DOMAIN log BY DEF IInv, Typed
  <2>2. CASE d = c /\ k \in keys
    <3>1. Touching(c, k)' = Touching(c, k) \cup {n}
      BY <1>3, <1>4, <2>1, <2>2 DEF Touching
    <3>2. \A m \in Touching(c, k) : Precedes(m, n) BY <1>1 DEF Touching
    <3>3. view'[c][k] = log'[n][k] BY <1>2, <1>3, <2>2
    <3> QED BY <2>2, <3>1, <3>2, <3>3 DEF Tops
  <2>3. CASE ~ (d = c /\ k \in keys)
    <3>1. Touching(d, k)' = Touching(d, k)
      BY <1>3, <1>4, <2>1, <2>3 DEF Touching
    <3>2. PICK t \in Touching(d, k) : Tops(t, d, k)
      BY <1>9, <3>1 DEF IInv, Topped
    <3>3. k \notin draft'[d] => k \notin draft[d]
      BY <1>1, <1>2, <2>3 DEF IInv, Typed
    <3>4. log'[t] = log[t] BY <1>3, <2>1 DEF Touching
    <3> QED BY <1>2, <3>1, <3>2, <3>3, <3>4 DEF Tops
  <2> QED BY <2>2, <2>3
<1>10. Topped' BY <1>9 DEF Topped
<1> QED BY <1>5, <1>6, <1>8, <1>10 DEF IInv

LEMMA LearnStep ==
  ASSUME IInv, NEW c \in Client, Learn(c)
  PROVE  IInv'
<1>1. PICK n \in DOMAIN log \ known[c] :
        /\ known' = [known EXCEPT ![c] = @ \cup {n}]
        /\ view' = [view EXCEPT ![c] =
                      [k \in Key |->
                         IF k \in DOMAIN log[n] /\ \A m \in Touching(c, k) : Precedes(m, n)
                           THEN log[n][k] ELSE view[c][k]]]
  BY DEF Learn
<1>2. log' = log /\ draft' = draft /\ draft[c] = {} BY DEF Learn
<1>3. /\ known'[c] = known[c] \cup {n}
      /\ \A d \in Client \ {c} : known'[d] = known[d] /\ view'[d] = view[d]
      /\ known' \in [Client -> SUBSET DOMAIN log]
  BY <1>1 DEF IInv, Typed
<1>4. \A k \in Key :
        view'[c][k] = IF k \in DOMAIN log[n] /\ \A m \in Touching(c, k) : Precedes(m, n)
                        THEN log[n][k] ELSE view[c][k]
  BY <1>1 DEF IInv, Typed
<1>5. view' \in [Client -> [Key -> MaybeRow]]
  <2> DEFINE shown == [k \in Key |->
                IF k \in DOMAIN log[n] /\ \A m \in Touching(c, k) : Precedes(m, n)
                  THEN log[n][k] ELSE view[c][k]]
  <2>1. shown \in [Key -> MaybeRow] BY DEF IInv, Typed
  <2>2. view' = [view EXCEPT ![c] = shown] BY <1>1
  <2> HIDE DEF shown
  <2> QED BY <2>1, <2>2 DEF IInv, Typed
<1>6. Typed' BY <1>2, <1>3, <1>5 DEF IInv, Typed
<1>7. KnowsOwn'
  <2>1. \A m \in DOMAIN log : m.client \in Client BY DEF IInv, Typed, Name
  <2> QED BY <1>2, <1>3, <2>1 DEF IInv, KnowsOwn
<1>8. Comparable' BY <1>2 DEF IInv, Comparable
<1>9. ASSUME NEW d \in Client, NEW k \in Key, Touching(d, k)' # {}
      PROVE  \E t \in Touching(d, k)' : Tops(t, d, k)'
  <2>1. CASE d # c \/ k \notin DOMAIN log[n]
    <3>1. Touching(d, k)' = Touching(d, k) BY <1>2, <1>3, <2>1 DEF Touching
    <3>2. PICK t \in Touching(d, k) : Tops(t, d, k)
      BY <1>9, <3>1 DEF IInv, Topped
    <3>3. view'[d][k] = view[d][k] BY <1>3, <1>4, <2>1
    <3> QED BY <1>2, <3>1, <3>2, <3>3 DEF Tops
  <2>2. CASE d = c /\ k \in DOMAIN log[n]
    <3>1. Touching(c, k)' = Touching(c, k) \cup {n} /\ n \notin Touching(c, k)
      BY <1>2, <1>3, <2>2 DEF Touching
    <3>2. CASE \A m \in Touching(c, k) : Precedes(m, n)
      <4>1. view'[c][k] = log'[n][k] BY <1>2, <1>4, <2>2, <3>2
      <4> QED BY <2>2, <3>1, <3>2, <4>1 DEF Tops
    <3>3. ASSUME NEW m \in Touching(c, k), ~ Precedes(m, n)
          PROVE  \E t \in Touching(d, k)' : Tops(t, d, k)'
      <4>1. PICK t \in Touching(c, k) : Tops(t, c, k)
        BY <3>3 DEF IInv, Topped
      <4>2. n \in Name /\ m \in Name /\ t \in Name /\ m \in DOMAIN log /\ m # n
        BY <3>1, <3>3 DEF Touching, IInv, Typed
      <4>3. Precedes(n, m) BY <3>3, <4>2 DEF IInv, Comparable
      <4>4. m = t \/ Precedes(m, t) BY <3>3, <4>1 DEF Tops
      <4>5. Precedes(n, t) BY <4>2, <4>3, <4>4, PrecedesTransitive
      <4>6. view'[c][k] = view[c][k] BY <1>4, <3>3
      <4> QED BY <1>2, <2>2, <3>1, <4>1, <4>5, <4>6 DEF Tops
    <3> QED BY <3>2, <3>3
  <2> QED BY <2>1, <2>2
<1>10. Topped' BY <1>9 DEF Topped
<1> QED BY <1>6, <1>7, <1>8, <1>10 DEF IInv

LEMMA InitStep == Init => IInv
  BY DEF Init, IInv, Typed, KnowsOwn, Comparable, Topped, Touching, MaybeRow

LEMMA NextStep == IInv /\ [Next]_abstract => IInv'
<1> SUFFICES ASSUME IInv, [Next]_abstract PROVE IInv' OBVIOUS
<1>1. CASE UNCHANGED abstract
  BY <1>1 DEF abstract, IInv, Typed, KnowsOwn, Comparable, Topped, Tops, Touching
<1>2. CASE Next BY <1>2, EditStep, AnnounceStep, LearnStep DEF Next
<1> QED BY <1>1, <1>2

LEMMA Invariant == Spec => []IInv
  BY InitStep, NextStep, PTL DEF Spec

-----------------------------------------------------------------------------------
(* The theorems. *)

\* For any number of clients, rows and writes: every row that a client has not edited is
\* as the latest write has it that the client knows, in whatever order it learned them.
THEOREM LatestIsShown == Spec => []LatestShown
<1>1. IInv => LatestShown
  <2> SUFFICES ASSUME IInv, NEW c \in Client, NEW k \in Key \ draft[c],
                      NEW n \in Touching(c, k), \A m \in Touching(c, k) : ~Precedes(n, m)
               PROVE  view[c][k] = log[n][k]
    BY DEF LatestShown
  <2>1. PICK t \in Touching(c, k) : Tops(t, c, k) BY DEF IInv, Topped
  <2>2. t = n BY <2>1 DEF Tops
  <2> QED BY <2>1, <2>2 DEF Tops
<1> QED BY <1>1, Invariant, PTL

\* For any number of clients, rows and writes: clients that know the same writes agree on
\* every row that was ever written.
THEOREM ClientsAgree == Spec => []Agreement
<1>1. IInv => Agreement
  <2> SUFFICES ASSUME IInv, NEW c \in Client, NEW d \in Client,
                      known[c] = known[d], draft[c] = {}, draft[d] = {},
                      NEW k \in Key, Touching(c, k) # {}
               PROVE  view[c][k] = view[d][k]
    BY DEF Agreement
  <2>1. Touching(d, k) = Touching(c, k) BY DEF Touching
  <2>2. PICK t \in Touching(c, k) : Tops(t, c, k) BY DEF IInv, Topped
  <2>3. PICK u \in Touching(c, k) : Tops(u, d, k) BY <2>1 DEF IInv, Topped
  <2>4. t = u
    <3>1. t \in Name /\ u \in Name BY DEF Touching, IInv, Typed
    <3>2. t # u => Precedes(u, t) /\ Precedes(t, u) BY <2>1, <2>2, <2>3 DEF Tops
    <3> QED BY <3>1, <3>2, PrecedesStrict
  <2> QED BY <2>2, <2>3, <2>4 DEF Tops
<1> QED BY <1>1, Invariant, PTL

===================================================================================
