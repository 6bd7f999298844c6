---------------------------- MODULE ClockNetworkProofs ----------------------------
(***************************************************************************)
(* The promises of the clocks for any number of clients, any wall clocks   *)
(* and any number of timestamps.  The inductive invariant is the           *)
(* conjunction of what the runs check: none of its parts is inductive      *)
(* alone, because a timestamp exceeds what its issuer knew only through    *)
(* the clock that covers it.                                               *)
(***************************************************************************)
EXTENDS ClockNetwork, HybridLogicalClockProofs

IInv == TypeOK /\ ClockCoversKnown /\ CausalOrder /\ NotAheadOfTop

\* The values of a logical counter are naturals.
LEMMA CounterType == \A l \in 0 .. LogicalValues - 1 : l \in Nat
  BY DEF LogicalValues

\* What ClockForward says of the client that calls now() or receive(), and of the others.
Moves(c) ==
  /\ \A d \in Client \ {c} : clock'[d] = clock[d]
  /\ Physical(clock'[c]) >= Physical(clock[c])
  /\ ~wrapped' => clock'[c] > clock[c]

LEMMA InitIInv == Init => IInv
<1> SUFFICES ASSUME Init PROVE IInv
  OBVIOUS
<1>1. PICK start \in [Client -> Wall \X StartLogical] :
        /\ clock = [c \in Client |-> Pack(start[c][1], start[c][2])]
        /\ top \in Wall
        /\ \A c \in Client : start[c][1] <= top
  BY DEF Init
<1>2. \A c \in Client : clock[c] \in Nat /\ Physical(clock[c]) = start[c][1]
  <2> TAKE c \in Client
  <2>1. start[c][1] \in Nat /\ start[c][2] \in Nat
    <3>1. start[c] \in Wall \X StartLogical
      BY <1>1
    <3>2. start[c][1] \in Wall /\ start[c][2] \in StartLogical
      BY <3>1
    <3>3. start[c][1] \in Nat /\ start[c][2] \in 0 .. LogicalValues - 1
      BY Zenon, <3>2, WallAssumption, StartAssumption
    <3> QED BY Zenon, <3>3, CounterType
  <2>2. clock[c] = Pack(start[c][1], start[c][2])
    BY <1>1
  <2> QED BY <2>1, <2>2, PartsOfPack
<1>3. clock \in [Client -> Nat]
  BY <1>1, <1>2
<1>4. /\ known = [c \in Client |-> {}] /\ sent = {} /\ wrapped = FALSE /\ repeats = 0
  BY DEF Init
<1>5. TypeOK
  <2>1. wrapped \in BOOLEAN
    BY Zenon, <1>4
  <2>2. repeats \in 0 .. MaxRepeats
    BY <1>4, BoundsAssumption
  <2> QED BY <1>1, <1>3, <1>4, <2>1, <2>2, WallAssumption DEF TypeOK
<1>6. ClockCoversKnown /\ CausalOrder
  BY <1>4 DEF ClockCoversKnown, CausalOrder
<1>7. NotAheadOfTop
  BY <1>1, <1>2, <1>4 DEF NotAheadOfTop
<1> QED BY <1>5, <1>6, <1>7 DEF IInv

\* One call to now() keeps the invariant: the new timestamp is above the
\* clock, which covers all its issuer knew.
LEMMA IssueIInv ==
  ASSUME IInv, NEW c \in Client, Issue(c)
  PROVE  IInv' /\ Moves(c)
<1> USE DEF IInv, TypeOK
<1>1. PICK w \in Wall :
        LET h == Now(clock[c], w)
        IN  /\ clock' = [clock EXCEPT ![c] = h]
            /\ known' = [known EXCEPT ![c] = @ \cup {h}]
            /\ sent' = sent \cup {[by |-> c, stamp |-> h, past |-> known[c]]}
            /\ top' = Later(top, w)
            /\ wrapped' = (wrapped \/ NowWraps(clock[c], w))
            /\ repeats' = repeats
  BY Zenon DEF Issue
<1> DEFINE h == Now(clock[c], w)
           m == [by |-> c, stamp |-> h, past |-> known[c]]
<1>2. w \in Nat /\ clock[c] \in Nat /\ Physical(clock[c]) \in Nat
  BY WallAssumption, PartsOfWord
<1>3. h \in Nat /\ Physical(h) = Later(Physical(clock[c]), w)
  BY <1>2, NowPhysical
<1>4. ~wrapped' => ~wrapped /\ h > clock[c]
  <2> SUFFICES ASSUME ~wrapped' PROVE ~wrapped /\ h > clock[c]
    OBVIOUS
  <2>1. ~wrapped /\ ~NowWraps(clock[c], w)
    BY Zenon, <1>1
  <2> QED BY <1>2, <2>1, NowAdvances
<1>5. top' \in Nat /\ top' >= top /\ top' >= w
  BY <1>1, <1>2, LaterOfTwo
<1> HIDE DEF h
<1>6. /\ clock' = [clock EXCEPT ![c] = h]
      /\ known' = [known EXCEPT ![c] = @ \cup {h}]
      /\ sent' = sent \cup {m}
  BY <1>1 DEF h
<1>7. TypeOK'
  <2>1. m \in Message
    BY <1>3 DEF Message
  <2>2. wrapped' \in BOOLEAN /\ repeats' = repeats
    BY Zenon, <1>1
  <2> HIDE DEF m
  <2> QED BY <1>3, <1>5, <1>6, <2>1, <2>2
<1>8. ClockCoversKnown'
  <2> SUFFICES ASSUME ~wrapped', NEW d \in Client, NEW k \in known'[d]
               PROVE  k <= clock'[d]
    BY DEF ClockCoversKnown
  <2>1. \A e \in known[d] : e \in Nat /\ e <= clock[d]
    BY <1>4 DEF ClockCoversKnown
  <2> QED BY <1>2, <1>3, <1>4, <1>6, <2>1
<1>9. CausalOrder'
  <2> SUFFICES ASSUME ~wrapped', NEW n \in sent', NEW k \in n.past
               PROVE  k < n.stamp
    BY DEF CausalOrder
  <2>1. CASE n \in sent
    BY <1>4, <2>1 DEF CausalOrder
  <2>2. CASE n = m
    <3>1. k \in known[c] /\ n.stamp = h
      BY <2>2
    <3>2. k \in Nat /\ k <= clock[c]
      BY <1>4, <3>1 DEF ClockCoversKnown
    <3> QED BY <1>2, <1>3, <1>4, <3>1, <3>2
  <2> QED BY <1>6, <2>1, <2>2
<1>10. NotAheadOfTop'
  <2>1. Physical(h) <= top'
    BY <1>2, <1>3, <1>5 DEF NotAheadOfTop, Later
  <2>2. \A d \in Client : Physical(clock'[d]) <= top'
    <3> TAKE d \in Client
    <3>1. CASE d = c
      BY <1>6, <2>1, <3>1
    <3>2. CASE d # c
      <4>1. clock'[d] = clock[d] /\ Physical(clock[d]) \in Nat
        BY <1>6, <3>2, PartsOfWord
      <4> QED BY <1>5, <4>1 DEF NotAheadOfTop
    <3> QED BY <3>1, <3>2
  <2>3. \A n \in sent' : Physical(n.stamp) <= top'
    <3> TAKE n \in sent'
    <3>1. CASE n \in sent
      <4>1. n.stamp \in Nat
        BY <3>1 DEF Message
      <4>2. Physical(n.stamp) \in Nat
        BY <4>1, PartsOfWord
      <4> QED BY <1>5, <3>1, <4>2 DEF NotAheadOfTop
    <3>2. CASE n = m
      BY <2>1, <3>2
    <3> QED BY <1>6, <3>1, <3>2
  <2> QED BY <2>2, <2>3 DEF NotAheadOfTop
<1>11. Moves(c)
  <2>1. Physical(h) >= Physical(clock[c])
    BY <1>2, <1>3, LaterOfTwo
  <2> QED BY <1>4, <1>6, <2>1 DEF Moves
<1> QED BY <1>7, <1>8, <1>9, <1>10, <1>11

\* One call to receive() keeps the invariant: the clock passes both what it
\* covered and the timestamp it is shown.
LEMMA MergeIInv ==
  ASSUME IInv, NEW c \in Client, Merge(c)
  PROVE  IInv' /\ Moves(c)
<1> USE DEF IInv, TypeOK
<1>1. PICK w \in Wall, m \in sent :
        /\ clock' = [clock EXCEPT ![c] = Receive(@, m.stamp, w)]
        /\ known' = [known EXCEPT ![c] = @ \cup {m.stamp}]
        /\ top' = Later(top, w)
        /\ wrapped' = (wrapped \/ ReceiveWraps(clock[c], m.stamp, w))
        /\ sent' = sent
        /\ repeats' = repeats \/ (repeats < MaxRepeats /\ repeats' = repeats + 1)
  BY Zenon DEF Merge
<1> DEFINE r == m.stamp
           h == Receive(clock[c], r, w)
<1>2. /\ w \in Nat /\ clock[c] \in Nat /\ r \in Nat
      /\ Physical(clock[c]) \in Nat /\ Physical(r) \in Nat
  <2>1. w \in Nat /\ clock[c] \in Nat /\ r \in Nat
    BY WallAssumption DEF Message
  <2> QED BY <2>1, PartsOfWord
<1>3. h \in Nat /\ Physical(h) = Later(w, Later(Physical(clock[c]), Physical(r)))
  BY <1>2, ReceivePhysical
<1>4. ~wrapped' => ~wrapped /\ h > clock[c] /\ h > r
  <2> SUFFICES ASSUME ~wrapped' PROVE ~wrapped /\ h > clock[c] /\ h > r
    OBVIOUS
  <2>1. ~wrapped /\ ~ReceiveWraps(clock[c], r, w)
    BY Zenon, <1>1
  <2> QED BY <1>2, <2>1, ReceiveAdvances
<1>5. top' \in Nat /\ top' >= top /\ top' >= w
  BY <1>1, <1>2, LaterOfTwo
<1>6. Physical(clock[c]) <= top /\ Physical(r) <= top
  BY DEF NotAheadOfTop
<1> HIDE DEF h
<1>7. /\ clock' = [clock EXCEPT ![c] = h]
      /\ known' = [known EXCEPT ![c] = @ \cup {r}]
      /\ sent' = sent
  BY <1>1 DEF h
<1> HIDE DEF r
<1>8. TypeOK'
  <2>1. wrapped' \in BOOLEAN
    BY Zenon, <1>1
  <2>2. repeats' \in 0 .. MaxRepeats
    BY <1>1, BoundsAssumption
  <2> QED BY <1>2, <1>3, <1>5, <1>7, <2>1, <2>2
<1>9. ClockCoversKnown'
  <2> SUFFICES ASSUME ~wrapped', NEW d \in Client, NEW k \in known'[d]
               PROVE  k <= clock'[d]
    BY DEF ClockCoversKnown
  <2>1. \A e \in known[d] : e \in Nat /\ e <= clock[d]
    BY <1>4 DEF ClockCoversKnown
  <2> QED BY <1>2, <1>3, <1>4, <1>7, <2>1
<1>10. CausalOrder'
  BY <1>4, <1>7 DEF CausalOrder
<1>11. NotAheadOfTop'
  <2>1. Physical(h) <= top'
    <3> DEFINE both == Later(Physical(clock[c]), Physical(r))
    <3>1. both \in Nat /\ both <= top
      BY <1>2, <1>6 DEF Later
    <3> HIDE DEF both
    <3>2. Physical(h) = Later(w, both)
      BY <1>3 DEF both
    <3> QED BY <1>2, <1>5, <3>1, <3>2 DEF Later
  <2>2. \A d \in Client : Physical(clock'[d]) <= top'
    <3> TAKE d \in Client
    <3>1. CASE d = c
      BY <1>7, <2>1, <3>1
    <3>2. CASE d # c
      <4>1. clock'[d] = clock[d] /\ Physical(clock[d]) \in Nat
        BY <1>7, <3>2, PartsOfWord
      <4> QED BY <1>5, <4>1 DEF NotAheadOfTop
    <3> QED BY <3>1, <3>2
  <2>3. \A n \in sent' : Physical(n.stamp) <= top'
    <3> TAKE n \in sent'
    <3>1. n.stamp \in Nat /\ n \in sent
      BY <1>7 DEF Message
    <3>2. Physical(n.stamp) \in Nat
      BY <3>1, PartsOfWord
    <3> QED BY <1>5, <3>1, <3>2 DEF NotAheadOfTop
  <2> QED BY <2>2, <2>3 DEF NotAheadOfTop
<1>12. Moves(c)
  <2>1. Physical(h) >= Physical(clock[c])
    <3> DEFINE both == Later(Physical(clock[c]), Physical(r))
    <3>1. both \in Nat /\ both >= Physical(clock[c])
      BY <1>2, LaterOfTwo
    <3> HIDE DEF both
    <3>2. Physical(h) = Later(w, both)
      BY <1>3 DEF both
    <3> QED BY <1>2, <3>1, <3>2 DEF Later
  <2> QED BY <1>4, <1>7, <2>1 DEF Moves
<1> QED BY <1>8, <1>9, <1>10, <1>11, <1>12

LEMMA StepIInv == IInv /\ [Next]_vars => IInv'
<1> SUFFICES ASSUME IInv, [Next]_vars PROVE IInv'
  OBVIOUS
<1>1. CASE Next
  BY Zenon, <1>1, IssueIInv, MergeIInv DEF Next
<1>2. CASE UNCHANGED vars
  BY <1>2 DEF vars, IInv, TypeOK, ClockCoversKnown, CausalOrder, NotAheadOfTop
<1> QED BY <1>1, <1>2

THEOREM SpecIInv == Spec => []IInv
  BY InitIInv, StepIInv, PTL DEF Spec

\* The state of the clocks is well typed in every reachable state, for any
\* set of clients and of wall readings.
THEOREM TypeCorrect == Spec => []TypeOK
<1>1. IInv => TypeOK
  BY DEF IInv
<1> QED BY <1>1, SpecIInv, PTL

\* The clock of a client is at or above every timestamp the client has stamped or merged,
\* for as long as no counter has wrapped: it is what makes the next timestamp new.
THEOREM KnownIsCovered == Spec => []ClockCoversKnown
<1>1. IInv => ClockCoversKnown
  BY DEF IInv
<1> QED BY <1>1, SpecIInv, PTL

\* A change stamped by a client that knows of another change has the higher
\* timestamp (unless a 16-bit counter wrapped): the total order in which
\* pendingChangesets() sorts and the resolver decides extends causality.
THEOREM Causality == Spec => [](ClockCoversKnown /\ CausalOrder)
<1>1. IInv => ClockCoversKnown /\ CausalOrder
  BY DEF IInv
<1> QED BY <1>1, SpecIInv, PTL

\* Exchanging timestamps never drives a clock beyond the furthest wall clock.
THEOREM BoundedDrift == Spec => []NotAheadOfTop
<1>1. IInv => NotAheadOfTop
  BY DEF IInv
<1> QED BY <1>1, SpecIInv, PTL

\* No call takes a clock back to an earlier millisecond, also when its wall clock was set
\* back, and every call moves it strictly forward while no counter wraps.
THEOREM Forward == Spec => ClockForward
<1> DEFINE Step == \A c \in Client :
                     /\ Physical(clock'[c]) >= Physical(clock[c])
                     /\ (Issue(c) \/ Merge(c)) /\ ~wrapped' => clock'[c] > clock[c]
<1>1. ASSUME IInv, [Next]_vars PROVE [Step]_vars
  <2>1. CASE UNCHANGED vars
    BY <2>1
  <2>2. ASSUME NEW d \in Client, Issue(d) \/ Merge(d)
        PROVE  Step
    <3>1. \A c \in Client : Issue(c) \/ Merge(c) => Moves(c)
      BY Zenon, <1>1, IssueIInv, MergeIInv
    <3>2. \A c \in Client : Physical(clock[c]) >= Physical(clock[c])
      <4> TAKE c \in Client
      <4>1. clock[c] \in Nat
        BY <1>1 DEF IInv, TypeOK
      <4> QED BY <4>1, PartsOfWord
    <3>3. \A c \in Client : Physical(clock'[c]) >= Physical(clock[c])
      BY <2>2, <3>1, <3>2 DEF Moves
    <3> QED BY Zenon, <3>1, <3>3 DEF Moves
  <2> QED BY Zenon, <1>1, <2>1, <2>2 DEF Next
<1> QED BY <1>1, SpecIInv, PTL DEF Spec, ClockForward

===================================================================================
