------------------------- MODULE HybridLogicalClockProofs -------------------------
(***************************************************************************)
(* What the two operations of the clock guarantee for every timestamp and  *)
(* every reading of the wall clock.                                        *)
(***************************************************************************)
EXTENDS HybridLogicalClock, TLAPS

\* The two parts of a word are naturals and give it back: packing loses
\* nothing of a timestamp (physicalComponent, logicalComponent, pack).
LEMMA PartsOfWord ==
  ASSUME NEW h \in Nat
  PROVE  /\ Physical(h) \in Nat
         /\ Logical(h) \in 0 .. LogicalValues - 1
         /\ h = Physical(h) * LogicalValues + Logical(h)
<1>1. /\ Physical(h) \in Nat /\ Logical(h) \in Nat /\ Logical(h) < LogicalValues
      /\ h = Physical(h) * LogicalValues + Logical(h)
  BY SMTT(30) DEF Physical, Logical, LogicalValues
<1>2. LogicalValues \in Nat
  BY DEF LogicalValues
<1> QED BY <1>1, <1>2

\* A packed word has the physical part it was given, whatever the counter
\* is, and, as long as the counter fits, that counter.
LEMMA PartsOfPack ==
  ASSUME NEW p \in Nat, NEW l \in Nat
  PROVE  /\ Pack(p, l) \in Nat
         /\ Physical(Pack(p, l)) = p
         /\ l < LogicalValues => Logical(Pack(p, l)) = l
         /\ l < LogicalValues => Pack(p, l) = p * LogicalValues + l
  BY SMTT(30) DEF Pack, Physical, Logical, LogicalValues

LEMMA LaterOfTwo ==
  ASSUME NEW a \in Nat, NEW b \in Nat
  PROVE  Later(a, b) \in Nat /\ Later(a, b) >= a /\ Later(a, b) >= b
         /\ (Later(a, b) = a \/ Later(a, b) = b)
  BY DEF Later

\* now() takes the physical part from the clock or from the wall, whichever
\* is ahead.
LEMMA NowPhysical ==
  ASSUME NEW h \in Nat, NEW w \in Nat
  PROVE  Now(h, w) \in Nat /\ Physical(Now(h, w)) = Later(Physical(h), w)
<1>1. Physical(h) \in Nat /\ Logical(h) + 1 \in Nat
  BY DEF Physical, Logical, LogicalValues
<1>2. CASE w > Physical(h)
  BY <1>1, <1>2, PartsOfPack DEF Now, Later
<1>3. CASE ~(w > Physical(h))
  BY <1>1, <1>3, PartsOfPack DEF Now, Later
<1> QED BY <1>2, <1>3

\* now() moves the clock strictly forward unless it wraps the counter: also
\* when the wall clock stands still or was set back.
LEMMA NowAdvances ==
  ASSUME NEW h \in Nat, NEW w \in Nat, ~NowWraps(h, w)
  PROVE  Now(h, w) > h
<1>1. /\ Physical(h) \in Nat /\ Logical(h) \in Nat /\ Logical(h) < LogicalValues
      /\ h = Physical(h) * LogicalValues + Logical(h)
  BY DEF Physical, Logical, LogicalValues
<1>2. CASE w > Physical(h)
  <2>1. Now(h, w) = w * LogicalValues
    BY <1>2, PartsOfPack DEF Now, LogicalValues
  <2> QED BY <1>1, <1>2, <2>1 DEF LogicalValues
<1>3. CASE ~(w > Physical(h))
  <2>1. Logical(h) + 1 < LogicalValues
    BY <1>1, <1>3 DEF NowWraps, AtLimit, LogicalValues
  <2>2. Now(h, w) = Physical(h) * LogicalValues + (Logical(h) + 1)
    BY <1>1, <1>3, <2>1, PartsOfPack DEF Now
  <2> QED BY <1>1, <2>2 DEF LogicalValues
<1> QED BY <1>2, <1>3

\* receive() takes the physical part from whichever of the clock, the
\* sender's timestamp and the wall is furthest ahead, and invents no other.
LEMMA ReceivePhysical ==
  ASSUME NEW h \in Nat, NEW r \in Nat, NEW w \in Nat
  PROVE  /\ Receive(h, r, w) \in Nat
         /\ Physical(Receive(h, r, w)) = Later(w, Later(Physical(h), Physical(r)))
<1> DEFINE ahead == Later(w, Later(Physical(h), Physical(r)))
<1>1. /\ Physical(h) \in Nat /\ Logical(h) \in Nat
      /\ Physical(r) \in Nat /\ Logical(r) \in Nat
  BY DEF Physical, Logical, LogicalValues
<1>2. ahead \in Nat /\ Later(Logical(h), Logical(r)) \in Nat
  BY <1>1, LaterOfTwo
<1>3. \E l \in Nat : Receive(h, r, w) = Pack(ahead, l)
  BY <1>1, <1>2 DEF Receive
<1> QED BY <1>2, <1>3, PartsOfPack

\* receive() leaves the clock strictly above where it was and strictly above
\* the timestamp it was shown, unless it wraps the counter.
LEMMA ReceiveAdvances ==
  ASSUME NEW h \in Nat, NEW r \in Nat, NEW w \in Nat, ~ReceiveWraps(h, r, w)
  PROVE  Receive(h, r, w) > h /\ Receive(h, r, w) > r
<1> DEFINE ahead == Later(w, Later(Physical(h), Physical(r)))
<1>1. /\ Physical(h) \in Nat /\ Logical(h) \in Nat /\ Logical(h) < LogicalValues
      /\ h = Physical(h) * LogicalValues + Logical(h)
      /\ Physical(r) \in Nat /\ Logical(r) \in Nat /\ Logical(r) < LogicalValues
      /\ r = Physical(r) * LogicalValues + Logical(r)
  BY DEF Physical, Logical, LogicalValues
<1>2. ahead \in Nat /\ ahead >= Physical(h) /\ ahead >= Physical(r)
  <2> DEFINE both == Later(Physical(h), Physical(r))
  <2>1. both \in Nat /\ both >= Physical(h) /\ both >= Physical(r)
    BY <1>1, LaterOfTwo
  <2>2. Later(w, both) \in Nat /\ Later(w, both) >= both
    <3> HIDE DEF both
    <3> QED BY <2>1, LaterOfTwo
  <2> QED BY <1>1, <2>1, <2>2
<1>3. ahead = Physical(h) => Logical(h) + 1 < LogicalValues
  BY <1>1 DEF ReceiveWraps, AtLimit, LogicalValues
<1>4. ahead = Physical(r) => Logical(r) + 1 < LogicalValues
  BY <1>1 DEF ReceiveWraps, AtLimit, LogicalValues
<1>5. CASE ahead = Physical(h) /\ ahead = Physical(r)
  <2> DEFINE l == Later(Logical(h), Logical(r)) + 1
  <2>1. l \in Nat /\ l < LogicalValues /\ l > Logical(h) /\ l > Logical(r)
    BY <1>1, <1>3, <1>4, <1>5 DEF Later, LogicalValues
  <2>2. Receive(h, r, w) = ahead * LogicalValues + l
    <3> HIDE DEF l
    <3>1. Receive(h, r, w) = Pack(ahead, l)
      BY <1>5 DEF Receive, l
    <3> QED BY <1>2, <2>1, <3>1, PartsOfPack
  <2> HIDE DEF l, ahead
  <2> QED BY <1>1, <1>5, <2>1, <2>2 DEF LogicalValues
<1>6. CASE ahead = Physical(h) /\ ahead # Physical(r)
  <2>1. Receive(h, r, w) = ahead * LogicalValues + (Logical(h) + 1)
    <3>1. Receive(h, r, w) = Pack(ahead, Logical(h) + 1)
      BY <1>6 DEF Receive
    <3> QED BY <1>1, <1>2, <1>3, <1>6, <3>1, PartsOfPack
  <2> HIDE DEF ahead
  <2> QED BY <1>1, <1>2, <1>6, <2>1 DEF LogicalValues
<1>7. CASE ahead # Physical(h) /\ ahead = Physical(r)
  <2>1. Receive(h, r, w) = ahead * LogicalValues + (Logical(r) + 1)
    <3>1. Receive(h, r, w) = Pack(ahead, Logical(r) + 1)
      BY <1>7 DEF Receive
    <3> QED BY <1>1, <1>2, <1>4, <1>7, <3>1, PartsOfPack
  <2> HIDE DEF ahead
  <2> QED BY <1>1, <1>2, <1>7, <2>1 DEF LogicalValues
<1>8. CASE ahead # Physical(h) /\ ahead # Physical(r)
  <2>1. Receive(h, r, w) = ahead * LogicalValues + 0
    <3>1. Receive(h, r, w) = Pack(ahead, 0)
      BY <1>8 DEF Receive
    <3> QED BY <1>2, <3>1, PartsOfPack DEF LogicalValues
  <2> HIDE DEF ahead
  <2>2. ahead >= Physical(h) + 1 /\ ahead >= Physical(r) + 1
    BY <1>1, <1>2, <1>8
  <2> QED BY <1>1, <1>2, <2>1, <2>2 DEF LogicalValues
<1> QED BY <1>5, <1>6, <1>7, <1>8

===================================================================================
