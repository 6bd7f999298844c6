---------------------------- MODULE HybridLogicalClock ----------------------------
(***************************************************************************)
(* The hybrid logical clock of one client, HybridLogicalClock.cpp.  A      *)
(* timestamp is one 64-bit word: the wall clock in milliseconds above a    *)
(* 16-bit logical counter.  The two operations read the wall clock; the    *)
(* reading is a parameter here, because system_clock is not monotonic and  *)
(* may give any value at any call.                                         *)
(*                                                                         *)
(* The upper 48 bits are not bounded: a millisecond count overflows them   *)
(* in the year 10889.  The logical counter does wrap, and the carry is     *)
(* lost, as in the code, where the sum is converted to uint16_t.           *)
(***************************************************************************)
EXTENDS Naturals

\* How many values the 16-bit logical counter has.
LogicalValues == 65536

Physical(h) == h \div LogicalValues

Logical(h) == h % LogicalValues

\* A logical value that does not fit 16 bits wraps: nothing carries into the
\* physical part.
Pack(physical, logical) == physical * LogicalValues + (logical % LogicalValues)

Later(a, b) == IF a >= b THEN a ELSE b

\* Slips of now() and receive(), for the mutation runs: a clock that follows the
\* wall clock back, one that counts from a later epoch, a receive() that forgets
\* the logical counter of the sender, and one that counts past the highest
\* millisecond instead of within it.
NowFollowingWall(h, w) ==
  IF w # Physical(h) THEN Pack(w, 0) ELSE Pack(Physical(h), Logical(h) + 1)

NowFromEpoch(h, w) == Pack(w - 2, Logical(h) + 1)

ReceiveOwnLogical(h, r, w) ==
  LET ahead == Later(w, Later(Physical(h), Physical(r)))
  IN  IF ahead = Physical(h) \/ ahead = Physical(r)
        THEN Pack(ahead, Logical(h) + 1)
        ELSE Pack(ahead, 0)

ReceiveNextMilli(h, r, w) ==
  Pack(Later(w, Later(Physical(h), Physical(r))) + 1, 0)

\* The next timestamp of a clock at h when the wall clock reads w.
Now(h, w) ==
  IF w > Physical(h)
    THEN Pack(w, 0)
    ELSE Pack(Physical(h), Logical(h) + 1)

\* The clock at h after it is shown the timestamp r of another client.
Receive(h, r, w) ==
  LET ahead == Later(w, Later(Physical(h), Physical(r)))
  IN  IF ahead = Physical(h) /\ ahead = Physical(r)
        THEN Pack(ahead, Later(Logical(h), Logical(r)) + 1)
      ELSE IF ahead = Physical(h)
        THEN Pack(ahead, Logical(h) + 1)
      ELSE IF ahead = Physical(r)
        THEN Pack(ahead, Logical(r) + 1)
      ELSE Pack(ahead, 0)

\* The counter of h holds its last value: adding one makes it zero.
AtLimit(h) == Logical(h) = LogicalValues - 1

\* The call Now(h, w), respectively Receive(h, r, w), wraps the counter.
NowWraps(h, w) == w <= Physical(h) /\ AtLimit(h)

ReceiveWraps(h, r, w) ==
  LET ahead == Later(w, Later(Physical(h), Physical(r)))
  IN  \/ ahead = Physical(h) /\ AtLimit(h)
      \/ ahead = Physical(r) /\ AtLimit(r)

===================================================================================
