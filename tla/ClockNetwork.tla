------------------------------- MODULE ClockNetwork -------------------------------
(***************************************************************************)
(* The clocks of all clients, and the timestamps that travel between them  *)
(* in changeset file names.  A client stamps a changeset with now()        *)
(* (SyncEngine::endWrite, onTransactionCommitted, snapshotIfNeeded) and    *)
(* feeds the timestamp of every changeset it reads to receive()            *)
(* (SyncEngine::applyOneChangeset).  What a changeset contains is left to  *)
(* module SyncEngine: here only the order of the timestamps matters.       *)
(*                                                                         *)
(* Every call reads the wall clock anew, and no reading is related to an   *)
(* earlier one or to another client's: clocks are skewed and are set back. *)
(***************************************************************************)
EXTENDS HybridLogicalClock, FiniteSets

CONSTANTS Client,       \* the devices that share a folder
          Wall,         \* the readings, in milliseconds, a wall clock can give
          StartLogical, \* logical counters the clocks may have reached before
          MaxStamps,    \* bound: how many timestamps are issued in all
          MaxRepeats    \* bound: how many times a timestamp is read again, in all

ASSUME WallAssumption == Wall \subseteq Nat
ASSUME StartAssumption == StartLogical \subseteq 0 .. LogicalValues - 1
ASSUME BoundsAssumption == MaxStamps \in Nat /\ MaxRepeats \in Nat

VARIABLES
  clock,   \* clock[c]: the word `hlc` of c's clock
  known,   \* known[c]: the timestamps c has issued or received so far
  sent,    \* the issued timestamps, each with what its issuer knew before
  top,     \* history: the highest reading any clock has taken so far
  wrapped, \* history: some logical counter has wrapped
  repeats  \* how many times a timestamp was read again

vars == <<clock, known, sent, top, wrapped, repeats>>

\* A running system: the constructor packed a wall reading with a logical
\* counter of zero, and the counter has advanced to some value since, by
\* timestamps whose changesets could not be written.
Init ==
  /\ \E start \in [Client -> Wall \X StartLogical] :
       /\ clock = [c \in Client |-> Pack(start[c][1], start[c][2])]
       /\ top \in Wall
       /\ \A c \in Client : start[c][1] <= top
       /\ \E c \in Client : start[c][1] = top
  /\ known = [c \in Client |-> {}]
  /\ sent = {}
  /\ wrapped = FALSE
  /\ repeats = 0

\* c stamps a changeset of its own.
Issue(c) ==
  /\ Cardinality(sent) < MaxStamps
  /\ \E w \in Wall :
       LET h == Now(clock[c], w)
       IN  /\ clock' = [clock EXCEPT ![c] = h]
           /\ known' = [known EXCEPT ![c] = @ \cup {h}]
           /\ sent' = sent \cup {[by |-> c, stamp |-> h, past |-> known[c]]}
           /\ top' = Later(top, w)
           /\ wrapped' = (wrapped \/ NowWraps(clock[c], w))
  /\ UNCHANGED repeats

\* c reads a changeset: one that is new to it, or one that it could not apply, which it
\* reads again at every sync(), in both passes; its own, too, when it was not marked.
Merge(c) ==
  \E w \in Wall, m \in sent :
    /\ IF m.stamp \in known[c]
         THEN repeats < MaxRepeats /\ repeats' = repeats + 1
         ELSE UNCHANGED repeats
    /\ clock' = [clock EXCEPT ![c] = Receive(@, m.stamp, w)]
    /\ known' = [known EXCEPT ![c] = @ \cup {m.stamp}]
    /\ top' = Later(top, w)
    /\ wrapped' = (wrapped \/ ReceiveWraps(clock[c], m.stamp, w))
    /\ UNCHANGED sent

Next == \E c \in Client : Issue(c) \/ Merge(c)

Spec == Init /\ [][Next]_vars

-----------------------------------------------------------------------------------
Message == [by : Client, stamp : Nat, past : SUBSET Nat]

TypeOK ==
  /\ clock \in [Client -> Nat]
  /\ known \in [Client -> SUBSET Nat]
  /\ sent \subseteq Message
  /\ top \in Nat
  /\ wrapped \in BOOLEAN
  /\ repeats \in 0 .. MaxRepeats

\* The clock of a client is at or above every timestamp it has issued or
\* received: what endWrite() relies on when it stamps a change as newer than
\* everything that has been synced.
ClockCoversKnown ==
  ~wrapped => \A c \in Client : \A h \in known[c] : h <= clock[c]

\* Happened-before: a timestamp is above every timestamp its issuer had
\* issued or received before, whatever the wall clocks do, as long as no
\* logical counter has wrapped.  SyncEngine.h promises this of a write that
\* follows a sync ("any subsequent local write is guaranteed to have a higher
\* HLC than anything previously synced").
CausalOrder ==
  ~wrapped => \A m \in sent : \A h \in m.past : h < m.stamp

\* No clock runs ahead of the most advanced wall clock in the system: being
\* shown timestamps, however often, never pushes the physical part beyond a
\* reading somebody really took.
NotAheadOfTop ==
  /\ \A c \in Client : Physical(clock[c]) <= top
  /\ \A m \in sent : Physical(m.stamp) <= top

\* A clock never goes back to an earlier millisecond, although its wall clock may; and every
\* call of now() and receive() moves it strictly forward, also one that is shown a timestamp
\* again, unless a counter wraps.  So a wrap confuses the order within its millisecond only.
ClockForward ==
  [][\A c \in Client :
       /\ Physical(clock'[c]) >= Physical(clock[c])
       /\ (Issue(c) \/ Merge(c)) /\ ~wrapped' => clock'[c] > clock[c]]_vars

===================================================================================
