------------------------------ MODULE MCClockNetwork ------------------------------
(* Small instances of ClockNetwork. *)
EXTENDS ClockNetwork, TLC

CONSTANTS c1, c2, c3

ThreeClients == {c1, c2, c3}

\* A clock that is set back by a millisecond, or behind or ahead of another.
TwoReadings == {1, 2}

\* A clock as its constructor leaves it, and one that is one event short of
\* the last value of the counter.
NearLimit == {0, LogicalValues - 2}

Symmetry == Permutations(Client)

===================================================================================
