----------------------------- MODULE MCRelayNet -----------------------------
(***************************************************************************)
(* Instances of RelayNet for TLC: topologies of two and three servers.     *)
(***************************************************************************)
EXTENDS RelayNet

CONSTANTS a, b, c, u, v

Pair == [s \in {a, b} |-> {a, b} \ {s}]
Line == [s \in {a, b, c} |-> IF s = b THEN {a, c} ELSE {b}]
Ring == [s \in {a, b, c} |-> {a, b, c} \ {s}]

ASSUME TopologyAssumption ==
  /\ Acyclic(Pair) /\ Acyclic(Line) /\ ~Acyclic(Ring)
  /\ Connected(Pair) /\ Connected(Line) /\ Connected(Ring)

HomeAA == [x \in {u, v} |-> a]
HomeAB == [x \in {u, v} |-> IF x = u THEN a ELSE b]
HomeAC == [x \in {u, v} |-> IF x = u THEN a ELSE c]
OneHome == [x \in {u} |-> a]

OwnNames == [x \in {u, v} |-> x]
SameName == [x \in {u, v} |-> "bob"]

\* Each message draws an identifier of its own.
Ids == Message
Distinct == [m \in Message |-> {m}]

\* Counters in memory that was never used before.
Zero == {0}
=============================================================================
