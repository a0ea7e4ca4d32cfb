---------------------------- MODULE MCSoloServer ----------------------------
(***************************************************************************)
(* Instances of SoloServer for TLC: one server and up to two clients.      *)
(***************************************************************************)
EXTENDS SoloServer

CONSTANTS a, u, v

HomeA == [x \in {u, v} |-> a]
OwnNames == [x \in {u, v} |-> x]
Zero == {0}
NoIds == {}
=============================================================================
