------------------------------- MODULE UdpNet -------------------------------
(***************************************************************************)
(* The UDP sockets of the servers: one queue of datagrams per server.  On  *)
(* one host sendto() appends to the queue of the receiver and nothing is   *)
(* lost; between hosts datagrams may overtake each other (Reordering), and *)
(* up to MaxFaults of them are lost or doubled.                            *)
(***************************************************************************)
EXTENDS DuckChat, SequencesExt

CONSTANTS
  Reordering,    \* may recvfrom() return another datagram than the oldest?
  MaxFaults      \* bound: faults; here, datagrams lost or doubled

ASSUME NetworkAssumption == Reordering \in BOOLEAN /\ MaxFaults \in Nat

VARIABLES
  inbox,         \* inbox[s]: datagrams in the socket of server s
  faults         \* datagrams lost or doubled so far

netVars == <<inbox, faults>>

NetTypeOK ==
  /\ inbox \in [Server -> Seq(Datagram)]
  /\ faults \in 0 .. MaxFaults

NetInit ==
  /\ inbox = [s \in Server |-> <<>>]
  /\ faults = 0

\* The positions recvfrom() of server s may return.
Arrivals(s) == IF Reordering THEN DOMAIN inbox[s] ELSE DOMAIN inbox[s] \cap {1}

\* The queues after server s has read the datagram at position i.
After(s, i) == [inbox EXCEPT ![s] = RemoveAt(@, i)]

\* The queues q after datagram d was sent to every server of dsts.  All that a
\* handler sends, it sends in one step: on a tree of servers nobody can tell, as
\* its receivers only meet through it; elsewhere, Reordering lets a datagram
\* overtake the later of the sends.
SendAll(q, dsts, d) ==
  [s \in Server |-> IF s \in dsts THEN Append(q[s], d) ELSE q[s]]

LoseDatagram(s) ==
  /\ faults < MaxFaults
  /\ \E i \in DOMAIN inbox[s] : inbox' = After(s, i)
  /\ faults' = faults + 1

DoubleDatagram(s) ==
  /\ faults < MaxFaults
  /\ \E i \in DOMAIN inbox[s] : inbox' = SendAll(inbox, {s}, inbox[s][i])
  /\ faults' = faults + 1
=============================================================================
