------------------------------ MODULE ChatRoom ------------------------------
(***************************************************************************)
(* What the servers of project2 promise their users together, as if there  *)
(* were one server: users enter and leave channels, and a message said on  *)
(* a channel is handed to users who are in it, to each user at one moment  *)
(* only.  A user who entered a channel several times has several entries   *)
(* and is sent as many copies.                                             *)
(***************************************************************************)
EXTENDS Naturals

CONSTANTS Client, Channel, Message, NoChannel

VARIABLES
  entries,       \* entries[x][c]: times client c is in channel x
  topic,         \* topic[m]: the channel m was said on, or NoChannel
  copies         \* copies[m][c]: copies of m that client c was sent

roomVars == <<entries, topic, copies>>

Init ==
  /\ entries = [x \in Channel |-> [c \in Client |-> 0]]
  /\ topic = [m \in Message |-> NoChannel]
  /\ copies = [m \in Message |-> [c \in Client |-> 0]]

Enter(c, x) ==
  /\ entries' = [entries EXCEPT ![x][c] = @ + 1]
  /\ UNCHANGED <<topic, copies>>

\* Client c gives up one entry in each channel of X.
Leave(c, X) ==
  /\ \A x \in X : entries[x][c] > 0
  /\ entries' = [x \in Channel |-> IF x \in X THEN [entries[x] EXCEPT ![c] = @ - 1]
                                              ELSE entries[x]]
  /\ UNCHANGED <<topic, copies>>

\* Message m, said on channel x, reaches the clients of C for the first time.
Hand(m, x, C) ==
  /\ \A c \in C : entries[x][c] > 0 /\ copies[m][c] = 0
  /\ copies' = [copies EXCEPT ![m] =
                  [c \in Client |-> IF c \in C THEN entries[x][c] ELSE @[c]]]
  /\ UNCHANGED entries

Say(m, x) ==
  /\ topic[m] = NoChannel
  /\ topic' = [topic EXCEPT ![m] = x]
  /\ \E C \in SUBSET Client : Hand(m, x, C)

Relay(m) ==
  /\ topic[m] # NoChannel
  /\ \E C \in SUBSET Client : Hand(m, topic[m], C)
  /\ UNCHANGED topic

Next ==
  \/ \E c \in Client, x \in Channel : Enter(c, x)
  \/ \E c \in Client, X \in SUBSET Channel : Leave(c, X)
  \/ \E m \in Message, x \in Channel : Say(m, x)
  \/ \E m \in Message : Relay(m)

Spec == Init /\ [][Next]_roomVars
=============================================================================
