------------------------------ MODULE DuckChat ------------------------------
(***************************************************************************)
(* The DuckChat protocol of project2/duckchat.h: who talks, and which      *)
(* datagrams they exchange.  A process is named by the port it is bound    *)
(* to; all processes share one host, as in start_servers.sh.  What a user  *)
(* types is the number of a message; a text is that number (which stands   *)
(* for the author and the words) and whether all of the words are there.   *)
(***************************************************************************)
EXTENDS Integers, Sequences, FiniteSets

CONSTANTS
  Server,        \* ports of the server processes
  Client,        \* ports of the client processes
  Home,          \* Home[c]: the server on the command line of client c
  Channel,       \* channel names
  Common,        \* the channel every client joins when it starts
  MaxSays,       \* bound: messages the users type
  LongMessage    \* messages of 24 characters or more

Node == Server \cup Client
NoChannel == "None"
Message == 1 .. MaxSays
Text == [msg : Message, whole : BOOLEAN]

ASSUME ProtocolAssumption ==
  /\ Server \cap Client = {}
  /\ IsFiniteSet(Node)
  /\ Home \in [Client -> Server]
  /\ Common \in Channel
  /\ NoChannel \notin Channel
  /\ MaxSays \in Nat
  /\ LongMessage \subseteq Message

(***************************************************************************)
(* The datagrams a server may find in its socket.  struct s2s_say carries  *)
(* the identifier (any value of Id) by which servers recognise a message   *)
(* they have already relayed.                                              *)
(***************************************************************************)
CONSTANT Id      \* identifiers drawn from /dev/urandom

LoginRequest  == [type : {"REQ_LOGIN"},  src : Client]
LogoutRequest == [type : {"REQ_LOGOUT"}, src : Client]
JoinRequest   == [type : {"REQ_JOIN"},   src : Node, channel : Channel]
LeaveRequest  == [type : {"REQ_LEAVE"},  src : Client, channel : Channel]
SayRequest    == [type : {"REQ_SAY"},    src : Client, channel : Channel,
                  text : Text]
ListRequest   == [type : {"REQ_LIST"},   src : Client]
WhoRequest    == [type : {"REQ_WHO"},    src : Client, channel : Channel]
S2SSay        == [type : {"S2S_SAY"},    src : Server, channel : Channel,
                  text : Text, id : Id]
S2SLeave      == [type : {"S2S_LEAVE"},  src : Server, channel : Channel]

Datagram == LoginRequest \cup LogoutRequest \cup JoinRequest \cup LeaveRequest
              \cup SayRequest \cup ListRequest \cup WhoRequest \cup S2SSay \cup S2SLeave

(***************************************************************************)
(* A server reads a datagram into a buffer of sizeof(struct request_say)   *)
(* = 100 bytes; struct s2s_say is 140 bytes long with its text at offset   *)
(* 76, so 24 bytes of the text survive and the rest of a longer one is     *)
(* whatever lies behind the buffer.                                        *)
(***************************************************************************)
Clip(t) == [t EXCEPT !.whole = @ /\ t.msg \notin LongMessage]
=============================================================================
