----------------------------- MODULE ChatClient -----------------------------
(***************************************************************************)
(* The clients of client.c (the same program in project1 and project2):    *)
(* a client logs in, joins Common, and then does what its user types.  The *)
(* server keeps the membership; the client only keeps the name of the      *)
(* channel that plain text goes to.                                        *)
(***************************************************************************)
EXTENDS UdpNet

CONSTANTS
  Commands,      \* the commands users type, of those below
  MaxCommands    \* bound: commands typed by all users together

AllCommands == {"join", "leave", "switch", "say", "list", "who", "exit"}

ASSUME ClientAssumption ==
  /\ Commands \subseteq AllCommands
  /\ MaxCommands \in Nat

VARIABLES
  phase,         \* "off", "login", "online" or "exited"
  active,        \* active_channel
  typed,         \* commands typed so far
  says           \* messages typed so far

clientVars == <<phase, active, typed, says>>

ClientTypeOK ==
  /\ phase \in [Client -> {"off", "login", "online", "exited"}]
  /\ active \in [Client -> Channel \cup {NoChannel}]
  /\ typed \in 0 .. MaxCommands
  /\ says \in 0 .. MaxSays

ClientInit ==
  /\ phase = [c \in Client |-> "off"]
  /\ active = [c \in Client |-> NoChannel]
  /\ typed = 0
  /\ says = 0

Request(c, d) == inbox' = SendAll(inbox, {Home[c]}, d)

\* main() up to the first prompt: login, then join_channel "Common".
Login(c) ==
  /\ phase[c] = "off"
  /\ Request(c, [type |-> "REQ_LOGIN", src |-> c])
  /\ phase' = [phase EXCEPT ![c] = "login"]
  /\ UNCHANGED <<active, typed, says>>

JoinCommon(c) ==
  /\ phase[c] = "login"
  /\ Request(c, [type |-> "REQ_JOIN", src |-> c, channel |-> Common])
  /\ phase' = [phase EXCEPT ![c] = "online"]
  /\ active' = [active EXCEPT ![c] = Common]
  /\ UNCHANGED <<typed, says>>

\* The user of c types a command of the given kind.
Typed(c, command) ==
  /\ phase[c] = "online"
  /\ command \in Commands
  /\ typed < MaxCommands
  /\ typed' = typed + 1

TypeJoin(c) ==
  /\ Typed(c, "join")
  /\ \E x \in Channel :
       /\ Request(c, [type |-> "REQ_JOIN", src |-> c, channel |-> x])
       /\ active' = [active EXCEPT ![c] = x]
  /\ UNCHANGED <<phase, says>>

TypeLeave(c) ==
  /\ Typed(c, "leave")
  /\ \E x \in Channel :
       /\ Request(c, [type |-> "REQ_LEAVE", src |-> c, channel |-> x])
       /\ active' = [active EXCEPT ![c] = IF @ = x THEN NoChannel ELSE @]
  /\ UNCHANGED <<phase, says>>

\* /switch takes any name: only the server knows the channels of a user.
TypeSwitch(c) ==
  /\ Typed(c, "switch")
  /\ \E x \in Channel : active' = [active EXCEPT ![c] = x]
  /\ UNCHANGED <<phase, says, inbox>>

\* Mutant of TypeText: the answer "No active channel" is missing.
TypeTextAnywhere(c) ==
  /\ Typed(c, "say")
  /\ says < MaxSays
  /\ says' = says + 1
  /\ Request(c, [type |-> "REQ_SAY", src |-> c, channel |-> active[c],
                 text |-> [msg |-> says + 1, whole |-> TRUE]])
  /\ UNCHANGED <<phase, active>>

TypeText(c) ==
  /\ Typed(c, "say")
  /\ active[c] # NoChannel
  /\ says < MaxSays
  /\ says' = says + 1
  /\ Request(c, [type |-> "REQ_SAY", src |-> c, channel |-> active[c],
                 text |-> [msg |-> says + 1, whole |-> TRUE]])
  /\ UNCHANGED <<phase, active>>

TypeList(c) ==
  /\ Typed(c, "list")
  /\ Request(c, [type |-> "REQ_LIST", src |-> c])
  /\ UNCHANGED <<phase, active, says>>

TypeWho(c) ==
  /\ Typed(c, "who")
  /\ \E x \in Channel : Request(c, [type |-> "REQ_WHO", src |-> c, channel |-> x])
  /\ UNCHANGED <<phase, active, says>>

\* Mutant of TypeExit: the client goes on after it has logged out.
TypeExitAndStay(c) ==
  /\ Typed(c, "exit")
  /\ Request(c, [type |-> "REQ_LOGOUT", src |-> c])
  /\ UNCHANGED <<phase, active, says>>

TypeExit(c) ==
  /\ Typed(c, "exit")
  /\ Request(c, [type |-> "REQ_LOGOUT", src |-> c])
  /\ phase' = [phase EXCEPT ![c] = "exited"]
  /\ UNCHANGED <<active, says>>

ClientStep(c) ==
  \/ Login(c) \/ JoinCommon(c)
  \/ TypeJoin(c) \/ TypeLeave(c) \/ TypeSwitch(c) \/ TypeText(c)
  \/ TypeList(c) \/ TypeWho(c) \/ TypeExit(c)
=============================================================================
