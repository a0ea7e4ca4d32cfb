----------------------------- MODULE RelayServer -----------------------------
(***************************************************************************)
(* The servers of project2/server.c.  Each is one process with one socket: *)
(* its main loop takes a datagram, runs the handler to the end, and once a *)
(* minute resends its joins.  Dereferencing the NULL that a failed search  *)
(* returned kills the server.                                              *)
(***************************************************************************)
EXTENDS UdpNet, ChannelTable

CONSTANTS
  Adjacent,      \* Adjacent[s]: the servers named on the command line of s
  Uninit,        \* values a counter in fresh malloc() memory may hold
  Draws,         \* Draws[m]: identifiers get_urandom() may return for m
  IdListSize,    \* initial capacity of ID_LIST (128 in the code)
  IdleSweeps,    \* does the timer also resend joins whenever all is quiet?
  MaxSweeps,     \* bound: other sweeps, with the faults before them, over all servers
  MaxCopies      \* history counts beyond this are not told apart

ASSUME ServerAssumption ==
  /\ Adjacent \in [Server -> SUBSET Server]
  /\ Uninit \subseteq Int
  /\ Draws \in [Message -> SUBSET Id]
  /\ IdListSize \in Nat \ {0}
  /\ IdleSweeps \in BOOLEAN
  /\ MaxSweeps \in Nat
  /\ MaxCopies \in Nat \ {0}

VARIABLES
  status,        \* "up" or "crashed"
  user_list,     \* users logged in here
  channel_list,  \* channel_list[s]: a record for each channel s has
  ID_LIST,       \* identifiers of the server-to-server messages seen
  ID_LIST_SIZE,  \* capacity of the array behind ID_LIST
  sweep,         \* channels whose joins the timer still has to resend
  sweeps         \* sweeps counted so far, for the bound

(***************************************************************************)
(* History: what reached the sockets of the clients, and which server      *)
(* relayed what.  No handler reads these.                                  *)
(***************************************************************************)
VARIABLES
  delivered,     \* delivered[c][t]: copies of text t sent to client c
  strays,        \* strays[c]: server-to-server datagrams sent to client c
  topic,         \* topic[m]: the channel m was said on
  said,          \* said[s][id]: times s drew id for a message of its user
  relayed,       \* relayed[s][id]: times s sent a message out with id
  audience       \* audience[m]: who was in the channel when m was said, with
                 \* nothing else in flight, and has not left since

serverState == <<status, user_list, channel_list, ID_LIST, ID_LIST_SIZE, sweep, sweeps>>
history == <<delivered, strays, topic, said, relayed, audience>>
serverVars == <<serverState, history>>

\* A list of channels: a record for each of some channel names.
ChannelTableOK(f) == DOMAIN f \subseteq Channel /\ f \in [DOMAIN f -> ChannelRecord]

ServerTypeOK ==
  /\ status \in [Server -> {"up", "crashed"}]
  /\ user_list \in [Server -> Seq(Client)]
  /\ DOMAIN channel_list = Server
  /\ \A s \in Server : ChannelTableOK(channel_list[s])
  /\ ID_LIST \in [Server -> Seq(Id)]
  /\ ID_LIST_SIZE \in [Server -> Nat]
  /\ sweep \in [Server -> SUBSET Channel]
  /\ sweeps \in 0 .. MaxSweeps
  /\ delivered \in [Client -> [Text -> 0 .. MaxCopies]]
  /\ strays \in [Client -> SUBSET {"S2S_SAY", "S2S_LEAVE", "REQ_JOIN"}]
  /\ topic \in [Message -> Channel \cup {NoChannel}]
  /\ said \in [Server -> [Id -> 0 .. MaxCopies]]
  /\ relayed \in [Server -> [Id -> 0 .. MaxCopies]]
  /\ audience \in [Message -> SUBSET Client]

ServerInit ==
  /\ status = [s \in Server |-> "up"]
  /\ user_list = [s \in Server |-> <<>>]
  /\ channel_list = [s \in Server |-> [x \in {} |-> create_channel(0, 0)]]
  /\ ID_LIST = [s \in Server |-> <<>>]
  /\ ID_LIST_SIZE = [s \in Server |-> IdListSize]
  /\ sweep = [s \in Server |-> {}]
  /\ sweeps = 0
  /\ delivered = [c \in Client |-> [t \in Text |-> 0]]
  /\ strays = [c \in Client |-> {}]
  /\ topic = [m \in Message |-> NoChannel]
  /\ said = [s \in Server |-> [id \in Id |-> 0]]
  /\ relayed = [s \in Server |-> [id \in Id |-> 0]]
  /\ audience = [m \in Message |-> {}]

----------------------------------------------------------------------------
Has(s, x) == x \in DOMAIN channel_list[s]

\* channel_list[s] with record ch under name x, and without name x.
WithChannel(s, x, ch) ==
  [y \in DOMAIN channel_list[s] \cup {x} |-> IF y = x THEN ch ELSE channel_list[s][y]]
remove_channel(s, x) == Restrict(channel_list[s], DOMAIN channel_list[s] \ {x})

\* Nothing is in flight or half done anywhere.
Idle ==
  \A s \in Server : status[s] = "up" /\ sweep[s] = {} /\ inbox[s] = <<>>

\* The datagrams of the given type that the main loop of s may take next.
Incoming(s, type) ==
  {i \in Arrivals(s) : /\ status[s] = "up"
                       /\ sweep[s] = {}
                       /\ inbox[s][i].type = type}

Crash(s) == status' = [status EXCEPT ![s] = "crashed"]

\* A datagram of the given kind goes to every node of dsts: servers queue
\* it, clients have it in their sockets.
Spread(q, dsts, d) ==
  /\ inbox' = SendAll(q, dsts, d)
  /\ strays' = [c \in Client |-> IF c \in dsts THEN strays[c] \cup {d.type} ELSE strays[c]]

----------------------------------------------------------------------------
RecvLogin(s) ==
  \E i \in Incoming(s, "REQ_LOGIN") :
    /\ user_list' = [user_list EXCEPT ![s] = add_user(@, inbox[s][i].src)]
    /\ inbox' = After(s, i)
    /\ UNCHANGED <<status, channel_list, ID_LIST, ID_LIST_SIZE, sweep, sweeps, history>>

\* logout() takes the user out of every channel and removes each channel
\* whose user_count is then 0, whether or not the user was in it.  Its loop
\* reads the next pointer of the record it has just freed, which free() of
\* the C library leaves as it was.
ChannelsAfterLogout(s, name) ==
  LET left == [x \in DOMAIN channel_list[s] |->
                 remove_user_from_channel(channel_list[s][x], name)]
  IN  Restrict(left, {x \in DOMAIN left : left[x].user_count # 0})

RecvLogout(s) ==
  \E i \in Incoming(s, "REQ_LOGOUT") :
    LET user == inbox[s][i].src IN
    /\ inbox' = After(s, i)
    /\ \/ /\ ~knows(user_list[s], user)
          /\ Crash(s)
          /\ UNCHANGED <<user_list, channel_list, audience>>
       \/ /\ knows(user_list[s], user)
          /\ channel_list' = [channel_list EXCEPT ![s] = ChannelsAfterLogout(s, NameOf[user])]
          /\ user_list' = [user_list EXCEPT ![s] = remove_user(@, NameOf[user])]
          /\ audience' = [m \in Message |-> audience[m] \ {user}]
          /\ UNCHANGED status
    /\ UNCHANGED <<ID_LIST, ID_LIST_SIZE, sweep, sweeps,
                   delivered, strays, topic, said, relayed>>

----------------------------------------------------------------------------
\* Mutant of JoinChannel: looks for the user in the channel, not in user_list.
JoinByMembership(s, ch, n) ==
  IF knows(ch.users, n) THEN add_user_to_channel(ch, n)
  ELSE IF n \in ch.servers THEN ch
  ELSE sub_server_to_channel(ch, n)

\* A join comes from a user if its port is in user_list, from a server
\* otherwise.
JoinChannel(s, ch, n) ==
  IF knows(user_list[s], n) THEN add_user_to_channel(ch, n)
  ELSE IF n \in ch.servers THEN ch
  ELSE sub_server_to_channel(ch, n)

RecvJoinExisting(s) ==
  \E i \in Incoming(s, "REQ_JOIN") :
    LET d == inbox[s][i] IN
    /\ Has(s, d.channel)
    /\ channel_list' = [channel_list EXCEPT ![s][d.channel] = JoinChannel(s, @, d.src)]
    /\ inbox' = After(s, i)
    /\ UNCHANGED <<status, user_list, ID_LIST, ID_LIST_SIZE, sweep, sweeps, history>>

\* send_join_adjacent_servers: the neighbours not yet subscribed to ch.
JoinTargets(s, ch) == Adjacent[s] \ ch.servers

\* Mutant of SubscribeAll: the joins are sent but the targets not subscribed.
AnnounceOnly(ch, new) == ch

SubscribeAll(ch, new) ==
  [ch EXCEPT !.servers = @ \cup new, !.server_count = @ + Cardinality(new)]

RecvJoinNew(s) ==
  \E i \in Incoming(s, "REQ_JOIN"), uc \in Uninit, sc \in Uninit :
    LET d == inbox[s][i]
        ch == JoinChannel(s, create_channel(uc, sc), d.src)
        new == JoinTargets(s, ch)
    IN  /\ ~Has(s, d.channel)
        /\ channel_list' = [channel_list EXCEPT ![s] =
                              WithChannel(s, d.channel, SubscribeAll(ch, new))]
        /\ inbox' = SendAll(After(s, i), new,
                            [type |-> "REQ_JOIN", src |-> s, channel |-> d.channel])
        /\ UNCHANGED <<status, user_list, ID_LIST, ID_LIST_SIZE, sweep, sweeps, history>>

----------------------------------------------------------------------------
RecvLeave(s) ==
  \E i \in Incoming(s, "REQ_LEAVE") :
    LET d == inbox[s][i] IN
    /\ inbox' = After(s, i)
    /\ \/ /\ ~knows(user_list[s], d.src)
          /\ Crash(s)
          /\ UNCHANGED <<channel_list, audience>>
       \/ /\ knows(user_list[s], d.src)
          /\ channel_list' = IF Has(s, d.channel)
                             THEN [channel_list EXCEPT ![s][d.channel] =
                                     remove_user_from_channel(@, NameOf[d.src])]
                             ELSE channel_list
          /\ audience' = [m \in Message |->
                            IF topic[m] = d.channel THEN audience[m] \ {d.src} ELSE audience[m]]
          /\ UNCHANGED status
    /\ UNCHANGED <<user_list, ID_LIST, ID_LIST_SIZE, sweep, sweeps,
                   delivered, strays, topic, said, relayed>>

RecvS2SLeave(s) ==
  \E i \in Incoming(s, "S2S_LEAVE") :
    LET d == inbox[s][i] IN
    /\ inbox' = After(s, i)
    /\ channel_list' = IF Has(s, d.channel)
                       THEN [channel_list EXCEPT ![s][d.channel] = unsub_server(@, d.src)]
                       ELSE channel_list
    /\ UNCHANGED <<status, user_list, ID_LIST, ID_LIST_SIZE, sweep, sweeps, history>>

----------------------------------------------------------------------------
\* History helpers: a count that stops at MaxCopies, the users a channel has
\* on all servers, and whether datagram i of s is the only one in flight.
Copies(n) == IF n < MaxCopies THEN n ELSE MaxCopies
Occurrences(list, c) == Cardinality({k \in DOMAIN list : list[k] = c})
Members(x) == {c \in Client : /\ Has(Home[c], x)
                              /\ knows(channel_list[Home[c]][x].users, c)}
OnlyDatagram(s, i) ==
  /\ \A r \in Server : status[r] = "up" /\ sweep[r] = {}
  /\ After(s, i) = [r \in Server |-> <<>>]

\* Mutant of RelayTo: the sender is not excluded.
RelayToAll(ch, src) == ch.servers

\* The servers a text is passed on to: not the one it came from.
RelayTo(ch, src) == ch.servers \ {src}

\* Mutants of Lonely: users are not counted; a server too many is allowed.
LonelyDespiteUsers(ch) == ch.server_count = 1
LonelyBetweenTwo(ch) == ch.server_count <= 2 /\ ch.user_count = 0

\* A channel nobody here listens to and only one server feeds.
Lonely(ch) == ch.server_count = 1 /\ ch.user_count = 0

\* The part of say() common to users and servers, for text t with identifier
\* id: the channel is looked up, then given up if it is lonely, else the text
\* goes to its users and to its servers except the source of the datagram.
Say(s, i, t, id) ==
  LET d == inbox[s][i]
      x == d.channel
      ch == channel_list[s][x]
  IN  \/ /\ ~Has(s, x)
         /\ Crash(s)
         /\ inbox' = After(s, i)
         /\ UNCHANGED <<channel_list, delivered, strays, relayed>>
      \/ /\ Has(s, x)
         /\ Lonely(ch)
         /\ Spread(After(s, i), {d.src},
                   [type |-> "S2S_LEAVE", src |-> s, channel |-> x])
         /\ channel_list' = [channel_list EXCEPT ![s] = remove_channel(s, x)]
         /\ UNCHANGED <<status, delivered, relayed>>
      \/ /\ Has(s, x)
         /\ ~Lonely(ch)
         /\ delivered' = [c \in Client |->
              [delivered[c] EXCEPT ![t] = Copies(@ + Occurrences(ch.users, c))]]
         /\ Spread(After(s, i), RelayTo(ch, d.src),
                   [type |-> "S2S_SAY", src |-> s, channel |-> x, text |-> t, id |-> id])
         /\ relayed' = [relayed EXCEPT ![s][id] = Copies(@ + 1)]
         /\ UNCHANGED <<status, channel_list>>

\* say() for REQ_SAY: the new identifier is not entered in ID_LIST.
RecvSay(s) ==
  \E i \in Incoming(s, "REQ_SAY") :
    LET d == inbox[s][i] IN
    /\ \/ /\ ~knows(user_list[s], d.src)
          /\ Crash(s)
          /\ inbox' = After(s, i)
          /\ UNCHANGED <<channel_list, history>>
       \/ /\ knows(user_list[s], d.src)
          /\ \E id \in Draws[d.text.msg] :
               /\ Say(s, i, d.text, id)
               /\ said' = [said EXCEPT ![s][id] = Copies(@ + 1)]
          /\ topic' = [topic EXCEPT ![d.text.msg] = d.channel]
          /\ audience' = IF OnlyDatagram(s, i)
                         THEN [audience EXCEPT ![d.text.msg] = Members(d.channel)]
                         ELSE audience
    /\ UNCHANGED <<user_list, ID_LIST, ID_LIST_SIZE, sweep, sweeps>>

\* Mutants of SeenBefore: check_id finds nothing; it starts behind the first.
NeverSeen(s, id) == FALSE
SeenAfterFirst(s, id) == \E k \in DOMAIN ID_LIST[s] \ {1} : ID_LIST[s][k] = id

\* say() for S2S_SAY: check_id, then the identifier is stored, the array
\* having doubled if it was full.
SeenBefore(s, id) == \E k \in DOMAIN ID_LIST[s] : ID_LIST[s][k] = id

\* Mutant of RecvS2SSay: the identifier is not stored.
RecvS2SSayForgetful(s) ==
  \E i \in Incoming(s, "S2S_SAY") :
    LET d == inbox[s][i] IN
    /\ \/ /\ SeenBefore(s, d.id)
          /\ inbox' = After(s, i)
          /\ UNCHANGED <<status, channel_list, delivered, strays, relayed>>
       \/ /\ ~SeenBefore(s, d.id)
          /\ Say(s, i, Clip(d.text), d.id)
    /\ UNCHANGED <<user_list, ID_LIST, ID_LIST_SIZE, sweep, sweeps, topic, said, audience>>

RecvS2SSay(s) ==
  \E i \in Incoming(s, "S2S_SAY") :
    LET d == inbox[s][i] IN
    /\ \/ /\ SeenBefore(s, d.id)
          /\ inbox' = After(s, i)
          /\ UNCHANGED <<status, channel_list, ID_LIST, ID_LIST_SIZE, delivered, strays, relayed>>
       \/ /\ ~SeenBefore(s, d.id)
          /\ ID_LIST_SIZE' = [ID_LIST_SIZE EXCEPT ![s] =
                                IF Len(ID_LIST[s]) = @ THEN 2 * @ ELSE @]
          /\ ID_LIST' = [ID_LIST EXCEPT ![s] = Append(@, d.id)]
          /\ Say(s, i, Clip(d.text), d.id)
    /\ UNCHANGED <<user_list, sweep, sweeps, topic, said, audience>>

----------------------------------------------------------------------------
\* Mutant of StartSweep: only channels with users here are refreshed.
StartSweepPopulated(s) ==
  LET mine == {x \in DOMAIN channel_list[s] : channel_list[s][x].user_count # 0} IN
  /\ status[s] = "up"
  /\ sweep[s] = {}
  /\ mine # {}
  /\ sweep' = [sweep EXCEPT ![s] = mine]
  /\ \/ IdleSweeps /\ Idle /\ UNCHANGED sweeps
     \/ faults + sweeps < MaxSweeps /\ sweeps' = sweeps + 1
  /\ UNCHANGED <<status, user_list, channel_list, ID_LIST, ID_LIST_SIZE, history, inbox>>

\* one_minute_timeout_join: for every channel, a join to each subscribed
\* server, sent between two turns of the main loop.  Datagrams are handled
\* within milliseconds, so most sweeps start when all is quiet: these are not
\* counted.
StartSweep(s) ==
  /\ status[s] = "up"
  /\ sweep[s] = {}
  /\ DOMAIN channel_list[s] # {}
  /\ sweep' = [sweep EXCEPT ![s] = DOMAIN channel_list[s]]
  /\ \/ IdleSweeps /\ Idle /\ UNCHANGED sweeps
     \/ faults + sweeps < MaxSweeps /\ sweeps' = sweeps + 1
  /\ UNCHANGED <<status, user_list, channel_list, ID_LIST, ID_LIST_SIZE, history, inbox>>

SweepChannel(s) ==
  /\ \E x \in sweep[s] :
       /\ Spread(inbox, channel_list[s][x].servers,
                 [type |-> "REQ_JOIN", src |-> s, channel |-> x])
       /\ sweep' = [sweep EXCEPT ![s] = @ \ {x}]
  /\ UNCHANGED <<status, user_list, channel_list, ID_LIST, ID_LIST_SIZE, sweeps,
                 delivered, topic, said, relayed, audience>>

\* process_requests answers neither list nor who.
RecvQuery(s) ==
  /\ \E i \in Incoming(s, "REQ_LIST") \cup Incoming(s, "REQ_WHO") : inbox' = After(s, i)
  /\ UNCHANGED serverVars

\* One turn of the main loop: a datagram is handled, or joins are resent.
Receive(s) ==
  \/ RecvLogin(s) \/ RecvLogout(s)
  \/ RecvJoinExisting(s) \/ RecvJoinNew(s)
  \/ RecvLeave(s) \/ RecvS2SLeave(s)
  \/ RecvSay(s) \/ RecvS2SSay(s) \/ RecvQuery(s)

ServerStep(s) == Receive(s) \/ StartSweep(s) \/ SweepChannel(s)
=============================================================================
