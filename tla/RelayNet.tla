------------------------------ MODULE RelayNet ------------------------------
(***************************************************************************)
(* The whole of project2: clients, servers and the network between them.   *)
(***************************************************************************)
EXTENDS RelayServer, ChatClient

vars == <<netVars, serverVars, clientVars>>

Init == NetInit /\ ServerInit /\ ClientInit

Next ==
  \/ \E s \in Server : ServerStep(s) /\ UNCHANGED <<faults, clientVars>>
  \/ \E c \in Client : ClientStep(c) /\ UNCHANGED <<faults, serverVars>>
  \/ \E s \in Server : /\ LoseDatagram(s) \/ DoubleDatagram(s)
                       /\ faults + sweeps < MaxFaults
                       /\ UNCHANGED <<serverVars, clientVars>>

Spec == Init /\ [][Next]_vars

\* select() returns whenever the socket is readable, so a running server
\* keeps taking datagrams and finishes the sweep it is in.  Nothing is
\* assumed of users, of the timer or of the faults of the network.
Fairness ==
  \A s \in Server : WF_vars((Receive(s) \/ SweepChannel(s)) /\ UNCHANGED <<faults, clientVars>>)

FairSpec == Spec /\ Fairness

\* Users who take turns: nobody says anything before all that was sent earlier
\* has been handled.  Two messages that cross make two servers give a channel up
\* towards each other at once, and what they then send is taken for something
\* newer (README, section 3).
TakingTurns == says' # says => Idle
TurnsSpec == Init /\ [][Next /\ TakingTurns]_vars /\ Fairness

----------------------------------------------------------------------------
\* Type invariant: the variables of clients, servers and network hold what
\* their declarations say.
TypeOK == NetTypeOK /\ ServerTypeOK /\ ClientTypeOK

\* server_data_structures.h says that user_count is the "count number of
\* users in channel", and server_count is used as the number of subscribed
\* servers.  They are kept by hand in join(), leave(), logout() and
\* unsub_server(): each agrees with the length of its list.
CountsAgree ==
  \A s \in Server : \A x \in DOMAIN channel_list[s] : Counted(channel_list[s][x])

\* say() never writes past the end of the array behind ID_LIST, which it
\* grows by hand, and never enters an identifier twice, although copies of a
\* message arrive along every path of a cyclic topology.
IdListSound ==
  \A s \in Server :
    /\ Len(ID_LIST[s]) <= ID_LIST_SIZE[s]
    /\ \A j, k \in DOMAIN ID_LIST[s] : ID_LIST[s][j] = ID_LIST[s][k] => j = k

\* So far the network has kept order and lost nothing.
Undisturbed == ~Reordering /\ faults = 0

\* join() tells servers from clients by searching user_list: only neighbours
\* are ever subscribed to a channel as servers, so no client is sent the
\* messages and joins that servers send each other.
OnlyServersSubscribed ==
  Undisturbed =>
    /\ \A s \in Server : \A x \in DOMAIN channel_list[s] :
         channel_list[s][x].servers \subseteq Adjacent[s]
    /\ \A c \in Client : strays[c] \subseteq {"S2S_LEAVE"}

\* say(), leave() and logout() take the user they find in user_list for granted
\* ("logout is only from client so user has to exist"): whoever joins, leaves,
\* speaks or logs out is known when he is heard, although others log in and out
\* and users are removed by name.
UsersKnown ==
  Undisturbed =>
    \A s \in Server : \A i \in Arrivals(s) :
      inbox[s][i].src \in Client /\ inbox[s][i].type # "REQ_LOGIN" =>
        knows(user_list[s], inbox[s][i].src)

\* Flooding: whatever the topology and the network, a server sends messages
\* with one identifier out at most once for all the copies it gets from other
\* servers, and once each time it drew the identifier itself: say() does not
\* enter an identifier it drew in ID_LIST, so a server may take its own message
\* for a new one, once.
RelayedAtMostOnce ==
  \A s \in Server, id \in Id : relayed[s][id] <= said[s][id] + 1

\* check_id exists so that a message which comes back is not sent out again.
NeverRelayedTwice == \A s \in Server, id \in Id : relayed[s][id] <= 1

\* The receive buffer of main() is smaller than struct s2s_say, so a server that
\* is passed a long message on sends the beginning of it: the users of the
\* author's own server are sent all of it and never a clipped copy as well.
WholeAtHome ==
  \A c \in Client, m \in Message :
    (\E id \in Draws[m] : said[Home[c]][id] > 0) => delivered[c][[msg |-> m, whole |-> FALSE]] = 0

----------------------------------------------------------------------------
\* Between datagrams: neighbours agree whether they feed each other channel x.
\* join() subscribes the sender, say() leaves the sender before it forgets
\* the channel, and S2S_LEAVE unsubscribes: each side must see all of it.
SubscriptionsMutual ==
  Idle => \A s \in Server : \A x \in DOMAIN channel_list[s] :
            \A r \in channel_list[s][x].servers :
              r \in Server => Has(r, x) /\ s \in channel_list[r][x].servers

\* The servers that a server of Z sends what is said on channel x.
Fed(x, Z) ==
  {s \in Server : \E r \in Z : Has(r, x) /\ s \in channel_list[r][x].servers}

\* What is said on channel x at server r can reach server s.
Reaches(x, r, s) == \A Z \in SUBSET Server : r \in Z /\ Fed(x, Z) \subseteq Z => s \in Z

\* Between datagrams: whatever joins, leaves and pruning went on, what one
\* member of a channel says can reach the server of every other member.
MembersConnected ==
  Idle => \A x \in Channel : \A c, d \in Members(x) : Reaches(x, Home[c], Home[d])

\* A lost join, or a refreshing join that crosses a leave, may leave a channel
\* fed one way only or a server that believes itself fed.  The joins that
\* one_minute_timeout_join resends repair this: once the users fall silent,
\* the members of each channel are connected for good.
RefreshHeals == <>[]MembersConnected

\* unsub_server is to take the sender of an S2S_LEAVE out of the channel
\* ("Match based on port and address"): a server that keeps a channel keeps
\* every subscription but those of servers that asked to leave.
UnsubOnlySender ==
  [][\A s \in Server : \A x \in DOMAIN channel_list[s] \cap DOMAIN channel_list'[s] :
       \A n \in channel_list[s][x].servers \ channel_list'[s][x].servers :
         \E i \in Arrivals(s) :
           /\ inbox[s][i] = [type |-> "S2S_LEAVE", src |-> n, channel |-> x]
           /\ inbox'[s] = RemoveAt(inbox[s], i)]_vars

\* say() is to give a channel up towards the server that fed it: a leave is
\* never sent to a client.
LeavesToServersOnly == \A c \in Client : "S2S_LEAVE" \notin strays[c]

\* check_id(): the "id" of struct s2s_say makes flooding stop.  Whatever the
\* topology, once the users fall silent every running server empties its
\* socket for good.
StormsEnd == <>[](\A s \in Server : status[s] = "up" => inbox[s] = <<>>)

\* Copies of message m that client c was sent, whole or clipped.
CopiesSent(m, c) ==
  delivered[c][[msg |-> m, whole |-> TRUE]] + delivered[c][[msg |-> m, whole |-> FALSE]]

\* Whoever is in a channel when something is said there, with every earlier
\* datagram handled, is sent it sooner or later unless he leaves before.
AudienceHears ==
  \A m \in Message, c \in Client :
    c \in audience[m] ~> (CopiesSent(m, c) > 0 \/ c \notin audience[m])

\* A topology without cycles: from every server there is one way to any origin
\* o, and of two neighbours one is on the way of the other.
Acyclic(adj) ==
  \E toward \in [DOMAIN adj -> [DOMAIN adj -> DOMAIN adj]] :
    \A o, s \in DOMAIN adj :
      /\ toward[o][o] = o
      /\ s \notin adj[s]
      /\ \A r \in adj[s] : toward[o][s] = r <=> toward[o][r] # s

\* A topology in one piece: links lead out of every part of it.
Connected(adj) ==
  \A P \in (SUBSET DOMAIN adj) \ {{}, DOMAIN adj} : \E s \in P : adj[s] \ P # {}

\* Times client c is in channel x.
Entries(x, c) ==
  IF Has(Home[c], x) THEN Occurrences(channel_list[Home[c]][x].users, c) ELSE 0

\* Seen by their users, the servers of an acyclic topology behave like one server.
Room == INSTANCE ChatRoom WITH
  entries <- [x \in Channel |-> [c \in Client |-> Entries(x, c)]],
  copies <- [m \in Message |-> [c \in Client |-> CopiesSent(m, c)]]

ImplementsRoom == Room!Spec
=============================================================================
