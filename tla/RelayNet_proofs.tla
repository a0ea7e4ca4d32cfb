--------------------------- MODULE RelayNet_proofs ---------------------------
(***************************************************************************)
(* Proofs about RelayNet, for every set of servers, clients and channels,  *)
(* every topology and every network of UdpNet: the types, the list of seen *)
(* identifiers, the counters of a channel, the number of times a message   *)
(* is sent out, and what follows from the order of datagrams.              *)
(***************************************************************************)
EXTENDS RelayNet, DuckChat_proofs

----------------------------------------------------------------------------
\* What the main loop takes next is a datagram of the type asked for.
LEMMA IncomingElements ==
  ASSUME NetTypeOK, NEW s \in Server, NEW type, NEW i \in Incoming(s, type)
  PROVE  i \in DOMAIN inbox[s] /\ inbox[s][i] \in Datagram /\ inbox[s][i].type = type
  BY QueueElements DEF Incoming

----------------------------------------------------------------------------
\* The list of channels of one server is replaced.
LEMMA TablesUpdated ==
  ASSUME ServerTypeOK, NEW s \in Server, NEW f, ChannelTableOK(f),
         channel_list' = [channel_list EXCEPT ![s] = f]
  PROVE  /\ DOMAIN channel_list' = Server
         /\ \A r \in Server : ChannelTableOK(channel_list'[r])
  BY DEF ServerTypeOK

\* One channel of a list is replaced, added or removed.
LEMMA ChannelUpdated ==
  ASSUME ServerTypeOK, NEW s \in Server, NEW x \in Channel, NEW ch \in ChannelRecord
  PROVE  /\ Has(s, x) => ChannelTableOK([channel_list[s] EXCEPT ![x] = ch])
         /\ ChannelTableOK(WithChannel(s, x, ch))
         /\ ChannelTableOK(remove_channel(s, x))
  BY DEF ServerTypeOK, ChannelTableOK, Has, WithChannel, remove_channel, Restrict

\* A channel that server s has is a channel record.
LEMMA ChannelRecords ==
  ASSUME ServerTypeOK, NEW s \in Server, NEW x, Has(s, x)
  PROVE  /\ x \in Channel
         /\ channel_list[s][x] \in ChannelRecord
         /\ IsFiniteSet(channel_list[s][x].servers)
<1>1. x \in Channel /\ channel_list[s][x] \in ChannelRecord
  BY DEF ServerTypeOK, ChannelTableOK, Has
<1>2. channel_list[s][x].servers \in SUBSET Node
  BY <1>1 DEF ChannelRecord
<1>3. QED
  BY <1>1, <1>2, ProtocolAssumption, FS_Subset

\* join() makes a channel record of a channel record, and keeps its counters
\* equal to the lengths of its lists.
LEMMA JoinChannelProperties ==
  ASSUME NEW ch \in ChannelRecord, IsFiniteSet(ch.servers),
         ServerTypeOK, NEW s \in Server, NEW n \in Node
  PROVE  /\ JoinChannel(s, ch, n) \in ChannelRecord
         /\ Counted(ch) => Counted(JoinChannel(s, ch, n))
<1>1. CASE knows(user_list[s], n)
  <2>1. n \in Client
    <3>1. user_list[s] \in Seq(Client)
      BY DEF ServerTypeOK
    <3>2. PICK k \in DOMAIN user_list[s] : user_list[s][k] = n
      BY <1>1 DEF knows
    <3>3. QED
      BY <3>1, <3>2, LenProperties, ElementOfSeq
  <2>2. QED
    BY <1>1, <2>1, AddToChannelProperties DEF JoinChannel
<1>2. CASE ~knows(user_list[s], n) /\ n \in ch.servers
  BY <1>2 DEF JoinChannel
<1>3. CASE ~knows(user_list[s], n) /\ n \notin ch.servers
  BY <1>3, SubscribeProperties DEF JoinChannel
<1>4. QED
  BY <1>1, <1>2, <1>3

\* So does send_join_adjacent_servers: it subscribes only neighbours that are
\* not subscribed yet.
LEMMA SubscribeAllProperties ==
  ASSUME NEW ch \in ChannelRecord, NEW s \in Server
  PROVE  /\ SubscribeAll(ch, JoinTargets(s, ch)) \in ChannelRecord
         /\ Counted(ch) => Counted(SubscribeAll(ch, JoinTargets(s, ch)))
<1> DEFINE new == JoinTargets(s, ch)
           servers == ch.servers \cup new
           count == ch.server_count + Cardinality(new)
<1>1. new \in SUBSET Node /\ ch.servers \in SUBSET Node
  BY ServerAssumption DEF JoinTargets, Node, ChannelRecord
<1>2. /\ IsFiniteSet(new) /\ Cardinality(new) \in Nat
      /\ IsFiniteSet(ch.servers) /\ Cardinality(ch.servers) \in Nat
  BY <1>1, ProtocolAssumption, FS_Subset, FS_CardinalityType
<1>3. Cardinality(servers) = Cardinality(ch.servers) + Cardinality(new)
  <2>1. ch.servers \cap new = {}
    BY DEF JoinTargets
  <2>2. Cardinality(servers) =
          Cardinality(ch.servers) + Cardinality(new) - Cardinality(ch.servers \cap new)
    BY <1>2, FS_Union
  <2>3. QED
    BY <1>2, <2>1, <2>2, FS_EmptySet
<1>4. ch.server_count \in Int /\ count \in Int
  BY <1>2 DEF ChannelRecord
<1>5. SubscribeAll(ch, new) = [ch EXCEPT !.servers = servers, !.server_count = count]
  BY DEF SubscribeAll
<1> HIDE DEF new, servers, count
<1>6. SubscribeAll(ch, new) = [users |-> ch.users, user_count |-> ch.user_count,
                               servers |-> servers, server_count |-> count]
  BY <1>5 DEF ChannelRecord
<1>7. SubscribeAll(ch, new) \in ChannelRecord
  BY <1>1, <1>4, <1>6 DEF ChannelRecord, servers
<1>8. Counted(ch) => Counted(SubscribeAll(ch, new))
  BY <1>3, <1>6 DEF Counted, count
<1>9. QED
  BY <1>7, <1>8 DEF new

----------------------------------------------------------------------------
\* The counts kept for history stay within their bound.
LEMMA CopiesType ==
  ASSUME NEW n \in Nat
  PROVE  Copies(n) \in 0 .. MaxCopies
  BY ServerAssumption DEF Copies

LEMMA OccurrencesType ==
  ASSUME NEW list \in Seq(Client), NEW c
  PROVE  Occurrences(list, c) \in Nat
<1>1. DOMAIN list = 1 .. Len(list) /\ Len(list) \in Nat
  BY LenProperties
<1>2. IsFiniteSet(DOMAIN list)
  BY <1>1, FS_Interval
<1>3. QED
  BY <1>2, FS_Subset, FS_CardinalityType DEF Occurrences

\* Sending a datagram to several nodes leaves queues and strays well typed.
LEMMA SpreadType ==
  ASSUME ServerTypeOK, NEW q \in [Server -> Seq(Datagram)], NEW dsts,
         NEW d \in Datagram, d.type \in {"S2S_SAY", "S2S_LEAVE", "REQ_JOIN"},
         Spread(q, dsts, d)
  PROVE  /\ inbox' \in [Server -> Seq(Datagram)]
         /\ strays' \in [Client -> SUBSET {"S2S_SAY", "S2S_LEAVE", "REQ_JOIN"}]
<1>1. inbox' \in [Server -> Seq(Datagram)]
  BY SendAllType DEF Spread
<1>2. strays' \in [Client -> SUBSET {"S2S_SAY", "S2S_LEAVE", "REQ_JOIN"}]
  BY DEF Spread, ServerTypeOK
<1>3. QED
  BY <1>1, <1>2

\* say() leaves every variable it may change well typed.
LEMMA SayType ==
  ASSUME TypeOK, NEW s \in Server, NEW i \in DOMAIN inbox[s],
         inbox[s][i].type \in {"REQ_SAY", "S2S_SAY"},
         NEW t \in Text, NEW id \in Id, Say(s, i, t, id)
  PROVE  /\ inbox' \in [Server -> Seq(Datagram)]
         /\ status' \in [Server -> {"up", "crashed"}]
         /\ DOMAIN channel_list' = Server
         /\ \A r \in Server : ChannelTableOK(channel_list'[r])
         /\ delivered' \in [Client -> [Text -> 0 .. MaxCopies]]
         /\ strays' \in [Client -> SUBSET {"S2S_SAY", "S2S_LEAVE", "REQ_JOIN"}]
         /\ relayed' \in [Server -> [Id -> 0 .. MaxCopies]]
<1> DEFINE d == inbox[s][i]
           x == d.channel
           ch == channel_list[s][x]
<1>1. d \in Datagram /\ d.src \in Node /\ x \in Channel
  BY QueueElements, DatagramFields DEF TypeOK, Node
<1>2. After(s, i) \in [Server -> Seq(Datagram)]
  BY AfterType DEF TypeOK
<1>3. NetTypeOK /\ ServerTypeOK
  BY DEF TypeOK
<1>4. CASE ~Has(s, x) /\ Crash(s) /\ inbox' = After(s, i)
           /\ UNCHANGED <<channel_list, delivered, strays, relayed>>
  BY <1>2, <1>3, <1>4 DEF Crash, ServerTypeOK
<1>5. CASE /\ Has(s, x)
           /\ Spread(After(s, i), {d.src}, [type |-> "S2S_LEAVE", src |-> s, channel |-> x])
           /\ channel_list' = [channel_list EXCEPT ![s] = remove_channel(s, x)]
           /\ UNCHANGED <<status, delivered, relayed>>
  <2> DEFINE l == [type |-> "S2S_LEAVE", src |-> s, channel |-> x]
  <2>1. l \in Datagram /\ l.type = "S2S_LEAVE"
    BY <1>1, DatagramsSent
  <2>2. /\ inbox' \in [Server -> Seq(Datagram)]
        /\ strays' \in [Client -> SUBSET {"S2S_SAY", "S2S_LEAVE", "REQ_JOIN"}]
    BY <1>2, <1>3, <1>5, <2>1, SpreadType
  <2>3. ChannelTableOK(remove_channel(s, x))
    BY <1>3, <1>5, ChannelRecords, ChannelUpdated
  <2>4. /\ DOMAIN channel_list' = Server
        /\ \A r \in Server : ChannelTableOK(channel_list'[r])
    BY <1>3, <1>5, <2>3, TablesUpdated
  <2>5. QED
    BY <1>3, <1>5, <2>2, <2>4 DEF ServerTypeOK
<1>6. CASE /\ Has(s, x)
           /\ delivered' = [c \in Client |->
                [delivered[c] EXCEPT ![t] = Copies(@ + Occurrences(ch.users, c))]]
           /\ Spread(After(s, i), ch.servers \ {d.src},
                [type |-> "S2S_SAY", src |-> s, channel |-> x, text |-> t, id |-> id])
           /\ relayed' = [relayed EXCEPT ![s][id] = Copies(@ + 1)]
           /\ UNCHANGED <<status, channel_list>>
  <2> DEFINE m == [type |-> "S2S_SAY", src |-> s, channel |-> x, text |-> t, id |-> id]
  <2>1. m \in Datagram /\ m.type = "S2S_SAY"
    BY <1>1, DatagramsSent
  <2>2. /\ inbox' \in [Server -> Seq(Datagram)]
        /\ strays' \in [Client -> SUBSET {"S2S_SAY", "S2S_LEAVE", "REQ_JOIN"}]
    BY <1>2, <1>3, <1>6, <2>1, SpreadType
  <2>3. ch.users \in Seq(Client)
    BY <1>3, <1>6, ChannelRecords DEF ChannelRecord
  <2>4. ASSUME NEW c \in Client
        PROVE  Copies(delivered[c][t] + Occurrences(ch.users, c)) \in 0 .. MaxCopies
    <3>1. delivered[c][t] \in Nat
      BY <1>3, ServerAssumption DEF ServerTypeOK
    <3>2. Occurrences(ch.users, c) \in Nat
      BY <2>3, OccurrencesType
    <3>3. delivered[c][t] + Occurrences(ch.users, c) \in Nat
      BY <3>1, <3>2
    <3>4. QED
      BY <3>3, CopiesType
  <2>5. delivered' \in [Client -> [Text -> 0 .. MaxCopies]]
    BY <1>3, <1>6, <2>4 DEF ServerTypeOK
  <2>7. Copies(relayed[s][id] + 1) \in 0 .. MaxCopies
    <3>1. relayed[s][id] + 1 \in Nat
      BY <1>3, ServerAssumption DEF ServerTypeOK
    <3>2. QED
      BY <3>1, CopiesType
  <2>8. relayed' \in [Server -> [Id -> 0 .. MaxCopies]]
    BY <1>3, <1>6, <2>7 DEF ServerTypeOK
  <2>9. QED
    BY <1>3, <1>6, <2>2, <2>5, <2>8 DEF ServerTypeOK
<1>7. QED
  BY <1>4, <1>5, <1>6 DEF Say, RelayTo

----------------------------------------------------------------------------
\* Every handler of a server keeps the types: login and logout.
LEMMA LoginType ==
  ASSUME TypeOK, NEW s \in Server, RecvLogin(s), UNCHANGED <<faults, clientVars>>
  PROVE  TypeOK'
<1>1. NetTypeOK /\ ServerTypeOK /\ ClientTypeOK
  BY DEF TypeOK
<1>2. PICK i \in Incoming(s, "REQ_LOGIN") :
        /\ user_list' = [user_list EXCEPT ![s] = add_user(@, inbox[s][i].src)]
        /\ inbox' = After(s, i)
        /\ UNCHANGED <<status, channel_list, ID_LIST, ID_LIST_SIZE, sweep, sweeps, history>>
  BY DEF RecvLogin
<1>3. i \in DOMAIN inbox[s] /\ inbox[s][i].src \in Client
  BY <1>1, <1>2, IncomingElements, DatagramFields
<1>4. inbox' \in [Server -> Seq(Datagram)]
  BY <1>1, <1>2, <1>3, AfterType
<1>5. add_user(user_list[s], inbox[s][i].src) \in Seq(Client)
  BY <1>1, <1>3, AddUserProperties DEF ServerTypeOK
<1>6. user_list' \in [Server -> Seq(Client)]
  BY <1>1, <1>2, <1>5 DEF ServerTypeOK
<1>7. NetTypeOK' /\ ClientTypeOK'
  BY <1>1, <1>4 DEF NetTypeOK, ClientTypeOK, clientVars
<1>8. ServerTypeOK'
  BY <1>1, <1>2, <1>6 DEF ServerTypeOK, history
<1>9. QED
  BY <1>7, <1>8 DEF TypeOK

LEMMA ChannelsAfterLogoutType ==
  ASSUME ServerTypeOK, NEW s \in Server, NEW name
  PROVE  ChannelTableOK(ChannelsAfterLogout(s, name))
<1> DEFINE left == [x \in DOMAIN channel_list[s] |->
                      remove_user_from_channel(channel_list[s][x], name)]
           kept == {x \in DOMAIN left : left[x].user_count # 0}
<1>1. /\ DOMAIN channel_list[s] \subseteq Channel
      /\ \A x \in DOMAIN channel_list[s] : channel_list[s][x] \in ChannelRecord
  BY DEF ServerTypeOK, ChannelTableOK
<1>2. \A x \in DOMAIN left : left[x] \in ChannelRecord
  BY <1>1, RemoveFromChannelProperties
<1>3. kept \subseteq DOMAIN left /\ DOMAIN left = DOMAIN channel_list[s]
  OBVIOUS
<1>4. ChannelsAfterLogout(s, name) = [x \in kept |-> left[x]]
  BY DEF ChannelsAfterLogout, Restrict
<1> HIDE DEF left, kept
<1>5. QED
  BY <1>1, <1>2, <1>3, <1>4 DEF ChannelTableOK

LEMMA LogoutType ==
  ASSUME TypeOK, NEW s \in Server, RecvLogout(s), UNCHANGED <<faults, clientVars>>
  PROVE  TypeOK'
<1>1. NetTypeOK /\ ServerTypeOK /\ ClientTypeOK
  BY DEF TypeOK
<1>2. PICK i \in Incoming(s, "REQ_LOGOUT") :
        LET c == inbox[s][i].src IN
        /\ inbox' = After(s, i)
        /\ \/ /\ ~knows(user_list[s], c)
              /\ Crash(s)
              /\ UNCHANGED <<user_list, channel_list, audience>>
           \/ /\ knows(user_list[s], c)
              /\ channel_list' = [channel_list EXCEPT ![s] = ChannelsAfterLogout(s, NameOf[c])]
              /\ user_list' = [user_list EXCEPT ![s] = remove_user(@, NameOf[c])]
              /\ audience' = [m \in Message |-> audience[m] \ {c}]
              /\ UNCHANGED status
        /\ UNCHANGED <<ID_LIST, ID_LIST_SIZE, sweep, sweeps,
                       delivered, strays, topic, said, relayed>>
  BY DEF RecvLogout
<1> DEFINE c == inbox[s][i].src
<1>3. i \in DOMAIN inbox[s]
  BY <1>1, <1>2, IncomingElements
<1>4. inbox' \in [Server -> Seq(Datagram)]
  BY <1>1, <1>2, <1>3, AfterType
<1>5. NetTypeOK' /\ ClientTypeOK'
  BY <1>1, <1>4 DEF NetTypeOK, ClientTypeOK, clientVars
<1>6. ServerTypeOK'
  <2>1. CASE Crash(s) /\ UNCHANGED <<user_list, channel_list, audience>>
    BY <1>1, <1>2, <2>1 DEF ServerTypeOK, Crash
  <2>2. CASE /\ channel_list' = [channel_list EXCEPT ![s] = ChannelsAfterLogout(s, NameOf[c])]
             /\ user_list' = [user_list EXCEPT ![s] = remove_user(@, NameOf[c])]
             /\ audience' = [m \in Message |-> audience[m] \ {c}]
             /\ UNCHANGED status
    <3>1. /\ DOMAIN channel_list' = Server
          /\ \A r \in Server : ChannelTableOK(channel_list'[r])
      BY <1>1, <2>2, ChannelsAfterLogoutType, TablesUpdated
    <3>2. remove_user(user_list[s], NameOf[c]) \in Seq(Client)
      BY <1>1, RemoveUserProperties DEF ServerTypeOK
    <3>3. user_list' \in [Server -> Seq(Client)]
      BY <1>1, <2>2, <3>2 DEF ServerTypeOK
    <3>4. audience' \in [Message -> SUBSET Client]
      BY <1>1, <2>2 DEF ServerTypeOK
    <3>5. QED
      BY <1>1, <1>2, <2>2, <3>1, <3>3, <3>4 DEF ServerTypeOK
  <2>3. QED
    BY <1>2, <2>1, <2>2
<1>7. QED
  BY <1>5, <1>6 DEF TypeOK

----------------------------------------------------------------------------
\* Joins keep the types, on a channel the server has and on a new one.
LEMMA JoinExistingType ==
  ASSUME TypeOK, NEW s \in Server, RecvJoinExisting(s), UNCHANGED <<faults, clientVars>>
  PROVE  TypeOK'
<1>1. NetTypeOK /\ ServerTypeOK /\ ClientTypeOK
  BY DEF TypeOK
<1>2. PICK i \in Incoming(s, "REQ_JOIN") :
        LET d == inbox[s][i] IN
        /\ Has(s, d.channel)
        /\ channel_list' = [channel_list EXCEPT ![s][d.channel] = JoinChannel(s, @, d.src)]
        /\ inbox' = After(s, i)
        /\ UNCHANGED <<status, user_list, ID_LIST, ID_LIST_SIZE, sweep, sweeps, history>>
  BY DEF RecvJoinExisting
<1> DEFINE x == inbox[s][i].channel
           ch == JoinChannel(s, channel_list[s][x], inbox[s][i].src)
<1>3. i \in DOMAIN inbox[s] /\ inbox[s][i].src \in Node /\ x \in Channel
  BY <1>1, <1>2, IncomingElements, DatagramFields
<1>4. inbox' \in [Server -> Seq(Datagram)]
  BY <1>1, <1>2, <1>3, AfterType
<1>5. ch \in ChannelRecord
  BY <1>1, <1>2, <1>3, ChannelRecords, JoinChannelProperties
<1>6. ChannelTableOK([channel_list[s] EXCEPT ![x] = ch])
  BY <1>1, <1>2, <1>3, <1>5, ChannelUpdated
<1>7. channel_list' = [channel_list EXCEPT ![s] = [channel_list[s] EXCEPT ![x] = ch]]
  BY <1>1, <1>2
<1>8. /\ DOMAIN channel_list' = Server
      /\ \A r \in Server : ChannelTableOK(channel_list'[r])
  BY <1>1, <1>6, <1>7, TablesUpdated
<1>9. NetTypeOK' /\ ClientTypeOK'
  BY <1>1, <1>4 DEF NetTypeOK, ClientTypeOK, clientVars
<1>10. ServerTypeOK'
  BY <1>1, <1>2, <1>8 DEF ServerTypeOK, history
<1>11. QED
  BY <1>9, <1>10 DEF TypeOK

\* What join() makes of a channel it has just created, with counters uc and sc.
NewChannel(s, n, uc, sc) ==
  LET ch == JoinChannel(s, create_channel(uc, sc), n)
  IN  SubscribeAll(ch, JoinTargets(s, ch))

LEMMA NewChannelProperties ==
  ASSUME ServerTypeOK, NEW s \in Server, NEW n \in Node,
         NEW uc \in Uninit, NEW sc \in Uninit
  PROVE  /\ NewChannel(s, n, uc, sc) \in ChannelRecord
         /\ uc = 0 /\ sc = 0 => Counted(NewChannel(s, n, uc, sc))
<1> DEFINE new == create_channel(uc, sc)
           ch  == JoinChannel(s, new, n)
<1>1. uc \in Int /\ sc \in Int
  BY ServerAssumption
<1>2. new \in ChannelRecord /\ (uc = 0 /\ sc = 0 => Counted(new))
  BY <1>1, CreateChannelProperties
<1>3. IsFiniteSet(new.servers)
  BY FS_EmptySet DEF create_channel
<1> HIDE DEF new
<1>4. ch \in ChannelRecord /\ (Counted(new) => Counted(ch))
  BY <1>2, <1>3, JoinChannelProperties
<1> HIDE DEF ch
<1>5. /\ SubscribeAll(ch, JoinTargets(s, ch)) \in ChannelRecord
      /\ Counted(ch) => Counted(SubscribeAll(ch, JoinTargets(s, ch)))
  BY <1>4, SubscribeAllProperties
<1>6. QED
  BY <1>2, <1>4, <1>5 DEF NewChannel, ch, new

LEMMA JoinNewType ==
  ASSUME TypeOK, NEW s \in Server, RecvJoinNew(s), UNCHANGED <<faults, clientVars>>
  PROVE  TypeOK'
<1>1. NetTypeOK /\ ServerTypeOK /\ ClientTypeOK
  BY DEF TypeOK
<1>2. PICK i \in Incoming(s, "REQ_JOIN"), uc \in Uninit, sc \in Uninit :
        LET d == inbox[s][i]
            ch == JoinChannel(s, create_channel(uc, sc), d.src)
            new == JoinTargets(s, ch)
        IN  /\ ~Has(s, d.channel)
            /\ channel_list' = [channel_list EXCEPT ![s] =
                                  WithChannel(s, d.channel, SubscribeAll(ch, new))]
            /\ inbox' = SendAll(After(s, i), new,
                                [type |-> "REQ_JOIN", src |-> s, channel |-> d.channel])
            /\ UNCHANGED <<status, user_list, ID_LIST, ID_LIST_SIZE, sweep, sweeps, history>>
  BY DEF RecvJoinNew
<1> DEFINE x == inbox[s][i].channel
           ch == NewChannel(s, inbox[s][i].src, uc, sc)
<1>3. i \in DOMAIN inbox[s] /\ inbox[s][i].src \in Node /\ x \in Channel
  BY <1>1, <1>2, IncomingElements, DatagramFields
<1>4. After(s, i) \in [Server -> Seq(Datagram)]
  BY <1>1, <1>3, AfterType
<1>5. [type |-> "REQ_JOIN", src |-> s, channel |-> x] \in Datagram
  BY <1>3, DatagramsSent DEF Node
<1>6. inbox' \in [Server -> Seq(Datagram)]
  BY <1>2, <1>4, <1>5, SendAllType
<1>7. ch \in ChannelRecord
  BY <1>1, <1>2, <1>3, NewChannelProperties
<1>8. ChannelTableOK(WithChannel(s, x, ch))
  BY <1>1, <1>3, <1>7, ChannelUpdated
<1>9. channel_list' = [channel_list EXCEPT ![s] = WithChannel(s, x, ch)]
  BY <1>2 DEF NewChannel
<1>10. /\ DOMAIN channel_list' = Server
       /\ \A r \in Server : ChannelTableOK(channel_list'[r])
  BY <1>1, <1>8, <1>9, TablesUpdated
<1>11. NetTypeOK' /\ ClientTypeOK'
  BY <1>1, <1>6 DEF NetTypeOK, ClientTypeOK, clientVars
<1>12. ServerTypeOK'
  BY <1>1, <1>2, <1>10 DEF ServerTypeOK, history
<1>13. QED
  BY <1>11, <1>12 DEF TypeOK

----------------------------------------------------------------------------
\* Leaves of users and of servers keep the types.
LEMMA LeaveType ==
  ASSUME TypeOK, NEW s \in Server, RecvLeave(s), UNCHANGED <<faults, clientVars>>
  PROVE  TypeOK'
<1>1. NetTypeOK /\ ServerTypeOK /\ ClientTypeOK
  BY DEF TypeOK
<1>2. PICK i \in Incoming(s, "REQ_LEAVE") :
        LET d == inbox[s][i] IN
        /\ inbox' = After(s, i)
        /\ \/ /\ ~knows(user_list[s], d.src)
              /\ Crash(s)
              /\ UNCHANGED <<channel_list, audience>>
           \/ /\ knows(user_list[s], d.src)
              /\ channel_list' = IF Has(s, d.channel)
                                 THEN [channel_list EXCEPT ![s][d.channel] =
                                         remove_user_from_channel(@, NameOf[d.src])]
                                 ELSE channel_list
              /\ audience' = [m \in Message |->
                                IF topic[m] = d.channel THEN audience[m] \ {d.src}
                                                        ELSE audience[m]]
              /\ UNCHANGED status
        /\ UNCHANGED <<user_list, ID_LIST, ID_LIST_SIZE, sweep, sweeps,
                       delivered, strays, topic, said, relayed>>
  BY DEF RecvLeave
<1> DEFINE d == inbox[s][i]
           x == d.channel
           ch == remove_user_from_channel(channel_list[s][x], NameOf[d.src])
<1>3. i \in DOMAIN inbox[s] /\ d.src \in Client /\ x \in Channel
  BY <1>1, <1>2, IncomingElements, DatagramFields
<1>4. inbox' \in [Server -> Seq(Datagram)]
  BY <1>1, <1>2, <1>3, AfterType
<1>5. NetTypeOK' /\ ClientTypeOK'
  BY <1>1, <1>4 DEF NetTypeOK, ClientTypeOK, clientVars
<1>6. /\ DOMAIN channel_list' = Server
      /\ \A r \in Server : ChannelTableOK(channel_list'[r])
  <2>1. CASE UNCHANGED channel_list
    BY <1>1, <2>1 DEF ServerTypeOK
  <2>2. CASE Has(s, x) /\ channel_list' = [channel_list EXCEPT ![s][x] = ch]
    <3>1. ch \in ChannelRecord
      BY <1>1, <2>2, ChannelRecords, RemoveFromChannelProperties
    <3>2. ChannelTableOK([channel_list[s] EXCEPT ![x] = ch])
      BY <1>1, <1>3, <2>2, <3>1, ChannelUpdated
    <3>3. QED
      BY <1>1, <2>2, <3>2, TablesUpdated
  <2>3. QED
    BY <1>2, <2>1, <2>2
<1>7. status' \in [Server -> {"up", "crashed"}] /\ audience' \in [Message -> SUBSET Client]
  BY <1>1, <1>2 DEF ServerTypeOK, Crash
<1>8. ServerTypeOK'
  BY <1>1, <1>2, <1>6, <1>7 DEF ServerTypeOK
<1>9. QED
  BY <1>5, <1>8 DEF TypeOK

LEMMA S2SLeaveType ==
  ASSUME TypeOK, NEW s \in Server, RecvS2SLeave(s), UNCHANGED <<faults, clientVars>>
  PROVE  TypeOK'
<1>1. NetTypeOK /\ ServerTypeOK /\ ClientTypeOK
  BY DEF TypeOK
<1>2. PICK i \in Incoming(s, "S2S_LEAVE") :
        LET d == inbox[s][i] IN
        /\ inbox' = After(s, i)
        /\ channel_list' = IF Has(s, d.channel)
                           THEN [channel_list EXCEPT ![s][d.channel] = unsub_server(@, d.src)]
                           ELSE channel_list
        /\ UNCHANGED <<status, user_list, ID_LIST, ID_LIST_SIZE, sweep, sweeps, history>>
  BY DEF RecvS2SLeave
<1> DEFINE d == inbox[s][i]
           x == d.channel
           ch == unsub_server(channel_list[s][x], d.src)
<1>3. i \in DOMAIN inbox[s] /\ x \in Channel
  BY <1>1, <1>2, IncomingElements, DatagramFields
<1>4. inbox' \in [Server -> Seq(Datagram)]
  BY <1>1, <1>2, <1>3, AfterType
<1>5. NetTypeOK' /\ ClientTypeOK'
  BY <1>1, <1>4 DEF NetTypeOK, ClientTypeOK, clientVars
<1>6. /\ DOMAIN channel_list' = Server
      /\ \A r \in Server : ChannelTableOK(channel_list'[r])
  <2>1. CASE UNCHANGED channel_list
    BY <1>1, <2>1 DEF ServerTypeOK
  <2>2. CASE Has(s, x) /\ channel_list' = [channel_list EXCEPT ![s][x] = ch]
    <3>1. ch \in ChannelRecord
      BY <1>1, <2>2, ChannelRecords, UnsubscribeProperties
    <3>2. ChannelTableOK([channel_list[s] EXCEPT ![x] = ch])
      BY <1>1, <1>3, <2>2, <3>1, ChannelUpdated
    <3>3. QED
      BY <1>1, <2>2, <3>2, TablesUpdated
  <2>3. QED
    BY <1>2, <2>1, <2>2
<1>7. ServerTypeOK'
  BY <1>1, <1>2, <1>6 DEF ServerTypeOK, history
<1>8. QED
  BY <1>5, <1>7 DEF TypeOK

----------------------------------------------------------------------------
\* Messages of users and of servers keep the types.
LEMMA SayRequestType ==
  ASSUME TypeOK, NEW s \in Server, RecvSay(s), UNCHANGED <<faults, clientVars>>
  PROVE  TypeOK'
<1>1. NetTypeOK /\ ServerTypeOK /\ ClientTypeOK
  BY DEF TypeOK
<1>2. PICK i \in Incoming(s, "REQ_SAY") :
        LET d == inbox[s][i] IN
        /\ \/ /\ ~knows(user_list[s], d.src)
              /\ Crash(s)
              /\ inbox' = After(s, i)
              /\ UNCHANGED <<channel_list, history>>
           \/ /\ knows(user_list[s], d.src)
              /\ \E id \in Draws[d.text.msg] :
                   /\ Say(s, i, d.text, id)
                   /\ said' = [said EXCEPT ![s][id] = Copies(@ + 1)]
              /\ topic' = [topic EXCEPT ![d.text.msg] = d.channel]
              /\ audience' = IF OnlyDatagram(s, i)
                             THEN [audience EXCEPT ![d.text.msg] = Members(d.channel)]
                             ELSE audience
        /\ UNCHANGED <<user_list, ID_LIST, ID_LIST_SIZE, sweep, sweeps>>
  BY DEF RecvSay
<1> DEFINE d == inbox[s][i]
           m == d.text.msg
<1>3. /\ i \in DOMAIN inbox[s]
      /\ d.type = "REQ_SAY" /\ d.channel \in Channel /\ d.text \in Text
      /\ m \in Message
  BY <1>1, <1>2, IncomingElements, DatagramFields DEF Text
<1>4. CASE Crash(s) /\ inbox' = After(s, i) /\ UNCHANGED <<channel_list, history>>
  <2>1. inbox' \in [Server -> Seq(Datagram)]
    BY <1>1, <1>3, <1>4, AfterType
  <2>2. NetTypeOK' /\ ClientTypeOK'
    BY <1>1, <2>1 DEF NetTypeOK, ClientTypeOK, clientVars
  <2>3. ServerTypeOK'
    BY <1>1, <1>2, <1>4 DEF ServerTypeOK, Crash, history
  <2>4. QED
    BY <2>2, <2>3 DEF TypeOK
<1>5. CASE /\ \E id \in Draws[m] : /\ Say(s, i, d.text, id)
                                   /\ said' = [said EXCEPT ![s][id] = Copies(@ + 1)]
           /\ topic' = [topic EXCEPT ![m] = d.channel]
           /\ audience' = IF OnlyDatagram(s, i)
                          THEN [audience EXCEPT ![m] = Members(d.channel)]
                          ELSE audience
  <2>1. PICK id \in Draws[m] : /\ Say(s, i, d.text, id)
                                /\ said' = [said EXCEPT ![s][id] = Copies(@ + 1)]
    BY <1>5
  <2>2. id \in Id
    BY <1>3, ServerAssumption
  <2>3. /\ inbox' \in [Server -> Seq(Datagram)]
        /\ status' \in [Server -> {"up", "crashed"}]
        /\ DOMAIN channel_list' = Server
        /\ \A r \in Server : ChannelTableOK(channel_list'[r])
        /\ delivered' \in [Client -> [Text -> 0 .. MaxCopies]]
        /\ strays' \in [Client -> SUBSET {"S2S_SAY", "S2S_LEAVE", "REQ_JOIN"}]
        /\ relayed' \in [Server -> [Id -> 0 .. MaxCopies]]
    BY <1>3, <2>1, <2>2, SayType
  <2>4. topic' \in [Message -> Channel \cup {NoChannel}]
    BY <1>1, <1>3, <1>5 DEF ServerTypeOK
  <2>5. Copies(said[s][id] + 1) \in 0 .. MaxCopies
    <3>1. said[s][id] + 1 \in Nat
      BY <1>1, <2>2, ServerAssumption DEF ServerTypeOK
    <3>2. QED
      BY <3>1, CopiesType
  <2>6. said' \in [Server -> [Id -> 0 .. MaxCopies]]
    BY <1>1, <2>1, <2>2, <2>5 DEF ServerTypeOK
  <2>7. audience' \in [Message -> SUBSET Client]
    <3>1. Members(d.channel) \subseteq Client
      BY DEF Members
    <3>2. QED
      BY <1>1, <1>5, <3>1 DEF ServerTypeOK
  <2>8. NetTypeOK' /\ ClientTypeOK'
    BY <1>1, <2>3 DEF NetTypeOK, ClientTypeOK, clientVars
  <2>9. ServerTypeOK'
    BY <1>1, <1>2, <2>3, <2>4, <2>6, <2>7 DEF ServerTypeOK
  <2>10. QED
    BY <2>8, <2>9 DEF TypeOK
<1>6. QED
  BY <1>2, <1>4, <1>5

LEMMA S2SSayType ==
  ASSUME TypeOK, NEW s \in Server, RecvS2SSay(s), UNCHANGED <<faults, clientVars>>
  PROVE  TypeOK'
<1>1. NetTypeOK /\ ServerTypeOK /\ ClientTypeOK
  BY DEF TypeOK
<1>2. PICK i \in Incoming(s, "S2S_SAY") :
        LET d == inbox[s][i] IN
        /\ \/ /\ SeenBefore(s, d.id)
              /\ inbox' = After(s, i)
              /\ UNCHANGED <<status, channel_list, ID_LIST, ID_LIST_SIZE, delivered, strays, relayed>>
           \/ /\ ~SeenBefore(s, d.id)
              /\ ID_LIST_SIZE' = [ID_LIST_SIZE EXCEPT ![s] =
                                    IF Len(ID_LIST[s]) = @ THEN 2 * @ ELSE @]
              /\ ID_LIST' = [ID_LIST EXCEPT ![s] = Append(@, d.id)]
              /\ Say(s, i, Clip(d.text), d.id)
        /\ UNCHANGED <<user_list, sweep, sweeps, topic, said, audience>>
  BY DEF RecvS2SSay
<1> DEFINE d == inbox[s][i]
<1>3. /\ i \in DOMAIN inbox[s]
      /\ d.type = "S2S_SAY" /\ d.channel \in Channel /\ d.text \in Text /\ d.id \in Id
  BY <1>1, <1>2, IncomingElements, DatagramFields
<1>4. CASE /\ inbox' = After(s, i)
           /\ UNCHANGED <<status, channel_list, ID_LIST, ID_LIST_SIZE, delivered, strays, relayed>>
  <2>1. inbox' \in [Server -> Seq(Datagram)]
    BY <1>1, <1>3, <1>4, AfterType
  <2>2. NetTypeOK' /\ ClientTypeOK'
    BY <1>1, <2>1 DEF NetTypeOK, ClientTypeOK, clientVars
  <2>3. ServerTypeOK'
    BY <1>1, <1>2, <1>4 DEF ServerTypeOK
  <2>4. QED
    BY <2>2, <2>3 DEF TypeOK
<1>5. CASE /\ ID_LIST_SIZE' = [ID_LIST_SIZE EXCEPT ![s] =
                                 IF Len(ID_LIST[s]) = @ THEN 2 * @ ELSE @]
           /\ ID_LIST' = [ID_LIST EXCEPT ![s] = Append(@, d.id)]
           /\ Say(s, i, Clip(d.text), d.id)
  <2>1. Clip(d.text) \in Text
    BY <1>3 DEF Clip, Text
  <2>2. /\ inbox' \in [Server -> Seq(Datagram)]
        /\ status' \in [Server -> {"up", "crashed"}]
        /\ DOMAIN channel_list' = Server
        /\ \A r \in Server : ChannelTableOK(channel_list'[r])
        /\ delivered' \in [Client -> [Text -> 0 .. MaxCopies]]
        /\ strays' \in [Client -> SUBSET {"S2S_SAY", "S2S_LEAVE", "REQ_JOIN"}]
        /\ relayed' \in [Server -> [Id -> 0 .. MaxCopies]]
    BY <1>3, <1>5, <2>1, SayType
  <2>3. ID_LIST' \in [Server -> Seq(Id)]
    BY <1>1, <1>3, <1>5 DEF ServerTypeOK
  <2>4. ID_LIST_SIZE' \in [Server -> Nat]
    BY <1>1, <1>5 DEF ServerTypeOK
  <2>5. NetTypeOK' /\ ClientTypeOK'
    BY <1>1, <2>2 DEF NetTypeOK, ClientTypeOK, clientVars
  <2>6. ServerTypeOK'
    BY <1>1, <1>2, <2>2, <2>3, <2>4 DEF ServerTypeOK
  <2>7. QED
    BY <2>5, <2>6 DEF TypeOK
<1>6. QED
  BY <1>2, <1>4, <1>5

LEMMA QueryType ==
  ASSUME TypeOK, NEW s \in Server, RecvQuery(s), UNCHANGED <<faults, clientVars>>
  PROVE  TypeOK'
<1>1. NetTypeOK /\ ServerTypeOK /\ ClientTypeOK
  BY DEF TypeOK
<1>2. PICK i \in Incoming(s, "REQ_LIST") \cup Incoming(s, "REQ_WHO") : inbox' = After(s, i)
  BY DEF RecvQuery
<1>3. inbox' \in [Server -> Seq(Datagram)]
  BY <1>1, <1>2, IncomingElements, AfterType
<1>4. ServerTypeOK'
  BY <1>1 DEF RecvQuery, ServerTypeOK, serverVars, serverState, history
<1>5. QED
  BY <1>1, <1>3, <1>4 DEF TypeOK, NetTypeOK, ClientTypeOK, clientVars

----------------------------------------------------------------------------
\* The timer keeps the types.
LEMMA StartSweepType ==
  ASSUME TypeOK, NEW s \in Server, StartSweep(s), UNCHANGED <<faults, clientVars>>
  PROVE  TypeOK'
<1>1. NetTypeOK /\ ServerTypeOK /\ ClientTypeOK
  BY DEF TypeOK
<1>2. NetTypeOK' /\ ClientTypeOK'
  BY <1>1 DEF StartSweep, NetTypeOK, ClientTypeOK, clientVars
<1>3. sweep' \in [Server -> SUBSET Channel] /\ sweeps' \in 0 .. MaxSweeps
  BY <1>1, ServerAssumption, NetworkAssumption DEF StartSweep, NetTypeOK, ServerTypeOK, ChannelTableOK
<1>4. ServerTypeOK'
  BY <1>1, <1>3 DEF StartSweep, ServerTypeOK, history
<1>5. QED
  BY <1>2, <1>4 DEF TypeOK

LEMMA SweepChannelType ==
  ASSUME TypeOK, NEW s \in Server, SweepChannel(s), UNCHANGED <<faults, clientVars>>
  PROVE  TypeOK'
<1>1. NetTypeOK /\ ServerTypeOK /\ ClientTypeOK
  BY DEF TypeOK
<1>2. PICK x \in sweep[s] :
        /\ Spread(inbox, channel_list[s][x].servers,
                  [type |-> "REQ_JOIN", src |-> s, channel |-> x])
        /\ sweep' = [sweep EXCEPT ![s] = @ \ {x}]
  BY DEF SweepChannel
<1> DEFINE j == [type |-> "REQ_JOIN", src |-> s, channel |-> x]
<1>3. x \in Channel
  BY <1>1, <1>2 DEF ServerTypeOK
<1>4. j \in Datagram /\ j.type = "REQ_JOIN"
  BY <1>3, DatagramsSent DEF Node
<1>5. /\ inbox' \in [Server -> Seq(Datagram)]
      /\ strays' \in [Client -> SUBSET {"S2S_SAY", "S2S_LEAVE", "REQ_JOIN"}]
  BY <1>1, <1>2, <1>4, SpreadType DEF NetTypeOK
<1>6. sweep' \in [Server -> SUBSET Channel]
  BY <1>1, <1>2 DEF ServerTypeOK
<1>7. NetTypeOK' /\ ClientTypeOK'
  BY <1>1, <1>5 DEF NetTypeOK, ClientTypeOK, clientVars
<1>8. ServerTypeOK'
  BY <1>1, <1>5, <1>6 DEF SweepChannel, ServerTypeOK
<1>9. QED
  BY <1>7, <1>8 DEF TypeOK

\* What the user of a client types keeps the types.
LEMMA ClientStepType ==
  ASSUME TypeOK, NEW c \in Client, ClientStep(c), UNCHANGED <<faults, serverVars>>
  PROVE  TypeOK'
<1>1. ServerTypeOK'
  BY DEF TypeOK, ServerTypeOK, serverVars, serverState, history
<1>2. NetTypeOK' /\ ClientTypeOK'
  BY ClientStepKeepsTypes DEF TypeOK
<1>3. QED
  BY <1>1, <1>2 DEF TypeOK

\* The network keeps the types when it loses or doubles a datagram.
LEMMA FaultType ==
  ASSUME TypeOK, NEW s \in Server, LoseDatagram(s) \/ DoubleDatagram(s),
         UNCHANGED <<serverVars, clientVars>>
  PROVE  TypeOK'
<1>1. ServerTypeOK' /\ ClientTypeOK'
  BY DEF TypeOK, ServerTypeOK, ClientTypeOK, serverVars, serverState, history, clientVars
<1>2. NetTypeOK'
  BY FaultKeepsTypes DEF TypeOK
<1>3. QED
  BY <1>1, <1>2 DEF TypeOK

LEMMA TypeInit ==
  ASSUME Init
  PROVE  TypeOK
<1>1. NetTypeOK
  BY NetworkAssumption DEF Init, NetInit, NetTypeOK
<1>2. ServerTypeOK
  <2>1. ChannelTableOK([x \in {} |-> create_channel(0, 0)])
    BY DEF ChannelTableOK
  <2>2. QED
    BY <2>1, ServerAssumption DEF Init, ServerInit, ServerTypeOK
<1>3. ClientTypeOK
  BY ProtocolAssumption, ClientAssumption DEF Init, ClientInit, ClientTypeOK
<1>4. QED
  BY <1>1, <1>2, <1>3 DEF TypeOK

LEMMA TypeStep ==
  ASSUME TypeOK, [Next]_vars
  PROVE  TypeOK'
<1>1. ASSUME NEW s \in Server, ServerStep(s), UNCHANGED <<faults, clientVars>>
      PROVE  TypeOK'
  BY <1>1, LoginType, LogoutType, JoinExistingType, JoinNewType, LeaveType,
     S2SLeaveType, SayRequestType, S2SSayType, QueryType, StartSweepType,
     SweepChannelType
  DEF ServerStep, Receive
<1>2. ASSUME NEW c \in Client, ClientStep(c), UNCHANGED <<faults, serverVars>>
      PROVE  TypeOK'
  BY <1>2, ClientStepType
<1>3. ASSUME NEW s \in Server, LoseDatagram(s) \/ DoubleDatagram(s),
             UNCHANGED <<serverVars, clientVars>>
      PROVE  TypeOK'
  BY <1>3, FaultType
<1>4. CASE UNCHANGED vars
  BY <1>4 DEF vars, netVars, clientVars, serverVars, serverState, history,
              TypeOK, NetTypeOK, ServerTypeOK, ClientTypeOK
<1>5. QED
  BY <1>1, <1>2, <1>3, <1>4 DEF Next

----------------------------------------------------------------------------
\* The variables of clients, servers and network have the declared types in
\* every reachable state: handlers only send datagrams of the protocol, and
\* every operation on the tables returns a table.
THEOREM TypeCorrect == Spec => []TypeOK
<1>1. Init => TypeOK
  BY TypeInit
<1>2. TypeOK /\ [Next]_vars => TypeOK'
  BY TypeStep
<1>3. QED
  BY <1>1, <1>2, PTL DEF Spec

----------------------------------------------------------------------------
\* The list of identifiers grows before it overflows only because its capacity
\* is never zero.
IdInv == IdListSound /\ \A s \in Server : ID_LIST_SIZE[s] > 0

\* Only say() for a message from a server touches the list.
LEMMA IdListSteps ==
  ASSUME [Next]_vars
  PROVE  \/ UNCHANGED <<ID_LIST, ID_LIST_SIZE>>
         \/ \E s \in Server : RecvS2SSay(s)
<1>1. ASSUME NEW s \in Server, ServerStep(s)
      PROVE  UNCHANGED <<ID_LIST, ID_LIST_SIZE>> \/ RecvS2SSay(s)
  BY <1>1 DEF ServerStep, Receive, RecvLogin, RecvLogout, RecvJoinExisting, RecvJoinNew,
              RecvLeave, RecvS2SLeave, RecvSay, RecvQuery, StartSweep, SweepChannel,
              serverVars, serverState
<1>2. CASE UNCHANGED vars
  BY <1>2 DEF vars, serverVars, serverState
<1>3. ASSUME UNCHANGED serverVars
      PROVE  UNCHANGED <<ID_LIST, ID_LIST_SIZE>>
  BY <1>3 DEF serverVars, serverState
<1>4. QED
  BY <1>1, <1>2, <1>3 DEF Next

LEMMA IdInvStep ==
  ASSUME TypeOK, IdInv, [Next]_vars
  PROVE  IdInv'
<1>1. CASE UNCHANGED <<ID_LIST, ID_LIST_SIZE>>
  BY <1>1 DEF IdInv, IdListSound
<1>2. ASSUME NEW s \in Server, RecvS2SSay(s)
      PROVE  IdInv'
  <2>1. PICK i \in Incoming(s, "S2S_SAY") :
          \/ UNCHANGED <<ID_LIST, ID_LIST_SIZE>>
          \/ /\ ~SeenBefore(s, inbox[s][i].id)
             /\ ID_LIST_SIZE' = [ID_LIST_SIZE EXCEPT ![s] =
                                   IF Len(ID_LIST[s]) = @ THEN 2 * @ ELSE @]
             /\ ID_LIST' = [ID_LIST EXCEPT ![s] = Append(@, inbox[s][i].id)]
    BY <1>2 DEF RecvS2SSay
  <2> DEFINE id == inbox[s][i].id
             old == ID_LIST[s]
             new == Append(old, id)
  <2>2. id \in Id
    BY <2>1, IncomingElements, DatagramFields DEF TypeOK
  <2>3. /\ old \in Seq(Id) /\ Len(old) \in Nat /\ DOMAIN old = 1 .. Len(old)
        /\ ID_LIST_SIZE[s] \in Nat /\ Len(old) <= ID_LIST_SIZE[s] /\ ID_LIST_SIZE[s] > 0
    BY LenProperties DEF TypeOK, ServerTypeOK, IdInv, IdListSound
  <2>4. /\ new \in Seq(Id) /\ Len(new) = Len(old) + 1
        /\ \A j \in 1 .. Len(old) : new[j] = old[j]
        /\ new[Len(old) + 1] = id
    BY <2>2, <2>3, AppendProperties
  <2>5. DOMAIN new = 1 .. Len(old) + 1
    BY <2>4, LenProperties
  <2>6. CASE UNCHANGED <<ID_LIST, ID_LIST_SIZE>>
    BY <2>6 DEF IdInv, IdListSound
  <2>7. CASE /\ ~SeenBefore(s, id)
             /\ ID_LIST_SIZE' = [ID_LIST_SIZE EXCEPT ![s] =
                                   IF Len(ID_LIST[s]) = @ THEN 2 * @ ELSE @]
             /\ ID_LIST' = [ID_LIST EXCEPT ![s] = new]
    <3>1. /\ ID_LIST'[s] = new
          /\ ID_LIST_SIZE'[s] = IF Len(old) = ID_LIST_SIZE[s] THEN 2 * ID_LIST_SIZE[s]
                                                             ELSE ID_LIST_SIZE[s]
          /\ \A r \in Server \ {s} : /\ ID_LIST'[r] = ID_LIST[r]
                                     /\ ID_LIST_SIZE'[r] = ID_LIST_SIZE[r]
      BY <2>7 DEF TypeOK, ServerTypeOK
    <3> HIDE DEF new, old
    <3>2. Len(ID_LIST'[s]) <= ID_LIST_SIZE'[s] /\ ID_LIST_SIZE'[s] > 0
      BY <2>3, <2>4, <3>1
    <3>3. \A j, k \in DOMAIN new : new[j] = new[k] => j = k
      <4>1. \A j \in 1 .. Len(old) : old[j] # id
        BY <2>3, <2>7 DEF SeenBefore, old
      <4>2. \A j, k \in 1 .. Len(old) : old[j] = old[k] => j = k
        BY <2>3 DEF IdInv, IdListSound, old
      <4>3. QED
        BY <2>3, <2>4, <2>5, <4>1, <4>2
    <3>4. QED
      BY <3>1, <3>2, <3>3 DEF IdInv, IdListSound
  <2>8. QED
    BY <2>1, <2>6, <2>7
<1>3. QED
  BY <1>1, <1>2, IdListSteps

\* say() never writes past the end of the array behind ID_LIST and never
\* enters an identifier twice: in every topology, and whatever the network
\* loses, doubles or reorders.
THEOREM IdListCorrect == Spec => []IdListSound
<1>1. Init => IdInv
  BY ServerAssumption DEF Init, ServerInit, IdInv, IdListSound
<1>2. TypeOK /\ IdInv /\ [Next]_vars => IdInv'
  BY IdInvStep
<1>3. IdInv => IdListSound
  BY DEF IdInv
<1>4. QED
  BY <1>1, <1>2, <1>3, TypeCorrect, PTL DEF Spec

----------------------------------------------------------------------------
\* One list of channels is replaced by one whose counters are right.
LEMMA CountsUpdated ==
  ASSUME TypeOK, CountsAgree, NEW s \in Server, NEW f,
         \A x \in DOMAIN f : Counted(f[x]),
         channel_list' = [channel_list EXCEPT ![s] = f]
  PROVE  CountsAgree'
  BY DEF CountsAgree, Counted, TypeOK, ServerTypeOK

\* One channel of server s is replaced by one whose counters are right.
LEMMA CountsUpdatedAt ==
  ASSUME TypeOK, CountsAgree, NEW s \in Server, NEW x, Has(s, x),
         NEW ch, Counted(ch), channel_list' = [channel_list EXCEPT ![s][x] = ch]
  PROVE  CountsAgree'
<1> DEFINE f == [channel_list[s] EXCEPT ![x] = ch]
<1>1. channel_list' = [channel_list EXCEPT ![s] = f]
  OBVIOUS
<1>2. \A y \in DOMAIN f : Counted(f[y])
  BY DEF CountsAgree, TypeOK, ServerTypeOK, ChannelTableOK, Has
<1> HIDE DEF f
<1>3. QED
  BY <1>1, <1>2, CountsUpdated

\* The counters of a channel that server s has are right.
LEMMA CountsAt ==
  ASSUME TypeOK, CountsAgree, NEW s \in Server, NEW x, Has(s, x)
  PROVE  /\ x \in Channel
         /\ channel_list[s][x] \in ChannelRecord
         /\ IsFiniteSet(channel_list[s][x].servers)
         /\ Counted(channel_list[s][x])
  BY ChannelRecords DEF CountsAgree, TypeOK, Has

\* say() changes the list of channels only by removing one.
LEMMA SayCounts ==
  ASSUME TypeOK, CountsAgree, NEW s \in Server, NEW i, NEW t, NEW id, Say(s, i, t, id)
  PROVE  CountsAgree'
<1> DEFINE x == inbox[s][i].channel
<1>1. CASE UNCHANGED channel_list
  BY <1>1 DEF CountsAgree, Counted
<1>2. CASE channel_list' = [channel_list EXCEPT ![s] = remove_channel(s, x)]
  <2>1. \A y \in DOMAIN remove_channel(s, x) : Counted(remove_channel(s, x)[y])
    BY DEF CountsAgree, remove_channel, Restrict
  <2>2. QED
    BY <1>2, <2>1, CountsUpdated
<1>3. QED
  BY <1>1, <1>2 DEF Say, RelayTo

\* Every handler keeps the counters right.
LEMMA CountsReceive ==
  ASSUME TypeOK, CountsAgree, Uninit = {0}, NEW s \in Server, Receive(s)
  PROVE  CountsAgree'
<1>1. CASE RecvLogin(s)
  BY <1>1 DEF RecvLogin, CountsAgree, Counted
<1>2. CASE RecvLogout(s)
  <2>1. CASE UNCHANGED channel_list
    BY <2>1 DEF CountsAgree, Counted
  <2>2. ASSUME NEW c, channel_list' =
                        [channel_list EXCEPT ![s] = ChannelsAfterLogout(s, NameOf[c])]
        PROVE  CountsAgree'
    <3> DEFINE left == [x \in DOMAIN channel_list[s] |->
                          remove_user_from_channel(channel_list[s][x], NameOf[c])]
               kept == {x \in DOMAIN left : left[x].user_count # 0}
    <3>1. \A x \in DOMAIN left : Counted(left[x])
      BY CountsAt, RemoveFromChannelProperties DEF Has
    <3>2. ChannelsAfterLogout(s, NameOf[c]) = [x \in kept |-> left[x]] /\ kept \subseteq DOMAIN left
      BY DEF ChannelsAfterLogout, Restrict
    <3> HIDE DEF left, kept
    <3>3. \A x \in DOMAIN ChannelsAfterLogout(s, NameOf[c]) :
            Counted(ChannelsAfterLogout(s, NameOf[c])[x])
      BY <3>1, <3>2
    <3>4. QED
      BY <2>2, <3>3, CountsUpdated
  <2>3. QED
    BY <1>2, <2>1, <2>2 DEF RecvLogout
<1>3. CASE RecvJoinExisting(s)
  <2>1. PICK i \in Incoming(s, "REQ_JOIN") :
          /\ Has(s, inbox[s][i].channel)
          /\ channel_list' = [channel_list EXCEPT ![s][inbox[s][i].channel] =
                                JoinChannel(s, @, inbox[s][i].src)]
    BY <1>3 DEF RecvJoinExisting
  <2> DEFINE x == inbox[s][i].channel
             ch == JoinChannel(s, channel_list[s][x], inbox[s][i].src)
  <2>2. inbox[s][i].src \in Node
    BY <2>1, IncomingElements, DatagramFields DEF TypeOK
  <2>3. Counted(ch)
    BY <2>1, <2>2, CountsAt, JoinChannelProperties DEF TypeOK
  <2>4. channel_list' = [channel_list EXCEPT ![s][x] = ch]
    BY <2>1
  <2>5. QED
    BY <2>1, <2>3, <2>4, CountsUpdatedAt
<1>4. CASE RecvJoinNew(s)
  <2>1. PICK i \in Incoming(s, "REQ_JOIN"), uc \in Uninit, sc \in Uninit :
          channel_list' = [channel_list EXCEPT ![s] =
                            WithChannel(s, inbox[s][i].channel,
                                        NewChannel(s, inbox[s][i].src, uc, sc))]
    BY <1>4 DEF RecvJoinNew, NewChannel
  <2> DEFINE x == inbox[s][i].channel
             ch == NewChannel(s, inbox[s][i].src, uc, sc)
  <2>2. inbox[s][i].src \in Node
    BY <2>1, IncomingElements, DatagramFields DEF TypeOK
  <2>3. Counted(ch)
    BY <2>1, <2>2, NewChannelProperties DEF TypeOK
  <2> HIDE DEF ch
  <2>4. \A y \in DOMAIN WithChannel(s, x, ch) : Counted(WithChannel(s, x, ch)[y])
    BY <2>3 DEF WithChannel, CountsAgree
  <2>5. QED
    BY <2>1, <2>4, CountsUpdated DEF ch
<1>5. CASE RecvLeave(s)
  <2>1. CASE UNCHANGED channel_list
    BY <2>1 DEF CountsAgree, Counted
  <2>2. ASSUME NEW x, NEW name, Has(s, x),
               channel_list' = [channel_list EXCEPT ![s][x] = remove_user_from_channel(@, name)]
        PROVE  CountsAgree'
    BY <2>2, CountsAt, RemoveFromChannelProperties, CountsUpdatedAt
  <2>3. QED
    BY <1>5, <2>1, <2>2 DEF RecvLeave
<1>6. CASE RecvS2SLeave(s)
  <2>1. CASE UNCHANGED channel_list
    BY <2>1 DEF CountsAgree, Counted
  <2>2. ASSUME NEW x, NEW n, Has(s, x),
               channel_list' = [channel_list EXCEPT ![s][x] = unsub_server(@, n)]
        PROVE  CountsAgree'
    BY <2>2, CountsAt, UnsubscribeProperties, CountsUpdatedAt
  <2>3. QED
    BY <1>6, <2>1, <2>2 DEF RecvS2SLeave
<1>7. CASE RecvSay(s)
  <2>1. CASE UNCHANGED channel_list
    BY <2>1 DEF CountsAgree, Counted
  <2>2. QED
    BY <1>7, <2>1, SayCounts DEF RecvSay
<1>8. CASE RecvS2SSay(s)
  <2>1. CASE UNCHANGED channel_list
    BY <2>1 DEF CountsAgree, Counted
  <2>2. QED
    BY <1>8, <2>1, SayCounts DEF RecvS2SSay
<1>9. CASE RecvQuery(s)
  BY <1>9 DEF RecvQuery, serverVars, serverState, CountsAgree, Counted
<1>10. QED
  BY <1>1, <1>2, <1>3, <1>4, <1>5, <1>6, <1>7, <1>8, <1>9 DEF Receive

LEMMA CountsStep ==
  ASSUME Uninit = {0}, TypeOK, CountsAgree, [Next]_vars
  PROVE  CountsAgree'
<1>1. CASE UNCHANGED channel_list
  BY <1>1 DEF CountsAgree, Counted
<1>2. ASSUME NEW s \in Server, Receive(s)
      PROVE  CountsAgree'
  BY <1>2, CountsReceive
<1>3. QED
  BY <1>1, <1>2 DEF Next, ServerStep, StartSweep, SweepChannel,
                    vars, serverVars, serverState

\* The counters that join(), leave(), logout() and unsub_server() keep by hand
\* are the lengths of their lists, if malloc() returns zeroed memory: the
\* handlers are right, and what create_channel leaves out is all that is wrong.
THEOREM CountsCorrect ==
  ASSUME Uninit = {0}
  PROVE  Spec => []CountsAgree
<1>1. Init => CountsAgree
  BY DEF Init, ServerInit, CountsAgree
<1>2. TypeOK /\ CountsAgree /\ [Next]_vars => CountsAgree'
  BY CountsStep
<1>3. QED
  BY <1>1, <1>2, TypeCorrect, PTL DEF Spec

----------------------------------------------------------------------------
\* Has server s entered identifier id in its ID_LIST?
MarkOf(s, id) == IF SeenBefore(s, id) THEN 1 ELSE 0

\* Besides what its own users say, a server sends messages with an identifier
\* out once, and has then the identifier in ID_LIST.
RelayInv ==
  \A s \in Server, id \in Id : relayed[s][id] <= said[s][id] + MarkOf(s, id)

\* say() counts one relay, or none if the channel is missing or given up.
LEMMA SayRelay ==
  ASSUME NEW s, NEW i, NEW t, NEW id, Say(s, i, t, id)
  PROVE  UNCHANGED relayed \/ relayed' = [relayed EXCEPT ![s][id] = Copies(@ + 1)]
  BY DEF Say

\* Every step but say() leaves the counts and the list of identifiers alone.
LEMMA RelaySteps ==
  ASSUME [Next]_vars
  PROVE  \/ UNCHANGED <<relayed, said, ID_LIST>>
         \/ \E s \in Server : RecvSay(s) \/ RecvS2SSay(s)
<1>1. ASSUME NEW s \in Server, ServerStep(s)
      PROVE  UNCHANGED <<relayed, said, ID_LIST>> \/ RecvSay(s) \/ RecvS2SSay(s)
  BY <1>1 DEF ServerStep, Receive, RecvLogin, RecvLogout, RecvJoinExisting, RecvJoinNew,
              RecvLeave, RecvS2SLeave, RecvQuery, StartSweep, SweepChannel,
              history, serverVars, serverState
<1>2. ASSUME UNCHANGED serverVars
      PROVE  UNCHANGED <<relayed, said, ID_LIST>>
  BY <1>2 DEF serverVars, serverState, history
<1>3. CASE UNCHANGED vars
  BY <1>2, <1>3 DEF vars
<1>4. QED
  BY <1>1, <1>2, <1>3 DEF Next

\* A count that stops at MaxCopies keeps its distance from one that is stepped
\* with it.
LEMMA CopiesStep ==
  ASSUME NEW r \in 0 .. MaxCopies, NEW n \in 0 .. MaxCopies, NEW b \in {0, 1}
  PROVE  /\ r <= n + b => Copies(r + 1) <= Copies(n + 1) + b
         /\ r <= n => Copies(r + 1) <= n + 1
         /\ n <= Copies(n + 1) /\ Copies(n + 1) \in Nat
  BY ServerAssumption DEF Copies

\* A message of an own user may add one relay, which is counted in said.
LEMMA OwnRelay ==
  ASSUME TypeOK, RelayInv, NEW s \in Server, RecvSay(s)
  PROVE  RelayInv'
<1>1. PICK i \in Incoming(s, "REQ_SAY") :
        /\ UNCHANGED ID_LIST
        /\ \/ UNCHANGED <<relayed, said>>
           \/ \E id \in Draws[inbox[s][i].text.msg] :
                /\ Say(s, i, inbox[s][i].text, id)
                /\ said' = [said EXCEPT ![s][id] = Copies(@ + 1)]
  BY DEF RecvSay, history
<1>2. CASE UNCHANGED <<relayed, said>>
  BY <1>1, <1>2 DEF RelayInv, MarkOf, SeenBefore
<1>3. ASSUME NEW id \in Draws[inbox[s][i].text.msg],
             Say(s, i, inbox[s][i].text, id),
             said' = [said EXCEPT ![s][id] = Copies(@ + 1)]
      PROVE  RelayInv'
  <2>1. id \in Id
    <3>1. inbox[s][i].text.msg \in Message
      BY <1>1, IncomingElements, DatagramFields DEF TypeOK, Text
    <3>2. QED
      BY <3>1, ServerAssumption
  <2>2. UNCHANGED relayed \/ relayed' = [relayed EXCEPT ![s][id] = Copies(@ + 1)]
    BY <1>3, SayRelay
  <2>3. ASSUME NEW r \in Server, NEW n \in Id
        PROVE  relayed'[r][n] <= said'[r][n] + MarkOf(r, n)'
    <3>1. MarkOf(r, n)' = MarkOf(r, n) /\ MarkOf(r, n) \in {0, 1}
      BY <1>1 DEF MarkOf, SeenBefore
    <3>2. /\ relayed[r][n] \in 0 .. MaxCopies /\ said[r][n] \in 0 .. MaxCopies
          /\ relayed[r][n] <= said[r][n] + MarkOf(r, n)
      BY DEF TypeOK, ServerTypeOK, RelayInv
    <3>3. CASE r = s /\ n = id
      <4>1. said'[r][n] = Copies(said[r][n] + 1)
        BY <1>3, <2>1, <3>3 DEF TypeOK, ServerTypeOK
      <4>2. relayed'[r][n] \in {relayed[r][n], Copies(relayed[r][n] + 1)}
        BY <2>1, <2>2, <3>3 DEF TypeOK, ServerTypeOK
      <4>3. /\ Copies(relayed[r][n] + 1) <= Copies(said[r][n] + 1) + MarkOf(r, n)
            /\ said[r][n] <= Copies(said[r][n] + 1) /\ Copies(said[r][n] + 1) \in Nat
        BY <3>1, <3>2, CopiesStep
      <4>4. QED
        BY <3>1, <3>2, <4>1, <4>2, <4>3
    <3>4. CASE ~(r = s /\ n = id)
      <4>1. said'[r][n] = said[r][n] /\ relayed'[r][n] = relayed[r][n]
        BY <1>3, <2>1, <2>2, <3>4 DEF TypeOK, ServerTypeOK
      <4>2. QED
        BY <3>1, <3>2, <4>1
    <3>5. QED
      BY <3>3, <3>4
  <2>4. QED
    BY <2>3 DEF RelayInv
<1>4. QED
  BY <1>1, <1>2, <1>3

\* A server that enters an identifier in its list has seen this one as well.
LEMMA IdEntered ==
  ASSUME TypeOK, NEW s \in Server, NEW id \in Id,
         ID_LIST' = [ID_LIST EXCEPT ![s] = Append(@, id)]
  PROVE  \A r \in Server, n \in Id :
           SeenBefore(r, n)' <=> (SeenBefore(r, n) \/ (r = s /\ n = id))
<1> DEFINE old == ID_LIST[s]
           new == Append(old, id)
<1>1. old \in Seq(Id) /\ Len(old) \in Nat
  BY LenProperties DEF TypeOK, ServerTypeOK
<1>2. /\ DOMAIN old = 1 .. Len(old) /\ DOMAIN new = 1 .. Len(old) + 1
      /\ \A k \in 1 .. Len(old) : new[k] = old[k]
      /\ new[Len(old) + 1] = id
  BY <1>1, AppendProperties, LenProperties
<1>3. /\ ID_LIST'[s] = new
      /\ \A r \in Server \ {s} : ID_LIST'[r] = ID_LIST[r]
  BY DEF TypeOK, ServerTypeOK
<1> HIDE DEF new
<1>4. \A n : (\E k \in DOMAIN new : new[k] = n) <=> ((\E k \in DOMAIN old : old[k] = n) \/ n = id)
  BY <1>1, <1>2
<1>5. QED
  BY <1>3, <1>4 DEF SeenBefore

\* A message from a server may add one relay, and marks its identifier, which
\* was not marked before.
LEMMA ForeignRelay ==
  ASSUME TypeOK, RelayInv, NEW s \in Server, RecvS2SSay(s)
  PROVE  RelayInv'
<1>1. PICK i \in Incoming(s, "S2S_SAY") :
        /\ UNCHANGED said
        /\ \/ UNCHANGED <<relayed, ID_LIST>>
           \/ /\ ~SeenBefore(s, inbox[s][i].id)
              /\ ID_LIST' = [ID_LIST EXCEPT ![s] = Append(@, inbox[s][i].id)]
              /\ Say(s, i, Clip(inbox[s][i].text), inbox[s][i].id)
  BY DEF RecvS2SSay
<1> DEFINE id == inbox[s][i].id
<1>2. id \in Id
  BY <1>1, IncomingElements, DatagramFields DEF TypeOK
<1>3. CASE UNCHANGED <<relayed, ID_LIST>>
  BY <1>1, <1>3 DEF RelayInv, MarkOf, SeenBefore
<1>4. CASE /\ ~SeenBefore(s, id)
           /\ ID_LIST' = [ID_LIST EXCEPT ![s] = Append(@, id)]
           /\ Say(s, i, Clip(inbox[s][i].text), id)
  <2>1. UNCHANGED relayed \/ relayed' = [relayed EXCEPT ![s][id] = Copies(@ + 1)]
    BY <1>4, SayRelay
  <2>2. \A r \in Server, n \in Id : SeenBefore(r, n)' <=> (SeenBefore(r, n) \/ (r = s /\ n = id))
    BY <1>2, <1>4, IdEntered
  <2>3. ASSUME NEW r \in Server, NEW n \in Id
        PROVE  relayed'[r][n] <= said[r][n] + MarkOf(r, n)'
    <3>1. /\ relayed[r][n] \in 0 .. MaxCopies /\ said[r][n] \in 0 .. MaxCopies
          /\ relayed[r][n] <= said[r][n] + MarkOf(r, n)
      BY DEF TypeOK, ServerTypeOK, RelayInv
    <3>2. CASE r = s /\ n = id
      <4>1. MarkOf(r, n) = 0 /\ MarkOf(r, n)' = 1
        BY <1>4, <2>2, <3>2 DEF MarkOf
      <4>2. relayed'[r][n] \in {relayed[r][n], Copies(relayed[r][n] + 1)}
        BY <1>2, <2>1, <3>2 DEF TypeOK, ServerTypeOK
      <4>3. Copies(relayed[r][n] + 1) <= said[r][n] + 1
        BY <3>1, <4>1, CopiesStep
      <4>4. QED
        BY <3>1, <4>1, <4>2, <4>3
    <3>3. CASE ~(r = s /\ n = id)
      <4>1. relayed'[r][n] = relayed[r][n]
        BY <1>2, <2>1, <3>3 DEF TypeOK, ServerTypeOK
      <4>2. MarkOf(r, n) <= MarkOf(r, n)' /\ MarkOf(r, n) \in {0, 1} /\ MarkOf(r, n)' \in {0, 1}
        BY <2>2 DEF MarkOf
      <4>3. QED
        BY <3>1, <4>1, <4>2
    <3>4. QED
      BY <3>2, <3>3
  <2>4. QED
    BY <1>1, <2>3 DEF RelayInv
<1>5. QED
  BY <1>1, <1>3, <1>4

\* Flooding stops: in every topology, whatever identifiers are drawn and
\* whatever the network loses, doubles or reorders, a server sends messages with
\* one identifier out once for all the copies it gets from other servers,
\* besides once each time it drew the identifier itself.
THEOREM RelayCorrect == Spec => []RelayedAtMostOnce
<1>1. Init => RelayInv
  <2> SUFFICES ASSUME Init PROVE RelayInv
    OBVIOUS
  <2>1. \A s \in Server, id \in Id : relayed[s][id] = 0 /\ said[s][id] = 0
    BY DEF Init, ServerInit
  <2>2. QED
    BY <2>1 DEF RelayInv, MarkOf
<1>2. TypeOK /\ RelayInv /\ [Next]_vars => RelayInv'
  <2> SUFFICES ASSUME TypeOK, RelayInv, [Next]_vars PROVE RelayInv'
    OBVIOUS
  <2>1. CASE UNCHANGED <<relayed, said, ID_LIST>>
    BY <2>1 DEF RelayInv, MarkOf, SeenBefore
  <2>2. QED
    BY <2>1, RelaySteps, OwnRelay, ForeignRelay
<1>3. TypeOK /\ RelayInv => RelayedAtMostOnce
  <2> SUFFICES ASSUME TypeOK, RelayInv, NEW s \in Server, NEW id \in Id
               PROVE  relayed[s][id] <= said[s][id] + 1
    BY DEF RelayedAtMostOnce
  <2>1. relayed[s][id] \in Nat /\ said[s][id] \in Nat /\ MarkOf(s, id) \in {0, 1}
    BY ServerAssumption DEF TypeOK, ServerTypeOK, MarkOf
  <2>2. QED
    BY <2>1 DEF RelayInv
<1>4. QED
  BY <1>1, <1>2, <1>3, TypeCorrect, PTL DEF Spec

----------------------------------------------------------------------------
(***************************************************************************)
(* What RelayNet owes to the order of datagrams: users are known when they *)
(* are heard, and only neighbours are ever subscribed as servers.          *)
(***************************************************************************)
\* Each of two neighbours has the other on its command line.
NeighboursMutual == \A r, s \in Server : r \in Adjacent[s] => s \in Adjacent[r]

\* Every channel of table f is fed by servers of A only; every join in queue q
\* that a server sent comes from a server of A.
FedBy(f, A) == \A x \in DOMAIN f : f[x].servers \subseteq A
JoinsFrom(q, A) ==
  \A i \in 1 .. Len(q) : q[i].src \in Server /\ q[i].type = "REQ_JOIN" => q[i].src \in A

OrderInv ==
  /\ \A s \in Server : /\ OrderAt(s, inbox[s], phase, user_list[s])
                       /\ FedBy(channel_list[s], Adjacent[s])
                       /\ JoinsFrom(inbox[s], Adjacent[s])
  /\ \A c \in Client : strays[c] \subseteq {"S2S_LEAVE"}

\* What matters of a turn of the main loop of s: the oldest datagram is handled and
\* datagram d goes to the nodes of D.
Turn(s, D, d) ==
  /\ Len(inbox[s]) # 0
  /\ inbox' = SendAll(After(s, 1), D, d)
  /\ d \in Datagram /\ d.src = s
  /\ d.type = "REQ_JOIN" => D \subseteq Adjacent[s]
  /\ Remembers(inbox[s], user_list[s], user_list'[s])
  /\ \A r \in Server \ {s} : /\ user_list'[r] = user_list[r]
                             /\ channel_list'[r] = channel_list[r]
  /\ FedBy(channel_list'[s], Adjacent[s])
  /\ \A c \in Client : strays'[c] \subseteq {"S2S_LEAVE"}

\* A datagram that is sent to nobody.
Silence(s) == [type |-> "S2S_LEAVE", src |-> s, channel |-> Common]

LEMMA SilenceSent ==
  ASSUME TypeOK, NEW s \in Server
  PROVE  /\ Silence(s) \in Datagram /\ Silence(s).src = s /\ Silence(s).type # "REQ_JOIN"
         /\ \A i \in DOMAIN inbox[s] : After(s, i) = SendAll(After(s, i), {}, Silence(s))
<1>1. Silence(s) \in Datagram
  BY DatagramsSent, ProtocolAssumption DEF Silence
<1>2. \A i \in DOMAIN inbox[s] : After(s, i) \in [Server -> Seq(Datagram)]
  BY AfterType DEF TypeOK
<1>3. QED
  BY <1>1, <1>2 DEF Silence, SendAll

----------------------------------------------------------------------------
\* The queues: joins come from neighbours as long as they are sent to neighbours.
LEMMA JoinsAfter ==
  ASSUME NEW q \in Seq(Datagram), Len(q) # 0, NEW A, JoinsFrom(q, A)
  PROVE  JoinsFrom(RemoveAt(q, 1), A)
<1>1. Len(q) \in Nat /\ 1 \in 1 .. Len(q)
  BY LenProperties
<1>2. /\ Len(RemoveAt(q, 1)) = Len(q) - 1
      /\ \A j \in 1 .. Len(q) - 1 : RemoveAt(q, 1)[j] = q[j + 1]
  <2>1. \A j \in 1 .. Len(q) - 1 : ~(j < 1)
    BY <1>1
  <2>2. QED
    BY <1>1, <2>1, RemoveAtProperties
<1>3. \A j \in 1 .. Len(q) - 1 : j + 1 \in 1 .. Len(q)
  BY <1>1
<1>4. QED
  BY <1>2, <1>3 DEF JoinsFrom

LEMMA JoinsSent ==
  ASSUME NEW q \in Seq(Datagram), NEW d \in Datagram, NEW A, JoinsFrom(q, A),
         d.src \in Server /\ d.type = "REQ_JOIN" => d.src \in A
  PROVE  JoinsFrom(Append(q, d), A)
<1>1. /\ Len(q) \in Nat
      /\ Len(Append(q, d)) = Len(q) + 1
      /\ \A j \in 1 .. Len(q) : Append(q, d)[j] = q[j]
      /\ Append(q, d)[Len(q) + 1] = d
  BY LenProperties, AppendProperties
<1>2. \A j \in 1 .. Len(q) + 1 : j \in 1 .. Len(q) \/ j = Len(q) + 1
  BY <1>1
<1>3. QED
  BY <1>1, <1>2 DEF JoinsFrom

\* Server s sends d to the nodes of D: queues in order stay in order.
LEMMA SendAllKeepsOrder ==
  ASSUME NeighboursMutual, NEW s \in Server, NEW D, NEW d \in Datagram, d.src = s,
         d.type = "REQ_JOIN" => D \subseteq Adjacent[s],
         NEW q \in [Server -> Seq(Datagram)], NEW r \in Server, NEW ph, NEW list,
         OrderAt(r, q[r], ph, list), JoinsFrom(q[r], Adjacent[r])
  PROVE  /\ OrderAt(r, SendAll(q, D, d)[r], ph, list)
         /\ JoinsFrom(SendAll(q, D, d)[r], Adjacent[r])
<1>1. CASE r \notin D
  BY <1>1 DEF SendAll
<1>2. CASE r \in D
  <2>1. SendAll(q, D, d)[r] = Append(q[r], d)
    BY <1>2 DEF SendAll
  <2>2. q[r] \in Seq(Datagram)
    OBVIOUS
  <2>3. OrderAt(r, Append(q[r], d), ph, list)
    BY <2>2, ServerSendsKeepsOrder
  <2>4. d.type = "REQ_JOIN" => d.src \in Adjacent[r]
    BY <1>2 DEF NeighboursMutual
  <2>5. JoinsFrom(Append(q[r], d), Adjacent[r])
    BY <2>2, <2>4, JoinsSent
  <2>6. QED
    BY <2>1, <2>3, <2>5
<1>3. QED
  BY <1>1, <1>2

\* A turn of the main loop keeps the invariant.
LEMMA TurnKeepsOrder ==
  ASSUME NeighboursMutual, TypeOK, OrderInv, NEW s \in Server, NEW D, NEW d,
         Turn(s, D, d), UNCHANGED phase
  PROVE  OrderInv'
<1> DEFINE q == After(s, 1)
<1>1. /\ inbox[s] \in Seq(Datagram) /\ Len(inbox[s]) # 0 /\ 1 \in DOMAIN inbox[s]
      /\ q \in [Server -> Seq(Datagram)]
  <2>1. inbox[s] \in Seq(Datagram) /\ Len(inbox[s]) # 0 /\ Len(inbox[s]) \in Nat
    BY LenProperties DEF TypeOK, NetTypeOK, Turn
  <2>2. 1 \in DOMAIN inbox[s]
    BY <2>1, LenProperties
  <2>3. QED
    BY <2>1, <2>2, AfterType DEF TypeOK
<1>2. ASSUME NEW r \in Server
      PROVE  OrderAt(r, q[r], phase, user_list'[r]) /\ JoinsFrom(q[r], Adjacent[r])
  <2>1. CASE r # s
    <3>1. q[r] = inbox[r] /\ user_list'[r] = user_list[r]
      BY <2>1 DEF After, TypeOK, NetTypeOK, Turn
    <3>2. QED
      BY <3>1 DEF OrderInv
  <2>2. CASE r = s
    <3>1. q[s] = RemoveAt(inbox[s], 1)
      BY DEF After, TypeOK, NetTypeOK
    <3>2. OrderAt(s, RemoveAt(inbox[s], 1), phase, user_list'[s])
      BY <1>1, HandledKeepsOrder DEF OrderInv, Turn
    <3>3. JoinsFrom(RemoveAt(inbox[s], 1), Adjacent[s])
      BY <1>1, JoinsAfter DEF OrderInv
    <3>4. QED
      BY <2>2, <3>1, <3>2, <3>3
  <2>3. QED
    BY <2>1, <2>2
<1> HIDE DEF q
<1>3. inbox' = SendAll(q, D, d) /\ d \in Datagram /\ d.src = s
      /\ (d.type = "REQ_JOIN" => D \subseteq Adjacent[s])
  BY DEF Turn, q
<1>4. ASSUME NEW r \in Server
      PROVE  /\ OrderAt(r, inbox'[r], phase, user_list'[r])
             /\ JoinsFrom(inbox'[r], Adjacent[r])
  BY <1>1, <1>2, <1>3, SendAllKeepsOrder
<1>5. ASSUME NEW r \in Server
      PROVE  FedBy(channel_list'[r], Adjacent[r])
  BY DEF Turn, OrderInv
<1>6. QED
  BY <1>4, <1>5 DEF OrderInv, Turn

----------------------------------------------------------------------------
\* Without reordering the datagram taken is the oldest.
LEMMA HeadTaken ==
  ASSUME TypeOK, ~Reordering, NEW s \in Server, NEW type, NEW i \in Incoming(s, type)
  PROVE  /\ i = 1 /\ i \in DOMAIN inbox[s] /\ Len(inbox[s]) # 0
         /\ inbox[s][i] \in Datagram /\ inbox[s][i].type = type
<1>1. /\ i \in DOMAIN inbox[s] /\ i \in Arrivals(s)
      /\ inbox[s][i] \in Datagram /\ inbox[s][i].type = type
  BY IncomingElements DEF TypeOK, Incoming
<1>2. i = 1
  BY <1>1 DEF Arrivals
<1>3. DOMAIN inbox[s] = 1 .. Len(inbox[s])
  BY QueueElements DEF TypeOK
<1>4. QED
  BY <1>1, <1>2, <1>3

\* Without reordering whoever sends something but a login is known.
LEMMA HeardIsKnown ==
  ASSUME TypeOK, OrderInv, ~Reordering, NEW s \in Server, NEW type, NEW i \in Incoming(s, type),
         type # "REQ_LOGIN", inbox[s][i].src \in Client
  PROVE  knows(user_list[s], inbox[s][i].src)
<1>1. i = 1 /\ i \in 1 .. Len(inbox[s]) /\ inbox[s][i].type = type
  BY HeadTaken, QueueElements DEF TypeOK
<1>2. Vouched(inbox[s], user_list[s], inbox[s][1].src, 0)
  BY <1>1 DEF OrderInv, OrderAt, InOrder
<1>3. QED
  BY <1>1, <1>2 DEF Vouched

\* A handler that leaves the users as they are.
LEMMA PlainTurn ==
  ASSUME TypeOK, OrderInv, ~Reordering, NEW s \in Server, NEW type, type # "REQ_LOGIN",
         NEW i \in Incoming(s, type), NEW D, NEW d \in Datagram, d.src = s,
         d.type = "REQ_JOIN" => D \subseteq Adjacent[s],
         inbox' = SendAll(After(s, i), D, d),
         UNCHANGED user_list,
         NEW f, FedBy(f, Adjacent[s]), channel_list' = [channel_list EXCEPT ![s] = f],
         \A c \in Client : strays'[c] \subseteq {"S2S_LEAVE"}
  PROVE  Turn(s, D, d)
<1>1. i = 1 /\ Len(inbox[s]) # 0 /\ inbox[s][1].type # "REQ_LOGIN"
  BY HeadTaken
<1>2. Remembers(inbox[s], user_list[s], user_list'[s])
  BY <1>1 DEF Remembers, LoginOf
<1>3. channel_list'[s] = f /\ \A r \in Server \ {s} : channel_list'[r] = channel_list[r]
  BY DEF TypeOK, ServerTypeOK
<1>4. QED
  BY <1>1, <1>2, <1>3 DEF Turn

\* One that also sends nothing and leaves the tables as they are.
LEMMA QuietTurn ==
  ASSUME TypeOK, OrderInv, ~Reordering, NEW s \in Server, NEW type, type # "REQ_LOGIN",
         NEW i \in Incoming(s, type), inbox' = After(s, i),
         UNCHANGED <<user_list, channel_list, strays>>
  PROVE  Turn(s, {}, Silence(s))
<1>1. i = 1 /\ i \in DOMAIN inbox[s] /\ Len(inbox[s]) # 0 /\ inbox[s][1].type # "REQ_LOGIN"
  BY HeadTaken
<1>2. Remembers(inbox[s], user_list[s], user_list'[s])
  BY <1>1 DEF Remembers, LoginOf
<1>3. FedBy(channel_list'[s], Adjacent[s]) /\ \A c \in Client : strays'[c] \subseteq {"S2S_LEAVE"}
  BY DEF OrderInv
<1>4. inbox' = SendAll(After(s, 1), {}, Silence(s))
  BY <1>1, SilenceSent
<1>5. QED
  BY <1>1, <1>2, <1>3, <1>4, SilenceSent DEF Turn

\* One that changes the table but sends nothing.
LEMMA SilentTurn ==
  ASSUME TypeOK, OrderInv, ~Reordering, NEW s \in Server, NEW type, type # "REQ_LOGIN",
         NEW i \in Incoming(s, type), inbox' = After(s, i), UNCHANGED <<user_list, strays>>,
         NEW f, FedBy(f, Adjacent[s]), channel_list' = [channel_list EXCEPT ![s] = f]
  PROVE  Turn(s, {}, Silence(s))
<1>1. i \in DOMAIN inbox[s]
  BY HeadTaken
<1>2. \A c \in Client : strays'[c] \subseteq {"S2S_LEAVE"}
  BY DEF OrderInv
<1>3. inbox' = SendAll(After(s, i), {}, Silence(s))
  BY <1>1, SilenceSent
<1>4. QED
  BY <1>2, <1>3, SilenceSent, PlainTurn

----------------------------------------------------------------------------
\* What the operations on a channel do to its servers.
LEMMA ChannelServers ==
  ASSUME NEW ch \in ChannelRecord
  PROVE  /\ \A c \in Client : add_user_to_channel(ch, c).servers = ch.servers
         /\ \A name : remove_user_from_channel(ch, name).servers = ch.servers
         /\ \A n : sub_server_to_channel(ch, n).servers = ch.servers \cup {n}
         /\ \A n : unsub_server(ch, n).servers \subseteq ch.servers
         /\ \A new : SubscribeAll(ch, new).servers = ch.servers \cup new
  BY DEF ChannelRecord, add_user_to_channel, remove_user_from_channel, sub_server_to_channel,
         unsub_server, SubscribeAll

\* One channel is replaced, added or removed.
LEMMA FedByUpdated ==
  ASSUME TypeOK, NEW s \in Server, NEW A, FedBy(channel_list[s], A),
         NEW x, NEW ch, ch.servers \subseteq A
  PROVE  /\ Has(s, x) => FedBy([channel_list[s] EXCEPT ![x] = ch], A)
         /\ FedBy(WithChannel(s, x, ch), A)
         /\ FedBy(remove_channel(s, x), A)
<1>1. FedBy(WithChannel(s, x, ch), A) /\ FedBy(remove_channel(s, x), A)
  BY DEF FedBy, WithChannel, remove_channel, Restrict
<1>2. ASSUME Has(s, x)
      PROVE  FedBy([channel_list[s] EXCEPT ![x] = ch], A)
  BY <1>2 DEF FedBy, Has, TypeOK, ServerTypeOK, ChannelTableOK
<1>3. QED
  BY <1>1, <1>2

\* join() subscribes none but neighbours: a client who joins is known.
LEMMA JoinServers ==
  ASSUME TypeOK, OrderInv, ~Reordering, NEW s \in Server, NEW i \in Incoming(s, "REQ_JOIN"),
         NEW ch \in ChannelRecord, ch.servers \subseteq Adjacent[s]
  PROVE  /\ JoinChannel(s, ch, inbox[s][i].src).servers \subseteq Adjacent[s]
         /\ JoinChannel(s, ch, inbox[s][i].src) \in ChannelRecord
<1> DEFINE d == inbox[s][i]
<1>1. d.src \in Node /\ i \in 1 .. Len(inbox[s]) /\ d.type = "REQ_JOIN"
  BY HeadTaken, QueueElements, DatagramFields DEF TypeOK
<1>2. JoinChannel(s, ch, d.src) \in ChannelRecord
  <2>1. IsFiniteSet(ch.servers)
    BY ProtocolAssumption, FS_Subset DEF ChannelRecord
  <2>2. QED
    BY <1>1, <2>1, JoinChannelProperties DEF TypeOK
<1>3. CASE knows(user_list[s], d.src)
  <2>1. d.src \in Client
    BY <1>3, KnownIsClient DEF TypeOK, ServerTypeOK
  <2>2. QED
    BY <1>2, <1>3, <2>1, ChannelServers DEF JoinChannel
<1>4. CASE ~knows(user_list[s], d.src)
  <2>1. d.src \in Server
    BY <1>1, <1>4, HeardIsKnown DEF Node
  <2>2. d.src \in Adjacent[s]
    BY <1>1, <2>1 DEF OrderInv, JoinsFrom
  <2>3. QED
    BY <1>2, <1>4, <2>2, ChannelServers DEF JoinChannel
<1>5. QED
  BY <1>2, <1>3, <1>4

----------------------------------------------------------------------------
LEMMA LoginTurn ==
  ASSUME TypeOK, OrderInv, ~Reordering, NEW s \in Server, RecvLogin(s)
  PROVE  Turn(s, {}, Silence(s))
<1>1. PICK i \in Incoming(s, "REQ_LOGIN") :
        /\ user_list' = [user_list EXCEPT ![s] = add_user(user_list[s], inbox[s][i].src)]
        /\ inbox' = After(s, i)
        /\ UNCHANGED <<channel_list, strays>>
  BY DEF RecvLogin, history
<1>2. /\ i = 1 /\ i \in DOMAIN inbox[s] /\ Len(inbox[s]) # 0
      /\ inbox[s][1] \in Datagram /\ inbox[s][1].src \in Client
  BY HeadTaken, DatagramFields
<1>3. /\ user_list'[s] = add_user(user_list[s], inbox[s][1].src)
      /\ \A r \in Server \ {s} : user_list'[r] = user_list[r]
  BY <1>1, <1>2 DEF TypeOK, ServerTypeOK
<1>4. Remembers(inbox[s], user_list[s], user_list'[s])
  <2>1. ASSUME NEW c \in Client, inbox[s][1] = LoginOf(c) \/ knows(user_list[s], c)
        PROVE  knows(user_list'[s], c)
    <3>1. user_list[s] \in Seq(Client)
      BY DEF TypeOK, ServerTypeOK
    <3>2. knows(user_list'[s], c) <=> c = inbox[s][1].src \/ knows(user_list[s], c)
      BY <1>2, <1>3, <3>1, AddUserKnows
    <3>3. QED
      BY <2>1, <3>2 DEF LoginOf
  <2>2. QED
    BY <2>1 DEF Remembers
<1>5. inbox' = SendAll(After(s, 1), {}, Silence(s))
  BY <1>1, <1>2, SilenceSent
<1>6. QED
  BY <1>1, <1>2, <1>3, <1>4, <1>5, SilenceSent DEF Turn, OrderInv

LEMMA LogoutTurn ==
  ASSUME NamesDiffer, TypeOK, OrderInv, ~Reordering, NEW s \in Server, RecvLogout(s)
  PROVE  Turn(s, {}, Silence(s))
<1>1. PICK i \in Incoming(s, "REQ_LOGOUT") :
        /\ inbox' = After(s, i)
        /\ \/ UNCHANGED <<user_list, channel_list>>
           \/ /\ channel_list' = [channel_list EXCEPT ![s] =
                                    ChannelsAfterLogout(s, NameOf[inbox[s][i].src])]
              /\ user_list' = [user_list EXCEPT ![s] =
                                 remove_user(user_list[s], NameOf[inbox[s][i].src])]
        /\ UNCHANGED strays
  BY DEF RecvLogout
<1> DEFINE name == NameOf[inbox[s][1].src]
<1>2. /\ i = 1 /\ i \in DOMAIN inbox[s] /\ Len(inbox[s]) # 0
      /\ inbox[s][1] \in Datagram /\ inbox[s][1].src \in Client
      /\ inbox[s][1] = LogoutOf(inbox[s][1].src)
      /\ inbox[s][1].type = "REQ_LOGOUT"
  BY HeadTaken, DatagramFields, LoginsAndLogouts
<1>3. CASE UNCHANGED <<user_list, channel_list>>
  BY <1>1, <1>3, QuietTurn
<1>4. CASE /\ channel_list' = [channel_list EXCEPT ![s] = ChannelsAfterLogout(s, name)]
           /\ user_list' = [user_list EXCEPT ![s] = remove_user(user_list[s], name)]
  <2>1. /\ user_list'[s] = remove_user(user_list[s], name)
        /\ channel_list'[s] = ChannelsAfterLogout(s, name)
        /\ \A r \in Server \ {s} : /\ user_list'[r] = user_list[r]
                                   /\ channel_list'[r] = channel_list[r]
    BY <1>4 DEF TypeOK, ServerTypeOK
  <2>2. Remembers(inbox[s], user_list[s], user_list'[s])
    <3>1. ASSUME NEW c \in Client, knows(user_list[s], c), inbox[s][1] # LogoutOf(c)
          PROVE  knows(user_list'[s], c)
      <4>1. NameOf[c] # name
        BY <1>2, <3>1 DEF NamesDiffer
      <4>2. user_list[s] \in Seq(Client)
        BY DEF TypeOK, ServerTypeOK
      <4>3. QED
        BY <2>1, <3>1, <4>1, <4>2, RemoveUserKnows
    <3>2. \A c \in Client : inbox[s][1] # LoginOf(c)
      BY <1>2 DEF LoginOf
    <3>3. QED
      BY <3>1, <3>2 DEF Remembers
  <2>3. FedBy(ChannelsAfterLogout(s, name), Adjacent[s])
    <3> DEFINE left == [x \in DOMAIN channel_list[s] |->
                          remove_user_from_channel(channel_list[s][x], name)]
    <3>1. ASSUME NEW x \in DOMAIN channel_list[s]
          PROVE  left[x].servers \subseteq Adjacent[s]
      <4>1. channel_list[s][x] \in ChannelRecord /\ channel_list[s][x].servers \subseteq Adjacent[s]
        BY ChannelRecords DEF TypeOK, Has, OrderInv, FedBy
      <4>2. QED
        BY <4>1, ChannelServers
    <3>2. DOMAIN left = DOMAIN channel_list[s]
      OBVIOUS
    <3>3. ChannelsAfterLogout(s, name) =
            Restrict(left, {x \in DOMAIN left : left[x].user_count # 0})
      BY DEF ChannelsAfterLogout
    <3> HIDE DEF left
    <3>4. QED
      BY <3>1, <3>2, <3>3 DEF FedBy, Restrict
  <2>4. inbox' = SendAll(After(s, 1), {}, Silence(s))
    BY <1>1, <1>2, SilenceSent
  <2>5. \A c \in Client : strays'[c] \subseteq {"S2S_LEAVE"}
    BY <1>1 DEF OrderInv
  <2>6. QED
    BY <1>2, <2>1, <2>2, <2>3, <2>4, <2>5, SilenceSent DEF Turn
<1>5. QED
  BY <1>1, <1>2, <1>3, <1>4

LEMMA JoinExistingTurn ==
  ASSUME TypeOK, OrderInv, ~Reordering, NEW s \in Server, RecvJoinExisting(s)
  PROVE  Turn(s, {}, Silence(s))
<1>1. PICK i \in Incoming(s, "REQ_JOIN") :
        /\ Has(s, inbox[s][i].channel)
        /\ channel_list' = [channel_list EXCEPT ![s][inbox[s][i].channel] =
                              JoinChannel(s, channel_list[s][inbox[s][i].channel], inbox[s][i].src)]
        /\ inbox' = After(s, i)
        /\ UNCHANGED <<user_list, strays>>
  BY DEF RecvJoinExisting, history
<1> DEFINE x == inbox[s][i].channel
           ch == JoinChannel(s, channel_list[s][x], inbox[s][i].src)
           f == [channel_list[s] EXCEPT ![x] = ch]
<1>2. /\ channel_list[s][x] \in ChannelRecord
      /\ channel_list[s][x].servers \subseteq Adjacent[s]
  BY <1>1, ChannelRecords DEF TypeOK, OrderInv, FedBy, Has
<1>3. ch.servers \subseteq Adjacent[s]
  BY <1>2, JoinServers
<1>4. channel_list' = [channel_list EXCEPT ![s] = f]
  BY <1>1
<1>5. FedBy(channel_list[s], Adjacent[s])
  BY DEF OrderInv
<1> HIDE DEF ch
<1>6. FedBy(f, Adjacent[s])
  BY <1>1, <1>3, <1>5, FedByUpdated
<1> HIDE DEF f
<1>7. QED
  BY <1>1, <1>4, <1>6, SilentTurn

LEMMA JoinNewTurn ==
  ASSUME TypeOK, OrderInv, ~Reordering, NEW s \in Server, RecvJoinNew(s)
  PROVE  \E D, d : Turn(s, D, d)
<1>1. PICK i \in Incoming(s, "REQ_JOIN"), uc \in Uninit, sc \in Uninit :
        LET d == inbox[s][i]
            ch == JoinChannel(s, create_channel(uc, sc), d.src)
            new == JoinTargets(s, ch)
        IN  /\ channel_list' = [channel_list EXCEPT ![s] =
                                  WithChannel(s, d.channel, SubscribeAll(ch, new))]
            /\ inbox' = SendAll(After(s, i), new,
                                [type |-> "REQ_JOIN", src |-> s, channel |-> d.channel])
            /\ UNCHANGED <<user_list, strays>>
  BY DEF RecvJoinNew, history
<1> DEFINE x == inbox[s][i].channel
           ch == JoinChannel(s, create_channel(uc, sc), inbox[s][i].src)
           new == JoinTargets(s, ch)
           fed == SubscribeAll(ch, new)
           f == WithChannel(s, x, fed)
           d == [type |-> "REQ_JOIN", src |-> s, channel |-> x]
<1>2. x \in Channel
  BY HeadTaken, DatagramFields
<1>3. /\ create_channel(uc, sc) \in ChannelRecord
      /\ create_channel(uc, sc).servers \subseteq Adjacent[s]
  <2>1. uc \in Int /\ sc \in Int
    BY ServerAssumption
  <2>2. QED
    BY <2>1, CreateChannelProperties DEF create_channel
<1>4. ch.servers \subseteq Adjacent[s] /\ ch \in ChannelRecord
  BY <1>3, JoinServers
<1> HIDE DEF ch
<1>5. new \subseteq Adjacent[s]
  BY DEF JoinTargets
<1> HIDE DEF new
<1>6. fed.servers \subseteq Adjacent[s]
  BY <1>4, <1>5, ChannelServers
<1> HIDE DEF fed
<1>7. FedBy(f, Adjacent[s])
  BY <1>6, FedByUpdated DEF OrderInv
<1>8. d \in Datagram /\ d.src = s
  BY <1>2, DatagramsSent DEF Node
<1>9. /\ channel_list' = [channel_list EXCEPT ![s] = f]
      /\ inbox' = SendAll(After(s, i), new, d)
      /\ UNCHANGED <<user_list, strays>>
  BY <1>1 DEF ch, new, fed
<1>10. \A c \in Client : strays'[c] \subseteq {"S2S_LEAVE"}
  BY <1>9 DEF OrderInv
<1> HIDE DEF f, d
<1>11. Turn(s, new, d)
  BY <1>5, <1>7, <1>8, <1>9, <1>10, PlainTurn
<1>12. QED
  BY <1>11

LEMMA LeaveTurn ==
  ASSUME TypeOK, OrderInv, ~Reordering, NEW s \in Server, RecvLeave(s)
  PROVE  Turn(s, {}, Silence(s))
<1>1. PICK i \in Incoming(s, "REQ_LEAVE") :
        /\ inbox' = After(s, i)
        /\ \/ UNCHANGED channel_list
           \/ /\ Has(s, inbox[s][i].channel)
              /\ channel_list' = [channel_list EXCEPT ![s][inbox[s][i].channel] =
                   remove_user_from_channel(channel_list[s][inbox[s][i].channel],
                                            NameOf[inbox[s][i].src])]
        /\ UNCHANGED <<user_list, strays>>
  BY DEF RecvLeave
<1> DEFINE x == inbox[s][i].channel
           ch == remove_user_from_channel(channel_list[s][x], NameOf[inbox[s][i].src])
           f == [channel_list[s] EXCEPT ![x] = ch]
<1>2. CASE UNCHANGED channel_list
  BY <1>1, <1>2, QuietTurn
<1>3. CASE Has(s, x) /\ channel_list' = [channel_list EXCEPT ![s][x] = ch]
  <2>1. /\ channel_list[s][x] \in ChannelRecord
        /\ channel_list[s][x].servers \subseteq Adjacent[s]
    BY <1>3, ChannelRecords DEF TypeOK, OrderInv, FedBy, Has
  <2>2. ch.servers \subseteq Adjacent[s]
    BY <2>1, ChannelServers
  <2>3. channel_list' = [channel_list EXCEPT ![s] = f]
    BY <1>3
  <2>4. FedBy(channel_list[s], Adjacent[s])
    BY DEF OrderInv
  <2> HIDE DEF ch
  <2>5. FedBy(f, Adjacent[s])
    BY <1>3, <2>2, <2>4, FedByUpdated
  <2> HIDE DEF f
  <2>6. QED
    BY <1>1, <2>3, <2>5, SilentTurn
<1>4. QED
  BY <1>1, <1>2, <1>3

LEMMA S2SLeaveTurn ==
  ASSUME TypeOK, OrderInv, ~Reordering, NEW s \in Server, RecvS2SLeave(s)
  PROVE  Turn(s, {}, Silence(s))
<1>1. PICK i \in Incoming(s, "S2S_LEAVE") :
        /\ inbox' = After(s, i)
        /\ \/ UNCHANGED channel_list
           \/ /\ Has(s, inbox[s][i].channel)
              /\ channel_list' = [channel_list EXCEPT ![s][inbox[s][i].channel] =
                   unsub_server(channel_list[s][inbox[s][i].channel], inbox[s][i].src)]
        /\ UNCHANGED <<user_list, strays>>
  BY DEF RecvS2SLeave, history
<1> DEFINE x == inbox[s][i].channel
           ch == unsub_server(channel_list[s][x], inbox[s][i].src)
           f == [channel_list[s] EXCEPT ![x] = ch]
<1>2. CASE UNCHANGED channel_list
  BY <1>1, <1>2, QuietTurn
<1>3. CASE Has(s, x) /\ channel_list' = [channel_list EXCEPT ![s][x] = ch]
  <2>1. /\ channel_list[s][x] \in ChannelRecord
        /\ channel_list[s][x].servers \subseteq Adjacent[s]
    BY <1>3, ChannelRecords DEF TypeOK, OrderInv, FedBy, Has
  <2>2. ch.servers \subseteq Adjacent[s]
    BY <2>1, ChannelServers
  <2>3. channel_list' = [channel_list EXCEPT ![s] = f]
    BY <1>3
  <2>4. FedBy(channel_list[s], Adjacent[s])
    BY DEF OrderInv
  <2> HIDE DEF ch
  <2>5. FedBy(f, Adjacent[s])
    BY <1>3, <2>2, <2>4, FedByUpdated
  <2> HIDE DEF f
  <2>6. QED
    BY <1>1, <2>3, <2>5, SilentTurn
<1>4. QED
  BY <1>1, <1>2, <1>3

\* say() sends to neighbours, or gives the channel up towards the sender.
LEMMA SayTurn ==
  ASSUME TypeOK, OrderInv, ~Reordering, NEW s \in Server, NEW type, type # "REQ_LOGIN",
         NEW i \in Incoming(s, type), inbox[s][i].channel \in Channel,
         NEW t \in Text, NEW id \in Id, Say(s, i, t, id), UNCHANGED user_list
  PROVE  \E D, d : Turn(s, D, d)
<1> DEFINE x == inbox[s][i].channel
           src == inbox[s][i].src
           ch == channel_list[s][x]
           leave == [type |-> "S2S_LEAVE", src |-> s, channel |-> x]
           say == [type |-> "S2S_SAY", src |-> s, channel |-> x, text |-> t, id |-> id]
           f == remove_channel(s, x)
<1>0. leave \in Datagram /\ say \in Datagram /\ FedBy(channel_list[s], Adjacent[s])
  BY DatagramsSent DEF OrderInv
<1>1. CASE inbox' = After(s, i) /\ UNCHANGED <<channel_list, strays>>
  BY <1>1, QuietTurn
<1>2. CASE /\ Spread(After(s, i), {src}, leave)
           /\ channel_list' = [channel_list EXCEPT ![s] = f]
  <2>1. FedBy(f, Adjacent[s])
    BY <1>0 DEF FedBy, remove_channel, Restrict
  <2>2. inbox' = SendAll(After(s, i), {src}, leave)
    BY <1>2 DEF Spread
  <2>3. \A c \in Client : strays'[c] \subseteq {"S2S_LEAVE"}
    BY <1>2 DEF Spread, OrderInv
  <2>4. leave.src = s /\ leave.type # "REQ_JOIN"
    OBVIOUS
  <2> HIDE DEF f, leave
  <2>5. Turn(s, {src}, leave)
    BY <1>0, <1>2, <2>1, <2>2, <2>3, <2>4, PlainTurn
  <2>6. QED
    BY <2>5
<1>3. CASE /\ Has(s, x)
           /\ Spread(After(s, i), RelayTo(ch, src), say)
           /\ UNCHANGED channel_list
  <2> DEFINE D == RelayTo(ch, src)
  <2>1. D \cap Client = {}
    <3>1. ch.servers \subseteq Adjacent[s]
      BY <1>0, <1>3 DEF FedBy, Has
    <3>2. Adjacent[s] \subseteq Server
      BY ServerAssumption
    <3>3. QED
      BY <3>1, <3>2, ProtocolAssumption DEF RelayTo
  <2>2. inbox' = SendAll(After(s, i), D, say)
    BY <1>3 DEF Spread
  <2>3. \A c \in Client : strays'[c] \subseteq {"S2S_LEAVE"}
    BY <1>3, <2>1 DEF Spread, OrderInv
  <2>4. say.src = s /\ say.type # "REQ_JOIN"
    OBVIOUS
  <2>5. i = 1 /\ Len(inbox[s]) # 0 /\ inbox[s][1].type # "REQ_LOGIN"
    BY HeadTaken
  <2>6. Remembers(inbox[s], user_list[s], user_list'[s])
    BY <2>5 DEF Remembers, LoginOf
  <2>7. UNCHANGED <<user_list, channel_list>>
    BY <1>3
  <2> HIDE DEF D, say
  <2>8. Turn(s, D, say)
    BY <1>0, <2>2, <2>3, <2>4, <2>5, <2>6, <2>7 DEF Turn
  <2>9. QED
    BY <2>8
<1>4. QED
  BY <1>1, <1>2, <1>3 DEF Say

LEMMA SayRequestTurn ==
  ASSUME TypeOK, OrderInv, ~Reordering, NEW s \in Server, RecvSay(s)
  PROVE  \E D, d : Turn(s, D, d)
<1>1. PICK i \in Incoming(s, "REQ_SAY") :
        /\ UNCHANGED user_list
        /\ \/ inbox' = After(s, i) /\ UNCHANGED <<channel_list, strays>>
           \/ \E id \in Draws[inbox[s][i].text.msg] : Say(s, i, inbox[s][i].text, id)
  BY DEF RecvSay, history
<1>2. inbox[s][i].channel \in Channel /\ inbox[s][i].text \in Text
  BY HeadTaken, DatagramFields
<1>3. Draws[inbox[s][i].text.msg] \subseteq Id
  BY <1>2, ServerAssumption DEF Text
<1>4. CASE inbox' = After(s, i) /\ UNCHANGED <<channel_list, strays>>
  BY <1>1, <1>4, QuietTurn
<1>5. ASSUME NEW id \in Draws[inbox[s][i].text.msg], Say(s, i, inbox[s][i].text, id)
      PROVE  \E D, d : Turn(s, D, d)
  <2>1. id \in Id
    BY <1>3
  <2>2. QED
    BY <1>1, <1>2, <1>5, <2>1, SayTurn
<1>6. QED
  BY <1>1, <1>4, <1>5

LEMMA S2SSayTurn ==
  ASSUME TypeOK, OrderInv, ~Reordering, NEW s \in Server, RecvS2SSay(s)
  PROVE  \E D, d : Turn(s, D, d)
<1>1. PICK i \in Incoming(s, "S2S_SAY") :
        /\ UNCHANGED user_list
        /\ \/ inbox' = After(s, i) /\ UNCHANGED <<channel_list, strays>>
           \/ Say(s, i, Clip(inbox[s][i].text), inbox[s][i].id)
  BY DEF RecvS2SSay
<1>2. /\ inbox[s][i].channel \in Channel /\ inbox[s][i].text \in Text
      /\ inbox[s][i].id \in Id
  BY HeadTaken, DatagramFields
<1>3. Clip(inbox[s][i].text) \in Text
  BY <1>2 DEF Clip, Text
<1>4. CASE inbox' = After(s, i) /\ UNCHANGED <<channel_list, strays>>
  BY <1>1, <1>4, QuietTurn
<1>5. CASE Say(s, i, Clip(inbox[s][i].text), inbox[s][i].id)
  BY <1>1, <1>2, <1>3, <1>5, SayTurn
<1>6. QED
  BY <1>1, <1>4, <1>5

LEMMA QueryTurn ==
  ASSUME TypeOK, OrderInv, ~Reordering, NEW s \in Server, RecvQuery(s)
  PROVE  Turn(s, {}, Silence(s))
<1>1. \E type \in {"REQ_LIST", "REQ_WHO"} :
        \E i \in Incoming(s, type) : inbox' = After(s, i)
  BY DEF RecvQuery
<1>2. UNCHANGED <<user_list, channel_list, strays>>
  BY DEF RecvQuery, serverVars, serverState, history
<1>3. QED
  BY <1>1, <1>2, QuietTurn

\* Every turn of the main loop is a Turn.
LEMMA ReceiveTurn ==
  ASSUME NamesDiffer, TypeOK, OrderInv, ~Reordering, NEW s \in Server, Receive(s)
  PROVE  \E D, d : Turn(s, D, d)
  BY LoginTurn, LogoutTurn, JoinExistingTurn, JoinNewTurn, LeaveTurn, S2SLeaveTurn,
     SayRequestTurn, S2SSayTurn, QueryTurn DEF Receive

----------------------------------------------------------------------------
\* Channels stay while their joins are resent: the table changes between sweeps.
SweepInv == \A s \in Server : sweep[s] \subseteq DOMAIN channel_list[s]

LEMMA ReceiveBetweenSweeps ==
  ASSUME TypeOK, NEW s \in Server, Receive(s)
  PROVE  /\ sweep[s] = {} /\ UNCHANGED sweep
         /\ \A r \in Server \ {s} : channel_list'[r] = channel_list[r]
<1> DEFINE P == /\ sweep[s] = {} /\ UNCHANGED sweep
                /\ \A r \in Server \ {s} : channel_list'[r] = channel_list[r]
<1>0. DOMAIN channel_list = Server
  BY DEF TypeOK, ServerTypeOK
<1>1. ASSUME NEW type, NEW i \in Incoming(s, type) PROVE sweep[s] = {}
  BY <1>1 DEF Incoming
<1>2. CASE RecvLogin(s)
  BY <1>0, <1>1, <1>2 DEF RecvLogin
<1>3. CASE RecvLogout(s)
  BY <1>0, <1>1, <1>3 DEF RecvLogout
<1>4. CASE RecvJoinExisting(s)
  BY <1>0, <1>1, <1>4 DEF RecvJoinExisting
<1>5. CASE RecvJoinNew(s)
  BY <1>0, <1>1, <1>5 DEF RecvJoinNew
<1>6. CASE RecvLeave(s)
  BY <1>0, <1>1, <1>6 DEF RecvLeave
<1>7. CASE RecvS2SLeave(s)
  BY <1>0, <1>1, <1>7 DEF RecvS2SLeave
<1>8. ASSUME NEW i, NEW t, NEW id, Say(s, i, t, id)
      PROVE  \A r \in Server \ {s} : channel_list'[r] = channel_list[r]
  BY <1>0, <1>8 DEF Say
<1>9. CASE RecvSay(s)
  BY <1>1, <1>8, <1>9 DEF RecvSay
<1>10. CASE RecvS2SSay(s)
  BY <1>1, <1>8, <1>10 DEF RecvS2SSay
<1>11. CASE RecvQuery(s)
  <2>1. \E type \in {"REQ_LIST", "REQ_WHO"} : Incoming(s, type) # {}
    BY <1>11 DEF RecvQuery
  <2>2. QED
    BY <1>1, <1>11, <2>1 DEF RecvQuery, serverVars, serverState
<1>12. QED
  BY <1>2, <1>3, <1>4, <1>5, <1>6, <1>7, <1>9, <1>10, <1>11 DEF Receive

LEMMA SweepInvStep ==
  ASSUME TypeOK, SweepInv, [Next]_vars
  PROVE  SweepInv'
<1>1. ASSUME NEW s \in Server, Receive(s) PROVE SweepInv'
  BY <1>1, ReceiveBetweenSweeps DEF SweepInv
<1>2. ASSUME NEW s \in Server, StartSweep(s) PROVE SweepInv'
  BY <1>2 DEF StartSweep, SweepInv, TypeOK, ServerTypeOK
<1>3. ASSUME NEW s \in Server, SweepChannel(s) PROVE SweepInv'
  BY <1>3 DEF SweepChannel, SweepInv, TypeOK, ServerTypeOK
<1>4. ASSUME UNCHANGED serverVars PROVE SweepInv'
  BY <1>4 DEF serverVars, serverState, SweepInv
<1>5. QED
  BY <1>1, <1>2, <1>3, <1>4 DEF Next, ServerStep, vars

----------------------------------------------------------------------------
\* The timer resends joins to subscribed servers, which are neighbours.
LEMMA SweepKeepsOrder ==
  ASSUME NeighboursMutual, TypeOK, OrderInv, SweepInv,
         NEW s \in Server, SweepChannel(s), UNCHANGED phase
  PROVE  OrderInv'
<1>1. PICK x \in sweep[s] :
        Spread(inbox, channel_list[s][x].servers, [type |-> "REQ_JOIN", src |-> s, channel |-> x])
  BY DEF SweepChannel
<1> DEFINE D == channel_list[s][x].servers
           d == [type |-> "REQ_JOIN", src |-> s, channel |-> x]
<1>2. UNCHANGED <<user_list, channel_list>>
  BY DEF SweepChannel
<1>3. d \in Datagram /\ d.src = s
  <2>1. x \in Channel
    BY DEF TypeOK, ServerTypeOK
  <2>2. QED
    BY <2>1, DatagramsSent DEF Node
<1>4. D \subseteq Adjacent[s] /\ Adjacent[s] \subseteq Server
  BY ServerAssumption DEF OrderInv, FedBy, SweepInv
<1>5. inbox' = SendAll(inbox, D, d) /\ inbox \in [Server -> Seq(Datagram)]
  BY <1>1 DEF Spread, TypeOK, NetTypeOK
<1>6. \A c \in Client : strays'[c] \subseteq {"S2S_LEAVE"}
  BY <1>1, <1>4, ProtocolAssumption DEF Spread, OrderInv
<1> HIDE DEF D, d
<1>7. ASSUME NEW r \in Server
      PROVE  /\ OrderAt(r, inbox'[r], phase, user_list[r])
             /\ JoinsFrom(inbox'[r], Adjacent[r])
  BY <1>3, <1>4, <1>5, SendAllKeepsOrder DEF OrderInv
<1>8. QED
  BY <1>2, <1>6, <1>7 DEF OrderInv

\* A client sends to its home, in order, and never as a server.
LEMMA ClientStepKeepsOrder ==
  ASSUME TypeOK, OrderInv, NEW c \in Client, ClientStep(c), UNCHANGED serverVars
  PROVE  OrderInv'
<1>1. UNCHANGED <<user_list, channel_list, strays>>
  BY DEF serverVars, serverState, history
<1>2. ASSUME NEW s \in Server
      PROVE  OrderAt(s, inbox'[s], phase', user_list[s])
  BY ClientKeepsOrder DEF TypeOK, OrderInv
<1>3. ASSUME NEW s \in Server
      PROVE  JoinsFrom(inbox'[s], Adjacent[s])
  <2>1. CASE UNCHANGED inbox
    BY <2>1 DEF OrderInv
  <2>2. ASSUME NEW d \in Datagram, d.src = c, Request(c, d)
        PROVE  JoinsFrom(inbox'[s], Adjacent[s])
    <3>1. d.src \notin Server
      BY <2>2, ProtocolAssumption
    <3>2. inbox[s] \in Seq(Datagram)
      BY DEF TypeOK, NetTypeOK
    <3>3. inbox'[s] = inbox[s] \/ inbox'[s] = Append(inbox[s], d)
      BY <2>2 DEF Request, SendAll
    <3>4. QED
      BY <3>1, <3>2, <3>3, JoinsSent DEF OrderInv
  <2>3. QED
    BY <2>1, <2>2, ClientSends DEF TypeOK
<1>4. QED
  BY <1>1, <1>2, <1>3 DEF OrderInv

\* Until the network first loses or doubles a datagram.
CalmInv == faults = 0 => OrderInv

LEMMA CalmInvStep ==
  ASSUME NamesDiffer, NeighboursMutual, ~Reordering, TypeOK, SweepInv, CalmInv, [Next]_vars
  PROVE  CalmInv'
<1>0. faults \in Nat
  BY DEF TypeOK, NetTypeOK
<1>1. ASSUME NEW s \in Server, ServerStep(s), UNCHANGED <<faults, clientVars>>, OrderInv
      PROVE  OrderInv'
  <2>1. UNCHANGED phase
    BY <1>1 DEF clientVars
  <2>2. CASE Receive(s)
    <3>1. PICK D, d : Turn(s, D, d)
      BY <1>1, <2>2, ReceiveTurn
    <3>2. QED
      BY <1>1, <2>1, <3>1, TurnKeepsOrder
  <2>3. CASE StartSweep(s)
    BY <1>1, <2>1, <2>3 DEF StartSweep, history, OrderInv
  <2>4. CASE SweepChannel(s)
    BY <1>1, <2>1, <2>4, SweepKeepsOrder
  <2>5. QED
    BY <1>1, <2>2, <2>3, <2>4 DEF ServerStep
<1>2. ASSUME NEW s \in Server, LoseDatagram(s) \/ DoubleDatagram(s)
      PROVE  faults' # 0
  BY <1>0, <1>2 DEF LoseDatagram, DoubleDatagram
<1>3. CASE UNCHANGED vars
  BY <1>3 DEF vars, netVars, serverVars, serverState, history, clientVars, CalmInv, OrderInv
<1>4. QED
  BY <1>1, <1>2, <1>3, ClientStepKeepsOrder DEF Next, CalmInv

LEMMA OrderInit ==
  ASSUME Init
  PROVE  OrderInv
<1>1. Len(<<>>) = 0
  OBVIOUS
<1>2. ASSUME NEW s \in Server
      PROVE  OrderAt(s, inbox[s], phase, user_list[s]) /\ JoinsFrom(inbox[s], Adjacent[s])
  BY <1>1 DEF Init, NetInit, ServerInit, ClientInit, OrderAt, InOrder, JoinsFrom
<1>3. QED
  BY <1>2 DEF Init, ServerInit, OrderInv, FedBy

LEMMA CalmInvHolds ==
  ASSUME NamesDiffer, NeighboursMutual, ~Reordering
  PROVE  Spec => []CalmInv
<1>1. Init => SweepInv
  BY DEF Init, ServerInit, SweepInv
<1>2. Init => CalmInv
  BY OrderInit DEF CalmInv
<1>3. TypeOK /\ SweepInv /\ [Next]_vars => SweepInv'
  BY SweepInvStep
<1>4. TypeOK /\ SweepInv /\ CalmInv /\ [Next]_vars => CalmInv'
  BY CalmInvStep
<1>5. QED
  BY <1>1, <1>2, <1>3, <1>4, TypeCorrect, PTL DEF Spec

LEMMA CalmKnowsUsers ==
  ASSUME ~Reordering, TypeOK, CalmInv
  PROVE  UsersKnown
<1> SUFFICES ASSUME OrderInv, NEW s \in Server, NEW i \in Arrivals(s),
                    inbox[s][i].src \in Client, inbox[s][i].type # "REQ_LOGIN"
             PROVE  knows(user_list[s], inbox[s][i].src)
  BY DEF UsersKnown, Undisturbed, CalmInv
<1>1. i = 1 /\ i \in 1 .. Len(inbox[s])
  BY QueueElements DEF TypeOK, Arrivals
<1>2. Vouched(inbox[s], user_list[s], inbox[s][1].src, 0)
  BY <1>1 DEF OrderInv, OrderAt, InOrder
<1>3. QED
  BY <1>1, <1>2 DEF Vouched

----------------------------------------------------------------------------
\* When no two users have one name, then until the network first disturbs the order
\* of datagrams every user is known when he is heard, by his server or another.
THEOREM UsersKnownCorrect ==
  ASSUME NamesDiffer, NeighboursMutual
  PROVE  Spec => []UsersKnown
<1>1. CASE Reordering
  <2>1. UsersKnown
    BY <1>1 DEF UsersKnown, Undisturbed
  <2>2. QED
    BY <2>1, PTL
<1>2. CASE ~Reordering
  <2>1. TypeOK /\ CalmInv => UsersKnown
    BY <1>2, CalmKnowsUsers
  <2>2. QED
    BY <1>2, <2>1, CalmInvHolds, TypeCorrect, PTL
<1>3. QED
  BY <1>1, <1>2

\* Under the same conditions join() takes no client for a server: only neighbours
\* are subscribed, and no client is sent what is meant for servers but a leave.
THEOREM SubscribedCorrect ==
  ASSUME NamesDiffer, NeighboursMutual
  PROVE  Spec => []OnlyServersSubscribed
<1>1. CASE Reordering
  <2>1. OnlyServersSubscribed
    BY <1>1 DEF OnlyServersSubscribed, Undisturbed
  <2>2. QED
    BY <2>1, PTL
<1>2. CASE ~Reordering
  <2>1. CalmInv => OnlyServersSubscribed
    BY DEF CalmInv, OrderInv, FedBy, OnlyServersSubscribed, Undisturbed
  <2>2. QED
    BY <1>2, <2>1, CalmInvHolds, PTL
<1>3. QED
  BY <1>1, <1>2
=============================================================================
