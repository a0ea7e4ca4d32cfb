-------------------------- MODULE SoloServer_proofs --------------------------
(***************************************************************************)
(* Proofs about SoloServer, for every set of clients and channels and      *)
(* every network of UdpNet: the types, the counters behind the answers to  *)
(* /who and /list, and who is known when he is heard.                      *)
(***************************************************************************)
EXTENDS SoloServer, DuckChat_proofs

\* The server is the only one.
LEMMA SoloIsServer == solo \in Server
  BY SoloAssumption

\* What the main loop takes next.
LEMMA IncomingElements ==
  ASSUME NetTypeOK, NEW type, NEW i \in Incoming(type)
  PROVE  /\ i \in DOMAIN inbox[solo] /\ i \in Arrivals(solo)
         /\ inbox[solo][i] \in Datagram /\ inbox[solo][i].type = type
         /\ status = "up"
  BY SoloIsServer, QueueElements DEF Incoming

\* A handler that takes a datagram keeps the types of the network.
LEMMA HandleType ==
  ASSUME NetTypeOK, NEW i \in DOMAIN inbox[solo], Handle(i), UNCHANGED faults
  PROVE  NetTypeOK'
  BY SoloIsServer, AfterType DEF Handle, NetTypeOK

\* Channels of the table.
LEMMA SoloChannels ==
  ASSUME TypeOK, NEW x, Has(x)
  PROVE  /\ x \in Channel
         /\ channel_list[x] \in SoloChannel
         /\ channel_list[x].users \in Seq(Client)
         /\ channel_list[x].count \in Int
  BY DEF TypeOK, Has, SoloChannel

\* A user joins a channel, or leaves it: its counter goes up by one with the list,
\* or down by one while the list loses an entry or none.
LEMMA JoinedProperties ==
  ASSUME NEW ch \in SoloChannel, NEW c \in Client
  PROVE  /\ Joined(ch, c) \in SoloChannel
         /\ Joined(ch, c).count = ch.count + 1
         /\ Len(Joined(ch, c).users) = Len(ch.users) + 1
<1>1. ch.users \in Seq(Client) /\ ch.count \in Int
  BY DEF SoloChannel
<1>2. QED
  BY <1>1, AddUserProperties DEF Joined, SoloChannel

LEMMA LeftProperties ==
  ASSUME NEW ch \in SoloChannel, NEW name
  PROVE  /\ Left(ch, name) \in SoloChannel
         /\ Left(ch, name).count = ch.count - 1
         /\ Len(Left(ch, name).users) >= Len(ch.users) - 1
<1>1. ch.users \in Seq(Client) /\ ch.count \in Int /\ Len(ch.users) \in Nat
  BY LenProperties DEF SoloChannel
<1>2. QED
  BY <1>1, RemoveUserProperties DEF Left, SoloChannel

\* A new channel.
LEMMA NewChannelProperties ==
  ASSUME NEW n \in Int
  PROVE  NewChannel(n) \in SoloChannel /\ NewChannel(n).count = n
         /\ Len(NewChannel(n).users) = 0
  BY DEF NewChannel, SoloChannel

----------------------------------------------------------------------------
(***************************************************************************)
(* The inductive invariant: types; counters that never exceed their lists; *)
(* a finite table with no more channels than list_count says; answers      *)
(* given so far.                                                           *)
(***************************************************************************)
CleanMemory == \A n \in Uninit : n <= 0

CountsInv == CleanMemory => WhoFilled

ListInv ==
  /\ IsFiniteSet(DOMAIN channel_list)
  /\ Cardinality(DOMAIN channel_list) <= list_count
  /\ ListComplete

SoloInv == TypeOK /\ CountsInv /\ ListInv

\* What a step does to the table, in the terms of the invariant.
TableOK(f) ==
  /\ DOMAIN f \subseteq Channel
  /\ f \in [DOMAIN f -> SoloChannel]
  /\ CleanMemory => \A x \in DOMAIN f : f[x].count <= Len(f[x].users)

LEMMA TableOfInv == SoloInv => TableOK(channel_list)
  BY DEF SoloInv, TypeOK, CountsInv, WhoFilled, TableOK

\* One channel is replaced or added, and some are removed.
LEMMA TableUpdated ==
  ASSUME TableOK(channel_list), NEW x \in Channel, NEW ch \in SoloChannel,
         CleanMemory => ch.count <= Len(ch.users)
  PROVE  /\ Has(x) => TableOK([channel_list EXCEPT ![x] = ch])
         /\ TableOK([y \in DOMAIN channel_list \cup {x} |->
                       IF y = x THEN ch ELSE channel_list[y]])
  BY DEF TableOK, Has

LEMMA TableRestricted ==
  ASSUME NEW f, TableOK(f), NEW D \in SUBSET DOMAIN f
  PROVE  TableOK(Restrict(f, D)) /\ DOMAIN Restrict(f, D) = D
  BY DEF TableOK, Restrict

\* The domain of a smaller or equally large table.
LEMMA FewerChannels ==
  ASSUME ListInv, DOMAIN channel_list' \subseteq DOMAIN channel_list,
         UNCHANGED <<list_count, answers>>, list_count \in Nat
  PROVE  ListInv'
<1>1. /\ IsFiniteSet(DOMAIN channel_list')
      /\ Cardinality(DOMAIN channel_list') <= Cardinality(DOMAIN channel_list)
  BY FS_Subset DEF ListInv
<1>2. Cardinality(DOMAIN channel_list') \in Nat /\ Cardinality(DOMAIN channel_list) \in Nat
  BY <1>1, FS_CardinalityType DEF ListInv
<1>3. QED
  BY <1>1, <1>2 DEF ListInv, ListComplete

\* What is left to show of a handler.
LEMMA HandlerInv ==
  ASSUME SoloInv, NEW i \in DOMAIN inbox[solo], Handle(i), UNCHANGED <<faults, clientVars>>,
         status' \in {"up", "crashed", "stopped"}, user_list' \in Seq(Client),
         list_count' \in Nat, answers' \subseteq Answer, TableOK(channel_list'), ListInv'
  PROVE  SoloInv'
<1>1. NetTypeOK'
  BY HandleType DEF SoloInv, TypeOK
<1>2. ClientTypeOK'
  BY DEF SoloInv, TypeOK, ClientTypeOK, clientVars
<1>3. QED
  BY <1>1, <1>2 DEF SoloInv, TypeOK, CountsInv, WhoFilled, TableOK

\* Handlers that leave the table alone.
LEMMA PlainInv ==
  ASSUME SoloInv, NEW i \in DOMAIN inbox[solo], Handle(i), UNCHANGED <<faults, clientVars>>,
         status' \in {"up", "crashed", "stopped"}, user_list' \in Seq(Client),
         UNCHANGED <<channel_list, list_count, answers>>
  PROVE  SoloInv'
<1>1. TableOK(channel_list') /\ ListInv'
  BY TableOfInv DEF SoloInv, ListInv, ListComplete
<1>2. list_count' \in Nat /\ answers' \subseteq Answer
  BY DEF SoloInv, TypeOK
<1>3. QED
  BY <1>1, <1>2, HandlerInv

LEMMA CrashInv ==
  ASSUME SoloInv, NEW i \in DOMAIN inbox[solo], Handle(i), UNCHANGED <<faults, clientVars>>,
         Crash
  PROVE  SoloInv'
<1>1. user_list' \in Seq(Client)
  BY DEF SoloInv, TypeOK, Crash
<1>2. QED
  BY <1>1, PlainInv DEF Crash

LEMMA LoginInv ==
  ASSUME SoloInv, RecvLogin, UNCHANGED <<faults, clientVars>>
  PROVE  SoloInv'
<1>1. PICK i \in Incoming("REQ_LOGIN") :
        /\ Handle(i)
        /\ user_list' = add_user(user_list, inbox[solo][i].src)
        /\ UNCHANGED <<status, channel_list, list_count, answers>>
  BY DEF RecvLogin
<1>2. i \in DOMAIN inbox[solo] /\ inbox[solo][i].src \in Client
  BY IncomingElements, DatagramFields DEF SoloInv, TypeOK
<1>3. user_list' \in Seq(Client) /\ status' \in {"up", "crashed", "stopped"}
  BY <1>1, <1>2, AddUserProperties DEF SoloInv, TypeOK
<1>4. QED
  BY <1>1, <1>2, <1>3, PlainInv

\* Every channel loses a user or none, and then some channels are removed.
LEMMA AfterLogoutTable ==
  ASSUME SoloInv, NEW name
  PROVE  /\ TableOK(ChannelsAfterLogout(name))
         /\ DOMAIN ChannelsAfterLogout(name) \subseteq DOMAIN channel_list
<1> DEFINE left == [x \in DOMAIN channel_list |-> Left(channel_list[x], name)]
           stay == {x \in DOMAIN left : left[x].count # 0}
<1>1. TableOK(left)
  <2>1. ASSUME NEW x \in DOMAIN channel_list
        PROVE  /\ Left(channel_list[x], name) \in SoloChannel
               /\ CleanMemory => Left(channel_list[x], name).count
                                    <= Len(Left(channel_list[x], name).users)
    <3>1. /\ channel_list[x] \in SoloChannel
          /\ channel_list[x].count \in Int
          /\ CleanMemory => channel_list[x].count <= Len(channel_list[x].users)
      BY TableOfInv DEF TableOK, SoloChannel
    <3>2. /\ Len(channel_list[x].users) \in Nat
          /\ Len(Left(channel_list[x], name).users) \in Nat
      BY <3>1, LeftProperties, LenProperties DEF SoloChannel
    <3>3. QED
      BY <3>1, <3>2, LeftProperties
  <2>2. QED
    BY <2>1, TableOfInv DEF TableOK
<1> HIDE DEF left
<1>2. TableOK(Restrict(left, stay)) /\ DOMAIN Restrict(left, stay) = stay
  BY <1>1, TableRestricted
<1>3. stay \subseteq DOMAIN channel_list
  BY DEF left
<1>4. ChannelsAfterLogout(name) = Restrict(left, stay)
  BY DEF ChannelsAfterLogout, left
<1>5. QED
  BY <1>2, <1>3, <1>4

LEMMA LogoutInv ==
  ASSUME SoloInv, RecvLogout, UNCHANGED <<faults, clientVars>>
  PROVE  SoloInv'
<1>1. PICK i \in Incoming("REQ_LOGOUT") :
        /\ Handle(i)
        /\ \/ Crash
           \/ /\ channel_list' = ChannelsAfterLogout(NameOf[inbox[solo][i].src])
              /\ user_list' = remove_user(user_list, NameOf[inbox[solo][i].src])
              /\ UNCHANGED <<status, list_count, answers>>
  BY DEF RecvLogout
<1> DEFINE name == NameOf[inbox[solo][i].src]
<1>2. i \in DOMAIN inbox[solo]
  BY IncomingElements DEF SoloInv, TypeOK
<1>3. CASE Crash
  BY <1>1, <1>2, <1>3, CrashInv
<1>4. CASE ~Crash
  <2>1. /\ TableOK(channel_list')
        /\ DOMAIN channel_list' \subseteq DOMAIN channel_list
    BY <1>1, <1>4, AfterLogoutTable
  <2>2. ListInv'
    BY <1>1, <1>4, <2>1, FewerChannels DEF SoloInv, TypeOK
  <2>3. user_list' \in Seq(Client)
    BY <1>1, <1>4, RemoveUserProperties DEF SoloInv, TypeOK
  <2>4. /\ list_count' \in Nat /\ answers' \subseteq Answer
        /\ status' \in {"up", "crashed", "stopped"}
    BY <1>1, <1>4 DEF SoloInv, TypeOK
  <2>5. QED
    BY <1>1, <1>2, <2>1, <2>2, <2>3, <2>4, HandlerInv
<1>5. QED
  BY <1>3, <1>4

LEMMA JoinExistingInv ==
  ASSUME SoloInv, RecvJoinExisting, UNCHANGED <<faults, clientVars>>
  PROVE  SoloInv'
<1>1. PICK i \in Incoming("REQ_JOIN") :
        /\ Handle(i)
        /\ Known(i)
        /\ Has(inbox[solo][i].channel)
        /\ channel_list' = [channel_list EXCEPT ![inbox[solo][i].channel] =
                              Joined(channel_list[inbox[solo][i].channel], inbox[solo][i].src)]
        /\ UNCHANGED <<status, user_list, list_count, answers>>
  BY DEF RecvJoinExisting
<1> DEFINE d == inbox[solo][i]
           x == d.channel
           ch == Joined(channel_list[x], d.src)
<1>2. i \in DOMAIN inbox[solo] /\ d \in Datagram
  BY IncomingElements DEF SoloInv, TypeOK
<1>3. d.src \in Client
  BY <1>1, KnownIsClient DEF SoloInv, TypeOK, Known
<1>4. x \in Channel /\ channel_list[x] \in SoloChannel
  BY <1>1, SoloChannels DEF SoloInv
<1>5. ch \in SoloChannel /\ (CleanMemory => ch.count <= Len(ch.users))
  <2>1. CleanMemory => channel_list[x].count <= Len(channel_list[x].users)
    BY <1>1, TableOfInv DEF TableOK, Has
  <2>2. channel_list[x].count \in Int /\ Len(channel_list[x].users) \in Nat
    BY <1>4, LenProperties DEF SoloChannel
  <2>3. QED
    BY <1>3, <1>4, <2>1, <2>2, JoinedProperties
<1> HIDE DEF ch
<1>6. TableOK(channel_list') /\ DOMAIN channel_list' = DOMAIN channel_list
  BY <1>1, <1>4, <1>5, TableOfInv, TableUpdated DEF ch
<1>7. ListInv'
  BY <1>1, <1>6, FewerChannels DEF SoloInv, TypeOK
<1>8. QED
  BY <1>1, <1>2, <1>6, <1>7, HandlerInv DEF SoloInv, TypeOK

LEMMA JoinNewInv ==
  ASSUME SoloInv, RecvJoinNew, UNCHANGED <<faults, clientVars>>
  PROVE  SoloInv'
<1>1. PICK i \in Incoming("REQ_JOIN"), n \in Uninit :
        /\ Handle(i)
        /\ Known(i)
        /\ ~Has(inbox[solo][i].channel)
        /\ channel_list' = [y \in DOMAIN channel_list \cup {inbox[solo][i].channel} |->
             IF y = inbox[solo][i].channel THEN Joined(NewChannel(n), inbox[solo][i].src)
             ELSE channel_list[y]]
        /\ list_count' = list_count + 1
        /\ UNCHANGED <<status, user_list, answers>>
  BY DEF RecvJoinNew
<1> DEFINE d == inbox[solo][i]
           x == d.channel
           ch == Joined(NewChannel(n), d.src)
<1>2. i \in DOMAIN inbox[solo] /\ d \in Datagram /\ x \in Channel
  BY IncomingElements, DatagramFields DEF SoloInv, TypeOK
<1>3. d.src \in Client
  BY <1>1, KnownIsClient DEF SoloInv, TypeOK, Known
<1>4. n \in Int /\ (CleanMemory => n <= 0)
  BY SoloAssumption DEF CleanMemory
<1>5. ch \in SoloChannel /\ (CleanMemory => ch.count <= Len(ch.users))
  BY <1>3, <1>4, JoinedProperties, NewChannelProperties
<1> HIDE DEF ch
<1>6. TableOK(channel_list')
  BY <1>1, <1>2, <1>5, TableOfInv, TableUpdated DEF ch
<1>7. ListInv'
  <2>1. DOMAIN channel_list' = DOMAIN channel_list \cup {x}
    BY <1>1
  <2>2. /\ IsFiniteSet(DOMAIN channel_list')
        /\ Cardinality(DOMAIN channel_list') = Cardinality(DOMAIN channel_list) + 1
    BY <1>1, <2>1, FS_AddElement DEF SoloInv, ListInv, Has
  <2>3. Cardinality(DOMAIN channel_list) \in Nat
    BY FS_CardinalityType DEF SoloInv, ListInv
  <2>4. ListComplete'
    BY <1>1 DEF SoloInv, ListInv, ListComplete
  <2>5. QED
    BY <1>1, <2>2, <2>3, <2>4 DEF SoloInv, ListInv, TypeOK
<1>8. /\ status' \in {"up", "crashed", "stopped"} /\ user_list' \in Seq(Client)
      /\ list_count' \in Nat /\ answers' \subseteq Answer
  BY <1>1 DEF SoloInv, TypeOK
<1>9. Handle(i)
  BY <1>1
<1>10. QED
  BY <1>2, <1>6, <1>7, <1>8, <1>9, HandlerInv

LEMMA LeaveInv ==
  ASSUME SoloInv, RecvLeave, UNCHANGED <<faults, clientVars>>
  PROVE  SoloInv'
<1>1. PICK i \in Incoming("REQ_LEAVE") :
        /\ Handle(i)
        /\ channel_list' =
             IF ~Has(inbox[solo][i].channel) THEN channel_list
             ELSE IF Left(channel_list[inbox[solo][i].channel],
                          NameOf[inbox[solo][i].src]).count = 0
                  THEN Restrict(channel_list, DOMAIN channel_list \ {inbox[solo][i].channel})
                  ELSE [channel_list EXCEPT ![inbox[solo][i].channel] =
                          Left(channel_list[inbox[solo][i].channel], NameOf[inbox[solo][i].src])]
        /\ UNCHANGED <<status, user_list, list_count, answers>>
  BY DEF RecvLeave
<1> DEFINE x == inbox[solo][i].channel
           ch == Left(channel_list[x], NameOf[inbox[solo][i].src])
<1>2. i \in DOMAIN inbox[solo]
  BY IncomingElements DEF SoloInv, TypeOK
<1>3. TableOK(channel_list') /\ DOMAIN channel_list' \subseteq DOMAIN channel_list
  <2>1. CASE ~Has(x)
    BY <1>1, <2>1, TableOfInv
  <2>2. CASE Has(x) /\ ch.count = 0
    BY <1>1, <2>2, TableOfInv, TableRestricted
  <2>3. CASE Has(x) /\ ch.count # 0
    <3>1. x \in Channel /\ channel_list[x] \in SoloChannel
      BY <2>3, SoloChannels DEF SoloInv
    <3>2. /\ CleanMemory => channel_list[x].count <= Len(channel_list[x].users)
          /\ channel_list[x].count \in Int /\ Len(channel_list[x].users) \in Nat
      BY <2>3, <3>1, TableOfInv, LenProperties DEF TableOK, Has, SoloChannel
    <3>3. ch \in SoloChannel /\ Len(ch.users) \in Nat
      BY <3>1, LeftProperties, LenProperties DEF SoloChannel
    <3>4. CleanMemory => ch.count <= Len(ch.users)
      BY <3>1, <3>2, <3>3, LeftProperties
    <3> HIDE DEF ch
    <3>5. QED
      BY <1>1, <2>3, <3>1, <3>3, <3>4, TableOfInv, TableUpdated DEF ch
  <2>4. QED
    BY <2>1, <2>2, <2>3
<1>4. ListInv'
  BY <1>1, <1>3, FewerChannels DEF SoloInv, TypeOK
<1>5. /\ status' \in {"up", "crashed", "stopped"} /\ user_list' \in Seq(Client)
      /\ list_count' \in Nat /\ answers' \subseteq Answer
  BY <1>1 DEF SoloInv, TypeOK
<1>6. Handle(i)
  BY <1>1
<1>7. QED
  BY <1>2, <1>3, <1>4, <1>5, <1>6, HandlerInv

\* A message, a question about a channel, a datagram from a stranger.
LEMMA SayWhoUnknownInv ==
  ASSUME SoloInv, RecvSay \/ RecvWho \/ RecvFromUnknown, UNCHANGED <<faults, clientVars>>
  PROVE  SoloInv'
<1>1. PICK i \in Incoming("REQ_SAY") \cup Incoming("REQ_WHO")
                  \cup Incoming("REQ_JOIN") \cup Incoming("REQ_LEAVE") :
        /\ Handle(i)
        /\ \/ Crash
           \/ UNCHANGED soloVars
           \/ status' = "stopped" /\ UNCHANGED <<user_list, channel_list, list_count, answers>>
  BY DEF RecvSay, RecvWho, RecvFromUnknown
<1>2. i \in DOMAIN inbox[solo]
  BY IncomingElements DEF SoloInv, TypeOK
<1>3. status \in {"up", "crashed", "stopped"} /\ user_list \in Seq(Client)
  BY DEF SoloInv, TypeOK
<1>4. CASE Crash
  BY <1>1, <1>2, <1>4, CrashInv
<1>5. CASE ~Crash
  <2>1. /\ status' \in {"up", "crashed", "stopped"}
        /\ UNCHANGED <<user_list, channel_list, list_count, answers>>
    BY <1>1, <1>3, <1>5 DEF soloVars
  <2>2. user_list' \in Seq(Client)
    BY <1>3, <2>1
  <2>3. QED
    BY <1>1, <1>2, <2>1, <2>2, PlainInv
<1>6. QED
  BY <1>4, <1>5

LEMMA ListRequestInv ==
  ASSUME SoloInv, RecvList, UNCHANGED <<faults, clientVars>>
  PROVE  SoloInv'
<1>1. PICK i \in Incoming("REQ_LIST") :
        /\ Handle(i)
        /\ answers' = answers \cup {[announced |-> list_count,
                                     present |-> Cardinality(DOMAIN channel_list)]}
        /\ UNCHANGED <<status, user_list, channel_list, list_count>>
  BY DEF RecvList
<1>2. i \in DOMAIN inbox[solo]
  BY IncomingElements DEF SoloInv, TypeOK
<1>3. list_count \in Nat /\ Cardinality(DOMAIN channel_list) \in Nat
  BY FS_CardinalityType DEF SoloInv, ListInv, TypeOK
<1>4. answers' \subseteq Answer
  BY <1>1, <1>3 DEF SoloInv, TypeOK, Answer
<1>5. ListInv'
  BY <1>1, <1>3 DEF SoloInv, ListInv, ListComplete
<1>6. TableOK(channel_list')
  BY <1>1, TableOfInv
<1>7. QED
  BY <1>1, <1>2, <1>4, <1>5, <1>6, HandlerInv DEF SoloInv, TypeOK

----------------------------------------------------------------------------
\* The invariant holds at the start and is kept by every step.
LEMMA SoloInvHolds == Spec => []SoloInv
<1>1. Init => SoloInv
  <2> SUFFICES ASSUME Init PROVE SoloInv
    OBVIOUS
  <2>1. PICK n \in Uninit : channel_list = [x \in {Common} |-> NewChannel(n)]
    BY DEF Init
  <2>2. n \in Int /\ NewChannel(n) \in SoloChannel
    BY SoloAssumption, NewChannelProperties
  <2>3. NetTypeOK
    BY NetworkAssumption DEF Init, NetInit, NetTypeOK
  <2>4. ClientTypeOK
    BY ProtocolAssumption, ClientAssumption DEF Init, ClientInit, ClientTypeOK
  <2>5. TypeOK
    BY <2>1, <2>2, <2>3, <2>4, ProtocolAssumption DEF Init, TypeOK
  <2>6. CountsInv
    BY <2>1, <2>2, NewChannelProperties DEF CountsInv, WhoFilled, CleanMemory
  <2>7. ListInv
    <3>1. IsFiniteSet({Common}) /\ Cardinality({Common}) = 1
      BY FS_Singleton
    <3>2. QED
      BY <2>1, <3>1 DEF Init, ListInv, ListComplete
  <2>8. QED
    BY <2>5, <2>6, <2>7 DEF SoloInv
<1>2. SoloInv /\ [Next]_vars => SoloInv'
  <2> SUFFICES ASSUME SoloInv, [Next]_vars PROVE SoloInv'
    OBVIOUS
  <2>1. ASSUME Receive, UNCHANGED <<faults, clientVars>> PROVE SoloInv'
    BY <2>1, LoginInv, LogoutInv, JoinExistingInv, JoinNewInv, LeaveInv,
       SayWhoUnknownInv, ListRequestInv DEF Receive
  <2>2. ASSUME NetTypeOK', ClientTypeOK', UNCHANGED soloVars PROVE SoloInv'
    BY <2>2 DEF SoloInv, TypeOK, CountsInv, WhoFilled, ListInv, ListComplete, soloVars
  <2>3. ASSUME NEW c \in Client, ClientStep(c), UNCHANGED <<faults, soloVars>> PROVE SoloInv'
    BY <2>2, <2>3, ClientStepKeepsTypes DEF SoloInv, TypeOK
  <2>4. ASSUME LoseDatagram(solo) \/ DoubleDatagram(solo), UNCHANGED <<clientVars, soloVars>>
        PROVE  SoloInv'
    <3>1. NetTypeOK'
      BY <2>4, SoloIsServer, FaultKeepsTypes DEF SoloInv, TypeOK
    <3>2. ClientTypeOK'
      BY <2>4 DEF SoloInv, TypeOK, ClientTypeOK, clientVars
    <3>3. QED
      BY <2>2, <2>4, <3>1, <3>2
  <2>5. CASE UNCHANGED vars
    <3>1. NetTypeOK' /\ ClientTypeOK' /\ UNCHANGED soloVars
      BY <2>5 DEF vars, netVars, clientVars, SoloInv, TypeOK, NetTypeOK, ClientTypeOK
    <3>2. QED
      BY <2>2, <3>1
  <2>6. QED
    BY <2>1, <2>3, <2>4, <2>5 DEF Next
<1>3. QED
  BY <1>1, <1>2, PTL DEF Spec

\* The variables of the clients, the server and the network keep their types.
THEOREM SoloTypeCorrect == Spec => []TypeOK
<1>1. SoloInv => TypeOK
  BY DEF SoloInv
<1>2. QED
  BY <1>1, SoloInvHolds, PTL

\* When counters start at zero, or below, an answer to /who never has an entry
\* that the list does not fill, whatever the network does.
THEOREM WhoCorrect ==
  ASSUME CleanMemory
  PROVE  Spec => []WhoFilled
<1>1. SoloInv => WhoFilled
  BY DEF SoloInv, CountsInv
<1>2. QED
  BY <1>1, SoloInvHolds, PTL

\* The channels there are always fit the answer to /list.
THEOREM ListCorrect == Spec => []ListComplete
<1>1. SoloInv => ListComplete
  BY DEF SoloInv, ListInv
<1>2. QED
  BY <1>1, SoloInvHolds, PTL

----------------------------------------------------------------------------
(***************************************************************************)
(* Who is known when he is heard.                                          *)
(***************************************************************************)
SoloOrder == faults = 0 => OrderAt(solo, inbox[solo], phase, user_list)

\* What every handler does to the queue and to the users.
LEMMA HandlersRemember ==
  ASSUME NamesDiffer, ~Reordering, TypeOK, Receive
  PROVE  /\ Len(inbox[solo]) # 0
         /\ inbox'[solo] = RemoveAt(inbox[solo], 1)
         /\ Remembers(inbox[solo], user_list, user_list')
<1> DEFINE q == inbox[solo]
<1>0. /\ NetTypeOK /\ q \in Seq(Datagram) /\ DOMAIN q = 1 .. Len(q) /\ Len(q) \in Nat
      /\ user_list \in Seq(Client)
  BY SoloIsServer, QueueElements, LenProperties DEF TypeOK
<1>1. ASSUME NEW type, NEW i \in Incoming(type), Handle(i)
      PROVE  /\ i = 1 /\ Len(q) # 0 /\ q[1] \in Datagram /\ q[1].type = type
             /\ inbox'[solo] = RemoveAt(q, 1)
  <2>1. /\ i \in DOMAIN q /\ i \in Arrivals(solo)
        /\ q[i] \in Datagram /\ q[i].type = type
    BY <1>0, IncomingElements
  <2>2. i = 1
    BY <2>1 DEF Arrivals
  <2>3. inbox'[solo] = RemoveAt(q, 1)
    BY <1>0, <1>1, <2>2, SoloIsServer DEF Handle, After, NetTypeOK
  <2>4. QED
    BY <1>0, <2>1, <2>2, <2>3
<1>2. ASSUME NEW type, NEW i \in Incoming(type), Handle(i),
             type # "REQ_LOGIN", UNCHANGED user_list
      PROVE  Remembers(q, user_list, user_list')
  BY <1>1, <1>2 DEF Remembers, LoginOf
<1>3. CASE RecvLogin
  <2>1. PICK i \in Incoming("REQ_LOGIN") :
          Handle(i) /\ user_list' = add_user(user_list, q[i].src)
    BY <1>3 DEF RecvLogin
  <2>2. /\ i = 1 /\ Len(q) # 0 /\ q[1] \in Datagram /\ q[1].type = "REQ_LOGIN"
        /\ inbox'[solo] = RemoveAt(q, 1)
    BY <1>1, <2>1
  <2>3. q[1].src \in Client
    BY <2>2, DatagramFields
  <2>4. ASSUME NEW c \in Client, q[1] = LoginOf(c) \/ knows(user_list, c)
        PROVE  knows(user_list', c)
    <3>1. knows(user_list', c) <=> c = q[1].src \/ knows(user_list, c)
      BY <1>0, <2>1, <2>2, <2>3, AddUserKnows
    <3>2. QED
      BY <2>4, <3>1 DEF LoginOf
  <2>5. QED
    BY <2>2, <2>4 DEF Remembers
<1>4. CASE RecvLogout
  <2>1. PICK i \in Incoming("REQ_LOGOUT") :
          /\ Handle(i)
          /\ UNCHANGED user_list \/ user_list' = remove_user(user_list, NameOf[q[i].src])
    BY <1>4 DEF RecvLogout, Crash
  <2>2. /\ i = 1 /\ Len(q) # 0 /\ q[1] \in Datagram /\ q[1].type = "REQ_LOGOUT"
        /\ inbox'[solo] = RemoveAt(q, 1)
    BY <1>1, <2>1
  <2>3. q[1].src \in Client /\ q[1] = LogoutOf(q[1].src)
    BY <2>2, DatagramFields, LoginsAndLogouts
  <2>4. ASSUME NEW c \in Client, knows(user_list, c), q[1] # LogoutOf(c)
        PROVE  knows(user_list', c)
    <3>1. NameOf[c] # NameOf[q[1].src]
      BY <2>3, <2>4 DEF NamesDiffer
    <3>2. QED
      BY <1>0, <2>1, <2>2, <2>4, <3>1, RemoveUserKnows
  <2>5. \A c \in Client : q[1] # LoginOf(c)
    BY <2>2 DEF LoginOf
  <2>6. QED
    BY <2>2, <2>4, <2>5 DEF Remembers
<1>5. CASE RecvJoinExisting
  <2>1. PICK i \in Incoming("REQ_JOIN") : Handle(i) /\ UNCHANGED user_list
    BY <1>5 DEF RecvJoinExisting
  <2>2. QED
    BY <1>1, <1>2, <2>1
<1>6. CASE RecvJoinNew
  <2>1. PICK i \in Incoming("REQ_JOIN") : Handle(i) /\ UNCHANGED user_list
    BY <1>6 DEF RecvJoinNew
  <2>2. QED
    BY <1>1, <1>2, <2>1
<1>7. CASE RecvLeave
  <2>1. PICK i \in Incoming("REQ_LEAVE") : Handle(i) /\ UNCHANGED user_list
    BY <1>7 DEF RecvLeave
  <2>2. QED
    BY <1>1, <1>2, <2>1
<1>8. CASE RecvSay
  <2>1. PICK i \in Incoming("REQ_SAY") : Handle(i) /\ UNCHANGED user_list
    BY <1>8 DEF RecvSay, Crash, soloVars
  <2>2. QED
    BY <1>1, <1>2, <2>1
<1>9. CASE RecvFromUnknown
  <2>1. \E type \in {"REQ_JOIN", "REQ_LEAVE", "REQ_SAY"} :
          \E i \in Incoming(type) : Handle(i) /\ UNCHANGED user_list
    BY <1>9 DEF RecvFromUnknown, Crash
  <2>2. QED
    BY <1>1, <1>2, <2>1
<1>10. CASE RecvList
  <2>1. PICK i \in Incoming("REQ_LIST") : Handle(i) /\ UNCHANGED user_list
    BY <1>10 DEF RecvList
  <2>2. QED
    BY <1>1, <1>2, <2>1
<1>11. CASE RecvWho
  <2>1. PICK i \in Incoming("REQ_WHO") : Handle(i) /\ UNCHANGED user_list
    BY <1>11 DEF RecvWho, Crash, soloVars
  <2>2. QED
    BY <1>1, <1>2, <2>1
<1>12. QED
  BY <1>3, <1>4, <1>5, <1>6, <1>7, <1>8, <1>9, <1>10, <1>11 DEF Receive

\* The order is kept by every step.
LEMMA SoloOrderStep ==
  ASSUME NamesDiffer, ~Reordering, TypeOK, SoloOrder, [Next]_vars
  PROVE  SoloOrder'
<1>0. NetTypeOK /\ ClientTypeOK /\ inbox[solo] \in Seq(Datagram) /\ faults \in Nat
  BY SoloIsServer DEF TypeOK, NetTypeOK
<1>1. ASSUME Receive, UNCHANGED <<faults, clientVars>> PROVE SoloOrder'
  <2>1. UNCHANGED <<faults, phase>>
    BY <1>1 DEF clientVars
  <2>2. CASE faults = 0
    <3>1. OrderAt(solo, inbox'[solo], phase, user_list')
      BY <1>0, <1>1, <2>2, HandlersRemember, HandledKeepsOrder DEF SoloOrder
    <3>2. solo' = solo
      OBVIOUS
    <3>3. QED
      BY <2>1, <3>1 DEF SoloOrder
  <2>3. CASE faults # 0
    BY <2>1, <2>3 DEF SoloOrder
  <2>4. QED
    BY <2>2, <2>3
<1>2. ASSUME NEW c \in Client, ClientStep(c), UNCHANGED <<faults, soloVars>>
      PROVE  SoloOrder'
  <2>1. UNCHANGED <<faults, user_list>>
    BY <1>2 DEF soloVars
  <2>2. faults = 0 => OrderAt(solo, inbox'[solo], phase', user_list)
    BY <1>0, <1>2, SoloIsServer, ClientKeepsOrder DEF SoloOrder
  <2>3. QED
    BY <2>1, <2>2 DEF SoloOrder
<1>3. ASSUME LoseDatagram(solo) \/ DoubleDatagram(solo)
      PROVE  SoloOrder'
  <2>1. faults' # 0
    BY <1>0, <1>3 DEF LoseDatagram, DoubleDatagram
  <2>2. QED
    BY <2>1 DEF SoloOrder
<1>4. CASE UNCHANGED vars
  BY <1>4 DEF vars, netVars, clientVars, soloVars, SoloOrder
<1>5. QED
  BY <1>1, <1>2, <1>3, <1>4 DEF Next

\* When no two users have one name and the network keeps order, then until it
\* first loses or doubles a datagram every user is known when he is heard.
THEOREM SoloUsersKnown ==
  ASSUME NamesDiffer
  PROVE  Spec => []UsersKnown
<1>1. CASE Reordering
  <2>1. UsersKnown
    BY <1>1 DEF UsersKnown
  <2>2. QED
    BY <2>1, PTL
<1>2. CASE ~Reordering
  <2>1. Init => SoloOrder
    <3> SUFFICES ASSUME Init PROVE SoloOrder
      OBVIOUS
    <3>1. inbox[solo] = <<>> /\ Len(<<>>) = 0 /\ \A c \in Client : phase[c] = "off"
      BY SoloIsServer DEF Init, NetInit, ClientInit
    <3>2. QED
      BY <3>1 DEF SoloOrder, OrderAt, InOrder
  <2>2. SoloOrder /\ TypeOK /\ [Next]_vars => SoloOrder'
    BY <1>2, SoloOrderStep
  <2>3. SoloOrder /\ TypeOK => UsersKnown
    <3> SUFFICES ASSUME SoloOrder, TypeOK, faults = 0,
                        NEW i \in Arrivals(solo),
                        inbox[solo][i].src \in Client, inbox[solo][i].type # "REQ_LOGIN"
                 PROVE  Known(i)
      BY DEF UsersKnown
    <3>1. i = 1 /\ i \in 1 .. Len(inbox[solo]) /\ inbox[solo][1] \in Datagram
      BY <1>2, SoloIsServer, QueueElements DEF TypeOK, Arrivals
    <3>2. Vouched(inbox[solo], user_list, inbox[solo][1].src, 0)
      BY <3>1 DEF SoloOrder, OrderAt, InOrder
    <3>3. QED
      BY <3>1, <3>2 DEF Vouched, Known
  <2>4. QED
    BY <2>1, <2>2, <2>3, SoloTypeCorrect, PTL DEF Spec
<1>3. QED
  BY <1>1, <1>2
=============================================================================
