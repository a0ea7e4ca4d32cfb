--------------------------- MODULE DuckChat_proofs ---------------------------
(***************************************************************************)
(* Lemmas that the proofs about both servers rest on: every operation on a *)
(* channel returns a channel record and keeps the counters equal to the    *)
(* lengths of the lists; what the queues hold and what clients send; steps *)
(* of clients and of the network keep the types and the order of logins.   *)
(***************************************************************************)
EXTENDS ChatClient, ChannelTable, SequenceTheorems, FiniteSetTheorems, TLAPS

----------------------------------------------------------------------------
(***************************************************************************)
(* The tables of a server.                                                 *)
(***************************************************************************)
\* Removing one element of a sequence: what is left, and how long it is.
LEMMA RemoveAtProperties ==
  ASSUME NEW S, NEW q \in Seq(S), NEW i \in 1 .. Len(q)
  PROVE  /\ RemoveAt(q, i) \in Seq(S)
         /\ Len(RemoveAt(q, i)) = Len(q) - 1
         /\ \A j \in 1 .. Len(q) - 1 :
              RemoveAt(q, i)[j] = IF j < i THEN q[j] ELSE q[j+1]
<1> DEFINE front == SubSeq(q, 1, i-1)
           back  == SubSeq(q, i+1, Len(q))
<1>1. \A j \in 1 .. Len(q) : q[j] \in S
  BY ElementOfSeq
<1>2. /\ front \in Seq(S)
      /\ Len(front) = i - 1
      /\ \A j \in 1 .. i-1 : front[j] = q[j]
  BY <1>1, SubSeqProperties, LenProperties
<1>3. /\ back \in Seq(S)
      /\ Len(back) = Len(q) - i
      /\ \A j \in 1 .. Len(q) - i : back[j] = q[i+j]
  BY <1>1, SubSeqProperties, LenProperties
<1>q. Len(q) \in Nat
  BY LenProperties
<1> HIDE DEF front, back
<1>4. /\ front \o back \in Seq(S)
      /\ Len(front \o back) = Len(q) - 1
      /\ \A j \in 1 .. Len(q) - 1 :
           (front \o back)[j] = IF j <= i - 1 THEN front[j] ELSE back[j - (i-1)]
  <2>1. Len(front) + Len(back) = Len(q) - 1
    BY <1>2, <1>3, <1>q
  <2>2. /\ front \o back \in Seq(S)
        /\ Len(front \o back) = Len(front) + Len(back)
        /\ \A j \in 1 .. Len(front) + Len(back) :
             (front \o back)[j] = IF j <= Len(front) THEN front[j] ELSE back[j - Len(front)]
    BY <1>2, <1>3, ConcatProperties
  <2>3. QED
    BY <1>2, <2>1, <2>2
<1>5. ASSUME NEW j \in 1 .. Len(q) - 1
      PROVE  (front \o back)[j] = IF j < i THEN q[j] ELSE q[j+1]
  <2>1. CASE j < i
    <3>1. j \in 1 .. i-1 /\ j <= i - 1
      BY <2>1
    <3>2. QED
      BY <1>2, <1>4, <2>1, <3>1
  <2>2. CASE ~(j < i)
    <3>1. j - (i-1) \in 1 .. Len(q) - i /\ i + (j - (i-1)) = j + 1 /\ ~(j <= i - 1)
      BY <2>2, <1>q
    <3>2. back[j - (i-1)] = q[j+1]
      BY <1>3, <3>1
    <3>3. QED
      BY <1>4, <2>2, <3>1, <3>2
  <2>3. QED
    BY <2>1, <2>2
<1>6. QED
  BY <1>4, <1>5 DEF RemoveAt, front, back

\* add_user returns a list of users that is one entry longer.
LEMMA AddUserProperties ==
  ASSUME NEW S, NEW list \in Seq(S), NEW c \in S
  PROVE  add_user(list, c) \in Seq(S) /\ Len(add_user(list, c)) = Len(list) + 1
<1>1. <<c>> \in Seq(S) /\ Len(<<c>>) = 1
  OBVIOUS
<1>2. QED
  BY <1>1, ConcatProperties DEF add_user

\* remove_user takes out one entry if there is one of that name, else none.
LEMMA RemoveUserProperties ==
  ASSUME NEW S, NEW list \in Seq(S), NEW name
  PROVE  /\ remove_user(list, name) \in Seq(S)
         /\ Len(remove_user(list, name)) =
              IF first_named(list, name) = {} THEN Len(list) ELSE Len(list) - 1
<1>1. CASE first_named(list, name) = {}
  BY <1>1 DEF remove_user
<1>2. CASE first_named(list, name) # {}
  <2> DEFINE k == CHOOSE k \in first_named(list, name) : TRUE
  <2>1. k \in 1 .. Len(list)
    BY <1>2, LenProperties DEF first_named
  <2>2. remove_user(list, name) = RemoveAt(list, k)
    BY <1>2 DEF remove_user
  <2>3. QED
    BY <1>2, <2>1, <2>2, RemoveAtProperties
<1>3. QED
  BY <1>1, <1>2

\* A new channel is a channel record; its counters agree with its lists when
\* the memory it is made of holds zeros.
LEMMA CreateChannelProperties ==
  ASSUME NEW uc \in Int, NEW sc \in Int
  PROVE  /\ create_channel(uc, sc) \in ChannelRecord
         /\ uc = 0 /\ sc = 0 => Counted(create_channel(uc, sc))
  BY FS_EmptySet DEF create_channel, ChannelRecord, Counted

\* Adding a user to a channel keeps its counters right.
LEMMA AddToChannelProperties ==
  ASSUME NEW ch \in ChannelRecord, NEW c \in Client
  PROVE  /\ add_user_to_channel(ch, c) \in ChannelRecord
         /\ Counted(ch) => Counted(add_user_to_channel(ch, c))
<1>0. add_user_to_channel(ch, c) =
        [ch EXCEPT !.users = add_user(ch.users, c), !.user_count = ch.user_count + 1]
  BY DEF add_user_to_channel
<1>1. add_user_to_channel(ch, c) =
        [users |-> add_user(ch.users, c), user_count |-> ch.user_count + 1,
         servers |-> ch.servers, server_count |-> ch.server_count]
  BY <1>0 DEF ChannelRecord
<1>2. ch.users \in Seq(Client) /\ ch.user_count \in Int
  BY DEF ChannelRecord
<1>3. /\ add_user(ch.users, c) \in Seq(Client)
      /\ Len(add_user(ch.users, c)) = Len(ch.users) + 1
  BY <1>2, AddUserProperties
<1>4. QED
  BY <1>1, <1>2, <1>3 DEF ChannelRecord, Counted

\* Removing a user from a channel keeps its counters right.
LEMMA RemoveFromChannelProperties ==
  ASSUME NEW ch \in ChannelRecord, NEW name
  PROVE  /\ remove_user_from_channel(ch, name) \in ChannelRecord
         /\ Counted(ch) => Counted(remove_user_from_channel(ch, name))
<1> DEFINE uc == IF first_named(ch.users, name) = {} THEN ch.user_count
                 ELSE ch.user_count - 1
<1>0. remove_user_from_channel(ch, name) =
        [ch EXCEPT !.users = remove_user(ch.users, name), !.user_count = uc]
  BY DEF remove_user_from_channel
<1>1. remove_user_from_channel(ch, name) =
        [users |-> remove_user(ch.users, name), user_count |-> uc,
         servers |-> ch.servers, server_count |-> ch.server_count]
  BY <1>0 DEF ChannelRecord
<1>2. ch.users \in Seq(Client) /\ ch.user_count \in Int
  BY DEF ChannelRecord
<1>3. QED
  BY <1>1, <1>2, RemoveUserProperties DEF ChannelRecord, Counted

\* Subscribing a server that is not yet subscribed keeps the counters right.
LEMMA SubscribeProperties ==
  ASSUME NEW ch \in ChannelRecord, NEW n \in Node, IsFiniteSet(ch.servers)
  PROVE  /\ sub_server_to_channel(ch, n) \in ChannelRecord
         /\ Counted(ch) /\ n \notin ch.servers => Counted(sub_server_to_channel(ch, n))
<1>0. sub_server_to_channel(ch, n) =
        [ch EXCEPT !.servers = ch.servers \cup {n}, !.server_count = ch.server_count + 1]
  BY DEF sub_server_to_channel
<1>1. sub_server_to_channel(ch, n) =
        [users |-> ch.users, user_count |-> ch.user_count,
         servers |-> ch.servers \cup {n}, server_count |-> ch.server_count + 1]
  BY <1>0 DEF ChannelRecord
<1>2. ch.servers \cup {n} \in SUBSET Node /\ ch.server_count + 1 \in Int
  BY DEF ChannelRecord
<1>3. n \notin ch.servers => Cardinality(ch.servers \cup {n}) = Cardinality(ch.servers) + 1
  BY FS_AddElement
<1>4. QED
  BY <1>1, <1>2, <1>3 DEF ChannelRecord, Counted

\* Unsubscribing keeps the counters right, although with one server left it
\* does not look which one it is.
LEMMA UnsubscribeProperties ==
  ASSUME NEW ch \in ChannelRecord, NEW n, IsFiniteSet(ch.servers)
  PROVE  /\ unsub_server(ch, n) \in ChannelRecord
         /\ Counted(ch) => Counted(unsub_server(ch, n))
<1>1. CASE ch.server_count = 1
  <2>1. unsub_server(ch, n) = [users |-> ch.users, user_count |-> ch.user_count,
                               servers |-> {}, server_count |-> 0]
    BY <1>1 DEF unsub_server, ChannelRecord
  <2>2. QED
    BY <2>1, FS_EmptySet DEF ChannelRecord, Counted
<1>2. CASE ch.server_count # 1 /\ ch.server_count # 0 /\ n \in ch.servers
  <2>1. unsub_server(ch, n) =
          [users |-> ch.users, user_count |-> ch.user_count,
           servers |-> ch.servers \ {n}, server_count |-> ch.server_count - 1]
    BY <1>2 DEF unsub_server, ChannelRecord
  <2>2. ch.servers \ {n} \in SUBSET Node /\ ch.server_count - 1 \in Int
    BY DEF ChannelRecord
  <2>3. Cardinality(ch.servers \ {n}) = Cardinality(ch.servers) - 1
    BY <1>2, FS_RemoveElement
  <2>4. QED
    BY <2>1, <2>2, <2>3 DEF ChannelRecord, Counted
<1>3. CASE ch.server_count # 1 /\ ~(ch.server_count # 0 /\ n \in ch.servers)
  BY <1>3 DEF unsub_server
<1>4. QED
  BY <1>1, <1>2, <1>3

----------------------------------------------------------------------------
(***************************************************************************)
(* The protocol, the network and the clients.                              *)
(***************************************************************************)
\* What a datagram carries, by its type.
LEMMA DatagramFields ==
  ASSUME NEW d \in Datagram
  PROVE  /\ d.type = "REQ_LOGIN"  => d.src \in Client
         /\ d.type = "REQ_LOGOUT" => d.src \in Client
         /\ d.type = "REQ_JOIN"   => d.src \in Node /\ d.channel \in Channel
         /\ d.type = "REQ_LEAVE"  => d.src \in Client /\ d.channel \in Channel
         /\ d.type = "REQ_SAY"    => /\ d.src \in Client
                                     /\ d.channel \in Channel
                                     /\ d.text \in Text
         /\ d.type = "S2S_SAY"    => /\ d.src \in Server
                                     /\ d.channel \in Channel
                                     /\ d.text \in Text
                                     /\ d.id \in Id
         /\ d.type = "S2S_LEAVE"  => d.src \in Server /\ d.channel \in Channel
  BY DEF Datagram, LoginRequest, LogoutRequest, JoinRequest, LeaveRequest,
         SayRequest, ListRequest, WhoRequest, S2SSay, S2SLeave

\* The datagrams that clients and servers send.
LEMMA DatagramsSent ==
  /\ \A c \in Client : [type |-> "REQ_LOGIN", src |-> c] \in Datagram
  /\ \A c \in Client : [type |-> "REQ_LOGOUT", src |-> c] \in Datagram
  /\ \A n \in Node, x \in Channel :
       [type |-> "REQ_JOIN", src |-> n, channel |-> x] \in Datagram
  /\ \A c \in Client, x \in Channel :
       [type |-> "REQ_LEAVE", src |-> c, channel |-> x] \in Datagram
  /\ \A c \in Client, x \in Channel, t \in Text :
       [type |-> "REQ_SAY", src |-> c, channel |-> x, text |-> t] \in Datagram
  /\ \A c \in Client : [type |-> "REQ_LIST", src |-> c] \in Datagram
  /\ \A c \in Client, x \in Channel :
       [type |-> "REQ_WHO", src |-> c, channel |-> x] \in Datagram
  /\ \A s \in Server, x \in Channel, t \in Text, id \in Id :
       [type |-> "S2S_SAY", src |-> s, channel |-> x, text |-> t, id |-> id] \in Datagram
  /\ \A s \in Server, x \in Channel :
       [type |-> "S2S_LEAVE", src |-> s, channel |-> x] \in Datagram
  BY DEF Datagram, LoginRequest, LogoutRequest, JoinRequest, LeaveRequest,
         SayRequest, ListRequest, WhoRequest, S2SSay, S2SLeave

\* The positions in a queue, and what lies there.
LEMMA QueueElements ==
  ASSUME NetTypeOK, NEW s \in Server
  PROVE  /\ inbox[s] \in Seq(Datagram)
         /\ DOMAIN inbox[s] = 1 .. Len(inbox[s])
         /\ \A i \in DOMAIN inbox[s] : inbox[s][i] \in Datagram
         /\ Arrivals(s) \subseteq DOMAIN inbox[s]
<1>1. inbox[s] \in Seq(Datagram)
  BY DEF NetTypeOK
<1>2. DOMAIN inbox[s] = 1 .. Len(inbox[s])
  BY <1>1, LenProperties
<1>3. QED
  BY <1>1, <1>2, ElementOfSeq DEF Arrivals

\* A queue still holds datagrams after one was read.
LEMMA AfterType ==
  ASSUME NetTypeOK, NEW s \in Server, NEW i \in DOMAIN inbox[s]
  PROVE  After(s, i) \in [Server -> Seq(Datagram)]
<1>1. RemoveAt(inbox[s], i) \in Seq(Datagram)
  BY QueueElements, RemoveAtProperties
<1>2. QED
  BY <1>1 DEF After, NetTypeOK

\* So it does after one was sent.
LEMMA SendAllType ==
  ASSUME NEW q \in [Server -> Seq(Datagram)], NEW dsts, NEW d \in Datagram
  PROVE  SendAll(q, dsts, d) \in [Server -> Seq(Datagram)]
  BY DEF SendAll

\* What the user of a client types keeps the types of network and client.
LEMMA ClientStepKeepsTypes ==
  ASSUME NetTypeOK, ClientTypeOK, NEW c \in Client, ClientStep(c), UNCHANGED faults
  PROVE  NetTypeOK' /\ ClientTypeOK'
<1>1. inbox' \in [Server -> Seq(Datagram)]
  <2>1. ASSUME NEW d \in Datagram, Request(c, d)
        PROVE  inbox' \in [Server -> Seq(Datagram)]
    BY <2>1, SendAllType DEF Request, NetTypeOK
  <2>2. CASE Login(c)
    BY <2>1, <2>2, DatagramsSent DEF Login
  <2>3. CASE JoinCommon(c)
    BY <2>1, <2>3, DatagramsSent, ProtocolAssumption DEF JoinCommon, Node
  <2>4. CASE TypeJoin(c)
    BY <2>1, <2>4, DatagramsSent DEF TypeJoin, Node
  <2>5. CASE TypeLeave(c)
    BY <2>1, <2>5, DatagramsSent DEF TypeLeave
  <2>6. CASE TypeSwitch(c)
    BY <2>6 DEF TypeSwitch, NetTypeOK
  <2>7. CASE TypeText(c)
    <3> DEFINE t == [msg |-> says + 1, whole |-> TRUE]
    <3>1. active[c] \in Channel
      BY <2>7 DEF TypeText, ClientTypeOK
    <3>2. t \in Text
      BY <2>7, ProtocolAssumption DEF TypeText, ClientTypeOK, Text, Message
    <3>3. [type |-> "REQ_SAY", src |-> c, channel |-> active[c], text |-> t] \in Datagram
      BY <3>1, <3>2, DatagramsSent
    <3>4. QED
      BY <2>1, <2>7, <3>3 DEF TypeText
  <2>8. CASE TypeExit(c)
    BY <2>1, <2>8, DatagramsSent DEF TypeExit
  <2>9. CASE TypeList(c)
    BY <2>1, <2>9, DatagramsSent DEF TypeList
  <2>10. CASE TypeWho(c)
    BY <2>1, <2>10, DatagramsSent DEF TypeWho
  <2>11. QED
    BY <2>2, <2>3, <2>4, <2>5, <2>6, <2>7, <2>8, <2>9, <2>10 DEF ClientStep
<1>2. ClientTypeOK'
  <2>1. CASE Login(c) \/ JoinCommon(c)
    BY <2>1, ProtocolAssumption DEF ClientTypeOK, Login, JoinCommon
  <2>2. CASE \/ TypeJoin(c) \/ TypeLeave(c) \/ TypeSwitch(c) \/ TypeText(c)
             \/ TypeList(c) \/ TypeWho(c) \/ TypeExit(c)
    <3>1. typed' \in 0 .. MaxCommands
      BY <2>2, ClientAssumption
      DEF TypeJoin, TypeLeave, TypeSwitch, TypeText, TypeList, TypeWho, TypeExit, Typed, ClientTypeOK
    <3>2. says' \in 0 .. MaxSays
      BY <2>2, ProtocolAssumption
      DEF TypeJoin, TypeLeave, TypeSwitch, TypeText, TypeList, TypeWho, TypeExit, ClientTypeOK
    <3>3. phase' \in [Client -> {"off", "login", "online", "exited"}]
      BY <2>2
      DEF TypeJoin, TypeLeave, TypeSwitch, TypeText, TypeList, TypeWho, TypeExit, ClientTypeOK
    <3>4. active' \in [Client -> Channel \cup {NoChannel}]
      BY <2>2
      DEF TypeJoin, TypeLeave, TypeSwitch, TypeText, TypeList, TypeWho, TypeExit, ClientTypeOK
    <3>5. QED
      BY <3>1, <3>2, <3>3, <3>4 DEF ClientTypeOK
  <2>3. QED
    BY <2>1, <2>2 DEF ClientStep
<1>3. QED
  BY <1>1, <1>2 DEF NetTypeOK

\* The network keeps the types when it loses or doubles a datagram.
LEMMA FaultKeepsTypes ==
  ASSUME NetTypeOK, NEW s \in Server, LoseDatagram(s) \/ DoubleDatagram(s)
  PROVE  NetTypeOK'
<1>1. inbox' \in [Server -> Seq(Datagram)]
  <2>1. CASE LoseDatagram(s)
    BY <2>1, AfterType DEF LoseDatagram
  <2>2. CASE DoubleDatagram(s)
    BY <2>2, QueueElements, SendAllType DEF DoubleDatagram, NetTypeOK
  <2>3. QED
    BY <2>1, <2>2
<1>2. faults' \in 0 .. MaxFaults
  BY NetworkAssumption DEF NetTypeOK, LoseDatagram, DoubleDatagram
<1>3. QED
  BY <1>1, <1>2 DEF NetTypeOK

----------------------------------------------------------------------------
(***************************************************************************)
(* Order of a client's datagrams in the queue q of a server with users     *)
(* list.  Client c is vouched for before position n+1: he is known or his  *)
(* login comes before, and no logout of his does.                          *)
(***************************************************************************)
LoginOf(c) == [type |-> "REQ_LOGIN", src |-> c]
LogoutOf(c) == [type |-> "REQ_LOGOUT", src |-> c]

Vouched(q, list, c, n) ==
  /\ knows(list, c) \/ \E j \in 1 .. n : q[j] = LoginOf(c)
  /\ \A j \in 1 .. n : q[j] # LogoutOf(c)

\* Whatever clients sent after their logins finds them vouched for.
InOrder(q, list) ==
  \A i \in 1 .. Len(q) :
    q[i].src \in Client /\ q[i].type # "REQ_LOGIN" => Vouched(q, list, q[i].src, i - 1)

\* No two clients have one name.
NamesDiffer == \A c, d \in Client : NameOf[c] = NameOf[d] => c = d

\* A login or a logout in the queue is told by its type and source.
LEMMA LoginsAndLogouts ==
  ASSUME NEW d \in Datagram
  PROVE  /\ d.type = "REQ_LOGIN" => d = LoginOf(d.src)
         /\ d.type = "REQ_LOGOUT" => d = LogoutOf(d.src)
  BY DEF Datagram, LoginRequest, LogoutRequest, JoinRequest, LeaveRequest, SayRequest,
         ListRequest, WhoRequest, S2SSay, S2SLeave, LoginOf, LogoutOf

\* Only clients are known.
LEMMA KnownIsClient ==
  ASSUME NEW list \in Seq(Client), NEW n, knows(list, n)
  PROVE  n \in Client
<1>1. PICK k \in DOMAIN list : list[k] = n
  BY DEF knows
<1>2. QED
  BY <1>1, LenProperties, ElementOfSeq

\* add_user makes c known and forgets nobody.
LEMMA AddUserKnows ==
  ASSUME NEW list \in Seq(Client), NEW c \in Client, NEW n
  PROVE  knows(add_user(list, c), n) <=> n = c \/ knows(list, n)
<1>1. /\ add_user(list, c) \in Seq(Client)
      /\ Len(add_user(list, c)) = 1 + Len(list)
      /\ add_user(list, c)[1] = c
      /\ \A k \in 1 .. Len(list) : add_user(list, c)[k + 1] = list[k]
  <2>1. <<c>> \in Seq(Client) /\ Len(<<c>>) = 1 /\ <<c>>[1] = c
    OBVIOUS
  <2>2. Len(list) \in Nat
    BY LenProperties
  <2>3. /\ <<c>> \o list \in Seq(Client)
        /\ Len(<<c>> \o list) = 1 + Len(list)
        /\ \A k \in 1 .. 1 + Len(list) :
             (<<c>> \o list)[k] = IF k <= 1 THEN <<c>>[k] ELSE list[k - 1]
    BY <2>1, ConcatProperties
  <2>4. QED
    BY <2>1, <2>2, <2>3 DEF add_user
<1>2. /\ DOMAIN list = 1 .. Len(list)
      /\ DOMAIN add_user(list, c) = 1 .. 1 + Len(list)
      /\ Len(list) \in Nat
  BY <1>1, LenProperties
<1>3. ASSUME knows(add_user(list, c), n), n # c
      PROVE  knows(list, n)
  <2>1. PICK k \in 1 .. 1 + Len(list) : add_user(list, c)[k] = n
    BY <1>2, <1>3 DEF knows
  <2>2. k - 1 \in 1 .. Len(list) /\ (k - 1) + 1 = k
    BY <1>1, <1>2, <1>3, <2>1
  <2>3. list[k - 1] = n
    BY <1>1, <2>1, <2>2
  <2>4. QED
    BY <1>2, <2>2, <2>3 DEF knows
<1>4. ASSUME knows(list, n)
      PROVE  knows(add_user(list, c), n)
  <2>1. PICK k \in 1 .. Len(list) : list[k] = n
    BY <1>2, <1>4 DEF knows
  <2>2. k + 1 \in 1 .. 1 + Len(list) /\ add_user(list, c)[k + 1] = n
    BY <1>1, <1>2, <2>1
  <2>3. QED
    BY <1>2, <2>2 DEF knows
<1>5. knows(add_user(list, c), c)
  <2>1. 1 \in 1 .. 1 + Len(list)
    BY <1>2
  <2>2. QED
    BY <1>1, <1>2, <2>1 DEF knows
<1>6. QED
  BY <1>3, <1>4, <1>5

\* remove_user forgets nobody of another name.
LEMMA RemoveUserKnows ==
  ASSUME NEW list \in Seq(Client), NEW name, NEW d, knows(list, d), NameOf[d] # name
  PROVE  knows(remove_user(list, name), d)
<1>1. CASE first_named(list, name) = {}
  BY <1>1 DEF remove_user
<1>2. CASE first_named(list, name) # {}
  <2> DEFINE k == CHOOSE k \in first_named(list, name) : TRUE
             rest == RemoveAt(list, k)
  <2>0. DOMAIN list = 1 .. Len(list) /\ Len(list) \in Nat
    BY LenProperties
  <2>1. k \in 1 .. Len(list) /\ NameOf[list[k]] = name
    BY <1>2, <2>0 DEF first_named
  <2>2. PICK j \in 1 .. Len(list) : list[j] = d
    BY <2>0 DEF knows
  <2> HIDE DEF k
  <2>3. j # k
    BY <2>1, <2>2
  <2>4. /\ rest \in Seq(Client)
        /\ Len(rest) = Len(list) - 1
        /\ \A l \in 1 .. Len(list) - 1 : rest[l] = IF l < k THEN list[l] ELSE list[l + 1]
    BY <2>1, RemoveAtProperties
  <2>5. DOMAIN rest = 1 .. Len(list) - 1
    BY <2>4, LenProperties
  <2>6. CASE j < k
    <3>1. j \in 1 .. Len(list) - 1
      BY <2>0, <2>1, <2>6
    <3>2. QED
      BY <2>2, <2>4, <2>5, <2>6, <3>1, <1>2 DEF knows, remove_user, k
  <2>7. CASE ~(j < k)
    <3>1. j - 1 \in 1 .. Len(list) - 1 /\ ~(j - 1 < k) /\ (j - 1) + 1 = j
      BY <2>0, <2>1, <2>3, <2>7
    <3>2. rest[j - 1] = d
      BY <2>2, <2>4, <3>1
    <3>3. QED
      BY <2>5, <3>1, <3>2, <1>2 DEF knows, remove_user, k
  <2>8. QED
    BY <2>6, <2>7
<1>3. QED
  BY <1>1, <1>2

\* A server handles the oldest datagram of its queue, after which it has users
\* new: it knows whoever logged in and forgets nobody but who logged out.
Remembers(q, list, new) ==
  \A c \in Client :
    q[1] = LoginOf(c) \/ (knows(list, c) /\ q[1] # LogoutOf(c)) => knows(new, c)

\* Then whoever was vouched for before a position is vouched for before the
\* position that datagram has now, and the queue stays in order.
LEMMA HandledInOrder ==
  ASSUME NEW q \in Seq(Datagram), Len(q) # 0, NEW list, NEW new, Remembers(q, list, new)
  PROVE  /\ \A c \in Client, n \in 1 .. Len(q) :
              Vouched(q, list, c, n) => Vouched(RemoveAt(q, 1), new, c, n - 1)
         /\ InOrder(q, list) => InOrder(RemoveAt(q, 1), new)
<1> DEFINE rest == RemoveAt(q, 1)
<1>0. Len(q) \in Nat /\ 1 \in 1 .. Len(q)
  BY LenProperties
<1>1. /\ Len(rest) = Len(q) - 1
      /\ \A j \in 1 .. Len(q) - 1 : rest[j] = q[j + 1]
  <2>1. \A j \in 1 .. Len(q) - 1 : ~(j < 1)
    BY <1>0
  <2>2. QED
    BY <1>0, <2>1, RemoveAtProperties
<1> HIDE DEF rest
<1>2. ASSUME NEW c \in Client, NEW n \in 1 .. Len(q), Vouched(q, list, c, n)
      PROVE  Vouched(rest, new, c, n - 1)
  <2>1. \A j \in 1 .. n - 1 : j + 1 \in 1 .. n /\ j \in 1 .. Len(q) - 1
    BY <1>0
  <2>2. \A j \in 1 .. n - 1 : rest[j] # LogoutOf(c)
    BY <1>1, <1>2, <2>1 DEF Vouched
  <2>3. q[1] # LogoutOf(c)
    BY <1>0, <1>2 DEF Vouched
  <2>4. CASE knows(list, c) \/ q[1] = LoginOf(c)
    BY <2>2, <2>3, <2>4 DEF Vouched, Remembers
  <2>5. CASE ~knows(list, c) /\ q[1] # LoginOf(c)
    <3>1. PICK j \in 1 .. n : q[j] = LoginOf(c)
      BY <1>2, <2>5 DEF Vouched
    <3>2. j - 1 \in 1 .. n - 1 /\ j - 1 \in 1 .. Len(q) - 1 /\ (j - 1) + 1 = j
      BY <1>0, <2>5, <3>1
    <3>3. rest[j - 1] = LoginOf(c)
      BY <1>1, <3>1, <3>2
    <3>4. QED
      BY <2>2, <3>2, <3>3 DEF Vouched
  <2>6. QED
    BY <2>4, <2>5
<1>3. ASSUME InOrder(q, list),
             NEW i \in 1 .. Len(rest), rest[i].src \in Client, rest[i].type # "REQ_LOGIN"
      PROVE  Vouched(rest, new, rest[i].src, i - 1)
  <2>1. /\ i \in 1 .. Len(q) - 1
        /\ i + 1 \in 1 .. Len(q)
        /\ i \in 1 .. Len(q)
        /\ (i + 1) - 1 = i
    BY <1>0, <1>1
  <2>2. rest[i] = q[i + 1]
    BY <1>1, <2>1
  <2>3. Vouched(q, list, rest[i].src, i)
    BY <1>3, <2>1, <2>2 DEF InOrder
  <2>4. QED
    BY <1>2, <1>3, <2>1, <2>3
<1>4. QED
  BY <1>2, <1>3 DEF InOrder, rest

\* A datagram is appended: others stay vouched for, and if its sender is
\* vouched for or logs in, the queue stays in order.
LEMMA SentInOrder ==
  ASSUME NEW q \in Seq(Datagram), NEW list, NEW d \in Datagram
  PROVE  /\ \A c \in Client, n \in 0 .. Len(q) :
              Vouched(q, list, c, n) => Vouched(Append(q, d), list, c, n)
         /\ \A c \in Client :
              Vouched(q, list, c, Len(q)) /\ d # LogoutOf(c)
                => Vouched(Append(q, d), list, c, Len(Append(q, d)))
         /\ InOrder(q, list) /\ (d.src \in Client /\ d.type # "REQ_LOGIN"
                                     => Vouched(q, list, d.src, Len(q)))
              => InOrder(Append(q, d), list)
<1> DEFINE more == Append(q, d)
<1>1. /\ Len(q) \in Nat
      /\ Len(more) = Len(q) + 1
      /\ \A j \in 1 .. Len(q) : more[j] = q[j]
      /\ more[Len(q) + 1] = d
  BY LenProperties, AppendProperties
<1> HIDE DEF more
<1>2. ASSUME NEW c \in Client, NEW n \in 0 .. Len(q), Vouched(q, list, c, n)
      PROVE  Vouched(more, list, c, n)
  <2>1. \A j \in 1 .. n : more[j] = q[j]
    BY <1>1
  <2>2. QED
    BY <1>2, <2>1 DEF Vouched
<1>3. ASSUME NEW c \in Client, Vouched(q, list, c, Len(q)), d # LogoutOf(c)
      PROVE  Vouched(more, list, c, Len(more))
  <2>1. Vouched(more, list, c, Len(q))
    BY <1>1, <1>2, <1>3
  <2>2. \A j \in 1 .. Len(more) : j \in 1 .. Len(q) \/ j = Len(q) + 1
    BY <1>1
  <2>3. \A j \in 1 .. Len(q) : j \in 1 .. Len(more)
    BY <1>1
  <2>4. QED
    BY <1>1, <1>3, <2>1, <2>2, <2>3 DEF Vouched
<1>4. ASSUME InOrder(q, list),
             d.src \in Client /\ d.type # "REQ_LOGIN" => Vouched(q, list, d.src, Len(q)),
             NEW i \in 1 .. Len(more), more[i].src \in Client, more[i].type # "REQ_LOGIN"
      PROVE  Vouched(more, list, more[i].src, i - 1)
  <2>1. CASE i \in 1 .. Len(q)
    <3>1. Vouched(q, list, more[i].src, i - 1)
      BY <1>1, <1>4, <2>1 DEF InOrder
    <3>2. i - 1 \in 0 .. Len(q)
      BY <1>1, <2>1
    <3>3. QED
      BY <1>2, <1>4, <3>1, <3>2
  <2>2. CASE i = Len(q) + 1
    <3>1. i - 1 = Len(q) /\ i - 1 \in 0 .. Len(q) /\ more[i] = d
      BY <1>1, <2>2
    <3>2. QED
      BY <1>2, <1>4, <3>1
  <2>3. QED
    BY <1>1, <2>1, <2>2
<1>5. QED
  BY <1>2, <1>3, <1>4 DEF InOrder, more

\* Queue q of server s with users list, in order, and what it has to hold of the
\* clients of s, of which ph is the phase: whoever is logged in is vouched for,
\* and whoever has not started has not logged out.
OrderAt(s, q, ph, list) ==
  /\ InOrder(q, list)
  /\ \A c \in Client : Home[c] = s =>
       /\ ph[c] \in {"login", "online"} => Vouched(q, list, c, Len(q))
       /\ ph[c] = "off" => \A j \in 1 .. Len(q) : q[j] # LogoutOf(c)

\* A server handles the oldest datagram.
LEMMA HandledKeepsOrder ==
  ASSUME NEW s, NEW q \in Seq(Datagram), Len(q) # 0, NEW ph, NEW list, NEW new,
         OrderAt(s, q, ph, list), Remembers(q, list, new)
  PROVE  OrderAt(s, RemoveAt(q, 1), ph, new)
<1>1. /\ Len(q) \in Nat
      /\ Len(q) \in 1 .. Len(q)
      /\ Len(RemoveAt(q, 1)) = Len(q) - 1
      /\ \A j \in 1 .. Len(q) - 1 : RemoveAt(q, 1)[j] = q[j + 1]
  <2>1. Len(q) \in Nat /\ 1 \in 1 .. Len(q)
    BY LenProperties
  <2>2. \A j \in 1 .. Len(q) - 1 : ~(j < 1)
    BY <2>1
  <2>3. QED
    BY <2>1, <2>2, RemoveAtProperties
<1>2. InOrder(RemoveAt(q, 1), new)
  BY HandledInOrder DEF OrderAt
<1>3. ASSUME NEW c \in Client, Home[c] = s, ph[c] \in {"login", "online"}
      PROVE  Vouched(RemoveAt(q, 1), new, c, Len(RemoveAt(q, 1)))
  <2>1. Vouched(q, list, c, Len(q))
    BY <1>3 DEF OrderAt
  <2>2. QED
    BY <1>1, <2>1, HandledInOrder
<1>4. ASSUME NEW c \in Client, Home[c] = s, ph[c] = "off",
             NEW j \in 1 .. Len(RemoveAt(q, 1))
      PROVE  RemoveAt(q, 1)[j] # LogoutOf(c)
  <2>1. j \in 1 .. Len(q) - 1 /\ j + 1 \in 1 .. Len(q)
    BY <1>1
  <2>2. q[j + 1] # LogoutOf(c)
    BY <1>4, <2>1 DEF OrderAt
  <2>3. QED
    BY <1>1, <2>1, <2>2
<1>5. QED
  BY <1>2, <1>3, <1>4 DEF OrderAt

\* Another server sends a datagram.
LEMMA ServerSendsKeepsOrder ==
  ASSUME NEW s, NEW q \in Seq(Datagram), NEW ph, NEW list, NEW d \in Datagram,
         d.src \in Server, OrderAt(s, q, ph, list)
  PROVE  OrderAt(s, Append(q, d), ph, list)
<1>1. d.src \notin Client /\ \A c \in Client : d # LogoutOf(c)
  BY ProtocolAssumption DEF LogoutOf
<1>2. InOrder(Append(q, d), list)
  BY <1>1, SentInOrder DEF OrderAt
<1>3. /\ Len(q) \in Nat
      /\ Len(Append(q, d)) = Len(q) + 1
      /\ \A j \in 1 .. Len(q) : Append(q, d)[j] = q[j]
      /\ Append(q, d)[Len(q) + 1] = d
  BY LenProperties, AppendProperties
<1>4. ASSUME NEW c \in Client, Home[c] = s, ph[c] = "off",
             NEW j \in 1 .. Len(Append(q, d))
      PROVE  Append(q, d)[j] # LogoutOf(c)
  <2>1. j \in 1 .. Len(q) \/ j = Len(q) + 1
    BY <1>3
  <2>2. QED
    BY <1>1, <1>3, <1>4, <2>1 DEF OrderAt
<1>5. QED
  BY <1>1, <1>2, <1>4, SentInOrder DEF OrderAt

\* What a client does in one step: it sends at most one datagram, to its home,
\* the login first of all and the logout last.
LEMMA ClientSends ==
  ASSUME ClientTypeOK, NEW c \in Client, ClientStep(c)
  PROVE  \/ UNCHANGED <<inbox, phase>>
         \/ \E d \in Datagram :
              /\ d.src = c
              /\ Request(c, d)
              /\ \/ /\ phase[c] = "off" /\ d = LoginOf(c)
                    /\ phase' = [phase EXCEPT ![c] = "login"]
                 \/ /\ phase[c] \in {"login", "online"}
                    /\ d.type # "REQ_LOGIN" /\ d # LogoutOf(c)
                    /\ phase' = [phase EXCEPT ![c] = "online"]
                 \/ /\ phase[c] = "online" /\ d = LogoutOf(c)
                    /\ phase' = [phase EXCEPT ![c] = "exited"]
<1> DEFINE Sends(d) ==
      /\ d \in Datagram
      /\ d.src = c
      /\ Request(c, d)
      /\ \/ /\ phase[c] = "off" /\ d = LoginOf(c)
            /\ phase' = [phase EXCEPT ![c] = "login"]
         \/ /\ phase[c] \in {"login", "online"}
            /\ d.type # "REQ_LOGIN" /\ d # LogoutOf(c)
            /\ phase' = [phase EXCEPT ![c] = "online"]
         \/ /\ phase[c] = "online" /\ d = LogoutOf(c)
            /\ phase' = [phase EXCEPT ![c] = "exited"]
<1>0. phase[c] = "online" => [phase EXCEPT ![c] = "online"] = phase
  BY DEF ClientTypeOK
<1>1. CASE Login(c)
  <2>1. Sends(LoginOf(c))
    BY <1>1, DatagramsSent DEF Login, LoginOf
  <2>2. QED
    BY <2>1
<1>2. CASE JoinCommon(c)
  <2>1. Sends([type |-> "REQ_JOIN", src |-> c, channel |-> Common])
    BY <1>2, DatagramsSent, ProtocolAssumption DEF JoinCommon, LogoutOf, Node
  <2>2. QED
    BY <2>1
<1>3. CASE TypeJoin(c)
  <2>1. PICK x \in Channel : Request(c, [type |-> "REQ_JOIN", src |-> c, channel |-> x])
    BY <1>3 DEF TypeJoin
  <2>2. Sends([type |-> "REQ_JOIN", src |-> c, channel |-> x])
    BY <1>0, <1>3, <2>1, DatagramsSent DEF TypeJoin, Typed, LogoutOf, Node
  <2>3. QED
    BY <2>2
<1>4. CASE TypeLeave(c)
  <2>1. PICK x \in Channel : Request(c, [type |-> "REQ_LEAVE", src |-> c, channel |-> x])
    BY <1>4 DEF TypeLeave
  <2>2. Sends([type |-> "REQ_LEAVE", src |-> c, channel |-> x])
    BY <1>0, <1>4, <2>1, DatagramsSent DEF TypeLeave, Typed, LogoutOf
  <2>3. QED
    BY <2>2
<1>5. CASE TypeSwitch(c)
  BY <1>5 DEF TypeSwitch
<1>6. CASE TypeText(c)
  <2> DEFINE t == [msg |-> says + 1, whole |-> TRUE]
             d == [type |-> "REQ_SAY", src |-> c, channel |-> active[c], text |-> t]
  <2>1. active[c] \in Channel /\ t \in Text
    BY <1>6, ProtocolAssumption DEF TypeText, ClientTypeOK, Text, Message
  <2>2. d \in Datagram
    BY <2>1, DatagramsSent
  <2>3. Sends(d)
    BY <1>0, <1>6, <2>2 DEF TypeText, Typed, LogoutOf
  <2>4. QED
    BY <2>3
<1>7. CASE TypeList(c)
  <2>1. Sends([type |-> "REQ_LIST", src |-> c])
    BY <1>0, <1>7, DatagramsSent DEF TypeList, Typed, LogoutOf
  <2>2. QED
    BY <2>1
<1>8. CASE TypeWho(c)
  <2>1. PICK x \in Channel : Request(c, [type |-> "REQ_WHO", src |-> c, channel |-> x])
    BY <1>8 DEF TypeWho
  <2>2. Sends([type |-> "REQ_WHO", src |-> c, channel |-> x])
    BY <1>0, <1>8, <2>1, DatagramsSent DEF TypeWho, Typed, LogoutOf
  <2>3. QED
    BY <2>2
<1>9. CASE TypeExit(c)
  <2>1. Sends(LogoutOf(c))
    BY <1>9, DatagramsSent DEF TypeExit, Typed, LogoutOf
  <2>2. QED
    BY <2>1
<1>10. QED
  BY <1>1, <1>2, <1>3, <1>4, <1>5, <1>6, <1>7, <1>8, <1>9 DEF ClientStep

\* So the queues stay in order.
LEMMA ClientKeepsOrder ==
  ASSUME NetTypeOK, ClientTypeOK, NEW c \in Client, ClientStep(c),
         NEW s \in Server, NEW list, OrderAt(s, inbox[s], phase, list)
  PROVE  OrderAt(s, inbox'[s], phase', list)
<1>1. CASE UNCHANGED <<inbox, phase>>
  BY <1>1
<1>2. ASSUME NEW d \in Datagram, d.src = c, Request(c, d),
             \/ /\ phase[c] = "off" /\ d = LoginOf(c)
                /\ phase' = [phase EXCEPT ![c] = "login"]
             \/ /\ phase[c] \in {"login", "online"}
                /\ d.type # "REQ_LOGIN" /\ d # LogoutOf(c)
                /\ phase' = [phase EXCEPT ![c] = "online"]
             \/ /\ phase[c] = "online" /\ d = LogoutOf(c)
                /\ phase' = [phase EXCEPT ![c] = "exited"]
      PROVE  OrderAt(s, inbox'[s], phase', list)
  <2> DEFINE q == inbox[s]
  <2>0. q \in Seq(Datagram) /\ Len(q) \in Nat
    BY LenProperties DEF NetTypeOK
  <2>1. \A b \in Client : b # c => phase'[b] = phase[b]
    BY <1>2 DEF ClientTypeOK
  <2>2. CASE Home[c] # s
    <3>1. inbox'[s] = q
      BY <1>2, <2>2 DEF Request, SendAll
    <3>2. \A b \in Client : Home[b] = s => phase'[b] = phase[b]
      BY <2>1, <2>2
    <3>3. QED
      BY <3>1, <3>2 DEF OrderAt
  <2>3. CASE Home[c] = s
    <3> DEFINE more == Append(q, d)
    <3>1. inbox'[s] = more
      BY <1>2, <2>3 DEF Request, SendAll
    <3>2. /\ Len(more) = Len(q) + 1
          /\ \A j \in 1 .. Len(q) : more[j] = q[j]
          /\ more[Len(q) + 1] = d
      BY <2>0, AppendProperties
    <3>3. InOrder(more, list)
      <4>1. d.type # "REQ_LOGIN" => phase[c] \in {"login", "online"}
        BY <1>2 DEF LoginOf
      <4>2. d.type # "REQ_LOGIN" => Vouched(q, list, d.src, Len(q))
        BY <1>2, <2>3, <4>1 DEF OrderAt
      <4>3. QED
        BY <2>0, <4>2, SentInOrder DEF OrderAt
    <3>4. ASSUME NEW b \in Client, Home[b] = s, phase'[b] \in {"login", "online"}
          PROVE  Vouched(more, list, b, Len(more))
      <4>1. CASE b # c
        <5>1. Vouched(q, list, b, Len(q))
          BY <2>1, <3>4, <4>1 DEF OrderAt
        <5>2. d # LogoutOf(b)
          BY <1>2, <4>1 DEF LogoutOf
        <5>3. QED
          BY <2>0, <5>1, <5>2, SentInOrder
      <4>2. CASE b = c /\ phase[c] = "off"
        <5>1. d = LoginOf(c) /\ d # LogoutOf(c)
          BY <1>2, <4>2 DEF LoginOf, LogoutOf
        <5>2. \A j \in 1 .. Len(q) : q[j] # LogoutOf(c)
          BY <2>3, <4>2 DEF OrderAt
        <5>3. Len(more) \in 1 .. Len(more) /\ more[Len(more)] = LoginOf(c)
          BY <2>0, <3>2, <5>1
        <5>4. \A j \in 1 .. Len(more) : j \in 1 .. Len(q) \/ j = Len(q) + 1
          BY <2>0, <3>2
        <5>5. \A j \in 1 .. Len(more) : more[j] # LogoutOf(c)
          BY <3>2, <5>1, <5>2, <5>4
        <5>6. QED
          BY <4>2, <5>3, <5>5 DEF Vouched
      <4>3. CASE b = c /\ phase[c] # "off"
        <5>1. phase[c] \in {"login", "online"} /\ d # LogoutOf(c)
          BY <1>2, <3>4, <4>3 DEF ClientTypeOK
        <5>2. Vouched(q, list, c, Len(q))
          BY <2>3, <5>1 DEF OrderAt
        <5>3. QED
          BY <2>0, <4>3, <5>1, <5>2, SentInOrder
      <4>4. QED
        BY <4>1, <4>2, <4>3
    <3>5. ASSUME NEW b \in Client, Home[b] = s, phase'[b] = "off",
                 NEW j \in 1 .. Len(more)
          PROVE  more[j] # LogoutOf(b)
      <4>1. b # c /\ phase[b] = "off"
        BY <1>2, <2>1, <3>5 DEF ClientTypeOK
      <4>2. d # LogoutOf(b)
        BY <1>2, <4>1 DEF LogoutOf
      <4>3. j \in 1 .. Len(q) \/ j = Len(q) + 1
        BY <2>0, <3>2
      <4>4. QED
        BY <3>2, <3>5, <4>1, <4>2, <4>3 DEF OrderAt
    <3> HIDE DEF more
    <3>6. QED
      BY <3>1, <3>3, <3>4, <3>5 DEF OrderAt
  <2>4. QED
    BY <2>2, <2>3
<1>3. QED
  BY <1>1, <1>2, ClientSends
=============================================================================
