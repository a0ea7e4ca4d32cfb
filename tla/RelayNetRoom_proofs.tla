------------------------- MODULE RelayNetRoom_proofs -------------------------
(***************************************************************************)
(* RelayNet implements ChatRoom: on a topology without cycles, where the   *)
(* network neither loses nor doubles datagrams, the servers look to their  *)
(* users like one server.                                                  *)
(***************************************************************************)
EXTENDS RelayNet_proofs, WellFoundedInduction

----------------------------------------------------------------------------
(***************************************************************************)
(* Occurrences(q, v): how often v lies in the sequence q.                  *)
(***************************************************************************)
Places(q, v) == {k \in DOMAIN q : q[k] = v}

LEMMA OccurrencesBasics ==
  ASSUME NEW S, NEW q \in Seq(S), NEW v
  PROVE  /\ DOMAIN q = 1 .. Len(q) /\ Len(q) \in Nat
         /\ IsFiniteSet(Places(q, v))
         /\ Occurrences(q, v) = Cardinality(Places(q, v))
         /\ Occurrences(q, v) \in Nat
         /\ Occurrences(q, v) = 0 <=> \A k \in DOMAIN q : q[k] # v
<1>1. DOMAIN q = 1 .. Len(q) /\ Len(q) \in Nat
  BY LenProperties
<1>2. IsFiniteSet(DOMAIN q)
  BY <1>1, FS_Interval
<1>3. IsFiniteSet(Places(q, v))
  BY <1>2, FS_Subset DEF Places
<1>4. Cardinality(Places(q, v)) \in Nat /\ (Cardinality(Places(q, v)) = 0 <=> Places(q, v) = {})
  BY <1>3, FS_CardinalityType, FS_EmptySet
<1>5. Occurrences(q, v) = Cardinality(Places(q, v))
  BY DEF Occurrences, Places
<1>6. QED
  BY <1>1, <1>3, <1>4, <1>5 DEF Places

\* A sequence has as many places for v as another if they correspond.
LEMMA OccurrencesMoved ==
  ASSUME NEW A, NEW B, IsFiniteSet(A), NEW f \in [A -> B],
         \A j, k \in A : f[j] = f[k] => j = k,
         \A k \in B : \E j \in A : f[j] = k
  PROVE  Cardinality(A) = Cardinality(B)
<1>1. f \in Bijection(A, B)
  BY DEF Bijection, Injection, Surjection, IsInjective
<1>2. QED
  BY <1>1, FS_Bijection DEF ExistsBijection

\* Taking out the element at i takes away one occurrence of that element.
LEMMA OccurrencesRemoved ==
  ASSUME NEW S, NEW q \in Seq(S), NEW i \in DOMAIN q, NEW v
  PROVE  /\ Occurrences(RemoveAt(q, i), v) \in Nat
         /\ Occurrences(q, v) = Occurrences(RemoveAt(q, i), v) + (IF q[i] = v THEN 1 ELSE 0)
<1> DEFINE rest == RemoveAt(q, i)
<1>1. DOMAIN q = 1 .. Len(q) /\ Len(q) \in Nat /\ IsFiniteSet(Places(q, v))
  BY OccurrencesBasics
<1>2. /\ rest \in Seq(S)
      /\ Len(rest) = Len(q) - 1
      /\ \A j \in 1 .. Len(q) - 1 : rest[j] = IF j < i THEN q[j] ELSE q[j+1]
  BY <1>1, RemoveAtProperties
<1> HIDE DEF rest
<1>3. DOMAIN rest = 1 .. Len(q) - 1 /\ IsFiniteSet(Places(rest, v))
  BY <1>2, OccurrencesBasics
<1>4. Cardinality(Places(rest, v)) = Cardinality(Places(q, v) \ {i})
  <2> DEFINE f == [j \in Places(rest, v) |-> IF j < i THEN j ELSE j + 1]
  <2>1. \A j \in Places(rest, v) : f[j] \in Places(q, v) \ {i}
    BY <1>1, <1>2, <1>3 DEF Places
  <2>2. \A j, k \in Places(rest, v) : f[j] = f[k] => j = k
    BY <1>1, <1>3 DEF Places
  <2>3. ASSUME NEW k \in Places(q, v) \ {i}
        PROVE  \E j \in Places(rest, v) : f[j] = k
    <3>1. CASE k < i
      <4>1. k \in 1 .. Len(q) - 1 /\ rest[k] = v
        BY <1>1, <1>2, <2>3, <3>1 DEF Places
      <4>2. QED
        BY <1>3, <3>1, <4>1 DEF Places
    <3>2. CASE ~(k < i)
      <4>1. k - 1 \in 1 .. Len(q) - 1 /\ ~(k - 1 < i) /\ (k - 1) + 1 = k
        BY <1>1, <2>3, <3>2 DEF Places
      <4>2. rest[k - 1] = v
        BY <1>2, <2>3, <4>1 DEF Places
      <4>3. QED
        BY <1>3, <4>1, <4>2 DEF Places
    <3>3. QED
      BY <3>1, <3>2
  <2>4. f \in [Places(rest, v) -> Places(q, v) \ {i}]
    BY <2>1
  <2> HIDE DEF f
  <2>5. QED
    BY <1>3, <2>2, <2>3, <2>4, OccurrencesMoved
<1>q. /\ Occurrences(q, v) = Cardinality(Places(q, v)) /\ Occurrences(q, v) \in Nat
      /\ Occurrences(rest, v) = Cardinality(Places(rest, v)) /\ Occurrences(rest, v) \in Nat
  BY <1>2, OccurrencesBasics
<1>5. CASE q[i] = v
  <2>1. Cardinality(Places(q, v) \ {i}) = Cardinality(Places(q, v)) - 1
    <3>1. i \in Places(q, v)
      BY <1>5 DEF Places
    <3>2. QED
      BY <1>1, <3>1, FS_RemoveElement
  <2>2. Occurrences(q, v) = Occurrences(rest, v) + 1
    BY <1>4, <1>q, <2>1
  <2>3. (IF q[i] = v THEN 1 ELSE 0) = 1
    BY <1>5
  <2>4. QED
    BY <1>q, <2>2, <2>3 DEF rest
<1>6. CASE q[i] # v
  <2>1. Places(q, v) \ {i} = Places(q, v)
    BY <1>6 DEF Places
  <2>2. Occurrences(q, v) = Occurrences(rest, v)
    BY <1>4, <1>q, <2>1
  <2>3. (IF q[i] = v THEN 1 ELSE 0) = 0
    BY <1>6
  <2>4. QED
    BY <1>q, <2>2, <2>3 DEF rest
<1>7. QED
  BY <1>5, <1>6

\* Appending an element adds one occurrence of it.
LEMMA OccurrencesAppended ==
  ASSUME NEW S, NEW q \in Seq(S), NEW e \in S, NEW v
  PROVE  Occurrences(Append(q, e), v) = Occurrences(q, v) + (IF e = v THEN 1 ELSE 0)
<1> DEFINE new == Append(q, e)
           n == Len(q) + 1
<1>1. DOMAIN q = 1 .. Len(q) /\ Len(q) \in Nat /\ IsFiniteSet(Places(q, v))
  BY OccurrencesBasics
<1>2. /\ new \in Seq(S) /\ Len(new) = n /\ new[n] = e
      /\ \A j \in 1 .. Len(q) : new[j] = q[j]
  BY AppendProperties
<1>3. DOMAIN new = 1 .. n
  BY <1>2, LenProperties
<1> HIDE DEF new
<1>4. Places(new, v) = IF e = v THEN Places(q, v) \cup {n} ELSE Places(q, v)
  BY <1>1, <1>2, <1>3 DEF Places
<1>5. Cardinality(Places(q, v) \cup {n}) = Cardinality(Places(q, v)) + 1
  <2>1. n \notin Places(q, v)
    BY <1>1 DEF Places
  <2>2. QED
    BY <1>1, <2>1, FS_AddElement
<1>6. /\ Occurrences(q, v) = Cardinality(Places(q, v)) /\ Occurrences(q, v) \in Nat
      /\ Occurrences(new, v) = Cardinality(Places(new, v))
  BY <1>2, OccurrencesBasics
<1>7. QED
  BY <1>4, <1>5, <1>6 DEF new

----------------------------------------------------------------------------
\* Copies of datagram d in the socket of server r.
InFlight(r, d) == Occurrences(inbox[r], d)

LEMMA InFlightType ==
  ASSUME NetTypeOK, NEW r \in Server, NEW d
  PROVE  /\ InFlight(r, d) \in Nat
         /\ InFlight(r, d) > 0 <=> \E i \in DOMAIN inbox[r] : inbox[r][i] = d
<1>1. inbox[r] \in Seq(Datagram)
  BY DEF NetTypeOK
<1>2. /\ Occurrences(inbox[r], d) \in Nat
      /\ Occurrences(inbox[r], d) = 0 <=> \A k \in DOMAIN inbox[r] : inbox[r][k] # d
  BY <1>1, OccurrencesBasics
<1>3. QED
  BY <1>2 DEF InFlight

\* Server s takes datagram i and sends e to the nodes of D.
LEMMA InFlightTurn ==
  ASSUME NetTypeOK, NEW s \in Server, NEW i \in DOMAIN inbox[s], NEW D, NEW e \in Datagram,
         inbox' = SendAll(After(s, i), D, e), NEW r \in Server, NEW d
  PROVE  InFlight(r, d)' = InFlight(r, d) - (IF r = s /\ inbox[s][i] = d THEN 1 ELSE 0)
                                          + (IF r \in D /\ e = d THEN 1 ELSE 0)
<1> DEFINE rest == After(s, i)
<1>1. rest \in [Server -> Seq(Datagram)] /\ inbox \in [Server -> Seq(Datagram)]
  BY AfterType DEF NetTypeOK
<1>2. rest = [inbox EXCEPT ![s] = RemoveAt(inbox[s], i)]
  BY DEF After
<1> HIDE DEF rest
<1>3. Occurrences(rest[r], d) = InFlight(r, d) - (IF r = s /\ inbox[s][i] = d THEN 1 ELSE 0)
  <2>1. CASE r = s
    <3>1. rest[r] = RemoveAt(inbox[s], i)
      BY <1>1, <1>2, <2>1
    <3>2. /\ Occurrences(RemoveAt(inbox[s], i), d) \in Nat
          /\ Occurrences(inbox[s], d) = Occurrences(RemoveAt(inbox[s], i), d)
                                          + (IF inbox[s][i] = d THEN 1 ELSE 0)
      BY <1>1, OccurrencesRemoved
    <3>3. (IF inbox[s][i] = d THEN 1 ELSE 0) = (IF r = s /\ inbox[s][i] = d THEN 1 ELSE 0)
          /\ (IF inbox[s][i] = d THEN 1 ELSE 0) \in {0, 1}
      BY <2>1
    <3>4. InFlight(r, d) = Occurrences(inbox[s], d)
      BY <2>1 DEF InFlight
    <3> QED
      BY <3>1, <3>2, <3>3, <3>4
  <2>2. CASE r # s
    <3>1. rest[r] = inbox[r]
      BY <1>1, <1>2, <2>2
    <3>2. (IF r = s /\ inbox[s][i] = d THEN 1 ELSE 0) = 0
      BY <2>2
    <3>3. Occurrences(rest[r], d) = InFlight(r, d) /\ InFlight(r, d) \in Nat
      BY <3>1, InFlightType DEF InFlight
    <3> QED
      BY <3>2, <3>3
  <2>3. QED
    BY <2>1, <2>2
<1>4. Occurrences(inbox'[r], d) = Occurrences(rest[r], d) + (IF r \in D /\ e = d THEN 1 ELSE 0)
  <2>1. rest[r] \in Seq(Datagram)
    BY <1>1
  <2>2. CASE r \in D
    <3>1. inbox'[r] = Append(rest[r], e)
      BY <2>2 DEF SendAll, rest
    <3>2. Occurrences(Append(rest[r], e), d) = Occurrences(rest[r], d) + (IF e = d THEN 1 ELSE 0)
      BY <2>1, OccurrencesAppended
    <3>3. (IF e = d THEN 1 ELSE 0) = (IF r \in D /\ e = d THEN 1 ELSE 0)
      BY <2>2
    <3> QED
      BY <3>1, <3>2, <3>3
  <2>3. CASE r \notin D
    <3>1. inbox'[r] = rest[r]
      BY <2>3 DEF SendAll, rest
    <3>2. (IF r \in D /\ e = d THEN 1 ELSE 0) = 0
      BY <2>3
    <3>3. Occurrences(rest[r], d) \in Nat
      BY <2>1, OccurrencesBasics
    <3> QED
      BY <3>1, <3>2, <3>3
  <2>4. QED
    BY <2>2, <2>3
<1>5. QED
  BY <1>3, <1>4 DEF InFlight

\* Datagram e is sent to the nodes of D, and none is taken.
LEMMA InFlightSent ==
  ASSUME NetTypeOK, NEW D, NEW e \in Datagram, inbox' = SendAll(inbox, D, e),
         NEW r \in Server, NEW d
  PROVE  InFlight(r, d)' = InFlight(r, d) + (IF r \in D /\ e = d THEN 1 ELSE 0)
<1>1. inbox[r] \in Seq(Datagram) /\ InFlight(r, d) \in Nat
  BY InFlightType DEF NetTypeOK
<1>2. CASE r \in D
  <2>1. inbox'[r] = Append(inbox[r], e)
    BY <1>2 DEF SendAll
  <2>2. Occurrences(Append(inbox[r], e), d) = Occurrences(inbox[r], d) + (IF e = d THEN 1 ELSE 0)
    BY <1>1, OccurrencesAppended
  <2>3. (IF e = d THEN 1 ELSE 0) = (IF r \in D /\ e = d THEN 1 ELSE 0)
    BY <1>2
  <2> QED
    BY <2>1, <2>2, <2>3 DEF InFlight
<1>3. CASE r \notin D
  <2>1. inbox'[r] = inbox[r]
    BY <1>3 DEF SendAll
  <2>2. (IF r \in D /\ e = d THEN 1 ELSE 0) = 0
    BY <1>3
  <2>3. InFlight(r, d)' = InFlight(r, d)
    BY <2>1 DEF InFlight
  <2> QED
    BY <1>1, <2>2, <2>3
<1>4. QED
  BY <1>2, <1>3

----------------------------------------------------------------------------
(***************************************************************************)
(* Who deals with whom: a server only hears of its own users and from its  *)
(* neighbours.                                                             *)
(***************************************************************************)
Own(s) == {c \in Client : Home[c] = s}
Partners(s) == Own(s) \cup Adjacent[s]

\* The users server s has in channel x.
Users(s, x) == IF Has(s, x) THEN channel_list[s][x].users ELSE <<>>

Placed ==
  \A s \in Server :
    /\ user_list[s] \in Seq(Own(s))
    /\ FedBy(channel_list[s], Partners(s))
    /\ \A x \in Channel : Users(s, x) \in Seq(Own(s))
    /\ \A d \in Datagram : InFlight(s, d) > 0 => d.src \in Partners(s)

\* What a step does to the users of the channels: nothing, or client c enters
\* channel x, or he gives up an entry in each channel of X.
UsersKept == \A r \in Server, y \in Channel : Users(r, y)' = Users(r, y)
UsersEnter(c, x) ==
  \A r \in Server, y \in Channel :
    Users(r, y)' = IF r = Home[c] /\ y = x THEN add_user(Users(r, y), c) ELSE Users(r, y)
UsersLeave(c, X) ==
  \A r \in Server, y \in Channel :
    Users(r, y)' = IF r = Home[c] /\ y \in X THEN remove_user(Users(r, y), NameOf[c])
                   ELSE Users(r, y)

\* So it depends on the datagram d that is handled.
UsersEffect(d) ==
  \/ UsersKept
  \/ d.type = "REQ_JOIN" /\ d.src \in Client /\ UsersEnter(d.src, d.channel)
  \/ d.src \in Client /\ \E X \in SUBSET Channel : UsersLeave(d.src, X)

\* Server s handles datagram i and sends e to the nodes of D.
Handles(s, i, D, e) ==
  /\ i \in DOMAIN inbox[s]
  /\ inbox' = SendAll(After(s, i), D, e)
  /\ e \in Datagram /\ e.src = s /\ D \subseteq Partners(s)
  /\ UsersEffect(inbox[s][i])
  /\ FedBy(channel_list'[s], Partners(s))
  /\ \A r \in Server \ {s} : channel_list'[r] = channel_list[r]
  /\ \A r \in Server : user_list'[r] \in Seq(Own(r))

\* No message is said or passed on, to servers or to users.
Quiet(e) == e.type # "S2S_SAY" /\ UNCHANGED <<topic, said, ID_LIST, delivered>>

\* What the operations on a channel do to its users.
LEMMA ChannelUsers ==
  ASSUME NEW ch \in ChannelRecord
  PROVE  /\ \A c \in Client : add_user_to_channel(ch, c).users = add_user(ch.users, c)
         /\ \A name : remove_user_from_channel(ch, name).users = remove_user(ch.users, name)
         /\ \A n : sub_server_to_channel(ch, n).users = ch.users
         /\ \A n : unsub_server(ch, n).users = ch.users
         /\ \A new : SubscribeAll(ch, new).users = ch.users
  BY DEF ChannelRecord, add_user_to_channel, remove_user_from_channel, sub_server_to_channel,
         unsub_server, SubscribeAll

\* Nobody can be taken out of an empty list; a channel without users has one.
LEMMA NoUsers ==
  /\ \A name : remove_user(<<>>, name) = <<>>
  /\ \A ch \in ChannelRecord : Counted(ch) /\ ch.user_count = 0 => ch.users = <<>>
<1>1. ASSUME NEW name PROVE remove_user(<<>>, name) = <<>>
  <2>1. first_named(<<>>, name) = {}
    BY DEF first_named
  <2>2. QED
    BY <2>1 DEF remove_user
<1>2. ASSUME NEW ch \in ChannelRecord, Counted(ch), ch.user_count = 0
      PROVE  ch.users = <<>>
  BY <1>2, EmptySeq DEF Counted, ChannelRecord
<1>3. QED
  BY <1>1, <1>2

\* The channels of server s are replaced by those of f.
LEMMA UsersUpdated ==
  ASSUME TypeOK, NEW s \in Server, NEW f, channel_list' = [channel_list EXCEPT ![s] = f]
  PROVE  /\ channel_list'[s] = f
         /\ \A r \in Server \ {s} : channel_list'[r] = channel_list[r]
         /\ \A r \in Server, y \in Channel :
              Users(r, y)' = IF r = s THEN (IF y \in DOMAIN f THEN f[y].users ELSE <<>>)
                             ELSE Users(r, y)
<1>1. /\ channel_list'[s] = f
      /\ \A r \in Server \ {s} : channel_list'[r] = channel_list[r]
  BY DEF TypeOK, ServerTypeOK
<1>2. QED
  BY <1>1 DEF Users, Has

\* The datagram taken comes from a partner.
LEMMA Heard ==
  ASSUME TypeOK, Placed, NEW s \in Server, NEW type, NEW i \in Incoming(s, type)
  PROVE  /\ i \in DOMAIN inbox[s] /\ inbox[s][i] \in Datagram /\ inbox[s][i].type = type
         /\ inbox[s][i].src \in Partners(s)
         /\ inbox[s][i].src \in Client => inbox[s][i].src \in Own(s) /\ Home[inbox[s][i].src] = s
<1>1. i \in DOMAIN inbox[s] /\ inbox[s][i] \in Datagram /\ inbox[s][i].type = type
  BY IncomingElements DEF TypeOK
<1>2. InFlight(s, inbox[s][i]) > 0
  BY <1>1, InFlightType DEF TypeOK
<1>3. inbox[s][i].src \in Partners(s)
  BY <1>1, <1>2 DEF Placed
<1>4. Adjacent[s] \cap Client = {}
  BY ServerAssumption, ProtocolAssumption
<1>5. QED
  BY <1>1, <1>3, <1>4 DEF Partners, Own

\* join() lets known users in and subscribes partners.
LEMMA JoinUsers ==
  ASSUME TypeOK, Placed, NEW s \in Server, NEW ch \in ChannelRecord,
         ch.servers \subseteq Partners(s), NEW n \in Partners(s)
  PROVE  /\ JoinChannel(s, ch, n) \in ChannelRecord
         /\ JoinChannel(s, ch, n).servers \subseteq Partners(s)
         /\ \/ JoinChannel(s, ch, n).users = ch.users
            \/ n \in Own(s) /\ JoinChannel(s, ch, n).users = add_user(ch.users, n)
<1>1. n \in Node
  BY ServerAssumption DEF Partners, Own, Node
<1>2. JoinChannel(s, ch, n) \in ChannelRecord
  <2>1. IsFiniteSet(ch.servers)
    BY ProtocolAssumption, FS_Subset DEF ChannelRecord
  <2>2. QED
    BY <1>1, <2>1, JoinChannelProperties DEF TypeOK
<1>3. CASE knows(user_list[s], n)
  <2>1. user_list[s] \in Seq(Own(s))
    BY DEF Placed
  <2>2. PICK k \in DOMAIN user_list[s] : user_list[s][k] = n
    BY <1>3 DEF knows
  <2>3. n \in Own(s)
    BY <2>1, <2>2, LenProperties, ElementOfSeq
  <2>4. JoinChannel(s, ch, n) = add_user_to_channel(ch, n) /\ n \in Client
    BY <1>3, <2>3 DEF JoinChannel, Own
  <2>5. QED
    BY <1>2, <2>3, <2>4, ChannelUsers, ChannelServers
<1>4. CASE ~knows(user_list[s], n)
  <2>1. JoinChannel(s, ch, n) \in {ch, sub_server_to_channel(ch, n)}
    BY <1>4 DEF JoinChannel
  <2>2. QED
    BY <1>2, <2>1, ChannelUsers, ChannelServers
<1>5. QED
  BY <1>3, <1>4

----------------------------------------------------------------------------
\* A handler that sends nothing, whatever it does to the channels of s.
LEMMA HandlesSilently ==
  ASSUME TypeOK, Placed, NEW s \in Server, NEW type, NEW i \in Incoming(s, type),
         inbox' = After(s, i), UNCHANGED <<topic, said, ID_LIST, delivered>>,
         \A r \in Server : user_list'[r] \in Seq(Own(r)),
         UsersEffect(inbox[s][i]), FedBy(channel_list'[s], Partners(s)),
         \A r \in Server \ {s} : channel_list'[r] = channel_list[r]
  PROVE  Handles(s, i, {}, Silence(s)) /\ Quiet(Silence(s))
<1>1. i \in DOMAIN inbox[s] /\ inbox' = SendAll(After(s, i), {}, Silence(s))
  BY Heard, SilenceSent
<1>2. Silence(s) \in Datagram /\ Silence(s).src = s /\ Silence(s).type = "S2S_LEAVE"
  BY SilenceSent DEF Silence
<1>3. QED
  BY <1>1, <1>2 DEF Handles, Quiet

\* It leaves the channels alone.
LEMMA ChannelsKept ==
  ASSUME Placed, NEW s \in Server, UNCHANGED channel_list, NEW d
  PROVE  /\ UsersEffect(d) /\ UsersKept
         /\ FedBy(channel_list'[s], Partners(s))
         /\ \A r \in Server \ {s} : channel_list'[r] = channel_list[r]
<1>1. UsersKept
  BY DEF UsersKept, Users, Has
<1>2. QED
  BY <1>1 DEF UsersEffect, Placed

LEMMA LoginHandles ==
  ASSUME TypeOK, Placed, NEW s \in Server, RecvLogin(s)
  PROVE  \E i, D, e : Handles(s, i, D, e) /\ Quiet(e)
<1>1. PICK i \in Incoming(s, "REQ_LOGIN") :
        /\ user_list' = [user_list EXCEPT ![s] = add_user(user_list[s], inbox[s][i].src)]
        /\ inbox' = After(s, i)
        /\ UNCHANGED <<channel_list, topic, said, ID_LIST, delivered>>
  BY DEF RecvLogin, history
<1>2. inbox[s][i].src \in Own(s)
  BY <1>1, Heard, DatagramFields
<1>3. add_user(user_list[s], inbox[s][i].src) \in Seq(Own(s))
  BY <1>2, AddUserProperties DEF Placed
<1>4. \A r \in Server : user_list'[r] \in Seq(Own(r))
  BY <1>1, <1>3 DEF Placed, TypeOK, ServerTypeOK
<1>5. QED
  BY <1>1, <1>4, ChannelsKept, HandlesSilently

\* logout() removes a channel only when it has no users left.
LEMMA LogoutUsers ==
  ASSUME TypeOK, CountsAgree, NEW s \in Server, NEW c \in Client, Home[c] = s,
         channel_list' = [channel_list EXCEPT ![s] = ChannelsAfterLogout(s, NameOf[c])]
  PROVE  UsersLeave(c, Channel)
<1> DEFINE f == ChannelsAfterLogout(s, NameOf[c])
           left == [x \in DOMAIN channel_list[s] |->
                      remove_user_from_channel(channel_list[s][x], NameOf[c])]
           kept == {x \in DOMAIN left : left[x].user_count # 0}
<1>1. f = [x \in kept |-> left[x]]
  BY DEF ChannelsAfterLogout, Restrict
<1>2. ASSUME NEW x \in Channel
      PROVE  (IF x \in DOMAIN f THEN f[x].users ELSE <<>>) = remove_user(Users(s, x), NameOf[c])
  <2>1. CASE Has(s, x)
    <3>1. /\ channel_list[s][x] \in ChannelRecord
          /\ left[x] = remove_user_from_channel(channel_list[s][x], NameOf[c])
          /\ Users(s, x) = channel_list[s][x].users
          /\ Counted(channel_list[s][x])
      BY <2>1, CountsAt DEF Has, Users
    <3>2. /\ left[x].users = remove_user(Users(s, x), NameOf[c])
          /\ left[x] \in ChannelRecord /\ Counted(left[x])
      BY <3>1, ChannelUsers, RemoveFromChannelProperties
    <3>3. CASE x \in kept
      BY <1>1, <3>2, <3>3
    <3>4. CASE x \notin kept
      <4>1. left[x].user_count = 0
        BY <2>1, <3>4 DEF Has
      <4>2. left[x].users = <<>>
        BY <3>2, <4>1, NoUsers
      <4>3. QED
        BY <1>1, <3>2, <3>4, <4>2
    <3>5. QED
      BY <3>3, <3>4
  <2>2. CASE ~Has(s, x)
    <3>1. x \notin DOMAIN f
      BY <1>1, <2>2 DEF Has
    <3>2. QED
      BY <2>2, <3>1, NoUsers DEF Users
  <2>3. QED
    BY <2>1, <2>2
<1>3. \A r \in Server, y \in Channel :
        Users(r, y)' = IF r = s THEN (IF y \in DOMAIN f THEN f[y].users ELSE <<>>)
                       ELSE Users(r, y)
  BY UsersUpdated
<1> HIDE DEF f
<1>4. QED
  BY <1>2, <1>3 DEF UsersLeave

LEMMA LogoutHandles ==
  ASSUME TypeOK, CountsAgree, Placed, NEW s \in Server, RecvLogout(s)
  PROVE  \E i, D, e : Handles(s, i, D, e) /\ Quiet(e)
<1>1. PICK i \in Incoming(s, "REQ_LOGOUT") :
        LET c == inbox[s][i].src IN
        /\ inbox' = After(s, i)
        /\ \/ UNCHANGED <<user_list, channel_list>>
           \/ /\ channel_list' = [channel_list EXCEPT ![s] = ChannelsAfterLogout(s, NameOf[c])]
              /\ user_list' = [user_list EXCEPT ![s] = remove_user(user_list[s], NameOf[c])]
        /\ UNCHANGED <<ID_LIST, delivered, topic, said>>
  BY DEF RecvLogout
<1> DEFINE c == inbox[s][i].src
<1>2. c \in Client /\ Home[c] = s
  BY <1>1, Heard, DatagramFields
<1>3. CASE UNCHANGED <<user_list, channel_list>>
  <2>1. \A r \in Server : user_list'[r] \in Seq(Own(r))
    BY <1>3 DEF Placed
  <2>2. QED
    BY <1>1, <1>3, <2>1, ChannelsKept, HandlesSilently
<1>4. CASE /\ channel_list' = [channel_list EXCEPT ![s] = ChannelsAfterLogout(s, NameOf[c])]
           /\ user_list' = [user_list EXCEPT ![s] = remove_user(user_list[s], NameOf[c])]
  <2>1. \A r \in Server : user_list'[r] \in Seq(Own(r))
    <3>1. remove_user(user_list[s], NameOf[c]) \in Seq(Own(s))
      BY RemoveUserProperties DEF Placed
    <3>2. QED
      BY <1>4, <3>1 DEF Placed, TypeOK, ServerTypeOK
  <2>2. UsersEffect(inbox[s][i])
    BY <1>2, <1>4, LogoutUsers DEF UsersEffect
  <2>3. FedBy(ChannelsAfterLogout(s, NameOf[c]), Partners(s))
    <3>1. \A x \in DOMAIN channel_list[s] :
            remove_user_from_channel(channel_list[s][x], NameOf[c]).servers \subseteq Partners(s)
      BY CountsAt, ChannelServers DEF Placed, FedBy, Has
    <3>2. QED
      BY <3>1 DEF FedBy, ChannelsAfterLogout, Restrict
  <2>4. /\ channel_list'[s] = ChannelsAfterLogout(s, NameOf[c])
        /\ \A r \in Server \ {s} : channel_list'[r] = channel_list[r]
    BY <1>4, UsersUpdated
  <2>5. QED
    BY <1>1, <2>1, <2>2, <2>3, <2>4, HandlesSilently
<1>5. QED
  BY <1>1, <1>3, <1>4

----------------------------------------------------------------------------
\* Channel x of server s gets record ch.
LEMMA ChannelReplaced ==
  ASSUME TypeOK, Placed, NEW s \in Server, NEW x \in Channel, Has(s, x),
         NEW ch, ch.servers \subseteq Partners(s),
         channel_list' = [channel_list EXCEPT ![s][x] = ch]
  PROVE  /\ FedBy(channel_list'[s], Partners(s))
         /\ \A r \in Server \ {s} : channel_list'[r] = channel_list[r]
         /\ \A r \in Server, y \in Channel :
              Users(r, y)' = IF r = s /\ y = x THEN ch.users ELSE Users(r, y)
<1> DEFINE f == [channel_list[s] EXCEPT ![x] = ch]
<1>1. channel_list' = [channel_list EXCEPT ![s] = f]
  OBVIOUS
<1>2. /\ channel_list'[s] = f
      /\ \A r \in Server \ {s} : channel_list'[r] = channel_list[r]
      /\ \A r \in Server, y \in Channel :
           Users(r, y)' = IF r = s THEN (IF y \in DOMAIN f THEN f[y].users ELSE <<>>)
                          ELSE Users(r, y)
  BY <1>1, UsersUpdated
<1>3. DOMAIN f = DOMAIN channel_list[s] /\ f[x] = ch
      /\ \A y \in DOMAIN f \ {x} : f[y] = channel_list[s][y]
  BY DEF Has, TypeOK, ServerTypeOK, ChannelTableOK
<1>4. FedBy(f, Partners(s))
  BY <1>3 DEF FedBy, Placed
<1> HIDE DEF f
<1>5. \A y \in Channel : (IF y \in DOMAIN f THEN f[y].users ELSE <<>>)
                           = IF y = x THEN ch.users ELSE Users(s, y)
  BY <1>3 DEF Users, Has
<1>6. ASSUME NEW r \in Server, NEW y \in Channel
      PROVE  Users(r, y)' = IF r = s /\ y = x THEN ch.users ELSE Users(r, y)
  <2>1. CASE r = s
    <3>1. Users(r, y)' = IF y \in DOMAIN f THEN f[y].users ELSE <<>>
      BY <1>2, <2>1
    <3>2. Users(r, y) = Users(s, y)
      BY <2>1
    <3>3. QED
      BY <1>5, <2>1, <3>1, <3>2
  <2>2. CASE r # s
    BY <1>2, <2>2
  <2>3. QED
    BY <2>1, <2>2
<1>7. FedBy(channel_list'[s], Partners(s))
  <2>1. channel_list'[s] = f
    BY <1>2
  <2>2. QED
    BY <1>4, <2>1
<1>8. \A r \in Server \ {s} : channel_list'[r] = channel_list[r]
  BY <1>2
<1>9. QED
  BY <1>6, <1>7, <1>8

LEMMA JoinExistingHandles ==
  ASSUME TypeOK, Placed, NEW s \in Server, RecvJoinExisting(s)
  PROVE  \E i, D, e : Handles(s, i, D, e) /\ Quiet(e)
<1>1. PICK i \in Incoming(s, "REQ_JOIN") :
        LET d == inbox[s][i] IN
        /\ Has(s, d.channel)
        /\ channel_list' = [channel_list EXCEPT ![s][d.channel] =
                              JoinChannel(s, channel_list[s][d.channel], d.src)]
        /\ inbox' = After(s, i)
        /\ UNCHANGED <<user_list, ID_LIST, topic, said, delivered>>
  BY DEF RecvJoinExisting, history
<1> DEFINE d == inbox[s][i]
           x == d.channel
           old == channel_list[s][x]
           ch == JoinChannel(s, old, d.src)
<1>2. /\ d \in Datagram /\ d.type = "REQ_JOIN" /\ d.src \in Partners(s) /\ x \in Channel
      /\ d.src \in Own(s) => d.src \in Client /\ Home[d.src] = s
  BY <1>1, Heard, DatagramFields DEF Own
<1>3. old \in ChannelRecord /\ old.servers \subseteq Partners(s) /\ Users(s, x) = old.users
  BY <1>1, ChannelRecords DEF TypeOK, Placed, FedBy, Has, Users
<1>4. /\ ch.servers \subseteq Partners(s)
      /\ ch.users = old.users \/ (d.src \in Own(s) /\ ch.users = add_user(old.users, d.src))
  BY <1>2, <1>3, JoinUsers
<1>5. channel_list' = [channel_list EXCEPT ![s][x] = ch] /\ Has(s, x) /\ x \in Channel
  BY <1>1, <1>2
<1> HIDE DEF ch, old, x, d
<1>6. /\ FedBy(channel_list'[s], Partners(s))
      /\ \A r \in Server \ {s} : channel_list'[r] = channel_list[r]
      /\ \A r \in Server, y \in Channel :
           Users(r, y)' = IF r = s /\ y = x THEN ch.users ELSE Users(r, y)
  BY <1>4, <1>5, ChannelReplaced DEF Users, Has
<1>7. UsersEffect(d)
  <2>1. CASE ch.users = old.users
    BY <1>3, <1>6, <2>1 DEF UsersEffect, UsersKept
  <2>2. CASE d.src \in Own(s) /\ ch.users = add_user(old.users, d.src)
    <3>1. UsersEnter(d.src, x)
      BY <1>2, <1>3, <1>6, <2>2 DEF UsersEnter
    <3>2. QED
      BY <1>2, <2>2, <3>1 DEF UsersEffect, x
  <2>3. QED
    BY <1>4, <2>1, <2>2
<1>8. \A r \in Server : user_list'[r] \in Seq(Own(r))
  BY <1>1 DEF Placed
<1>9. QED
  BY <1>1, <1>6, <1>7, <1>8, HandlesSilently DEF d

LEMMA JoinNewHandles ==
  ASSUME TypeOK, Placed, NEW s \in Server, RecvJoinNew(s)
  PROVE  \E i, D, e : Handles(s, i, D, e) /\ Quiet(e)
<1>1. PICK i \in Incoming(s, "REQ_JOIN"), uc \in Uninit, sc \in Uninit :
        LET d == inbox[s][i]
            ch == JoinChannel(s, create_channel(uc, sc), d.src)
            new == JoinTargets(s, ch)
        IN  /\ ~Has(s, d.channel)
            /\ channel_list' = [channel_list EXCEPT ![s] =
                                  WithChannel(s, d.channel, SubscribeAll(ch, new))]
            /\ inbox' = SendAll(After(s, i), new,
                                [type |-> "REQ_JOIN", src |-> s, channel |-> d.channel])
            /\ UNCHANGED <<user_list, ID_LIST, topic, said, delivered>>
  BY DEF RecvJoinNew, history
<1> DEFINE d == inbox[s][i]
           x == d.channel
           mem == create_channel(uc, sc)
           joined == JoinChannel(s, mem, d.src)
           new == JoinTargets(s, joined)
           ch == SubscribeAll(joined, new)
           e == [type |-> "REQ_JOIN", src |-> s, channel |-> x]
<1>2. /\ i \in DOMAIN inbox[s]
      /\ d \in Datagram /\ d.type = "REQ_JOIN" /\ d.src \in Partners(s) /\ x \in Channel
      /\ d.src \in Own(s) => d.src \in Client /\ Home[d.src] = s
  BY <1>1, Heard, DatagramFields DEF Own
<1>3. mem \in ChannelRecord /\ mem.servers \subseteq Partners(s) /\ mem.users = <<>>
  BY ServerAssumption, CreateChannelProperties DEF create_channel
<1>4. /\ joined \in ChannelRecord /\ joined.servers \subseteq Partners(s)
      /\ joined.users = <<>> \/ (d.src \in Own(s) /\ joined.users = add_user(<<>>, d.src))
  BY <1>2, <1>3, JoinUsers
<1>5. new \subseteq Partners(s)
  BY DEF JoinTargets, Partners
<1>6. ch.servers \subseteq Partners(s) /\ ch.users = joined.users
  BY <1>4, <1>5, ChannelServers, ChannelUsers
<1>7. channel_list' = [channel_list EXCEPT ![s] = WithChannel(s, x, ch)]
      /\ inbox' = SendAll(After(s, i), new, e)
  BY <1>1
<1> HIDE DEF ch, joined, mem
<1>8. /\ channel_list'[s] = WithChannel(s, x, ch)
      /\ \A r \in Server \ {s} : channel_list'[r] = channel_list[r]
      /\ \A r \in Server, y \in Channel :
           Users(r, y)' = IF r = s THEN (IF y \in DOMAIN WithChannel(s, x, ch)
                                         THEN WithChannel(s, x, ch)[y].users ELSE <<>>)
                          ELSE Users(r, y)
  BY <1>7, UsersUpdated
<1>9. FedBy(WithChannel(s, x, ch), Partners(s))
  BY <1>6, FedByUpdated DEF Placed
<1>10. /\ Users(s, x) = <<>>
       /\ \A r \in Server, y \in Channel :
            Users(r, y)' = IF r = s /\ y = x THEN ch.users ELSE Users(r, y)
  BY <1>1, <1>8 DEF WithChannel, Users, Has
<1>11. UsersEffect(d)
  <2>1. CASE joined.users = <<>>
    BY <1>6, <1>10, <2>1 DEF UsersEffect, UsersKept
  <2>2. CASE d.src \in Own(s) /\ joined.users = add_user(<<>>, d.src)
    <3>1. UsersEnter(d.src, x)
      BY <1>2, <1>6, <1>10, <2>2 DEF UsersEnter
    <3>2. QED
      BY <1>2, <2>2, <3>1 DEF UsersEffect
  <2>3. QED
    BY <1>4, <2>1, <2>2
<1>12. \A r \in Server : user_list'[r] \in Seq(Own(r))
  BY <1>1 DEF Placed
<1>13. e \in Datagram /\ e.src = s /\ e.type = "REQ_JOIN"
  BY <1>2, DatagramsSent DEF Node
<1> HIDE DEF e, new
<1>14. Handles(s, i, new, e)
  BY <1>1, <1>2, <1>5, <1>7, <1>8, <1>9, <1>11, <1>12, <1>13 DEF Handles
<1>15. Quiet(e)
  BY <1>1, <1>13 DEF Quiet
<1>16. QED
  BY <1>14, <1>15

LEMMA LeaveHandles ==
  ASSUME TypeOK, Placed, NEW s \in Server, RecvLeave(s)
  PROVE  \E i, D, e : Handles(s, i, D, e) /\ Quiet(e)
<1>1. PICK i \in Incoming(s, "REQ_LEAVE") :
        LET d == inbox[s][i] IN
        /\ inbox' = After(s, i)
        /\ \/ UNCHANGED channel_list
           \/ /\ Has(s, d.channel)
              /\ channel_list' = [channel_list EXCEPT ![s][d.channel] =
                   remove_user_from_channel(channel_list[s][d.channel], NameOf[d.src])]
        /\ UNCHANGED <<user_list, ID_LIST, delivered, topic, said>>
  BY DEF RecvLeave
<1> DEFINE d == inbox[s][i]
           x == d.channel
           old == channel_list[s][x]
           ch == remove_user_from_channel(old, NameOf[d.src])
<1>2. d.src \in Client /\ Home[d.src] = s /\ x \in Channel
  BY <1>1, Heard, DatagramFields
<1>3. \A r \in Server : user_list'[r] \in Seq(Own(r))
  BY <1>1 DEF Placed
<1>4. CASE UNCHANGED channel_list
  BY <1>1, <1>3, <1>4, ChannelsKept, HandlesSilently
<1>5. CASE Has(s, x) /\ channel_list' = [channel_list EXCEPT ![s][x] = ch]
  <2>1. old \in ChannelRecord /\ old.servers \subseteq Partners(s) /\ Users(s, x) = old.users
    BY <1>5, ChannelRecords DEF TypeOK, Placed, FedBy, Has, Users
  <2>2. ch.servers \subseteq Partners(s) /\ ch.users = remove_user(old.users, NameOf[d.src])
    BY <2>1, ChannelServers, ChannelUsers
  <2> HIDE DEF ch
  <2>3. /\ FedBy(channel_list'[s], Partners(s))
        /\ \A r \in Server \ {s} : channel_list'[r] = channel_list[r]
        /\ \A r \in Server, y \in Channel :
             Users(r, y)' = IF r = s /\ y = x THEN ch.users ELSE Users(r, y)
    BY <1>2, <1>5, <2>2, ChannelReplaced DEF Users, Has
  <2>4. UsersLeave(d.src, {x})
    BY <1>2, <2>1, <2>2, <2>3 DEF UsersLeave
  <2>5. UsersEffect(d)
    BY <1>2, <2>4 DEF UsersEffect
  <2>6. QED
    BY <1>1, <1>3, <2>3, <2>5, HandlesSilently
<1>6. QED
  BY <1>1, <1>4, <1>5

LEMMA S2SLeaveHandles ==
  ASSUME TypeOK, Placed, NEW s \in Server, RecvS2SLeave(s)
  PROVE  \E i, D, e : Handles(s, i, D, e) /\ Quiet(e)
<1>1. PICK i \in Incoming(s, "S2S_LEAVE") :
        LET d == inbox[s][i] IN
        /\ inbox' = After(s, i)
        /\ \/ UNCHANGED channel_list
           \/ /\ Has(s, d.channel)
              /\ channel_list' = [channel_list EXCEPT ![s][d.channel] =
                   unsub_server(channel_list[s][d.channel], d.src)]
        /\ UNCHANGED <<user_list, ID_LIST, delivered, topic, said>>
  BY DEF RecvS2SLeave, history
<1> DEFINE d == inbox[s][i]
           x == d.channel
           old == channel_list[s][x]
           ch == unsub_server(old, d.src)
<1>2. x \in Channel
  BY <1>1, Heard, DatagramFields
<1>3. \A r \in Server : user_list'[r] \in Seq(Own(r))
  BY <1>1 DEF Placed
<1>4. CASE UNCHANGED channel_list
  BY <1>1, <1>3, <1>4, ChannelsKept, HandlesSilently
<1>5. CASE Has(s, x) /\ channel_list' = [channel_list EXCEPT ![s][x] = ch]
  <2>1. old \in ChannelRecord /\ old.servers \subseteq Partners(s) /\ Users(s, x) = old.users
    BY <1>5, ChannelRecords DEF TypeOK, Placed, FedBy, Has, Users
  <2>2. ch.servers \subseteq Partners(s) /\ ch.users = old.users
    BY <2>1, ChannelServers, ChannelUsers
  <2> HIDE DEF ch
  <2>3. /\ FedBy(channel_list'[s], Partners(s))
        /\ \A r \in Server \ {s} : channel_list'[r] = channel_list[r]
        /\ \A r \in Server, y \in Channel :
             Users(r, y)' = IF r = s /\ y = x THEN ch.users ELSE Users(r, y)
    BY <1>2, <1>5, <2>2, ChannelReplaced DEF Users, Has
  <2>4. UsersEffect(d)
    BY <2>1, <2>2, <2>3 DEF UsersEffect, UsersKept
  <2>5. QED
    BY <1>1, <1>3, <2>3, <2>4, HandlesSilently
<1>6. QED
  BY <1>1, <1>4, <1>5

LEMMA QueryHandles ==
  ASSUME TypeOK, Placed, NEW s \in Server, RecvQuery(s)
  PROVE  \E i, D, e : Handles(s, i, D, e) /\ Quiet(e)
<1>0. PICK type \in {"REQ_LIST", "REQ_WHO"} : \E i \in Incoming(s, type) : inbox' = After(s, i)
  BY DEF RecvQuery
<1>1. PICK i \in Incoming(s, type) : inbox' = After(s, i)
  BY <1>0
<1>2. UNCHANGED <<user_list, channel_list, ID_LIST, topic, said, delivered>>
  BY DEF RecvQuery, serverVars, serverState, history
<1>3. \A r \in Server : user_list'[r] \in Seq(Own(r))
  BY <1>2 DEF Placed
<1>4. QED
  BY <1>1, <1>2, <1>3, ChannelsKept, HandlesSilently

\* say() gives up a channel only if it has no users, and passes the text on to
\* partners.
LEMMA SayHandles ==
  ASSUME TypeOK, CountsAgree, Placed, NEW s \in Server, NEW type \in {"REQ_SAY", "S2S_SAY"},
         NEW i \in Incoming(s, type), NEW t \in Text, NEW id \in Id, Say(s, i, t, id),
         UNCHANGED user_list
  PROVE  UsersKept /\ \E D, e : Handles(s, i, D, e)
<1> DEFINE d == inbox[s][i]
           x == d.channel
           ch == channel_list[s][x]
<1>1. /\ i \in DOMAIN inbox[s] /\ d.type \in {"REQ_SAY", "S2S_SAY"}
      /\ d.src \in Partners(s) /\ x \in Channel
  BY Heard, DatagramFields
<1>2. \A r \in Server : user_list'[r] \in Seq(Own(r))
  BY DEF Placed
<1>3. CASE inbox' = After(s, i) /\ UNCHANGED channel_list
  <2>1. inbox' = SendAll(After(s, i), {}, Silence(s))
    BY <1>1, <1>3, SilenceSent
  <2>2. Handles(s, i, {}, Silence(s))
    BY <1>1, <1>2, <1>3, <2>1, ChannelsKept, SilenceSent DEF Handles
  <2>3. QED
    BY <1>3, <2>2, ChannelsKept
<1>4. CASE /\ Has(s, x) /\ Lonely(ch)
           /\ Spread(After(s, i), {d.src}, [type |-> "S2S_LEAVE", src |-> s, channel |-> x])
           /\ channel_list' = [channel_list EXCEPT ![s] = remove_channel(s, x)]
  <2> DEFINE e == [type |-> "S2S_LEAVE", src |-> s, channel |-> x]
  <2>1. e \in Datagram /\ e.src = s /\ inbox' = SendAll(After(s, i), {d.src}, e)
    BY <1>1, <1>4, DatagramsSent DEF Spread
  <2>2. Users(s, x) = <<>>
    BY <1>4, CountsAt, NoUsers DEF Users, Lonely
  <2>3. /\ channel_list'[s] = remove_channel(s, x)
        /\ \A r \in Server \ {s} : channel_list'[r] = channel_list[r]
        /\ \A r \in Server, y \in Channel :
             Users(r, y)' = IF r = s THEN (IF y \in DOMAIN remove_channel(s, x)
                                           THEN remove_channel(s, x)[y].users ELSE <<>>)
                            ELSE Users(r, y)
    BY <1>4, UsersUpdated DEF Users, Has
  <2>4. FedBy(remove_channel(s, x), Partners(s))
    BY DEF FedBy, Placed, remove_channel, Restrict
  <2>5. UsersKept
    BY <2>2, <2>3 DEF UsersKept, Users, Has, remove_channel, Restrict
  <2> HIDE DEF e
  <2>6. Handles(s, i, {d.src}, e)
    BY <1>1, <1>2, <2>1, <2>3, <2>4, <2>5 DEF Handles, UsersEffect
  <2>7. QED
    BY <2>5, <2>6
<1>5. CASE /\ Has(s, x)
           /\ Spread(After(s, i), ch.servers \ {d.src},
                [type |-> "S2S_SAY", src |-> s, channel |-> x, text |-> t, id |-> id])
           /\ UNCHANGED channel_list
  <2> DEFINE e == [type |-> "S2S_SAY", src |-> s, channel |-> x, text |-> t, id |-> id]
             D == ch.servers \ {d.src}
  <2>1. e \in Datagram /\ e.src = s /\ inbox' = SendAll(After(s, i), D, e)
    BY <1>1, <1>5, DatagramsSent DEF Spread
  <2>2. D \subseteq Partners(s)
    BY <1>5 DEF Placed, FedBy, Has
  <2> HIDE DEF e, D
  <2>3. Handles(s, i, D, e)
    BY <1>1, <1>2, <1>5, <2>1, <2>2, ChannelsKept DEF Handles
  <2>4. QED
    BY <1>5, <2>3, ChannelsKept
<1>6. QED
  BY <1>3, <1>4, <1>5 DEF Say, RelayTo

LEMMA SaidTexts ==
  ASSUME TypeOK, Placed, NEW s \in Server, NEW type \in {"REQ_SAY", "S2S_SAY"},
         NEW i \in Incoming(s, type)
  PROVE  /\ inbox[s][i].text \in Text /\ Clip(inbox[s][i].text) \in Text
         /\ Clip(inbox[s][i].text).msg = inbox[s][i].text.msg
         /\ Draws[inbox[s][i].text.msg] \subseteq Id
         /\ type = "S2S_SAY" => inbox[s][i].id \in Id
<1>1. inbox[s][i].text \in Text /\ (type = "S2S_SAY" => inbox[s][i].id \in Id)
  BY Heard, DatagramFields
<1>2. \A t \in Text : Clip(t) \in Text /\ Clip(t).msg = t.msg
  BY DEF Text, Clip
<1>3. \A t \in Text : Draws[t.msg] \subseteq Id
  BY ServerAssumption DEF Text
<1>4. QED
  BY <1>1, <1>2, <1>3

LEMMA SayRequestHandles ==
  ASSUME TypeOK, CountsAgree, Placed, NEW s \in Server, RecvSay(s)
  PROVE  UsersKept /\ \E i, D, e : Handles(s, i, D, e)
<1>1. PICK i \in Incoming(s, "REQ_SAY") :
        /\ \/ inbox' = After(s, i) /\ UNCHANGED <<channel_list, history>>
           \/ \E id \in Draws[inbox[s][i].text.msg] : Say(s, i, inbox[s][i].text, id)
        /\ UNCHANGED <<user_list, ID_LIST>>
  BY DEF RecvSay
<1>2. CASE inbox' = After(s, i) /\ UNCHANGED <<channel_list, history>>
  <2>1. \A r \in Server : user_list'[r] \in Seq(Own(r))
    BY <1>1 DEF Placed
  <2>2. Handles(s, i, {}, Silence(s))
    BY <1>1, <1>2, <2>1, ChannelsKept, HandlesSilently DEF history
  <2>3. QED
    BY <1>2, <2>2, ChannelsKept
<1>3. CASE \E id \in Draws[inbox[s][i].text.msg] : Say(s, i, inbox[s][i].text, id)
  BY <1>1, <1>3, SaidTexts, SayHandles
<1>4. QED
  BY <1>1, <1>2, <1>3

LEMMA S2SSayHandles ==
  ASSUME TypeOK, CountsAgree, Placed, NEW s \in Server, RecvS2SSay(s)
  PROVE  UsersKept /\ \E i, D, e : Handles(s, i, D, e)
<1>1. PICK i \in Incoming(s, "S2S_SAY") :
        /\ \/ inbox' = After(s, i) /\ UNCHANGED <<channel_list, ID_LIST, delivered>>
           \/ Say(s, i, Clip(inbox[s][i].text), inbox[s][i].id)
        /\ UNCHANGED <<user_list, topic, said>>
  BY DEF RecvS2SSay
<1>2. CASE inbox' = After(s, i) /\ UNCHANGED <<channel_list, ID_LIST, delivered>>
  <2>1. \A r \in Server : user_list'[r] \in Seq(Own(r))
    BY <1>1 DEF Placed
  <2>2. Handles(s, i, {}, Silence(s))
    BY <1>1, <1>2, <2>1, ChannelsKept, HandlesSilently
  <2>3. QED
    BY <1>2, <2>2, ChannelsKept
<1>3. CASE Say(s, i, Clip(inbox[s][i].text), inbox[s][i].id)
  BY <1>1, <1>3, SaidTexts, SayHandles
<1>4. QED
  BY <1>1, <1>2, <1>3

LEMMA ReceiveHandles ==
  ASSUME TypeOK, CountsAgree, Placed, NEW s \in Server, Receive(s)
  PROVE  /\ \E i, D, e : Handles(s, i, D, e)
         /\ \/ RecvSay(s) \/ RecvS2SSay(s)
            \/ \E i, D, e : Handles(s, i, D, e) /\ Quiet(e)
  BY LoginHandles, LogoutHandles, JoinExistingHandles, JoinNewHandles, LeaveHandles,
     S2SLeaveHandles, SayRequestHandles, S2SSayHandles, QueryHandles DEF Receive

----------------------------------------------------------------------------
\* What is in flight after a step was there before or has just been sent.
LEMMA TurnSends ==
  ASSUME NetTypeOK, NEW s \in Server, NEW i \in DOMAIN inbox[s], NEW D, NEW e \in Datagram,
         inbox' = SendAll(After(s, i), D, e), NEW r \in Server, NEW d
  PROVE  /\ InFlight(r, d)' \in Nat
         /\ InFlight(r, d)' <= InFlight(r, d) + (IF r \in D /\ e = d THEN 1 ELSE 0)
         /\ InFlight(r, d)' > 0 => InFlight(r, d) > 0 \/ (r \in D /\ e = d)
<1> DEFINE taken == IF r = s /\ inbox[s][i] = d THEN 1 ELSE 0
           sent == IF r \in D /\ e = d THEN 1 ELSE 0
<1>1. InFlight(r, d)' = InFlight(r, d) - taken + sent
  BY InFlightTurn
<1>2. InFlight(r, d) \in Nat /\ (r = s /\ inbox[s][i] = d => InFlight(r, d) > 0)
  BY InFlightType
<1>3. taken \in {0, 1} /\ sent \in {0, 1} /\ taken <= InFlight(r, d)
  BY <1>2
<1>4. sent = 1 => r \in D /\ e = d
  OBVIOUS
<1> HIDE DEF taken, sent
<1>5. InFlight(r, d)' \in Nat /\ InFlight(r, d)' <= InFlight(r, d) + sent
  BY <1>1, <1>2, <1>3
<1>6. InFlight(r, d)' > 0 => InFlight(r, d) > 0 \/ sent = 1
  BY <1>1, <1>2, <1>3
<1>7. QED
  BY <1>4, <1>5, <1>6 DEF sent

LEMMA OnlySends ==
  ASSUME NetTypeOK, NEW D, NEW e \in Datagram, inbox' = SendAll(inbox, D, e),
         NEW r \in Server, NEW d
  PROVE  /\ InFlight(r, d)' \in Nat
         /\ InFlight(r, d)' <= InFlight(r, d) + (IF r \in D /\ e = d THEN 1 ELSE 0)
         /\ InFlight(r, d)' > 0 => InFlight(r, d) > 0 \/ (r \in D /\ e = d)
<1> DEFINE sent == IF r \in D /\ e = d THEN 1 ELSE 0
<1>1. InFlight(r, d)' = InFlight(r, d) + sent
  BY InFlightSent
<1>2. InFlight(r, d) \in Nat /\ sent \in {0, 1} /\ (sent = 1 => r \in D /\ e = d)
  BY InFlightType
<1> HIDE DEF sent
<1>3. InFlight(r, d)' \in Nat /\ InFlight(r, d)' <= InFlight(r, d) + sent
      /\ (InFlight(r, d)' > 0 => InFlight(r, d) > 0 \/ sent = 1)
  BY <1>1, <1>2
<1>4. QED
  BY <1>2, <1>3 DEF sent

\* A step of the timer that sends joins sends them to partners.
LEMMA SweepSends ==
  ASSUME TypeOK, SweepInv, Placed, NEW s \in Server, SweepChannel(s)
  PROVE  \E D, e :
           /\ e \in Datagram /\ e.src = s /\ e.type = "REQ_JOIN" /\ D \subseteq Partners(s)
           /\ inbox' = SendAll(inbox, D, e)
           /\ UNCHANGED <<user_list, channel_list, ID_LIST, delivered, topic, said>>
<1>1. PICK x \in sweep[s] :
        Spread(inbox, channel_list[s][x].servers, [type |-> "REQ_JOIN", src |-> s, channel |-> x])
  BY DEF SweepChannel
<1> DEFINE D == channel_list[s][x].servers
           e == [type |-> "REQ_JOIN", src |-> s, channel |-> x]
<1>2. e \in Datagram /\ e.src = s /\ e.type = "REQ_JOIN"
  <2>1. x \in Channel
    BY DEF TypeOK, ServerTypeOK
  <2>2. QED
    BY <2>1, DatagramsSent DEF Node
<1>3. D \subseteq Partners(s)
  BY DEF Placed, FedBy, SweepInv
<1>4. inbox' = SendAll(inbox, D, e)
  BY <1>1 DEF Spread
<1>5. UNCHANGED <<user_list, channel_list, ID_LIST, delivered, topic, said>>
  BY DEF SweepChannel
<1> HIDE DEF D, e
<1>6. QED
  BY <1>2, <1>3, <1>4, <1>5

\* The network has no faults to offer: datagrams are only taken and sent.
LEMMA Faultless ==
  ASSUME MaxFaults = 0, TypeOK, NEW s \in Server
  PROVE  ~LoseDatagram(s) /\ ~DoubleDatagram(s)
<1>1. faults = 0
  BY DEF TypeOK, NetTypeOK
<1>2. QED
  BY <1>1 DEF LoseDatagram, DoubleDatagram

\* The kinds of steps the system takes then.
LEMMA RoomSteps ==
  ASSUME MaxFaults = 0, TypeOK, [Next]_vars
  PROVE  \/ \E s \in Server : Receive(s) /\ UNCHANGED clientVars
         \/ \E s \in Server : StartSweep(s) /\ UNCHANGED clientVars
         \/ \E s \in Server : SweepChannel(s) /\ UNCHANGED clientVars
         \/ \E c \in Client : ClientStep(c) /\ UNCHANGED serverVars
         \/ UNCHANGED vars
  BY Faultless DEF Next, ServerStep

LEMMA UsersPlaced ==
  ASSUME Placed, NEW d, UsersEffect(d), NEW r \in Server, NEW y \in Channel
  PROVE  Users(r, y)' \in Seq(Own(r))
<1>1. Users(r, y) \in Seq(Own(r))
  BY DEF Placed
<1>2. CASE Users(r, y)' = Users(r, y)
  BY <1>1, <1>2
<1>3. ASSUME NEW c \in Client, r = Home[c], Users(r, y)' = add_user(Users(r, y), c)
      PROVE  Users(r, y)' \in Seq(Own(r))
  <2>1. c \in Own(r)
    BY <1>3 DEF Own
  <2>2. QED
    BY <1>1, <1>3, <2>1, AddUserProperties
<1>4. ASSUME NEW name, Users(r, y)' = remove_user(Users(r, y), name)
      PROVE  Users(r, y)' \in Seq(Own(r))
  BY <1>1, <1>4, RemoveUserProperties
<1>5. CASE UsersKept
  BY <1>2, <1>5 DEF UsersKept, Users, Has
<1>6. CASE d.src \in Client /\ UsersEnter(d.src, d.channel)
  <2>1. Users(r, y)' = IF r = Home[d.src] /\ y = d.channel
                       THEN add_user(Users(r, y), d.src) ELSE Users(r, y)
    BY <1>6 DEF UsersEnter, Users, Has
  <2>2. QED
    BY <1>2, <1>3, <1>6, <2>1
<1>7. ASSUME NEW c, NEW X, UsersLeave(c, X)
      PROVE  Users(r, y)' \in Seq(Own(r))
  <2>1. Users(r, y)' = IF r = Home[c] /\ y \in X
                       THEN remove_user(Users(r, y), NameOf[c]) ELSE Users(r, y)
    BY <1>7 DEF UsersLeave, Users, Has
  <2>2. QED
    BY <1>2, <1>4, <2>1
<1>8. QED
  BY <1>5, <1>6, <1>7 DEF UsersEffect

\* Datagram e of server s goes to partners only, who are neighbours if they are
\* servers.
LEMMA SourcesPlaced ==
  ASSUME NeighboursMutual, Placed, NEW s \in Server, NEW D, D \subseteq Partners(s),
         NEW e, e.src = s, NEW r \in Server, NEW d \in Datagram,
         InFlight(r, d) > 0 \/ (r \in D /\ e = d)
  PROVE  d.src \in Partners(r)
<1>1. CASE InFlight(r, d) > 0
  BY <1>1 DEF Placed
<1>2. CASE r \in D /\ e = d
  <2>1. r \in Adjacent[s]
    BY <1>2, ProtocolAssumption DEF Partners, Own
  <2>2. QED
    BY <1>2, <2>1 DEF NeighboursMutual, Partners
<1>3. QED
  BY <1>1, <1>2

LEMMA PlacedStep ==
  ASSUME MaxFaults = 0, NeighboursMutual, TypeOK, CountsAgree, SweepInv, Placed, [Next]_vars
  PROVE  Placed'
<1>0. NetTypeOK
  BY DEF TypeOK
<1>1. ASSUME NEW s \in Server, Receive(s)
      PROVE  Placed'
  <2>1. PICK i, D, e : Handles(s, i, D, e)
    BY <1>1, ReceiveHandles
  <2>2. \A r \in Server : user_list'[r] \in Seq(Own(r)) /\ FedBy(channel_list'[r], Partners(r))
    BY <2>1 DEF Handles, Placed
  <2>3. ASSUME NEW r \in Server, NEW y \in Channel
        PROVE  Users(r, y)' \in Seq(Own(r))
    BY <2>1, UsersPlaced DEF Handles
  <2>4. ASSUME NEW r \in Server, NEW d \in Datagram, InFlight(r, d)' > 0
        PROVE  d.src \in Partners(r)
    <3>1. InFlight(r, d) > 0 \/ (r \in D /\ e = d)
      BY <1>0, <2>1, <2>4, TurnSends DEF Handles
    <3>2. QED
      BY <2>1, <3>1, SourcesPlaced DEF Handles
  <2>5. QED
    BY <2>2, <2>3, <2>4 DEF Placed, Users, Has, InFlight
<1>2. ASSUME UNCHANGED <<user_list, channel_list>>,
             \A r \in Server : \A d \in Datagram :
               InFlight(r, d)' > 0 => d.src \in Partners(r)
      PROVE  Placed'
  BY <1>2 DEF Placed, Users, Has, InFlight
<1>3. ASSUME NEW s \in Server, SweepChannel(s)
      PROVE  Placed'
  <2>1. PICK D, e :
           /\ e \in Datagram /\ e.src = s /\ D \subseteq Partners(s)
           /\ inbox' = SendAll(inbox, D, e)
           /\ UNCHANGED <<user_list, channel_list>>
    BY <1>3, SweepSends
  <2>2. ASSUME NEW r \in Server, NEW d \in Datagram, InFlight(r, d)' > 0
        PROVE  d.src \in Partners(r)
    <3>1. InFlight(r, d) > 0 \/ (r \in D /\ e = d)
      BY <1>0, <2>1, <2>2, OnlySends
    <3>2. QED
      BY <2>1, <3>1, SourcesPlaced
  <2>3. QED
    BY <1>2, <2>1, <2>2 DEF InFlight
<1>4. ASSUME NEW c \in Client, ClientStep(c), UNCHANGED serverVars
      PROVE  Placed'
  <2>1. UNCHANGED <<user_list, channel_list>>
    BY <1>4 DEF serverVars, serverState
  <2>2. CASE UNCHANGED inbox
    BY <1>2, <2>1, <2>2 DEF Placed, InFlight
  <2>3. ASSUME NEW e \in Datagram, e.src = c, inbox' = SendAll(inbox, {Home[c]}, e)
        PROVE  Placed'
    <3>1. ASSUME NEW r \in Server, NEW d \in Datagram, InFlight(r, d)' > 0
          PROVE  d.src \in Partners(r)
      <4>1. InFlight(r, d) > 0 \/ (r = Home[c] /\ e = d)
        BY <1>0, <2>3, <3>1, OnlySends
      <4>2. QED
        BY <2>3, <4>1 DEF Placed, Partners, Own
    <3>2. QED
      BY <1>2, <2>1, <3>1 DEF InFlight
  <2>4. QED
    BY <1>4, <2>2, <2>3, ClientSends DEF TypeOK, Request
<1>5. CASE UNCHANGED <<user_list, channel_list, inbox>>
  BY <1>2, <1>5 DEF Placed, InFlight
<1>6. QED
  BY <1>1, <1>3, <1>4, <1>5, RoomSteps
     DEF StartSweep, vars, netVars, serverVars, serverState

----------------------------------------------------------------------------
(***************************************************************************)
(* The entries of the users, and how many there can be.                    *)
(***************************************************************************)
\* add_user adds one entry.
LEMMA AddUserOccurrences ==
  ASSUME NEW S, NEW list \in Seq(S), NEW c \in S, NEW v
  PROVE  Occurrences(add_user(list, c), v) = Occurrences(list, v) + (IF c = v THEN 1 ELSE 0)
<1> DEFINE new == add_user(list, c)
           rest == RemoveAt(new, 1)
<1>1. Len(list) \in Nat /\ <<c>> \in Seq(S) /\ Len(<<c>>) = 1 /\ <<c>>[1] = c
  BY LenProperties
<1>2. /\ new \in Seq(S) /\ Len(new) = Len(list) + 1 /\ new[1] = c
      /\ \A j \in 1 .. Len(list) : new[j + 1] = list[j]
  <2>1. /\ new \in Seq(S) /\ Len(new) = 1 + Len(list)
        /\ \A j \in 1 .. 1 + Len(list) : new[j] = IF j <= 1 THEN <<c>>[j] ELSE list[j - 1]
    BY <1>1, ConcatProperties DEF add_user
  <2> HIDE DEF new
  <2>2. \A j \in 1 .. Len(list) : new[j + 1] = list[j]
    <3> TAKE j \in 1 .. Len(list)
    <3>1. j + 1 \in 1 .. 1 + Len(list) /\ ~(j + 1 <= 1) /\ (j + 1) - 1 = j
      BY <1>1
    <3>2. QED
      BY <2>1, <3>1
  <2>3. 1 \in 1 .. 1 + Len(list) /\ 1 <= 1
    BY <1>1
  <2>4. QED
    BY <1>1, <2>1, <2>2, <2>3
<1> HIDE DEF new
<1>3. 1 \in 1 .. Len(new)
  BY <1>1, <1>2
<1>4. rest = list
  <2>1. /\ rest \in Seq(S) /\ Len(rest) = Len(new) - 1
        /\ \A j \in 1 .. Len(new) - 1 : rest[j] = IF j < 1 THEN new[j] ELSE new[j + 1]
    BY <1>2, <1>3, RemoveAtProperties
  <2> HIDE DEF rest
  <2>2. Len(rest) = Len(list)
    BY <1>1, <1>2, <2>1
  <2>3. \A j \in 1 .. Len(rest) : rest[j] = list[j]
    BY <1>1, <1>2, <2>1, <2>2
  <2>4. QED
    BY <2>1, <2>2, <2>3, SeqEqual
<1>5. Occurrences(new, v) = Occurrences(rest, v) + (IF new[1] = v THEN 1 ELSE 0)
  <2>1. 1 \in DOMAIN new
    BY <1>2, <1>3, LenProperties
  <2>2. QED
    BY <1>2, <2>1, OccurrencesRemoved
<1>6. QED
  BY <1>2, <1>4, <1>5 DEF new

\* When names tell users apart, remove_user takes away one entry of the user
\* named, if he has one, and no entry of others.
LEMMA RemoveUserOccurrences ==
  ASSUME NamesDiffer, NEW list \in Seq(Client), NEW c \in Client, NEW v \in Client
  PROVE  Occurrences(remove_user(list, NameOf[c]), v) =
           Occurrences(list, v) - (IF v = c /\ Occurrences(list, c) > 0 THEN 1 ELSE 0)
<1> DEFINE rest == remove_user(list, NameOf[c])
<1>1. DOMAIN list = 1 .. Len(list) /\ Len(list) \in Nat /\ \A k \in DOMAIN list : list[k] \in Client
  BY LenProperties, ElementOfSeq
<1>2. \A k \in DOMAIN list : NameOf[list[k]] = NameOf[c] <=> list[k] = c
  BY <1>1 DEF NamesDiffer
<1>3. \A w : /\ Occurrences(list, w) \in Nat
             /\ Occurrences(list, w) = 0 <=> \A k \in DOMAIN list : list[k] # w
  BY OccurrencesBasics
<1>4. CASE Occurrences(list, c) = 0
  <2>1. \A k \in DOMAIN list : list[k] # c
    BY <1>3, <1>4
  <2>2. first_named(list, NameOf[c]) = {}
    BY <1>2, <2>1 DEF first_named
  <2>3. rest = list
    BY <2>2 DEF remove_user
  <2>4. (IF v = c /\ Occurrences(list, c) > 0 THEN 1 ELSE 0) = 0
    BY <1>4
  <2>5. Occurrences(list, v) \in Nat
    BY <1>3
  <2>6. QED
    BY <2>3, <2>4, <2>5
<1>5. CASE Occurrences(list, c) # 0
  <2> DEFINE its == {k \in DOMAIN list : list[k] = c}
             k == CHOOSE k \in first_named(list, NameOf[c]) : TRUE
  <2>1. PICK n \in its : \A j \in its : n <= j
    <3>1. its # {}
      BY <1>3, <1>5
    <3>2. its \in SUBSET Nat
      BY <1>1
    <3> HIDE DEF its
    <3>3. PICK n \in its : \A j \in its : ~(<<j, n>> \in OpToRel(<, Nat))
      BY <3>1, <3>2, NatLessThanWellFounded, WFMin
    <3>4. \A j \in its : ~(j < n)
      BY <3>2, <3>3 DEF OpToRel
    <3>5. QED
      BY <3>2, <3>4
  <2>2. n \in first_named(list, NameOf[c])
    BY <1>1, <1>2, <2>1 DEF first_named
  <2>3. k \in DOMAIN list /\ list[k] = c
    BY <1>1, <1>2, <2>2 DEF first_named
  <2>4. rest = RemoveAt(list, k)
    BY <2>2 DEF remove_user
  <2> HIDE DEF k
  <2>5. /\ Occurrences(RemoveAt(list, k), v) \in Nat
        /\ Occurrences(list, v) = Occurrences(RemoveAt(list, k), v) + (IF list[k] = v THEN 1 ELSE 0)
    BY <2>3, OccurrencesRemoved
  <2>6. Occurrences(list, c) > 0
    BY <1>3, <1>5
  <2>7. (IF v = c /\ Occurrences(list, c) > 0 THEN 1 ELSE 0) = (IF list[k] = v THEN 1 ELSE 0)
    BY <2>3, <2>6
  <2>8. (IF list[k] = v THEN 1 ELSE 0) \in {0, 1}
    OBVIOUS
  <2> HIDE DEF rest
  <2>9. Occurrences(rest, v) = Occurrences(list, v) - (IF list[k] = v THEN 1 ELSE 0)
    BY <2>4, <2>5, <2>8
  <2>10. QED
    BY <2>7, <2>9 DEF rest
<1>6. QED
  BY <1>4, <1>5

LEMMA EntriesAre ==
  ASSUME Placed, NEW x \in Channel, NEW c \in Client
  PROVE  /\ Entries(x, c) = Occurrences(Users(Home[c], x), c)
         /\ Entries(x, c) \in Nat
         /\ Users(Home[c], x) \in Seq(Client)
<1>1. Home[c] \in Server
  BY ProtocolAssumption
<1>2. Users(Home[c], x) \in Seq(Own(Home[c]))
  BY <1>1 DEF Placed
<1>3. Users(Home[c], x) \in Seq(Client)
  <2>1. Own(Home[c]) \subseteq Client
    BY DEF Own
  <2>2. QED
    BY <1>2, <2>1
<1>4. Occurrences(<<>>, c) = 0
  <2>1. <<>> \in Seq(Client) /\ DOMAIN <<>> = {}
    OBVIOUS
  <2>2. QED
    BY <2>1, OccurrencesBasics
<1>5. Occurrences(Users(Home[c], x), c) \in Nat
  BY <1>3, OccurrencesBasics
<1>6. QED
  BY <1>3, <1>4, <1>5 DEF Entries, Users

\* What becomes of the entries: c has one more in x, or one less in each
\* channel of X, where he has one.
EntersRoom(c, x) ==
  \A y \in Channel, b \in Client :
    Entries(y, b)' = Entries(y, b) + (IF y = x /\ b = c THEN 1 ELSE 0)
LeavesRoom(c, X) ==
  /\ \A x \in X : Entries(x, c) > 0
  /\ \A y \in Channel, b \in Client :
       Entries(y, b)' = Entries(y, b) - (IF y \in X /\ b = c THEN 1 ELSE 0)

\* The same for the entries as the step of the abstract specification has it.
LEMMA EntriesAfter ==
  ASSUME Placed, NEW d, UsersEffect(d), NEW x \in Channel, NEW c \in Client
  PROVE  /\ Entries(x, c)' = Occurrences(Users(Home[c], x)', c)
         /\ Entries(x, c)' \in Nat
<1>1. Home[c] \in Server
  BY ProtocolAssumption
<1>2. Users(Home[c], x)' \in Seq(Own(Home[c]))
  BY <1>1, UsersPlaced
<1>3. Occurrences(Users(Home[c], x)', c) \in Nat
  BY <1>2, OccurrencesBasics
<1>4. Occurrences(<<>>, c) = 0
  <2>1. <<>> \in Seq(Client) /\ DOMAIN <<>> = {}
    OBVIOUS
  <2>2. QED
    BY <2>1, OccurrencesBasics
<1>5. QED
  BY <1>3, <1>4 DEF Entries, Users, Has

LEMMA EntriesKept ==
  ASSUME Placed, UsersKept, NEW x \in Channel, NEW c \in Client
  PROVE  Entries(x, c)' = Entries(x, c)
<1>1. Home[c] \in Server
  BY ProtocolAssumption
<1>2. Users(Home[c], x)' = Users(Home[c], x)
  BY <1>1 DEF UsersKept, Users, Has
<1>3. UsersEffect([type |-> "S2S_LEAVE", src |-> c])
  BY DEF UsersEffect
<1>4. QED
  BY <1>2, <1>3, EntriesAre, EntriesAfter

LEMMA EntriesEntered ==
  ASSUME Placed, NEW c \in Client, NEW x \in Channel, UsersEnter(c, x)
  PROVE  EntersRoom(c, x)
<1> SUFFICES ASSUME NEW y \in Channel, NEW b \in Client
             PROVE  Entries(y, b)' = Entries(y, b) + (IF y = x /\ b = c THEN 1 ELSE 0)
  BY DEF EntersRoom, Entries, Has
<1> DEFINE r == Home[b]
           d == [type |-> "REQ_JOIN", src |-> c, channel |-> x]
<1>1. r \in Server
  BY ProtocolAssumption
<1>2. Users(r, y)' = IF r = Home[c] /\ y = x THEN add_user(Users(r, y), c) ELSE Users(r, y)
  BY <1>1 DEF UsersEnter, Users, Has
<1>3. UsersEffect(d)
  BY DEF UsersEffect
<1>4. /\ Entries(y, b)' = Occurrences(Users(r, y)', b) /\ Users(r, y) \in Seq(Client)
      /\ Entries(y, b) = Occurrences(Users(r, y), b) /\ Entries(y, b) \in Nat
  BY <1>3, EntriesAre, EntriesAfter
<1>5. CASE r = Home[c] /\ y = x
  <2>1. Occurrences(add_user(Users(r, y), c), b) =
          Occurrences(Users(r, y), b) + (IF c = b THEN 1 ELSE 0)
    BY <1>4, AddUserOccurrences
  <2>2. (IF c = b THEN 1 ELSE 0) = (IF y = x /\ b = c THEN 1 ELSE 0)
    BY <1>5
  <2>3. Users(r, y)' = add_user(Users(r, y), c)
    BY <1>2, <1>5
  <2>4. QED
    BY <1>4, <2>1, <2>2, <2>3
<1>6. CASE ~(r = Home[c] /\ y = x)
  <2>1. (IF y = x /\ b = c THEN 1 ELSE 0) = 0
    BY <1>6
  <2>2. Users(r, y)' = Users(r, y)
    BY <1>2, <1>6
  <2>3. QED
    BY <1>4, <2>1, <2>2
<1>7. QED
  BY <1>5, <1>6

LEMMA EntriesLeft ==
  ASSUME NamesDiffer, Placed, NEW c \in Client, NEW X \in SUBSET Channel, UsersLeave(c, X)
  PROVE  LeavesRoom(c, {x \in X : Entries(x, c) > 0})
<1> SUFFICES ASSUME NEW y \in Channel, NEW b \in Client
             PROVE  Entries(y, b)' = Entries(y, b)
                      - (IF y \in {x \in X : Entries(x, c) > 0} /\ b = c THEN 1 ELSE 0)
  BY DEF LeavesRoom, Entries, Has
<1> DEFINE r == Home[b]
<1>1. r \in Server
  BY ProtocolAssumption
<1>2. Users(r, y)' = IF r = Home[c] /\ y \in X THEN remove_user(Users(r, y), NameOf[c])
                     ELSE Users(r, y)
  BY <1>1 DEF UsersLeave, Users, Has
<1>3. UsersEffect([type |-> "REQ_LEAVE", src |-> c])
  BY DEF UsersEffect
<1>4. /\ Entries(y, b)' = Occurrences(Users(r, y)', b) /\ Users(r, y) \in Seq(Client)
      /\ Entries(y, b) = Occurrences(Users(r, y), b) /\ Entries(y, b) \in Nat
  BY <1>3, EntriesAre, EntriesAfter
<1>5. CASE r = Home[c] /\ y \in X
  <2>1. Occurrences(remove_user(Users(r, y), NameOf[c]), b) =
          Occurrences(Users(r, y), b)
            - (IF b = c /\ Occurrences(Users(r, y), c) > 0 THEN 1 ELSE 0)
    BY <1>4, RemoveUserOccurrences
  <2>2. (IF b = c /\ Occurrences(Users(r, y), c) > 0 THEN 1 ELSE 0)
           = (IF y \in {x \in X : Entries(x, c) > 0} /\ b = c THEN 1 ELSE 0)
    <3>1. CASE b = c
      <4>1. Entries(y, c) = Occurrences(Users(r, y), c)
        BY <1>4, <3>1
      <4>2. QED
        BY <1>5, <3>1, <4>1
    <3>2. CASE b # c
      BY <3>2
    <3>3. QED
      BY <3>1, <3>2
  <2>3. Users(r, y)' = remove_user(Users(r, y), NameOf[c])
    BY <1>2, <1>5
  <2>4. QED
    BY <1>4, <2>1, <2>2, <2>3
<1>6. CASE ~(r = Home[c] /\ y \in X)
  <2>1. (IF y \in {x \in X : Entries(x, c) > 0} /\ b = c THEN 1 ELSE 0) = 0
    BY <1>6
  <2>2. Users(r, y)' = Users(r, y)
    BY <1>2, <1>6
  <2>3. QED
    BY <1>4, <2>1, <2>2
<1>7. QED
  BY <1>5, <1>6

----------------------------------------------------------------------------
\* A user has no more entries in a channel than he sent joins.
JoinOf(c, x) == [type |-> "REQ_JOIN", src |-> c, channel |-> x]
JoinsSentBy(c) == typed + (IF phase[c] \in {"online", "exited"} THEN 1 ELSE 0)
Bounded ==
  \A c \in Client, x \in Channel :
    Entries(x, c) + InFlight(Home[c], JoinOf(c, x)) <= JoinsSentBy(c)

LEMMA ClientJoins ==
  ASSUME TypeOK, NEW c \in Client, ClientStep(c)
  PROVE  /\ \A b \in Client : /\ JoinsSentBy(b) \in Nat /\ JoinsSentBy(b)' \in Nat
                              /\ JoinsSentBy(b)' >= JoinsSentBy(b)
         /\ \/ UNCHANGED inbox
            \/ \E d \in Datagram :
                 /\ d.src = c /\ inbox' = SendAll(inbox, {Home[c]}, d)
                 /\ d.type = "REQ_JOIN" => JoinsSentBy(c)' >= JoinsSentBy(c) + 1
<1>0. typed \in Nat /\ phase \in [Client -> {"off", "login", "online", "exited"}]
      /\ active \in [Client -> Channel \cup {NoChannel}]
  BY DEF TypeOK, ClientTypeOK
<1>1. ASSUME typed' = typed \/ typed' = typed + 1,
             \A b \in Client : \/ phase'[b] = phase[b]
                               \/ phase[b] \in {"off", "login"}
                               \/ phase[b] = "online" /\ phase'[b] = "exited"
      PROVE  \A b \in Client : /\ JoinsSentBy(b) \in Nat /\ JoinsSentBy(b)' \in Nat
                               /\ JoinsSentBy(b)' >= JoinsSentBy(b)
  BY <1>0, <1>1 DEF JoinsSentBy
<1>2. ASSUME NEW command, Typed(c, command), phase' = phase
      PROVE  JoinsSentBy(c)' >= JoinsSentBy(c) + 1
  BY <1>0, <1>2 DEF Typed, JoinsSentBy
<1>3. CASE Login(c)
  <2>1. LoginOf(c) \in Datagram /\ LoginOf(c).src = c /\ LoginOf(c).type # "REQ_JOIN"
    BY DatagramsSent DEF LoginOf
  <2>2. inbox' = SendAll(inbox, {Home[c]}, LoginOf(c))
    BY <1>3 DEF Login, Request, LoginOf
  <2>3. typed' = typed /\ phase[c] = "off" /\ \A b \in Client \ {c} : phase'[b] = phase[b]
    BY <1>0, <1>3 DEF Login
  <2>4. QED
    BY <1>1, <2>1, <2>2, <2>3
<1>4. CASE JoinCommon(c)
  <2>1. JoinOf(c, Common) \in Datagram /\ JoinOf(c, Common).src = c
    BY DatagramsSent, ProtocolAssumption DEF JoinOf, Node
  <2>2. inbox' = SendAll(inbox, {Home[c]}, JoinOf(c, Common))
    BY <1>4 DEF JoinCommon, Request, JoinOf
  <2>3. /\ typed' = typed /\ phase[c] = "login" /\ phase'[c] = "online"
        /\ \A b \in Client \ {c} : phase'[b] = phase[b]
    BY <1>0, <1>4 DEF JoinCommon
  <2>4. JoinsSentBy(c)' >= JoinsSentBy(c) + 1
    BY <1>0, <2>3 DEF JoinsSentBy
  <2>5. QED
    BY <1>1, <2>1, <2>2, <2>3, <2>4
<1>5. ASSUME NEW command, Typed(c, command), phase' = phase, NEW d \in Datagram,
             d.src = c, Request(c, d)
      PROVE  /\ \A b \in Client : /\ JoinsSentBy(b) \in Nat /\ JoinsSentBy(b)' \in Nat
                                  /\ JoinsSentBy(b)' >= JoinsSentBy(b)
             /\ \E e \in Datagram :
                  /\ e.src = c /\ inbox' = SendAll(inbox, {Home[c]}, e)
                  /\ e.type = "REQ_JOIN" => JoinsSentBy(c)' >= JoinsSentBy(c) + 1
  <2>1. typed' = typed + 1
    BY <1>5 DEF Typed
  <2>2. \A b \in Client : /\ JoinsSentBy(b) \in Nat /\ JoinsSentBy(b)' \in Nat
                          /\ JoinsSentBy(b)' >= JoinsSentBy(b)
    BY <1>1, <1>5, <2>1
  <2>3. JoinsSentBy(c)' >= JoinsSentBy(c) + 1
    BY <1>2, <1>5
  <2>4. inbox' = SendAll(inbox, {Home[c]}, d)
    BY <1>5 DEF Request
  <2>5. QED
    BY <1>5, <2>2, <2>3, <2>4
<1>6. CASE TypeJoin(c)
  <2>1. PICK x \in Channel : Request(c, JoinOf(c, x))
    BY <1>6 DEF TypeJoin, JoinOf
  <2>2. JoinOf(c, x) \in Datagram /\ JoinOf(c, x).src = c
    BY DatagramsSent DEF JoinOf, Node
  <2>3. QED
    BY <1>5, <1>6, <2>1, <2>2 DEF TypeJoin
<1>7. CASE TypeLeave(c)
  <2>1. PICK x \in Channel : Request(c, [type |-> "REQ_LEAVE", src |-> c, channel |-> x])
    BY <1>7 DEF TypeLeave
  <2>2. QED
    BY <1>5, <1>7, <2>1, DatagramsSent DEF TypeLeave
<1>8. CASE TypeSwitch(c)
  <2>1. typed' = typed + 1 /\ UNCHANGED <<phase, inbox>>
    BY <1>8 DEF TypeSwitch, Typed
  <2>2. QED
    BY <1>1, <2>1
<1>9. CASE TypeText(c)
  <2> DEFINE d == [type |-> "REQ_SAY", src |-> c, channel |-> active[c],
                   text |-> [msg |-> says + 1, whole |-> TRUE]]
  <2>1. active[c] \in Channel /\ [msg |-> says + 1, whole |-> TRUE] \in Text
    BY <1>0, <1>9, ProtocolAssumption DEF TypeText, TypeOK, ClientTypeOK, Text, Message
  <2>2. d \in Datagram /\ d.src = c
    BY <2>1, DatagramsSent
  <2>3. QED
    BY <1>5, <1>9, <2>2 DEF TypeText
<1>10. CASE TypeList(c)
  BY <1>5, <1>10, DatagramsSent DEF TypeList
<1>11. CASE TypeWho(c)
  <2>1. PICK x \in Channel : Request(c, [type |-> "REQ_WHO", src |-> c, channel |-> x])
    BY <1>11 DEF TypeWho
  <2>2. QED
    BY <1>5, <1>11, <2>1, DatagramsSent DEF TypeWho
<1>12. CASE TypeExit(c)
  <2>1. LogoutOf(c) \in Datagram /\ LogoutOf(c).src = c /\ LogoutOf(c).type # "REQ_JOIN"
    BY DatagramsSent DEF LogoutOf
  <2>2. inbox' = SendAll(inbox, {Home[c]}, LogoutOf(c))
    BY <1>12 DEF TypeExit, Request, LogoutOf
  <2>3. /\ typed' = typed + 1 /\ phase[c] = "online" /\ phase'[c] = "exited"
        /\ \A b \in Client \ {c} : phase'[b] = phase[b]
    BY <1>0, <1>12 DEF TypeExit, Typed
  <2>4. QED
    BY <1>1, <2>1, <2>2, <2>3
<1>13. QED
  BY <1>3, <1>4, <1>6, <1>7, <1>8, <1>9, <1>10, <1>11, <1>12 DEF ClientStep

\* A server never sends a join in the name of a user; a join it takes adds at
\* most the entry it asked for.
LEMMA TurnBounded ==
  ASSUME NamesDiffer, TypeOK, Placed, NEW s \in Server, NEW i, NEW D, NEW e, Handles(s, i, D, e),
         NEW c \in Client, NEW x \in Channel
  PROVE  /\ Entries(x, c)' \in Nat /\ InFlight(Home[c], JoinOf(c, x))' \in Nat
         /\ Entries(x, c)' + InFlight(Home[c], JoinOf(c, x))'
              <= Entries(x, c) + InFlight(Home[c], JoinOf(c, x))
<1> DEFINE d == inbox[s][i]
           j == JoinOf(c, x)
           r == Home[c]
           taken == IF r = s /\ d = j THEN 1 ELSE 0
<1>1. r \in Server /\ i \in DOMAIN inbox[s] /\ e \in Datagram /\ NetTypeOK /\ UsersEffect(d)
  BY ProtocolAssumption DEF Handles, TypeOK
<1>2. InFlight(r, j)' = InFlight(r, j) - taken /\ InFlight(r, j)' \in Nat
  <2>1. InFlight(r, j)' = InFlight(r, j) - taken + (IF r \in D /\ e = j THEN 1 ELSE 0)
    BY <1>1, InFlightTurn DEF Handles
  <2>2. (IF r \in D /\ e = j THEN 1 ELSE 0) = 0
    BY ProtocolAssumption DEF Handles, JoinOf
  <2>3. InFlight(r, j)' \in Nat /\ InFlight(r, j) \in Nat /\ taken \in {0, 1}
    BY <1>1, TurnSends, InFlightType DEF Handles
  <2> HIDE DEF taken
  <2>4. QED
    BY <2>1, <2>2, <2>3
<1>3. Entries(x, c) \in Nat /\ Entries(x, c)' \in Nat /\ taken \in {0, 1} /\ InFlight(r, j) \in Nat
  BY <1>1, EntriesAre, EntriesAfter, InFlightType
<1>4. CASE UsersKept
  <2>1. Entries(x, c)' = Entries(x, c)
    BY <1>4, EntriesKept
  <2> HIDE DEF taken
  <2>2. QED
    BY <1>2, <1>3, <2>1
<1>5. CASE d.type = "REQ_JOIN" /\ d.src \in Client /\ UsersEnter(d.src, d.channel)
  <2>1. d \in Datagram /\ d.channel \in Channel
    BY <1>1, <1>5, QueueElements, DatagramFields
  <2>2. d = JoinOf(d.src, d.channel)
    BY <1>5, <2>1 DEF Datagram, LoginRequest, LogoutRequest, JoinRequest, LeaveRequest,
       SayRequest, ListRequest, WhoRequest, S2SSay, S2SLeave, JoinOf
  <2>3. Home[d.src] = s
    <3>1. InFlight(s, d) > 0
      BY <1>1, InFlightType
    <3>2. d.src \in Partners(s)
      BY <2>1, <3>1 DEF Placed
    <3>3. QED
      BY <1>5, <3>2, ServerAssumption, ProtocolAssumption DEF Partners, Own
  <2>4. EntersRoom(d.src, d.channel)
    BY <1>5, <2>1, EntriesEntered
  <2>5. Entries(x, c)' = Entries(x, c) + (IF x = d.channel /\ c = d.src THEN 1 ELSE 0)
    BY <2>4 DEF EntersRoom, Entries, Has
  <2>6. (IF x = d.channel /\ c = d.src THEN 1 ELSE 0) = taken
    <3>1. CASE x = d.channel /\ c = d.src
      BY <2>2, <2>3, <3>1
    <3>2. CASE ~(x = d.channel /\ c = d.src)
      <4>1. d # j
        BY <3>2 DEF JoinOf
      <4>2. QED
        BY <3>2, <4>1
    <3>3. QED
      BY <3>1, <3>2
  <2> HIDE DEF taken
  <2>7. QED
    BY <1>2, <1>3, <2>5, <2>6
<1>6. ASSUME d.src \in Client, NEW X \in SUBSET Channel, UsersLeave(d.src, X)
      PROVE  Entries(x, c)' + InFlight(r, j)' <= Entries(x, c) + InFlight(r, j)
  <2> DEFINE Y == {y \in X : Entries(y, d.src) > 0}
             gone == IF x \in Y /\ c = d.src THEN 1 ELSE 0
  <2>1. LeavesRoom(d.src, Y)
    BY <1>6, EntriesLeft
  <2>2. Entries(x, c)' = Entries(x, c) - gone
    BY <2>1 DEF LeavesRoom, Entries, Has
  <2>3. gone \in {0, 1}
    OBVIOUS
  <2> HIDE DEF taken, gone
  <2>4. QED
    BY <1>2, <1>3, <2>2, <2>3
<1>7. Entries(x, c)' + InFlight(r, j)' <= Entries(x, c) + InFlight(r, j)
  BY <1>1, <1>4, <1>5, <1>6 DEF UsersEffect
<1>8. QED
  BY <1>2, <1>3, <1>7

LEMMA BoundedStep ==
  ASSUME MaxFaults = 0, NamesDiffer, TypeOK, CountsAgree, SweepInv, Placed, Bounded, [Next]_vars
  PROVE  Bounded'
<1> SUFFICES ASSUME NEW c \in Client, NEW x \in Channel
             PROVE  Entries(x, c)' + InFlight(Home[c], JoinOf(c, x))' <= JoinsSentBy(c)'
  BY DEF Bounded, Entries, Has, InFlight, JoinOf, JoinsSentBy
<1> DEFINE j == JoinOf(c, x)
           r == Home[c]
<1>1. r \in Server /\ NetTypeOK
  BY ProtocolAssumption DEF TypeOK
<1>2. /\ Entries(x, c) + InFlight(r, j) <= JoinsSentBy(c)
      /\ Entries(x, c) \in Nat /\ InFlight(r, j) \in Nat /\ JoinsSentBy(c) \in Nat
  BY <1>1, EntriesAre, InFlightType DEF Bounded, JoinsSentBy, TypeOK, ClientTypeOK
<1>3. ASSUME NEW s \in Server, Receive(s), UNCHANGED clientVars
      PROVE  Entries(x, c)' + InFlight(r, j)' <= JoinsSentBy(c)'
  <2>1. PICK i, D, e : Handles(s, i, D, e)
    BY <1>3, ReceiveHandles
  <2>2. /\ Entries(x, c)' \in Nat /\ InFlight(r, j)' \in Nat
        /\ Entries(x, c)' + InFlight(r, j)' <= Entries(x, c) + InFlight(r, j)
    BY <2>1, TurnBounded
  <2>3. JoinsSentBy(c)' = JoinsSentBy(c)
    BY <1>3 DEF clientVars, JoinsSentBy
  <2>4. QED
    BY <1>2, <2>2, <2>3
<1>4. ASSUME UNCHANGED channel_list, InFlight(r, j)' = InFlight(r, j), UNCHANGED clientVars
      PROVE  Entries(x, c)' + InFlight(r, j)' <= JoinsSentBy(c)'
  <2>1. Entries(x, c)' = Entries(x, c) /\ JoinsSentBy(c)' = JoinsSentBy(c)
    BY <1>4 DEF clientVars, JoinsSentBy, Entries, Has
  <2>2. QED
    BY <1>2, <1>4, <2>1
<1>5. ASSUME NEW s \in Server, SweepChannel(s), UNCHANGED clientVars
      PROVE  Entries(x, c)' + InFlight(r, j)' <= JoinsSentBy(c)'
  <2>1. PICK D, e : /\ e \in Datagram /\ e.src = s
                    /\ inbox' = SendAll(inbox, D, e) /\ UNCHANGED channel_list
    BY <1>5, SweepSends
  <2>2. InFlight(r, j)' = InFlight(r, j) + (IF r \in D /\ e = j THEN 1 ELSE 0)
    BY <1>1, <2>1, InFlightSent
  <2>3. (IF r \in D /\ e = j THEN 1 ELSE 0) = 0
    BY <2>1, ProtocolAssumption DEF JoinOf
  <2>4. InFlight(r, j)' = InFlight(r, j)
    BY <1>2, <2>2, <2>3
  <2>5. QED
    BY <1>4, <1>5, <2>1, <2>4
<1>6. ASSUME NEW b \in Client, ClientStep(b), UNCHANGED serverVars
      PROVE  Entries(x, c)' + InFlight(r, j)' <= JoinsSentBy(c)'
  <2>1. Entries(x, c)' = Entries(x, c)
    BY <1>6 DEF serverVars, serverState, Entries, Has
  <2>2. JoinsSentBy(c)' \in Nat /\ JoinsSentBy(c)' >= JoinsSentBy(c)
    BY <1>6, ClientJoins
  <2>3. CASE UNCHANGED inbox
    <3>1. InFlight(r, j)' = InFlight(r, j)
      BY <2>3 DEF InFlight
    <3>2. QED
      BY <1>2, <2>1, <2>2, <3>1
  <2>4. ASSUME NEW d \in Datagram, d.src = b, inbox' = SendAll(inbox, {Home[b]}, d),
               d.type = "REQ_JOIN" => JoinsSentBy(b)' >= JoinsSentBy(b) + 1
        PROVE  Entries(x, c)' + InFlight(r, j)' <= JoinsSentBy(c)'
    <3> DEFINE sent == IF r \in {Home[b]} /\ d = j THEN 1 ELSE 0
    <3>1. InFlight(r, j)' = InFlight(r, j) + sent
      BY <1>1, <2>4, InFlightSent
    <3>2. sent \in {0, 1} /\ (sent = 1 => JoinsSentBy(c)' >= JoinsSentBy(c) + 1)
      BY <2>4 DEF JoinOf
    <3> HIDE DEF sent
    <3>3. QED
      BY <1>2, <2>1, <2>2, <3>1, <3>2
  <2>5. QED
    BY <1>6, <2>3, <2>4, ClientJoins
<1>7. ASSUME UNCHANGED <<channel_list, inbox, clientVars>>
      PROVE  Entries(x, c)' + InFlight(r, j)' <= JoinsSentBy(c)'
  BY <1>4, <1>7 DEF InFlight
<1>8. QED
  BY <1>3, <1>5, <1>6, <1>7, RoomSteps
     DEF StartSweep, vars, netVars, serverVars, serverState

----------------------------------------------------------------------------
(***************************************************************************)
(* What becomes of a message: it is taken from its author once, flooded    *)
(* away from the author's server, and handed to the users of each server   *)
(* once.                                                                   *)
(***************************************************************************)
\* Toward[o][s]: the neighbour of s on the way to server o.
Toward ==
  CHOOSE toward \in [Server -> [Server -> Server]] :
    \A o, s \in Server :
      /\ toward[o][o] = o
      /\ s \notin Adjacent[s]
      /\ \A r \in Adjacent[s] : toward[o][s] = r <=> toward[o][r] # s

LEMMA TowardIs ==
  ASSUME Acyclic(Adjacent)
  PROVE  \A o, s \in Server :
           /\ Toward[o][o] = o
           /\ s \notin Adjacent[s]
           /\ \A r \in Adjacent[s] : Toward[o][s] = r <=> Toward[o][r] # s
<1>1. DOMAIN Adjacent = Server
  BY ServerAssumption
<1> DEFINE Guides(toward) ==
             \A o, s \in Server :
               /\ toward[o][o] = o
               /\ s \notin Adjacent[s]
               /\ \A r \in Adjacent[s] : toward[o][s] = r <=> toward[o][r] # s
<1>2. PICK toward \in [Server -> [Server -> Server]] : Guides(toward)
  BY <1>1 DEF Acyclic
<1>3. Toward = CHOOSE f \in [Server -> [Server -> Server]] : Guides(f)
  BY DEF Toward
<1>4. Guides(Toward)
  <2> HIDE DEF Guides
  <2>1. QED
    BY <1>2, <1>3
<1>5. QED
  BY <1>4

HasSaid(s, id) == said[s][id] > 0

\* What was typed and not yet heard.
FreshSays ==
  /\ \A s \in Server, d \in Datagram :
       d.type = "REQ_SAY" /\ InFlight(s, d) > 0 =>
         /\ InFlight(s, d) <= 1
         /\ d.text.msg <= says /\ d.text.whole /\ topic[d.text.msg] = NoChannel
         /\ \A r \in Server, e \in Datagram :
              e.type = "REQ_SAY" /\ InFlight(r, e) > 0 /\ e.text.msg = d.text.msg
                => r = s /\ e = d
  /\ \A m \in Message : m > says => topic[m] = NoChannel

\* One server draws one identifier for a message.
OneOrigin ==
  \A m \in Message :
    /\ topic[m] = NoChannel => \A s \in Server, id \in Draws[m] : ~HasSaid(s, id)
    /\ \A s, r \in Server, id, jd \in Draws[m] :
         HasSaid(s, id) /\ HasSaid(r, jd) => s = r /\ id = jd

\* A message in flight comes from the direction of the server that drew its
\* identifier, and only other servers enter the identifier in their lists.
Flooding ==
  /\ \A s \in Server, d \in Datagram :
       d.type = "S2S_SAY" /\ InFlight(s, d) > 0 =>
         /\ d.id \in Draws[d.text.msg] /\ d.channel = topic[d.text.msg]
         /\ \E o \in Server : HasSaid(o, d.id) /\ Toward[o][s] = d.src
  /\ \A s \in Server, id \in Id : SeenBefore(s, id) => \E o \in Server \ {s} : HasSaid(o, id)

\* Users are sent what their server was said or was passed on; clipped, only what
\* it was passed on.
Handed ==
  \A m \in Message, c \in Client :
    /\ CopiesSent(m, c) > 0 =>
         \E id \in Draws[m] : SeenBefore(Home[c], id) \/ HasSaid(Home[c], id)
    /\ delivered[c][[msg |-> m, whole |-> FALSE]] > 0 =>
         \E id \in Draws[m] : SeenBefore(Home[c], id)

MessageInv == FreshSays /\ OneOrigin /\ Flooding /\ Handed

\* The users of server s are sent text t, once for each entry in channel x.
Delivers(s, x, t) ==
  \A c \in Client, u \in Text :
    delivered'[c][u] = IF u = t /\ Home[c] = s THEN Copies(delivered[c][u] + Entries(x, c))
                       ELSE delivered[c][u]

LEMMA SayEffect ==
  ASSUME TypeOK, Placed, NEW s \in Server, NEW type \in {"REQ_SAY", "S2S_SAY"},
         NEW i \in Incoming(s, type), NEW t \in Text, NEW id \in Id, Say(s, i, t, id)
  PROVE  /\ \E D, e :
              /\ inbox' = SendAll(After(s, i), D, e)
              /\ e \in Datagram /\ e.src = s /\ D \subseteq Partners(s)
              /\ \/ e.type = "S2S_LEAVE"
                 \/ /\ e = [type |-> "S2S_SAY", src |-> s, channel |-> inbox[s][i].channel,
                            text |-> t, id |-> id]
                    /\ inbox[s][i].src \notin D
         /\ UNCHANGED delivered \/ Delivers(s, inbox[s][i].channel, t)
<1> DEFINE d == inbox[s][i]
           x == d.channel
           ch == channel_list[s][x]
<1>1. i \in DOMAIN inbox[s] /\ d.src \in Partners(s) /\ x \in Channel
  BY Heard, DatagramFields
<1>2. CASE inbox' = After(s, i) /\ UNCHANGED delivered
  <2>1. inbox' = SendAll(After(s, i), {}, Silence(s))
    BY <1>1, <1>2, SilenceSent
  <2>2. Silence(s) \in Datagram /\ Silence(s).src = s /\ Silence(s).type = "S2S_LEAVE"
    BY SilenceSent DEF Silence
  <2>3. QED
    BY <1>2, <2>1, <2>2
<1>3. CASE /\ Spread(After(s, i), {d.src}, [type |-> "S2S_LEAVE", src |-> s, channel |-> x])
           /\ UNCHANGED delivered
  <2> DEFINE e == [type |-> "S2S_LEAVE", src |-> s, channel |-> x]
  <2>1. e \in Datagram /\ e.src = s /\ e.type = "S2S_LEAVE"
        /\ inbox' = SendAll(After(s, i), {d.src}, e)
    BY <1>1, <1>3, DatagramsSent DEF Spread
  <2> HIDE DEF e
  <2>2. QED
    BY <1>1, <1>3, <2>1
<1>4. CASE /\ Has(s, x)
           /\ delivered' = [c \in Client |->
                [delivered[c] EXCEPT ![t] = Copies(@ + Occurrences(ch.users, c))]]
           /\ Spread(After(s, i), ch.servers \ {d.src},
                [type |-> "S2S_SAY", src |-> s, channel |-> x, text |-> t, id |-> id])
  <2> DEFINE e == [type |-> "S2S_SAY", src |-> s, channel |-> x, text |-> t, id |-> id]
             D == ch.servers \ {d.src}
  <2>1. e \in Datagram /\ e.src = s /\ inbox' = SendAll(After(s, i), D, e)
    BY <1>1, <1>4, DatagramsSent DEF Spread
  <2>2. D \subseteq Partners(s)
    BY <1>4 DEF Placed, FedBy, Has
  <2>3. ASSUME NEW c \in Client, NEW u \in Text
        PROVE  delivered'[c][u] =
                 IF u = t /\ Home[c] = s THEN Copies(delivered[c][u] + Entries(x, c))
                 ELSE delivered[c][u]
    <3>1. /\ delivered[c] \in [Text -> 0 .. MaxCopies]
          /\ delivered'[c] = [delivered[c] EXCEPT ![t] =
                                Copies(delivered[c][t] + Occurrences(ch.users, c))]
      BY <1>4 DEF TypeOK, ServerTypeOK
    <3>2. CASE u # t
      BY <3>1, <3>2
    <3>3. CASE u = t /\ Home[c] = s
      <4>1. Entries(x, c) = Occurrences(ch.users, c)
        BY <1>4, <3>3 DEF Entries
      <4>2. QED
        BY <3>1, <3>3, <4>1
    <3>4. CASE u = t /\ Home[c] # s
      <4>1. ch.users \in Seq(Own(s))
        <5>1. Users(s, x) \in Seq(Own(s)) /\ Users(s, x) = ch.users
          BY <1>1, <1>4 DEF Placed, Users
        <5>2. QED
          BY <5>1
      <4>2. \A k \in DOMAIN ch.users : ch.users[k] # c
        BY <3>4, <4>1, LenProperties, ElementOfSeq DEF Own
      <4>3. Occurrences(ch.users, c) = 0
        BY <4>1, <4>2, OccurrencesBasics
      <4>4. delivered[c][t] \in 0 .. MaxCopies
        BY <3>1
      <4>5. Copies(delivered[c][t] + 0) = delivered[c][t]
        BY <4>4, ServerAssumption DEF Copies
      <4>6. QED
        BY <3>1, <3>4, <4>3, <4>5
    <3>5. QED
      BY <3>2, <3>3, <3>4
  <2>4. Delivers(s, x, t)
    BY <2>3 DEF Delivers, Entries
  <2>5. d.src \notin D
    OBVIOUS
  <2> HIDE DEF D
  <2>6. QED
    BY <2>1, <2>2, <2>4, <2>5
<1>5. QED
  BY <1>2, <1>3, <1>4 DEF Say, RelayTo

\* Steps that say and hear nothing.
LEMMA MessagesUntouched ==
  ASSUME NetTypeOK, MessageInv, UNCHANGED <<topic, said, ID_LIST, delivered, says>>,
         \A r \in Server, d \in Datagram : d.type \in {"REQ_SAY", "S2S_SAY"} =>
           InFlight(r, d)' \in Nat /\ InFlight(r, d)' <= InFlight(r, d)
  PROVE  MessageInv'
<1>1. \A r \in Server, d \in Datagram : d.type \in {"REQ_SAY", "S2S_SAY"} =>
        /\ InFlight(r, d)' > 0 => InFlight(r, d) > 0
        /\ InFlight(r, d) <= 1 => InFlight(r, d)' <= 1
  <2> SUFFICES ASSUME NEW r \in Server, NEW d \in Datagram, d.type \in {"REQ_SAY", "S2S_SAY"}
               PROVE  /\ InFlight(r, d)' > 0 => InFlight(r, d) > 0
                      /\ InFlight(r, d) <= 1 => InFlight(r, d)' <= 1
    BY DEF InFlight
  <2>1. /\ InFlight(r, d)' \in Nat /\ InFlight(r, d) \in Nat
        /\ InFlight(r, d)' <= InFlight(r, d)
    BY InFlightType DEF InFlight
  <2>2. QED
    BY <2>1
<1>2. FreshSays'
  BY <1>1 DEF MessageInv, FreshSays, InFlight
<1>3. OneOrigin'
  BY DEF MessageInv, OneOrigin, HasSaid
<1>4. Flooding'
  BY <1>1 DEF MessageInv, Flooding, HasSaid, InFlight, SeenBefore
<1>5. Handed'
  BY DEF MessageInv, Handed, HasSaid, SeenBefore, CopiesSent
<1>6. QED
  BY <1>2, <1>3, <1>4, <1>5 DEF MessageInv

\* A user types a message.
LEMMA MessageTyped ==
  ASSUME TypeOK, MessageInv, NEW c \in Client, TypeText(c), UNCHANGED serverVars
  PROVE  MessageInv'
<1> DEFINE new == [type |-> "REQ_SAY", src |-> c, channel |-> active[c],
                   text |-> [msg |-> says + 1, whole |-> TRUE]]
<1>0. UNCHANGED <<topic, said, ID_LIST, delivered>> /\ NetTypeOK
  BY DEF serverVars, serverState, history, TypeOK
<1>1. /\ UNCHANGED <<topic, said, ID_LIST, delivered>> /\ NetTypeOK
      /\ says' = says + 1 /\ says \in Nat /\ says + 1 \in Message
      /\ inbox' = SendAll(inbox, {Home[c]}, new)
  <2>1. says \in 0 .. MaxSays /\ MaxSays \in Nat
    BY ProtocolAssumption DEF TypeOK, ClientTypeOK
  <2>2. says < MaxSays /\ says' = says + 1 /\ inbox' = SendAll(inbox, {Home[c]}, new)
    BY DEF TypeText, Request
  <2>3. QED
    BY <1>0, <2>1, <2>2 DEF Message
<1>2. new \in Datagram
  <2>1. active[c] \in Channel
    BY DEF TypeText, TypeOK, ClientTypeOK
  <2>2. [msg |-> says + 1, whole |-> TRUE] \in Text
    BY <1>1 DEF Text
  <2>3. QED
    BY <2>1, <2>2, DatagramsSent
<1>3. ASSUME NEW r \in Server, NEW d \in Datagram
      PROVE  /\ InFlight(r, d) \in Nat
             /\ InFlight(r, d)' = InFlight(r, d) + (IF r = Home[c] /\ d = new THEN 1 ELSE 0)
             /\ InFlight(r, d)' > 0 => InFlight(r, d) > 0 \/ (r = Home[c] /\ d = new)
             /\ r = Home[c] /\ d = new => InFlight(r, d)' <= 1
             /\ ~(r = Home[c] /\ d = new) => InFlight(r, d)' = InFlight(r, d)
  <2> DEFINE sent == IF r \in {Home[c]} /\ new = d THEN 1 ELSE 0
  <2>1. InFlight(r, d)' = InFlight(r, d) + sent /\ InFlight(r, d) \in Nat
    <3> HIDE DEF new
    <3>1. QED
      BY <1>1, <1>2, InFlightSent, InFlightType
  <2>2. sent = (IF r = Home[c] /\ d = new THEN 1 ELSE 0) /\ sent \in {0, 1}
        /\ (sent = 1 <=> (r = Home[c] /\ d = new))
    OBVIOUS
  <2>3. d = new => InFlight(r, d) = 0
    <3>1. d = new => d.type = "REQ_SAY" /\ ~(d.text.msg <= says)
      BY <1>1
    <3>2. QED
      BY <2>1, <3>1 DEF MessageInv, FreshSays
  <2> HIDE DEF sent, new
  <2>4. QED
    BY <2>1, <2>2, <2>3
<1>4. Home[c] \in Server
  BY ProtocolAssumption
<1>5. FreshSays'
  <2>1. ASSUME NEW s \in Server, NEW d \in Datagram, d.type = "REQ_SAY", InFlight(s, d)' > 0
        PROVE  /\ InFlight(s, d)' <= 1
               /\ d.text.msg <= says + 1 /\ d.text.whole /\ topic[d.text.msg] = NoChannel
               /\ d.text.msg = says + 1 => s = Home[c] /\ d = new
               /\ d.text.msg # says + 1 => InFlight(s, d) > 0
    <3>1. d.text.msg \in Nat
      BY <2>1, DatagramFields DEF Text, Message
    <3>2. CASE s = Home[c] /\ d = new
      BY <1>1, <1>3, <3>2 DEF MessageInv, FreshSays
    <3>3. CASE ~(s = Home[c] /\ d = new)
      <4>1. InFlight(s, d)' = InFlight(s, d)
        BY <1>3, <3>3
      <4>2. InFlight(s, d) <= 1 /\ d.text.msg <= says /\ d.text.whole /\ topic[d.text.msg] = NoChannel
        BY <2>1, <4>1 DEF MessageInv, FreshSays
      <4>3. QED
        BY <1>1, <2>1, <3>1, <4>1, <4>2
    <3>4. QED
      BY <3>2, <3>3
  <2>2. ASSUME NEW s \in Server, NEW d \in Datagram, d.type = "REQ_SAY", InFlight(s, d)' > 0,
               NEW r \in Server, NEW e \in Datagram, e.type = "REQ_SAY", InFlight(r, e)' > 0,
               e.text.msg = d.text.msg
        PROVE  r = s /\ e = d
    <3>1. CASE d.text.msg = says + 1
      BY <2>1, <2>2, <3>1
    <3>2. CASE d.text.msg # says + 1
      <4>1. InFlight(s, d) > 0 /\ InFlight(r, e) > 0
        BY <2>1, <2>2, <3>2
      <4>2. QED
        BY <2>2, <4>1 DEF MessageInv, FreshSays
    <3>3. QED
      BY <3>1, <3>2
  <2>3. \A m \in Message : m > says + 1 => topic[m] = NoChannel
    BY <1>1 DEF MessageInv, FreshSays, Message
  <2>4. QED
    BY <1>1, <2>1, <2>2, <2>3 DEF FreshSays, InFlight
<1>6. OneOrigin'
  BY <1>1 DEF MessageInv, OneOrigin, HasSaid
<1>7. Flooding'
  <2>1. \A s \in Server, d \in Datagram :
          d.type = "S2S_SAY" /\ InFlight(s, d)' > 0 => InFlight(s, d) > 0
    BY <1>3 DEF InFlight
  <2>2. QED
    BY <1>1, <2>1 DEF MessageInv, Flooding, HasSaid, InFlight, SeenBefore
<1>8. Handed'
  BY <1>1 DEF MessageInv, Handed, HasSaid, SeenBefore, CopiesSent
<1>9. QED
  BY <1>5, <1>6, <1>7, <1>8 DEF MessageInv

\* Different messages never get one identifier.
DrawsDiffer == \A m, n \in Message : m # n => Draws[m] \cap Draws[n] = {}

\* A say() for a message from a user, datagram i of s, in which a text is passed
\* on or the channel given up.
UserSaid(s, i, id, D, e) ==
  /\ i \in DOMAIN inbox[s] /\ inbox[s][i] \in Datagram /\ inbox[s][i].type = "REQ_SAY"
  /\ id \in Draws[inbox[s][i].text.msg]
  /\ inbox' = SendAll(After(s, i), D, e)
  /\ e \in Datagram /\ e.src = s /\ D \subseteq Partners(s)
  /\ \/ e.type = "S2S_LEAVE"
     \/ e = [type |-> "S2S_SAY", src |-> s, channel |-> inbox[s][i].channel,
             text |-> inbox[s][i].text, id |-> id]
  /\ UNCHANGED delivered \/ Delivers(s, inbox[s][i].channel, inbox[s][i].text)
  /\ said' = [said EXCEPT ![s][id] = Copies(@ + 1)]
  /\ topic' = [topic EXCEPT ![inbox[s][i].text.msg] = inbox[s][i].channel]
  /\ UNCHANGED <<ID_LIST, says>>

LEMMA SayRequestSteps ==
  ASSUME TypeOK, Placed, NEW s \in Server, RecvSay(s), UNCHANGED clientVars
  PROVE  \/ /\ \E i \in Incoming(s, "REQ_SAY") : inbox' = After(s, i)
            /\ UNCHANGED <<channel_list, topic, said, ID_LIST, delivered, says>>
         \/ \E i, id, D, e : UserSaid(s, i, id, D, e)
<1>1. PICK i \in Incoming(s, "REQ_SAY") :
        /\ \/ inbox' = After(s, i) /\ UNCHANGED <<channel_list, history>>
           \/ /\ \E id \in Draws[inbox[s][i].text.msg] :
                   /\ Say(s, i, inbox[s][i].text, id)
                   /\ said' = [said EXCEPT ![s][id] = Copies(@ + 1)]
              /\ topic' = [topic EXCEPT ![inbox[s][i].text.msg] = inbox[s][i].channel]
        /\ UNCHANGED ID_LIST
  BY DEF RecvSay
<1>2. UNCHANGED says
  BY DEF clientVars
<1>3. CASE inbox' = After(s, i) /\ UNCHANGED <<channel_list, history>>
  BY <1>1, <1>2, <1>3 DEF history
<1>4. ASSUME NEW id \in Draws[inbox[s][i].text.msg], Say(s, i, inbox[s][i].text, id),
             said' = [said EXCEPT ![s][id] = Copies(@ + 1)],
             topic' = [topic EXCEPT ![inbox[s][i].text.msg] = inbox[s][i].channel]
      PROVE  \E D, e : UserSaid(s, i, id, D, e)
  <2>1. inbox[s][i].text \in Text /\ id \in Id
    BY <1>1, <1>4, SaidTexts
  <2>2. i \in DOMAIN inbox[s] /\ inbox[s][i] \in Datagram /\ inbox[s][i].type = "REQ_SAY"
    BY <1>1, Heard
  <2>3. /\ \E D, e :
              /\ inbox' = SendAll(After(s, i), D, e)
              /\ e \in Datagram /\ e.src = s /\ D \subseteq Partners(s)
              /\ \/ e.type = "S2S_LEAVE"
                 \/ e = [type |-> "S2S_SAY", src |-> s, channel |-> inbox[s][i].channel,
                         text |-> inbox[s][i].text, id |-> id]
        /\ UNCHANGED delivered \/ Delivers(s, inbox[s][i].channel, inbox[s][i].text)
    BY <1>1, <1>4, <2>1, SayEffect
  <2>4. QED
    BY <1>1, <1>2, <1>4, <2>2, <2>3 DEF UserSaid
<1>5. QED
  BY <1>1, <1>3, <1>4

\* What is in flight after it: message m itself is not, unless as a message
\* between servers.
LEMMA UserSaidFlight ==
  ASSUME TypeOK, FreshSays, NEW s \in Server, NEW i, NEW id, NEW D, NEW e,
         UserSaid(s, i, id, D, e), NEW r \in Server, NEW d \in Datagram, InFlight(r, d)' > 0
  PROVE  /\ d.type = "REQ_SAY" => /\ InFlight(r, d) > 0 /\ InFlight(r, d)' <= InFlight(r, d)
                                  /\ d.text.msg # inbox[s][i].text.msg
         /\ d.type = "S2S_SAY" => InFlight(r, d) > 0 \/ (r \in D /\ e = d)
<1>1. NetTypeOK /\ i \in DOMAIN inbox[s] /\ e \in Datagram /\ e.type # "REQ_SAY"
  BY DEF TypeOK, UserSaid
<1>2. /\ InFlight(r, d)' \in Nat
      /\ InFlight(r, d)' <= InFlight(r, d) + (IF r \in D /\ e = d THEN 1 ELSE 0)
      /\ InFlight(r, d)' > 0 => InFlight(r, d) > 0 \/ (r \in D /\ e = d)
  BY <1>1, TurnSends DEF UserSaid
<1>3. ASSUME d.type = "REQ_SAY"
      PROVE  /\ InFlight(r, d) > 0 /\ InFlight(r, d)' <= InFlight(r, d)
             /\ d.text.msg # inbox[s][i].text.msg
  <2>1. (IF r \in D /\ e = d THEN 1 ELSE 0) = 0
    BY <1>1, <1>3
  <2>2. InFlight(r, d) > 0 /\ InFlight(r, d)' <= InFlight(r, d) /\ InFlight(r, d) \in Nat
    BY <1>1, <1>2, <1>3, <2>1, InFlightType
  <2>3. InFlight(s, inbox[s][i]) > 0
    BY <1>1, InFlightType
  <2>4. ASSUME d.text.msg = inbox[s][i].text.msg
        PROVE  FALSE
    <3>1. r = s /\ d = inbox[s][i] /\ InFlight(s, inbox[s][i]) <= 1
      BY <1>3, <2>2, <2>3, <2>4 DEF FreshSays, UserSaid
    <3>2. InFlight(r, d)' = InFlight(r, d) - (IF r = s /\ inbox[s][i] = d THEN 1 ELSE 0)
                                           + (IF r \in D /\ e = d THEN 1 ELSE 0)
      BY <1>1, InFlightTurn DEF UserSaid
    <3>3. (IF r = s /\ inbox[s][i] = d THEN 1 ELSE 0) = 1 /\ InFlight(r, d) <= 1
      BY <3>1
    <3>4. InFlight(r, d)' <= 0
      BY <2>1, <2>2, <3>2, <3>3
    <3>5. QED
      BY <1>2, <3>4
  <2>5. QED
    BY <2>2, <2>4
<1>4. QED
  BY <1>2, <1>3

LEMMA UserSaidKeeps ==
  ASSUME Acyclic(Adjacent), DrawsDiffer, TypeOK, Placed, MessageInv,
         NEW s \in Server, NEW i, NEW id, NEW D, NEW e, UserSaid(s, i, id, D, e)
  PROVE  MessageInv'
<1> DEFINE d == inbox[s][i]
           m == d.text.msg
           x == d.channel
<1>1. /\ i \in DOMAIN inbox[s] /\ d \in Datagram /\ d.type = "REQ_SAY"
      /\ id \in Draws[m] /\ e \in Datagram /\ e.src = s /\ D \subseteq Partners(s)
      /\ UNCHANGED <<ID_LIST, says>>
  BY DEF UserSaid
<1>2. /\ x \in Channel /\ d.text \in Text /\ m \in Message /\ id \in Id
      /\ InFlight(s, d) > 0
  <2>1. x \in Channel /\ d.text \in Text
    BY <1>1, DatagramFields
  <2>2. m \in Message
    BY <2>1 DEF Text
  <2>3. InFlight(s, d) > 0
    BY <1>1, InFlightType DEF TypeOK
  <2>4. QED
    BY <1>1, <2>1, <2>2, <2>3, ServerAssumption
<1>3. m <= says /\ d.text.whole /\ topic[m] = NoChannel
  BY <1>1, <1>2 DEF MessageInv, FreshSays
<1>4. \A r \in Server, jd \in Draws[m] : ~HasSaid(r, jd)
  BY <1>2, <1>3 DEF MessageInv, OneOrigin
<1>5. /\ topic'[m] = x
      /\ \A n \in Message : n # m => topic'[n] = topic[n]
  BY <1>2 DEF UserSaid, TypeOK, ServerTypeOK
<1>6. \A r \in Server, jd \in Id : said'[r][jd] > 0 <=> said[r][jd] > 0 \/ (r = s /\ jd = id)
  <2>1. said \in [Server -> [Id -> 0 .. MaxCopies]] /\ MaxCopies \in Nat \ {0}
    BY ServerAssumption DEF TypeOK, ServerTypeOK
  <2>2. said' = [said EXCEPT ![s] = [said[s] EXCEPT ![id] = Copies(said[s][id] + 1)]]
    BY DEF UserSaid
  <2>3. Copies(said[s][id] + 1) > 0
    BY <1>2, <2>1 DEF Copies
  <2>4. QED
    BY <1>2, <2>1, <2>2, <2>3
<1>7. \A n \in Message : Draws[n] \subseteq Id
  BY ServerAssumption
<1>8. \A n \in Message : \A jd \in Draws[n] : jd = id => n = m
  BY <1>1, <1>2 DEF DrawsDiffer
<1>9. FreshSays'
  <2>1. ASSUME NEW r \in Server, NEW f \in Datagram, f.type = "REQ_SAY", InFlight(r, f)' > 0
        PROVE  /\ InFlight(r, f)' <= 1 /\ InFlight(r, f) > 0
               /\ f.text.msg <= says /\ f.text.whole /\ topic'[f.text.msg] = NoChannel
    <3>1. /\ InFlight(r, f) > 0 /\ InFlight(r, f)' <= InFlight(r, f) /\ f.text.msg # m
      BY <2>1, UserSaidFlight DEF MessageInv
    <3>2. /\ InFlight(r, f) <= 1 /\ f.text.msg <= says /\ f.text.whole
          /\ topic[f.text.msg] = NoChannel
      BY <2>1, <3>1 DEF MessageInv, FreshSays
    <3>3. InFlight(r, f)' \in Nat /\ InFlight(r, f) \in Nat
      BY <1>1, TurnSends, InFlightType DEF UserSaid, TypeOK
    <3>4. f.text.msg \in Message
      BY <2>1, DatagramFields DEF Text
    <3>5. InFlight(r, f)' <= 1
      BY <3>1, <3>2, <3>3
    <3>6. QED
      BY <1>5, <3>1, <3>2, <3>4, <3>5
  <2>2. ASSUME NEW r \in Server, NEW f \in Datagram, f.type = "REQ_SAY", InFlight(r, f)' > 0,
               NEW q \in Server, NEW g \in Datagram, g.type = "REQ_SAY", InFlight(q, g)' > 0,
               g.text.msg = f.text.msg
        PROVE  q = r /\ g = f
    <3>1. InFlight(r, f) > 0 /\ InFlight(q, g) > 0
      BY <2>1, <2>2
    <3>2. QED
      BY <2>2, <3>1 DEF MessageInv, FreshSays
  <2>3. \A n \in Message : n > says => topic'[n] = NoChannel
    <3>1. \A n \in Message : n > says => n # m
      BY <1>3, <1>2 DEF Message, TypeOK, ClientTypeOK
    <3>2. QED
      BY <1>5, <3>1 DEF MessageInv, FreshSays
  <2>4. QED
    BY <1>1, <2>1, <2>2, <2>3 DEF FreshSays, InFlight
<1>10. OneOrigin'
  <2>1. ASSUME NEW n \in Message, topic'[n] = NoChannel, NEW r \in Server, NEW jd \in Draws[n]
        PROVE  ~(said'[r][jd] > 0)
    <3>1. n # m
      BY <1>2, <1>5, <2>1, ProtocolAssumption
    <3>2. topic[n] = NoChannel /\ jd # id /\ jd \in Id
      BY <1>5, <1>7, <1>8, <2>1, <3>1
    <3>3. QED
      BY <1>6, <2>1, <3>2 DEF MessageInv, OneOrigin, HasSaid
  <2>2. ASSUME NEW n \in Message, NEW r \in Server, NEW q \in Server,
               NEW jd \in Draws[n], NEW kd \in Draws[n], said'[r][jd] > 0, said'[q][kd] > 0
        PROVE  r = q /\ jd = kd
    <3>1. jd \in Id /\ kd \in Id
      BY <1>7, <2>2
    <3>2. CASE n = m
      BY <1>4, <1>6, <2>2, <3>1, <3>2 DEF HasSaid
    <3>3. CASE n # m
      <4>1. jd # id /\ kd # id
        BY <1>8, <2>2, <3>3
      <4>2. HasSaid(r, jd) /\ HasSaid(q, kd)
        BY <1>6, <2>2, <3>1, <4>1 DEF HasSaid
      <4>3. QED
        BY <2>2, <4>2 DEF MessageInv, OneOrigin
    <3>4. QED
      BY <3>2, <3>3
  <2>3. QED
    BY <2>1, <2>2 DEF OneOrigin, HasSaid
<1>11. Flooding'
  <2>1. ASSUME NEW r \in Server, NEW f \in Datagram, f.type = "S2S_SAY", InFlight(r, f)' > 0
        PROVE  /\ f.id \in Draws[f.text.msg] /\ f.channel = topic'[f.text.msg]
               /\ \E o \in Server : said'[o][f.id] > 0 /\ Toward[o][r] = f.src
    <3>1. f.text.msg \in Message /\ f.id \in Id
      BY <2>1, DatagramFields DEF Text
    <3>2. CASE InFlight(r, f) > 0
      <4>1. /\ f.id \in Draws[f.text.msg] /\ f.channel = topic[f.text.msg]
            /\ \E o \in Server : HasSaid(o, f.id) /\ Toward[o][r] = f.src
        BY <2>1, <3>2 DEF MessageInv, Flooding
      <4>2. f.text.msg # m
        BY <1>4, <4>1
      <4>3. QED
        BY <1>5, <1>6, <3>1, <4>1, <4>2 DEF HasSaid
    <3>3. CASE r \in D /\ e = f
      <4>1. f = [type |-> "S2S_SAY", src |-> s, channel |-> x, text |-> d.text, id |-> id]
        BY <2>1, <3>3 DEF UserSaid
      <4>2. r \in Adjacent[s]
        BY <1>1, <3>3, ProtocolAssumption DEF Partners, Own
      <4>3. Toward[s][r] = s
        BY <4>2, TowardIs
      <4>4. said'[s][id] > 0
        BY <1>2, <1>6
      <4>5. QED
        BY <1>1, <1>5, <4>1, <4>3, <4>4
    <3>4. QED
      BY <2>1, <3>2, <3>3, UserSaidFlight DEF MessageInv
  <2>2. ASSUME NEW r \in Server, NEW jd \in Id, SeenBefore(r, jd)'
        PROVE  \E o \in Server \ {r} : said'[o][jd] > 0
    <3>1. SeenBefore(r, jd)
      BY <1>1, <2>2 DEF SeenBefore
    <3>2. PICK o \in Server \ {r} : HasSaid(o, jd)
      BY <3>1 DEF MessageInv, Flooding
    <3>3. QED
      BY <1>6, <3>2 DEF HasSaid
  <2>3. QED
    BY <2>1, <2>2 DEF Flooding, HasSaid, InFlight, SeenBefore
<1>12. Handed'
  <2>1. ASSUME NEW n \in Message, NEW c \in Client
        PROVE  LET whole == [msg |-> n, whole |-> TRUE]
                   clipped == [msg |-> n, whole |-> FALSE]
               IN  /\ delivered'[c][clipped] = delivered[c][clipped]
                   /\ delivered'[c][whole] = delivered[c][whole] \/ (n = m /\ Home[c] = s)
    <3>1. [msg |-> n, whole |-> TRUE] \in Text /\ [msg |-> n, whole |-> FALSE] \in Text
      BY <2>1 DEF Text
    <3>2. [msg |-> n, whole |-> FALSE] # d.text /\ ([msg |-> n, whole |-> TRUE] = d.text => n = m)
      BY <1>2, <1>3 DEF Text
    <3>3. QED
      BY <2>1, <3>1, <3>2 DEF UserSaid, Delivers
  <2>2. \A r \in Server, jd \in Id : SeenBefore(r, jd)' = SeenBefore(r, jd)
    BY <1>1 DEF SeenBefore
  <2>3. ASSUME NEW n \in Message, NEW c \in Client
        PROVE  /\ CopiesSent(n, c)' > 0 =>
                    \E jd \in Draws[n] : SeenBefore(Home[c], jd) \/ said'[Home[c]][jd] > 0
               /\ delivered'[c][[msg |-> n, whole |-> FALSE]] > 0 =>
                    \E jd \in Draws[n] : SeenBefore(Home[c], jd)
    <3>1. Home[c] \in Server
      BY ProtocolAssumption
    <3>2. CASE n = m /\ Home[c] = s
      <4>1. said'[Home[c]][id] > 0
        BY <1>2, <1>6, <3>2
      <4>2. QED
        BY <1>1, <2>1, <3>2, <4>1 DEF MessageInv, Handed
    <3>3. CASE ~(n = m /\ Home[c] = s)
      <4>1. CopiesSent(n, c)' = CopiesSent(n, c)
        BY <2>1, <3>3 DEF CopiesSent
      <4>2. delivered'[c][[msg |-> n, whole |-> FALSE]] > 0 =>
              \E jd \in Draws[n] : SeenBefore(Home[c], jd)
        BY <2>1 DEF MessageInv, Handed
      <4>3. ASSUME CopiesSent(n, c) > 0
            PROVE  \E jd \in Draws[n] : SeenBefore(Home[c], jd) \/ said'[Home[c]][jd] > 0
        <5>1. PICK jd \in Draws[n] : SeenBefore(Home[c], jd) \/ said[Home[c]][jd] > 0
          BY <4>3 DEF MessageInv, Handed, HasSaid
        <5>2. jd \in Id
          BY <1>7, <5>1
        <5>3. QED
          BY <1>6, <3>1, <5>1, <5>2
      <4>4. QED
        BY <4>1, <4>2, <4>3
    <3>4. QED
      BY <3>2, <3>3
  <2>4. QED
    BY <1>1, <2>3 DEF Handed, HasSaid, SeenBefore, CopiesSent
<1>13. QED
  BY <1>9, <1>10, <1>11, <1>12 DEF MessageInv

\* A say() for a message from a server, datagram i of s, that was not seen before.
ServerSaid(s, i, D, e) ==
  /\ i \in DOMAIN inbox[s] /\ inbox[s][i] \in Datagram /\ inbox[s][i].type = "S2S_SAY"
  /\ ~SeenBefore(s, inbox[s][i].id)
  /\ inbox' = SendAll(After(s, i), D, e)
  /\ e \in Datagram /\ e.src = s /\ D \subseteq Partners(s)
  /\ \/ e.type = "S2S_LEAVE"
     \/ /\ e = [type |-> "S2S_SAY", src |-> s, channel |-> inbox[s][i].channel,
                text |-> Clip(inbox[s][i].text), id |-> inbox[s][i].id]
        /\ inbox[s][i].src \notin D
  /\ \/ UNCHANGED delivered
     \/ Delivers(s, inbox[s][i].channel, Clip(inbox[s][i].text))
  /\ ID_LIST' = [ID_LIST EXCEPT ![s] = Append(@, inbox[s][i].id)]
  /\ UNCHANGED <<topic, said, says>>

LEMMA S2SSaySteps ==
  ASSUME TypeOK, Placed, NEW s \in Server, RecvS2SSay(s), UNCHANGED clientVars
  PROVE  \/ /\ \E i \in Incoming(s, "S2S_SAY") : inbox' = After(s, i)
            /\ UNCHANGED <<channel_list, topic, said, ID_LIST, delivered, says>>
         \/ \E i, D, e : ServerSaid(s, i, D, e)
<1>1. PICK i \in Incoming(s, "S2S_SAY") :
        /\ \/ inbox' = After(s, i) /\ UNCHANGED <<channel_list, ID_LIST, delivered>>
           \/ /\ ~SeenBefore(s, inbox[s][i].id)
              /\ ID_LIST' = [ID_LIST EXCEPT ![s] = Append(@, inbox[s][i].id)]
              /\ Say(s, i, Clip(inbox[s][i].text), inbox[s][i].id)
        /\ UNCHANGED <<topic, said>>
  BY DEF RecvS2SSay
<1>2. UNCHANGED says
  BY DEF clientVars
<1>3. CASE inbox' = After(s, i) /\ UNCHANGED <<channel_list, ID_LIST, delivered>>
  BY <1>1, <1>2, <1>3
<1>4. CASE /\ ~SeenBefore(s, inbox[s][i].id)
           /\ ID_LIST' = [ID_LIST EXCEPT ![s] = Append(@, inbox[s][i].id)]
           /\ Say(s, i, Clip(inbox[s][i].text), inbox[s][i].id)
  <2> DEFINE t == Clip(inbox[s][i].text)
             id == inbox[s][i].id
  <2>1. t \in Text /\ id \in Id
    BY SaidTexts
  <2>2. i \in DOMAIN inbox[s] /\ inbox[s][i] \in Datagram /\ inbox[s][i].type = "S2S_SAY"
    BY <1>1, Heard
  <2>3. UNCHANGED delivered \/ Delivers(s, inbox[s][i].channel, t)
    BY <1>1, <1>4, <2>1, SayEffect
  <2>4. PICK D, e :
          /\ inbox' = SendAll(After(s, i), D, e)
          /\ e \in Datagram /\ e.src = s /\ D \subseteq Partners(s)
          /\ \/ e.type = "S2S_LEAVE"
             \/ /\ e = [type |-> "S2S_SAY", src |-> s, channel |-> inbox[s][i].channel,
                        text |-> t, id |-> id]
                /\ inbox[s][i].src \notin D
    BY <1>1, <1>4, <2>1, SayEffect
  <2>5. ServerSaid(s, i, D, e)
    BY <1>1, <1>2, <1>4, <2>2, <2>3, <2>4 DEF ServerSaid
  <2>6. QED
    BY <2>5
<1>5. QED
  BY <1>1, <1>3, <1>4

\* The message came from the direction of its origin, another server.
LEMMA ServerSaidOrigin ==
  ASSUME Acyclic(Adjacent), TypeOK, Placed, MessageInv,
         NEW s \in Server, NEW i, NEW D, NEW e, ServerSaid(s, i, D, e)
  PROVE  LET d == inbox[s][i]
         IN  /\ d.src \in Adjacent[s] /\ d.channel \in Channel /\ d.channel = topic[d.text.msg]
             /\ d.text \in Text /\ d.text.msg \in Message /\ d.id \in Id
             /\ d.id \in Draws[d.text.msg]
             /\ \E o \in Server \ {s} : HasSaid(o, d.id) /\ Toward[o][s] = d.src
<1> DEFINE d == inbox[s][i]
<1>1. i \in DOMAIN inbox[s] /\ d \in Datagram /\ d.type = "S2S_SAY"
  BY DEF ServerSaid
<1>2. InFlight(s, d) > 0
  BY <1>1, InFlightType DEF TypeOK
<1>3. /\ d.src \in Server /\ d.channel \in Channel /\ d.text \in Text /\ d.id \in Id
      /\ d.text.msg \in Message
  <2>1. d.src \in Server /\ d.channel \in Channel /\ d.text \in Text /\ d.id \in Id
    BY <1>1, DatagramFields
  <2>2. QED
    BY <2>1 DEF Text
<1>4. d.src \in Adjacent[s]
  <2>1. d.src \in Partners(s)
    BY <1>1, <1>2 DEF Placed
  <2>2. QED
    BY <1>3, <2>1, ProtocolAssumption DEF Partners, Own
<1>5. /\ d.id \in Draws[d.text.msg] /\ d.channel = topic[d.text.msg]
      /\ \E o \in Server : HasSaid(o, d.id) /\ Toward[o][s] = d.src
  BY <1>1, <1>2 DEF MessageInv, Flooding
<1>6. d.src # s /\ Toward[s][s] = s
  BY <1>4, TowardIs
<1>7. QED
  BY <1>3, <1>4, <1>5, <1>6

\* Nobody at s was sent the message, nor did s draw an identifier for it.
LEMMA ServerSaidFirst ==
  ASSUME Acyclic(Adjacent), TypeOK, Placed, MessageInv,
         NEW s \in Server, NEW i, NEW D, NEW e, ServerSaid(s, i, D, e),
         NEW c \in Client, Home[c] = s
  PROVE  ~(CopiesSent(inbox[s][i].text.msg, c) > 0)
<1> DEFINE d == inbox[s][i]
           m == d.text.msg
<1>1. PICK o \in Server \ {s} : HasSaid(o, d.id) /\ Toward[o][s] = d.src
  BY ServerSaidOrigin
<1>2. m \in Message /\ d.id \in Draws[m]
  BY ServerSaidOrigin
<1>3. SUFFICES ASSUME CopiesSent(m, c) > 0
               PROVE  FALSE
  OBVIOUS
<1>4. PICK jd \in Draws[m] : SeenBefore(s, jd) \/ HasSaid(s, jd)
  BY <1>2, <1>3 DEF MessageInv, Handed
<1>5. CASE HasSaid(s, jd)
  BY <1>1, <1>2, <1>4, <1>5 DEF MessageInv, OneOrigin
<1>6. CASE SeenBefore(s, jd)
  <2>1. jd \in Id
    BY <1>2, <1>4, ServerAssumption
  <2>2. PICK q \in Server : HasSaid(q, jd)
    BY <1>6, <2>1 DEF MessageInv, Flooding
  <2>3. jd = d.id
    BY <1>1, <1>2, <1>4, <2>2 DEF MessageInv, OneOrigin
  <2>4. QED
    BY <1>6, <2>3 DEF ServerSaid
<1>7. QED
  BY <1>4, <1>5, <1>6

LEMMA ServerSaidKeeps ==
  ASSUME Acyclic(Adjacent), TypeOK, Placed, MessageInv,
         NEW s \in Server, NEW i, NEW D, NEW e, ServerSaid(s, i, D, e)
  PROVE  MessageInv'
<1> DEFINE d == inbox[s][i]
           m == d.text.msg
<1>1. /\ i \in DOMAIN inbox[s] /\ e \in Datagram /\ e.type # "REQ_SAY" /\ NetTypeOK
      /\ e.src = s /\ D \subseteq Partners(s)
      /\ UNCHANGED <<topic, said, says>>
  BY DEF ServerSaid, TypeOK
<1>2. /\ d.src \in Adjacent[s] /\ d.channel \in Channel /\ d.channel = topic[m]
      /\ d.text \in Text /\ m \in Message /\ d.id \in Id /\ d.id \in Draws[m]
  BY ServerSaidOrigin
<1>3. PICK o \in Server \ {s} : HasSaid(o, d.id) /\ Toward[o][s] = d.src
  BY ServerSaidOrigin
<1>4. \A r \in Server, jd \in Id : SeenBefore(r, jd)' <=> SeenBefore(r, jd) \/ (r = s /\ jd = d.id)
  BY <1>2, IdEntered DEF ServerSaid
<1>5. ASSUME NEW r \in Server, NEW f \in Datagram
      PROVE  /\ f.type = "REQ_SAY" => /\ InFlight(r, f)' > 0 => InFlight(r, f) > 0
                                      /\ InFlight(r, f) <= 1 => InFlight(r, f)' <= 1
             /\ InFlight(r, f)' > 0 => InFlight(r, f) > 0 \/ (r \in D /\ e = f)
  <2>1. /\ InFlight(r, f)' \in Nat
        /\ InFlight(r, f)' <= InFlight(r, f) + (IF r \in D /\ e = f THEN 1 ELSE 0)
        /\ InFlight(r, f)' > 0 => InFlight(r, f) > 0 \/ (r \in D /\ e = f)
    BY <1>1, TurnSends DEF ServerSaid
  <2>2. InFlight(r, f) \in Nat
    BY <1>1, InFlightType
  <2>3. f.type = "REQ_SAY" => (IF r \in D /\ e = f THEN 1 ELSE 0) = 0
    BY <1>1
  <2>4. f.type = "REQ_SAY" => InFlight(r, f)' <= InFlight(r, f)
    BY <2>1, <2>2, <2>3
  <2>5. QED
    BY <2>1, <2>2, <2>4
<1>6. FreshSays'
  BY <1>1, <1>5 DEF MessageInv, FreshSays, InFlight
<1>7. OneOrigin'
  BY <1>1 DEF MessageInv, OneOrigin, HasSaid
<1>8. Flooding'
  <2>1. ASSUME NEW r \in Server, NEW f \in Datagram, f.type = "S2S_SAY", InFlight(r, f)' > 0
        PROVE  /\ f.id \in Draws[f.text.msg] /\ f.channel = topic[f.text.msg]
               /\ \E q \in Server : HasSaid(q, f.id) /\ Toward[q][r] = f.src
    <3>1. CASE InFlight(r, f) > 0
      BY <2>1, <3>1 DEF MessageInv, Flooding
    <3>2. CASE r \in D /\ e = f
      <4>1. /\ f = [type |-> "S2S_SAY", src |-> s, channel |-> d.channel,
                    text |-> Clip(d.text), id |-> d.id]
            /\ d.src \notin D
        BY <2>1, <3>2 DEF ServerSaid
      <4>2. f.src = s /\ f.channel = d.channel /\ f.id = d.id /\ f.text.msg = m
        <5>1. Clip(d.text).msg = m
          BY <1>2 DEF Text, Clip
        <5>2. QED
          BY <4>1, <5>1
      <4>3. r \in Adjacent[s] /\ r # d.src
        BY <1>1, <3>2, <4>1, ProtocolAssumption DEF Partners, Own
      <4>4. Toward[o][r] = s
        BY <1>3, <4>3, TowardIs
      <4>5. QED
        BY <1>2, <1>3, <4>2, <4>4
    <3>3. QED
      BY <1>5, <2>1, <3>1, <3>2
  <2>2. ASSUME NEW r \in Server, NEW jd \in Id, SeenBefore(r, jd)'
        PROVE  \E q \in Server \ {r} : HasSaid(q, jd)
    <3>1. CASE SeenBefore(r, jd)
      BY <3>1 DEF MessageInv, Flooding
    <3>2. CASE r = s /\ jd = d.id
      BY <1>3, <3>2
    <3>3. QED
      BY <1>4, <2>2, <3>1, <3>2
  <2>3. QED
    BY <1>1, <2>1, <2>2 DEF Flooding, HasSaid, InFlight, SeenBefore
<1>9. Handed'
  <2>1. \A n \in Message : Draws[n] \subseteq Id
    BY ServerAssumption
  <2>2. ASSUME NEW n \in Message, NEW c \in Client
        PROVE  /\ CopiesSent(n, c)' > 0 =>
                    \E jd \in Draws[n] : SeenBefore(Home[c], jd)' \/ HasSaid(Home[c], jd)
               /\ delivered'[c][[msg |-> n, whole |-> FALSE]] > 0 =>
                    \E jd \in Draws[n] : SeenBefore(Home[c], jd)'
    <3>1. Home[c] \in Server
      BY ProtocolAssumption
    <3>2. CASE n = m /\ Home[c] = s
      <4>1. PICK jd \in Draws[n] : jd = d.id /\ jd \in Id
        BY <1>2, <3>2
      <4>2. SeenBefore(Home[c], jd)'
        BY <1>4, <3>2, <4>1 DEF SeenBefore
      <4>3. QED
        BY <4>2 DEF SeenBefore
    <3>3. CASE ~(n = m /\ Home[c] = s)
      <4>1. [msg |-> n, whole |-> TRUE] \in Text /\ [msg |-> n, whole |-> FALSE] \in Text
        BY DEF Text
      <4>2. Clip(d.text).msg = m
        BY <1>2 DEF Text, Clip
      <4>3. /\ delivered'[c][[msg |-> n, whole |-> FALSE]] = delivered[c][[msg |-> n, whole |-> FALSE]]
            /\ delivered'[c][[msg |-> n, whole |-> TRUE]] = delivered[c][[msg |-> n, whole |-> TRUE]]
        BY <3>3, <4>1, <4>2 DEF ServerSaid, Delivers
      <4>4. CopiesSent(n, c)' = CopiesSent(n, c)
        BY <4>3 DEF CopiesSent
      <4>5. ASSUME CopiesSent(n, c) > 0
            PROVE  \E jd \in Draws[n] : SeenBefore(Home[c], jd)' \/ HasSaid(Home[c], jd)
        <5>1. PICK jd \in Draws[n] : SeenBefore(Home[c], jd) \/ HasSaid(Home[c], jd)
          BY <4>5 DEF MessageInv, Handed
        <5>2. QED
          BY <1>4, <2>1, <3>1, <5>1 DEF SeenBefore
      <4>6. ASSUME delivered[c][[msg |-> n, whole |-> FALSE]] > 0
            PROVE  \E jd \in Draws[n] : SeenBefore(Home[c], jd)'
        <5>1. PICK jd \in Draws[n] : SeenBefore(Home[c], jd)
          BY <4>6 DEF MessageInv, Handed
        <5>2. QED
          BY <1>4, <2>1, <3>1, <5>1 DEF SeenBefore
      <4>7. QED
        BY <4>3, <4>4, <4>5, <4>6
    <3>4. QED
      BY <3>2, <3>3
  <2>3. QED
    BY <1>1, <2>2 DEF Handed, HasSaid, SeenBefore, CopiesSent
<1>10. QED
  BY <1>6, <1>7, <1>8, <1>9 DEF MessageInv

\* Only TypeText sends a message.
LEMMA OnlyTextSays ==
  ASSUME TypeOK, NEW c \in Client, ClientStep(c)
  PROVE  \/ TypeText(c)
         \/ /\ UNCHANGED says
            /\ \/ UNCHANGED inbox
               \/ \E d \in Datagram : /\ d.type \notin {"REQ_SAY", "S2S_SAY"}
                                      /\ inbox' = SendAll(inbox, {Home[c]}, d)
<1>1. ASSUME NEW d \in Datagram, d.type \notin {"REQ_SAY", "S2S_SAY"}, Request(c, d)
      PROVE  \E e \in Datagram : /\ e.type \notin {"REQ_SAY", "S2S_SAY"}
                                 /\ inbox' = SendAll(inbox, {Home[c]}, e)
  BY <1>1 DEF Request
<1>2. CASE Login(c)
  BY <1>1, <1>2, DatagramsSent DEF Login
<1>3. CASE JoinCommon(c)
  <2>1. JoinOf(c, Common) \in Datagram
    BY DatagramsSent, ProtocolAssumption DEF JoinOf, Node
  <2>2. QED
    BY <1>1, <1>3, <2>1 DEF JoinCommon, JoinOf
<1>4. CASE TypeJoin(c)
  <2>1. PICK x \in Channel : Request(c, JoinOf(c, x))
    BY <1>4 DEF TypeJoin, JoinOf
  <2>2. JoinOf(c, x) \in Datagram /\ JoinOf(c, x).type \notin {"REQ_SAY", "S2S_SAY"}
    BY DatagramsSent DEF JoinOf, Node
  <2>3. QED
    BY <1>1, <1>4, <2>1, <2>2 DEF TypeJoin
<1>5. CASE TypeLeave(c)
  <2>1. PICK x \in Channel : Request(c, [type |-> "REQ_LEAVE", src |-> c, channel |-> x])
    BY <1>5 DEF TypeLeave
  <2>2. QED
    BY <1>1, <1>5, <2>1, DatagramsSent DEF TypeLeave
<1>6. CASE TypeSwitch(c)
  BY <1>6 DEF TypeSwitch
<1>7. CASE TypeList(c)
  BY <1>1, <1>7, DatagramsSent DEF TypeList
<1>8. CASE TypeWho(c)
  <2>1. PICK x \in Channel : Request(c, [type |-> "REQ_WHO", src |-> c, channel |-> x])
    BY <1>8 DEF TypeWho
  <2>2. QED
    BY <1>1, <1>8, <2>1, DatagramsSent DEF TypeWho
<1>9. CASE TypeExit(c)
  BY <1>1, <1>9, DatagramsSent DEF TypeExit
<1>10. QED
  BY <1>2, <1>3, <1>4, <1>5, <1>6, <1>7, <1>8, <1>9 DEF ClientStep

LEMMA MessageInvStep ==
  ASSUME MaxFaults = 0, DrawsDiffer, Acyclic(Adjacent),
         TypeOK, CountsAgree, SweepInv, Placed, MessageInv, [Next]_vars
  PROVE  MessageInv'
<1>0. NetTypeOK
  BY DEF TypeOK
<1>1. ASSUME NEW s \in Server, NEW i \in DOMAIN inbox[s], NEW D, NEW e \in Datagram,
             inbox' = SendAll(After(s, i), D, e), e.type \notin {"REQ_SAY", "S2S_SAY"},
             UNCHANGED <<topic, said, ID_LIST, delivered, says>>
      PROVE  MessageInv'
  <2>1. ASSUME NEW r \in Server, NEW d \in Datagram, d.type \in {"REQ_SAY", "S2S_SAY"}
        PROVE  InFlight(r, d)' \in Nat /\ InFlight(r, d)' <= InFlight(r, d)
    <3>1. (IF r \in D /\ e = d THEN 1 ELSE 0) = 0
      BY <1>1, <2>1
    <3>2. QED
      BY <1>0, <1>1, <3>1, TurnSends, InFlightType
  <2>2. QED
    BY <1>0, <1>1, <2>1, MessagesUntouched DEF InFlight
<1>2. ASSUME NEW D, NEW e \in Datagram,
             inbox' = SendAll(inbox, D, e), e.type \notin {"REQ_SAY", "S2S_SAY"},
             UNCHANGED <<topic, said, ID_LIST, delivered, says>>
      PROVE  MessageInv'
  <2>1. ASSUME NEW r \in Server, NEW d \in Datagram, d.type \in {"REQ_SAY", "S2S_SAY"}
        PROVE  InFlight(r, d)' \in Nat /\ InFlight(r, d)' <= InFlight(r, d)
    <3>1. (IF r \in D /\ e = d THEN 1 ELSE 0) = 0
      BY <1>2, <2>1
    <3>2. QED
      BY <1>0, <1>2, <3>1, OnlySends, InFlightType
  <2>2. QED
    BY <1>0, <1>2, <2>1, MessagesUntouched DEF InFlight
<1>3. ASSUME UNCHANGED <<inbox, topic, said, ID_LIST, delivered, says>>
      PROVE  MessageInv'
  <2>1. \A r \in Server, d \in Datagram :
          InFlight(r, d)' \in Nat /\ InFlight(r, d)' <= InFlight(r, d)
    BY <1>0, <1>3, InFlightType DEF InFlight
  <2>2. QED
    BY <1>0, <1>3, <2>1, MessagesUntouched DEF InFlight
<1>4. ASSUME NEW s \in Server, NEW type, NEW i \in Incoming(s, type), inbox' = After(s, i),
             UNCHANGED <<topic, said, ID_LIST, delivered, says>>
      PROVE  MessageInv'
  <2>1. i \in DOMAIN inbox[s] /\ inbox' = SendAll(After(s, i), {}, Silence(s))
    BY <1>4, Heard, SilenceSent
  <2>2. Silence(s) \in Datagram /\ Silence(s).type \notin {"REQ_SAY", "S2S_SAY"}
    BY SilenceSent DEF Silence
  <2>3. QED
    BY <1>1, <1>4, <2>1, <2>2
<1>5. ASSUME NEW s \in Server, Receive(s), UNCHANGED clientVars
      PROVE  MessageInv'
  <2>1. UNCHANGED says
    BY <1>5 DEF clientVars
  <2>2. CASE RecvSay(s)
    <3>1. CASE /\ \E i \in Incoming(s, "REQ_SAY") : inbox' = After(s, i)
               /\ UNCHANGED <<topic, said, ID_LIST, delivered, says>>
      BY <1>4, <3>1
    <3>2. CASE \E i, id, D, e : UserSaid(s, i, id, D, e)
      BY <3>2, UserSaidKeeps
    <3>3. QED
      BY <1>5, <2>2, <3>1, <3>2, SayRequestSteps
  <2>3. CASE RecvS2SSay(s)
    <3>1. CASE /\ \E i \in Incoming(s, "S2S_SAY") : inbox' = After(s, i)
               /\ UNCHANGED <<topic, said, ID_LIST, delivered, says>>
      BY <1>4, <3>1
    <3>2. CASE \E i, D, e : ServerSaid(s, i, D, e)
      BY <3>2, ServerSaidKeeps
    <3>3. QED
      BY <1>5, <2>3, <3>1, <3>2, S2SSaySteps
  <2>4. ASSUME NEW i, NEW D, NEW e, Handles(s, i, D, e), Quiet(e)
        PROVE  MessageInv'
    <3>1. /\ i \in DOMAIN inbox[s] /\ inbox' = SendAll(After(s, i), D, e)
          /\ e \in Datagram /\ e.src \in Server /\ e.type # "S2S_SAY"
          /\ UNCHANGED <<topic, said, ID_LIST, delivered>>
      BY <2>4 DEF Handles, Quiet
    <3>2. e.type # "REQ_SAY"
      BY <3>1, DatagramFields, ProtocolAssumption
    <3>3. QED
      BY <1>1, <2>1, <3>1, <3>2
  <2>5. QED
    BY <1>5, <2>2, <2>3, <2>4, ReceiveHandles
<1>6. ASSUME NEW s \in Server, SweepChannel(s), UNCHANGED clientVars
      PROVE  MessageInv'
  <2>1. PICK D, e : /\ e \in Datagram /\ e.type = "REQ_JOIN"
                    /\ inbox' = SendAll(inbox, D, e)
                    /\ UNCHANGED <<ID_LIST, delivered, topic, said>>
    BY <1>6, SweepSends
  <2>2. UNCHANGED says
    BY <1>6 DEF clientVars
  <2>3. QED
    BY <1>2, <2>1, <2>2
<1>7. ASSUME NEW c \in Client, ClientStep(c), UNCHANGED serverVars
      PROVE  MessageInv'
  <2>1. UNCHANGED <<topic, said, ID_LIST, delivered>>
    BY <1>7 DEF serverVars, serverState, history
  <2>2. CASE TypeText(c)
    BY <1>7, <2>2, MessageTyped
  <2>3. CASE UNCHANGED <<says, inbox>>
    BY <1>3, <2>1, <2>3
  <2>4. ASSUME UNCHANGED says, NEW d \in Datagram, d.type \notin {"REQ_SAY", "S2S_SAY"},
               inbox' = SendAll(inbox, {Home[c]}, d)
        PROVE  MessageInv'
    BY <1>2, <2>1, <2>4
  <2>5. QED
    BY <1>7, <2>2, <2>3, <2>4, OnlyTextSays
<1>8. QED
  BY <1>3, <1>5, <1>6, <1>7, RoomSteps
     DEF StartSweep, vars, netVars, clientVars, serverVars, serverState, history

----------------------------------------------------------------------------
(***************************************************************************)
(* The invariant, and the steps of the abstract specification.             *)
(***************************************************************************)
RoomInv == TypeOK /\ CountsAgree /\ SweepInv /\ Placed /\ Bounded /\ MessageInv

LEMMA RoomInit ==
  ASSUME Init
  PROVE  SweepInv /\ Placed /\ Bounded /\ MessageInv
<1>1. /\ user_list = [s \in Server |-> <<>>]
      /\ channel_list = [s \in Server |-> [x \in {} |-> create_channel(0, 0)]]
      /\ ID_LIST = [s \in Server |-> <<>>]
      /\ sweep = [s \in Server |-> {}]
      /\ delivered = [c \in Client |-> [t \in Text |-> 0]]
      /\ topic = [m \in Message |-> NoChannel]
      /\ said = [s \in Server |-> [id \in Id |-> 0]]
      /\ inbox = [s \in Server |-> <<>>]
      /\ phase = [c \in Client |-> "off"] /\ typed = 0
  BY DEF Init, NetInit, ServerInit, ClientInit
<1>2. \A s \in Server, x \in Channel : ~Has(s, x)
  BY <1>1 DEF Has
<1>3. \A s \in Server, d \in Datagram : InFlight(s, d) = 0
  <2>1. <<>> \in Seq(Datagram) /\ DOMAIN <<>> = {}
    OBVIOUS
  <2>2. \A d \in Datagram : Occurrences(<<>>, d) = 0
    BY <2>1, OccurrencesBasics
  <2>3. QED
    BY <1>1, <2>2 DEF InFlight
<1>4. Placed
  BY <1>1, <1>2, <1>3 DEF Placed, FedBy, Users
<1>5. Bounded
  <2>1. ASSUME NEW c \in Client, NEW x \in Channel
        PROVE  /\ Entries(x, c) = 0 /\ InFlight(Home[c], JoinOf(c, x)) = 0
               /\ JoinsSentBy(c) = 0
    <3>1. Home[c] \in Server /\ JoinOf(c, x) \in Datagram
      BY ProtocolAssumption, DatagramsSent DEF JoinOf, Node
    <3>2. QED
      BY <1>1, <1>2, <1>3, <3>1 DEF Entries, JoinsSentBy
  <2>2. QED
    BY <2>1 DEF Bounded
<1>6. MessageInv
  <2>1. \A s \in Server, id \in Id : ~HasSaid(s, id) /\ ~SeenBefore(s, id)
    BY <1>1 DEF HasSaid, SeenBefore
  <2>2. \A m \in Message : Draws[m] \subseteq Id
    BY ServerAssumption
  <2>3. ASSUME NEW m \in Message, NEW c \in Client
        PROVE  ~(CopiesSent(m, c) > 0) /\ ~(delivered[c][[msg |-> m, whole |-> FALSE]] > 0)
    <3>1. delivered[c][[msg |-> m, whole |-> FALSE]] = 0 /\ delivered[c][[msg |-> m, whole |-> TRUE]] = 0
      BY <1>1 DEF Text
    <3>2. QED
      BY <3>1 DEF CopiesSent
  <2>4. FreshSays
    BY <1>1, <1>3 DEF FreshSays
  <2>5. OneOrigin
    BY <2>1, <2>2 DEF OneOrigin
  <2>6. Flooding
    BY <1>3, <2>1 DEF Flooding
  <2>7. Handed
    BY <2>3 DEF Handed
  <2>8. QED
    BY <2>4, <2>5, <2>6, <2>7 DEF MessageInv
<1>7. QED
  BY <1>1, <1>4, <1>5, <1>6 DEF SweepInv

\* The users of channel x at server s.
Listeners(s, x) == {c \in Client : Home[c] = s /\ Entries(x, c) > 0}

\* A text that nobody at s was sent yet is handed to the listeners, one copy for
\* each entry.
LEMMA CopiesHanded ==
  ASSUME MaxCopies > MaxCommands, TypeOK, Placed, Bounded,
         NEW s \in Server, NEW x \in Channel, NEW t \in Text, Delivers(s, x, t),
         NEW n \in Message, NEW c \in Client,
         n = t.msg /\ Home[c] = s => ~(CopiesSent(n, c) > 0)
  PROVE  CopiesSent(n, c)' = IF n = t.msg /\ c \in Listeners(s, x) THEN Entries(x, c)
                             ELSE CopiesSent(n, c)
<1> DEFINE whole == [msg |-> n, whole |-> TRUE]
           part == [msg |-> n, whole |-> FALSE]
<1>1. whole \in Text /\ part \in Text /\ (t = whole \/ t = part <=> n = t.msg)
      /\ ~(t = whole /\ t = part)
  BY DEF Text
<1>2. delivered[c][whole] \in Nat /\ delivered[c][part] \in Nat /\ MaxCopies \in Nat
  BY <1>1, ServerAssumption DEF TypeOK, ServerTypeOK
<1>3. CopiesSent(n, c) = delivered[c][whole] + delivered[c][part]
      /\ CopiesSent(n, c)' = delivered'[c][whole] + delivered'[c][part]
  BY DEF CopiesSent
<1>4. Entries(x, c) \in Nat /\ Entries(x, c) <= MaxCopies
  <2>1. Home[c] \in Server /\ NetTypeOK
    BY ProtocolAssumption DEF TypeOK
  <2>2. Entries(x, c) \in Nat /\ InFlight(Home[c], JoinOf(c, x)) \in Nat
    BY <2>1, EntriesAre, InFlightType
  <2>3. Entries(x, c) + InFlight(Home[c], JoinOf(c, x)) <= JoinsSentBy(c)
    BY DEF Bounded
  <2>4. JoinsSentBy(c) \in Nat /\ JoinsSentBy(c) <= MaxCommands + 1 /\ MaxCommands \in Nat
    BY ClientAssumption DEF JoinsSentBy, TypeOK, ClientTypeOK
  <2>5. QED
    BY <1>2, <2>2, <2>3, <2>4
<1>5. \A u \in {whole, part} :
        delivered'[c][u] = IF u = t /\ Home[c] = s THEN Copies(delivered[c][u] + Entries(x, c))
                           ELSE delivered[c][u]
  BY <1>1 DEF Delivers
<1> HIDE DEF whole, part
<1>6. CASE n = t.msg /\ Home[c] = s
  <2>1. delivered[c][whole] = 0 /\ delivered[c][part] = 0
    <3>1. ~(CopiesSent(n, c) > 0)
      BY <1>6
    <3>2. QED
      BY <1>2, <1>3, <3>1
  <2>2. Copies(0 + Entries(x, c)) = Entries(x, c)
    BY <1>2, <1>4 DEF Copies
  <2>3. /\ t = whole => delivered'[c][whole] = Entries(x, c) /\ delivered'[c][part] = 0
        /\ t = part => delivered'[c][part] = Entries(x, c) /\ delivered'[c][whole] = 0
    BY <1>1, <1>5, <1>6, <2>1, <2>2
  <2>4. CopiesSent(n, c)' = Entries(x, c)
    BY <1>1, <1>3, <1>4, <1>6, <2>3
  <2>5. CopiesSent(n, c) = 0
    BY <1>3, <2>1
  <2>6. c \notin Listeners(s, x) => Entries(x, c) = 0
    BY <1>4, <1>6 DEF Listeners
  <2>7. QED
    BY <1>6, <2>4, <2>5, <2>6
<1>7. CASE ~(n = t.msg /\ Home[c] = s)
  <2>1. delivered'[c][whole] = delivered[c][whole] /\ delivered'[c][part] = delivered[c][part]
    BY <1>1, <1>5, <1>7
  <2>2. CopiesSent(n, c)' = CopiesSent(n, c)
    BY <1>3, <2>1
  <2>3. QED
    BY <1>7, <2>2 DEF Listeners
<1>8. QED
  BY <1>6, <1>7

\* The steps as the abstract specification has them.
EntriesStay == \A y \in Channel, b \in Client : Entries(y, b)' = Entries(y, b)
CopiesStay == \A n \in Message, b \in Client : CopiesSent(n, b)' = CopiesSent(n, b)

LEMMA RoomStutters ==
  ASSUME EntriesStay, CopiesStay, UNCHANGED topic
  PROVE  UNCHANGED Room!roomVars
  BY DEF EntriesStay, CopiesStay, Room!roomVars

LEMMA RoomEnter ==
  ASSUME Placed, NEW c \in Client, NEW x \in Channel, EntersRoom(c, x), CopiesStay, UNCHANGED topic
  PROVE  Room!Enter(c, x)
<1>1. \A y \in Channel, b \in Client :
        Entries(y, b)' = IF y = x /\ b = c THEN Entries(y, b) + 1 ELSE Entries(y, b)
  BY EntriesAre DEF EntersRoom
<1>2. QED
  BY <1>1 DEF CopiesStay, Room!Enter

LEMMA RoomLeave ==
  ASSUME Placed, NEW c \in Client, NEW X \in SUBSET Channel, LeavesRoom(c, X), CopiesStay,
         UNCHANGED topic
  PROVE  Room!Leave(c, X)
<1>1. \A y \in Channel, b \in Client :
        Entries(y, b)' = IF y \in X /\ b = c THEN Entries(y, b) - 1 ELSE Entries(y, b)
  BY EntriesAre DEF LeavesRoom
<1>2. \A x \in X : Entries(x, c) > 0
  BY DEF LeavesRoom
<1>3. QED
  BY <1>1, <1>2 DEF CopiesStay, Room!Leave

LEMMA RoomHand ==
  ASSUME EntriesStay, NEW m \in Message, NEW x \in Channel, NEW C \in SUBSET Client,
         \A c \in C : Entries(x, c) > 0 /\ CopiesSent(m, c) = 0,
         \A n \in Message, c \in Client :
           CopiesSent(n, c)' = IF n = m /\ c \in C THEN Entries(x, c) ELSE CopiesSent(n, c)
  PROVE  Room!Hand(m, x, C)
  BY DEF EntriesStay, Room!Hand

\* A text is handed to the listeners of a server, or to nobody.
LEMMA RoomHands ==
  ASSUME MaxCopies > MaxCommands, TypeOK, Placed, Bounded, EntriesStay,
         NEW s \in Server, NEW x \in Channel, NEW t \in Text, NEW m \in Message, m = t.msg,
         UNCHANGED delivered \/ Delivers(s, x, t),
         \A c \in Client : Home[c] = s => ~(CopiesSent(m, c) > 0)
  PROVE  \E C \in SUBSET Client : Room!Hand(m, x, C)
<1>1. CASE UNCHANGED delivered
  <2>1. \A n \in Message, c \in Client : CopiesSent(n, c)' = CopiesSent(n, c)
    BY <1>1 DEF CopiesSent
  <2>2. Room!Hand(m, x, {})
    BY <2>1, RoomHand DEF CopiesSent
  <2>3. QED
    BY <2>2
<1>2. CASE Delivers(s, x, t)
  <2>1. PICK C \in SUBSET Client : C = Listeners(s, x)
    BY DEF Listeners
  <2>2. \A n \in Message, c \in Client :
          CopiesSent(n, c)' = IF n = m /\ c \in C THEN Entries(x, c) ELSE CopiesSent(n, c)
    <3>1. ASSUME NEW n \in Message, NEW c \in Client
          PROVE  CopiesSent(n, c)' = IF n = m /\ c \in C THEN Entries(x, c) ELSE CopiesSent(n, c)
      BY <1>2, <2>1, CopiesHanded
    <3>2. QED
      BY <3>1 DEF CopiesSent
  <2>3. \A c \in C : Entries(x, c) > 0 /\ CopiesSent(m, c) = 0
    <3>1. [msg |-> m, whole |-> TRUE] \in Text /\ [msg |-> m, whole |-> FALSE] \in Text
      BY DEF Text
    <3>2. \A c \in Client : CopiesSent(m, c) \in Nat
      BY <3>1, ServerAssumption DEF CopiesSent, TypeOK, ServerTypeOK
    <3>3. QED
      BY <2>1, <3>2 DEF Listeners
  <2>4. Room!Hand(m, x, C)
    BY <2>2, <2>3, RoomHand DEF CopiesSent
  <2>5. QED
    BY <2>4
<1>3. QED
  BY <1>1, <1>2

\* A user says something: his server hands it on.
LEMMA RoomSay ==
  ASSUME MaxCopies > MaxCommands, RoomInv,
         NEW s \in Server, NEW i, NEW id, NEW D, NEW e, UserSaid(s, i, id, D, e), UsersKept
  PROVE  Room!Next
<1> DEFINE d == inbox[s][i]
<1>0. TypeOK /\ Placed /\ Bounded /\ MessageInv
  BY DEF RoomInv
<1>1. /\ d \in Datagram /\ d.type = "REQ_SAY" /\ InFlight(s, d) > 0
      /\ d.channel \in Channel /\ d.text \in Text
  <2>1. d \in Datagram /\ d.type = "REQ_SAY" /\ i \in DOMAIN inbox[s]
    BY DEF UserSaid
  <2>2. InFlight(s, d) > 0
    BY <1>0, <2>1, InFlightType DEF TypeOK
  <2>3. QED
    BY <2>1, <2>2, DatagramFields
<1>2. PICK m \in Message, x \in Channel, t \in Text :
        m = d.text.msg /\ x = d.channel /\ t = d.text
  BY <1>1 DEF Text
<1>3. topic[m] = NoChannel /\ topic' = [topic EXCEPT ![m] = x]
  BY <1>0, <1>1, <1>2 DEF MessageInv, FreshSays, UserSaid
<1>4. ASSUME NEW c \in Client
      PROVE  ~(CopiesSent(m, c) > 0)
  <2>1. \A r \in Server, jd \in Draws[m] : ~HasSaid(r, jd)
    BY <1>0, <1>3 DEF MessageInv, OneOrigin
  <2>2. \A r \in Server, jd \in Draws[m] : ~SeenBefore(r, jd)
    <3>1. Draws[m] \subseteq Id
      BY ServerAssumption
    <3>2. QED
      BY <1>0, <2>1, <3>1 DEF MessageInv, Flooding
  <2>3. Home[c] \in Server
    BY ProtocolAssumption
  <2>4. QED
    BY <1>0, <2>1, <2>2, <2>3 DEF MessageInv, Handed
<1>5. EntriesStay
  BY <1>0, EntriesKept DEF EntriesStay
<1>6. UNCHANGED delivered \/ Delivers(s, x, t)
  BY <1>2 DEF UserSaid
<1>7. \E C \in SUBSET Client : Room!Hand(m, x, C)
  BY <1>0, <1>2, <1>4, <1>5, <1>6, RoomHands DEF Entries, Has, CopiesSent
<1>8. Room!Say(m, x)
  BY <1>3, <1>7 DEF Room!Say
<1>9. QED
  BY <1>8 DEF Room!Next

\* A server gets a message for the first time: it hands it on.
LEMMA RoomRelay ==
  ASSUME MaxCopies > MaxCommands, Acyclic(Adjacent), RoomInv,
         NEW s \in Server, NEW i, NEW D, NEW e, ServerSaid(s, i, D, e), UsersKept
  PROVE  Room!Next
<1> DEFINE d == inbox[s][i]
<1>0. TypeOK /\ Placed /\ Bounded /\ MessageInv
  BY DEF RoomInv
<1>1. /\ d.channel \in Channel /\ d.channel = topic[d.text.msg]
      /\ d.text \in Text /\ d.text.msg \in Message
  BY <1>0, ServerSaidOrigin
<1>2. Clip(d.text) \in Text /\ Clip(d.text).msg = d.text.msg
  BY <1>1 DEF Text, Clip
<1>3. PICK m \in Message, x \in Channel, t \in Text :
        m = d.text.msg /\ x = d.channel /\ t = Clip(d.text)
  BY <1>1, <1>2
<1>4. topic[m] = x /\ topic[m] # NoChannel /\ UNCHANGED topic
  BY <1>1, <1>3, ProtocolAssumption DEF ServerSaid
<1>5. EntriesStay
  BY <1>0, EntriesKept DEF EntriesStay
<1>6. UNCHANGED delivered \/ Delivers(s, x, t)
  BY <1>3 DEF ServerSaid
<1>7. \A c \in Client : Home[c] = s => ~(CopiesSent(m, c) > 0)
  BY <1>0, <1>3, ServerSaidFirst
<1>8. \E C \in SUBSET Client : Room!Hand(m, x, C)
  BY <1>0, <1>2, <1>3, <1>5, <1>6, <1>7, RoomHands DEF Entries, Has, CopiesSent
<1>9. Room!Relay(m)
  BY <1>4, <1>8 DEF Room!Relay
<1>10. QED
  BY <1>9 DEF Room!Next

\* Anything else that a server handles: someone enters or leaves, or nothing
\* that users could see happens.
LEMMA RoomQuiet ==
  ASSUME NamesDiffer, RoomInv, NEW s \in Server, NEW i, NEW D, NEW e,
         Handles(s, i, D, e), Quiet(e)
  PROVE  Room!Next \/ UNCHANGED Room!roomVars
<1> DEFINE d == inbox[s][i]
<1>0. TypeOK /\ Placed
  BY DEF RoomInv
<1>1. UsersEffect(d) /\ d \in Datagram
  BY <1>0 DEF Handles, TypeOK, NetTypeOK
<1>2. UNCHANGED topic /\ CopiesStay
  BY DEF Quiet, CopiesStay, CopiesSent
<1>3. CASE UsersKept
  <2>1. EntriesStay
    BY <1>0, <1>3, EntriesKept DEF EntriesStay
  <2>2. QED
    BY <1>2, <2>1, RoomStutters
<1>4. CASE d.type = "REQ_JOIN" /\ d.src \in Client /\ UsersEnter(d.src, d.channel)
  <2>1. PICK c \in Client, x \in Channel : c = d.src /\ x = d.channel
    BY <1>1, <1>4, DatagramFields
  <2>2. UsersEnter(c, x)
    BY <1>4, <2>1
  <2>3. EntersRoom(c, x)
    BY <1>0, <2>2, EntriesEntered
  <2>4. Room!Enter(c, x)
    BY <1>0, <1>2, <2>3, RoomEnter
  <2>5. QED
    BY <2>4 DEF Room!Next
<1>5. CASE d.src \in Client /\ \E X \in SUBSET Channel : UsersLeave(d.src, X)
  <2>1. PICK c \in Client, X \in SUBSET Channel : UsersLeave(c, X)
    BY <1>5
  <2>2. PICK Y \in SUBSET Channel : Y = {x \in X : Entries(x, c) > 0}
    OBVIOUS
  <2>3. LeavesRoom(c, Y)
    BY <1>0, <2>1, <2>2, EntriesLeft
  <2>4. Room!Leave(c, Y)
    BY <1>0, <1>2, <2>3, RoomLeave
  <2>5. QED
    BY <2>4 DEF Room!Next
<1>6. QED
  BY <1>1, <1>3, <1>4, <1>5 DEF UsersEffect

LEMMA RoomStep ==
  ASSUME MaxFaults = 0, MaxCopies > MaxCommands, NamesDiffer, Acyclic(Adjacent),
         RoomInv, [Next]_vars
  PROVE  [Room!Next]_Room!roomVars
<1>0. TypeOK /\ CountsAgree /\ Placed
  BY DEF RoomInv
<1>1. ASSUME UNCHANGED <<channel_list, topic, delivered>>
      PROVE  UNCHANGED Room!roomVars
  BY <1>1, RoomStutters DEF EntriesStay, CopiesStay, Entries, Has, CopiesSent
<1>2. ASSUME NEW s \in Server, Receive(s), UNCHANGED clientVars
      PROVE  Room!Next \/ UNCHANGED Room!roomVars
  <2>1. CASE RecvSay(s)
    <3>1. UsersKept
      BY <1>0, <2>1, SayRequestHandles
    <3>2. CASE UNCHANGED <<channel_list, topic, delivered>>
      BY <1>1, <3>2
    <3>3. ASSUME NEW i, NEW id, NEW D, NEW e, UserSaid(s, i, id, D, e)
          PROVE  Room!Next
      BY <3>1, <3>3, RoomSay
    <3>4. QED
      BY <1>0, <1>2, <2>1, <3>2, <3>3, SayRequestSteps
  <2>2. CASE RecvS2SSay(s)
    <3>1. UsersKept
      BY <1>0, <2>2, S2SSayHandles
    <3>2. CASE UNCHANGED <<channel_list, topic, delivered>>
      BY <1>1, <3>2
    <3>3. ASSUME NEW i, NEW D, NEW e, ServerSaid(s, i, D, e)
          PROVE  Room!Next
      BY <3>1, <3>3, RoomRelay
    <3>4. QED
      BY <1>0, <1>2, <2>2, <3>2, <3>3, S2SSaySteps
  <2>3. ASSUME NEW i, NEW D, NEW e, Handles(s, i, D, e), Quiet(e)
        PROVE  Room!Next \/ UNCHANGED Room!roomVars
    BY <2>3, RoomQuiet
  <2>4. QED
    BY <1>0, <1>2, <2>1, <2>2, <2>3, ReceiveHandles
<1>3. CASE \E s \in Server : SweepChannel(s)
  BY <1>1, <1>3 DEF SweepChannel
<1>4. QED
  BY <1>0, <1>1, <1>2, <1>3, RoomSteps
     DEF StartSweep, vars, netVars, serverVars, serverState, history

LEMMA RoomInvariant ==
  ASSUME MaxFaults = 0, Uninit = {0}, NamesDiffer, NeighboursMutual, DrawsDiffer,
         Acyclic(Adjacent)
  PROVE  Spec => []RoomInv
<1> DEFINE Others == SweepInv /\ Placed /\ Bounded /\ MessageInv
<1>1. Init => Others
  BY RoomInit
<1>2. TypeOK /\ CountsAgree /\ Others /\ [Next]_vars => Others'
  <2> SUFFICES ASSUME TypeOK, CountsAgree, Others, [Next]_vars
               PROVE  Others'
    OBVIOUS
  <2>1. QED
    BY SweepInvStep, PlacedStep, BoundedStep, MessageInvStep
<1>3. TypeOK /\ CountsAgree /\ Others => RoomInv
  BY DEF RoomInv
<1> HIDE DEF Others
<1>4. QED
  BY <1>1, <1>2, <1>3, TypeCorrect, CountsCorrect, PTL DEF Spec

\* ChatRoom, the promise of one server: where the topology has no cycles (start
\* scripts), neighbours know each other and the network neither loses nor doubles
\* datagrams, the servers of server.c keep it, whatever they prune and in
\* whatever order datagrams arrive; identifiers drawn from /dev/urandom are
\* assumed to differ between messages.
THEOREM RoomCorrect ==
  ASSUME MaxFaults = 0, Uninit = {0}, MaxCopies > MaxCommands,
         NamesDiffer, NeighboursMutual, DrawsDiffer, Acyclic(Adjacent)
  PROVE  Spec => ImplementsRoom
<1>1. Init => Room!Init
  <2> SUFFICES ASSUME Init
               PROVE  Room!Init
    OBVIOUS
  <2>1. \A x \in Channel, c \in Client : Entries(x, c) = 0
    BY ProtocolAssumption DEF Init, ServerInit, Entries, Has
  <2>2. \A m \in Message, c \in Client : CopiesSent(m, c) = 0
    BY DEF Init, ServerInit, CopiesSent, Text
  <2>3. topic = [m \in Message |-> NoChannel]
    BY DEF Init, ServerInit
  <2>4. QED
    BY <2>1, <2>2, <2>3 DEF Room!Init
<1>2. RoomInv /\ [Next]_vars => [Room!Next]_Room!roomVars
  BY RoomStep
<1>3. QED
  BY <1>1, <1>2, RoomInvariant, PTL DEF Spec, ImplementsRoom, Room!Spec

\* say(): the users of the author's own server get the text from his REQ_SAY,
\* never a copy clipped on its way between servers, provided that there is one
\* way only between two servers.
THEOREM WholeAtHomeCorrect ==
  ASSUME MaxFaults = 0, Uninit = {0}, NamesDiffer, NeighboursMutual, DrawsDiffer,
         Acyclic(Adjacent)
  PROVE  Spec => []WholeAtHome
<1>1. RoomInv => WholeAtHome
  <2> SUFFICES ASSUME RoomInv, NEW c \in Client, NEW m \in Message,
                      NEW id \in Draws[m], said[Home[c]][id] > 0,
                      delivered[c][[msg |-> m, whole |-> FALSE]] # 0
               PROVE  FALSE
    BY DEF WholeAtHome
  <2>0. TypeOK /\ MessageInv
    BY DEF RoomInv
  <2>1. delivered[c][[msg |-> m, whole |-> FALSE]] > 0
    <3>1. [msg |-> m, whole |-> FALSE] \in Text
      BY DEF Text
    <3>2. delivered[c][[msg |-> m, whole |-> FALSE]] \in Nat
      BY <2>0, <3>1, ServerAssumption DEF TypeOK, ServerTypeOK
    <3>3. QED
      BY <3>2
  <2>2. PICK jd \in Draws[m] : SeenBefore(Home[c], jd)
    BY <2>0, <2>1 DEF MessageInv, Handed
  <2>3. jd \in Id /\ Home[c] \in Server
    BY ServerAssumption, ProtocolAssumption
  <2>4. PICK o \in Server \ {Home[c]} : HasSaid(o, jd)
    BY <2>0, <2>2, <2>3 DEF MessageInv, Flooding
  <2>5. HasSaid(Home[c], id)
    BY DEF HasSaid
  <2>6. QED
    BY <2>0, <2>2, <2>3, <2>4, <2>5 DEF MessageInv, OneOrigin
<1>2. QED
  BY <1>1, RoomInvariant, PTL
=============================================================================
