------------------------ MODULE RelayNetTurns_proofs ------------------------
(***************************************************************************)
(* What RelayNet owes to users who take turns: on a topology without       *)
(* cycles neighbours agree whether they feed each other a channel, only a  *)
(* server that asked to leave is taken out of one, and what a member of a  *)
(* channel says can reach every other.                                     *)
(***************************************************************************)
EXTENDS RelayNetRoom_proofs

----------------------------------------------------------------------------
(***************************************************************************)
(* Queues of datagrams.                                                    *)
(***************************************************************************)
Holds(q, d) == \E k \in DOMAIN q : q[k] = d
Once(q, E) == \A j, k \in DOMAIN q : q[j] \in E /\ q[k] \in E => j = k
Before(q, e, d) == \A j, k \in DOMAIN q : q[j] = e /\ q[k] = d => j < k

\* Node n is in F once everything in q is handled, where datagram on enters it and
\* datagram off takes it out.
Ends(q, n, F, on, off) ==
  \/ \E j \in DOMAIN q : q[j] = on /\ \A k \in DOMAIN q : q[k] = off => k < j
  \/ n \in F /\ ~Holds(q, off)

\* A queue to which e was appended.
LEMMA Appended ==
  ASSUME NEW S, NEW q \in Seq(S), NEW e \in S
  PROVE  /\ DOMAIN Append(q, e) = DOMAIN q \cup {Len(q) + 1}
         /\ DOMAIN q = 1 .. Len(q) /\ Len(q) \in Nat
         /\ Append(q, e)[Len(q) + 1] = e
         /\ \A k \in DOMAIN q : Append(q, e)[k] = q[k]
<1>1. DOMAIN q = 1 .. Len(q) /\ Len(q) \in Nat
  BY LenProperties
<1>2. /\ Append(q, e) \in Seq(S) /\ Len(Append(q, e)) = Len(q) + 1
      /\ Append(q, e)[Len(q) + 1] = e
      /\ \A j \in 1 .. Len(q) : Append(q, e)[j] = q[j]
  BY AppendProperties
<1>3. DOMAIN Append(q, e) = 1 .. Len(q) + 1
  BY <1>2, LenProperties
<1>4. QED
  BY <1>1, <1>2, <1>3

LEMMA HoldsAppended ==
  ASSUME NEW S, NEW q \in Seq(S), NEW e \in S, NEW d
  PROVE  Holds(Append(q, e), d) <=> Holds(q, d) \/ d = e
BY Appended DEF Holds

LEMMA OnceAppended ==
  ASSUME NEW S, NEW q \in Seq(S), NEW e \in S, NEW E, Once(q, E),
         e \in E => \A d \in E : ~Holds(q, d)
  PROVE  Once(Append(q, e), E)
<1>1. SUFFICES ASSUME NEW j \in DOMAIN Append(q, e), NEW k \in DOMAIN Append(q, e),
                      Append(q, e)[j] \in E, Append(q, e)[k] \in E
               PROVE  j = k
  BY DEF Once
<1>2. ASSUME e \in E, NEW i \in DOMAIN q, q[i] \in E PROVE FALSE
  BY <1>2 DEF Holds
<1>3. QED
  BY <1>1, <1>2, Appended DEF Once

LEMMA BeforeAppended ==
  ASSUME NEW S, NEW q \in Seq(S), NEW e \in S, NEW a, NEW d, Before(q, a, d), a # d,
         e = a => ~Holds(q, d)
  PROVE  Before(Append(q, e), a, d)
<1>1. SUFFICES ASSUME NEW j \in DOMAIN Append(q, e), NEW k \in DOMAIN Append(q, e),
                      Append(q, e)[j] = a, Append(q, e)[k] = d
               PROVE  j < k
  BY DEF Before
<1>2. ~(e = a /\ k \in DOMAIN q)
  BY <1>1, Appended DEF Holds
<1>3. QED
  BY <1>1, <1>2, Appended DEF Before

LEMMA EndsAppended ==
  ASSUME NEW S, NEW q \in Seq(S), NEW e \in S, NEW n, NEW F, NEW on, NEW off, on # off
  PROVE  /\ e = on => Ends(Append(q, e), n, F, on, off)
         /\ e = off => ~Ends(Append(q, e), n, F, on, off)
         /\ e # on /\ e # off => (Ends(Append(q, e), n, F, on, off) <=> Ends(q, n, F, on, off))
<1> DEFINE r == Append(q, e)
<1>1. /\ DOMAIN r = DOMAIN q \cup {Len(q) + 1} /\ DOMAIN q = 1 .. Len(q) /\ Len(q) \in Nat
      /\ r[Len(q) + 1] = e /\ \A k \in DOMAIN q : r[k] = q[k]
  BY Appended
<1>2. Holds(r, off) <=> Holds(q, off) \/ off = e
  BY HoldsAppended
<1> HIDE DEF r
<1>3. ASSUME e = on PROVE Ends(r, n, F, on, off)
  BY <1>1, <1>3 DEF Ends
<1>4. ASSUME e = off, Ends(r, n, F, on, off) PROVE FALSE
  BY <1>1, <1>2, <1>4 DEF Ends
<1>5. ASSUME e # on, e # off PROVE Ends(r, n, F, on, off) <=> Ends(q, n, F, on, off)
  BY <1>1, <1>2, <1>5 DEF Ends
<1>6. QED
  BY <1>3, <1>4, <1>5 DEF r

\* A queue whose oldest datagram was taken.
LEMMA Taken ==
  ASSUME NEW S, NEW q \in Seq(S), Len(q) # 0
  PROVE  /\ DOMAIN q = 1 .. Len(q) /\ Len(q) \in Nat /\ 1 \in DOMAIN q
         /\ RemoveAt(q, 1) \in Seq(S)
         /\ DOMAIN RemoveAt(q, 1) = 1 .. Len(q) - 1
         /\ \A k \in DOMAIN RemoveAt(q, 1) : RemoveAt(q, 1)[k] = q[k + 1]
<1>1. DOMAIN q = 1 .. Len(q) /\ Len(q) \in Nat /\ 1 \in DOMAIN q
  BY LenProperties
<1>2. /\ RemoveAt(q, 1) \in Seq(S) /\ Len(RemoveAt(q, 1)) = Len(q) - 1
      /\ \A j \in 1 .. Len(q) - 1 : RemoveAt(q, 1)[j] = IF j < 1 THEN q[j] ELSE q[j + 1]
  BY <1>1, RemoveAtProperties
<1>3. DOMAIN RemoveAt(q, 1) = 1 .. Len(q) - 1
  BY <1>2, LenProperties
<1>4. \A k \in 1 .. Len(q) - 1 : ~(k < 1)
  BY <1>1
<1>5. QED
  BY <1>1, <1>2, <1>3, <1>4

LEMMA HoldsTaken ==
  ASSUME NEW S, NEW q \in Seq(S), Len(q) # 0, NEW d
  PROVE  /\ Holds(q, d) <=> q[1] = d \/ Holds(RemoveAt(q, 1), d)
         /\ Holds(q, q[1])
<1> DEFINE r == RemoveAt(q, 1)
<1>1. /\ DOMAIN q = 1 .. Len(q) /\ Len(q) \in Nat /\ 1 \in DOMAIN q
      /\ DOMAIN r = 1 .. Len(q) - 1 /\ \A k \in DOMAIN r : r[k] = q[k + 1]
  BY Taken
<1> HIDE DEF r
<1>2. ASSUME NEW k \in DOMAIN q, q[k] = d, q[1] # d PROVE Holds(r, d)
  <2>1. k - 1 \in DOMAIN r /\ (k - 1) + 1 = k
    BY <1>1, <1>2
  <2>2. r[k - 1] = d
    BY <1>1, <1>2, <2>1
  <2>3. QED
    BY <2>1, <2>2 DEF Holds
<1>3. ASSUME NEW k \in DOMAIN r, r[k] = d PROVE Holds(q, d)
  <2>1. k + 1 \in DOMAIN q
    BY <1>1
  <2>2. QED
    BY <1>1, <1>3, <2>1 DEF Holds
<1>4. QED
  BY <1>1, <1>2, <1>3 DEF Holds, r

LEMMA OnceTaken ==
  ASSUME NEW S, NEW q \in Seq(S), Len(q) # 0, NEW E, Once(q, E)
  PROVE  /\ Once(RemoveAt(q, 1), E)
         /\ q[1] \in E => \A d \in E : ~Holds(RemoveAt(q, 1), d)
<1> DEFINE r == RemoveAt(q, 1)
<1>1. /\ DOMAIN q = 1 .. Len(q) /\ Len(q) \in Nat /\ 1 \in DOMAIN q
      /\ DOMAIN r = 1 .. Len(q) - 1 /\ \A k \in DOMAIN r : r[k] = q[k + 1]
  BY Taken
<1> HIDE DEF r
<1>2. ASSUME NEW k \in DOMAIN r
      PROVE  k + 1 \in DOMAIN q /\ r[k] = q[k + 1] /\ k + 1 # 1 /\ k \in Int
  BY <1>1
<1>3. ASSUME NEW j \in DOMAIN r, NEW k \in DOMAIN r, r[j] \in E, r[k] \in E
      PROVE  j = k
  <2>1. j + 1 = k + 1
    BY <1>2, <1>3 DEF Once
  <2>2. QED
    BY <1>2, <2>1
<1>4. ASSUME q[1] \in E, NEW k \in DOMAIN r, r[k] \in E
      PROVE  FALSE
  <2>1. k + 1 = 1
    BY <1>1, <1>2, <1>4 DEF Once
  <2>2. QED
    BY <1>2, <2>1
<1>5. QED
  BY <1>3, <1>4 DEF Once, Holds, r

LEMMA BeforeTaken ==
  ASSUME NEW S, NEW q \in Seq(S), Len(q) # 0, NEW a, NEW d, Before(q, a, d)
  PROVE  /\ Before(RemoveAt(q, 1), a, d)
         /\ q[1] = d => ~Holds(RemoveAt(q, 1), a)
<1> DEFINE r == RemoveAt(q, 1)
<1>1. /\ DOMAIN q = 1 .. Len(q) /\ Len(q) \in Nat /\ 1 \in DOMAIN q
      /\ DOMAIN r = 1 .. Len(q) - 1 /\ \A k \in DOMAIN r : r[k] = q[k + 1]
  BY Taken
<1> HIDE DEF r
<1>2. ASSUME NEW k \in DOMAIN r
      PROVE  k + 1 \in DOMAIN q /\ r[k] = q[k + 1] /\ ~(k + 1 < 1) /\ k \in Int
  BY <1>1
<1>3. ASSUME NEW j \in DOMAIN r, NEW k \in DOMAIN r, r[j] = a, r[k] = d
      PROVE  j < k
  <2>1. j + 1 < k + 1
    BY <1>2, <1>3 DEF Before
  <2>2. QED
    BY <1>2, <2>1
<1>4. ASSUME q[1] = d, NEW j \in DOMAIN r, r[j] = a
      PROVE  FALSE
  <2>1. j + 1 < 1
    BY <1>1, <1>2, <1>4 DEF Before
  <2>2. QED
    BY <1>2, <2>1
<1>5. QED
  BY <1>3, <1>4 DEF Before, Holds, r

LEMMA EndsTaken ==
  ASSUME NEW S, NEW q \in Seq(S), Len(q) # 0, NEW n, NEW F, NEW G, NEW on, NEW off, on # off,
         q[1] = on => n \in G, q[1] = off => n \notin G,
         q[1] # on /\ q[1] # off => (n \in G <=> n \in F)
  PROVE  Ends(RemoveAt(q, 1), n, G, on, off) <=> Ends(q, n, F, on, off)
<1> DEFINE r == RemoveAt(q, 1)
<1>1. /\ DOMAIN q = 1 .. Len(q) /\ Len(q) \in Nat /\ 1 \in DOMAIN q
      /\ DOMAIN r = 1 .. Len(q) - 1 /\ \A k \in DOMAIN r : r[k] = q[k + 1]
  BY Taken
<1>2. Holds(q, off) <=> q[1] = off \/ Holds(r, off)
  BY HoldsTaken
<1> HIDE DEF r
<1> DEFINE Late(p) == \E j \in DOMAIN p : p[j] = on /\ \A k \in DOMAIN p : p[k] = off => k < j
<1>3. ASSUME Late(r) PROVE Late(q)
  <2>1. PICK j \in DOMAIN r : r[j] = on /\ \A k \in DOMAIN r : r[k] = off => k < j
    BY <1>3
  <2>2. j + 1 \in DOMAIN q /\ q[j + 1] = on
    BY <1>1, <2>1
  <2>3. ASSUME NEW k \in DOMAIN q, q[k] = off PROVE k < j + 1
    <3>1. CASE k = 1
      BY <1>1, <3>1
    <3>2. CASE k # 1
      <4>1. k - 1 \in DOMAIN r /\ (k - 1) + 1 = k
        BY <1>1, <3>2
      <4>2. r[k - 1] = off
        BY <1>1, <2>3, <4>1
      <4>3. k - 1 < j
        BY <2>1, <4>1, <4>2
      <4>4. QED
        BY <1>1, <4>3
    <3>3. QED
      BY <3>1, <3>2
  <2>4. QED
    BY <2>2, <2>3
<1>4. ASSUME Late(q) PROVE Late(r) \/ (q[1] = on /\ ~Holds(r, off))
  <2>1. PICK j \in DOMAIN q : q[j] = on /\ \A k \in DOMAIN q : q[k] = off => k < j
    BY <1>4
  <2>2. ASSUME NEW k \in DOMAIN r, r[k] = off PROVE k + 1 < j
    BY <1>1, <2>1, <2>2
  <2>3. CASE j = 1
    <3>1. ASSUME NEW k \in DOMAIN r, r[k] = off PROVE FALSE
      BY <1>1, <2>2, <2>3, <3>1
    <3>2. QED
      BY <2>1, <2>3, <3>1 DEF Holds
  <2>4. CASE j # 1
    <3>1. j - 1 \in DOMAIN r /\ (j - 1) + 1 = j
      BY <1>1, <2>4
    <3>2. r[j - 1] = on
      BY <1>1, <2>1, <3>1
    <3>3. ASSUME NEW k \in DOMAIN r, r[k] = off PROVE k < j - 1
      BY <1>1, <2>2, <3>3
    <3>4. QED
      BY <3>1, <3>2, <3>3
  <2>5. QED
    BY <2>3, <2>4
<1>5. ASSUME q[1] = on, ~Holds(r, off) PROVE Late(q)
  <2>1. ASSUME NEW k \in DOMAIN q, q[k] = off PROVE FALSE
    BY <1>2, <1>5, <2>1 DEF Holds
  <2>2. QED
    BY <1>1, <1>5, <2>1
<1>6. ASSUME NEW p, NEW H
      PROVE  Ends(p, n, H, on, off) <=> Late(p) \/ (n \in H /\ ~Holds(p, off))
  BY DEF Ends
<1> HIDE DEF Late
<1>7. QED
  BY <1>2, <1>3, <1>4, <1>5, <1>6 DEF r

----------------------------------------------------------------------------
(***************************************************************************)
(* A turn of the main loop, seen from the network: which datagram is       *)
(* handled, what is sent, whom the server feeds then, and which message it *)
(* enters as said or seen.                                                 *)
(***************************************************************************)
\* The servers that server s feeds channel x.
Feed(s, x) == IF Has(s, x) THEN channel_list[s][x].servers ELSE {}

Oldest(s) == inbox[s][1]
Topic(s) == Oldest(s).channel

\* Server s handles its oldest datagram and sends e to the nodes of D.
Passes(s, D, e) ==
  /\ Len(inbox[s]) # 0
  /\ inbox' = SendAll(After(s, 1), D, e)
  /\ e \in Datagram

\* The servers that have channel x.
Hosts(x) == {s \in Server : Has(s, x)}
HostsKept == \A y \in Channel : Hosts(y)' = Hosts(y)
HostsAre(x, S) == \A y \in Channel : Hosts(y)' = IF y = x THEN S ELSE Hosts(y)

FeedKept == \A r \in Server, y \in Channel : Feed(r, y)' = Feed(r, y)
FeedIs(s, x, F) ==
  \A r \in Server, y \in Channel : Feed(r, y)' = IF r = s /\ y = x THEN F ELSE Feed(r, y)

\* Nobody leaves a channel at server s but whose REQ_LEAVE is handled, and whose
\* REQ_JOIN is handled is in it then.
MembersFollow(s) ==
  \A y \in Channel :
    /\ \A r \in Server \ {s} : Users(r, y)' = Users(r, y)
    /\ \A c \in Client :
         \/ knows(Users(s, y), c) /\ Oldest(s) # [type |-> "REQ_LEAVE", src |-> c, channel |-> y]
         \/ Oldest(s) = JoinOf(c, y)
         => knows(Users(s, y)', c)

\* A datagram of a user that is not passed on, or a message that came before.
Hears(s) ==
  /\ Oldest(s).type # "S2S_LEAVE" /\ (Oldest(s).type = "REQ_JOIN" => Oldest(s).src \in Client)
  /\ Passes(s, {}, Silence(s)) /\ FeedKept /\ HostsKept
  /\ UNCHANGED <<said, ID_LIST>>

\* A server joins a channel that s has.
Admits(s) ==
  /\ Oldest(s).type = "REQ_JOIN" /\ Oldest(s).src \in Server
  /\ Has(s, Topic(s)) /\ HostsKept
  /\ Passes(s, {}, Silence(s)) /\ FeedIs(s, Topic(s), Feed(s, Topic(s)) \cup {Oldest(s).src})
  /\ UNCHANGED <<said, ID_LIST>>

\* Somebody joins a channel that s has not: s joins it at its neighbours.
Opens(s) ==
  /\ Oldest(s).type = "REQ_JOIN"
  /\ ~Has(s, Topic(s)) /\ HostsAre(Topic(s), Hosts(Topic(s)) \cup {s})
  /\ Feed(s, Topic(s)) = {} /\ FeedIs(s, Topic(s), Adjacent[s])
  /\ Passes(s, Adjacent[s] \ {Oldest(s).src}, JoinOf(s, Topic(s)))
  /\ UNCHANGED <<said, ID_LIST>>

\* A server leaves.
Drops(s) ==
  /\ Oldest(s).type = "S2S_LEAVE"
  /\ Passes(s, {}, Silence(s)) /\ HostsKept
  /\ Oldest(s).src \in Feed(s, Topic(s)) =>
       FeedIs(s, Topic(s), Feed(s, Topic(s)) \ {Oldest(s).src})
  /\ UNCHANGED <<said, ID_LIST>>

\* Server s enters the message of the say it handles under identifier id.
Enters(s, id) ==
  \/ /\ Oldest(s).type = "REQ_SAY" /\ id \in Draws[Oldest(s).text.msg]
     /\ said' = [said EXCEPT ![s][id] = Copies(@ + 1)] /\ UNCHANGED ID_LIST
  \/ /\ Oldest(s).type = "S2S_SAY" /\ id = Oldest(s).id /\ ~SeenBefore(s, id)
     /\ ID_LIST' = [ID_LIST EXCEPT ![s] = Append(@, id)] /\ UNCHANGED said

\* It gives the channel up: nobody is fed but the server the message came from.
Prunes(s) ==
  /\ Oldest(s).type = "S2S_SAY" /\ Enters(s, Oldest(s).id)
  /\ Feed(s, Topic(s)) = {Oldest(s).src} /\ FeedIs(s, Topic(s), {})
  /\ Topic(s) \notin DOMAIN channel_list'[s] /\ HostsAre(Topic(s), Hosts(Topic(s)) \ {s})
  /\ Passes(s, {Oldest(s).src}, [type |-> "S2S_LEAVE", src |-> s, channel |-> Topic(s)])

\* It passes the message on.
Relays(s) ==
  \E t \in Text, id \in Id :
    /\ Enters(s, id) /\ t.msg = Oldest(s).text.msg /\ FeedKept /\ HostsKept
    /\ Passes(s, Feed(s, Topic(s)) \ {Oldest(s).src},
              [type |-> "S2S_SAY", src |-> s, channel |-> Topic(s), text |-> t, id |-> id])

\* What the turns rely on that is proved elsewhere.
Ground == TypeOK /\ CountsAgree /\ Placed /\ OrderInv /\ MessageInv

LEMMA FirstTaken ==
  ASSUME Ground, ~Reordering, NEW s \in Server, NEW type, NEW i \in Incoming(s, type)
  PROVE  /\ i = 1 /\ Len(inbox[s]) # 0 /\ 1 \in DOMAIN inbox[s]
         /\ Oldest(s) \in Datagram /\ Oldest(s).type = type /\ Oldest(s) = inbox[s][i]
         /\ Oldest(s).src \in Partners(s)
         /\ Oldest(s).src \in Client => Home[Oldest(s).src] = s
         /\ type # "REQ_LOGIN" /\ Oldest(s).src \in Client => knows(user_list[s], Oldest(s).src)
         /\ inbox' = After(s, i) => Passes(s, {}, Silence(s))
<1>0. TypeOK /\ Placed /\ OrderInv
  BY DEF Ground
<1>1. i = 1 /\ i \in DOMAIN inbox[s] /\ Len(inbox[s]) # 0
  BY <1>0, HeadTaken
<1>2. /\ inbox[s][i] \in Datagram /\ inbox[s][i].type = type /\ inbox[s][i].src \in Partners(s)
      /\ inbox[s][i].src \in Client => Home[inbox[s][i].src] = s
  BY <1>0, Heard
<1>3. type # "REQ_LOGIN" /\ inbox[s][i].src \in Client => knows(user_list[s], inbox[s][i].src)
  BY <1>0, HeardIsKnown
<1>4. inbox' = After(s, 1) => Passes(s, {}, Silence(s))
  BY <1>0, <1>1, SilenceSent DEF Passes
<1>5. QED
  BY <1>1, <1>2, <1>3, <1>4 DEF Oldest

\* The channels of server s are replaced by those of f.
LEMMA TableReplaced ==
  ASSUME TypeOK, NEW s \in Server, NEW f, channel_list' = [channel_list EXCEPT ![s] = f],
         NEW r \in Server, NEW y
  PROVE  /\ Feed(r, y)' = IF r = s THEN (IF y \in DOMAIN f THEN f[y].servers ELSE {}) ELSE Feed(r, y)
         /\ Users(r, y)' = IF r = s THEN (IF y \in DOMAIN f THEN f[y].users ELSE <<>>)
                           ELSE Users(r, y)
         /\ Has(r, y)' <=> IF r = s THEN y \in DOMAIN f ELSE Has(r, y)
<1>1. channel_list'[s] = f /\ \A p \in Server \ {s} : channel_list'[p] = channel_list[p]
  BY DEF TypeOK, ServerTypeOK
<1>2. QED
  BY <1>1 DEF Feed, Users, Has

\* One channel of server s gets record ch, which it had, or not.
LEMMA ChannelSet ==
  ASSUME TypeOK, NEW s \in Server, NEW x, NEW ch,
         \/ Has(s, x) /\ channel_list' = [channel_list EXCEPT ![s][x] = ch]
         \/ channel_list' = [channel_list EXCEPT ![s] = WithChannel(s, x, ch)]
  PROVE  /\ FeedIs(s, x, ch.servers) /\ HostsAre(x, Hosts(x) \cup {s})
         /\ \A r \in Server, y \in Channel :
              Users(r, y)' = IF r = s /\ y = x THEN ch.users ELSE Users(r, y)
<1>1. ASSUME NEW f, channel_list' = [channel_list EXCEPT ![s] = f],
             DOMAIN f = DOMAIN channel_list[s] \cup {x}, f[x] = ch,
             \A y \in DOMAIN channel_list[s] \ {x} : f[y] = channel_list[s][y],
             NEW r \in Server, NEW y \in Channel
      PROVE  /\ Feed(r, y)' = IF r = s /\ y = x THEN ch.servers ELSE Feed(r, y)
             /\ Users(r, y)' = IF r = s /\ y = x THEN ch.users ELSE Users(r, y)
             /\ Has(r, y)' <=> Has(r, y) \/ (r = s /\ y = x)
  <2>1. /\ Feed(r, y)' = IF r = s THEN (IF y \in DOMAIN f THEN f[y].servers ELSE {}) ELSE Feed(r, y)
        /\ Users(r, y)' = IF r = s THEN (IF y \in DOMAIN f THEN f[y].users ELSE <<>>)
                          ELSE Users(r, y)
        /\ Has(r, y)' <=> IF r = s THEN y \in DOMAIN f ELSE Has(r, y)
    BY <1>1, TableReplaced
  <2>2. CASE r = s
    BY <1>1, <2>1, <2>2 DEF Feed, Users, Has
  <2>3. CASE r # s
    BY <2>1, <2>3
  <2>4. QED
    BY <2>2, <2>3
<1>2. ASSUME NEW f, channel_list' = [channel_list EXCEPT ![s] = f],
             DOMAIN f = DOMAIN channel_list[s] \cup {x}, f[x] = ch,
             \A y \in DOMAIN channel_list[s] \ {x} : f[y] = channel_list[s][y]
      PROVE  /\ FeedIs(s, x, ch.servers) /\ HostsAre(x, Hosts(x) \cup {s})
             /\ \A r \in Server, y \in Channel :
                  Users(r, y)' = IF r = s /\ y = x THEN ch.users ELSE Users(r, y)
  <2>1. FeedIs(s, x, ch.servers)
    BY <1>1, <1>2 DEF FeedIs, Feed, Has
  <2>2. HostsAre(x, Hosts(x) \cup {s})
    BY <1>1, <1>2 DEF HostsAre, Hosts, Has
  <2>3. \A r \in Server, y \in Channel :
          Users(r, y)' = IF r = s /\ y = x THEN ch.users ELSE Users(r, y)
    BY <1>1, <1>2 DEF Users, Has
  <2>4. QED
    BY <2>1, <2>2, <2>3
<1>3. CASE Has(s, x) /\ channel_list' = [channel_list EXCEPT ![s][x] = ch]
  <2> DEFINE f == [channel_list[s] EXCEPT ![x] = ch]
  <2>1. channel_list' = [channel_list EXCEPT ![s] = f]
    BY <1>3
  <2>2. /\ DOMAIN f = DOMAIN channel_list[s] \cup {x} /\ f[x] = ch
        /\ \A y \in DOMAIN channel_list[s] \ {x} : f[y] = channel_list[s][y]
    BY <1>3 DEF Has, TypeOK, ServerTypeOK, ChannelTableOK
  <2>3. QED
    BY <1>2, <2>1, <2>2
<1>4. CASE channel_list' = [channel_list EXCEPT ![s] = WithChannel(s, x, ch)]
  <2>1. /\ DOMAIN WithChannel(s, x, ch) = DOMAIN channel_list[s] \cup {x}
        /\ WithChannel(s, x, ch)[x] = ch
        /\ \A y \in DOMAIN channel_list[s] \ {x} : WithChannel(s, x, ch)[y] = channel_list[s][y]
    BY DEF WithChannel
  <2>2. QED
    BY <1>2, <1>4, <2>1
<1>5. QED
  BY <1>3, <1>4

LEMMA StillHosts ==
  ASSUME NEW s \in Server, NEW x, Has(s, x), HostsAre(x, Hosts(x) \cup {s})
  PROVE  HostsKept
BY DEF HostsAre, HostsKept, Hosts

\* The users of a channel after a turn.
LEMMA UsersStay ==
  ASSUME NEW s \in Server, \A r \in Server, y \in Channel : Users(r, y)' = Users(r, y),
         Oldest(s).type = "REQ_JOIN" => Oldest(s).src \notin Client
  PROVE  MembersFollow(s)
BY DEF MembersFollow, JoinOf

LEMMA UserEnters ==
  ASSUME NEW s \in Server, NEW x \in Channel, NEW c \in Client, Users(s, x) \in Seq(Client),
         Oldest(s).type = "REQ_JOIN", Oldest(s).src = c, Topic(s) = x,
         \A r \in Server, y \in Channel :
           Users(r, y)' = IF r = s /\ y = x THEN add_user(Users(s, x), c) ELSE Users(r, y)
  PROVE  MembersFollow(s)
<1>1. \A b \in Client : knows(add_user(Users(s, x), c), b) <=> b = c \/ knows(Users(s, x), b)
  BY AddUserKnows
<1>2. ASSUME NEW y \in Channel, NEW b \in Client, knows(Users(s, y), b) \/ Oldest(s) = JoinOf(b, y)
      PROVE  knows(Users(s, y)', b)
  <2>1. CASE y = x
    <3>1. Users(s, y)' = add_user(Users(s, x), c)
      BY <2>1
    <3>2. b = c \/ knows(Users(s, x), b)
      BY <1>2, <2>1 DEF JoinOf
    <3>3. QED
      BY <1>1, <3>1, <3>2
  <2>2. CASE y # x
    <3>1. Users(s, y)' = Users(s, y) /\ Oldest(s) # JoinOf(b, y)
      BY <2>2 DEF JoinOf, Topic
    <3>2. QED
      BY <1>2, <3>1
  <2>3. QED
    BY <2>1, <2>2
<1>3. QED
  BY <1>2 DEF MembersFollow

LEMMA UserLeaves ==
  ASSUME NamesDiffer, NEW s \in Server, NEW x \in Channel, NEW c \in Client,
         Users(s, x) \in Seq(Client),
         Oldest(s) = [type |-> "REQ_LEAVE", src |-> c, channel |-> x],
         \A r \in Server, y \in Channel :
           Users(r, y)' = IF r = s /\ y = x THEN remove_user(Users(s, x), NameOf[c]) ELSE Users(r, y)
  PROVE  MembersFollow(s)
<1>1. ASSUME NEW y \in Channel, NEW b \in Client, knows(Users(s, y), b),
             Oldest(s) # [type |-> "REQ_LEAVE", src |-> b, channel |-> y]
      PROVE  knows(Users(s, y)', b)
  <2>1. CASE y = x
    <3>1. NameOf[b] # NameOf[c]
      BY <1>1, <2>1 DEF NamesDiffer
    <3>2. knows(remove_user(Users(s, x), NameOf[c]), b)
      BY <1>1, <2>1, <3>1, RemoveUserKnows
    <3>3. Users(s, y)' = remove_user(Users(s, x), NameOf[c])
      BY <2>1
    <3>4. QED
      BY <3>2, <3>3
  <2>2. CASE y # x
    BY <1>1, <2>2
  <2>3. QED
    BY <2>1, <2>2
<1>2. \A b \in Client, y \in Channel : Oldest(s) # JoinOf(b, y)
  BY DEF JoinOf
<1>3. QED
  BY <1>1, <1>2 DEF MembersFollow

\* The channel x that s has.
LEMMA ChannelHad ==
  ASSUME Ground, NEW s \in Server, NEW x, Has(s, x)
  PROVE  /\ x \in Channel
         /\ channel_list[s][x] \in ChannelRecord /\ Counted(channel_list[s][x])
         /\ channel_list[s][x].servers = Feed(s, x) /\ Feed(s, x) \subseteq Adjacent[s]
         /\ IsFiniteSet(Feed(s, x))
         /\ channel_list[s][x].users = Users(s, x) /\ Users(s, x) \in Seq(Client)
<1>1. /\ x \in Channel /\ channel_list[s][x] \in ChannelRecord
      /\ IsFiniteSet(channel_list[s][x].servers) /\ Counted(channel_list[s][x])
  BY CountsAt DEF Ground
<1>2. channel_list[s][x].users \in Seq(Client)
  BY <1>1 DEF ChannelRecord
<1>3. channel_list[s][x].servers \subseteq Adjacent[s]
  BY DEF Ground, OrderInv, FedBy, Has
<1>4. QED
  BY <1>1, <1>2, <1>3 DEF Feed, Users

\* The handlers, one by one.
LEMMA LoginKind ==
  ASSUME Ground, ~Reordering, NEW s \in Server, RecvLogin(s)
  PROVE  Hears(s) /\ MembersFollow(s)
<1>1. PICK i \in Incoming(s, "REQ_LOGIN") :
        inbox' = After(s, i) /\ UNCHANGED <<channel_list, said, ID_LIST>>
  BY DEF RecvLogin, history
<1>2. i = 1 /\ Oldest(s).type = "REQ_LOGIN" /\ Passes(s, {}, Silence(s))
  BY <1>1, FirstTaken
<1>3. FeedKept /\ HostsKept /\ \A r \in Server, y \in Channel : Users(r, y)' = Users(r, y)
  BY <1>1 DEF FeedKept, HostsKept, Hosts, Feed, Users, Has
<1>4. MembersFollow(s)
  BY <1>2, <1>3, UsersStay
<1>5. QED
  BY <1>1, <1>2, <1>3, <1>4 DEF Hears

LEMMA QueryKind ==
  ASSUME Ground, ~Reordering, NEW s \in Server, RecvQuery(s)
  PROVE  Hears(s) /\ MembersFollow(s)
<1>1. PICK type \in {"REQ_LIST", "REQ_WHO"} : \E i \in Incoming(s, type) : inbox' = After(s, i)
  BY DEF RecvQuery
<1>2. UNCHANGED <<channel_list, said, ID_LIST>>
  BY DEF RecvQuery, serverVars, serverState, history
<1>3. Oldest(s).type = type /\ Passes(s, {}, Silence(s))
  BY <1>1, FirstTaken
<1>4. FeedKept /\ HostsKept /\ \A r \in Server, y \in Channel : Users(r, y)' = Users(r, y)
  BY <1>2 DEF FeedKept, HostsKept, Hosts, Feed, Users, Has
<1>5. MembersFollow(s)
  BY <1>3, <1>4, UsersStay
<1>6. QED
  BY <1>2, <1>3, <1>4, <1>5 DEF Hears

LEMMA LeaveKind ==
  ASSUME NamesDiffer, Ground, ~Reordering, NEW s \in Server, RecvLeave(s)
  PROVE  Hears(s) /\ MembersFollow(s)
<1>1. PICK i \in Incoming(s, "REQ_LEAVE") :
        LET d == inbox[s][i] IN
        /\ inbox' = After(s, i) /\ UNCHANGED <<said, ID_LIST>>
        /\ \/ ~knows(user_list[s], d.src)
           \/ channel_list' = IF Has(s, d.channel)
                              THEN [channel_list EXCEPT ![s][d.channel] =
                                      remove_user_from_channel(channel_list[s][d.channel],
                                                               NameOf[d.src])]
                              ELSE channel_list
  BY DEF RecvLeave
<1> DEFINE c == Oldest(s).src
           x == Topic(s)
<1>2. /\ Oldest(s) \in Datagram /\ Oldest(s).type = "REQ_LEAVE" /\ Oldest(s) = inbox[s][i]
      /\ Passes(s, {}, Silence(s))
  BY <1>1, FirstTaken
<1>3. c \in Client /\ x \in Channel /\ Oldest(s) = [type |-> "REQ_LEAVE", src |-> c, channel |-> x]
  BY <1>2 DEF Topic, Datagram, LoginRequest, LogoutRequest, JoinRequest, LeaveRequest, SayRequest,
              ListRequest, WhoRequest, S2SSay, S2SLeave
<1>4. knows(user_list[s], c)
  BY <1>1, <1>2, <1>3, FirstTaken
<1>5. CASE ~Has(s, x)
  <2>1. UNCHANGED channel_list
    BY <1>1, <1>2, <1>4, <1>5 DEF Topic
  <2>2. FeedKept /\ HostsKept /\ \A r \in Server, y \in Channel : Users(r, y)' = Users(r, y)
    BY <2>1 DEF FeedKept, HostsKept, Hosts, Feed, Users, Has
  <2>3. MembersFollow(s)
    BY <1>2, <2>2, UsersStay
  <2>4. QED
    BY <1>1, <1>2, <2>2, <2>3 DEF Hears
<1>6. CASE Has(s, x)
  <2> DEFINE ch == remove_user_from_channel(channel_list[s][x], NameOf[c])
  <2>1. channel_list' = [channel_list EXCEPT ![s][x] = ch]
    BY <1>1, <1>2, <1>4, <1>6 DEF Topic
  <2>2. /\ channel_list[s][x] \in ChannelRecord /\ channel_list[s][x].servers = Feed(s, x)
        /\ channel_list[s][x].users = Users(s, x) /\ Users(s, x) \in Seq(Client)
    BY <1>6, ChannelHad
  <2>3. ch.servers = Feed(s, x) /\ ch.users = remove_user(Users(s, x), NameOf[c])
    BY <2>2, ChannelServers, ChannelUsers
  <2> HIDE DEF ch
  <2>4. /\ FeedIs(s, x, ch.servers) /\ HostsAre(x, Hosts(x) \cup {s})
        /\ \A r \in Server, y \in Channel :
             Users(r, y)' = IF r = s /\ y = x THEN ch.users ELSE Users(r, y)
    BY <1>6, <2>1, ChannelSet DEF Ground, FeedIs, HostsAre, Hosts, Feed, Users, Has
  <2>5. FeedKept /\ HostsKept
    BY <1>6, <2>3, <2>4, StillHosts DEF FeedIs, FeedKept
  <2>6. MembersFollow(s)
    BY <1>3, <2>2, <2>3, <2>4, UserLeaves
  <2>7. QED
    BY <1>1, <1>2, <2>5, <2>6 DEF Hears
<1>7. QED
  BY <1>5, <1>6

\* What join() makes of a record: a known user enters, a server is subscribed.
LEMMA JoinMakes ==
  ASSUME Ground, ~Reordering, NEW s \in Server, NEW i \in Incoming(s, "REQ_JOIN"),
         NEW ch \in ChannelRecord, NEW n, n = Oldest(s).src
  PROVE  /\ n \in Client \/ n \in Adjacent[s]
         /\ n \in Client => /\ JoinChannel(s, ch, n).servers = ch.servers
                            /\ JoinChannel(s, ch, n).users = add_user(ch.users, n)
         /\ n \notin Client => /\ JoinChannel(s, ch, n).servers = ch.servers \cup {n}
                               /\ JoinChannel(s, ch, n).users = ch.users
<1>1. /\ n \in Partners(s) /\ (n \in Client => knows(user_list[s], n))
  BY FirstTaken
<1>2. n \in Client \/ n \in Adjacent[s]
  BY <1>1 DEF Partners, Own
<1>3. CASE n \in Client
  <2>1. JoinChannel(s, ch, n) = add_user_to_channel(ch, n)
    BY <1>1, <1>3 DEF JoinChannel
  <2>2. QED
    BY <1>2, <1>3, <2>1, ChannelServers, ChannelUsers
<1>4. CASE n \notin Client
  <2>1. ~knows(user_list[s], n)
    BY <1>4, KnownIsClient DEF Ground, TypeOK, ServerTypeOK
  <2>2. JoinChannel(s, ch, n) = IF n \in ch.servers THEN ch ELSE sub_server_to_channel(ch, n)
    BY <2>1 DEF JoinChannel
  <2>3. QED
    BY <1>2, <1>4, <2>2, ChannelServers, ChannelUsers
<1>5. QED
  BY <1>3, <1>4

LEMMA JoinExistingKind ==
  ASSUME Ground, ~Reordering, NEW s \in Server, RecvJoinExisting(s)
  PROVE  (Hears(s) \/ Admits(s)) /\ MembersFollow(s)
<1>1. PICK i \in Incoming(s, "REQ_JOIN") :
        LET d == inbox[s][i] IN
        /\ Has(s, d.channel)
        /\ channel_list' = [channel_list EXCEPT ![s][d.channel] =
                              JoinChannel(s, channel_list[s][d.channel], d.src)]
        /\ inbox' = After(s, i)
        /\ UNCHANGED <<said, ID_LIST>>
  BY DEF RecvJoinExisting, history
<1> DEFINE n == Oldest(s).src
           x == Topic(s)
           old == channel_list[s][x]
           ch == JoinChannel(s, old, n)
<1>2. /\ Oldest(s) \in Datagram /\ Oldest(s).type = "REQ_JOIN" /\ Oldest(s) = inbox[s][i]
      /\ Passes(s, {}, Silence(s))
  BY <1>1, FirstTaken
<1>3. Has(s, x) /\ channel_list' = [channel_list EXCEPT ![s][x] = ch]
  BY <1>1, <1>2 DEF Topic
<1>4. /\ x \in Channel /\ old \in ChannelRecord /\ old.servers = Feed(s, x)
      /\ old.users = Users(s, x) /\ Users(s, x) \in Seq(Client)
  BY <1>3, ChannelHad
<1> HIDE DEF old
<1>5. /\ n \in Client \/ n \in Adjacent[s]
      /\ n \in Client => ch.servers = Feed(s, x) /\ ch.users = add_user(Users(s, x), n)
      /\ n \notin Client => ch.servers = Feed(s, x) \cup {n} /\ ch.users = Users(s, x)
  BY <1>4, JoinMakes
<1> HIDE DEF ch
<1>6. /\ FeedIs(s, x, ch.servers) /\ HostsAre(x, Hosts(x) \cup {s})
      /\ \A r \in Server, y \in Channel :
           Users(r, y)' = IF r = s /\ y = x THEN ch.users ELSE Users(r, y)
  BY <1>3, ChannelSet DEF Ground, FeedIs, HostsAre, Hosts, Feed, Users, Has
<1>h. HostsKept
  BY <1>3, <1>6, StillHosts
<1>7. CASE n \in Client
  <2>1. FeedKept
    BY <1>5, <1>6, <1>7 DEF FeedIs, FeedKept
  <2>2. MembersFollow(s)
    BY <1>2, <1>4, <1>5, <1>6, <1>7, UserEnters
  <2>3. QED
    BY <1>1, <1>2, <1>h, <1>7, <2>1, <2>2 DEF Hears
<1>8. CASE n \notin Client
  <2>1. FeedIs(s, x, Feed(s, x) \cup {n})
    BY <1>5, <1>6, <1>8 DEF FeedIs
  <2>2. \A r \in Server, y \in Channel : Users(r, y)' = Users(r, y)
    BY <1>5, <1>6, <1>8
  <2>3. MembersFollow(s)
    BY <1>8, <2>2, UsersStay
  <2>4. n \in Server
    BY <1>5, <1>8, ServerAssumption
  <2>5. QED
    BY <1>1, <1>2, <1>3, <1>h, <2>1, <2>3, <2>4 DEF Admits
<1>9. QED
  BY <1>7, <1>8

LEMMA JoinNewKind ==
  ASSUME Ground, ~Reordering, NEW s \in Server, s \notin Adjacent[s], RecvJoinNew(s)
  PROVE  Opens(s) /\ MembersFollow(s)
<1>1. PICK i \in Incoming(s, "REQ_JOIN"), uc \in Uninit, sc \in Uninit :
        LET d == inbox[s][i]
            ch == JoinChannel(s, create_channel(uc, sc), d.src)
            new == JoinTargets(s, ch)
        IN  /\ ~Has(s, d.channel)
            /\ channel_list' = [channel_list EXCEPT ![s] =
                                  WithChannel(s, d.channel, SubscribeAll(ch, new))]
            /\ inbox' = SendAll(After(s, i), new,
                                [type |-> "REQ_JOIN", src |-> s, channel |-> d.channel])
            /\ UNCHANGED <<said, ID_LIST>>
  BY DEF RecvJoinNew, history
<1> DEFINE n == Oldest(s).src
           x == Topic(s)
           mem == create_channel(uc, sc)
           joined == JoinChannel(s, mem, n)
           new == JoinTargets(s, joined)
           ch == SubscribeAll(joined, new)
<1>2. /\ Oldest(s) \in Datagram /\ Oldest(s).type = "REQ_JOIN" /\ Oldest(s) = inbox[s][i]
      /\ i = 1 /\ Len(inbox[s]) # 0
  BY <1>1, FirstTaken
<1>3. /\ ~Has(s, x) /\ channel_list' = [channel_list EXCEPT ![s] = WithChannel(s, x, ch)]
      /\ inbox' = SendAll(After(s, 1), new, JoinOf(s, x))
      /\ x \in Channel
  BY <1>1, <1>2, DatagramFields DEF Topic, JoinOf
<1>4. mem \in ChannelRecord /\ mem.servers = {} /\ mem.users = <<>>
  BY ServerAssumption, CreateChannelProperties DEF create_channel
<1> HIDE DEF mem
<1>5. /\ n \in Client \/ n \in Adjacent[s]
      /\ n \in Client => joined.servers = {} /\ joined.users = add_user(<<>>, n)
      /\ n \notin Client => joined.servers = {n} /\ joined.users = <<>>
  BY <1>4, JoinMakes
<1>6. joined \in ChannelRecord
  <2>1. n \in Node /\ IsFiniteSet(mem.servers)
    BY <1>2, <1>4, DatagramFields, FS_EmptySet
  <2>2. QED
    BY <1>4, <2>1, JoinChannelProperties DEF Ground, TypeOK
<1> HIDE DEF joined
<1>7. Adjacent[s] \subseteq Server /\ Adjacent[s] \cap Client = {}
  BY ServerAssumption, ProtocolAssumption
<1>8. new = Adjacent[s] \ {n}
  BY <1>5, <1>7 DEF JoinTargets
<1>9. ch.servers = Adjacent[s] /\ ch.users = joined.users
  <2>1. ch.servers = joined.servers \cup new /\ ch.users = joined.users
    BY <1>6, ChannelServers, ChannelUsers
  <2>2. QED
    BY <1>5, <1>7, <1>8, <2>1
<1> HIDE DEF ch, new
<1>10. /\ FeedIs(s, x, ch.servers) /\ HostsAre(x, Hosts(x) \cup {s})
       /\ \A r \in Server, y \in Channel :
            Users(r, y)' = IF r = s /\ y = x THEN ch.users ELSE Users(r, y)
  BY <1>3, ChannelSet DEF Ground, FeedIs, HostsAre, Hosts, Feed, Users, Has
<1>11. Feed(s, x) = {} /\ Users(s, x) = <<>> /\ FeedIs(s, x, Adjacent[s])
  BY <1>3, <1>9, <1>10 DEF Feed, Users, FeedIs
<1>12. MembersFollow(s)
  <2>1. CASE n \in Client
    <3>1. Users(s, x) \in Seq(Client)
      BY <1>11
    <3>2. ch.users = add_user(Users(s, x), n)
      BY <1>5, <1>9, <1>11, <2>1
    <3>3. QED
      BY <1>2, <1>3, <1>10, <2>1, <3>1, <3>2, UserEnters
  <2>2. CASE n \notin Client
    <3>1. \A r \in Server, y \in Channel : Users(r, y)' = Users(r, y)
      BY <1>5, <1>9, <1>10, <1>11, <2>2
    <3>2. QED
      BY <2>2, <3>1, UsersStay
  <2>3. QED
    BY <2>1, <2>2
<1>13. JoinOf(s, x) \in Datagram
  BY <1>3, DatagramsSent DEF JoinOf, Node
<1>14. Passes(s, Adjacent[s] \ {n}, JoinOf(s, x))
  BY <1>2, <1>3, <1>8, <1>13 DEF Passes
<1>15. QED
  BY <1>1, <1>2, <1>3, <1>10, <1>11, <1>12, <1>14 DEF Opens

LEMMA S2SLeaveKind ==
  ASSUME Ground, ~Reordering, NEW s \in Server, RecvS2SLeave(s)
  PROVE  Drops(s) /\ MembersFollow(s)
<1>1. PICK i \in Incoming(s, "S2S_LEAVE") :
        LET d == inbox[s][i] IN
        /\ inbox' = After(s, i)
        /\ channel_list' = IF Has(s, d.channel)
                           THEN [channel_list EXCEPT ![s][d.channel] =
                                   unsub_server(channel_list[s][d.channel], d.src)]
                           ELSE channel_list
        /\ UNCHANGED <<said, ID_LIST>>
  BY DEF RecvS2SLeave, history
<1> DEFINE n == Oldest(s).src
           x == Topic(s)
           old == channel_list[s][x]
           ch == unsub_server(old, n)
<1>2. /\ Oldest(s) \in Datagram /\ Oldest(s).type = "S2S_LEAVE" /\ Oldest(s) = inbox[s][i]
      /\ Passes(s, {}, Silence(s))
  BY <1>1, FirstTaken
<1>3. CASE ~Has(s, x)
  <2>1. UNCHANGED channel_list
    BY <1>1, <1>2, <1>3 DEF Topic
  <2>2. /\ n \notin Feed(s, x) /\ HostsKept
        /\ \A r \in Server, y \in Channel : Users(r, y)' = Users(r, y)
    BY <1>3, <2>1 DEF Feed, Users, Has, HostsKept, Hosts
  <2>3. MembersFollow(s)
    BY <1>2, <2>2, UsersStay
  <2>4. QED
    BY <1>1, <1>2, <2>2, <2>3 DEF Drops
<1>4. CASE Has(s, x)
  <2>1. channel_list' = [channel_list EXCEPT ![s][x] = ch]
    BY <1>1, <1>2, <1>4 DEF Topic
  <2>2. /\ old \in ChannelRecord /\ old.servers = Feed(s, x) /\ old.users = Users(s, x)
        /\ Counted(old) /\ IsFiniteSet(Feed(s, x))
    BY <1>4, ChannelHad
  <2> HIDE DEF old
  <2>3. ch.users = Users(s, x)
    BY <2>2, ChannelUsers
  <2>4. ASSUME n \in Feed(s, x)
        PROVE  ch.servers = Feed(s, x) \ {n}
    <3>1. old.server_count = Cardinality(Feed(s, x)) /\ Cardinality(Feed(s, x)) # 0
      BY <2>2, <2>4, FS_EmptySet DEF Counted
    <3>2. CASE old.server_count = 1
      <4>1. PICK m : Feed(s, x) = {m}
        BY <2>2, <3>1, <3>2, FS_Singleton
      <4>2. ch.servers = {}
        BY <2>2, <3>2 DEF unsub_server, ChannelRecord
      <4>3. QED
        BY <2>4, <4>1, <4>2
    <3>3. CASE old.server_count # 1
      BY <2>2, <2>4, <3>1, <3>3 DEF unsub_server, ChannelRecord
    <3>4. QED
      BY <3>2, <3>3
  <2> HIDE DEF ch
  <2>5. /\ FeedIs(s, x, ch.servers) /\ HostsAre(x, Hosts(x) \cup {s})
        /\ \A r \in Server, y \in Channel :
             Users(r, y)' = IF r = s /\ y = x THEN ch.users ELSE Users(r, y)
    BY <1>4, <2>1, ChannelSet DEF Ground, FeedIs, HostsAre, Hosts, Feed, Users, Has
  <2>6. MembersFollow(s)
    <3>1. \A r \in Server, y \in Channel : Users(r, y)' = Users(r, y)
      BY <2>3, <2>5
    <3>2. QED
      BY <1>2, <3>1, UsersStay
  <2>7. n \in Feed(s, x) => FeedIs(s, x, Feed(s, x) \ {n})
    BY <2>4, <2>5 DEF FeedIs
  <2>8. QED
    BY <1>1, <1>2, <1>4, <2>5, <2>6, <2>7, StillHosts DEF Drops
<1>5. QED
  BY <1>3, <1>4

\* say() for a message from a member or from a server that is fed.
LEMMA SayKind ==
  ASSUME Ground, ~Reordering, NEW s \in Server, NEW type \in {"REQ_SAY", "S2S_SAY"},
         NEW i \in Incoming(s, type), NEW t \in Text, t.msg = Oldest(s).text.msg,
         NEW id \in Id, Enters(s, id), Say(s, i, t, id), Has(s, Topic(s)),
         type = "REQ_SAY" => knows(Users(s, Topic(s)), Oldest(s).src),
         type = "S2S_SAY" => Oldest(s).src \in Feed(s, Topic(s)) /\ id = Oldest(s).id
  PROVE  (Prunes(s) \/ Relays(s)) /\ MembersFollow(s)
<1> DEFINE n == Oldest(s).src
           x == Topic(s)
           ch == channel_list[s][x]
<1>1. /\ i = 1 /\ Len(inbox[s]) # 0
      /\ Oldest(s) \in Datagram /\ Oldest(s).type = type /\ Oldest(s) = inbox[s][i]
  BY FirstTaken
<1>2. /\ x \in Channel /\ ch \in ChannelRecord /\ Counted(ch)
      /\ ch.servers = Feed(s, x) /\ IsFiniteSet(Feed(s, x))
      /\ ch.users = Users(s, x)
  BY ChannelHad
<1>3. CASE /\ Lonely(ch)
           /\ Spread(After(s, i), {n}, [type |-> "S2S_LEAVE", src |-> s, channel |-> x])
           /\ channel_list' = [channel_list EXCEPT ![s] = remove_channel(s, x)]
  <2> DEFINE e == [type |-> "S2S_LEAVE", src |-> s, channel |-> x]
  <2>1. Users(s, x) = <<>>
    BY <1>2, <1>3, NoUsers DEF Lonely
  <2>2. type = "S2S_SAY"
    BY <2>1 DEF knows
  <2>3. PICK m : Feed(s, x) = {m}
    BY <1>2, <1>3, FS_Singleton DEF Lonely, Counted
  <2>4. Feed(s, x) = {n}
    BY <2>2, <2>3
  <2>5. ASSUME NEW r \in Server, NEW y \in Channel
        PROVE  /\ Feed(r, y)' = IF r = s /\ y = x THEN {} ELSE Feed(r, y)
               /\ Users(r, y)' = Users(r, y)
               /\ Has(r, y)' <=> Has(r, y) /\ ~(r = s /\ y = x)
    <3> DEFINE f == remove_channel(s, x)
    <3>1. /\ Feed(r, y)' = IF r = s THEN (IF y \in DOMAIN f THEN f[y].servers ELSE {})
                           ELSE Feed(r, y)
          /\ Users(r, y)' = IF r = s THEN (IF y \in DOMAIN f THEN f[y].users ELSE <<>>)
                            ELSE Users(r, y)
          /\ Has(r, y)' <=> IF r = s THEN y \in DOMAIN f ELSE Has(r, y)
      BY <1>3, TableReplaced DEF Ground
    <3>2. /\ DOMAIN f = DOMAIN channel_list[s] \ {x}
          /\ \A z \in DOMAIN f : f[z] = channel_list[s][z]
      BY DEF remove_channel, Restrict
    <3> HIDE DEF f
    <3>3. CASE r = s
      BY <2>1, <3>1, <3>2, <3>3 DEF Feed, Users, Has
    <3>4. CASE r # s
      BY <3>1, <3>4
    <3>5. QED
      BY <3>3, <3>4
  <2>6. FeedIs(s, x, {}) /\ HostsAre(x, Hosts(x) \ {s})
    BY <2>5 DEF FeedIs, HostsAre, Hosts, Has
  <2>7. MembersFollow(s)
    <3>1. \A r \in Server, y \in Channel : Users(r, y)' = Users(r, y)
      BY <2>5
    <3>2. QED
      BY <1>1, <3>1, UsersStay
  <2>8. e \in Datagram /\ inbox' = SendAll(After(s, 1), {n}, e)
    BY <1>1, <1>2, <1>3, DatagramsSent DEF Spread
  <2>g. x \notin DOMAIN channel_list'[s]
    <3>1. channel_list'[s] = remove_channel(s, x)
      BY <1>3 DEF Ground, TypeOK, ServerTypeOK
    <3>2. x \notin DOMAIN remove_channel(s, x)
      BY DEF remove_channel, Restrict
    <3>3. QED
      BY <3>1, <3>2
  <2>9. Prunes(s)
    BY <1>1, <2>2, <2>4, <2>6, <2>8, <2>g DEF Prunes, Passes
  <2>10. QED
    BY <2>7, <2>9
<1>4. CASE /\ Spread(After(s, i), ch.servers \ {n},
                     [type |-> "S2S_SAY", src |-> s, channel |-> x, text |-> t, id |-> id])
           /\ UNCHANGED channel_list
  <2> DEFINE e == [type |-> "S2S_SAY", src |-> s, channel |-> x, text |-> t, id |-> id]
  <2>1. FeedKept /\ HostsKept /\ \A r \in Server, y \in Channel : Users(r, y)' = Users(r, y)
    BY <1>4 DEF FeedKept, HostsKept, Hosts, Feed, Users, Has
  <2>2. MembersFollow(s)
    BY <1>1, <2>1, UsersStay
  <2>3. e \in Datagram /\ inbox' = SendAll(After(s, 1), Feed(s, x) \ {n}, e)
    BY <1>1, <1>2, <1>4, DatagramsSent DEF Spread
  <2>4. Passes(s, Feed(s, x) \ {n}, e)
    BY <1>1, <2>3 DEF Passes
  <2>5. Relays(s)
    BY <2>1, <2>4 DEF Relays
  <2>6. QED
    BY <2>2, <2>5
<1>5. Has(s, x) /\ inbox[s][i].channel = x /\ inbox[s][i].src = n
  BY <1>1 DEF Topic
<1>6. QED
  BY <1>3, <1>4, <1>5 DEF Say, RelayTo

LEMMA SayRequestKind ==
  ASSUME Ground, ~Reordering, NEW s \in Server, RecvSay(s),
         knows(Users(s, Topic(s)), Oldest(s).src)
  PROVE  (Prunes(s) \/ Relays(s)) /\ MembersFollow(s)
<1>1. PICK i \in Incoming(s, "REQ_SAY") :
        /\ \/ ~knows(user_list[s], inbox[s][i].src)
           \/ \E id \in Draws[inbox[s][i].text.msg] :
                   /\ Say(s, i, inbox[s][i].text, id)
                   /\ said' = [said EXCEPT ![s][id] = Copies(@ + 1)]
        /\ UNCHANGED ID_LIST
  BY DEF RecvSay
<1>2. /\ Oldest(s) \in Datagram /\ Oldest(s).type = "REQ_SAY" /\ Oldest(s) = inbox[s][i]
      /\ Oldest(s).src \in Client => knows(user_list[s], Oldest(s).src)
  BY FirstTaken
<1>3. Oldest(s).src \in Client /\ Oldest(s).text \in Text
  BY <1>2, DatagramFields
<1>4. PICK id \in Draws[Oldest(s).text.msg] :
        /\ Say(s, i, Oldest(s).text, id)
        /\ said' = [said EXCEPT ![s][id] = Copies(@ + 1)]
  BY <1>1, <1>2, <1>3
<1>5. id \in Id
  <2>1. Oldest(s).text.msg \in Message
    BY <1>3 DEF Text
  <2>2. QED
    BY <2>1, ServerAssumption
<1>6. Enters(s, id)
  BY <1>1, <1>2, <1>4 DEF Enters
<1>7. Has(s, Topic(s))
  BY DEF Users, knows
<1>8. QED
  BY <1>2, <1>3, <1>4, <1>5, <1>6, <1>7, SayKind

LEMMA S2SSayKind ==
  ASSUME Ground, ~Reordering, NEW s \in Server, RecvS2SSay(s),
         Oldest(s).src \in Feed(s, Topic(s))
  PROVE  (Hears(s) \/ Prunes(s) \/ Relays(s)) /\ MembersFollow(s)
<1>1. PICK i \in Incoming(s, "S2S_SAY") :
        LET d == inbox[s][i] IN
        /\ \/ inbox' = After(s, i) /\ UNCHANGED <<channel_list, ID_LIST>>
           \/ /\ ~SeenBefore(s, d.id)
              /\ ID_LIST' = [ID_LIST EXCEPT ![s] = Append(@, d.id)]
              /\ Say(s, i, Clip(d.text), d.id)
        /\ UNCHANGED said
  BY DEF RecvS2SSay
<1>2. /\ Oldest(s) \in Datagram /\ Oldest(s).type = "S2S_SAY" /\ Oldest(s) = inbox[s][i]
      /\ inbox' = After(s, i) => Passes(s, {}, Silence(s))
  BY FirstTaken
<1>3. CASE inbox' = After(s, i) /\ UNCHANGED <<channel_list, ID_LIST>>
  <2>1. FeedKept /\ HostsKept /\ \A r \in Server, y \in Channel : Users(r, y)' = Users(r, y)
    BY <1>3 DEF FeedKept, HostsKept, Hosts, Feed, Users, Has
  <2>2. MembersFollow(s)
    BY <1>2, <2>1, UsersStay
  <2>3. QED
    BY <1>1, <1>2, <1>3, <2>1, <2>2 DEF Hears
<1>4. CASE /\ ~SeenBefore(s, Oldest(s).id)
           /\ ID_LIST' = [ID_LIST EXCEPT ![s] = Append(@, Oldest(s).id)]
           /\ Say(s, i, Clip(Oldest(s).text), Oldest(s).id)
  <2> DEFINE t == Clip(Oldest(s).text)
             id == Oldest(s).id
  <2>1. t \in Text /\ id \in Id
    BY <1>2, SaidTexts DEF Ground
  <2>2. t.msg = Oldest(s).text.msg
    BY <1>2, SaidTexts DEF Ground
  <2>3. Enters(s, id)
    BY <1>1, <1>2, <1>4 DEF Enters
  <2>4. Has(s, Topic(s))
    BY DEF Feed
  <2>5. QED
    BY <1>2, <1>4, <2>1, <2>2, <2>3, <2>4, SayKind
<1>5. QED
  BY <1>1, <1>2, <1>3, <1>4

LEMMA ReceiveKind ==
  ASSUME NamesDiffer, Acyclic(Adjacent), Ground, ~Reordering, NEW s \in Server, Receive(s),
         Oldest(s).type # "REQ_LOGOUT",
         Oldest(s).type = "REQ_SAY" => knows(Users(s, Topic(s)), Oldest(s).src),
         Oldest(s).type = "S2S_SAY" => Oldest(s).src \in Feed(s, Topic(s))
  PROVE  /\ Hears(s) \/ Admits(s) \/ Opens(s) \/ Drops(s) \/ Prunes(s) \/ Relays(s)
         /\ MembersFollow(s)
<1>1. ASSUME NEW type, Incoming(s, type) # {} PROVE Oldest(s).type = type
  BY <1>1, FirstTaken
<1>2. CASE RecvLogout(s)
  BY <1>1, <1>2 DEF RecvLogout
<1>3. CASE RecvSay(s)
  <2>1. Oldest(s).type = "REQ_SAY"
    BY <1>1, <1>3 DEF RecvSay
  <2>2. QED
    BY <1>3, <2>1, SayRequestKind
<1>4. CASE RecvS2SSay(s)
  <2>1. Oldest(s).type = "S2S_SAY"
    BY <1>1, <1>4 DEF RecvS2SSay
  <2>2. QED
    BY <1>4, <2>1, S2SSayKind
<1>5. s \notin Adjacent[s]
  BY TowardIs
<1>6. QED
  BY <1>2, <1>3, <1>4, <1>5, LoginKind, QueryKind, LeaveKind, JoinExistingKind, JoinNewKind,
     S2SLeaveKind DEF Receive

----------------------------------------------------------------------------
(***************************************************************************)
(* The queues after a turn.                                                *)
(***************************************************************************)
LEMMA PassedQueues ==
  ASSUME NetTypeOK, NEW s \in Server, NEW D, NEW e, Passes(s, D, e), s \notin D
  PROVE  /\ inbox[s] \in Seq(Datagram) /\ Len(inbox[s]) # 0 /\ e \in Datagram
         /\ inbox'[s] = RemoveAt(inbox[s], 1)
         /\ \A r \in Server \ {s} :
              /\ inbox[r] \in Seq(Datagram)
              /\ inbox'[r] = IF r \in D THEN Append(inbox[r], e) ELSE inbox[r]
<1>1. inbox \in [Server -> Seq(Datagram)]
  BY DEF NetTypeOK
<1>2. After(s, 1)[s] = RemoveAt(inbox[s], 1) /\ \A r \in Server \ {s} : After(s, 1)[r] = inbox[r]
  BY <1>1 DEF After
<1>3. QED
  BY <1>1, <1>2 DEF Passes, SendAll

LEMMA PassedHolds ==
  ASSUME NetTypeOK, NEW s \in Server, NEW D, NEW e, Passes(s, D, e), s \notin D,
         NEW r \in Server, NEW d
  PROVE  /\ Holds(inbox'[r], d) => Holds(inbox[r], d) \/ (r \in D /\ d = e)
         /\ Holds(inbox[s], Oldest(s))
<1>1. Holds(inbox[s], Oldest(s)) /\ (Holds(inbox'[s], d) => Holds(inbox[s], d))
  BY PassedQueues, HoldsTaken DEF Oldest
<1>2. CASE r # s
  BY <1>1, <1>2, PassedQueues, HoldsAppended
<1>3. QED
  BY <1>1, <1>2

LEMMA PassedOnce ==
  ASSUME NetTypeOK, NEW s \in Server, NEW D, NEW e, Passes(s, D, e), s \notin D,
         NEW r \in Server, NEW E, Once(inbox[r], E),
         r \in D /\ e \in E => \A d \in E : ~Holds(inbox[r], d)
  PROVE  /\ Once(inbox'[r], E)
         /\ r = s /\ Oldest(s) \in E => \A d \in E : ~Holds(inbox'[s], d)
<1>1. CASE r = s
  BY <1>1, PassedQueues, OnceTaken DEF Oldest
<1>2. CASE r # s
  BY <1>2, PassedQueues, OnceAppended
<1>3. QED
  BY <1>1, <1>2

LEMMA PassedBefore ==
  ASSUME NetTypeOK, NEW s \in Server, NEW D, NEW e, Passes(s, D, e), s \notin D,
         NEW r \in Server, NEW a, NEW d, Before(inbox[r], a, d), a # d,
         r \in D /\ e = a => ~Holds(inbox[r], d)
  PROVE  /\ Before(inbox'[r], a, d)
         /\ r = s /\ Oldest(s) = d => ~Holds(inbox'[s], a)
<1>1. CASE r = s
  BY <1>1, PassedQueues, BeforeTaken DEF Oldest
<1>2. CASE r # s
  BY <1>2, PassedQueues, BeforeAppended
<1>3. QED
  BY <1>1, <1>2

LEMMA PassedEnds ==
  ASSUME NetTypeOK, NEW s \in Server, NEW D, NEW e, Passes(s, D, e), s \notin D,
         NEW r \in Server, NEW n, NEW F, NEW G, NEW on, NEW off, on # off,
         r = s /\ Oldest(s) = on => n \in G, r = s /\ Oldest(s) = off => n \notin G,
         r = s /\ Oldest(s) # on /\ Oldest(s) # off => (n \in G <=> n \in F),
         r # s => (n \in G <=> n \in F),
         r \in D => e # on /\ e # off
  PROVE  Ends(inbox'[r], n, G, on, off) <=> Ends(inbox[r], n, F, on, off)
<1>1. CASE r = s
  BY <1>1, PassedQueues, EndsTaken DEF Oldest
<1>2. CASE r # s
  <2>1. Ends(inbox[r], n, G, on, off) <=> Ends(inbox[r], n, F, on, off)
    BY <1>2 DEF Ends
  <2>2. CASE r \in D
    BY <1>2, <2>1, <2>2, PassedQueues, EndsAppended
  <2>3. CASE r \notin D
    BY <1>2, <2>1, <2>3, PassedQueues
  <2>4. QED
    BY <2>2, <2>3
<1>3. QED
  BY <1>1, <1>2

----------------------------------------------------------------------------
(***************************************************************************)
(* The inductive invariant of users who take turns: what is in flight      *)
(* about the message said last, and about joining and leaving.             *)
(***************************************************************************)
\* S2S_LEAVE of server s for channel x, REQ_LEAVE of client c.
GoneOf(s, x) == [type |-> "S2S_LEAVE", src |-> s, channel |-> x]
LeaveOf(c, x) == [type |-> "REQ_LEAVE", src |-> c, channel |-> x]

\* Server s has met identifier id; the servers that have met the latest message.
Met(s, id) == SeenBefore(s, id) \/ HasSaid(s, id)
LatestIds == {id \in Id : \E m \in Message : m = says /\ id \in Draws[m]}
Reached == {s \in Server : \E id \in LatestIds : Met(s, id)}

\* Once s has handled what r sent it, s feeds channel x to r.
WillFeed(s, r, x) == Ends(inbox[s], r, Feed(s, x), JoinOf(r, x), GoneOf(r, x))

\* Of two neighbours each will feed the other, or none.
Agreed ==
  \A s \in Server : \A r \in Adjacent[s] : \A x \in Channel : WillFeed(s, r, x) => WillFeed(r, s, x)

\* Only the latest message is on its way, and nobody logs out.
Current ==
  \A s \in Server, d \in Datagram : Holds(inbox[s], d) =>
    /\ d.type \in {"REQ_SAY", "S2S_SAY"} => d.text.msg = says
    /\ d.type # "REQ_LOGOUT"

\* It comes once, from a server that has it and feeds the channel to one that has
\* not, and that server has not joined anew since.
Spreading ==
  \A s \in Server :
    /\ Once(inbox[s], S2SSay)
    /\ \A d \in S2SSay : Holds(inbox[s], d) =>
         /\ s \notin Reached /\ d.src \in Reached
         /\ s \in Feed(d.src, d.channel)
         /\ Before(inbox[s], JoinOf(d.src, d.channel), d)

\* A server leaves one that feeds it, both having met the message, once, and
\* nothing else is on its way between them about the channel.
Giving ==
  \A s, r \in Server, x \in Channel : Holds(inbox[s], GoneOf(r, x)) =>
    /\ Once(inbox[s], {GoneOf(r, x)})
    /\ s \in Reached /\ r \in Reached
    /\ r \in Feed(s, x)
    /\ ~Holds(inbox[r], JoinOf(s, x))

\* A message has been met by all servers on the way back to its origin.
Trail ==
  \A s, o \in Server, id \in Id : Met(s, id) /\ HasSaid(o, id) => Met(Toward[o][s], id)

\* A user is in his active channel, or will be once his server has handled what
\* he sent; the user who says something is in the channel already.
ActiveInside ==
  \A c \in Client, x \in Channel : active[c] = x =>
    Ends(inbox[Home[c]], c, Members(x), JoinOf(c, x), LeaveOf(c, x))
SpeakerInside ==
  \A s \in Server : \A k \in DOMAIN inbox[s] :
    inbox[s][k].type = "REQ_SAY" =>
      k = 1 /\ knows(Users(s, inbox[s][k].channel), inbox[s][k].src)

TurnsInv == Agreed /\ Current /\ Spreading /\ Giving /\ Trail /\ ActiveInside /\ SpeakerInside

----------------------------------------------------------------------------
(***************************************************************************)
(* Who has met which message.                                              *)
(***************************************************************************)
LEMMA TowardServer ==
  ASSUME Acyclic(Adjacent), NEW o \in Server, NEW s \in Server
  PROVE  Toward[o][s] \in Server
<1> DEFINE Guides(toward) ==
             \A p, q \in Server :
               /\ toward[p][p] = p
               /\ q \notin Adjacent[q]
               /\ \A r \in Adjacent[q] : toward[p][q] = r <=> toward[p][r] # q
<1>1. PICK toward \in [Server -> [Server -> Server]] : Guides(toward)
  BY ServerAssumption DEF Acyclic
<1>2. Toward = CHOOSE f \in [Server -> [Server -> Server]] : Guides(f)
  BY DEF Toward
<1> HIDE DEF Guides
<1>3. Toward \in [Server -> [Server -> Server]]
  BY <1>1, <1>2
<1>4. QED
  BY <1>3

LEMMA MarksKept ==
  ASSUME UNCHANGED <<said, ID_LIST>>
  PROVE  /\ \A r \in Server, jd \in Id : /\ Met(r, jd)' <=> Met(r, jd)
                                         /\ HasSaid(r, jd)' <=> HasSaid(r, jd)
         /\ UNCHANGED says => Reached' = Reached
BY DEF Met, HasSaid, SeenBefore, Reached, LatestIds

LEMMA Marked ==
  ASSUME TypeOK, NEW s \in Server, NEW id \in Id, Enters(s, id)
  PROVE  \A r \in Server, jd \in Id :
           /\ Met(r, jd)' <=> Met(r, jd) \/ (r = s /\ jd = id)
           /\ HasSaid(r, jd)' <=>
                HasSaid(r, jd) \/ (r = s /\ jd = id /\ Oldest(s).type = "REQ_SAY")
<1>1. CASE /\ Oldest(s).type = "REQ_SAY" /\ UNCHANGED ID_LIST
           /\ said' = [said EXCEPT ![s][id] = Copies(@ + 1)]
  <2>1. ASSUME NEW r \in Server, NEW jd \in Id
        PROVE  HasSaid(r, jd)' <=> HasSaid(r, jd) \/ (r = s /\ jd = id)
    <3>1. said \in [Server -> [Id -> 0 .. MaxCopies]]
      BY DEF TypeOK, ServerTypeOK
    <3>2. said[s][id] \in 0 .. MaxCopies /\ MaxCopies \in Nat \ {0}
      BY <3>1, ServerAssumption
    <3>3. Copies(said[s][id] + 1) > 0
      BY <3>2 DEF Copies
    <3>4. said'[r][jd] = IF r = s /\ jd = id THEN Copies(said[s][id] + 1) ELSE said[r][jd]
      BY <1>1, <3>1
    <3>5. CASE r = s /\ jd = id
      BY <3>3, <3>4, <3>5 DEF HasSaid
    <3>6. CASE ~(r = s /\ jd = id)
      BY <3>4, <3>6 DEF HasSaid
    <3>7. QED
      BY <3>5, <3>6
  <2>2. \A r \in Server, jd \in Id : SeenBefore(r, jd)' <=> SeenBefore(r, jd)
    BY <1>1 DEF SeenBefore
  <2>3. QED
    BY <1>1, <2>1, <2>2 DEF Met, HasSaid, SeenBefore
<1>2. CASE /\ Oldest(s).type = "S2S_SAY" /\ UNCHANGED said
           /\ ID_LIST' = [ID_LIST EXCEPT ![s] = Append(@, id)]
  <2>1. \A r \in Server, jd \in Id : SeenBefore(r, jd)' <=> SeenBefore(r, jd) \/ (r = s /\ jd = id)
    BY <1>2, IdEntered DEF SeenBefore
  <2>2. \A r \in Server, jd \in Id : HasSaid(r, jd)' <=> HasSaid(r, jd)
    BY <1>2 DEF HasSaid
  <2>3. QED
    BY <1>2, <2>1, <2>2 DEF Met, HasSaid, SeenBefore
<1>3. QED
  BY <1>1, <1>2 DEF Enters

LEMMA ReachedGrows ==
  ASSUME TypeOK, NEW s \in Server, NEW id \in LatestIds, Enters(s, id), UNCHANGED says
  PROVE  Reached' = Reached \cup {s}
<1>1. id \in Id /\ LatestIds \subseteq Id /\ LatestIds' = LatestIds
  BY DEF LatestIds
<1>2. \A r \in Server, jd \in Id : Met(r, jd)' <=> Met(r, jd) \/ (r = s /\ jd = id)
  BY <1>1, Marked DEF Met, HasSaid, SeenBefore
<1>3. QED
  BY <1>1, <1>2 DEF Reached, Met, HasSaid, SeenBefore

\* A message that somebody has met was said by one server, and all that have met
\* the latest message have met it under the same identifier.
LEMMA MetOrigin ==
  ASSUME TypeOK, MessageInv, NEW s \in Server, NEW id \in Id, Met(s, id)
  PROVE  \E o \in Server : HasSaid(o, id)
BY DEF MessageInv, Flooding, Met

LEMMA OneMark ==
  ASSUME TypeOK, MessageInv, NEW s \in Server, NEW id \in LatestIds, Met(s, id)
  PROVE  /\ \A r \in Reached : Met(r, id)
         /\ \E o \in Server : /\ HasSaid(o, id)
                              /\ \A p \in Server, jd \in LatestIds : HasSaid(p, jd) => p = o /\ jd = id
<1>1. id \in Id /\ LatestIds \subseteq Id
  BY DEF LatestIds
<1>2. PICK o \in Server : HasSaid(o, id)
  BY <1>1, MetOrigin
<1>3. ASSUME NEW p \in Server, NEW jd \in LatestIds, HasSaid(p, jd)
      PROVE  p = o /\ jd = id
  BY <1>2, <1>3 DEF LatestIds, MessageInv, OneOrigin
<1>4. ASSUME NEW r \in Reached
      PROVE  Met(r, id)
  <2>1. PICK jd \in LatestIds : r \in Server /\ Met(r, jd)
    BY DEF Reached
  <2>2. PICK p \in Server : HasSaid(p, jd)
    BY <1>1, <2>1, MetOrigin
  <2>3. jd = id
    BY <1>3, <2>2
  <2>4. QED
    BY <2>1, <2>3
<1>5. QED
  BY <1>2, <1>3, <1>4

----------------------------------------------------------------------------
(***************************************************************************)
(* What a turn finds.                                                      *)
(***************************************************************************)
LEMMA DatagramIs ==
  ASSUME NEW d \in Datagram
  PROVE  /\ d.type = "S2S_SAY" <=> d \in S2SSay
         /\ d.type = "REQ_JOIN" => d = JoinOf(d.src, d.channel)
         /\ d.type = "REQ_LEAVE" => d = LeaveOf(d.src, d.channel)
         /\ d.type = "S2S_LEAVE" => d = GoneOf(d.src, d.channel)
         /\ \A n, x : /\ d = JoinOf(n, x) => d.type = "REQ_JOIN" /\ d.src = n /\ d.channel = x
                      /\ d = LeaveOf(n, x) => d.type = "REQ_LEAVE" /\ d.src = n /\ d.channel = x
                      /\ d = GoneOf(n, x) => d.type = "S2S_LEAVE" /\ d.src = n /\ d.channel = x
BY DEF Datagram, LoginRequest, LogoutRequest, JoinRequest, LeaveRequest, SayRequest, ListRequest,
       WhoRequest, S2SSay, S2SLeave, JoinOf, LeaveOf, GoneOf

LEMMA HeldOldest ==
  ASSUME NetTypeOK, NEW s \in Server, Len(inbox[s]) # 0
  PROVE  Holds(inbox[s], Oldest(s)) /\ Oldest(s) \in Datagram
<1>1. inbox[s] \in Seq(Datagram)
  BY DEF NetTypeOK
<1>2. 1 \in DOMAIN inbox[s]
  BY <1>1, Taken
<1>3. QED
  BY <1>2, QueueElements DEF Holds, Oldest

\* Where a message between servers comes from.
LEMMA SayHeld ==
  ASSUME Ground, Current, NEW s \in Server, NEW d \in S2SSay, Holds(inbox[s], d)
  PROVE  /\ d.src \in Adjacent[s] /\ d.src \in Server /\ d.channel \in Channel
         /\ d.id \in LatestIds /\ d.text \in Text /\ d.text.msg = says
         /\ \E o \in Server : HasSaid(o, d.id) /\ Toward[o][s] = d.src
<1>1. d \in Datagram /\ d.type = "S2S_SAY"
  BY DEF Datagram, S2SSay
<1>2. d.src \in Server /\ d.channel \in Channel /\ d.text \in Text /\ d.id \in Id
  BY <1>1, DatagramFields
<1>3. InFlight(s, d) > 0
  BY InFlightType DEF Ground, TypeOK, Holds
<1>4. d.src \in Partners(s)
  BY <1>1, <1>3 DEF Ground, Placed
<1>5. d.src \in Adjacent[s]
  BY <1>2, <1>4, ProtocolAssumption DEF Partners, Own
<1>6. /\ d.id \in Draws[d.text.msg]
      /\ \E o \in Server : HasSaid(o, d.id) /\ Toward[o][s] = d.src
  BY <1>1, <1>3 DEF Ground, MessageInv, Flooding
<1>7. d.text.msg = says
  BY <1>1 DEF Current
<1>8. d.id \in LatestIds
  BY <1>2, <1>6, <1>7 DEF LatestIds, Text
<1>9. QED
  BY <1>2, <1>5, <1>6, <1>7, <1>8

\* The server it comes from is fed: it joined before it sent, and only leaves a
\* server that has met the message.
LEMMA SourceFed ==
  ASSUME NeighboursMutual, Ground, TurnsInv, NEW s \in Server, Len(inbox[s]) # 0,
         Oldest(s).type = "S2S_SAY"
  PROVE  /\ Oldest(s) \in S2SSay /\ Holds(inbox[s], Oldest(s))
         /\ Oldest(s).src \in Feed(s, Topic(s))
<1> DEFINE d == Oldest(s)
           n == d.src
           x == d.channel
<1>1. d \in S2SSay /\ Holds(inbox[s], d)
  BY HeldOldest, DatagramIs DEF Ground, TypeOK
<1>2. n \in Adjacent[s] /\ n \in Server /\ x \in Channel /\ s \in Adjacent[n]
  BY <1>1, SayHeld DEF TurnsInv, NeighboursMutual
<1>3. s \notin Reached /\ s \in Feed(n, x) /\ Before(inbox[s], JoinOf(n, x), d)
  BY <1>1 DEF TurnsInv, Spreading
<1>4. ~Holds(inbox[n], GoneOf(s, x))
  BY <1>2, <1>3 DEF TurnsInv, Giving
<1>5. WillFeed(s, n, x)
  BY <1>2, <1>3, <1>4 DEF WillFeed, Ends, TurnsInv, Agreed
<1>6. ASSUME NEW j \in DOMAIN inbox[s], inbox[s][j] = JoinOf(n, x)
      PROVE  FALSE
  <2>1. inbox[s] \in Seq(Datagram)
    BY DEF Ground, TypeOK, NetTypeOK
  <2>2. DOMAIN inbox[s] = 1 .. Len(inbox[s]) /\ 1 \in DOMAIN inbox[s] /\ Len(inbox[s]) \in Nat
    BY <2>1, Taken
  <2>3. j < 1
    BY <1>3, <1>6, <2>2 DEF Before, Oldest
  <2>4. QED
    BY <2>2, <2>3
<1>7. n \in Feed(s, x)
  BY <1>5, <1>6 DEF WillFeed, Ends
<1>8. QED
  BY <1>1, <1>7 DEF Topic

\* Before a message is heard by the author's server, nobody has met it, and no
\* server speaks or leaves.
LEMMA NobodyMet ==
  ASSUME Ground, Current, NEW s \in Server, Len(inbox[s]) # 0, Oldest(s).type = "REQ_SAY"
  PROVE  /\ Reached = {}
         /\ \A r \in Server, id \in LatestIds : ~Met(r, id)
         /\ Oldest(s).text.msg = says /\ says \in Message /\ Draws[says] \subseteq LatestIds
<1>1. Oldest(s) \in Datagram /\ Holds(inbox[s], Oldest(s))
  BY HeldOldest DEF Ground, TypeOK
<1>2. Oldest(s).text.msg = says /\ says \in Message
  <2>1. Oldest(s).text \in Text
    BY <1>1, DatagramFields
  <2>2. Oldest(s).text.msg = says
    BY <1>1 DEF Current
  <2>3. QED
    BY <2>1, <2>2 DEF Text
<1>3. topic[says] = NoChannel
  <2>1. InFlight(s, Oldest(s)) > 0
    BY <1>1, InFlightType DEF Ground, TypeOK, Holds
  <2>2. QED
    BY <1>1, <1>2, <2>1 DEF Ground, MessageInv, FreshSays
<1>4. ASSUME NEW r \in Server, NEW id \in LatestIds, Met(r, id)
      PROVE  FALSE
  <2>1. id \in Id /\ id \in Draws[says]
    BY DEF LatestIds
  <2>2. PICK o \in Server : HasSaid(o, id)
    BY <1>4, <2>1, MetOrigin DEF Ground
  <2>3. QED
    BY <1>2, <1>3, <2>1, <2>2 DEF Ground, MessageInv, OneOrigin
<1>5. Draws[says] \subseteq LatestIds
  BY <1>2, ServerAssumption DEF LatestIds
<1>6. QED
  BY <1>2, <1>4, <1>5 DEF Reached

----------------------------------------------------------------------------
(***************************************************************************)
(* Neighbours go on to agree.                                              *)
(***************************************************************************)
\* A turn of s in which only whom it feeds channel x changes, and only as the
\* datagram it handles says.
LEMMA WillFeedKept ==
  ASSUME NetTypeOK, NEW s \in Server, NEW D, NEW e, Passes(s, D, e), s \notin D,
         NEW x, NEW F, FeedIs(s, x, F), NEW r \in Server, NEW n, NEW y \in Channel,
         r \in D => e # JoinOf(n, y) /\ e # GoneOf(n, y),
         r = s /\ (Oldest(s) = JoinOf(n, y) \/ Oldest(s) = GoneOf(n, y)) => y = x,
         r = s /\ y = x => /\ Oldest(s) = JoinOf(n, x) => n \in F
                           /\ Oldest(s) = GoneOf(n, x) => n \notin F
                           /\ \/ Oldest(s) \in {JoinOf(n, x), GoneOf(n, x)}
                              \/ n \in F <=> n \in Feed(s, x)
  PROVE  WillFeed(r, n, y)' <=> WillFeed(r, n, y)
<1>1. PICK G : G = Feed(r, y)'
  OBVIOUS
<1>2. G = IF r = s /\ y = x THEN F ELSE Feed(r, y)
  BY <1>1 DEF FeedIs, Feed, Has
<1>3. JoinOf(n, y) # GoneOf(n, y)
  BY DEF JoinOf, GoneOf
<1>4. /\ r = s /\ Oldest(s) = JoinOf(n, y) => n \in G
      /\ r = s /\ Oldest(s) = GoneOf(n, y) => n \notin G
      /\ r = s /\ Oldest(s) # JoinOf(n, y) /\ Oldest(s) # GoneOf(n, y) => (n \in G <=> n \in Feed(r, y))
      /\ r # s => (n \in G <=> n \in Feed(r, y))
  BY <1>2
<1>5. Ends(inbox'[r], n, G, JoinOf(n, y), GoneOf(n, y))
        <=> Ends(inbox[r], n, Feed(r, y), JoinOf(n, y), GoneOf(n, y))
  BY <1>3, <1>4, PassedEnds
<1>6. QED
  BY <1>1, <1>5 DEF WillFeed, Ends, Holds, Feed, Has, JoinOf, GoneOf

LEMMA AgreedKept ==
  ASSUME Agreed, NeighboursMutual,
         \A a \in Server, b \in Server, y \in Channel :
           b \in Adjacent[a] =>
             \/ WillFeed(b, a, y)'
             \/ ~WillFeed(a, b, y)'
             \/ /\ WillFeed(a, b, y)' <=> WillFeed(a, b, y)
                /\ WillFeed(b, a, y)' <=> WillFeed(b, a, y)
  PROVE  Agreed'
<1>1. SUFFICES ASSUME NEW a \in Server, NEW b \in Adjacent[a], NEW y \in Channel,
                      WillFeed(a, b, y)'
               PROVE  WillFeed(b, a, y)'
  BY DEF Agreed, WillFeed, Ends, Holds, Feed, Has, JoinOf, GoneOf
<1>2. b \in Server
  BY ServerAssumption
<1>3. WillFeed(a, b, y) => WillFeed(b, a, y)
  BY DEF Agreed
<1>4. QED
  BY <1>1, <1>2, <1>3 DEF WillFeed, Ends, Holds, Feed, Has, JoinOf, GoneOf

LEMMA KeptIs ==
  ASSUME FeedKept, NEW s, NEW x
  PROVE  FeedIs(s, x, Feed(s, x))
BY DEF FeedKept, FeedIs, Feed, Has

LEMMA FeedAdjacent ==
  ASSUME Ground, NEW s \in Server, NEW x
  PROVE  Feed(s, x) \subseteq Adjacent[s] /\ Adjacent[s] \subseteq Server
BY ServerAssumption DEF Ground, OrderInv, FedBy, Feed, Has

\* The servers will feed each other as before the step.
Promised ==
  \A r, n \in Server : \A y \in Channel : WillFeed(r, n, y)' <=> WillFeed(r, n, y)

\* Turns after which the servers fed are those that the datagram handled says.
LEMMA PlainAgreed ==
  ASSUME NeighboursMutual, Ground, TurnsInv, NEW s \in Server, NEW D, NEW e,
         Passes(s, D, e), s \notin D, e.type \notin {"REQ_JOIN", "S2S_LEAVE"} \/ D = {},
         NEW x, NEW F, FeedIs(s, x, F),
         \A n \in Server :
           /\ \A y \in Channel : Oldest(s) = JoinOf(n, y) \/ Oldest(s) = GoneOf(n, y) => y = x
           /\ Oldest(s) = JoinOf(n, x) => n \in F
           /\ Oldest(s) = GoneOf(n, x) => n \notin F
           /\ \/ Oldest(s) \in {JoinOf(n, x), GoneOf(n, x)}
              \/ n \in F <=> n \in Feed(s, x)
  PROVE  Agreed' /\ Promised
<1>0. NetTypeOK /\ Agreed
  BY DEF Ground, TypeOK, TurnsInv
<1>1. ASSUME NEW r \in Server, NEW n \in Server, NEW y \in Channel
      PROVE  WillFeed(r, n, y)' <=> WillFeed(r, n, y)
  <2>1. r \in D => e # JoinOf(n, y) /\ e # GoneOf(n, y)
    BY DEF JoinOf, GoneOf
  <2>2. QED
    BY <1>0, <2>1, WillFeedKept
<1>2. Promised
  BY <1>1 DEF Promised, WillFeed, Ends, Holds, Feed, Has, JoinOf, GoneOf
<1>3. QED
  BY <1>0, <1>1, <1>2, AgreedKept

LEMMA HearsAgreed ==
  ASSUME NeighboursMutual, Ground, TurnsInv, NEW s \in Server, Hears(s)
  PROVE  Agreed' /\ Promised
<1>1. Passes(s, {}, Silence(s)) /\ FeedIs(s, Common, Feed(s, Common))
  BY KeptIs DEF Hears
<1>2. \A n \in Server : \A y : Oldest(s) # JoinOf(n, y) /\ Oldest(s) # GoneOf(n, y)
  BY ProtocolAssumption DEF Hears, JoinOf, GoneOf
<1>3. QED
  BY <1>1, <1>2, PlainAgreed

LEMMA RelaysAgreed ==
  ASSUME Acyclic(Adjacent), NeighboursMutual, Ground, TurnsInv, NEW s \in Server, Relays(s)
  PROVE  Agreed' /\ Promised
<1>1. PICK t \in Text, id \in Id :
        /\ Enters(s, id) /\ FeedKept
        /\ Passes(s, Feed(s, Topic(s)) \ {Oldest(s).src},
                  [type |-> "S2S_SAY", src |-> s, channel |-> Topic(s), text |-> t, id |-> id])
  BY DEF Relays
<1>2. \A n \in Server : \A y : Oldest(s) # JoinOf(n, y) /\ Oldest(s) # GoneOf(n, y)
  BY <1>1 DEF Enters, JoinOf, GoneOf
<1>3. s \notin Feed(s, Topic(s)) \ {Oldest(s).src}
  BY FeedAdjacent, TowardIs
<1>4. FeedIs(s, Common, Feed(s, Common))
  BY <1>1, KeptIs
<1>5. QED
  BY <1>1, <1>2, <1>3, <1>4, PlainAgreed

LEMMA AdmitsAgreed ==
  ASSUME NeighboursMutual, Ground, TurnsInv, NEW s \in Server, Admits(s)
  PROVE  Agreed' /\ Promised
<1> DEFINE F == Feed(s, Topic(s)) \cup {Oldest(s).src}
<1>1. Passes(s, {}, Silence(s)) /\ FeedIs(s, Topic(s), F)
  BY DEF Admits
<1>2. ASSUME NEW n \in Server
      PROVE  /\ \A y : Oldest(s) = JoinOf(n, y) => y = Topic(s) /\ n = Oldest(s).src
             /\ \A y : Oldest(s) # GoneOf(n, y)
  BY DEF Admits, JoinOf, GoneOf, Topic
<1>3. ASSUME NEW n \in Server
      PROVE  Oldest(s) = JoinOf(n, Topic(s)) \/ (n \in F <=> n \in Feed(s, Topic(s)))
  <2>1. Oldest(s) = JoinOf(Oldest(s).src, Topic(s))
    BY HeldOldest, DatagramIs DEF Admits, Passes, Topic, Ground, TypeOK
  <2>2. QED
    BY <2>1
<1>4. \A n \in Server : Oldest(s) = JoinOf(n, Topic(s)) => n \in F
  BY <1>2
<1> HIDE DEF F
<1>5. QED
  BY <1>1, <1>2, <1>3, <1>4, PlainAgreed

LEMMA DropsAgreed ==
  ASSUME NeighboursMutual, Ground, TurnsInv, NEW s \in Server, Drops(s)
  PROVE  /\ Agreed' /\ Promised
         /\ Oldest(s) = GoneOf(Oldest(s).src, Topic(s))
         /\ Oldest(s).src \in Server /\ Topic(s) \in Channel
         /\ Oldest(s).src \in Feed(s, Topic(s))
<1> DEFINE m == Oldest(s).src
           F == Feed(s, Topic(s)) \ {m}
<1>1. /\ Oldest(s) = GoneOf(m, Topic(s)) /\ m \in Server /\ Topic(s) \in Channel
      /\ Holds(inbox[s], Oldest(s))
  BY HeldOldest, DatagramIs, DatagramFields DEF Drops, Passes, Topic, Ground, TypeOK
<1>2. m \in Feed(s, Topic(s))
  BY <1>1 DEF TurnsInv, Giving
<1>3. Passes(s, {}, Silence(s)) /\ FeedIs(s, Topic(s), F)
  BY <1>2 DEF Drops
<1>4. ASSUME NEW n \in Server
      PROVE  /\ \A y : Oldest(s) = GoneOf(n, y) => y = Topic(s) /\ n = m
             /\ \A y : Oldest(s) # JoinOf(n, y)
  BY <1>1 DEF Drops, JoinOf, GoneOf
<1>5. ASSUME NEW n \in Server
      PROVE  Oldest(s) = GoneOf(n, Topic(s)) \/ (n \in F <=> n \in Feed(s, Topic(s)))
  BY <1>1
<1>6. \A n \in Server : Oldest(s) = GoneOf(n, Topic(s)) => n \notin F
  BY <1>4
<1> HIDE DEF F
<1>7. Agreed' /\ Promised
  BY <1>3, <1>4, <1>5, <1>6, PlainAgreed
<1>8. QED
  BY <1>1, <1>2, <1>7

\* A server that takes up a channel feeds every neighbour and is, or will be, fed
\* by them: whoever joined it feeds it, and it joins the others.
LEMMA OpensFeeds ==
  ASSUME Acyclic(Adjacent), NeighboursMutual, Ground, TurnsInv, NEW s \in Server, Opens(s),
         NEW x, NEW m, x = Topic(s), m = Oldest(s).src
  PROVE  /\ Passes(s, Adjacent[s] \ {m}, JoinOf(s, x)) /\ s \notin Adjacent[s]
         /\ Oldest(s) = JoinOf(m, x) /\ x \in Channel
         /\ \A r, n \in Server, y \in Channel :
              (y = x => r # s /\ n # s) => (WillFeed(r, n, y)' <=> WillFeed(r, n, y))
         /\ \A n \in Adjacent[s] : WillFeed(s, n, x)' /\ WillFeed(n, s, x)'
         /\ m \in Adjacent[s] => WillFeed(m, s, x)
<1> DEFINE D == Adjacent[s] \ {m}
           e == JoinOf(s, x)
<1>0. NetTypeOK /\ Agreed /\ s \notin Adjacent[s] /\ Adjacent[s] \subseteq Server
  BY FeedAdjacent, TowardIs DEF Ground, TypeOK, TurnsInv
<1>1. /\ Passes(s, D, e) /\ s \notin D /\ FeedIs(s, x, Adjacent[s]) /\ Feed(s, x) = {}
      /\ Oldest(s) = JoinOf(m, x) /\ x \in Channel
  BY <1>0, HeldOldest, DatagramIs, DatagramFields DEF Opens, Passes, Topic
<1>2. ASSUME NEW r \in Server, NEW n \in Server, NEW y \in Channel, y = x => r # s /\ n # s
      PROVE  WillFeed(r, n, y)' <=> WillFeed(r, n, y)
  <2>1. r \in D => e # JoinOf(n, y) /\ e # GoneOf(n, y)
    BY <1>2 DEF JoinOf, GoneOf
  <2>2. r = s /\ (Oldest(s) = JoinOf(n, y) \/ Oldest(s) = GoneOf(n, y)) => y = x
    BY <1>1 DEF JoinOf, GoneOf
  <2> HIDE DEF D, e
  <2>3. QED
    BY <1>0, <1>1, <1>2, <2>1, <2>2, WillFeedKept
<1>3. ASSUME NEW n \in Server
      PROVE  ~Holds(inbox[s], GoneOf(n, x))
  BY <1>1 DEF TurnsInv, Giving
<1>4. ASSUME NEW n \in Adjacent[s]
      PROVE  WillFeed(s, n, x)'
  <2>1. n \in Server /\ ~Holds(inbox[s], GoneOf(n, x)) /\ e # GoneOf(n, x)
    BY <1>0, <1>3 DEF JoinOf, GoneOf
  <2>2. ~Holds(inbox'[s], GoneOf(n, x))
    <3> HIDE DEF D, e
    <3>1. QED
      BY <1>0, <1>1, <2>1, PassedHolds
  <2>3. n \in Feed(s, x)'
    BY <1>1 DEF FeedIs, Feed, Has
  <2>4. QED
    BY <2>2, <2>3 DEF WillFeed, Ends, Holds, Feed, Has, GoneOf, JoinOf
<1>m. m \in Adjacent[s] => WillFeed(m, s, x)
  <2>1. ASSUME m \in Adjacent[s]
        PROVE  WillFeed(m, s, x)
    <3>1. inbox[s] \in Seq(Datagram) /\ Len(inbox[s]) # 0
      BY <1>0, <1>1 DEF NetTypeOK, Passes
    <3>2. 1 \in DOMAIN inbox[s] /\ inbox[s][1] = JoinOf(m, x)
      BY <1>1, <2>1, <3>1, Taken DEF Oldest
    <3>3. ~Holds(inbox[s], GoneOf(m, x))
      BY <1>0, <1>3, <2>1
    <3>4. WillFeed(s, m, x)
      BY <3>2, <3>3 DEF WillFeed, Ends, Holds
    <3>5. QED
      BY <1>0, <1>1, <2>1, <3>4 DEF Agreed
  <2>2. QED
    BY <2>1
<1>5. ASSUME NEW n \in Adjacent[s]
      PROVE  WillFeed(n, s, x)'
  <2>1. CASE n = m
    <3>2. WillFeed(n, s, x)
      BY <1>m, <2>1
    <3>3. n \in Server /\ n # s /\ n \notin D
      BY <1>0, <2>1
    <3> HIDE DEF D, e
    <3>4. WillFeed(n, s, x)' <=> WillFeed(n, s, x)
      BY <1>0, <1>1, <3>3, WillFeedKept
    <3>5. QED
      BY <3>2, <3>4
  <2>2. CASE n # m
    <3>1. n \in Server \ {s} /\ n \in D
      BY <1>0, <2>2
    <3>2. inbox[n] \in Seq(Datagram) /\ inbox'[n] = Append(inbox[n], e) /\ e \in Datagram
      <4> HIDE DEF D, e
      <4>1. /\ e \in Datagram
            /\ \A r \in Server \ {s} :
                 /\ inbox[r] \in Seq(Datagram)
                 /\ inbox'[r] = IF r \in D THEN Append(inbox[r], e) ELSE inbox[r]
        BY <1>0, <1>1, PassedQueues
      <4>2. QED
        BY <3>1, <4>1
    <3>3. PICK G : G = Feed(n, x)'
      OBVIOUS
    <3>4. JoinOf(s, x) # GoneOf(s, x)
      BY DEF JoinOf, GoneOf
    <3>5. Ends(inbox'[n], s, G, JoinOf(s, x), GoneOf(s, x))
      BY <3>2, <3>4, EndsAppended
    <3>6. QED
      BY <3>3, <3>5 DEF WillFeed, Ends, Holds, Feed, Has, JoinOf, GoneOf
  <2>3. QED
    BY <2>1, <2>2
<1>6. QED
  BY <1>0, <1>1, <1>2, <1>4, <1>5, <1>m

LEMMA OpensAgreed ==
  ASSUME Acyclic(Adjacent), NeighboursMutual, Ground, TurnsInv, NEW s \in Server, Opens(s)
  PROVE  Agreed'
<1>x. PICK x, m : x = Topic(s) /\ m = Oldest(s).src
  OBVIOUS
<1>o. /\ \A r, n \in Server, y \in Channel :
           (y = x => r # s /\ n # s) => (WillFeed(r, n, y)' <=> WillFeed(r, n, y))
      /\ \A n \in Adjacent[s] : WillFeed(s, n, x)' /\ WillFeed(n, s, x)'
  BY <1>x, OpensFeeds
<1>1. ASSUME NEW r \in Server, NEW n \in Server, NEW y \in Channel, y = x => r # s /\ n # s
      PROVE  WillFeed(r, n, y)' <=> WillFeed(r, n, y)
  BY <1>o, <1>1 DEF WillFeed, Ends, Holds, Feed, Has, JoinOf, GoneOf
<1>2. ASSUME NEW n \in Adjacent[s]
      PROVE  WillFeed(s, n, x)' /\ WillFeed(n, s, x)'
  BY <1>o DEF WillFeed, Ends, Holds, Feed, Has, JoinOf, GoneOf
<1>3. ASSUME NEW a \in Server, NEW b \in Server, NEW y \in Channel, b \in Adjacent[a]
      PROVE  \/ WillFeed(b, a, y)'
             \/ /\ WillFeed(a, b, y)' <=> WillFeed(a, b, y)
                /\ WillFeed(b, a, y)' <=> WillFeed(b, a, y)
  <2>1. CASE y = x /\ a = s
    <3>1. WillFeed(b, s, x)'
      BY <1>2, <1>3, <2>1
    <3>2. QED
      BY <2>1, <3>1 DEF WillFeed, Ends, Holds, Feed, Has, JoinOf, GoneOf
  <2>2. CASE y = x /\ b = s
    <3>1. a \in Adjacent[s]
      BY <1>3, <2>2 DEF NeighboursMutual
    <3>2. WillFeed(s, a, x)'
      BY <1>2, <3>1
    <3>3. QED
      BY <2>2, <3>2 DEF WillFeed, Ends, Holds, Feed, Has, JoinOf, GoneOf
  <2>3. CASE y = x => a # s /\ b # s
    <3>1. /\ WillFeed(a, b, y)' <=> WillFeed(a, b, y)
          /\ WillFeed(b, a, y)' <=> WillFeed(b, a, y)
      BY <1>1, <2>3
    <3>2. QED
      BY <3>1
  <2>4. QED
    BY <2>1, <2>2, <2>3
<1>4. Agreed
  BY DEF TurnsInv
<1>5. QED
  BY <1>4, <1>3, AgreedKept

\* What is known of a server n that sent s a message on x for which s gives x up.
LEMMA PrunesWhat ==
  ASSUME Acyclic(Adjacent), NeighboursMutual, Ground, TurnsInv, NEW s \in Server, Prunes(s),
         NEW x, NEW n, x = Topic(s), n = Oldest(s).src
  PROVE  /\ Passes(s, {n}, GoneOf(s, x)) /\ FeedIs(s, x, {}) /\ Feed(s, x) = {n}
         /\ Oldest(s) \in S2SSay /\ Holds(inbox[s], Oldest(s)) /\ Oldest(s).id \in LatestIds
         /\ n \in Server \ {s} /\ x \in Channel /\ s \in Feed(n, x)
         /\ s \notin Reached /\ n \in Reached
         /\ ~Holds(inbox'[s], JoinOf(n, x))
<1>1. /\ Passes(s, {n}, GoneOf(s, x)) /\ FeedIs(s, x, {}) /\ Feed(s, x) = {n}
      /\ Len(inbox[s]) # 0 /\ Oldest(s).type = "S2S_SAY"
  BY DEF Prunes, Passes, GoneOf
<1>2. Oldest(s) \in S2SSay /\ Holds(inbox[s], Oldest(s))
  BY <1>1, SourceFed
<1>3. n \in Server /\ n \in Adjacent[s] /\ x \in Channel /\ Oldest(s).id \in LatestIds
  BY <1>2, SayHeld DEF Topic, TurnsInv
<1>4. n # s
  BY <1>3, TowardIs
<1>5. /\ s \notin Reached /\ n \in Reached /\ s \in Feed(n, x)
      /\ Before(inbox[s], JoinOf(n, x), Oldest(s))
  BY <1>2 DEF TurnsInv, Spreading, Topic
<1>6. ~Holds(inbox'[s], JoinOf(n, x))
  <2>1. Oldest(s) # JoinOf(n, x)
    BY <1>1 DEF JoinOf
  <2>2. NetTypeOK /\ s \notin {n}
    BY <1>4 DEF Ground, TypeOK
  <2>3. PICK d : d = Oldest(s)
    OBVIOUS
  <2>4. QED
    BY <1>1, <1>5, <2>1, <2>2, <2>3, PassedBefore
<1>7. QED
  BY <1>1, <1>2, <1>3, <1>4, <1>5, <1>6

\* A server that gives a channel up no longer feeds, and will not be fed.
LEMMA PrunesFeeds ==
  ASSUME Acyclic(Adjacent), NeighboursMutual, Ground, TurnsInv, NEW s \in Server, Prunes(s),
         NEW x, NEW n, x = Topic(s), n = Oldest(s).src
  PROVE  /\ \A r, m \in Server, y \in Channel :
              (y = x => ~(r = s /\ m = n) /\ ~(r = n /\ m = s))
              => (WillFeed(r, m, y)' <=> WillFeed(r, m, y))
         /\ ~WillFeed(s, n, x)' /\ ~WillFeed(n, s, x)'
<1>0. NetTypeOK
  BY DEF Ground, TypeOK
<1> DEFINE e == GoneOf(s, x)
<1>1. /\ Passes(s, {n}, e) /\ FeedIs(s, x, {}) /\ Feed(s, x) = {n}
      /\ n \in Server \ {s} /\ x \in Channel
      /\ ~Holds(inbox'[s], JoinOf(n, x))
      /\ \A m, y : Oldest(s) # JoinOf(m, y) /\ Oldest(s) # GoneOf(m, y)
  <2>1. Oldest(s).type = "S2S_SAY"
    BY DEF Prunes
  <2>2. QED
    BY <2>1, PrunesWhat DEF JoinOf, GoneOf
<1>2. ASSUME NEW r \in Server, NEW m \in Server, NEW y \in Channel,
             y = x => ~(r = s /\ m = n) /\ ~(r = n /\ m = s)
      PROVE  WillFeed(r, m, y)' <=> WillFeed(r, m, y)
  <2>1. r \in {n} => e # JoinOf(m, y) /\ e # GoneOf(m, y)
    BY <1>2 DEF JoinOf, GoneOf
  <2>2. r = s /\ y = x => (m \in {} <=> m \in Feed(s, x))
    BY <1>1, <1>2
  <2> HIDE DEF e
  <2>3. QED
    BY <1>0, <1>1, <2>1, <2>2, WillFeedKept
<1>3. ~WillFeed(s, n, x)'
  <2>1. n \notin Feed(s, x)'
    BY <1>1 DEF FeedIs, Feed, Has
  <2>2. QED
    BY <1>1, <2>1 DEF WillFeed, Ends, Holds, Feed, Has, GoneOf, JoinOf
<1>4. ~WillFeed(n, s, x)'
  <2>1. inbox[n] \in Seq(Datagram) /\ inbox'[n] = Append(inbox[n], e) /\ e \in Datagram
    <3> HIDE DEF e
    <3>1. /\ e \in Datagram
          /\ \A r \in Server \ {s} :
               /\ inbox[r] \in Seq(Datagram)
               /\ inbox'[r] = IF r \in {n} THEN Append(inbox[r], e) ELSE inbox[r]
      BY <1>0, <1>1, PassedQueues
    <3>2. QED
      BY <1>1, <3>1
  <2>2. PICK G : G = Feed(n, x)'
    OBVIOUS
  <2>3. JoinOf(s, x) # GoneOf(s, x)
    BY DEF JoinOf, GoneOf
  <2>4. ~Ends(inbox'[n], s, G, JoinOf(s, x), GoneOf(s, x))
    BY <2>1, <2>3, EndsAppended
  <2>5. QED
    BY <2>2, <2>4 DEF WillFeed, Ends, Holds, Feed, Has, JoinOf, GoneOf
<1>5. QED
  BY <1>2, <1>3, <1>4

LEMMA PrunesAgreed ==
  ASSUME Acyclic(Adjacent), NeighboursMutual, Ground, TurnsInv, NEW s \in Server, Prunes(s)
  PROVE  Agreed'
<1>x. PICK x, n : x = Topic(s) /\ n = Oldest(s).src
  OBVIOUS
<1>o. \A r, m \in Server, y \in Channel :
        (y = x => ~(r = s /\ m = n) /\ ~(r = n /\ m = s))
        => (WillFeed(r, m, y)' <=> WillFeed(r, m, y))
  BY <1>x, PrunesFeeds
<1>1. ASSUME NEW r \in Server, NEW m \in Server, NEW y \in Channel,
             y = x => ~(r = s /\ m = n) /\ ~(r = n /\ m = s)
      PROVE  WillFeed(r, m, y)' <=> WillFeed(r, m, y)
  BY <1>o, <1>1 DEF WillFeed, Ends, Holds, Feed, Has, JoinOf, GoneOf
<1>2. ~WillFeed(s, n, x)' /\ ~WillFeed(n, s, x)'
  BY <1>x, PrunesFeeds
<1>3. ASSUME NEW a \in Server, NEW b \in Server, NEW y \in Channel, b \in Adjacent[a]
      PROVE  \/ ~WillFeed(a, b, y)'
             \/ /\ WillFeed(a, b, y)' <=> WillFeed(a, b, y)
                /\ WillFeed(b, a, y)' <=> WillFeed(b, a, y)
  <2>1. CASE y = x /\ a = s /\ b = n
    BY <1>2, <2>1 DEF WillFeed, Ends, Holds, Feed, Has, JoinOf, GoneOf
  <2>2. CASE y = x /\ a = n /\ b = s
    BY <1>2, <2>2 DEF WillFeed, Ends, Holds, Feed, Has, JoinOf, GoneOf
  <2>3. CASE y = x => ~(a = s /\ b = n) /\ ~(a = n /\ b = s)
    <3>1. /\ WillFeed(a, b, y)' <=> WillFeed(a, b, y)
          /\ WillFeed(b, a, y)' <=> WillFeed(b, a, y)
      BY <1>1, <2>3
    <3>2. QED
      BY <3>1
  <2>4. QED
    BY <2>1, <2>2, <2>3
<1>4. Agreed
  BY DEF TurnsInv
<1>5. QED
  BY <1>4, <1>3, AgreedKept

----------------------------------------------------------------------------
(***************************************************************************)
(* Messages go on to spread as they do.                                    *)
(***************************************************************************)
LEMMA SpreadingKept ==
  ASSUME NetTypeOK, Spreading, NEW s \in Server, NEW D, NEW e, Passes(s, D, e), s \notin D,
         NEW x, NEW F, FeedIs(s, x, F), NEW R, R = Reached',
         Reached \subseteq R, R \subseteq Reached \cup {s},
         s \in R \ Reached => \A d \in S2SSay : ~Holds(inbox'[s], d),
         e \in S2SSay => e.src = s /\ e.channel = x /\ s \in R,
         \A r \in Server : r \in D /\ e \in S2SSay =>
           r \notin R /\ r \in F /\ \A d \in S2SSay : ~Holds(inbox[r], d),
         \A r \in Server, d \in S2SSay :
           r \in D /\ e = JoinOf(d.src, d.channel) => ~Holds(inbox[r], d),
         \A r \in Server, d \in S2SSay :
           Holds(inbox[r], d) /\ d.src = s /\ d.channel = x /\ r \in Feed(s, x) => r \in F
  PROVE  Spreading'
<1>1. ASSUME NEW r \in Server
      PROVE  Once(inbox'[r], S2SSay)
  <2>1. Once(inbox[r], S2SSay)
    BY DEF Spreading
  <2>2. QED
    BY <2>1, PassedOnce
<1>2. ASSUME NEW r \in Server, NEW d \in S2SSay, Holds(inbox'[r], d)
      PROVE  /\ r \notin R /\ d.src \in R
             /\ r \in IF d.src = s /\ d.channel = x THEN F ELSE Feed(d.src, d.channel)
             /\ Before(inbox'[r], JoinOf(d.src, d.channel), d)
             /\ d.src \in Server /\ d.channel \in Channel
  <2>1. Holds(inbox[r], d) \/ (r \in D /\ d = e)
    BY <1>2, PassedHolds
  <2>2. d \in Datagram /\ d # JoinOf(d.src, d.channel) /\ d.src \in Server /\ d.channel \in Channel
    BY DEF S2SSay, Datagram, JoinOf
  <2>3. CASE Holds(inbox[r], d)
    <3>1. /\ r \notin Reached /\ d.src \in Reached /\ r \in Feed(d.src, d.channel)
          /\ Before(inbox[r], JoinOf(d.src, d.channel), d)
      BY <2>3 DEF Spreading
    <3>2. r \notin R
      BY <1>2, <3>1
    <3>3. Before(inbox'[r], JoinOf(d.src, d.channel), d)
      <4>1. r \in D /\ e = JoinOf(d.src, d.channel) => ~Holds(inbox[r], d)
        OBVIOUS
      <4>2. QED
        BY <2>2, <3>1, <4>1, PassedBefore
    <3>4. r \in IF d.src = s /\ d.channel = x THEN F ELSE Feed(d.src, d.channel)
      BY <2>3, <3>1
    <3>5. QED
      BY <2>2, <3>1, <3>2, <3>3, <3>4
  <2>4. CASE ~Holds(inbox[r], d)
    <3>1. r \in D /\ d = e
      BY <2>1, <2>4
    <3>2. Before(inbox[r], JoinOf(d.src, d.channel), d)
      BY <2>4 DEF Before, Holds
    <3>3. Before(inbox'[r], JoinOf(d.src, d.channel), d)
      BY <2>2, <3>1, <3>2, PassedBefore
    <3>4. QED
      BY <2>2, <3>1, <3>3
  <2>5. QED
    BY <2>3, <2>4
<1>3. ASSUME NEW r \in Server, NEW d \in S2SSay, Holds(inbox'[r], d)
      PROVE  r \in Feed(d.src, d.channel)'
  <2>1. r \in IF d.src = s /\ d.channel = x THEN F ELSE Feed(d.src, d.channel)
    BY <1>2, <1>3
  <2>2. PICK p \in Server, y \in Channel : p = d.src /\ y = d.channel
    BY <1>2, <1>3
  <2>3. QED
    BY <2>1, <2>2 DEF FeedIs, Feed, Has
<1>4. QED
  BY <1>1, <1>2, <1>3 DEF Spreading, Once, Holds, Before, JoinOf, Feed, Has

LEMMA GivingKept ==
  ASSUME NetTypeOK, Giving, NEW s \in Server, NEW D, NEW e, Passes(s, D, e), s \notin D,
         NEW x \in Channel, NEW F, FeedIs(s, x, F), NEW R, R = Reached', Reached \subseteq R,
         \A r \in Server, y \in Channel : r \in D /\ e = GoneOf(s, y) =>
           /\ ~Holds(inbox[r], e) /\ r \in R /\ s \in R
           /\ s \in Feed(r, y) /\ ~Holds(inbox'[s], JoinOf(r, y)),
         \A r \in Server, y \in Channel : D # {} => e # GoneOf(r, y) \/ r = s,
         \A r \in Server, y \in Channel : r \in D /\ e = JoinOf(s, y) => ~Holds(inbox[s], GoneOf(r, y)),
         \A r, p \in Server, y \in Channel : r \in D /\ e = JoinOf(p, y) => p = s,
         \A r \in Server : Holds(inbox'[s], GoneOf(r, x)) /\ r \in Feed(s, x) => r \in F
  PROVE  Giving'
<1>1. ASSUME NEW a \in Server, NEW b \in Server, NEW y \in Channel, Holds(inbox'[a], GoneOf(b, y))
      PROVE  /\ Once(inbox'[a], {GoneOf(b, y)})
             /\ a \in R /\ b \in R
             /\ b \in IF a = s /\ y = x THEN F ELSE Feed(a, y)
             /\ ~Holds(inbox'[b], JoinOf(a, y))
  <2> DEFINE g == GoneOf(b, y)
             j == JoinOf(a, y)
  <2>1. Holds(inbox[a], g) \/ (a \in D /\ g = e)
    BY <1>1, PassedHolds
  <2>2. CASE Holds(inbox[a], g)
    <3>1. /\ Once(inbox[a], {g}) /\ a \in Reached /\ b \in Reached /\ b \in Feed(a, y)
          /\ ~Holds(inbox[b], j)
      BY <2>2 DEF Giving
    <3>2. ~(a \in D /\ e = g)
      <4>1. e = g /\ a \in D => b = s
        OBVIOUS
      <4>2. e = g /\ a \in D => e = GoneOf(s, y)
        BY <4>1
      <4>3. QED
        BY <2>2, <4>2
    <3>3. Once(inbox'[a], {g})
      <4> HIDE DEF g
      <4>1. QED
        BY <3>1, <3>2, PassedOnce
    <3>4. b \in IF a = s /\ y = x THEN F ELSE Feed(a, y)
      BY <1>1, <3>1
    <3>5. ~Holds(inbox'[b], j)
      <4>1. b \in D /\ e = j => a = s
        OBVIOUS
      <4>2. ~(b \in D /\ e = j)
        BY <2>2, <4>1
      <4> HIDE DEF j
      <4>3. QED
        BY <3>1, <4>2, PassedHolds
    <3>6. QED
      BY <3>1, <3>3, <3>4, <3>5
  <2>3. CASE ~Holds(inbox[a], g)
    <3>1. a \in D /\ e = g
      BY <2>1, <2>3
    <3>2. b = s
      BY <3>1
    <3>3. /\ a \in R /\ s \in R /\ s \in Feed(a, y) /\ ~Holds(inbox'[s], JoinOf(a, y))
      BY <3>1, <3>2
    <3>4. Once(inbox'[a], {g})
      <4>1. Once(inbox[a], {g}) /\ \A d \in {g} : ~Holds(inbox[a], d)
        BY <2>3 DEF Once, Holds
      <4> HIDE DEF g
      <4>2. QED
        BY <4>1, PassedOnce
    <3>5. a # s
      BY <3>1
    <3>6. QED
      BY <3>2, <3>3, <3>4, <3>5
  <2>4. QED
    BY <2>2, <2>3
<1>2. ASSUME NEW a \in Server, NEW b \in Server, NEW y \in Channel, Holds(inbox'[a], GoneOf(b, y))
      PROVE  b \in Feed(a, y)'
  BY <1>1, <1>2 DEF FeedIs, Feed, Has
<1>3. QED
  BY <1>1, <1>2 DEF Giving, Once, Holds, JoinOf, GoneOf, Feed, Has

\* Turns that send nothing, take nobody out and say nothing.
LEMMA SilentSpreads ==
  ASSUME Ground, TurnsInv, NEW s \in Server, Passes(s, {}, Silence(s)),
         NEW x \in Channel, NEW F, FeedIs(s, x, F), UNCHANGED <<said, ID_LIST, says>>,
         \A r \in Server : r \in Feed(s, x) /\ r \notin F =>
           /\ \A d \in S2SSay : Holds(inbox[r], d) => ~(d.src = s /\ d.channel = x)
           /\ ~Holds(inbox'[s], GoneOf(r, x))
  PROVE  Spreading' /\ Giving'
<1>0. NetTypeOK /\ Spreading /\ Giving
  BY DEF Ground, TypeOK, TurnsInv
<1>1. PICK R : R = Reached'
  OBVIOUS
<1>2. R = Reached
  BY <1>1, MarksKept
<1>3. Silence(s) \notin S2SSay /\ \A n, y : Silence(s) # JoinOf(n, y)
  BY DEF Silence, S2SSay, JoinOf
<1>4. PICK e : e = Silence(s)
  OBVIOUS
<1>5. Spreading'
  BY <1>0, <1>1, <1>2, <1>3, <1>4, SpreadingKept
<1>6. Giving'
  BY <1>0, <1>1, <1>2, <1>3, <1>4, GivingKept
<1>7. QED
  BY <1>5, <1>6

LEMMA HearsSpreads ==
  ASSUME Ground, TurnsInv, NEW s \in Server, Hears(s), UNCHANGED says
  PROVE  Spreading' /\ Giving'
<1>1. Passes(s, {}, Silence(s)) /\ FeedIs(s, Common, Feed(s, Common)) /\ Common \in Channel
  BY KeptIs, ProtocolAssumption DEF Hears
<1>2. QED
  BY <1>1, SilentSpreads DEF Hears

LEMMA AdmitsSpreads ==
  ASSUME Ground, TurnsInv, NEW s \in Server, Admits(s), UNCHANGED says
  PROVE  Spreading' /\ Giving'
<1>x. PICK x : x = Topic(s)
  OBVIOUS
<1>1. PICK F : F = Feed(s, x) \cup {Oldest(s).src}
  OBVIOUS
<1>2. Passes(s, {}, Silence(s)) /\ FeedIs(s, x, F)
  BY <1>x, <1>1 DEF Admits
<1>3. x \in Channel
  BY <1>x, HeldOldest, DatagramFields DEF Admits, Passes, Topic, Ground, TypeOK
<1>4. QED
  BY <1>1, <1>2, <1>3, SilentSpreads DEF Admits

\* The server that leaves has met the latest message: none is on its way to it.
LEMMA DropsSpreads ==
  ASSUME NeighboursMutual, Ground, TurnsInv, NEW s \in Server, Drops(s), UNCHANGED says
  PROVE  Spreading' /\ Giving'
<1>x. PICK x, n : x = Topic(s) /\ n = Oldest(s).src
  OBVIOUS
<1>1. /\ Oldest(s) = GoneOf(n, x) /\ n \in Server /\ x \in Channel
      /\ n \in Feed(s, x)
  BY <1>x, DropsAgreed
<1>2. PICK F : F = Feed(s, x) \ {n}
  OBVIOUS
<1>3. Passes(s, {}, Silence(s)) /\ FeedIs(s, x, F)
  BY <1>x, <1>1, <1>2 DEF Drops
<1>4. NetTypeOK /\ s \notin {}
  BY DEF Ground, TypeOK
<1>5. Holds(inbox[s], GoneOf(n, x))
  BY <1>1, <1>3, HeldOldest, <1>4 DEF Passes
<1>6. /\ n \in Reached /\ Once(inbox[s], {GoneOf(n, x)})
  BY <1>1, <1>5 DEF TurnsInv, Giving
<1>7. \A d \in S2SSay : ~Holds(inbox[n], d)
  BY <1>1, <1>6 DEF TurnsInv, Spreading
<1>8. ~Holds(inbox'[s], GoneOf(n, x))
  <2>1. PICK g, e : g = GoneOf(n, x) /\ e = Silence(s)
    OBVIOUS
  <2>2. QED
    BY <1>1, <1>3, <1>4, <1>6, <2>1, PassedOnce
<1>9. QED
  BY <1>2, <1>3, <1>1, <1>7, <1>8, SilentSpreads DEF Drops

\* A server that takes up a channel fed nobody there: it has sent no message on it.
LEMMA OpensSpreads ==
  ASSUME Acyclic(Adjacent), NeighboursMutual, Ground, TurnsInv, NEW s \in Server, Opens(s),
         UNCHANGED says
  PROVE  Spreading' /\ Giving'
<1>0. NetTypeOK /\ Spreading /\ Giving
  BY DEF Ground, TypeOK, TurnsInv
<1>x. PICK x, m : x = Topic(s) /\ m = Oldest(s).src
  OBVIOUS
<1>1. PICK D, F, e : D = Adjacent[s] \ {m} /\ F = Adjacent[s] /\ e = JoinOf(s, x)
  OBVIOUS
<1>2. /\ Passes(s, D, e) /\ s \notin D /\ FeedIs(s, x, F) /\ Feed(s, x) = {}
      /\ UNCHANGED <<said, ID_LIST, says>>
  BY <1>x, <1>1, FeedAdjacent, TowardIs DEF Opens
<1>3. x \in Channel
  BY <1>x, HeldOldest, DatagramFields, <1>0 DEF Opens, Passes, Topic
<1>4. PICK R : R = Reached'
  OBVIOUS
<1>5. R = Reached
  BY <1>2, <1>4, MarksKept
<1>6. /\ e \notin S2SSay /\ \A n, y : e # GoneOf(n, y)
      /\ \A n, y : e = JoinOf(n, y) => n = s /\ y = x
  BY <1>1 DEF JoinOf, S2SSay, GoneOf
<1>7. \A r \in Server, d \in S2SSay : Holds(inbox[r], d) => ~(d.src = s /\ d.channel = x)
  BY <1>0, <1>2 DEF Spreading
<1>8. \A r \in Server : ~Holds(inbox[s], GoneOf(r, x))
  BY <1>0, <1>2, <1>3 DEF Giving
<1>9. Spreading'
  BY <1>0, <1>2, <1>3, <1>4, <1>5, <1>6, <1>7, SpreadingKept
<1>10. Giving'
  <2>1. \A r \in Server, y \in Channel : r \in D /\ e = JoinOf(s, y) => ~Holds(inbox[s], GoneOf(r, y))
    BY <1>6, <1>8
  <2>2. QED
    BY <1>0, <1>2, <1>3, <1>4, <1>5, <1>6, <2>1, GivingKept
<1>11. QED
  BY <1>9, <1>10

LEMMA PrunesSpreads ==
  ASSUME Acyclic(Adjacent), NeighboursMutual, Ground, TurnsInv, NEW s \in Server, Prunes(s),
         UNCHANGED says
  PROVE  Spreading' /\ Giving'
<1>0. NetTypeOK /\ Spreading /\ Giving
  BY DEF Ground, TypeOK, TurnsInv
<1>x. PICK x, n : x = Topic(s) /\ n = Oldest(s).src
  OBVIOUS
<1>1. PICK D, F, e : D = {n} /\ F = {} /\ e = GoneOf(s, x)
  OBVIOUS
<1>2. /\ Passes(s, D, e) /\ FeedIs(s, x, F) /\ Feed(s, x) = {n}
      /\ Oldest(s) \in S2SSay /\ Oldest(s).id \in LatestIds
      /\ n \in Server \ {s} /\ x \in Channel /\ s \in Feed(n, x)
      /\ s \notin Reached /\ n \in Reached
      /\ ~Holds(inbox'[s], JoinOf(n, x))
  BY <1>x, <1>1, PrunesWhat
<1>3. PICK R : R = Reached'
  OBVIOUS
<1>4. R = Reached \cup {s}
  BY <1>2, <1>3, ReachedGrows DEF Prunes, Ground
<1>5. /\ e \notin S2SSay /\ \A p, y : e # JoinOf(p, y)
      /\ \A p, y : e = GoneOf(p, y) => p = s /\ y = x
  BY <1>1 DEF JoinOf, S2SSay, GoneOf
<1>6. \A d \in S2SSay : ~Holds(inbox'[s], d)
  <2>1. Once(inbox[s], S2SSay) /\ s \notin D
    BY <1>0, <1>1, <1>2 DEF Spreading
  <2>2. QED
    BY <1>0, <1>2, <1>5, <2>1, PassedOnce
<1>7. \A r \in Server, d \in S2SSay : Holds(inbox[r], d) => d.src # s
  BY <1>0, <1>2 DEF Spreading
<1>8. \A r \in Server, y \in Channel : ~Holds(inbox[s], GoneOf(r, y)) /\ ~Holds(inbox[r], GoneOf(s, y))
  BY <1>0, <1>2 DEF Giving
<1>9. Spreading'
  BY <1>0, <1>1, <1>2, <1>3, <1>4, <1>5, <1>6, <1>7, SpreadingKept
<1>10. Giving'
  <2>1. \A r \in Server, y \in Channel : r \in D /\ e = GoneOf(s, y) =>
           /\ ~Holds(inbox[r], e) /\ r \in R /\ s \in R
           /\ s \in Feed(r, y) /\ ~Holds(inbox'[s], JoinOf(r, y))
    BY <1>1, <1>2, <1>4, <1>5, <1>8
  <2>2. \A r \in Server : ~Holds(inbox'[s], GoneOf(r, x))
    <3>1. ASSUME NEW r \in Server PROVE ~Holds(inbox'[s], GoneOf(r, x))
      <4>1. PICK g : g = GoneOf(r, x)
        OBVIOUS
      <4>2. s \notin D /\ ~Holds(inbox[s], g)
        BY <1>1, <1>2, <1>8, <4>1
      <4>3. QED
        BY <1>0, <1>2, <4>1, <4>2, PassedHolds
    <3>2. QED
      BY <3>1
  <2>3. s \notin D
    BY <1>1, <1>2
  <2>4. QED
    BY <1>0, <1>2, <1>3, <1>4, <1>5, <2>1, <2>2, <2>3, GivingKept
<1>11. QED
  BY <1>9, <1>10

\* Where a message is passed on, it comes for the first time: it only spreads away
\* from its origin.
LEMMA FreshTargets ==
  ASSUME Acyclic(Adjacent), NeighboursMutual, Ground, TurnsInv, NEW s \in Server,
         Len(inbox[s]) # 0, Oldest(s).type = "S2S_SAY",
         NEW r \in Adjacent[s], r # Oldest(s).src
  PROVE  r \notin Reached /\ \A d \in S2SSay : ~Holds(inbox[r], d)
<1> DEFINE f == Oldest(s)
           id == Oldest(s).id
<1>0. /\ TypeOK /\ MessageInv /\ r \in Server /\ f \in S2SSay /\ Holds(inbox[s], f)
      /\ Current /\ Trail /\ Spreading
  BY SourceFed, FeedAdjacent DEF Ground, TurnsInv
<1>1. /\ s \notin Reached /\ f.src \in Reached /\ id \in LatestIds /\ LatestIds \subseteq Id
      /\ f.src \in Server
  BY <1>0, SayHeld DEF Spreading, LatestIds
<1>2. PICK jd \in LatestIds : Met(f.src, jd)
  BY <1>1 DEF Reached
<1>3. PICK o \in Server : HasSaid(o, id) /\ Toward[o][s] = f.src
  BY <1>0, SayHeld
<1>4. PICK p \in Server : \A q \in Server, kd \in LatestIds : HasSaid(q, kd) => q = p /\ kd = jd
  BY <1>0, <1>1, <1>2, OneMark
<1>5. o = p /\ id = jd
  BY <1>1, <1>3, <1>4
<1>6. Toward[o][r] = s
  BY <1>0, <1>3, TowardIs
<1>7. r \notin Reached
  <2>1. SUFFICES ASSUME r \in Reached PROVE FALSE
    OBVIOUS
  <2>2. Met(r, jd)
    BY <1>0, <1>1, <1>2, <2>1, OneMark
  <2>3. Met(s, jd)
    BY <1>0, <1>1, <1>3, <1>5, <1>6, <2>2 DEF Trail
  <2>4. QED
    BY <1>1, <2>3 DEF Reached
<1>8. ASSUME NEW d \in S2SSay, Holds(inbox[r], d)
      PROVE  FALSE
  <2>1. d.src \in Reached /\ d.id \in LatestIds
    BY <1>0, <1>8, SayHeld DEF Spreading
  <2>2. PICK q \in Server : HasSaid(q, d.id) /\ Toward[q][r] = d.src
    BY <1>0, <1>8, SayHeld
  <2>3. q = o
    BY <1>4, <1>5, <2>1, <2>2
  <2>4. QED
    BY <1>1, <1>6, <2>1, <2>2, <2>3
<1>9. QED
  BY <1>7, <1>8

LEMMA RelaysSpreads ==
  ASSUME Acyclic(Adjacent), NeighboursMutual, Ground, TurnsInv, NEW s \in Server, Relays(s),
         UNCHANGED says
  PROVE  Spreading' /\ Giving'
<1>0. NetTypeOK /\ Spreading /\ Giving /\ Current /\ TypeOK
  BY DEF Ground, TypeOK, TurnsInv
<1>x. PICK x, n : x = Topic(s) /\ n = Oldest(s).src
  OBVIOUS
<1>1. PICK t \in Text, id \in Id :
        /\ Enters(s, id) /\ FeedKept
        /\ Passes(s, Feed(s, x) \ {n},
                  [type |-> "S2S_SAY", src |-> s, channel |-> x, text |-> t, id |-> id])
  BY <1>x DEF Relays
<1>2. PICK F, e : F = Feed(s, x)
                  /\ e = [type |-> "S2S_SAY", src |-> s, channel |-> x, text |-> t, id |-> id]
  OBVIOUS
<1>3. PICK D : D = F \ {n}
  OBVIOUS
<1>4. /\ Passes(s, D, e) /\ Len(inbox[s]) # 0 /\ FeedIs(s, x, F)
      /\ F \subseteq Adjacent[s] /\ Adjacent[s] \subseteq Server /\ s \notin Adjacent[s]
  BY <1>1, <1>2, <1>3, KeptIs, FeedAdjacent, TowardIs DEF Passes
<1>5. Oldest(s).type \in {"REQ_SAY", "S2S_SAY"} /\ x \in Channel
  <2>1. Oldest(s) \in Datagram
    BY <1>0, <1>4, HeldOldest
  <2>2. Oldest(s).type \in {"REQ_SAY", "S2S_SAY"}
    BY <1>1 DEF Enters
  <2>3. QED
    BY <1>x, <2>1, <2>2, DatagramFields DEF Topic
<1>6. PICK R : R = Reached'
  OBVIOUS
<1>7. id \in LatestIds
  <2>1. CASE Oldest(s).type = "REQ_SAY"
    BY <1>0, <1>1, <1>4, <2>1, NobodyMet DEF Enters
  <2>2. CASE Oldest(s).type = "S2S_SAY"
    BY <1>0, <1>1, <1>4, <2>2, SourceFed, SayHeld DEF Enters
  <2>3. QED
    BY <1>5, <2>1, <2>2
<1>8. R = Reached \cup {s}
  BY <1>0, <1>1, <1>6, <1>7, ReachedGrows
<1>9. /\ \A p, y : e # JoinOf(p, y) /\ e # GoneOf(p, y)
      /\ e.src = s /\ e.channel = x
  BY <1>2 DEF JoinOf, GoneOf
<1>10. ASSUME NEW r \in D
       PROVE  r \notin Reached /\ \A d \in S2SSay : ~Holds(inbox[r], d)
  <2>1. r \in Adjacent[s] /\ r \in Server /\ r # n
    BY <1>3, <1>4
  <2>2. CASE Oldest(s).type = "REQ_SAY"
    BY <1>0, <1>4, <2>1, <2>2, NobodyMet DEF Spreading
  <2>3. CASE Oldest(s).type = "S2S_SAY"
    BY <1>x, <1>4, <2>1, <2>3, FreshTargets
  <2>4. QED
    BY <1>5, <2>2, <2>3
<1>11. \A d \in S2SSay : ~Holds(inbox'[s], d)
  <2>1. s \notin D
    BY <1>3, <1>4
  <2>2. CASE Oldest(s).type = "REQ_SAY"
    <3>1. \A d \in S2SSay : ~Holds(inbox[s], d)
      BY <1>0, <1>4, <2>2, NobodyMet DEF Spreading
    <3>2. QED
      BY <1>0, <1>4, <2>1, <3>1, PassedHolds
  <2>3. CASE Oldest(s).type = "S2S_SAY"
    <3>1. Oldest(s) \in S2SSay /\ Once(inbox[s], S2SSay)
      BY <1>0, <1>4, <2>3, SourceFed DEF Spreading
    <3>2. QED
      BY <1>0, <1>4, <2>1, <3>1, PassedOnce
  <2>4. QED
    BY <1>5, <2>2, <2>3
<1>12. Spreading'
  <2>1. \A r \in Server : r \in D /\ e \in S2SSay =>
           r \notin R /\ r \in F /\ \A d \in S2SSay : ~Holds(inbox[r], d)
    BY <1>3, <1>4, <1>8, <1>10
  <2>2. s \notin D
    BY <1>3, <1>4
  <2>3. QED
    BY <1>0, <1>2, <1>4, <1>6, <1>8, <1>9, <1>11, <2>1, <2>2, SpreadingKept
<1>13. Giving'
  <2>1. s \notin D
    BY <1>3, <1>4
  <2>2. QED
    BY <1>0, <1>2, <1>4, <1>5, <1>6, <1>8, <1>9, <2>1, GivingKept
<1>14. QED
  BY <1>12, <1>13

----------------------------------------------------------------------------
(***************************************************************************)
(* The rest of a turn.                                                     *)
(***************************************************************************)
Turns(s) == Hears(s) \/ Admits(s) \/ Opens(s) \/ Drops(s) \/ Prunes(s) \/ Relays(s)

LEMMA TurnPasses ==
  ASSUME Acyclic(Adjacent), NeighboursMutual, Ground, TurnsInv, NEW s \in Server, Turns(s)
  PROVE  \E D, e : /\ Passes(s, D, e) /\ s \notin D /\ e.src = s
                   /\ e.type \in {"REQ_JOIN", "S2S_LEAVE", "S2S_SAY"}
                   /\ e.type = "S2S_SAY" => e.text.msg = says
<1>0. s \notin Adjacent[s]
  BY TowardIs
<1>1. CASE Hears(s) \/ Admits(s) \/ Drops(s)
  BY <1>1 DEF Hears, Admits, Drops, Silence
<1>2. CASE Opens(s)
  <2>1. PICK e : e = JoinOf(s, Topic(s))
    OBVIOUS
  <2>2. e.src = s /\ e.type = "REQ_JOIN"
    BY <2>1 DEF JoinOf
  <2>3. QED
    BY <1>0, <1>2, <2>1, <2>2 DEF Opens
<1>3. CASE Prunes(s)
  <2>1. PICK e, x : e = GoneOf(s, x) /\ x = Topic(s)
    OBVIOUS
  <2>2. Passes(s, {Oldest(s).src}, e) /\ Oldest(s).src # s
    BY <1>3, <2>1, PrunesWhat
  <2>3. e.src = s /\ e.type = "S2S_LEAVE"
    BY <2>1 DEF GoneOf
  <2>4. QED
    BY <2>2, <2>3
<1>4. CASE Relays(s)
  <2>1. PICK t \in Text, id \in Id :
          /\ Enters(s, id) /\ t.msg = Oldest(s).text.msg
          /\ Passes(s, Feed(s, Topic(s)) \ {Oldest(s).src},
                    [type |-> "S2S_SAY", src |-> s, channel |-> Topic(s), text |-> t, id |-> id])
    BY <1>4 DEF Relays
  <2>2. Oldest(s) \in Datagram /\ Holds(inbox[s], Oldest(s))
    BY <2>1, HeldOldest DEF Passes, Ground, TypeOK
  <2>3. t.msg = says
    BY <2>1, <2>2 DEF Enters, TurnsInv, Current
  <2>4. s \notin Feed(s, Topic(s))
    BY <1>0, FeedAdjacent
  <2>5. QED
    BY <2>1, <2>3, <2>4
<1>5. QED
  BY <1>1, <1>2, <1>3, <1>4 DEF Turns

LEMMA TurnEnters ==
  ASSUME NeighboursMutual, Ground, TurnsInv, NEW s \in Server, Turns(s)
  PROVE  \/ UNCHANGED <<said, ID_LIST>>
         \/ /\ \E id \in LatestIds : Enters(s, id)
            /\ Len(inbox[s]) # 0
<1>1. CASE Hears(s) \/ Admits(s) \/ Drops(s) \/ Opens(s)
  BY <1>1 DEF Hears, Admits, Drops, Opens
<1>2. ASSUME NEW id \in Id, Enters(s, id), Len(inbox[s]) # 0
      PROVE  id \in LatestIds
  <2>1. CASE Oldest(s).type = "REQ_SAY"
    BY <1>2, <2>1, NobodyMet DEF Enters, TurnsInv
  <2>2. CASE Oldest(s).type = "S2S_SAY"
    BY <1>2, <2>2, SourceFed, SayHeld DEF Enters, TurnsInv
  <2>3. QED
    BY <1>2, <2>1, <2>2 DEF Enters
<1>3. CASE Prunes(s)
  <2>1. Enters(s, Oldest(s).id) /\ Len(inbox[s]) # 0 /\ Oldest(s).type = "S2S_SAY"
    BY <1>3 DEF Prunes, Passes
  <2>2. Oldest(s).id \in Id
    BY <2>1, HeldOldest, DatagramFields DEF Ground, TypeOK
  <2>3. QED
    BY <1>2, <2>1, <2>2
<1>4. CASE Relays(s)
  BY <1>2, <1>4 DEF Relays, Passes
<1>5. QED
  BY <1>1, <1>3, <1>4 DEF Turns

\* The mark a server makes has its way back to the origin: the message came along it.
LEMMA TrailKept ==
  ASSUME Acyclic(Adjacent), NeighboursMutual, Ground, TurnsInv, NEW s \in Server, Turns(s)
  PROVE  Trail'
<1>0. TypeOK /\ MessageInv /\ Current /\ Trail /\ Spreading
  BY DEF Ground, TurnsInv
<1>1. CASE UNCHANGED <<said, ID_LIST>>
  BY <1>0, <1>1 DEF Trail, Met, HasSaid, SeenBefore
<1>2. ASSUME NEW id \in LatestIds, Enters(s, id), Len(inbox[s]) # 0
      PROVE  Trail'
  <2>0. id \in Id
    BY DEF LatestIds
  <2>1. \A r \in Server, jd \in Id :
           /\ Met(r, jd)' <=> Met(r, jd) \/ (r = s /\ jd = id)
           /\ HasSaid(r, jd)' <=>
                HasSaid(r, jd) \/ (r = s /\ jd = id /\ Oldest(s).type = "REQ_SAY")
    BY <1>0, <1>2, <2>0, Marked DEF Met, HasSaid, SeenBefore
  <2>2. SUFFICES ASSUME NEW a \in Server, NEW o \in Server, NEW jd \in Id,
                        Met(a, jd)', HasSaid(o, jd)'
                 PROVE  Met(Toward[o][a], jd)'
    BY DEF Trail, Met, HasSaid, SeenBefore
  <2>3. PICK w \in Server : w = Toward[o][a]
    BY TowardServer
  <2>4. /\ Met(a, jd) \/ (a = s /\ jd = id)
        /\ HasSaid(o, jd) \/ (o = s /\ jd = id /\ Oldest(s).type = "REQ_SAY")
    BY <2>1, <2>2
  <2>5. CASE Met(a, jd) /\ HasSaid(o, jd)
    <3>1. Met(w, jd)
      BY <1>0, <2>3, <2>5 DEF Trail
    <3>2. QED
      BY <2>1, <2>3, <3>1 DEF Met, HasSaid, SeenBefore
  <2>6. CASE Oldest(s).type = "REQ_SAY" /\ jd = id
    <3>1. \A r \in Server : ~Met(r, id)
      BY <1>0, <1>2, <2>6, NobodyMet
    <3>2. a = s
      BY <2>4, <2>6, <3>1
    <3>3. o = s
      BY <2>4, <2>6, <3>1 DEF Met
    <3>4. w = s
      BY <2>3, <3>2, <3>3, TowardIs
    <3>5. QED
      BY <2>1, <2>3, <2>6, <3>4 DEF Met, HasSaid, SeenBefore
  <2>7. CASE Oldest(s).type = "S2S_SAY" /\ jd = id /\ a = s /\ HasSaid(o, id)
    <3>1. Oldest(s) \in S2SSay /\ Holds(inbox[s], Oldest(s)) /\ id = Oldest(s).id
      BY <1>0, <1>2, <2>7, SourceFed DEF Enters
    <3>2. PICK p \in Server : HasSaid(p, id) /\ Toward[p][s] = Oldest(s).src
      BY <1>0, <3>1, SayHeld
    <3>3. Oldest(s).src \in Reached
      BY <1>0, <3>1 DEF Spreading
    <3>4. PICK kd \in LatestIds : Oldest(s).src \in Server /\ Met(Oldest(s).src, kd)
      BY <3>3 DEF Reached
    <3>5. PICK q \in Server : \A r \in Server, ld \in LatestIds : HasSaid(r, ld) => r = q /\ ld = kd
      BY <1>0, <3>4, OneMark
    <3>6. p = q /\ o = q /\ id = kd
      BY <2>7, <3>2, <3>5
    <3>7. w = Oldest(s).src /\ Met(w, id)
      BY <2>3, <2>7, <3>2, <3>4, <3>6
    <3>8. QED
      BY <2>1, <2>3, <2>7, <3>7 DEF Met, HasSaid, SeenBefore
  <2>8. QED
    BY <1>2, <2>4, <2>5, <2>6, <2>7 DEF Enters
<1>3. QED
  BY <1>1, <1>2, TurnEnters

LEMMA CurrentKept ==
  ASSUME NetTypeOK, Current, NEW s \in Server, NEW D, NEW e, Passes(s, D, e), s \notin D,
         e.type \in {"REQ_JOIN", "S2S_LEAVE", "S2S_SAY"}, e.type = "S2S_SAY" => e.text.msg = says,
         UNCHANGED says
  PROVE  Current'
<1>1. ASSUME NEW r \in Server, NEW d \in Datagram, Holds(inbox'[r], d)
      PROVE  /\ d.type \in {"REQ_SAY", "S2S_SAY"} => d.text.msg = says
             /\ d.type # "REQ_LOGOUT"
  <2>1. Holds(inbox[r], d) \/ d = e
    BY <1>1, PassedHolds
  <2>2. QED
    BY <2>1 DEF Current
<1>2. QED
  BY <1>1 DEF Current, Holds

\* Who speaks is heard first; nobody else leaves meanwhile.
LEMMA SpeakerKept ==
  ASSUME NetTypeOK, SpeakerInside, NEW s \in Server, MembersFollow(s),
         NEW D, NEW e, Passes(s, D, e), s \notin D,
         e.type \in {"REQ_JOIN", "S2S_LEAVE", "S2S_SAY"}
  PROVE  SpeakerInside'
<1>1. ASSUME NEW r \in Server, NEW k \in DOMAIN inbox'[r], inbox'[r][k].type = "REQ_SAY"
      PROVE  /\ k = 1
             /\ \E y \in Channel : \E c : /\ y = inbox'[r][k].channel /\ c = inbox'[r][k].src
                                        /\ knows(Users(r, y)', c)
  <2>1. CASE r = s
    <3>1. inbox[s] \in Seq(Datagram) /\ Len(inbox[s]) # 0 /\ inbox'[s] = RemoveAt(inbox[s], 1)
      BY PassedQueues
    <3>2. /\ DOMAIN inbox[s] = 1 .. Len(inbox[s]) /\ Len(inbox[s]) \in Nat
          /\ DOMAIN inbox'[s] = 1 .. Len(inbox[s]) - 1
          /\ \A i \in DOMAIN inbox'[s] : inbox'[s][i] = inbox[s][i + 1]
      BY <3>1, Taken
    <3>3. k \in 1 .. Len(inbox[s]) - 1 /\ k + 1 \in DOMAIN inbox[s] /\ k + 1 # 1
      BY <1>1, <2>1, <3>2
    <3>4. inbox[s][k + 1].type = "REQ_SAY"
      BY <1>1, <2>1, <3>2
    <3>5. k + 1 = 1
      BY <3>3, <3>4 DEF SpeakerInside
    <3>6. QED
      BY <3>3, <3>5
  <2>2. CASE r # s
    <3>1. inbox[r] \in Seq(Datagram) /\ e \in Datagram
          /\ inbox'[r] = IF r \in D THEN Append(inbox[r], e) ELSE inbox[r]
      BY <2>2, PassedQueues
    <3>2. k \in DOMAIN inbox[r] /\ inbox'[r][k] = inbox[r][k]
      <4>1. CASE r \in D
        <5>1. /\ DOMAIN inbox'[r] = DOMAIN inbox[r] \cup {Len(inbox[r]) + 1}
              /\ inbox'[r][Len(inbox[r]) + 1] = e
              /\ \A i \in DOMAIN inbox[r] : inbox'[r][i] = inbox[r][i]
          BY <3>1, <4>1, Appended
        <5>2. QED
          BY <1>1, <5>1
      <4>2. CASE r \notin D
        BY <3>1, <4>2
      <4>3. QED
        BY <4>1, <4>2
    <3>3. k = 1 /\ knows(Users(r, inbox[r][k].channel), inbox[r][k].src)
      BY <1>1, <3>2 DEF SpeakerInside
    <3>4. inbox[r][k].channel \in Channel
      <4>1. inbox[r][k] \in Datagram /\ inbox[r][k].type = "REQ_SAY"
        BY <1>1, <3>2, QueueElements
      <4>2. QED
        BY <4>1, DatagramFields
    <3>5. PICK y, c : y \in Channel /\ y = inbox[r][k].channel /\ c = inbox[r][k].src
      BY <3>4
    <3>6. Users(r, y)' = Users(r, y)
      BY <2>2, <3>5 DEF MembersFollow
    <3>7. knows(Users(r, y), c)
      BY <3>3, <3>5
    <3>8. knows(Users(r, y)', c)
      BY <3>6, <3>7
    <3>9. QED
      BY <3>2, <3>3, <3>5, <3>8
  <2>3. QED
    BY <2>1, <2>2
<1>2. QED
  BY <1>1 DEF SpeakerInside, Users, Has, knows

LEMMA ActiveKept ==
  ASSUME NetTypeOK, ActiveInside, NEW s \in Server, MembersFollow(s),
         NEW D, NEW e, Passes(s, D, e), s \notin D,
         e.type \in {"REQ_JOIN", "S2S_LEAVE", "S2S_SAY"}, e.src = s, UNCHANGED active
  PROVE  ActiveInside'
<1>1. ASSUME NEW c \in Client, NEW x \in Channel, active[c] = x
      PROVE  Ends(inbox'[Home[c]], c, Members(x)', JoinOf(c, x), LeaveOf(c, x))
  <2>1. PICK h \in Server : h = Home[c]
    BY ProtocolAssumption
  <2>2. PICK G, F, on, off : G = Members(x)' /\ F = Members(x)
                             /\ on = JoinOf(c, x) /\ off = LeaveOf(c, x)
    OBVIOUS
  <2>3. Ends(inbox[h], c, F, on, off)
    BY <1>1, <2>1, <2>2 DEF ActiveInside
  <2>4. /\ on # off /\ e # on /\ e # off
    BY <2>2, ProtocolAssumption DEF JoinOf, LeaveOf
  <2>5. /\ c \in F <=> knows(Users(h, x), c)
        /\ c \in G <=> knows(Users(h, x)', c)
    BY <2>1, <2>2 DEF Members, Users, Has, knows
  <2>6. (c \in F /\ ~(h = s /\ Oldest(s) = off)) \/ (h = s /\ Oldest(s) = on) => c \in G
    BY <2>2, <2>5 DEF MembersFollow, LeaveOf
  <2>7. PICK K : K = IF h = s /\ Oldest(s) = on THEN {c} ELSE IF h = s /\ Oldest(s) = off THEN {} ELSE F
    OBVIOUS
  <2>8. Ends(inbox'[h], c, K, on, off)
    <3>1. /\ h = s /\ Oldest(s) = on => c \in K
          /\ h = s /\ Oldest(s) = off => c \notin K
          /\ h = s /\ Oldest(s) # on /\ Oldest(s) # off => (c \in K <=> c \in F)
          /\ h # s => (c \in K <=> c \in F)
      BY <2>4, <2>7
    <3>2. QED
      BY <2>3, <2>4, <3>1, PassedEnds
  <2>9. c \in K => c \in G
    BY <2>6, <2>7
  <2>10. Ends(inbox'[h], c, G, on, off)
    BY <2>8, <2>9 DEF Ends
  <2>11. QED
    BY <2>1, <2>2, <2>10
<1>2. QED
  BY <1>1 DEF ActiveInside, Ends, Holds, JoinOf, LeaveOf, Members, Has, knows

\* A turn of the main loop keeps the invariant.
LEMMA TurnTaken ==
  ASSUME NamesDiffer, Acyclic(Adjacent), NeighboursMutual, ~Reordering, Ground, TurnsInv,
         NEW s \in Server, Receive(s)
  PROVE  Turns(s) /\ MembersFollow(s)
<1>1. Len(inbox[s]) # 0
  BY ReceiveTurn DEF Ground, Turn
<1>2. 1 \in DOMAIN inbox[s] /\ Holds(inbox[s], Oldest(s)) /\ Oldest(s) \in Datagram
  BY <1>1, HeldOldest, QueueElements, Taken DEF Ground, TypeOK, NetTypeOK
<1>3. Oldest(s).type # "REQ_LOGOUT"
  BY <1>2 DEF TurnsInv, Current
<1>4. Oldest(s).type = "REQ_SAY" => knows(Users(s, Topic(s)), Oldest(s).src)
  BY <1>2 DEF TurnsInv, SpeakerInside, Oldest, Topic
<1>5. Oldest(s).type = "S2S_SAY" => Oldest(s).src \in Feed(s, Topic(s))
  BY <1>1, SourceFed
<1>6. QED
  BY <1>3, <1>4, <1>5, ReceiveKind DEF Turns

LEMMA TurnKeeps ==
  ASSUME NamesDiffer, Acyclic(Adjacent), NeighboursMutual, ~Reordering, Ground, TurnsInv,
         NEW s \in Server, Receive(s), UNCHANGED clientVars
  PROVE  TurnsInv'
<1>1. Turns(s) /\ MembersFollow(s)
  BY TurnTaken
<1>2. UNCHANGED says /\ UNCHANGED active
  BY DEF clientVars
<1>3. Agreed' /\ Spreading' /\ Giving'
  <2>1. CASE Hears(s)
    BY <1>2, <2>1, HearsAgreed, HearsSpreads
  <2>2. CASE Admits(s)
    BY <1>2, <2>2, AdmitsAgreed, AdmitsSpreads
  <2>3. CASE Opens(s)
    BY <1>2, <2>3, OpensAgreed, OpensSpreads
  <2>4. CASE Drops(s)
    BY <1>2, <2>4, DropsAgreed, DropsSpreads
  <2>5. CASE Prunes(s)
    BY <1>2, <2>5, PrunesAgreed, PrunesSpreads
  <2>6. CASE Relays(s)
    BY <1>2, <2>6, RelaysAgreed, RelaysSpreads
  <2>7. QED
    BY <1>1, <2>1, <2>2, <2>3, <2>4, <2>5, <2>6 DEF Turns
<1>4. Trail'
  BY <1>1, TrailKept
<1>5. PICK D, e : /\ Passes(s, D, e) /\ s \notin D /\ e.src = s
                  /\ e.type \in {"REQ_JOIN", "S2S_LEAVE", "S2S_SAY"}
                  /\ e.type = "S2S_SAY" => e.text.msg = says
  BY <1>1, TurnPasses
<1>6. NetTypeOK /\ Current /\ SpeakerInside /\ ActiveInside
  BY DEF Ground, TypeOK, TurnsInv
<1>7. Current' /\ SpeakerInside' /\ ActiveInside'
  BY <1>1, <1>2, <1>5, <1>6, CurrentKept, SpeakerKept, ActiveKept
<1>8. QED
  BY <1>3, <1>4, <1>7 DEF TurnsInv

----------------------------------------------------------------------------
(***************************************************************************)
(* What the users do.                                                      *)
(***************************************************************************)
\* Client c sends its server datagram d, and the servers do nothing.
Asks(c, d) == d \in Datagram /\ d.src = c /\ Request(c, d) /\ UNCHANGED serverVars

LEMMA AskedQueues ==
  ASSUME NetTypeOK, NEW c \in Client, NEW d, Asks(c, d), NEW r \in Server
  PROVE  /\ inbox[r] \in Seq(Datagram) /\ d \in Datagram
         /\ inbox'[r] = IF r = Home[c] THEN Append(inbox[r], d) ELSE inbox[r]
BY DEF NetTypeOK, Asks, Request, SendAll

LEMMA AskedHolds ==
  ASSUME NetTypeOK, NEW c \in Client, NEW d, Asks(c, d), NEW r \in Server, NEW e
  PROVE  Holds(inbox'[r], e) => Holds(inbox[r], e) \/ (r = Home[c] /\ e = d)
BY AskedQueues, HoldsAppended

\* No datagram of a client is one of those that servers send each other.
LEMMA AskedIs ==
  ASSUME NEW c \in Client, NEW d, Asks(c, d)
  PROVE  /\ d \notin S2SSay /\ d.type # "S2S_SAY"
         /\ \A r \in Server : \A x : d # JoinOf(r, x) /\ d # GoneOf(r, x)
BY ProtocolAssumption DEF Asks, S2SSay, JoinOf, GoneOf, Datagram, LoginRequest, LogoutRequest,
   JoinRequest, LeaveRequest, SayRequest, ListRequest, WhoRequest, S2SLeave

LEMMA AskedFeed ==
  ASSUME NEW c, NEW d, Asks(c, d)
  PROVE  /\ \A r \in Server, x \in Channel : Feed(r, x)' = Feed(r, x)
         /\ \A x \in Channel : Members(x)' = Members(x)
         /\ \A r \in Server, id \in Id : Met(r, id)' <=> Met(r, id)
         /\ UNCHANGED says => Reached' = Reached
<1>1. UNCHANGED <<channel_list, said, ID_LIST>>
  BY DEF Asks, serverVars, serverState, history
<1>2. QED
  BY <1>1, MarksKept DEF Feed, Has, Members, knows, Met, HasSaid, SeenBefore

LEMMA AskAgreed ==
  ASSUME NetTypeOK, Agreed, Trail, NEW c \in Client, NEW d, Asks(c, d)
  PROVE  Agreed' /\ Trail' /\ Promised
<1>1. ASSUME NEW s \in Server, NEW r \in Server, NEW x \in Channel
      PROVE  WillFeed(s, r, x)' <=> WillFeed(s, r, x)
  <2>1. PICK F, on, off : F = Feed(s, x) /\ on = JoinOf(r, x) /\ off = GoneOf(r, x)
    OBVIOUS
  <2>2. on # off /\ d # on /\ d # off
    BY <2>1, AskedIs DEF JoinOf, GoneOf
  <2>3. Ends(inbox'[s], r, F, on, off) <=> Ends(inbox[s], r, F, on, off)
    BY <2>2, AskedQueues, EndsAppended
  <2>4. Feed(s, x)' = F
    BY <2>1, AskedFeed
  <2>5. QED
    BY <2>1, <2>3, <2>4 DEF WillFeed, Ends, Holds, JoinOf, GoneOf
<1>2. Agreed'
  <2>1. ASSUME NEW s \in Server, NEW r \in Adjacent[s], NEW x \in Channel, WillFeed(s, r, x)'
        PROVE  WillFeed(r, s, x)'
    <3>1. r \in Server
      BY ServerAssumption
    <3>2. WillFeed(s, r, x) /\ (WillFeed(r, s, x)' <=> WillFeed(r, s, x))
      BY <1>1, <2>1, <3>1
    <3>3. QED
      BY <3>2 DEF Agreed
  <2>2. QED
    BY <2>1 DEF Agreed, WillFeed, Ends, Holds, Feed, Has, JoinOf, GoneOf
<1>3. Trail'
  <2>1. UNCHANGED <<said, ID_LIST>>
    BY DEF Asks, serverVars, serverState, history
  <2>2. QED
    BY <2>1 DEF Trail, Met, HasSaid, SeenBefore
<1>4. Promised
  BY <1>1 DEF Promised, WillFeed, Ends, Holds, Feed, Has, JoinOf, GoneOf
<1>5. QED
  BY <1>2, <1>3, <1>4

LEMMA AskSpreads ==
  ASSUME NetTypeOK, Spreading, Giving, NEW c \in Client, NEW d, Asks(c, d), UNCHANGED says
  PROVE  Spreading' /\ Giving'
<1>1. PICK R : R = Reached' /\ R = Reached
  BY AskedFeed
<1>2. ASSUME NEW s \in Server, NEW E, d \notin E, Once(inbox[s], E)
      PROVE  Once(inbox'[s], E)
  BY <1>2, AskedQueues, OnceAppended
<1>3. ASSUME NEW s \in Server, NEW a, NEW e, a # d, a # e, Before(inbox[s], a, e)
      PROVE  Before(inbox'[s], a, e)
  BY <1>3, AskedQueues, BeforeAppended
<1>4. ASSUME NEW s \in Server
      PROVE  /\ Once(inbox'[s], S2SSay)
             /\ \A e \in S2SSay : Holds(inbox'[s], e) =>
                  /\ s \notin R /\ e.src \in R
                  /\ s \in Feed(e.src, e.channel)'
                  /\ Before(inbox'[s], JoinOf(e.src, e.channel), e)
  <2>1. Once(inbox'[s], S2SSay)
    BY <1>2, AskedIs DEF Spreading
  <2>2. ASSUME NEW e \in S2SSay, Holds(inbox'[s], e)
        PROVE  /\ s \notin R /\ e.src \in R
               /\ \E n, x : n = e.src /\ x = e.channel /\ s \in Feed(n, x)'
               /\ Before(inbox'[s], JoinOf(e.src, e.channel), e)
    <3>1. Holds(inbox[s], e)
      BY <2>2, AskedHolds, AskedIs
    <3>2. PICK n, x : n = e.src /\ x = e.channel
      OBVIOUS
    <3>3. n \in Server /\ x \in Channel /\ e.type = "S2S_SAY"
      BY <3>2 DEF S2SSay
    <3>4. s \notin R /\ n \in R /\ s \in Feed(n, x) /\ Before(inbox[s], JoinOf(n, x), e)
      BY <1>1, <3>1, <3>2 DEF Spreading
    <3>5. Feed(n, x)' = Feed(n, x)
      BY <3>3, AskedFeed
    <3>6. JoinOf(n, x) # d /\ JoinOf(n, x) # e
      BY <3>3, AskedIs DEF JoinOf
    <3>7. QED
      BY <1>3, <3>2, <3>4, <3>5, <3>6
  <2>3. QED
    BY <2>1, <2>2 DEF Feed, Has
<1>5. ASSUME NEW s \in Server, NEW r \in Server, NEW x \in Channel, Holds(inbox'[s], GoneOf(r, x))
      PROVE  /\ Once(inbox'[s], {GoneOf(r, x)})
             /\ s \in R /\ r \in R
             /\ r \in Feed(s, x)'
             /\ ~Holds(inbox'[r], JoinOf(s, x))
  <2>1. PICK on, off : on = JoinOf(s, x) /\ off = GoneOf(r, x)
    OBVIOUS
  <2>2. d # on /\ d # off
    BY <2>1, AskedIs
  <2>3. Holds(inbox[s], off)
    BY <1>5, <2>1, <2>2, AskedHolds
  <2>4. /\ Once(inbox[s], {off}) /\ s \in R /\ r \in R
        /\ r \in Feed(s, x) /\ ~Holds(inbox[r], on)
    BY <1>1, <2>1, <2>3 DEF Giving
  <2>5. Feed(s, x)' = Feed(s, x)
    BY AskedFeed
  <2>6. Once(inbox'[s], {off}) /\ ~Holds(inbox'[r], on)
    BY <1>2, <2>2, <2>4, AskedHolds
  <2>7. QED
    BY <2>1, <2>4, <2>5, <2>6
<1>6. QED
  BY <1>1, <1>4, <1>5 DEF Spreading, Giving, Once, Holds, Before, JoinOf, GoneOf, Feed, Has

LEMMA AskCurrent ==
  ASSUME NetTypeOK, Current, SpeakerInside, NEW c \in Client, NEW d, Asks(c, d), UNCHANGED says,
         d.type \notin {"REQ_SAY", "REQ_LOGOUT"}
  PROVE  Current' /\ SpeakerInside'
<1>1. ASSUME NEW r \in Server, NEW e \in Datagram, Holds(inbox'[r], e)
      PROVE  /\ e.type \in {"REQ_SAY", "S2S_SAY"} => e.text.msg = says
             /\ e.type # "REQ_LOGOUT"
  <2>1. Holds(inbox[r], e) \/ e = d
    BY <1>1, AskedHolds
  <2>2. QED
    BY <2>1, AskedIs DEF Current
<1>2. ASSUME NEW r \in Server, NEW k \in DOMAIN inbox'[r], inbox'[r][k].type = "REQ_SAY"
      PROVE  k = 1 /\ knows(Users(r, inbox'[r][k].channel), inbox'[r][k].src)
  <2>1. k \in DOMAIN inbox[r] /\ inbox'[r][k] = inbox[r][k]
    <3>1. CASE r = Home[c]
      <4>1. inbox[r] \in Seq(Datagram) /\ d \in Datagram /\ inbox'[r] = Append(inbox[r], d)
        BY <3>1, AskedQueues
      <4>2. /\ DOMAIN inbox'[r] = DOMAIN inbox[r] \cup {Len(inbox[r]) + 1}
            /\ inbox'[r][Len(inbox[r]) + 1] = d
            /\ \A i \in DOMAIN inbox[r] : inbox'[r][i] = inbox[r][i]
        BY <4>1, Appended
      <4>3. QED
        BY <1>2, <4>2
    <3>2. QED
      BY <1>2, <3>1, AskedQueues
  <2>2. QED
    BY <1>2, <2>1 DEF SpeakerInside
<1>3. UNCHANGED channel_list
  BY DEF Asks, serverVars, serverState
<1>4. QED
  BY <1>1, <1>2, <1>3 DEF Current, SpeakerInside, Holds, Users, Has, knows

\* A user is where his plain text goes: he joined there, or did not leave.
LEMMA AskActive ==
  ASSUME NetTypeOK, ActiveInside, NEW c \in Client, NEW d, Asks(c, d),
         \A b \in Client, x \in Channel : active'[b] = x =>
           (active[b] = x /\ d # LeaveOf(b, x)) \/ d = JoinOf(b, x)
  PROVE  ActiveInside'
<1>1. ASSUME NEW b \in Client, NEW x \in Channel, active'[b] = x
      PROVE  Ends(inbox'[Home[b]], b, Members(x)', JoinOf(b, x), LeaveOf(b, x))
  <2>1. PICK h \in Server : h = Home[b]
    BY ProtocolAssumption
  <2>2. PICK F, on, off : F = Members(x) /\ on = JoinOf(b, x) /\ off = LeaveOf(b, x)
    OBVIOUS
  <2>3. on # off
    BY <2>2 DEF JoinOf, LeaveOf
  <2>4. Ends(inbox'[h], b, F, on, off)
    <3>1. CASE active[b] = x /\ d # off
      <4>1. Ends(inbox[h], b, F, on, off)
        BY <2>1, <2>2, <3>1 DEF ActiveInside
      <4>2. QED
        BY <2>3, <3>1, <4>1, AskedQueues, EndsAppended
    <3>2. CASE d = on
      <4>1. h = Home[c]
        BY <2>1, <2>2, <3>2 DEF Asks, JoinOf
      <4>2. QED
        BY <2>3, <3>2, <4>1, AskedQueues, EndsAppended
    <3>3. QED
      BY <1>1, <2>2, <3>1, <3>2
  <2>5. Members(x)' = F
    BY <2>2, AskedFeed
  <2>6. QED
    BY <2>1, <2>2, <2>4, <2>5
<1>2. QED
  BY <1>1 DEF ActiveInside, Ends, Holds, JoinOf, LeaveOf, Members, Has, knows

LEMMA AskKeeps ==
  ASSUME NetTypeOK, TurnsInv, NEW c \in Client, NEW d, Asks(c, d), UNCHANGED says,
         d.type \notin {"REQ_SAY", "REQ_LOGOUT"},
         \A b \in Client, x \in Channel : active'[b] = x =>
           (active[b] = x /\ d # LeaveOf(b, x)) \/ d = JoinOf(b, x)
  PROVE  TurnsInv'
<1>1. Agreed /\ Current /\ Spreading /\ Giving /\ Trail /\ ActiveInside /\ SpeakerInside
  BY DEF TurnsInv
<1>2. Agreed' /\ Trail' /\ Spreading' /\ Giving' /\ Current' /\ SpeakerInside' /\ ActiveInside'
  BY <1>1, AskAgreed, AskSpreads, AskCurrent, AskActive
<1>3. QED
  BY <1>2 DEF TurnsInv

\* A text is typed when nothing is in flight: it is all that is then.
LEMMA TextKeeps ==
  ASSUME TypeOK, TurnsInv, Idle, NEW c \in Client, TypeText(c), UNCHANGED serverVars
  PROVE  TurnsInv'
<1> DEFINE d == [type |-> "REQ_SAY", src |-> c, channel |-> active[c],
                 text |-> [msg |-> says + 1, whole |-> TRUE]]
<1>0. NetTypeOK /\ Agreed /\ Trail /\ ActiveInside
  BY DEF TypeOK, TurnsInv
<1>1. /\ Request(c, d) /\ active[c] \in Channel /\ says' = says + 1 /\ UNCHANGED active
      /\ says + 1 \in Message
  <2>1. Request(c, d) /\ says' = says + 1 /\ UNCHANGED active /\ says < MaxSays /\ active[c] # NoChannel
    BY DEF TypeText
  <2>2. says \in 0 .. MaxSays /\ active[c] \in Channel \cup {NoChannel}
    BY DEF TypeOK, ClientTypeOK
  <2>3. says + 1 \in Message
    BY <2>1, <2>2, ProtocolAssumption DEF Message
  <2>4. QED
    BY <2>1, <2>2, <2>3
<1>2. Asks(c, d)
  <2>1. d \in SayRequest
    BY <1>1 DEF SayRequest, Text
  <2>2. QED
    BY <1>1, <2>1 DEF Asks, Datagram
<1>3. d.type = "REQ_SAY" /\ d.src = c /\ d.channel = active[c] /\ d.text.msg = says'
  BY <1>1
<1>4. \A b \in Client : \A x : d # LeaveOf(b, x)
  BY DEF LeaveOf
<1> HIDE DEF d
<1>5. Agreed' /\ Trail'
  BY <1>0, <1>2, AskAgreed
<1>6. ActiveInside'
  BY <1>0, <1>1, <1>2, <1>4, AskActive
<1>7. \A s \in Server : inbox[s] = <<>>
  BY DEF Idle
<1>8. ASSUME NEW s \in Server, NEW e, Holds(inbox'[s], e)
      PROVE  e = d
  BY <1>0, <1>2, <1>7, <1>8, AskedHolds DEF Holds
<1>9. Current'
  BY <1>3, <1>8 DEF Current, Holds
<1>10. Spreading' /\ Giving'
  <2>1. \A s \in Server, e \in S2SSay : ~Holds(inbox'[s], e)
    BY <1>2, <1>8, AskedIs
  <2>2. \A s \in Server, r \in Server : \A x : ~Holds(inbox'[s], GoneOf(r, x))
    BY <1>2, <1>8, AskedIs
  <2>3. \A s \in Server : Once(inbox'[s], S2SSay)
    BY <2>1 DEF Once, Holds
  <2>4. Spreading'
    BY <2>1, <2>3 DEF Spreading, Once, Holds
  <2>5. Giving'
    BY <2>2 DEF Giving, Holds, GoneOf
  <2>6. QED
    BY <2>4, <2>5
<1>11. SpeakerInside'
  <2>1. PICK h \in Server, x \in Channel : h = Home[c] /\ x = active[c]
    BY <1>1, ProtocolAssumption
  <2>2. c \in Members(x)
    BY <1>0, <1>7, <2>1 DEF ActiveInside, Ends
  <2>3. knows(Users(h, x), c)
    BY <2>1, <2>2 DEF Members, Users
  <2>4. Users(h, x)' = Users(h, x)
    BY DEF serverVars, serverState, Users, Has
  <2>5. ASSUME NEW s \in Server, NEW k \in DOMAIN inbox'[s]
        PROVE  s = h /\ k = 1 /\ inbox'[s][k] = d
    <3>1. s = h
      BY <1>0, <1>2, <1>7, <2>1, <2>5, AskedQueues
    <3>2. inbox'[s] = Append(<<>>, d)
      BY <1>0, <1>2, <1>7, <2>1, <3>1, AskedQueues
    <3>3. QED
      BY <2>5, <3>1, <3>2
  <2>6. ASSUME NEW s \in Server, NEW k \in DOMAIN inbox'[s], inbox'[s][k].type = "REQ_SAY"
        PROVE  k = 1 /\ inbox'[s][k].channel = x /\ inbox'[s][k].src = c /\ s = h
    BY <1>3, <2>1, <2>5
  <2>7. QED
    BY <2>3, <2>4, <2>6 DEF SpeakerInside, Users, Has, knows
<1>12. QED
  BY <1>5, <1>6, <1>9, <1>10, <1>11 DEF TurnsInv

LEMMA ClientKeeps ==
  ASSUME "switch" \notin Commands, "exit" \notin Commands,
         TypeOK, TurnsInv, NEW c \in Client, ClientStep(c), UNCHANGED serverVars,
         TakingTurns
  PROVE  TurnsInv'
<1>0. NetTypeOK /\ active \in [Client -> Channel \cup {NoChannel}]
  BY DEF TypeOK, ClientTypeOK
<1>1. CASE Login(c)
  <2>1. PICK d : d = [type |-> "REQ_LOGIN", src |-> c]
    OBVIOUS
  <2>2. Asks(c, d) /\ UNCHANGED <<says, active>>
    BY <1>1, <2>1 DEF Login, Asks, Datagram, LoginRequest
  <2>3. d.type = "REQ_LOGIN" /\ \A b, x : d # LeaveOf(b, x)
    BY <2>1 DEF LeaveOf
  <2>4. QED
    BY <1>0, <2>2, <2>3, AskKeeps
<1>2. ASSUME NEW x \in Channel, Request(c, JoinOf(c, x)), active' = [active EXCEPT ![c] = x],
             UNCHANGED says
      PROVE  TurnsInv'
  <2>1. PICK d : d = JoinOf(c, x)
    OBVIOUS
  <2>2. Asks(c, d)
    BY <1>2, <2>1 DEF Asks, JoinOf, Datagram, JoinRequest, Node
  <2>3. d.type = "REQ_JOIN" /\ \A b, y : d # LeaveOf(b, y)
    BY <2>1 DEF JoinOf, LeaveOf
  <2>4. \A b \in Client, y \in Channel : active'[b] = y => active[b] = y \/ d = JoinOf(b, y)
    BY <1>0, <1>2, <2>1
  <2>5. QED
    BY <1>0, <1>2, <2>2, <2>3, <2>4, AskKeeps
<1>3. CASE JoinCommon(c)
  BY <1>2, <1>3, ProtocolAssumption DEF JoinCommon, JoinOf
<1>4. CASE TypeJoin(c)
  BY <1>2, <1>4 DEF TypeJoin, JoinOf
<1>5. CASE TypeLeave(c)
  <2>1. PICK x \in Channel :
          /\ Request(c, LeaveOf(c, x)) /\ UNCHANGED says
          /\ active' = [active EXCEPT ![c] = IF @ = x THEN NoChannel ELSE @]
    BY <1>5 DEF TypeLeave, LeaveOf
  <2>2. PICK d : d = LeaveOf(c, x)
    OBVIOUS
  <2>3. Asks(c, d)
    BY <2>1, <2>2 DEF Asks, LeaveOf, Datagram, LeaveRequest
  <2>4. d.type = "REQ_LEAVE"
    BY <2>2 DEF LeaveOf
  <2>5. ASSUME NEW b \in Client, NEW y \in Channel, active'[b] = y
        PROVE  active[b] = y /\ d # LeaveOf(b, y)
    <3>1. CASE d = LeaveOf(b, y)
      <4>1. b = c /\ y = x
        BY <2>2, <3>1 DEF LeaveOf
      <4>2. active'[b] # x
        BY <1>0, <2>1, <4>1, ProtocolAssumption
      <4>3. QED
        BY <2>5, <4>1, <4>2
    <3>2. active[b] = y
      BY <1>0, <2>1, <2>5, ProtocolAssumption
    <3>3. QED
      BY <3>1, <3>2
  <2>6. QED
    BY <1>0, <2>1, <2>3, <2>4, <2>5, AskKeeps
<1>6. CASE TypeText(c)
  <2>1. says' # says
    BY <1>6 DEF TypeText, TypeOK, ClientTypeOK
  <2>2. QED
    BY <1>6, <2>1, TextKeeps DEF TakingTurns
<1>7. CASE TypeList(c) \/ TypeWho(c)
  <2>1. PICK d \in Datagram : /\ Request(c, d) /\ d.src = c /\ d.type \in {"REQ_LIST", "REQ_WHO"}
                              /\ UNCHANGED <<says, active>>
    BY <1>7 DEF TypeList, TypeWho, Datagram, ListRequest, WhoRequest
  <2>2. \A b, x : d # LeaveOf(b, x)
    BY <2>1 DEF LeaveOf
  <2>3. QED
    BY <1>0, <2>1, <2>2, AskKeeps DEF Asks
<1>8. CASE TypeSwitch(c) \/ TypeExit(c)
  BY <1>8 DEF TypeSwitch, TypeExit, Typed
<1>9. QED
  BY <1>1, <1>3, <1>4, <1>5, <1>6, <1>7, <1>8 DEF ClientStep

----------------------------------------------------------------------------
(***************************************************************************)
(* The theorems.                                                           *)
(***************************************************************************)
\* The minute timer sends nothing.
NoSweep == \A s \in Server : sweep[s] = {}

LEMMA TurnsInit ==
  ASSUME Init
  PROVE  TurnsInv /\ NoSweep
<1>1. /\ \A s \in Server : inbox[s] = <<>> /\ sweep[s] = {} /\ ID_LIST[s] = <<>>
      /\ \A s \in Server : \A x : Feed(s, x) = {}
      /\ \A s \in Server, id \in Id : said[s][id] = 0
      /\ \A c \in Client : active[c] = NoChannel
  BY DEF Init, NetInit, ServerInit, ClientInit, Feed, Has
<1>2. \A s \in Server : \A d : ~Holds(inbox[s], d)
  BY <1>1 DEF Holds
<1>3. \A s \in Server : \A E : Once(inbox[s], E)
  BY <1>1 DEF Once
<1>4. Agreed
  <2>1. \A s \in Server : \A r, x : ~WillFeed(s, r, x)
    BY <1>1 DEF WillFeed, Ends
  <2>2. QED
    BY <2>1 DEF Agreed
<1>5. Current /\ Giving
  BY <1>2 DEF Current, Giving
<1>6. Spreading
  BY <1>2, <1>3 DEF Spreading
<1>7. Trail
  BY <1>1 DEF Trail, HasSaid
<1>8. ActiveInside
  BY <1>1, ProtocolAssumption DEF ActiveInside
<1>9. SpeakerInside
  BY <1>1 DEF SpeakerInside
<1>10. QED
  BY <1>1, <1>4, <1>5, <1>6, <1>7, <1>8, <1>9 DEF TurnsInv, NoSweep

LEMMA NoTimer ==
  ASSUME MaxSweeps = 0, ~IdleSweeps, TypeOK, NoSweep, NEW s \in Server
  PROVE  ~StartSweep(s) /\ ~SweepChannel(s)
<1>1. faults \in Nat /\ sweeps \in Nat
  BY ServerAssumption, NetworkAssumption DEF TypeOK, NetTypeOK, ServerTypeOK
<1>2. ~(faults + sweeps < MaxSweeps)
  BY <1>1
<1>3. QED
  BY <1>2 DEF StartSweep, SweepChannel, NoSweep

LEMMA TurnsSteps ==
  ASSUME MaxFaults = 0, MaxSweeps = 0, ~IdleSweeps, TypeOK, NoSweep, [Next /\ TakingTurns]_vars
  PROVE  \/ \E s \in Server : Receive(s) /\ UNCHANGED clientVars
         \/ \E c \in Client : ClientStep(c) /\ UNCHANGED serverVars /\ TakingTurns
         \/ UNCHANGED vars
<1>1. CASE UNCHANGED vars
  BY <1>1
<1>2. CASE Next /\ TakingTurns
  BY <1>2, Faultless, NoTimer DEF Next, ServerStep
<1>3. QED
  BY <1>1, <1>2

LEMMA TurnsStep ==
  ASSUME MaxFaults = 0, MaxSweeps = 0, ~IdleSweeps, ~Reordering,
         "switch" \notin Commands, "exit" \notin Commands,
         NamesDiffer, NeighboursMutual, Acyclic(Adjacent),
         Ground, NoSweep, TurnsInv, [Next /\ TakingTurns]_vars
  PROVE  TurnsInv' /\ NoSweep'
<1>0. TypeOK
  BY DEF Ground
<1>1. ASSUME NEW s \in Server, Receive(s), UNCHANGED clientVars
      PROVE  TurnsInv' /\ NoSweep'
  <2>1. UNCHANGED sweep
    BY <1>0, <1>1, ReceiveBetweenSweeps
  <2>2. QED
    BY <1>1, <2>1, TurnKeeps DEF NoSweep
<1>2. ASSUME NEW c \in Client, ClientStep(c), UNCHANGED serverVars, TakingTurns
      PROVE  TurnsInv' /\ NoSweep'
  <2>1. UNCHANGED sweep
    BY <1>2 DEF serverVars, serverState
  <2>2. QED
    BY <1>0, <1>2, <2>1, ClientKeeps DEF NoSweep
<1>3. CASE UNCHANGED vars
  <2>1. UNCHANGED <<inbox, channel_list, said, ID_LIST, sweep, says, active>>
    BY <1>3 DEF vars, netVars, serverVars, serverState, history, clientVars
  <2>2. Agreed /\ Current /\ Spreading /\ Giving /\ Trail /\ ActiveInside /\ SpeakerInside
    BY DEF TurnsInv
  <2>3. Agreed' /\ Trail'
    BY <2>1, <2>2 DEF Agreed, WillFeed, Ends, Holds, Feed, Has, JoinOf, GoneOf,
                      Trail, Met, SeenBefore, HasSaid
  <2>4. Current' /\ SpeakerInside'
    BY <2>1, <2>2 DEF Current, SpeakerInside, Holds, Users, Has, knows
  <2>5. ActiveInside'
    BY <2>1, <2>2 DEF ActiveInside, Ends, Holds, Members, Has, knows, JoinOf, LeaveOf
  <2>6. Reached' = Reached
    BY <2>1, MarksKept
  <2>7. Spreading' /\ Giving'
    BY <2>1, <2>2, <2>6 DEF Spreading, Giving, Holds, Once, Before, Feed, Has, JoinOf, GoneOf
  <2>8. QED
    BY <2>1, <2>3, <2>4, <2>5, <2>7 DEF TurnsInv, NoSweep
<1>4. QED
  BY <1>0, <1>1, <1>2, <1>3, TurnsSteps

LEMMA TurnsInvariant ==
  ASSUME MaxFaults = 0, MaxSweeps = 0, ~IdleSweeps, ~Reordering, Uninit = {0},
         "switch" \notin Commands, "exit" \notin Commands,
         NamesDiffer, NeighboursMutual, DrawsDiffer, Acyclic(Adjacent)
  PROVE  TurnsSpec => [](Ground /\ NoSweep /\ TurnsInv)
<1> DEFINE Steps == Next /\ TakingTurns
           Both == NoSweep /\ TurnsInv
<1>1. [Steps]_vars => [Next]_vars
  OBVIOUS
<1>2. RoomInv /\ CalmInv => Ground
  <2>1. TypeOK => faults = 0
    BY DEF TypeOK, NetTypeOK
  <2>2. QED
    BY <2>1 DEF RoomInv, CalmInv, Ground
<1>3. Init => Both
  BY TurnsInit
<1>4. Ground /\ Both /\ [Steps]_vars => Both'
  BY TurnsStep
<1>5. Ground /\ Both => Ground /\ NoSweep /\ TurnsInv
  OBVIOUS
<1>6. Spec => []RoomInv /\ []CalmInv
  BY RoomInvariant, CalmInvHolds
<1>7. TurnsSpec => Init /\ [][Steps]_vars
  BY DEF TurnsSpec
<1> HIDE DEF Steps, Both
<1>8. QED
  BY <1>1, <1>2, <1>3, <1>4, <1>5, <1>6, <1>7, PTL DEF Spec

LEMMA MutualWhenIdle ==
  ASSUME NeighboursMutual, Ground, TurnsInv
  PROVE  SubscriptionsMutual
<1>1. SUFFICES ASSUME Idle, NEW s \in Server, NEW x \in DOMAIN channel_list[s],
                      NEW r \in channel_list[s][x].servers, r \in Server
               PROVE  Has(r, x) /\ s \in channel_list[r][x].servers
  BY DEF SubscriptionsMutual
<1>2. /\ x \in Channel /\ r \in Feed(s, x) /\ r \in Adjacent[s]
  BY <1>1, ChannelHad DEF Has
<1>3. inbox[s] = <<>> /\ inbox[r] = <<>>
  BY <1>1 DEF Idle
<1>4. WillFeed(s, r, x)
  BY <1>2, <1>3 DEF WillFeed, Ends, Holds
<1>5. WillFeed(r, s, x)
  BY <1>2, <1>4 DEF TurnsInv, Agreed
<1>6. s \in Feed(r, x)
  BY <1>3, <1>5 DEF WillFeed, Ends
<1>7. QED
  BY <1>6 DEF Feed

\* Server s stops feeding channel x, which it keeps, to n only on n's request.
LEMMA OnlySenderDropped ==
  ASSUME NamesDiffer, Acyclic(Adjacent), NeighboursMutual, ~Reordering, Ground, TurnsInv,
         NEW s \in Server, Receive(s),
         NEW r \in Server, NEW x \in DOMAIN channel_list[r] \cap DOMAIN channel_list'[r],
         NEW n \in channel_list[r][x].servers \ channel_list'[r][x].servers
  PROVE  \E i \in Arrivals(r) :
           /\ inbox[r][i] = [type |-> "S2S_LEAVE", src |-> n, channel |-> x]
           /\ inbox'[r] = RemoveAt(inbox[r], i)
<1>0. TypeOK /\ NetTypeOK
  BY DEF Ground, TypeOK
<1>1. r = s
  BY <1>0, ReceiveBetweenSweeps
<1>2. x \in Channel /\ n \in Feed(s, x) /\ n \notin Feed(s, x)'
  BY <1>1, ChannelHad DEF Has, Feed
<1>3. Turns(s)
  BY TurnTaken
<1>4. PICK t, src : t = Topic(s) /\ src = Oldest(s).src
  OBVIOUS
<1>5. CASE Hears(s) \/ Relays(s)
  BY <1>2, <1>5 DEF Hears, Relays, FeedKept
<1>6. CASE Admits(s)
  BY <1>2, <1>6 DEF Admits, FeedIs
<1>7. CASE Opens(s)
  BY <1>2, <1>7 DEF Opens, FeedIs
<1>8. CASE Prunes(s)
  <2>1. FeedIs(s, t, {}) /\ t \notin DOMAIN channel_list'[s]
    BY <1>4, <1>8 DEF Prunes
  <2>2. QED
    BY <1>1, <1>2, <2>1 DEF FeedIs
<1>9. CASE Drops(s)
  <2>1. /\ Oldest(s) = GoneOf(src, t) /\ src \in Feed(s, t)
    BY <1>4, <1>9, DropsAgreed
  <2>2. FeedIs(s, t, Feed(s, t) \ {src}) /\ Passes(s, {}, Silence(s))
    BY <1>4, <1>9, <2>1 DEF Drops
  <2>3. x = t /\ n = src
    BY <1>2, <2>2 DEF FeedIs
  <2>4. inbox'[s] = RemoveAt(inbox[s], 1) /\ 1 \in DOMAIN inbox[s]
    BY <1>0, <2>2, PassedQueues, Taken
  <2>5. 1 \in Arrivals(s)
    BY <2>4 DEF Arrivals
  <2>6. QED
    BY <1>1, <2>1, <2>3, <2>4, <2>5 DEF GoneOf, Oldest
<1>10. QED
  BY <1>3, <1>5, <1>6, <1>7, <1>8, <1>9 DEF Turns

\* Between datagrams, neighbouring servers agree whether they feed each other a
\* channel: join() subscribes the sender and say() leaves the sender before it
\* forgets the channel, so that each side sees all of it, on a topology without
\* cycles, if nothing is lost or overtaken, no user logs out or types into a
\* channel he is not in, each message is said when the one before has been
\* handled, and until the minute timer resends joins.
THEOREM SubscriptionsMutualCorrect ==
  ASSUME MaxFaults = 0, MaxSweeps = 0, ~IdleSweeps, ~Reordering, Uninit = {0},
         "switch" \notin Commands, "exit" \notin Commands,
         NamesDiffer, NeighboursMutual, DrawsDiffer, Acyclic(Adjacent)
  PROVE  TurnsSpec => []SubscriptionsMutual
<1>1. Ground /\ TurnsInv => SubscriptionsMutual
  BY MutualWhenIdle
<1>2. QED
  BY <1>1, TurnsInvariant, PTL

\* unsub_server() empties a list of one server without looking for the sender of
\* the S2S_LEAVE in it: under the same conditions the one is always the sender,
\* and no other handler takes a server out of a channel that is kept.
THEOREM UnsubOnlySenderCorrect ==
  ASSUME MaxFaults = 0, MaxSweeps = 0, ~IdleSweeps, ~Reordering, Uninit = {0},
         "switch" \notin Commands, "exit" \notin Commands,
         NamesDiffer, NeighboursMutual, DrawsDiffer, Acyclic(Adjacent)
  PROVE  TurnsSpec => UnsubOnlySender
<1> DEFINE Steps == Next /\ TakingTurns
           Kept ==
             \A s \in Server : \A x \in DOMAIN channel_list[s] \cap DOMAIN channel_list'[s] :
               \A n \in channel_list[s][x].servers \ channel_list'[s][x].servers :
                 \E i \in Arrivals(s) :
                   /\ inbox[s][i] = [type |-> "S2S_LEAVE", src |-> n, channel |-> x]
                   /\ inbox'[s] = RemoveAt(inbox[s], i)
<1>1. ASSUME Ground, NoSweep, TurnsInv, [Steps]_vars
      PROVE  Kept
  <2>1. CASE UNCHANGED channel_list
    BY <2>1
  <2>2. ASSUME NEW s \in Server, Receive(s)
        PROVE  Kept
    BY <2>2, <1>1, OnlySenderDropped
  <2>3. UNCHANGED channel_list \/ \E s \in Server : Receive(s)
    BY <1>1, TurnsSteps DEF Ground, serverVars, serverState, vars
  <2>4. QED
    BY <2>1, <2>2, <2>3
<1>2. TurnsSpec => [][Steps]_vars
  BY DEF TurnsSpec
<1>3. UnsubOnlySender <=> [][Kept]_vars
  BY DEF UnsubOnlySender
<1> HIDE DEF Kept, Steps
<1>4. Ground /\ NoSweep /\ TurnsInv /\ [Steps]_vars => [Kept]_vars
  BY <1>1
<1>5. QED
  BY <1>2, <1>3, <1>4, TurnsInvariant, PTL

----------------------------------------------------------------------------
(***************************************************************************)
(* Ways in a topology without cycles and in one piece.                     *)
(***************************************************************************)
Tree == Acyclic(Adjacent) /\ Connected(Adjacent) /\ NeighboursMutual

\* Induction on the distance from o: a set of servers with o in it, and with every
\* server whose way to o leads into it, is all of them.
LEMMA TreeInduction ==
  ASSUME Tree, NEW o \in Server, NEW Q, o \in Q,
         \A t \in Server : Toward[o][t] \in Q \cap Adjacent[t] => t \in Q
  PROVE  Server \subseteq Q
<1> DEFINE Closed(Z) == o \in Z /\ \A t \in Server : Toward[o][t] \in Z \cap Adjacent[t] => t \in Z
           P == {t \in Server : \A Z \in SUBSET Server : Closed(Z) => t \in Z}
<1>0. /\ \A r, t \in Server : Toward[r][r] = r /\ t \notin Adjacent[t]
      /\ \A r, t \in Server : \A u \in Adjacent[t] : Toward[r][t] = u <=> Toward[r][u] # t
      /\ \A t \in Server : \A u \in Adjacent[t] : u \in Server /\ t \in Adjacent[u]
      /\ DOMAIN Adjacent = Server
  BY TowardIs, ServerAssumption DEF Tree, NeighboursMutual
<1>1. P \in SUBSET Server /\ Closed(P)
  OBVIOUS
<1>2. P \subseteq Q
  <2>1. Closed(Q \cap Server) /\ Q \cap Server \in SUBSET Server
    BY <1>0
  <2>2. QED
    BY <2>1
<1>3. ASSUME P # Server
      PROVE  FALSE
  <2>1. PICK s \in P : Adjacent[s] \ P # {}
    BY <1>0, <1>1, <1>3 DEF Tree, Connected
  <2>2. PICK r : r \in Adjacent[s] /\ r \notin P
    BY <2>1
  <2>3. r \in Server /\ s \in Server /\ s \in Adjacent[r]
    BY <1>0, <2>2
  <2>4. Toward[o][r] # s
    BY <1>1, <2>2, <2>3
  <2>5. Toward[o][s] = r
    BY <1>0, <2>3, <2>4
  <2>6. s # o
    BY <1>0, <2>2, <2>5
  <2>7. Closed(P \ {s}) /\ P \ {s} \in SUBSET Server
    BY <1>1, <2>2, <2>5, <2>6
  <2>8. QED
    BY <2>3, <2>7
<1>4. QED
  BY <1>2, <1>3

\* From every other server there is a next one on the way to o, and of two
\* neighbours one is the next of the other.
LEMMA Descends ==
  ASSUME Tree, NEW o \in Server, NEW s \in Server
  PROVE  /\ Toward[o][o] = o /\ s \notin Adjacent[s]
         /\ s # o => Toward[o][s] \in Adjacent[s] /\ Toward[o][s] # s
         /\ \A r \in Adjacent[s] :
              /\ r \in Server /\ s \in Adjacent[r]
              /\ Toward[r][s] = r /\ Toward[s][r] = s
              /\ Toward[o][s] = r <=> Toward[o][r] # s
<1>1. /\ \A r, t \in Server : Toward[r][r] = r /\ t \notin Adjacent[t]
      /\ \A r, t \in Server : \A u \in Adjacent[t] : Toward[r][t] = u <=> Toward[r][u] # t
      /\ \A t \in Server : \A u \in Adjacent[t] : u \in Server /\ t \in Adjacent[u]
  BY TowardIs, ServerAssumption DEF Tree, NeighboursMutual
<1> DEFINE Q == {t \in Server : t = o \/ Toward[o][t] \in Adjacent[t]}
<1>2. o \in Q /\ \A t \in Server : Toward[o][t] \in Q \cap Adjacent[t] => t \in Q
  OBVIOUS
<1> HIDE DEF Q
<1>3. Server \subseteq Q
  BY <1>2, TreeInduction
<1>4. s # o => Toward[o][s] \in Adjacent[s]
  BY <1>3 DEF Q
<1>5. QED
  BY <1>1, <1>4

\* Two neighbours are reached from elsewhere by the same way.
LEMMA SameHop ==
  ASSUME Tree, NEW t \in Server, NEW u \in Adjacent[t], NEW p \in Server \ {t, u}
  PROVE  Toward[t][p] = Toward[u][p]
<1> DEFINE Q == {q \in Server : q \in {t, u} \/ Toward[t][q] = Toward[u][q]}
<1>1. u \in Server /\ t \in Adjacent[u] /\ t # u
  BY Descends
<1>2. ASSUME NEW q \in Server, Toward[t][q] \in Q \cap Adjacent[q], q \notin {t, u}
      PROVE  Toward[t][q] = Toward[u][q]
  <2>1. PICK h \in Adjacent[q] : h = Toward[t][q] /\ h \in Server
    BY <1>2
  <2>2. /\ Toward[t][q] = h <=> Toward[t][h] # q
        /\ Toward[u][q] = h <=> Toward[u][h] # q
    BY <1>1, <2>1, Descends
  <2>3. CASE h = t
    <3>1. Toward[u][t] = u
      BY <1>1, Descends
    <3>2. QED
      BY <1>2, <2>1, <2>2, <2>3, <3>1
  <2>4. CASE h = u
    <3>1. Toward[u][u] = u
      BY <1>1, Descends
    <3>2. QED
      BY <1>2, <2>1, <2>2, <2>4, <3>1
  <2>5. CASE h \notin {t, u}
    BY <1>2, <2>1, <2>2, <2>5
  <2>6. QED
    BY <2>3, <2>4, <2>5
<1>3. t \in Q /\ \A q \in Server : Toward[t][q] \in Q \cap Adjacent[q] => q \in Q
  BY <1>2
<1> HIDE DEF Q
<1>4. Server \subseteq Q
  BY <1>3, TreeInduction
<1>5. QED
  BY <1>4 DEF Q

\* Server p is on the way between s and o.
Between(p, s, o) == p # s /\ p # o /\ Toward[o][p] # Toward[s][p]

LEMMA WayThrough ==
  ASSUME Tree, NEW p \in Server, NEW s \in Server, NEW o \in Server, Between(p, s, o)
  PROVE  Toward[p][s] = Toward[o][s]
<1>h. PICK h : h = Toward[o][p]
  OBVIOUS
<1> DEFINE Q == {t \in Server : t # p /\ Toward[t][p] # h => Toward[o][t] = Toward[p][t]}
<1>1. ASSUME NEW t \in Server, Toward[p][t] \in Q \cap Adjacent[t], t # p, Toward[t][p] # h
      PROVE  Toward[o][t] = Toward[p][t]
  <2>1. PICK q \in Adjacent[t] : q = Toward[p][t] /\ q \in Q /\ q \in Server
    BY <1>1
  <2>2. /\ Toward[p][t] = q <=> Toward[p][q] # t
        /\ Toward[o][t] = q <=> Toward[o][q] # t
        /\ q # t /\ t \in Adjacent[q] /\ Toward[t][q] = t
    BY <2>1, Descends
  <2>3. CASE q = p
    BY <1>h, <1>1, <2>1, <2>2, <2>3
  <2>4. CASE q # p
    <3>1. Toward[q][p] = Toward[t][p]
      BY <1>1, <2>1, <2>4, SameHop
    <3>2. Toward[o][q] = Toward[p][q]
      BY <1>1, <2>1, <2>4, <3>1
    <3>3. QED
      BY <2>1, <2>2, <3>2
  <2>5. QED
    BY <2>3, <2>4
<1>2. p \in Q /\ \A t \in Server : Toward[p][t] \in Q \cap Adjacent[t] => t \in Q
  BY <1>1
<1> HIDE DEF Q
<1>3. Server \subseteq Q
  BY <1>2, TreeInduction
<1>4. QED
  BY <1>h, <1>3 DEF Q, Between

LEMMA BetweenBetween ==
  ASSUME Tree, NEW p \in Server, NEW q \in Server, NEW s \in Server, NEW o \in Server,
         Between(p, s, o), Between(q, s, p)
  PROVE  Between(q, s, o) /\ Toward[p][q] = Toward[o][q]
<1>1. Between(q, p, s)
  BY DEF Between
<1>2. Toward[q][p] = Toward[s][p]
  BY <1>1, WayThrough
<1>3. Between(p, q, o)
  BY <1>2 DEF Between
<1>4. Toward[p][q] = Toward[o][q]
  BY <1>3, WayThrough
<1>5. QED
  BY <1>3, <1>4 DEF Between

\* The next server on the way from s to o.
LEMMA NextBetween ==
  ASSUME Tree, NEW s \in Server, NEW o \in Server, s # o, NEW p, p = Toward[o][s], p # o
  PROVE  Between(p, s, o) /\ Toward[s][p] = s /\ p \in Server
<1>1. p \in Adjacent[s] /\ p # s
  BY Descends
<1>2. /\ p \in Server /\ Toward[s][p] = s
      /\ Toward[o][s] = p <=> Toward[o][p] # s
  BY <1>1, Descends
<1>3. QED
  BY <1>1, <1>2 DEF Between

\* From a server p between s and o the next one towards s.
LEMMA StepBack ==
  ASSUME Tree, NEW p \in Server, NEW s \in Server, NEW o \in Server, Between(p, s, o),
         NEW q, q = Toward[s][p]
  PROVE  /\ q \in Server /\ q \in Adjacent[p]
         /\ Toward[o][q] = p
         /\ q # s => Between(q, s, o)
<1>1. q \in Adjacent[p] /\ q # p
  BY Descends DEF Between
<1>2. /\ q \in Server
      /\ Toward[o][p] = q <=> Toward[o][q] # p
      /\ Toward[s][p] = q <=> Toward[s][q] # p
  BY <1>1, Descends
<1>3. Toward[o][q] = p /\ Toward[s][q] # p
  BY <1>2 DEF Between
<1>4. q # o
  <2>1. Toward[o][o] = o
    BY Descends
  <2>2. QED
    BY <1>3, <2>1 DEF Between
<1>5. QED
  BY <1>1, <1>2, <1>3, <1>4 DEF Between

----------------------------------------------------------------------------
(***************************************************************************)
(* The servers that have a channel go on to be linked.                     *)
(***************************************************************************)
\* A join of the next server towards o waits at one on the way from s to o.
Coming(o, s, x) ==
  \E p \in Server : Between(p, s, o) /\ Holds(inbox[p], JoinOf(Toward[o][p], x))

\* Of two servers that have channel x each will feed it to the next one on the way
\* to the other, unless somebody on this way has still to hear that it is wanted.
Linked ==
  \A x \in Channel, s, o \in Server :
    Has(s, x) /\ Has(o, x) /\ s # o => WillFeed(s, Toward[o][s], x) \/ Coming(o, s, x)

LEMMA PassedStill ==
  ASSUME NetTypeOK, NEW s \in Server, NEW D, NEW e, Passes(s, D, e), s \notin D,
         NEW p \in Server, NEW d
  PROVE  /\ Holds(inbox[p], d) => Holds(inbox'[p], d) \/ (p = s /\ d = Oldest(s))
         /\ p \in D => Holds(inbox'[p], e)
<1>1. CASE p = s
  BY <1>1, PassedQueues, HoldsTaken DEF Oldest
<1>2. CASE p # s
  BY <1>2, PassedQueues, HoldsAppended
<1>3. QED
  BY <1>1, <1>2

\* A join on the way between two servers stays there until it is heard.
LEMMA ComingStill ==
  ASSUME NetTypeOK, NEW s \in Server, NEW D, NEW e, Passes(s, D, e), s \notin D,
         NEW o \in Server, NEW a \in Server, NEW x, Coming(o, a, x)
  PROVE  \/ Coming(o, a, x)'
         \/ Between(s, a, o) /\ Oldest(s) = JoinOf(Toward[o][s], x)
<1>1. PICK p \in Server : Between(p, a, o) /\ Holds(inbox[p], JoinOf(Toward[o][p], x))
  BY DEF Coming
<1>2. Holds(inbox'[p], JoinOf(Toward[o][p], x)) \/ (p = s /\ JoinOf(Toward[o][p], x) = Oldest(s))
  BY PassedStill, <1>1
<1>3. QED
  BY <1>1, <1>2 DEF Coming, Between, Holds, JoinOf

\* A turn that changes neither who has a channel nor who will feed whom, of a
\* server that has the channel if another joins it there.
LEMMA PlainLinked ==
  ASSUME Tree, NetTypeOK, Linked, NEW s \in Server, NEW D, NEW e, Passes(s, D, e), s \notin D,
         HostsKept, Promised,
         \A n \in Server, y \in Channel : Oldest(s) = JoinOf(n, y) => Has(s, y)
  PROVE  Linked'
<1>1. ASSUME NEW x \in Channel, NEW a \in Server, NEW o \in Server,
             Has(a, x)', Has(o, x)', a # o
      PROVE  WillFeed(a, Toward[o][a], x)' \/ Coming(o, a, x)'
  <2>1. Has(a, x) /\ Has(o, x)
    BY <1>1 DEF HostsKept, Hosts, Has
  <2>2. PICK h \in Server : h = Toward[o][a]
    BY TowardServer DEF Tree
  <2>3. WillFeed(a, h, x)' <=> WillFeed(a, h, x)
    BY DEF Promised, WillFeed, Ends, Holds, Feed, Has, JoinOf, GoneOf
  <2>4. WillFeed(a, h, x) => WillFeed(a, Toward[o][a], x)'
    BY <2>2, <2>3 DEF WillFeed, Ends, Holds, Feed, Has, JoinOf, GoneOf
  <2>5. CASE WillFeed(a, h, x)
    BY <2>4, <2>5
  <2>6. CASE Coming(o, a, x) /\ ~Coming(o, a, x)'
    <3>1. Between(s, a, o) /\ Oldest(s) = JoinOf(Toward[o][s], x)
      BY <2>6, ComingStill
    <3>2. Toward[o][s] \in Server /\ Has(s, x) /\ a # s
      BY <3>1, TowardServer DEF Tree, Between
    <3>3. Toward[s][a] = h
      BY <2>2, <3>1, WayThrough
    <3>4. CASE WillFeed(a, Toward[s][a], x)
      BY <2>4, <3>3, <3>4
    <3>5. CASE Coming(s, a, x)
      <4>1. PICK q \in Server : Between(q, a, s) /\ Holds(inbox[q], JoinOf(Toward[s][q], x))
        BY <3>5 DEF Coming
      <4>2. Between(q, a, o) /\ Toward[s][q] = Toward[o][q]
        BY <3>1, <4>1, BetweenBetween
      <4>3. q # s
        BY <4>1 DEF Between
      <4>4. Holds(inbox'[q], JoinOf(Toward[o][q], x))
        BY <4>1, <4>2, <4>3, PassedStill
      <4>5. QED
        BY <4>2, <4>4 DEF Coming, Between, Holds, JoinOf
    <3>6. QED
      BY <2>1, <3>2, <3>4, <3>5 DEF Linked
  <2>7. QED
    BY <1>1, <2>1, <2>2, <2>5, <2>6 DEF Linked
<1>2. QED
  BY <1>1 DEF Linked

LEMMA PlainTurnLinked ==
  ASSUME Tree, Ground, TurnsInv, Linked, NEW s \in Server,
         Hears(s) \/ Admits(s) \/ Drops(s) \/ Relays(s)
  PROVE  Linked'
<1>0. NetTypeOK /\ Acyclic(Adjacent) /\ NeighboursMutual
  BY DEF Ground, TypeOK, Tree
<1>1. CASE Hears(s)
  <2>1. Passes(s, {}, Silence(s)) /\ HostsKept /\ Promised
    BY <1>0, <1>1, HearsAgreed DEF Hears
  <2>2. \A n \in Server : \A y : Oldest(s) # JoinOf(n, y)
    BY <1>1, ProtocolAssumption DEF Hears, JoinOf
  <2>3. QED
    BY <1>0, <2>1, <2>2, PlainLinked
<1>2. CASE Admits(s)
  <2>1. Passes(s, {}, Silence(s)) /\ HostsKept /\ Promised
    BY <1>0, <1>2, AdmitsAgreed DEF Admits
  <2>2. \A n, y : Oldest(s) = JoinOf(n, y) => Has(s, y)
    BY <1>2 DEF Admits, JoinOf, Topic
  <2>3. QED
    BY <1>0, <2>1, <2>2, PlainLinked
<1>3. CASE Drops(s)
  <2>1. Passes(s, {}, Silence(s)) /\ HostsKept /\ Promised
    BY <1>0, <1>3, DropsAgreed DEF Drops
  <2>2. \A n, y : Oldest(s) # JoinOf(n, y)
    BY <1>3 DEF Drops, JoinOf
  <2>3. QED
    BY <1>0, <2>1, <2>2, PlainLinked
<1>4. CASE Relays(s)
  <2>1. PICK D, e : Passes(s, D, e) /\ D \subseteq Feed(s, Topic(s))
    BY <1>4 DEF Relays
  <2>2. s \notin D /\ HostsKept /\ Promised
    BY <1>0, <1>4, <2>1, FeedAdjacent, TowardIs, RelaysAgreed DEF Relays
  <2>3. \A n, y : Oldest(s) # JoinOf(n, y)
    BY <1>4 DEF Relays, Enters, JoinOf
  <2>4. QED
    BY <1>0, <2>1, <2>2, <2>3, PlainLinked
<1>5. QED
  BY <1>1, <1>2, <1>3, <1>4

LEMMA OpensLinked ==
  ASSUME Tree, Ground, TurnsInv, Linked, NEW s \in Server, Opens(s)
  PROVE  Linked'
<1>x. PICK x, m : x = Topic(s) /\ m = Oldest(s).src
  OBVIOUS
<1>0. NetTypeOK /\ Acyclic(Adjacent) /\ NeighboursMutual
  BY DEF Ground, TypeOK, Tree
<1>1. /\ Passes(s, Adjacent[s] \ {m}, JoinOf(s, x)) /\ s \notin Adjacent[s]
      /\ Oldest(s) = JoinOf(m, x) /\ x \in Channel
      /\ \A r, n \in Server, y \in Channel :
           (y = x => r # s /\ n # s) => (WillFeed(r, n, y)' <=> WillFeed(r, n, y))
      /\ \A n \in Adjacent[s] : WillFeed(s, n, x)' /\ WillFeed(n, s, x)'
      /\ m \in Adjacent[s] => WillFeed(m, s, x)
  BY <1>0, <1>x, OpensFeeds
<1>2. ~Has(s, x) /\ HostsAre(x, Hosts(x) \cup {s})
  BY <1>x DEF Opens
<1>3. ASSUME NEW n \in Adjacent[s]
      PROVE  n \in Server /\ WillFeed(s, n, x)' /\ WillFeed(n, s, x)'
  BY <1>0, <1>1, FeedAdjacent DEF WillFeed, Ends, Holds, Feed, Has, JoinOf, GoneOf
<1>4. ASSUME NEW r \in Server, NEW n \in Server, NEW y \in Channel, WillFeed(r, n, y),
             y = x => r # s, n \in Adjacent[r]
      PROVE  WillFeed(r, n, y)'
  <2>1. CASE y = x /\ n = s
    <3>1. WillFeed(r, s, x)'
      BY <1>0, <1>3, <1>4, <2>1 DEF NeighboursMutual
    <3>2. QED
      BY <2>1, <3>1 DEF WillFeed, Ends, Holds, Feed, Has, JoinOf, GoneOf
  <2>2. CASE y = x => n # s
    BY <1>1, <1>4, <2>2 DEF WillFeed, Ends, Holds, Feed, Has, JoinOf, GoneOf
  <2>3. QED
    BY <2>1, <2>2
<1>5. ASSUME NEW q \in Server \ {s}, NEW d, Holds(inbox[q], d) \/ (q \in Adjacent[s] \ {m} /\ d = JoinOf(s, x))
      PROVE  Holds(inbox'[q], d)
  BY <1>0, <1>1, <1>5, PassedStill
<1>6. ASSUME NEW y \in Channel, NEW a \in Server, NEW o \in Server,
             Has(a, y)', Has(o, y)', a # o
      PROVE  WillFeed(a, Toward[o][a], y)' \/ Coming(o, a, y)'
  <2>1. PICK h \in Server : h = Toward[o][a] /\ h \in Adjacent[a]
    BY <1>0, <1>6, TowardServer, Descends
  <2>2. SUFFICES WillFeed(a, h, y)' \/ Coming(o, a, y)'
    BY <2>1 DEF WillFeed, Ends, Holds, Feed, Has, JoinOf, GoneOf
  <2>3. CASE y = x /\ a = s
    <3>1. WillFeed(s, h, x)'
      BY <1>3, <2>1, <2>3
    <3>2. QED
      BY <2>3, <3>1 DEF WillFeed, Ends, Holds, Feed, Has, JoinOf, GoneOf
  <2>4. CASE y = x /\ o = s
    <3>1. Has(a, x)
      BY <1>1, <1>2, <1>6, <2>4 DEF HostsAre, Hosts, Has
    <3>2. PICK p \in Server : p = Toward[a][s] /\ p \in Adjacent[s]
      BY <1>0, <1>6, <2>4, TowardServer, Descends
    <3>3. CASE p = a
      <4>1. h = s /\ WillFeed(a, s, x)'
        BY <1>3, <2>1, <2>4, <3>2, <3>3, Descends
      <4>2. QED
        BY <2>4, <4>1 DEF WillFeed, Ends, Holds, Feed, Has, JoinOf, GoneOf
    <3>4. CASE p # a
      <4>1. Between(p, a, s) /\ Toward[s][p] = s /\ p # s
        BY <1>6, <2>4, <3>2, <3>4, NextBetween DEF Between
      <4>2. ASSUME Holds(inbox'[p], JoinOf(s, x))
            PROVE  Coming(s, a, x)'
        BY <4>1, <4>2 DEF Coming, Between, Holds, JoinOf
      <4>3. CASE p # m
        <5>1. Holds(inbox'[p], JoinOf(s, x))
          BY <1>5, <3>2, <4>1, <4>3
        <5>2. Coming(s, a, x)'
          BY <4>2, <5>1
        <5>3. QED
          BY <2>4, <5>2 DEF Coming, Between, Holds, JoinOf
      <4>4. CASE p = m /\ Holds(inbox[p], JoinOf(s, x))
        <5>1. Holds(inbox'[p], JoinOf(s, x))
          BY <1>5, <4>1, <4>4
        <5>2. Coming(s, a, x)'
          BY <4>2, <5>1
        <5>3. QED
          BY <2>4, <5>2 DEF Coming, Between, Holds, JoinOf
      <4>5. CASE p = m /\ ~Holds(inbox[p], JoinOf(s, x))
        <5>1. WillFeed(p, s, x)
          BY <1>1, <3>2, <4>5
        <5>2. Has(p, x)
          BY <4>5, <5>1 DEF WillFeed, Ends, Holds, Feed
        <5>3. Toward[p][a] = h
          <6>1. a \in Server \ {s, p}
            BY <1>6, <2>4, <3>4
          <6>2. Toward[s][a] = Toward[p][a]
            BY <3>2, <6>1, SameHop
          <6>3. QED
            BY <2>1, <2>4, <6>2
        <5>4. CASE WillFeed(a, h, x)
          <6>1. WillFeed(a, h, x)'
            BY <1>1, <1>4, <1>6, <2>1, <2>4, <5>4
          <6>2. QED
            BY <2>4, <6>1 DEF WillFeed, Ends, Holds, Feed, Has, JoinOf, GoneOf
        <5>5. CASE Coming(p, a, x)
          <6>1. PICK q \in Server : Between(q, a, p) /\ Holds(inbox[q], JoinOf(Toward[p][q], x))
            BY <5>5 DEF Coming
          <6>2. Between(q, a, s) /\ Toward[p][q] = Toward[s][q]
            BY <4>1, <6>1, BetweenBetween
          <6>3. q # s
            BY <6>2 DEF Between
          <6>4. Holds(inbox'[q], JoinOf(Toward[s][q], x))
            BY <1>5, <6>1, <6>2, <6>3
          <6>5. QED
            BY <2>4, <6>2, <6>4 DEF Coming, Between, Holds, JoinOf
        <5>6. QED
          BY <1>1, <3>1, <3>4, <5>2, <5>3, <5>4, <5>5 DEF Linked
      <4>6. QED
        BY <4>3, <4>4, <4>5
    <3>5. QED
      BY <3>3, <3>4
  <2>5. CASE y = x => a # s /\ o # s
    <3>1. Has(a, y) /\ Has(o, y)
      BY <1>2, <1>6, <2>5 DEF HostsAre, Hosts, Has
    <3>2. CASE WillFeed(a, h, y)
      BY <1>4, <2>1, <2>5, <3>2
    <3>3. CASE Coming(o, a, y) /\ ~Coming(o, a, y)'
      <4>1. Between(s, a, o) /\ Oldest(s) = JoinOf(Toward[o][s], y)
        <5>1. s \notin Adjacent[s] \ {m}
          BY <1>1
        <5>2. QED
          BY <1>0, <1>1, <3>3, <5>1, ComingStill
      <4>2. y = x /\ m = Toward[o][s]
        BY <1>1, <4>1 DEF JoinOf
      <4>3. PICK q : q = Toward[a][s]
        OBVIOUS
      <4>4. q \in Server /\ q \in Adjacent[s] /\ Toward[o][q] = s /\ (q # a => Between(q, a, o))
        BY <4>1, <4>3, StepBack
      <4>5. q \in Adjacent[s] \ {m} /\ q # s
        BY <1>1, <4>1, <4>2, <4>3, <4>4 DEF Between
      <4>6. CASE q = a
        <5>1. h = s /\ WillFeed(a, s, x)'
          BY <1>3, <2>1, <4>4, <4>6
        <5>2. QED
          BY <4>2, <5>1 DEF WillFeed, Ends, Holds, Feed, Has, JoinOf, GoneOf
      <4>7. CASE q # a
        <5>1. Holds(inbox'[q], JoinOf(Toward[o][q], y))
          BY <1>5, <4>2, <4>4, <4>5
        <5>2. QED
          BY <4>4, <4>7, <5>1 DEF Coming, Between, Holds, JoinOf
      <4>8. QED
        BY <4>6, <4>7
    <3>4. QED
      BY <1>6, <2>1, <3>1, <3>2, <3>3 DEF Linked
  <2>6. QED
    BY <2>3, <2>4, <2>5
<1>7. QED
  BY <1>6 DEF Linked

LEMMA PrunesLinked ==
  ASSUME Tree, Ground, TurnsInv, Linked, NEW s \in Server, Prunes(s)
  PROVE  Linked'
<1>x. PICK x, n : x = Topic(s) /\ n = Oldest(s).src
  OBVIOUS
<1>0. NetTypeOK /\ Acyclic(Adjacent) /\ NeighboursMutual
  BY DEF Ground, TypeOK, Tree
<1>1. /\ Passes(s, {n}, GoneOf(s, x)) /\ Feed(s, x) = {n}
      /\ n \in Server \ {s} /\ x \in Channel
  BY <1>0, <1>x, PrunesWhat
<1>2. \A r, m \in Server, y \in Channel :
        (y = x => ~(r = s /\ m = n) /\ ~(r = n /\ m = s))
        => (WillFeed(r, m, y)' <=> WillFeed(r, m, y))
  BY <1>0, <1>x, PrunesFeeds
<1>3. Has(s, x) /\ HostsAre(x, Hosts(x) \ {s}) /\ \A p, y : Oldest(s) # JoinOf(p, y)
  BY <1>x, <1>1 DEF Prunes, Feed, JoinOf
<1>4. n \in Adjacent[s] /\ s \in Adjacent[n]
  BY <1>0, <1>1, FeedAdjacent DEF NeighboursMutual
<1>5. ASSUME NEW q \in Server, NEW p, NEW y, Holds(inbox[q], JoinOf(p, y))
      PROVE  Holds(inbox'[q], JoinOf(p, y))
  <2>1. s \notin {n}
    BY <1>1
  <2>2. QED
    BY <1>0, <1>1, <1>3, <1>5, <2>1, PassedStill
<1>6. ASSUME NEW o \in Server, NEW a \in Server, NEW y, Coming(o, a, y)
      PROVE  Coming(o, a, y)'
  <2>1. PICK p \in Server : Between(p, a, o) /\ Holds(inbox[p], JoinOf(Toward[o][p], y))
    BY <1>6 DEF Coming
  <2>2. Holds(inbox'[p], JoinOf(Toward[o][p], y))
    BY <1>5, <2>1
  <2>3. QED
    BY <2>1, <2>2 DEF Coming, Between, Holds, JoinOf
<1>7. ASSUME NEW o \in Server \ {s, n}, Toward[o][n] = s, Has(o, x)
      PROVE  Coming(o, n, x)'
  <2>1. PICK h : h = Toward[o][s] /\ h # n /\ h \in Server
    BY <1>0, <1>1, <1>4, <1>7, Descends
  <2>2. Toward[n][s] = n
    BY <1>1, <1>4, Descends
  <2>3. Between(s, n, o)
    BY <1>1, <1>7, <2>1, <2>2 DEF Between
  <2>4. CASE WillFeed(s, h, x)
    <3>1. Holds(inbox[s], JoinOf(h, x))
      BY <1>1, <2>1, <2>4 DEF WillFeed, Ends, Holds
    <3>2. Holds(inbox'[s], JoinOf(Toward[o][s], x))
      BY <1>5, <2>1, <3>1
    <3>3. QED
      BY <2>3, <3>2 DEF Coming, Between, Holds, JoinOf
  <2>5. CASE Coming(o, s, x)
    <3>1. PICK q \in Server : Between(q, s, o) /\ Holds(inbox[q], JoinOf(Toward[o][q], x))
      BY <2>5 DEF Coming
    <3>2. Between(s, o, n) /\ Between(q, o, s)
      BY <2>3, <3>1 DEF Between
    <3>3. Between(q, n, o)
      BY <1>1, <3>2, BetweenBetween DEF Between
    <3>4. Coming(o, n, x)
      BY <3>1, <3>3 DEF Coming
    <3>5. QED
      BY <1>1, <1>6, <3>4
  <2>6. QED
    BY <1>1, <1>3, <1>7, <2>1, <2>4, <2>5 DEF Linked
<1>8. ASSUME NEW y \in Channel, NEW a \in Server, NEW o \in Server,
             Has(a, y)', Has(o, y)', a # o
      PROVE  WillFeed(a, Toward[o][a], y)' \/ Coming(o, a, y)'
  <2>1. PICK h \in Server : h = Toward[o][a]
    BY <1>0, TowardServer
  <2>2. Has(a, y) /\ Has(o, y) /\ (y = x => a # s /\ o # s)
    BY <1>3, <1>8 DEF HostsAre, Hosts, Has
  <2>3. SUFFICES WillFeed(a, h, y)' \/ Coming(o, a, y)'
    BY <2>1 DEF WillFeed, Ends, Holds, Feed, Has, JoinOf, GoneOf
  <2>4. CASE y = x /\ a = n /\ h = s
    <3>1. Coming(o, n, x)'
      BY <1>7, <1>8, <2>1, <2>2, <2>4
    <3>2. QED
      BY <2>4, <3>1 DEF Coming, Between, Holds, JoinOf
  <2>5. CASE WillFeed(a, h, y) /\ ~(y = x /\ a = n /\ h = s)
    <3>1. WillFeed(a, h, y)' <=> WillFeed(a, h, y)
      BY <1>2, <2>2, <2>5 DEF WillFeed, Ends, Holds, Feed, Has, JoinOf, GoneOf
    <3>2. QED
      BY <2>5, <3>1
  <2>6. CASE Coming(o, a, y)
    BY <1>6, <2>6
  <2>7. QED
    BY <1>8, <2>1, <2>2, <2>4, <2>5, <2>6 DEF Linked
<1>9. QED
  BY <1>8 DEF Linked

LEMMA TurnLinked ==
  ASSUME Tree, Ground, TurnsInv, Linked, NEW s \in Server, Turns(s)
  PROVE  Linked'
BY PlainTurnLinked, OpensLinked, PrunesLinked DEF Turns

\* What a user types adds to what the servers are to hear.
LEMMA ClientAsks ==
  ASSUME "switch" \notin Commands, "exit" \notin Commands, TypeOK,
         NEW c \in Client, ClientStep(c), UNCHANGED serverVars
  PROVE  \E d : Asks(c, d)
<1>1. active[c] \in Channel \cup {NoChannel} /\ says \in 0 .. MaxSays
  BY DEF TypeOK, ClientTypeOK
<1>2. CASE Login(c)
  BY <1>2 DEF Login, Asks, Datagram, LoginRequest
<1>3. CASE JoinCommon(c)
  BY <1>3, ProtocolAssumption DEF JoinCommon, Asks, Datagram, JoinRequest, Node
<1>4. CASE TypeJoin(c)
  BY <1>4 DEF TypeJoin, Asks, Datagram, JoinRequest, Node
<1>5. CASE TypeLeave(c)
  BY <1>5 DEF TypeLeave, Asks, Datagram, LeaveRequest
<1>6. CASE TypeText(c)
  <2>1. /\ Request(c, [type |-> "REQ_SAY", src |-> c, channel |-> active[c],
                       text |-> [msg |-> says + 1, whole |-> TRUE]])
        /\ active[c] \in Channel /\ says < MaxSays
    BY <1>1, <1>6 DEF TypeText
  <2>2. says + 1 \in Message
    BY <1>1, <2>1, ProtocolAssumption DEF Message
  <2>3. [type |-> "REQ_SAY", src |-> c, channel |-> active[c],
         text |-> [msg |-> says + 1, whole |-> TRUE]] \in Datagram
    BY <2>1, <2>2 DEF Datagram, SayRequest, Text
  <2>4. QED
    BY <2>1, <2>3 DEF Asks
<1>7. CASE TypeList(c) \/ TypeWho(c)
  BY <1>7 DEF TypeList, TypeWho, Asks, Datagram, ListRequest, WhoRequest
<1>8. CASE TypeSwitch(c) \/ TypeExit(c)
  BY <1>8 DEF TypeSwitch, TypeExit, Typed
<1>9. QED
  BY <1>2, <1>3, <1>4, <1>5, <1>6, <1>7, <1>8 DEF ClientStep

LEMMA AskLinked ==
  ASSUME Tree, NetTypeOK, Agreed, Trail, Linked, NEW c \in Client, NEW d, Asks(c, d)
  PROVE  Linked'
<1>1. Promised
  BY AskAgreed
<1>2. UNCHANGED channel_list
  BY DEF Asks, serverVars, serverState
<1>3. ASSUME NEW p \in Server, NEW e, Holds(inbox[p], e)
      PROVE  Holds(inbox'[p], e)
  BY <1>3, AskedQueues, HoldsAppended
<1>4. ASSUME NEW x \in Channel, NEW a \in Server, NEW o \in Server,
             Has(a, x)', Has(o, x)', a # o
      PROVE  WillFeed(a, Toward[o][a], x)' \/ Coming(o, a, x)'
  <2>1. PICK h \in Server : h = Toward[o][a]
    BY TowardServer DEF Tree
  <2>2. Has(a, x) /\ Has(o, x)
    BY <1>2, <1>4 DEF Has
  <2>3. CASE WillFeed(a, h, x)
    <3>1. WillFeed(a, h, x)'
      BY <1>1, <2>3 DEF Promised, WillFeed, Ends, Holds, Feed, Has, JoinOf, GoneOf
    <3>2. QED
      BY <2>1, <3>1 DEF WillFeed, Ends, Holds, Feed, Has, JoinOf, GoneOf
  <2>4. CASE Coming(o, a, x)
    <3>1. PICK p \in Server : Between(p, a, o) /\ Holds(inbox[p], JoinOf(Toward[o][p], x))
      BY <2>4 DEF Coming
    <3>2. Holds(inbox'[p], JoinOf(Toward[o][p], x))
      BY <1>3, <3>1
    <3>3. QED
      BY <3>1, <3>2 DEF Coming, Between, Holds, JoinOf
  <2>5. QED
    BY <1>4, <2>1, <2>2, <2>3, <2>4 DEF Linked
<1>5. QED
  BY <1>4 DEF Linked

LEMMA LinkedStep ==
  ASSUME MaxFaults = 0, MaxSweeps = 0, ~IdleSweeps, ~Reordering,
         "switch" \notin Commands, "exit" \notin Commands, NamesDiffer, Tree,
         Ground, NoSweep, TurnsInv, Linked, [Next /\ TakingTurns]_vars
  PROVE  Linked'
<1>0. TypeOK /\ NetTypeOK /\ Acyclic(Adjacent) /\ NeighboursMutual /\ Agreed /\ Trail
  BY DEF Ground, TypeOK, Tree, TurnsInv
<1>1. ASSUME NEW s \in Server, Receive(s)
      PROVE  Linked'
  <2>1. Turns(s)
    BY <1>0, <1>1, TurnTaken
  <2>2. QED
    BY <2>1, TurnLinked
<1>2. ASSUME NEW c \in Client, ClientStep(c), UNCHANGED serverVars
      PROVE  Linked'
  <2>1. PICK d : Asks(c, d)
    BY <1>0, <1>2, ClientAsks
  <2>2. QED
    BY <1>0, <2>1, AskLinked
<1>3. CASE UNCHANGED vars
  <2>1. UNCHANGED <<inbox, channel_list>>
    BY <1>3 DEF vars, netVars, serverVars, serverState
  <2>2. ASSUME NEW x \in Channel, NEW a \in Server, NEW o \in Server,
               Has(a, x)', Has(o, x)', a # o
        PROVE  WillFeed(a, Toward[o][a], x)' \/ Coming(o, a, x)'
    <3>1. Has(a, x) /\ Has(o, x)
      BY <2>1, <2>2 DEF Has
    <3>2. PICK h : h = Toward[o][a]
      OBVIOUS
    <3>3. CASE WillFeed(a, h, x)
      BY <2>1, <3>2, <3>3 DEF WillFeed, Ends, Holds, Feed, Has, JoinOf, GoneOf
    <3>4. CASE Coming(o, a, x)
      BY <2>1, <3>4 DEF Coming, Between, Holds, JoinOf
    <3>5. QED
      BY <2>2, <3>1, <3>2, <3>3, <3>4 DEF Linked
  <2>3. QED
    BY <2>2 DEF Linked
<1>4. QED
  BY <1>0, <1>1, <1>2, <1>3, TurnsSteps

LEMMA LinkedInvariant ==
  ASSUME MaxFaults = 0, MaxSweeps = 0, ~IdleSweeps, ~Reordering, Uninit = {0},
         "switch" \notin Commands, "exit" \notin Commands, NamesDiffer, DrawsDiffer, Tree
  PROVE  TurnsSpec => [](Ground /\ TurnsInv /\ Linked)
<1> DEFINE Steps == Next /\ TakingTurns
<1>1. Init => Linked
  BY DEF Init, ServerInit, Linked, Has
<1>2. Ground /\ NoSweep /\ TurnsInv /\ Linked /\ [Steps]_vars => Linked'
  BY LinkedStep
<1>3. TurnsSpec => [](Ground /\ NoSweep /\ TurnsInv)
  BY TurnsInvariant DEF Tree
<1>4. TurnsSpec => Init /\ [][Steps]_vars
  BY DEF TurnsSpec
<1> HIDE DEF Steps
<1>5. QED
  BY <1>1, <1>2, <1>3, <1>4, PTL

\* With nothing in flight, servers that are linked feed each other all the way.
LEMMA LinkedMeansConnected ==
  ASSUME Tree, Ground, TurnsInv, Linked
  PROVE  MembersConnected
<1>1. SUFFICES ASSUME Idle, NEW x \in Channel, NEW c \in Members(x), NEW d \in Members(x),
                      NEW Z \in SUBSET Server, Home[c] \in Z, Fed(x, Z) \subseteq Z
               PROVE  Home[d] \in Z
  BY DEF MembersConnected, Reaches
<1>2. PICK o \in Server : o = Home[d] /\ Has(o, x)
  BY ProtocolAssumption DEF Members
<1>3. \A s \in Server : inbox[s] = <<>>
  BY <1>1 DEF Idle
<1>4. ASSUME NEW r \in Server, NEW n, WillFeed(r, n, x)
      PROVE  n \in Feed(r, x)
  BY <1>3, <1>4 DEF WillFeed, Ends
<1>5. ASSUME NEW a \in Z, Has(a, x), a # o
      PROVE  Toward[o][a] \in Z /\ Has(Toward[o][a], x)
  <2>1. PICK h : h = Toward[o][a]
    OBVIOUS
  <2>2. ~Coming(o, a, x)
    BY <1>3 DEF Coming, Holds
  <2>3. WillFeed(a, h, x)
    BY <1>2, <1>5, <2>1, <2>2 DEF Linked
  <2>4. h \in Feed(a, x) /\ h \in Adjacent[a] /\ h \in Server
    BY <1>4, <2>3, FeedAdjacent
  <2>5. a \in Feed(h, x)
    BY <1>4, <2>3, <2>4 DEF TurnsInv, Agreed
  <2>6. h \in Fed(x, Z)
    BY <1>5, <2>4 DEF Fed, Feed
  <2>7. QED
    BY <1>1, <2>1, <2>5, <2>6 DEF Feed
<1> DEFINE Q == {t \in Server : t \in Z /\ Has(t, x) => o \in Z}
<1>6. o \in Q /\ \A t \in Server : Toward[o][t] \in Q \cap Adjacent[t] => t \in Q
  BY <1>5
<1> HIDE DEF Q
<1>7. Server \subseteq Q
  BY <1>6, TreeInduction
<1>8. Home[c] \in Server /\ Has(Home[c], x)
  BY <1>1 DEF Members
<1>9. QED
  BY <1>1, <1>2, <1>7, <1>8 DEF Q

\* Between datagrams, what one member of a channel says can reach the server of
\* every other member: join() announces a channel to all neighbours, say() gives
\* one up only where a single neighbour feeds it to nobody, and however joins and
\* such prunings interleave no part of the tree is cut off from another that has
\* members, under the conditions above, on a topology in one piece.
THEOREM MembersConnectedCorrect ==
  ASSUME MaxFaults = 0, MaxSweeps = 0, ~IdleSweeps, ~Reordering, Uninit = {0},
         "switch" \notin Commands, "exit" \notin Commands,
         NamesDiffer, NeighboursMutual, DrawsDiffer, Acyclic(Adjacent), Connected(Adjacent)
  PROVE  TurnsSpec => []MembersConnected
<1>1. Tree
  BY DEF Tree
<1>2. Ground /\ TurnsInv /\ Linked => MembersConnected
  BY <1>1, LinkedMeansConnected
<1>3. QED
  BY <1>1, <1>2, LinkedInvariant, PTL
=============================================================================
