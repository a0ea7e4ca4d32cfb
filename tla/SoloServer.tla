----------------------------- MODULE SoloServer -----------------------------
(***************************************************************************)
(* project1: one server for all clients.  Its main loop handles one        *)
(* datagram after the other, with tables like those of project2 but for a  *)
(* single counter per channel, kept in other places.  It also answers      *)
(* /list and /who, from the counters.  What it forwards of a message to    *)
(* the users of a channel does not change its state and is left out.       *)
(***************************************************************************)
EXTENDS UdpNet, ChatClient, ChannelTable

CONSTANT Uninit  \* values the counter in fresh malloc() memory may hold

solo == CHOOSE s \in Server : TRUE

ASSUME SoloAssumption == Server = {solo} /\ Uninit \subseteq Int

VARIABLES
  status,        \* "up", "crashed" or "stopped" by exit()
  user_list,     \* users logged in
  channel_list,  \* a record for each channel there is
  list_count,    \* channel_list.count
  answers        \* history: sizes announced by answers to /list, and real ones

soloVars == <<status, user_list, channel_list, list_count, answers>>
vars == <<netVars, clientVars, soloVars>>

SoloChannel == [users : Seq(Client), count : Int]
Answer == [announced : Int, present : Nat]

\* create_channel sets the list of users but not the counter.
NewChannel(n) == [users |-> <<>>, count |-> n]

Init ==
  /\ NetInit
  /\ ClientInit
  /\ status = "up"
  /\ user_list = <<>>
  /\ \E n \in Uninit : channel_list = [x \in {Common} |-> NewChannel(n)]
  /\ list_count = 1
  /\ answers = {}

----------------------------------------------------------------------------
Has(x) == x \in DOMAIN channel_list

\* The datagrams of the given type that the main loop may take next.
Incoming(type) ==
  {i \in Arrivals(solo) : status = "up" /\ inbox[solo][i].type = type}

\* A search returned NULL and the result is dereferenced.
Crash ==
  /\ status' = "crashed"
  /\ UNCHANGED <<user_list, channel_list, list_count, answers>>

\* The user who sent datagram i is taken from the socket and looked up.
Handle(i) == inbox' = After(solo, i)
Known(i) == knows(user_list, inbox[solo][i].src)

RecvLogin ==
  \E i \in Incoming("REQ_LOGIN") :
    /\ Handle(i)
    /\ user_list' = add_user(user_list, inbox[solo][i].src)
    /\ UNCHANGED <<status, channel_list, list_count, answers>>

\* The counter goes down whether or not the user was in the channel.
Left(ch, name) == [users |-> remove_user(ch.users, name), count |-> ch.count - 1]

\* Channels whose counter is then 0 are removed; list_count is not adjusted.
\* As in project2, the loop reads the next pointer of freed records.
ChannelsAfterLogout(name) ==
  LET left == [x \in DOMAIN channel_list |-> Left(channel_list[x], name)]
  IN  Restrict(left, {x \in DOMAIN left : left[x].count # 0})

RecvLogout ==
  \E i \in Incoming("REQ_LOGOUT") :
    LET name == NameOf[inbox[solo][i].src] IN
    /\ Handle(i)
    /\ \/ ~Known(i) /\ Crash
       \/ /\ Known(i)
          /\ channel_list' = ChannelsAfterLogout(name)
          /\ user_list' = remove_user(user_list, name)
          /\ UNCHANGED <<status, list_count, answers>>

\* Mutant of Joined: the user who joins is counted twice.
JoinedTwice(ch, c) == [users |-> add_user(ch.users, c), count |-> ch.count + 2]

Joined(ch, c) == [users |-> add_user(ch.users, c), count |-> ch.count + 1]

RecvJoinExisting ==
  \E i \in Incoming("REQ_JOIN") :
    LET d == inbox[solo][i] IN
    /\ Handle(i)
    /\ Known(i)
    /\ Has(d.channel)
    /\ channel_list' = [channel_list EXCEPT ![d.channel] = Joined(@, d.src)]
    /\ UNCHANGED <<status, user_list, list_count, answers>>

\* Mutant of RecvJoinNew: the new channel is not counted.
RecvJoinNewUncounted ==
  \E i \in Incoming("REQ_JOIN"), n \in Uninit :
    LET d == inbox[solo][i] IN
    /\ Handle(i)
    /\ Known(i)
    /\ ~Has(d.channel)
    /\ channel_list' = [y \in DOMAIN channel_list \cup {d.channel} |->
         IF y = d.channel THEN Joined(NewChannel(n), d.src) ELSE channel_list[y]]
    /\ UNCHANGED <<status, user_list, list_count, answers>>

RecvJoinNew ==
  \E i \in Incoming("REQ_JOIN"), n \in Uninit :
    LET d == inbox[solo][i] IN
    /\ Handle(i)
    /\ Known(i)
    /\ ~Has(d.channel)
    /\ channel_list' = [y \in DOMAIN channel_list \cup {d.channel} |->
         IF y = d.channel THEN Joined(NewChannel(n), d.src) ELSE channel_list[y]]
    /\ list_count' = list_count + 1
    /\ UNCHANGED <<status, user_list, answers>>

RecvLeave ==
  \E i \in Incoming("REQ_LEAVE") :
    LET d == inbox[solo][i]
        left == Left(channel_list[d.channel], NameOf[d.src])
    IN
    /\ Handle(i)
    /\ Known(i)
    /\ channel_list' =
         IF ~Has(d.channel) THEN channel_list
         ELSE IF left.count = 0
              THEN Restrict(channel_list, DOMAIN channel_list \ {d.channel})
              ELSE [channel_list EXCEPT ![d.channel] = left]
    /\ UNCHANGED <<status, user_list, list_count, answers>>

\* The text goes to every entry of the channel.
RecvSay ==
  \E i \in Incoming("REQ_SAY") :
    /\ Handle(i)
    /\ Known(i)
    /\ \/ Has(inbox[solo][i].channel) /\ UNCHANGED soloVars
       \/ ~Has(inbox[solo][i].channel) /\ Crash

\* A user nobody knows joins, leaves or says something.
RecvFromUnknown ==
  \E i \in Incoming("REQ_JOIN") \cup Incoming("REQ_LEAVE") \cup Incoming("REQ_SAY") :
    ~Known(i) /\ Handle(i) /\ Crash

RecvList ==
  \E i \in Incoming("REQ_LIST") :
    /\ Handle(i)
    /\ answers' = answers \cup {[announced |-> list_count,
                                 present |-> Cardinality(DOMAIN channel_list)]}
    /\ UNCHANGED <<status, user_list, channel_list, list_count>>

\* The answer has 40 bytes and 32 for each user counted, and is filled from the
\* list.  With a counter below -1 the unsigned size wraps around, malloc() fails
\* and the server exits.
RecvWho ==
  \E i \in Incoming("REQ_WHO") :
    LET x == inbox[solo][i].channel IN
    /\ Handle(i)
    /\ \/ ~Has(x) /\ Crash
       \/ /\ Has(x)
          /\ channel_list[x].count < -1
          /\ status' = "stopped"
          /\ UNCHANGED <<user_list, channel_list, list_count, answers>>
       \/ /\ Has(x)
          /\ channel_list[x].count >= -1
          /\ UNCHANGED soloVars

Receive ==
  \/ RecvLogin \/ RecvLogout
  \/ RecvJoinExisting \/ RecvJoinNew \/ RecvLeave \/ RecvSay \/ RecvFromUnknown
  \/ RecvList \/ RecvWho

Next ==
  \/ Receive /\ UNCHANGED <<faults, clientVars>>
  \/ \E c \in Client : ClientStep(c) /\ UNCHANGED <<faults, soloVars>>
  \/ (LoseDatagram(solo) \/ DoubleDatagram(solo)) /\ UNCHANGED <<clientVars, soloVars>>

Spec == Init /\ [][Next]_vars

----------------------------------------------------------------------------
\* Type invariant: the variables hold what their declarations say.
TypeOK ==
  /\ NetTypeOK
  /\ ClientTypeOK
  /\ status \in {"up", "crashed", "stopped"}
  /\ user_list \in Seq(Client)
  /\ DOMAIN channel_list \subseteq Channel
  /\ channel_list \in [DOMAIN channel_list -> SoloChannel]
  /\ list_count \in Nat
  /\ answers \subseteq Answer

\* RecvWho sends as many entries as the counter says and fills them from the
\* list: the counter never exceeds the list, so no entry is sent unfilled,
\* however users join, leave and log out and in whatever order they are heard.
WhoFilled ==
  \A x \in DOMAIN channel_list : channel_list[x].count <= Len(channel_list[x].users)

\* RecvLogout, RecvJoin..., RecvLeave and RecvSay use the user they look up without
\* asking whether there is one: on a network that keeps order and loses nothing
\* whoever is heard is known, although users are removed by name and others go
\* before him.
UsersKnown ==
  ~Reordering /\ faults = 0 =>
    \A i \in Arrivals(solo) :
      inbox[solo][i].src \in Client /\ inbox[solo][i].type # "REQ_LOGIN" => Known(i)

\* RecvList allocates the answer from channel_list.count, which is not kept when
\* channels are removed, and fills it from the list: the list always fits.
ListComplete == \A w \in answers : w.announced >= w.present

\* "server: removing empty channel": a channel is removed with the last of its
\* users, never while others are in it.
RemovedOnlyEmpty ==
  [][\A x \in DOMAIN channel_list \ DOMAIN channel_list' :
       \E i \in DOMAIN inbox[solo] :
         /\ inbox' = After(solo, i)
         /\ \A k \in DOMAIN channel_list[x].users :
              channel_list[x].users[k] = inbox[solo][i].src]_vars
=============================================================================
