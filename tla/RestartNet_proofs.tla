-------------------------- MODULE RestartNet_proofs --------------------------
(***************************************************************************)
(* What a restart leaves intact: the types, the counters, ID_LIST, and, if *)
(* the servers restarted are relays without users of their own, what the   *)
(* tables of all servers owe to the order of datagrams.                    *)
(***************************************************************************)
EXTENDS RestartNet, RelayNet_proofs

LEMMA HaltType ==
  ASSUME TypeOK, NEW s \in Server, Halt(s)
  PROVE  TypeOK'
<1>1. faults \in 0 .. MaxFaults /\ sweeps \in 0 .. MaxSweeps
      /\ MaxFaults \in Nat /\ MaxSweeps \in Nat
  BY NetworkAssumption, ServerAssumption DEF TypeOK, NetTypeOK, ServerTypeOK
<1>2. faults' \in 0 .. MaxFaults
  BY <1>1 DEF Halt
<1>3. QED
  BY <1>2 DEF Halt, Crash, history, clientVars, TypeOK, NetTypeOK, ServerTypeOK, ClientTypeOK

LEMMA RestartType ==
  ASSUME TypeOK, NEW s \in Server, Restart(s)
  PROVE  TypeOK'
<1>1. ChannelTableOK([x \in {} |-> create_channel(0, 0)])
  BY DEF ChannelTableOK
<1>2. /\ <<>> \in Seq(Datagram) /\ <<>> \in Seq(Client) /\ <<>> \in Seq(Id)
      /\ IdListSize \in Nat
  BY ServerAssumption
<1>3. NetTypeOK' /\ ClientTypeOK'
  BY <1>2 DEF Restart, clientVars, TypeOK, NetTypeOK, ClientTypeOK
<1>4. DOMAIN channel_list' = Server /\ \A r \in Server : ChannelTableOK(channel_list'[r])
  BY <1>1 DEF Restart, TypeOK, ServerTypeOK
<1>5. /\ status' \in [Server -> {"up", "crashed"}]
      /\ user_list' \in [Server -> Seq(Client)]
      /\ ID_LIST' \in [Server -> Seq(Id)]
      /\ ID_LIST_SIZE' \in [Server -> Nat]
  BY <1>2 DEF Restart, TypeOK, ServerTypeOK
<1>6. ServerTypeOK'
  BY <1>4, <1>5 DEF Restart, history, TypeOK, ServerTypeOK, ChannelTableOK
<1>7. QED
  BY <1>3, <1>6 DEF TypeOK

\* With kills and restarts every variable keeps its type.
THEOREM RestartTypeCorrect == RestartSpec => []TypeOK
<1>1. Init => TypeOK
  BY TypeInit
<1>2. TypeOK /\ [RestartNext]_vars => TypeOK'
  BY TypeStep, HaltType, RestartType DEF RestartNext
<1>3. QED
  BY <1>1, <1>2, PTL DEF RestartSpec

\* A server that starts anew allocates ID_LIST anew: the list is never longer than
\* its array, and no identifier is in it twice, however often servers are killed.
THEOREM RestartIdListCorrect == RestartSpec => []IdListSound
<1>1. Init => IdInv
  BY ServerAssumption DEF Init, ServerInit, IdInv, IdListSound
<1>2. TypeOK /\ IdInv /\ [RestartNext]_vars => IdInv'
  <2>1. ASSUME TypeOK, IdInv, NEW s \in Server, Halt(s) PROVE IdInv'
    BY <2>1 DEF Halt, IdInv, IdListSound
  <2>2. ASSUME TypeOK, IdInv, NEW s \in Server, Restart(s) PROVE IdInv'
    <3>1. /\ ID_LIST'[s] = <<>> /\ ID_LIST_SIZE'[s] = IdListSize
          /\ \A r \in Server \ {s} : /\ ID_LIST'[r] = ID_LIST[r]
                                     /\ ID_LIST_SIZE'[r] = ID_LIST_SIZE[r]
      BY <2>2 DEF Restart, TypeOK, ServerTypeOK
    <3>2. IdListSize \in Nat /\ IdListSize > 0 /\ Len(<<>>) = 0 /\ DOMAIN <<>> = {}
      BY ServerAssumption
    <3>3. QED
      BY <2>2, <3>1, <3>2 DEF IdInv, IdListSound
  <2>3. QED
    BY IdInvStep, <2>1, <2>2 DEF RestartNext
<1>3. IdInv => IdListSound
  BY DEF IdInv
<1>4. QED
  BY <1>1, <1>2, <1>3, RestartTypeCorrect, PTL DEF RestartSpec

\* Kills and restarts leave user_count and server_count right.
THEOREM RestartCountsCorrect ==
  ASSUME Uninit = {0}
  PROVE  RestartSpec => []CountsAgree
<1>1. Init => CountsAgree
  BY DEF Init, ServerInit, CountsAgree
<1>2. TypeOK /\ CountsAgree /\ [RestartNext]_vars => CountsAgree'
  <2>1. ASSUME TypeOK, CountsAgree, NEW s \in Server, Halt(s) PROVE CountsAgree'
    BY <2>1 DEF Halt, CountsAgree, Counted
  <2>2. ASSUME TypeOK, CountsAgree, NEW s \in Server, Restart(s) PROVE CountsAgree'
    BY <2>2 DEF Restart, CountsAgree, Counted, TypeOK, ServerTypeOK
  <2>3. QED
    BY CountsStep, <2>1, <2>2 DEF RestartNext
<1>3. QED
  BY <1>1, <1>2, RestartTypeCorrect, PTL DEF RestartSpec

----------------------------------------------------------------------------
(***************************************************************************)
(* Servers without users that come back before the network has failed.     *)
(***************************************************************************)
\* No server that has ended is left in the middle of a sweep.
DownIdle == \A s \in Server : status[s] = "crashed" => sweep[s] = {}

\* A handler ends no server but its own.
LEMMA OwnStatus ==
  ASSUME TypeOK, NEW s \in Server, Receive(s), NEW r \in Server \ {s}
  PROVE  status'[r] = status[r]
BY DEF Receive, RecvLogin, RecvLogout, RecvJoinExisting, RecvJoinNew, RecvLeave, RecvS2SLeave,
       RecvSay, RecvS2SSay, RecvQuery, Say, Crash, serverVars, serverState, TypeOK, ServerTypeOK

LEMMA DownIdleStep ==
  ASSUME TypeOK, DownIdle, [RestartNext]_vars
  PROVE  DownIdle'
<1>1. ASSUME NEW s \in Server, Receive(s) PROVE DownIdle'
  BY <1>1, ReceiveBetweenSweeps, OwnStatus DEF DownIdle
<1>2. ASSUME NEW s \in Server, StartSweep(s) PROVE DownIdle'
  BY <1>2 DEF StartSweep, DownIdle, TypeOK, ServerTypeOK
<1>3. ASSUME NEW s \in Server, SweepChannel(s) PROVE DownIdle'
  BY <1>3 DEF SweepChannel, DownIdle, TypeOK, ServerTypeOK
<1>4. ASSUME UNCHANGED serverVars PROVE DownIdle'
  BY <1>4 DEF serverVars, serverState, DownIdle
<1>5. ASSUME NEW s \in Server, Halt(s) \/ Restart(s) PROVE DownIdle'
  BY <1>5 DEF Halt, Crash, Restart, DownIdle, TypeOK, ServerTypeOK
<1>6. QED
  BY <1>1, <1>2, <1>3, <1>4, <1>5 DEF RestartNext, Next, ServerStep, vars

LEMMA RestartKeepsSweeps ==
  ASSUME TypeOK, DownIdle, SweepInv, NEW s \in Server, Halt(s) \/ Restart(s)
  PROVE  SweepInv'
<1>1. CASE Halt(s)
  BY <1>1 DEF Halt, SweepInv, TypeOK, ServerTypeOK
<1>2. CASE Restart(s)
  <2>1. sweep[s] = {} /\ UNCHANGED sweep
    BY <1>2 DEF Restart, DownIdle
  <2>2. \A r \in Server \ {s} : channel_list'[r] = channel_list[r]
    BY <1>2 DEF Restart, TypeOK, ServerTypeOK
  <2>3. QED
    BY <2>1, <2>2 DEF SweepInv
<1>3. QED
  BY <1>1, <1>2

\* A server without users forgets nothing that anybody's requests depend on.
LEMMA RestartKeepsOrder ==
  ASSUME TypeOK, OrderInv, NEW s \in Server, Restart(s), \A c \in Client : Home[c] # s
  PROVE  OrderInv'
<1>1. /\ inbox'[s] = <<>> /\ user_list'[s] = <<>> /\ DOMAIN channel_list'[s] = {}
      /\ \A r \in Server \ {s} : /\ inbox'[r] = inbox[r] /\ user_list'[r] = user_list[r]
                                 /\ channel_list'[r] = channel_list[r]
      /\ UNCHANGED <<phase, strays>>
  BY DEF Restart, history, clientVars, TypeOK, NetTypeOK, ServerTypeOK
<1>2. Len(<<>>) = 0
  OBVIOUS
<1>3. ASSUME NEW r \in Server
      PROVE  /\ OrderAt(r, inbox'[r], phase, user_list'[r])
             /\ FedBy(channel_list'[r], Adjacent[r]) /\ JoinsFrom(inbox'[r], Adjacent[r])
  <2>1. CASE r = s
    BY <1>1, <1>2, <2>1 DEF OrderAt, InOrder, FedBy, JoinsFrom
  <2>2. CASE r # s
    BY <1>1, <2>2 DEF OrderInv
  <2>3. QED
    BY <2>1, <2>2
<1>4. QED
  BY <1>1, <1>3 DEF OrderInv

RestartInv == DownIdle /\ SweepInv /\ CalmInv

LEMMA RestartInvHolds ==
  ASSUME NamesDiffer, NeighboursMutual, ~Reordering,
         \A c \in Client : Home[c] \notin Restartable
  PROVE  RestartSpec => []RestartInv
<1>1. Init => RestartInv
  BY OrderInit DEF Init, ServerInit, RestartInv, DownIdle, SweepInv, CalmInv
<1>2. TypeOK /\ RestartInv /\ [RestartNext]_vars => RestartInv'
  <2> SUFFICES ASSUME TypeOK, RestartInv, [RestartNext]_vars PROVE RestartInv'
    OBVIOUS
  <2>1. DownIdle'
    BY DownIdleStep DEF RestartInv
  <2>2. CASE [Next]_vars
    BY <2>1, <2>2, SweepInvStep, CalmInvStep DEF RestartInv
  <2>3. ASSUME NEW s \in Server, Halt(s)
        PROVE  RestartInv'
    <3>1. faults' # 0
      BY <2>3 DEF Halt, TypeOK, NetTypeOK
    <3>2. QED
      BY <2>1, <2>3, <3>1, RestartKeepsSweeps DEF RestartInv, CalmInv
  <2>4. ASSUME NEW s \in Server, Restart(s)
        PROVE  RestartInv'
    <3>1. \A c \in Client : Home[c] # s
      BY <2>4 DEF Restart
    <3>2. UNCHANGED faults
      BY <2>4 DEF Restart
    <3>3. QED
      BY <2>1, <2>4, <3>1, <3>2, RestartKeepsSweeps, RestartKeepsOrder DEF RestartInv, CalmInv
  <2>5. QED
    BY <2>2, <2>3, <2>4 DEF RestartNext
<1>3. QED
  BY <1>1, <1>2, RestartTypeCorrect, PTL DEF RestartSpec

\* Where only servers without users are restarted, users stay known to theirs:
\* say(), leave() and logout() find whom they look for.
THEOREM RestartUsersKnownCorrect ==
  ASSUME NamesDiffer, NeighboursMutual, \A c \in Client : Home[c] \notin Restartable
  PROVE  RestartSpec => []UsersKnown
<1>1. CASE Reordering
  <2>1. UsersKnown
    BY <1>1 DEF UsersKnown, Undisturbed
  <2>2. QED
    BY <2>1, PTL
<1>2. CASE ~Reordering
  <2>1. TypeOK /\ RestartInv => UsersKnown
    BY <1>2, CalmKnowsUsers DEF RestartInv
  <2>2. QED
    BY <1>2, <2>1, RestartInvHolds, RestartTypeCorrect, PTL
<1>3. QED
  BY <1>1, <1>2

\* Under the same conditions nobody but a neighbour is ever subscribed as a server.
THEOREM RestartSubscribedCorrect ==
  ASSUME NamesDiffer, NeighboursMutual, \A c \in Client : Home[c] \notin Restartable
  PROVE  RestartSpec => []OnlyServersSubscribed
<1>1. CASE Reordering
  <2>1. OnlyServersSubscribed
    BY <1>1 DEF OnlyServersSubscribed, Undisturbed
  <2>2. QED
    BY <2>1, PTL
<1>2. CASE ~Reordering
  <2>1. RestartInv => OnlyServersSubscribed
    BY DEF RestartInv, CalmInv, OrderInv, FedBy, OnlyServersSubscribed, Undisturbed
  <2>2. QED
    BY <1>2, <2>1, RestartInvHolds, PTL
<1>3. QED
  BY <1>1, <1>2
=============================================================================
