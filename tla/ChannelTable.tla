---------------------------- MODULE ChannelTable ----------------------------
(***************************************************************************)
(* The tables of a project2 server: server_data_structures.c and the       *)
(* helpers unsub_server, find_server and sub_server_to_channel of          *)
(* server.c.                                                               *)
(*                                                                         *)
(* A user entry is the port of a client: the address field always holds    *)
(* the server's own address and the name is the one given on the client's  *)
(* command line.  Lists of users keep their order and their repetitions.   *)
(* The list of servers subscribed to a channel is a set: every call of     *)
(* sub_server_to_channel is guarded by a search for the server, and its    *)
(* order is never observable.  The counters are kept beside the lists, as  *)
(* the code keeps them, so that the two can disagree.                      *)
(***************************************************************************)
EXTENDS DuckChat, SequencesExt

CONSTANT NameOf  \* NameOf[c]: the username client c was started with

ASSUME NameAssumption == Client \subseteq DOMAIN NameOf

ChannelRecord == [users : Seq(Client), user_count : Int,
                  servers : SUBSET Node, server_count : Int]

\* The counters of a record agree with its lists.
Counted(ch) ==
  ch.user_count = Len(ch.users) /\ ch.server_count = Cardinality(ch.servers)

\* add_user prepends.
add_user(list, c) == <<c>> \o list

\* find_user_by_ip_port: is there an entry with this port?
knows(list, n) == \E k \in DOMAIN list : list[k] = n

\* remove_user unlinks the first entry with the given name, if there is one.
first_named(list, name) ==
  {k \in DOMAIN list : /\ NameOf[list[k]] = name
                       /\ \A j \in 1 .. k-1 : NameOf[list[j]] # name}

\* Mutant of remove_user: the head goes, whatever its name.
remove_head(list, name) == IF list = <<>> THEN list ELSE Tail(list)

remove_user(list, name) ==
  IF first_named(list, name) = {} THEN list
  ELSE RemoveAt(list, CHOOSE k \in first_named(list, name) : TRUE)

add_user_to_channel(ch, c) ==
  [ch EXCEPT !.users = add_user(@, c), !.user_count = @ + 1]

\* Mutant of remove_user_from_channel: counts down whoever is removed.
remove_and_count_down(ch, name) ==
  [ch EXCEPT !.users = remove_user(@, name), !.user_count = @ - 1]

remove_user_from_channel(ch, name) ==
  [ch EXCEPT !.users = remove_user(@, name),
             !.user_count = IF first_named(ch.users, name) = {} THEN @ ELSE @ - 1]

sub_server_to_channel(ch, n) ==
  [ch EXCEPT !.servers = @ \cup {n}, !.server_count = @ + 1]

\* Mutant of unsub_server: the list is always reset.
unsub_every_server(ch, n) == [ch EXCEPT !.servers = {}, !.server_count = 0]

\* With one server left the list is emptied, whichever server is to go.
unsub_server(ch, n) ==
  IF ch.server_count = 1 THEN [ch EXCEPT !.servers = {}, !.server_count = 0]
  ELSE IF ch.server_count # 0 /\ n \in ch.servers
       THEN [ch EXCEPT !.servers = @ \ {n}, !.server_count = @ - 1]
       ELSE ch

\* create_channel sets the lists but not the counters, which start with the
\* values uc and sc malloc() happens to return: 0 in memory never used before,
\* anything in memory used before.  A user has a record of the same size.
create_channel(uc, sc) ==
  [users |-> <<>>, user_count |-> uc, servers |-> {}, server_count |-> sc]
=============================================================================
