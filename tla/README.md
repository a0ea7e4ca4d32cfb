# DuckChat: a TLA+ model of the CIS432 chat programs

DuckChat is a chat system over UDP written in C. `project1` is one server with
its clients; `project2` is a network of servers that relay messages to each
other (`S2S` datagrams) and the same client. This directory holds a model of
both, model-checked with TLC, and theorems about them checked with TLAPS.

## 1. Inventory

| Component | State | Operations | Modelled in |
|---|---|---|---|
| Protocol (`duckchat.h`) | none | datagram layouts | `DuckChat` |
| UDP sockets | a queue per socket | `sendto`, `recvfrom`, loss, duplication | `UdpNet` (external) |
| Server tables (`project2/server_data_structures.c`, `unsub_server`, `sub_server_to_channel`) | users, channels with users, subscribed servers and two counters | add, find, remove | `ChannelTable` |
| Relay server (`project2/server.c`) | `user_list`, `channel_list`, `ID_LIST`, `ID_COUNT`, `ID_LIST_SIZE` | login, logout, join, leave, say, S2S say, S2S leave, list and who (ignored), minute timer | `RelayServer` |
| Client (`client.c`) | `active_channel` | start, `/join /leave /switch /list /who /exit`, text | `ChatClient` |
| The network of servers | all of the above | | `RelayNet` |
| Restarts of a relay server (`main` up to its loop) | empty tables | kill, start | `RestartNet` |
| Minute timer (main loop of `project2/server.c`) | clock, `one_min_timeout_flag` | a turn of the loop | `RefreshTimer` |
| Single server (`project1/server.c`) | `user_list`, `channel_list` with a counter per channel and one for the list | login, logout, join, leave, say, list, who | `SoloServer` |
| Line editor, parser, dispatch (`prompt_user`, `string_parser`, `main` of `client.c`) and terminal mode (`raw.c`) | input buffer, last argument, terminal | keys, a message in between | `LineEditor` |
| Scripts, answer keys, `test.c` | | | not modelled |

How they interact: a client sends requests to the one server named on its
command line. A server takes one datagram at a time, runs its handler to the
end, and sends text to clients and joins, leaves and says to neighbours. A join
from a user creates the channel and is flooded to all neighbours, which
subscribe each other. A say is flooded along the subscriptions; a server with no
user and one subscribed neighbour answers with `S2S_LEAVE` and forgets the
channel. Once a minute every server repeats its joins to the servers it has
subscribed. Processes share nothing; each is single-threaded.

What is hard: joins, leaves and prunings crossing each other between servers;
copies of a message that come back along a cycle; the refresh racing a leave;
loss, duplication and reordering between hosts; counters kept by hand beside
the lists; failed searches that return NULL and are dereferenced; users
identified by port in one place and by name in another; a server that comes
back empty beside neighbours that remember it; a clock compared for equality;
a line buffer that is never cleared and is read as a string. `PROJECT.json` lists
these as hazards, each at its line.

What makes each part correct: the tables' counters agree with the lists; a
server's identifier list is within its array and free of repetitions; a message
leaves a server once; neighbours agree on subscriptions and the members of a
channel are connected by them; only servers are subscribed as servers; whoever
is in a channel hears what is said there; all servers together look like one
chat room; the traffic a message causes ends; a server knows whoever writes to
it; joins are resent once a minute and repair what a fault broke; the answers of
the single server match its tables; the line that is sent is the line typed.

## 2. The modules

`DuckChat` - the datagrams, as records. A process is its port (all processes on
one host, as in `start_servers.sh`; the code itself keys users by port and its
own address). A text is the number of a typed message and whether all of its
words are there; `Clip` is what reading a 140-byte `s2s_say` into a 100-byte
buffer does to it.

`UdpNet` - `inbox[s]`, a queue per server. `Reordering` lets `recvfrom` return
any queued datagram; `MaxFaults` bounds losses and duplications.

`ChannelTable` - the operators on lists and channel records, named as in C.
Counters and lists are separate fields, so that they can disagree. Lists of
users keep order and repetitions, because removal takes the first entry with a
name. Subscribed servers are a set: every insertion follows a failed search,
and the order is never observable.

`RelayServer` - one action per handler: `RecvLogin`, `RecvLogout`,
`RecvJoinExisting`/`RecvJoinNew` (the two branches of `join()`, the latter with
`send_join_adjacent_servers`), `RecvLeave`, `RecvS2SLeave`, `RecvSay`,
`RecvS2SSay` (both end in `Say`, the common rest of `say()`), `RecvQuery`, and
the timer, `StartSweep` and one `SweepChannel` per channel. A dereferenced NULL
is `Crash`. `sweep[s]` is the rest of a running `one_minute_timeout_join`;
while it is not empty the server takes no datagram. History variables
(`delivered`, `strays`, `topic`, `said`, `relayed`, `audience`) record what
reached the clients; no handler reads them.

`ChatClient` - `main()` of the client up to the first prompt and one action per
command.

`RelayNet` - the composition, its properties and its fairness.

`ChatRoom` - the abstract specification: a room with entries, where a message
said on a channel is handed to users in it, each at one moment. `RelayNet`
implements it under the mapping `Room`.

`RestartNet` - `RelayNet` with `Halt` and `Restart`: a server dies between two
handlers or in the middle of a sweep, loses everything, and runs `main` again.

`SoloServer` - `project1`, composed with the same client and network.

`RefreshTimer` - the main loop of `project2/server.c` as a clock sees it. Time is
counted in ticks, `Second` of them to what `time()` counts; a `Turn` waits in
`select()` for up to a second, handles a datagram for up to `Handling` ticks, reads
the clock and decides on the sweep and the flag. `sweeps` is the history of
sweeps; `overslept` and `early` remember what kind of turns there were.

`LineEditor` - `prompt_user` a key at a time on `user_input`, `string_parser` with
`strtok` on the same buffer, the dispatch in `main()` with `parsed_s[1]` and
`active_channel`, and the mode of the terminal. The text and the arguments are
sequences of characters here because the properties are about them; a command
word counts as one character. `typed`, `screen`, `given` and `done` are what the
user typed, sees, last gave as an argument, and caused: no code reads them. The
lines named in `PROJECT.json` are those of `project1/client.c`; `project2/client.c`
differs from it by two comments and a blank line.

`MCRelayNet`, `MCRestartNet`, `MCSoloServer`, `MCRefreshTimer`, `MCLineEditor` -
topologies, homes, names, words and horizons for TLC.

`DuckChat_proofs` (lemmas on tables, network and clients that both servers' proofs
use), `RelayNet_proofs`, `RelayNetRoom_proofs`, `RelayNetTurns_proofs`,
`RestartNet_proofs`, `SoloServer_proofs`,
`RefreshTimer_proofs`, `LineEditor_proofs` - theorems.

### Modelling decisions

- **One step per handler.** All datagrams a handler sends are sent in one step.
  On a tree of servers this is exact: two receivers of one handler only
  influence each other through its sender, which is busy until the handler
  ends. On a ring a neighbour may pass a copy on before the sender's second
  `sendto`; the runs on rings therefore set `Reordering`, which covers it. This
  is why `NeverRelayedTwice` is not claimed of rings even without loss.
- **Uninitialised counters.** `create_channel` leaves both counters as
  `malloc` returns them; `Uninit` is the set of values this may be. The runs use
  `{0}`: what they show of counters, and of pruning, which decides by them, is
  what the code does when its memory is clean. With any other value `CountsAgree`
  fails at the first join.
- **Use after free.** The loop of `logout()` reads `next` of a freed record.
  With the C library's `malloc`, `free()` overwrites only the first bytes of the
  record, so the loop continues as if it were intact; it is modelled that way.
- **Time.** In `RelayServer` a sweep may start at any turn of the main loop;
  `RefreshTimer` says which turns these are.
- **Short receive buffer.** `main()` reads a 140-byte `s2s_say` into 100 bytes: a
  text over 23 characters loses its end at the first relay. `WholeAtHome` says
  what is left: users of the sender's own server get all of it.

## 3. What the runs check

Every bound is a constant: `MaxCommands` commands typed by all users after they
joined Common, `MaxSays` messages, `MaxSweeps` timer expiries while something is
in flight, `MaxFaults` losses, duplications and kills, the two counted together (with both
at 1 there is a sweep or a fault, not both); `MaxCopies` caps history counts and `IdListSize` is 1
instead of 128 so that the array has to grow.
`CHECK_DEADLOCK FALSE` everywhere: users stop typing and the system comes to rest.

Passing runs:

- `tree` - three servers in a line, users at the two ends, five commands, three
  messages, said in turns. `SubscriptionsMutual` and `MembersConnected` hold
  whenever nothing is in flight; `UnsubOnlySender` is about every step;
  `AudienceHears` says that who is in a channel when something is said in a quiet
  network gets it, unless he leaves. Five commands are enough for leave, say
  (prune), join and say again, and for the leave of a pruning server to cross a
  join. The run is of `TurnsSpec`: nobody says anything before what was sent
  earlier has been handled (joins and leaves may be typed at any time). Without
  that all four properties are false (see below). No timer, no `/exit`:
  `logout()` removes relayed channels without telling anyone, and the first two
  properties then fail until servers resend their joins.
- `ring` - three servers in a ring, reordering, two messages.
  `IdListSound`, `RelayedAtMostOnce`, and `StormsEnd`: the traffic dies out.
- `room` - two channels on the line, reordering, all commands that change
  state, one of the two messages long. `ImplementsRoom` (refinement of `ChatRoom`),
  `CountsAgree`, `WholeAtHome`. Safety only: crashes lose messages, which the room
  allows.
- `recover` - the line again, two commands among leave, say and exit, and one
  trouble at any moment: a datagram lost or doubled, the relay in the middle
  killed, or a sweep beside other traffic. `RefreshHeals` says that whatever the
  trouble and the logouts left behind, the members of each channel end up
  connected for good; `MembersConnected` is not invariant here. The sweep of
  servers without users matters: the mutant that skips their channels never
  heals. `OnlyServersSubscribed` and `UsersKnown` speak of the behaviours without
  a fault, those with the early sweep and with `/exit`.
  The killed server has no users: those of a restarted server are unknown to it,
  and their next request ends it again, for nothing in the code logs them in anew.
- `solo` - the single server, two users, two channels, all commands and one loss
  or duplication. `WhoFilled` and `ListComplete`: the counters that size the
  answers never exceed the list (who), never fall short of it (list). `UsersKnown`:
  without a fault nobody writes to it whom it does not know, which would end it.
- `editor` - lines of up to four characters over one letter, space and the
  command words, in a buffer with old contents (`Leftover`). Five cells and a text
  limit of two make lines that are too long for the text, and lines that fill the
  buffer. `InputIntact`: indices stay inside and the buffer holds the line through
  every erasure. `SaidAsTyped`: nothing of an older line is sent. `ArgumentsTraced`:
  where the argument of a command comes from, `/who` and `/switch` reusing the
  last one given. `TerminalRestored`: which endings leave the terminal raw (only a
  login, join, leave or say that cannot be sent). `RedisplayShowsInput`: what is
  shown after an interruption begins with what was typed.
- `timer` - three minutes of 60 seconds of 61 ticks, so that a minute of idle
  turns, each a tick too long, loses less than a second. `OncePerMinute`
  whatever the turns; `NoMinuteMissed` while no turn exceeds a second;
  `IdleMissesNoTwo`: an idle loop does jump over a second every minute or so, but
  never over that second of two minutes in a row.

Runs that show a disagreement of code and text (details in `PROJECT.json`,
findings): `namesake` (logout by name turns a client into a server), `echo` (a
message comes back to the server it started at), `switchback` (a leave is sent to
a client), `soloremove` (a channel removed under its members), `redisplay` (the
tail of an earlier line is shown behind the one being typed).

### Crossing prunings

What keeps neighbours agreed on a subscription is that a server prunes only on a
message from the one neighbour it has left, and tells that neighbour before it
forgets the channel. Two messages that cross defeat this. Take two neighbouring
servers with one user each; both users say something and leave the channel at
once. Each server then finds itself without users and with one subscribed
neighbour when the other's message arrives, and both prune and send `S2S_LEAVE`
to each other. If one of the users joins again before the leave of the other
server has arrived, his server subscribes that neighbour anew and sends it a
join; the neighbour subscribes him in turn; then the stale leave is handled, and
takes back a subscription newer than itself. The neighbour feeds a server that no
longer feeds it. TLC needs five commands to find this, one more than earlier
bounds of run `tree` allowed; with seven, the messages of one user suffice. Nothing in the
code or its notes says that this cannot happen, and the next minute's joins repair it
(`RefreshHeals`); `PROJECT.json` lists it as a hazard without a property.

### Fairness

`Fairness`, in `FairSpec` and `TurnsSpec`, is weak fairness of each server's `Receive` and `SweepChannel`: `select()`
returns while the socket is readable, and handlers end. Nothing is assumed of
users or of the network.

`RestartSpec` (run `recover`) adds two assumptions. Who kills a server starts it
again: weak fairness of `Restart`. And the timer goes off again and again:
strong fairness of `StartSweep`. It is strong because `StartSweep`, once
`MaxSweeps` is used up, waits for a quiet moment (`IdleSweeps`), and such moments
come and go; the code's timer does not wait. `RefreshTimer` supports the
assumption: with turns of at most a second no minute is missed, and an idle
loop, whose turns last a little more, misses no two in a row. Only a loop kept
busy for longer than a second at each minute would never sweep.

## 4. What is proved

### Relay servers

For every topology, any number of servers, clients, channels and identifiers,
any bounds, with or without reordering, loss and duplication:

- `TypeCorrect` (`RelayNet_proofs`): `Spec => []TypeOK`. One lemma per action; the
  lemmas of `DuckChat_proofs` say that each table operator returns a record, and
  what the client and the network keep.
- `IdListCorrect` (`RelayNet_proofs`): `Spec => []IdListSound`. The
  invariant `IdInv` adds that the capacity is positive, without which doubling
  it would not make room.
- `CountsCorrect`: `Spec => []CountsAgree`, under the assumption `Uninit = {0}`,
  which is needed. Inductive with `TypeOK`; the arguments are the lemmas on
  cardinalities and lengths of each table operator.
- `RelayCorrect`: `Spec => []RelayedAtMostOnce`, with no further assumption. Not
  inductive: `RelayInv` strengthens it with a mark, 1 if the identifier is in
  `ID_LIST` and 0 otherwise, and says `relayed <= said + mark`. A server that
  relays a copy has just entered the identifier, and never does so again. The
  bound is the best possible: run `echo` reaches it.

With distinct usernames (`NamesDiffer`, needed: run `namesake`) and adjacency both
ways (`NeighboursMutual`), and speaking of the behaviours without reordering and
faults (`RelayNet_proofs`):

- `UsersKnownCorrect`: `Spec => []UsersKnown`. The invariant `OrderInv` relates
  the client, its queue and `user_list`: a login precedes every other request of
  a client in its server's queue unless the server knows the client already, and
  nothing follows a logout. It is stated for each position of a queue (`OrderAt`)
  and kept by taking the first datagram and by appending one.
- `SubscribedCorrect`: `Spec => []OnlyServersSubscribed`. A sender that `join()`
  does not find in `user_list` is then an adjacent server; `SweepInv` says the
  same of what a running sweep has still to send.

### One chat room

`RelayNetRoom_proofs` proves the refinement: the relay servers together are one
chat room.

- `RoomCorrect`: `Spec => ImplementsRoom`, for any number of servers, users,
  channels and messages and any commands, on a network that may reorder at will.
- `WholeAtHomeCorrect`: `Spec => []WholeAtHome`, from the same invariant.

What they assume, and why:

| Assumption | Reason |
|---|---|
| `Acyclic(Adjacent)` | There is one way between two servers: the two-server and the capital-H topology of `start_servers.sh`. On its grid a message may come back to its server and be handed out twice (run `echo`). |
| `NeighboursMutual` | Each of two neighbours has the other on its command line, as in the script. |
| `MaxFaults = 0` | Nothing is lost or doubled; a doubled say would be handed out twice. |
| `NamesDiffer` | As above; a logout of a namesake removes another's entry. |
| `DrawsDiffer` | Two messages never draw one identifier: 32 bits of `/dev/urandom`. The invariant tells messages by their identifiers; a collision suppresses one of them where the other has passed. |
| `Uninit = {0}` | As for `CountsCorrect`. |
| `MaxCopies > MaxCommands` | Of `RoomCorrect` only: the cap on the history of copies is never reached. A bound of the model, not of the code. |

Run `room` meets all of them. No order of datagrams is assumed and no subscription
is assumed to be mutual: crossing prunings may cut users off, which the room
allows, but never make anybody get what he should not.

The argument. `RoomInv` has, besides `TypeOK`, `CountsAgree` and `SweepInv`, three
parts. `Placed`: users, subscriptions and datagrams of a server come from its own
users and its neighbours only. `Bounded`: a user's entries in a channel and his
joins in flight are no more than the joins he sent, so that `MaxCopies` suffices.
`MessageInv`, about what becomes of a message:

- `FreshSays`: until its `REQ_SAY` is handled there is exactly one of it, and
  nobody has been handed the message;
- `OneOrigin`: one server only draws an identifier for it, and only one;
- `Flooding`: a copy on its way to a server comes from the neighbour that lies
  towards that origin, and a server that has entered the identifier in `ID_LIST`
  is not the origin;
- `Handed`: the users of a server have copies only if their server is the origin
  or has entered the identifier, clipped copies only in the latter case.

So when a server hands a message to its users it has not done so before: either
it draws the identifier, for a message nobody has, or it enters it, which
`check_id` lets it do once, and then it is not the origin. This is one `Hand` of the room. The
direction towards the origin (`Toward`) is where acyclicity enters: a server
sends copies to all neighbours but the one it got its own from, so that copies only
ever move away from the origin and never reach it. Joins, leaves and logouts are
mapped to `Enter` and `Leave` by counting occurrences in user lists
(`OccurrencesRemoved`, `RemoveUserOccurrences`), every other step is a stutter.

### Users who take turns

`RelayNetTurns_proofs` is about pruning: relay servers that leave a channel
because nobody behind them needs it. For any number of servers, users, channels
and messages, when nobody speaks before what was sent earlier is handled:

- `SubscriptionsMutualCorrect`: `TurnsSpec => []SubscriptionsMutual`;
- `UnsubOnlySenderCorrect`: `TurnsSpec => UnsubOnlySender`;
- `MembersConnectedCorrect`: `TurnsSpec => []MembersConnected`.

| Assumption | Reason |
|---|---|
| `TakingTurns`, in `TurnsSpec` | Two messages that cross may make neighbours leave each other (section 3, crossing prunings). |
| `Acyclic(Adjacent)` | As for the room. On a cycle one message may come to two neighbours along two ways, and they then prune towards each other, as messages that cross do. |
| `Connected(Adjacent)` | Of `MembersConnectedCorrect` only: nothing reaches a server without a way to it. |
| `NeighboursMutual`, `NamesDiffer`, `DrawsDiffer`, `Uninit = {0}` | As for the room. Pruning decides by the two counters; the invariant tells messages by their identifiers. |
| `MaxFaults = 0` | A join or leave that is lost leaves one of two neighbours believing in the other. |
| `~Reordering` | A leave that overtakes a join does the same. |
| `MaxSweeps = 0`, `~IdleSweeps` | A refreshing join that crosses a leave subscribes a server anew that has just left. The next minute repairs it (run `recover`, `RefreshHeals`). |
| `"exit" \notin Commands` | `logout()` removes a channel whose `user_count` is 0, relayed ones included, and tells no neighbour. |
| `"switch" \notin Commands` | `/switch` lets a user speak in a channel he has left; his server may have none, which ends it, or prunes towards him (run `switchback`). |

Run `tree` meets all of them. They are the conditions under which the code keeps
these promises; the findings and `recover` show what happens outside them.

The handlers are first brought to a few kinds of turn, by what they do to the
datagram queues, to who has a channel and to whom it is fed (lemmas from
`Hears` to `Relays`): a turn hears something that changes nothing, admits a
subscriber, opens a channel at all neighbours, drops a subscriber, prunes, or
relays. Each part of the invariant is then kept by each kind of turn. `TurnsInv`
is inductive on top of `TypeOK`, `CountsAgree`, `OrderInv` and the parts
`Placed` and `MessageInv` of `RoomInv`:

- `Agreed`: of two neighbours, each will feed the other or neither will, once
  both have handled what the other sent. What a server will feed
  (`WillFeed`) is read off its subscriptions and the last join or leave on its way;
- `Current`, `Spreading`: only the latest message is on its way, at most once to
  each server, from one that has met it to one that has not and is fed the channel;
- `Giving`: an `S2S_LEAVE` is on its way only between two servers that both have
  met the latest message, and nothing else about the channel is between them;
- `Trail`: a message has been met by every server on the way back to its origin.
  This and acyclicity are why no two servers prune towards each other with the same
  message;
- `ActiveInside`, `SpeakerInside`: who speaks is in the channel, so that his server
  has it and never prunes towards him.

At rest `WillFeed` is the subscription itself, and `Agreed` is `SubscriptionsMutual`.

For `MembersConnected`, `Linked` says that of two servers that have a channel,
each will feed it to the next server on the way to the other, or a join on its way
between them is about to see to it (`Coming`). At rest there are no such
joins, and the way can be walked step by step. The geometry of the tree -
what lies between what, that steps towards a server bring it nearer - is derived
from `Toward` alone; the induction along a way is by a least closed set (`TreeInduction`),
and `MembersConnected` itself is stated with closed sets of servers (`Reaches`)
rather than with a recursive closure, so that it can be reasoned about. TLC checked
`Linked` on lines of three and four servers and a star of four before it was proved.

### Restarts

`RestartNet_proofs`, for any topology, any set of servers that are killed at any
point, also in the middle of a sweep, and start again with empty tables:
`RestartTypeCorrect` (`TypeOK`), `RestartIdListCorrect` (`IdListSound`) and
`RestartCountsCorrect` (`CountsAgree`, for `Uninit = {0}`), all of `RestartSpec`.

`RestartUsersKnownCorrect` and `RestartSubscribedCorrect` say `UsersKnown` and
`OnlyServersSubscribed` of it, with `NamesDiffer`, `NeighboursMutual` and the
assumption that no user has a restarted server as his own (as in run `recover`).
A server that ended on a NULL pointer may be restarted before any fault, so these are
not the theorems of `RelayNet`; with users of its own it would have forgotten them,
and would take the next join of one for that of a server. The invariant
adds that a server that is down is in no sweep (`DownIdle`): else it would come
back with joins to send for channels it has no more.

### Single server

`SoloServer_proofs`, for any clients, channels and bounds: `SoloTypeCorrect`
(`TypeOK`), `ListCorrect` (`ListComplete`: the list counter is never below the
number of channels), `WhoCorrect` (`WhoFilled`, for memory that starts at zero: a
channel's counter is never above its list) and `SoloUsersKnown` (`UsersKnown`, for
distinct names). They share the invariant `SoloInv`, the last with the order
lemmas of `DuckChat_proofs`.

### Timer and line editor

`RefreshTimer_proofs`, for any period above a second, any resolution of the clock
and turns of any length: `OncePerMinuteCorrect` and `NoMinuteMissedCorrect`. The
invariant `TimerInv` says that the last sweep lies on the minute and in the past,
and that the flag is down as long as the clock shows a minute; `MinuteInv` that
the flag is up whenever it does not, and that every minute so far was swept
unless a turn was too long. The arithmetic (`Division`, `Product`, `ClockSteps`,
`MinutesApart`) is proved from the definitions of `%` and `\div`.

`IdleMissesNoTwoCorrect` needs a period above two seconds (TLC finds a
counterexample at two, where the clock may jump from one due second to the next
with the flag down). A jump leaves the clock less than `Handling` ticks into its
second. The invariant `IdleInv` says that `k` seconds after a missed
minute it stands less than `k * Handling` ticks in its second, which leaves no
room for another jump before `Period` seconds have passed; and that a minute the
clock does show was swept.

`LineEditor_proofs`, for any buffer size, text limit, characters and earlier
contents of the buffer, proves every property of the editor:
`InputIntactCorrect`, `SaidAsTypedCorrect`, `RedisplayCorrect` (the action
property `RedisplayShowsInput`), `EditorTypeCorrect` (`TypeOK`),
`ArgumentsTracedCorrect` and `TerminalRestoredCorrect`. The invariant `EditInv`
is `InputIntact` with its types; the lemma `ReadBack` says that a buffer that
holds a line and a NUL behind it is read as that line, `ReadsAtLeast` that without
the NUL it is read as that line and possibly more. `ParseInv` adds what the
parser keeps: `parsed_s[1]` is the last argument the user gave. It rests on
`ArgumentIsGiven` and `GivenIsArgument`: what `strtok` finds by walking along the
line is the one word that `IsArgument` describes without an algorithm, and it
finds none exactly when there is none.

### Only model-checked

- `AudienceHears`, `StormsEnd` and `RefreshHeals` are liveness, beyond TLAPS.
- `MembersConnected` of a network with kills is part of `RefreshHeals` only.

## 5. What is left

The answers a client prints (its buffer holds one `text_say`, so longer answers
to `/who` and `/list` are cut off); text fields of exactly their size, which
leave no byte for the NUL; a restarted server with users of its own.

## 6. Not modelled

`S2S_JOIN` and keep-alive (sent by nobody), the unimplemented two-minute expiry,
start-up failures of sockets and host names, failing `sendto` of servers and
failing `malloc` (other than in `/who`), servers on several hosts (users are
stored under the server's own address), the answers printed by clients, words of
`CHANNEL_MAX` characters or more, the termios flags, and the text a `project1`
server forwards (it changes no state there).
