----------------------------- MODULE LineEditor -----------------------------
(***************************************************************************)
(* What happens between the keyboard and the socket of a client:           *)
(* prompt_user, string_parser and the dispatch in main() of client.c (the  *)
(* same program in project1 and project2), and the terminal mode of raw.c. *)
(*                                                                         *)
(* A command word, which is what begins with '/', counts as one character  *)
(* and is typed at the start of a line.  Words are shorter than the        *)
(* CHANNEL_MAX bytes string_parser copies them to.                         *)
(***************************************************************************)
EXTENDS Integers, SequencesExt

CONSTANTS
  Slashed,          \* words that begin with '/'
  Letter,           \* the other characters
  USER_INPUT_MAX,   \* cells of user_input (256 in the code)
  SAY_MAX,          \* longest text say_command accepts (64 in the code)
  Leftover,         \* what memory fresh from malloc() may hold
  SendFails         \* may sendto() fail?

Space == " "
NUL == "NUL"
Char == Slashed \cup Letter \cup {Space}
Cell == Char \cup {NUL}

ASSUME EditorAssumption ==
  /\ NUL \notin Char
  /\ Slashed \cap (Letter \cup {Space}) = {}
  /\ Space \notin Letter
  /\ USER_INPUT_MAX \in Nat /\ USER_INPUT_MAX > 2
  /\ SAY_MAX \in Nat
  /\ Leftover \subseteq Cell
  /\ SendFails \in BOOLEAN

VARIABLES
  phase,         \* "starting", "prompt" or "ended"
  tty,           \* mode of the terminal
  user_input,    \* the buffer of the line
  count,         \* characters of the line so far
  argument,      \* parsed_s[1]
  active         \* active_channel

(***************************************************************************)
(* History: the line as the user typed it, the line as the terminal shows  *)
(* it, the last argument he gave, and what the last key made the client do.*)
(***************************************************************************)
VARIABLES typed, screen, given, done

vars == <<phase, tty, user_input, count, argument, active, typed, screen, given, done>>

Index == 0 .. USER_INPUT_MAX - 1
Junk == <<"junk">>      \* what parsed_s[1] holds before anything is stored there
NoChannel == <<"None">>
Common == <<"Common">>
Name == Seq(Char) \cup {Junk, NoChannel, Common}

Kind == {"nothing", "say", "exit", "join", "leave", "list", "who", "switch"}
Deed == [kind : Kind, line : Seq(Char), with : Name]
Nothing == [kind |-> "nothing", line |-> <<>>, with |-> <<>>]

Init ==
  /\ phase = "starting"
  /\ tty = "cooked"
  /\ user_input \in [Index -> Leftover]
  /\ count = 0
  /\ argument = Junk
  /\ active = NoChannel
  /\ typed = <<>>
  /\ screen = <<>>
  /\ given = Junk
  /\ done = Nothing

----------------------------------------------------------------------------
\* strlen() and the string in a buffer; without a NUL it is the whole buffer.
StrLen(buf) ==
  CHOOSE n \in 0 .. USER_INPUT_MAX :
    /\ n = USER_INPUT_MAX \/ buf[n] = NUL
    /\ \A k \in 0 .. n-1 : buf[k] # NUL

CString(buf) == [k \in 1 .. StrLen(buf) |-> buf[k-1]]

\* strtok(): a word of str that begins at position j ends before the next space.
WordEnd(str, j) == Min({k \in j .. Len(str) : str[k] = Space} \cup {Len(str) + 1})

\* string_parser: a command begins with '/'; its word, and where its argument
\* could begin.
IsCommand(str) == str # <<>> /\ Head(str) \in Slashed
Verb(str) == SubSeq(str, 1, WordEnd(str, 1) - 1)
Rest(str) == {k \in WordEnd(str, 1) .. Len(str) : str[k] # Space}

\* Mutant of Argument: the argument is all that follows.
ArgumentToEnd(str) == SubSeq(str, Min(Rest(str)), Len(str))

Argument(str) == SubSeq(str, Min(Rest(str)), WordEnd(str, Min(Rest(str))) - 1)

\* strtok() puts a NUL behind each of the two words.
Cuts(str) ==
  {WordEnd(str, 1)} \cup (IF Rest(str) = {} THEN {} ELSE {WordEnd(str, Min(Rest(str)))})
CutWords(buf, str) == [k \in Index |-> IF k + 1 \in Cuts(str) THEN NUL ELSE buf[k]]

\* Start of prompt_user: a new line, of which only the first cell is emptied.
Prompt(buf) ==
  /\ user_input' = [buf EXCEPT ![0] = NUL]
  /\ count' = 0
  /\ typed' = <<>>
  /\ screen' = <<>>

\* main() up to the first prompt.  When the host is not known or a request
\* cannot be sent the program ends as it is.
Start ==
  /\ phase = "starting"
  /\ tty' = "raw"
  /\ \/ phase' = "prompt" /\ active' = Common
     \/ SendFails /\ phase' = "ended" /\ UNCHANGED active
  /\ Prompt(user_input)
  /\ UNCHANGED <<argument, given, done>>

----------------------------------------------------------------------------
\* A line is answered without a request; with one, which may fail and end the
\* program, the terminal then being in the given mode.
Stay == UNCHANGED <<phase, tty>>

\* Mutant of Request: the terminal is left as it is.
RequestOnly(mode) ==
  \/ Stay
  \/ SendFails /\ phase' = "ended" /\ UNCHANGED tty

Request(mode) ==
  \/ Stay
  \/ SendFails /\ phase' = "ended" /\ tty' = mode

Did(kind, line, x) == done' = [kind |-> kind, line |-> line, with |-> x]

\* The line, which user_input holds as str, is plain text.
Say(str, line) ==
  \/ active = NoChannel /\ Stay /\ done' = Nothing
  \/ active # NoChannel /\ Len(str) > SAY_MAX /\ Stay /\ done' = Nothing
  \/ active # NoChannel /\ Len(str) <= SAY_MAX /\ Request("raw") /\ Did("say", line, str)

\* The line is a command, and parsed_s[1] by now holds arg.  Only /join and
\* /leave ask whether it was this line that gave it.
Command(str, line, arg) ==
  LET verb == Verb(str)
      alone == Rest(str) = {}
  IN
  \/ /\ verb = <<"/exit">>
     /\ phase' = "ended" /\ tty' = "cooked"
     /\ Did("exit", line, arg) /\ UNCHANGED active
  \/ /\ verb = <<"/join">> /\ ~alone
     /\ active' = arg /\ Request("raw") /\ Did("join", line, arg)
  \/ /\ verb = <<"/leave">> /\ ~alone
     /\ active' = IF active = arg THEN NoChannel ELSE active
     /\ Request("raw") /\ Did("leave", line, arg)
  \/ /\ verb = <<"/list">>
     /\ Request("cooked") /\ Did("list", line, arg) /\ UNCHANGED active
  \/ /\ verb = <<"/who">>
     /\ Request("cooked") /\ Did("who", line, arg) /\ UNCHANGED active
  \/ /\ verb = <<"/switch">>
     /\ active' = arg /\ Stay /\ Did("switch", line, arg)
  \/ /\ \/ verb \in {<<"/join">>, <<"/leave">>} /\ alone
        \/ verb \notin {<<w>> : w \in {"/exit", "/join", "/leave", "/list", "/who", "/switch"}}
     /\ Stay /\ done' = Nothing /\ UNCHANGED active

\* A word of a line typed by the user that is the argument of its command.
IsArgument(w, line) ==
  \E e, p \in DOMAIN line :
    /\ e < p
    /\ \A k \in 1 .. p-1 : (line[k] = Space) <=> (k >= e)
    /\ w # <<>> /\ Space \notin ToSet(w)
    /\ IsPrefix(w, SubSeq(line, p, Len(line)))
    /\ p + Len(w) \in DOMAIN line => line[p + Len(w)] = Space
GivenBy(line) == {w \in {SubSeq(line, p, q) : p, q \in DOMAIN line} : IsArgument(w, line)}

\* prompt_user returns buf, in which the user typed line; main() takes it apart,
\* acts, and prompts again.
EndLine(buf, line) ==
  LET str == CString(buf) IN
  \/ /\ ~IsCommand(str)
     /\ Say(str, line)
     /\ Prompt(buf)
     /\ UNCHANGED <<argument, active, given>>
  \/ /\ IsCommand(str)
     /\ argument' = IF Rest(str) = {} THEN argument ELSE Argument(str)
     /\ given' = IF GivenBy(line) = {} THEN given ELSE CHOOSE w \in GivenBy(line) : TRUE
     /\ Command(str, line, argument')
     /\ Prompt(CutWords(buf, str))

\* Mutants: the string is not ended; one more character is taken.
Unterminated(buf, n) == buf
FullLate(n) == n = USER_INPUT_MAX

\* The string in buf ends after n characters; the line is full with n of them.
Terminated(buf, n) == [buf EXCEPT ![n] = NUL]
Full(n) == n = USER_INPUT_MAX - 1

TypeNewline ==
  /\ phase = "prompt"
  /\ EndLine(Terminated(user_input, count), typed)

\* A character is echoed and stored.  The last but one cell ends the line as if
\* it had been finished.
TypeChar ==
  \E ch \in Char :
    LET buf == [user_input EXCEPT ![count] = ch] IN
    /\ phase = "prompt"
    /\ ch \in Slashed => count = 0
    /\ \/ /\ Full(count + 1)
          /\ EndLine(Terminated(buf, count + 1), Append(typed, ch))
       \/ /\ ~Full(count + 1)
          /\ user_input' = buf
          /\ count' = count + 1
          /\ typed' = Append(typed, ch)
          /\ screen' = Append(screen, ch)
          /\ done' = Nothing
          /\ UNCHANGED <<phase, tty, argument, active, given>>

\* Mutant of TypeBackspace: the start of the line is not noticed.
TypeBackspaceAnywhere ==
  /\ phase = "prompt"
  /\ user_input' = [user_input EXCEPT ![count - 1] = NUL]
  /\ count' = count - 1
  /\ typed' = Front(typed)
  /\ screen' = Front(screen)
  /\ done' = Nothing
  /\ UNCHANGED <<phase, tty, argument, active, given>>

TypeBackspace ==
  /\ phase = "prompt"
  /\ count # 0
  /\ user_input' = [user_input EXCEPT ![count - 1] = NUL]
  /\ count' = count - 1
  /\ typed' = Front(typed)
  /\ screen' = Front(screen)
  /\ done' = Nothing
  /\ UNCHANGED <<phase, tty, argument, active, given>>

\* Mutant of RecvText: only the prompt is shown again.
RecvTextPromptOnly ==
  /\ phase = "prompt"
  /\ screen' = <<>>
  /\ done' = Nothing
  /\ UNCHANGED <<phase, tty, user_input, count, argument, active, typed, given>>

\* A message from the server is printed over the line, and the prompt and
\* user_input again below it.
RecvText ==
  /\ phase = "prompt"
  /\ screen' = CString(user_input)
  /\ done' = Nothing
  /\ UNCHANGED <<phase, tty, user_input, count, argument, active, typed, given>>

Next == Start \/ TypeNewline \/ TypeChar \/ TypeBackspace \/ RecvText

Spec == Init /\ [][Next]_vars

----------------------------------------------------------------------------
\* Type invariant: the buffer, the parsed words and the histories hold what
\* their declarations say.
TypeOK ==
  /\ phase \in {"starting", "prompt", "ended"}
  /\ tty \in {"raw", "cooked"}
  /\ user_input \in [Index -> Cell]
  /\ count \in Index
  /\ {argument, given, active} \subseteq Name
  /\ typed \in Seq(Char)
  /\ screen \in Seq(Cell)
  /\ done \in Deed

\* prompt_user never writes behind user_input, and whatever was typed, erased
\* and typed again, the first count cells hold the line as the user means it.
InputIntact ==
  /\ count = Len(typed)
  /\ count < USER_INPUT_MAX - 1
  /\ \A k \in DOMAIN typed : user_input[k-1] = typed[k]

\* say_command sends the line, all of it and nothing of earlier lines that the
\* buffer still holds, and never more than fits the text of a request_say.
SaidAsTyped ==
  done.kind = "say" => done.with = done.line /\ Len(done.line) <= SAY_MAX

\* string_parser hands over the argument of a line; a line without one uses the
\* last one given ("/who" and "/switch" do not ask), but for /join and /leave,
\* which only ever act on an argument of their own line.
ArgumentsTraced ==
  /\ done.kind \in {"who", "switch"} => done.with = given
  /\ done.kind \in {"join", "leave"} => done.with \in GivenBy(done.line)

\* When a message interrupts a line, what is shown again starts with what the
\* user had typed.
RedisplayShowsInput ==
  [][UNCHANGED typed /\ screen' # screen => IsPrefix(typed, screen')]_vars

\* "Can the client redisplay the prompt and user input when a message from the
\* server is received while the user is typing": the line shown is the line typed.
RedisplayFaithful ==
  phase = "prompt" => screen = typed

\* raw.h asks for cooked_mode() "just before your program exits": the client
\* leaves the terminal raw only when a request fails that main() does not send
\* itself (login, join, leave, say).
TerminalRestored ==
  phase = "ended" /\ tty = "raw" => done.kind \in {"nothing", "join", "leave", "say"}
=============================================================================
