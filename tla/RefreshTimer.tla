---------------------------- MODULE RefreshTimer ----------------------------
(***************************************************************************)
(* The minute timer in the main loop of project2/server.c.  The loop waits *)
(* in select() for a datagram, at most a second, handles it, and then      *)
(* compares the seconds of the clock with those of its start: the joins    *)
(* are resent when they agree.  time() is read in whole seconds; the model *)
(* counts in ticks, some of which make a second.                           *)
(***************************************************************************)
EXTENDS Integers, Sequences

CONSTANTS
  Period,        \* seconds between two sweeps: 60 in the code
  Second,        \* ticks in a second
  Handling,      \* bound: ticks a turn spends outside select()
  Horizon        \* bound: ticks after which the model stops

ASSUME TimerAssumption ==
  /\ Period \in Nat /\ Period > 1
  /\ Second \in Nat \ {0}
  /\ Handling \in Nat
  /\ Horizon \in Nat

VARIABLES
  now,                   \* ticks since the second in which the server started
  one_min_timeout_flag,  \* may the joins be resent?
  sweeps,                \* history: the seconds in which joins were resent
  overslept,             \* history: was there a turn longer than a second?
  early                  \* history: did a datagram end select() before its timeout?

vars == <<now, one_min_timeout_flag, sweeps, overslept, early>>

\* time() of tick t, counted from server_start_time.
Clock(t) == t \div Second

\* server_start_time is read in the first second, at any tick.
Init ==
  /\ now \in 0 .. Second - 1
  /\ one_min_timeout_flag = TRUE
  /\ sweeps = <<>>
  /\ overslept = FALSE
  /\ early = FALSE

\* current_time % 60 == server_start_time % 60
OnTheMinute(t) == t % Period = 0

\* Mutant of Due: the flag is not asked.
DueWithoutFlag(t) == OnTheMinute(t) /\ t # 0

Due(t) == OnTheMinute(t) /\ one_min_timeout_flag /\ t # 0

\* Mutant of FlagAfter: the flag is not set again.
FlagDown(t) == one_min_timeout_flag /\ ~Due(t)

FlagAfter(t) == (one_min_timeout_flag /\ ~Due(t)) \/ ~OnTheMinute(t)

\* One turn of the loop: select() returns after w ticks, the datagram, if one
\* has come, is handled in h ticks, and the clock is read.
Turn(w, h) ==
  LET t == Clock(now + w + h) IN
  /\ now' = now + w + h
  /\ sweeps' = IF Due(t) THEN Append(sweeps, t) ELSE sweeps
  /\ one_min_timeout_flag' = FlagAfter(t)
  /\ overslept' = (overslept \/ w + h > Second)
  /\ early' = (early \/ w < Second)

Next ==
  /\ now <= Horizon
  /\ \E w \in 0 .. Second, h \in 0 .. Handling : Turn(w, h)

Spec == Init /\ [][Next]_vars

----------------------------------------------------------------------------
\* Type invariant of the timer.
TypeOK ==
  /\ now \in Nat
  /\ one_min_timeout_flag \in BOOLEAN
  /\ sweeps \in Seq(Nat)
  /\ overslept \in BOOLEAN
  /\ early \in BOOLEAN

\* "flag is needed bc it only allows one join to be sent per 60 seconds": any
\* two sweeps, and the start and the first sweep, are a minute apart or more,
\* however often the loop turns within a second.
OncePerMinute ==
  \A k \in DOMAIN sweeps : sweeps[k] - (IF k = 1 THEN 0 ELSE sweeps[k-1]) >= Period

Swept(t) == \E j \in DOMAIN sweeps : sweeps[j] = t

\* "after one minute passes, for each channel, for each server, send join
\* channel": no minute is left out, unless a turn took longer than a second and
\* the clock may have jumped over it.
NoMinuteMissed ==
  ~overslept => \A t \in 1 .. Clock(now) - 1 : t % Period = 0 => Swept(t)

\* While no datagram arrives every turn lasts a second and what the turn itself
\* takes, so that the clock does jump over a second now and then; if 60 turns
\* lose less than a second, never over the same second of two minutes in a row.
IdleMissesNoTwo ==
  ~early /\ Handling * Period < Second =>
    \A t \in 1 .. Clock(now) - 1 - Period : t % Period = 0 => Swept(t) \/ Swept(t + Period)
=============================================================================
