------------------------ MODULE RefreshTimer_proofs ------------------------
(***************************************************************************)
(* Proofs about RefreshTimer, for any period, any ticks and any horizon.   *)
(***************************************************************************)
EXTENDS RefreshTimer, TLAPS

\* Quotient and remainder, as the arithmetic below needs them.
LEMMA Division ==
  ASSUME NEW a \in Nat, NEW n \in Nat, n > 0
  PROVE  a \div n \in Nat /\ a % n \in 0 .. n-1 /\ a = n * (a \div n) + (a % n)
  BY SMTT(30)

\* A product grows with its second factor, by at least the first.
LEMMA Product ==
  ASSUME NEW n \in Nat, NEW q \in Nat, NEW r \in Nat, q < r
  PROVE  n * q + n <= n * r
<1>1. PICK k \in Nat : r = q + 1 + k
  <2>1. r - q - 1 \in Nat /\ r = q + 1 + (r - q - 1)
    OBVIOUS
  <2> QED BY <2>1
<1>2. n * r = n * q + n + n * k
  BY <1>1, SMT
<1>3. n * k \in Nat /\ n * q \in Nat
  BY <1>1, SMT
<1> QED BY <1>2, <1>3, SMT

\* The clock never runs backwards.
LEMMA ClockForward ==
  ASSUME NEW t \in Nat, NEW u \in Nat, t <= u
  PROVE  Clock(t) \in Nat /\ Clock(u) \in Nat /\ Clock(t) <= Clock(u)
<1> DEFINE q == t \div Second
           r == u \div Second
<1>1. /\ q \in Nat /\ t % Second \in 0 .. Second-1 /\ t = Second * q + (t % Second)
      /\ r \in Nat /\ u % Second \in 0 .. Second-1 /\ u = Second * r + (u % Second)
  BY Division, TimerAssumption
<1>2. ~(r < q)
  <2> SUFFICES ASSUME r < q PROVE FALSE
    OBVIOUS
  <2>1. Second * r + Second <= Second * q
    BY Product, <1>1, TimerAssumption
  <2>2. Second * r \in Nat /\ Second * q \in Nat
    BY <1>1, TimerAssumption, SMT
  <2> HIDE DEF q, r
  <2> QED BY <1>1, <2>1, <2>2, TimerAssumption, SMT
<1> QED BY <1>1, <1>2 DEF Clock

\* Two different seconds on the minute are a minute apart.
LEMMA MinutesApart ==
  ASSUME NEW a \in Nat, NEW b \in Nat, a < b, OnTheMinute(a), OnTheMinute(b)
  PROVE  b - a >= Period
<1> DEFINE q == a \div Period
           r == b \div Period
<1>1. q \in Nat /\ a = Period * q /\ r \in Nat /\ b = Period * r
  <2>1. /\ q \in Nat /\ a = Period * q + (a % Period)
        /\ r \in Nat /\ b = Period * r + (b % Period)
    BY Division, TimerAssumption
  <2>2. Period * q \in Nat /\ Period * r \in Nat
    BY <2>1, TimerAssumption, SMT
  <2> HIDE DEF q, r
  <2> QED BY <2>1, <2>2 DEF OnTheMinute
<1>2. q < r
  <2> SUFFICES ASSUME r <= q PROVE FALSE
    BY <1>1
  <2>1. CASE r = q
    BY <2>1, <1>1
  <2>2. CASE r < q
    <3>1. Period * r + Period <= Period * q
      BY <2>2, <1>1, Product, TimerAssumption
    <3> HIDE DEF q, r
    <3> QED BY <3>1, <1>1, TimerAssumption
  <2> QED BY <1>1, <2>1, <2>2
<1>3. Period * q + Period <= Period * r
  BY <1>1, <1>2, Product, TimerAssumption
<1> HIDE DEF q, r
<1> QED BY <1>1, <1>3, TimerAssumption

----------------------------------------------------------------------------
\* The second of the last sweep, or of the start.
Last == IF sweeps = <<>> THEN 0 ELSE sweeps[Len(sweeps)]

(***************************************************************************)
(* The inductive invariant: sweeps lie on the minute and in the past, and  *)
(* while the flag is up the clock does not show the minute of the last one.*)
(***************************************************************************)
TimerInv ==
  /\ TypeOK
  /\ OncePerMinute
  /\ OnTheMinute(Last) /\ Last <= Clock(now)
  /\ one_min_timeout_flag => Clock(now) = 0 \/ ~OnTheMinute(Clock(now))

LEMMA TurnKeepsInv ==
  ASSUME TimerInv, NEW w \in 0 .. Second, NEW h \in 0 .. Handling, Turn(w, h)
  PROVE  TimerInv'
<1> DEFINE t == Clock(now + w + h)
<1>1. now \in Nat /\ now' = now + w + h /\ now' \in Nat /\ now <= now'
  BY TimerAssumption DEF TimerInv, TypeOK, Turn
<1>2. t \in Nat /\ Clock(now) \in Nat /\ Clock(now) <= t /\ Clock(now') = t
  BY <1>1, ClockForward
<1>3. sweeps \in Seq(Nat) /\ one_min_timeout_flag \in BOOLEAN
  BY DEF TimerInv, TypeOK
<1>4. Last \in Nat
  BY <1>3 DEF Last
<1>5. /\ sweeps' = IF Due(t) THEN Append(sweeps, t) ELSE sweeps
      /\ one_min_timeout_flag' = FlagAfter(t)
  BY DEF Turn
<1> HIDE DEF t
<1>6. TypeOK'
  <2>1. overslept' \in BOOLEAN /\ early' \in BOOLEAN
    BY DEF Turn, TimerInv, TypeOK
  <2>2. one_min_timeout_flag' \in BOOLEAN
    BY <1>5 DEF FlagAfter
  <2>3. sweeps' \in Seq(Nat)
    BY <1>2, <1>3, <1>5
  <2> QED BY <1>1, <2>1, <2>2, <2>3 DEF TypeOK
<1>7. CASE Due(t)
  <2>1. one_min_timeout_flag /\ OnTheMinute(t) /\ t # 0
    BY <1>7 DEF Due
  <2>2. Last < t
    <3>1. Last <= Clock(now) /\ OnTheMinute(Last)
      BY DEF TimerInv
    <3>2. Last # t
      <4> SUFFICES ASSUME Last = t PROVE FALSE
        OBVIOUS
      <4>1. Clock(now) = t
        BY <3>1, <1>2, <1>4
      <4> QED BY <4>1, <2>1 DEF TimerInv
    <3> QED BY <3>1, <3>2, <1>2, <1>4
  <2>3. t - Last >= Period
    BY <2>1, <2>2, <1>2, <1>4, MinutesApart DEF TimerInv
  <2>4. sweeps' = Append(sweeps, t) /\ Last' = t
    BY <1>2, <1>3, <1>5, <1>7 DEF Last
  <2>5. OncePerMinute'
    <3> SUFFICES ASSUME NEW k \in DOMAIN sweeps'
                 PROVE  sweeps'[k] - (IF k = 1 THEN 0 ELSE sweeps'[k-1]) >= Period
      BY DEF OncePerMinute
    <3>1. k \in 1 .. Len(sweeps) + 1
      BY <2>4, <1>2, <1>3
    <3>2. CASE k = Len(sweeps) + 1
      <4>1. sweeps'[k] = t /\ (k # 1 => sweeps'[k-1] = sweeps[Len(sweeps)])
        BY <3>2, <2>4, <1>2, <1>3
      <4>2. Last = IF k = 1 THEN 0 ELSE sweeps[Len(sweeps)]
        BY <3>2, <1>3 DEF Last
      <4> QED BY <4>1, <4>2, <2>3
    <3>3. CASE k # Len(sweeps) + 1
      <4>1. k \in DOMAIN sweeps /\ sweeps'[k] = sweeps[k]
        BY <3>1, <3>3, <2>4, <1>2, <1>3
      <4>2. k # 1 => sweeps'[k-1] = sweeps[k-1]
        BY <3>1, <3>3, <2>4, <1>2, <1>3
      <4> QED BY <4>1, <4>2 DEF TimerInv, OncePerMinute
    <3> QED BY <3>2, <3>3
  <2>6. ~one_min_timeout_flag'
    BY <1>5, <1>7, <2>1 DEF FlagAfter
  <2> QED BY <1>2, <1>6, <2>1, <2>4, <2>5, <2>6 DEF TimerInv
<1>8. CASE ~Due(t)
  <2>1. sweeps' = sweeps /\ Last' = Last
    BY <1>5, <1>8 DEF Last
  <2>2. OncePerMinute'
    BY <2>1 DEF OncePerMinute, TimerInv
  <2>3. OnTheMinute(Last)' /\ Last' <= Clock(now')
    BY <2>1, <1>2, <1>4 DEF TimerInv, OnTheMinute
  <2>4. one_min_timeout_flag' => t = 0 \/ ~OnTheMinute(t)
    BY <1>5, <1>8 DEF FlagAfter, Due
  <2> QED BY <1>2, <1>6, <2>2, <2>3, <2>4 DEF TimerInv, OnTheMinute, Clock
<1> QED BY <1>7, <1>8

\* The clock starts at zero, whatever tick of its second it is.
LEMMA StartsAtZero ==
  ASSUME Init PROVE Clock(now) = 0 /\ TypeOK
<1>1. now \in Nat /\ now \in 0 .. Second-1
  BY TimerAssumption DEF Init
<1>2. TypeOK
  <2>1. sweeps \in Seq(Nat)
    BY DEF Init
  <2> QED BY <1>1, <2>1 DEF Init, TypeOK
<1>3. Clock(now) = 0
  <2> DEFINE q == now \div Second
  <2>1. q \in Nat /\ now % Second \in Nat /\ now = Second * q + (now % Second)
    BY <1>1, Division, TimerAssumption
  <2>2. ~(0 < q)
    <3> SUFFICES ASSUME 0 < q PROVE FALSE
      OBVIOUS
    <3>1. Second * 0 + Second <= Second * q
      BY <2>1, Product, TimerAssumption
    <3>2. Second * 0 = 0
      BY TimerAssumption
    <3> HIDE DEF q
    <3> QED BY <3>1, <3>2, <1>1, <2>1, TimerAssumption
  <2> QED BY <2>1, <2>2 DEF Clock
<1> QED BY <1>2, <1>3

LEMMA TimerStarts ==
  ASSUME Init PROVE TimerInv
<1>1. Clock(now) = 0 /\ TypeOK
  BY StartsAtZero
<1>2. OnTheMinute(0)
  <2>1. 0 % Period = 0
    BY TimerAssumption, SMT
  <2> QED BY <2>1 DEF OnTheMinute
<1> QED BY <1>1, <1>2 DEF Init, TimerInv, Last, OncePerMinute

LEMMA StepKeepsInv ==
  ASSUME TimerInv, [Next]_vars PROVE TimerInv'
<1>1. CASE Next
  BY <1>1, TurnKeepsInv DEF Next
<1>2. CASE UNCHANGED vars
  BY <1>2 DEF vars, TimerInv, TypeOK, OncePerMinute, Last, OnTheMinute, Clock
<1> QED BY <1>1, <1>2

\* "it only allows one join to be sent per 60 seconds": two sweeps are never
\* less than a minute apart, however long the turns of the loop last.
THEOREM OncePerMinuteCorrect == Spec => []OncePerMinute
<1>1. Init => TimerInv
  BY TimerStarts
<1>2. TimerInv /\ [Next]_vars => TimerInv'
  BY StepKeepsInv
<1>3. TimerInv => OncePerMinute
  BY DEF TimerInv
<1> QED BY <1>1, <1>2, <1>3, PTL DEF Spec

----------------------------------------------------------------------------
\* A turn of at most a second moves the clock on by at most one.
LEMMA ClockSteps ==
  ASSUME NEW t \in Nat, NEW d \in Nat, d <= Second
  PROVE  Clock(t + d) <= Clock(t) + 1
<1> DEFINE q == t \div Second
           r == (t + d) \div Second
<1>1. /\ q \in Nat /\ t % Second \in 0 .. Second-1 /\ t = Second * q + (t % Second)
      /\ r \in Nat /\ (t + d) % Second \in 0 .. Second-1 /\ t + d = Second * r + ((t + d) % Second)
  BY Division, TimerAssumption
<1>2. ~(q + 1 < r)
  <2> SUFFICES ASSUME q + 1 < r PROVE FALSE
    OBVIOUS
  <2>1. Second * (q + 1) + Second <= Second * r
    BY Product, <1>1, TimerAssumption
  <2>2. Second * q + Second <= Second * (q + 1)
    BY Product, <1>1, TimerAssumption
  <2>3. Second * q \in Nat /\ Second * (q + 1) \in Nat /\ Second * r \in Nat
    BY <1>1, TimerAssumption, SMT
  <2> HIDE DEF q, r
  <2> QED BY <1>1, <2>1, <2>2, <2>3, TimerAssumption, SMT
<1> HIDE DEF q, r
<1>3. r <= q + 1
  BY <1>1, <1>2
<1> QED BY <1>3 DEF Clock, q, r

(***************************************************************************)
(* The inductive invariant: as long as no turn took longer than a second,  *)
(* every minute up to the last reading of the clock was swept, and a clock *)
(* off the minute has put the flag up.                                     *)
(***************************************************************************)
SweptSoFar == \A t \in 1 .. Clock(now) : OnTheMinute(t) => Swept(t)

MinuteInv ==
  /\ TypeOK
  /\ Clock(now) = 0 \/ ~OnTheMinute(Clock(now)) => one_min_timeout_flag
  /\ ~overslept => SweptSoFar

\* A clock off the minute has put the flag up.
LEMMA TurnKeepsFlag ==
  ASSUME TimerInv, NEW w \in 0 .. Second, NEW h \in 0 .. Handling, Turn(w, h),
         Clock(now) = 0 \/ ~OnTheMinute(Clock(now)) => one_min_timeout_flag
  PROVE  (Clock(now) = 0 \/ ~OnTheMinute(Clock(now)) => one_min_timeout_flag)'
<1>0. PICK t : t = Clock(now + w + h)
  OBVIOUS
<1>1. /\ now \in Nat /\ now' = now + w + h /\ now' \in Nat /\ now <= now'
  BY TimerAssumption DEF TimerInv, TypeOK, Turn
<1>2. t \in Nat /\ Clock(now) \in Nat /\ Clock(now) <= t /\ Clock(now') = t
  BY <1>0, <1>1, ClockForward
<1>3. one_min_timeout_flag' = FlagAfter(t)
  BY <1>0 DEF Turn
<1>4. CASE ~OnTheMinute(t)
  BY <1>2, <1>3, <1>4 DEF FlagAfter
<1>5. CASE t = 0
  <2>1. Clock(now) = 0 /\ ~Due(t)
    BY <1>2, <1>5 DEF Due
  <2> QED BY <1>3, <2>1 DEF FlagAfter
<1>6. CASE OnTheMinute(t) /\ t # 0
  BY <1>2, <1>6 DEF OnTheMinute, Clock
<1> QED BY <1>4, <1>5, <1>6

LEMMA TurnKeepsMinutes ==
  ASSUME TimerInv, TypeOK', MinuteInv, NEW w \in 0 .. Second, NEW h \in 0 .. Handling, Turn(w, h)
  PROVE  MinuteInv'
<1>0. PICK t : t = Clock(now + w + h)
  OBVIOUS
<1>1. /\ now \in Nat /\ now' = now + w + h /\ now' \in Nat /\ now <= now' /\ w + h \in Nat
      /\ now' = now + (w + h)
  BY TimerAssumption DEF TimerInv, TypeOK, Turn
<1>2. t \in Nat /\ Clock(now) \in Nat /\ Clock(now) <= t /\ Clock(now') = t
  BY <1>0, <1>1, ClockForward
<1>3. sweeps \in Seq(Nat) /\ one_min_timeout_flag \in BOOLEAN /\ overslept \in BOOLEAN
  BY DEF TimerInv, TypeOK
<1>4. /\ sweeps' = IF Due(t) THEN Append(sweeps, t) ELSE sweeps
      /\ one_min_timeout_flag' = FlagAfter(t)
      /\ overslept' = (overslept \/ w + h > Second)
  BY <1>0 DEF Turn
<1>5. overslept' \/ t <= Clock(now) + 1
  <2>1. CASE w + h <= Second
    <3>1. Clock(now + (w + h)) <= Clock(now) + 1
      BY <2>1, <1>1, ClockSteps
    <3> QED BY <3>1, <1>1, <1>2
  <2>2. CASE w + h > Second
    BY <2>2, <1>4
  <2> QED BY <2>1, <2>2, <1>1, TimerAssumption
<1>6. t = 0 \/ ~OnTheMinute(t) => one_min_timeout_flag'
  BY <1>2, TurnKeepsFlag DEF MinuteInv, OnTheMinute, Clock
<1>7. \A u : Swept(u) => Swept(u)'
  BY <1>2, <1>3, <1>4 DEF Swept
<1>8. Due(t) => Swept(t)'
  <2> SUFFICES ASSUME Due(t) PROVE Swept(t)'
    OBVIOUS
  <2>1. Len(sweeps) + 1 \in DOMAIN sweeps' /\ sweeps'[Len(sweeps) + 1] = t
    BY <1>2, <1>3, <1>4
  <2> QED BY <2>1 DEF Swept
<1>9. ~overslept' => SweptSoFar'
  <2> SUFFICES ASSUME ~overslept', NEW u \in 1 .. t, OnTheMinute(u) PROVE Swept(u)'
    BY <1>2 DEF SweptSoFar
  <2>1. SweptSoFar
    BY <1>3, <1>4 DEF MinuteInv
  <2>2. CASE u \in 1 .. Clock(now)
    BY <2>1, <2>2, <1>7 DEF SweptSoFar
  <2>3. CASE u \notin 1 .. Clock(now)
    <3>1. u = t /\ t = Clock(now) + 1
      BY <2>3, <1>2, <1>5
    <3>2. Clock(now) = 0 \/ ~OnTheMinute(Clock(now))
      <4> SUFFICES ASSUME OnTheMinute(Clock(now)) PROVE FALSE
        OBVIOUS
      <4>1. t - Clock(now) >= Period
        BY <1>2, <3>1, MinutesApart
      <4> QED BY <4>1, <3>1, <1>2, TimerAssumption
    <3>3. Due(t)
      BY <3>1, <3>2, <1>2 DEF MinuteInv, Due
    <3> QED BY <3>1, <3>3, <1>8
  <2> QED BY <2>2, <2>3
<1> QED BY <1>2, <1>6, <1>9 DEF MinuteInv, OnTheMinute, Clock

\* "after one minute passes, ... send join channel": without a turn longer than
\* a second no minute goes by without its sweep.
THEOREM NoMinuteMissedCorrect == Spec => []NoMinuteMissed
<1>1. Init => TimerInv /\ MinuteInv
  <2> SUFFICES ASSUME Init PROVE MinuteInv
    BY TimerStarts
  <2>1. Clock(now) = 0 /\ TypeOK
    BY StartsAtZero
  <2> QED BY <2>1 DEF Init, MinuteInv, SweptSoFar
<1>2. TimerInv /\ MinuteInv /\ [Next]_vars => (TimerInv /\ MinuteInv)'
  <2> SUFFICES ASSUME TimerInv, MinuteInv, [Next]_vars PROVE TimerInv' /\ MinuteInv'
    OBVIOUS
  <2>1. TimerInv'
    BY StepKeepsInv
  <2>2. CASE Next
    <3>1. TypeOK'
      BY <2>1 DEF TimerInv
    <3>2. PICK w \in 0 .. Second, h \in 0 .. Handling : Turn(w, h)
      BY <2>2 DEF Next
    <3>3. MinuteInv'
      BY <3>1, <3>2, TurnKeepsMinutes
    <3> QED BY <2>1, <3>3
  <2>3. CASE UNCHANGED vars
    <3>1. MinuteInv'
      BY <2>3 DEF vars, MinuteInv, TypeOK, SweptSoFar, Swept, OnTheMinute, Clock
    <3> QED BY <2>1, <3>1
  <2> QED BY <2>1, <2>2, <2>3
<1>3. TimerInv /\ MinuteInv => NoMinuteMissed
  <2> SUFFICES ASSUME TimerInv, MinuteInv, ~overslept, NEW t \in 1 .. Clock(now) - 1, OnTheMinute(t)
               PROVE  Swept(t)
    BY DEF NoMinuteMissed, OnTheMinute
  <2>1. Clock(now) \in Nat
    BY ClockForward DEF TimerInv, TypeOK
  <2>2. t \in 1 .. Clock(now)
    BY <2>1
  <2> QED BY <2>2 DEF MinuteInv, SweptSoFar
<1> QED BY <1>1, <1>2, <1>3, PTL DEF Spec

----------------------------------------------------------------------------
\* A number is divided in one way.
LEMMA DividesAs ==
  ASSUME NEW n \in Nat, n > 0, NEW q \in Nat, NEW r \in 0 .. n-1, NEW a \in Nat, a = n * q + r
  PROVE  a \div n = q /\ a % n = r
<1> DEFINE p == a \div n
           s == a % n
<1>1. p \in Nat /\ s \in 0 .. n-1 /\ a = n * p + s
  BY Division
<1>2. n * p \in Nat /\ n * q \in Nat
  BY <1>1, SMT
<1>3. p = q
  <2>1. p < q => n * p + n <= n * q
    BY <1>1, Product
  <2>2. q < p => n * q + n <= n * p
    BY <1>1, Product
  <2> HIDE DEF p, s
  <2> QED BY <1>1, <1>2, <2>1, <2>2
<1> HIDE DEF p, s
<1>4. s = r
  BY <1>1, <1>2, <1>3
<1> QED BY <1>3, <1>4 DEF p, s

(***************************************************************************)
(* The inductive invariant: before the first datagram every turn lasts a   *)
(* second and a little.  A minute the clock jumped over leaves it early in *)
(* its second, and it moves on in that second by Handling ticks a turn at  *)
(* most, too few for another jump before the next minute.                  *)
(***************************************************************************)
Offset == now % Second

IdleInv ==
  ~early =>
    /\ Clock(now) # 0 /\ OnTheMinute(Clock(now)) => Swept(Clock(now))
    /\ \A t \in 1 .. Clock(now) - 1 : OnTheMinute(t) =>
         \/ Swept(t) \/ Swept(t + Period)
         \/ Clock(now) < t + Period /\ Offset < (Clock(now) - t) * Handling

\* A turn without a datagram moves the clock by a second, or by two when the
\* ticks it loses fill the second up.
LEMMA IdleTurn ==
  ASSUME NEW a \in Nat, NEW h \in 0 .. Handling, Handling < Second
  PROVE  LET b == a + Second + h IN
         \/ /\ Clock(b) = Clock(a) + 1 /\ b % Second = (a % Second) + h
         \/ /\ Clock(b) = Clock(a) + 2 /\ b % Second = (a % Second) + h - Second
            /\ (a % Second) + h >= Second
<1> DEFINE b == a + Second + h
           q == a \div Second
           r == a % Second
<1>1. q \in Nat /\ r \in 0 .. Second-1 /\ a = Second * q + r
  BY Division, TimerAssumption
<1>2. Second * q \in Nat /\ Second * (q + 1) = Second * q + Second /\ Second * (q + 2) = Second * q + Second + Second
  BY <1>1, TimerAssumption, SMT
<1>3. b \in Nat /\ h \in Nat /\ Handling \in Nat /\ Second \in Nat /\ Second > 0
  BY TimerAssumption
<1> HIDE DEF q, r
<1>4. CASE r + h < Second
  <2>1. r + h \in 0 .. Second-1 /\ b = Second * (q + 1) + (r + h) /\ q + 1 \in Nat
    BY <1>1, <1>2, <1>3, <1>4
  <2> HIDE DEF b
  <2>2. PICK u \in Nat, v \in 0 .. Second-1 : u = q + 1 /\ v = r + h
    BY <2>1
  <2>3. b \div Second = u /\ b % Second = v
    <3>1. b = Second * u + v
      BY <2>1, <2>2
    <3> QED BY <1>3, <3>1, DividesAs
  <2> QED BY <2>2, <2>3 DEF Clock, q, r, b
<1>5. CASE r + h >= Second
  <2>1. r + h - Second \in 0 .. Second-1 /\ b = Second * (q + 2) + (r + h - Second) /\ q + 2 \in Nat
    BY <1>1, <1>2, <1>3, <1>5
  <2> HIDE DEF b
  <2>2. PICK u \in Nat, v \in 0 .. Second-1 : u = q + 2 /\ v = r + h - Second
    BY <2>1
  <2>3. b \div Second = u /\ b % Second = v
    <3>1. b = Second * u + v
      BY <2>1, <2>2
    <3> QED BY <1>3, <3>1, DividesAs
  <2> QED BY <1>5, <2>2, <2>3 DEF Clock, q, r, b
<1> QED BY <1>1, <1>3, <1>4, <1>5

LEMMA TurnKeepsIdle ==
  ASSUME Period > 2, Handling * Period < Second, TimerInv, IdleInv,
         Clock(now) = 0 \/ ~OnTheMinute(Clock(now)) => one_min_timeout_flag,
         NEW w \in 0 .. Second, NEW h \in 0 .. Handling, Turn(w, h)
  PROVE  IdleInv'
<1> SUFFICES ASSUME ~early' PROVE IdleInv'
  BY DEF IdleInv
<1>1. w = Second /\ ~early
  <2>1. early' = (early \/ w < Second)
    BY DEF Turn
  <2>2. ~early /\ ~(w < Second)
    BY <2>1, Zenon
  <2> QED BY <2>2, TimerAssumption
<1>2. PICK c, o, d, p : c = Clock(now) /\ o = Offset /\ d = Clock(now') /\ p = Offset'
  OBVIOUS
<1>3. now \in Nat /\ now' = now + Second + h /\ now' \in Nat /\ h \in Nat /\ h <= Handling
  BY <1>1, TimerAssumption DEF TimerInv, TypeOK, Turn
<1>4. c \in Nat /\ o \in 0 .. Second - 1 /\ Handling < Second
  <2>1. Handling < Second
    <3>1. Handling * 1 <= Handling * Period
      <4>1. Handling * 1 + Handling <= Handling * Period
        BY Product, TimerAssumption
      <4> QED BY <4>1, TimerAssumption
    <3> QED BY <3>1, TimerAssumption
  <2>2. c \in Nat /\ o \in 0 .. Second - 1
    BY <1>2, <1>3, Division, TimerAssumption DEF Clock, Offset
  <2> QED BY <2>1, <2>2
<1>5. \/ d = c + 1 /\ p = o + h
      \/ d = c + 2 /\ p = o + h - Second /\ o + h >= Second
  BY <1>2, <1>3, <1>4, IdleTurn DEF Offset
<1>6. /\ sweeps \in Seq(Nat)
      /\ sweeps' = IF Due(d) THEN Append(sweeps, d) ELSE sweeps
  BY <1>1, <1>2 DEF Turn, TimerInv, TypeOK
<1>7. d \in Nat
  BY <1>4, <1>5
<1>8. \A u : Swept(u) => Swept(u)'
  BY <1>6, <1>7 DEF Swept
<1>9. ASSUME OnTheMinute(d) PROVE Swept(d)'
  <2>1. c = 0 \/ ~OnTheMinute(c)
    <3> SUFFICES ASSUME OnTheMinute(c) PROVE FALSE
      OBVIOUS
    <3>1. d - c >= Period
      BY <1>4, <1>5, <1>7, <1>9, MinutesApart
    <3> QED BY <1>4, <1>5, <3>1, TimerAssumption
  <2>2. Due(d)
    BY <1>2, <1>4, <1>5, <1>9, <2>1 DEF Due
  <2>3. Len(sweeps) + 1 \in DOMAIN sweeps' /\ sweeps'[Len(sweeps) + 1] = d
    BY <1>6, <1>7, <2>2
  <2> QED BY <2>3 DEF Swept
<1>10. ASSUME NEW t \in 1 .. d - 1, OnTheMinute(t), ~Swept(t)', ~Swept(t + Period)'
       PROVE  d < t + Period /\ p < (d - t) * Handling
  <2>1. ~Swept(t) /\ ~Swept(t + Period)
    BY <1>8, <1>10
  <2>2. t # c
    BY <1>1, <1>2, <1>10, <2>1 DEF IdleInv
  <2>3. CASE t < c
    <3>1. c < t + Period /\ o < (c - t) * Handling
      BY <1>1, <1>2, <1>4, <1>10, <2>1, <2>3 DEF IdleInv
    <3>2. PICK k \in Nat : c = t + k /\ k < Period /\ k + 1 <= Period
      <4>1. c - t \in Nat /\ c = t + (c - t) /\ c - t < Period /\ c - t + 1 <= Period
        BY <1>4, <2>3, <3>1, TimerAssumption
      <4> QED BY <3>1, <4>1, TimerAssumption
    <3>3. (k + 1) * Handling = k * Handling + Handling /\ k * Handling \in Nat
      BY <3>2, TimerAssumption, SMT
    <3>4. (k + 1) * Handling <= Period * Handling
      <4>1. CASE k + 1 = Period
        BY <4>1, <3>3, TimerAssumption
      <4>2. CASE k + 1 < Period
        <5>1. Handling * (k + 1) + Handling <= Handling * Period
          BY <3>2, <4>2, Product, TimerAssumption
        <5>2. Handling * (k + 1) = (k + 1) * Handling /\ Handling * Period = Period * Handling
          BY <3>2, TimerAssumption, SMT
        <5> QED BY <3>3, <5>1, <5>2, TimerAssumption
      <4> QED BY <3>2, <4>1, <4>2, TimerAssumption
    <3>5. Period * Handling < Second
      <4>1. Handling * Period = Period * Handling
        BY TimerAssumption, SMT
      <4> QED BY <4>1
    <3>6. o < k * Handling
      <4>1. c - t = k
        BY <3>2
      <4> QED BY <3>1, <4>1
    <3>7. o + h < (k + 1) * Handling /\ o + h < Second
      BY <1>3, <1>4, <3>3, <3>4, <3>5, <3>6, TimerAssumption
    <3>8. d = c + 1 /\ p = o + h /\ d - t = k + 1
      <4>1. ~(o + h >= Second)
        BY <1>3, <1>4, <3>7, TimerAssumption
      <4> QED BY <1>4, <1>5, <3>2, <4>1
    <3>9. d # t + Period
      <4> SUFFICES ASSUME d = t + Period PROVE FALSE
        OBVIOUS
      <4>1. OnTheMinute(t + Period)
        <5>1. t \in Nat /\ t % Period = 0
          BY <1>10 DEF OnTheMinute
        <5>2. t = Period * (t \div Period) + (t % Period) /\ t \div Period \in Nat
          BY <5>1, Division, TimerAssumption
        <5>3. PICK m \in Nat : m = t \div Period
          BY <5>2
        <5>4. t = Period * m
          <6>1. Period * m \in Nat
            BY TimerAssumption, SMT
          <6> QED BY <5>1, <5>2, <5>3, <6>1
        <5>5. t + Period = Period * (m + 1) + 0
          BY <5>4, TimerAssumption, SMT
        <5>6. 0 \in 0 .. Period - 1 /\ m + 1 \in Nat /\ t + Period \in Nat
          BY <5>1, TimerAssumption
        <5> QED BY <5>5, <5>6, DividesAs, TimerAssumption DEF OnTheMinute
      <4> QED BY <1>9, <1>10, <4>1
    <3>10. d < t + Period
      BY <3>2, <3>8, <3>9, TimerAssumption
    <3> QED BY <3>7, <3>8, <3>10
  <2>4. CASE t > c
    <3>1. t = c + 1 /\ d = c + 2 /\ p = o + h - Second /\ d - t = 1
      BY <1>4, <1>5, <2>4
    <3>2. p < Handling /\ 1 * Handling = Handling
      BY <1>3, <1>4, <3>1, TimerAssumption
    <3> QED BY <3>1, <3>2, TimerAssumption
  <2> QED BY <1>4, <2>2, <2>3, <2>4
<1>11. Clock(now)' = d /\ Offset' = p
  BY <1>2 DEF Clock
<1>12. \A t \in 1 .. d - 1 : OnTheMinute(t) =>
         Swept(t)' \/ Swept(t + Period)' \/ (d < t + Period /\ p < (d - t) * Handling)
  BY <1>10
<1> QED BY <1>9, <1>11, <1>12 DEF IdleInv, OnTheMinute, Swept

\* While no datagram comes, and a minute's turns lose less than a second, the
\* clock never jumps over the same second of two minutes in a row.  (With a
\* period of two seconds it may: the jump can then lead from one due second to
\* the next, with the flag down.)
THEOREM IdleMissesNoTwoCorrect ==
  ASSUME Period > 2
  PROVE  Spec => []IdleMissesNoTwo
<1> DEFINE Flagged == Clock(now) = 0 \/ ~OnTheMinute(Clock(now)) => one_min_timeout_flag
           Inv == TimerInv /\ Flagged /\ (Handling * Period < Second => IdleInv)
<1>1. Init => Inv
  <2> SUFFICES ASSUME Init PROVE Inv
    OBVIOUS
  <2>1. TimerInv /\ Clock(now) = 0 /\ one_min_timeout_flag
    BY TimerStarts, StartsAtZero DEF Init
  <2> QED BY <2>1 DEF IdleInv
<1>2. Inv /\ [Next]_vars => Inv'
  <2> SUFFICES ASSUME Inv, [Next]_vars PROVE Inv'
    OBVIOUS
  <2>1. TimerInv'
    BY StepKeepsInv
  <2>2. CASE Next
    <3>1. PICK w \in 0 .. Second, h \in 0 .. Handling : Turn(w, h)
      BY <2>2 DEF Next
    <3>2. Flagged'
      BY <3>1, TurnKeepsFlag
    <3>3. Handling * Period < Second => IdleInv'
      BY <3>1, TurnKeepsIdle
    <3> QED BY <2>1, <3>2, <3>3
  <2>3. CASE UNCHANGED vars
    BY <2>1, <2>3 DEF vars, IdleInv, Swept, OnTheMinute, Clock, Offset
  <2> QED BY <2>2, <2>3
<1>3. Inv => IdleMissesNoTwo
  <2> SUFFICES ASSUME Inv, ~early, Handling * Period < Second,
                      NEW t \in 1 .. Clock(now) - 1 - Period, OnTheMinute(t)
               PROVE  Swept(t) \/ Swept(t + Period)
    BY DEF IdleMissesNoTwo, OnTheMinute
  <2>1. Clock(now) \in Nat
    BY ClockForward DEF TimerInv, TypeOK
  <2>2. t \in 1 .. Clock(now) - 1 /\ ~(Clock(now) < t + Period)
    BY <2>1, TimerAssumption
  <2> QED BY <2>2 DEF IdleInv
<1> HIDE DEF Inv
<1> QED BY <1>1, <1>2, <1>3, PTL DEF Spec
=============================================================================
