--------------------------- MODULE ScheduleProofs ---------------------------
(***************************************************************************)
(* The clock keeps its types, moves only forward and to the arrival hour,  *)
(* counts every occurrence, and arms one catch-up at a time: for any number *)
(* of clocks, any period, arrival hour and horizon, two clocks in the same *)
(* hour included.                                                          *)
(***************************************************************************)
EXTENDS Schedule, TLAPS

\* retry_count is at zero only when no catch-up is outstanding, and neither is
\* one outstanding when the last pull succeeded.
Allowance ==
  /\ armed \in {0, 1}
  /\ retryCount \in Nat
  /\ retryCount = 0 => armed = 0
  /\ latest.state = "done" => armed = 0

\* Nothing is armed on a new schedule ...
LEMMA AllowanceInit == Init => Allowance
BY DEF Init, Allowance

\* ... and only a success gives the allowance back.
LEMMA AllowanceStep == Allowance /\ [Next]_vars => Allowance'
<1> SUFFICES ASSUME Allowance, [Next]_vars PROVE Allowance'
  OBVIOUS
<1>0. ASSUME UNCHANGED <<armed, retryCount, latest>> PROVE Allowance'
  BY <1>0 DEF Allowance
<1>1. ASSUME NEW c \in Clocks, Tick(c) PROVE Allowance'
  <2>1. CASE Sweep(c)
    <3>1. CASE ArmsCatchUp
      <4>1. retryCount = 0 /\ latest.state # "done" /\ armed = 0 /\ ~ClearsRetry
        BY <3>1 DEF ArmsCatchUp, ClearsRetry, Failed, Allowance
      <4>2. retryCount' = 1 /\ armed' = 1 /\ latest' = latest
        BY <2>1, <3>1, <4>1 DEF Sweep
      <4> QED BY <4>1, <4>2 DEF Allowance
    <3>2. CASE ~ArmsCatchUp /\ ClearsRetry
      BY <2>1, <3>2 DEF Sweep, ClearsRetry, Allowance
    <3>3. CASE ~ArmsCatchUp /\ ~ClearsRetry
      BY <2>1, <3>3 DEF Sweep, Allowance
    <3> QED BY <3>1, <3>2, <3>3
  <2>2. CASE TryLock(c)      BY <1>0, <2>2 DEF TryLock, clockVars, observers
  <2>3. CASE CloseSession(c) BY <1>0, <2>3 DEF CloseSession, clockVars, observers
  <2>4. CASE Release(c)      BY <1>0, <2>4 DEF Release, clockVars, observers
  <2>5. CASE Select(c)       BY <1>0, <2>5 DEF Select, clockVars, observers
  <2>6. CASE Enqueue(c)      BY <1>0, <2>6 DEF Enqueue, clockVars
  <2>7. CASE Refuse(c)       BY <1>0, <2>7 DEF Refuse
  <2>8. CASE Advance(c)      BY <1>0, <2>8 DEF Advance
  <2> QED BY <1>1, <2>1, <2>2, <2>3, <2>4, <2>5, <2>6, <2>7, <2>8 DEF Tick
<1>2. ASSUME NEW d \in pending, NEW s \in Outcomes, JobEnds(d, s) PROVE Allowance'
  <2>1. CASE s = "done"
    BY <1>2, <2>1 DEF JobEnds, Attempted, Allowance
  <2>2. CASE s \in Attempted \ {"done"}
    BY <1>2, <2>2 DEF JobEnds, Allowance
  <2>3. CASE s \notin Attempted
    BY <1>2, <2>3 DEF JobEnds, Attempted, Allowance
  <2> QED BY <2>1, <2>2, <2>3
<1>3. CASE Pass
  BY <1>0, <1>3 DEF Pass, clockVars, observers
<1>4. CASE UNCHANGED vars
  BY <1>0, <1>4 DEF vars, clockVars, observers
<1> QED BY <1>1, <1>2, <1>3, <1>4 DEF Next

\* "One extra attempt until a pull succeeds", whatever else happens to the clock.
THEOREM OneCatchUp == Spec => []CatchUpOnce
<1>1. Spec => []Allowance
  BY AllowanceInit, AllowanceStep, PTL DEF Spec
<1>2. Allowance => CatchUpOnce
  BY DEF Allowance, CatchUpOnce
<1> QED BY <1>1, <1>2, PTL

-----------------------------------------------------------------------------
(* Arithmetic.                                                             *)

\* Quotient and remainder of an integer, as the prover knows them.
LEMMA DivMod ==
  ASSUME NEW n \in Nat \ {0}, NEW a \in Int
  PROVE  /\ a \div n \in Int
         /\ a % n \in 0..(n - 1)
         /\ a = n * (a \div n) + (a % n)
OBVIOUS

\* An hour and a day determine each other.
LEMMA Unique ==
  ASSUME NEW n \in Nat \ {0}, NEW p \in Int, NEW q \in Int,
         NEW g \in 0..(n - 1), NEW h \in 0..(n - 1), n * p + g = n * q + h
  PROVE  p = q /\ g = h
<1>1. n * (p - q) = h - g
  OBVIOUS
<1>2. CASE p - q >= 1
  <2>1. n * (p - q) >= n
    BY <1>2
  <2> QED BY <1>1, <2>1
<1>3. CASE p - q <= -1
  <2>1. n * (p - q) <= -n
    BY <1>3
  <2> QED BY <1>1, <2>1
<1> QED BY <1>1, <1>2, <1>3

\* The remainder of a multiple and a rest smaller than the divisor.
LEMMA Rest ==
  ASSUME NEW n \in Nat \ {0}, NEW q \in Int, NEW h \in 0..(n - 1)
  PROVE  (n * q + h) % n = h
<1>1. n * q + h \in Int
  OBVIOUS
<1> QED BY <1>1, DivMod, Unique

\* A whole number of days passes through the division.
LEMMA DivShift ==
  ASSUME NEW n \in Nat \ {0}, NEW q \in Int, NEW a \in Int
  PROVE  (n * q + a) \div n = q + (a \div n)
<1>1. /\ a \div n \in Int /\ a % n \in 0..(n - 1)
      /\ a = n * (a \div n) + (a % n)
  BY DivMod
<1> DEFINE b == n * q + a
<1>2. b \in Int
  OBVIOUS
<1>3. /\ b \div n \in Int /\ b % n \in 0..(n - 1)
      /\ b = n * (b \div n) + (b % n)
  BY <1>2, DivMod
<1>4. b = n * (q + (a \div n)) + (a % n)
  BY <1>1
<1>5. q + (a \div n) \in Int
  BY <1>1
<1> HIDE DEF b
<1>6. b \div n = q + (a \div n)
  BY <1>1, <1>3, <1>4, <1>5, Unique
<1> QED BY <1>6 DEF b

\* What the arithmetic below needs of the types.
LEMMA Numbers ==
  ASSUME TypeOK
  PROVE  /\ Period \in Nat \ {0, 1} /\ nextRun \in Nat
         /\ now \in Nat /\ FirstRun \in Nat /\ FirstRun <= now
         /\ Change \in Nat \ {0} /\ Jump \in {-1, 0, 1}
<1>1. Period \in Nat \ {0, 1} /\ FirstRun \in Nat /\ Horizon \in Nat
  BY ScheduleAssumption
<1>2. nextRun \in Nat /\ now \in FirstRun..Horizon
  BY DEF TypeOK
<1> QED BY <1>1, <1>2, ScheduleAssumption

\* The zone has one local hour for an instant ...
LEMMA LocalHour ==
  ASSUME NEW t \in Nat
  PROVE  Local(t) \in Nat
BY ScheduleAssumption DEF Local

\* ... and one instant for a local hour, the hour it skips included; an hour ahead
\* on the local clock is an instant ahead.
LEMMA UtcHour ==
  ASSUME NEW l \in Nat
  PROVE  /\ Utc(l) \in Int
         /\ \/ Local(Utc(l)) = l
            \/ Jump = 1 /\ l = Change /\ Utc(l) = Change /\ Local(Utc(l)) = l + 1
         /\ \A t \in Nat : l > Local(t) => Utc(l) > t
BY ScheduleAssumption DEF Local, Utc

\* The hour an advance keeps to.
Hour == IF ArrivalHour = NoHour THEN Local(nextRun) % Period ELSE ArrivalHour

\* An advance lands on that hour of a local day, within a day of the reference.
LEMMA LandsOnHour ==
  ASSUME TypeOK
  PROVE  /\ Hour \in 0..(Period - 1)
         /\ \E d \in Int :
              /\ Period * d + Hour \in Nat
              /\ Landing = Utc(Period * d + Hour)
              /\ Period * d + Hour > Local(Later(nextRun, now))
              /\ Period * d + Hour <= Local(Later(nextRun, now)) + Period
<1> DEFINE ref == Local(Later(nextRun, now))
           day == ref \div Period
<1>1. Period \in Nat \ {0, 1} /\ nextRun \in Nat /\ now \in Nat
  BY Numbers
<1>2. ref \in Nat
  BY <1>1, LocalHour DEF Later
<1>3. Hour \in 0..(Period - 1)
  <2>1. Local(nextRun) \in Nat
    BY <1>1, LocalHour
  <2> QED BY <1>1, <2>1, DivMod, ScheduleAssumption DEF Hour
<1> HIDE DEF ref
<1>4. day \in Int /\ ref = Period * day + (ref % Period) /\ ref % Period \in 0..(Period - 1)
  BY <1>1, <1>2, DivMod
<1>5. Landing = Utc(IF Period * day + Hour > ref THEN Period * day + Hour
                    ELSE Period * day + Hour + Period)
  <2>1. ref - (ref % Period) = Period * day
    BY <1>1, <1>2, <1>4
  <2>2. Landing = LET arrival == ref - (ref % Period) + Hour
                  IN  Utc(IF arrival > ref THEN arrival ELSE arrival + Period)
    BY DEF ref, Landing, Hour
  <2> QED BY <2>1, <2>2
<1> HIDE DEF day
<1>6. Period * day \in Int /\ Period * (day + 1) = Period * day + Period
  BY <1>1, <1>4
<1>7. CASE Period * day + Hour > ref
  <2>1. /\ Period * day + Hour \in Nat /\ Period * day + Hour <= ref + Period
    BY <1>1, <1>2, <1>3, <1>4, <1>6, <1>7
  <2> QED BY <1>3, <1>4, <1>5, <1>7, <2>1 DEF ref
<1>8. CASE ~(Period * day + Hour > ref)
  <2>1. /\ Period * (day + 1) + Hour = Period * day + Hour + Period
        /\ Period * (day + 1) + Hour \in Nat
        /\ Period * (day + 1) + Hour > ref /\ Period * (day + 1) + Hour <= ref + Period
    BY <1>1, <1>2, <1>3, <1>4, <1>6, <1>8
  <2>2. day + 1 \in Int /\ Landing = Utc(Period * (day + 1) + Hour)
    BY <1>4, <1>5, <1>8, <2>1
  <2> QED BY <1>3, <2>1, <2>2 DEF ref
<1> QED BY <1>7, <1>8

\* It lands after the row and after now, at the hour itself unless the zone skips it.
LEMMA LandsAhead ==
  ASSUME TypeOK
  PROVE  /\ Landing \in Nat /\ Landing > now /\ Landing > nextRun
         /\ \/ Local(Landing) % Period = Hour
            \/ Jump = 1 /\ Landing = Change /\ Change % Period = Hour
<1>1. Period \in Nat \ {0, 1} /\ nextRun \in Nat /\ now \in Nat
  BY Numbers
<1>2. PICK d \in Int :
        /\ Period * d + Hour \in Nat
        /\ Landing = Utc(Period * d + Hour)
        /\ Period * d + Hour > Local(Later(nextRun, now))
  BY LandsOnHour
<1>3. Hour \in 0..(Period - 1)
  BY LandsOnHour
<1>4. /\ Landing \in Int
      /\ \/ Local(Landing) = Period * d + Hour
         \/ Jump = 1 /\ Period * d + Hour = Change /\ Landing = Change
      /\ Landing > Later(nextRun, now)
  <2>1. Later(nextRun, now) \in Nat
    BY <1>1 DEF Later
  <2> QED BY <1>2, <2>1, UtcHour
<1>5. (Period * d + Hour) % Period = Hour
  BY <1>1, <1>3, Rest
<1>6. Landing > now /\ Landing > nextRun /\ Landing \in Nat
  BY <1>1, <1>4 DEF Later
<1> QED BY <1>4, <1>5, <1>6

\* Two days compared by their remainders: what a count of elapsed hours can be out.
LEMMA OutBy ==
  ASSUME NEW n \in Nat \ {0, 1}, NEW e \in 0..(n - 1), NEW r \in 0..(n - 1),
         NEW j \in {-1, 0, 1}, NEW u \in Int,
         n * u <= e + r + j, e + r + j < n * u + n
  PROVE  /\ u \in {-1, 0, 1}
         /\ e = 0 /\ j = 0 => u = 0
         /\ e = 0 => u \in {0, j}
         /\ e # 0 => u \in {0, 1}
<1>1. CASE u >= 2
  <2>1. n * u >= n * 2
    BY <1>1
  <2> QED BY <2>1
<1>2. CASE u <= -2
  <2>1. n * u <= n * (-2)
    BY <1>2
  <2> QED BY <2>1
<1>3. CASE u = 1
  BY <1>3
<1>4. CASE u = 0
  BY <1>4
<1>5. CASE u = -1
  BY <1>5
<1> QED BY <1>1, <1>2, <1>3, <1>4, <1>5

Aligned(t) == Local(t) % Period = ArrivalOf

\* The shift of the local clock that an outage spans.
Shift == IF nextRun < Change /\ Change <= now THEN Jump ELSE 0

\* An advance from a row that is due steps over the occurrences it counts and one,
\* or is out by one when the row is off its hour or the clocks changed.
LEMMA LandsOnTheNext ==
  ASSUME TypeOK, nextRun <= now,
         ArrivalHour = NoHour /\ nextRun < Change => Aligned(nextRun)
  PROVE  /\ Skipped \in Nat
         /\ \E u \in {-1, 0, 1} :
              /\ Occurrences(Landing) = Occurrences(nextRun) + Skipped + 1 + u
              /\ Aligned(nextRun) \/ ArrivalHour = NoHour => u \in {0, Shift}
              /\ ~Aligned(nextRun) /\ ArrivalHour # NoHour => u \in {0, 1}
<1>1. /\ Period \in Nat \ {0, 1} /\ nextRun \in Nat /\ now \in Nat
      /\ Change \in Nat \ {0} /\ Jump \in {-1, 0, 1} /\ FirstRun \in Nat
  BY Numbers
<1>2. PICK s \in Nat, r \in 0..(Period - 1) :
        Skipped = s /\ now - nextRun = Period * s + r
  <2>1. PICK d \in Nat : d = now - nextRun
    BY <1>1
  <2>2. /\ d \div Period \in Int /\ d % Period \in 0..(Period - 1)
        /\ d = Period * (d \div Period) + (d % Period)
    BY <1>1, DivMod
  <2>3. d \div Period \in Nat
    BY <1>1
  <2> QED BY <2>1, <2>2, <2>3 DEF Skipped
<1>3. PICK w \in Nat, v \in Nat, j \in {-1, 0, 1} :
        /\ w = Local(now) /\ v = Local(nextRun) /\ j = Shift
        /\ w - v = now - nextRun + j
  <2>1. Local(now) \in Nat /\ Local(nextRun) \in Nat
    BY <1>1, LocalHour
  <2>2. Shift \in {-1, 0, 1} /\ Local(now) - Local(nextRun) = now - nextRun + Shift
    BY <1>1 DEF Local, Shift
  <2> QED BY <2>1, <2>2
<1>4. PICK g \in 0..(Period - 1) : g = Hour
  BY LandsOnHour
<1>5. PICK t \in Int :
        /\ Period * t + g \in Nat /\ Landing = Utc(Period * t + g)
        /\ Period * t + g > w /\ Period * t + g <= w + Period
  <2>1. Later(nextRun, now) = now
    BY <1>1 DEF Later
  <2> QED BY <1>3, <1>4, <2>1, LandsOnHour
<1>6. PICK k \in Int, e \in 0..(Period - 1) :
        k = (v - g) \div Period /\ e = (v - g) % Period /\ v = Period * k + g + e
  <2>1. PICK d \in Int : d = v - g /\ v = d + g
    BY <1>1
  <2>2. PICK k \in Int, e \in 0..(Period - 1) :
          k = d \div Period /\ e = d % Period /\ d = Period * k + e
    BY <1>1, DivMod
  <2>3. Period * k \in Int /\ g \in Int /\ e \in Int
    BY <1>1
  <2>4. v = Period * k + g + e
    BY <2>1, <2>2, <2>3
  <2> QED BY <2>1, <2>2, <2>4
<1>7. e = 0 <=> v % Period = g
  <2>1. PICK x \in Int, y \in 0..(Period - 1) : y = v % Period /\ v = Period * x + y
    <3>1. /\ v \div Period \in Int /\ v % Period \in 0..(Period - 1)
          /\ v = Period * (v \div Period) + (v % Period)
      BY <1>1, DivMod
    <3> QED BY <3>1
  <2>2. /\ Period * k \in Int /\ Period * x \in Int
        /\ g \in Int /\ e \in Int /\ y \in Int /\ 0 \in 0..(Period - 1)
    BY <1>1
  <2>3. ASSUME e = 0 PROVE y = g
    <3>1. Period * k + g = Period * x + y
      <4>1. Period * k + g + e = Period * x + y
        BY <1>6, <2>1
      <4> QED BY <2>2, <2>3, <4>1
    <3> QED BY <1>1, <3>1, Unique
  <2>4. ASSUME y = g PROVE e = 0
    <3>1. Period * k + e = Period * x + 0
      <4>1. Period * k + g + e = Period * x + y
        BY <1>6, <2>1
      <4> QED BY <2>2, <2>4, <4>1
    <3> QED BY <1>1, <2>2, <3>1, Unique
  <2> QED BY <2>1, <2>3, <2>4
<1> DEFINE u == t - k - s - 1
<1>8. u \in Int /\ Period * u <= e + r + j /\ e + r + j < Period * u + Period
  <2>1. Period * u = Period * t - Period * k - Period * s - Period
    BY <1>1, <1>2, <1>5, <1>6
  <2>2. /\ Period * t \in Int /\ Period * k \in Int /\ Period * s \in Int
    BY <1>1, <1>2, <1>5, <1>6
  <2>3. w = Period * k + g + e + (Period * s + r) + j
    <3>1. w = v + (now - nextRun) + j
      BY <1>1, <1>3
    <3> QED BY <1>2, <1>6, <3>1
  <2>4. u \in Int
    BY <1>2, <1>5, <1>6
  <2> HIDE DEF u
  <2>5. /\ Period * t + g > w /\ Period * t + g <= w + Period
    BY <1>5
  <2>6. /\ g \in Int /\ e \in Int /\ r \in Int /\ j \in Int /\ w \in Int
        /\ Period \in Int /\ Period * u \in Int
    BY <1>1, <2>4
  <2> QED BY <2>1, <2>2, <2>3, <2>4, <2>5, <2>6
<1>9. /\ u \in {-1, 0, 1}
      /\ e = 0 => u \in {0, j}
      /\ e # 0 => u \in {0, 1}
  <2> HIDE DEF u
  <2> QED BY <1>1, <1>8, OutBy
<1>10. Occurrences(Landing) - Occurrences(nextRun) = t - k
  <2>1. /\ Landing \in Int
        /\ \/ Local(Landing) = Period * t + g
           \/ /\ Jump = 1 /\ Landing = Change /\ Local(Landing) = Period * t + g + 1
              /\ nextRun < Change
    <3>1. Landing > nextRun
      BY LandsAhead
    <3> QED BY <1>5, <3>1, UtcHour
  <2>2. PICK x \in {0, 1} :
          /\ Local(Landing) = Period * t + g + x
          /\ x = 1 => nextRun < Change
    BY <1>1, <1>4, <1>5, <2>1
  <2>3. PICK a \in 0..(Period - 1) : a = ArrivalOf
    <3>1. Local(FirstRun) \in Nat
      BY <1>1, LocalHour
    <3> QED BY <1>1, <3>1, DivMod, ScheduleAssumption DEF ArrivalOf
  <2>4. CASE ArrivalHour # NoHour
    <3>1. g = a
      BY <1>4, <2>3, <2>4 DEF Hour, ArrivalOf
    <3>2. Occurrences(nextRun) = k
      BY <1>3, <1>6, <2>3, <3>1 DEF Occurrences
    <3>3. Occurrences(Landing) = (Period * t + x) \div Period
      BY <1>1, <1>4, <1>5, <2>2, <2>3, <3>1 DEF Occurrences
    <3>4. (Period * t + x) \div Period = t + (x \div Period)
      BY <1>1, DivShift
    <3>5. x \div Period = 0
      BY <1>1
    <3>6. Occurrences(Landing) = t
      BY <3>3, <3>4, <3>5
    <3> QED BY <3>2, <3>6
  <2>5. CASE ArrivalHour = NoHour
    <3>1. g = v % Period
      BY <1>3, <1>4, <2>5 DEF Hour
    <3>2. e = 0 /\ v = Period * k + g
      <4>1. e = 0 /\ Period * k \in Int /\ g \in Int
        BY <1>1, <1>7, <3>1
      <4> QED BY <1>6, <4>1
    <3>3. x = 1 => g = a
      BY <1>3, <2>2, <2>3, <2>5, <3>1 DEF Aligned
    <3>4. Occurrences(nextRun) = k + ((g - a) \div Period)
      <4>1. Occurrences(nextRun) = (Period * k + (g - a)) \div Period
        BY <1>1, <1>3, <1>4, <1>6, <2>3, <3>2 DEF Occurrences
      <4>2. g - a \in Int
        OBVIOUS
      <4> QED BY <1>1, <1>6, <4>1, <4>2, DivShift
    <3>5. Occurrences(Landing) = t + ((g + x - a) \div Period)
      <4>1. Occurrences(Landing) = (Period * t + (g + x - a)) \div Period
        BY <1>1, <1>4, <1>5, <2>2, <2>3 DEF Occurrences
      <4>2. g + x - a \in Int
        OBVIOUS
      <4> QED BY <1>1, <1>5, <4>1, <4>2, DivShift
    <3>6. (g + x - a) \div Period = (g - a) \div Period
      <4>1. CASE x = 0
        BY <4>1
      <4>2. CASE x = 1
        <5>1. g + x - a = 1 /\ g - a = 0
          BY <3>3, <4>2
        <5>2. 1 \div Period = 0 /\ 0 \div Period = 0
          BY <1>1
        <5> QED BY <5>1, <5>2
      <4> QED BY <4>1, <4>2
    <3>7. (g - a) \div Period \in Int
      <4>1. g - a \in Int
        OBVIOUS
      <4> QED BY <1>1, <4>1, DivMod
    <3>8. Occurrences(Landing) = t + ((g - a) \div Period)
      BY <3>5, <3>6
    <3> QED BY <3>4, <3>7, <3>8
  <2> QED BY <2>4, <2>5
<1>11. Occurrences(Landing) \in Int /\ Occurrences(nextRun) \in Int
  <2>1. ASSUME NEW i \in Nat PROVE Occurrences(i) \in Int
    <3>1. Local(i) \in Nat /\ Local(FirstRun) \in Nat
      BY <1>1, LocalHour
    <3>2. ArrivalOf \in Int
      BY <1>1, <3>1, DivMod, ScheduleAssumption DEF ArrivalOf
    <3>3. Local(i) - ArrivalOf \in Int
      BY <3>1, <3>2
    <3> QED BY <1>1, <3>3, DivMod DEF Occurrences
  <2> QED BY <1>1, <2>1, LandsAhead
<1>12. Occurrences(Landing) = Occurrences(nextRun) + Skipped + 1 + u
  BY <1>2, <1>5, <1>6, <1>10, <1>11
<1>13. Aligned(nextRun) \/ ArrivalHour = NoHour => e = 0
  BY <1>3, <1>4, <1>7 DEF Aligned, Hour, ArrivalOf
<1>14. ~Aligned(nextRun) /\ ArrivalHour # NoHour => e # 0
  BY <1>3, <1>4, <1>7 DEF Aligned, Hour, ArrivalOf
<1> HIDE DEF u
<1> QED BY <1>2, <1>3, <1>9, <1>12, <1>13, <1>14

-----------------------------------------------------------------------------
(* Types, the direction of the clock, and the count of its occurrences.    *)

\* The types of a new schedule ...
LEMMA InitTypes == Init => TypeOK
<1> SUFFICES ASSUME Init PROVE TypeOK
  OBVIOUS
<1>1. FirstRun \in Nat /\ Horizon \in Nat /\ FirstRun \in FirstRun..Horizon
  BY ScheduleAssumption
<1>2. latest \in [state : Attempted \cup {"none"}, at : 0..Horizon]
  <2>1. 0 \in 0..Horizon
    BY <1>1
  <2> QED BY <2>1 DEF Init
<1>3. pc \in [Clocks -> Labels] /\ seen \in [Clocks -> Nat]
  BY <1>1 DEF Init, Labels
<1>4. retryCount \in 0..1
  BY DEF Init
<1>5. unseen \in BOOLEAN
  BY Zenon DEF Init
<1> QED BY <1>1, <1>2, <1>3, <1>4, <1>5 DEF Init, TypeOK

\* ... of a tick, wherever it stands ...
LEMMA TickTypes ==
  ASSUME TypeOK, NEW c \in Clocks, Tick(c)
  PROVE  TypeOK'
<1>0. Period \in Nat \ {0} /\ nextRun \in Nat /\ now \in Nat
  BY Numbers
<1>1. CASE TryLock(c) \/ CloseSession(c) \/ Release(c)
  BY <1>1 DEF TryLock, CloseSession, Release, Goto, TypeOK, Labels, clockVars, observers
<1>2. CASE Sweep(c)
  <2>1. nextRun' \in Nat
    BY <1>0, <1>2 DEF Sweep
  <2>2. retryCount' \in 0..1
    <3>1. retryCount \in 0..1
      BY DEF TypeOK
    <3>2. CASE ArmsCatchUp
      <4>1. retryCount = 0 /\ ~ClearsRetry
        BY <3>2 DEF ArmsCatchUp, ClearsRetry
      <4>2. retryCount' = retryCount + 1
        BY <1>2, <3>2, <4>1 DEF Sweep
      <4> QED BY <4>1, <4>2
    <3>3. CASE ~ArmsCatchUp /\ ClearsRetry
      BY <1>2, <3>3 DEF Sweep
    <3>4. CASE ~ArmsCatchUp /\ ~ClearsRetry
      BY <1>2, <3>1, <3>4 DEF Sweep
    <3> QED BY <3>2, <3>3, <3>4
  <2>3. unseen' \in BOOLEAN
    BY <1>2 DEF Sweep, TypeOK
  <2>4. armed' \in Nat /\ disturbed' \subseteq {"catch-up", "refusal", "lost advance"}
    <3>1. armed' \in Nat
      <4>1. armed \in Nat
        BY DEF TypeOK
      <4>2. armed' = armed + 1 \/ armed' = armed
        BY <1>2 DEF Sweep
      <4> QED BY <4>1, <4>2
    <3>2. disturbed' \subseteq {"catch-up", "refusal", "lost advance"}
      <4>1. disturbed \subseteq {"catch-up", "refusal", "lost advance"}
        BY DEF TypeOK
      <4>2. disturbed' \subseteq disturbed \cup {"catch-up"}
        BY <1>2 DEF Sweep
      <4> QED BY <4>1, <4>2
    <3> QED BY <3>1, <3>2
  <2>5. pc' \in [Clocks -> Labels]
    BY <1>2 DEF Sweep, Goto, TypeOK, Labels
  <2> QED BY <1>2, <2>1, <2>2, <2>3, <2>4, <2>5 DEF Sweep, TypeOK
<1>3. CASE Select(c)
  BY <1>0, <1>3 DEF Select, Goto, TypeOK, Labels, clockVars, observers
<1>4. CASE Enqueue(c)
  <2>1. Today \in Nat
    <3>1. Local(now) \in Nat
      BY <1>0, LocalHour
    <3> QED BY <1>0, <3>1 DEF Today
  <2>2. pc' \in [Clocks -> Labels]
    BY <1>4 DEF Enqueue, Goto, TypeOK, Labels
  <2> QED BY <1>4, <2>1, <2>2 DEF Enqueue, TypeOK, clockVars
<1>5. CASE Refuse(c)
  <2>1. pc' \in [Clocks -> Labels]
    BY <1>5 DEF Refuse, Goto, TypeOK, Labels
  <2>2. missed' \in Nat /\ unseen' \in BOOLEAN
    <3>1. missed \in Nat /\ unseen \in BOOLEAN
      BY DEF TypeOK
    <3>2. \/ missed' = missed + 1 /\ unseen' = FALSE
          \/ missed' = missed /\ unseen' = unseen
      BY <1>5 DEF Refuse
    <3>3. missed' \in Nat
      BY <3>1, <3>2
    <3>4. unseen' \in BOOLEAN
      BY <3>1, <3>2, Zenon
    <3> QED BY <3>3, <3>4
  <2>3. disturbed' \subseteq {"catch-up", "refusal", "lost advance"}
    BY <1>5 DEF Refuse, TypeOK
  <2> QED BY <1>5, <2>1, <2>2, <2>3 DEF Refuse, TypeOK
<1>6. CASE Advance(c)
  <2>1. Landing \in Nat
    BY LandsAhead
  <2>2. nextRun <= now => Skipped \in Nat
    BY <1>0 DEF Skipped
  <2>3. pc' \in [Clocks -> Labels]
    BY <1>6 DEF Advance, Goto, TypeOK, Labels
  <2>4. /\ nextRun' \in Nat /\ missed' \in Nat /\ unseen' \in BOOLEAN
        /\ advances' \in Nat
    <3>1. missed \in Nat /\ unseen \in BOOLEAN /\ advances \in Nat
      BY DEF TypeOK
    <3>2. \/ /\ nextRun <= now /\ nextRun' = Landing /\ missed' = missed + Skipped
             /\ unseen' = FALSE /\ advances' = advances + 1
          \/ UNCHANGED <<nextRun, missed, unseen, advances>>
      BY <1>6 DEF Advance
    <3>3. nextRun' \in Nat /\ missed' \in Nat /\ advances' \in Nat
      BY <1>0, <2>1, <2>2, <3>1, <3>2
    <3>4. unseen' \in BOOLEAN
      BY <3>1, <3>2, Zenon
    <3> QED BY <3>3, <3>4
  <2>5. disturbed' \subseteq {"catch-up", "refusal", "lost advance"}
    BY <1>6 DEF Advance, TypeOK
  <2> QED BY <1>6, <2>3, <2>4, <2>5 DEF Advance, TypeOK
<1> QED BY <1>1, <1>2, <1>3, <1>4, <1>5, <1>6 DEF Tick

\* ... and of every step.
LEMMA NextTypes ==
  ASSUME TypeOK, [Next]_vars
  PROVE  TypeOK'
<1>1. CASE UNCHANGED vars
  BY <1>1 DEF vars, clockVars, tickVars, observers, TypeOK
<1>2. ASSUME NEW d \in pending, NEW s \in Outcomes, JobEnds(d, s) PROVE TypeOK'
  <2>1. /\ latest' \in [state : Attempted \cup {"none"}, at : 0..Horizon]
        /\ unseen' \in BOOLEAN
    <3>1. now \in 0..Horizon
      <4>1. now \in FirstRun..Horizon /\ FirstRun \in Nat /\ Horizon \in Nat
        BY ScheduleAssumption DEF TypeOK
      <4> QED BY <4>1
    <3>2. /\ latest \in [state : Attempted \cup {"none"}, at : 0..Horizon]
          /\ unseen \in BOOLEAN
      BY DEF TypeOK
    <3>3. CASE s \in Attempted
      BY <1>2, <3>1, <3>3 DEF JobEnds
    <3>4. CASE s \notin Attempted
      BY <1>2, <3>2, <3>4 DEF JobEnds
    <3> QED BY <3>3, <3>4
  <2>2. armed' \in Nat /\ pending' \subseteq Nat
    BY <1>2 DEF JobEnds, TypeOK
  <2> QED BY <1>2, <2>1, <2>2 DEF JobEnds, TypeOK, tickVars
<1>3. CASE Pass
  <2>1. now' \in FirstRun..Horizon
    <3>1. now \in FirstRun..Horizon /\ FirstRun \in Nat /\ Horizon \in Nat
      BY ScheduleAssumption DEF TypeOK
    <3>2. now < Horizon /\ now' = now + 1
      BY <1>3 DEF Pass
    <3> QED BY <3>1, <3>2
  <2> QED BY <1>3, <2>1 DEF Pass, TypeOK, clockVars, observers
<1> QED BY <1>1, <1>2, <1>3, TickTypes DEF Next

\* Whatever hour it is and however many clocks tick, refuse and lose their writes,
\* the row of the schedule holds values its columns accept (scheduler.py).
THEOREM ScheduleTypeCorrect == Spec => []TypeOK
BY InitTypes, NextTypes, PTL DEF Spec

\* Only the catch-up and the advance move the row.
LEMMA MovesForward ==
  ASSUME TypeOK, [Next]_vars, nextRun' # nextRun
  PROVE  \/ nextRun' = now + 1 /\ retryCount' # retryCount
         \/ nextRun' = Landing
<1>1. ASSUME NEW c \in Clocks, Sweep(c)
      PROVE  nextRun' = now + 1 /\ retryCount' # retryCount
  <2>1. ArmsCatchUp /\ nextRun' = now + 1
    BY <1>1 DEF Sweep
  <2>2. retryCount' = retryCount + 1
    BY <1>1, <2>1 DEF Sweep, ArmsCatchUp, ClearsRetry
  <2>3. retryCount \in 0..1
    BY DEF TypeOK
  <2> QED BY <2>1, <2>2, <2>3
<1>2. ASSUME NEW c \in Clocks, Advance(c)
      PROVE  nextRun' = Landing
  BY <1>2 DEF Advance
<1>3. ASSUME NEW c \in Clocks, Tick(c), ~Sweep(c), ~Advance(c)
      PROVE  FALSE
  BY <1>3 DEF Tick, TryLock, CloseSession, Release, Select, Enqueue, Refuse, clockVars
<1>4. ~Pass /\ ~UNCHANGED vars /\ ~\E d \in pending, s \in Outcomes : JobEnds(d, s)
  BY DEF Pass, JobEnds, vars, clockVars
<1> QED BY <1>1, <1>2, <1>3, <1>4 DEF Next

\* However many clocks sweep and advance in one hour, the clock never moves back,
\* and only a catch-up moves it to another hour than the arrival hour of the zone,
\* before, at and after a change of the zone's clock (_advance_next_run,
\* _reschedule_failed_pulls).
THEOREM ClockMovesOn == Spec => BackToArrivalHour
<1>1. TypeOK /\ [Next]_vars =>
        [nextRun' # nextRun =>
           /\ nextRun' > now
           /\ ArrivalHour # NoHour /\ retryCount' = retryCount
                => Local(nextRun') % Period = ArrivalHour \/ SkippedHour']_vars
  <2> SUFFICES ASSUME TypeOK, [Next]_vars, nextRun' # nextRun
               PROVE  /\ nextRun' > now
                      /\ ArrivalHour # NoHour /\ retryCount' = retryCount
                           => Local(nextRun') % Period = ArrivalHour \/ SkippedHour'
    OBVIOUS
  <2>1. CASE nextRun' = now + 1 /\ retryCount' # retryCount
    BY <2>1, Numbers
  <2>2. CASE nextRun' = Landing
    <3>1. /\ Landing > now
          /\ \/ Local(Landing) % Period = Hour
             \/ Jump = 1 /\ Landing = Change /\ Change % Period = Hour
      BY LandsAhead
    <3> QED BY <2>2, <3>1 DEF Hour, SkippedHour
  <2> QED BY <2>1, <2>2, MovesForward
<1> QED BY <1>1, ScheduleTypeCorrect, PTL DEF Spec, BackToArrivalHour

\* Between the clock changes a row that has moved sits at its arrival hour; what is
\* short before it moves, or at the hour the zone skips, is bounded apart.
Counted ==
  disturbed = {} =>
    /\ FirstRun <= nextRun
    /\ Short \in Excess..Lack
    /\ nextRun = FirstRun => Short = 0
    /\ nextRun # FirstRun =>
         \/ Aligned(nextRun)
         \/ Change <= nextRun /\ ArrivalHour = NoHour
         \/ Change = nextRun /\ Jump = 1 /\ FirstRun < Change /\ Short <= OffStart

\* The provers see the observers of the count as whole numbers.
LEMMA CountTypes ==
  ASSUME TypeOK
  PROVE  /\ \A t \in Nat : Occurrences(t) \in Int
         /\ Short \in Int /\ OffStart \in {0, 1}
         /\ advances \in Nat /\ missed \in Nat
<1>1. /\ Period \in Nat \ {0, 1} /\ nextRun \in Nat /\ FirstRun \in Nat
      /\ advances \in Nat /\ missed \in Nat
  BY Numbers DEF TypeOK
<1>2. ASSUME NEW t \in Nat PROVE Occurrences(t) \in Int
  <2>1. Local(t) \in Nat /\ Local(FirstRun) \in Nat
    BY <1>1, LocalHour
  <2>2. ArrivalOf \in Int
    BY <1>1, <2>1, DivMod, ScheduleAssumption DEF ArrivalOf
  <2>3. Local(t) - ArrivalOf \in Int
    BY <2>1, <2>2
  <2> QED BY <1>1, <2>3, DivMod DEF Occurrences
<1>3. Short \in Int
  BY <1>1, <1>2 DEF Short
<1> QED BY <1>1, <1>2, <1>3 DEF OffStart

\* An advance keeps the count within its bounds.
LEMMA AdvanceCounts ==
  ASSUME TypeOK, Counted, disturbed = {}, nextRun <= now, nextRun' = Landing,
         missed' = missed + Skipped, advances' = advances + 1
  PROVE  /\ FirstRun <= nextRun'
         /\ Short' \in (Excess')..(Lack')
         /\ nextRun' # FirstRun
         /\ \/ Aligned(nextRun')
            \/ Change <= nextRun' /\ ArrivalHour = NoHour
            \/ Change = nextRun' /\ Jump = 1 /\ FirstRun < Change /\ Short' <= OffStart
<1>1. /\ Period \in Nat \ {0, 1} /\ nextRun \in Nat /\ now \in Nat
      /\ Change \in Nat \ {0} /\ Jump \in {-1, 0, 1}
      /\ FirstRun \in Nat /\ FirstRun <= now
  BY Numbers
<1>2. /\ FirstRun <= nextRun /\ Short \in Excess..Lack
      /\ nextRun = FirstRun => Short = 0
      /\ nextRun # FirstRun =>
           \/ Aligned(nextRun)
           \/ Change <= nextRun /\ ArrivalHour = NoHour
           \/ Change = nextRun /\ Jump = 1 /\ FirstRun < Change /\ Short <= OffStart
  BY DEF Counted
<1>3. ArrivalHour = NoHour => Aligned(FirstRun)
  BY DEF Aligned, ArrivalOf
<1>4. ArrivalHour = NoHour /\ nextRun < Change => Aligned(nextRun)
  BY <1>1, <1>2, <1>3
<1>5. PICK u \in {-1, 0, 1} :
        /\ Occurrences(Landing) = Occurrences(nextRun) + Skipped + 1 + u
        /\ Aligned(nextRun) \/ ArrivalHour = NoHour => u \in {0, Shift}
        /\ ~Aligned(nextRun) /\ ArrivalHour # NoHour => u \in {0, 1}
  BY <1>4, LandsOnTheNext
<1>6. /\ Landing \in Nat /\ Landing > now /\ Landing > nextRun
      /\ \/ Local(Landing) % Period = Hour
         \/ Jump = 1 /\ Landing = Change /\ Change % Period = Hour
  BY LandsAhead
<1>7. Skipped \in Nat
  BY <1>4, LandsOnTheNext
<1>8. Short' = Short + u
  <2>1. Short' = Occurrences(Landing) - Occurrences(FirstRun)
                   - (advances + 1 + (missed + Skipped))
    BY DEF Short, Occurrences, ArrivalOf, Local
  <2>2. /\ Occurrences(Landing) \in Int /\ Occurrences(nextRun) \in Int
        /\ Occurrences(FirstRun) \in Int /\ advances \in Nat /\ missed \in Nat
    BY <1>1, <1>6, CountTypes
  <2> QED BY <1>5, <1>7, <2>1, <2>2 DEF Short
<1>9. Short \in Int /\ OffStart \in {0, 1}
  BY CountTypes
<1>10. OffStart = 0 <=> Aligned(FirstRun)
  BY DEF OffStart, Aligned
<1>11. Short' \in (Excess')..(Lack')
  <2>1. /\ Excess' = IF FirstRun < Change /\ Change <= Landing /\ Jump = -1 THEN -1 ELSE 0
        /\ Lack' = IF FirstRun < Change /\ Change <= Landing /\ Jump = 1
                     THEN 1 + OffStart ELSE OffStart
    BY DEF Excess, Lack, Crossed, OffStart, ArrivalOf, Local
  <2>2. /\ Excess = IF FirstRun < Change /\ Change <= nextRun /\ Jump = -1 THEN -1 ELSE 0
        /\ Lack = IF FirstRun < Change /\ Change <= nextRun /\ Jump = 1
                    THEN 1 + OffStart ELSE OffStart
    BY DEF Excess, Lack, Crossed
  <2>3. CASE nextRun = FirstRun
    BY <1>1, <1>2, <1>3, <1>5, <1>6, <1>8, <1>9, <1>10, <2>1, <2>2, <2>3 DEF Shift
  <2>4. CASE nextRun # FirstRun /\ (Aligned(nextRun) \/ ArrivalHour = NoHour)
    <3>1. u \in {0, Shift} /\ FirstRun <= nextRun /\ nextRun < Landing
      BY <1>1, <1>2, <1>5, <1>6, <2>4
    <3>2. CASE u = 0
      <4>1. Short' = Short /\ Excess' <= Excess /\ Lack <= Lack'
        BY <1>1, <1>6, <1>8, <1>9, <2>1, <2>2, <3>1, <3>2
      <4> QED BY <1>2, <1>9, <2>1, <2>2, <4>1
    <3>3. CASE u # 0
      <4>1. u = Jump /\ nextRun < Change /\ Change <= now
        BY <3>1, <3>3 DEF Shift
      <4>2. Excess = 0 /\ Lack = OffStart /\ FirstRun < Change /\ Change <= Landing
        BY <1>1, <1>6, <2>2, <3>1, <4>1
      <4> QED BY <1>1, <1>2, <1>8, <1>9, <2>1, <3>3, <4>1, <4>2
    <3> QED BY <3>2, <3>3
  <2>5. CASE nextRun # FirstRun /\ ~Aligned(nextRun) /\ ArrivalHour # NoHour
    <3>1. /\ Change = nextRun /\ Jump = 1 /\ FirstRun < Change /\ Short <= OffStart
          /\ u \in {0, 1}
      BY <1>2, <1>5, <2>5
    <3> QED BY <1>1, <1>2, <1>6, <1>8, <1>9, <2>1, <2>2, <3>1
  <2> QED BY <2>3, <2>4, <2>5
<1>12. \/ Aligned(Landing)
       \/ Change <= Landing /\ ArrivalHour = NoHour
       \/ Change = Landing /\ Jump = 1 /\ FirstRun < Change /\ Short' <= OffStart
  <2>1. CASE ArrivalHour = NoHour
    <3>1. CASE Landing < Change
      <4>1. Aligned(nextRun) /\ Local(Landing) % Period = Hour
        BY <1>1, <1>4, <1>6, <2>1, <3>1
      <4> QED BY <2>1, <4>1 DEF Aligned, Hour
    <3> QED BY <1>1, <1>6, <2>1, <3>1
  <2>2. CASE ArrivalHour # NoHour
    <3>1. CASE Local(Landing) % Period = Hour
      BY <2>2, <3>1 DEF Aligned, Hour, ArrivalOf
    <3>2. CASE Jump = 1 /\ Landing = Change
      <4>1. Shift = 0 /\ nextRun < Change /\ FirstRun < Change
        BY <1>1, <1>2, <1>6, <3>2 DEF Shift
      <4>2. Short <= OffStart
        BY <1>1, <1>2, <1>9, <4>1 DEF Lack, Crossed
      <4>3. CASE Aligned(nextRun)
        BY <1>5, <1>8, <1>9, <3>2, <4>1, <4>2, <4>3
      <4>4. CASE ~Aligned(nextRun)
        <5>1. nextRun = FirstRun /\ Short = 0 /\ OffStart = 1
          BY <1>1, <1>2, <1>9, <1>10, <4>1, <4>4
        <5>2. Short' <= 1
          BY <1>5, <1>8, <5>1
        <5> QED BY <3>2, <4>1, <5>1, <5>2
      <4> QED BY <4>3, <4>4
    <3> QED BY <1>6, <3>1, <3>2
  <2> QED BY <2>1, <2>2
<1>13. FirstRun <= nextRun' /\ nextRun' # FirstRun
  BY <1>1, <1>6
<1>14. Aligned(nextRun') <=> Aligned(Landing)
  OBVIOUS
<1> QED BY <1>11, <1>12, <1>13, <1>14

\* Every step keeps it.
LEMMA NextCounts ==
  ASSUME TypeOK, Counted, [Next]_vars
  PROVE  Counted'
<1>0. UNCHANGED <<nextRun, advances, missed, disturbed>> => Counted'
  BY DEF Counted, Short, Excess, Lack, Crossed, OffStart, Occurrences, ArrivalOf, Local, Aligned
<1>1. ASSUME NEW c \in Clocks, Sweep(c) PROVE Counted'
  <2>1. CASE ArmsCatchUp
    BY <1>1, <2>1 DEF Sweep, Counted
  <2>2. CASE ~ArmsCatchUp
    BY <1>0, <1>1, <2>2 DEF Sweep
  <2> QED BY <2>1, <2>2
<1>2. ASSUME NEW c \in Clocks, Refuse(c) PROVE Counted'
  BY <1>2 DEF Refuse, Counted
<1>3. ASSUME NEW c \in Clocks, Advance(c) PROVE Counted'
  <2>1. CASE UNCHANGED <<nextRun, advances, missed, disturbed>>
    BY <1>0, <2>1
  <2>2. CASE disturbed' # {}
    BY <2>2 DEF Counted
  <2>3. CASE /\ nextRun <= now /\ nextRun' = Landing /\ missed' = missed + Skipped
             /\ advances' = advances + 1 /\ disturbed' = disturbed /\ disturbed = {}
    <3>1. /\ FirstRun <= nextRun'
          /\ Short' \in (Excess')..(Lack')
          /\ nextRun' # FirstRun
          /\ \/ Aligned(nextRun')
             \/ Change <= nextRun' /\ ArrivalHour = NoHour
             \/ Change = nextRun' /\ Jump = 1 /\ FirstRun < Change /\ Short' <= OffStart
      BY <2>3, AdvanceCounts
    <3>2. OffStart' = OffStart /\ Aligned(nextRun)' = Aligned(nextRun')
      BY DEF OffStart, ArrivalOf, Local, Aligned
    <3> QED BY <3>1, <3>2 DEF Counted
  <2> QED BY <1>3, <2>1, <2>2, <2>3 DEF Advance
<1>4. ASSUME NEW c \in Clocks, Tick(c), ~Sweep(c), ~Refuse(c), ~Advance(c)
      PROVE  Counted'
  BY <1>0, <1>4 DEF Tick, TryLock, CloseSession, Release, Select, Enqueue, clockVars, observers
<1>5. CASE Pass \/ (UNCHANGED vars) \/ \E d \in pending, s \in Outcomes : JobEnds(d, s)
  BY <1>0, <1>5 DEF Pass, JobEnds, vars, clockVars, observers
<1> QED BY <1>1, <1>2, <1>3, <1>4, <1>5 DEF Next

\* Nothing is short on a new schedule.
LEMMA InitCounts ==
  ASSUME Init, TypeOK
  PROVE  Counted
<1>1. Short = 0
  <2>1. Occurrences(FirstRun) \in Int
    BY CountTypes, Numbers
  <2> QED BY <2>1 DEF Init, Short
<1>2. FirstRun \in Nat /\ OffStart \in {0, 1}
  BY Numbers, CountTypes
<1>3. Excess \in {-1, 0} /\ Lack \in {OffStart, 1 + OffStart}
  BY DEF Excess, Lack
<1>4. Short \in Excess..Lack
  BY <1>1, <1>2, <1>3
<1>5. nextRun = FirstRun
  BY DEF Init
<1> QED BY <1>1, <1>2, <1>4, <1>5 DEF Counted

\* On a clock that is neither refused, caught up nor robbed of a write, what the
\* advances of any number of clocks step over is what missed_run_count says, up to
\* one occurrence for a first instant off the arrival hour and one for a change of
\* the zone's clock: for any period, arrival hour and first run (_advance_next_run).
THEOREM OccurrencesCounted == Spec => []EveryOccurrenceCounted
<1>1. Init /\ TypeOK => Counted
  BY InitCounts
<1>2. TypeOK /\ Counted /\ [Next]_vars => Counted'
  BY NextCounts
<1>3. Counted => EveryOccurrenceCounted
  BY DEF Counted, EveryOccurrenceCounted
<1>4. Init => TypeOK
  BY InitTypes
<1> QED BY <1>1, <1>2, <1>3, <1>4, ScheduleTypeCorrect, PTL DEF Spec

-----------------------------------------------------------------------------
(* A due instant is dispatched a second time only by overlapping ticks.  What *)
(* a clock selected is never ahead of the row, and what was fired is behind  *)
(* the row, or is the instant some clock is about to leave.                  *)

Holds(c) ==
  pc[c] \in {"due", "advance"} => seen[c] <= now /\ seen[c] <= nextRun

Behind ==
  "lost advance" \notin disturbed =>
    \A f \in fired :
      /\ f <= now
      /\ \/ f < nextRun
         \/ f = nextRun /\ \E c \in Clocks : pc[c] = "advance" /\ seen[c] = f

FiredInv == Behind /\ \A c \in Clocks : Holds(c)

\* What the provers need of the order of the hours.
LEMMA Order ==
  /\ \A a \in Nat : ~(a < a) /\ a <= a
  /\ \A a, b, c \in Nat : (a < b \/ a = b \/ a <= b) => (b < c => a < c /\ a <= c)
  /\ \A a, b \in Nat : a <= b => a < b + 1 /\ a <= b + 1 /\ (a < b \/ a = b)
OBVIOUS

\* A tick leaves behind the row what it made a job of ...
LEMMA TickDispatches ==
  ASSUME TypeOK, FiredInv, NEW c \in Clocks, Tick(c)
  PROVE  FiredInv'
<1>0. /\ nextRun \in Nat /\ now \in Nat /\ fired \subseteq Nat
      /\ pc \in [Clocks -> Labels] /\ seen \in [Clocks -> Nat]
  BY Numbers DEF TypeOK
<1>1. CASE TryLock(c) \/ CloseSession(c) \/ Release(c)
  <2>1. /\ UNCHANGED <<now, nextRun, seen, fired, disturbed>>
        /\ pc[c] # "advance" /\ pc'[c] \notin {"due", "advance"}
        /\ \A d \in Clocks \ {c} : pc'[d] = pc[d]
    BY <1>0, <1>1 DEF TryLock, CloseSession, Release, Goto, clockVars, observers
  <2> QED BY <1>0, <2>1 DEF FiredInv, Behind, Holds
<1>2. CASE Sweep(c)
  <2>1. /\ nextRun' \in {nextRun, now + 1} /\ UNCHANGED <<now, seen, fired>>
        /\ pc[c] = "sweep" /\ pc'[c] = "select"
        /\ \A d \in Clocks \ {c} : pc'[d] = pc[d]
        /\ "lost advance" \in disturbed => "lost advance" \in disturbed'
    BY <1>0, <1>2 DEF Sweep, Goto
  <2>2. CASE nextRun' = nextRun
    BY <1>0, <2>1, <2>2 DEF FiredInv, Behind, Holds
  <2>3. CASE nextRun' = now + 1
    <3>1. Behind'
      <4> SUFFICES ASSUME "lost advance" \notin disturbed', NEW f \in fired'
                   PROVE  f <= now' /\ f < nextRun'
        BY DEF Behind
      <4>1. f \in Nat /\ f <= now
        BY <1>0, <2>1 DEF FiredInv, Behind
      <4> QED BY <1>0, <2>1, <2>3, <4>1, Order, Zenon
    <3>2. ASSUME NEW d \in Clocks PROVE Holds(d)'
      <4> SUFFICES ASSUME pc'[d] \in {"due", "advance"}
                   PROVE  seen'[d] <= now' /\ seen'[d] <= nextRun'
        BY DEF Holds
      <4>1. seen[d] \in Nat /\ seen[d] <= now
        BY <1>0, <2>1 DEF FiredInv, Holds
      <4>2. seen[d] <= now + 1
        BY <1>0, <4>1
      <4> QED BY <2>1, <2>3, <4>1, <4>2
    <3> QED BY <3>1, <3>2 DEF FiredInv
  <2> QED BY <2>1, <2>2, <2>3
<1>3. CASE Select(c)
  <2>1. /\ UNCHANGED <<now, nextRun, fired, disturbed>>
        /\ pc[c] = "select" /\ pc'[c] # "advance" /\ seen'[c] = nextRun
        /\ pc'[c] = "due" => nextRun <= now
        /\ \A d \in Clocks \ {c} : pc'[d] = pc[d] /\ seen'[d] = seen[d]
    BY <1>0, <1>3 DEF Select, Goto, clockVars, observers
  <2>2. Behind'
    BY <1>0, <2>1 DEF FiredInv, Behind
  <2>3. nextRun <= nextRun
    BY <1>0
  <2>4. \A d \in Clocks : Holds(d)'
    BY <1>0, <2>1, <2>3 DEF FiredInv, Holds
  <2> QED BY <2>2, <2>4 DEF FiredInv
<1>4. CASE Enqueue(c)
  <2>1. /\ UNCHANGED <<now, nextRun, seen, disturbed>>
        /\ fired' \subseteq fired \cup {seen[c]}
        /\ pc[c] = "due" /\ pc'[c] = "advance"
        /\ \A d \in Clocks \ {c} : pc'[d] = pc[d]
    BY <1>0, <1>4 DEF Enqueue, Goto, clockVars
  <2>2. seen[c] \in Nat /\ seen[c] <= now /\ (seen[c] < nextRun \/ seen[c] = nextRun)
    BY <1>0, <2>1, Order DEF FiredInv, Holds
  <2>3. Behind'
    BY <1>0, <2>1, <2>2 DEF FiredInv, Behind
  <2> QED BY <1>0, <2>1, <2>2, <2>3 DEF FiredInv, Holds
<1>5. CASE Refuse(c)
  <2>1. /\ UNCHANGED <<now, nextRun, seen, fired>>
        /\ disturbed' = disturbed \cup {"refusal"}
        /\ pc[c] = "due" /\ pc'[c] = "release"
        /\ \A d \in Clocks \ {c} : pc'[d] = pc[d]
    BY <1>0, <1>5 DEF Refuse, Goto
  <2> QED BY <1>0, <2>1 DEF FiredInv, Behind, Holds
<1>6. CASE Advance(c)
  <2>1. /\ UNCHANGED <<now, seen, fired>> /\ pc[c] = "advance" /\ pc'[c] = "release"
        /\ \A d \in Clocks \ {c} : pc'[d] = pc[d]
    BY <1>0, <1>6 DEF Advance, Goto
  <2>2. \/ nextRun <= now /\ nextRun' = Landing /\ disturbed' = disturbed
        \/ nextRun > now /\ nextRun' = nextRun /\ disturbed' = disturbed
        \/ nextRun' = nextRun /\ "lost advance" \in disturbed'
    BY <1>6 DEF Advance
  <2>3. Landing \in Nat /\ Landing > nextRun
    BY LandsAhead
  <2>4. Behind'
    <3> SUFFICES ASSUME "lost advance" \notin disturbed', NEW f \in fired'
                 PROVE  f <= now' /\ f < nextRun'
      BY DEF Behind
    <3>1. /\ f \in Nat /\ f <= now /\ (f < nextRun \/ f = nextRun)
          /\ \/ nextRun' = Landing
             \/ nextRun > now /\ nextRun' = nextRun
      BY <1>0, <2>1, <2>2 DEF FiredInv, Behind
    <3>2. CASE nextRun' = Landing
      BY <1>0, <2>1, <2>3, <3>1, <3>2, Order, Zenon
    <3>3. CASE nextRun > now /\ nextRun' = nextRun
      <4>1. now < nextRun
        BY <1>0, <3>3
      <4> QED BY <1>0, <2>1, <3>1, <3>3, <4>1, Order, Zenon
    <3> QED BY <3>1, <3>2, <3>3
  <2>5. ASSUME NEW d \in Clocks PROVE Holds(d)'
    <3> SUFFICES ASSUME pc'[d] \in {"due", "advance"}
                 PROVE  seen'[d] <= now' /\ seen'[d] <= nextRun'
      BY DEF Holds
    <3>1. seen[d] \in Nat /\ seen[d] <= now /\ seen[d] <= nextRun
      BY <1>0, <2>1 DEF FiredInv, Holds
    <3>2. nextRun' \in {nextRun, Landing}
      BY <2>2
    <3> QED BY <1>0, <2>1, <2>3, <3>1, <3>2
  <2> QED BY <2>4, <2>5 DEF FiredInv
<1> QED BY <1>1, <1>2, <1>3, <1>4, <1>5, <1>6 DEF Tick

\* ... and no other step makes a job of the row.
LEMMA NextDispatches ==
  ASSUME TypeOK, FiredInv, [Next]_vars
  PROVE  FiredInv'
<1>1. CASE (UNCHANGED vars) \/ \E d \in pending, s \in Outcomes : JobEnds(d, s)
  <2>1. UNCHANGED <<now, nextRun, seen, pc, fired, disturbed>>
    BY <1>1 DEF vars, JobEnds, clockVars, tickVars, observers
  <2> QED BY <2>1 DEF FiredInv, Behind, Holds
<1>2. CASE Pass
  <2>1. now' = now + 1 /\ UNCHANGED <<nextRun, seen, pc, fired, disturbed>>
    BY <1>2 DEF Pass, clockVars, observers
  <2>2. now \in Nat /\ fired \subseteq Nat /\ seen \in [Clocks -> Nat]
    BY Numbers DEF TypeOK
  <2>3. \A f \in fired : f <= now => f <= now'
    BY <2>1, <2>2
  <2>4. \A c \in Clocks : seen[c] <= now => seen[c] <= now'
    BY <2>1, <2>2
  <2>5. Behind'
    BY <2>1, <2>3 DEF FiredInv, Behind
  <2>6. \A c \in Clocks : Holds(c)'
    BY <2>1, <2>4 DEF FiredInv, Holds
  <2> QED BY <2>5, <2>6 DEF FiredInv
<1> QED BY <1>1, <1>2, TickDispatches DEF Next

\* However many clocks tick over the row, whatever catch-ups and refusals come
\* between, a due instant gets a second job only from a SELECT older than the row or
\* beside a clock that has not advanced yet, until an advance is lost; a clock alone
\* never makes one (_dispatch_nightly_datastreams).
THEOREM DueOnce == Spec => DispatchedOnce
<1>1. Init => FiredInv
  BY DEF Init, FiredInv, Behind, Holds
<1>2. TypeOK /\ FiredInv /\ [Next]_vars => FiredInv'
  BY NextDispatches
<1>3. TypeOK /\ FiredInv /\ [Next]_vars =>
        [\A c \in Clocks :
           /\ pc[c] = "due" /\ pc'[c] = "advance"
           /\ Today \notin pending
           /\ "lost advance" \notin disturbed
           /\ seen[c] \in fired
           => \/ nextRun # seen[c]
              \/ \E d \in Clocks \ {c} : pc[d] = "advance" /\ seen[d] = seen[c]]_vars
  <2> SUFFICES ASSUME TypeOK, FiredInv, NEW c \in Clocks, pc[c] = "due",
                      "lost advance" \notin disturbed, seen[c] \in fired, nextRun = seen[c]
               PROVE  \E d \in Clocks \ {c} : pc[d] = "advance" /\ seen[d] = seen[c]
    OBVIOUS
  <2>1. nextRun \in Nat /\ ~(nextRun < nextRun)
    <3>1. nextRun \in Nat
      BY Numbers
    <3> QED BY <3>1, Order
  <2>2. PICK d \in Clocks : pc[d] = "advance" /\ seen[d] = seen[c]
    BY <2>1 DEF FiredInv, Behind
  <2>3. d # c
    BY <2>2
  <2> QED BY <2>2, <2>3
<1> QED BY <1>1, <1>2, <1>3, ScheduleTypeCorrect, PTL DEF Spec, DispatchedOnce
=============================================================================
