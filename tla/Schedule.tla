------------------------------ MODULE Schedule ------------------------------
(***************************************************************************)
(* The clock of one nightly Datastream (server/core/scheduler.py): the     *)
(* ticks that dispatch what is due, the advance of next_run_at, the        *)
(* ledger of missed occurrences, the catch-up after a failed pull, and the *)
(* advisory lock meant to keep two instances from ticking together.        *)
(*                                                                         *)
(* Instants are UTC, counted in hours; the project's zone changes its      *)
(* clock once, or never.  The queue behind enqueue_pull (LocalQueue)       *)
(* appears as the set of local days whose window is queued or running.     *)
(***************************************************************************)
EXTENDS Integers, FiniteSets

CONSTANTS
  Clocks,        \* processes running run_nightly_steps or run_hourly_steps
  HourlyClocks,  \* those of them that run the catch-up sweep first
  Period,        \* hours of a day, the nightly step of _ADVANCE_STEPS
  ArrivalHour,   \* arrival_hour_local, or NoHour when the row names none
  NoHour,
  FirstRun,      \* next_run_at as activation wrote it: its own instant, often
  Change,        \* the instant the zone changes its clock
  Jump,          \* by so many hours: forward, backward, or not at all
  Horizon,       \* bound: the last hour the model looks at
  Outcomes,      \* how a pull may end
  Refusals,      \* may a due occurrence be refused by a gate or the enqueue?
  LossyWrites    \* may the best-effort writes of the clock fail?

JobOutcomes == {"done", "failed", "dead_letter", "swept", "prevented", "cancelled"}

ASSUME ScheduleAssumption ==
  /\ HourlyClocks \subseteq Clocks
  /\ Period \in Nat \ {0, 1}
  /\ ArrivalHour \in 0..(Period - 1) \cup {NoHour}
  /\ NoHour \notin Int
  /\ FirstRun \in Nat
  /\ Change \in Nat \ {0}
  /\ Jump \in {-1, 0, 1}
  /\ Horizon \in Nat /\ FirstRun <= Horizon
  /\ Outcomes \subseteq JobOutcomes
  /\ Refusals \in BOOLEAN
  /\ LossyWrites \in BOOLEAN

VARIABLES
  now,
  nextRun,      \* datastream_schedule_state.next_run_at
  missed,       \* .missed_run_count
  retryCount,   \* .retry_count
  pending,      \* days whose window is queued or running
  latest,       \* last attempted pull that wrote completed_at: state and hour
  unseen,       \* is that completed_at later than the row's updated_at?
  lock,         \* session holding the advisory lock, "free" when none does
  ticked,       \* the clocks whose tick of this hour was begun
  pc,           \* where each clock stands in its tick
  seen,         \* the next_run_at its due SELECT read
  advances,     \* observer: advances written
  fired,        \* observer: the due instants a job was created for
  disturbed,    \* observer: what kept the clock from its plain course
  armed         \* observer: catch-ups armed since the last pull that succeeded

clockVars == <<nextRun, missed, retryCount, unseen>>
tickVars  == <<lock, ticked, pc, seen>>
observers == <<advances, fired, disturbed, armed>>
vars == <<now, clockVars, pending, latest, tickVars, observers>>

Failed    == {"failed", "dead_letter"}
Attempted == {"done", "failed", "dead_letter", "prevented"}

Init ==
  /\ now = FirstRun
  /\ nextRun = FirstRun
  /\ missed = 0
  /\ retryCount = 0
  /\ pending = {}
  /\ latest = [state |-> "none", at |-> 0]
  /\ unseen = FALSE
  /\ lock = "free"
  /\ ticked = {}
  /\ pc = [c \in Clocks |-> "idle"]
  /\ seen = [c \in Clocks |-> FirstRun]
  /\ advances = 0
  /\ fired = {}
  /\ disturbed = {}
  /\ armed = 0

Goto(c, label) == pc' = [pc EXCEPT ![c] = label]

\* AT TIME ZONE, both ways: a local hour the change skips is read by the offset
\* before it, one it repeats by the offset after it.
Local(t) == IF t < Change THEN t ELSE t + Jump
Utc(l)   == IF l < Change + Jump THEN l ELSE l - Jump

-----------------------------------------------------------------------------
(* The advisory lock.                                                      *)

\* The scheduler calls the step once an hour.  pg_try_advisory_lock answers FALSE
\* when another session holds the lock, and the tick skips.
TryLock(c) ==
  /\ pc[c] = "idle"
  /\ c \notin ticked
  /\ ticked' = ticked \cup {c}
  /\ IF lock = "free" THEN lock' = c /\ Goto(c, "locked") ELSE UNCHANGED <<lock, pc>>
  /\ UNCHANGED <<now, clockVars, pending, latest, seen, observers>>

\* The with block of get_connection closes the session that took the lock, and
\* Postgres releases a session's advisory locks with it.
CloseSession(c) ==
  /\ pc[c] = "locked"
  /\ lock' = "free"
  /\ Goto(c, IF c \in HourlyClocks THEN "sweep" ELSE "select")
  /\ UNCHANGED <<now, clockVars, pending, latest, ticked, seen, observers>>

\* pg_advisory_unlock from yet another session: it holds nothing to release.
Release(c) ==
  /\ pc[c] = "release"
  /\ Goto(c, "idle")
  /\ UNCHANGED <<now, clockVars, pending, latest, lock, ticked, seen, observers>>

-----------------------------------------------------------------------------
(* _reschedule_failed_pulls: arm one catch-up, or clear the allowance.     *)

Recent == latest.at > now - 2 * Period

\* Mutant: the allowance of one is not checked.
ArmsEveryTime == latest.state \in Failed /\ Recent /\ unseen

ArmsCatchUp  == latest.state \in Failed /\ Recent /\ retryCount = 0 /\ unseen
ClearsRetry  == latest.state = "done" /\ Recent /\ retryCount > 0

Sweep(c) ==
  /\ pc[c] = "sweep"
  /\ nextRun' = IF ArmsCatchUp THEN now + 1 ELSE nextRun
  /\ retryCount' = CASE ArmsCatchUp -> retryCount + 1
                     [] ClearsRetry -> 0
                     [] OTHER       -> retryCount
  /\ unseen' = (unseen /\ ~ArmsCatchUp /\ ~ClearsRetry)
  /\ armed' = IF ArmsCatchUp THEN armed + 1 ELSE armed
  /\ disturbed' = IF ArmsCatchUp THEN disturbed \cup {"catch-up"} ELSE disturbed
  /\ Goto(c, "select")
  /\ UNCHANGED <<now, missed, pending, latest, lock, ticked, seen, advances, fired>>

-----------------------------------------------------------------------------
(* _dispatch_nightly_datastreams, for this Datastream.                     *)

\* The due SELECT; it locks nothing.
Select(c) ==
  /\ pc[c] = "select"
  /\ Goto(c, IF nextRun <= now THEN "due" ELSE "release")
  /\ seen' = [seen EXCEPT ![c] = nextRun]
  /\ UNCHANGED <<now, clockVars, pending, latest, lock, ticked, observers>>

Today == Local(now) \div Period

\* The window is the project's yesterday: an active one is deduplicated, and
\* either way the answer counts as enqueued.
Enqueue(c) ==
  /\ pc[c] = "due"
  /\ pending' = pending \cup {Today}
  /\ fired' = IF Today \in pending THEN fired ELSE fired \cup {seen[c]}
  /\ Goto(c, "advance")
  /\ UNCHANGED <<now, clockVars, latest, lock, ticked, seen, advances, disturbed, armed>>

\* The gate, or enqueue_pull, refused what was due: _record_missed_run.
Refuse(c) ==
  /\ Refusals
  /\ pc[c] = "due"
  /\ \/ missed' = missed + 1 /\ unseen' = FALSE
     \/ LossyWrites /\ UNCHANGED <<missed, unseen>>
  /\ disturbed' = disturbed \cup {"refusal"}
  /\ Goto(c, "release")
  /\ UNCHANGED <<now, nextRun, retryCount, pending, latest, lock, ticked, seen, advances,
                 fired, armed>>

Later(a, b) == IF a > b THEN a ELSE b

\* Mutant: the advance adds a period to the previous value.
Accumulated == nextRun + Period

\* Where the advance lands: the arrival hour of the local day of the later of the
\* row and now, one period on when that hour is not ahead of it.
Landing ==
  LET reference == Local(Later(nextRun, now))
      hour == IF ArrivalHour = NoHour THEN Local(nextRun) % Period ELSE ArrivalHour
      arrival == reference - (reference % Period) + hour
  IN  Utc(IF arrival > reference THEN arrival ELSE arrival + Period)

\* Mutants: the jump is silent; the occurrence dispatched now is discounted twice.
SkippedSilently == 0
SkippedLessOne  == (now - nextRun) \div Period - 1

\* The occurrences one advance steps over, by the hours elapsed.
Skipped == (now - nextRun) \div Period

\* Mutant: a row due this very hour is not moved.
AdvanceOverdue(c) ==
  /\ pc[c] = "advance"
  /\ \/ /\ nextRun < now
        /\ nextRun' = Landing
        /\ missed' = missed + Skipped
        /\ unseen' = FALSE
        /\ advances' = advances + 1
        /\ UNCHANGED disturbed
     \/ /\ nextRun >= now
        /\ UNCHANGED <<nextRun, missed, unseen, advances, disturbed>>
  /\ Goto(c, "release")
  /\ UNCHANGED <<now, retryCount, pending, latest, lock, ticked, seen, fired, armed>>

\* _advance_next_run, right after the enqueue: only a row still due moves.
Advance(c) ==
  /\ pc[c] = "advance"
  /\ \/ /\ nextRun <= now
        /\ nextRun' = Landing
        /\ missed' = missed + Skipped
        /\ unseen' = FALSE
        /\ advances' = advances + 1
        /\ UNCHANGED disturbed
     \/ /\ nextRun > now
        /\ UNCHANGED <<nextRun, missed, unseen, advances, disturbed>>
     \/ /\ nextRun <= now /\ LossyWrites
        /\ disturbed' = disturbed \cup {"lost advance"}
        /\ UNCHANGED <<nextRun, missed, unseen, advances>>
  /\ Goto(c, "release")
  /\ UNCHANGED <<now, retryCount, pending, latest, lock, ticked, seen, fired, armed>>

Tick(c) ==
  \/ TryLock(c) \/ CloseSession(c) \/ Release(c) \/ Sweep(c)
  \/ Select(c) \/ Enqueue(c) \/ Refuse(c) \/ Advance(c)

-----------------------------------------------------------------------------
(* The pulls and the passing hours.                                        *)

\* A window ends.  "swept" is the dead_letter recover_stale_running_jobs writes:
\* a failure without completed_at.  What was never run is not an attempt.
JobEnds(d, s) ==
  /\ d \in pending
  /\ s \in Outcomes
  /\ pending' = pending \ {d}
  /\ IF s \in Attempted
       THEN latest' = [state |-> s, at |-> now] /\ unseen' = TRUE
       ELSE UNCHANGED <<latest, unseen>>
  /\ armed' = IF s = "done" THEN 0 ELSE armed
  /\ UNCHANGED <<now, nextRun, missed, retryCount, tickVars, advances, fired, disturbed>>

Pass ==
  /\ now < Horizon
  /\ now' = now + 1
  /\ ticked' = {}
  /\ UNCHANGED <<clockVars, pending, latest, lock, pc, seen, observers>>

Next ==
  \/ \E c \in Clocks : Tick(c)
  \/ \E d \in pending, s \in Outcomes : JobEnds(d, s)
  \/ Pass

Spec == Init /\ [][Next]_vars

-----------------------------------------------------------------------------
Labels == {"idle", "locked", "sweep", "select", "due", "advance", "release"}

TypeOK ==
  /\ now \in FirstRun..Horizon
  /\ nextRun \in Nat
  /\ missed \in Nat
  /\ retryCount \in 0..1
  /\ pending \subseteq Nat
  /\ latest \in [state : Attempted \cup {"none"}, at : 0..Horizon]
  /\ unseen \in BOOLEAN
  /\ lock \in Clocks \cup {"free"}
  /\ ticked \subseteq Clocks
  /\ pc \in [Clocks -> Labels]
  /\ seen \in [Clocks -> Nat]
  /\ advances \in Nat
  /\ fired \subseteq Nat
  /\ disturbed \subseteq {"catch-up", "refusal", "lost advance"}
  /\ armed \in Nat

\* "One extra attempt until a pull succeeds": however failures, refusals and
\* dispatches interleave, two catch-ups never follow each other without a success.
CatchUpOnce == armed <= 1

\* A catch-up "hands the schedule back to tomorrow's arrival hour": the clock
\* only ever moves forward, to the arrival hour of the project's zone or to the one
\* catch-up.  The one arrival hour that the zone skips is kept an hour later.
SkippedHour == Jump = 1 /\ nextRun = Change /\ Change % Period = ArrivalHour

BackToArrivalHour ==
  [][nextRun' # nextRun =>
       /\ nextRun' > now
       /\ ArrivalHour # NoHour /\ retryCount' = retryCount
            => Local(nextRun') % Period = ArrivalHour \/ SkippedHour']_vars

\* With the advance right after the enqueue, one due instant gets a second job only
\* when two ticks overlap: the SELECT that found it due is older than the row, or
\* the other clock stands between its enqueue and its advance.  A tick that reads
\* the row later finds it moved, unless the advance was lost.
DispatchedOnce ==
  [][\A c \in Clocks :
       /\ pc[c] = "due" /\ pc'[c] = "advance"
       /\ Today \notin pending
       /\ "lost advance" \notin disturbed
       /\ seen[c] \in fired
       => \/ nextRun # seen[c]
          \/ \E d \in Clocks \ {c} : pc[d] = "advance" /\ seen[d] = seen[c]]_vars

\* The arrival hours on the local calendar up to instant t.
ArrivalOf == IF ArrivalHour = NoHour THEN Local(FirstRun) % Period ELSE ArrivalHour
Occurrences(t) == (Local(t) - ArrivalOf) \div Period

\* The occurrences that were neither dispatched nor counted as missed.
Short == Occurrences(nextRun) - Occurrences(FirstRun) - (advances + missed)

\* What the count by elapsed hours can be out: one occurrence when activation wrote
\* an instant that is not the arrival hour, one when the clocks changed on the way.
OffStart == IF Local(FirstRun) % Period = ArrivalOf THEN 0 ELSE 1
Crossed  == FirstRun < Change /\ Change <= nextRun
Excess   == IF Crossed /\ Jump = -1 THEN -1 ELSE 0
Lack     == IF Crossed /\ Jump = 1 THEN 1 + OffStart ELSE OffStart

\* On a clock without refusals and catch-ups, every occurrence before the next one
\* was either dispatched or counted as missed, and none twice, however many hours
\* no tick ran in; exactly, on a row that starts at its arrival hour in a zone whose
\* clock does not change.
EveryOccurrenceCounted == disturbed = {} => Short \in Excess..Lack

\* Two instances never run their steps at the same time.
Inside(c) == pc[c] \notin {"idle", "locked"}
OneInstanceTicks == \A c, d \in Clocks : c # d => ~(Inside(c) /\ Inside(d))
=============================================================================
