----------------------------- MODULE PullLedger -----------------------------
(***************************************************************************)
(* app.pull_jobs and the execution of one claimed pull job: what both      *)
(* queue backends share (server/core/queue.py, pull_job_states.py).        *)
(*                                                                         *)
(* Every action is one committed statement of the code, so other workers   *)
(* interleave exactly where the code lets go of the database.  After its   *)
(* claim a worker fences nothing: each later write says WHERE id = ..., and *)
(* a claim that outlived QUEUE_RUNNING_VISIBILITY_SECONDS may be handed to  *)
(* somebody else while its first owner is still inside the provider call.  *)
(***************************************************************************)
EXTENDS Naturals, FiniteSets

CONSTANTS
  Jobs,          \* the job ids that may be minted; < on ids is enqueued_at
  Keys,          \* (connection_ref_id, datastream_id, date_from, date_to)
  Platforms,     \* the connector modules that carry a quota
  PlatformOf,    \* the module each key is pulled through
  Workers,       \* polling threads, or push requests being served
  MaxAttempts,   \* QUEUE_MAX_ATTEMPTS
  SlowPulls,     \* may a live provider call outlive the visibility timeout?
  MaxFaults     \* bound: how many times a worker process may die

ASSUME LedgerAssumption ==
  /\ Jobs \subseteq Nat \ {0}
  /\ Keys # {}
  /\ PlatformOf \in [Keys -> Platforms]
  /\ MaxAttempts \in Nat \ {0}
  /\ SlowPulls \in BOOLEAN
  /\ MaxFaults \in Nat

VARIABLES
  state,         \* app.pull_jobs.state, "absent" before the INSERT
  key,           \* the four columns of uq_pull_jobs_active
  attempts,      \* app.pull_jobs.attempt_count
  overdue,       \* running rows whose started_at is past the visibility
  landed,        \* how many times the rows of the job's pull_id were landed
  tries,         \* observer: executions begun for the job
  at,            \* where each worker stands in _execute_job
  holds,         \* the job dict in the worker's hands
  attempt,       \* its local attempt_count
  toRecord,      \* ended jobs whose _record_window_outcome is still to run
  paused,        \* platforms whose quota.pre_check answers no
  faults        \* bounds Crash

rowVars    == <<state, key, attempts, overdue>>
workerVars == <<at, holds, attempt, toRecord>>
ledgerVars == <<rowVars, workerVars, landed, tries, paused, faults>>

-----------------------------------------------------------------------------
(* The registry of states (pull_job_states.py).                            *)

ActiveStates    == {"queued", "running"}
TerminalStates  == {"done", "failed", "dead_letter", "superseded",
                    "cancelled", "prevented"}
FailedStates    == {"failed", "dead_letter"}
JobStates       == ActiveStates \cup TerminalStates

Active(j)   == state[j] \in ActiveStates
Ended(j)    == state[j] \in TerminalStates
Platform(j) == PlatformOf[key[j]]

\* Mutant: the index covers queued rows only.
IndexFreeQueued(j, k) == \A i \in Jobs \ {j} : ~(state[i] = "queued" /\ key[i] = k)

\* uq_pull_jobs_active lets row j be active: no other active row has its key.
IndexFree(j, k) == \A i \in Jobs \ {j} : ~(Active(i) /\ key[i] = k)

NoJob == 0

InitLedger ==
  /\ state = [j \in Jobs |-> "absent"]
  /\ key = [j \in Jobs |-> CHOOSE k \in Keys : TRUE]   \* written by the INSERT
  /\ attempts = [j \in Jobs |-> 0]
  /\ overdue = {}
  /\ landed = [j \in Jobs |-> 0]
  /\ tries = [j \in Jobs |-> 0]
  /\ at = [w \in Workers |-> "idle"]
  /\ holds = [w \in Workers |-> NoJob]
  /\ attempt = [w \in Workers |-> 0]
  /\ toRecord = [w \in Workers |-> {}]
  /\ paused = {}
  /\ faults = 0

-----------------------------------------------------------------------------
(* Rows enter the ledger, and workers claim them.                          *)

\* INSERT ... ON CONFLICT DO NOTHING that wrote its row: no active row has k.
Insert(j, k) ==
  /\ state[j] = "absent"
  /\ IndexFree(j, k)
  /\ state' = [state EXCEPT ![j] = "queued"]
  /\ key' = [key EXCEPT ![j] = k]
  /\ UNCHANGED <<attempts, overdue>>

\* Mutant: the claim forgets WHERE state = 'queued'.
ClaimAnyRow(w, j) ==
  /\ at[w] = "idle"
  /\ state[j] # "absent"
  /\ state' = [state EXCEPT ![j] = "running"]
  /\ overdue' = overdue \ {j}
  /\ at' = [at EXCEPT ![w] = "claimed"]
  /\ holds' = [holds EXCEPT ![w] = j]
  /\ attempt' = [attempt EXCEPT ![w] = attempts[j]]
  /\ UNCHANGED <<key, attempts, toRecord, landed, tries, paused, faults>>

\* Mutant: the claim takes running rows too.
ClaimActiveRow(w, j) == Active(j) /\ ClaimAnyRow(w, j)

\* The claim of a queued row: one UPDATE, committed before it is returned.
Claim(w, j) ==
  /\ at[w] = "idle"
  /\ state[j] = "queued"
  /\ state' = [state EXCEPT ![j] = "running"]
  /\ overdue' = overdue \ {j}                      \* started_at = now()
  /\ at' = [at EXCEPT ![w] = "claimed"]
  /\ holds' = [holds EXCEPT ![w] = j]
  /\ attempt' = [attempt EXCEPT ![w] = attempts[j]]
  /\ UNCHANGED <<key, attempts, toRecord, landed, tries, paused, faults>>

-----------------------------------------------------------------------------
(* _execute_job, one step per committed statement.                         *)

\* _finish_job: an unfenced UPDATE to s, committed before the run is told.
FinishJob(w, s) ==
  /\ state' = [state EXCEPT ![holds[w]] = s]
  /\ overdue' = overdue \ {holds[w]}
  /\ at' = [at EXCEPT ![w] = "recording"]
  /\ toRecord' = [toRecord EXCEPT ![w] = {holds[w]}]
  /\ holds' = [holds EXCEPT ![w] = NoJob]
  /\ attempt' = [attempt EXCEPT ![w] = 0]
  /\ UNCHANGED <<key, attempts>>

\* An unfenced UPDATE back to 'queued'.  When the row had been ended under this
\* worker and its window re-enqueued, the index refuses and the row stays.
Requeue(w) ==
  /\ IF IndexFree(holds[w], key[holds[w]])
       THEN /\ state' = [state EXCEPT ![holds[w]] = "queued"]
            /\ overdue' = overdue \ {holds[w]}
       ELSE UNCHANGED <<state, overdue>>
  /\ at' = [at EXCEPT ![w] = "idle"]
  /\ holds' = [holds EXCEPT ![w] = NoJob]
  /\ attempt' = [attempt EXCEPT ![w] = 0]
  /\ UNCHANGED <<key, attempts, toRecord>>

\* quota.pre_check said no: back to the queue, no attempt spent.
QuotaBlock(w) ==
  /\ at[w] = "claimed"
  /\ Platform(holds[w]) \in paused
  /\ Requeue(w)
  /\ UNCHANGED <<landed, tries, paused, faults>>

\* pre_check said yes: attempt_count is overwritten with the claimed value + 1.
BeginAttempt(w) ==
  /\ at[w] = "claimed"
  /\ Platform(holds[w]) \notin paused
  /\ at' = [at EXCEPT ![w] = "calling"]
  /\ attempt' = [attempt EXCEPT ![w] = @ + 1]
  /\ attempts' = [attempts EXCEPT ![holds[w]] = attempt[w] + 1]
  /\ tries' = [tries EXCEPT ![holds[w]] = @ + 1]
  /\ UNCHANGED <<state, key, overdue, holds, toRecord, landed, paused, faults>>

\* quota.record_spend may have emptied the bucket of the job's platform.
Spend(w) == \E spent \in {{}, {Platform(holds[w])}} : paused' = paused \cup spent

\* The provider answered and the connector appended the rows of this pull_id.
LandRows(w) ==
  /\ at[w] = "calling"
  /\ at' = [at EXCEPT ![w] = "landed"]
  /\ landed' = [landed EXCEPT ![holds[w]] = @ + 1]
  /\ Spend(w)
  /\ UNCHANGED <<rowVars, holds, attempt, toRecord, tries, faults>>

Succeed(w) ==
  /\ at[w] = "landed"
  /\ FinishJob(w, "done")
  /\ UNCHANGED <<landed, tries, paused, faults>>

\* A grant the source has not given: returned as an envelope (the round trip
\* is charged) or raised as a marked error (it is not).
Prevent(w) ==
  /\ at[w] = "calling"
  /\ FinishJob(w, "prevented")
  /\ Spend(w)
  /\ UNCHANGED <<landed, tries, faults>>

\* No connection, or an account only a person can choose: never retried.
Refuse(w) ==
  /\ at[w] = "calling"
  /\ FinishJob(w, "dead_letter")
  /\ UNCHANGED <<landed, tries, paused, faults>>

FailureState(w) == IF attempt[w] >= MaxAttempts THEN "dead_letter" ELSE "failed"

\* Any other error of the provider or the code, before or after the rows landed:
\* terminal, whatever the count.
Fail(w) ==
  /\ at[w] \in {"calling", "landed"}
  /\ FinishJob(w, FailureState(w))
  /\ UNCHANGED <<landed, tries, paused, faults>>

\* Mutant: the ceiling is checked one attempt late.
RateLimitedLate(w) ==
  /\ at[w] = "calling"
  /\ paused' = paused \cup {Platform(holds[w])}
  /\ IF attempt[w] > MaxAttempts THEN FinishJob(w, "dead_letter") ELSE Requeue(w)
  /\ UNCHANGED <<landed, tries, faults>>

\* HTTP 429: the breaker opens; the job is requeued until its attempts are spent.
RateLimited(w) ==
  /\ at[w] = "calling"
  /\ paused' = paused \cup {Platform(holds[w])}
  /\ IF attempt[w] >= MaxAttempts THEN FinishJob(w, "dead_letter") ELSE Requeue(w)
  /\ UNCHANGED <<landed, tries, faults>>

\* _record_window_outcome, after the commit that ended the window.
LeaveRecording(w, j) ==
  /\ j \in toRecord[w]
  /\ toRecord' = [toRecord EXCEPT ![w] = @ \ {j}]
  /\ at' = [at EXCEPT ![w] = IF toRecord[w] = {j} THEN "idle" ELSE "recording"]
  /\ UNCHANGED <<rowVars, holds, attempt, landed, tries, paused>>

Record(w, j) == LeaveRecording(w, j) /\ UNCHANGED faults

ExecuteStep(w) ==
  \/ QuotaBlock(w) \/ BeginAttempt(w) \/ LandRows(w) \/ Succeed(w)
  \/ Prevent(w) \/ Refuse(w) \/ Fail(w) \/ RateLimited(w)

-----------------------------------------------------------------------------
(* Deaths, time, and the sweep of stale claims.                            *)

\* The process dies (and is started again): what it knew is gone, rows stay.
Crash(w) ==
  /\ at[w] # "idle"
  /\ faults < MaxFaults
  /\ faults' = faults + 1
  /\ at' = [at EXCEPT ![w] = "idle"]
  /\ holds' = [holds EXCEPT ![w] = NoJob]
  /\ attempt' = [attempt EXCEPT ![w] = 0]
  /\ toRecord' = [toRecord EXCEPT ![w] = {}]
  /\ UNCHANGED <<rowVars, landed, tries, paused>>

\* QUEUE_RUNNING_VISIBILITY_SECONDS pass since the row was claimed.
Overdue(j) ==
  /\ state[j] = "running"
  /\ j \notin overdue
  /\ overdue' = overdue \cup {j}
  /\ \/ /\ \A w \in Workers : holds[w] # j
        /\ UNCHANGED faults
     \/ /\ \E w \in Workers : holds[w] = j
        /\ SlowPulls /\ faults < MaxFaults
        /\ faults' = faults + 1
  /\ UNCHANGED <<state, key, attempts, workerVars, landed, tries, paused>>

\* Mutants: the sweep ignores the visibility timeout; it looks for queued rows.
StaleAnyClaim == {j \in Jobs : state[j] = "running"}
StaleQueued   == {j \in overdue : state[j] = "queued"}

Stale == {j \in overdue : state[j] = "running"}
Spent == {j \in Stale : attempts[j] + 1 >= MaxAttempts}

\* recover_stale_running_jobs: one bulk UPDATE, then the runs of the dead ones.
RecoverStale(w) ==
  /\ at[w] = "idle"
  /\ Stale # {}
  /\ state' = [j \in Jobs |-> IF j \in Spent THEN "dead_letter"
                              ELSE IF j \in Stale THEN "queued" ELSE state[j]]
  /\ attempts' = [j \in Jobs |-> IF j \in Stale THEN attempts[j] + 1 ELSE attempts[j]]
  /\ overdue' = overdue \ Stale
  /\ toRecord' = [toRecord EXCEPT ![w] = Spent]
  /\ at' = [at EXCEPT ![w] = IF Spent = {} THEN "idle" ELSE "recording"]
  /\ UNCHANGED <<key, holds, attempt, landed, tries, paused, faults>>

\* The quota window rolls over, or the breaker's recovery window elapses.
Resume(p) ==
  /\ p \in paused
  /\ paused' = paused \ {p}
  /\ UNCHANGED <<rowVars, workerVars, landed, tries, faults>>

-----------------------------------------------------------------------------
LedgerTypeOK ==
  /\ state \in [Jobs -> JobStates \cup {"absent"}]
  /\ key \in [Jobs -> Keys]
  /\ attempts \in [Jobs -> Nat]
  /\ overdue \subseteq Jobs
  /\ landed \in [Jobs -> Nat]
  /\ tries \in [Jobs -> Nat]
  /\ at \in [Workers -> {"idle", "claimed", "calling", "landed", "recording"}]
  /\ holds \in [Workers -> Jobs \cup {NoJob}]
  /\ attempt \in [Workers -> Nat]
  /\ toRecord \in [Workers -> SUBSET Jobs]
  /\ paused \subseteq Platforms
  /\ faults \in 0..MaxFaults

(* What both backends owe their callers. *)

\* Two active rows never cover one (connection, Datastream, window): a double
\* click, a zombie's requeue and the sweep all go through uq_pull_jobs_active.
OneActivePerKey ==
  \A i, j \in Jobs : i # j /\ Active(i) /\ Active(j) => key[i] # key[j]

\* While no pull outlives the visibility timeout, whoever is executing a job
\* owns a running row nobody else is executing: no claim, no redelivered task and
\* no sweep hands it over.
ExclusiveOwner ==
  \A w \in Workers : holds[w] # NoJob =>
    /\ state[holds[w]] = "running"
    /\ \A v \in Workers \ {w} : holds[v] # holds[w]

\* An execution is begun at most MaxAttempts times per job, across requeues on
\* 429 and faults recovered by the sweep ("must die rather than loop").
AttemptBudget == \A j \in Jobs : tries[j] <= MaxAttempts

\* The ledger keeps PullPromise, whatever is retried, recovered, lost or
\* delivered twice: an absent row is no window yet, an active one is open, a
\* terminal one has ended.
Phase(j) == CASE state[j] = "absent" -> "none"
              [] Active(j)           -> "open"
              [] OTHER               -> "ended"
Promise == INSTANCE PullPromise WITH
             phase <- [j \in Jobs |-> Phase(j)], covers <- key, rows <- landed
KeepsPromise == Promise!Spec
=============================================================================
