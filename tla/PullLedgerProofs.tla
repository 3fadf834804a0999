-------------------------- MODULE PullLedgerProofs --------------------------
(***************************************************************************)
(* What every step of the ledger preserves, whichever backend takes it.    *)
(* LocalQueueProofs and PushQueueProofs show that each action of their     *)
(* queue is such a step, and conclude for every number of jobs, keys,      *)
(* workers, enqueuers, attempts and faults.                                *)
(***************************************************************************)
EXTENDS PullLedger, TLAPS

\* A row enters the ledger and nothing else moves.
Enter(j, k) == Insert(j, k) /\ UNCHANGED <<workerVars, landed, tries, paused, faults>>

\* What both backends do to the ledger, and what only the local one adds.
LedgerMove ==
  \/ \E w \in Workers : \/ ExecuteStep(w) \/ Crash(w)
                        \/ \E j \in Jobs : Claim(w, j) \/ Record(w, j)
  \/ \E j \in Jobs, k \in Keys : Enter(j, k)
  \/ \E p \in Platforms : Resume(p)

LedgerNext ==
  \/ LedgerMove
  \/ \E w \in Workers : RecoverStale(w)
  \/ \E j \in Jobs : Overdue(j)

\* A worker has a job in its hands exactly while it executes one, and runs to
\* tell only between two jobs.
Executing == {"claimed", "calling", "landed"}
Hands ==
  \A w \in Workers : /\ at[w] \in Executing <=> holds[w] \in Jobs
                     /\ toRecord[w] # {} => at[w] = "recording"
LedgerInv == LedgerTypeOK /\ Hands

-----------------------------------------------------------------------------
(* Types.                                                                  *)

\* An empty ledger, with idle workers.
LEMMA LedgerInvInit == InitLedger => LedgerInv
BY LedgerAssumption
DEF InitLedger, LedgerInv, LedgerTypeOK, Hands, Executing, NoJob, JobStates

\* Ending a job writes values the columns accept ...
LEMMA FinishJobType ==
  ASSUME LedgerInv, NEW w \in Workers, at[w] \in Executing,
         NEW s \in JobStates, FinishJob(w, s)
  PROVE  /\ rowVars' = <<state', key, attempts, overdue'>>
         /\ state' \in [Jobs -> JobStates \cup {"absent"}]
         /\ overdue' \subseteq Jobs
         /\ at' \in [Workers -> Executing \cup {"idle", "recording"}]
         /\ holds' \in [Workers -> Jobs \cup {NoJob}]
         /\ attempt' \in [Workers -> Nat]
         /\ toRecord' \in [Workers -> SUBSET Jobs]
         /\ Hands'
BY LedgerAssumption
DEF LedgerInv, LedgerTypeOK, Hands, Executing, NoJob, FinishJob, rowVars

\* ... so does requeueing it, whether or not the index lets it.
LEMMA RequeueType ==
  ASSUME LedgerInv, NEW w \in Workers, at[w] \in Executing, Requeue(w)
  PROVE  /\ rowVars' = <<state', key, attempts, overdue'>>
         /\ toRecord' = toRecord
         /\ state' \in [Jobs -> JobStates \cup {"absent"}]
         /\ overdue' \subseteq Jobs
         /\ at' \in [Workers -> Executing \cup {"idle", "recording"}]
         /\ holds' \in [Workers -> Jobs \cup {NoJob}]
         /\ attempt' \in [Workers -> Nat]
         /\ Hands'
BY LedgerAssumption
DEF LedgerInv, LedgerTypeOK, Hands, Executing, NoJob, Requeue, rowVars, JobStates,
    ActiveStates

\* A job in a worker's hands is pulled through a platform.
LEMMA PlatformType ==
  ASSUME LedgerInv, NEW w \in Workers, at[w] \in Executing
  PROVE  Platform(holds[w]) \in Platforms
BY LedgerAssumption DEF LedgerInv, LedgerTypeOK, Hands, Platform

\* Each exit of _execute_job keeps the types ...
LEMMA ExecuteType ==
  ASSUME LedgerInv, NEW w \in Workers, ExecuteStep(w)
  PROVE  LedgerInv'
<1> USE LedgerAssumption
<1>0. at[w] \in Executing
  BY DEF ExecuteStep, QuotaBlock, BeginAttempt, LandRows, Succeed, Prevent, Refuse, Fail,
         RateLimited, Executing
<1>1. holds[w] \in Jobs /\ Platform(holds[w]) \in Platforms
  BY <1>0, PlatformType DEF LedgerInv, Hands
<1>2. CASE QuotaBlock(w)
  BY <1>0, <1>2, RequeueType
  DEF LedgerInv, LedgerTypeOK, QuotaBlock, Executing, rowVars
<1>3. CASE BeginAttempt(w)
  <2>1. attempt[w] + 1 \in Nat /\ tries[holds[w]] + 1 \in Nat
    <3>1. attempt[w] \in Nat /\ tries[holds[w]] \in Nat
      BY <1>1 DEF LedgerInv, LedgerTypeOK
    <3> QED BY <3>1
  <2>2. LedgerTypeOK'
    BY <1>1, <1>3, <2>1 DEF LedgerInv, LedgerTypeOK, BeginAttempt
  <2>3. Hands'
    BY <1>3 DEF LedgerInv, LedgerTypeOK, Hands, Executing, BeginAttempt
  <2> QED BY <2>2, <2>3 DEF LedgerInv
<1>4. CASE LandRows(w)
  <2>1. landed[holds[w]] + 1 \in Nat
    <3>1. landed[holds[w]] \in Nat
      BY <1>1 DEF LedgerInv, LedgerTypeOK
    <3> QED BY <3>1
  <2>2. landed' \in [Jobs -> Nat]
    BY <1>1, <1>4, <2>1 DEF LedgerInv, LedgerTypeOK, LandRows
  <2>3. paused' \subseteq Platforms
    BY <1>1, <1>4 DEF LedgerInv, LedgerTypeOK, LandRows, Spend
  <2>4. at' = [at EXCEPT ![w] = "landed"]
        /\ UNCHANGED <<rowVars, holds, attempt, toRecord, tries, faults>>
        /\ at[w] = "calling"
    BY <1>4 DEF LandRows
  <2> QED
    BY <2>2, <2>3, <2>4 DEF LedgerInv, LedgerTypeOK, Hands, Executing, rowVars
<1>5. CASE Succeed(w)
  BY <1>0, <1>5, FinishJobType
  DEF LedgerInv, LedgerTypeOK, Executing, Succeed, rowVars, JobStates, TerminalStates
<1>6. CASE Prevent(w)
  BY <1>0, <1>1, <1>6, FinishJobType
  DEF LedgerInv, LedgerTypeOK, Executing, Prevent, Spend, rowVars, JobStates,
      TerminalStates
<1>7. CASE Refuse(w)
  BY <1>0, <1>7, FinishJobType
  DEF LedgerInv, LedgerTypeOK, Executing, Refuse, rowVars, JobStates, TerminalStates
<1>8. CASE Fail(w)
  BY <1>0, <1>8, FinishJobType
  DEF LedgerInv, LedgerTypeOK, Executing, Fail, FailureState, rowVars, JobStates,
      TerminalStates
<1>9. CASE RateLimited(w)
  <2>1. paused' \subseteq Platforms /\ UNCHANGED <<landed, tries, faults>>
    BY <1>1, <1>9 DEF RateLimited, LedgerInv, LedgerTypeOK
  <2>2. CASE FinishJob(w, "dead_letter")
    BY <1>0, <2>1, <2>2, FinishJobType
    DEF LedgerInv, LedgerTypeOK, Executing, rowVars, JobStates, TerminalStates
  <2>3. CASE Requeue(w)
    BY <1>0, <2>1, <2>3, RequeueType DEF LedgerInv, LedgerTypeOK, Executing, rowVars
  <2> QED BY <1>9, <2>2, <2>3 DEF RateLimited
<1> QED
  BY <1>2, <1>3, <1>4, <1>5, <1>6, <1>7, <1>8, <1>9 DEF ExecuteStep

\* ... and so does every step of the ledger.
LEMMA LedgerInvStep == LedgerInv /\ [LedgerNext]_ledgerVars => LedgerInv'
<1> SUFFICES ASSUME LedgerInv, [LedgerNext]_ledgerVars PROVE LedgerInv'
  OBVIOUS
<1> USE LedgerAssumption
<1>1. ASSUME NEW w \in Workers, ExecuteStep(w) PROVE LedgerInv'
  BY <1>1, ExecuteType
<1>2. ASSUME NEW w \in Workers, Crash(w) PROVE LedgerInv'
  BY <1>2 DEF LedgerInv, LedgerTypeOK, Hands, Executing, NoJob, Crash, rowVars
<1>3. ASSUME NEW w \in Workers, RecoverStale(w) PROVE LedgerInv'
  <2>1. \A j \in Jobs : attempts[j] \in Nat /\ attempts[j] + 1 \in Nat
    <3>1. \A j \in Jobs : attempts[j] \in Nat
      BY DEF LedgerInv, LedgerTypeOK
    <3> QED BY <3>1
  <2>2. attempts' \in [Jobs -> Nat]
    BY <1>3, <2>1 DEF RecoverStale
  <2>3. state' \in [Jobs -> JobStates \cup {"absent"}]
    BY <1>3
    DEF LedgerInv, LedgerTypeOK, RecoverStale, JobStates, ActiveStates, TerminalStates
  <2>4. /\ overdue' \subseteq Jobs
        /\ toRecord' \in [Workers -> SUBSET Jobs]
        /\ at' \in [Workers -> Executing \cup {"idle", "recording"}]
        /\ Hands'
    BY <1>3 DEF LedgerInv, LedgerTypeOK, Hands, Executing, RecoverStale, Stale, Spent
  <2> QED
    BY <1>3, <2>2, <2>3, <2>4 DEF LedgerInv, LedgerTypeOK, RecoverStale, Executing
<1>4. ASSUME NEW w \in Workers, NEW j \in Jobs, Claim(w, j) PROVE LedgerInv'
  BY <1>4
  DEF LedgerInv, LedgerTypeOK, Hands, Executing, Claim, JobStates, ActiveStates
<1>5. ASSUME NEW w \in Workers, NEW j \in Jobs, Record(w, j) PROVE LedgerInv'
  BY <1>5 DEF LedgerInv, LedgerTypeOK, Hands, Executing, Record, LeaveRecording, rowVars
<1>6. ASSUME NEW j \in Jobs, NEW k \in Keys, Enter(j, k) PROVE LedgerInv'
  BY <1>6
  DEF LedgerInv, LedgerTypeOK, Hands, Enter, Insert, workerVars, JobStates, ActiveStates
<1>7. ASSUME NEW j \in Jobs, Overdue(j) PROVE LedgerInv'
  BY <1>7 DEF LedgerInv, LedgerTypeOK, Hands, Overdue, workerVars
<1>8. ASSUME NEW p \in Platforms, Resume(p) PROVE LedgerInv'
  BY <1>8 DEF LedgerInv, LedgerTypeOK, Hands, Resume, rowVars, workerVars
<1>9. CASE UNCHANGED ledgerVars
  BY <1>9 DEF LedgerInv, LedgerTypeOK, Hands, ledgerVars, rowVars, workerVars
<1> QED
  BY <1>1, <1>2, <1>3, <1>4, <1>5, <1>6, <1>7, <1>8, <1>9 DEF LedgerNext, LedgerMove

-----------------------------------------------------------------------------
(* One active row per key.                                                 *)

\* What executing a job does to the rows: nothing, one end, or one requeue.
Keeps == UNCHANGED <<state, key, overdue, holds>>

\* Three shapes: rows untouched, a job ended, a job requeued.
LEMMA ExecuteShape ==
  ASSUME NEW w \in Workers, ExecuteStep(w)
  PROVE  /\ at[w] \in Executing
         /\ Keeps \/ Requeue(w) \/ \E s \in TerminalStates : FinishJob(w, s)
<1> USE DEF Executing, Keeps, TerminalStates
<1>1. CASE QuotaBlock(w)    BY <1>1 DEF QuotaBlock
<1>2. CASE BeginAttempt(w)  BY <1>2 DEF BeginAttempt
<1>3. CASE LandRows(w)      BY <1>3 DEF LandRows, rowVars
<1>4. CASE Succeed(w)       BY <1>4 DEF Succeed
<1>5. CASE Prevent(w)       BY <1>5 DEF Prevent
<1>6. CASE Refuse(w)        BY <1>6 DEF Refuse
<1>7. CASE Fail(w)          BY <1>7 DEF Fail, FailureState
<1>8. CASE RateLimited(w)   BY <1>8 DEF RateLimited
<1> QED BY <1>1, <1>2, <1>3, <1>4, <1>5, <1>6, <1>7, <1>8 DEF ExecuteStep

\* A step that leaves the keys alone and makes no row active is harmless.
LEMMA NoNewActive ==
  ASSUME OneActivePerKey, key' = key, \A j \in Jobs : Active(j)' => Active(j)
  PROVE  OneActivePerKey'
BY DEF OneActivePerKey

\* Whatever makes a row active asked the index first.
LEMMA OneActiveStep ==
  LedgerInv /\ OneActivePerKey /\ [LedgerNext]_ledgerVars => OneActivePerKey'
<1> SUFFICES ASSUME LedgerInv, OneActivePerKey, [LedgerNext]_ledgerVars
             PROVE  OneActivePerKey'
  OBVIOUS
<1> USE DEF LedgerInv, LedgerTypeOK
<1>1. ASSUME NEW w \in Workers, ExecuteStep(w) PROVE OneActivePerKey'
  <2>1. holds[w] \in Jobs
    BY <1>1, ExecuteShape DEF Hands
  <2>2. CASE Keeps
    BY <2>2 DEF Keeps, OneActivePerKey, Active
  <2>3. ASSUME NEW s \in TerminalStates, FinishJob(w, s) PROVE OneActivePerKey'
    BY <2>1, <2>3, NoNewActive DEF FinishJob, Active, ActiveStates, TerminalStates
  <2>4. CASE Requeue(w)
    BY <2>1, <2>4 DEF Requeue, OneActivePerKey, IndexFree, Active, ActiveStates
  <2> QED BY <1>1, <2>2, <2>3, <2>4, ExecuteShape
<1>2. ASSUME NEW w \in Workers, Crash(w) PROVE OneActivePerKey'
  BY <1>2 DEF Crash, rowVars, OneActivePerKey, Active
<1>3. ASSUME NEW w \in Workers, RecoverStale(w) PROVE OneActivePerKey'
  BY <1>3, NoNewActive DEF RecoverStale, Stale, Spent, Active, ActiveStates
<1>4. ASSUME NEW w \in Workers, NEW j \in Jobs, Claim(w, j) PROVE OneActivePerKey'
  BY <1>4, NoNewActive DEF Claim, Active, ActiveStates
<1>5. ASSUME NEW w \in Workers, NEW j \in Jobs, Record(w, j) PROVE OneActivePerKey'
  BY <1>5 DEF Record, LeaveRecording, rowVars, OneActivePerKey, Active
<1>6. ASSUME NEW j \in Jobs, NEW k \in Keys, Enter(j, k) PROVE OneActivePerKey'
  BY <1>6 DEF Enter, Insert, OneActivePerKey, IndexFree, Active, ActiveStates
<1>7. ASSUME NEW j \in Jobs, Overdue(j) PROVE OneActivePerKey'
  BY <1>7 DEF Overdue, OneActivePerKey, Active
<1>8. ASSUME NEW p \in Platforms, Resume(p) PROVE OneActivePerKey'
  BY <1>8 DEF Resume, rowVars, OneActivePerKey, Active
<1>9. CASE UNCHANGED ledgerVars
  BY <1>9 DEF ledgerVars, rowVars, OneActivePerKey, Active
<1> QED
  BY <1>1, <1>2, <1>3, <1>4, <1>5, <1>6, <1>7, <1>8, <1>9 DEF LedgerNext, LedgerMove

-----------------------------------------------------------------------------
(* One owner per executed job.                                             *)

\* No claim is called stale while somebody is executing its job.
NoHandOver == \A w \in Workers : holds[w] \in overdue' => holds[w] \in overdue

Owned == ExclusiveOwner /\ \A w \in Workers : holds[w] \notin overdue

\* A step that hands no job over leaves every owner alone with his.
LEMMA OwnedStep ==
  LedgerInv /\ Owned /\ [LedgerNext /\ NoHandOver]_ledgerVars => Owned'
<1> SUFFICES ASSUME LedgerInv, Owned, [LedgerNext /\ NoHandOver]_ledgerVars
             PROVE  Owned'
  OBVIOUS
<1> USE LedgerAssumption DEF LedgerInv, LedgerTypeOK, Owned, ExclusiveOwner, NoJob
<1>1. ASSUME NEW w \in Workers, ExecuteStep(w) PROVE Owned'
  <2>1. holds[w] \in Jobs
    BY <1>1, ExecuteShape DEF Hands
  <2>2. CASE Keeps
    BY <2>2 DEF Keeps
  <2>3. ASSUME NEW s \in TerminalStates, FinishJob(w, s) PROVE Owned'
    BY <2>1, <2>3 DEF FinishJob
  <2>4. CASE Requeue(w)
    <3>1. holds' = [holds EXCEPT ![w] = NoJob]
      BY <2>4 DEF Requeue
    <3>2. overdue' \subseteq overdue /\ \A j \in Jobs \ {holds[w]} : state'[j] = state[j]
      BY <2>1, <2>4 DEF Requeue
    <3>3. \A v \in Workers \ {w} : holds'[v] = holds[v] /\ holds[v] # holds[w]
      BY <2>1, <3>1
    <3>4. holds'[w] = NoJob
      BY <3>1
    <3>5. ASSUME NEW v \in Workers, holds'[v] # NoJob
          PROVE  /\ state'[holds'[v]] = "running" /\ holds'[v] \notin overdue'
                 /\ \A u \in Workers \ {v} : holds'[u] # holds'[v]
      <4>1. v # w /\ holds'[v] = holds[v] /\ holds[v] \in Jobs \ {holds[w]}
        BY <3>3, <3>4, <3>5
      <4>2. state'[holds[v]] = "running" /\ holds[v] \notin overdue'
        BY <3>2, <3>5, <4>1
      <4>3. \A u \in Workers \ {v} : holds'[u] # holds[v]
        BY <3>3, <3>4, <3>5, <4>1
      <4> QED BY <4>1, <4>2, <4>3
    <3>6. NoJob \notin overdue'
      BY <3>2
    <3> QED BY <3>5, <3>6
  <2> QED BY <1>1, <2>2, <2>3, <2>4, ExecuteShape
<1>2. ASSUME NEW w \in Workers, Crash(w) PROVE Owned'
  BY <1>2 DEF Crash, rowVars
<1>3. ASSUME NEW w \in Workers, RecoverStale(w) PROVE Owned'
  BY <1>3 DEF RecoverStale, Stale, Spent
<1>4. ASSUME NEW w \in Workers, NEW j \in Jobs, Claim(w, j) PROVE Owned'
  BY <1>4 DEF Claim
<1>5. ASSUME NEW w \in Workers, NEW j \in Jobs, Record(w, j) PROVE Owned'
  BY <1>5 DEF Record, LeaveRecording, rowVars
<1>6. ASSUME NEW j \in Jobs, NEW k \in Keys, Enter(j, k) PROVE Owned'
  BY <1>6 DEF Enter, Insert, workerVars
<1>7. ASSUME NEW j \in Jobs, Overdue(j), NoHandOver PROVE Owned'
  BY <1>7 DEF Overdue, NoHandOver, workerVars
<1>8. ASSUME NEW p \in Platforms, Resume(p) PROVE Owned'
  BY <1>8 DEF Resume, rowVars, workerVars
<1>9. CASE UNCHANGED ledgerVars
  BY <1>9 DEF ledgerVars, rowVars, workerVars
<1> QED
  BY <1>1, <1>2, <1>3, <1>4, <1>5, <1>6, <1>7, <1>8, <1>9 DEF LedgerNext, LedgerMove

\* Only the visibility timeout makes a claim stale.
LEMMA MoveOverdue == [LedgerMove]_ledgerVars => overdue' \subseteq overdue
<1>1. ASSUME NEW w \in Workers, ExecuteStep(w) PROVE overdue' \subseteq overdue
  BY <1>1, ExecuteShape DEF Keeps, Requeue, FinishJob
<1>2. ASSUME NEW w \in Workers, NEW j \in Jobs, Claim(w, j) \/ Record(w, j)
      PROVE  overdue' \subseteq overdue
  BY <1>2 DEF Claim, Record, LeaveRecording, rowVars
<1>3. ASSUME NEW w \in Workers, Crash(w) PROVE overdue' \subseteq overdue
  BY <1>3 DEF Crash, rowVars
<1>4. ASSUME NEW j \in Jobs, NEW k \in Keys, Enter(j, k) PROVE overdue' \subseteq overdue
  BY <1>4 DEF Enter, Insert
<1>5. ASSUME NEW p \in Platforms, Resume(p) PROVE overdue' \subseteq overdue
  BY <1>5 DEF Resume, rowVars
<1>6. ASSUME UNCHANGED ledgerVars PROVE overdue' \subseteq overdue
  BY <1>6 DEF ledgerVars, rowVars
<1> QED BY <1>1, <1>2, <1>3, <1>4, <1>5, <1>6 DEF LedgerMove

\* Without slow pulls it never meets a job somebody is executing.
LEMMA NothingHandedOver ==
  ASSUME SlowPulls = FALSE, [LedgerNext]_ledgerVars
  PROVE  [LedgerNext /\ NoHandOver]_ledgerVars
<1>1. ASSUME NEW j \in Jobs, Overdue(j) PROVE NoHandOver
  BY <1>1 DEF Overdue, NoHandOver
<1>2. ASSUME LedgerMove PROVE NoHandOver
  BY <1>2, MoveOverdue DEF NoHandOver
<1>3. ASSUME NEW w \in Workers, RecoverStale(w) PROVE NoHandOver
  BY <1>3 DEF RecoverStale, NoHandOver
<1> QED BY <1>1, <1>2, <1>3 DEF LedgerNext

-----------------------------------------------------------------------------
(* The budget of attempts.                                                 *)

\* attempt_count is never behind the executions begun; the worker that executes
\* a job knows it exactly, and a job that may still be claimed has one left.
Budget ==
  /\ AttemptBudget
  /\ \A j \in Jobs : /\ tries[j] <= attempts[j]
                     /\ state[j] \in {"absent", "queued"} => attempts[j] < MaxAttempts
  /\ \A w \in Workers : holds[w] \in Jobs =>
       /\ attempt[w] = attempts[holds[w]]
       /\ at[w] = "claimed" => attempts[holds[w]] < MaxAttempts

\* A step that moves no count, makes no row claimable and hands out no job.
LEMMA BudgetKept ==
  ASSUME Budget, UNCHANGED <<attempts, tries>>,
         \A j \in Jobs : state'[j] \in {"absent", "queued"} =>
                           state[j] \in {"absent", "queued"} \/ attempts[j] < MaxAttempts,
         \A w \in Workers : holds'[w] \in Jobs =>
                              /\ holds'[w] = holds[w] /\ attempt'[w] = attempt[w]
                              /\ at'[w] = "claimed" => at[w] = "claimed"
  PROVE  Budget'
BY DEF Budget, AttemptBudget

\* Every step keeps the budget, as long as jobs have one owner.
LEMMA BudgetStep ==
  LedgerInv /\ Owned /\ Budget /\ [LedgerNext]_ledgerVars => Budget'
<1> SUFFICES ASSUME LedgerInv, Owned, Budget, [LedgerNext]_ledgerVars PROVE Budget'
  OBVIOUS
<1> USE LedgerAssumption DEF LedgerInv, LedgerTypeOK, NoJob
<1>1. ASSUME NEW w \in Workers, ExecuteStep(w) PROVE Budget'
  <2>1. holds[w] \in Jobs /\ at[w] \in Executing
    BY <1>1, ExecuteShape DEF Hands
  <2>2. ASSUME NEW s \in TerminalStates, FinishJob(w, s), UNCHANGED tries PROVE Budget'
    BY <2>1, <2>2, BudgetKept DEF FinishJob, TerminalStates
  <2>3. ASSUME Requeue(w), attempts[holds[w]] < MaxAttempts, UNCHANGED tries
        PROVE  Budget'
    BY <2>1, <2>3, BudgetKept DEF Requeue
  <2>4. CASE QuotaBlock(w)
    BY <2>1, <2>3, <2>4 DEF QuotaBlock, Budget
  <2>5. CASE BeginAttempt(w)
    <3> DEFINE j == holds[w]
    <3>1. /\ tries[j] \in Nat /\ attempts[j] \in Nat /\ MaxAttempts \in Nat
          /\ tries[j] <= attempts[j] /\ attempts[j] < MaxAttempts
          /\ attempt[w] = attempts[j]
      BY <2>1, <2>5 DEF Budget, BeginAttempt
    <3>2. tries[j] + 1 <= attempts[j] + 1 /\ tries[j] + 1 <= MaxAttempts
      BY <3>1
    <3>3. /\ tries' = [tries EXCEPT ![j] = tries[j] + 1]
          /\ attempts' = [attempts EXCEPT ![j] = attempts[j] + 1]
          /\ attempt' = [attempt EXCEPT ![w] = attempts[j] + 1]
          /\ at' = [at EXCEPT ![w] = "calling"]
          /\ UNCHANGED <<state, holds>>
      BY <2>5, <3>1 DEF BeginAttempt
    <3>4. state[j] = "running" /\ \A v \in Workers \ {w} : holds[v] # j
      BY <2>1 DEF Owned, ExclusiveOwner
    <3> QED
      BY <2>1, <3>2, <3>3, <3>4 DEF Budget, AttemptBudget
  <2>6. CASE LandRows(w)
    BY <2>6, BudgetKept DEF LandRows, rowVars
  <2>7. CASE RateLimited(w)
    BY <2>1, <2>2, <2>3, <2>7 DEF RateLimited, Budget, TerminalStates
  <2>8. CASE Succeed(w) \/ Prevent(w) \/ Refuse(w) \/ Fail(w)
    BY <2>2, <2>8 DEF Succeed, Prevent, Refuse, Fail, FailureState, TerminalStates
  <2> QED BY <1>1, <2>4, <2>5, <2>6, <2>7, <2>8 DEF ExecuteStep
<1>2. ASSUME NEW w \in Workers, Crash(w) PROVE Budget'
  BY <1>2, BudgetKept DEF Crash, rowVars
<1>3. ASSUME NEW w \in Workers, RecoverStale(w) PROVE Budget'
  <2>1. \A j \in Jobs : attempts'[j] \in {attempts[j], attempts[j] + 1} /\ tries'[j] = tries[j]
    BY <1>3 DEF RecoverStale
  <2>2. \A j \in Jobs : tries'[j] <= attempts'[j] /\ tries'[j] <= MaxAttempts
    BY <2>1 DEF Budget, AttemptBudget
  <2>3. \A j \in Jobs : state'[j] \in {"absent", "queued"} => attempts'[j] < MaxAttempts
    BY <1>3 DEF RecoverStale, Stale, Spent, Budget
  <2>4. \A v \in Workers : holds[v] \in Jobs => attempts'[holds[v]] = attempts[holds[v]]
    BY <1>3 DEF RecoverStale, Stale, Owned
  <2>5. UNCHANGED <<holds, attempt>> /\ \A v \in Workers : at'[v] = "claimed" => at[v] = "claimed"
    BY <1>3 DEF RecoverStale
  <2> QED BY <2>2, <2>3, <2>4, <2>5 DEF Budget, AttemptBudget
<1>4. ASSUME NEW w \in Workers, NEW j \in Jobs, Claim(w, j) PROVE Budget'
  BY <1>4 DEF Claim, Budget, AttemptBudget
<1>5. ASSUME NEW w \in Workers, NEW j \in Jobs, Record(w, j) PROVE Budget'
  BY <1>5, BudgetKept DEF Record, LeaveRecording, rowVars
<1>6. ASSUME NEW j \in Jobs, NEW k \in Keys, Enter(j, k) PROVE Budget'
  BY <1>6, BudgetKept DEF Enter, Insert, workerVars
<1>7. ASSUME NEW j \in Jobs, Overdue(j) PROVE Budget'
  BY <1>7, BudgetKept DEF Overdue, workerVars
<1>8. ASSUME NEW p \in Platforms, Resume(p) PROVE Budget'
  BY <1>8, BudgetKept DEF Resume, rowVars, workerVars
<1>9. CASE UNCHANGED ledgerVars
  BY <1>9, BudgetKept DEF ledgerVars, rowVars, workerVars
<1> QED
  BY <1>1, <1>2, <1>3, <1>4, <1>5, <1>6, <1>7, <1>8, <1>9 DEF LedgerNext, LedgerMove

-----------------------------------------------------------------------------
(* The ledger implements PullPromise.                                      *)

\* An empty ledger has accepted no window.
LEMMA PromiseInit == InitLedger => Promise!Init
<1> SUFFICES ASSUME InitLedger PROVE Promise!Init
  OBVIOUS
<1>1. [j \in Jobs |-> Phase(j)] = [j \in Jobs |-> "none"]
  BY DEF InitLedger, Phase, Active, ActiveStates
<1>2. key \in [Jobs -> Keys] /\ landed = [j \in Jobs |-> 0]
  BY LedgerAssumption DEF InitLedger
<1> QED BY <1>1, <1>2 DEF Promise!Init

\* A step that opens and ends no window and lands no rows is invisible.
LEMMA PromiseStutter ==
  ASSUME UNCHANGED <<key, landed>>,
         \A j \in Jobs : /\ state'[j] = "absent" <=> state[j] = "absent"
                         /\ Active(j)' <=> Active(j)
  PROVE  UNCHANGED Promise!promiseVars
BY DEF Promise!promiseVars, Phase

\* Active rows that become terminal are windows that end.
LEMMA PromiseEnd ==
  ASSUME LedgerInv, LedgerInv', UNCHANGED <<key, landed>>,
         NEW ended \in SUBSET Jobs, ended # {},
         \A j \in ended : Active(j) /\ state'[j] \in TerminalStates,
         \A j \in Jobs \ ended : /\ state'[j] = "absent" <=> state[j] = "absent"
                                 /\ Active(j)' <=> Active(j)
  PROVE  Promise!End(ended)
<1>1. \A j \in ended : Phase(j) = "open" /\ Phase(j)' = "ended"
  BY DEF Phase, Active, ActiveStates, TerminalStates
<1>2. \A j \in Jobs \ ended : Phase(j)' = Phase(j)
  BY DEF Phase
<1> QED BY <1>1, <1>2 DEF Promise!End

\* Every step of the ledger is one of the promise, or invisible to it.
LEMMA PromiseStep ==
  LedgerInv /\ LedgerInv' /\ Owned /\ [LedgerNext]_ledgerVars
    => [Promise!Next]_Promise!promiseVars
<1> SUFFICES ASSUME LedgerInv, LedgerInv', Owned, [LedgerNext]_ledgerVars
             PROVE  [Promise!Next]_Promise!promiseVars
  OBVIOUS
<1> DEFINE Implemented == [Promise!Next]_Promise!promiseVars
<1>1. ASSUME NEW w \in Workers, ExecuteStep(w) PROVE Implemented
  <2>1. holds[w] \in Jobs /\ state[holds[w]] = "running"
    BY <1>1, ExecuteShape, LedgerAssumption DEF LedgerInv, Hands, Owned, ExclusiveOwner, NoJob
  <2>2. CASE LandRows(w)
    <3>1. Phase(holds[w]) = "open"
      BY <2>1 DEF Phase, Active, ActiveStates
    <3>2. /\ UNCHANGED <<state, key>>
          /\ landed' = [landed EXCEPT ![holds[w]] = @ + 1]
      BY <2>2 DEF LandRows, rowVars
    <3>3. Promise!Land(holds[w])
      BY <2>1, <3>1, <3>2 DEF Promise!Land, Phase, Active
    <3> QED BY <2>1, <3>3 DEF Promise!Next
  <2>3. ASSUME ~LandRows(w) PROVE UNCHANGED landed
    BY <1>1, <2>3
    DEF ExecuteStep, QuotaBlock, BeginAttempt, Succeed, Prevent, Refuse, Fail, RateLimited
  <2>4. ASSUME UNCHANGED landed, Keeps PROVE Implemented
    BY <2>4, PromiseStutter DEF Keeps, Active
  <2>5. ASSUME UNCHANGED landed, NEW s \in TerminalStates, FinishJob(w, s)
        PROVE  Implemented
    <3> DEFINE ended == {holds[w]}
    <3>1. /\ UNCHANGED <<key, landed>>
          /\ \A j \in ended : Active(j) /\ state'[j] \in TerminalStates
          /\ \A j \in Jobs \ ended : state'[j] = state[j]
      BY <2>1, <2>5 DEF FinishJob, Active, ActiveStates, LedgerInv, LedgerTypeOK
    <3>2. \A j \in Jobs \ ended : /\ state'[j] = "absent" <=> state[j] = "absent"
                                  /\ Active(j)' <=> Active(j)
      BY <3>1 DEF Active
    <3>3. ended \in SUBSET Jobs /\ ended # {}
      BY <2>1
    <3>4. Promise!End(ended)
      BY <3>1, <3>2, <3>3, PromiseEnd
    <3> QED BY <3>3, <3>4 DEF Promise!Next
  <2>6. ASSUME UNCHANGED landed, Requeue(w) PROVE Implemented
    BY <2>1, <2>6, PromiseStutter
    DEF Requeue, Active, ActiveStates, LedgerInv, LedgerTypeOK
  <2> QED BY <1>1, <2>2, <2>3, <2>4, <2>5, <2>6, ExecuteShape
<1>2. ASSUME NEW w \in Workers, Crash(w) PROVE Implemented
  BY <1>2, PromiseStutter DEF Crash, rowVars, Active
<1>3. ASSUME NEW w \in Workers, RecoverStale(w) PROVE Implemented
  <2>1. UNCHANGED <<key, landed>>
    BY <1>3 DEF RecoverStale
  <2>2. \A j \in Spent : Active(j) /\ state'[j] \in TerminalStates
    <3>1. \A j \in Spent : j \in Jobs /\ state[j] = "running"
      BY DEF Spent, Stale, LedgerInv, LedgerTypeOK
    <3>2. \A j \in Spent : state'[j] = "dead_letter"
      BY <1>3, <3>1 DEF RecoverStale
    <3> QED BY <3>1, <3>2 DEF Active, ActiveStates, TerminalStates
  <2>3. \A j \in Jobs \ Spent : /\ state'[j] = "absent" <=> state[j] = "absent"
                                /\ Active(j)' <=> Active(j)
    BY <1>3 DEF RecoverStale, Spent, Stale, Active, ActiveStates
  <2>4. CASE Spent = {}
    BY <2>1, <2>3, <2>4, PromiseStutter
  <2>5. CASE Spent # {}
    <3>1. Spent \in SUBSET Jobs
      BY DEF Spent, Stale, LedgerInv, LedgerTypeOK
    <3>2. Promise!End(Spent)
      BY <2>1, <2>2, <2>3, <2>5, <3>1, PromiseEnd
    <3> QED BY <3>1, <3>2 DEF Promise!Next
  <2> QED BY <2>4, <2>5
<1>4. ASSUME NEW w \in Workers, NEW j \in Jobs, Claim(w, j) PROVE Implemented
  BY <1>4, PromiseStutter DEF Claim, Active, ActiveStates, LedgerInv, LedgerTypeOK
<1>5. ASSUME NEW w \in Workers, NEW j \in Jobs, Record(w, j) PROVE Implemented
  BY <1>5, PromiseStutter DEF Record, LeaveRecording, rowVars, Active
<1>6. ASSUME NEW j \in Jobs, NEW k \in Keys, Enter(j, k) PROVE Implemented
  <2>1. \A i \in Jobs \ {j} : Phase(i)' = Phase(i)
    BY <1>6 DEF Enter, Insert, Phase, Active, LedgerInv, LedgerTypeOK
  <2>2. Phase(j) = "none" /\ Phase(j)' = "open"
    BY <1>6 DEF Enter, Insert, Phase, Active, ActiveStates, LedgerInv, LedgerTypeOK
  <2>3. \A i \in Jobs : Phase(i) = "open" => key[i] # k
    BY <1>6, <2>2 DEF Enter, Insert, IndexFree, Phase
  <2>4. key' = [key EXCEPT ![j] = k] /\ UNCHANGED landed
    BY <1>6 DEF Enter, Insert
  <2>5. Promise!Accept(j, k)
    BY <2>1, <2>2, <2>3, <2>4 DEF Promise!Accept
  <2> QED BY <2>5 DEF Promise!Next
<1>7. ASSUME NEW j \in Jobs, Overdue(j) PROVE Implemented
  BY <1>7, PromiseStutter DEF Overdue, Active
<1>8. ASSUME NEW p \in Platforms, Resume(p) PROVE Implemented
  BY <1>8, PromiseStutter DEF Resume, rowVars, Active
<1>9. CASE UNCHANGED ledgerVars
  BY <1>9, PromiseStutter DEF ledgerVars, rowVars, Active
<1> QED
  BY <1>1, <1>2, <1>3, <1>4, <1>5, <1>6, <1>7, <1>8, <1>9 DEF LedgerNext, LedgerMove
=============================================================================
