--------------------------- MODULE PushQueueProofs ---------------------------
(***************************************************************************)
(* The Cloud Tasks backend: each action of PushQueue is a step of the      *)
(* ledger that makes no claim stale, so what PullLedgerProofs shows holds  *)
(* with no assumption on the time a pull takes.                            *)
(***************************************************************************)
EXTENDS PushQueue, PullLedgerProofs

-----------------------------------------------------------------------------
(* Every action of the queue is a move of the ledger.                      *)

\* A statement of enqueue_pull enters one row, or touches none.
LEMMA EnqueueIsLedgerStep ==
  ASSUME TypeOK, NEW e \in Enqueuers, Enqueue(e)
  PROVE  \/ UNCHANGED ledgerVars
         \/ \E j \in Jobs, k \in Keys : Enter(j, k)
<1>1. ASSUME NEW k \in Keys, NEW j \in Jobs, InsertRow(e, k, j) PROVE Enter(j, k)
  BY <1>1 DEF InsertRow, Enter
<1>2. ASSUME NEW k \in Keys, InsertConflicts(e, k) PROVE UNCHANGED ledgerVars
  BY <1>2 DEF InsertConflicts
<1>3. CASE SelectWinner(e) BY <1>3 DEF SelectWinner
<1>4. CASE CreateTask(e)   BY <1>4 DEF CreateTask
<1> QED BY <1>1, <1>2, <1>3, <1>4 DEF Enqueue

\* A request executes its job, or records its window.
LEMMA ServeIsLedgerStep ==
  ASSUME NEW w \in Workers, Serve(w)
  PROVE  ExecuteStep(w) \/ \E j \in Jobs : Record(w, j)
BY DEF Serve, ServeRateLimit, ServeStep, ServeRecord, ExecuteStep

\* No step of this backend sweeps or ages a claim.
LEMMA NextIsLedgerMove == TypeOK /\ [Next]_vars => [LedgerMove]_ledgerVars
<1> SUFFICES ASSUME TypeOK, [Next]_vars PROVE [LedgerMove]_ledgerVars
  OBVIOUS
<1>1. ASSUME NEW e \in Enqueuers, Enqueue(e) PROVE [LedgerMove]_ledgerVars
  BY <1>1, EnqueueIsLedgerStep DEF LedgerMove
<1>2. ASSUME NEW w \in Workers, Serve(w) PROVE LedgerMove
  BY <1>2, ServeIsLedgerStep DEF LedgerMove
<1>3. ASSUME NEW w \in Workers, Die(w) PROVE LedgerMove
  BY <1>3 DEF Die, LedgerMove
<1>4. ASSUME NEW w \in Workers, NEW j \in Jobs, ServeClaim(w, j) PROVE LedgerMove
  BY <1>4 DEF ServeClaim, LedgerMove
<1>5. ASSUME NEW j \in Jobs,
             \/ ServeNothing(j) \/ LoseTask(j)
             \/ SweepRead(j) \/ SweepDispatch(j) \/ SweepFails(j)
      PROVE  UNCHANGED ledgerVars
  BY <1>5 DEF ServeNothing, LoseTask, SweepRead, SweepDispatch, SweepFails
<1>6. ASSUME NEW p \in Platforms, Refill(p) PROVE LedgerMove
  BY <1>6 DEF Refill, LedgerMove
<1>7. CASE UNCHANGED vars
  BY <1>7 DEF vars
<1> QED BY <1>1, <1>2, <1>3, <1>4, <1>5, <1>6, <1>7 DEF Next

\* No step of this backend makes a claim stale.
LEMMA NextIsLedgerStep ==
  TypeOK /\ [Next]_vars => [LedgerNext /\ NoHandOver]_ledgerVars
BY NextIsLedgerMove, MoveOverdue DEF LedgerNext, NoHandOver

-----------------------------------------------------------------------------
(* The theorems.                                                           *)

PushOK == /\ enq \in [Enqueuers -> {"idle", "lost", "dispatching"}]
          /\ want \in [Enqueuers -> Keys]
          /\ mint \in [Enqueuers -> Jobs \cup {NoJob}]
          /\ \A e \in Enqueuers : enq[e] = "dispatching" => mint[e] \in Jobs
          /\ tasks \subseteq Jobs
          /\ swept \subseteq Jobs

PushInv == LedgerInv /\ PushOK /\ Owned

\* Tasks and requests keep their types.
LEMMA PushOKStep == TypeOK /\ PushOK /\ [Next]_vars => PushOK'
<1> SUFFICES ASSUME TypeOK, PushOK, [Next]_vars PROVE PushOK'
  OBVIOUS
<1>1. ASSUME NEW e \in Enqueuers, Enqueue(e) PROVE PushOK'
  <2>1. ASSUME NEW k \in Keys, NEW j \in Jobs, InsertRow(e, k, j) PROVE PushOK'
    BY <2>1 DEF InsertRow, PushOK
  <2>2. ASSUME NEW k \in Keys, InsertConflicts(e, k) PROVE PushOK'
    BY <2>2 DEF InsertConflicts, PushOK
  <2>3. CASE SelectWinner(e)
    BY <2>3 DEF SelectWinner, PushOK
  <2>4. CASE CreateTask(e)
    <3>1. mint[e] \in Jobs
      BY <2>4 DEF CreateTask, PushOK
    <3> QED BY <2>4, <3>1 DEF CreateTask, PushOK
  <2> QED BY <1>1, <2>1, <2>2, <2>3, <2>4 DEF Enqueue
<1>2. ASSUME UNCHANGED <<enq, want, mint, swept>>, tasks' \subseteq Jobs PROVE PushOK'
  BY <1>2 DEF PushOK
<1>3. ASSUME NEW w \in Workers, Serve(w) PROVE PushOK'
  BY <1>2, <1>3
  DEF Serve, ServeRateLimit, ServeStep, ServeRecord, Acked, pushVars, PushOK
<1>4. ASSUME NEW w \in Workers, NEW j \in Jobs, ServeClaim(w, j) PROVE PushOK'
  BY <1>2, <1>4 DEF ServeClaim, pushVars, PushOK
<1>5. ASSUME NEW w \in Workers, Die(w) PROVE PushOK'
  BY <1>2, <1>5 DEF Die, pushVars, PushOK
<1>6. ASSUME NEW j \in Jobs, ServeNothing(j) \/ LoseTask(j) PROVE PushOK'
  BY <1>2, <1>6 DEF ServeNothing, LoseTask, PushOK
<1>7. ASSUME NEW j \in Jobs, SweepRead(j) \/ SweepDispatch(j) \/ SweepFails(j)
      PROVE  PushOK'
  BY <1>7 DEF SweepRead, SweepDispatch, SweepFails, PushOK
<1>8. ASSUME NEW p \in Platforms, Refill(p) PROVE PushOK'
  BY <1>2, <1>8 DEF Refill, pushVars, PushOK
<1>9. CASE UNCHANGED vars
  BY <1>9 DEF vars, pushVars, PushOK
<1> QED BY <1>1, <1>3, <1>4, <1>5, <1>6, <1>7, <1>8, <1>9 DEF Next

\* The queue starts with its types, and with no task ...
LEMMA PushInvInit == Init => PushInv
<1> SUFFICES ASSUME Init PROVE PushInv
  OBVIOUS
<1>1. LedgerInv
  BY LedgerInvInit DEF Init
<1>2. PushOK
  BY LedgerAssumption DEF Init, PushOK
<1>3. Owned
  BY LedgerAssumption DEF Init, InitLedger, Owned, ExclusiveOwner, NoJob
<1> QED BY <1>1, <1>2, <1>3 DEF PushInv

\* ... which are part of the invariant ...
LEMMA PushInvTypes == PushInv => TypeOK
BY DEF PushInv, PushOK, LedgerInv, TypeOK

\* ... that every step keeps ...
LEMMA PushInvStep == PushInv /\ [Next]_vars => PushInv'
<1> SUFFICES ASSUME PushInv, [Next]_vars PROVE PushInv'
  OBVIOUS
<1>1. [LedgerNext /\ NoHandOver]_ledgerVars
  BY PushInvTypes, NextIsLedgerStep
<1>2. LedgerInv'
  BY <1>1, LedgerInvStep DEF PushInv
<1>3. Owned'
  BY <1>1, OwnedStep DEF PushInv
<1>4. PushOK'
  BY PushInvTypes, PushOKStep DEF PushInv
<1> QED BY <1>2, <1>3, <1>4 DEF PushInv

\* ... and that therefore always holds.
LEMMA PushInvAlways == Spec => []PushInv
BY PushInvInit, PushInvStep, PTL DEF Spec

\* Whatever is lost, delivered twice, swept or dies, the ledger, the tasks and the
\* hands of the requests keep their types.
THEOREM PushTypeCorrect == Spec => []TypeOK
BY PushInvAlways, PushInvTypes, PTL

\* uq_pull_jobs_active is never violated, redeliveries and slow pulls included.
THEOREM PushOneActiveRow == Spec => []OneActivePerKey
<1>1. Init => OneActivePerKey
  BY DEF Init, InitLedger, OneActivePerKey, Active, ActiveStates
<1>2. PushInv /\ OneActivePerKey /\ [Next]_vars => OneActivePerKey'
  BY PushInvTypes, NextIsLedgerStep, OneActiveStep DEF PushInv
<1> QED BY <1>1, <1>2, PushInvAlways, PTL DEF Spec

\* Two requests never execute one job, however often and however late its task is
\* delivered, and however long the pull takes.
THEOREM PushOwnersExclude == Spec => []ExclusiveOwner
BY PushInvAlways, PTL DEF PushInv, Owned

\* A job is begun at most QUEUE_MAX_ATTEMPTS times, redeliveries included.
THEOREM PushAttemptsBounded == Spec => []AttemptBudget
<1>1. Init => Budget
  BY LedgerAssumption DEF Init, InitLedger, Budget, AttemptBudget, NoJob
<1>2. PushInv /\ Budget /\ [Next]_vars => Budget'
  BY PushInvTypes, NextIsLedgerStep, BudgetStep DEF PushInv
<1>3. Spec => []Budget
  BY <1>1, <1>2, PushInvAlways, PTL DEF Spec
<1> QED BY <1>3, PTL DEF Budget

\* The Cloud Tasks backend implements PullPromise as well.
THEOREM PushKeepsPromise == Spec => KeepsPromise
<1>1. Init => Promise!Init
  BY PromiseInit DEF Init
<1>2. PushInv /\ PushInv' /\ [Next]_vars => [Promise!Next]_Promise!promiseVars
  BY PushInvTypes, NextIsLedgerStep, PromiseStep DEF PushInv
<1> QED BY <1>1, <1>2, PushInvAlways, PTL DEF Spec, KeepsPromise, Promise!Spec

\* A job whose rows have landed is over, or still in the hands that landed them.
LandedOver ==
  \A j \in Jobs : landed[j] > 0 =>
    /\ state[j] \notin {"absent", "queued"}
    /\ \A w \in Workers : holds[w] = j => at[w] = "landed"

\* No step offers a job again that has landed.
LEMMA LandedOverStep ==
  LedgerInv /\ Owned /\ LandedOver /\ [LedgerMove]_ledgerVars => LandedOver'
<1> SUFFICES ASSUME LedgerInv, Owned, LandedOver, [LedgerMove]_ledgerVars
             PROVE  LandedOver'
  OBVIOUS
<1> USE LedgerAssumption DEF LedgerInv, LedgerTypeOK, NoJob, LandedOver
<1>1. ASSUME NEW w \in Workers, ExecuteStep(w) PROVE LandedOver'
  <2>1. holds[w] \in Jobs /\ at[w] \in Executing /\ state[holds[w]] = "running"
    BY <1>1, ExecuteShape DEF Hands, Owned, ExclusiveOwner
  <2>2. at[w] # "landed" => ~(landed[holds[w]] > 0)
    BY <2>1
  <2>3. ASSUME NEW s \in TerminalStates, FinishJob(w, s), UNCHANGED landed
        PROVE  LandedOver'
    BY <2>1, <2>3 DEF FinishJob, TerminalStates
  <2>4. ASSUME Requeue(w), at[w] # "landed", UNCHANGED landed PROVE LandedOver'
    BY <2>1, <2>2, <2>4 DEF Requeue
  <2>5. CASE BeginAttempt(w)
    BY <2>1, <2>2, <2>5 DEF BeginAttempt
  <2>6. CASE LandRows(w)
    BY <2>1, <2>6 DEF LandRows, rowVars, Owned, ExclusiveOwner
  <2>7. CASE Succeed(w) \/ Prevent(w) \/ Refuse(w) \/ Fail(w)
    BY <2>3, <2>7 DEF Succeed, Prevent, Refuse, Fail, FailureState, TerminalStates
  <2>8. CASE QuotaBlock(w) \/ RateLimited(w)
    BY <2>3, <2>4, <2>8 DEF QuotaBlock, RateLimited, TerminalStates
  <2> QED BY <1>1, <2>5, <2>6, <2>7, <2>8 DEF ExecuteStep
<1>2. ASSUME NEW w \in Workers, Crash(w) PROVE LandedOver'
  BY <1>2 DEF Crash, rowVars
<1>3. ASSUME NEW w \in Workers, NEW j \in Jobs, Claim(w, j) PROVE LandedOver'
  BY <1>3 DEF Claim
<1>4. ASSUME NEW w \in Workers, NEW j \in Jobs, Record(w, j) PROVE LandedOver'
  BY <1>4 DEF Record, LeaveRecording, rowVars, Hands, Executing
<1>5. ASSUME NEW j \in Jobs, NEW k \in Keys, Enter(j, k) PROVE LandedOver'
  BY <1>5 DEF Enter, Insert, workerVars
<1>6. ASSUME NEW p \in Platforms, Resume(p) PROVE LandedOver'
  BY <1>6 DEF Resume, rowVars, workerVars
<1>7. CASE UNCHANGED ledgerVars
  BY <1>7 DEF ledgerVars, rowVars, workerVars
<1> QED BY <1>1, <1>2, <1>3, <1>4, <1>5, <1>6, <1>7 DEF LedgerMove

\* From there no move begins an execution of the job or lands its rows again.
LEMMA LandedMove ==
  ASSUME LedgerInv, Owned, LandedOver, [LedgerMove]_ledgerVars,
         NEW j \in Jobs, landed[j] > 0
  PROVE  tries'[j] = tries[j] /\ landed'[j] = landed[j]
<1> USE DEF LedgerInv, LedgerTypeOK
<1>1. ASSUME NEW w \in Workers, ExecuteStep(w)
      PROVE  tries'[j] = tries[j] /\ landed'[j] = landed[j]
  <2>1. holds[w] = j => at[w] = "landed"
    BY DEF LandedOver
  <2>2. CASE BeginAttempt(w) BY <2>1, <2>2 DEF BeginAttempt
  <2>3. CASE LandRows(w)     BY <2>1, <2>3 DEF LandRows
  <2> QED
    BY <1>1, <2>2, <2>3
    DEF ExecuteStep, QuotaBlock, Succeed, Prevent, Refuse, Fail, RateLimited
<1>2. ASSUME NEW w \in Workers, NEW i \in Jobs, Claim(w, i) \/ Record(w, i)
      PROVE  UNCHANGED <<tries, landed>>
  BY <1>2 DEF Claim, Record, LeaveRecording
<1>3. ASSUME NEW w \in Workers, Crash(w) PROVE UNCHANGED <<tries, landed>>
  BY <1>3 DEF Crash
<1>4. ASSUME NEW i \in Jobs, NEW k \in Keys, Enter(i, k)
      PROVE  UNCHANGED <<tries, landed>>
  BY <1>4 DEF Enter
<1>5. ASSUME NEW p \in Platforms, Resume(p) PROVE UNCHANGED <<tries, landed>>
  BY <1>5 DEF Resume
<1>6. CASE UNCHANGED ledgerVars BY <1>6 DEF ledgerVars
<1> QED BY <1>1, <1>2, <1>3, <1>4, <1>5, <1>6 DEF LedgerMove

\* "A redelivered task must not re-pull": once the rows of a job have landed, the
\* provider is never called for it again.
THEOREM LandedOnce == Spec => NoRepullAfterLanding
<1>1. Init => LandedOver
  BY DEF Init, InitLedger, LandedOver
<1>2. PushInv /\ LandedOver /\ [Next]_vars => LandedOver'
  BY PushInvTypes, NextIsLedgerMove, LandedOverStep DEF PushInv
<1>3. PushInv /\ LandedOver /\ [Next]_vars =>
        [\A j \in Jobs : landed[j] > 0 =>
           tries'[j] = tries[j] /\ landed'[j] = landed[j]]_vars
  BY PushInvTypes, NextIsLedgerMove, LandedMove DEF PushInv
<1> QED BY <1>1, <1>2, <1>3, PushInvAlways, PTL DEF Spec, NoRepullAfterLanding
=============================================================================
