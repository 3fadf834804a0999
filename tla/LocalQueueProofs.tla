-------------------------- MODULE LocalQueueProofs --------------------------
(***************************************************************************)
(* The local backend: each action of LocalQueue is a step of the ledger,   *)
(* so that what PullLedgerProofs shows of those steps holds of the queue,  *)
(* for every number of jobs, keys, workers, callers, attempts and faults.  *)
(***************************************************************************)
EXTENDS LocalQueue, PullLedgerProofs

-----------------------------------------------------------------------------
(* Every action of the queue is a step of the ledger.                      *)

\* A statement of enqueue_pull enters one row, or touches none.
LEMMA EnqueueIsLedgerStep ==
  ASSUME TypeOK, NEW e \in Enqueuers, Enqueue(e)
  PROVE  \/ UNCHANGED ledgerVars
         \/ \E j \in Jobs, k \in Keys : Enter(j, k)
<1>1. ASSUME NEW k \in Keys, Lookup(e, k) PROVE UNCHANGED ledgerVars
  BY <1>1 DEF Lookup
<1>2. ASSUME NEW j \in Jobs, InsertWins(e, j) PROVE Enter(j, want[e]) /\ want[e] \in Keys
  BY <1>2 DEF InsertWins, Enter, TypeOK
<1>3. CASE InsertConflicts(e) BY <1>3 DEF InsertConflicts
<1>4. CASE SelectWinner(e)    BY <1>4 DEF SelectWinner
<1> QED BY <1>1, <1>2, <1>3, <1>4 DEF Enqueue

\* So every step of the local queue is one of the ledger.
LEMMA NextIsLedgerStep == TypeOK /\ [Next]_vars => [LedgerNext]_ledgerVars
<1> SUFFICES ASSUME TypeOK, [Next]_vars PROVE [LedgerNext]_ledgerVars
  OBVIOUS
<1>1. ASSUME NEW e \in Enqueuers, Enqueue(e) PROVE [LedgerNext]_ledgerVars
  BY <1>1, EnqueueIsLedgerStep DEF LedgerNext, LedgerMove
<1>2. ASSUME NEW w \in Workers, Work(w) PROVE LedgerNext
  BY <1>2 DEF Work, ClaimOldest, LedgerNext, LedgerMove
<1>3. ASSUME NEW w \in Workers, Sweep(w) \/ Die(w) PROVE LedgerNext
  BY <1>3 DEF Sweep, Die, LedgerNext, LedgerMove
<1>4. ASSUME NEW j \in Jobs, Age(j) PROVE LedgerNext
  BY <1>4 DEF Age, LedgerNext, LedgerMove
<1>5. ASSUME NEW p \in Platforms, Refill(p) PROVE LedgerNext
  BY <1>5 DEF Refill, LedgerNext, LedgerMove
<1>6. CASE UNCHANGED vars
  BY <1>6 DEF vars
<1> QED BY <1>1, <1>2, <1>3, <1>4, <1>5, <1>6 DEF Next

-----------------------------------------------------------------------------
(* The theorems.                                                           *)

QueueInv == TypeOK /\ Hands

\* The queue starts with its types and with empty hands ...
LEMMA QueueInvInit == Init => QueueInv
<1> SUFFICES ASSUME Init PROVE QueueInv
  OBVIOUS
<1>1. LedgerInv
  BY LedgerInvInit DEF Init
<1>2. /\ enq \in [Enqueuers -> {"idle", "inserting", "lost"}]
      /\ want \in [Enqueuers -> Keys]
      /\ answered \subseteq Jobs
  BY LedgerAssumption DEF Init, NoMatter
<1> QED BY <1>1, <1>2 DEF QueueInv, TypeOK, LedgerInv

\* ... and keeps both.
LEMMA QueueInvStep == QueueInv /\ [Next]_vars => QueueInv'
<1> SUFFICES ASSUME QueueInv, [Next]_vars PROVE QueueInv'
  OBVIOUS
<1>1. LedgerInv'
  BY NextIsLedgerStep, LedgerInvStep DEF QueueInv, TypeOK, LedgerInv
<1> DEFINE CallersOK == /\ enq \in [Enqueuers -> {"idle", "inserting", "lost"}]
                        /\ want \in [Enqueuers -> Keys]
                        /\ answered \subseteq Jobs
<1>2. CallersOK
  BY DEF QueueInv, TypeOK
<1>3. ASSUME NEW e \in Enqueuers, Enqueue(e) PROVE CallersOK'
  <2>1. NoMatter \in Keys
    BY LedgerAssumption DEF NoMatter
  <2> QED BY <1>2, <1>3, <2>1
    DEF Enqueue, Lookup, InsertWins, InsertConflicts, SelectWinner, Answer, ActiveRow
<1>4. ASSUME UNCHANGED enqVars PROVE CallersOK'
  BY <1>2, <1>4 DEF enqVars
<1>5. CallersOK'
  BY <1>3, <1>4 DEF Next, Work, ClaimOldest, Sweep, Die, Age, Refill, vars
<1> QED BY <1>1, <1>5 DEF QueueInv, TypeOK, LedgerInv

\* Whatever races, dies or times out, the ledger and the hands of the workers
\* keep their types.
THEOREM TypeCorrect == Spec => []TypeOK
<1>1. Spec => []QueueInv
  BY QueueInvInit, QueueInvStep, PTL DEF Spec
<1> QED BY <1>1, PTL DEF QueueInv

\* uq_pull_jobs_active is never violated, slow pulls and their zombies included:
\* two active rows never cover one window of one Datastream.
THEOREM OneActiveRowPerWindow == Spec => []OneActivePerKey
<1> DEFINE Inv == QueueInv /\ OneActivePerKey
<1>1. Init => Inv
  BY QueueInvInit DEF Init, InitLedger, OneActivePerKey, Active, ActiveStates
<1>2. Inv /\ [Next]_vars => Inv'
  BY QueueInvStep, NextIsLedgerStep, OneActiveStep DEF QueueInv, TypeOK, LedgerInv
<1> QED BY <1>1, <1>2, PTL DEF Spec

\* Without slow pulls nobody loses the job in his hands.
LEMMA OwnedInv ==
  ASSUME SlowPulls = FALSE
  PROVE  Spec => [](QueueInv /\ Owned)
<1>1. Init => Owned
  BY LedgerAssumption DEF Init, InitLedger, Owned, ExclusiveOwner, NoJob
<1>2. QueueInv /\ Owned /\ [Next]_vars => Owned'
  BY NextIsLedgerStep, NothingHandedOver, OwnedStep DEF QueueInv, TypeOK, LedgerInv
<1> QED BY <1>1, <1>2, QueueInvInit, QueueInvStep, PTL DEF Spec

\* As long as no live pull outlives QUEUE_RUNNING_VISIBILITY_SECONDS, no claim and
\* no sweep hands a job to a second worker while its first one is executing it.
THEOREM OwnersExclude ==
  ASSUME SlowPulls = FALSE
  PROVE  Spec => []ExclusiveOwner
BY OwnedInv, PTL DEF Owned

\* Under the same assumption a job is begun at most QUEUE_MAX_ATTEMPTS times.
THEOREM AttemptsBounded ==
  ASSUME SlowPulls = FALSE
  PROVE  Spec => []AttemptBudget
<1>1. Init => Budget
  BY LedgerAssumption
  DEF Init, InitLedger, Budget, AttemptBudget, NoJob
<1>2. QueueInv /\ Owned /\ Budget /\ [Next]_vars => Budget'
  BY NextIsLedgerStep, BudgetStep DEF QueueInv, TypeOK, LedgerInv
<1>3. Spec => []Budget
  BY <1>1, <1>2, OwnedInv, PTL DEF Spec
<1> QED BY <1>3, PTL DEF Budget

\* Under the same assumption the local queue implements PullPromise: what was
\* accepted is open until it ends, once, and rows land only while it is open.
THEOREM LocalKeepsPromise ==
  ASSUME SlowPulls = FALSE
  PROVE  Spec => KeepsPromise
<1>1. Init => Promise!Init
  BY PromiseInit DEF Init
<1>2. QueueInv /\ QueueInv' /\ Owned /\ [Next]_vars
        => [Promise!Next]_Promise!promiseVars
  BY NextIsLedgerStep, PromiseStep DEF QueueInv, TypeOK, LedgerInv
<1> QED BY <1>1, <1>2, OwnedInv, PTL DEF Spec, KeepsPromise, Promise!Spec
=============================================================================
