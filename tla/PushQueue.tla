------------------------------ MODULE PushQueue ------------------------------
(***************************************************************************)
(* QUEUE_BACKEND=cloud_tasks: CloudTasksBackend.enqueue_pull, the push     *)
(* endpoint /internal/worker/execute-pull (server/core/internal_api.py)    *)
(* and the reconciliation sweep.  The row is committed before its task is  *)
(* created; a task may be lost, delivered twice, or delivered late.        *)
(* No polling thread runs in this mode, so nobody sweeps stale claims.     *)
(***************************************************************************)
EXTENDS PullLedger

CONSTANT Enqueuers

VARIABLES
  enq,       \* where each enqueue_pull call stands
  want,      \* the key it asks for
  mint,      \* the job id it will create a task for
  tasks,     \* job ids with a live Cloud Tasks task
  swept      \* rows reconcile_pending_tasks has read and not yet dispatched

pushVars == <<enq, want, mint, tasks, swept>>
vars     == <<ledgerVars, pushVars>>

Init ==
  /\ InitLedger
  /\ enq = [e \in Enqueuers |-> "idle"]
  /\ want = [e \in Enqueuers |-> CHOOSE k \in Keys : TRUE]
  /\ mint = [e \in Enqueuers |-> NoJob]
  /\ tasks = {}
  /\ swept = {}

ActiveRow(k) == {j \in Jobs : Active(j) /\ key[j] = k}
Fresh        == {j \in Jobs : state[j] = "absent"}
                  \ (tasks \cup {mint[e] : e \in Enqueuers})
Minted(j)    == j \in Fresh /\ \A i \in Fresh : j <= i

-----------------------------------------------------------------------------
(* enqueue_pull: INSERT, SELECT the winner when it conflicts, create task. *)

InsertRow(e, k, j) ==
  /\ enq[e] = "idle"
  /\ Minted(j)
  /\ Insert(j, k)
  /\ enq' = [enq EXCEPT ![e] = "dispatching"]
  /\ mint' = [mint EXCEPT ![e] = j]
  /\ UNCHANGED <<want, tasks, swept, workerVars, landed, tries, paused, faults>>

InsertConflicts(e, k) ==
  /\ enq[e] = "idle"
  /\ ActiveRow(k) # {}
  /\ enq' = [enq EXCEPT ![e] = "lost"]
  /\ want' = [want EXCEPT ![e] = k]
  /\ UNCHANGED <<mint, tasks, swept, ledgerVars>>

\* The winner is answered without a task; when it has ended meanwhile the call
\* goes on to create a task for the id it minted and never inserted.
SelectWinner(e) ==
  /\ enq[e] = "lost"
  /\ \/ /\ ActiveRow(want[e]) # {}
        /\ enq' = [enq EXCEPT ![e] = "idle"]
        /\ UNCHANGED mint
     \/ /\ ActiveRow(want[e]) = {}
        /\ enq' = [enq EXCEPT ![e] = "dispatching"]
        /\ \E j \in Jobs : Minted(j) /\ mint' = [mint EXCEPT ![e] = j]
  /\ UNCHANGED <<want, tasks, swept, ledgerVars>>

\* Mutant: the id is cleared before the task is created.
CreateTaskCleared(e) ==
  /\ enq[e] = "dispatching"
  /\ mint' = [mint EXCEPT ![e] = NoJob]
  /\ \E created \in {{}, {mint'[e]}} : tasks' = tasks \cup created
  /\ enq' = [enq EXCEPT ![e] = "idle"]
  /\ UNCHANGED <<want, swept, ledgerVars>>

\* _create_push_task: it may raise, after the row was committed.
CreateTask(e) ==
  /\ enq[e] = "dispatching"
  /\ \E created \in {{}, {mint[e]}} : tasks' = tasks \cup created
  /\ enq' = [enq EXCEPT ![e] = "idle"]
  /\ mint' = [mint EXCEPT ![e] = NoJob]
  /\ UNCHANGED <<want, swept, ledgerVars>>

Enqueue(e) ==
  \/ \E k \in Keys, j \in Jobs : InsertRow(e, k, j)
  \/ \E k \in Keys : InsertConflicts(e, k)
  \/ SelectWinner(e)
  \/ CreateTask(e)

-----------------------------------------------------------------------------
(* The push endpoint.  A delivery leaves the task alive until it is acked; *)
(* 409, 429 and 5xx answers leave it to the queue's own retry policy.      *)

\* 200: the delivered task is gone, unless a second one existed for the job.
Acked(j) == \E gone \in {{}, {j}} : tasks' = tasks \ gone

\* claim_job_by_id succeeded for the delivered job.
ServeClaim(w, j) ==
  /\ j \in tasks
  /\ Claim(w, j)
  /\ UNCHANGED pushVars

\* Unknown or already terminal: 200, nothing is run.
ServeNothing(j) ==
  /\ j \in tasks
  /\ ~Active(j)
  /\ tasks' = tasks \ {j}
  /\ UNCHANGED <<ledgerVars, enq, want, mint, swept>>

\* A requeue after 429 answers 200, unless the UPDATE was refused (503).
ServeRateLimit(w) ==
  /\ RateLimited(w)
  /\ IF attempt[w] < MaxAttempts /\ IndexFree(holds[w], key[holds[w]])
       THEN Acked(holds[w]) ELSE UNCHANGED tasks
  /\ UNCHANGED <<enq, want, mint, swept>>

ServeStep(w) ==
  /\ \/ QuotaBlock(w) \/ BeginAttempt(w) \/ LandRows(w) \/ Succeed(w)
     \/ Prevent(w) \/ Refuse(w) \/ Fail(w)
  /\ UNCHANGED pushVars

\* The run is told, then the request answers 200.
ServeRecord(w, j) ==
  /\ Record(w, j)
  /\ Acked(j)
  /\ UNCHANGED <<enq, want, mint, swept>>

Serve(w) ==
  \/ ServeRateLimit(w)
  \/ ServeStep(w)
  \/ \E j \in Jobs : ServeRecord(w, j)

\* The queue drops a task: retention or its retry policy is exhausted.
LoseTask(j) ==
  /\ j \in tasks
  /\ tasks' = tasks \ {j}
  /\ UNCHANGED <<ledgerVars, enq, want, mint, swept>>

\* The instance serving the request dies; the task is redelivered.
Die(w) == Crash(w) /\ UNCHANGED pushVars

Refill(p) == Resume(p) /\ UNCHANGED pushVars

-----------------------------------------------------------------------------
(* reconcile_pending_tasks: read the queued rows past the grace period,    *)
(* then dispatch them one by one, from what was read.                      *)

\* Mutant: the sweep reads the rows that are running.
SweepReadRunning(j) ==
  /\ state[j] = "running"
  /\ j \notin swept
  /\ swept' = swept \cup {j}
  /\ UNCHANGED <<ledgerVars, enq, want, mint, tasks>>

SweepRead(j) ==
  /\ state[j] = "queued"
  /\ j \notin swept
  /\ swept' = swept \cup {j}
  /\ UNCHANGED <<ledgerVars, enq, want, mint, tasks>>

SweepDispatch(j) ==
  /\ j \in swept
  /\ swept' = swept \ {j}
  /\ tasks' = tasks \cup {j}
  /\ UNCHANGED <<ledgerVars, enq, want, mint>>

\* dispatch_pull_task swallowed an error: the next sweep will try again.
SweepFails(j) ==
  /\ j \in swept
  /\ swept' = swept \ {j}
  /\ UNCHANGED <<ledgerVars, enq, want, mint, tasks>>

Next ==
  \/ \E e \in Enqueuers : Enqueue(e)
  \/ \E w \in Workers : Serve(w) \/ Die(w) \/ \E j \in Jobs : ServeClaim(w, j)
  \/ \E j \in Jobs : ServeNothing(j) \/ LoseTask(j)
  \/ \E j \in Jobs : SweepRead(j) \/ SweepDispatch(j) \/ SweepFails(j)
  \/ \E p \in Platforms : Refill(p)

Spec == Init /\ [][Next]_vars

\* A request being served runs on; Cloud Scheduler calls the sweep for ever and
\* create_task does not fail for ever; the queue delivers what it keeps holding.
Fairness ==
  /\ \A w \in Workers : WF_vars(Serve(w))
  /\ \A j \in Jobs : WF_vars(SweepRead(j)) /\ SF_vars(SweepDispatch(j))
  /\ \A j \in Jobs : SF_vars(\E w \in Workers : ServeClaim(w, j))
  /\ \A p \in Platforms : WF_vars(Refill(p))

FairSpec == Spec /\ Fairness

-----------------------------------------------------------------------------
TypeOK ==
  /\ LedgerTypeOK
  /\ enq \in [Enqueuers -> {"idle", "lost", "dispatching"}]
  /\ want \in [Enqueuers -> Keys]
  /\ mint \in [Enqueuers -> Jobs \cup {NoJob}]
  /\ tasks \subseteq Jobs
  /\ swept \subseteq Jobs

\* "A redelivered task must not re-pull": once the rows of a job have landed, no
\* delivery, sweep or crash makes the provider be called for it again.
NoRepullAfterLanding ==
  [][\A j \in Jobs : landed[j] > 0 =>
       tries'[j] = tries[j] /\ landed'[j] = landed[j]]_vars

\* A row that outlived its lost task, or was requeued after its task was acked,
\* still ends, the sweep re-dispatching what the ledger shows pending, unless the
\* instance executing it died.
Orphaned(j) == state[j] = "running" /\ \A w \in Workers : holds[w] # j
QueuedWindowEnds == \A j \in Jobs : state[j] = "queued" ~> Ended(j) \/ Orphaned(j)

\* "A genuinely stuck claim is released by recover_stale_running_jobs".
StuckClaimReleased == \A j \in Jobs : state[j] = "running" ~> state[j] # "running"
=============================================================================
