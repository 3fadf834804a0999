------------------------- MODULE CollectionRunProofs -------------------------
(***************************************************************************)
(* Collection runs, for any number of runs, windows, workers, dispatchers  *)
(* and faults, slow pulls included.  A run that is over is frozen: every   *)
(* writer of a run goes through the closed state machine of Executions,    *)
(* and no progress is written to a run that left it.  What a run claims    *)
(* landed, and its verdict is final, because each window of a run that is  *)
(* not an early one is owned by the worker that holds it (OwnedJob), so    *)
(* that a window that ended is moved by nobody.                            *)
(***************************************************************************)
EXTENDS CollectionRun, LocalQueueProofs, FiniteSetTheorems

-----------------------------------------------------------------------------
(* The rows of the runs, and who points at them.                           *)

RunRows ==
  /\ run \in [Runs -> RunStates]
  /\ daysDone = [r \in Runs |-> daysDone[r]]
  /\ runOf \in [Jobs -> Runs \cup {NoRun}]
  /\ serving \in [Enqueuers -> Runs \cup {NoRun}]

\* What one step may do to the rows of the runs.
Frozen ==
  \A r \in Runs : run[r] \in RunTerminal =>
    run'[r] = run[r] /\ daysDone'[r] = daysDone[r]

RunWrite ==
  /\ run' \in [Runs -> RunStates]
  /\ daysDone' = [r \in Runs |-> daysDone'[r]]
  /\ Frozen

\* A step that leaves run and daysDone alone respects the state machine.
LEMMA RunsUntouched ==
  ASSUME RunRows, UNCHANGED <<run, daysDone>> PROVE RunWrite
BY DEF RunRows, RunWrite, Frozen

\* A guarded advance of one run does.
LEMMA AdvanceWrites ==
  ASSUME RunRows, NEW r \in Runs, NEW current, NEW new \in RunStates,
         AdvanceState(r, current, new)
  PROVE  /\ run' \in [Runs -> RunStates]
         /\ \A q \in Runs : run[q] \in RunTerminal => run'[q] = run[q]
BY DEF RunRows, AdvanceState, IsValidTransition, RunActive, RunTerminal

\* So does closing a run whose windows have all ended.
LEMMA CloseWrites ==
  ASSUME RunRows, NEW r \in Runs, CloseIfComplete(r)
  PROVE  /\ run' \in [Runs -> RunStates]
         /\ \A q \in Runs : run[q] \in RunTerminal => run'[q] = run[q]
<1>1. Verdict(r) \in RunStates
  BY DEF Verdict, RunStates, RunTerminal
<1> QED BY <1>1, AdvanceWrites DEF CloseIfComplete, RunRows

\* So does writing the days of a run that is loading.
LEMMA ProgressWrites ==
  ASSUME RunRows, NEW r \in Runs, RecordProgress(r)
  PROVE  /\ daysDone' = [q \in Runs |-> daysDone'[q]]
         /\ \A q \in Runs : run[q] \in RunTerminal => daysDone'[q] = daysDone[q]
BY DEF RunRows, RecordProgress, RunActive, RunTerminal

-----------------------------------------------------------------------------
(* One lemma per writer.                                                   *)

\* So does every step of a dispatcher ...
LEMMA DispatchWrites ==
  ASSUME RunRows, NEW e \in Enqueuers, Dispatch(e) PROVE RunWrite /\ RunRows'
<1>1. CASE OpenRun(e)
  <2>1. ASSUME NEW r \in Runs, CreateExecution(r, "loading"), UNCHANGED daysDone
        PROVE  RunWrite
    BY <2>1
    DEF CreateExecution, RunWrite, Frozen, RunRows, RunStates, RunActive, RunTerminal
  <2>2. RunWrite
    BY <1>1, <2>1, RunsUntouched DEF OpenRun
  <2> QED BY <1>1, <2>2 DEF OpenRun, RunWrite, RunRows
<1>2. CASE EnqueueWindow(e)
  <2>1. runOf' \in [Jobs -> Runs \cup {NoRun}]
    BY <1>2 DEF EnqueueWindow, RunRows
  <2> QED BY <1>2, <2>1, RunsUntouched DEF EnqueueWindow, RunRows
<1>3. CASE MissWindow(e)
  BY <1>3, RunsUntouched DEF MissWindow, runVars, RunRows
<1>4. CASE EndDispatch(e)
  <2>1. RunWrite
    BY <1>4, CloseWrites DEF EndDispatch, RunWrite, Frozen, RunRows
  <2> QED BY <1>4, <2>1 DEF EndDispatch, RunWrite, RunRows
<1> QED BY <1>1, <1>2, <1>3, <1>4 DEF Dispatch

\* ... its death ...
LEMMA DispatcherDiesWrites ==
  ASSUME RunRows, NEW e \in Enqueuers, DispatcherDies(e) PROVE RunWrite /\ RunRows'
BY RunsUntouched DEF DispatcherDies, runVars, RunRows

\* ... a worker that tells the run, or fails to ...
LEMMA TellRunWrites ==
  ASSUME RunRows, NEW w \in Workers, NEW j \in Jobs, TellRun(w, j) \/ TellRunFails(w, j)
  PROVE  RunWrite /\ RunRows'
<1>1. CASE runOf[j] = NoRun \/ TellRunFails(w, j)
  BY <1>1, RunsUntouched DEF TellRun, TellRunFails, runVars, dispatchVars, RunRows
<1>2. CASE runOf[j] # NoRun /\ TellRun(w, j)
  <2>1. runOf[j] \in Runs
    BY <1>2 DEF RunRows
  <2>2. RunWrite
    BY <1>2, <2>1, CloseWrites, ProgressWrites
    DEF TellRun, RecordAndClose, RunWrite, Frozen
  <2> QED BY <1>2, <2>2 DEF TellRun, RecordAndClose, dispatchVars, RunWrite, RunRows
<1> QED BY <1>1, <1>2

\* ... the stop door ...
LEMMA StopWrites ==
  ASSUME RunRows, NEW r \in Runs, StopRun(r) PROVE RunWrite /\ RunRows'
<1>1. RunWrite
  BY AdvanceWrites DEF StopRun, RunWrite, Frozen, RunRows, RunStates, RunTerminal
<1> QED BY <1>1 DEF StopRun, dispatchVars, RunWrite, RunRows

\* ... and every step of the queue alone.
LEMMA QueueWrites ==
  ASSUME RunRows, UNCHANGED <<runVars, dispatchVars>> PROVE RunWrite /\ RunRows'
BY RunsUntouched DEF runVars, dispatchVars, RunRows

\* Every step of the specification respects the state machine.
LEMMA StepWrites == RunRows /\ [RunNext]_allVars => RunWrite /\ RunRows'
<1> SUFFICES ASSUME RunRows, [RunNext]_allVars PROVE RunWrite /\ RunRows'
  OBVIOUS
<1>1. ASSUME NEW e \in Enqueuers, Dispatch(e) \/ DispatcherDies(e)
      PROVE  RunWrite /\ RunRows'
  BY <1>1, DispatchWrites, DispatcherDiesWrites
<1>2. ASSUME NEW w \in Workers, RunWork(w) \/ RunSweep(w) \/ RunDie(w)
      PROVE  RunWrite /\ RunRows'
  BY <1>2, TellRunWrites, QueueWrites DEF RunWork, QueueStep, RunSweep, RunDie
<1>3. ASSUME NEW j \in Jobs, RunAge(j) PROVE RunWrite /\ RunRows'
  BY <1>3, RunsUntouched DEF RunAge, dispatchVars, RunRows
<1>4. ASSUME NEW p \in Platforms, RunRefill(p) PROVE RunWrite /\ RunRows'
  BY <1>4, QueueWrites DEF RunRefill
<1>5. ASSUME NEW r \in Runs, StopRun(r) PROVE RunWrite /\ RunRows'
  BY <1>5, StopWrites
<1>6. CASE UNCHANGED allVars
  BY <1>6, QueueWrites DEF allVars
<1> QED BY <1>1, <1>2, <1>3, <1>4, <1>5, <1>6 DEF RunNext

-----------------------------------------------------------------------------
\* A run that is over never changes its state nor the days it reported: neither
\* a late record, a stop, a recovery nor a zombie's answer reopens it.
THEOREM OverIsFrozen == RunSpec => EndedRunFrozen
<1>1. RunInit => RunRows
  BY DEF RunInit, RunRows, RunStates
<1>2. RunRows /\ [RunNext]_allVars => RunRows'
  BY StepWrites
<1>3. RunRows /\ [RunNext]_allVars =>
        [\A r \in Runs : run[r] \in RunTerminal =>
           run'[r] = run[r] /\ daysDone'[r] = daysDone[r]]_allVars
  BY StepWrites DEF RunWrite, Frozen
<1> QED BY <1>1, <1>2, <1>3, PTL DEF RunSpec, EndedRunFrozen

-----------------------------------------------------------------------------
(* What a step of the queue does to one job.                               *)

\* Whoever holds the job is alone with a running row that nobody calls stale.
OwnedJob(j) ==
  \A w \in Workers : holds[w] = j =>
    /\ state[j] = "running" /\ j \notin overdue
    /\ \A v \in Workers : holds[v] = j => v = w

\* A row that is done was landed, by the worker that holds a row it landed; rows
\* that are held exist.
Fed ==
  /\ \A j \in Jobs : state[j] = "done" => landed[j] > 0
  /\ \A w \in Workers : holds[w] \in Jobs => state[holds[w]] # "absent"
  /\ \A w \in Workers : at[w] = "landed" => landed[holds[w]] > 0

\* A step of the ledger that inserts no row.
Plain ==
  \/ \E w \in Workers : \/ ExecuteStep(w) \/ Crash(w) \/ RecoverStale(w)
                        \/ \E j \in Jobs : Claim(w, j) \/ Record(w, j)
  \/ \E j \in Jobs : Overdue(j)
  \/ \E p \in Platforms : Resume(p)
  \/ UNCHANGED ledgerVars

\* No step takes a row, or rows that landed, back.
RowsStay ==
  \A j \in Jobs : /\ state'[j] = "absent" <=> state[j] = "absent"
                  /\ landed'[j] >= landed[j]

\* A worker's step inserts no row, takes no landing back, and ends a row as done
\* only after landing it.
LEMMA ExecuteFeeds ==
  ASSUME LedgerInv, Fed, NEW w \in Workers, ExecuteStep(w)
  PROVE  Fed' /\ RowsStay
<1> USE DEF LedgerInv, LedgerTypeOK
<1>0. holds[w] \in Jobs /\ at[w] \in Executing /\ NoJob \notin Jobs
  BY ExecuteShape, LedgerAssumption DEF Hands, NoJob
<1>1. CASE BeginAttempt(w)
  BY <1>0, <1>1 DEF BeginAttempt, Fed, RowsStay
<1>2. CASE LandRows(w)
  <2>1. /\ landed' = [landed EXCEPT ![holds[w]] = @ + 1] /\ landed[holds[w]] \in Nat
        /\ at' = [at EXCEPT ![w] = "landed"] /\ UNCHANGED <<state, holds>>
    BY <1>0, <1>2 DEF LandRows, rowVars
  <2>2. \A j \in Jobs : landed'[j] >= landed[j]
    BY <2>1
  <2>3. landed'[holds[w]] > 0
    BY <1>0, <2>1
  <2> QED BY <1>0, <2>1, <2>2, <2>3 DEF Fed, RowsStay, Hands, Executing
<1>3. ASSUME NEW s \in TerminalStates, FinishJob(w, s), landed' = landed,
             s = "done" => at[w] = "landed"
      PROVE  Fed' /\ RowsStay
  BY <1>0, <1>3 DEF FinishJob, Fed, RowsStay, TerminalStates
<1>4. ASSUME Requeue(w), landed' = landed
      PROVE  Fed' /\ RowsStay
  BY <1>0, <1>4 DEF Requeue, Fed, RowsStay
<1>5. CASE QuotaBlock(w)
  BY <1>4, <1>5 DEF QuotaBlock
<1>6. CASE Succeed(w)
  BY <1>3, <1>6 DEF Succeed, TerminalStates
<1>7. CASE Prevent(w)
  BY <1>3, <1>7 DEF Prevent, TerminalStates
<1>8. CASE Refuse(w)
  BY <1>3, <1>8 DEF Refuse, TerminalStates
<1>9. CASE Fail(w)
  BY <1>3, <1>9 DEF Fail, FailureState, TerminalStates
<1>10. CASE RateLimited(w)
  BY <1>3, <1>4, <1>10 DEF RateLimited, TerminalStates
<1> QED BY <1>1, <1>2, <1>5, <1>6, <1>7, <1>8, <1>9, <1>10 DEF ExecuteStep

\* So does every step of the ledger that inserts no row.
LEMMA PlainFeeds ==
  ASSUME LedgerInv, Fed, Plain
  PROVE  Fed' /\ RowsStay
<1> USE DEF LedgerInv, LedgerTypeOK
<1>0. NoJob \notin Jobs
  BY LedgerAssumption DEF NoJob
<1>1. ASSUME NEW w \in Workers, ExecuteStep(w) PROVE Fed' /\ RowsStay
  BY <1>1, ExecuteFeeds
<1>2. ASSUME NEW w \in Workers, Crash(w) PROVE Fed' /\ RowsStay
  BY <1>0, <1>2 DEF Crash, rowVars, Fed, RowsStay
<1>3. ASSUME NEW w \in Workers, RecoverStale(w) PROVE Fed' /\ RowsStay
  BY <1>0, <1>3 DEF RecoverStale, Stale, Spent, Fed, RowsStay
<1>4. ASSUME NEW w \in Workers, NEW j \in Jobs, Claim(w, j) PROVE Fed' /\ RowsStay
  BY <1>0, <1>4 DEF Claim, Fed, RowsStay
<1>5. ASSUME NEW w \in Workers, NEW j \in Jobs, Record(w, j) PROVE Fed' /\ RowsStay
  BY <1>0, <1>5 DEF Record, LeaveRecording, rowVars, Fed, RowsStay
<1>6. ASSUME NEW j \in Jobs, Overdue(j) PROVE Fed' /\ RowsStay
  BY <1>6 DEF Overdue, workerVars, Fed, RowsStay
<1>7. ASSUME NEW p \in Platforms, Resume(p) PROVE Fed' /\ RowsStay
  BY <1>7 DEF Resume, rowVars, workerVars, Fed, RowsStay
<1>8. CASE UNCHANGED ledgerVars
  BY <1>8 DEF ledgerVars, rowVars, workerVars, Fed, RowsStay
<1> QED BY <1>1, <1>2, <1>3, <1>4, <1>5, <1>6, <1>7, <1>8 DEF Plain

\* A job that is owned stays so, and is not moved once it has ended, unless its
\* claim is called stale under its worker.
LEMMA OwnedJobStep ==
  ASSUME LedgerInv, Fed, Plain, NEW j \in Jobs, OwnedJob(j),
         (\E w \in Workers : holds[w] = j) /\ j \in overdue' => j \in overdue
  PROVE  OwnedJob(j)' /\ (Ended(j) => state'[j] = state[j])
<1> USE DEF LedgerInv, LedgerTypeOK, OwnedJob, Ended, TerminalStates
<1>0. NoJob \notin Jobs
  BY LedgerAssumption DEF NoJob
<1> DEFINE Goal == OwnedJob(j)' /\ (Ended(j) => state'[j] = state[j])
<1>1. ASSUME NEW w \in Workers, ExecuteStep(w) PROVE Goal
  <2>1. holds[w] \in Jobs
    BY <1>1, ExecuteShape DEF Hands
  <2>2. CASE Keeps
    BY <2>2 DEF Keeps
  <2>3. ASSUME NEW s \in TerminalStates, FinishJob(w, s) PROVE Goal
    BY <1>0, <2>1, <2>3 DEF FinishJob
  <2>4. CASE Requeue(w)
    BY <1>0, <2>1, <2>4 DEF Requeue
  <2> QED BY <1>1, <2>2, <2>3, <2>4, ExecuteShape
<1>2. ASSUME NEW w \in Workers, Crash(w) PROVE Goal
  BY <1>0, <1>2 DEF Crash, rowVars
<1>3. ASSUME NEW w \in Workers, RecoverStale(w) PROVE Goal
  BY <1>3 DEF RecoverStale, Stale, Spent
<1>4. ASSUME NEW w \in Workers, NEW i \in Jobs, Claim(w, i) PROVE Goal
  BY <1>4 DEF Claim
<1>5. ASSUME NEW w \in Workers, NEW i \in Jobs, Record(w, i) PROVE Goal
  BY <1>5 DEF Record, LeaveRecording, rowVars
<1>6. ASSUME NEW i \in Jobs, Overdue(i) PROVE Goal
  BY <1>6 DEF Overdue, workerVars
<1>7. ASSUME NEW p \in Platforms, Resume(p) PROVE Goal
  BY <1>7 DEF Resume, rowVars, workerVars
<1>8. CASE UNCHANGED ledgerVars
  BY <1>8 DEF ledgerVars, rowVars, workerVars
<1> QED BY <1>1, <1>2, <1>3, <1>4, <1>5, <1>6, <1>7, <1>8 DEF Plain

-----------------------------------------------------------------------------
(* The inductive invariant of the runs.                                    *)

Opened(r) == run[r] # "absent"

\* The dispatcher of a run is its only one, and the run is open as long as it
\* has windows left, but for a run that was over early.
Served ==
  /\ \A e \in Enqueuers : serving[e] \in Runs => next[e] # 0 /\ Opened(serving[e])
  /\ \A e, f \in Enqueuers : serving[e] \in Runs /\ serving[e] = serving[f] => e = f
  /\ \A e \in Enqueuers : serving[e] \in Runs \ early /\ Dispatching(e) =>
       run[serving[e]] \in RunActive

\* Windows belong to runs that were opened, and each is owned while its run is
\* not one a slow pull took part in.
BoundOwned ==
  \A j \in Jobs : state[j] # "absent" /\ runOf[j] \in Runs =>
    /\ Opened(runOf[j])
    /\ runOf[j] \notin early => OwnedJob(j)

\* A run has no more windows than its dispatch enqueued.
Counted ==
  \A r \in Runs :
    /\ Cardinality(Bound(r)) <= Len(Windows)
    /\ \A e \in Enqueuers : serving[e] = r => Cardinality(Bound(r)) < next[e]

RunInv ==
  RunTypeOK /\ Hands /\ Fed /\ Served /\ BoundOwned /\ Counted /\ ClaimedDaysLanded /\ VerdictIsFinal

\* What the invariant says of the types, in the form the steps below cite.
LEMMA RunInvTypes ==
  ASSUME RunInv
  PROVE  /\ LedgerInv /\ QueueInv /\ TypeOK
         /\ run \in [Runs -> RunStates] /\ runOf \in [Jobs -> Runs \cup {NoRun}]
         /\ daysDone \in [Runs -> Nat] /\ serving \in [Enqueuers -> Runs \cup {NoRun}]
         /\ next \in [Enqueuers -> 0..Len(Windows) + 1] /\ early \subseteq Runs
         /\ Len(Windows) \in Nat /\ NoRun \notin Runs
BY CollectionAssumption DEF RunInv, RunTypeOK, TypeOK, LedgerInv, QueueInv

-----------------------------------------------------------------------------
(* What every step of the runs does, in the terms of the invariant.        *)

\* A row that comes in belongs to the run of the dispatcher that inserted it.
OneComesIn(j) ==
  /\ \A w \in Workers : holds'[w] # j
  /\ \A i \in Jobs \ {j} : state'[i] = "absent" <=> state[i] = "absent"
  /\ \E e \in Enqueuers :
       /\ Dispatching(e) /\ runOf'[j] = serving[e]
       /\ next'[e] = next[e] + 1 /\ serving' = serving

RowsMove ==
  /\ \A j \in Jobs : /\ landed'[j] >= landed[j]
                     /\ state[j] # "absent" => state'[j] # "absent" /\ runOf'[j] = runOf[j]
                     /\ state[j] = "absent" /\ state'[j] # "absent" => OneComesIn(j)
                     /\ runOf'[j] # runOf[j] => state'[j] # "absent"
  /\ \A j \in Jobs : state[j] # "absent" /\ OwnedJob(j) =>
       /\ Ended(j) => state'[j] = state[j]
       /\ runOf[j] \in Runs \ early' => OwnedJob(j)'

\* A run ends by its windows, or by a person; a dispatch that had windows left
\* makes the end an early one.
RunsMove ==
  /\ early \subseteq early' /\ early' \subseteq Runs
  /\ \A r \in Runs :
       /\ Opened(r) => Opened(r)'
       /\ run[r] \in RunTerminal => run'[r] = run[r]
       /\ ~Opened(r) => run'[r] \in {"absent", "loading"}
       /\ run[r] \in RunActive /\ run'[r] \notin RunActive =>
            /\ r \in early' \/ \A e \in Enqueuers : serving[e] = r => ~Dispatching(e)
            /\ \/ run'[r] = "cancelled"
               \/ AllTerminal(r) /\ run'[r] = Verdict(r) /\ UNCHANGED <<state, runOf>>
       /\ \/ daysDone'[r] = daysDone[r]
          \/ daysDone'[r] = WindowsDone(r) /\ UNCHANGED <<state, runOf>>

\* A dispatcher goes on with its run, opens one of its own, or has none.
ServersMove ==
  \A e \in Enqueuers : serving'[e] \in Runs =>
    \/ /\ serving'[e] = serving[e] /\ next'[e] >= next[e]
    \/ /\ ~Opened(serving'[e]) /\ run'[serving'[e]] = "loading" /\ next'[e] = 1
       /\ \A f \in Enqueuers \ {e} : serving'[f] = serving[f] /\ serving[f] # serving'[e]

RunMoves == RowsMove /\ RunsMove /\ ServersMove

\* A dispatcher keeps serving an opened run with a window index, or is early.
LEMMA ServedStep ==
  ASSUME RunInv, RunTypeOK', RunMoves
  PROVE  Served'
<1>0. Served /\ run \in [Runs -> RunStates] /\ early' \subseteq Runs
  BY RunInvTypes DEF RunInv, RunMoves, RunsMove
<1>1. ASSUME NEW e \in Enqueuers, serving'[e] \in Runs
      PROVE  next'[e] # 0 /\ run'[serving'[e]] # "absent"
  <2>1. CASE serving'[e] = serving[e] /\ next'[e] >= next[e]
    <3>1. next[e] # 0 /\ Opened(serving[e]) /\ next[e] \in Nat /\ next'[e] \in Nat
      BY <1>0, <1>1, <2>1, RunInvTypes DEF Served, RunTypeOK
    <3> QED BY <1>1, <2>1, <3>1 DEF RunMoves, RunsMove, Opened
  <2>2. CASE run'[serving'[e]] = "loading" /\ next'[e] = 1
    BY <2>2
  <2> QED BY <1>1, <2>1, <2>2 DEF RunMoves, ServersMove
<1>2. ASSUME NEW e \in Enqueuers, NEW f \in Enqueuers,
             serving'[e] \in Runs, serving'[e] = serving'[f]
      PROVE  e = f
  BY <1>0, <1>2 DEF RunMoves, ServersMove, Served
<1>3. ASSUME NEW e \in Enqueuers, serving'[e] \in Runs \ early', next'[e] \in 1..Len(Windows)
      PROVE  run'[serving'[e]] \in RunActive
  <2>1. CASE serving'[e] = serving[e] /\ next'[e] >= next[e]
    <3>1. next[e] # 0 /\ next[e] \in Nat /\ Len(Windows) \in Nat
      BY <1>0, <1>3, <2>1, RunInvTypes DEF Served
    <3>2. Dispatching(e) /\ serving[e] \in Runs \ early
      BY <1>3, <2>1, <3>1 DEF Dispatching, RunMoves, RunsMove
    <3>3. run[serving[e]] \in RunActive
      BY <1>0, <3>2 DEF Served
    <3> QED BY <1>3, <2>1, <3>2, <3>3 DEF RunMoves, RunsMove
  <2>2. CASE run'[serving'[e]] = "loading"
    BY <2>2 DEF RunActive
  <2> QED BY <1>3, <2>1, <2>2 DEF RunMoves, ServersMove
<1> QED BY <1>1, <1>2, <1>3 DEF Served, Dispatching, Opened

\* The jobs of a run stay bound to it and, unless it is early, owned.
LEMMA BoundOwnedStep ==
  ASSUME RunInv, RunMoves
  PROVE  BoundOwned'
<1> SUFFICES ASSUME NEW j \in Jobs, state'[j] # "absent", runOf'[j] \in Runs
             PROVE  /\ run'[runOf'[j]] # "absent"
                    /\ runOf'[j] \notin early' => OwnedJob(j)'
  BY DEF BoundOwned, Opened
<1>1. CASE state[j] # "absent"
  <2>1. runOf'[j] = runOf[j] /\ early \subseteq early'
    BY <1>1 DEF RunMoves, RowsMove, RunsMove
  <2>2. Opened(runOf[j]) /\ (runOf[j] \notin early => OwnedJob(j))
    BY <1>1, <2>1 DEF RunInv, BoundOwned
  <2> QED BY <1>1, <2>1, <2>2 DEF RunMoves, RowsMove, RunsMove, Opened
<1>2. CASE state[j] = "absent"
  <2>1. PICK e \in Enqueuers : runOf'[j] = serving[e] /\ \A w \in Workers : holds'[w] # j
    BY <1>2 DEF RunMoves, RowsMove, OneComesIn
  <2>2. Opened(serving[e])
    BY <2>1 DEF RunInv, Served
  <2> QED BY <2>1, <2>2 DEF RunMoves, RunsMove, Opened, OwnedJob
<1> QED BY <1>1, <1>2

\* A verdict stays the one its windows give: they have ended, and nobody moves them.
LEMMA VerdictStep ==
  ASSUME RunInv, RunMoves
  PROVE  VerdictIsFinal'
<1> SUFFICES ASSUME NEW r \in Runs, r \notin early', run'[r] \in {"collected", "failed"}
             PROVE  AllTerminal(r)' /\ run'[r] = Verdict(r)'
  BY DEF VerdictIsFinal
<1>0. r \notin early /\ run[r] \in RunStates
  BY RunInvTypes DEF RunMoves, RunsMove
<1>1. CASE UNCHANGED <<state, runOf>> /\ AllTerminal(r) /\ run'[r] = Verdict(r)
  BY <1>1 DEF AllTerminal, Verdict, Bound, Ended
<1>2. CASE run[r] \in RunTerminal
  <2>1. run'[r] = run[r] /\ AllTerminal(r) /\ run[r] = Verdict(r)
    BY <1>0, <1>2 DEF RunMoves, RunsMove, RunInv, VerdictIsFinal
  <2>2. ASSUME NEW j \in Jobs, state'[j] # "absent", runOf'[j] = r
        PROVE  j \in Bound(r) /\ state'[j] = state[j]
    <3>1. CASE state[j] = "absent"
      <4>1. PICK e \in Enqueuers : Dispatching(e) /\ r = serving[e]
        BY <2>2, <3>1 DEF RunMoves, RowsMove, OneComesIn
      <4>2. run[r] \in RunActive
        BY <1>0, <4>1 DEF RunInv, Served
      <4> QED BY <1>2, <4>2 DEF RunActive, RunTerminal
    <3>2. CASE state[j] # "absent"
      <4>1. j \in Bound(r) /\ OwnedJob(j) /\ Ended(j)
        BY <1>0, <2>1, <2>2, <3>2 DEF RunMoves, RowsMove, Bound, RunInv, BoundOwned, AllTerminal
      <4> QED BY <4>1 DEF RunMoves, RowsMove, Bound
    <3> QED BY <3>1, <3>2
  <2>3. ASSUME NEW j \in Bound(r)
        PROVE  state'[j] # "absent" /\ runOf'[j] = r /\ state'[j] = state[j]
    <3>1. j \in Jobs /\ state[j] # "absent" /\ runOf[j] = r
      BY DEF Bound
    <3>2. state'[j] # "absent" /\ runOf'[j] = r
      BY <3>1 DEF RunMoves, RowsMove
    <3> QED BY <2>2, <3>1, <3>2
  <2>4. Bound(r)' = Bound(r) /\ \A j \in Bound(r) : state'[j] = state[j]
    BY <2>2, <2>3 DEF Bound
  <2> QED BY <2>1, <2>4 DEF AllTerminal, Verdict, Ended
<1>3. CASE run[r] \in RunActive
  <2>1. run'[r] \notin RunActive /\ run'[r] # "cancelled"
    BY DEF RunActive
  <2> QED BY <1>1, <1>3, <2>1 DEF RunMoves, RunsMove
<1>4. CASE run[r] = "absent"
  BY <1>4 DEF RunMoves, RunsMove, Opened
<1> QED BY <1>0, <1>2, <1>3, <1>4 DEF RunStates

\* One job more, at most, is bound to a run.
LEMMA BoundGrows ==
  ASSUME IsFiniteSet(Jobs), RunInv, RunMoves, NEW r \in Runs
  PROVE  /\ IsFiniteSet(Bound(r)') /\ Bound(r) \subseteq Bound(r)'
         /\ Cardinality(Bound(r)) \in Nat /\ Cardinality(Bound(r)') \in Nat
         /\ \/ Bound(r)' = Bound(r)
            \/ \E e \in Enqueuers :
                 /\ Dispatching(e) /\ serving[e] = r
                 /\ next'[e] = next[e] + 1 /\ serving' = serving
                 /\ Cardinality(Bound(r)') = Cardinality(Bound(r)) + 1
<1>1. \A S \in SUBSET Jobs : IsFiniteSet(S) /\ Cardinality(S) \in Nat
  BY FS_Subset, FS_CardinalityType
<1>2. Bound(r) \in SUBSET Jobs /\ Bound(r)' \in SUBSET Jobs
  BY DEF Bound
<1>3. Bound(r) \subseteq Bound(r)'
  BY DEF Bound, RunMoves, RowsMove
<1>4. ASSUME NEW j \in Bound(r)', j \notin Bound(r)
      PROVE  /\ Bound(r)' = Bound(r) \cup {j}
             /\ \E e \in Enqueuers :
                  /\ Dispatching(e) /\ serving[e] = r
                  /\ next'[e] = next[e] + 1 /\ serving' = serving
  <2>1. j \in Jobs /\ state'[j] # "absent" /\ runOf'[j] = r
    BY <1>4 DEF Bound
  <2>2. state[j] = "absent"
    BY <1>4, <2>1 DEF Bound, RunMoves, RowsMove
  <2>3. /\ \A i \in Jobs \ {j} : state'[i] = "absent" <=> state[i] = "absent"
        /\ \E e \in Enqueuers :
             /\ Dispatching(e) /\ runOf'[j] = serving[e]
             /\ next'[e] = next[e] + 1 /\ serving' = serving
    BY <2>1, <2>2 DEF RunMoves, RowsMove, OneComesIn
  <2>4. \A i \in Bound(r)' : i = j \/ i \in Bound(r)
    BY <2>3 DEF Bound, RunMoves, RowsMove
  <2> QED BY <1>3, <1>4, <2>1, <2>3, <2>4
<1>5. CASE \E j \in Bound(r)' : j \notin Bound(r)
  <2>1. PICK j \in Bound(r)' : j \notin Bound(r)
    BY <1>5
  <2>2. Bound(r)' = Bound(r) \cup {j}
    BY <1>4, <2>1
  <2>3. Cardinality(Bound(r) \cup {j}) = Cardinality(Bound(r)) + 1
    BY <1>1, <1>2, <2>1, FS_AddElement
  <2> QED BY <1>1, <1>2, <1>3, <1>4, <2>1, <2>2, <2>3
<1>6. CASE Bound(r)' \subseteq Bound(r)
  BY <1>1, <1>2, <1>3, <1>6
<1> QED BY <1>5, <1>6

\* A run has a job per window its dispatcher has passed, at most.
LEMMA CountedStep ==
  ASSUME IsFiniteSet(Jobs), RunInv, RunTypeOK', RunMoves
  PROVE  Counted'
<1> SUFFICES ASSUME NEW r \in Runs
             PROVE  /\ Cardinality(Bound(r)') <= Len(Windows)
                    /\ \A e \in Enqueuers : serving'[e] = r => Cardinality(Bound(r)') < next'[e]
  BY DEF Counted
<1> DEFINE n == Cardinality(Bound(r))
           m == Cardinality(Bound(r)')
<1>0. /\ n \in Nat /\ m \in Nat /\ Len(Windows) \in Nat /\ n <= Len(Windows)
      /\ next \in [Enqueuers -> Nat] /\ next' \in [Enqueuers -> Nat]
      /\ \A e \in Enqueuers : serving[e] = r => n < next[e]
      /\ \A e \in Enqueuers : Dispatching(e) => next[e] <= Len(Windows)
  BY BoundGrows, RunInvTypes DEF RunInv, Counted, RunTypeOK, Dispatching
<1>1. \/ Bound(r)' = Bound(r)
      \/ \E e \in Enqueuers :
           /\ Dispatching(e) /\ serving[e] = r
           /\ next'[e] = next[e] + 1 /\ serving' = serving
           /\ m = n + 1
  BY BoundGrows
<1> HIDE DEF n, m
<1>2. CASE Bound(r)' = Bound(r)
  <2>1. m = n
    BY <1>2 DEF n, m
  <2>2. ASSUME NEW e \in Enqueuers, serving'[e] = r
        PROVE  n < next'[e]
    <3>1. CASE serving'[e] = serving[e] /\ next'[e] >= next[e]
      <4>1. n < next[e] /\ next[e] \in Nat /\ next'[e] \in Nat
        BY <1>0, <2>2, <3>1
      <4> QED BY <1>0, <3>1, <4>1
    <3>2. CASE ~Opened(r) /\ next'[e] = 1
      <4>1. Bound(r) = {}
        BY <3>2 DEF Bound, RunInv, BoundOwned
      <4> QED BY <3>2, <4>1, FS_EmptySet DEF n
    <3> QED BY <2>2, <3>1, <3>2 DEF RunMoves, ServersMove
  <2> QED BY <1>0, <2>1, <2>2 DEF m
<1>3. ASSUME NEW e \in Enqueuers, Dispatching(e), serving[e] = r,
             next'[e] = next[e] + 1, serving' = serving, m = n + 1
      PROVE  m <= Len(Windows) /\ \A f \in Enqueuers : serving'[f] = r => m < next'[f]
  <2>1. n < next[e] /\ next[e] <= Len(Windows) /\ next[e] \in Nat
    BY <1>0, <1>3
  <2>2. \A f \in Enqueuers : serving'[f] = r => f = e
    BY <1>3 DEF RunInv, Served
  <2> QED BY <1>0, <1>3, <2>1, <2>2
<1> QED BY <1>1, <1>2, <1>3 DEF m

\* The days a run claims stay within its landed jobs: they are counted from its
\* done jobs, and those landed.
LEMMA ClaimedStep ==
  ASSUME IsFiniteSet(Jobs), RunInv, RunTypeOK', Fed', Counted', RunMoves
  PROVE  ClaimedDaysLanded'
<1> SUFFICES ASSUME NEW r \in Runs
             PROVE  /\ daysDone'[r] <= Cardinality({j \in Bound(r)' : landed'[j] > 0})
                    /\ daysDone'[r] <= Len(Windows)
  BY DEF ClaimedDaysLanded
<1> DEFINE L == {j \in Bound(r) : landed[j] > 0}
           M == {j \in Bound(r)' : landed'[j] > 0}
           D == {j \in Bound(r) : state[j] = "done"}
<1>1. \A S \in SUBSET Jobs : IsFiniteSet(S) /\ Cardinality(S) \in Nat
  BY FS_Subset, FS_CardinalityType
<1>2. M \in SUBSET Jobs /\ Bound(r)' \in SUBSET Jobs /\ M \in SUBSET Bound(r)'
  BY DEF Bound
<1>3. L \subseteq M
  <2>1. \A j \in Jobs : landed[j] \in Nat /\ landed'[j] \in Nat /\ landed'[j] >= landed[j]
    BY RunInvTypes DEF RunTypeOK, TypeOK, LedgerTypeOK, RunMoves, RowsMove
  <2>2. \A j \in Jobs : landed[j] > 0 => landed'[j] > 0
    BY <2>1
  <2>3. Bound(r) \subseteq Bound(r)' /\ Bound(r) \subseteq Jobs
    BY BoundGrows DEF Bound
  <2> QED BY <2>2, <2>3
<1>4. /\ Cardinality(L) <= Cardinality(M) /\ Cardinality(M) <= Cardinality(Bound(r)')
      /\ Cardinality(M) \in Nat /\ Cardinality(L) \in Nat /\ Cardinality(Bound(r)') \in Nat
  <2>1. L \in SUBSET M /\ L \in SUBSET Jobs
    BY <1>2, <1>3
  <2> QED BY <1>1, <1>2, <2>1, FS_Subset
<1>5. Cardinality(Bound(r)') <= Len(Windows) /\ Len(Windows) \in Nat
  BY RunInvTypes DEF Counted
<1>6. daysDone'[r] <= Cardinality(M)
  <2>1. CASE daysDone'[r] = daysDone[r]
    <3>1. daysDone[r] <= Cardinality(L) /\ daysDone[r] \in Nat
      BY RunInvTypes DEF RunInv, ClaimedDaysLanded
    <3> QED BY <1>4, <2>1, <3>1
  <2>2. CASE daysDone'[r] = WindowsDone(r) /\ UNCHANGED <<state, runOf>>
    <3>1. D \in SUBSET M
      <4>1. D \subseteq L
        BY DEF RunInv, Fed, Bound
      <4> QED BY <1>3, <4>1
    <3>2. Cardinality(D) <= Cardinality(M)
      BY <1>1, <1>2, <3>1, FS_Subset
    <3> QED BY <2>2, <3>2 DEF WindowsDone
  <2> QED BY <2>1, <2>2 DEF RunMoves, RunsMove
<1>7. daysDone'[r] \in Nat
  BY DEF RunTypeOK
<1> HIDE DEF L, M, D
<1>8. daysDone'[r] <= Len(Windows)
  BY <1>4, <1>5, <1>6, <1>7
<1> QED BY <1>6, <1>8 DEF M

-----------------------------------------------------------------------------
(* Every action moves as RunMoves says.                                    *)

\* A step that leaves the rows alone moves nothing of them.
LEMMA RowsStill ==
  ASSUME RunInv, UNCHANGED <<state, overdue, holds, landed, runOf>>
  PROVE  RowsMove
<1>1. \A j \in Jobs : landed[j] \in Nat
  BY RunInvTypes DEF TypeOK, LedgerTypeOK
<1> QED BY <1>1 DEF RowsMove, OwnedJob, Ended

\* A plain step keeps the invariants of the ledger.
LEMMA PlainIsLedgerStep ==
  ASSUME RunInv, Plain
  PROVE  LedgerInv' /\ Fed' /\ RowsStay
<1>1. [LedgerNext]_ledgerVars
  BY DEF Plain, LedgerNext, LedgerMove
<1> QED BY <1>1, LedgerInvStep, PlainFeeds, RunInvTypes DEF RunInv

\* The queue on its own, with claims that are called stale under their worker only
\* in runs that are counted as early.
LEMMA PlainRows ==
  ASSUME RunInv, Plain, UNCHANGED runOf,
         \A j \in Jobs : runOf[j] \in Runs \ early' /\ (\E w \in Workers : holds[w] = j)
                           => (j \in overdue' => j \in overdue)
  PROVE  RowsMove
<1>0. LedgerInv /\ Fed /\ RowsStay
  BY PlainIsLedgerStep, RunInvTypes DEF RunInv
<1>1. ASSUME NEW j \in Jobs, OwnedJob(j)
      PROVE  /\ Ended(j) => state'[j] = state[j]
             /\ runOf[j] \in Runs \ early' => OwnedJob(j)'
  <2>1. CASE runOf[j] \in Runs \ early'
    <3>1. (\E w \in Workers : holds[w] = j) /\ j \in overdue' => j \in overdue
      BY <2>1
    <3> QED BY <1>0, <1>1, <3>1, OwnedJobStep
  <2>2. CASE Ended(j)
    <3>1. ~\E w \in Workers : holds[w] = j
      BY <1>1, <2>2 DEF OwnedJob, Ended, TerminalStates
    <3> QED BY <1>0, <1>1, <3>1, OwnedJobStep
  <2> QED BY <2>1, <2>2
<1> QED BY <1>0, <1>1 DEF RowsMove, RowsStay

\* Where no run moves.
LEMMA RunsStill ==
  ASSUME RunInv, UNCHANGED <<run, daysDone>>, early \subseteq early', early' \subseteq Runs
  PROVE  RunsMove
BY DEF RunsMove, Opened

\* A step that leaves the dispatchers alone moves none of them.
LEMMA ServersStill ==
  ASSUME RunInv, UNCHANGED dispatchVars
  PROVE  ServersMove
<1>1. \A e \in Enqueuers : next[e] \in Nat
  BY RunInvTypes
<1> QED BY <1>1 DEF ServersMove, dispatchVars

\* Closing a run moves it as RunsMove allows: nobody serves it any more, or it is
\* early.
LEMMA CloseMoves ==
  ASSUME RunInv, NEW r \in Runs, CloseIfComplete(r), UNCHANGED <<state, runOf>>,
         \A q \in Runs : daysDone'[q] = daysDone[q] \/ daysDone'[q] = WindowsDone(q)
  PROVE  RunsMove
<1>0. run \in [Runs -> RunStates] /\ early \subseteq Runs
  BY RunInvTypes
<1>1. CASE run[r] \in RunActive /\ AllTerminal(r)
  <2>1. run' = [run EXCEPT ![r] = Verdict(r)] /\ early' = early \cup StillServed(r)
    BY <1>1 DEF CloseIfComplete, AdvanceState
  <2>2. StillServed(r) \subseteq {r}
        /\ (r \in StillServed(r) \/ \A e \in Enqueuers : serving[e] = r => ~Dispatching(e))
    BY DEF StillServed
  <2>3. Verdict(r) # "absent"
    BY DEF Verdict
  <2> QED BY <1>0, <1>1, <2>1, <2>2, <2>3 DEF RunsMove, Opened, RunActive, RunTerminal
<1>2. CASE UNCHANGED <<run, early>>
  BY <1>0, <1>2 DEF RunsMove, Opened
<1> QED BY <1>1, <1>2 DEF CloseIfComplete

\* The types of what the runs add to the queue.
RunColumns ==
  /\ run \in [Runs -> RunStates]
  /\ runOf \in [Jobs -> Runs \cup {NoRun}]
  /\ daysDone \in [Runs -> Nat]
  /\ serving \in [Enqueuers -> Runs \cup {NoRun}]
  /\ next \in [Enqueuers -> 0..Len(Windows) + 1]
  /\ early \subseteq Runs

\* The conjuncts of the invariant together, from what every step does.
LEMMA RunInvStep ==
  ASSUME IsFiniteSet(Jobs), RunInv, QueueInv', RunColumns', Fed', RunMoves
  PROVE  RunInv'
<1>1. RunTypeOK' /\ Hands'
  BY DEF QueueInv, RunColumns, RunTypeOK
<1>2. Served' /\ BoundOwned' /\ Counted' /\ VerdictIsFinal'
  BY <1>1, ServedStep, BoundOwnedStep, CountedStep, VerdictStep
<1>3. ClaimedDaysLanded'
  BY <1>1, <1>2, ClaimedStep
<1> QED BY <1>1, <1>2, <1>3 DEF RunInv

Good == QueueInv' /\ RunColumns' /\ Fed' /\ RunMoves

\* A step of the run alone keeps the invariants of the queue.
LEMMA StillQueue ==
  ASSUME RunInv, UNCHANGED vars
  PROVE  QueueInv' /\ Fed'
<1>1. QueueInv'
  BY QueueInvStep, RunInvTypes
<1> QED BY <1>1 DEF RunInv, Fed, vars, ledgerVars, rowVars, workerVars

\* One lemma per action from here: opening a run ...
LEMMA OpenRunGood == ASSUME RunInv, NEW e \in Enqueuers, OpenRun(e) PROVE Good
<1>0. /\ run \in [Runs -> RunStates] /\ daysDone \in [Runs -> Nat]
      /\ serving \in [Enqueuers -> Runs \cup {NoRun}] /\ NoRun \notin Runs
      /\ next \in [Enqueuers -> 0..Len(Windows) + 1] /\ Len(Windows) \in Nat
      /\ runOf \in [Jobs -> Runs \cup {NoRun}] /\ early \subseteq Runs
  BY RunInvTypes
<1>1. UNCHANGED <<vars, runOf, daysDone, early>> /\ next[e] = 0 /\ next' = [next EXCEPT ![e] = 1]
  BY DEF OpenRun
<1>2. serving[e] = NoRun
  BY <1>0, <1>1 DEF RunInv, Served
<1>3. QueueInv' /\ Fed' /\ RowsMove
  BY <1>1, StillQueue, RowsStill DEF vars, ledgerVars, rowVars, workerVars
<1>4. CASE UNCHANGED <<run, serving>>
  <2>1. RunsMove
    BY <1>0, <1>1, <1>4, RunsStill
  <2>2. ServersMove
    BY <1>0, <1>1, <1>2, <1>4 DEF ServersMove
  <2>3. RunColumns'
    BY <1>0, <1>1, <1>4 DEF RunColumns
  <2> QED BY <1>3, <2>1, <2>2, <2>3 DEF Good, RunMoves
<1>5. ASSUME NEW r \in Runs, CreateExecution(r, "loading"), serving' = [serving EXCEPT ![e] = r]
      PROVE  Good
  <2>1. run[r] = "absent" /\ run' = [run EXCEPT ![r] = "loading"]
    BY <1>5 DEF CreateExecution
  <2>2. RunsMove
    BY <1>0, <1>1, <2>1 DEF RunsMove, Opened, RunActive, RunTerminal
  <2>3. ServersMove
    <3>1. \A f \in Enqueuers \ {e} : serving[f] # r
      BY <2>1 DEF RunInv, Served, Opened
    <3> QED BY <1>0, <1>1, <1>5, <2>1, <3>1 DEF ServersMove, Opened
  <2>4. RunColumns'
    BY <1>0, <1>1, <1>5, <2>1 DEF RunColumns, RunStates, RunActive
  <2> QED BY <1>3, <2>2, <2>3, <2>4 DEF Good, RunMoves
<1> QED BY <1>4, <1>5 DEF OpenRun

\* ... enqueuing one of its windows ...
LEMMA EnqueueWindowGood == ASSUME RunInv, NEW e \in Enqueuers, EnqueueWindow(e) PROVE Good
<1>0. /\ run \in [Runs -> RunStates] /\ daysDone \in [Runs -> Nat]
      /\ serving \in [Enqueuers -> Runs \cup {NoRun}] /\ NoRun \notin Runs
      /\ next \in [Enqueuers -> 0..Len(Windows) + 1] /\ Len(Windows) \in Nat
      /\ runOf \in [Jobs -> Runs \cup {NoRun}] /\ early \subseteq Runs
      /\ enq \in [Enqueuers -> {"idle", "inserting", "lost"}]
      /\ \A j \in Jobs : landed[j] \in Nat
  BY RunInvTypes DEF TypeOK, LedgerTypeOK
<1>1. /\ UNCHANGED <<run, daysDone, early, serving>> /\ Dispatching(e)
      /\ next' = [next EXCEPT ![e] = IF enq'[e] = "idle" THEN @ + 1 ELSE @]
      /\ \/ (Lookup(e, Windows[next[e]]) \/ InsertConflicts(e) \/ SelectWinner(e)) /\ UNCHANGED runOf
         \/ \E j \in Jobs : InsertWins(e, j) /\ runOf' = [runOf EXCEPT ![j] = serving[e]]
  BY DEF EnqueueWindow
<1>2. QueueInv'
  <2>1. Windows[next[e]] \in Keys
    BY <1>1, CollectionAssumption DEF Dispatching
  <2>2. Enqueue(e)
    BY <1>1, <2>1 DEF Enqueue
  <2> QED BY <2>2, QueueInvStep, RunInvTypes DEF Next
<1>3. RunsMove
  BY <1>0, <1>1, RunsStill
<1>4. next[e] \in 1..Len(Windows) /\ next'[e] \in {next[e], next[e] + 1}
  BY <1>0, <1>1 DEF Dispatching
<1>5. ServersMove
  BY <1>0, <1>1, <1>4 DEF ServersMove
<1>6. RunColumns'
  <2>1. next' \in [Enqueuers -> 0..Len(Windows) + 1]
    BY <1>0, <1>1, <1>4
  <2>2. runOf' \in [Jobs -> Runs \cup {NoRun}]
    BY <1>0, <1>1
  <2> QED BY <1>0, <1>1, <2>1, <2>2 DEF RunColumns
<1>7. CASE (Lookup(e, Windows[next[e]]) \/ InsertConflicts(e) \/ SelectWinner(e)) /\ UNCHANGED runOf
  <2>1. UNCHANGED <<ledgerVars, runOf>>
    BY <1>7 DEF Lookup, InsertConflicts, SelectWinner
  <2>2. RowsMove /\ Fed'
    BY <2>1, RowsStill DEF ledgerVars, rowVars, workerVars, RunInv, Fed
  <2> QED BY <1>2, <1>3, <1>5, <1>6, <2>2 DEF Good, RunMoves
<1>8. ASSUME NEW j \in Jobs, InsertWins(e, j), runOf' = [runOf EXCEPT ![j] = serving[e]]
      PROVE  Good
  <2>1. /\ state[j] = "absent" /\ state' = [state EXCEPT ![j] = "queued"]
        /\ UNCHANGED <<overdue, holds, at, landed>> /\ enq'[e] = "idle"
    BY <1>0, <1>8 DEF InsertWins, Insert, workerVars, Answer
  <2>2. state \in [Jobs -> JobStates \cup {"absent"}]
    BY RunInvTypes DEF TypeOK, LedgerTypeOK
  <2>3. \A w \in Workers : holds[w] # j
    BY <2>1 DEF RunInv, Fed
  <2>4. Fed'
    BY <2>1, <2>2 DEF RunInv, Fed
  <2>5. OneComesIn(j)
    BY <1>0, <1>1, <1>8, <2>1, <2>2, <2>3 DEF OneComesIn
  <2>6. \A i \in Jobs \ {j} : state'[i] = state[i] /\ runOf'[i] = runOf[i]
    BY <1>0, <1>8, <2>1, <2>2
  <2>7. RowsMove
    <3>1. state'[j] # "absent"
      BY <2>1, <2>2
    <3>2. \A i \in Jobs : landed'[i] >= landed[i]
      BY <1>0, <2>1
    <3>3. \A i \in Jobs : state[i] # "absent" => state'[i] = state[i]
      BY <2>1, <2>6
    <3>4. \A i \in Jobs : state[i] # "absent" /\ OwnedJob(i) => OwnedJob(i)'
      BY <2>1, <3>3 DEF OwnedJob
    <3> QED BY <2>1, <2>5, <2>6, <3>1, <3>2, <3>3, <3>4 DEF RowsMove
  <2> QED BY <1>2, <1>3, <1>5, <1>6, <2>4, <2>7 DEF Good, RunMoves
<1> QED BY <1>1, <1>7, <1>8

\* ... missing a window, and the end of the dispatch ...
LEMMA DispatchEndsGood ==
  ASSUME RunInv, NEW e \in Enqueuers, MissWindow(e) \/ EndDispatch(e)
  PROVE  Good
<1>0. /\ run \in [Runs -> RunStates] /\ daysDone \in [Runs -> Nat]
      /\ serving \in [Enqueuers -> Runs \cup {NoRun}] /\ NoRun \notin Runs
      /\ next \in [Enqueuers -> 0..Len(Windows) + 1] /\ Len(Windows) \in Nat
      /\ runOf \in [Jobs -> Runs \cup {NoRun}] /\ early \subseteq Runs
  BY RunInvTypes
<1>1. UNCHANGED <<vars, runOf, daysDone>>
  BY DEF MissWindow, EndDispatch, runVars
<1>2. QueueInv' /\ Fed' /\ RowsMove /\ UNCHANGED <<state, runOf>>
  BY <1>1, StillQueue, RowsStill DEF vars, ledgerVars, rowVars, workerVars
<1>3. CASE MissWindow(e)
  <2>1. UNCHANGED <<run, daysDone, early, serving>> /\ next' = [next EXCEPT ![e] = @ + 1]
        /\ next[e] \in 1..Len(Windows)
    BY <1>3 DEF MissWindow, runVars, Dispatching
  <2>2. RunsMove
    BY <1>0, <2>1, RunsStill
  <2>3. ServersMove
    BY <1>0, <2>1 DEF ServersMove
  <2>4. RunColumns'
    BY <1>0, <1>1, <2>1 DEF RunColumns
  <2> QED BY <1>2, <2>2, <2>3, <2>4 DEF Good, RunMoves
<1>4. CASE EndDispatch(e)
  <2>1. /\ next' = [next EXCEPT ![e] = 0] /\ serving' = [serving EXCEPT ![e] = NoRun]
        /\ \/ UNCHANGED <<run, early>>
           \/ serving[e] \in Runs /\ CloseIfComplete(serving[e])
    BY <1>0, <1>4 DEF EndDispatch
  <2>2. RunsMove
    BY <1>0, <1>1, <1>2, <2>1, RunsStill, CloseMoves
  <2>3. ServersMove
    BY <1>0, <2>1 DEF ServersMove
  <2>4. RunRows
    BY <1>0 DEF RunRows
  <2>5. run' \in [Runs -> RunStates] /\ early' \subseteq Runs
    BY <1>0, <2>1, <2>2, <2>4, CloseWrites DEF RunsMove
  <2>6. RunColumns'
    BY <1>0, <1>1, <2>1, <2>5 DEF RunColumns
  <2> QED BY <1>2, <2>2, <2>3, <2>6 DEF Good, RunMoves
<1> QED BY <1>3, <1>4

\* ... the death of the dispatcher ...
LEMMA DispatcherDiesGood ==
  ASSUME RunInv, NEW e \in Enqueuers, DispatcherDies(e)
  PROVE  Good
<1>0. /\ run \in [Runs -> RunStates] /\ daysDone \in [Runs -> Nat]
      /\ serving \in [Enqueuers -> Runs \cup {NoRun}] /\ NoRun \notin Runs
      /\ next \in [Enqueuers -> 0..Len(Windows) + 1] /\ Len(Windows) \in Nat
      /\ runOf \in [Jobs -> Runs \cup {NoRun}] /\ early \subseteq Runs
      /\ TypeOK /\ Hands /\ Fed
  BY RunInvTypes DEF RunInv
<1>1. /\ UNCHANGED <<rowVars, workerVars, landed, tries, paused, want, answered, runVars>>
      /\ faults < MaxFaults /\ faults' = faults + 1 /\ enq' = [enq EXCEPT ![e] = "idle"]
      /\ next' = [next EXCEPT ![e] = 0] /\ serving' = [serving EXCEPT ![e] = NoRun]
  BY DEF DispatcherDies
<1>2. QueueInv'
  BY <1>0, <1>1, LedgerAssumption
  DEF QueueInv, TypeOK, LedgerTypeOK, Hands, rowVars, workerVars
<1>3. Fed' /\ RowsMove
  BY <1>0, <1>1, RowsStill DEF Fed, rowVars, workerVars, runVars
<1>4. RunsMove
  BY <1>0, <1>1, RunsStill DEF runVars
<1>5. ServersMove
  BY <1>0, <1>1 DEF ServersMove
<1>6. RunColumns'
  BY <1>0, <1>1 DEF RunColumns, runVars
<1> QED BY <1>2, <1>3, <1>4, <1>5, <1>6 DEF Good, RunMoves

\* Where the dispatchers and the rows of the runs stay as they are.
LEMMA Columns ==
  ASSUME RunInv, UNCHANGED <<run, runOf, daysDone, dispatchVars>>, early' \subseteq Runs
  PROVE  RunColumns'
BY RunInvTypes DEF RunColumns, dispatchVars

\* ... the record of a window and the close that follows it ...
LEMMA TellRunGood ==
  ASSUME IsFiniteSet(Jobs), RunInv, NEW w \in Workers, NEW j \in Jobs, TellRun(w, j)
  PROVE  Good
<1>0. /\ run \in [Runs -> RunStates] /\ daysDone \in [Runs -> Nat]
      /\ runOf \in [Jobs -> Runs \cup {NoRun}] /\ early \subseteq Runs
      /\ serving \in [Enqueuers -> Runs \cup {NoRun}]
      /\ next \in [Enqueuers -> 0..Len(Windows) + 1]
  BY RunInvTypes
<1>1. Record(w, j) /\ UNCHANGED <<enqVars, dispatchVars, runOf>>
  BY DEF TellRun, RecordAndClose, runVars
<1>2. Plain /\ UNCHANGED rowVars
  BY <1>1 DEF Plain, Record, LeaveRecording
<1>3. QueueInv'
  BY <1>1, QueueInvStep, RunInvTypes DEF Next, Work
<1>4. Fed' /\ RowsMove
  BY <1>1, <1>2, PlainIsLedgerStep, PlainRows DEF rowVars
<1>5. ServersMove
  BY <1>1, ServersStill
<1>6. CASE UNCHANGED runVars
  <2>1. RunsMove /\ RunColumns'
    BY <1>0, <1>1, <1>6, RunsStill, Columns DEF runVars
  <2> QED BY <1>3, <1>4, <1>5, <2>1 DEF Good, RunMoves
<1>7. CASE runOf[j] \in Runs /\ RecordAndClose(runOf[j])
  <2> DEFINE r == runOf[j]
  <2>1. RecordProgress(r) /\ CloseIfComplete(r) /\ r \in Runs
    BY <1>7 DEF RecordAndClose
  <2>2. WindowsDone(r) \in Nat
    <3>1. {i \in Bound(r) : state[i] = "done"} \in SUBSET Jobs
      BY DEF Bound
    <3> QED BY <3>1, FS_Subset, FS_CardinalityType DEF WindowsDone
  <2>3. /\ daysDone' \in [Runs -> Nat]
        /\ \A q \in Runs : daysDone'[q] = daysDone[q] \/ daysDone'[q] = WindowsDone(q)
    BY <1>0, <2>1, <2>2 DEF RecordProgress
  <2> HIDE DEF r
  <2>4. RunsMove
    BY <1>1, <1>2, <2>1, <2>3, CloseMoves DEF rowVars
  <2>5. RunRows
    BY <1>0 DEF RunRows
  <2>6. run' \in [Runs -> RunStates] /\ early' \subseteq Runs
    BY <2>1, <2>4, <2>5, CloseWrites DEF RunsMove
  <2>7. RunColumns'
    BY <1>0, <1>1, <2>3, <2>6 DEF RunColumns, dispatchVars
  <2> QED BY <1>3, <1>4, <1>5, <2>4, <2>7 DEF Good, RunMoves
<1> QED BY <1>0, <1>6, <1>7 DEF TellRun

\* ... the record that is lost ...
LEMMA TellRunFailsGood ==
  ASSUME RunInv, NEW w \in Workers, NEW j \in Jobs, TellRunFails(w, j)
  PROVE  Good
<1>0. TypeOK /\ Hands /\ Fed /\ early \subseteq Runs
  BY RunInvTypes DEF RunInv
<1>1. /\ UNCHANGED <<rowVars, holds, attempt, landed, tries, paused, enqVars, dispatchVars, runVars>>
      /\ faults < MaxFaults /\ faults' = faults + 1
      /\ j \in toRecord[w] /\ toRecord' = [toRecord EXCEPT ![w] = @ \ {j}]
      /\ at' = [at EXCEPT ![w] = IF toRecord[w] = {j} THEN "idle" ELSE "recording"]
  BY DEF TellRunFails, LeaveRecording
<1>2. QueueInv'
  <2>1. LedgerTypeOK'
    BY <1>0, <1>1, LedgerAssumption DEF TypeOK, LedgerTypeOK, rowVars
  <2>2. Hands'
    BY <1>0, <1>1 DEF TypeOK, LedgerTypeOK, Hands, Executing
  <2> QED BY <1>0, <1>1, <2>1, <2>2 DEF QueueInv, TypeOK, enqVars
<1>3. Fed' /\ RowsMove
  BY <1>0, <1>1, RowsStill DEF Fed, TypeOK, LedgerTypeOK, rowVars, runVars
<1>4. RunsMove /\ ServersMove /\ RunColumns'
  BY <1>0, <1>1, RunsStill, ServersStill, Columns DEF runVars
<1> QED BY <1>2, <1>3, <1>4 DEF Good, RunMoves

\* ... the stop door ...
LEMMA StopRunGood ==
  ASSUME RunInv, NEW r \in Runs, StopRun(r)
  PROVE  Good
<1>0. /\ run \in [Runs -> RunStates] /\ early \subseteq Runs /\ TypeOK /\ Hands /\ Fed
      /\ \A j \in Jobs : landed[j] \in Nat
  BY RunInvTypes DEF RunInv, TypeOK, LedgerTypeOK
<1>1. /\ run[r] = "loading" /\ run' = [run EXCEPT ![r] = "cancelled"]
      /\ early' = early \cup StillServed(r)
      /\ state' = [j \in Jobs |-> IF j \in Bound(r) /\ state[j] = "queued"
                                    THEN "cancelled" ELSE state[j]]
      /\ UNCHANGED <<key, attempts, overdue, workerVars, landed, tries, paused,
                     faults, enqVars, runOf, daysDone, dispatchVars>>
  BY DEF StopRun, AdvanceState
<1>2. QueueInv'
  <2>1. state' \in [Jobs -> JobStates \cup {"absent"}]
    BY <1>0, <1>1 DEF TypeOK, LedgerTypeOK, JobStates, TerminalStates
  <2> QED BY <1>0, <1>1, <2>1 DEF QueueInv, TypeOK, LedgerTypeOK, Hands, workerVars, enqVars
<1>3. Fed'
  BY <1>0, <1>1 DEF Fed, TypeOK, LedgerTypeOK, workerVars
<1>4. RowsMove
  <2>1. \A j \in Jobs : state'[j] # state[j] => state[j] = "queued" /\ state'[j] = "cancelled"
    BY <1>1
  <2>2. UNCHANGED <<holds, overdue, landed, runOf>>
    BY <1>1 DEF workerVars
  <2> QED BY <1>0, <2>1, <2>2 DEF RowsMove, OwnedJob, Ended, TerminalStates
<1>5. RunsMove
  <2>1. StillServed(r) \subseteq {r}
        /\ (r \in StillServed(r) \/ \A e \in Enqueuers : serving[e] = r => ~Dispatching(e))
    BY DEF StillServed
  <2> QED BY <1>0, <1>1, <2>1 DEF RunsMove, Opened, RunActive, RunTerminal
<1>6. ServersMove
  BY <1>1, ServersStill
<1>7. RunColumns'
  <2>1. early' \subseteq Runs /\ run' \in [Runs -> RunStates]
    BY <1>0, <1>1, <1>5 DEF RunsMove, RunStates, RunTerminal
  <2> QED BY <1>1, <2>1, RunInvTypes DEF RunColumns, dispatchVars
<1> QED BY <1>2, <1>3, <1>4, <1>5, <1>6, <1>7 DEF Good, RunMoves

\* The queue, its sweep, its deaths and its clock.
LEMMA QueueGood ==
  ASSUME RunInv, [Next]_vars, Plain, UNCHANGED <<run, runOf, daysDone, dispatchVars>>,
         early \subseteq early', early' \subseteq Runs,
         \A j \in Jobs : runOf[j] \in Runs \ early' /\ (\E w \in Workers : holds[w] = j)
                           => (j \in overdue' => j \in overdue)
  PROVE  Good
<1>1. QueueInv' /\ Fed'
  BY QueueInvStep, PlainIsLedgerStep, RunInvTypes
<1>2. RowsMove
  BY PlainRows
<1>3. RunsMove /\ ServersMove /\ RunColumns'
  BY RunsStill, ServersStill, Columns
<1> QED BY <1>1, <1>2, <1>3 DEF Good, RunMoves

\* ... and the steps of the queue, with calls that are called stale under their
\* worker.
LEMMA QueueStepsGood ==
  ASSUME RunInv,
         \/ \E w \in Workers : QueueStep(w) \/ RunSweep(w) \/ RunDie(w)
         \/ \E p \in Platforms : RunRefill(p)
         \/ UNCHANGED allVars
  PROVE  Good
<1>1. UNCHANGED <<run, runOf, daysDone, dispatchVars, early>> /\ early \subseteq Runs
  BY RunInvTypes DEF QueueStep, RunSweep, RunDie, RunRefill, runVars, allVars
<1>2. [Next]_vars
  BY DEF QueueStep, RunSweep, RunDie, RunRefill, allVars, Next, Work
<1>3. Plain /\ overdue' \subseteq overdue
  <2>1. ASSUME NEW w \in Workers, QueueStep(w) PROVE Plain /\ overdue' \subseteq overdue
    <3>1. CASE ExecuteStep(w)
      BY <3>1, ExecuteShape DEF Plain, Keeps, Requeue, FinishJob
    <3>2. CASE ClaimOldest(w)
      BY <3>2 DEF ClaimOldest, Plain, Claim
    <3> QED BY <2>1, <3>1, <3>2 DEF QueueStep
  <2>2. ASSUME NEW w \in Workers, RunSweep(w) PROVE Plain /\ overdue' \subseteq overdue
    BY <2>2 DEF RunSweep, Sweep, Plain, RecoverStale
  <2>3. ASSUME NEW w \in Workers, RunDie(w) PROVE Plain /\ overdue' \subseteq overdue
    BY <2>3 DEF RunDie, Die, Plain, Crash, rowVars
  <2>4. ASSUME NEW p \in Platforms, RunRefill(p) PROVE Plain /\ overdue' \subseteq overdue
    BY <2>4 DEF RunRefill, Refill, Plain, Resume, rowVars
  <2>5. CASE UNCHANGED allVars
    BY <2>5 DEF allVars, vars, Plain, ledgerVars, rowVars
  <2> QED BY <2>1, <2>2, <2>3, <2>4, <2>5
<1> QED BY <1>1, <1>2, <1>3, QueueGood

\* A claim that is called stale under its worker makes its run one of the early.
LEMMA RunAgeGood ==
  ASSUME RunInv, NEW j \in Jobs, RunAge(j)
  PROVE  Good
<1>1. /\ Age(j) /\ UNCHANGED <<run, runOf, daysDone, dispatchVars>>
      /\ early' = early \cup {r \in {runOf[j]} \cap Runs : faults' # faults}
  BY DEF RunAge
<1>2. early \subseteq early' /\ early' \subseteq Runs
  BY <1>1, RunInvTypes
<1>3. [Next]_vars /\ Plain
  BY <1>1 DEF Next, Age, Plain
<1>4. faults \in Nat
  BY RunInvTypes, LedgerAssumption DEF TypeOK, LedgerTypeOK
<1>5. \A i \in Jobs : runOf[i] \in Runs \ early' /\ (\E w \in Workers : holds[w] = i)
                        => (i \in overdue' => i \in overdue)
  BY <1>1, <1>4 DEF Age, Overdue
<1> QED BY <1>1, <1>2, <1>3, <1>5, QueueGood

\* Every step of the specification moves as RunMoves says.
LEMMA StepGood ==
  ASSUME IsFiniteSet(Jobs), RunInv, [RunNext]_allVars
  PROVE  Good
<1>1. ASSUME NEW e \in Enqueuers, Dispatch(e) \/ DispatcherDies(e) PROVE Good
  BY <1>1, OpenRunGood, EnqueueWindowGood, DispatchEndsGood, DispatcherDiesGood DEF Dispatch
<1>2. ASSUME NEW w \in Workers, RunWork(w) \/ RunSweep(w) \/ RunDie(w) PROVE Good
  BY <1>2, TellRunGood, TellRunFailsGood, QueueStepsGood DEF RunWork
<1>3. ASSUME NEW j \in Jobs, RunAge(j) PROVE Good
  BY <1>3, RunAgeGood
<1>4. ASSUME NEW p \in Platforms, RunRefill(p) PROVE Good
  BY <1>4, QueueStepsGood
<1>5. ASSUME NEW r \in Runs, StopRun(r) PROVE Good
  BY <1>5, StopRunGood
<1>6. CASE UNCHANGED allVars
  BY <1>6, QueueStepsGood
<1> QED BY <1>1, <1>2, <1>3, <1>4, <1>5, <1>6 DEF RunNext

-----------------------------------------------------------------------------
(* The theorems.                                                           *)

\* The invariant holds of the tables as they are created.
LEMMA RunInvInit == ASSUME RunInit PROVE RunInv
<1>0. Len(Windows) \in Nat /\ NoRun \notin Runs
  BY CollectionAssumption
<1>1. QueueInv
  BY QueueInvInit DEF RunInit
<1>2. /\ run = [r \in Runs |-> "absent"] /\ runOf = [j \in Jobs |-> NoRun]
      /\ daysDone = [r \in Runs |-> 0] /\ serving = [e \in Enqueuers |-> NoRun]
      /\ next = [e \in Enqueuers |-> 0] /\ early = {}
      /\ state = [j \in Jobs |-> "absent"] /\ holds = [w \in Workers |-> NoJob]
      /\ at = [w \in Workers |-> "idle"]
  BY DEF RunInit, Init, InitLedger
<1>3. RunTypeOK /\ Hands
  BY <1>0, <1>1, <1>2 DEF RunTypeOK, QueueInv, RunStates
<1>4. Fed
  BY <1>2, LedgerAssumption DEF Fed, NoJob
<1>5. Served /\ BoundOwned
  BY <1>0, <1>2 DEF Served, BoundOwned
<1>6. \A r \in Runs : Bound(r) = {} /\ {j \in Bound(r) : landed[j] > 0} = {}
  BY <1>2 DEF Bound
<1>7. Counted /\ ClaimedDaysLanded
  <2>1. \A r \in Runs : /\ Cardinality(Bound(r)) = 0
                        /\ Cardinality({j \in Bound(r) : landed[j] > 0}) = 0
    BY <1>6, FS_EmptySet
  <2>2. /\ \A r \in Runs : daysDone[r] = 0
        /\ \A r \in Runs, e \in Enqueuers : serving[e] # r
    BY <1>0, <1>2
  <2>3. Counted
    <3>1. ASSUME NEW r \in Runs PROVE Cardinality(Bound(r)) <= Len(Windows)
      <4>1. Cardinality(Bound(r)) = 0
        BY <2>1
      <4>2. 0 <= Len(Windows)
        BY <1>0
      <4> QED BY <4>1, <4>2, Zenon
    <3> QED BY <2>2, <3>1 DEF Counted
  <2>4. ClaimedDaysLanded
    <3>1. \A r \in Runs : daysDone[r] <= 0 /\ daysDone[r] <= Len(Windows)
      BY <1>0, <2>2
    <3> QED BY <2>1, <3>1 DEF ClaimedDaysLanded
  <2> QED BY <2>3, <2>4
<1>8. VerdictIsFinal
  BY <1>2 DEF VerdictIsFinal
<1> QED BY <1>3, <1>4, <1>5, <1>7, <1>8 DEF RunInv

\* The invariant of the runs.
LEMMA RunInvariance ==
  ASSUME IsFiniteSet(Jobs)
  PROVE  RunSpec => []RunInv
<1>1. RunInit => RunInv
  BY RunInvInit
<1>2. RunInv /\ [RunNext]_allVars => RunInv'
  BY StepGood, RunInvStep DEF Good
<1> QED BY <1>1, <1>2, PTL DEF RunSpec

\* The runs and the queue under them keep their types.
THEOREM RunTypeCorrect ==
  ASSUME IsFiniteSet(Jobs)
  PROVE  RunSpec => []RunTypeOK
<1>1. RunInv => RunTypeOK
  BY DEF RunInv
<1> QED BY <1>1, RunInvariance, PTL

\* The days a run claims landed, and are no more than it declared, whatever is
\* retried, recovered or recorded twice.
THEOREM ClaimsLanded ==
  ASSUME IsFiniteSet(Jobs)
  PROVE  RunSpec => []ClaimedDaysLanded
<1>1. RunInv => ClaimedDaysLanded
  BY DEF RunInv
<1> QED BY <1>1, RunInvariance, PTL

\* A run that was closed once it was fully dispatched is closed for good: no window
\* of it moves, and its verdict is the one its windows give.
THEOREM VerdictsFinal ==
  ASSUME IsFiniteSet(Jobs)
  PROVE  RunSpec => []VerdictIsFinal
<1>1. RunInv => VerdictIsFinal
  BY DEF RunInv
<1> QED BY <1>1, RunInvariance, PTL

\* A run that was stopped once it was fully dispatched takes no window any more,
\* and what the stop refused stays refused.
THEOREM StoppedStayStopped ==
  ASSUME IsFiniteSet(Jobs)
  PROVE  RunSpec => StoppedRunStartsNothing
<1>1. ASSUME RunInv, [RunNext]_allVars, NEW j \in Jobs,
             runOf'[j] \in Runs \ early, run[runOf'[j]] = "cancelled"
      PROVE  runOf[j] = runOf'[j] /\ (state[j] = "cancelled" => state'[j] = "cancelled")
  <2>0. RowsMove
    BY <1>1, StepGood DEF Good, RunMoves
  <2>1. CASE state[j] = "absent"
    <3>1. SUFFICES ASSUME runOf'[j] # runOf[j] PROVE FALSE
      BY <2>1
    <3>2. PICK e \in Enqueuers : Dispatching(e) /\ runOf'[j] = serving[e]
      BY <2>0, <2>1, <3>1 DEF RowsMove, OneComesIn
    <3>3. run[serving[e]] \in RunActive
      BY <1>1, <3>2 DEF RunInv, Served
    <3> QED BY <1>1, <3>2, <3>3 DEF RunActive
  <2>2. CASE state[j] # "absent"
    <3>1. runOf'[j] = runOf[j]
      BY <2>0, <2>2 DEF RowsMove
    <3>2. OwnedJob(j)
      BY <1>1, <2>2, <3>1 DEF RunInv, BoundOwned
    <3> QED BY <2>0, <2>2, <3>1, <3>2 DEF RowsMove, Ended, TerminalStates
  <2> QED BY <2>1, <2>2
<1>2. RunInv /\ [RunNext]_allVars =>
        [\A j \in Jobs :
           runOf'[j] \in Runs \ early /\ run[runOf'[j]] = "cancelled" =>
             /\ runOf[j] = runOf'[j]
             /\ state[j] = "cancelled" => state'[j] = "cancelled"]_allVars
  BY <1>1
<1> QED BY <1>2, RunInvariance, PTL DEF RunSpec, StoppedRunStartsNothing

-----------------------------------------------------------------------------
(* What the ledger owes its callers, with runs, stops and dispatches over  *)
(* it.  Only the stop door writes rows outside the statements of the       *)
(* queue, and it ends queued rows, which nobody holds.                     *)

\* Rows and hands stay; a process may have died or a record have been lost.
LedgerRests ==
  /\ UNCHANGED <<rowVars, holds, attempt, landed, tries>>
  /\ \A w \in Workers : at'[w] = "claimed" => at[w] = "claimed"

\* Every step is one of the ledger, lets it rest, or is the stop door.
LEMMA RunStepOnLedger ==
  ASSUME RunInv, [RunNext]_allVars
  PROVE  \/ [LedgerNext]_ledgerVars
         \/ LedgerRests
         \/ \E r \in Runs : StopRun(r)
<1>0. TypeOK
  BY RunInvTypes
<1>1. ASSUME NEW e \in Enqueuers, Dispatch(e) PROVE [LedgerNext]_ledgerVars
  <2>1. CASE EnqueueWindow(e)
    <3>1. ASSUME NEW j \in Jobs, InsertWins(e, j) PROVE Enter(j, want[e]) /\ want[e] \in Keys
      BY <1>0, <3>1 DEF InsertWins, Enter, TypeOK
    <3>2. ASSUME Lookup(e, Windows[next[e]]) \/ InsertConflicts(e) \/ SelectWinner(e)
          PROVE  UNCHANGED ledgerVars
      BY <3>2 DEF Lookup, InsertConflicts, SelectWinner
    <3> QED BY <2>1, <3>1, <3>2 DEF EnqueueWindow, LedgerNext, LedgerMove
  <2>2. CASE OpenRun(e) \/ MissWindow(e) \/ EndDispatch(e)
    BY <2>2 DEF OpenRun, MissWindow, EndDispatch, vars
  <2> QED BY <1>1, <2>1, <2>2 DEF Dispatch
<1>2. ASSUME NEW e \in Enqueuers, DispatcherDies(e) PROVE LedgerRests
  BY <1>2 DEF DispatcherDies, LedgerRests, workerVars
<1>3. ASSUME NEW w \in Workers, NEW j \in Jobs, TellRunFails(w, j) PROVE LedgerRests
  BY <1>0, <1>3 DEF TellRunFails, LeaveRecording, LedgerRests, TypeOK, LedgerTypeOK
<1>4. ASSUME NEW w \in Workers, QueueStep(w) \/ RunSweep(w) \/ RunDie(w) PROVE [Next]_vars
  BY <1>4 DEF QueueStep, RunSweep, RunDie, Next, Work
<1>5. ASSUME NEW w \in Workers, NEW j \in Jobs, TellRun(w, j) PROVE [Next]_vars
  BY <1>5 DEF TellRun, Next, Work
<1>6. ASSUME NEW j \in Jobs, RunAge(j) PROVE [Next]_vars
  BY <1>6 DEF RunAge, Next
<1>7. ASSUME NEW p \in Platforms, RunRefill(p) PROVE [Next]_vars
  BY <1>7 DEF RunRefill, Next
<1>8. ASSUME UNCHANGED allVars PROVE [Next]_vars
  BY <1>8 DEF allVars
<1>9. [Next]_vars => [LedgerNext]_ledgerVars
  BY <1>0, NextIsLedgerStep
<1>10. ASSUME NEW w \in Workers, RunWork(w) \/ RunSweep(w) \/ RunDie(w)
       PROVE  [LedgerNext]_ledgerVars \/ LedgerRests
  BY <1>3, <1>4, <1>5, <1>9, <1>10 DEF RunWork
<1>11. (\E j \in Jobs : RunAge(j)) \/ (\E p \in Platforms : RunRefill(p)) \/ UNCHANGED allVars
         => [LedgerNext]_ledgerVars
  BY <1>6, <1>7, <1>8, <1>9, Zenon
<1> QED BY <1>1, <1>2, <1>10, <1>11, Zenon DEF RunNext

\* The rows a stop ends: the queued windows of its run.
Refused(r) == {j \in Bound(r) : state[j] = "queued"}

\* The stop door writes the state of those rows, and of no other.
LEMMA StopEnds ==
  ASSUME RunInv, NEW r \in Runs, StopRun(r)
  PROVE  /\ UNCHANGED <<key, attempts, overdue, workerVars, landed, tries>>
         /\ Refused(r) \subseteq Jobs
         /\ \A j \in Refused(r) : state[j] = "queued" /\ state'[j] = "cancelled"
         /\ \A j \in Jobs \ Refused(r) : state'[j] = state[j]
BY DEF StopRun, Refused, Bound

\* The index stays respected ...
LEMMA RunOneActive ==
  ASSUME RunInv, OneActivePerKey, [RunNext]_allVars
  PROVE  OneActivePerKey'
<1>1. CASE [LedgerNext]_ledgerVars
  BY <1>1, RunInvTypes, OneActiveStep
<1>2. CASE LedgerRests
  BY <1>2, NoNewActive DEF LedgerRests, rowVars, Active
<1>3. ASSUME NEW r \in Runs, StopRun(r) PROVE OneActivePerKey'
  <2>1. key' = key /\ \A j \in Jobs : Active(j)' => Active(j)
    BY <1>3, StopEnds DEF Active, ActiveStates
  <2> QED BY <2>1, NoNewActive
<1> QED BY <1>1, <1>2, <1>3, RunStepOnLedger

\* ... a stop takes no row out of a worker's hands ...
LEMMA RunOwned ==
  ASSUME SlowPulls = FALSE, RunInv, Owned, [RunNext]_allVars
  PROVE  Owned'
<1>1. CASE [LedgerNext]_ledgerVars
  BY <1>1, RunInvTypes, NothingHandedOver, OwnedStep
<1>2. CASE LedgerRests
  BY <1>2 DEF LedgerRests, rowVars, Owned, ExclusiveOwner
<1>3. ASSUME NEW r \in Runs, StopRun(r) PROVE Owned'
  <2>1. UNCHANGED <<holds, overdue>> /\ \A j \in Jobs : state[j] = "running" => state'[j] = "running"
    BY <1>3, StopEnds DEF workerVars
  <2>2. \A w \in Workers : holds[w] # NoJob => holds[w] \in Jobs
    BY RunInvTypes DEF TypeOK, LedgerTypeOK
  <2> QED BY <2>1, <2>2 DEF Owned, ExclusiveOwner
<1> QED BY <1>1, <1>2, <1>3, RunStepOnLedger

\* ... and gives no row an attempt more.
LEMMA RunBudget ==
  ASSUME RunInv, Owned, Budget, [RunNext]_allVars
  PROVE  Budget'
<1>1. CASE [LedgerNext]_ledgerVars
  BY <1>1, RunInvTypes, BudgetStep
<1>2. CASE LedgerRests
  BY <1>2, BudgetKept DEF LedgerRests, rowVars
<1>3. ASSUME NEW r \in Runs, StopRun(r) PROVE Budget'
  <2>1. \A j \in Jobs : state'[j] \in {"absent", "queued"} => state[j] \in {"absent", "queued"}
    BY <1>3, StopEnds
  <2> QED BY <1>3, <2>1, StopEnds, BudgetKept DEF workerVars
<1> QED BY <1>1, <1>2, <1>3, RunStepOnLedger

\* A stop ends open windows, and what ended stays ended.
LEMMA RunPromise ==
  ASSUME RunInv, RunInv', Owned, [RunNext]_allVars
  PROVE  [Promise!Next]_Promise!promiseVars
<1>1. CASE [LedgerNext]_ledgerVars
  <2>1. LedgerInv /\ LedgerInv'
    BY RunInvTypes DEF RunInv, RunTypeOK, TypeOK, LedgerInv
  <2> QED BY <1>1, <2>1, PromiseStep
<1>2. CASE LedgerRests
  BY <1>2, PromiseStutter DEF LedgerRests, rowVars, Active
<1>3. ASSUME NEW r \in Runs, StopRun(r) PROVE [Promise!Next]_Promise!promiseVars
  <2>0. LedgerInv /\ LedgerInv'
    BY DEF RunInv, RunTypeOK, TypeOK, LedgerInv
  <2>1. /\ UNCHANGED <<key, landed>>
        /\ \A j \in Refused(r) : Active(j) /\ state'[j] \in TerminalStates
        /\ \A j \in Jobs \ Refused(r) : /\ state'[j] = "absent" <=> state[j] = "absent"
                                        /\ Active(j)' <=> Active(j)
    BY <1>3, StopEnds DEF Active, ActiveStates, TerminalStates
  <2>2. Refused(r) \in SUBSET Jobs
    BY <1>3, StopEnds
  <2>3. CASE Refused(r) = {}
    BY <2>1, <2>3, PromiseStutter
  <2>4. CASE Refused(r) # {}
    <3>1. Promise!End(Refused(r))
      BY <2>0, <2>1, <2>2, <2>4, PromiseEnd
    <3> QED BY <2>2, <3>1 DEF Promise!Next
  <2> QED BY <2>3, <2>4
<1> QED BY <1>1, <1>2, <1>3, RunStepOnLedger

\* Two active rows never cover one window of one Datastream, whatever a dispatch
\* enqueues, a person stops and a zombie requeues.
THEOREM RunsOneActiveRow ==
  ASSUME IsFiniteSet(Jobs)
  PROVE  RunSpec => []OneActivePerKey
<1>1. RunInit => OneActivePerKey
  BY DEF RunInit, Init, InitLedger, OneActivePerKey, Active, ActiveStates
<1>2. RunInv /\ OneActivePerKey /\ [RunNext]_allVars => OneActivePerKey'
  BY RunOneActive
<1> QED BY <1>1, <1>2, RunInvariance, PTL DEF RunSpec

\* The invariant with exclusive owners, without slow pulls.
LEMMA RunOwnedInv ==
  ASSUME IsFiniteSet(Jobs), SlowPulls = FALSE
  PROVE  RunSpec => [](RunInv /\ Owned)
<1>1. RunInit => Owned
  BY LedgerAssumption DEF RunInit, Init, InitLedger, Owned, ExclusiveOwner, NoJob
<1>2. RunInv /\ Owned /\ [RunNext]_allVars => Owned'
  BY RunOwned
<1> QED BY <1>1, <1>2, RunInvariance, PTL DEF RunSpec

\* While no pull outlives the visibility timeout, a job in a worker's hands is
\* running and nobody else's: a stop lets the windows that are being pulled land.
THEOREM RunsOwnersExclude ==
  ASSUME IsFiniteSet(Jobs), SlowPulls = FALSE
  PROVE  RunSpec => []ExclusiveOwner
BY RunOwnedInv, PTL DEF Owned

\* Under the same assumption no window of a run is begun more than MaxAttempts
\* times, lost records and dead dispatchers included.
THEOREM RunsAttemptsBounded ==
  ASSUME IsFiniteSet(Jobs), SlowPulls = FALSE
  PROVE  RunSpec => []AttemptBudget
<1>1. RunInit => Budget
  BY LedgerAssumption DEF RunInit, Init, InitLedger, Budget, AttemptBudget, NoJob
<1>2. RunInv /\ Owned /\ Budget /\ [RunNext]_allVars => Budget'
  BY RunBudget
<1>3. RunSpec => []Budget
  BY <1>1, <1>2, RunOwnedInv, PTL DEF RunSpec
<1> QED BY <1>3, PTL DEF Budget

\* Under the same assumption the queue with its runs implements PullPromise: a
\* stop ends windows that were open, and no step reopens one that ended.
THEOREM RunsKeepPromise ==
  ASSUME IsFiniteSet(Jobs), SlowPulls = FALSE
  PROVE  RunSpec => KeepsPromise
<1>1. RunInit => Promise!Init
  BY PromiseInit DEF RunInit, Init
<1>2. RunInv /\ RunInv' /\ Owned /\ [RunNext]_allVars
        => [Promise!Next]_Promise!promiseVars
  BY RunPromise
<1> QED BY <1>1, <1>2, RunOwnedInv, PTL DEF RunSpec, KeepsPromise, Promise!Spec
=============================================================================
