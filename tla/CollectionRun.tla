---------------------------- MODULE CollectionRun ----------------------------
(***************************************************************************)
(* One Datastream's collection runs over the local queue:                  *)
(* datastream_dispatch.dispatch_windows opens an execution, enqueues its   *)
(* windows one transaction each and tries to close it; every worker that   *)
(* ends a window records its progress and closes the run it completed      *)
(* (execution_progress.record_and_close); a person may stop the run.       *)
(***************************************************************************)
EXTENDS LocalQueue, Executions, Sequences

CONSTANTS
  Windows,       \* the windows a dispatch declares, in order
  MayStop        \* does a person use the stop door?

NoRun == "no run"

ASSUME CollectionAssumption ==
  /\ Windows \in Seq(Keys)
  /\ MayStop \in BOOLEAN
  /\ NoRun \notin Runs

VARIABLES
  runOf,      \* app.pull_jobs.execution_id
  daysDone,   \* app.datastream_executions.days_done, one day per window
  serving,    \* the execution a dispatcher opened, NoRun when it has none
  next,       \* the window it is enqueueing; 0 when it is not dispatching
  early       \* observer: runs over while their dispatch still had windows, or with
              \* a pull that outlived the visibility timeout

runVars == <<run, runOf, daysDone, early>>
dispatchVars == <<serving, next>>
allVars == <<vars, runVars, dispatchVars>>

RunInit ==
  /\ Init
  /\ run = [r \in Runs |-> "absent"]
  /\ runOf = [j \in Jobs |-> NoRun]
  /\ daysDone = [r \in Runs |-> 0]
  /\ serving = [e \in Enqueuers |-> NoRun]
  /\ next = [e \in Enqueuers |-> 0]
  /\ early = {}

Dispatching(e) == next[e] \in 1..Len(Windows)

Bound(r)       == {j \in Jobs : state[j] # "absent" /\ runOf[j] = r}
\* Mutants: a running window counts as over; every ended window counts as done.
NoneQueued(r)   == \A j \in Bound(r) : state[j] # "queued"
WindowsEnded(r) == Cardinality({j \in Bound(r) : Ended(j)})

AllTerminal(r) == \A j \in Bound(r) : Ended(j)
WindowsDone(r) == Cardinality({j \in Bound(r) : state[j] = "done"})
Verdict(r) == IF \E j \in Bound(r) : state[j] \in FailedStates
                THEN "failed" ELSE "collected"

-----------------------------------------------------------------------------
(* close_collection_run_if_complete and record_and_close.  Both read the   *)
(* jobs and write the run; a run that is over is left exactly as it is.    *)

StillServed(r) == {s \in {r} : \E e \in Enqueuers : serving[e] = s /\ Dispatching(e)}

CloseIfComplete(r) ==
  IF run[r] \in RunActive /\ AllTerminal(r)
    THEN AdvanceState(r, run[r], Verdict(r)) /\ early' = early \cup StillServed(r)
    ELSE UNCHANGED <<run, early>>

\* Mutant: the progress write forgets that a run that is over is frozen.
RecordProgressAlways(r) ==
  daysDone' = IF WindowsDone(r) > daysDone[r]
                THEN [daysDone EXCEPT ![r] = WindowsDone(r)] ELSE daysDone

RecordProgress(r) ==
  daysDone' = IF run[r] \in RunActive /\ WindowsDone(r) > daysDone[r]
                THEN [daysDone EXCEPT ![r] = WindowsDone(r)] ELSE daysDone

RecordAndClose(r) == RecordProgress(r) /\ CloseIfComplete(r) /\ UNCHANGED runOf

-----------------------------------------------------------------------------
(* dispatch_windows.                                                       *)

\* _open_collection_run: created and moved to loading in one transaction; while
\* another execution is active none is opened and the windows go out unbound.
\* Bound: a dispatch is begun while an execution id and enough job ids are left.
OpenRun(e) ==
  /\ next[e] = 0
  /\ \E r \in Runs : run[r] = "absent"
  /\ Cardinality(Fresh) >= Len(Windows)
  /\ next' = [next EXCEPT ![e] = 1]
  /\ IF NoRunActive
       THEN \E r \in Runs : /\ CreateExecution(r, "loading")
                            /\ serving' = [serving EXCEPT ![e] = r]
       ELSE UNCHANGED <<run, serving>>
  /\ UNCHANGED <<vars, runOf, daysDone, early>>

\* One enqueue_pull of the loop; the row it inserts carries the execution id.
EnqueueWindow(e) ==
  /\ Dispatching(e)
  /\ \/ /\ Lookup(e, Windows[next[e]]) \/ InsertConflicts(e) \/ SelectWinner(e)
        /\ UNCHANGED runOf
     \/ \E j \in Jobs : /\ InsertWins(e, j)
                        /\ runOf' = [runOf EXCEPT ![j] = serving[e]]
  /\ next' = [next EXCEPT ![e] = IF enq'[e] = "idle" THEN @ + 1 ELSE @]
  /\ UNCHANGED <<run, daysDone, early, serving>>

\* Mutant: the loop does not stop at its last window.
MissWindowUnbounded(e) ==
  /\ next[e] # 0
  /\ enq[e] = "idle"
  /\ next' = [next EXCEPT ![e] = @ + 1]
  /\ UNCHANGED <<vars, runVars, serving>>

\* The gate refused the window, or enqueue_pull raised: the loop goes on.
MissWindow(e) ==
  /\ Dispatching(e)
  /\ enq[e] = "idle"
  /\ next' = [next EXCEPT ![e] = @ + 1]
  /\ UNCHANGED <<vars, runVars, serving>>

\* Mutant: the dispatch ends without trying to close its run.
EndDispatchOpen(e) ==
  /\ next[e] = Len(Windows) + 1
  /\ next' = [next EXCEPT ![e] = 0]
  /\ serving' = [serving EXCEPT ![e] = NoRun]
  /\ UNCHANGED <<vars, runVars>>

\* _close_collection_run: a run that took no window of its own ends here.
EndDispatch(e) ==
  /\ next[e] = Len(Windows) + 1
  /\ IF serving[e] = NoRun THEN UNCHANGED <<run, early>> ELSE CloseIfComplete(serving[e])
  /\ next' = [next EXCEPT ![e] = 0]
  /\ serving' = [serving EXCEPT ![e] = NoRun]
  /\ UNCHANGED <<vars, runOf, daysDone>>

\* The process dispatching dies between two of its transactions.
DispatcherDies(e) ==
  /\ next[e] # 0
  /\ faults < MaxFaults
  /\ faults' = faults + 1
  /\ enq' = [enq EXCEPT ![e] = "idle"]
  /\ next' = [next EXCEPT ![e] = 0]
  /\ serving' = [serving EXCEPT ![e] = NoRun]
  /\ UNCHANGED <<rowVars, workerVars, landed, tries, paused, want, answered, runVars>>

Dispatch(e) == OpenRun(e) \/ EnqueueWindow(e) \/ MissWindow(e) \/ EndDispatch(e)

-----------------------------------------------------------------------------
(* Workers tell the run, and a person stops it.                            *)

\* _record_window_outcome in its own transaction, after the window's commit.
TellRun(w, j) ==
  /\ Record(w, j)
  /\ IF runOf[j] = NoRun THEN UNCHANGED runVars ELSE RecordAndClose(runOf[j])
  /\ UNCHANGED <<enqVars, dispatchVars>>

\* ... whose failure is logged and swallowed: one more fault.
TellRunFails(w, j) ==
  /\ faults < MaxFaults
  /\ LeaveRecording(w, j)
  /\ faults' = faults + 1
  /\ UNCHANGED <<enqVars, dispatchVars, runVars>>

\* stop_collection_run: the run first, then its queued windows, one transaction.
StopRun(r) ==
  /\ MayStop
  /\ AdvanceState(r, "loading", "cancelled")
  /\ early' = early \cup StillServed(r)
  /\ state' = [j \in Jobs |-> IF j \in Bound(r) /\ state[j] = "queued"
                                THEN "cancelled" ELSE state[j]]
  /\ UNCHANGED <<key, attempts, overdue, workerVars, landed, tries, paused,
                 faults, enqVars, runOf, daysDone, dispatchVars>>

\* What the queue does on its own (LocalQueue), without touching the run.
QueueStep(w) ==
  /\ \/ ClaimOldest(w)
     \/ ExecuteStep(w) /\ UNCHANGED enqVars
  /\ UNCHANGED <<runVars, dispatchVars>>

RunWork(w) ==
  \/ QueueStep(w)
  \/ \E j \in Jobs : TellRun(w, j) \/ TellRunFails(w, j)

RunSweep(w)  == Sweep(w) /\ UNCHANGED <<runVars, dispatchVars>>
RunDie(w)    == Die(w) /\ UNCHANGED <<runVars, dispatchVars>>
RunAge(j)    ==
  /\ Age(j)
  /\ early' = early \cup {r \in {runOf[j]} \cap Runs : faults' # faults}
  /\ UNCHANGED <<run, runOf, daysDone, dispatchVars>>
RunRefill(p) == Refill(p) /\ UNCHANGED <<runVars, dispatchVars>>

RunNext ==
  \/ \E e \in Enqueuers : Dispatch(e) \/ DispatcherDies(e)
  \/ \E w \in Workers : RunWork(w) \/ RunSweep(w) \/ RunDie(w)
  \/ \E j \in Jobs : RunAge(j)
  \/ \E p \in Platforms : RunRefill(p)
  \/ \E r \in Runs : StopRun(r)

RunSpec == RunInit /\ [][RunNext]_allVars

\* A dispatch that was begun goes on; the queue is as fair as LocalQueue's.
RunFairness ==
  /\ \A e \in Enqueuers :
       WF_allVars(next[e] # 0 /\ (EnqueueWindow(e) \/ EndDispatch(e)))
  /\ \A w \in Workers : WF_allVars(RunWork(w)) /\ WF_allVars(RunSweep(w))
  /\ \A j \in Jobs : WF_allVars(RunAge(j))
  /\ \A p \in Platforms : WF_allVars(RunRefill(p))

RunFairSpec == RunSpec /\ RunFairness

-----------------------------------------------------------------------------
RunTypeOK ==
  /\ TypeOK
  /\ run \in [Runs -> RunStates]
  /\ runOf \in [Jobs -> Runs \cup {NoRun}]
  /\ daysDone \in [Runs -> Nat]
  /\ serving \in [Enqueuers -> Runs \cup {NoRun}]
  /\ next \in [Enqueuers -> 0..Len(Windows) + 1]
  /\ early \subseteq Runs

\* A run that is over is frozen: whatever lands, is recorded or is recovered
\* later, neither its state nor the days it reported move ("a figure that
\* changes after the stop is a figure the screen already reported wrongly").
EndedRunFrozen ==
  [][\A r \in Runs : run[r] \in RunTerminal =>
       run'[r] = run[r] /\ daysDone'[r] = daysDone[r]]_allVars

\* The days a run claims are days whose rows landed, of windows of its own, and
\* never more than it declared, however its windows are retried or recovered.
ClaimedDaysLanded ==
  \A r \in Runs :
    /\ daysDone[r] <= Cardinality({j \in Bound(r) : landed[j] > 0})
    /\ daysDone[r] <= Len(Windows)

\* A run closed after its last window was enqueued, "once no window of it can move
\* again", is closed for good: none moves again, and its verdict stays the one its
\* windows give, unless a pull of its own outlived the visibility timeout.
VerdictIsFinal ==
  \A r \in Runs \ early : run[r] \in {"collected", "failed"} =>
    AllTerminal(r) /\ run[r] = Verdict(r)

\* A run stopped after its last window was enqueued takes no window any more, and
\* the windows the stop refused are not pulled later, by anybody.
StoppedRunStartsNothing ==
  [][\A j \in Jobs :
       runOf'[j] \in Runs \ early /\ run[runOf'[j]] = "cancelled" =>
         /\ runOf[j] = runOf'[j]
         /\ state[j] = "cancelled" => state'[j] = "cancelled"]_allVars

\* As long as no process died and no record was lost, every run that was opened
\* ends, and gives the Datastream back to the next publish and the next night.
RunEnds == \A r \in Runs : run[r] = "loading" ~> run[r] \in RunTerminal \/ faults > 0
=============================================================================
