----------------------------- MODULE Candidates -----------------------------
(***************************************************************************)
(* The activation queue (app.datastream_activation_jobs, server/core/      *)
(* queue.py) and the worker that materialises a candidate                  *)
(* (server/inbound/datastream_activation_worker.py).  A job is claimed by  *)
(* the poll loop or by a push task; its outcome and the state of its run   *)
(* are one transaction, but the rows it lands are in the warehouse and     *)
(* stay there when that transaction rolls back.                            *)
(***************************************************************************)
EXTENDS Naturals, Executions

CONSTANTS
  Workers,      \* processes that execute activation jobs
  MaxAttempts,  \* QUEUE_MAX_ATTEMPTS
  NoRun         \* no execution

ASSUME CandidateAssumption == MaxAttempts \in Nat \ {0} /\ NoRun \notin Runs

VARIABLES
  job,     \* datastream_activation_jobs.state of each run, "none" without a job
  tries,   \* attempt_count
  ledger,  \* managed_feed_import_ledger.outcome of the run's import
  cand,    \* how often the run's rows are in its isolated relation
  lost,    \* runs whose failure could not be written (for the properties only)
  worker   \* where each process stands

jobVars == <<job, tries, ledger, cand, lost, worker>>

JobStates == {"none", "queued", "running", "failed", "done", "dead_letter"}

\* Mutant: a failed job is not taken up again.
ClaimableOnce(r) == job[r] = "queued" /\ tries[r] < MaxAttempts

Claimable(r) == job[r] \in {"queued", "failed"} /\ tries[r] < MaxAttempts
Resumable == {"created", "loading"}

NoWork == [pc |-> "idle", run |-> NoRun]

CandidatesInit ==
  /\ run = [r \in Runs |-> "absent"]
  /\ job = [r \in Runs |-> "none"]
  /\ tries = [r \in Runs |-> 0]
  /\ ledger = [r \in Runs |-> "none"]
  /\ cand = [r \in Runs |-> 0]
  /\ lost = {}
  /\ worker = [w \in Workers |-> NoWork]

Busy(w, pc) == worker[w].pc = pc
Turns(w, pc) == worker' = [worker EXCEPT ![w].pc = pc]
Rests(w) == worker' = [worker EXCEPT ![w] = NoWork]

\* The run and its job are one transaction of the caller, whichever door it
\* came through; the push task follows the commit and may be lost.
Materialize(r) ==
  /\ CreateExecution(r, "created")
  /\ job' = [job EXCEPT ![r] = "queued"]
  /\ UNCHANGED <<tries, ledger, cand, lost, worker>>

\* The member's route opens an execution and dispatches nothing for it.
CreateBare(r) ==
  /\ CreateExecution(r, "created")
  /\ UNCHANGED jobVars

\* The poll loop takes any claimable job, a push task its own: one statement
\* under the row's lock, committed before any work.
Claim(w, r) ==
  /\ Busy(w, "idle") /\ Claimable(r)
  /\ job' = [job EXCEPT ![r] = "running"]
  /\ tries' = [tries EXCEPT ![r] = @ + 1]
  /\ worker' = [worker EXCEPT ![w] = [pc |-> "context", run |-> r]]
  /\ UNCHANGED <<run, ledger, cand, lost>>

\* _candidate_context: the state is read without a lock, long before it is used.
ReadContext(w) ==
  /\ Busy(w, "context")
  /\ Turns(w, IF run[worker[w].run] \in Resumable THEN "adapter" ELSE "failing")
  /\ UNCHANGED <<run, job, tries, ledger, cand, lost>>

\* managed_feed_candidate: the import runs on a connection of its own, and a
\* replay of a written import lands nothing.
Land(w) ==
  LET r == worker[w].run
  IN /\ Busy(w, "adapter")
     /\ cand' = [cand EXCEPT ![r] = IF ledger[r] = "none" THEN @ + 1 ELSE @]
     /\ ledger' = [ledger EXCEPT ![r] = IF @ = "none" THEN "written" ELSE @]
     /\ Turns(w, "complete")
     /\ UNCHANGED <<run, job, tries, lost>>

\* The adapter raises, its rows landed or not, and its ledger row rolls back.
LandFails(w) ==
  LET r == worker[w].run
  IN /\ Busy(w, "adapter")
     /\ \E n \in {0, IF ledger[r] = "none" THEN 1 ELSE 0} :
          cand' = [cand EXCEPT ![r] = @ + n]
     /\ Turns(w, "failing")
     /\ UNCHANGED <<run, job, tries, ledger, lost>>

\* complete_candidate_from_adapter, the evidence and the job's own row: one
\* transaction, which locks the run and reads its state again.  A run its gates
\* refuse is failed, and its job is done.
Complete(w) ==
  LET r == worker[w].run
  IN /\ Busy(w, "complete") /\ run[r] \in Resumable
     /\ \E verdict \in {"ready", "failed"} : run' = [run EXCEPT ![r] = verdict]
     /\ job' = [job EXCEPT ![r] = "done"]
     /\ Rests(w)
     /\ UNCHANGED <<tries, ledger, cand, lost>>

\* The run moved meanwhile, or the transaction fails: everything but the rows
\* rolls back.
CompleteRaises(w) ==
  /\ Busy(w, "complete")
  /\ Turns(w, "failing")
  /\ UNCHANGED <<run, job, tries, ledger, cand, lost>>

Exhausted(r) == tries[r] >= MaxAttempts

\* _fail_execution_out_of_band, before a terminal job is booked: a transaction
\* of its own, which leaves an ended run alone.
FailRun(w) ==
  LET r == worker[w].run
  IN /\ Busy(w, "failing") /\ Exhausted(r)
     /\ run' = [run EXCEPT ![r] = IF @ \in RunActive THEN "failed" ELSE @]
     /\ Turns(w, "booking")
     /\ UNCHANGED <<job, tries, ledger, cand, lost>>

\* Its error is swallowed.
FailRunLost(w) ==
  /\ Busy(w, "failing") /\ Exhausted(worker[w].run)
  /\ Turns(w, "booking")
  /\ lost' = lost \cup {worker[w].run}
  /\ UNCHANGED <<run, job, tries, ledger, cand>>

\* Mutant: the job is dead before its run is failed.
BookAtOnce(w) ==
  LET r == worker[w].run
  IN /\ worker[w].pc \in {"failing", "booking"}
     /\ job' = [job EXCEPT ![r] = IF Exhausted(r) THEN "dead_letter" ELSE "failed"]
     /\ Rests(w)
     /\ UNCHANGED <<run, tries, ledger, cand, lost>>

BookFailure(w) ==
  LET r == worker[w].run
  IN /\ \/ Busy(w, "failing") /\ ~Exhausted(r)
        \/ Busy(w, "booking")
     /\ job' = [job EXCEPT ![r] = IF Exhausted(r) THEN "dead_letter" ELSE "failed"]
     /\ Rests(w)
     /\ UNCHANGED <<run, tries, ledger, cand, lost>>

\* The process dies, or cannot book the failure.  No sweep reads a running
\* activation job again.
WorkerDies(w) ==
  /\ ~Busy(w, "idle")
  /\ Rests(w)
  /\ UNCHANGED <<run, job, tries, ledger, cand, lost>>

WorkPcs == {"idle", "context", "adapter", "complete", "failing", "booking"}

\* Every row holds a value its column accepts; a claim lands its rows once.
CandidatesTypeOK ==
  /\ run \in [Runs -> RunStates]
  /\ job \in [Runs -> JobStates]
  /\ tries \in [Runs -> 0..MaxAttempts]
  /\ ledger \in [Runs -> {"none", "written", "published"}]
  /\ cand \in [Runs -> 0..MaxAttempts] /\ \A r \in Runs : cand[r] <= tries[r]
  /\ lost \subseteq Runs
  /\ worker \in [Workers -> [pc : WorkPcs, run : Runs \cup {NoRun}]]
=============================================================================
