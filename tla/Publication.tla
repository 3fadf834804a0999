---------------------------- MODULE Publication ----------------------------
(***************************************************************************)
(* Publication of a managed file (server/core/import_runner.py,            *)
(* managed_file_dispatch.py, datastream_publication.py).  The rows live in *)
(* the warehouse, the verdict in Postgres, and no transaction spans both:  *)
(* the dispatch row is the durable coordinator.  Several processes drive   *)
(* one import at a time: the worker of the scan job, a second worker that  *)
(* the stale sweep of the scan jobs let in while the first still lives,    *)
(* the scheduler's reconciliation of pending dispatches, and people.       *)
(*                                                                         *)
(* An action is one transaction (or one warehouse job).  What a process    *)
(* carries from one transaction to the next, and what may be stale by      *)
(* then, is in proc.                                                       *)
(***************************************************************************)
EXTENDS Naturals, Sequences, FiniteSets, Executions

CONSTANTS
  Workers,   \* processes that execute scan jobs
  NoRun      \* no published execution

ASSUME NoRunAssumption == NoRun \notin Runs
ASSUME SweepAssumption == "sweep" \notin Workers

VARIABLES
  ledger,    \* managed_feed_import_ledger.outcome of each run
  dispatch,  \* managed_file_dispatches.state of each run
  dq,        \* whether dq_evidence says "passed"
  wh,        \* the run's rows: absent, isolated in a candidate, landed there
             \* a second time, or promoted
  pointer,   \* datastreams.current_published_execution_id
  log,       \* datastream_publication_log: [run, by]; the outbox goes with it
  proc       \* where each process stands

vars == <<run, ledger, dispatch, dq, wh, pointer, log, proc>>

Procs == Workers \cup {"sweep"}

LedgerTerminal == {"noop", "rejected", "published", "failed"}
DispatchStates ==
  {"none", "pending", "landing", "landed", "validating", "ready", "promoting",
   "published", "reconcile_required", "failed", "rejected", "reconciled"}

\* The live states the sweep selects; the others are over.
Retryable == {"pending", "landing", "landed", "validating", "ready",
              "promoting", "reconcile_required"}

Exits == {"reconcile_required", "failed", "rejected"}

DispatchForward == [s \in DispatchStates |->
  CASE s = "pending"    -> {"landing"} \cup Exits
    [] s = "landing"    -> {"landed"} \cup Exits
    [] s = "landed"     -> {"validating"} \cup Exits
    [] s = "validating" -> {"ready"} \cup Exits
    [] s = "ready"      -> {"promoting"} \cup Exits
    [] s = "promoting"  -> {"published", "reconcile_required", "failed"}
    [] s = "reconcile_required" -> {"published", "reconciled", "failed", "rejected"}
    [] OTHER            -> {}]

\* advance_dispatch under the row lock: the same state is read back, a forward
\* one is written, any other raises.
Moves(r, s) == s = dispatch[r] \/ s \in DispatchForward[dispatch[r]]
Advanced(r, s) == IF Moves(r, s) THEN [dispatch EXCEPT ![r] = s] ELSE dispatch

\* _GovernedDispatchWalk: a step the walk believes it has passed is dropped.
WalkOrder == [pending |-> 0, landing |-> 1, landed |-> 2, validating |-> 3,
              ready |-> 4, published |-> 5]
WalkSkips(believed, s) ==
  /\ believed \in DOMAIN WalkOrder
  /\ WalkOrder[believed] >= WalkOrder[s]

Idle == [pc |-> "idle", run |-> NoRun, seen |-> "absent", walk |-> "none",
         book |-> "none", closes |-> "group"]

Init ==
  /\ run = [r \in Runs |-> "absent"]
  /\ ledger = [r \in Runs |-> "none"]
  /\ dispatch = [r \in Runs |-> "none"]
  /\ dq = [r \in Runs |-> FALSE]
  /\ wh = [r \in Runs |-> "none"]
  /\ pointer = NoRun
  /\ log = <<>>
  /\ proc = [p \in Procs |-> Idle]

At(p, pc) == proc[p].pc = pc
Goes(p, next) == proc' = [proc EXCEPT ![p] = next]

(***************************************************************************)
(* The import.                                                             *)
(***************************************************************************)
\* open_import of a new key, then record_intent: the execution, the ledger and
\* the intent are durable before any row is.
OpenImport(w, r) ==
  /\ At(w, "idle")
  /\ CreateExecution(r, "created")
  /\ ledger' = [ledger EXCEPT ![r] = "opened"]
  /\ dispatch' = [dispatch EXCEPT ![r] = "pending"]
  /\ Goes(w, [Idle EXCEPT !.pc = "landing", !.run = r, !.seen = "created",
                          !.walk = "pending", !.book = "new"])
  /\ UNCHANGED <<dq, wh, pointer, log>>

\* The durable coordinator already holds the answer, or an import somebody
\* opened has an uncertain warehouse outcome: run_import returns.
Settled(r) == dispatch[r] = "published" \/ ledger[r] = "opened"

\* The same key again: the execution and the ledger are read once, here.  What
\* follows a reconciliation writes nothing: run_import returns, or the dispatch,
\* ended otherwise, refuses to be landed.
ReplayImport(w, r) ==
  /\ At(w, "idle")
  /\ ledger[r] # "none"
  /\ \/ /\ dispatch[r] \in {"promoting", "reconcile_required"}
        /\ Goes(w, [Idle EXCEPT !.pc = "reconcile", !.run = r])
     \/ /\ dispatch[r] \notin {"promoting", "reconcile_required"}
        /\ ~Settled(r)
        /\ Goes(w, [Idle EXCEPT !.pc = "landing", !.run = r, !.seen = run[r],
                                !.walk = dispatch[r], !.book = ledger[r]])
  /\ UNCHANGED <<run, ledger, dispatch, dq, wh, pointer, log>>

\* One governed step: advance_state from the state the worker saw, then
\* walk.advance, which commits.  A typed error ends the attempt, and the scan
\* job commits what the transaction had already written.  What no later step
\* reads is forgotten.
GovernedStep(w, from, to, s, next) ==
  LET r == proc[w].run
      due == proc[w].seen = from
      raised == due /\ run[r] # from
      skips == WalkSkips(proc[w].walk, s)
      through == ~raised /\ (skips \/ Moves(r, s))
  IN /\ run' = IF due /\ ~raised THEN [run EXCEPT ![r] = to] ELSE run
     /\ dispatch' = IF through /\ ~skips THEN Advanced(r, s) ELSE dispatch
     /\ Goes(w, IF ~through THEN Idle
                ELSE IF next = "begin" THEN [Idle EXCEPT !.pc = next, !.run = r]
                ELSE [proc[w] EXCEPT !.pc = next,
                                     !.seen = IF due THEN to ELSE @,
                                     !.walk = IF skips THEN @ ELSE s,
                                     !.book = IF next = "gate" THEN "none" ELSE @])

\* A written import is not landed again; a published one is.
Lands(w) == proc[w].book # "written"

StartLanding(w) ==
  /\ At(w, "landing")
  /\ GovernedStep(w, "created", "loading", "landing",
                  IF Lands(w) THEN "land" ELSE "observe")
  /\ UNCHANGED <<ledger, dq, wh, pointer, log>>

\* The rows are appended to the run's isolated candidate.  Rows already promoted
\* are not touched by a candidate that appears beside them.
Landed(rows) ==
  CASE rows = "none" -> "candidate" [] rows = "promoted" -> rows [] OTHER -> "doubled"

Land(w) ==
  /\ At(w, "land")
  /\ wh' = [wh EXCEPT ![proc[w].run] = Landed(@)]
  /\ Goes(w, [proc[w] EXCEPT !.pc = "observe"])
  /\ UNCHANGED <<run, ledger, dispatch, dq, pointer, log>>

\* The write raised: nobody knows whether it happened.
LandUncertain(w) ==
  /\ At(w, "land")
  /\ LET r == proc[w].run
     IN /\ \E rows \in {wh[r], Landed(wh[r])} : wh' = [wh EXCEPT ![r] = rows]
        /\ dispatch' = Advanced(r, "reconcile_required")
  /\ Goes(w, Idle)
  /\ UNCHANGED <<run, ledger, dq, pointer, log>>

\* record_rows and inspect_candidate: the ledger accepts the rows, and the
\* candidate is there to be read.
Observable(w) ==
  LET r == proc[w].run
  IN wh[r] \in {"candidate", "doubled"} /\ (Lands(w) => ledger[r] = "opened")

Recorded(w) ==
  IF Lands(w) THEN [ledger EXCEPT ![proc[w].run] = "written"] ELSE ledger

Observe(w) ==
  /\ At(w, "observe") /\ Observable(w) /\ wh[proc[w].run] = "candidate"
  /\ ledger' = Recorded(w)
  /\ GovernedStep(w, "none", "none", "landed", "gate")
  /\ UNCHANGED <<dq, wh, pointer, log>>

\* candidate_evidence_diverged
ObserveDiverged(w) ==
  /\ At(w, "observe") /\ Observable(w)
  /\ ledger' = Recorded(w)
  /\ dispatch' = Advanced(proc[w].run, "reconcile_required")
  /\ Goes(w, Idle)
  /\ UNCHANGED <<run, dq, wh, pointer, log>>

ObserveRaises(w) ==
  /\ At(w, "observe") /\ ~Observable(w)
  /\ Goes(w, Idle)
  /\ UNCHANGED <<run, ledger, dispatch, dq, wh, pointer, log>>

(***************************************************************************)
(* A gate refuses.  _fail_execution_and_discard_candidate fails the run    *)
(* from the state the worker saw, drops the candidate (which no rollback   *)
(* brings back), then the ledger and the dispatch record the outcome.      *)
(***************************************************************************)
\* Mutant: fails the run from whatever state it is in.
RunStandsAnyway(w) == run[proc[w].run] # "absent"

RunStands(w) ==
  LET r == proc[w].run
  IN proc[w].seen = "failed" \/ (run[r] = proc[w].seen /\ run[r] \in RunActive)

Discarded(r) == IF wh[r] # "promoted" THEN [wh EXCEPT ![r] = "none"] ELSE wh

Refuse(w, outcome) ==
  LET r == proc[w].run
      closes == ledger[r] \notin LedgerTerminal
  IN /\ IF RunStands(w)
        THEN /\ run' = [run EXCEPT ![r] = "failed"]
             /\ wh' = Discarded(r)
             /\ ledger' = IF closes THEN [ledger EXCEPT ![r] = outcome] ELSE ledger
             /\ dispatch' = IF closes THEN Advanced(r, outcome) ELSE dispatch
        ELSE UNCHANGED <<run, wh, ledger, dispatch>>
     /\ Goes(w, Idle)
     /\ UNCHANGED <<dq, pointer, log>>

RefuseRejections(w) == At(w, "gate") /\ Refuse(w, "rejected")
RefuseOnDqGates(w) == At(w, "dq") /\ Refuse(w, "failed")

\* The process dies after the warehouse dropped the candidate and before
\* Postgres committed the refusal.
DieInRefusal(w) ==
  /\ proc[w].pc \in {"gate", "dq"} /\ RunStands(w)
  /\ wh' = Discarded(proc[w].run)
  /\ Goes(w, Idle)
  /\ UNCHANGED <<run, ledger, dispatch, dq, pointer, log>>

\* The rejection gate passes, and the run is validated in the same transaction.
Validate(w) ==
  /\ At(w, "gate")
  /\ GovernedStep(w, "loading", "validating", "validating", "dq")
  /\ UNCHANGED <<ledger, dq, wh, pointer, log>>

PassDqGates(w) ==
  /\ At(w, "dq")
  /\ GovernedStep(w, "validating", "ready", "ready", "begin")
  /\ dq' = [dq EXCEPT ![proc[w].run] = @ \/ dispatch'[proc[w].run] = "ready"]
  /\ UNCHANGED <<ledger, wh, pointer, log>>

(***************************************************************************)
(* The two halves of the cross-store write, taken by the import itself or  *)
(* by a reconciliation of its dispatch.  A half that fails leaves the      *)
(* dispatch to the next reconciliation.                                    *)
(***************************************************************************)
LeftToReconcile(p) ==
  /\ dispatch' = Advanced(proc[p].run, "reconcile_required")
  /\ Goes(p, Idle)

\* begin_managed_file_promotion, under the locks of both rows.
CanBegin(r) ==
  /\ dq[r]
  /\ \/ run[r] = "ready" /\ dispatch[r] \in {"ready", "reconcile_required"}
     \/ run[r] = "publishing" /\ dispatch[r] \in {"promoting", "reconcile_required"}

Begin(p) ==
  LET r == proc[p].run
  IN /\ At(p, "begin") /\ CanBegin(r)
     /\ run' = [run EXCEPT ![r] = "publishing"]
     /\ dispatch' = [dispatch EXCEPT ![r] = IF @ = "ready" THEN "promoting" ELSE @]
     /\ Goes(p, [proc[p] EXCEPT !.pc = "promote"])
     /\ UNCHANGED <<ledger, dq, wh, pointer, log>>

\* Refused, or its transaction fails; a run whose hash was never written is
\* refused too.
BeginRefused(p) ==
  /\ At(p, "begin")
  /\ LeftToReconcile(p)
  /\ UNCHANGED <<run, ledger, dq, wh, pointer, log>>

\* promote_candidate: one warehouse transaction, keyed on the execution, so
\* rows already in the target are found and not added again.
Promotable(r) == wh[r] \in {"candidate", "promoted"}

Promote(p) ==
  LET r == proc[p].run
  IN /\ At(p, "promote") /\ Promotable(r)
     /\ wh' = [wh EXCEPT ![r] = "promoted"]
     /\ Goes(p, [proc[p] EXCEPT !.pc = "commit"])
     /\ UNCHANGED <<run, ledger, dispatch, dq, pointer, log>>

\* "promotion candidate is absent and target is incomplete", or its row count
\* "differs from evidence".
PromoteUnproven(p) ==
  /\ At(p, "promote") /\ ~Promotable(proc[p].run)
  /\ LeftToReconcile(p)
  /\ UNCHANGED <<run, ledger, dq, wh, pointer, log>>

\* Mutant: the failure of the provider's call is swallowed.
PromoteSwallowed(p) ==
  LET r == proc[p].run
  IN /\ At(p, "promote") /\ Promotable(r)
     /\ \E rows \in {wh[r], "promoted"} : wh' = [wh EXCEPT ![r] = rows]
     /\ Goes(p, [proc[p] EXCEPT !.pc = "commit"])
     /\ UNCHANGED <<run, ledger, dispatch, dq, pointer, log>>

\* The provider's call fails, the merge having happened or not.
PromoteUncertain(p) ==
  LET r == proc[p].run
  IN /\ At(p, "promote") /\ Promotable(r)
     /\ \E rows \in {wh[r], "promoted"} : wh' = [wh EXCEPT ![r] = rows]
     /\ LeftToReconcile(p)
     /\ UNCHANGED <<run, ledger, dq, pointer, log>>

\* The atomic group of commit_publication: state, log, pointer and outbox.
PublicationGroup(r, by) ==
  /\ run' = [run EXCEPT ![r] = "published"]
  /\ log' = Append(log, [run |-> r, by |-> by])
  /\ pointer' = r

Logged(r) == \E i \in DOMAIN log : log[i].run = r

\* With a dispatch the run must be publishing, and the ledger and the dispatch
\* are members of the group.
CanCommit(r) ==
  /\ run[r] = "publishing"
  /\ ledger[r] = "written"
  /\ dispatch[r] \in {"promoting", "reconcile_required"} /\ dq[r]

CommitsGroup(p) == At(p, "commit") /\ proc[p].closes = "group"

\* Mutant: the dispatch is left to a transaction of its own.
CommitWithoutDispatch(p) ==
  LET r == proc[p].run
  IN /\ CommitsGroup(p) /\ CanCommit(r)
     /\ PublicationGroup(r, "import")
     /\ ledger' = [ledger EXCEPT ![r] = "published"]
     /\ Goes(p, Idle)
     /\ UNCHANGED <<dispatch, dq, wh>>

Commit(p) ==
  LET r == proc[p].run
  IN /\ CommitsGroup(p) /\ CanCommit(r)
     /\ PublicationGroup(r, "import")
     /\ ledger' = [ledger EXCEPT ![r] = "published"]
     /\ dispatch' = [dispatch EXCEPT ![r] = "published"]
     /\ Goes(p, Idle)
     /\ UNCHANGED <<dq, wh>>

\* The group is refused, or was committed by somebody else: a replay reads it
\* back, and no exit of the dispatch is left.
CommitRefused(p) ==
  /\ CommitsGroup(p) /\ ~CanCommit(proc[p].run)
  /\ LeftToReconcile(p)
  /\ UNCHANGED <<run, ledger, dq, wh, pointer, log>>

CommitRolledBack(p) ==
  /\ CommitsGroup(p) /\ CanCommit(proc[p].run)
  /\ LeftToReconcile(p)
  /\ UNCHANGED <<run, ledger, dq, wh, pointer, log>>

(***************************************************************************)
(* reconcile_dispatch.                                                     *)
(***************************************************************************)
\* reconcile_pending_dispatches: the scheduler's pass over the live journals.
Select(r) ==
  /\ At("sweep", "idle")
  /\ dispatch[r] \in Retryable
  /\ Goes("sweep", [Idle EXCEPT !.pc = "reconcile", !.run = r])
  /\ UNCHANGED <<run, ledger, dispatch, dq, wh, pointer, log>>

RefusedRun(r) ==
  run[r] \in {"failed", "cancelled"} \/ ledger[r] \in {"failed", "rejected"}

\* Mutant: a run that is published is taken for one that needs nothing.
PublishableUntilPublished(r) == run[r] \in {"ready", "publishing"} /\ dq[r]

Publishable(r) == run[r] \in {"ready", "publishing", "published"} /\ dq[r]

ReconcileRefused(p) ==
  LET r == proc[p].run
  IN /\ At(p, "reconcile") /\ RefusedRun(r)
     /\ dispatch' = Advanced(r, IF ledger[r] = "rejected" THEN "rejected" ELSE "failed")
     /\ Goes(p, Idle)
     /\ UNCHANGED <<run, ledger, dq, wh, pointer, log>>

\* prepublication_phase_requires_resume
ReconcileUnready(p) ==
  LET r == proc[p].run
  IN /\ At(p, "reconcile") /\ ~RefusedRun(r) /\ ~Publishable(r)
     /\ LeftToReconcile(p)
     /\ UNCHANGED <<run, ledger, dq, wh, pointer, log>>

\* A run seen published, which the button did, skips the claim of the promotion.
\* Whether every durable signal agrees is read here, before the promotion.
ReconcileResumes(p) ==
  LET r == proc[p].run
      agrees == ledger[r] = "published" /\ pointer = r
  IN /\ At(p, "reconcile") /\ ~RefusedRun(r) /\ Publishable(r)
     /\ Goes(p, IF run[r] = "published"
                THEN [proc[p] EXCEPT !.pc = "promote",
                                     !.closes = IF agrees THEN "confirm" ELSE "unproven"]
                ELSE [proc[p] EXCEPT !.pc = "begin"])
     /\ UNCHANGED <<run, ledger, dispatch, dq, wh, pointer, log>>

\* legacy_publication_reconciled.  A dispatch that may not become published from
\* where it is raises, and leaves the rest to the next pass.
ConfirmPublished(p) ==
  LET r == proc[p].run
  IN /\ At(p, "commit") /\ proc[p].closes = "confirm"
     /\ dispatch' = IF Moves(r, "published") THEN Advanced(r, "published")
                    ELSE Advanced(r, "reconcile_required")
     /\ Goes(p, Idle)
     /\ UNCHANGED <<run, ledger, dq, wh, pointer, log>>

\* published_dispatch_evidence_incomplete
ConfirmUnproven(p) ==
  /\ At(p, "commit") /\ proc[p].closes = "unproven"
  /\ LeftToReconcile(p)
  /\ UNCHANGED <<run, ledger, dq, wh, pointer, log>>

(***************************************************************************)
(* People.                                                                 *)
(***************************************************************************)
\* The member's state route: any transition of the machine but the two that
\* belong to commit_publication.  Its body may carry the hash and the count.
MemberAdvances(r, new) ==
  /\ new \notin {"publishing", "published"}
  /\ IsValidTransition(run[r], new)
  /\ run' = [run EXCEPT ![r] = new]
  /\ UNCHANGED <<ledger, dispatch, dq, wh, pointer, log, proc>>

\* Mutant: promoted rows are taken for the commit.
OwnerTrustsRows(r) ==
  /\ run[r] \in RunActive
  /\ run' = [run EXCEPT ![r] = IF @ = "publishing" /\ wh[r] = "promoted"
                                THEN "published" ELSE "failed"]
  /\ UNCHANGED <<ledger, dispatch, dq, wh, pointer, log, proc>>

\* reconcile_execution: pointer and log are the evidence, everything else
\* fails closed.
OwnerReconciles(r) ==
  LET committed == run[r] = "publishing" /\ pointer = r /\ Logged(r)
  IN /\ run[r] \in RunActive
     /\ run' = [run EXCEPT ![r] = IF committed THEN "published" ELSE "failed"]
     /\ UNCHANGED <<ledger, dispatch, dq, wh, pointer, log, proc>>

\* The record-rows route takes any import that is open.
MemberRecords(r) ==
  /\ ledger[r] = "opened"
  /\ ledger' = [ledger EXCEPT ![r] = "written"]
  /\ UNCHANGED <<run, dispatch, dq, wh, pointer, log, proc>>

(***************************************************************************)
(* The publish button takes any import too.  Between its transactions a    *)
(* press keeps nothing but the run, so any number of presses, some of them *)
(* dead half-way, is any number of these steps.  The gates it runs, and    *)
(* whether the run has its hash and its count, are left open.              *)
(***************************************************************************)
Pressable(r) == ledger[r] # "none"

\* A validating run becomes ready, and that commits.
ButtonReadies(r) ==
  /\ Pressable(r) /\ run[r] = "validating"
  /\ run' = [run EXCEPT ![r] = "ready"]
  /\ UNCHANGED <<ledger, dispatch, dq, wh, pointer, log, proc>>

\* commit_publication without a dispatch: a ready run is enough, wherever its
\* rows are, and neither the ledger nor the dispatch is a member of the group.
ButtonCommits(r) ==
  /\ Pressable(r) /\ run[r] = "ready"
  /\ PublicationGroup(r, "button")
  /\ UNCHANGED <<ledger, dispatch, dq, wh, proc>>

\* The group is refused or rolled back: _fail_execution_out_of_band.
ButtonFails(r) ==
  /\ Pressable(r) /\ run[r] \in RunActive
  /\ run' = [run EXCEPT ![r] = "failed"]
  /\ UNCHANGED <<ledger, dispatch, dq, wh, pointer, log, proc>>

\* mark_outcome, in a transaction of its own.
ButtonMarks(r) ==
  /\ ledger[r] \notin LedgerTerminal
  /\ \E i \in DOMAIN log : log[i] = [run |-> r, by |-> "button"]
  /\ ledger' = [ledger EXCEPT ![r] = "published"]
  /\ UNCHANGED <<run, dispatch, dq, wh, pointer, log, proc>>

\* A process dies between two transactions.
Die(p) ==
  /\ ~At(p, "idle")
  /\ Goes(p, Idle)
  /\ UNCHANGED <<run, ledger, dispatch, dq, wh, pointer, log>>

(***************************************************************************)
(* The specification.                                                      *)
(***************************************************************************)
ImportStep(w) ==
  \/ StartLanding(w) \/ Land(w) \/ LandUncertain(w)
  \/ Observe(w) \/ ObserveDiverged(w) \/ ObserveRaises(w)
  \/ RefuseRejections(w) \/ DieInRefusal(w)
  \/ Validate(w) \/ PassDqGates(w) \/ RefuseOnDqGates(w)

CrossStoreStep(p) ==
  \/ ReconcileRefused(p) \/ ReconcileUnready(p) \/ ReconcileResumes(p)
  \/ Begin(p) \/ BeginRefused(p)
  \/ Promote(p) \/ PromoteUnproven(p) \/ PromoteUncertain(p)
  \/ Commit(p) \/ CommitRefused(p) \/ CommitRolledBack(p)
  \/ ConfirmPublished(p) \/ ConfirmUnproven(p)

Press(r) ==
  ButtonReadies(r) \/ ButtonCommits(r) \/ ButtonFails(r) \/ ButtonMarks(r)

Next ==
  \/ \E w \in Workers :
       \/ \E r \in Runs : OpenImport(w, r) \/ ReplayImport(w, r)
       \/ ImportStep(w)
  \/ \E p \in Procs : CrossStoreStep(p) \/ Die(p)
  \/ \E r \in Runs :
       \/ Select(r) \/ OwnerReconciles(r) \/ MemberRecords(r) \/ Press(r)
       \/ \E new \in RunStates : MemberAdvances(r, new)

Spec == Init /\ [][Next]_vars

\* The scheduler calls the sweep again and again, a pass takes every live
\* journal, and a pass that gets as far again and again gets through once.
SweepFairness ==
  /\ \A r \in Runs : SF_vars(Select(r))
  /\ WF_vars(CrossStoreStep("sweep"))
  /\ SF_vars(ReconcileResumes("sweep")) /\ SF_vars(Begin("sweep"))
  /\ SF_vars(Promote("sweep")) /\ SF_vars(Commit("sweep"))

FairSpec == Spec /\ SweepFairness

(***************************************************************************)
(* Properties.                                                             *)
(***************************************************************************)
PcStates == {"idle", "landing", "land", "observe", "gate", "dq",
             "begin", "promote", "commit", "reconcile"}

\* Every row holds a value its column accepts.
TypeOK ==
  /\ run \in [Runs -> RunStates]
  /\ ledger \in [Runs -> {"none", "opened", "written"} \cup LedgerTerminal]
  /\ dispatch \in [Runs -> DispatchStates]
  /\ dq \in [Runs -> BOOLEAN]
  /\ wh \in [Runs -> {"none", "candidate", "doubled", "promoted"}]
  /\ pointer \in Runs \cup {NoRun}
  /\ log \in Seq([run : Runs, by : {"import", "button"}])
  /\ \A p \in Procs : proc[p].pc \in PcStates /\ proc[p].run \in Runs \cup {NoRun}

\* A publication that went through the dispatch, and a dispatch that says
\* published, have their rows in the durable relation, whatever process committed
\* them and whatever the button did to the run meanwhile.
PointerBacked ==
  /\ \A i \in DOMAIN log : log[i].by = "import" => wh[log[i].run] = "promoted"
  /\ \A r \in Runs : dispatch[r] = "published" => Logged(r) /\ wh[r] = "promoted"

\* A run is published exactly when the log names it, it is named once however
\* many processes retried its publication, and the pointer is the last entry.
PublishedIsLogged ==
  /\ \A r \in Runs : (run[r] = "published") <=> Logged(r)
  /\ \A i, j \in DOMAIN log : log[i].run = log[j].run => i = j
  /\ pointer = IF log = <<>> THEN NoRun ELSE log[Len(log)].run

\* The three records of a governed import never contradict each other about how
\* it ended, although two workers, the sweep, the button and people write them:
\* the ledger may be behind the execution and the dispatch behind both, never
\* ahead, and after a publication through the dispatch none is behind.
OutcomesAgree ==
  /\ \A r \in Runs :
       /\ dispatch[r] = "published" => ledger[r] = "published"
       /\ ledger[r] = "published" => run[r] = "published"
       /\ dispatch[r] \in {"failed", "rejected"} => run[r] \in {"failed", "cancelled"}
  /\ \A i \in DOMAIN log : log[i].by = "import" => dispatch[log[i].run] = "published"

\* A refused import leaves no rows: none in a candidate that a later
\* publication would find, none promoted by another process meanwhile.
RefusedLeavesNothing ==
  \A r \in Runs : ledger[r] \in {"rejected", "failed"} => wh[r] = "none"

\* Whatever left a run between its announcement and its rows, a process that died
\* while it promoted or a button that published first, the sweep settles it: the
\* run fails, or it is published with its rows in the durable relation.  Left
\* out are a candidate that is gone or landed twice, and a published run whose
\* import never wrote its DQ evidence.
Unsettled(r) ==
  /\ run[r] = "publishing" \/ (run[r] = "published" /\ dq[r])
  /\ Promotable(r)
Settles(r) ==
  \/ run[r] = "failed"
  \/ run[r] = "published" /\ wh[r] = "promoted"
  \/ wh[r] = "doubled"

PromotionSettles == \A r \in Runs : Unsettled(r) ~> Settles(r)

\* What the Datastream promises its readers (CurrentPromise), in whatever order
\* workers, sweep and people come: a run is published once, with its rows or, by
\* the button, bare; rows that follow are its own, and are never taken away.
Promise == INSTANCE CurrentPromise WITH
  MayBeBare <- TRUE,
  phase <- RunPhase,
  current <- pointer,
  history <- [i \in DOMAIN log |-> log[i].run],
  rows <- {r \in Runs : wh[r] = "promoted"},
  reads <- [r \in Runs |->
    IF run[r] = "published" /\ wh[r] = "promoted" THEN r ELSE NoRun]

KeepsHistory == Promise!Spec
=============================================================================
