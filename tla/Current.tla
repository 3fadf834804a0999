------------------------------ MODULE Current ------------------------------
(***************************************************************************)
(* Which execution of a Datastream is Current, for a candidate of the      *)
(* activation queue: the reviewed publication (server/core/                *)
(* datastream_activation.py), the publish button of the managed feeds      *)
(* (managed_feed_imports_api.py), the overlay of a mapping, the rollback   *)
(* (dataset_recovery.py) and the two routes that end a run by hand.  All   *)
(* of them move one pointer and append to one log, under the lock of the   *)
(* Datastream's row; what a person looked at before is older than that.    *)
(***************************************************************************)
EXTENDS Candidates, Sequences

CONSTANTS
  Confs,   \* confirmations a person was handed
  Posts,   \* requests that consume one
  MaxLog   \* bound on the publication log: no rollback beyond it

VARIABLES
  shared,   \* how often a run's rows are in the relation every reader names
  pointer,  \* datastreams.current_published_execution_id
  log,      \* datastream_publication_log: [run, prior, by]
  shows,    \* the run whose rows a run's output versions name
  conf,     \* entry confirmations: the reviewed run and its expected Current
  post,     \* the confirmation each request was let in with
  button    \* the request of the publish button

doors == <<conf, post, button>>
vars == <<run, jobVars, shared, pointer, log, shows, doors>>

NoConf == [run |-> NoRun, current |-> NoRun, state |-> "none"]
Unpressed == [pc |-> "idle", run |-> NoRun]

Init ==
  /\ CandidatesInit
  /\ shared = [r \in Runs |-> 0]
  /\ pointer = NoRun
  /\ log = <<>>
  /\ shows = [r \in Runs |-> NoRun]
  /\ conf = [c \in Confs |-> NoConf]
  /\ post = [q \in Posts |-> NoConf]
  /\ button = Unpressed

\* Every publication appends what it replaces and moves the pointer with it.
MovesCurrent(r, prior, by) ==
  /\ log' = Append(log, [run |-> r, prior |-> prior, by |-> by])
  /\ pointer' = r

Ends(r, s) == run' = [run EXCEPT ![r] = s]

(***************************************************************************)
(* The reviewed publication.                                               *)
(***************************************************************************)
Reviewable(r) == run[r] = "ready" /\ job[r] = "done"

\* prepare: a person is handed the review and the Current it would replace.
Prepare(c, r) ==
  /\ conf[c].state = "none" /\ Reviewable(r)
  /\ conf' = [conf EXCEPT ![c] = [run |-> r, current |-> pointer, state |-> "issued"]]
  /\ UNCHANGED <<run, jobVars, shared, pointer, log, shows, post, button>>

\* _confirm_publish_activate reads the review again and compares it with the
\* prepared one, in a transaction of its own.
Submit(q, c) ==
  /\ post[q] = NoConf /\ conf[c].state # "none"
  /\ Reviewable(conf[c].run) /\ pointer = conf[c].current
  /\ post' = [post EXCEPT ![q] = conf[c]]
  /\ UNCHANGED <<run, jobVars, shared, pointer, log, shows, conf, button>>

\* Mutant: the operation trusts the review.
StillAsSubmitted(q) == post[q] # NoConf

\* Under the locks of the run and of the Datastream, and of the confirmation.
StillAsReviewed(q) ==
  /\ post[q] # NoConf
  /\ \E c \in Confs : conf[c] = [post[q] EXCEPT !.state = "issued"]
  /\ run[post[q].run] = "ready"
  /\ pointer = post[q].current

\* Mutant: the merge is not keyed on the execution.
MergedAgain(r) == shared[r] + cand[r]

\* promote_candidate: what the shared relation holds after the merge, which
\* finds the rows of the execution that are already there.
Merged(r) == IF shared[r] = 0 THEN cand[r] ELSE shared[r]

\* Mutant: the proof only wants the rows to be there.
ProvenPresent(r) == Merged(r) >= 1

\* The evidence counts the rows of one landing.
Proven(r) == Merged(r) = 1

PublishReviewed(q) ==
  LET r == post[q].run
  IN /\ StillAsReviewed(q) /\ Proven(r)
     /\ shared' = [shared EXCEPT ![r] = Merged(r)]
     /\ cand' = [cand EXCEPT ![r] = 0]
     /\ Ends(r, "published")
     /\ MovesCurrent(r, pointer, "review")
     /\ shows' = [shows EXCEPT ![r] = r]
     /\ conf' = [c \in Confs |-> IF conf[c] = [post[q] EXCEPT !.state = "issued"]
                                 THEN [conf[c] EXCEPT !.state = "used"] ELSE conf[c]]
     /\ post' = [post EXCEPT ![q] = NoConf]
     /\ UNCHANGED <<job, tries, ledger, lost, worker, button>>

PublishRefused(q) ==
  /\ post[q] # NoConf /\ ~StillAsReviewed(q)
  /\ post' = [post EXCEPT ![q] = NoConf]
  /\ UNCHANGED <<run, jobVars, shared, pointer, log, shows, conf, button>>

\* The transaction rolls back; what the warehouse did stays: nothing, a merge
\* whose candidate was not dropped (its proof may have refused it), or all.
PublishRolledBack(q) ==
  LET r == post[q].run
  IN /\ StillAsReviewed(q)
     /\ \/ UNCHANGED <<shared, cand>>
        \/ shared' = [shared EXCEPT ![r] = Merged(r)] /\ UNCHANGED cand
        \/ /\ Proven(r)
           /\ shared' = [shared EXCEPT ![r] = Merged(r)]
           /\ cand' = [cand EXCEPT ![r] = 0]
     /\ post' = [post EXCEPT ![q] = NoConf]
     /\ UNCHANGED <<run, job, tries, ledger, lost, worker, pointer, log, shows, conf, button>>

(***************************************************************************)
(* The publish button of the managed feeds: three transactions.            *)
(***************************************************************************)
Pressed(pc) == button.pc = pc

\* The gates pass; a validating run becomes ready, and that commits.  In any
\* other state the press goes on to what it may be refused.
ButtonReads(r) ==
  /\ Pressed("idle") /\ ledger[r] # "none"
  /\ Ends(r, IF run[r] = "validating" THEN "ready" ELSE run[r])
  /\ button' = [pc |-> "commit", run |-> r]
  /\ UNCHANGED <<jobVars, shared, pointer, log, shows, conf, post>>

\* commit_publication without a dispatch: no rows move and no output is named.
ButtonCommits ==
  /\ Pressed("commit") /\ run[button.run] = "ready"
  /\ Ends(button.run, "published")
  /\ MovesCurrent(button.run, pointer, "button")
  /\ button' = [button EXCEPT !.pc = "mark"]
  /\ UNCHANGED <<jobVars, shared, shows, conf, post>>

\* Mutant: the run is failed without reading its state again.
ButtonFailsUnread ==
  /\ Pressed("commit")
  /\ Ends(button.run, "failed")
  /\ button' = Unpressed
  /\ UNCHANGED <<jobVars, shared, pointer, log, shows, conf, post>>

\* The run was not ready, or the transaction fails, which leaves nothing behind;
\* then _fail_execution_out_of_band, which leaves an ended run alone.
ButtonFails ==
  /\ Pressed("commit")
  /\ run' = [run EXCEPT ![button.run] = IF @ \in RunActive THEN "failed" ELSE @]
  /\ button' = Unpressed
  /\ UNCHANGED <<jobVars, shared, pointer, log, shows, conf, post>>

ButtonMarks ==
  /\ Pressed("mark")
  /\ ledger' = [ledger EXCEPT ![button.run] = "published"]
  /\ button' = Unpressed
  /\ UNCHANGED <<run, job, tries, cand, lost, worker, shared, pointer, log, shows, conf, post>>

ButtonDies ==
  /\ ~Pressed("idle")
  /\ button' = Unpressed
  /\ UNCHANGED <<run, jobVars, shared, pointer, log, shows, conf, post>>

(***************************************************************************)
(* Overlays, rollbacks, and the routes that end a run by hand.             *)
(***************************************************************************)
\* publish_mapping_overlay: a run that pulls nothing enters the table as
\* published, whether or not another run is active.
Overlay(n) ==
  /\ run[n] = "absent" /\ pointer # NoRun /\ run[pointer] = "published"
  /\ shows[pointer] # NoRun
  /\ Ends(n, "published")
  /\ MovesCurrent(n, pointer, "overlay")
  /\ shows' = [shows EXCEPT ![n] = shows[pointer]]
  /\ UNCHANGED <<jobVars, shared, doors>>

\* Mutant: the rollback logs what its target once replaced.
RollBackToItsPrior(t) ==
  /\ NoRunActive /\ run[t] = "published" /\ t # pointer /\ Len(log) < MaxLog
  /\ \E i \in DOMAIN log :
       log[i].run = t /\ MovesCurrent(t, log[i].prior, "rollback")
  /\ UNCHANGED <<run, jobVars, shared, shows, doors>>

\* rollback_dataset to a logged run that is not Current; already there, it
\* writes nothing.
RollBack(t) ==
  /\ NoRunActive /\ run[t] = "published" /\ t # pointer /\ Len(log) < MaxLog
  /\ \E i \in DOMAIN log : log[i].run = t
  /\ MovesCurrent(t, pointer, "rollback")
  /\ UNCHANGED <<run, jobVars, shared, shows, doors>>

MemberAdvances(r, new) ==
  /\ new \notin {"publishing", "published"} /\ IsValidTransition(run[r], new)
  /\ Ends(r, new)
  /\ UNCHANGED <<jobVars, shared, pointer, log, shows, doors>>

\* reconcile_execution: a run without a committed publication fails closed.
OwnerReconciles(r) ==
  /\ run[r] \in RunActive
  /\ Ends(r, "failed")
  /\ UNCHANGED <<jobVars, shared, pointer, log, shows, doors>>

(***************************************************************************)
(* The specification.                                                      *)
(***************************************************************************)
WorkerAdvances(w) ==
  \/ ReadContext(w) \/ Land(w) \/ LandFails(w) \/ Complete(w) \/ CompleteRaises(w)
  \/ FailRun(w) \/ FailRunLost(w) \/ BookFailure(w)

QueueStep ==
  \/ \E r \in Runs : Materialize(r) \/ CreateBare(r)
  \/ \E w \in Workers :
       WorkerAdvances(w) \/ WorkerDies(w) \/ \E r \in Runs : Claim(w, r)

Unpublished == UNCHANGED <<shared, pointer, log, shows, doors>>

Next ==
  \/ QueueStep /\ Unpublished
  \/ \E r \in Runs :
       \/ \E c \in Confs : Prepare(c, r)
       \/ ButtonReads(r) \/ Overlay(r) \/ RollBack(r) \/ OwnerReconciles(r)
       \/ \E new \in RunStates : MemberAdvances(r, new)
  \/ \E q \in Posts :
       \/ \E c \in Confs : Submit(q, c)
       \/ PublishReviewed(q) \/ PublishRefused(q) \/ PublishRolledBack(q)
  \/ ButtonCommits \/ ButtonFails \/ ButtonMarks \/ ButtonDies

Spec == Init /\ [][Next]_vars

\* A claimed job is worked on; a claimable one is offered again by the poll
\* loop, or by the reconciliation sweep when its push task was lost.
Fairness ==
  /\ \A w \in Workers : WF_vars(WorkerAdvances(w) /\ Unpublished)
  /\ WF_vars((\E w \in Workers, r \in Runs : Claim(w, r)) /\ Unpublished)

FairSpec == Spec /\ Fairness

(***************************************************************************)
(* Properties.                                                             *)
(***************************************************************************)
Doors == {"review", "button", "overlay", "rollback"}
Entries == [run : Runs, prior : Runs \cup {NoRun}, by : Doors]
Confirmations == [run : Runs \cup {NoRun}, current : Runs \cup {NoRun},
                  state : {"none", "issued", "used"}]

\* Every row holds a value its column accepts; no number of retried merges adds
\* more copies to the shared relation than there were landings.
TypeOK ==
  /\ CandidatesTypeOK
  /\ shared \in [Runs -> 0..MaxAttempts]
  /\ pointer \in Runs \cup {NoRun}
  /\ log \in Seq(Entries)
  /\ shows \in [Runs -> Runs \cup {NoRun}]
  /\ conf \in [Confs -> Confirmations]
  /\ post \in [Posts -> Confirmations]
  /\ button \in [pc : {"idle", "commit", "mark"}, run : Runs \cup {NoRun}]

\* The log tells the history of Current whichever door wrote it: every entry
\* replaces the run of the entry before it, and Current is the last one.  The
\* rollback and the overlay walk this chain.
LogIsChain ==
  /\ pointer = IF log = <<>> THEN NoRun ELSE log[Len(log)].run
  /\ \A i \in DOMAIN log :
       log[i].prior = IF i = 1 THEN NoRun ELSE log[i - 1].run

\* A reviewed publication replaces the Current its reviewer was shown, although
\* it was submitted before other publications and rollbacks committed, and no
\* confirmation publishes twice.
ReviewReplacesWhatItShowed ==
  /\ \A i \in DOMAIN log : log[i].by = "review" =>
       \E c \in Confs : conf[c] = [run |-> log[i].run, current |-> log[i].prior,
                                   state |-> "used"]
  /\ \A c \in Confs : conf[c].state = "used" =>
       \E i \in DOMAIN log : log[i].by = "review" /\ log[i].run = conf[c].run

\* A run is published exactly when the log names it, and once: only a rollback
\* names it again.  The out-of-band failure of a refused press, a member and an
\* owner all write the same column.
PublishedOnce ==
  /\ \A r \in Runs :
       (run[r] = "published") <=> (\E i \in DOMAIN log : log[i].run = r)
  /\ \A i, j \in DOMAIN log :
       i < j /\ log[i].run = log[j].run => log[j].by = "rollback"

\* Outputs that readers are handed name a relation that holds the rows of their
\* run exactly once, however often the publication was tried and rolled back
\* after its merge.
ReviewedRowsServedOnce ==
  \A r \in Runs : shows[r] # NoRun => shared[shows[r]] = 1

\* The job and its run agree on the end: a job that is done has decided its run,
\* and a dead letter leaves no active run behind (which would refuse every later
\* candidate of the Datastream) unless the failure itself could not be written.
JobAndRunAgree ==
  \A r \in Runs :
    /\ job[r] = "done" => run[r] \notin Resumable
    /\ job[r] = "dead_letter" => run[r] \notin RunActive \/ r \in lost

\* A job whose worker died: running for ever, nothing reads it again.
Stranded(r) == job[r] = "running" /\ \A w \in Workers : worker[w].run # r

\* An activation job ends unless the process that claimed it dies.
JobEnds ==
  \A r \in Runs :
    (job[r] = "queued") ~> (job[r] \in {"done", "dead_letter"} \/ Stranded(r))

\* "A pointer/outbox claiming published while the ledger remains written is an
\* unrecoverable split-brain" (datastream_publication.py:1399-1401): what a
\* review published is published in the ledger of its import.
LedgerFollowsReview ==
  log # <<>> /\ log[Len(log)].by = "review" => ledger[pointer] \in {"none", "published"}

\* What the Datastream promises its readers (CurrentPromise), through four doors
\* that read at one time and write at another; the button may publish a run that
\* names no rows.
Promise == INSTANCE CurrentPromise WITH
  MayBeBare <- TRUE,
  phase <- RunPhase,
  current <- pointer,
  history <- [i \in DOMAIN log |-> log[i].run],
  rows <- {r \in Runs : shared[r] > 0},
  reads <- shows

KeepsHistory == Promise!Spec
=============================================================================
