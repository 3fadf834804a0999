------------------------------ MODULE Inbound ------------------------------
(***************************************************************************)
(* The files of one inbound delivery: a scan job per attachment            *)
(* (server/core/inbound_scan_jobs.py), the worker that takes it            *)
(* (server/inbound/bridge.py, server/core/inbound_processing.py), the      *)
(* evidence of each file (inbound_raw_imports.py) and the receipt that     *)
(* sums them up (inbound_receipts.py).  The triggers of the tables         *)
(* (infra/nango/migrations) are part of every UPDATE.                      *)
(***************************************************************************)
EXTENDS Naturals, FiniteSets

CONSTANTS
  Files,         \* the attachments of the delivery
  Workers,       \* scan tasks that can run at once
  MaxAttempts,   \* inbound_scan_jobs.max_attempts
  MaxRecoveries, \* bound on the recoveries of dead letters
  MaxFaults      \* bound on the attempts and the writes that are lost

NoFile == "no file"

ASSUME InboundAssumption ==
  /\ MaxAttempts \in Nat \ {0} /\ MaxRecoveries \in Nat /\ MaxFaults \in Nat
  /\ IsFiniteSet(Files) /\ Files # {} /\ NoFile \notin Files

VARIABLES
  receipt,     \* inbound_receipts.state
  opened,      \* is the operation key of the PROCESSING transition used?
  folded,      \* the operation keys of the folds: <<state, generation>>
  job,         \* inbound_scan_jobs.state
  tries,       \* attempt_count
  recoveries,  \* recovery_count
  said,        \* outcome_status
  names,       \* does the job name its raw import?
  raw,         \* inbound_raw_imports.state
  worker,      \* what each task is doing
  faults,      \* how many attempts were lost
  race         \* which race of two transactions occurred (for the properties only)

jobVars == <<job, tries, recoveries, said, names>>
receiptVars == <<receipt, opened, folded>>
seen == <<faults, race>>
vars == <<receiptVars, jobVars, raw, worker, seen>>

JobSettled == {"SUCCEEDED", "REJECTED", "DEAD_LETTER"}
RawTerminal == {"LANDED", "REJECTED", "FAILED"}
ReceiptTerminal == {"LANDED", "REJECTED", "FAILED"}
Statuses == {"landed", "observed", "rejected", "failed", "duplicate"}
Rest == [pc |-> "idle", file |-> NoFile, status |-> "none", named |-> FALSE,
         to |-> "keep", fold |-> <<"wait", 0>>]

\* The receipt and the raw imports were written before the delivery was
\* acknowledged.
Init ==
  /\ receipt = "RECEIVED" /\ opened = FALSE /\ folded = {}
  /\ job = [a \in Files |-> "absent"]
  /\ tries = [a \in Files |-> 0] /\ recoveries = [a \in Files |-> 0]
  /\ said = [a \in Files |-> "none"] /\ names = [a \in Files |-> FALSE]
  /\ raw = [a \in Files |-> "RECEIVED"]
  /\ worker = [w \in Workers |-> Rest]
  /\ faults = 0 /\ race = "none"

At(w, pc) == worker[w].pc = pc
File(w) == worker[w].file
Goes(w, pc) == worker' = [worker EXCEPT ![w].pc = pc]
Rests(w) == worker' = [worker EXCEPT ![w] = Rest]
Reports(w, status, named) ==
  worker' = [worker EXCEPT ![w].pc = "finish", ![w].status = status, ![w].named = named]
Fails(w) == worker' = [worker EXCEPT ![w] = [Rest EXCEPT !.pc = "failing", !.file = File(w)]]
Loses == faults < MaxFaults /\ faults' = faults + 1 /\ UNCHANGED race

\* The row of a job whose end is written and not yet committed.
Locked(a) == \E w \in Workers : At(w, "commit") /\ File(w) = a /\ worker[w].to # "keep"

(***************************************************************************)
(* The queue.                                                              *)
(***************************************************************************)
\* One job per attachment, one transaction.  A second delivery of the manifest
\* writes nothing: its upsert keeps the row or is refused by the trigger.
EnqueueManifest ==
  /\ \A a \in Files : job[a] = "absent"
  /\ job' = [a \in Files |-> "QUEUED"]
  /\ UNCHANGED <<receiptVars, tries, recoveries, said, names, raw, worker, seen>>

\* A task is a request of its own: any free slot serves it.
Slot == CHOOSE w \in Workers : At(w, "idle")

Claim(a) ==
  /\ \E w \in Workers : At(w, "idle")
  /\ job[a] \in {"QUEUED", "RETRY_WAIT"} /\ tries[a] < MaxAttempts
  /\ job' = [job EXCEPT ![a] = "RUNNING"]
  /\ tries' = [tries EXCEPT ![a] = @ + 1]
  /\ worker' = [worker EXCEPT ![Slot] = [Rest EXCEPT !.pc = "open", !.file = a]]
  /\ UNCHANGED <<receiptVars, recoveries, said, names, raw, seen>>

\* Mutant: the last attempt is left to its worker.
LostRetriable(a) == job[a] = "RUNNING" /\ tries[a] < MaxAttempts /\ ~Locked(a)

\* Claimed two minutes ago: its worker may still be at it.
Lost(a) == job[a] = "RUNNING" /\ ~Locked(a)

Exhausted(a) == tries[a] >= MaxAttempts

Attended(a) == \E w \in Workers : File(w) = a

\* reconcile_stale_jobs does not fold the receipt.
Sweep(a) ==
  /\ Lost(a)
  /\ job' = [job EXCEPT ![a] = IF Exhausted(a) THEN "DEAD_LETTER" ELSE "RETRY_WAIT"]
  /\ IF Attended(a) THEN Loses ELSE UNCHANGED seen
  /\ UNCHANGED <<receiptVars, tries, recoveries, said, names, raw, worker>>

\* SUM(recovery_count), one element per recovery.
Recovered == {r \in Files \X (1..MaxRecoveries) : r[2] <= recoveries[r[1]]}
Generation == Cardinality(Recovered)

Folding == \E w \in Workers : At(w, "commit")

\* Mutant: the receipt stays as the dead letter left it.
RecoverJobOnly(a) ==
  /\ job[a] = "DEAD_LETTER" /\ receipt \in {"FAILED", "PROCESSING"}
  /\ Generation < MaxRecoveries
  /\ job' = [job EXCEPT ![a] = "QUEUED"]
  /\ tries' = [tries EXCEPT ![a] = 0]
  /\ recoveries' = [recoveries EXCEPT ![a] = @ + 1]
  /\ race' = (IF Folding THEN "crossed" ELSE race) /\ UNCHANGED faults
  /\ UNCHANGED <<receiptVars, said, names, raw, worker>>

\* recover_dead_letter, once per key of its caller.
Recover(a) ==
  /\ job[a] = "DEAD_LETTER" /\ receipt \in {"FAILED", "PROCESSING"}
  /\ Generation < MaxRecoveries
  /\ job' = [job EXCEPT ![a] = "QUEUED"]
  /\ tries' = [tries EXCEPT ![a] = 0]
  /\ recoveries' = [recoveries EXCEPT ![a] = @ + 1]
  /\ receipt' = "PROCESSING"
  /\ race' = (IF Folding THEN "crossed" ELSE race) /\ UNCHANGED faults
  /\ UNCHANGED <<opened, folded, said, names, raw, worker>>

(***************************************************************************)
(* process_inbound_delivery for one attachment.                            *)
(***************************************************************************)
\* A receipt that is over is not opened again; the transition is keyed, and
\* refused when a recovery reopened a receipt that was never opened.
Open(w) ==
  /\ At(w, "open")
  /\ IF receipt \in ReceiptTerminal
       THEN Reports(w, "duplicate", FALSE) /\ UNCHANGED receiptVars
     ELSE IF opened
       THEN Goes(w, "file") /\ UNCHANGED receiptVars
     ELSE IF receipt = "RECEIVED"
       THEN receipt' = "PROCESSING" /\ opened' = TRUE /\ Goes(w, "file") /\ UNCHANGED folded
     ELSE Fails(w) /\ UNCHANGED receiptVars
  /\ UNCHANGED <<jobVars, raw, seen>>

\* The manifest cannot be read, or the scanner is not there.
MustRetry(w) ==
  /\ worker[w].pc \in {"open", "scan"}
  /\ Fails(w)
  /\ UNCHANGED <<receiptVars, jobVars, raw, seen>>

AlreadyOver(w) ==
  /\ At(w, "file") /\ raw[File(w)] \in RawTerminal
  /\ Reports(w, "duplicate", TRUE)
  /\ UNCHANGED <<receiptVars, jobVars, raw, seen>>

\* mark_raw_import_state to a terminal state: again is nothing, and no other
\* terminal state is left.
Ends(w, s) ==
  /\ raw[File(w)] \notin RawTerminal \ {s}
  /\ raw' = [raw EXCEPT ![File(w)] = s]

\* Too large, refused by the scan, or blocked by a gate of the import.
Refuse(w) ==
  /\ worker[w].pc \in {"file", "scan", "ingest"}
  /\ At(w, "file") => raw[File(w)] \notin RawTerminal
  /\ Ends(w, "REJECTED") /\ Reports(w, "rejected", TRUE)
  /\ UNCHANGED <<receiptVars, jobVars, seen>>

\* The stored bytes are not the ones received, or the import raises an error
\* it is known to raise.
FileFails(w) ==
  /\ worker[w].pc \in {"file", "ingest"}
  /\ At(w, "file") => raw[File(w)] \notin RawTerminal
  /\ Ends(w, "FAILED") /\ Reports(w, "failed", TRUE)
  /\ UNCHANGED <<receiptVars, jobVars, seen>>

\* SCANNING is committed before the bytes are looked at; it replays.
Intend(w) ==
  /\ At(w, "file") /\ raw[File(w)] \notin RawTerminal
  /\ raw' = [raw EXCEPT ![File(w)] = IF @ = "RECEIVED" THEN "SCANNING" ELSE @]
  /\ Goes(w, "scan")
  /\ UNCHANGED <<receiptVars, jobVars, seen>>

\* A file of a draft Datastream is kept for its setup; others are imported.
Accept(w) ==
  /\ At(w, "scan") /\ raw[File(w)] \notin RawTerminal
  /\ raw' = [raw EXCEPT ![File(w)] = "ACCEPTED"]
  /\ Goes(w, "ingest") \/ Reports(w, "observed", TRUE)
  /\ UNCHANGED <<receiptVars, jobVars, seen>>

\* Mutant: the import's own answer is reported.
IngestSays(w) ==
  /\ At(w, "ingest")
  /\ raw' = [raw EXCEPT ![File(w)] = IF @ \in RawTerminal THEN @ ELSE "LANDED"]
  /\ Reports(w, "landed", TRUE)
  /\ UNCHANGED <<receiptVars, jobVars, seen>>

\* ingest_inbound_file, which replays an import it already made.
Ingest(w) ==
  /\ At(w, "ingest")
  /\ Ends(w, "LANDED") /\ Reports(w, "landed", TRUE)
  /\ UNCHANGED <<receiptVars, jobVars, seen>>

\* The import is left to the reconciliation of its dispatch (Publication).
IngestUncertain(w) ==
  /\ At(w, "ingest")
  /\ Reports(w, "reconcile_required", TRUE)
  /\ UNCHANGED <<receiptVars, jobVars, raw, seen>>

\* Anything else, a raw import that is over included: rolled back, and the file
\* failed unless it is over ...
Unexpected(w) ==
  /\ worker[w].pc \in {"file", "scan", "ingest"}
  /\ raw' = [raw EXCEPT ![File(w)] = IF @ \in RawTerminal THEN @ ELSE "FAILED"]
  /\ Reports(w, "failed", TRUE)
  /\ UNCHANGED <<receiptVars, jobVars, seen>>

\* ... or that cannot be written either, which is logged: one more fault.
UnexpectedLost(w) ==
  /\ worker[w].pc \in {"file", "scan", "ingest"}
  /\ Reports(w, "failed", FALSE) /\ Loses
  /\ UNCHANGED <<receiptVars, jobVars, raw>>

(***************************************************************************)
(* The end of an attempt and the fold of the receipt: one transaction,     *)
(* which reads the sibling jobs as they are committed, without a lock.     *)
(***************************************************************************)
Settled(j) == \A a \in Files : j[a] \in JobSettled
Outcomes(s) == {s[a] : a \in Files}

Verdict(j, s) ==
  IF \E a \in Files : j[a] = "DEAD_LETTER" THEN "FAILED"
  ELSE IF Outcomes(s) = {"duplicate"} THEN "REJECTED"
  ELSE IF "landed" \in Outcomes(s) THEN "LANDED"
  ELSE IF "rejected" \in Outcomes(s) THEN "REJECTED"
  ELSE "FAILED"

\* mark_state takes an import ledger with LANDED only, and no error with it.
Coherent(v, s, n) ==
  LET imported == \E a \in Files : n[a] /\ raw[a] = "LANDED"
  IN IF v = "LANDED" THEN imported /\ Outcomes(s) = {"landed"} ELSE ~imported

\* Mutant: the operation key does not tell one recovery from another.
KeyOf(v) == <<v, 0>>

Key(v) == <<v, Generation>>

\* The key replays, or the receipt is still open.
Writable(k) ==
  \/ k \in folded
  \/ receipt = "PROCESSING"
  \/ receipt = "RECEIVED" /\ k[1] # "LANDED"

\* reconcile_receipt: what the transaction will write, if it can; empty when it
\* raises.
Fold(j, s, n) ==
  LET v == Verdict(j, s)
  IN IF ~Settled(j) \/ Outcomes(s) = {"observed"} THEN {<<"wait", 0>>}
     ELSE {k \in {Key(v)} : Coherent(v, s, n) /\ Writable(k)}

Overlaps(w) == \E v \in Workers \ {w} : At(v, "commit")

\* The job is written, the receipt about to be.
Writes(w, to, fold) ==
  /\ worker' = [worker EXCEPT ![w].pc = "commit", ![w].to = to, ![w].fold = fold]
  /\ race' = IF race = "none" /\ Overlaps(w) THEN "overlap" ELSE race
  /\ UNCHANGED faults

\* Mutant: whatever the processing answers is stored.
FinishUnchecked(w) ==
  LET a == File(w)
      to == IF job[a] # "RUNNING" THEN "keep" ELSE "SUCCEEDED"
  IN /\ At(w, "finish") /\ ~Locked(a)
     /\ Writes(w, to, <<"wait", 0>>)
     /\ UNCHANGED <<receiptVars, jobVars, raw>>

\* finish_job moves a running row only; its status column has a CHECK.
Finish(w) ==
  LET a == File(w)
      to == IF job[a] # "RUNNING" THEN "keep"
            ELSE IF worker[w].status = "rejected" THEN "REJECTED" ELSE "SUCCEEDED"
      moves == to # "keep"
      fold == Fold([job EXCEPT ![a] = IF moves THEN to ELSE @],
                   [said EXCEPT ![a] = IF moves THEN worker[w].status ELSE @],
                   [names EXCEPT ![a] = IF moves THEN worker[w].named ELSE @])
  IN /\ At(w, "finish") /\ ~Locked(a)
     /\ IF fold = {} \/ (moves /\ worker[w].status \notin Statuses)
          THEN Fails(w) /\ UNCHANGED seen
          ELSE \E k \in fold : Writes(w, to, k)
     /\ UNCHANGED <<receiptVars, jobVars, raw>>

\* The connection is lost before it commits.
FinishLost(w) ==
  /\ At(w, "finish")
  /\ Fails(w) /\ Loses
  /\ UNCHANGED <<receiptVars, jobVars, raw>>

\* Mutant: no trigger keeps a row that is over from being moved.
RetryAnyRow(w) ==
  /\ At(w, "failing") /\ ~Locked(File(w)) /\ ~Exhausted(File(w))
  /\ job' = [job EXCEPT ![File(w)] = "RETRY_WAIT"]
  /\ Rests(w)
  /\ UNCHANGED <<receiptVars, tries, recoveries, said, names, raw, seen>>

\* fail_attempt; of a row that is no longer running the trigger keeps the state.
Retry(w) ==
  /\ At(w, "failing") /\ ~Locked(File(w))
  /\ job[File(w)] # "RUNNING" \/ ~Exhausted(File(w))
  /\ job' = [job EXCEPT ![File(w)] = IF @ = "RUNNING" THEN "RETRY_WAIT" ELSE @]
  /\ Rests(w)
  /\ UNCHANGED <<receiptVars, tries, recoveries, said, names, raw, seen>>

\* ... the last one, with its fold: what the fold raises nobody catches.
GiveUp(w) ==
  LET a == File(w)
      fold == Fold([job EXCEPT ![a] = "DEAD_LETTER"], said, names)
  IN /\ At(w, "failing") /\ ~Locked(a) /\ job[a] = "RUNNING" /\ Exhausted(a)
     /\ IF fold = {} THEN Rests(w) /\ UNCHANGED seen
                     ELSE \E k \in fold : Writes(w, "DEAD_LETTER", k)
     /\ UNCHANGED <<receiptVars, jobVars, raw>>

Commit(w) ==
  LET a == File(w)
      k == worker[w].fold
      told == worker[w].to \in {"SUCCEEDED", "REJECTED"}
  IN /\ At(w, "commit") /\ (k[1] = "wait" \/ Writable(k))
     /\ job' = [job EXCEPT ![a] = IF worker[w].to = "keep" THEN @ ELSE worker[w].to]
     /\ said' = [said EXCEPT ![a] = IF told THEN worker[w].status ELSE @]
     /\ names' = [names EXCEPT ![a] = IF told THEN worker[w].named ELSE @]
     /\ IF k[1] = "wait" \/ k \in folded
          THEN UNCHANGED <<receipt, folded>>
          ELSE receipt' = k[1] /\ folded' = folded \cup {k}
     /\ Rests(w)
     /\ UNCHANGED <<opened, tries, recoveries, raw, seen>>

\* The receipt was ended meanwhile: everything rolls back.
CommitRaises(w) ==
  /\ At(w, "commit") /\ worker[w].fold[1] # "wait" /\ ~Writable(worker[w].fold)
  /\ IF worker[w].to = "DEAD_LETTER" THEN Rests(w) ELSE Fails(w)
  /\ UNCHANGED <<receiptVars, jobVars, raw, seen>>

\* The process dies, or its request is cut off: what it had not committed is gone.
Die(w) ==
  /\ ~At(w, "idle")
  /\ Rests(w) /\ Loses
  /\ UNCHANGED <<receiptVars, jobVars, raw>>

(***************************************************************************)
(* The specification.                                                      *)
(***************************************************************************)
Advance(w) ==
  \/ Open(w) \/ MustRetry(w) \/ AlreadyOver(w) \/ Refuse(w) \/ FileFails(w)
  \/ Intend(w) \/ Accept(w) \/ Ingest(w) \/ IngestUncertain(w)
  \/ Unexpected(w) \/ Finish(w) \/ Retry(w) \/ GiveUp(w) \/ Commit(w)
  \/ CommitRaises(w)

Fault(w) == UnexpectedLost(w) \/ FinishLost(w) \/ Die(w)

Next ==
  \/ EnqueueManifest
  \/ \E w \in Workers : Advance(w) \/ Fault(w)
  \/ \E a \in Files : Claim(a) \/ Sweep(a) \/ Recover(a)

Spec == Init /\ [][Next]_vars

\* The requests under way go on, some of them at least; a claimable job gets a task
\* from the bridge, from the retries of Cloud Tasks or from the five-minute
\* reconciliation, which also sweeps.
Fairness ==
  /\ WF_vars(\E w \in Workers : Advance(w))
  /\ WF_vars(\E a \in Files : Claim(a))
  /\ WF_vars(\E a \in Files : Sweep(a))

FairSpec == Spec /\ Fairness

(***************************************************************************)
(* Properties.                                                             *)
(***************************************************************************)
Pcs == {"idle", "open", "file", "scan", "ingest", "finish", "failing", "commit"}
Keys == {"LANDED", "REJECTED", "FAILED"} \X Nat

\* Every row holds a value its CHECKs accept, the evidence of a dead letter
\* included.
TypeOK ==
  /\ receipt \in {"RECEIVED", "PROCESSING"} \cup ReceiptTerminal
  /\ opened \in BOOLEAN /\ folded \subseteq Keys
  /\ job \in [Files -> {"absent", "QUEUED", "RUNNING", "RETRY_WAIT"} \cup JobSettled]
  /\ tries \in [Files -> 0..MaxAttempts] /\ recoveries \in [Files -> 0..MaxRecoveries]
  /\ \A a \in Files : job[a] = "DEAD_LETTER" => tries[a] = MaxAttempts
  /\ said \in [Files -> Statuses \cup {"none"}] /\ names \in [Files -> BOOLEAN]
  /\ raw \in [Files -> {"RECEIVED", "SCANNING", "ACCEPTED"} \cup RawTerminal]
  /\ \A w \in Workers : worker[w].pc \in Pcs /\ File(w) \in Files \cup {NoFile}
  /\ faults \in 0..MaxFaults /\ race \in {"none", "overlap", "crossed"}

\* A receipt that is over has no job left to do, whatever late workers, sweeps and
\* recoveries still write, unless a recovery crossed a fold under way.
ReceiptOverJobsOver ==
  receipt \in ReceiptTerminal /\ race # "crossed" => Settled(job)

\* What a job says is what became of its file, even when it was the worker of an
\* earlier attempt that said it.
JobTellsFile ==
  \A a \in Files :
    /\ job[a] = "SUCCEEDED" /\ said[a] = "landed" => raw[a] = "LANDED"
    /\ job[a] = "REJECTED" => raw[a] = "REJECTED"

\* Once its jobs are over the receipt tells their sum, after any number of retries
\* and recoveries: LANDED when every job says so, and an end when no file landed and
\* no attempt was lost.  Two attempts that ended together may leave it open.
ReceiptTellsJobs ==
  Settled(job) /\ race = "none" =>
    /\ Outcomes(said) = {"landed"} => receipt = "LANDED"
    /\ faults = 0 /\ Outcomes(said) # {"observed"} /\ (\A a \in Files : raw[a] # "LANDED")
         => receipt \in ReceiptTerminal

\* The evidence stands: a file or a job that is over is not moved by a worker of
\* a lost attempt, and a receipt is reopened by the recovery of a dead letter only.
EvidenceStands ==
  [][/\ \A a \in Files : raw[a] \in RawTerminal => raw'[a] = raw[a]
     /\ \A a \in Files : job[a] \in {"SUCCEEDED", "REJECTED"} => job'[a] = job[a]
     /\ receipt \in ReceiptTerminal /\ receipt' # receipt =>
          \E a \in Files : job[a] = "DEAD_LETTER" /\ recoveries'[a] > recoveries[a]]_vars

\* From a queued file on, all the files of the delivery come to be settled together,
\* however many of their workers are lost; operators recover a bounded number of
\* times.
JobsSettle == (\E a \in Files : job[a] = "QUEUED") ~> Settled(job)

\* "if ANY attachment landed, the delivery landed -- because it did, and saying
\* otherwise would hide real data that is now queryable" (inbound_processing.py:
\* 1426-1428).
LandedIsSaid ==
  Settled(job) /\ (\E a \in Files : raw[a] = "LANDED") /\ ~Folding => receipt = "LANDED"
=============================================================================
