--------------------------- MODULE InboundProofs ---------------------------
(***************************************************************************)
(* The files of a delivery, for any number of files, scan workers, lost    *)
(* attempts and recoveries: a receipt that is over has no job left to do,  *)
(* a job tells what became of its file, what is over stays over, and the   *)
(* receipt tells the sum of its jobs.  Most steps leave alone the jobs     *)
(* that are over and those whose end is being committed (lemma Aside); the *)
(* others write, commit, or recover.  The sum of the receipt needs a       *)
(* second invariant, of what the worker that commits has read (Foresees)   *)
(* and of the generations that were folded (Counted).                      *)
(***************************************************************************)
EXTENDS Inbound, FiniteSetTheorems, TLAPS

-----------------------------------------------------------------------------
(* The inductive invariant.                                                *)

Reported == Statuses \cup {"none", "reconcile_required"}
JobStates == {"absent", "QUEUED", "RUNNING", "RETRY_WAIT"} \cup JobSettled
RawStates == {"RECEIVED", "SCANNING", "ACCEPTED"} \cup RawTerminal

Tasks ==
  [pc : Pcs, file : Files \cup {NoFile}, status : Reported, named : BOOLEAN,
   to : {"keep", "SUCCEEDED", "REJECTED", "DEAD_LETTER"},
   fold : ({"wait"} \cup ReceiptTerminal) \X Nat]

Rows ==
  /\ receipt \in {"RECEIVED", "PROCESSING"} \cup ReceiptTerminal
  /\ job \in [Files -> JobStates]
  /\ recoveries \in [Files -> Nat]
  /\ said \in [Files -> Reported]
  /\ raw \in [Files -> RawStates]
  /\ worker \in [Workers -> Tasks]

\* A task knows its file, and what it will report is what became of the file; it
\* ends a job in the transaction it commits only.
Knows ==
  /\ \A w \in Workers : ~At(w, "commit") => worker[w].to = "keep"
  /\ \A w \in Workers : ~At(w, "idle") =>
       /\ File(w) \in Files
       /\ worker[w].status = "landed" => raw[File(w)] = "LANDED"
       /\ worker[w].status = "rejected" => raw[File(w)] = "REJECTED"
       /\ worker[w].to = "REJECTED" => worker[w].status = "rejected"

\* Whoever commits the end of a job holds the row alone, and it is running.
Locks ==
  \A w \in Workers : At(w, "commit") /\ worker[w].to # "keep" =>
    /\ job[File(w)] = "RUNNING"
    /\ \A v \in Workers :
         At(v, "commit") /\ worker[v].to # "keep" /\ File(v) = File(w) => v = w

\* Whoever commits an end of the receipt saw the other jobs over, and they are
\* still over unless a recovery crossed it.
Folds ==
  \A w \in Workers : At(w, "commit") /\ worker[w].fold[1] # "wait" /\ race # "crossed" =>
    \A a \in Files : job[a] \in JobSettled \/ (a = File(w) /\ worker[w].to # "keep")

IInv == Rows /\ Knows /\ Locks /\ Folds /\ JobTellsFile /\ ReceiptOverJobsOver

\* What EvidenceStands says of one step.
Stands ==
  /\ \A a \in Files : raw[a] \in RawTerminal => raw'[a] = raw[a]
  /\ \A a \in Files : job[a] \in {"SUCCEEDED", "REJECTED"} => job'[a] = job[a]
  /\ receipt \in ReceiptTerminal /\ receipt' # receipt =>
       \E a \in Files : job[a] = "DEAD_LETTER" /\ recoveries'[a] > recoveries[a]

-----------------------------------------------------------------------------
(* The states and the steps that end no job and no receipt.                *)

\* What recoveries count is a number, the same while no job is recovered.
LEMMA GenerationCounts ==
  /\ Generation \in Nat
  /\ UNCHANGED recoveries => Generation' = Generation
<1>1. IsFiniteSet(Files) /\ MaxRecoveries \in Nat
  BY InboundAssumption
<1>2. IsFiniteSet(1..MaxRecoveries)
  BY <1>1, FS_Interval
<1>3. IsFiniteSet(Files \X (1..MaxRecoveries))
  BY <1>1, <1>2, FS_Product
<1>4. IsFiniteSet(Recovered)
  BY <1>3, FS_Subset DEF Recovered
<1>5. Generation \in Nat
  BY <1>4, FS_CardinalityType DEF Generation
<1>6. UNCHANGED recoveries => Generation' = Generation
  BY DEF Generation, Recovered
<1> QED BY <1>5, <1>6

\* A task at rest has nothing to report and nothing to commit.
LEMMA AtRest ==
  /\ Rest \in Tasks /\ Rest.pc = "idle" /\ Rest.file = NoFile
  /\ Rest.status = "none" /\ Rest.to = "keep"
BY DEF Rest, Tasks, Pcs, Reported

\* The receipt and its files as the delivery wrote them.
LEMMA InitOK == Init => IInv
<1> SUFFICES ASSUME Init PROVE IInv
  OBVIOUS
<1> USE DEF Init
<1>1. Rows
  BY AtRest DEF Rows, JobStates, Reported, RawStates
<1>2. Knows /\ Locks /\ Folds
  BY AtRest DEF Knows, Locks, Folds, At
<1>3. JobTellsFile /\ ReceiptOverJobsOver
  BY DEF JobTellsFile, ReceiptOverJobsOver, ReceiptTerminal
<1> QED BY <1>1, <1>2, <1>3 DEF IInv

\* A step that moves no row that is over or being committed, reports no more than
\* the truth and opens the receipt at most.
LEMMA Aside ==
  ASSUME IInv, Rows',
         \A a \in Files : raw[a] \in RawTerminal => raw'[a] = raw[a],
         \A a \in Files : job'[a] # job[a] =>
           job[a] \notin JobSettled /\ ~Locked(a) /\ job'[a] \notin {"SUCCEEDED", "REJECTED"},
         receipt' \in ReceiptTerminal \/ receipt \in ReceiptTerminal => receipt' = receipt,
         \A w \in Workers : worker'[w] = worker[w]
           \/ /\ worker'[w].pc # "commit" /\ worker'[w].to = "keep"
              /\ worker'[w].pc # "idle" =>
                   /\ worker'[w].file \in Files
                   /\ worker'[w].status = "landed" => raw'[worker'[w].file] = "LANDED"
                   /\ worker'[w].status = "rejected" => raw'[worker'[w].file] = "REJECTED",
         race' = race, UNCHANGED said
  PROVE  IInv' /\ Stands
<1> USE DEF At, File
<1>0. Rows /\ Knows /\ Locks /\ Folds /\ JobTellsFile /\ ReceiptOverJobsOver
  BY DEF IInv
<1>1. Knows'
  BY <1>0 DEF Knows, RawTerminal
<1>2. ASSUME NEW w \in Workers, worker'[w].pc = "commit"
      PROVE  /\ worker[w].pc = "commit" /\ worker'[w] = worker[w]
             /\ worker[w].to # "keep" => job'[File(w)] = job[File(w)]
  <2>1. worker'[w] = worker[w]
    BY <1>2
  <2>2. worker[w].to # "keep" => Locked(worker[w].file) /\ worker[w].file \in Files
    BY <1>0, <1>2, <2>1 DEF Locked, Knows
  <2> QED BY <1>2, <2>1, <2>2
<1>3. Locks'
  BY <1>0, <1>2 DEF Locks
<1>4. \A a \in Files : job[a] \in JobSettled => job'[a] \in JobSettled
  OBVIOUS
<1>5. Folds'
  BY <1>0, <1>2, <1>4 DEF Folds
<1>6. JobTellsFile'
  BY <1>0 DEF JobTellsFile, RawTerminal
<1>7. ReceiptOverJobsOver'
  BY <1>0, <1>4 DEF ReceiptOverJobsOver, Settled
<1>8. Stands
  BY DEF Stands, JobSettled
<1> QED BY <1>1, <1>3, <1>5, <1>6, <1>7, <1>8 DEF IInv

\* A step of one task, which stays with its file or rests.
LEMMA TaskStep ==
  ASSUME IInv, NEW w \in Workers, ~At(w, "idle"),
         NEW x \in Tasks, worker' = [worker EXCEPT ![w] = x],
         x.pc # "commit", x.to = "keep",
         x.pc # "idle" =>
           /\ x.file = File(w)
           /\ x.status = "landed" => raw'[File(w)] = "LANDED"
           /\ x.status = "rejected" => raw'[File(w)] = "REJECTED",
         raw' \in [Files -> RawStates],
         \A a \in Files : raw[a] \in RawTerminal => raw'[a] = raw[a],
         receipt' # receipt => receipt \notin ReceiptTerminal /\ receipt' = "PROCESSING",
         job' \in [Files -> JobStates],
         \A a \in Files : job'[a] # job[a] =>
           job[a] \notin JobSettled /\ ~Locked(a) /\ job'[a] \notin {"SUCCEEDED", "REJECTED"},
         race' = race, UNCHANGED <<said, recoveries>>
  PROVE  IInv' /\ Stands
<1>0. Rows /\ Knows
  BY DEF IInv
<1>1. /\ worker' \in [Workers -> Tasks]
      /\ worker'[w] = x
      /\ \A v \in Workers : v # w => worker'[v] = worker[v]
  BY <1>0 DEF Rows
<1>2. Rows'
  BY <1>0, <1>1 DEF Rows
<1>3. File(w) \in Files
  BY <1>0 DEF Knows
<1>4. \A v \in Workers : worker'[v] = worker[v]
        \/ /\ worker'[v].pc # "commit" /\ worker'[v].to = "keep"
           /\ worker'[v].pc # "idle" =>
                /\ worker'[v].file \in Files
                /\ worker'[v].status = "landed" => raw'[worker'[v].file] = "LANDED"
                /\ worker'[v].status = "rejected" => raw'[worker'[v].file] = "REJECTED"
  BY <1>1, <1>3
<1>5. receipt' \in ReceiptTerminal \/ receipt \in ReceiptTerminal => receipt' = receipt
  BY DEF ReceiptTerminal
<1> QED BY <1>2, <1>4, <1>5, Aside

\* A step of a task that moves neither a job nor a receipt.
LEMMA FileStep ==
  ASSUME IInv, NEW w \in Workers, ~At(w, "idle"),
         NEW x \in Tasks, worker' = [worker EXCEPT ![w] = x],
         x.pc # "commit", x.to = "keep",
         x.pc # "idle" =>
           /\ x.file = File(w)
           /\ x.status = "landed" => raw'[File(w)] = "LANDED"
           /\ x.status = "rejected" => raw'[File(w)] = "REJECTED",
         NEW r \in RawStates, raw' = [raw EXCEPT ![File(w)] = r],
         raw[File(w)] \in RawTerminal => r = raw[File(w)],
         UNCHANGED <<receipt, job, said, recoveries, race>>
  PROVE  IInv' /\ Stands
<1>0. Rows /\ Knows
  BY DEF IInv
<1>1. /\ raw' \in [Files -> RawStates]
      /\ \A a \in Files : raw[a] \in RawTerminal => raw'[a] = raw[a]
  BY <1>0 DEF Rows
<1>2. /\ job' \in [Files -> JobStates]
      /\ \A a \in Files : job'[a] # job[a] =>
           job[a] \notin JobSettled /\ ~Locked(a) /\ job'[a] \notin {"SUCCEEDED", "REJECTED"}
  BY <1>0 DEF Rows
<1>3. /\ receipt' # receipt => receipt \notin ReceiptTerminal /\ receipt' = "PROCESSING"
      /\ race' = race /\ UNCHANGED <<said, recoveries>>
  OBVIOUS
<1> QED BY <1>1, <1>2, <1>3, TaskStep

\* The tasks that stay with their file, and those that give it up.
LEMMA Going ==
  ASSUME Rows, NEW w \in Workers, NEW pc \in Pcs, Goes(w, pc)
  PROVE  \E x \in Tasks :
           /\ worker' = [worker EXCEPT ![w] = x]
           /\ x.pc = pc /\ x.file = File(w) /\ x.status = worker[w].status /\ x.to = worker[w].to
<1> DEFINE x == [worker[w] EXCEPT !.pc = pc]
<1>1. worker[w] \in Tasks
  BY DEF Rows
<1>2. x \in Tasks /\ x.pc = pc /\ x.file = File(w) /\ x.status = worker[w].status /\ x.to = worker[w].to
  BY <1>1 DEF Tasks, File
<1>3. worker' = [worker EXCEPT ![w] = x]
  BY DEF Goes
<1> HIDE DEF x
<1> QED BY <1>2, <1>3

\* A task that has its answer.
LEMMA Reporting ==
  ASSUME Rows, NEW w \in Workers, NEW s \in Reported, NEW n \in BOOLEAN, Reports(w, s, n)
  PROVE  \E x \in Tasks :
           /\ worker' = [worker EXCEPT ![w] = x]
           /\ x.pc = "finish" /\ x.file = File(w) /\ x.status = s /\ x.to = worker[w].to
<1> DEFINE x == [worker[w] EXCEPT !.pc = "finish", !.status = s, !.named = n]
<1>1. worker[w] \in Tasks
  BY DEF Rows
<1>2. x \in Tasks /\ x.pc = "finish" /\ x.file = File(w) /\ x.status = s /\ x.to = worker[w].to
  BY <1>1 DEF Tasks, File, Pcs
<1>3. worker' = [worker EXCEPT ![w] = x]
  BY DEF Reports
<1> HIDE DEF x
<1> QED BY <1>2, <1>3

\* A task whose attempt failed.
LEMMA Failing ==
  ASSUME Rows, NEW w \in Workers, Fails(w)
  PROVE  \E x \in Tasks :
           /\ worker' = [worker EXCEPT ![w] = x]
           /\ x.pc = "failing" /\ x.file = File(w) /\ x.status = "none" /\ x.to = "keep"
<1> DEFINE x == [Rest EXCEPT !.pc = "failing", !.file = File(w)]
<1>1. worker[w] \in Tasks
  BY DEF Rows
<1>2. x \in Tasks /\ x.pc = "failing" /\ x.file = File(w) /\ x.status = "none" /\ x.to = "keep"
  BY <1>1, AtRest DEF Tasks, File, Pcs
<1>3. worker' = [worker EXCEPT ![w] = x]
  BY DEF Fails
<1> HIDE DEF x
<1> QED BY <1>2, <1>3

-----------------------------------------------------------------------------
(* The steps of process_inbound_delivery and of the queue.                 *)

\* What a task knows where it stands.
LEMMA Standing ==
  ASSUME IInv, NEW w \in Workers, ~At(w, "idle")
  PROVE  /\ Rows /\ File(w) \in Files /\ raw[File(w)] \in RawStates
         /\ worker[w] \in Tasks
         /\ worker[w].status = "landed" => raw[File(w)] = "LANDED"
         /\ worker[w].status = "rejected" => raw[File(w)] = "REJECTED"
         /\ ~At(w, "commit") => worker[w].to = "keep"
BY DEF IInv, Knows, Rows

\* The processing opens the receipt, or finds it over.
LEMMA OpenStep ==
  ASSUME IInv, NEW w \in Workers, Open(w)
  PROVE  IInv' /\ Stands
<1>0. ~At(w, "idle") /\ ~At(w, "commit")
  BY DEF Open, At
<1>1. /\ Rows /\ worker[w].to = "keep" /\ File(w) \in Files
      /\ worker[w].status = "landed" => raw[File(w)] = "LANDED"
      /\ worker[w].status = "rejected" => raw[File(w)] = "REJECTED"
  BY <1>0, Standing
<1>2. PICK x \in Tasks :
        /\ worker' = [worker EXCEPT ![w] = x]
        /\ x.pc # "commit" /\ x.to = "keep" /\ x.pc # "idle" /\ x.file = File(w)
        /\ x.status \in {worker[w].status, "duplicate", "none"}
  <2>1. CASE Reports(w, "duplicate", FALSE)
    <3>1. "duplicate" \in Reported
      BY DEF Reported, Statuses
    <3>2. ASSUME NEW n \in BOOLEAN, Reports(w, "duplicate", n)
          PROVE  \E x \in Tasks :
                   /\ worker' = [worker EXCEPT ![w] = x]
                   /\ x.pc = "finish" /\ x.file = File(w)
                   /\ x.status = "duplicate" /\ x.to = worker[w].to
      BY <1>1, <3>1, <3>2, Reporting
    <3> QED BY <1>1, <2>1, <3>2
  <2>2. CASE Goes(w, "file")
    <3>1. "file" \in Pcs
      BY DEF Pcs
    <3> QED BY <1>1, <2>2, <3>1, Going
  <2>3. CASE Fails(w)
    BY <1>1, <2>3, Failing
  <2> QED BY <2>1, <2>2, <2>3 DEF Open
<1>3. /\ UNCHANGED <<job, said, recoveries, raw, race>>
      /\ receipt' # receipt => receipt \notin ReceiptTerminal /\ receipt' = "PROCESSING"
  BY DEF Open, jobVars, receiptVars, seen, ReceiptTerminal
<1>4. /\ raw' \in [Files -> RawStates] /\ \A a \in Files : raw[a] \in RawTerminal => raw'[a] = raw[a]
      /\ job' \in [Files -> JobStates] /\ \A a \in Files : job'[a] = job[a]
  BY <1>1, <1>3 DEF Rows
<1>5. x.pc # "idle" =>
        /\ x.file = File(w)
        /\ x.status = "landed" => raw'[File(w)] = "LANDED"
        /\ x.status = "rejected" => raw'[File(w)] = "REJECTED"
  BY <1>1, <1>2, <1>3
<1> QED BY <1>0, <1>2, <1>3, <1>4, <1>5, TaskStep

\* An attempt that ends without having written anything.
LEMMA NothingWritten ==
  ASSUME IInv, NEW w \in Workers, ~At(w, "idle"), Fails(w) \/ Rests(w),
         UNCHANGED <<receipt, job, said, recoveries, raw, race>>
  PROVE  IInv' /\ Stands
<1>1. Rows /\ File(w) \in Files
  BY Standing
<1>2. PICK x \in Tasks :
        /\ worker' = [worker EXCEPT ![w] = x]
        /\ x.pc # "commit" /\ x.to = "keep" /\ x.status = "none"
        /\ x.pc # "idle" => x.file = File(w)
  <2>1. CASE Fails(w)
    BY <1>1, <2>1, Failing
  <2>2. CASE Rests(w)
    BY <2>2, AtRest DEF Rests
  <2> QED BY <2>1, <2>2
<1>3. /\ raw' \in [Files -> RawStates] /\ \A a \in Files : raw[a] \in RawTerminal => raw'[a] = raw[a]
      /\ job' \in [Files -> JobStates] /\ \A a \in Files : job'[a] = job[a]
  BY <1>1 DEF Rows
<1> QED BY <1>2, <1>3, TaskStep

\* Workers that cannot go on, lose their connection, roll back or die.
LEMMA AttemptEnds ==
  ASSUME IInv, NEW w \in Workers,
         MustRetry(w) \/ FinishLost(w) \/ CommitRaises(w) \/ Die(w)
  PROVE  IInv' /\ Stands
<1>1. ~At(w, "idle") /\ (Fails(w) \/ Rests(w))
  BY DEF MustRetry, FinishLost, CommitRaises, Die, At
<1>2. UNCHANGED <<receipt, job, said, recoveries, raw, race>>
  BY DEF MustRetry, FinishLost, CommitRaises, Die, Loses, jobVars, receiptVars, seen
<1> QED BY <1>1, <1>2, NothingWritten

\* The attempt that is given back to the queue; the end of a row is not touched.
LEMMA RetryStep ==
  ASSUME IInv, NEW w \in Workers, Retry(w)
  PROVE  IInv' /\ Stands
<1>0. ~At(w, "idle")
  BY DEF Retry, At
<1>1. Rows /\ File(w) \in Files
  BY <1>0, Standing
<1>2. worker' = [worker EXCEPT ![w] = Rest]
  BY DEF Retry, Rests
<1>3. /\ job' \in [Files -> JobStates]
      /\ \A a \in Files : job'[a] # job[a] =>
           job[a] \notin JobSettled /\ ~Locked(a) /\ job'[a] \notin {"SUCCEEDED", "REJECTED"}
  BY <1>1 DEF Retry, Rows, JobStates, JobSettled
<1>4. UNCHANGED <<receipt, said, recoveries, raw, race>>
  BY DEF Retry, receiptVars, seen
<1>5. raw' \in [Files -> RawStates] /\ \A a \in Files : raw[a] \in RawTerminal => raw'[a] = raw[a]
  BY <1>1, <1>4 DEF Rows
<1> QED BY <1>0, <1>2, <1>3, <1>4, <1>5, AtRest, TaskStep

\* The steps of _process_one_attachment: the file moves on, or is over.
LEMMA FileSteps ==
  ASSUME IInv, NEW w \in Workers,
         \/ AlreadyOver(w) \/ Refuse(w) \/ FileFails(w) \/ Intend(w) \/ Accept(w)
         \/ Ingest(w) \/ IngestUncertain(w) \/ Unexpected(w) \/ UnexpectedLost(w)
  PROVE  IInv' /\ Stands
<1>0. ~At(w, "idle") /\ ~At(w, "commit")
  BY DEF AlreadyOver, Refuse, FileFails, Intend, Accept, Ingest, IngestUncertain,
         Unexpected, UnexpectedLost, At
<1>1. /\ Rows /\ worker[w].to = "keep" /\ File(w) \in Files /\ raw[File(w)] \in RawStates
      /\ raw = [raw EXCEPT ![File(w)] = raw[File(w)]]
      /\ worker[w].status = "landed" => raw[File(w)] = "LANDED"
      /\ worker[w].status = "rejected" => raw[File(w)] = "REJECTED"
  BY <1>0, Standing DEF Rows
<1>2. UNCHANGED <<receipt, job, said, recoveries, race>>
  BY DEF AlreadyOver, Refuse, FileFails, Intend, Accept, Ingest, IngestUncertain,
         Unexpected, UnexpectedLost, Loses, receiptVars, jobVars, seen
<1>3. /\ {"landed", "observed", "rejected", "failed", "duplicate", "reconcile_required"} \subseteq Reported
      /\ {"RECEIVED", "SCANNING", "ACCEPTED", "LANDED", "REJECTED", "FAILED"} = RawStates
      /\ {"LANDED", "REJECTED", "FAILED"} = RawTerminal
      /\ {"scan", "ingest"} \subseteq Pcs
  BY DEF Reported, Statuses, RawStates, RawTerminal, Pcs
<1>4. ASSUME NEW r \in RawStates, raw' = [raw EXCEPT ![File(w)] = r],
             raw[File(w)] \in RawTerminal => r = raw[File(w)],
             NEW s \in Reported, NEW n \in BOOLEAN, Reports(w, s, n),
             s = "landed" => r = "LANDED", s = "rejected" => r = "REJECTED"
      PROVE  IInv' /\ Stands
  <2>1. PICK x \in Tasks :
          /\ worker' = [worker EXCEPT ![w] = x]
          /\ x.pc = "finish" /\ x.file = File(w) /\ x.status = s /\ x.to = worker[w].to
    BY <1>1, <1>4, Reporting
  <2>2. raw'[File(w)] = r
    BY <1>1, <1>4 DEF Rows
  <2>3. /\ x.pc # "commit" /\ x.to = "keep"
        /\ x.pc # "idle" =>
             /\ x.file = File(w)
             /\ x.status = "landed" => raw'[File(w)] = "LANDED"
             /\ x.status = "rejected" => raw'[File(w)] = "REJECTED"
    BY <1>1, <1>4, <2>1, <2>2
  <2> QED BY <1>0, <1>2, <1>4, <2>1, <2>3, FileStep
<1>5. ASSUME NEW r \in RawStates, raw' = [raw EXCEPT ![File(w)] = r],
             raw[File(w)] \notin RawTerminal,
             NEW pc \in {"scan", "ingest"}, Goes(w, pc)
      PROVE  IInv' /\ Stands
  <2>0. pc \in Pcs
    BY <1>3
  <2>1. PICK x \in Tasks :
          /\ worker' = [worker EXCEPT ![w] = x]
          /\ x.pc = pc /\ x.file = File(w) /\ x.status = worker[w].status /\ x.to = worker[w].to
    BY <1>1, <1>5, <2>0, Going
  <2>2. /\ x.pc # "commit" /\ x.to = "keep"
        /\ x.pc # "idle" =>
             /\ x.file = File(w)
             /\ x.status = "landed" => raw'[File(w)] = "LANDED"
             /\ x.status = "rejected" => raw'[File(w)] = "REJECTED"
    BY <1>1, <1>3, <1>5, <2>1
  <2> QED BY <1>0, <1>2, <1>5, <2>1, <2>2, FileStep
<1>6. CASE AlreadyOver(w)
  <2>1. raw' = [raw EXCEPT ![File(w)] = raw[File(w)]] /\ Reports(w, "duplicate", TRUE)
    BY <1>1, <1>6 DEF AlreadyOver
  <2> QED BY <1>1, <1>3, <1>4, <2>1
<1>7. CASE Refuse(w)
  <2>1. /\ raw' = [raw EXCEPT ![File(w)] = "REJECTED"] /\ Reports(w, "rejected", TRUE)
        /\ raw[File(w)] \in RawTerminal => "REJECTED" = raw[File(w)]
    BY <1>7 DEF Refuse, Ends
  <2> QED BY <1>3, <1>4, <2>1
<1>8. CASE FileFails(w)
  <2>1. /\ raw' = [raw EXCEPT ![File(w)] = "FAILED"] /\ Reports(w, "failed", TRUE)
        /\ raw[File(w)] \in RawTerminal => "FAILED" = raw[File(w)]
    BY <1>8 DEF FileFails, Ends
  <2> QED BY <1>3, <1>4, <2>1
<1>9. CASE Intend(w)
  <2> DEFINE r == IF raw[File(w)] = "RECEIVED" THEN "SCANNING" ELSE raw[File(w)]
  <2>1. /\ raw' = [raw EXCEPT ![File(w)] = r] /\ Goes(w, "scan")
        /\ raw[File(w)] \notin RawTerminal
    BY <1>1, <1>9 DEF Intend
  <2>2. r \in RawStates
    BY <1>1, <1>3
  <2> HIDE DEF r
  <2> QED BY <1>5, <2>1, <2>2
<1>10. CASE Accept(w)
  <2>1. /\ raw' = [raw EXCEPT ![File(w)] = "ACCEPTED"]
        /\ raw[File(w)] \notin RawTerminal
        /\ Goes(w, "ingest") \/ Reports(w, "observed", TRUE)
    BY <1>10 DEF Accept
  <2>2. CASE Goes(w, "ingest")
    BY <1>3, <1>5, <2>1, <2>2
  <2>3. CASE Reports(w, "observed", TRUE)
    BY <1>3, <1>4, <2>1, <2>3
  <2> QED BY <2>1, <2>2, <2>3
<1>11. CASE Ingest(w)
  <2>1. /\ raw' = [raw EXCEPT ![File(w)] = "LANDED"] /\ Reports(w, "landed", TRUE)
        /\ raw[File(w)] \in RawTerminal => "LANDED" = raw[File(w)]
    BY <1>11 DEF Ingest, Ends
  <2> QED BY <1>3, <1>4, <2>1
<1>12. CASE IngestUncertain(w)
  <2>1. raw' = [raw EXCEPT ![File(w)] = raw[File(w)]] /\ Reports(w, "reconcile_required", TRUE)
    BY <1>1, <1>12 DEF IngestUncertain
  <2> QED BY <1>1, <1>3, <1>4, <2>1
<1>13. CASE Unexpected(w)
  <2> DEFINE r == IF raw[File(w)] \in RawTerminal THEN raw[File(w)] ELSE "FAILED"
  <2>1. /\ raw' = [raw EXCEPT ![File(w)] = r] /\ Reports(w, "failed", TRUE)
        /\ raw[File(w)] \in RawTerminal => r = raw[File(w)]
    BY <1>1, <1>13 DEF Unexpected
  <2>2. r \in RawStates
    BY <1>1, <1>3
  <2> HIDE DEF r
  <2> QED BY <1>3, <1>4, <2>1, <2>2
<1>14. CASE UnexpectedLost(w)
  <2>1. raw' = [raw EXCEPT ![File(w)] = raw[File(w)]] /\ Reports(w, "failed", FALSE)
    BY <1>1, <1>14 DEF UnexpectedLost
  <2> QED BY <1>1, <1>3, <1>4, <2>1
<1> QED BY <1>6, <1>7, <1>8, <1>9, <1>10, <1>11, <1>12, <1>13, <1>14

\* The steps of the queue: rows are inserted, claimed and swept.
LEMMA QueueSteps ==
  ASSUME IInv, EnqueueManifest \/ \E a \in Files : Claim(a) \/ Sweep(a)
  PROVE  IInv' /\ Stands
<1>0. Rows /\ Locks
  BY DEF IInv
<1>1. UNCHANGED <<receipt, said, recoveries, raw, race>>
  BY DEF EnqueueManifest, Claim, Sweep, Loses, receiptVars, seen
<1>2. \A a \in Files : Locked(a) => job[a] = "RUNNING"
  BY <1>0 DEF Locks, Locked
<1>3. /\ job' \in [Files -> JobStates]
      /\ \A a \in Files : job'[a] # job[a] =>
           job[a] \notin JobSettled /\ ~Locked(a) /\ job'[a] \notin {"SUCCEEDED", "REJECTED"}
  <2>1. CASE EnqueueManifest
    BY <1>0, <1>2, <2>1 DEF EnqueueManifest, Rows, JobStates, JobSettled
  <2>2. CASE \E a \in Files : Claim(a)
    BY <1>0, <1>2, <2>2 DEF Claim, Rows, JobStates, JobSettled
  <2>3. CASE \E a \in Files : Sweep(a)
    BY <1>0, <1>2, <2>3 DEF Sweep, Lost, Rows, JobStates, JobSettled
  <2> QED BY <2>1, <2>2, <2>3
<1>4. /\ worker' \in [Workers -> Tasks]
      /\ \A w \in Workers : worker'[w] # worker[w] =>
           /\ worker'[w].pc = "open" /\ worker'[w].file \in Files
           /\ worker'[w].status = "none" /\ worker'[w].to = "keep"
  <2>1. CASE EnqueueManifest \/ \E a \in Files : Sweep(a)
    BY <1>0, <2>1 DEF EnqueueManifest, Sweep, Rows
  <2>2. CASE \E a \in Files : Claim(a)
    <3>1. PICK a \in Files : worker' = [worker EXCEPT ![Slot] = [Rest EXCEPT !.pc = "open", !.file = a]]
      BY <2>2 DEF Claim
    <3> DEFINE x == [Rest EXCEPT !.pc = "open", !.file = a]
    <3>2. x \in Tasks /\ x.pc = "open" /\ x.file = a /\ x.status = "none" /\ x.to = "keep"
      BY AtRest DEF Tasks, Pcs
    <3>3. worker' = [worker EXCEPT ![Slot] = x]
      BY <3>1
    <3> HIDE DEF x
    <3> QED BY <1>0, <3>2, <3>3 DEF Rows
  <2> QED BY <2>1, <2>2
<1>5. Rows'
  BY <1>0, <1>1, <1>3, <1>4 DEF Rows
<1>6. /\ \A a \in Files : raw[a] \in RawTerminal => raw'[a] = raw[a]
      /\ receipt' \in ReceiptTerminal \/ receipt \in ReceiptTerminal => receipt' = receipt
      /\ race' = race /\ UNCHANGED said
  BY <1>1
<1>7. \A w \in Workers : worker'[w] = worker[w]
        \/ /\ worker'[w].pc # "commit" /\ worker'[w].to = "keep"
           /\ worker'[w].pc # "idle" =>
                /\ worker'[w].file \in Files
                /\ worker'[w].status = "landed" => raw'[worker'[w].file] = "LANDED"
                /\ worker'[w].status = "rejected" => raw'[worker'[w].file] = "REJECTED"
  BY <1>4
<1> QED BY <1>3, <1>5, <1>6, <1>7, Aside

-----------------------------------------------------------------------------
(* The steps that recover a dead letter, and those that end a job.         *)

\* A recovery reopens the receipt, and counts as crossing whoever commits.
LEMMA RecoverStep ==
  ASSUME IInv, NEW a \in Files, Recover(a)
  PROVE  IInv' /\ Stands
<1>0. Rows /\ Knows /\ Locks /\ Folds /\ JobTellsFile
  BY DEF IInv
<1>1. /\ receipt' = "PROCESSING" /\ job' = [job EXCEPT ![a] = "QUEUED"]
      /\ job[a] = "DEAD_LETTER" /\ recoveries' = [recoveries EXCEPT ![a] = @ + 1]
      /\ UNCHANGED <<said, raw, worker>>
      /\ race' # "crossed" => ~Folding
  BY DEF Recover
<1>2. Rows'
  BY <1>0, <1>1 DEF Rows, JobStates
<1>3. Knows'
  BY <1>0, <1>1 DEF Knows, At, File
<1>4. Locks'
  BY <1>0, <1>1 DEF Locks, Knows, Rows, At, File
<1>5. Folds'
  BY <1>1 DEF Folds, Folding, At, File
<1>6. JobTellsFile'
  BY <1>0, <1>1 DEF JobTellsFile, Rows
<1>7. ReceiptOverJobsOver'
  BY <1>1 DEF ReceiptOverJobsOver, ReceiptTerminal
<1>8. Stands
  BY <1>0, <1>1 DEF Stands, Rows
<1> QED BY <1>2, <1>3, <1>4, <1>5, <1>6, <1>7, <1>8 DEF IInv

\* What the fold of the receipt can be.
LEMMA FoldSays ==
  ASSUME Rows, NEW j, NEW s, NEW n, NEW k \in Fold(j, s, n)
  PROVE  /\ k \in ({"wait"} \cup ReceiptTerminal) \X Nat
         /\ k[1] # "wait" => Settled(j)
<1>1. Generation \in Nat /\ 0 \in Nat
  BY GenerationCounts
<1>2. Verdict(j, s) \in ReceiptTerminal
  BY DEF Verdict, ReceiptTerminal
<1>3. CASE k = <<"wait", 0>>
  BY <1>1, <1>3
<1>4. CASE k # <<"wait", 0>>
  <2>1. Settled(j) /\ k = <<Verdict(j, s), Generation>>
    BY <1>4 DEF Fold, Key
  <2> QED BY <1>1, <1>2, <2>1
<1> QED BY <1>3, <1>4

\* The end of an attempt is written: the row is held until the commit.
LEMMA WritesStep ==
  ASSUME IInv, NEW w \in Workers, ~At(w, "idle"), ~At(w, "commit"), ~Locked(File(w)),
         NEW to \in {"keep", "SUCCEEDED", "REJECTED", "DEAD_LETTER"},
         NEW k \in ({"wait"} \cup ReceiptTerminal) \X Nat,
         Writes(w, to, k),
         to # "keep" => job[File(w)] = "RUNNING",
         to = "REJECTED" => worker[w].status = "rejected",
         k[1] # "wait" =>
           \A a \in Files : job[a] \in JobSettled \/ (a = File(w) /\ to # "keep"),
         UNCHANGED <<receiptVars, jobVars, raw>>
  PROVE  IInv' /\ Stands
<1>0. Rows /\ Knows /\ Locks /\ Folds /\ JobTellsFile /\ ReceiptOverJobsOver
  BY DEF IInv
<1>1. worker[w] \in Tasks /\ "commit" \in Pcs
  BY <1>0 DEF Rows, Pcs
<1> DEFINE x == [worker[w] EXCEPT !.pc = "commit", !.to = to, !.fold = k]
<1>2. /\ x \in Tasks /\ x.pc = "commit" /\ x.to = to /\ x.fold = k
      /\ x.file = File(w) /\ x.status = worker[w].status
  BY <1>1 DEF Tasks, File
<1>3. worker' = [worker EXCEPT ![w] = x]
  BY DEF Writes
<1> HIDE DEF x
<1>4. /\ worker' \in [Workers -> Tasks] /\ worker'[w] = x
      /\ \A v \in Workers : v # w => worker'[v] = worker[v]
  BY <1>0, <1>2, <1>3 DEF Rows
<1>5. UNCHANGED <<receipt, job, recoveries, said, raw>>
  BY DEF receiptVars, jobVars
<1>6. race' # "crossed" => race # "crossed"
  BY DEF Writes
<1>7. Rows'
  BY <1>0, <1>4, <1>5 DEF Rows
<1>8. Knows'
  BY <1>0, <1>2, <1>4, <1>5 DEF Knows, At, File
<1>9. Locks'
  BY <1>0, <1>2, <1>4, <1>5 DEF Locks, Locked, At, File
<1>10. Folds'
  BY <1>0, <1>2, <1>4, <1>5, <1>6 DEF Folds, At, File
<1>11. JobTellsFile' /\ ReceiptOverJobsOver'
  BY <1>0, <1>5, <1>6 DEF JobTellsFile, ReceiptOverJobsOver, Settled
<1>12. Stands
  BY <1>5 DEF Stands
<1> QED BY <1>7, <1>8, <1>9, <1>10, <1>11, <1>12 DEF IInv

\* finish_job and the fold, up to their commit.
LEMMA FinishStep ==
  ASSUME IInv, NEW w \in Workers, Finish(w)
  PROVE  IInv' /\ Stands
<1> DEFINE a == File(w)
           to == IF job[a] # "RUNNING" THEN "keep"
                 ELSE IF worker[w].status = "rejected" THEN "REJECTED" ELSE "SUCCEEDED"
           moves == to # "keep"
           j == [job EXCEPT ![a] = IF moves THEN to ELSE @]
           fold == Fold(j, [said EXCEPT ![a] = IF moves THEN worker[w].status ELSE @],
                           [names EXCEPT ![a] = IF moves THEN worker[w].named ELSE @])
<1>0. Rows /\ ~At(w, "idle") /\ ~At(w, "commit") /\ ~Locked(File(w))
  BY DEF IInv, Finish, At
<1>1. /\ UNCHANGED <<receiptVars, jobVars, raw>>
      /\ \/ Fails(w) /\ UNCHANGED seen
         \/ \E k \in fold : Writes(w, to, k)
  BY DEF Finish
<1>2. CASE Fails(w) /\ UNCHANGED seen
  <2>1. UNCHANGED <<receipt, job, said, recoveries, raw, race>>
    BY <1>1, <1>2 DEF receiptVars, jobVars, seen
  <2> QED BY <1>0, <1>2, <2>1, NothingWritten
<1>3. ASSUME NEW k \in fold, Writes(w, to, k)
      PROVE  IInv' /\ Stands
  <2>1. /\ k \in ({"wait"} \cup ReceiptTerminal) \X Nat
        /\ k[1] # "wait" => Settled(j)
    BY <1>0, <1>3, FoldSays
  <2>2. /\ to \in {"keep", "SUCCEEDED", "REJECTED", "DEAD_LETTER"}
        /\ to # "keep" => job[File(w)] = "RUNNING"
        /\ to = "REJECTED" => worker[w].status = "rejected"
    OBVIOUS
  <2>3. k[1] # "wait" =>
          \A b \in Files : job[b] \in JobSettled \/ (b = File(w) /\ to # "keep")
    BY <1>0, <2>1 DEF Settled, Rows
  <2> HIDE DEF to, fold, j
  <2> QED BY <1>0, <1>1, <1>3, <2>1, <2>2, <2>3, WritesStep
<1> QED BY <1>1, <1>2, <1>3

\* fail_attempt of the last attempt and the fold, up to their commit.
LEMMA GiveUpStep ==
  ASSUME IInv, NEW w \in Workers, GiveUp(w)
  PROVE  IInv' /\ Stands
<1> DEFINE j == [job EXCEPT ![File(w)] = "DEAD_LETTER"]
<1>0. Rows /\ ~At(w, "idle") /\ ~At(w, "commit") /\ ~Locked(File(w))
  BY DEF IInv, GiveUp, At
<1>1. /\ UNCHANGED <<receiptVars, jobVars, raw>> /\ job[File(w)] = "RUNNING"
      /\ \/ Rests(w) /\ UNCHANGED seen
         \/ \E k \in Fold(j, said, names) : Writes(w, "DEAD_LETTER", k)
  BY DEF GiveUp
<1>2. CASE Rests(w) /\ UNCHANGED seen
  <2>1. UNCHANGED <<receipt, job, said, recoveries, raw, race>>
    BY <1>1, <1>2 DEF receiptVars, jobVars, seen
  <2> QED BY <1>0, <1>2, <2>1, NothingWritten
<1>3. ASSUME NEW k \in Fold(j, said, names), Writes(w, "DEAD_LETTER", k)
      PROVE  IInv' /\ Stands
  <2>1. /\ k \in ({"wait"} \cup ReceiptTerminal) \X Nat
        /\ k[1] # "wait" => Settled(j)
    BY <1>0, <1>3, FoldSays
  <2>2. k[1] # "wait" =>
          \A b \in Files : job[b] \in JobSettled \/ (b = File(w) /\ "DEAD_LETTER" # "keep")
    BY <1>0, <2>1 DEF Settled, Rows
  <2> QED BY <1>0, <1>1, <1>3, <2>1, <2>2, WritesStep
<1> QED BY <1>1, <1>2, <1>3

\* The commit: the job it held is over, and so are the others when it ends the
\* receipt.
LEMMA CommitStep ==
  ASSUME IInv, NEW w \in Workers, Commit(w)
  PROVE  IInv' /\ Stands
<1> DEFINE a == File(w)
           to == worker[w].to
           k == worker[w].fold
<1>0. /\ Rows /\ Knows /\ Locks /\ Folds /\ JobTellsFile /\ ReceiptOverJobsOver
      /\ At(w, "commit") /\ ~At(w, "idle") /\ a \in Files
      /\ worker[w] \in Tasks
      /\ worker[w].status = "landed" => raw[a] = "LANDED"
      /\ worker[w].status = "rejected" => raw[a] = "REJECTED"
      /\ to = "REJECTED" => worker[w].status = "rejected"
      /\ to # "keep" => job[a] = "RUNNING"
  BY DEF IInv, Commit, At, File, Knows, Locks, Rows
<1>1. /\ to \in {"keep", "SUCCEEDED", "REJECTED", "DEAD_LETTER"}
      /\ worker[w].status \in Reported
      /\ k[1] \in {"wait"} \cup ReceiptTerminal
  BY <1>0 DEF Tasks
<1>2. /\ job' = [job EXCEPT ![a] = IF to = "keep" THEN @ ELSE to]
      /\ said' = [said EXCEPT ![a] = IF to \in {"SUCCEEDED", "REJECTED"} THEN worker[w].status ELSE @]
      /\ worker' = [worker EXCEPT ![w] = Rest]
      /\ UNCHANGED <<recoveries, raw, race>>
      /\ \/ receipt' = receipt
         \/ k[1] # "wait" /\ receipt' = k[1] /\ receipt \notin ReceiptTerminal
  BY DEF Commit, Rests, Writable, ReceiptTerminal, seen
<1> HIDE DEF to, k
<1>3. /\ worker' \in [Workers -> Tasks] /\ worker'[w] = Rest
      /\ \A v \in Workers : v # w => worker'[v] = worker[v]
  BY <1>0, <1>2, AtRest DEF Rows
<1>4. /\ \A b \in Files \ {a} : job'[b] = job[b] /\ said'[b] = said[b]
      /\ job'[a] = IF to = "keep" THEN job[a] ELSE to
      /\ said'[a] = IF to \in {"SUCCEEDED", "REJECTED"} THEN worker[w].status ELSE said[a]
      /\ job' \in [Files -> JobStates] /\ said' \in [Files -> Reported]
  BY <1>0, <1>1, <1>2 DEF Rows, JobStates, JobSettled
<1>5. Rows'
  BY <1>0, <1>1, <1>2, <1>3, <1>4 DEF Rows
<1>6. Knows'
  BY <1>0, <1>2, <1>3, AtRest DEF Knows, At, File
<1>7. ASSUME NEW v \in Workers, worker'[v].pc = "commit"
      PROVE  /\ v # w /\ worker[v].pc = "commit" /\ worker'[v] = worker[v]
             /\ worker[v].to # "keep" => job'[worker[v].file] = job[worker[v].file]
  <2>1. v # w /\ worker'[v] = worker[v]
    BY <1>3, <1>7, AtRest
  <2>2. worker[v].file = a => to = "keep" \/ worker[v].to = "keep"
    BY <1>0, <1>7, <2>1 DEF Locks, At, File, to
  <2>3. worker[v].file \in Files
    BY <1>0, <1>7, <2>1 DEF Knows, At, File
  <2> QED BY <1>4, <1>7, <2>1, <2>2, <2>3
<1>8. Locks'
  BY <1>0, <1>7 DEF Locks, At, File
<1>9. \A b \in Files : job[b] \in JobSettled => job'[b] \in JobSettled
  BY <1>1, <1>4 DEF JobSettled
<1>10. Folds'
  BY <1>0, <1>2, <1>7, <1>9 DEF Folds, At, File
<1>11. JobTellsFile'
  BY <1>0, <1>1, <1>2, <1>4 DEF JobTellsFile
<1>12. ReceiptOverJobsOver'
  <2> SUFFICES ASSUME receipt' \in ReceiptTerminal, race # "crossed", NEW b \in Files
               PROVE  job'[b] \in JobSettled
    BY <1>2 DEF ReceiptOverJobsOver, Settled
  <2>1. CASE receipt' = receipt
    BY <1>0, <1>9, <2>1 DEF ReceiptOverJobsOver, Settled
  <2>2. CASE k[1] # "wait"
    <3>1. job[b] \in JobSettled \/ (b = a /\ to # "keep")
      BY <1>0, <2>2 DEF Folds, k, to
    <3> QED BY <1>1, <1>4, <1>9, <3>1 DEF JobSettled
  <2> QED BY <1>2, <2>1, <2>2
<1>13. Stands
  BY <1>0, <1>2, <1>4 DEF Stands
<1> QED BY <1>5, <1>6, <1>8, <1>10, <1>11, <1>12, <1>13 DEF IInv

-----------------------------------------------------------------------------
(* The invariant of the specification.                                     *)

\* Every step keeps the invariant and the evidence.
LEMMA NextOK ==
  ASSUME IInv, Next
  PROVE  IInv' /\ Stands
<1>1. CASE EnqueueManifest \/ \E a \in Files : Claim(a) \/ Sweep(a)
  BY <1>1, QueueSteps
<1>2. CASE \E a \in Files : Recover(a)
  BY <1>2, RecoverStep
<1>3. ASSUME NEW w \in Workers, Advance(w) \/ Fault(w)
      PROVE  IInv' /\ Stands
  <2>1. CASE Open(w)
    BY <2>1, OpenStep
  <2>2. CASE MustRetry(w) \/ FinishLost(w) \/ CommitRaises(w) \/ Die(w)
    BY <2>2, AttemptEnds
  <2>3. CASE Retry(w)
    BY <2>3, RetryStep
  <2>4. CASE Finish(w)
    BY <2>4, FinishStep
  <2>5. CASE GiveUp(w)
    BY <2>5, GiveUpStep
  <2>6. CASE Commit(w)
    BY <2>6, CommitStep
  <2>7. CASE \/ AlreadyOver(w) \/ Refuse(w) \/ FileFails(w) \/ Intend(w) \/ Accept(w)
             \/ Ingest(w) \/ IngestUncertain(w) \/ Unexpected(w) \/ UnexpectedLost(w)
    BY <2>7, FileSteps
  <2> QED BY <1>3, <2>1, <2>2, <2>3, <2>4, <2>5, <2>6, <2>7 DEF Advance, Fault
<1> QED BY <1>1, <1>2, <1>3 DEF Next

\* The invariant does not read what a stuttering step leaves alone.
LEMMA StutterOK ==
  ASSUME IInv, UNCHANGED vars
  PROVE  IInv'
BY DEF vars, receiptVars, jobVars, seen, IInv, Rows, Knows, Locks, Folds, JobTellsFile,
       ReceiptOverJobsOver, Settled, At, File

\* The invariant holds of every state the specification reaches.
THEOREM Invariance == Spec => []IInv
<1>1. IInv /\ [Next]_vars => IInv'
  BY NextOK, StutterOK
<1> QED BY <1>1, InitOK, PTL DEF Spec

\* What a job says is what became of its file, even when it was the worker of a
\* lost attempt that said it.
THEOREM JobsTellFiles == Spec => []JobTellsFile
<1>1. IInv => JobTellsFile
  BY DEF IInv
<1> QED BY <1>1, Invariance, PTL

\* A receipt that is over has no job left to do, unless a recovery crossed a fold.
THEOREM ReceiptsEndLast == Spec => []ReceiptOverJobsOver
<1>1. IInv => ReceiptOverJobsOver
  BY DEF IInv
<1> QED BY <1>1, Invariance, PTL

\* A file or a job that is over stays over; only the recovery of a dead letter
\* reopens a receipt.
THEOREM WhatIsOverStands == Spec => EvidenceStands
<1>1. IInv /\ [Next]_vars => [Stands]_vars
  BY NextOK
<1>2. [][Stands]_vars <=> EvidenceStands
  BY PTL DEF Stands, EvidenceStands
<1> QED BY <1>1, <1>2, Invariance, PTL DEF Spec
-----------------------------------------------------------------------------
(* The second invariant: the types, and what the sum of the receipt needs. *)

\* The jobs and what they say once the end that w commits is written.
Told(w) == worker[w].to \in {"SUCCEEDED", "REJECTED"}
Jobs(w) == [job EXCEPT ![File(w)] = worker[w].to]
Sayings(w) == [said EXCEPT ![File(w)] = IF Told(w) THEN worker[w].status ELSE @]

\* No attempt was lost, no two ends met and no file landed; so it was before.
Clean == faults = 0 /\ race = "none" /\ \A a \in Files : raw[a] # "LANDED"

\* A job that gave no outcome says nothing.
Silent == \A a \in Files : job[a] \notin {"SUCCEEDED", "REJECTED"} => said[a] = "none"

\* Two ends meet in a race only.
Alone == race = "none" => \A v, w \in Workers : At(v, "commit") /\ At(w, "commit") => v = w

\* The receipt is not folded twice between two recoveries.
Counted ==
  /\ \A k \in folded : k[2] <= Generation
  /\ race = "none" /\ receipt \notin ReceiptTerminal => \A k \in folded : k[2] < Generation

\* What a worker is about to commit, row by row and for the receipt.
Foresees(w) ==
  /\ worker[w].to = "DEAD_LETTER" => tries[File(w)] = MaxAttempts
  /\ Told(w) => worker[w].status \in Statuses
  /\ worker[w].fold[1] # "wait" =>
       worker[w].fold[2] <= Generation /\ (race = "none" => worker[w].fold[2] = Generation)
  /\ worker[w].fold[1] = "LANDED" => \E a \in Files : raw[a] = "LANDED"
  /\ worker[w].to # "keep" /\ race = "none" /\ Settled(Jobs(w)) =>
       /\ Outcomes(Sayings(w)) = {"landed"} => worker[w].fold[1] = "LANDED"
       /\ Clean /\ Outcomes(Sayings(w)) # {"observed"} => worker[w].fold[1] # "wait"

\* Until something is lost or lands, every running job has its one worker.
Attending ==
  Clean =>
    /\ \A w \in Workers : ~At(w, "idle") => job[File(w)] = "RUNNING"
    /\ \A v, w \in Workers : ~At(v, "idle") /\ ~At(w, "idle") /\ File(v) = File(w) => v = w
    /\ \A a \in Files : job[a] = "RUNNING" => \E w \in Workers : ~At(w, "idle") /\ File(w) = a
    /\ \A w \in Workers : At(w, "commit") => worker[w].to # "keep"

SInv ==
  /\ TypeOK /\ Silent /\ Alone /\ Counted /\ Attending /\ ReceiptTellsJobs
  /\ \A w \in Workers : At(w, "commit") => Foresees(w)

\* One more recovery is one more generation, and no row has more than there are.
LEMMA Recovering ==
  ASSUME TypeOK
  PROVE  /\ \A a \in Files : recoveries[a] <= Generation
         /\ \A a \in Files : Recover(a) =>
              /\ Generation' = Generation + 1
              /\ recoveries' \in [Files -> 0..MaxRecoveries]
<1>1. /\ IsFiniteSet(Files) /\ MaxRecoveries \in Nat /\ Generation \in Nat
      /\ recoveries \in [Files -> 0..MaxRecoveries]
  BY InboundAssumption, GenerationCounts DEF TypeOK
<1>2. IsFiniteSet(1..MaxRecoveries)
  BY <1>1, FS_Interval
<1>3. IsFiniteSet(Files \X (1..MaxRecoveries))
  BY <1>1, <1>2, FS_Product
<1>4. IsFiniteSet(Recovered)
  BY <1>3, FS_Subset DEF Recovered
<1>5. ASSUME NEW a \in Files
      PROVE  recoveries[a] <= Generation
  <2> DEFINE n == recoveries[a]
  <2>1. n \in 0..MaxRecoveries /\ n \in Nat
    BY <1>1
  <2>2. IsFiniteSet(1..n) /\ Cardinality(1..n) = n
    BY <2>1, FS_Interval
  <2>3. Cardinality({a} \X (1..n)) = n
    <3>1. IsFiniteSet({a}) /\ Cardinality({a}) = 1
      BY FS_Singleton
    <3>2. Cardinality({a} \X (1..n)) = 1 * n
      BY <2>2, <3>1, FS_Product
    <3> QED BY <2>1, <3>2
  <2>4. ({a} \X (1..n)) \in SUBSET Recovered
    <3> SUFFICES ASSUME NEW i \in 1..n PROVE <<a, i>> \in Recovered
      OBVIOUS
    <3>1. i \in 1..MaxRecoveries
      BY <1>1, <2>1
    <3> QED BY <3>1 DEF Recovered
  <2> QED BY <1>4, <2>3, <2>4, FS_Subset DEF Generation
<1>6. ASSUME NEW a \in Files, Recover(a)
      PROVE  Generation' = Generation + 1 /\ recoveries' \in [Files -> 0..MaxRecoveries]
  <2> DEFINE n == recoveries[a]
  <2>1. /\ recoveries' = [recoveries EXCEPT ![a] = n + 1]
        /\ n \in Nat /\ n + 1 <= MaxRecoveries
    BY <1>1, <1>5, <1>6 DEF Recover
  <2>2. Recovered' = Recovered \cup {<<a, n + 1>>}
    BY <1>1, <2>1 DEF Recovered
  <2>3. <<a, n + 1>> \notin Recovered
    BY <1>1, <2>1 DEF Recovered
  <2>4. Cardinality(Recovered \cup {<<a, n + 1>>}) = Cardinality(Recovered) + 1
    BY <1>4, <2>3, FS_AddElement
  <2> QED BY <1>1, <2>1, <2>2, <2>4 DEF Generation
<1> QED BY <1>5, <1>6

\* Nothing is claimed, written or folded yet.
LEMMA SInitOK == Init => SInv
<1> SUFFICES ASSUME Init PROVE SInv
  OBVIOUS
<1> USE DEF Init
<1>1. TypeOK
  <2>1. \A w \in Workers : worker[w].pc \in Pcs /\ File(w) \in Files \cup {NoFile}
    BY AtRest DEF File, Pcs
  <2>2. 0 \in 0..MaxAttempts /\ 0 \in 0..MaxRecoveries /\ 0 \in 0..MaxFaults
    BY InboundAssumption
  <2> QED BY <2>1, <2>2 DEF TypeOK
<1>2. Silent /\ Alone /\ Counted /\ Attending
  BY AtRest DEF Silent, Alone, Counted, Attending, At
<1>3. ReceiptTellsJobs
  BY InboundAssumption DEF ReceiptTellsJobs, Settled, JobSettled
<1>4. \A w \in Workers : ~At(w, "commit")
  BY AtRest DEF At
<1> QED BY <1>1, <1>2, <1>3, <1>4 DEF SInv

\* A step that gives no job an outcome and does not fold the receipt.
LEMMA Quiet ==
  ASSUME IInv, SInv, IInv',
         UNCHANGED <<folded, recoveries, said, names>>, opened' \in BOOLEAN,
         faults' \in 0..MaxFaults, faults <= faults',
         race' \in {"none", "overlap", "crossed"}, race' = "none" => race = "none",
         \A a \in Files : raw[a] = "LANDED" => raw'[a] = "LANDED",
         receipt' # receipt => receipt \notin ReceiptTerminal /\ receipt' \notin ReceiptTerminal,
         tries' \in [Files -> 0..MaxAttempts],
         \A a \in Files : tries'[a] # tries[a] => job[a] # "RUNNING" /\ job'[a] # "DEAD_LETTER",
         \A a \in Files : job'[a] # job[a] =>
           /\ job[a] \notin {"SUCCEEDED", "REJECTED"} /\ job'[a] \notin {"SUCCEEDED", "REJECTED"}
           /\ job'[a] = "DEAD_LETTER" => tries[a] = MaxAttempts /\ ~Clean',
         \A w \in Workers :
           worker'[w].pc = "commit" => worker'[w] = worker[w] \/ Foresees(w)',
         Alone', Attending'
  PROVE  SInv'
<1>0. /\ TypeOK /\ Silent /\ Counted /\ ReceiptTellsJobs /\ Rows /\ Rows' /\ Locks
      /\ \A w \in Workers : At(w, "commit") => Foresees(w)
  BY DEF SInv, IInv
<1>1. TypeOK'
  <2>1. \A w \in Workers : worker'[w].pc \in Pcs /\ worker'[w].file \in Files \cup {NoFile}
    BY <1>0 DEF Rows, Tasks
  <2>2. \A a \in Files : job'[a] = "DEAD_LETTER" => tries'[a] = MaxAttempts
    BY <1>0 DEF TypeOK
  <2> QED BY <1>0, <2>1, <2>2 DEF TypeOK, Rows, JobStates, RawStates, File
<1>2. Silent'
  BY <1>0 DEF Silent
<1>3. Generation' = Generation /\ Generation \in Nat
  BY GenerationCounts
<1>4. Counted'
  BY <1>0, <1>3 DEF Counted
<1>5. Clean' => Clean
  BY <1>0, InboundAssumption DEF Clean, TypeOK
<1>6. \A a \in Files : job'[a] # job[a] =>
        /\ job'[a] \in JobSettled => said[a] = "none" /\ ~Clean'
        /\ job[a] \notin {"SUCCEEDED", "REJECTED"}
  BY <1>0 DEF Silent, JobSettled
<1>7. ReceiptTellsJobs'
  <2> SUFFICES ASSUME Settled(job)', race' = "none"
               PROVE  /\ Outcomes(said)' = {"landed"} => receipt' = "LANDED"
                      /\ Clean' /\ Outcomes(said)' # {"observed"} => receipt' \in ReceiptTerminal
    BY DEF ReceiptTellsJobs, Clean
  <2>1. CASE \A a \in Files : job'[a] = job[a]
    <3>1. Settled(job)
      BY <2>1 DEF Settled
    <3>2. Outcomes(said)' = Outcomes(said)
      OBVIOUS
    <3> QED BY <1>0, <1>5, <3>1, <3>2 DEF ReceiptTellsJobs, Clean, ReceiptTerminal
  <2>2. CASE \E a \in Files : job'[a] # job[a]
    <3>1. PICK a \in Files : job'[a] # job[a]
      BY <2>2
    <3>2. said[a] = "none" /\ ~Clean'
      BY <1>6, <3>1 DEF Settled
    <3>3. Outcomes(said)' # {"landed"}
      BY <3>2 DEF Outcomes
    <3> QED BY <3>2, <3>3
  <2> QED BY <2>1, <2>2
<1>8. ASSUME NEW w \in Workers, At(w, "commit"), worker'[w] = worker[w]
      PROVE  Foresees(w)'
  <2>1. /\ Foresees(w) /\ File(w) = File(w)' /\ (Told(w) <=> Told(w)')
        /\ Sayings(w)' = Sayings(w)
    BY <1>0, <1>8 DEF File, Told, Sayings
  <2>2. worker[w].to = "DEAD_LETTER" => tries'[File(w)] = tries[File(w)]
    <3> SUFFICES ASSUME worker[w].to = "DEAD_LETTER" PROVE tries'[File(w)] = tries[File(w)]
      OBVIOUS
    <3>1. job[File(w)] = "RUNNING" /\ File(w) \in Files
      BY <1>0, <1>8 DEF Locks, IInv, Knows, At
    <3> QED BY <3>1
  <2>3. ASSUME worker[w].to # "keep", race' = "none", Settled(Jobs(w))'
        PROVE  /\ Outcomes(Sayings(w)) = {"landed"} => worker[w].fold[1] = "LANDED"
               /\ Clean' /\ Outcomes(Sayings(w)) # {"observed"} => worker[w].fold[1] # "wait"
    <3>1. CASE \A a \in Files \ {File(w)} : job'[a] = job[a]
      <4>1. Settled(Jobs(w))
        BY <1>0, <1>8, <2>3, <3>1 DEF Settled, Jobs, Rows, File
      <4> QED BY <1>5, <2>1, <2>3, <4>1 DEF Foresees
    <3>2. CASE \E a \in Files \ {File(w)} : job'[a] # job[a]
      <4>1. PICK a \in Files \ {File(w)} : job'[a] # job[a]
        BY <3>2
      <4>2. job'[a] \in JobSettled
        BY <1>0, <1>8, <2>3, <4>1 DEF Settled, Jobs, Rows, File
      <4>3. said[a] = "none" /\ ~Clean'
        BY <1>6, <4>1, <4>2
      <4>4. Sayings(w)[a] = "none"
        BY <1>0, <4>1, <4>3 DEF Sayings, Rows
      <4>5. Outcomes(Sayings(w)) # {"landed"}
        BY <4>4 DEF Outcomes
      <4> QED BY <4>3, <4>5
    <3> QED BY <3>1, <3>2
  <2>4. Outcomes(Sayings(w))' = Outcomes(Sayings(w))
    BY <2>1 DEF Outcomes
  <2> QED BY <1>3, <1>8, <2>1, <2>2, <2>3, <2>4 DEF Foresees
<1>9. \A w \in Workers : At(w, "commit")' => Foresees(w)'
  BY <1>8 DEF At
<1> QED BY <1>1, <1>2, <1>4, <1>7, <1>9 DEF SInv

\* The queue inserts, claims and sweeps: no claimed job has a worker yet, and no
\* attended one is swept without a fault.
LEMMA QueueSums ==
  ASSUME IInv, SInv, IInv', EnqueueManifest \/ \E a \in Files : Claim(a) \/ Sweep(a)
  PROVE  SInv'
<1>0. TypeOK /\ Rows /\ Knows /\ Locks /\ Alone /\ Attending
  BY DEF SInv, IInv
<1>1. UNCHANGED <<receipt, opened, folded, recoveries, said, names, raw, race>>
  BY DEF EnqueueManifest, Claim, Sweep, Loses, receiptVars, seen
<1>2. /\ faults' \in 0..MaxFaults /\ faults <= faults'
      /\ race' \in {"none", "overlap", "crossed"} /\ opened' \in BOOLEAN
  <2>1. faults' = faults \/ (faults < MaxFaults /\ faults' = faults + 1)
    BY DEF EnqueueManifest, Claim, Sweep, Loses, seen
  <2>2. faults \in Nat /\ MaxFaults \in Nat /\ faults <= MaxFaults
    BY <1>0, InboundAssumption DEF TypeOK
  <2> QED BY <1>0, <1>1, <2>1, <2>2 DEF TypeOK
<1>3. CASE EnqueueManifest
  <2>1. /\ UNCHANGED <<tries, worker, faults>>
        /\ \A a \in Files : job[a] = "absent" /\ job'[a] = "QUEUED"
    BY <1>3 DEF EnqueueManifest, seen
  <2>2. Alone'
    BY <1>0, <1>1, <2>1 DEF Alone, At
  <2>3. Attending'
    BY <1>0, <1>1, <2>1 DEF Attending, Clean, At, File, Knows
  <2> QED BY <1>0, <1>1, <1>2, <2>1, <2>2, <2>3, Quiet DEF TypeOK
<1>4. ASSUME NEW a \in Files, Claim(a)
      PROVE  SInv'
  <2> DEFINE x == [Rest EXCEPT !.pc = "open", !.file = a]
  <2>1. x.pc = "open" /\ x.file = a
    BY DEF Rest
  <2>2. Slot \in Workers /\ At(Slot, "idle")
    BY <1>4 DEF Claim, Slot
  <2>3. /\ worker'[Slot] = x /\ \A w \in Workers : w # Slot => worker'[w] = worker[w]
        /\ job[a] \in {"QUEUED", "RETRY_WAIT"} /\ job'[a] = "RUNNING" /\ faults' = faults
        /\ \A b \in Files : b # a => job'[b] = job[b] /\ tries'[b] = tries[b]
        /\ tries[a] \in 0..MaxAttempts /\ tries[a] < MaxAttempts
        /\ tries' = [tries EXCEPT ![a] = tries[a] + 1]
    BY <1>0, <1>4, <2>2 DEF Claim, Rows, TypeOK, seen
  <2> HIDE DEF x
  <2>4. tries' \in [Files -> 0..MaxAttempts]
    <3>1. tries[a] + 1 \in 0..MaxAttempts
      BY <2>3, InboundAssumption
    <3> QED BY <1>0, <2>3, <3>1 DEF TypeOK
  <2>5. Alone'
    BY <1>0, <1>1, <2>1, <2>3 DEF Alone, At
  <2>6. Attending'
    <3> SUFFICES ASSUME Clean' PROVE Attending'
      BY DEF Attending
    <3>1. Clean
      BY <1>1, <2>3 DEF Clean
    <3>2. \A w \in Workers : ~At(w, "idle") => File(w) \in Files \ {a}
      BY <1>0, <2>3, <3>1 DEF Attending, Knows
    <3>3. \A b \in Files : job'[b] = "RUNNING" =>
            \E w \in Workers : ~At(w, "idle")' /\ File(w)' = b
      <4> SUFFICES ASSUME NEW b \in Files, job'[b] = "RUNNING"
                   PROVE  \E w \in Workers : ~At(w, "idle")' /\ File(w)' = b
        OBVIOUS
      <4>1. CASE b = a
        BY <2>1, <2>2, <2>3, <4>1 DEF At, File
      <4>2. CASE b # a
        <5>1. PICK w \in Workers : ~At(w, "idle") /\ File(w) = b
          BY <1>0, <2>3, <3>1, <4>2 DEF Attending
        <5> QED BY <2>2, <2>3, <5>1 DEF At, File
      <4> QED BY <4>1, <4>2
    <3> QED BY <1>0, <2>1, <2>2, <2>3, <3>1, <3>2, <3>3 DEF Attending, At, File
  <2> QED BY <1>0, <1>1, <1>2, <2>1, <2>3, <2>4, <2>5, <2>6, Quiet
<1>5. ASSUME NEW a \in Files, Sweep(a)
      PROVE  SInv'
  <2>1. /\ UNCHANGED <<tries, worker>> /\ job[a] = "RUNNING"
        /\ job'[a] \in {"DEAD_LETTER", "RETRY_WAIT"}
        /\ job'[a] = "DEAD_LETTER" => tries[a] = MaxAttempts
        /\ \A b \in Files : b # a => job'[b] = job[b]
    <3>1. tries[a] \in 0..MaxAttempts
      BY <1>0 DEF TypeOK
    <3> QED BY <1>0, <1>5, <3>1, InboundAssumption DEF Sweep, Lost, Exhausted, Rows
  <2>2. ~Clean'
    <3> SUFFICES ASSUME Clean' PROVE FALSE
      OBVIOUS
    <3>1. Clean
      BY <1>0, <1>1, <1>2, InboundAssumption DEF Clean, TypeOK
    <3>2. Attended(a)
      BY <1>0, <2>1, <3>1 DEF Attending, Attended
    <3>3. faults' = faults + 1
      BY <1>5, <3>2 DEF Sweep, Loses
    <3> QED BY <3>1, <3>3 DEF Clean
  <2>3. Alone' /\ Attending'
    BY <1>0, <1>1, <2>1, <2>2 DEF Alone, Attending, At
  <2> QED BY <1>0, <1>1, <1>2, <2>1, <2>2, <2>3, Quiet DEF TypeOK
<1> QED BY <1>3, <1>4, <1>5

\* A recovery opens a generation in which nothing is folded yet.
LEMMA RecoverSums ==
  ASSUME IInv, SInv, IInv', NEW a \in Files, Recover(a)
  PROVE  SInv'
<1>0. /\ TypeOK /\ Silent /\ Alone /\ Counted /\ Attending /\ Rows /\ Rows' /\ Knows /\ Locks
      /\ \A w \in Workers : At(w, "commit") => Foresees(w)
  BY DEF SInv, IInv
<1>1. /\ receipt' = "PROCESSING" /\ job[a] = "DEAD_LETTER" /\ job'[a] = "QUEUED"
      /\ \A b \in Files : b # a => job'[b] = job[b] /\ tries'[b] = tries[b]
      /\ tries' = [tries EXCEPT ![a] = 0] /\ race' \in {race, "crossed"}
      /\ race' # "crossed" => ~Folding
      /\ UNCHANGED <<opened, folded, said, names, raw, worker, faults>>
  BY <1>0 DEF Recover, Rows, TypeOK
<1>2. /\ Generation' = Generation + 1 /\ Generation \in Nat
      /\ recoveries' \in [Files -> 0..MaxRecoveries]
  BY <1>0, Recovering, GenerationCounts
<1>3. TypeOK'
  <2>1. tries' \in [Files -> 0..MaxAttempts]
    BY <1>0, <1>1, InboundAssumption DEF TypeOK
  <2>2. \A b \in Files : job'[b] = "DEAD_LETTER" => tries'[b] = MaxAttempts
    BY <1>0, <1>1 DEF TypeOK
  <2>3. \A w \in Workers : worker'[w].pc \in Pcs /\ worker'[w].file \in Files \cup {NoFile}
    BY <1>0, <1>1 DEF TypeOK, File
  <2>4. race' \in {"none", "overlap", "crossed"}
    BY <1>0, <1>1 DEF TypeOK
  <2> QED BY <1>0, <1>1, <1>2, <2>1, <2>2, <2>3, <2>4
          DEF TypeOK, Rows, JobStates, RawStates, File
<1>4. Silent'
  BY <1>0, <1>1 DEF Silent
<1>5. Alone'
  BY <1>1 DEF Alone, Folding, At
<1>6. Counted'
  <2>1. \A k \in folded : k[2] \in Nat /\ k[2] <= Generation
    BY <1>0 DEF Counted, TypeOK, Keys
  <2> QED BY <1>1, <1>2, <2>1 DEF Counted
<1>7. Attending'
  <2> SUFFICES ASSUME Clean' PROVE Attending'
    BY DEF Attending
  <2>1. Clean
    BY <1>1 DEF Clean
  <2>2. \A w \in Workers : ~At(w, "idle") => File(w) # a
    BY <1>0, <1>1, <2>1 DEF Attending
  <2> QED BY <1>0, <1>1, <2>1, <2>2 DEF Attending, Knows, At, File
<1>8. ReceiptTellsJobs'
  BY <1>1 DEF ReceiptTellsJobs, Settled, JobSettled
<1>9. ASSUME NEW w \in Workers, At(w, "commit")'
      PROVE  Foresees(w)'
  <2>1. At(w, "commit") /\ race' # "none" /\ worker'[w] = worker[w] /\ Foresees(w)
    BY <1>0, <1>1, <1>9 DEF Folding, At
  <2>2. worker[w].to = "DEAD_LETTER" => File(w) # a /\ File(w) \in Files
    BY <1>0, <1>1, <2>1 DEF Locks, Knows, At
  <2>3. worker[w].fold[2] \in Nat
    BY <1>0 DEF Rows, Tasks
  <2> QED BY <1>1, <1>2, <2>1, <2>2, <2>3 DEF Foresees, Told, File
<1> QED BY <1>3, <1>4, <1>5, <1>6, <1>7, <1>8, <1>9 DEF SInv

\* The end of an attempt, as it is written: what it foresees follows from the fold.
LEMMA FoldForesees ==
  ASSUME IInv, SInv, IInv', NEW w \in Workers, ~At(w, "idle"), ~At(w, "commit"),
         NEW to \in {"keep", "SUCCEEDED", "REJECTED", "DEAD_LETTER"},
         NEW j, NEW s, NEW n, NEW k \in Fold(j, s, n),
         j = [job EXCEPT ![File(w)] = IF to = "keep" THEN @ ELSE to],
         s = [said EXCEPT ![File(w)] =
                IF to \in {"SUCCEEDED", "REJECTED"} THEN worker[w].status ELSE @],
         Writes(w, to, k),
         to # "keep" <=> job[File(w)] = "RUNNING",
         to = "DEAD_LETTER" => tries[File(w)] = MaxAttempts,
         to \in {"SUCCEEDED", "REJECTED"} => worker[w].status \in Statuses,
         UNCHANGED <<receiptVars, jobVars, raw>>
  PROVE  SInv'
<1>0. /\ TypeOK /\ Silent /\ Alone /\ Attending /\ Rows /\ Knows
      /\ File(w) \in Files /\ worker[w] \in Tasks
  BY DEF SInv, IInv, Knows, Rows
<1>1. /\ worker'[w].pc = "commit" /\ worker'[w].to = to /\ worker'[w].fold = k
      /\ worker'[w].file = File(w) /\ worker'[w].status = worker[w].status
      /\ \A v \in Workers : v # w => worker'[v] = worker[v]
  BY <1>0 DEF Writes, Rows, Tasks, File
<1>2. /\ UNCHANGED <<receipt, opened, folded, job, tries, recoveries, said, names, raw, faults>>
      /\ race' \in {race, "overlap"} /\ (race' = "none" => race = "none" /\ ~Overlaps(w))
      /\ race' \in {"none", "overlap", "crossed"}
  BY <1>0 DEF receiptVars, jobVars, Writes, TypeOK
<1>3. Generation' = Generation /\ Generation \in Nat
  BY <1>2, GenerationCounts
<1>4. /\ k[1] # "wait" => k = Key(Verdict(j, s)) /\ Coherent(k[1], s, n)
      /\ k[1] = "wait" => ~Settled(j) \/ Outcomes(s) = {"observed"}
  <2> DEFINE v == Verdict(j, s)
  <2>1. v # "wait" /\ Key(v)[1] = v
    BY DEF Verdict, Key
  <2>2. CASE ~Settled(j) \/ Outcomes(s) = {"observed"}
    <3>1. k = <<"wait", 0>>
      BY <2>2 DEF Fold
    <3> QED BY <2>2, <3>1
  <2>3. CASE ~(~Settled(j) \/ Outcomes(s) = {"observed"})
    <3>1. k = Key(v) /\ Coherent(v, s, n)
      BY <2>3 DEF Fold
    <3> HIDE DEF v
    <3>2. k[1] = v
      BY <2>1, <3>1
    <3> QED BY <2>1, <3>1, <3>2 DEF v
  <2> QED BY <2>2, <2>3
<1>5. k[1] # "wait" => k[1] = Verdict(j, s) /\ k[2] = Generation
  BY <1>4 DEF Key
<1>6. k[1] = "LANDED" => \E a \in Files : raw[a] = "LANDED"
  BY <1>4 DEF Coherent
<1>7. Outcomes(s) = {"landed"} => \A a \in Files : j[a] # "DEAD_LETTER"
  <2> SUFFICES ASSUME NEW a \in Files, j[a] = "DEAD_LETTER"
               PROVE  s[a] = "none"
    BY DEF Outcomes
  <2>1. job \in [Files -> JobStates] /\ said \in [Files -> Reported]
    BY <1>0 DEF Rows
  <2>2. CASE a = File(w)
    BY <1>0, <2>1, <2>2 DEF Silent
  <2>3. CASE a # File(w)
    BY <1>0, <2>1, <2>3 DEF Silent
  <2> QED BY <2>2, <2>3
<1>8. Settled(j) /\ Outcomes(s) = {"landed"} => k[1] = "LANDED"
  BY <1>4, <1>5, <1>7 DEF Verdict
<1>9. Foresees(w)'
  <2>1. /\ File(w)' = File(w) /\ (Told(w)' <=> to \in {"SUCCEEDED", "REJECTED"})
        /\ to # "keep" => Jobs(w)' = j
        /\ Sayings(w)' = s
    BY <1>1, <1>2 DEF File, Told, Jobs, Sayings
  <2>2. to # "keep" => (Settled(Jobs(w))' <=> Settled(j))
    BY <2>1 DEF Settled
  <2>3. Outcomes(Sayings(w))' = Outcomes(s)
    BY <2>1 DEF Outcomes
  <2>4. /\ to = "DEAD_LETTER" => tries'[File(w)'] = MaxAttempts
        /\ Told(w)' => worker'[w].status \in Statuses
        /\ k[1] # "wait" => k[2] <= Generation' /\ (race' = "none" => k[2] = Generation')
        /\ k[1] = "LANDED" => \E a \in Files : raw'[a] = "LANDED"
    BY <1>1, <1>2, <1>3, <1>5, <1>6, <2>1
  <2>5. to # "keep" /\ race' = "none" /\ Settled(Jobs(w))' =>
          /\ Outcomes(Sayings(w))' = {"landed"} => k[1] = "LANDED"
          /\ Clean' /\ Outcomes(Sayings(w))' # {"observed"} => k[1] # "wait"
    BY <1>4, <1>8, <2>2, <2>3
  <2> QED BY <1>1, <2>4, <2>5 DEF Foresees
<1>10. Alone'
  BY <1>1, <1>2 DEF Alone, Overlaps, At
<1>11. Attending'
  <2> SUFFICES ASSUME Clean' PROVE Attending'
    BY DEF Attending
  <2>1. Clean
    BY <1>2 DEF Clean
  <2>2. to # "keep"
    BY <1>0, <2>1 DEF Attending
  <2>3. \A v \in Workers : (At(v, "idle")' <=> At(v, "idle")) /\ File(v)' = File(v)
    BY <1>1 DEF At, File
  <2> QED BY <1>0, <1>1, <1>2, <2>1, <2>2, <2>3 DEF Attending, At
<1>12. \A v \in Workers : worker'[v].pc = "commit" => worker'[v] = worker[v] \/ Foresees(v)'
  BY <1>1, <1>9
<1>13. /\ opened' \in BOOLEAN /\ faults' \in 0..MaxFaults /\ faults <= faults'
       /\ tries' \in [Files -> 0..MaxAttempts]
  BY <1>0, <1>2, InboundAssumption DEF TypeOK
<1> QED BY <1>0, <1>2, <1>10, <1>11, <1>12, <1>13, Quiet

\* A task that stays with its file, or whose attempt is lost.
LEMMA TaskSums ==
  ASSUME IInv, SInv, IInv', Stands, NEW w \in Workers, ~At(w, "idle"),
         \A v \in Workers : v # w => worker'[v] = worker[v],
         worker'[w].pc # "commit",
         (worker'[w].pc # "idle" /\ worker'[w].file = File(w)) \/ ~Clean',
         UNCHANGED <<folded, job, tries, recoveries, said, names, race>>,
         opened' \in BOOLEAN, faults' = faults \/ (faults < MaxFaults /\ faults' = faults + 1),
         receipt' # receipt => receipt = "RECEIVED" /\ receipt' = "PROCESSING"
  PROVE  SInv'
<1>0. TypeOK /\ Alone /\ Attending /\ Knows
  BY DEF SInv, IInv
<1>1. /\ faults' \in 0..MaxFaults /\ faults <= faults'
      /\ race' \in {"none", "overlap", "crossed"} /\ tries' \in [Files -> 0..MaxAttempts]
      /\ faults \in Nat
  BY <1>0, InboundAssumption DEF TypeOK
<1>2. \A a \in Files : raw[a] = "LANDED" => raw'[a] = "LANDED"
  BY DEF Stands, RawTerminal
<1>3. Alone'
  BY <1>0 DEF Alone, At
<1>4. Clean' => Clean
  BY <1>1, <1>2 DEF Clean
<1>5. Attending'
  <2> SUFFICES ASSUME Clean' PROVE Attending'
    BY DEF Attending
  <2>1. \A v \in Workers : (At(v, "idle")' <=> At(v, "idle")) /\ File(v)' = File(v)
    BY DEF At, File
  <2>2. \A v \in Workers : At(v, "commit")' => At(v, "commit") /\ worker'[v] = worker[v]
    BY DEF At
  <2> QED BY <1>0, <1>4, <2>1, <2>2 DEF Attending
<1>6. \A v \in Workers : worker'[v].pc = "commit" => worker'[v] = worker[v]
  OBVIOUS
<1>7. receipt' # receipt => receipt \notin ReceiptTerminal /\ receipt' \notin ReceiptTerminal
  BY DEF ReceiptTerminal
<1> QED BY <1>1, <1>2, <1>3, <1>5, <1>6, <1>7, Quiet

\* The steps of a file, and the attempts that end without a commit.
LEMMA FileSums ==
  ASSUME IInv, SInv, IInv', Stands, NEW w \in Workers,
         \/ Open(w) \/ MustRetry(w) \/ AlreadyOver(w) \/ Refuse(w) \/ FileFails(w)
         \/ Intend(w) \/ Accept(w) \/ Ingest(w) \/ IngestUncertain(w) \/ Unexpected(w)
         \/ UnexpectedLost(w) \/ FinishLost(w) \/ CommitRaises(w) \/ Die(w)
  PROVE  SInv'
<1>0. /\ TypeOK /\ Attending /\ Rows /\ Locks /\ ReceiptOverJobsOver /\ faults \in Nat
      /\ worker \in [Workers -> Tasks] /\ worker[w] \in Tasks
      /\ At(w, "commit") => Foresees(w)
  BY InboundAssumption DEF SInv, IInv, Rows, TypeOK
<1>1. /\ UNCHANGED <<folded, job, tries, recoveries, said, names, race>>
      /\ opened' \in BOOLEAN
      /\ faults' = faults \/ (faults < MaxFaults /\ faults' = faults + 1)
      /\ receipt' # receipt => receipt = "RECEIVED" /\ receipt' = "PROCESSING"
  BY <1>0 DEF Open, MustRetry, AlreadyOver, Refuse, FileFails, Intend, Accept, Ingest,
         IngestUncertain, Unexpected, UnexpectedLost, FinishLost, CommitRaises, Die, Loses,
         receiptVars, jobVars, seen, TypeOK
<1>2. ~At(w, "idle")
  BY DEF Open, MustRetry, AlreadyOver, Refuse, FileFails, Intend, Accept, Ingest,
         IngestUncertain, Unexpected, UnexpectedLost, FinishLost, CommitRaises, Die, At
<1>3. ASSUME CommitRaises(w), worker[w].to = "DEAD_LETTER"
      PROVE  ~Clean'
  <2> SUFFICES ASSUME Clean PROVE FALSE
    <3>1. \A a \in Files : raw[a] = "LANDED" => raw'[a] = "LANDED"
      BY DEF Stands, RawTerminal
    <3>2. faults' = 0 => faults = 0
      BY <1>0, <1>1
    <3> QED BY <1>1, <3>1, <3>2 DEF Clean
  <2>1. /\ At(w, "commit") /\ worker[w].fold[1] # "wait" /\ ~Writable(worker[w].fold)
        /\ job[File(w)] = "RUNNING" /\ File(w) \in Files
    BY <1>0, <1>3 DEF CommitRaises, Locks, IInv, Knows, At
  <2>2. receipt \notin ReceiptTerminal
    BY <1>0, <2>1 DEF ReceiptOverJobsOver, Settled, JobSettled, Clean
  <2>3. worker[w].fold[1] = "LANDED"
    BY <1>0, <2>1, <2>2 DEF Writable, TypeOK
  <2> QED BY <1>0, <2>1, <2>3 DEF Foresees, Clean
<1>4. ASSUME Die(w)
      PROVE  ~Clean'
  BY <1>0, <1>4 DEF Die, Loses, Clean
<1>5. \/ \E pc \in {"file", "scan", "ingest"} : Goes(w, pc)
      \/ \E s \in Reported, n \in BOOLEAN : Reports(w, s, n)
      \/ Fails(w)
      \/ Rests(w) /\ ~Clean'
  <2>1. {"landed", "observed", "rejected", "failed", "duplicate", "reconcile_required"} \subseteq Reported
    BY DEF Reported, Statuses
  <2>2. CASE Open(w)
    BY <2>1, <2>2 DEF Open
  <2>3. CASE AlreadyOver(w) \/ Refuse(w) \/ FileFails(w) \/ Intend(w) \/ Accept(w)
    BY <2>1, <2>3 DEF AlreadyOver, Refuse, FileFails, Intend, Accept
  <2>4. CASE Ingest(w) \/ IngestUncertain(w) \/ Unexpected(w) \/ UnexpectedLost(w)
    BY <2>1, <2>4 DEF Ingest, IngestUncertain, Unexpected, UnexpectedLost
  <2>5. CASE MustRetry(w) \/ FinishLost(w) \/ CommitRaises(w) \/ Die(w)
    BY <1>3, <1>4, <2>5 DEF MustRetry, FinishLost, CommitRaises, Die
  <2> QED BY <2>2, <2>3, <2>4, <2>5
<1>6. /\ \A v \in Workers : v # w => worker'[v] = worker[v]
      /\ worker'[w].pc # "commit"
      /\ (worker'[w].pc # "idle" /\ worker'[w].file = File(w)) \/ ~Clean'
  <2>1. CASE \E pc \in {"file", "scan", "ingest"} : Goes(w, pc)
    BY <1>0, <2>1 DEF Goes, Tasks, File
  <2>2. CASE \E s \in Reported, n \in BOOLEAN : Reports(w, s, n)
    BY <1>0, <2>2 DEF Reports, Tasks, File
  <2>3. CASE Fails(w)
    BY <1>0, <2>3 DEF Fails, Rest, File
  <2>4. CASE Rests(w) /\ ~Clean'
    BY <1>0, <2>4, AtRest DEF Rests
  <2> QED BY <1>5, <2>1, <2>2, <2>3, <2>4
<1> QED BY <1>1, <1>2, <1>6, TaskSums

\* The attempt that is given back leaves its worker with it.
LEMMA RetrySums ==
  ASSUME IInv, SInv, IInv', NEW w \in Workers, Retry(w)
  PROVE  SInv'
<1>0. TypeOK /\ Rows /\ Knows /\ Locks /\ Alone /\ Attending
  BY DEF SInv, IInv
<1>1. /\ UNCHANGED <<receipt, opened, folded, tries, recoveries, said, names, raw, faults, race>>
      /\ ~At(w, "idle") /\ File(w) \in Files
      /\ worker'[w].pc = "idle" /\ \A v \in Workers : v # w => worker'[v] = worker[v]
      /\ \A a \in Files : a # File(w) => job'[a] = job[a]
      /\ job[File(w)] = "RUNNING" => job'[File(w)] = "RETRY_WAIT"
      /\ job[File(w)] # "RUNNING" => job'[File(w)] = job[File(w)]
  BY <1>0, AtRest DEF Retry, Rests, receiptVars, seen, Rows, Knows, At
<1>2. Alone'
  BY <1>0, <1>1 DEF Alone, At
<1>3. Attending'
  <2> SUFFICES ASSUME Clean' PROVE Attending'
    BY DEF Attending
  <2>1. Clean
    BY <1>1 DEF Clean
  <2>2. \A v \in Workers : ~At(v, "idle")' =>
          /\ v # w /\ ~At(v, "idle") /\ File(v)' = File(v) /\ File(v) # File(w)
          /\ (At(v, "commit")' <=> At(v, "commit")) /\ worker'[v] = worker[v]
    BY <1>0, <1>1, <2>1 DEF Attending, At, File
  <2>3. \A a \in Files : job'[a] = "RUNNING" => a # File(w) /\ job[a] = "RUNNING"
    BY <1>1
  <2>4. \A a \in Files : job'[a] = "RUNNING" => \E v \in Workers : ~At(v, "idle")' /\ File(v)' = a
    <3> SUFFICES ASSUME NEW a \in Files, job'[a] = "RUNNING"
                 PROVE  \E v \in Workers : ~At(v, "idle")' /\ File(v)' = a
      OBVIOUS
    <3>1. PICK v \in Workers : ~At(v, "idle") /\ File(v) = a /\ v # w
      BY <1>0, <2>1, <2>3 DEF Attending
    <3> QED BY <1>1, <3>1 DEF At, File
  <2>5. \A v \in Workers : ~At(v, "idle")' => job'[File(v)'] = "RUNNING"
    BY <1>0, <1>1, <2>1, <2>2 DEF Attending, Knows
  <2>6. \A u, v \in Workers : ~At(u, "idle")' /\ ~At(v, "idle")' /\ File(u)' = File(v)' => u = v
    BY <1>0, <2>1, <2>2 DEF Attending
  <2>7. \A v \in Workers : At(v, "commit")' => worker'[v].to # "keep"
    <3> SUFFICES ASSUME NEW v \in Workers, At(v, "commit")' PROVE worker'[v].to # "keep"
      OBVIOUS
    <3>1. ~At(v, "idle")'
      BY DEF At
    <3> QED BY <1>0, <2>1, <2>2, <3>1 DEF Attending
  <2> QED BY <2>4, <2>5, <2>6, <2>7 DEF Attending
<1>4. /\ opened' \in BOOLEAN /\ faults' \in 0..MaxFaults /\ faults <= faults'
      /\ race' \in {"none", "overlap", "crossed"} /\ tries' \in [Files -> 0..MaxAttempts]
  BY <1>0, <1>1, InboundAssumption DEF TypeOK
<1>5. \A v \in Workers : worker'[v].pc = "commit" => worker'[v] = worker[v]
  BY <1>1
<1> QED BY <1>1, <1>2, <1>3, <1>4, <1>5, Quiet

\* finish_job and its fold, written.
LEMMA FinishSums ==
  ASSUME IInv, SInv, IInv', Stands, NEW w \in Workers, Finish(w)
  PROVE  SInv'
<1> DEFINE a == File(w)
           to == IF job[a] # "RUNNING" THEN "keep"
                 ELSE IF worker[w].status = "rejected" THEN "REJECTED" ELSE "SUCCEEDED"
           moves == to # "keep"
           j == [job EXCEPT ![a] = IF moves THEN to ELSE @]
           s == [said EXCEPT ![a] = IF moves THEN worker[w].status ELSE @]
           n == [names EXCEPT ![a] = IF moves THEN worker[w].named ELSE @]
           fold == Fold(j, s, n)
<1>0. /\ ~At(w, "idle") /\ ~At(w, "commit") /\ UNCHANGED <<receiptVars, jobVars, raw>>
      /\ worker \in [Workers -> Tasks] /\ worker[w] \in Tasks /\ TypeOK
  BY DEF Finish, At, IInv, SInv, Rows
<1>1. \/ Fails(w) /\ UNCHANGED seen
      \/ ~(fold = {} \/ (moves /\ worker[w].status \notin Statuses)) /\ \E k \in fold : Writes(w, to, k)
  BY DEF Finish
<1>2. CASE Fails(w) /\ UNCHANGED seen
  <2>1. /\ worker'[w].pc = "failing" /\ worker'[w].file = File(w)
        /\ \A v \in Workers : v # w => worker'[v] = worker[v]
    BY <1>0, <1>2 DEF Fails, Rest, File
  <2>2. /\ UNCHANGED <<folded, job, tries, recoveries, said, names, race, receipt, faults>>
        /\ opened' \in BOOLEAN
    BY <1>0, <1>2 DEF receiptVars, jobVars, seen, TypeOK
  <2> QED BY <1>0, <2>1, <2>2, TaskSums
<1>3. ASSUME NEW k \in fold, Writes(w, to, k), moves => worker[w].status \in Statuses
      PROVE  SInv'
  <2>1. /\ to \in {"keep", "SUCCEEDED", "REJECTED", "DEAD_LETTER"} /\ to # "DEAD_LETTER"
        /\ to # "keep" <=> job[File(w)] = "RUNNING"
        /\ moves <=> to \in {"SUCCEEDED", "REJECTED"}
    OBVIOUS
  <2>2. j = [job EXCEPT ![File(w)] = IF to = "keep" THEN @ ELSE to]
    <3> HIDE DEF to
    <3> QED OBVIOUS
  <2>3. s = [said EXCEPT ![File(w)] = IF to \in {"SUCCEEDED", "REJECTED"} THEN worker[w].status ELSE @]
    <3> HIDE DEF to
    <3> QED BY <2>1
  <2>4. to \in {"SUCCEEDED", "REJECTED"} => worker[w].status \in Statuses
    BY <1>3, <2>1
  <2>5. k \in Fold(j, s, n)
    BY <1>3
  <2> HIDE DEF to, j, s, n, fold, moves
  <2> QED BY <1>0, <1>3, <2>1, <2>2, <2>3, <2>4, <2>5, FoldForesees
<1> QED BY <1>1, <1>2, <1>3

\* fail_attempt of the last attempt, written; while nothing is lost and nothing
\* landed its fold is never refused.
LEMMA GiveUpSums ==
  ASSUME IInv, SInv, IInv', Stands, NEW w \in Workers, GiveUp(w)
  PROVE  SInv'
<1> DEFINE a == File(w)
           j == [job EXCEPT ![a] = "DEAD_LETTER"]
           fold == Fold(j, said, names)
<1>0. /\ ~At(w, "idle") /\ ~At(w, "commit") /\ UNCHANGED <<receiptVars, jobVars, raw>>
      /\ worker \in [Workers -> Tasks] /\ worker[w] \in Tasks /\ TypeOK /\ Rows
      /\ job[a] = "RUNNING" /\ tries[a] >= MaxAttempts /\ a \in Files
      /\ ReceiptOverJobsOver
  BY DEF GiveUp, At, IInv, SInv, Rows, Exhausted, Knows
<1>1. \/ fold = {} /\ Rests(w) /\ UNCHANGED seen
      \/ \E k \in fold : Writes(w, "DEAD_LETTER", k)
  BY DEF GiveUp
<1>2. CASE fold = {} /\ Rests(w) /\ UNCHANGED seen
  <2>1. /\ worker'[w].pc = "idle"
        /\ \A v \in Workers : v # w => worker'[v] = worker[v]
    BY <1>0, <1>2, AtRest DEF Rests
  <2>2. /\ UNCHANGED <<folded, job, tries, recoveries, said, names, race, receipt, faults, raw>>
        /\ opened' \in BOOLEAN
    BY <1>0, <1>2 DEF receiptVars, jobVars, seen, TypeOK
  <2>3. ~Clean'
    <3> SUFFICES ASSUME Clean PROVE FALSE
      BY <2>2 DEF Clean
    <3>1. Verdict(j, said) = "FAILED"
      BY <1>0 DEF Verdict, Rows
    <3>2. Coherent("FAILED", said, names)
      BY DEF Coherent, Clean
    <3>3. Writable(Key("FAILED"))
      <4>1. receipt \notin ReceiptTerminal
        BY <1>0 DEF ReceiptOverJobsOver, Settled, JobSettled, Clean
      <4> QED BY <1>0, <4>1 DEF Writable, Key, TypeOK
    <3>4. <<"wait", 0>> \in fold \/ Key("FAILED") \in fold
      <4> HIDE DEF j
      <4> QED BY <3>1, <3>2, <3>3 DEF Fold
    <3> QED BY <1>2, <3>4
  <2> QED BY <1>0, <2>1, <2>2, <2>3, TaskSums
<1>3. ASSUME NEW k \in fold, Writes(w, "DEAD_LETTER", k)
      PROVE  SInv'
  <2>1. tries[a] = MaxAttempts
    <3>1. tries[a] \in 0..MaxAttempts /\ MaxAttempts \in Nat
      BY <1>0, InboundAssumption DEF TypeOK
    <3> QED BY <1>0, <3>1
  <2>2. /\ j = [job EXCEPT ![File(w)] = IF "DEAD_LETTER" = "keep" THEN @ ELSE "DEAD_LETTER"]
        /\ said = [said EXCEPT ![File(w)] =
                     IF "DEAD_LETTER" \in {"SUCCEEDED", "REJECTED"} THEN worker[w].status ELSE @]
    BY <1>0 DEF Rows
  <2>3. k \in Fold(j, said, names)
    BY <1>3
  <2> HIDE DEF j, fold
  <2> QED BY <1>0, <1>3, <2>1, <2>2, <2>3, FoldForesees
<1> QED BY <1>1, <1>2, <1>3

\* The commit does what its worker foresaw.
LEMMA CommitSums ==
  ASSUME IInv, SInv, IInv', NEW w \in Workers, Commit(w)
  PROVE  SInv'
<1> DEFINE a == File(w)
           to == worker[w].to
           k == worker[w].fold
<1>0. /\ TypeOK /\ Silent /\ Alone /\ Counted /\ Attending /\ ReceiptTellsJobs
      /\ Rows /\ Rows' /\ Knows /\ Locks /\ Locks' /\ ReceiptOverJobsOver
      /\ At(w, "commit") /\ Foresees(w) /\ a \in Files /\ worker[w] \in Tasks
      /\ \A v \in Workers : At(v, "commit") => Foresees(v)
  BY DEF IInv, SInv, Commit, Knows, Rows, At
<1>1. /\ to \in {"keep", "SUCCEEDED", "REJECTED", "DEAD_LETTER"}
      /\ k[1] \in {"wait"} \cup ReceiptTerminal /\ k[2] \in Nat /\ k = <<k[1], k[2]>>
      /\ to # "keep" => job[a] = "RUNNING"
      /\ to = "DEAD_LETTER" => tries[a] = MaxAttempts
      /\ to \in {"SUCCEEDED", "REJECTED"} => worker[w].status \in Statuses
      /\ to = "REJECTED" => worker[w].status = "rejected"
  BY <1>0 DEF Tasks, Locks, Foresees, Told, Knows, At
<1>2. /\ \A b \in Files : b # a => job'[b] = job[b] /\ said'[b] = said[b] /\ names'[b] = names[b]
      /\ job'[a] = IF to = "keep" THEN job[a] ELSE to
      /\ said'[a] = IF to \in {"SUCCEEDED", "REJECTED"} THEN worker[w].status ELSE said[a]
      /\ names' \in [Files -> BOOLEAN]
      /\ worker'[w] = Rest /\ \A v \in Workers : v # w => worker'[v] = worker[v]
      /\ UNCHANGED <<opened, tries, recoveries, raw, faults, race>>
      /\ \/ (k[1] = "wait" \/ k \in folded) /\ receipt' = receipt /\ folded' = folded
         \/ /\ k[1] # "wait" /\ k \notin folded /\ Writable(k)
            /\ receipt' = k[1] /\ folded' = folded \cup {k}
  BY <1>0 DEF Commit, Rests, Rows, TypeOK, Tasks, seen
<1>3. Generation' = Generation /\ Generation \in Nat
  BY <1>2, GenerationCounts
<1>4. TypeOK'
  <2>1. \A b \in Files : said'[b] \in Statuses \cup {"none"}
    BY <1>0, <1>1, <1>2 DEF TypeOK
  <2>2. \A b \in Files : job'[b] = "DEAD_LETTER" => tries'[b] = MaxAttempts
    BY <1>0, <1>1, <1>2 DEF TypeOK
  <2>3. folded' \subseteq Keys
    <3>1. k[1] # "wait" => k \in Keys
      BY <1>0 DEF Tasks, Keys, ReceiptTerminal
    <3> HIDE DEF k
    <3> QED BY <1>0, <1>2, <3>1 DEF TypeOK
  <2>4. \A v \in Workers : worker'[v].pc \in Pcs /\ worker'[v].file \in Files \cup {NoFile}
    BY <1>0 DEF Rows, Tasks
  <2>5. said' \in [Files -> Statuses \cup {"none"}]
    BY <1>0, <2>1 DEF Rows
  <2> QED BY <1>0, <1>2, <2>2, <2>3, <2>4, <2>5 DEF TypeOK, Rows, JobStates, RawStates, File
<1>5. Silent'
  BY <1>0, <1>1, <1>2 DEF Silent
<1>6. Alone'
  BY <1>0, <1>2, AtRest DEF Alone, At
<1>7. /\ k[1] # "wait" => k[2] <= Generation /\ (race = "none" => k[2] = Generation)
      /\ k[1] = "LANDED" => \E b \in Files : raw[b] = "LANDED"
  BY <1>0 DEF Foresees
<1>8. Counted'
  BY <1>0, <1>1, <1>2, <1>3, <1>7 DEF Counted
<1>9. Clean' <=> Clean
  BY <1>2 DEF Clean
<1>10. race = "none" /\ to # "keep" /\ k[1] # "wait" => receipt' = k[1]
  <2> SUFFICES ASSUME race = "none", to # "keep", k[1] # "wait" PROVE receipt' = k[1]
    OBVIOUS
  <2>1. receipt \notin ReceiptTerminal
    BY <1>0, <1>1 DEF ReceiptOverJobsOver, Settled, JobSettled
  <2>2. k \notin folded
    BY <1>0, <1>1, <1>3, <1>7, <2>1 DEF Counted
  <2> QED BY <1>2, <2>2
<1>11. ReceiptTellsJobs'
  <2> SUFFICES ASSUME Settled(job)', race = "none"
               PROVE  /\ Outcomes(said)' = {"landed"} => receipt' = "LANDED"
                      /\ Clean /\ Outcomes(said)' # {"observed"} => receipt' \in ReceiptTerminal
    BY <1>2, <1>9 DEF ReceiptTellsJobs, Clean
  <2>1. CASE to = "keep"
    <3>1. \A b \in Files : job'[b] = job[b] /\ said'[b] = said[b]
      BY <1>2, <2>1
    <3>2. Settled(job) /\ Outcomes(said)' = Outcomes(said)
      BY <3>1 DEF Settled, Outcomes
    <3>3. receipt \in ReceiptTerminal => receipt' = receipt
      BY <1>2 DEF Writable, ReceiptTerminal
    <3> QED BY <1>0, <1>2, <3>2, <3>3 DEF ReceiptTellsJobs, Clean, ReceiptTerminal
  <2>2. CASE to # "keep"
    <3>1. /\ \A b \in Files : Jobs(w)[b] = job'[b] /\ Sayings(w)[b] = said'[b]
          /\ Settled(Jobs(w)) /\ Outcomes(Sayings(w)) = Outcomes(said)'
      <4>1. \A b \in Files : Jobs(w)[b] = job'[b] /\ Sayings(w)[b] = said'[b]
        BY <1>0, <1>2, <2>2 DEF Jobs, Sayings, Told, Rows
      <4> QED BY <4>1 DEF Settled, Outcomes
    <3>2. /\ Outcomes(said)' = {"landed"} => k[1] = "LANDED"
          /\ Clean /\ Outcomes(said)' # {"observed"} => k[1] # "wait"
      BY <1>0, <2>2, <3>1 DEF Foresees
    <3> QED BY <1>1, <1>10, <2>2, <3>2
  <2> QED BY <2>1, <2>2
<1>12. Attending'
  <2> SUFFICES ASSUME Clean PROVE Attending'
    BY <1>9 DEF Attending
  <2>1. to # "keep" /\ job'[a] = to /\ to # "RUNNING"
    BY <1>0, <1>1, <1>2 DEF Attending
  <2>2. \A v \in Workers : ~At(v, "idle")' =>
          /\ v # w /\ ~At(v, "idle") /\ File(v)' = File(v) /\ File(v) # a
          /\ (At(v, "commit")' <=> At(v, "commit")) /\ worker'[v] = worker[v]
    BY <1>0, <1>2, AtRest DEF Attending, At, File
  <2>3. \A b \in Files : job'[b] = "RUNNING" => \E v \in Workers : ~At(v, "idle")' /\ File(v)' = b
    <3> SUFFICES ASSUME NEW b \in Files, job'[b] = "RUNNING"
                 PROVE  \E v \in Workers : ~At(v, "idle")' /\ File(v)' = b
      OBVIOUS
    <3>1. b # a /\ job[b] = "RUNNING"
      BY <1>2, <2>1
    <3>2. PICK v \in Workers : ~At(v, "idle") /\ File(v) = b /\ v # w
      BY <1>0, <3>1 DEF Attending
    <3> QED BY <1>2, <3>2 DEF At, File
  <2>4. \A v \in Workers : ~At(v, "idle")' => job'[File(v)'] = "RUNNING"
    BY <1>0, <1>2, <2>2 DEF Attending, Knows
  <2>5. \A u, v \in Workers : ~At(u, "idle")' /\ ~At(v, "idle")' /\ File(u)' = File(v)' => u = v
    BY <1>0, <2>2 DEF Attending
  <2>6. \A v \in Workers : At(v, "commit")' => worker'[v].to # "keep"
    <3> SUFFICES ASSUME NEW v \in Workers, At(v, "commit")' PROVE worker'[v].to # "keep"
      OBVIOUS
    <3>1. ~At(v, "idle")'
      BY DEF At
    <3> QED BY <1>0, <2>2, <3>1 DEF Attending
  <2> QED BY <2>3, <2>4, <2>5, <2>6 DEF Attending
<1>13. ASSUME NEW v \in Workers, At(v, "commit")'
       PROVE  Foresees(v)'
  <2>1. v # w /\ At(v, "commit") /\ worker'[v] = worker[v] /\ race # "none" /\ Foresees(v)
    BY <1>0, <1>2, <1>13, AtRest DEF At, Alone
  <2> QED BY <1>2, <1>3, <2>1 DEF Foresees, Told, File
<1> QED BY <1>4, <1>5, <1>6, <1>8, <1>11, <1>12, <1>13 DEF SInv

\* Every step keeps the second invariant, too.
LEMMA NextSums ==
  ASSUME IInv, SInv, IInv', Stands, Next
  PROVE  SInv'
<1>1. CASE EnqueueManifest \/ \E a \in Files : Claim(a) \/ Sweep(a)
  BY <1>1, QueueSums
<1>2. CASE \E a \in Files : Recover(a)
  BY <1>2, RecoverSums
<1>3. ASSUME NEW w \in Workers, Advance(w) \/ Fault(w)
      PROVE  SInv'
  <2>1. CASE Retry(w)
    BY <2>1, RetrySums
  <2>2. CASE Finish(w)
    BY <2>2, FinishSums
  <2>3. CASE GiveUp(w)
    BY <2>3, GiveUpSums
  <2>4. CASE Commit(w)
    BY <2>4, CommitSums
  <2>5. CASE \/ Open(w) \/ MustRetry(w) \/ AlreadyOver(w) \/ Refuse(w) \/ FileFails(w)
             \/ Intend(w) \/ Accept(w) \/ Ingest(w) \/ IngestUncertain(w) \/ Unexpected(w)
             \/ UnexpectedLost(w) \/ FinishLost(w) \/ CommitRaises(w) \/ Die(w)
    BY <2>5, FileSums
  <2> QED BY <1>3, <2>1, <2>2, <2>3, <2>4, <2>5 DEF Advance, Fault
<1> QED BY <1>1, <1>2, <1>3 DEF Next

\* Nor does the second invariant read anything else.
LEMMA SStutterOK ==
  ASSUME SInv, UNCHANGED vars
  PROVE  SInv'
<1>1. /\ UNCHANGED <<receipt, opened, folded, job, tries, recoveries, said, names, raw>>
      /\ UNCHANGED <<worker, faults, race>>
  BY DEF vars, receiptVars, jobVars, seen
<1>2. Generation' = Generation
  BY <1>1, GenerationCounts
<1>3. TypeOK' /\ Silent' /\ Alone' /\ Counted'
  BY <1>1, <1>2 DEF SInv, TypeOK, Silent, Alone, Counted, At, File
<1>4. Attending' /\ ReceiptTellsJobs'
  BY <1>1 DEF SInv, Attending, ReceiptTellsJobs, Clean, Settled, Outcomes, At, File
<1>5. \A w \in Workers : At(w, "commit")' => Foresees(w)'
  BY <1>1, <1>2 DEF SInv, Foresees, Clean, Settled, Outcomes, Jobs, Sayings, Told, At, File
<1> QED BY <1>3, <1>4, <1>5 DEF SInv

\* The second invariant, on top of the first.
THEOREM SumInvariance == Spec => []SInv
<1>1. IInv /\ SInv /\ [Next]_vars => SInv'
  BY NextOK, NextSums, SStutterOK
<1> QED BY <1>1, SInitOK, Invariance, PTL DEF Spec

\* Every row keeps its type: no job runs more often than its attempts, a dead letter
\* has used them all, and no more recoveries are counted than were made.
THEOREM RowsTypeCorrect == Spec => []TypeOK
<1>1. SInv => TypeOK
  BY DEF SInv
<1> QED BY <1>1, SumInvariance, PTL

\* Once its jobs are over the receipt tells their sum, after any number of retries
\* and recoveries, as long as no two transactions met: LANDED when every job says
\* so, and an end when nothing landed and no attempt was lost.
THEOREM ReceiptTellsTheSum == Spec => []ReceiptTellsJobs
<1>1. SInv => ReceiptTellsJobs
  BY DEF SInv
<1> QED BY <1>1, SumInvariance, PTL
=============================================================================
