--------------------------- MODULE CurrentProofs ---------------------------
(***************************************************************************)
(* The Current of a Datastream, for any number of candidates, workers,     *)
(* reviewers and requests: the log stays a chain, a run is published once, *)
(* a review replaces what it showed, outputs name rows that are served     *)
(* once, and a job agrees with its run.  A step either leaves alone what   *)
(* has been published (Quiet) or appends one entry to the log.             *)
(***************************************************************************)
EXTENDS Current, SequenceTheorems, TLAPS

-----------------------------------------------------------------------------
(* The inductive invariant.                                                *)

\* A busy worker is alone with a running job, lands less often than it claimed,
\* and books a dead letter only once the run is over; a run that does not exist
\* has no job.
Held ==
  /\ \A w \in Workers : ~Busy(w, "idle") =>
       worker[w].run \in Runs /\ job[worker[w].run] = "running"
  /\ \A w, v \in Workers :
       ~Busy(w, "idle") /\ ~Busy(v, "idle") /\ worker[w].run = worker[v].run => w = v
  /\ \A w \in Workers : worker[w].pc \in {"context", "adapter"} =>
       cand[worker[w].run] < tries[worker[w].run]
  /\ \A w \in Workers : Busy(w, "booking") =>
       run[worker[w].run] \notin RunActive \/ worker[w].run \in lost
  /\ \A r \in Runs : run[r] = "absent" => job[r] = "none"

\* The outputs name published runs, which is why no merge touches their rows.
Shown ==
  \A r \in Runs : shows[r] # NoRun =>
    shows[r] \in Runs /\ shared[shows[r]] = 1 /\ run[shows[r]] = "published"

\* A confirmation that was issued and a button that was pressed name a run.
Asked ==
  /\ \A c \in Confs : conf[c].state # "none" => conf[c].run \in Runs
  /\ ~Pressed("idle") => button.run \in Runs

Work == CandidatesTypeOK /\ Held /\ JobAndRunAgree
History == LogIsChain /\ PublishedOnce /\ Shown /\ ReviewReplacesWhatItShowed
CInv == TypeOK /\ Asked /\ Work /\ History

\* The types of what the doors write.
DoorTypes ==
  /\ shared \in [Runs -> 0..MaxAttempts]
  /\ pointer \in Runs \cup {NoRun}
  /\ log \in Seq(Entries)
  /\ shows \in [Runs -> Runs \cup {NoRun}]
  /\ conf \in [Confs -> Confirmations]
  /\ post \in [Posts -> Confirmations]
  /\ button \in [pc : {"idle", "commit", "mark"}, run : Runs \cup {NoRun}]

\* The types of the state are those of the queue and those of the doors.
LEMMA TypeParts == TypeOK <=> CandidatesTypeOK /\ DoorTypes
BY DEF TypeOK, DoorTypes

\* What every step but a publication does to what has been published.
Quiet ==
  /\ UNCHANGED <<pointer, log, shows>>
  /\ \A r \in Runs : (run'[r] = "published") <=> (run[r] = "published")
  /\ \A r \in Runs : run[r] = "published" => shared'[r] = shared[r]
  /\ \A c \in Confs : (conf'[c].state = "used") <=> (conf[c].state = "used")
  /\ \A c \in Confs : conf[c].state = "used" => conf'[c] = conf[c]

\* What a step of the doors does to the work of the queue.
Aside ==
  /\ UNCHANGED <<job, tries, lost, worker>>
  /\ \A r \in Runs :
       /\ cand'[r] <= cand[r]
       /\ run'[r] \in Resumable => run[r] \in Resumable
       /\ run'[r] \in RunActive => run[r] \in RunActive
       /\ run'[r] = "absent" => run[r] = "absent"

-----------------------------------------------------------------------------
(* What the two abstractions preserve.                                     *)

\* The tables before the first request satisfy the invariant.
LEMMA InitOK == Init => CInv
<1> SUFFICES ASSUME Init PROVE CInv
  OBVIOUS
<1> USE DEF Init, CandidatesInit
<1>1. CandidatesTypeOK /\ Held /\ JobAndRunAgree
  BY CandidateAssumption
  DEF CandidatesTypeOK, Held, JobAndRunAgree, RunStates, RunActive, JobStates, WorkPcs,
      NoWork, Busy, Resumable
<1>2. DoorTypes /\ Asked
  BY CandidateAssumption
  DEF DoorTypes, Asked, Confirmations, NoConf, Unpressed, Pressed, Entries
<1>3. LogIsChain /\ PublishedOnce /\ Shown /\ ReviewReplacesWhatItShowed
  BY DEF LogIsChain, PublishedOnce, Shown, ReviewReplacesWhatItShowed, NoConf
<1> QED BY <1>1, <1>2, <1>3, TypeParts DEF CInv, Work, History

\* A step that publishes nothing keeps the history.
LEMMA QuietKeepsHistory ==
  ASSUME History, Quiet
  PROVE  History'
<1>1. LogIsChain'
  BY DEF History, Quiet, LogIsChain
<1>2. PublishedOnce'
  BY DEF History, Quiet, PublishedOnce
<1>3. Shown'
  BY DEF History, Quiet, Shown
<1>4. ReviewReplacesWhatItShowed'
  BY DEF History, Quiet, ReviewReplacesWhatItShowed
<1> QED BY <1>1, <1>2, <1>3, <1>4 DEF History

\* A step that takes nothing from the queue keeps the work of the queue.
LEMMA AsideKeepsWork ==
  ASSUME Work, Aside,
         run' \in [Runs -> RunStates], cand' \in [Runs -> 0..MaxAttempts],
         ledger' \in [Runs -> {"none", "written", "published"}]
  PROVE  Work'
<1> USE CandidateAssumption DEF Work, Aside
<1>1. CandidatesTypeOK'
  BY DEF CandidatesTypeOK
<1>2. Held'
  <2>1. \A w \in Workers : worker[w].pc \in {"context", "adapter"} =>
          cand'[worker[w].run] < tries[worker[w].run]
    <3> SUFFICES ASSUME NEW w \in Workers, worker[w].pc \in {"context", "adapter"}
                 PROVE  cand'[worker[w].run] < tries[worker[w].run]
      OBVIOUS
    <3>1. worker[w].run \in Runs /\ cand[worker[w].run] < tries[worker[w].run]
      BY DEF Held, Busy
    <3> QED BY <3>1 DEF CandidatesTypeOK
  <2>2. \A w \in Workers : Busy(w, "booking") =>
          run'[worker[w].run] \notin RunActive \/ worker[w].run \in lost
    BY DEF Held, Busy
  <2> QED BY <2>1, <2>2 DEF Held, Busy
<1>3. JobAndRunAgree'
  BY DEF JobAndRunAgree
<1> QED BY <1>1, <1>2, <1>3

-----------------------------------------------------------------------------
(* The steps of the queue.                                                 *)

\* What every step of the queue does to the runs: none is published by it, and
\* none that was is taken back.
Decides ==
  /\ run' \in [Runs -> RunStates]
  /\ \A r \in Runs : (run'[r] = "published") <=> (run[r] = "published")

\* A busy worker stands on a run that exists and whose job is running.
LEMMA BusyKnowsItsRun ==
  ASSUME Work, NEW w \in Workers, ~Busy(w, "idle")
  PROVE  worker[w].run \in Runs /\ job[worker[w].run] = "running"
BY DEF Work, Held

\* enqueue_activation_work keeps the work of the queue.
LEMMA EnqueueStep ==
  ASSUME Work, NEW r \in Runs, Materialize(r) \/ CreateBare(r)
  PROVE  Work' /\ Decides
<1>1. run[r] = "absent" /\ job[r] = "none" /\ job'[r] \in {"none", "queued"}
  BY DEF Work, Held, Materialize, CreateBare, CreateExecution, jobVars, CandidatesTypeOK
<1>2. /\ run' = [run EXCEPT ![r] = "created"]
      /\ job' \in [Runs -> JobStates] /\ \A x \in Runs \ {r} : job'[x] = job[x]
      /\ UNCHANGED <<tries, ledger, cand, lost, worker>>
  BY <1>1 DEF Materialize, CreateBare, CreateExecution, jobVars, Work, CandidatesTypeOK, JobStates
<1>3. CandidatesTypeOK' /\ Decides
  BY <1>1, <1>2 DEF Work, CandidatesTypeOK, Decides, RunStates, RunActive
<1>4. Held'
  <2>1. \A w \in Workers : ~Busy(w, "idle") => worker[w].run \in Runs \ {r}
    BY <1>1, BusyKnowsItsRun
  <2> QED BY <1>1, <1>2, <2>1 DEF Work, Held, Busy, CandidatesTypeOK
<1>5. JobAndRunAgree'
  BY <1>1, <1>2 DEF Work, JobAndRunAgree, CandidatesTypeOK, RunActive, Resumable
<1> QED BY <1>3, <1>4, <1>5 DEF Work

\* _dequeue_activation_job gives a job that nobody holds.
LEMMA ClaimStep ==
  ASSUME Work, NEW w \in Workers, NEW r \in Runs, Claim(w, r)
  PROVE  Work' /\ Decides
<1> USE CandidateAssumption
<1>1. /\ Busy(w, "idle") /\ job[r] \in {"queued", "failed"} /\ tries[r] < MaxAttempts
      /\ job' = [job EXCEPT ![r] = "running"]
      /\ tries' = [tries EXCEPT ![r] = @ + 1]
      /\ worker' = [worker EXCEPT ![w] = [pc |-> "context", run |-> r]]
      /\ UNCHANGED <<run, ledger, cand, lost>>
  BY DEF Claim, Claimable
<1>2. CandidatesTypeOK' /\ Decides
  BY <1>1 DEF Work, CandidatesTypeOK, Decides, JobStates, WorkPcs
<1>3. Held'
  <2>1. \A v \in Workers : ~Busy(v, "idle") => worker[v].run \in Runs \ {r}
    BY <1>1, BusyKnowsItsRun
  <2>2. worker'[w] = [pc |-> "context", run |-> r] /\ \A v \in Workers \ {w} : worker'[v] = worker[v]
    BY <1>1 DEF Work, CandidatesTypeOK
  <2>3. \A v \in Workers : ~(Busy(v, "idle")') =>
          worker'[v].run \in Runs /\ job'[worker'[v].run] = "running"
    BY <1>1, <2>1, <2>2 DEF Work, Held, Busy, CandidatesTypeOK
  <2>4. \A u, v \in Workers :
          ~(Busy(u, "idle")') /\ ~(Busy(v, "idle")') /\ worker'[u].run = worker'[v].run => u = v
    BY <2>1, <2>2 DEF Work, Held, Busy
  <2>5. cand'[r] < tries'[r] /\ \A x \in Runs \ {r} : tries'[x] = tries[x]
    BY <1>1 DEF Work, CandidatesTypeOK
  <2>6. \A v \in Workers : worker'[v].pc \in {"context", "adapter"} =>
          cand'[worker'[v].run] < tries'[worker'[v].run]
    BY <1>1, <2>1, <2>2, <2>5 DEF Work, Held, Busy
  <2>7. \A v \in Workers : Busy(v, "booking")' =>
          run'[worker'[v].run] \notin RunActive \/ worker'[v].run \in lost'
    BY <1>1, <2>2 DEF Work, Held, Busy
  <2>8. \A x \in Runs : run'[x] = "absent" => job'[x] = "none"
    BY <1>1 DEF Work, Held, CandidatesTypeOK
  <2> QED BY <2>3, <2>4, <2>6, <2>7, <2>8 DEF Held
<1>4. JobAndRunAgree'
  BY <1>1 DEF Work, JobAndRunAgree, CandidatesTypeOK
<1> QED BY <1>2, <1>3, <1>4 DEF Work

\* A busy worker goes on with its run, or rests.
LEMMA OnWithItsRun ==
  ASSUME Work, NEW w \in Workers, ~Busy(w, "idle"), NEW pc \in WorkPcs \ {"idle"},
         worker' \in {[worker EXCEPT ![w].pc = pc], [worker EXCEPT ![w] = NoWork]}
  PROVE  /\ worker' \in [Workers -> [pc : WorkPcs, run : Runs \cup {NoRun}]]
         /\ \A v \in Workers : ~(Busy(v, "idle")') =>
              ~Busy(v, "idle") /\ worker'[v].run = worker[v].run
         /\ \A v \in Workers \ {w} : worker'[v] = worker[v]
         /\ worker'[w].pc \in {pc, "idle"}
<1>1. worker[w].run \in Runs
  BY BusyKnowsItsRun
<1> QED BY <1>1 DEF Work, CandidatesTypeOK, WorkPcs, NoWork, Busy

\* The part of the invariant a worker's step can disturb is about its own run.
LEMMA WorkerHolds ==
  ASSUME Work, NEW w \in Workers, ~Busy(w, "idle"), NEW pc \in WorkPcs \ {"idle", "context"},
         worker' \in {[worker EXCEPT ![w].pc = pc], [worker EXCEPT ![w] = NoWork]},
         \A x \in Runs \ {worker[w].run} : job'[x] = job[x] /\ cand'[x] = cand[x],
         job'[worker[w].run] = "running" \/ Busy(w, "idle")',
         pc = "adapter" => Busy(w, "context") /\ cand' = cand,
         Busy(w, "booking")' =>
           run'[worker[w].run] \notin RunActive \/ worker[w].run \in lost',
         tries' = tries, lost \subseteq lost',
         \A x \in Runs : /\ run'[x] \in RunActive => run[x] \in RunActive
                         /\ run'[x] = "absent" => run[x] = "absent"
  PROVE  Held'
<1> DEFINE r == worker[w].run
<1>1. r \in Runs /\ job[r] = "running"
  BY BusyKnowsItsRun
<1>2. /\ \A v \in Workers : ~(Busy(v, "idle")') =>
              ~Busy(v, "idle") /\ worker'[v].run = worker[v].run
      /\ \A v \in Workers \ {w} : worker'[v] = worker[v]
      /\ worker'[w].pc \in {pc, "idle"}
  BY OnWithItsRun
<1>3. \A v \in Workers \ {w} : ~Busy(v, "idle") => worker[v].run \in Runs \ {r}
  BY <1>1 DEF Work, Held
<1>4. \A v \in Workers : ~(Busy(v, "idle")') =>
        worker'[v].run \in Runs /\ job'[worker'[v].run] = "running"
  BY <1>1, <1>2, <1>3, BusyKnowsItsRun
<1>5. \A u, v \in Workers :
        ~(Busy(u, "idle")') /\ ~(Busy(v, "idle")') /\ worker'[u].run = worker'[v].run => u = v
  BY <1>2 DEF Work, Held
<1>6. \A v \in Workers : worker'[v].pc \in {"context", "adapter"} =>
        cand'[worker'[v].run] < tries'[worker'[v].run]
  <2> SUFFICES ASSUME NEW v \in Workers, worker'[v].pc \in {"context", "adapter"}
               PROVE  cand'[worker'[v].run] < tries'[worker'[v].run]
    OBVIOUS
  <2>1. CASE v = w
    <3>1. worker'[w].pc = "adapter" /\ worker'[w].run = r /\ cand' = cand /\ Busy(w, "context")
      BY <1>2, <2>1 DEF Busy
    <3> QED BY <2>1, <3>1 DEF Work, Held, Busy
  <2>2. CASE v # w
    <3>1. worker'[v] = worker[v] /\ worker[v].run \in Runs \ {r}
      BY <1>2, <1>3, <2>2 DEF Busy
    <3> QED BY <3>1 DEF Work, Held
  <2> QED BY <2>1, <2>2
<1>7. \A v \in Workers : Busy(v, "booking")' =>
        run'[worker'[v].run] \notin RunActive \/ worker'[v].run \in lost'
  <2> SUFFICES ASSUME NEW v \in Workers, Busy(v, "booking")'
               PROVE  run'[worker'[v].run] \notin RunActive \/ worker'[v].run \in lost'
    OBVIOUS
  <2>1. CASE v = w
    BY <1>2, <2>1 DEF Busy
  <2>2. CASE v # w
    <3>1. worker'[v] = worker[v] /\ Busy(v, "booking") /\ worker[v].run \in Runs
      BY <1>2, <1>3, <2>2 DEF Busy
    <3> QED BY <3>1 DEF Work, Held
  <2> QED BY <2>1, <2>2
<1>8. \A x \in Runs : run'[x] = "absent" => job'[x] = "none"
  BY <1>1 DEF Work, Held
<1> QED BY <1>4, <1>5, <1>6, <1>7, <1>8 DEF Held

\* A worker that rests with its job moved on leaves the others as they are.
LEMMA WorkerRests ==
  ASSUME Work, NEW w \in Workers, ~Busy(w, "idle"),
         worker' = [worker EXCEPT ![w] = NoWork],
         \A x \in Runs \ {worker[w].run} : job'[x] = job[x],
         UNCHANGED <<tries, cand, lost>>,
         \A x \in Runs : run'[x] \in RunActive => run[x] \in RunActive,
         \A x \in Runs : run'[x] = "absent" => run[x] = "absent"
  PROVE  Held'
<1>1. Busy(w, "idle")' /\ ~(Busy(w, "booking")')
  BY DEF Busy, NoWork, Work, CandidatesTypeOK
<1>2. "complete" \in WorkPcs \ {"idle", "context"} /\ "complete" # "adapter"
  BY DEF WorkPcs
<1>3. \A x \in Runs \ {worker[w].run} : job'[x] = job[x] /\ cand'[x] = cand[x]
  OBVIOUS
<1>4. /\ worker' \in {[worker EXCEPT ![w].pc = "complete"], [worker EXCEPT ![w] = NoWork]}
      /\ tries' = tries /\ lost \subseteq lost'
  OBVIOUS
<1>5. \A x \in Runs : /\ run'[x] \in RunActive => run[x] \in RunActive
                     /\ run'[x] = "absent" => run[x] = "absent"
  OBVIOUS
<1> QED BY <1>1, <1>2, <1>3, <1>4, <1>5, WorkerHolds

\* Every step of _execute_activation_job keeps the work of the queue.
LEMMA WorkerStep ==
  ASSUME Work, NEW w \in Workers, WorkerAdvances(w) \/ WorkerDies(w)
  PROVE  Work' /\ Decides
<1> DEFINE r == worker[w].run
<1> USE CandidateAssumption
<1>0. ~Busy(w, "idle")
  BY DEF WorkerAdvances, WorkerDies, ReadContext, Land, LandFails, Complete, CompleteRaises,
         FailRun, FailRunLost, BookFailure, Busy
<1>1. r \in Runs /\ job[r] = "running" /\ CandidatesTypeOK
  BY <1>0, BusyKnowsItsRun DEF Work
<1>2. CASE ReadContext(w)
  <2>1. PICK pc \in {"adapter", "failing"} :
          /\ Busy(w, "context") /\ worker' = [worker EXCEPT ![w].pc = pc]
          /\ UNCHANGED <<run, job, tries, ledger, cand, lost>>
    BY <1>2 DEF ReadContext, Turns
  <2>2. CandidatesTypeOK' /\ Decides
    BY <1>0, <1>1, <2>1, OnWithItsRun DEF CandidatesTypeOK, Decides, WorkPcs
  <2>3. Held'
    BY <1>0, <1>1, <2>1, WorkerHolds DEF WorkPcs, Busy, CandidatesTypeOK
  <2> QED BY <2>1, <2>2, <2>3 DEF Work, JobAndRunAgree
<1>3. CASE Land(w) \/ LandFails(w)
  <2>1. PICK pc \in {"complete", "failing"} :
          /\ Busy(w, "adapter") /\ worker' = [worker EXCEPT ![w].pc = pc]
          /\ UNCHANGED <<run, job, tries, lost>>
    BY <1>3 DEF Land, LandFails, Turns
  <2>2. cand[r] < tries[r]
    BY <2>1 DEF Work, Held, Busy
  <2>3. PICK n \in {0, 1} : cand' = [cand EXCEPT ![r] = @ + n]
    <3>1. CASE Land(w)
      <4>1. CASE ledger[r] = "none"
        BY <1>1, <3>1, <4>1 DEF Land, CandidatesTypeOK
      <4>2. CASE ledger[r] # "none"
        <5>1. cand' = [cand EXCEPT ![r] = cand[r]] /\ cand[r] + 0 = cand[r]
          BY <1>1, <3>1, <4>2 DEF Land, CandidatesTypeOK
        <5> QED BY <5>1
      <4> QED BY <4>1, <4>2
    <3>2. CASE LandFails(w)
      BY <1>1, <3>2 DEF LandFails
    <3> QED BY <1>3, <3>1, <3>2
  <2>4. ledger' \in [Runs -> {"none", "written", "published"}]
    BY <1>1, <1>3 DEF Land, LandFails, CandidatesTypeOK
  <2>5. CandidatesTypeOK' /\ Decides
    <3>1. worker' \in [Workers -> [pc : WorkPcs, run : Runs \cup {NoRun}]]
      BY <1>0, <1>1, <2>1, OnWithItsRun DEF WorkPcs
    <3>2. cand' \in [Runs -> 0..MaxAttempts] /\ \A x \in Runs : cand'[x] <= tries[x]
      BY <1>1, <2>2, <2>3 DEF CandidatesTypeOK
    <3> QED BY <1>1, <2>1, <2>4, <3>1, <3>2 DEF CandidatesTypeOK, Decides
  <2>6. Held'
    <3>1. \A x \in Runs \ {r} : cand'[x] = cand[x]
      BY <1>1, <2>3 DEF CandidatesTypeOK
    <3>2. Busy(w, "booking")' => FALSE
      BY <1>1, <2>1 DEF Busy, CandidatesTypeOK
    <3> QED BY <1>0, <1>1, <2>1, <3>1, <3>2, WorkerHolds DEF WorkPcs
  <2> QED BY <2>1, <2>5, <2>6 DEF Work, JobAndRunAgree
<1>4. CASE Complete(w)
  <2>1. PICK verdict \in {"ready", "failed"} : run' = [run EXCEPT ![r] = verdict]
    BY <1>4 DEF Complete
  <2>2. /\ run[r] \in Resumable /\ job' = [job EXCEPT ![r] = "done"]
        /\ worker' = [worker EXCEPT ![w] = NoWork]
        /\ UNCHANGED <<tries, ledger, cand, lost>>
    BY <1>4 DEF Complete, Rests
  <2>3. CandidatesTypeOK' /\ Decides
    <3>1. worker' \in [Workers -> [pc : WorkPcs, run : Runs \cup {NoRun}]]
      BY <1>1, <2>2 DEF CandidatesTypeOK, NoWork, WorkPcs
    <3> QED BY <1>1, <2>1, <2>2, <3>1
            DEF CandidatesTypeOK, Decides, RunStates, RunActive, RunTerminal, JobStates, Resumable
  <2>4. Held'
    <3>1. \A x \in Runs : run'[x] \in RunActive => run[x] \in RunActive
      BY <1>1, <2>1, <2>2 DEF CandidatesTypeOK, RunActive, Resumable
    <3>2. \A x \in Runs : run'[x] = "absent" => run[x] = "absent"
      BY <1>1, <2>1, <2>2 DEF CandidatesTypeOK, RunActive, Resumable
    <3>3. \A x \in Runs \ {r} : job'[x] = job[x]
      BY <1>1, <2>2 DEF CandidatesTypeOK
    <3> QED BY <1>0, <2>2, <3>1, <3>2, <3>3, WorkerRests
  <2>5. JobAndRunAgree'
    BY <1>1, <2>1, <2>2 DEF Work, JobAndRunAgree, CandidatesTypeOK, Resumable, RunActive
  <2> QED BY <2>3, <2>4, <2>5 DEF Work
<1>5. CASE CompleteRaises(w)
  <2>1. /\ worker' = [worker EXCEPT ![w].pc = "failing"]
        /\ UNCHANGED <<run, job, tries, ledger, cand, lost>>
    BY <1>5 DEF CompleteRaises, Turns
  <2>2. CandidatesTypeOK' /\ Decides
    BY <1>0, <1>1, <2>1, OnWithItsRun DEF CandidatesTypeOK, Decides, WorkPcs
  <2>3. Held'
    <3>1. "failing" \in WorkPcs \ {"idle", "context"} /\ ~(Busy(w, "booking")')
      BY <1>1, <2>1 DEF WorkPcs, Busy, CandidatesTypeOK
    <3>2. /\ worker' \in {[worker EXCEPT ![w].pc = "failing"], [worker EXCEPT ![w] = NoWork]}
          /\ "failing" # "adapter" /\ tries' = tries /\ lost \subseteq lost' /\ cand' = cand
      BY <2>1
    <3> QED BY <1>0, <1>1, <2>1, <3>1, <3>2, WorkerHolds
  <2> QED BY <2>1, <2>2, <2>3 DEF Work, JobAndRunAgree
<1>6. CASE FailRun(w)
  <2>1. /\ run' = [run EXCEPT ![r] = IF @ \in RunActive THEN "failed" ELSE @]
        /\ worker' = [worker EXCEPT ![w].pc = "booking"]
        /\ UNCHANGED <<job, tries, ledger, cand, lost>>
    BY <1>6 DEF FailRun, Turns
  <2>2. CandidatesTypeOK' /\ Decides
    <3>1. worker' \in [Workers -> [pc : WorkPcs, run : Runs \cup {NoRun}]]
      BY <1>0, <1>1, <2>1, OnWithItsRun DEF WorkPcs
    <3> QED BY <1>1, <2>1, <3>1 DEF CandidatesTypeOK, Decides, RunStates, RunActive, RunTerminal
  <2>3. Held'
    <3>1. /\ run'[r] \notin RunActive
          /\ \A x \in Runs : /\ run'[x] \in RunActive => run[x] \in RunActive
                             /\ run'[x] = "absent" => run[x] = "absent"
      BY <1>1, <2>1 DEF CandidatesTypeOK, RunActive
    <3>2. /\ worker' \in {[worker EXCEPT ![w].pc = "booking"], [worker EXCEPT ![w] = NoWork]}
          /\ "booking" \in WorkPcs \ {"idle", "context"} /\ "booking" # "adapter"
          /\ tries' = tries /\ lost \subseteq lost' /\ cand' = cand /\ job' = job
      BY <2>1 DEF WorkPcs
    <3> QED BY <1>0, <1>1, <3>1, <3>2, WorkerHolds
  <2>4. JobAndRunAgree'
    BY <1>1, <2>1 DEF Work, JobAndRunAgree, CandidatesTypeOK, Resumable, RunActive
  <2> QED BY <2>2, <2>3, <2>4 DEF Work
<1>7. CASE FailRunLost(w)
  <2>1. /\ lost' = lost \cup {r}
        /\ worker' = [worker EXCEPT ![w].pc = "booking"]
        /\ UNCHANGED <<run, job, tries, ledger, cand>>
    BY <1>7 DEF FailRunLost, Turns
  <2>2. CandidatesTypeOK' /\ Decides
    <3>1. worker' \in [Workers -> [pc : WorkPcs, run : Runs \cup {NoRun}]]
      BY <1>0, <1>1, <2>1, OnWithItsRun DEF WorkPcs
    <3> QED BY <1>1, <2>1, <3>1 DEF CandidatesTypeOK, Decides
  <2>3. Held'
    <3>2. /\ worker' \in {[worker EXCEPT ![w].pc = "booking"], [worker EXCEPT ![w] = NoWork]}
          /\ "booking" \in WorkPcs \ {"idle", "context"} /\ "booking" # "adapter"
          /\ tries' = tries /\ lost \subseteq lost' /\ cand' = cand /\ job' = job
          /\ run' = run /\ r \in lost'
      BY <2>1 DEF WorkPcs
    <3> QED BY <1>0, <1>1, <3>2, WorkerHolds
  <2>4. JobAndRunAgree'
    BY <2>1 DEF Work, JobAndRunAgree
  <2> QED BY <2>2, <2>3, <2>4 DEF Work
<1>8. CASE BookFailure(w)
  <2>1. PICK s \in {"dead_letter", "failed"} :
          /\ job' = [job EXCEPT ![r] = s]
          /\ s = "dead_letter" => Busy(w, "booking")
    <3>1. CASE Exhausted(r)
      BY <1>8, <3>1 DEF BookFailure
    <3>2. CASE ~Exhausted(r)
      BY <1>8, <3>2 DEF BookFailure
    <3> QED BY <3>1, <3>2
  <2>2. /\ worker' = [worker EXCEPT ![w] = NoWork]
        /\ UNCHANGED <<run, tries, ledger, cand, lost>>
    BY <1>8 DEF BookFailure, Rests
  <2>3. CandidatesTypeOK' /\ Decides
    <3>1. worker' \in [Workers -> [pc : WorkPcs, run : Runs \cup {NoRun}]]
      BY <1>1, <2>2 DEF CandidatesTypeOK, NoWork, WorkPcs
    <3> QED BY <1>1, <2>1, <2>2, <3>1 DEF CandidatesTypeOK, Decides, JobStates
  <2>4. Held'
    <3>1. \A x \in Runs \ {r} : job'[x] = job[x]
      BY <1>1, <2>1 DEF CandidatesTypeOK
    <3> QED BY <1>0, <2>2, <3>1, WorkerRests
  <2>5. JobAndRunAgree'
    <3>1. Busy(w, "booking") => run[r] \notin RunActive \/ r \in lost
      BY DEF Work, Held
    <3> QED BY <1>1, <2>1, <2>2, <3>1 DEF Work, JobAndRunAgree, CandidatesTypeOK
  <2> QED BY <2>3, <2>4, <2>5 DEF Work
<1>9. CASE WorkerDies(w)
  <2>1. /\ worker' = [worker EXCEPT ![w] = NoWork]
        /\ UNCHANGED <<run, job, tries, ledger, cand, lost>>
    BY <1>9 DEF WorkerDies, Rests
  <2>2. CandidatesTypeOK' /\ Decides
    BY <1>1, <2>1 DEF CandidatesTypeOK, Decides, NoWork, WorkPcs
  <2>3. Held'
    BY <1>0, <2>1, WorkerRests
  <2> QED BY <2>1, <2>2, <2>3 DEF Work, JobAndRunAgree
<1> QED BY <1>2, <1>3, <1>4, <1>5, <1>6, <1>7, <1>8, <1>9 DEF WorkerAdvances

\* The steps of the queue keep the invariant: they are quiet.
LEMMA QueueSteps ==
  ASSUME CInv, QueueStep, Unpublished
  PROVE  CInv'
<1>1. Work' /\ Decides
  <2>1. CASE \E r \in Runs : Materialize(r) \/ CreateBare(r)
    BY <2>1, EnqueueStep DEF CInv
  <2>2. CASE \E w \in Workers :
               WorkerAdvances(w) \/ WorkerDies(w) \/ \E r \in Runs : Claim(w, r)
    BY <2>2, WorkerStep, ClaimStep DEF CInv
  <2> QED BY <2>1, <2>2 DEF QueueStep
<1>2. Quiet
  BY <1>1 DEF Quiet, Decides, Unpublished, doors
<1>3. DoorTypes' /\ Asked'
  BY TypeParts DEF CInv, Unpublished, doors, DoorTypes, Asked, Pressed
<1> QED BY <1>1, <1>2, <1>3, QuietKeepsHistory DEF CInv, Work, TypeOK, DoorTypes

-----------------------------------------------------------------------------
(* The steps that publish nothing.                                         *)

\* A quiet step of a door that stands aside of the queue keeps the invariant.
LEMMA DoorKeeps ==
  ASSUME CInv, Aside, Quiet, DoorTypes', Asked',
         run' \in [Runs -> RunStates], cand' \in [Runs -> 0..MaxAttempts],
         ledger' \in [Runs -> {"none", "written", "published"}]
  PROVE  CInv'
<1>1. Work'
  BY AsideKeepsWork DEF CInv
<1> QED BY <1>1, QuietKeepsHistory DEF CInv, Work, TypeOK, DoorTypes

\* advance_state neither reopens a run nor publishes one.
LEMMA TransitionsGoOn ==
  ASSUME NEW s \in RunStates, NEW new, IsValidTransition(s, new), new # "published"
  PROVE  /\ s \in RunActive /\ new \in RunStates /\ new # "absent"
         /\ new \in Resumable => s \in Resumable
BY DEF IsValidTransition, Forward, RunStates, RunActive, RunTerminal, Cancellable, Resumable

\* A request before its operation: nothing but the doors' own rows moves.
LEMMA RequestSteps ==
  ASSUME CInv,
         \/ \E c \in Confs, r \in Runs : Prepare(c, r)
         \/ \E q \in Posts, c \in Confs : Submit(q, c)
         \/ \E q \in Posts : PublishRefused(q)
         \/ ButtonDies
  PROVE  CInv'
<1> USE CandidateAssumption
<1>0. DoorTypes /\ Asked /\ CandidatesTypeOK
  BY TypeParts DEF CInv, Work
<1>1. UNCHANGED <<run, job, tries, ledger, cand, lost, worker, shared, pointer, log, shows>>
  BY DEF Prepare, Submit, PublishRefused, ButtonDies, jobVars
<1>2. Aside
  BY <1>0, <1>1 DEF Aside, CandidatesTypeOK
<1>3. conf' \in [Confs -> Confirmations] /\ (\A c \in Confs : conf'[c].state # "none" => conf'[c].run \in Runs)
      /\ \A c \in Confs : /\ (conf'[c].state = "used") <=> (conf[c].state = "used")
                          /\ conf[c].state = "used" => conf'[c] = conf[c]
  <2>1. CASE conf' = conf
    BY <1>0, <2>1 DEF DoorTypes, Asked
  <2>2. CASE \E c \in Confs, r \in Runs : Prepare(c, r)
    <3>1. PICK c \in Confs, r \in Runs : Prepare(c, r)
      BY <2>2
    <3>2. /\ conf[c].state = "none"
          /\ conf' = [conf EXCEPT ![c] = [run |-> r, current |-> pointer, state |-> "issued"]]
      BY <3>1 DEF Prepare
    <3>3. [run |-> r, current |-> pointer, state |-> "issued"] \in Confirmations
      BY <1>0 DEF DoorTypes, Confirmations
    <3> QED BY <1>0, <3>2, <3>3 DEF DoorTypes, Asked
  <2> QED BY <2>1, <2>2 DEF Submit, PublishRefused, ButtonDies
<1>4. post' \in [Posts -> Confirmations]
  <2>1. CASE post' = post
    BY <1>0, <2>1 DEF DoorTypes
  <2>2. CASE \E q \in Posts, c \in Confs : Submit(q, c)
    BY <1>0, <2>2 DEF Submit, DoorTypes
  <2>3. CASE \E q \in Posts : PublishRefused(q)
    BY <1>0, <2>3 DEF PublishRefused, DoorTypes, Confirmations, NoConf
  <2> QED BY <2>1, <2>2, <2>3 DEF Prepare, ButtonDies
<1>5. /\ button' \in [pc : {"idle", "commit", "mark"}, run : Runs \cup {NoRun}]
      /\ button'.pc # "idle" => button'.run \in Runs
  <2>1. CASE button' = button
    BY <1>0, <2>1 DEF DoorTypes, Asked, Pressed
  <2>2. CASE ButtonDies
    BY <2>2 DEF ButtonDies, Unpressed
  <2> QED BY <2>1, <2>2 DEF Prepare, Submit, PublishRefused
<1>6. DoorTypes' /\ Asked' /\ Quiet
  BY <1>0, <1>1, <1>3, <1>4, <1>5 DEF DoorTypes, Asked, Pressed, Quiet
<1> QED BY <1>0, <1>1, <1>2, <1>6, DoorKeeps DEF CandidatesTypeOK

\* A run that moves was active, or stays where it is.
MovesRun(r, s) ==
  /\ run' = [run EXCEPT ![r] = s]
  /\ \/ s = run[r]
     \/ /\ run[r] \in RunActive /\ s \in RunStates \ {"absent", "published"}
        /\ s \in Resumable => run[r] \in Resumable

\* The doors that end or move a run without publishing it move one run.
LEMMA RunMoves ==
  ASSUME CInv,
         \/ \E r \in Runs :
              ButtonReads(r) \/ OwnerReconciles(r) \/ \E new \in RunStates : MemberAdvances(r, new)
         \/ ButtonFails
  PROVE  \E r \in Runs : \E s \in RunStates : MovesRun(r, s)
<1>0. Asked /\ CandidatesTypeOK
  BY DEF CInv, Work
<1>1. CASE \E r \in Runs : ButtonReads(r)
  <2>1. PICK r \in Runs : ButtonReads(r)
    BY <1>1
  <2>2. run[r] \in RunStates
    BY <1>0 DEF CandidatesTypeOK
  <2>3. CASE run[r] = "validating"
    <3>1. MovesRun(r, "ready") /\ "ready" \in RunStates
      BY <2>1, <2>3 DEF ButtonReads, Ends, MovesRun, RunActive, RunStates, Resumable
    <3> QED BY <3>1
  <2>4. CASE run[r] # "validating"
    <3>1. MovesRun(r, run[r])
      BY <2>1, <2>4 DEF ButtonReads, Ends, MovesRun
    <3> QED BY <2>2, <3>1
  <2> QED BY <2>3, <2>4
<1>2. CASE \E r \in Runs : OwnerReconciles(r)
  <2>1. PICK r \in Runs : OwnerReconciles(r)
    BY <1>2
  <2>2. MovesRun(r, "failed") /\ "failed" \in RunStates
    BY <2>1 DEF OwnerReconciles, Ends, MovesRun, RunStates, RunTerminal, Resumable
  <2> QED BY <2>2
<1>3. CASE \E r \in Runs, new \in RunStates : MemberAdvances(r, new)
  <2>1. PICK r \in Runs, new \in RunStates : MemberAdvances(r, new)
    BY <1>3
  <2>2. run[r] \in RunStates
    BY <1>0 DEF CandidatesTypeOK
  <2>3. MovesRun(r, new)
    BY <2>1, <2>2, TransitionsGoOn DEF MemberAdvances, Ends, MovesRun
  <2> QED BY <2>3
<1>4. CASE ButtonFails
  <2>1. button.run \in Runs /\ run[button.run] \in RunStates
    BY <1>0, <1>4 DEF ButtonFails, Asked, Pressed, CandidatesTypeOK
  <2>2. CASE run[button.run] \in RunActive
    <3>1. MovesRun(button.run, "failed") /\ "failed" \in RunStates
      BY <1>4, <2>2 DEF ButtonFails, MovesRun, RunStates, RunTerminal, Resumable
    <3> QED BY <2>1, <3>1
  <2>3. CASE run[button.run] \notin RunActive
    <3>1. MovesRun(button.run, run[button.run])
      BY <1>4, <2>3 DEF ButtonFails, MovesRun
    <3> QED BY <2>1, <3>1
  <2> QED BY <2>2, <2>3
<1> QED BY <1>1, <1>2, <1>3, <1>4

\* They keep the invariant.
LEMMA RunSteps ==
  ASSUME CInv,
         \/ \E r \in Runs :
              ButtonReads(r) \/ OwnerReconciles(r) \/ \E new \in RunStates : MemberAdvances(r, new)
         \/ ButtonFails
  PROVE  CInv'
<1> USE CandidateAssumption
<1>0. DoorTypes /\ Asked /\ CandidatesTypeOK
  BY TypeParts DEF CInv, Work
<1>1. UNCHANGED <<job, tries, ledger, cand, lost, worker, shared, pointer, log, shows, conf, post>>
  BY DEF ButtonReads, OwnerReconciles, MemberAdvances, ButtonFails, jobVars, doors
<1>2. \E r \in Runs : \E s \in RunStates : MovesRun(r, s)
  BY RunMoves
<1>3. PICK r \in Runs, s \in RunStates : MovesRun(r, s)
  BY <1>2
<1>4. /\ run' \in [Runs -> RunStates]
      /\ \A x \in Runs : (run'[x] = "published") <=> (run[x] = "published")
  BY <1>0, <1>3 DEF CandidatesTypeOK, RunActive, MovesRun
<1>5. Aside
  BY <1>0, <1>1, <1>3 DEF Aside, CandidatesTypeOK, RunActive, MovesRun
<1>6. /\ button' \in [pc : {"idle", "commit", "mark"}, run : Runs \cup {NoRun}]
      /\ button'.pc # "idle" => button'.run \in Runs
  <2>1. CASE button' = button
    BY <1>0, <2>1 DEF DoorTypes, Asked, Pressed
  <2>2. CASE \E x \in Runs : ButtonReads(x)
    BY <2>2 DEF ButtonReads
  <2>3. CASE ButtonFails
    BY <2>3 DEF ButtonFails, Unpressed
  <2> QED BY <2>1, <2>2, <2>3 DEF OwnerReconciles, MemberAdvances, doors
<1>7. DoorTypes' /\ Asked' /\ Quiet
  BY <1>0, <1>1, <1>4, <1>6 DEF DoorTypes, Asked, Pressed, Quiet
<1> QED BY <1>0, <1>1, <1>4, <1>5, <1>7, DoorKeeps DEF CandidatesTypeOK

\* The button's second transaction writes the ledger of its own run only.
LEMMA ButtonMarksStep ==
  ASSUME CInv, ButtonMarks
  PROVE  CInv'
<1>0. DoorTypes /\ Asked /\ CandidatesTypeOK
  BY TypeParts DEF CInv, Work
<1>1. button.run \in Runs
  BY <1>0 DEF ButtonMarks, Asked, Pressed
<1>2. Aside /\ Quiet
  BY <1>0, CandidateAssumption DEF ButtonMarks, Aside, Quiet, CandidatesTypeOK
<1>3. DoorTypes' /\ Asked'
  BY <1>0 DEF ButtonMarks, DoorTypes, Asked, Pressed, Unpressed
<1>4. ledger' \in [Runs -> {"none", "written", "published"}]
  BY <1>0, <1>1 DEF ButtonMarks, CandidatesTypeOK
<1> QED BY <1>0, <1>2, <1>3, <1>4, DoorKeeps DEF ButtonMarks, CandidatesTypeOK

\* A confirmation that is still the issued one names a run that is ready.
LEMMA ReviewedRun ==
  ASSUME CInv, NEW q \in Posts, StillAsReviewed(q)
  PROVE  /\ post[q].run \in Runs /\ run[post[q].run] = "ready"
         /\ pointer = post[q].current
         /\ \E c \in Confs : conf[c] = [post[q] EXCEPT !.state = "issued"]
<1>1. post[q] \in Confirmations /\ Asked
  BY TypeParts DEF CInv, DoorTypes
<1>2. PICK c \in Confs : conf[c] = [post[q] EXCEPT !.state = "issued"]
  BY DEF StillAsReviewed
<1>3. conf[c].state = "issued" /\ conf[c].run = post[q].run
  BY <1>1, <1>2 DEF Confirmations
<1> QED BY <1>1, <1>2, <1>3 DEF StillAsReviewed, Asked

\* promote_candidate adds at most the rows a candidate has.
LEMMA MergedType ==
  ASSUME CInv, NEW r \in Runs
  PROVE  Merged(r) \in 0..MaxAttempts
BY TypeParts DEF CInv, DoorTypes, Work, CandidatesTypeOK, Merged

\* A review whose rows were promoted and whose publication rolled back.
LEMMA PublishRolledBackStep ==
  ASSUME CInv, NEW q \in Posts, PublishRolledBack(q)
  PROVE  CInv'
<1> USE CandidateAssumption
<1> DEFINE r == post[q].run
<1>0. DoorTypes /\ Asked /\ CandidatesTypeOK
  BY TypeParts DEF CInv, Work
<1>1. r \in Runs /\ run[r] = "ready"
  BY ReviewedRun DEF PublishRolledBack
<1>2. UNCHANGED <<run, job, tries, ledger, lost, worker, pointer, log, shows, conf, button>>
  BY DEF PublishRolledBack
<1>3. /\ cand' = cand \/ cand' = [cand EXCEPT ![r] = 0]
      /\ shared' = shared \/ shared' = [shared EXCEPT ![r] = Merged(r)]
  BY DEF PublishRolledBack
<1>4. cand' \in [Runs -> 0..MaxAttempts] /\ \A x \in Runs : cand'[x] <= cand[x]
  BY <1>0, <1>1, <1>3 DEF CandidatesTypeOK
<1>5. Aside
  BY <1>2, <1>4 DEF Aside
<1>6. Quiet
  BY <1>0, <1>1, <1>2, <1>3 DEF Quiet, DoorTypes
<1>7. DoorTypes' /\ Asked'
  <2>1. post' \in [Posts -> Confirmations]
    BY <1>0 DEF PublishRolledBack, DoorTypes, NoConf, Confirmations
  <2>2. shared' \in [Runs -> 0..MaxAttempts]
    BY <1>0, <1>1, <1>3, MergedType DEF DoorTypes
  <2> QED BY <1>0, <1>2, <2>1, <2>2 DEF DoorTypes, Asked, Pressed
<1> QED BY <1>0, <1>2, <1>4, <1>5, <1>6, <1>7, DoorKeeps DEF CandidatesTypeOK

-----------------------------------------------------------------------------
(* The steps that publish: one entry more, which replaces the Current.     *)

\* What an entry appended to the log says, by its place.
LEMMA OneEntryMore ==
  ASSUME CInv, NEW r \in Runs, NEW by \in Doors,
         log' = Append(log, [run |-> r, prior |-> pointer, by |-> by]), pointer' = r
  PROVE  /\ Len(log) \in Nat /\ DOMAIN log = 1..Len(log)
         /\ log' \in Seq(Entries) /\ Len(log') = Len(log) + 1
         /\ DOMAIN log' = 1..(Len(log) + 1)
         /\ \A i \in 1..Len(log) : log'[i] = log[i]
         /\ log'[Len(log) + 1] = [run |-> r, prior |-> pointer, by |-> by]
         /\ pointer' = r
         /\ log' # <<>>
<1> DEFINE e == [run |-> r, prior |-> pointer, by |-> by]
<1>1. log \in Seq(Entries) /\ e \in Entries /\ log' = Append(log, e) /\ pointer' = r
  BY TypeParts DEF CInv, DoorTypes, Entries
<1>2. Len(log) \in Nat /\ DOMAIN log = 1..Len(log)
  BY <1>1, LenProperties
<1>3. /\ log' \in Seq(Entries) /\ Len(log') = Len(log) + 1
      /\ DOMAIN log' = 1..(Len(log) + 1)
      /\ \A i \in 1..Len(log) : log'[i] = log[i]
      /\ log'[Len(log) + 1] = e
  BY <1>1, <1>2, AppendProperties
<1>4. log' # <<>>
  BY <1>2, <1>3
<1> QED BY <1>1, <1>2, <1>3, <1>4

\* The log stays a chain when its new entry replaces the Current.
LEMMA ChainGoesOn ==
  ASSUME CInv, NEW r \in Runs, NEW by \in Doors,
         log' = Append(log, [run |-> r, prior |-> pointer, by |-> by]), pointer' = r
  PROVE  LogIsChain'
<1>1. LogIsChain
  BY DEF CInv, History
<1>2. log = <<>> <=> Len(log) = 0
  BY TypeParts, EmptySeq, LenProperties DEF CInv, DoorTypes
<1>3. pointer' = log'[Len(log')].run
  BY OneEntryMore
<1>4. \A i \in DOMAIN log' : log'[i].prior = IF i = 1 THEN NoRun ELSE log'[i - 1].run
  <2> SUFFICES ASSUME NEW i \in DOMAIN log'
               PROVE  log'[i].prior = IF i = 1 THEN NoRun ELSE log'[i - 1].run
    OBVIOUS
  <2>1. CASE i \in 1..Len(log)
    <3>1. log'[i] = log[i] /\ (i # 1 => i - 1 \in 1..Len(log) /\ log'[i - 1] = log[i - 1])
      BY <2>1, OneEntryMore
    <3>2. i \in DOMAIN log
      BY <2>1, OneEntryMore
    <3> QED BY <1>1, <3>1, <3>2 DEF LogIsChain
  <2>2. CASE i = Len(log) + 1
    <3>1. log'[i].prior = pointer
      BY <2>2, OneEntryMore
    <3>2. CASE Len(log) = 0
      BY <1>1, <1>2, <2>2, <3>1, <3>2 DEF LogIsChain
    <3>3. CASE Len(log) # 0
      <4>1. i # 1 /\ i - 1 = Len(log) /\ i - 1 \in 1..Len(log)
        BY <2>2, <3>3, OneEntryMore
      <4>2. log'[i - 1] = log[Len(log)]
        BY <4>1, OneEntryMore
      <4> QED BY <1>1, <1>2, <3>1, <3>3, <4>1, <4>2 DEF LogIsChain
    <3> QED BY <3>2, <3>3
  <2> QED BY <2>1, <2>2, OneEntryMore
<1> QED BY <1>3, <1>4, OneEntryMore DEF LogIsChain

\* A run that was not published is logged and published in one step.
LEMMA FirstPublication ==
  ASSUME CInv, NEW r \in Runs, NEW by \in Doors,
         log' = Append(log, [run |-> r, prior |-> pointer, by |-> by]), pointer' = r,
         run[r] # "published", Ends(r, "published")
  PROVE  PublishedOnce'
<1>1. PublishedOnce /\ run \in [Runs -> RunStates]
  BY DEF CInv, History, Work, CandidatesTypeOK
<1>2. \A i \in DOMAIN log : log[i].run # r
  BY <1>1 DEF PublishedOnce
<1>3. run' = [run EXCEPT ![r] = "published"]
  BY DEF Ends
<1>4. ASSUME NEW x \in Runs
      PROVE  (run'[x] = "published") <=> \E i \in DOMAIN log' : log'[i].run = x
  <2>1. CASE x = r
    <3>1. Len(log) + 1 \in DOMAIN log' /\ log'[Len(log) + 1].run = r
      BY OneEntryMore
    <3> QED BY <1>1, <1>3, <2>1, <3>1
  <2>2. CASE x # r
    <3>1. (\E i \in DOMAIN log' : log'[i].run = x) <=> \E i \in DOMAIN log : log[i].run = x
      BY <2>2, OneEntryMore
    <3> QED BY <1>1, <1>3, <2>2, <3>1 DEF PublishedOnce
  <2> QED BY <2>1, <2>2
<1>5. ASSUME NEW i \in DOMAIN log', NEW j \in DOMAIN log', i < j, log'[i].run = log'[j].run
      PROVE  log'[j].by = "rollback"
  <2>1. i \in 1..Len(log) /\ log'[i] = log[i] /\ i \in DOMAIN log
    BY <1>5, OneEntryMore
  <2>2. j \in 1..Len(log)
    BY <1>2, <1>5, <2>1, OneEntryMore
  <2> QED BY <1>1, <1>5, <2>1, <2>2, OneEntryMore DEF PublishedOnce
<1> QED BY <1>4, <1>5 DEF PublishedOnce

\* An entry that is not a review leaves the reviews as they are.
LEMMA ReviewsStand ==
  ASSUME CInv, NEW r \in Runs, NEW by \in Doors \ {"review"},
         log' = Append(log, [run |-> r, prior |-> pointer, by |-> by]), pointer' = r,
         conf' = conf
  PROVE  ReviewReplacesWhatItShowed'
<1>1. ReviewReplacesWhatItShowed
  BY DEF CInv, History
<1>2. by \in Doors
  OBVIOUS
<1>3. \A i \in DOMAIN log' : log'[i].by = "review" => i \in DOMAIN log /\ log'[i] = log[i]
  BY <1>2, OneEntryMore
<1>4. \A i \in DOMAIN log : i \in DOMAIN log' /\ log'[i] = log[i]
  BY <1>2, OneEntryMore
<1> QED BY <1>1, <1>3, <1>4 DEF ReviewReplacesWhatItShowed

\* publish_activate_mutation keeps the invariant.
LEMMA PublishReviewedStep ==
  ASSUME CInv, NEW q \in Posts, PublishReviewed(q)
  PROVE  CInv'
<1> USE CandidateAssumption
<1> DEFINE r == post[q].run
           issued == [post[q] EXCEPT !.state = "issued"]
<1>0. DoorTypes /\ Asked /\ CandidatesTypeOK
  BY TypeParts DEF CInv, Work
<1>1. /\ r \in Runs /\ run[r] = "ready" /\ pointer = post[q].current
      /\ \E c \in Confs : conf[c] = issued
  BY ReviewedRun DEF PublishReviewed
<1>2. /\ log' = Append(log, [run |-> r, prior |-> pointer, by |-> "review"]) /\ pointer' = r
      /\ run' = [run EXCEPT ![r] = "published"] /\ "review" \in Doors
      /\ shared' = [shared EXCEPT ![r] = Merged(r)] /\ Merged(r) = 1
      /\ shows' = [shows EXCEPT ![r] = r]
      /\ cand' = [cand EXCEPT ![r] = 0]
      /\ UNCHANGED <<job, tries, ledger, lost, worker, button>>
  BY DEF PublishReviewed, MovesCurrent, Ends, Doors, Proven
<1>3. conf' = [c \in Confs |-> IF conf[c] = issued
                               THEN [conf[c] EXCEPT !.state = "used"] ELSE conf[c]]
  BY DEF PublishReviewed
<1>4. post' = [post EXCEPT ![q] = NoConf]
  BY DEF PublishReviewed
<1>5. Work'
  <2>1. cand' \in [Runs -> 0..MaxAttempts] /\ \A x \in Runs : cand'[x] <= cand[x]
    BY <1>0, <1>1, <1>2 DEF CandidatesTypeOK
  <2>2. run' \in [Runs -> RunStates]
    BY <1>0, <1>2 DEF CandidatesTypeOK, RunStates, RunTerminal
  <2>3. Aside
    BY <1>0, <1>1, <1>2, <2>1 DEF Aside, CandidatesTypeOK, RunActive, Resumable
  <2> QED BY <1>0, <1>2, <2>1, <2>2, <2>3, AsideKeepsWork DEF CInv, CandidatesTypeOK
<1>6. /\ issued \in Confirmations /\ issued.state = "issued"
      /\ issued.run = r /\ issued.current = pointer
      /\ [issued EXCEPT !.state = "used"] = [run |-> r, current |-> pointer, state |-> "used"]
      /\ [run |-> r, current |-> pointer, state |-> "used"] \in Confirmations
  <2>1. PICK x \in Runs \cup {NoRun}, y \in Runs \cup {NoRun}, s \in {"none", "issued", "used"} :
          post[q] = [run |-> x, current |-> y, state |-> s]
    BY <1>0 DEF DoorTypes, Confirmations
  <2>2. x = r /\ y = pointer
    BY <1>1, <2>1
  <2>3. issued = [run |-> x, current |-> y, state |-> "issued"]
    BY <2>1
  <2>4. pointer \in Runs \cup {NoRun} /\ r \in Runs
    BY <1>0, <1>1 DEF DoorTypes
  <2> HIDE DEF issued, r
  <2>5. issued = [run |-> r, current |-> pointer, state |-> "issued"]
    BY <2>2, <2>3
  <2>6. [issued EXCEPT !.state = "used"] = [run |-> r, current |-> pointer, state |-> "used"]
    BY <2>5
  <2> QED BY <2>4, <2>5, <2>6 DEF Confirmations
<1>7. \A c \in Confs :
        /\ conf[c] = issued => conf'[c] = [run |-> r, current |-> pointer, state |-> "used"]
        /\ conf[c] # issued => conf'[c] = conf[c]
  BY <1>3, <1>6
<1>8. DoorTypes' /\ Asked'
  <2>1. conf' \in [Confs -> Confirmations] /\ \A c \in Confs : conf'[c].state # "none" => conf'[c].run \in Runs
    BY <1>0, <1>1, <1>3, <1>6, <1>7 DEF DoorTypes, Asked
  <2>2. post' \in [Posts -> Confirmations]
    BY <1>0, <1>4 DEF DoorTypes, NoConf, Confirmations
  <2>3. shared' \in [Runs -> 0..MaxAttempts]
    BY <1>0, <1>1, <1>2, MergedType DEF DoorTypes
  <2>4. log' \in Seq(Entries) /\ pointer' \in Runs
    BY <1>1, <1>2, OneEntryMore
  <2> QED BY <1>0, <1>1, <1>2, <2>1, <2>2, <2>3, <2>4 DEF DoorTypes, Asked, Pressed
<1>9. LogIsChain' /\ PublishedOnce'
  BY <1>1, <1>2, ChainGoesOn, FirstPublication DEF Ends
<1>10. Shown'
  <2>1. shared'[r] = 1 /\ run'[r] = "published" /\ shows'[r] = r
    BY <1>0, <1>1, <1>2 DEF DoorTypes, CandidatesTypeOK
  <2>2. \A x \in Runs \ {r} : shared'[x] = shared[x] /\ run'[x] = run[x] /\ shows'[x] = shows[x]
    BY <1>0, <1>2 DEF DoorTypes, CandidatesTypeOK
  <2> QED BY <1>1, <2>1, <2>2 DEF CInv, History, Shown
<1>11. ReviewReplacesWhatItShowed'
  <2>1. ReviewReplacesWhatItShowed
    BY DEF CInv, History
  <2>2. PICK c0 \in Confs : conf[c0] = issued
    BY <1>1
  <2>3. \A c \in Confs : conf[c].state = "used" => conf'[c] = conf[c]
    BY <1>6, <1>7
  <2>4. ASSUME NEW i \in DOMAIN log', log'[i].by = "review"
        PROVE  \E c \in Confs : conf'[c] = [run |-> log'[i].run, current |-> log'[i].prior,
                                            state |-> "used"]
    <3>1. CASE i \in 1..Len(log)
      <4>1. i \in DOMAIN log /\ log'[i] = log[i]
        BY <1>1, <1>2, <3>1, OneEntryMore
      <4>2. PICK c \in Confs : conf[c] = [run |-> log[i].run, current |-> log[i].prior,
                                          state |-> "used"]
        BY <2>1, <2>4, <4>1 DEF ReviewReplacesWhatItShowed
      <4>3. conf'[c] = conf[c]
        BY <2>3, <4>2
      <4> QED BY <4>1, <4>2, <4>3
    <3>2. CASE i = Len(log) + 1
      <4>1. log'[i].run = r /\ log'[i].prior = pointer
        BY <1>1, <1>2, <3>2, OneEntryMore
      <4>2. conf'[c0] = [run |-> r, current |-> pointer, state |-> "used"]
        BY <1>7, <2>2
      <4> QED BY <4>1, <4>2
    <3>3. i \in 1..(Len(log) + 1) /\ Len(log) \in Nat
      BY <1>1, <1>2, OneEntryMore
    <3> QED BY <3>1, <3>2, <3>3
  <2>5. ASSUME NEW c \in Confs, conf'[c].state = "used"
        PROVE  \E i \in DOMAIN log' : log'[i].by = "review" /\ log'[i].run = conf'[c].run
    <3>1. CASE conf[c] = issued
      <4>1. conf'[c].run = r
        BY <1>7, <3>1
      <4>2. Len(log) + 1 \in DOMAIN log' /\ log'[Len(log) + 1].by = "review"
            /\ log'[Len(log) + 1].run = r
        BY <1>1, <1>2, OneEntryMore
      <4> QED BY <4>1, <4>2
    <3>2. CASE conf[c] # issued
      <4>1. conf'[c] = conf[c]
        BY <1>7, <3>2
      <4>2. PICK i \in DOMAIN log : log[i].by = "review" /\ log[i].run = conf[c].run
        BY <2>1, <2>5, <4>1 DEF ReviewReplacesWhatItShowed
      <4>3. i \in DOMAIN log' /\ log'[i] = log[i]
        BY <1>1, <1>2, <4>2, OneEntryMore
      <4> QED BY <4>1, <4>2, <4>3
    <3> QED BY <3>1, <3>2
  <2> QED BY <2>4, <2>5 DEF ReviewReplacesWhatItShowed
<1> QED BY <1>5, <1>8, <1>9, <1>10, <1>11 DEF CInv, Work, History, TypeOK, DoorTypes

\* commit_publication behind the publish button keeps the invariant.
LEMMA ButtonCommitsStep ==
  ASSUME CInv, ButtonCommits
  PROVE  CInv'
<1> USE CandidateAssumption
<1> DEFINE r == button.run
<1>0. DoorTypes /\ Asked /\ CandidatesTypeOK
  BY TypeParts DEF CInv, Work
<1>1. r \in Runs /\ run[r] = "ready"
  BY <1>0 DEF ButtonCommits, Asked, Pressed
<1>2. /\ log' = Append(log, [run |-> r, prior |-> pointer, by |-> "button"]) /\ pointer' = r
      /\ run' = [run EXCEPT ![r] = "published"] /\ "button" \in Doors \ {"review"}
      /\ button' = [button EXCEPT !.pc = "mark"]
      /\ UNCHANGED <<job, tries, ledger, cand, lost, worker, shared, shows, conf, post>>
  BY DEF ButtonCommits, MovesCurrent, Ends, Doors, jobVars
<1>3. Work'
  <2>1. run' \in [Runs -> RunStates]
    BY <1>0, <1>2 DEF CandidatesTypeOK, RunStates, RunTerminal
  <2>2. Aside
    BY <1>0, <1>1, <1>2 DEF Aside, CandidatesTypeOK, RunActive, Resumable
  <2> QED BY <1>0, <1>2, <2>1, <2>2, AsideKeepsWork DEF CInv, CandidatesTypeOK
<1>4. DoorTypes' /\ Asked'
  <2>1. log' \in Seq(Entries) /\ pointer' \in Runs
    BY <1>1, <1>2, OneEntryMore
  <2>2. button' \in [pc : {"idle", "commit", "mark"}, run : Runs \cup {NoRun}] /\ button'.run = r
    BY <1>0, <1>2 DEF DoorTypes
  <2> QED BY <1>0, <1>1, <1>2, <2>1, <2>2 DEF DoorTypes, Asked, Pressed
<1>5. LogIsChain' /\ PublishedOnce' /\ ReviewReplacesWhatItShowed'
  BY <1>1, <1>2, ChainGoesOn, FirstPublication, ReviewsStand DEF Ends
<1>6. Shown'
  BY <1>0, <1>2 DEF CInv, History, Shown, CandidatesTypeOK
<1> QED BY <1>3, <1>4, <1>5, <1>6 DEF CInv, Work, History, TypeOK, DoorTypes

\* publish_mapping_overlay keeps the invariant.
LEMMA OverlayStep ==
  ASSUME CInv, NEW n \in Runs, Overlay(n)
  PROVE  CInv'
<1> USE CandidateAssumption
<1>0. DoorTypes /\ Asked /\ CandidatesTypeOK
  BY TypeParts DEF CInv, Work
<1>1. run[n] = "absent" /\ pointer \in Runs /\ shows[pointer] # NoRun
  BY <1>0 DEF Overlay, DoorTypes
<1>2. /\ log' = Append(log, [run |-> n, prior |-> pointer, by |-> "overlay"]) /\ pointer' = n
      /\ run' = [run EXCEPT ![n] = "published"] /\ "overlay" \in Doors \ {"review"}
      /\ shows' = [shows EXCEPT ![n] = shows[pointer]]
      /\ UNCHANGED <<job, tries, ledger, cand, lost, worker, shared, conf, post, button>>
  BY DEF Overlay, MovesCurrent, Ends, Doors, jobVars, doors
<1>3. Work'
  <2>1. run' \in [Runs -> RunStates]
    BY <1>0, <1>2 DEF CandidatesTypeOK, RunStates, RunTerminal
  <2>2. Aside
    BY <1>0, <1>1, <1>2 DEF Aside, CandidatesTypeOK, RunActive, Resumable
  <2> QED BY <1>0, <1>2, <2>1, <2>2, AsideKeepsWork DEF CInv, CandidatesTypeOK
<1>4. DoorTypes' /\ Asked'
  <2>1. log' \in Seq(Entries) /\ pointer' \in Runs
    BY <1>2, OneEntryMore
  <2> QED BY <1>0, <1>1, <1>2, <2>1 DEF DoorTypes, Asked, Pressed
<1>5. LogIsChain' /\ PublishedOnce' /\ ReviewReplacesWhatItShowed'
  BY <1>1, <1>2, ChainGoesOn, FirstPublication, ReviewsStand DEF Ends
<1>6. Shown'
  <2>1. Shown
    BY DEF CInv, History
  <2>2. \A x \in Runs : run[x] = "published" => run'[x] = "published"
    BY <1>0, <1>2 DEF CandidatesTypeOK
  <2>3. shows'[n] = shows[pointer] /\ \A x \in Runs \ {n} : shows'[x] = shows[x]
    BY <1>0, <1>2 DEF DoorTypes
  <2> QED BY <1>1, <1>2, <2>1, <2>2, <2>3 DEF Shown
<1> QED BY <1>3, <1>4, <1>5, <1>6 DEF CInv, Work, History, TypeOK, DoorTypes

\* rollback_dataset keeps the invariant.
LEMMA RollBackStep ==
  ASSUME CInv, NEW t \in Runs, RollBack(t)
  PROVE  CInv'
<1> USE CandidateAssumption
<1>0. DoorTypes /\ Asked /\ CandidatesTypeOK
  BY TypeParts DEF CInv, Work
<1>1. run[t] = "published"
  BY DEF RollBack
<1>2. /\ log' = Append(log, [run |-> t, prior |-> pointer, by |-> "rollback"]) /\ pointer' = t
      /\ "rollback" \in Doors \ {"review"} /\ "rollback" \in Doors
      /\ UNCHANGED <<run, job, tries, ledger, cand, lost, worker, shared, shows, conf, post, button>>
  BY DEF RollBack, MovesCurrent, Doors, jobVars, doors
<1>3. Work'
  BY <1>2 DEF CInv, Work, CandidatesTypeOK, Held, Busy, JobAndRunAgree
<1>4. DoorTypes' /\ Asked'
  <2>1. log' \in Seq(Entries) /\ pointer' \in Runs
    BY <1>2, OneEntryMore
  <2> QED BY <1>0, <1>2, <2>1 DEF DoorTypes, Asked, Pressed
<1>5. LogIsChain' /\ ReviewReplacesWhatItShowed' /\ Shown'
  BY <1>2, ChainGoesOn, ReviewsStand DEF CInv, History, Shown
<1>6. PublishedOnce'
  <2>1. PublishedOnce
    BY DEF CInv, History
  <2>2. ASSUME NEW x \in Runs
        PROVE  (run'[x] = "published") <=> \E i \in DOMAIN log' : log'[i].run = x
    <3>1. CASE x = t
      <4>1. Len(log) + 1 \in DOMAIN log' /\ log'[Len(log) + 1].run = t
        BY <1>2, OneEntryMore
      <4> QED BY <1>1, <1>2, <3>1, <4>1
    <3>2. CASE x # t
      <4>1. (\E i \in DOMAIN log' : log'[i].run = x) <=> \E i \in DOMAIN log : log[i].run = x
        BY <1>2, <3>2, OneEntryMore
      <4> QED BY <1>2, <2>1, <4>1 DEF PublishedOnce
    <3> QED BY <3>1, <3>2
  <2>3. ASSUME NEW i \in DOMAIN log', NEW j \in DOMAIN log', i < j, log'[i].run = log'[j].run
        PROVE  log'[j].by = "rollback"
    <3>1. CASE j = Len(log) + 1
      BY <1>2, <3>1, OneEntryMore
    <3>2. CASE j # Len(log) + 1
      <4>1. /\ i \in DOMAIN log /\ j \in DOMAIN log
            /\ log'[i] = log[i] /\ log'[j] = log[j]
        BY <1>2, <2>3, <3>2, OneEntryMore
      <4> QED BY <2>1, <2>3, <4>1 DEF PublishedOnce
    <3> QED BY <3>1, <3>2
  <2> QED BY <2>2, <2>3 DEF PublishedOnce
<1> QED BY <1>3, <1>4, <1>5, <1>6 DEF CInv, Work, History, TypeOK, DoorTypes

-----------------------------------------------------------------------------
(* The invariant of the specification.                                     *)

\* Every step keeps the invariant.
LEMMA NextOK ==
  ASSUME CInv, [Next]_vars
  PROVE  CInv'
<1>1. CASE UNCHANGED vars
  <2>1. TypeOK' /\ Asked'
    BY <1>1 DEF vars, jobVars, doors, CInv, TypeOK, CandidatesTypeOK, Asked, Pressed
  <2>2. Work'
    BY <1>1 DEF vars, jobVars, CInv, Work, CandidatesTypeOK, Held, Busy, JobAndRunAgree
  <2>3. Quiet
    BY <1>1 DEF vars, doors, Quiet
  <2> QED BY <2>1, <2>2, <2>3, QuietKeepsHistory DEF CInv
<1>2. CASE QueueStep /\ Unpublished
  BY <1>2, QueueSteps
<1>3. CASE \E r \in Runs :
             \/ \E c \in Confs : Prepare(c, r)
             \/ ButtonReads(r) \/ Overlay(r) \/ RollBack(r) \/ OwnerReconciles(r)
             \/ \E new \in RunStates : MemberAdvances(r, new)
  <2>1. PICK r \in Runs :
          \/ \E c \in Confs : Prepare(c, r)
          \/ ButtonReads(r) \/ Overlay(r) \/ RollBack(r) \/ OwnerReconciles(r)
          \/ \E new \in RunStates : MemberAdvances(r, new)
    BY <1>3
  <2>2. CASE \E c \in Confs : Prepare(c, r)
    BY <2>2, RequestSteps
  <2>3. CASE ButtonReads(r) \/ OwnerReconciles(r) \/ \E new \in RunStates : MemberAdvances(r, new)
    BY <2>3, RunSteps
  <2>4. CASE Overlay(r)
    BY <2>4, OverlayStep
  <2>5. CASE RollBack(r)
    BY <2>5, RollBackStep
  <2> QED BY <2>1, <2>2, <2>3, <2>4, <2>5
<1>4. CASE \E q \in Posts :
             \/ \E c \in Confs : Submit(q, c)
             \/ PublishReviewed(q) \/ PublishRefused(q) \/ PublishRolledBack(q)
  BY <1>4, RequestSteps, PublishReviewedStep, PublishRolledBackStep
<1>5. CASE ButtonCommits \/ ButtonFails \/ ButtonMarks \/ ButtonDies
  BY <1>5, ButtonCommitsStep, RequestSteps, RunSteps, ButtonMarksStep
<1> QED BY <1>1, <1>2, <1>3, <1>4, <1>5 DEF Next

\* The invariant holds of every state the specification reaches.
THEOREM Invariance == Spec => []CInv
BY InitOK, NextOK, PTL DEF Spec

\* Types, with the number of copies a run can have in the shared relation.
THEOREM CurrentTypeCorrect == Spec => []TypeOK
<1>1. CInv => TypeOK
  BY DEF CInv
<1> QED BY <1>1, Invariance, PTL

\* The publication log is a chain that ends in the Current, whichever of the four
\* doors wrote it.
THEOREM ChainOfCurrents == Spec => []LogIsChain
<1>1. CInv => LogIsChain
  BY DEF CInv, History
<1> QED BY <1>1, Invariance, PTL

\* A review that is submitted late, or twice, never replaces a Current its
\* reviewer was not shown.
THEOREM ReviewsReplaceWhatTheySaw == Spec => []ReviewReplacesWhatItShowed
<1>1. CInv => ReviewReplacesWhatItShowed
  BY DEF CInv, History
<1> QED BY <1>1, Invariance, PTL

\* A run is published exactly when the log names it, and once, but for rollbacks.
THEOREM LoggedOnce == Spec => []PublishedOnce
<1>1. CInv => PublishedOnce
  BY DEF CInv, History
<1> QED BY <1>1, Invariance, PTL

\* Outputs name relations that hold the rows of their run exactly once.
THEOREM RowsServedOnce == Spec => []ReviewedRowsServedOnce
<1>1. CInv => ReviewedRowsServedOnce
  BY DEF CInv, History, Shown, ReviewedRowsServedOnce
<1> QED BY <1>1, Invariance, PTL

\* A job that is over agrees with its run.
THEOREM JobsAgree == Spec => []JobAndRunAgree
<1>1. CInv => JobAndRunAgree
  BY DEF CInv, Work
<1> QED BY <1>1, Invariance, PTL

-----------------------------------------------------------------------------
(* The history a Datastream promises.  Three doors publish, one moves back, *)
(* a merge that outlived its publication puts rows in place ahead of one,   *)
(* and whatever else ends a run ends one that was not published.            *)

\* A step of the queue decides one run at most, and never one that is over.
LEMMA QueueMoves ==
  ASSUME Work, QueueStep
  PROVE  \/ run' = run
         \/ \E r \in Runs, s \in RunStates \ {"published"} :
              run[r] \notin RunTerminal /\ run' = [run EXCEPT ![r] = s]
<1> USE DEF Work, CandidatesTypeOK
<1>1. ASSUME NEW r \in Runs, Materialize(r) \/ CreateBare(r)
      PROVE  /\ run[r] \notin RunTerminal
             /\ run' = [run EXCEPT ![r] = "created"]
  BY <1>1 DEF Materialize, CreateBare, CreateExecution, RunTerminal
<1>2. ASSUME NEW w \in Workers, Complete(w) \/ FailRun(w)
      PROVE  \/ run' = run
             \/ \E s \in {"ready", "failed"} :
                  /\ worker[w].run \in Runs /\ run[worker[w].run] \in RunActive
                  /\ run' = [run EXCEPT ![worker[w].run] = s]
  <2>1. worker[w].run \in Runs
    BY <1>2, BusyKnowsItsRun DEF Complete, FailRun, Busy
  <2>2. CASE Complete(w)
    BY <2>1, <2>2 DEF Complete, Resumable, RunActive
  <2>3. CASE FailRun(w)
    BY <2>1, <2>3 DEF FailRun
  <2> QED BY <1>2, <2>2, <2>3
<1>3. ASSUME NEW w \in Workers,
             \/ ReadContext(w) \/ Land(w) \/ LandFails(w) \/ CompleteRaises(w)
             \/ FailRunLost(w) \/ BookFailure(w) \/ WorkerDies(w)
             \/ \E r \in Runs : Claim(w, r)
      PROVE  run' = run
  BY <1>3 DEF ReadContext, Land, LandFails, CompleteRaises, FailRunLost, BookFailure,
              WorkerDies, Claim
<1>4. /\ {"created", "ready", "failed"} \subseteq RunStates \ {"published"}
      /\ RunActive \cap RunTerminal = {}
  BY DEF RunStates, RunActive, RunTerminal
<1> QED BY <1>1, <1>2, <1>3, <1>4 DEF QueueStep, WorkerAdvances

\* A run that ends without being published is abandoned; one that was over, or
\* goes on, looks the same to a reader.
LEMMA MoveAbandons ==
  ASSUME CInv, NEW r \in Runs, NEW s \in RunStates,
         run' = [run EXCEPT ![r] = s],
         s = run[r] \/ (run[r] \notin RunTerminal /\ s # "published"),
         UNCHANGED <<shared, pointer, log, shows>>
  PROVE  [Promise!Next]_Promise!promiseVars
<1>1. run \in [Runs -> RunStates]
  BY DEF CInv, Work, CandidatesTypeOK
<1>2. run'[r] = s /\ \A x \in Runs : x # r => run'[x] = run[x]
  BY <1>1
<1>3. CASE s = run[r] \/ s \notin RunTerminal
  <2>1. RunPhase' = RunPhase
    BY <1>2, <1>3 DEF RunPhase, RunTerminal
  <2> QED BY <2>1 DEF Promise!promiseVars
<1>4. CASE s # run[r] /\ s \in RunTerminal
  <2>1. RunPhase[r] = "open" /\ RunPhase' = [RunPhase EXCEPT ![r] = "over"]
    BY <1>2, <1>4 DEF RunPhase, RunTerminal
  <2>2. Promise!Abandon(r)
    BY <2>1 DEF Promise!Abandon
  <2> QED BY <2>2 DEF Promise!Next
<1> QED BY <1>3, <1>4

\* The history of a reader is the log without what each entry replaced.
LEMMA HistoryGrows ==
  ASSUME CInv, NEW r \in Runs, NEW by \in Doors,
         log' = Append(log, [run |-> r, prior |-> pointer, by |-> by]), pointer' = r
  PROVE  Promise!BecomesCurrent(r)
<1> DEFINE n == Len(log)
           Names == [i \in 1..n |-> log[i].run]
<1>1. /\ n \in Nat /\ DOMAIN log = 1..n /\ DOMAIN log' = 1..(n + 1)
      /\ \A i \in 1..n : log'[i] = log[i]
      /\ log'[n + 1].run = r
  BY OneEntryMore
<1>2. Names \in Seq(Runs) /\ Len(Names) = n
  <2>1. log \in Seq(Entries)
    BY TypeParts DEF CInv, DoorTypes
  <2>2. \A i \in 1..n : log[i] \in Entries
    BY <2>1, LenProperties
  <2>3. \A i \in 1..n : log[i].run \in Runs
    BY <2>2 DEF Entries
  <2> QED BY <1>1, <2>3
<1> DEFINE Longer == [i \in 1..(n + 1) |-> log'[i].run]
<1>3. Append(Names, r) = Longer
  <2>1. /\ Append(Names, r) \in Seq(Runs) /\ Len(Append(Names, r)) = n + 1
        /\ \A i \in 1..n : Append(Names, r)[i] = log[i].run
        /\ Append(Names, r)[n + 1] = r
    BY <1>2, AppendProperties
  <2>2. Longer \in Seq(Runs) /\ Len(Longer) = n + 1
    <3>1. \A i \in 1..(n + 1) : log'[i].run = IF i = n + 1 THEN r ELSE Names[i]
      BY <1>1
    <3>2. \A i \in 1..n : Names[i] \in Runs
      BY <1>2, LenProperties
    <3>3. \A i \in 1..(n + 1) : log'[i].run \in Runs
      BY <1>1, <3>1, <3>2
    <3> QED BY <1>1, <3>3
  <2>3. \A i \in 1..(n + 1) : Append(Names, r)[i] = Longer[i]
    BY <1>1, <2>1
  <2> QED BY <2>1, <2>2, <2>3, SeqEqual
<1> QED BY <1>1, <1>3 DEF Promise!BecomesCurrent

\* A door that publishes a run opens no other and ends no other.
LEMMA DoorPublishes ==
  ASSUME CInv, NEW r \in Runs, NEW by \in Doors,
         run[r] \notin RunTerminal, Ends(r, "published"), MovesCurrent(r, pointer, by)
  PROVE  Promise!Publishes(r)
<1>1. run \in [Runs -> RunStates]
  BY DEF CInv, Work, CandidatesTypeOK
<1>2. run'[r] = "published" /\ \A x \in Runs : x # r => run'[x] = run[x]
  BY <1>1 DEF Ends
<1>3. RunPhase[r] = "open" /\ RunPhase' = [RunPhase EXCEPT ![r] = "published"]
  BY <1>2 DEF RunPhase, RunTerminal
<1>4. Promise!BecomesCurrent(r)
  BY HistoryGrows DEF MovesCurrent
<1> QED BY <1>3, <1>4 DEF Promise!Publishes

\* The review brings its own rows, whatever an earlier merge of them left.
LEMMA ReviewPromises ==
  ASSUME CInv, NEW q \in Posts, PublishReviewed(q)
  PROVE  Promise!Next
<1>1. PICK r \in Runs : r = post[q].run /\ run[r] = "ready"
  BY ReviewedRun DEF PublishReviewed
<1>2. /\ Ends(r, "published") /\ MovesCurrent(r, pointer, "review")
      /\ shared' = [shared EXCEPT ![r] = 1]
      /\ shows' = [shows EXCEPT ![r] = r]
      /\ "review" \in Doors /\ run[r] \notin RunTerminal
  BY <1>1 DEF PublishReviewed, Proven, Doors, RunTerminal
<1>3. Promise!Publishes(r)
  BY <1>2, DoorPublishes
<1>4. {x \in Runs : shared'[x] > 0} = {x \in Runs : shared[x] > 0} \cup {r}
  BY <1>2, TypeParts DEF CInv, DoorTypes
<1>5. Promise!PublishOwn(r)
  BY <1>2, <1>3, <1>4 DEF Promise!PublishOwn
<1> QED BY <1>5 DEF Promise!Next

\* A review that rolled back after its merge leaves rows of a run that nobody has
\* published.
LEMMA RolledBackServes ==
  ASSUME CInv, NEW q \in Posts, PublishRolledBack(q)
  PROVE  [Promise!Next]_Promise!promiseVars
<1>1. PICK r \in Runs : r = post[q].run /\ run[r] = "ready"
  BY ReviewedRun DEF PublishRolledBack
<1>2. /\ UNCHANGED <<run, pointer, log, shows>>
      /\ shared' = shared \/ shared' = [shared EXCEPT ![r] = Merged(r)]
  BY <1>1 DEF PublishRolledBack
<1>3. shared \in [Runs -> 0..MaxAttempts] /\ Merged(r) \in 0..MaxAttempts
  BY TypeParts, MergedType DEF CInv, DoorTypes
<1>4. RunPhase' = RunPhase /\ RunPhase[r] # "published"
  BY <1>1, <1>2 DEF RunPhase
<1>5. shared[r] > 0 => shared' = shared
  BY <1>2, <1>3, CandidateAssumption DEF Merged
<1> DEFINE Served == {x \in Runs : shared[x] > 0}
<1>6. Served' = Served \/ Served' = Served \cup {r}
  <2>1. CASE shared' = shared
    BY <2>1
  <2>2. CASE shared' # shared
    <3>1. shared' = [shared EXCEPT ![r] = Merged(r)] /\ ~(shared[r] > 0)
      BY <1>2, <1>5, <2>2
    <3>2. shared'[r] = Merged(r) /\ \A x \in Runs : x # r => shared'[x] = shared[x]
      BY <1>3, <3>1
    <3>3. CASE Merged(r) > 0
      BY <3>2, <3>3
    <3>4. CASE ~(Merged(r) > 0)
      BY <3>1, <3>2, <3>4
    <3> QED BY <3>3, <3>4
  <2> QED BY <2>1, <2>2
<1>7. CASE Served' = Served
  BY <1>2, <1>4, <1>7 DEF Promise!promiseVars
<1>8. CASE Served' = Served \cup {r}
  <2>1. Promise!Serve(r)
    BY <1>2, <1>4, <1>8 DEF Promise!Serve
  <2> QED BY <2>1 DEF Promise!Next
<1> QED BY <1>6, <1>7, <1>8

\* The button, the overlay and the rollback.
LEMMA OtherDoorsPromise ==
  ASSUME CInv, ButtonCommits \/ \E r \in Runs : Overlay(r) \/ RollBack(r)
  PROVE  Promise!Next
<1>0. DoorTypes /\ Asked /\ {"button", "overlay", "rollback"} \subseteq Doors
  BY TypeParts DEF CInv, Doors
<1>1. CASE ButtonCommits
  <2>1. PICK r \in Runs : r = button.run /\ run[r] = "ready"
    BY <1>0, <1>1 DEF ButtonCommits, Asked, Pressed
  <2>2. Ends(r, "published") /\ MovesCurrent(r, pointer, "button") /\ UNCHANGED <<shared, shows>>
    BY <1>1, <2>1 DEF ButtonCommits
  <2>3. Promise!Publishes(r)
    BY <1>0, <2>1, <2>2, DoorPublishes DEF RunTerminal
  <2>4. Promise!PublishBare(r)
    BY <2>2, <2>3 DEF Promise!PublishBare
  <2> QED BY <2>4 DEF Promise!Next
<1>2. ASSUME NEW r \in Runs, Overlay(r)
      PROVE  Promise!Next
  <2>1. /\ run[r] = "absent" /\ pointer \in Runs /\ shows[pointer] # NoRun
        /\ Ends(r, "published") /\ MovesCurrent(r, pointer, "overlay")
        /\ shows' = [shows EXCEPT ![r] = shows[pointer]] /\ UNCHANGED shared
    BY <1>0, <1>2 DEF Overlay, DoorTypes
  <2>2. Promise!Publishes(r)
    BY <1>0, <2>1, DoorPublishes DEF RunTerminal
  <2>3. Promise!PublishOver(r)
    BY <2>1, <2>2 DEF Promise!PublishOver
  <2> QED BY <2>3 DEF Promise!Next
<1>3. ASSUME NEW r \in Runs, RollBack(r)
      PROVE  Promise!Next
  <2>1. /\ run[r] = "published" /\ r # pointer /\ MovesCurrent(r, pointer, "rollback")
        /\ UNCHANGED <<run, shared, shows>>
    BY <1>3 DEF RollBack
  <2>2. Promise!BecomesCurrent(r)
    BY <1>0, <2>1, HistoryGrows DEF MovesCurrent
  <2>3. RunPhase' = RunPhase /\ RunPhase[r] = "published"
    BY <2>1 DEF RunPhase
  <2>4. Promise!Return(r)
    BY <2>1, <2>2, <2>3 DEF Promise!Return
  <2> QED BY <2>4 DEF Promise!Next
<1> QED BY <1>1, <1>2, <1>3

\* Every step of Next is a step of the promise, or none.
LEMMA NextPromises ==
  ASSUME CInv, [Next]_vars
  PROVE  [Promise!Next]_Promise!promiseVars
<1>1. CASE UNCHANGED <<run, shared, pointer, log, shows>>
  BY <1>1 DEF Promise!promiseVars, RunPhase
<1>2. CASE QueueStep /\ Unpublished
  <2>1. UNCHANGED <<shared, pointer, log, shows>>
    BY <1>2 DEF Unpublished
  <2>2. CASE run' = run
    BY <1>1, <2>1, <2>2
  <2>3. ASSUME NEW r \in Runs, NEW s \in RunStates \ {"published"},
               run[r] \notin RunTerminal, run' = [run EXCEPT ![r] = s]
        PROVE  [Promise!Next]_Promise!promiseVars
    BY <2>1, <2>3, MoveAbandons
  <2> QED BY <1>2, <2>2, <2>3, QueueMoves DEF CInv
<1>3. ASSUME \/ \E r \in Runs :
                  ButtonReads(r) \/ OwnerReconciles(r) \/ \E new \in RunStates : MemberAdvances(r, new)
             \/ ButtonFails
      PROVE  [Promise!Next]_Promise!promiseVars
  <2>1. UNCHANGED <<shared, pointer, log, shows>>
    BY <1>3 DEF ButtonReads, OwnerReconciles, MemberAdvances, ButtonFails
  <2>2. PICK r \in Runs, s \in RunStates : MovesRun(r, s)
    BY <1>3, RunMoves
  <2>3. s = run[r] \/ (run[r] \notin RunTerminal /\ s # "published")
    BY <2>2 DEF MovesRun, RunActive, RunTerminal
  <2>4. run' = [run EXCEPT ![r] = s]
    BY <2>2 DEF MovesRun
  <2> QED BY <2>1, <2>3, <2>4, MoveAbandons
<1>4. CASE \E q \in Posts : PublishReviewed(q) \/ PublishRolledBack(q)
  BY <1>4, ReviewPromises, RolledBackServes
<1>5. CASE ButtonCommits \/ \E r \in Runs : Overlay(r) \/ RollBack(r)
  BY <1>5, OtherDoorsPromise
<1>6. CASE \/ \E r \in Runs, c \in Confs : Prepare(c, r)
           \/ \E q \in Posts : PublishRefused(q) \/ \E c \in Confs : Submit(q, c)
           \/ ButtonMarks \/ ButtonDies
           \/ UNCHANGED vars
  <2>1. UNCHANGED <<run, shared, pointer, log, shows>>
    BY <1>6 DEF Prepare, PublishRefused, Submit, ButtonMarks, ButtonDies, vars
  <2> QED BY <1>1, <2>1
<1> QED BY <1>2, <1>3, <1>4, <1>5, <1>6 DEF Next

\* The tables as they are created are the promise at its start.
LEMMA InitPromises == Init => Promise!Init
<1> SUFFICES ASSUME Init PROVE Promise!Init
  OBVIOUS
<1> DEFINE Names == [i \in DOMAIN log |-> log[i].run]
<1>1. Names = <<>>
  <2>1. log = <<>>
    BY DEF Init
  <2> QED BY <2>1
<1>2. RunPhase = [r \in Runs |-> "open"]
  BY DEF Init, CandidatesInit, RunPhase, RunTerminal
<1>3. {r \in Runs : shared[r] > 0} = {}
  BY DEF Init
<1> QED BY <1>1, <1>2, <1>3 DEF Init, Promise!Init

\* The doors of a Datastream implement CurrentPromise together: whichever of them
\* reads before another one commits, an execution is published once, outputs are
\* handed out with rows that are in place and stay there, and Current moves back
\* only to what was published (datastream_activation.py,
\* managed_feed_imports_api.py, dataset_recovery.py).
THEOREM CurrentKeepsHistory == Spec => KeepsHistory
<1>1. CInv /\ [Next]_vars => [Promise!Next]_Promise!promiseVars
  BY NextPromises
<1> QED BY <1>1, InitPromises, Invariance, PTL DEF Spec, KeepsHistory, Promise!Spec
=============================================================================
