------------------------- MODULE PublicationProofs --------------------------
(***************************************************************************)
(* The publication of a managed file, for any number of imports and        *)
(* workers: it keeps its types, a run is published exactly when the log    *)
(* names it, once, the three records of an import agree, what its dispatch *)
(* published has its rows and what was refused has none.  Only the group   *)
(* writes the log, committed by an import or by the button, and every      *)
(* other step leaves alone who is published.                               *)
(***************************************************************************)
EXTENDS Publication, SequenceTheorems, TLAPS

-----------------------------------------------------------------------------
(* The types, with what a process carries.                                 *)

Outcomes == {"none", "opened", "written"} \cup LedgerTerminal
Phases == {"none", "candidate", "doubled", "promoted"}
Entries == [run : Runs, by : {"import", "button"}]

\* A process that stands somewhere stands there with a run, and a run it saw
\* failed has stayed so.
Standing ==
  {x \in [pc : PcStates, run : Runs \cup {NoRun}, seen : RunStates,
          walk : DispatchStates, book : Outcomes \cup {"new"},
          closes : {"group", "confirm", "unproven"}] :
     /\ x.pc # "idle" => x.run \in Runs
     /\ x.seen = "failed" => x.run \in Runs /\ run[x.run] = "failed"}

Rows ==
  /\ run \in [Runs -> RunStates]
  /\ ledger \in [Runs -> Outcomes]
  /\ dispatch \in [Runs -> DispatchStates]
  /\ dq \in [Runs -> BOOLEAN]
  /\ wh \in [Runs -> Phases]

TypeInv ==
  /\ Rows
  /\ pointer \in Runs \cup {NoRun}
  /\ log \in Seq(Entries)
  /\ proc \in [Procs -> Standing]

PInv == TypeInv /\ PublishedIsLogged

\* What every step but the group does: it leaves alone who is published, and
\* revives nobody.
Quiet ==
  /\ UNCHANGED <<pointer, log>>
  /\ \A r \in Runs : (run'[r] = "published") <=> (run[r] = "published")
  /\ \A r \in Runs : run[r] = "failed" => run'[r] = "failed"

\* The part of it that a governed step writes.
RunStep ==
  /\ run' \in [Runs -> RunStates]
  /\ dispatch' \in [Runs -> DispatchStates]
  /\ proc' \in [Procs -> Standing]
  /\ \A r \in Runs : (run'[r] = "published") <=> (run[r] = "published")
  /\ \A r \in Runs : run[r] = "failed" => run'[r] = "failed"

Step == Rows' /\ proc' \in [Procs -> Standing] /\ Quiet

-----------------------------------------------------------------------------
(* The helpers the actions are built from.                                 *)

\* A process that does nothing stands where the types allow.
LEMMA IdleStands == Idle \in Standing
BY DEF Idle, Standing, PcStates, RunStates, DispatchStates, Outcomes

\* The types and the log, before anything was imported.
LEMMA InitOK == Init => PInv
<1> SUFFICES ASSUME Init PROVE PInv
  OBVIOUS
<1>1. TypeInv
  BY IdleStands DEF Init, TypeInv, Rows, Outcomes, Phases, RunStates, DispatchStates
<1>2. PublishedIsLogged
  BY DEF Init, PublishedIsLogged, Logged
<1> QED BY <1>1, <1>2 DEF PInv

\* A process that stands somewhere knows its run.
LEMMA KnowsItsRun ==
  ASSUME TypeInv, NEW p \in Procs, proc[p].pc # "idle"
  PROVE  /\ proc[p] \in Standing
         /\ proc[p].run \in Runs
BY DEF TypeInv, Standing

\* A process that goes where the types allow stands there.
LEMMA GoesStands ==
  ASSUME TypeInv, NEW p \in Procs, NEW next \in Standing, Goes(p, next)
  PROVE  proc' \in [Procs -> Standing]
BY DEF TypeInv, Goes

\* Advancing a dispatch writes one of its states ...
LEMMA AdvancedTypes ==
  ASSUME TypeInv, NEW r \in Runs, NEW s \in DispatchStates
  PROVE  Advanced(r, s) \in [Runs -> DispatchStates]
BY DEF TypeInv, Rows, Advanced

\* ... and leaving a half to the reconciliation does both.
LEMMA LeftTypes ==
  ASSUME TypeInv, NEW p \in Procs, proc[p].pc # "idle", LeftToReconcile(p)
  PROVE  /\ dispatch' \in [Runs -> DispatchStates]
         /\ proc' \in [Procs -> Standing]
<1>1. "reconcile_required" \in DispatchStates
  BY DEF DispatchStates
<1> QED BY <1>1, KnowsItsRun, AdvancedTypes, IdleStands, GoesStands DEF LeftToReconcile

\* A governed step moves its run between states that are not published.
LEMMA GovernedStepTypes ==
  ASSUME TypeInv, NEW w \in Procs, proc[w].pc # "idle",
         NEW from \in RunStates \cup {"none"}, NEW to \in RunStates \cup {"none"}, NEW s \in DispatchStates,
         NEW next \in PcStates \ {"idle"},
         from \in RunStates => to \in RunStates,
         from \notin {"published", "failed"}, to \notin {"published", "failed"},
         GovernedStep(w, from, to, s, next)
  PROVE  RunStep
<1> DEFINE r == proc[w].run
           due == proc[w].seen = from
           skips == WalkSkips(proc[w].walk, s)
           moved == [proc[w] EXCEPT !.pc = next,
                                    !.seen = IF due THEN to ELSE @,
                                    !.walk = IF skips THEN @ ELSE s,
                                    !.book = IF next = "gate" THEN "none" ELSE @]
<1>1. r \in Runs /\ proc[w] \in Standing
  BY KnowsItsRun
<1>2. proc[w].seen \in RunStates
  BY <1>1 DEF Standing
<1>3. /\ run' \in [Runs -> RunStates]
      /\ \A q \in Runs : (run'[q] = "published") <=> (run[q] = "published")
      /\ \A q \in Runs : run[q] = "failed" => run'[q] = "failed"
  BY <1>1, <1>2 DEF GovernedStep, TypeInv, Rows
<1>4. dispatch' \in [Runs -> DispatchStates]
  BY <1>1, AdvancedTypes DEF GovernedStep, TypeInv, Rows
<1>5. moved \in Standing
  BY <1>1, <1>2 DEF Standing, Outcomes
<1>6. [Idle EXCEPT !.pc = next, !.run = r] \in Standing
  BY <1>1 DEF Idle, Standing, Outcomes, RunStates, DispatchStates
<1>7. proc' \in [Procs -> Standing]
  BY <1>5, <1>6, IdleStands, GoesStands DEF GovernedStep
<1> QED BY <1>3, <1>4, <1>7 DEF RunStep

\* The governed steps of an import.
LEMMA GovernedSteps ==
  ASSUME TypeInv, NEW w \in Procs, proc[w].pc # "idle",
         \/ GovernedStep(w, "created", "loading", "landing", "land")
         \/ GovernedStep(w, "created", "loading", "landing", "observe")
         \/ GovernedStep(w, "none", "none", "landed", "gate")
         \/ GovernedStep(w, "loading", "validating", "validating", "dq")
         \/ GovernedStep(w, "validating", "ready", "ready", "begin")
  PROVE  RunStep
<1>1. /\ {"created", "loading", "validating", "ready"} \subseteq RunStates
      /\ "none" \notin RunStates
  BY DEF RunStates, RunActive, RunTerminal
<1>2. /\ {"landing", "landed", "validating", "ready"} \subseteq DispatchStates
      /\ {"land", "observe", "gate", "dq", "begin"} \subseteq PcStates \ {"idle"}
  BY DEF DispatchStates, PcStates
<1>3. CASE GovernedStep(w, "created", "loading", "landing", "land")
  BY <1>1, <1>2, <1>3, GovernedStepTypes
<1>4. CASE GovernedStep(w, "none", "none", "landed", "gate")
  BY <1>1, <1>2, <1>4, GovernedStepTypes
<1>5. CASE GovernedStep(w, "loading", "validating", "validating", "dq")
  BY <1>1, <1>2, <1>5, GovernedStepTypes
<1>6. CASE GovernedStep(w, "validating", "ready", "ready", "begin")
  BY <1>1, <1>2, <1>6, GovernedStepTypes
<1>7. CASE GovernedStep(w, "created", "loading", "landing", "observe")
  BY <1>1, <1>2, <1>7, GovernedStepTypes
<1> QED BY <1>3, <1>4, <1>5, <1>6, <1>7

-----------------------------------------------------------------------------
(* The import, one lemma per phase.                                        *)

\* Opening and replaying an import only prepare a process ...
LEMMA OpensAndReplays ==
  ASSUME TypeInv, NEW w \in Workers,
         \E r \in Runs : OpenImport(w, r) \/ ReplayImport(w, r)
  PROVE  Step
<1> USE DEF TypeInv, Rows, Step, Quiet
<1>1. w \in Procs
  BY DEF Procs
<1>3. ASSUME NEW r \in Runs, OpenImport(w, r)
      PROVE  Step
  <2>1. [Idle EXCEPT !.pc = "landing", !.run = r, !.seen = "created",
                     !.walk = "pending", !.book = "new"] \in Standing
    BY DEF Idle, Standing, PcStates, RunStates, RunActive, DispatchStates, Outcomes
  <2>2. proc' \in [Procs -> Standing]
    BY <1>1, <1>3, <2>1, GoesStands DEF OpenImport
  <2>3. run' \in [Runs -> RunStates] /\ Quiet
    BY <1>3 DEF OpenImport, CreateExecution, RunStates, RunActive
  <2>4. ledger' \in [Runs -> Outcomes] /\ dispatch' \in [Runs -> DispatchStates]
    BY <1>3 DEF OpenImport, Outcomes, DispatchStates
  <2> QED BY <1>3, <2>2, <2>3, <2>4 DEF OpenImport
<1>4. ASSUME NEW r \in Runs, ReplayImport(w, r)
      PROVE  Step
  <2>1. /\ [Idle EXCEPT !.pc = "reconcile", !.run = r] \in Standing
        /\ [Idle EXCEPT !.pc = "landing", !.run = r, !.seen = run[r],
                        !.walk = dispatch[r], !.book = ledger[r]] \in Standing
    BY DEF Idle, Standing, PcStates, RunStates, DispatchStates, Outcomes
  <2>2. proc' \in [Procs -> Standing]
    BY <1>1, <1>4, <2>1, GoesStands DEF ReplayImport
  <2> QED BY <1>4, <2>2 DEF ReplayImport
<1> QED BY <1>3, <1>4

\* ... landing moves the import to its rows ...
LEMMA LandsRows ==
  ASSUME TypeInv, NEW w \in Workers,
         StartLanding(w) \/ Land(w) \/ LandUncertain(w)
  PROVE  Step
<1> USE DEF TypeInv, Rows, Step, Quiet
<1>1. w \in Procs /\ proc[w].pc # "idle"
  BY DEF Procs, StartLanding, Land, LandUncertain, At
<1>2. proc[w].run \in Runs /\ proc[w] \in Standing
  BY <1>1, KnowsItsRun
<1>3. CASE StartLanding(w)
  <2>1. RunStep
    BY <1>1, <1>3, GovernedSteps DEF StartLanding
  <2> QED BY <1>3, <2>1 DEF StartLanding, RunStep
<1>4. CASE Land(w)
  <2>1. wh' \in [Runs -> Phases]
    BY <1>2, <1>4 DEF Land, Landed, Phases
  <2>2. [proc[w] EXCEPT !.pc = "observe"] \in Standing
    BY <1>2 DEF Standing, PcStates
  <2>3. proc' \in [Procs -> Standing]
    BY <1>1, <1>4, <2>2, GoesStands DEF Land
  <2> QED BY <1>4, <2>1, <2>3 DEF Land
<1>5. CASE LandUncertain(w)
  <2>1. wh' \in [Runs -> Phases]
    BY <1>2, <1>5 DEF LandUncertain, Landed, Phases
  <2>2. dispatch' \in [Runs -> DispatchStates]
    BY <1>2, <1>5, AdvancedTypes DEF LandUncertain, DispatchStates
  <2>3. proc' \in [Procs -> Standing]
    BY <1>1, <1>5, IdleStands, GoesStands DEF LandUncertain
  <2> QED BY <1>5, <2>1, <2>2, <2>3 DEF LandUncertain
<1> QED BY <1>3, <1>4, <1>5

\* ... the observation records what landed ...
LEMMA Observes ==
  ASSUME TypeInv, NEW w \in Workers,
         Observe(w) \/ ObserveDiverged(w) \/ ObserveRaises(w)
  PROVE  Step
<1> USE DEF TypeInv, Rows, Step, Quiet
<1>1. w \in Procs /\ proc[w].pc # "idle"
  BY DEF Procs, Observe, ObserveDiverged, ObserveRaises, At
<1>2. proc[w].run \in Runs /\ proc[w] \in Standing
  BY <1>1, KnowsItsRun
<1>3. Recorded(w) \in [Runs -> Outcomes]
  BY <1>2 DEF Recorded, Outcomes
<1>4. CASE Observe(w)
  <2>1. RunStep
    BY <1>1, <1>4, GovernedSteps DEF Observe
  <2> QED BY <1>3, <1>4, <2>1 DEF Observe, RunStep
<1>5. CASE ObserveDiverged(w)
  <2>1. dispatch' \in [Runs -> DispatchStates]
    BY <1>2, <1>5, AdvancedTypes DEF ObserveDiverged, DispatchStates
  <2>2. proc' \in [Procs -> Standing]
    BY <1>1, <1>5, IdleStands, GoesStands DEF ObserveDiverged
  <2> QED BY <1>3, <1>5, <2>1, <2>2 DEF ObserveDiverged
<1>6. CASE ObserveRaises(w)
  <2>1. proc' \in [Procs -> Standing]
    BY <1>1, <1>6, IdleStands, GoesStands DEF ObserveRaises
  <2> QED BY <1>6, <2>1 DEF ObserveRaises
<1> QED BY <1>4, <1>5, <1>6

\* A refusal fails its run only from a state that is active, or failed already.
LEMMA Refuses ==
  ASSUME TypeInv, NEW w \in Workers,
         RefuseRejections(w) \/ RefuseOnDqGates(w) \/ DieInRefusal(w)
  PROVE  Step
<1> USE DEF TypeInv, Rows, Step, Quiet
<1>1. w \in Procs /\ proc[w].pc # "idle"
  BY DEF Procs, RefuseRejections, RefuseOnDqGates, DieInRefusal, At
<1>2. proc[w].run \in Runs /\ proc[w] \in Standing
  BY <1>1, KnowsItsRun
<1>3. Discarded(proc[w].run) \in [Runs -> Phases]
  BY <1>2 DEF Discarded, Phases
<1>4. ASSUME NEW outcome \in {"rejected", "failed"}, Refuse(w, outcome)
      PROVE  Step
  <2>1. proc' \in [Procs -> Standing]
    BY <1>1, <1>4, IdleStands, GoesStands DEF Refuse
  <2>2. CASE RunStands(w)
    <3>1. run' = [run EXCEPT ![proc[w].run] = "failed"]
      BY <1>4, <2>2 DEF Refuse
    <3>2. run' \in [Runs -> RunStates]
      BY <3>1 DEF RunStates, RunTerminal
    <3>3. ledger' \in [Runs -> Outcomes] /\ wh' \in [Runs -> Phases]
      BY <1>2, <1>3, <1>4, <2>2 DEF Refuse, Outcomes, LedgerTerminal
    <3>4. dispatch' \in [Runs -> DispatchStates]
      BY <1>2, <1>4, <2>2, AdvancedTypes DEF Refuse, DispatchStates
    <3>5. run[proc[w].run] # "published"
      BY <1>2, <2>2 DEF RunStands, Standing, RunActive
    <3>6. Quiet
      BY <1>4, <3>1, <3>5 DEF Refuse
    <3> QED BY <1>4, <2>1, <3>2, <3>3, <3>4, <3>6 DEF Refuse
  <2>3. CASE ~RunStands(w)
    BY <1>4, <2>1, <2>3 DEF Refuse
  <2> QED BY <2>2, <2>3
<1>5. CASE DieInRefusal(w)
  <2>1. proc' \in [Procs -> Standing]
    BY <1>1, <1>5, IdleStands, GoesStands DEF DieInRefusal
  <2> QED BY <1>3, <1>5, <2>1 DEF DieInRefusal
<1> QED BY <1>4, <1>5 DEF RefuseRejections, RefuseOnDqGates

\* ... the gates advance the run ...
LEMMA Validates ==
  ASSUME TypeInv, NEW w \in Workers, Validate(w) \/ PassDqGates(w)
  PROVE  Step
<1>1. w \in Procs /\ proc[w].pc # "idle"
  BY DEF Procs, Validate, PassDqGates, At
<1>2. proc[w].run \in Runs
  BY <1>1, KnowsItsRun
<1>3. RunStep
  BY <1>1, GovernedSteps DEF Validate, PassDqGates
<1>4. dq' \in [Runs -> BOOLEAN]
  BY <1>2 DEF Validate, PassDqGates, TypeInv, Rows
<1>5. UNCHANGED <<ledger, wh, pointer, log>>
  BY DEF Validate, PassDqGates
<1> QED BY <1>3, <1>4, <1>5 DEF RunStep, Step, Quiet, TypeInv, Rows

-----------------------------------------------------------------------------
(* The cross-store write, its reconciliation, and people.                  *)

\* What is left to a reconciliation, with an uncertain warehouse or not.
LEMMA Leaves ==
  ASSUME TypeInv, NEW p \in Procs, proc[p].pc # "idle", LeftToReconcile(p),
         UNCHANGED <<run, ledger, dq, pointer, log>>,
         wh' \in [Runs -> Phases]
  PROVE  Step
BY LeftTypes DEF Step, Quiet, TypeInv, Rows

\* ... a half that fails is left to the reconciliation ...
LEMMA CrossStoreLeaves ==
  ASSUME TypeInv, NEW p \in Procs,
         \/ BeginRefused(p) \/ PromoteUnproven(p) \/ PromoteUncertain(p)
         \/ CommitRefused(p) \/ CommitRolledBack(p) \/ ReconcileUnready(p)
         \/ ConfirmUnproven(p)
  PROVE  Step
<1>1. proc[p].pc # "idle"
  BY DEF BeginRefused, PromoteUnproven, PromoteUncertain, CommitRefused,
         CommitRolledBack, CommitsGroup, ReconcileUnready, ConfirmUnproven, At
<1>2. proc[p].run \in Runs
  BY <1>1, KnowsItsRun
<1>3. wh' \in [Runs -> Phases]
  <2>1. wh \in [Runs -> Phases]
    BY DEF TypeInv, Rows
  <2>2. CASE PromoteUncertain(p)
    BY <1>2, <2>1, <2>2 DEF PromoteUncertain, Phases
  <2>3. CASE ~PromoteUncertain(p)
    BY <2>1, <2>3 DEF BeginRefused, PromoteUnproven, CommitRefused,
                      CommitRolledBack, ReconcileUnready, ConfirmUnproven
  <2> QED BY <2>2, <2>3
<1>4. LeftToReconcile(p) /\ UNCHANGED <<run, ledger, dq, pointer, log>>
  BY DEF BeginRefused, PromoteUnproven, PromoteUncertain, CommitRefused,
         CommitRolledBack, ReconcileUnready, ConfirmUnproven
<1> QED BY <1>1, <1>3, <1>4, Leaves

\* ... a half that succeeds moves on ...
LEMMA Promotes ==
  ASSUME TypeInv, NEW p \in Procs, Begin(p) \/ Promote(p)
  PROVE  Step
<1> USE DEF TypeInv, Rows, Step, Quiet
<1>1. proc[p].pc # "idle"
  BY DEF Begin, Promote, At
<1>2. proc[p].run \in Runs /\ proc[p] \in Standing
  BY <1>1, KnowsItsRun
<1>3. CASE Begin(p)
  <2>1. [proc[p] EXCEPT !.pc = "promote"] \in Standing
    BY <1>2 DEF Standing, PcStates
  <2>2. proc' \in [Procs -> Standing]
    BY <1>3, <2>1, GoesStands DEF Begin
  <2>3. run' \in [Runs -> RunStates] /\ Quiet
    BY <1>2, <1>3 DEF Begin, CanBegin, RunStates, RunActive
  <2>4. dispatch' \in [Runs -> DispatchStates]
    BY <1>2, <1>3 DEF Begin, DispatchStates
  <2> QED BY <1>3, <2>2, <2>3, <2>4 DEF Begin
<1>4. CASE Promote(p)
  <2>1. [proc[p] EXCEPT !.pc = "commit"] \in Standing
    BY <1>2 DEF Standing, PcStates
  <2>2. proc' \in [Procs -> Standing]
    BY <1>4, <2>1, GoesStands DEF Promote
  <2>3. wh' \in [Runs -> Phases]
    BY <1>2, <1>4 DEF Promote, Phases
  <2> QED BY <1>4, <2>2, <2>3 DEF Promote
<1> QED BY <1>3, <1>4

\* ... a reconciliation decides by what it reads ...
LEMMA Reconciles ==
  ASSUME TypeInv, NEW p \in Procs,
         ReconcileRefused(p) \/ ReconcileResumes(p) \/ ConfirmPublished(p)
  PROVE  Step
<1> USE DEF TypeInv, Rows, Step, Quiet
<1>1. proc[p].pc # "idle"
  BY DEF ReconcileRefused, ReconcileResumes, ConfirmPublished, At
<1>2. proc[p].run \in Runs /\ proc[p] \in Standing
  BY <1>1, KnowsItsRun
<1>4. CASE ReconcileRefused(p)
  <2>1. dispatch' \in [Runs -> DispatchStates]
    BY <1>2, <1>4, AdvancedTypes DEF ReconcileRefused, DispatchStates
  <2>2. proc' \in [Procs -> Standing]
    BY <1>4, IdleStands, GoesStands DEF ReconcileRefused
  <2> QED BY <1>4, <2>1, <2>2 DEF ReconcileRefused
<1>5. CASE ReconcileResumes(p)
  <2>1. /\ \A how \in {"confirm", "unproven"} :
             [proc[p] EXCEPT !.pc = "promote", !.closes = how] \in Standing
        /\ [proc[p] EXCEPT !.pc = "begin"] \in Standing
    BY <1>2 DEF Standing, PcStates
  <2>2. proc' \in [Procs -> Standing]
    BY <1>5, <2>1, GoesStands DEF ReconcileResumes
  <2> QED BY <1>5, <2>2 DEF ReconcileResumes
<1>6. CASE ConfirmPublished(p)
  <2>1. dispatch' \in [Runs -> DispatchStates]
    BY <1>2, <1>6, AdvancedTypes DEF ConfirmPublished, DispatchStates
  <2>2. proc' \in [Procs -> Standing]
    BY <1>6, IdleStands, GoesStands DEF ConfirmPublished
  <2> QED BY <1>6, <2>1, <2>2 DEF ConfirmPublished
<1> QED BY <1>4, <1>5, <1>6

\* ... the sweep picks a live journal ...
LEMMA Selects ==
  ASSUME TypeInv, NEW r \in Runs, Select(r)
  PROVE  Step
<1>1. [Idle EXCEPT !.pc = "reconcile", !.run = r] \in Standing
  BY DEF Idle, Standing, PcStates, RunStates, DispatchStates, Outcomes
<1>2. proc' \in [Procs -> Standing]
  BY <1>1, GoesStands DEF Select, Procs
<1> QED BY <1>2 DEF Select, Step, Quiet, TypeInv, Rows

\* ... and a death forgets.
LEMMA Dies ==
  ASSUME TypeInv, NEW p \in Procs, Die(p)
  PROVE  Step
<1>1. proc' \in [Procs -> Standing]
  BY IdleStands, GoesStands DEF Die
<1> QED BY <1>1 DEF Die, Step, Quiet, TypeInv, Rows

\* A person at a route, but for the press that publishes: nobody is both
\* publishing and in the log, so that the owner's reconciliation never finds the
\* evidence of a commit; the member's route excludes published.
Person(r) ==
  \/ OwnerReconciles(r) \/ MemberRecords(r)
  \/ ButtonReadies(r) \/ ButtonFails(r) \/ ButtonMarks(r)
  \/ \E new \in RunStates : MemberAdvances(r, new)

\* Such a person moves an active run, to no publication, or writes the ledger.
LEMMA PersonWrites ==
  ASSUME PInv, NEW r \in Runs, Person(r)
  PROVE  /\ UNCHANGED <<dispatch, dq, wh, pointer, log, proc>>
         /\ \/ /\ ledger' = ledger /\ run[r] \in RunActive
               /\ \E new \in RunStates \ {"absent", "publishing", "published"} :
                    /\ run' = [run EXCEPT ![r] = new]
                    /\ run[r] = "publishing" => new = "failed"
            \/ /\ run' = run
               /\ \/ ledger[r] = "opened" /\ ledger' = [ledger EXCEPT ![r] = "written"]
                  \/ /\ ledger[r] \notin LedgerTerminal /\ run[r] = "published"
                     /\ ledger' = [ledger EXCEPT ![r] = "published"]
<1>1. CASE OwnerReconciles(r) \/ ButtonFails(r)
  <2>1. run[r] \in RunActive /\ run' = [run EXCEPT ![r] = "failed"]
    BY <1>1 DEF OwnerReconciles, ButtonFails, PInv, PublishedIsLogged, Logged
  <2>2. "failed" \in RunStates \ {"absent", "publishing", "published"}
    BY DEF RunStates, RunTerminal
  <2> QED BY <1>1, <2>1, <2>2 DEF OwnerReconciles, ButtonFails
<1>2. CASE ButtonReadies(r)
  <2>1. "ready" \in RunStates \ {"absent", "publishing", "published"}
    BY DEF RunStates, RunActive
  <2> QED BY <1>2, <2>1 DEF ButtonReadies, RunActive
<1>3. CASE MemberRecords(r)
  BY <1>3 DEF MemberRecords
<1>4. CASE ButtonMarks(r)
  BY <1>4 DEF ButtonMarks, PInv, PublishedIsLogged, Logged
<1>5. ASSUME NEW new \in RunStates, MemberAdvances(r, new)
      PROVE  /\ new \notin {"absent", "publishing", "published"} /\ run[r] \in RunActive
             /\ run' = [run EXCEPT ![r] = new]
             /\ run[r] = "publishing" => new = "failed"
             /\ UNCHANGED <<ledger, dispatch, dq, wh, pointer, log, proc>>
  <2>1. /\ run[r] \in RunActive /\ new \notin {"publishing", "published"}
        /\ \/ new = "failed"
           \/ new = "cancelled" /\ run[r] # "publishing"
           \/ new \in Forward[run[r]]
    BY <1>5 DEF MemberAdvances, IsValidTransition, Cancellable
  <2>2. /\ "absent" \notin Forward[run[r]]
        /\ run[r] = "publishing" => Forward[run[r]] = {"published"}
    BY <2>1 DEF Forward, RunStates, RunActive
  <2> QED BY <1>5, <2>1, <2>2 DEF MemberAdvances
<1> QED BY <1>1, <1>2, <1>3, <1>4, <1>5 DEF Person

\* The types survive it, and who is published.
LEMMA PeopleMove ==
  ASSUME PInv, NEW r \in Runs, Person(r)
  PROVE  Step
<1> USE DEF PInv, TypeInv, Rows, Step, Quiet
<1>1. run' \in [Runs -> RunStates] /\ Quiet
  BY PersonWrites DEF RunActive
<1>2. ledger' \in [Runs -> Outcomes]
  BY PersonWrites DEF Outcomes, LedgerTerminal
<1> QED BY <1>1, <1>2, PersonWrites

-----------------------------------------------------------------------------
(* The invariant.                                                          *)

\* Whatever such a step is, the types and the log survive it.
LEMMA StepKeeps ==
  ASSUME PInv, Step
  PROVE  PInv'
<1> USE DEF PInv, TypeInv, Step, Quiet
<1>1. Standing \subseteq Standing'
  BY DEF Standing
<1>2. PublishedIsLogged'
  BY DEF PublishedIsLogged, Logged
<1> QED BY <1>1, <1>2

\* The group, whoever commits it: its run was active, so it is not in the log yet.
LEMMA GroupKeeps ==
  ASSUME PInv, NEW r \in Runs, NEW by \in {"import", "button"}, run[r] \in RunActive,
         PublicationGroup(r, by), ledger' \in [Runs -> Outcomes],
         dispatch' \in [Runs -> DispatchStates], UNCHANGED <<dq, wh>>,
         proc' = proc \/ \E p \in Procs : Goes(p, Idle)
  PROVE  PInv'
<1> DEFINE e == [run |-> r, by |-> by]
<1>1. TypeInv
  BY DEF PInv
<1>2. e \in Entries /\ e.run = r
  BY DEF Entries
<1>3. /\ run[r] # "published"
      /\ run' = [run EXCEPT ![r] = "published"]
      /\ log' = Append(log, e)
      /\ pointer' = r
  BY DEF PublicationGroup, RunActive
<1> HIDE DEF e
<1>4. log \in Seq(Entries) /\ Len(log) \in Nat /\ DOMAIN log = 1 .. Len(log)
  BY <1>1, LenProperties DEF TypeInv
<1>5. /\ log' \in Seq(Entries)
      /\ Len(log') = Len(log) + 1
      /\ DOMAIN log' = 1 .. (Len(log) + 1)
      /\ \A i \in 1 .. Len(log) : log'[i] = log[i]
      /\ log'[Len(log) + 1] = e
  BY <1>2, <1>3, <1>4, AppendProperties
<1>6. TypeInv'
  <2>1. /\ run' \in [Runs -> RunStates]
        /\ \A q \in Runs : run[q] = "failed" => run'[q] = "failed"
    BY <1>1, <1>3 DEF TypeInv, Rows, RunStates, RunTerminal, RunActive
  <2>2. Standing \subseteq Standing'
    BY <2>1 DEF Standing
  <2>3. proc' \in [Procs -> Standing]
    BY <1>1, <2>2, IdleStands, GoesStands DEF TypeInv
  <2> QED BY <1>1, <1>2, <1>3, <1>5, <2>1, <2>2, <2>3 DEF TypeInv, Rows
<1>7. PublishedIsLogged'
  <2>1. /\ \A q \in Runs : (run[q] = "published") <=> (\E i \in DOMAIN log : log[i].run = q)
        /\ \A i, j \in DOMAIN log : log[i].run = log[j].run => i = j
    BY DEF PInv, PublishedIsLogged, Logged
  <2>2. \A i \in DOMAIN log : log[i].run # r
    BY <1>3, <2>1
  <2>3. \A q \in Runs : (run'[q] = "published") <=> (\E i \in DOMAIN log' : log'[i].run = q)
    <3>1. ASSUME NEW q \in Runs, run'[q] = "published"
          PROVE  \E i \in DOMAIN log' : log'[i].run = q
      <4>1. CASE q = r
        <5>1. Len(log) + 1 \in DOMAIN log'
          BY <1>4, <1>5
        <5> QED BY <1>2, <1>5, <4>1, <5>1
      <4>2. CASE q # r
        <5>1. PICK i \in DOMAIN log : log[i].run = q
          BY <1>1, <1>3, <2>1, <3>1, <4>2 DEF TypeInv, Rows
        <5>2. i \in DOMAIN log' /\ log'[i].run = q
          BY <1>4, <1>5, <5>1
        <5> QED BY <5>2
      <4> QED BY <4>1, <4>2
    <3>2. ASSUME NEW q \in Runs, NEW i \in DOMAIN log', log'[i].run = q
          PROVE  run'[q] = "published"
      <4>1. CASE i = Len(log) + 1
        BY <1>1, <1>2, <1>3, <1>5, <3>2, <4>1 DEF TypeInv, Rows
      <4>2. CASE i # Len(log) + 1
        <5>1. i \in DOMAIN log /\ log[i].run = q
          BY <1>4, <1>5, <3>2, <4>2
        <5> QED BY <1>1, <1>2, <1>3, <2>1, <5>1 DEF TypeInv, Rows
      <4> QED BY <4>1, <4>2
    <3> QED BY <3>1, <3>2
  <2>4. ASSUME NEW i \in DOMAIN log', NEW j \in DOMAIN log', log'[i].run = log'[j].run
        PROVE  i = j
    <3>1. /\ i \in DOMAIN log \/ i = Len(log) + 1
          /\ j \in DOMAIN log \/ j = Len(log) + 1
      BY <1>4, <1>5
    <3> QED BY <1>2, <1>4, <1>5, <2>1, <2>2, <2>4, <3>1
  <2>5. log' # <<>> /\ pointer' = log'[Len(log')].run
    BY <1>2, <1>3, <1>4, <1>5
  <2> QED BY <2>3, <2>4, <2>5 DEF PublishedIsLogged, Logged
<1> QED BY <1>6, <1>7 DEF PInv

\* The commit of an import ...
LEMMA CommitKeeps ==
  ASSUME PInv, NEW p \in Procs, Commit(p)
  PROVE  PInv'
<1>1. TypeInv /\ proc[p].pc # "idle"
  BY DEF PInv, Commit, CommitsGroup, At
<1>2. proc[p].run \in Runs
  BY <1>1, KnowsItsRun
<1>3. /\ PublicationGroup(proc[p].run, "import") /\ run[proc[p].run] \in RunActive
      /\ Goes(p, Idle) /\ UNCHANGED <<dq, wh>>
  BY DEF Commit, CanCommit, RunActive
<1>4. ledger' \in [Runs -> Outcomes] /\ dispatch' \in [Runs -> DispatchStates]
  BY <1>1, <1>2 DEF Commit, TypeInv, Rows, Outcomes, LedgerTerminal, DispatchStates
<1> QED BY <1>2, <1>3, <1>4, GroupKeeps

\* ... and the press of the button that publishes.
LEMMA PressKeeps ==
  ASSUME PInv, NEW r \in Runs, ButtonCommits(r)
  PROVE  PInv'
<1>1. PublicationGroup(r, "button") /\ UNCHANGED <<ledger, dispatch, dq, wh, proc>>
  BY DEF ButtonCommits
<1>2. run[r] \in RunActive
  BY DEF ButtonCommits, RunActive
<1>3. ledger \in [Runs -> Outcomes] /\ dispatch \in [Runs -> DispatchStates]
  BY DEF PInv, TypeInv, Rows
<1> QED BY <1>1, <1>2, <1>3, GroupKeeps

\* They survive every step: those, and the two that publish.
LEMMA NextKeeps ==
  ASSUME PInv, [Next]_vars
  PROVE  PInv'
<1> SUFFICES ASSUME Next PROVE PInv'
  <2>1. CASE UNCHANGED vars
    BY <2>1 DEF vars, PInv, TypeInv, Rows, PublishedIsLogged, Logged, Standing
  <2> QED BY <2>1
<1>1. TypeInv
  BY DEF PInv
<1>2. ASSUME NEW w \in Workers, \E r \in Runs : OpenImport(w, r) \/ ReplayImport(w, r)
      PROVE  PInv'
  BY <1>1, <1>2, OpensAndReplays, StepKeeps
<1>3. ASSUME NEW w \in Workers, ImportStep(w)
      PROVE  PInv'
  <2>1. Step
    BY <1>1, <1>3, OpensAndReplays, LandsRows, Observes, Refuses, Validates DEF ImportStep
  <2> QED BY <2>1, StepKeeps
<1>4. ASSUME NEW p \in Procs, CrossStoreStep(p)
      PROVE  PInv'
  <2>1. CASE Commit(p)
    BY <2>1, CommitKeeps
  <2>2. CASE ~Commit(p)
    <3>1. Step
      BY <1>1, <1>4, <2>2, CrossStoreLeaves, Promotes, Reconciles DEF CrossStoreStep
    <3> QED BY <3>1, StepKeeps
  <2> QED BY <2>1, <2>2
<1>5. ASSUME NEW p \in Procs, Die(p)
      PROVE  PInv'
  BY <1>1, <1>5, Dies, StepKeeps
<1>6. ASSUME NEW r \in Runs, Select(r) \/ Person(r) \/ ButtonCommits(r)
      PROVE  PInv'
  BY <1>1, <1>6, Selects, PeopleMove, PressKeeps, StepKeeps
<1> QED BY <1>2, <1>3, <1>4, <1>5, <1>6 DEF Next, Press, Person

\* Types and log together, as neither is inductive alone.
THEOREM Inductive == Spec => []PInv
<1> QED BY InitOK, NextKeeps, PTL DEF Spec

\* Whatever dies, is replayed, reconciled or moved by hand, every row holds a value
\* its column accepts, and a process that stands somewhere knows its run
\* (import_runner.py, managed_file_dispatch.py).
THEOREM PublicationTypeCorrect == Spec => []TypeOK
<1>1. PInv => TypeOK
  BY DEF PInv, TypeInv, Rows, TypeOK, Standing, Outcomes, Phases, Entries
<1> QED BY <1>1, Inductive, PTL

\* A run is published exactly when datastream_publication_log names it, it is
\* named once, and the pointer is the last name: for any number of imports of
\* one Datastream and of workers on each.
THEOREM PublishedOnce == Spec => []PublishedIsLogged
<1>1. PInv => PublishedIsLogged
  BY DEF PInv
<1> QED BY <1>1, Inductive, PTL

-----------------------------------------------------------------------------
(* What was published through the dispatch is there, and what was refused is *)
(* not.  A promotion that is under way has moved its run on for good, and   *)
(* its dispatch unless the button published first, so that whoever may      *)
(* still refuse a run is early, and stopped; and whoever refuses knows that *)
(* nobody brings its rows any more.                                         *)

\* A dispatch whose import is decided, and a ledger that refused it.
Late == DispatchStates \ {"pending", "landing", "landed", "validating", "ready"}
Refused == {"rejected", "failed"}

\* A promotion of the run has been announced, or the button published it:
\* nothing takes that back.
Moved(r) ==
  /\ dq[r]
  /\ \/ run[r] = "published"
     \/ run[r] \in {"publishing", "failed", "cancelled"} /\ dispatch[r] \in Late

Bringing(p, r) == proc[p].run = r /\ proc[p].pc \in {"promote", "commit"}

Untouched(r) == wh[r] # "promoted" /\ \A q \in Procs : ~Bringing(q, r)

Landers == {"landing", "land", "observe"}
Gates == {"gate", "dq"}

\* The first landing of an import, before its rows; and an import whose first
\* landing is behind it.
Fresh(p) == proc[p].pc \in {"landing", "land"} /\ proc[p].book = "new"
Arrived(r) == \A q \in Procs : ~(Fresh(q) /\ proc[q].run = r)

\* The walk refuses its first step.
Barred(p) ==
  /\ At(p, "landing")
  /\ dispatch[proc[p].run] \in Late
  /\ proc[p].walk \in Late \ {"published"}

\* Who lands again replays what the button published, and who stands at a gate
\* of an open import has its first landing behind it; a run that was seen failed
\* has not been, and will not be, promoted.
Sound(p) ==
  LET r == proc[p].run
  IN /\ proc[p].seen # "publishing"
     /\ proc[p].seen = "failed" => Untouched(r)
     /\ proc[p].pc \in Landers =>
          \/ proc[p].book \in {"new", "written"}
          \/ proc[p].book = "published" /\ ledger[r] = "published"
     /\ At(p, "land") => proc[p].book # "written"
     /\ At(p, "observe") /\ proc[p].book = "new" => Arrived(r)
     /\ proc[p].pc \in Gates => Arrived(r) \/ ledger[r] \in LedgerTerminal

\* What a process may count on.
Placed(p) ==
  LET r == proc[p].run
  IN proc[p].pc # "idle" =>
     /\ run[r] # "absent"
     /\ Fresh(p) => wh[r] = "none" \/ ledger[r] \in LedgerTerminal
     /\ proc[p].pc \in Landers \cup Gates => Barred(p) \/ Sound(p)
     /\ proc[p].closes = "confirm" => ledger[r] = "published"
     /\ proc[p].pc \in {"promote", "commit"} => Moved(r)
     /\ At(p, "commit") => wh[r] = "promoted"

Ordered(r) ==
  /\ run[r] = "absent" => ledger[r] = "none" /\ dispatch[r] = "none" /\ wh[r] = "none"
  /\ ledger[r] \in LedgerTerminal \ {"published"} => dispatch[r] \in Late
  /\ run[r] = "publishing" => dispatch[r] \in Late
  /\ wh[r] = "promoted" => Moved(r)
  /\ dispatch[r] = "published" => wh[r] = "promoted"
  /\ ledger[r] \in Refused => wh[r] = "none"

\* Only the worker that opened an import has its first landing before it, and
\* nobody has that of an import that was refused.
Alone ==
  /\ \A p, q \in Procs : Fresh(p) /\ Fresh(q) /\ proc[p].run = proc[q].run => p = q
  /\ \A r \in Runs : ledger[r] \in Refused => Arrived(r)

WInv ==
  /\ \A r \in Runs : Ordered(r)
  /\ \A p \in Procs : Placed(p)
  /\ Alone

\* What a step of p does to the rows of an import.
Ages(p, r) ==
  /\ ledger'[r] \in Refused => ledger[r] \in Refused \/ (run[r] # "absent" /\ Arrived(r))
  /\ run[r] # "absent" =>
       /\ run'[r] # "absent"
       /\ dispatch[r] \in Late => dispatch'[r] \in Late
       /\ ledger[r] = "published" => ledger'[r] = "published"
       /\ ledger[r] \in LedgerTerminal => ledger'[r] \in LedgerTerminal
       /\ Moved(r) => Moved(r)'
       /\ wh[r] = "promoted" => wh'[r] = "promoted"
       /\ wh'[r] = "promoted" => wh[r] = "promoted" \/ \E q \in Procs : Bringing(q, r)
       /\ wh[r] = "none" /\ wh'[r] # "none" =>
            ledger[r] = "published" \/ (Fresh(p) /\ proc[p].run = r)

\* What it does to where the processes stand: nobody takes up a run that failed,
\* or has the first landing of an import that exists before it.
Flow ==
  \A q \in Procs, r \in Runs :
    /\ Bringing(q, r)' => Bringing(q, r) \/ run[r] # "failed"
    /\ Fresh(q)' /\ proc'[q].run = r => run[r] = "absent" \/ (Fresh(q) /\ proc[q].run = r)

\* What it does to p itself.
Turns(p) ==
  /\ \A q \in Procs : q # p => proc'[q] = proc[q]
  /\ Flow

Keeps(p) ==
  /\ \A r \in Runs : Ordered(r)' /\ Ages(p, r)
  /\ Turns(p)
  /\ Placed(p)'

\* A process whose step only concerns itself changes nothing for the others.
LEMMA TurnsOf ==
  ASSUME NEW p \in Procs,
         \A q \in Procs : q # p => proc'[q] = proc[q],
         \A r \in Runs : Bringing(p, r)' => Bringing(p, r) \/ run[r] # "failed",
         Fresh(p)' => \/ run[proc'[p].run] = "absent"
                      \/ (Fresh(p) /\ proc'[p].run = proc[p].run)
  PROVE  Turns(p)
<1>1. ASSUME NEW q \in Procs, NEW r \in Runs
      PROVE  /\ Bringing(q, r)' => Bringing(q, r) \/ run[r] # "failed"
             /\ Fresh(q)' /\ proc'[q].run = r
                  => run[r] = "absent" \/ (Fresh(q) /\ proc[q].run = r)
  <2>1. CASE q = p
    BY <2>1
  <2>2. CASE q # p
    BY <2>2 DEF Bringing, Fresh
  <2> QED BY <2>1, <2>2
<1> QED BY <1>1 DEF Turns, Flow

\* An import whose first landing is behind it stays so.
LEMMA StaysArrived ==
  ASSUME NEW r \in Runs, Flow, Arrived(r), run[r] # "absent"
  PROVE  Arrived(r)'
BY DEF Arrived, Flow

\* A process that stands still may count on the same after a step of another.
LEMMA OthersPlaced ==
  ASSUME PInv, WInv, NEW p \in Procs, NEW q \in Procs,
         p # q \/ UNCHANGED wh,
         proc'[q] = proc[q],
         \A r \in Runs : Ages(p, r),
         Flow
  PROVE  Placed(q)'
<1> DEFINE r == proc[q].run
<1> SUFFICES ASSUME proc[q].pc # "idle" PROVE Placed(q)'
  BY DEF Placed
<1>1. r \in Runs /\ proc[q] \in Standing /\ Placed(q) /\ Ages(p, r) /\ run[r] # "absent"
  BY KnowsItsRun DEF PInv, WInv, Placed
<1>2. proc'[q].run = r
  OBVIOUS
<1>3. ASSUME Sound(q), proc[q].pc \in Landers \cup Gates PROVE Sound(q)'
  <2>1. proc[q].seen = "failed" => Untouched(r)'
    <3>1. SUFFICES ASSUME proc[q].seen = "failed" PROVE Untouched(r)'
      OBVIOUS
    <3>2. run[r] = "failed" /\ Untouched(r)
      BY <1>1, <1>3, <3>1 DEF Standing, Sound
    <3>3. wh'[r] # "promoted"
      BY <1>1, <3>2 DEF Untouched, Ages
    <3> QED BY <1>1, <3>2, <3>3 DEF Untouched, Flow
  <2>2. Arrived(r) => Arrived(r)'
    BY <1>1, StaysArrived
  <2> QED BY <1>1, <1>2, <1>3, <2>1, <2>2 DEF Sound, Ages, At
<1>4. Barred(q) => Barred(q)'
  BY <1>1, <1>2 DEF Barred, At, Ages
<1>5. Fresh(q)' => wh'[r] = "none" \/ ledger'[r] \in LedgerTerminal
  <2>1. SUFFICES ASSUME Fresh(q), ledger[r] \notin LedgerTerminal PROVE wh'[r] = "none"
    BY <1>1 DEF Ages, Fresh
  <2>2. wh[r] = "none"
    BY <1>1, <2>1 DEF Placed
  <2>3. p # q => ~(Fresh(p) /\ proc[p].run = r)
    BY <2>1 DEF WInv, Alone
  <2> QED BY <1>1, <2>1, <2>2, <2>3 DEF Ages, LedgerTerminal
<1> QED BY <1>1, <1>2, <1>3, <1>4, <1>5 DEF Placed, Ages, At

\* A step of one process keeps what everybody counts on.
LEMMA KeepsAll ==
  ASSUME PInv, WInv, NEW p \in Procs, Keeps(p)
  PROVE  WInv'
<1>1. \A q \in Procs : Placed(q)'
  BY OthersPlaced DEF Keeps, Turns
<1>2. ASSUME NEW q \in Procs, NEW s \in Procs, Fresh(q)', Fresh(s)', proc'[q].run = proc'[s].run,
             q # s
      PROVE  FALSE
  <2>1. PICK x \in {q, s} : x # p
    BY <1>2
  <2>2. /\ proc'[x] = proc[x] /\ Fresh(x) /\ proc[x].pc # "idle" /\ x \in Procs
        /\ proc'[q].run = proc[x].run /\ proc'[s].run = proc[x].run
    BY <1>2, <2>1 DEF Keeps, Turns, Fresh
  <2>3. proc[x].run \in Runs /\ run[proc[x].run] # "absent"
    BY <2>2, KnowsItsRun DEF PInv, WInv, Placed
  <2>4. /\ Fresh(q) /\ proc[q].run = proc[x].run
        /\ Fresh(s) /\ proc[s].run = proc[x].run
    BY <1>2, <2>2, <2>3 DEF Keeps, Turns, Flow
  <2> QED BY <1>2, <2>4 DEF WInv, Alone
<1>3. ASSUME NEW r \in Runs, ledger'[r] \in Refused PROVE Arrived(r)'
  <2>1. Arrived(r) /\ run[r] # "absent"
    BY <1>3 DEF Keeps, Ages, WInv, Alone, Ordered, Refused
  <2> QED BY <2>1, StaysArrived DEF Keeps, Turns
<1> QED BY <1>1, <1>2, <1>3 DEF Keeps, WInv, Alone

\* advance_dispatch never leaves what is decided, and an exit decides.
LEMMA AdvancedAges ==
  ASSUME TypeInv, NEW r \in Runs, NEW s \in DispatchStates, dispatch' = Advanced(r, s)
  PROVE  /\ \A q \in Runs : q # r => dispatch'[q] = dispatch[q]
         /\ dispatch[r] \in Late => dispatch'[r] \in Late
         /\ s \in Exits => dispatch'[r] \in Late
         /\ dispatch'[r] \in {dispatch[r], s}
<1>1. dispatch \in [Runs -> DispatchStates]
  BY DEF TypeInv, Rows
<1>2. \A d \in DispatchStates : d \in Late => DispatchForward[d] \subseteq Late
  BY DEF DispatchForward, Late, Exits, DispatchStates
<1>3. \A d \in DispatchStates : d \notin Late => Exits \subseteq DispatchForward[d]
  BY DEF DispatchForward, Late, Exits, DispatchStates
<1>4. Exits \subseteq Late
  BY DEF Exits, Late, DispatchStates
<1> QED BY <1>1, <1>2, <1>3, <1>4 DEF Advanced, Moves

\* A governed step of a worker that is not barred moves its run forward ...
LEMMA GovernedKeeps ==
  ASSUME PInv, WInv, NEW w \in Workers,
         NEW from \in {"created", "loading", "validating", "none"},
         NEW to \in {"loading", "validating", "ready", "none"},
         from = "none" <=> to = "none",
         NEW s \in {"landing", "landed", "validating", "ready"},
         NEW next \in {"land", "observe", "gate", "dq", "begin"},
         proc[w].pc \in Landers \cup Gates, Sound(w), UNCHANGED wh,
         \A r \in Runs : /\ ledger'[r] = ledger[r] \/ (ledger[r] = "opened" /\ ledger'[r] = "written")
                         /\ dq[r] => dq'[r],
         ledger'[proc[w].run] # ledger[proc[w].run] => next = "gate",
         \A r \in Runs : r # proc[w].run => ledger'[r] = ledger[r],
         next \in {"land", "observe"} => proc[w].pc = "landing",
         next = "land" => proc[w].book # "written",
         next = "observe" => proc[w].book = "written",
         next = "gate" => Arrived(proc[w].run) \/ ledger[proc[w].run] \in LedgerTerminal,
         next \in {"dq", "begin"} => proc[w].pc \in Gates,
         GovernedStep(w, from, to, s, next)
  PROVE  Keeps(w)
<1>0. w \in Procs /\ proc[w].pc # "idle" /\ Placed(w) /\ TypeInv
  BY DEF Procs, Landers, Gates, WInv, PInv
<1>1. PICK i \in Runs : i = proc[w].run /\ proc[w] \in Standing /\ run[i] # "absent"
  BY <1>0, KnowsItsRun DEF Placed
<1>2. run \in [Runs -> RunStates] /\ proc[w].seen \in RunStates /\ "none" \notin RunStates
  BY <1>0, <1>1 DEF TypeInv, Rows, Standing, RunStates, RunActive, RunTerminal
<1>3. /\ \A q \in Runs : q # i => run'[q] = run[q]
      /\ \/ run'[i] = run[i]
         \/ /\ run[i] \in {"created", "loading", "validating"}
            /\ run'[i] \in {"loading", "validating", "ready"}
  BY <1>1, <1>2 DEF GovernedStep
<1>4. /\ \A q \in Runs : q # i => dispatch'[q] = dispatch[q]
      /\ dispatch[i] \in Late => dispatch'[i] \in Late
      /\ dispatch'[i] \in {dispatch[i], "landing", "landed", "validating", "ready"}
  <2>1. dispatch' = dispatch \/ dispatch' = Advanced(i, s)
    BY <1>1 DEF GovernedStep
  <2>2. s \in DispatchStates
    BY DEF DispatchStates
  <2> QED BY <1>0, <1>1, <2>1, <2>2, AdvancedAges
<1>5. \A q \in Procs : q # w => proc'[q] = proc[q]
  BY <1>0 DEF GovernedStep, Goes, TypeInv
<1>6. ASSUME NEW q \in Runs
      PROVE  Ordered(q)' /\ Ages(w, q)
  <2>1. Ordered(q)
    BY DEF WInv
  <2>2. Moved(q) => Moved(q)'
    BY <1>3, <1>4 DEF Moved
  <2>3. ledger'[q] = ledger[q] \/ (ledger[q] = "opened" /\ ledger'[q] = "written")
    OBVIOUS
  <2>4. run'[q] = "absent" <=> run[q] = "absent"
    BY <1>1, <1>3
  <2>5. Ages(w, q)
    BY <1>1, <1>4, <2>2, <2>3, <2>4 DEF Ages, Refused, LedgerTerminal
  <2>6. run'[q] = "publishing" => run[q] = "publishing"
    BY <1>3
  <2>7. run'[q] = "absent" => dispatch'[q] = dispatch[q] /\ ledger'[q] = ledger[q]
    BY <1>1, <1>4, <2>4
  <2> QED BY <1>4, <2>1, <2>2, <2>3, <2>4, <2>5, <2>6, <2>7 DEF Ordered, LedgerTerminal, Refused
<1>7. \/ proc'[w] = Idle
      \/ next = "begin" /\ proc'[w] = [Idle EXCEPT !.pc = next, !.run = i]
      \/ /\ next # "begin" /\ proc'[w].pc = next /\ proc'[w].run = i
         /\ proc'[w].seen \in {proc[w].seen, to} \ {"none"}
         /\ proc'[w].closes = proc[w].closes
         /\ proc'[w].book = IF next = "gate" THEN "none" ELSE proc[w].book
  <2>1. proc[w].seen = from => to # "none"
    BY <1>2
  <2> QED BY <1>0, <1>1, <1>2, <2>1 DEF GovernedStep, Goes, TypeInv, Standing
<1>8. Turns(w)
  <2>1. CASE proc'[w] = Idle
    BY <1>0, <1>5, <2>1, TurnsOf DEF Bringing, Fresh, Idle
  <2>2. CASE next = "begin" /\ proc'[w] = [Idle EXCEPT !.pc = next, !.run = i]
    <3>1. proc'[w].pc = "begin"
      BY <2>2 DEF Idle
    <3> QED BY <1>0, <1>5, <3>1, TurnsOf DEF Bringing, Fresh
  <2>3. CASE /\ next # "begin" /\ proc'[w].pc = next /\ proc'[w].run = i
             /\ proc'[w].book = IF next = "gate" THEN "none" ELSE proc[w].book
    <3>1. Fresh(w)' => Fresh(w) /\ proc'[w].run = proc[w].run
      BY <1>1, <2>3 DEF Fresh
    <3>2. proc'[w].pc \notin {"promote", "commit"}
      BY <2>3
    <3>3. \A r \in Runs : ~Bringing(w, r)'
      BY <3>2 DEF Bringing
    <3> QED BY <1>0, <1>5, <3>1, <3>3, TurnsOf
  <2> QED BY <1>7, <2>1, <2>2, <2>3
<1>9. Placed(w)'
  <2>1. CASE proc'[w] = Idle
    BY <2>1 DEF Placed, Idle
  <2>2. CASE next = "begin" /\ proc'[w] = [Idle EXCEPT !.pc = next, !.run = i]
    BY <1>1, <1>3, <2>2 DEF Placed, Idle, At, Landers, Gates, Fresh
  <2>3. CASE /\ next # "begin" /\ proc'[w].pc = next /\ proc'[w].run = i
             /\ proc'[w].seen \in {proc[w].seen, to} \ {"none"}
             /\ proc'[w].closes = proc[w].closes
             /\ proc'[w].book = IF next = "gate" THEN "none" ELSE proc[w].book
    <3>1. proc'[w].seen = "failed" => Untouched(i)'
      <4>1. proc'[w].seen = "failed" => Untouched(i)
        BY <1>1, <2>3 DEF Sound
      <4>2. \A q \in Procs : Bringing(q, i)' => Bringing(q, i)
        BY <1>5, <2>3 DEF Bringing
      <4> QED BY <4>1, <4>2 DEF Untouched
    <3>2. proc'[w].seen # "publishing"
      BY <2>3 DEF Sound
    <3>3. Arrived(i) => Arrived(i)'
      BY <1>1, <1>8, StaysArrived DEF Turns
    <3>4. /\ ledger[i] \in LedgerTerminal => ledger'[i] \in LedgerTerminal
          /\ ledger[i] = "published" => ledger'[i] = "published"
      BY <1>1, <1>6 DEF Ages
    <3>5. next \in {"gate", "dq"} => Arrived(i)' \/ ledger'[i] \in LedgerTerminal
      BY <1>1, <3>3, <3>4 DEF Sound
    <3>6. next \in {"land", "observe"} =>
            /\ proc'[w].book = proc[w].book
            /\ proc[w].book \in {"new", "written"} \/ (proc[w].book = "published" /\ ledger[i] = "published")
      BY <1>1, <2>3 DEF Sound, Landers
    <3>7. Sound(w)'
      BY <1>1, <2>3, <3>1, <3>2, <3>4, <3>5, <3>6 DEF Sound, Landers, Gates, At
    <3>8. run'[i] # "absent"
      BY <1>1, <1>3
    <3>9. Fresh(w)' => wh'[i] = "none" \/ ledger'[i] \in LedgerTerminal
      <4>1. Fresh(w)' => Fresh(w)
        BY <2>3 DEF Fresh
      <4> QED BY <1>0, <1>1, <3>4, <4>1 DEF Placed
    <3>10. proc'[w].closes = "confirm" => ledger'[i] = "published"
      BY <1>0, <1>1, <2>3, <3>4 DEF Placed
    <3> QED BY <2>3, <3>7, <3>8, <3>9, <3>10 DEF Placed, At
  <2> QED BY <1>7, <2>1, <2>2, <2>3
<1> QED BY <1>6, <1>8, <1>9 DEF Keeps

\* A step that writes no row of an import.
LEMMA RowsStill ==
  ASSUME WInv, NEW p, UNCHANGED <<run, ledger, dispatch, dq, wh>>
  PROVE  \A r \in Runs : Ordered(r)' /\ Ages(p, r)
BY DEF WInv, Ordered, Ages, Moved

\* Whoever is through counts on nothing.
LEMMA LeavesKeep ==
  ASSUME PInv, NEW p \in Procs, Goes(p, Idle)
  PROVE  Turns(p) /\ Placed(p)'
<1>1. proc'[p] = Idle /\ \A q \in Procs : q # p => proc'[q] = proc[q]
  BY DEF Goes, PInv, TypeInv
<1>2. Turns(p)
  BY <1>1, TurnsOf DEF Bringing, Fresh, Idle
<1> QED BY <1>1, <1>2 DEF Placed, Idle

\* A new import finds nothing of its run; a replay finds what its dispatch and
\* its ledger say.
LEMMA OpenKeeps ==
  ASSUME PInv, WInv, NEW w \in Workers, NEW i \in Runs, OpenImport(w, i)
  PROVE  Keeps(w)
<1> DEFINE x == [Idle EXCEPT !.pc = "landing", !.run = i, !.seen = "created",
                             !.walk = "pending", !.book = "new"]
<1>0. w \in Procs /\ Rows /\ Ordered(i) /\ proc \in [Procs -> Standing]
  BY DEF Procs, PInv, TypeInv, WInv
<1>1. /\ run[i] = "absent" /\ run' = [run EXCEPT ![i] = "created"]
      /\ ledger' = [ledger EXCEPT ![i] = "opened"]
      /\ dispatch' = [dispatch EXCEPT ![i] = "pending"]
      /\ proc' = [proc EXCEPT ![w] = x] /\ UNCHANGED <<dq, wh>>
  BY DEF OpenImport, CreateExecution, Goes
<1>2. wh[i] = "none"
  BY <1>0, <1>1 DEF Ordered
<1>3. \A r \in Runs : r # i => Ordered(r)' /\ Ages(w, r)
  <2>1. ASSUME NEW r \in Runs, r # i PROVE Ordered(r)' /\ Ages(w, r)
    <3>1. /\ run'[r] = run[r] /\ ledger'[r] = ledger[r] /\ dispatch'[r] = dispatch[r]
          /\ dq'[r] = dq[r] /\ wh'[r] = wh[r]
      BY <1>0, <1>1, <2>1 DEF Rows
    <3> QED BY <3>1 DEF WInv, Ordered, Ages, Moved
  <2> QED BY <2>1
<1>4. Ordered(i)' /\ Ages(w, i)
  <2>1. run'[i] = "created" /\ ledger'[i] = "opened" /\ dispatch'[i] = "pending"
    BY <1>0, <1>1 DEF Rows
  <2> QED BY <1>1, <1>2, <2>1 DEF Ordered, Ages, LedgerTerminal, Refused
<1>5. /\ proc'[w] = x /\ \A q \in Procs : q # w => proc'[q] = proc[q]
      /\ x.pc = "landing" /\ x.run = i /\ x.seen = "created" /\ x.book = "new"
      /\ x.closes = "group"
  BY <1>0, <1>1 DEF Idle
<1> HIDE DEF x
<1>6. Turns(w)
  BY <1>0, <1>1, <1>5, TurnsOf DEF Bringing
<1>7. Placed(w)'
  <2>1. run'[i] = "created"
    BY <1>0, <1>1 DEF Rows
  <2>2. Sound(w)'
    BY <1>5, <2>1 DEF Sound, Gates, At
  <2> QED BY <1>1, <1>2, <1>5, <2>1, <2>2 DEF Placed, At, Landers, Fresh
<1> QED BY <1>3, <1>4, <1>6, <1>7 DEF Keeps

\* A replay knows of the rows what it has just read ...
LEMMA ReplayKeeps ==
  ASSUME PInv, WInv, NEW w \in Workers, NEW i \in Runs, ReplayImport(w, i)
  PROVE  Keeps(w)
<1>0. w \in Procs /\ Rows /\ Ordered(i) /\ proc \in [Procs -> Standing]
  BY DEF Procs, PInv, TypeInv, WInv
<1>1. At(w, "idle") /\ ledger[i] # "none" /\ UNCHANGED <<run, ledger, dispatch, dq, wh>>
  BY DEF ReplayImport
<1>2. run[i] # "absent" /\ ledger[i] \in Outcomes /\ dispatch[i] \in DispatchStates
  BY <1>0, <1>1 DEF Ordered, Rows
<1>3. \A r \in Runs : Ordered(r)' /\ Ages(w, r)
  BY <1>1, RowsStill
<1>4. CASE Goes(w, [Idle EXCEPT !.pc = "reconcile", !.run = i])
  <2>1. /\ proc'[w].pc = "reconcile" /\ proc'[w].run = i /\ proc'[w].closes = "group"
        /\ \A q \in Procs : q # w => proc'[q] = proc[q]
    BY <1>0, <1>4 DEF Goes, Idle
  <2>2. Turns(w)
    BY <1>0, <2>1, TurnsOf DEF Bringing, Fresh
  <2>3. Placed(w)'
    BY <1>1, <1>2, <2>1 DEF Placed, At, Landers, Gates, Fresh
  <2> QED BY <1>3, <2>2, <2>3 DEF Keeps
<1>5. CASE /\ dispatch[i] \notin {"promoting", "reconcile_required"} /\ ~Settled(i)
           /\ Goes(w, [Idle EXCEPT !.pc = "landing", !.run = i, !.seen = run[i],
                                   !.walk = dispatch[i], !.book = ledger[i]])
  <2>1. /\ proc'[w].pc = "landing" /\ proc'[w].run = i /\ proc'[w].closes = "group"
        /\ proc'[w].seen = run[i] /\ proc'[w].walk = dispatch[i] /\ proc'[w].book = ledger[i]
        /\ \A q \in Procs : q # w => proc'[q] = proc[q]
    BY <1>0, <1>5 DEF Goes, Idle
  <2>2. ~Fresh(w)'
    BY <1>2, <2>1 DEF Fresh, Outcomes, LedgerTerminal
  <2>3. Turns(w)
    BY <1>0, <2>1, <2>2, TurnsOf DEF Bringing
  <2>4. CASE dispatch[i] \in Late
    <3>1. Barred(w)'
      BY <1>1, <1>5, <2>1, <2>4 DEF Barred, At, Settled
    <3>2. Placed(w)'
      BY <1>1, <1>2, <2>1, <2>2, <3>1 DEF Placed, At, Landers
    <3> QED BY <1>3, <2>3, <3>2 DEF Keeps
  <2>5. CASE dispatch[i] \notin Late
    <3>1. ledger[i] \in {"written", "published"}
      BY <1>0, <1>1, <1>2, <1>5, <2>5 DEF Ordered, Settled, Outcomes, LedgerTerminal
    <3>2. run[i] # "publishing"
      BY <1>0, <2>5 DEF Ordered
    <3>3. run[i] = "failed" => Untouched(i)'
      <4>1. SUFFICES ASSUME run[i] = "failed" PROVE Untouched(i)'
        OBVIOUS
      <4>2. ~Moved(i)
        BY <2>5, <4>1 DEF Moved
      <4>3. wh[i] # "promoted" /\ \A q \in Procs : ~Bringing(q, i)
        BY <1>0, <4>2 DEF Ordered, WInv, Placed, Bringing
      <4>4. \A q \in Procs : ~Bringing(q, i)'
        BY <2>1, <4>3 DEF Bringing
      <4> QED BY <1>1, <4>3, <4>4 DEF Untouched
    <3>4. Sound(w)'
      BY <1>1, <2>1, <3>1, <3>2, <3>3 DEF Sound, Gates, At
    <3>5. Placed(w)'
      BY <1>1, <1>2, <2>1, <2>2, <3>4 DEF Placed, At, Landers
    <3> QED BY <1>3, <2>3, <3>5 DEF Keeps
  <2> QED BY <2>4, <2>5
<1> QED BY <1>4, <1>5 DEF ReplayImport

\* ... and one that is barred goes no further than the first step of its walk.
LEMMA StartKeeps ==
  ASSUME PInv, WInv, NEW w \in Workers, StartLanding(w)
  PROVE  Keeps(w)
<1> DEFINE next == IF Lands(w) THEN "land" ELSE "observe"
<1>0. /\ w \in Procs /\ proc[w].pc = "landing" /\ TypeInv
      /\ GovernedStep(w, "created", "loading", "landing", next)
      /\ UNCHANGED <<ledger, dq, wh>>
  BY DEF Procs, PInv, StartLanding, At
<1>1. PICK i \in Runs : i = proc[w].run /\ proc[w] \in Standing
  BY <1>0, KnowsItsRun
<1>2. Barred(w) \/ Sound(w)
  BY <1>0 DEF WInv, Placed, Landers
<1>3. CASE Barred(w)
  <2>1. ~WalkSkips(proc[w].walk, "landing")
    BY <1>3 DEF Barred, WalkSkips, WalkOrder, Late, DispatchStates
  <2>2. dispatch[i] \in Late
    BY <1>1, <1>3 DEF Barred
  <2>3. \A d \in Late : d # "landing" /\ "landing" \notin DispatchForward[d]
    BY DEF Late, DispatchStates, DispatchForward, Exits
  <2>4. ~Moves(i, "landing")
    BY <2>2, <2>3 DEF Moves
  <2>5. Goes(w, Idle) /\ dispatch' = dispatch
    BY <1>0, <1>1, <2>1, <2>4 DEF GovernedStep
  <2>6. \A q \in Runs : q # i => run'[q] = run[q]
    BY <1>0, <1>1 DEF GovernedStep, TypeInv, Rows
  <2>7. run'[i] = run[i] \/ (run[i] = "created" /\ run'[i] = "loading")
    BY <1>0, <1>1 DEF GovernedStep, TypeInv, Rows
  <2>8. ASSUME NEW q \in Runs PROVE Ordered(q)' /\ Ages(w, q)
    <3>1. Ordered(q)
      BY DEF WInv
    <3>2. run'[q] = run[q] \/ (run[q] = "created" /\ run'[q] = "loading")
      BY <2>6, <2>7
    <3> QED BY <1>0, <2>5, <3>1, <3>2 DEF Ordered, Ages, Moved
  <2> QED BY <1>0, <2>5, <2>8, LeavesKeep DEF Keeps
<1>4. CASE Sound(w)
  <2>1. /\ next \in {"land", "observe"}
        /\ next = "land" => proc[w].book # "written"
        /\ next = "observe" => proc[w].book = "written"
    BY DEF Lands
  <2> HIDE DEF next
  <2> QED BY <1>0, <1>4, <2>1, GovernedKeeps DEF Landers
<1> QED BY <1>2, <1>3, <1>4

\* Rows reach an import that is open through its first landing only, and an
\* import that was refused through none.
LEMMA LandKeeps ==
  ASSUME PInv, WInv, NEW w \in Workers, Land(w) \/ LandUncertain(w)
  PROVE  Keeps(w)
<1>0. w \in Procs /\ proc[w].pc = "land" /\ TypeInv /\ proc \in [Procs -> Standing]
  BY DEF Procs, PInv, TypeInv, Land, LandUncertain, At
<1>1. PICK i \in Runs : i = proc[w].run /\ proc[w] \in Standing
  BY <1>0, KnowsItsRun
<1>2. Sound(w) /\ run[i] # "absent" /\ Ordered(i)
  BY <1>0, <1>1 DEF WInv, Placed, Landers, Barred, At
<1>3. Fresh(w) \/ ledger[i] = "published"
  BY <1>0, <1>1, <1>2 DEF Sound, Landers, At, Fresh
<1>4. /\ \A r \in Runs : r # i => wh'[r] = wh[r]
      /\ \/ wh'[i] = wh[i]
         \/ wh[i] # "promoted" /\ wh'[i] \in {"candidate", "doubled"}
  <2>1. wh \in [Runs -> Phases]
    BY <1>0 DEF TypeInv, Rows
  <2> QED BY <1>1, <2>1 DEF Land, LandUncertain, Landed, Phases
<1>5. /\ \A r \in Runs : r # i => dispatch'[r] = dispatch[r]
      /\ dispatch[i] \in Late => dispatch'[i] \in Late
      /\ dispatch'[i] \in {dispatch[i], "reconcile_required"}
      /\ UNCHANGED <<run, ledger, dq>>
  <2>1. dispatch' = dispatch \/ dispatch' = Advanced(i, "reconcile_required")
    BY <1>1 DEF Land, LandUncertain
  <2>2. "reconcile_required" \in DispatchStates
    BY DEF DispatchStates
  <2>3. UNCHANGED <<run, ledger, dq>>
    BY DEF Land, LandUncertain
  <2> QED BY <1>0, <2>1, <2>2, <2>3, AdvancedAges
<1>6. ledger[i] \notin Refused
  BY <1>1, <1>3 DEF WInv, Alone, Arrived, Refused, Procs
<1>7. ASSUME NEW r \in Runs PROVE Ordered(r)' /\ Ages(w, r)
  <2>1. Ordered(r) /\ (Moved(r) => Moved(r)')
    BY <1>5 DEF WInv, Moved
  <2>2. wh'[r] = "promoted" <=> wh[r] = "promoted"
    BY <1>4
  <2>3. ledger[r] \in Refused => wh'[r] = wh[r]
    BY <1>4, <1>6
  <2>4. run[r] = "absent" => dispatch'[r] = dispatch[r] /\ wh'[r] = wh[r]
    BY <1>2, <1>4, <1>5
  <2>5. dispatch[r] \in Late => dispatch'[r] \in Late
    BY <1>5
  <2>6. wh[r] = "none" /\ wh'[r] # "none" => ledger[r] = "published" \/ (Fresh(w) /\ proc[w].run = r)
    BY <1>1, <1>3, <1>4
  <2>7. dispatch'[r] = "published" => dispatch[r] = "published"
    BY <1>5
  <2> QED BY <1>5, <2>1, <2>2, <2>3, <2>4, <2>5, <2>6, <2>7 DEF Ordered, Ages
<1>8. CASE Goes(w, Idle)
  BY <1>0, <1>7, <1>8, LeavesKeep DEF Keeps
<1>9. CASE Goes(w, [proc[w] EXCEPT !.pc = "observe"])
  <2>1. /\ proc'[w].pc = "observe" /\ proc'[w].run = i /\ proc'[w].seen = proc[w].seen
        /\ proc'[w].book = proc[w].book /\ proc'[w].closes = proc[w].closes
        /\ \A q \in Procs : q # w => proc'[q] = proc[q]
    BY <1>0, <1>1, <1>9 DEF Goes, Standing
  <2>2. ~Fresh(w)' /\ Turns(w)
    BY <1>0, <2>1, TurnsOf DEF Bringing, Fresh
  <2>3. Untouched(i) => Untouched(i)'
    <3>1. \A q \in Procs : Bringing(q, i)' => Bringing(q, i)
      BY <2>1 DEF Bringing
    <3> QED BY <1>4, <3>1 DEF Untouched
  <2>4. proc[w].book = "new" => Arrived(i)'
    <3>1. SUFFICES ASSUME proc[w].book = "new", NEW q \in Procs, Fresh(q)', proc'[q].run = i
                   PROVE  FALSE
      BY DEF Arrived
    <3>2. q # w /\ Fresh(q) /\ proc[q].run = i
      BY <2>1, <2>2, <3>1 DEF Fresh
    <3>3. Fresh(w)
      BY <1>0, <3>1 DEF Fresh
    <3> QED BY <1>0, <1>1, <3>2, <3>3 DEF WInv, Alone
  <2>5. Sound(w)'
    BY <1>0, <1>1, <1>2, <1>5, <2>1, <2>3, <2>4 DEF Sound, Landers, Gates, At
  <2>6. Placed(w)'
    BY <1>0, <1>1, <1>2, <1>5, <2>1, <2>2, <2>5 DEF WInv, Placed, At, Landers
  <2> QED BY <1>7, <2>2, <2>6 DEF Keeps
<1> QED BY <1>8, <1>9 DEF Land, LandUncertain

\* What a worker that observes rows knows of them: they are those of its first
\* landing, or that landing is over, as rows are there.
LEMMA ObservesArrived ==
  ASSUME PInv, WInv, NEW w \in Workers, At(w, "observe"), Observable(w), ledger' = Recorded(w)
  PROVE  /\ Sound(w)
         /\ Arrived(proc[w].run) \/ ledger[proc[w].run] \in LedgerTerminal
         /\ \A r \in Runs : \/ ledger'[r] = ledger[r]
                            \/ ledger[r] = "opened" /\ ledger'[r] = "written"
         /\ \A r \in Runs : r # proc[w].run => ledger'[r] = ledger[r]
<1>0. w \in Procs /\ proc[w].pc = "observe" /\ ledger \in [Runs -> Outcomes]
  BY DEF Procs, PInv, TypeInv, Rows, At
<1>1. PICK i \in Runs : i = proc[w].run
  BY <1>0, KnowsItsRun DEF PInv
<1>2. Sound(w)
  BY <1>0 DEF WInv, Placed, Landers, Gates, Barred, At
<1>3. wh[i] # "none"
  BY <1>1 DEF Observable
<1>4. CASE Lands(w)
  <2>1. ledger[i] = "opened" /\ ledger' = [ledger EXCEPT ![i] = "written"]
    BY <1>1, <1>4 DEF Observable, Recorded
  <2>2. Arrived(i)
    BY <1>0, <1>1, <1>2, <1>4, <2>1 DEF Sound, Lands, Landers, At
  <2> QED BY <1>0, <1>1, <1>2, <2>1, <2>2
<1>5. CASE ~Lands(w)
  <2>1. ledger' = ledger
    BY <1>5 DEF Recorded
  <2>2. Arrived(i) \/ ledger[i] \in LedgerTerminal
    <3>1. \A q \in Procs : Fresh(q) /\ proc[q].run = i => ledger[i] \in LedgerTerminal
      BY <1>3 DEF WInv, Placed, Fresh
    <3> QED BY <3>1 DEF Arrived
  <2> QED BY <1>1, <1>2, <2>1, <2>2
<1> QED BY <1>4, <1>5

\* ... the observation finds the landing in place ...
LEMMA ObserveKeeps ==
  ASSUME PInv, WInv, NEW w \in Workers,
         Observe(w) \/ ObserveDiverged(w) \/ ObserveRaises(w)
  PROVE  Keeps(w)
<1>0. w \in Procs /\ proc[w].pc = "observe" /\ At(w, "observe") /\ TypeInv
  BY DEF Procs, PInv, Observe, ObserveDiverged, ObserveRaises, At
<1>1. PICK i \in Runs : i = proc[w].run
  BY <1>0, KnowsItsRun
<1>2. CASE Observe(w)
  <2>1. ledger' = Recorded(w) /\ Observable(w) /\ UNCHANGED <<dq, wh>>
        /\ GovernedStep(w, "none", "none", "landed", "gate")
    BY <1>2 DEF Observe
  <2>2. /\ Sound(w)
        /\ Arrived(proc[w].run) \/ ledger[proc[w].run] \in LedgerTerminal
        /\ \A r \in Runs : \/ ledger'[r] = ledger[r]
                           \/ ledger[r] = "opened" /\ ledger'[r] = "written"
        /\ \A r \in Runs : r # proc[w].run => ledger'[r] = ledger[r]
    BY <1>0, <2>1, ObservesArrived
  <2> QED BY <1>0, <2>1, <2>2, GovernedKeeps DEF Landers
<1>3. CASE ObserveDiverged(w)
  <2>1. /\ ledger' = Recorded(w) /\ Observable(w) /\ UNCHANGED <<run, dq, wh>> /\ Goes(w, Idle)
        /\ dispatch' = Advanced(i, "reconcile_required")
    BY <1>1, <1>3 DEF ObserveDiverged
  <2>2. /\ \A r \in Runs : \/ ledger'[r] = ledger[r]
                           \/ ledger[r] = "opened" /\ ledger'[r] = "written"
        /\ \A r \in Runs : r # i => ledger'[r] = ledger[r]
    BY <1>0, <1>1, <2>1, ObservesArrived
  <2>3. "reconcile_required" \in DispatchStates
    BY DEF DispatchStates
  <2>4. /\ \A r \in Runs : r # i => dispatch'[r] = dispatch[r]
        /\ dispatch[i] \in Late => dispatch'[i] \in Late
        /\ dispatch'[i] \in {dispatch[i], "reconcile_required"}
    BY <1>0, <2>1, <2>3, AdvancedAges
  <2>5. run[i] # "absent"
    BY <1>0, <1>1 DEF WInv, Placed
  <2>6. ASSUME NEW r \in Runs PROVE Ordered(r)' /\ Ages(w, r)
    <3>1. Ordered(r) /\ (Moved(r) => Moved(r)')
      BY <2>1, <2>4 DEF WInv, Moved
    <3>2. run[r] = "absent" => dispatch'[r] = dispatch[r] /\ ledger'[r] = ledger[r]
      BY <2>2, <2>4, <2>5
    <3>3. ledger'[r] = ledger[r] \/ (ledger[r] = "opened" /\ ledger'[r] = "written")
      BY <2>2
    <3>4. dispatch[r] \in Late => dispatch'[r] \in Late
      BY <2>4
    <3>5. dispatch'[r] = "published" => dispatch[r] = "published"
      BY <2>4
    <3> QED BY <2>1, <3>1, <3>2, <3>3, <3>4, <3>5 DEF Ordered, Ages, LedgerTerminal, Refused
  <2> QED BY <1>0, <2>1, <2>6, LeavesKeep DEF Keeps
<1>4. CASE ObserveRaises(w)
  <2>1. Goes(w, Idle) /\ UNCHANGED <<run, ledger, dispatch, dq, wh>>
    BY <1>4 DEF ObserveRaises
  <2> QED BY <1>0, <2>1, RowsStill, LeavesKeep DEF Keeps
<1> QED BY <1>2, <1>3, <1>4

\* ... the gates write their evidence in order ...
LEMMA GatesKeep ==
  ASSUME PInv, WInv, NEW w \in Workers, Validate(w) \/ PassDqGates(w)
  PROVE  Keeps(w)
<1>0. w \in Procs /\ proc[w].pc \in Gates /\ TypeInv
  BY DEF Procs, PInv, Validate, PassDqGates, At, Gates
<1>1. PICK i \in Runs : i = proc[w].run
  BY <1>0, KnowsItsRun DEF Gates
<1>2. Sound(w)
  BY <1>0 DEF WInv, Placed, Landers, Gates, Barred, At
<1>3. CASE Validate(w)
  <2>1. /\ GovernedStep(w, "loading", "validating", "validating", "dq")
        /\ UNCHANGED <<ledger, dq, wh>>
    BY <1>3 DEF Validate
  <2> QED BY <1>0, <1>2, <2>1, GovernedKeeps
<1>4. CASE PassDqGates(w)
  <2>1. /\ GovernedStep(w, "validating", "ready", "ready", "begin")
        /\ UNCHANGED <<ledger, wh>>
        /\ dq' = [dq EXCEPT ![i] = @ \/ dispatch'[i] = "ready"]
    BY <1>1, <1>4 DEF PassDqGates
  <2>2. \A r \in Runs : dq[r] => dq'[r]
    BY <1>0, <2>1 DEF TypeInv, Rows
  <2> QED BY <1>0, <1>2, <2>1, <2>2, GovernedKeeps
<1> QED BY <1>3, <1>4

\* A refusal that takes effect finds nothing promoted, and nobody on the way.
LEMMA RefuseKeeps ==
  ASSUME PInv, WInv, NEW w \in Workers,
         RefuseRejections(w) \/ RefuseOnDqGates(w) \/ DieInRefusal(w)
  PROVE  Keeps(w)
<1>0. w \in Procs /\ proc[w].pc \in Gates /\ TypeInv /\ Rows
  BY DEF Procs, PInv, TypeInv, RefuseRejections, RefuseOnDqGates, DieInRefusal, At, Gates
<1>1. PICK i \in Runs : i = proc[w].run /\ proc[w] \in Standing
  BY <1>0, KnowsItsRun DEF Gates
<1>2. Sound(w) /\ run[i] # "absent" /\ Ordered(i)
  BY <1>0, <1>1 DEF WInv, Placed, Landers, Gates, Barred, At
<1>3. Goes(w, Idle)
  BY DEF RefuseRejections, RefuseOnDqGates, DieInRefusal, Refuse
<1>4. RunStands(w) => wh[i] # "promoted"
  <2>1. RunStands(w) => \/ proc[w].seen = "failed"
                        \/ run[i] \in RunActive \ {"publishing"}
    BY <1>1, <1>2 DEF RunStands, Sound
  <2>2. run[i] \in RunActive \ {"publishing"} => wh[i] # "promoted"
    BY <1>2 DEF Ordered, Moved, RunActive
  <2> QED BY <1>1, <1>2, <2>1, <2>2 DEF Sound, Untouched
<1>5. /\ \A r \in Runs : r # i => wh'[r] = wh[r]
      /\ RunStands(w) => wh'[i] = "none"
      /\ ~RunStands(w) => wh' = wh
  <2>1. wh' = IF RunStands(w) THEN Discarded(i) ELSE wh
    BY <1>1 DEF RefuseRejections, RefuseOnDqGates, Refuse, DieInRefusal
  <2> QED BY <1>0, <1>1, <1>4, <2>1 DEF Discarded, Rows, Phases
<1>6. /\ dq' = dq
      /\ \A r \in Runs : r # i => /\ run'[r] = run[r] /\ ledger'[r] = ledger[r]
                                  /\ dispatch'[r] = dispatch[r]
      /\ run'[i] = run[i] \/ (run'[i] = "failed" /\ run[i] # "published")
      /\ dispatch[i] \in Late => dispatch'[i] \in Late
      /\ dispatch'[i] \in {dispatch[i], "rejected", "failed"}
      /\ \/ ledger'[i] = ledger[i]
         \/ /\ ledger'[i] \in Refused /\ dispatch'[i] \in Late
            /\ RunStands(w) /\ ledger[i] \notin LedgerTerminal
  <2>1. CASE DieInRefusal(w) \/ ~RunStands(w)
    BY <2>1 DEF DieInRefusal, RefuseRejections, RefuseOnDqGates, Refuse
  <2>2. CASE ~DieInRefusal(w) /\ RunStands(w)
    <3>1. PICK outcome \in {"rejected", "failed"} : Refuse(w, outcome)
      BY <2>2 DEF RefuseRejections, RefuseOnDqGates
    <3>2. /\ run' = [run EXCEPT ![i] = "failed"] /\ dq' = dq
          /\ \/ ledger' = ledger /\ dispatch' = dispatch
             \/ /\ ledger[i] \notin LedgerTerminal
                /\ ledger' = [ledger EXCEPT ![i] = outcome]
                /\ dispatch' = Advanced(i, outcome)
      BY <1>1, <2>2, <3>1 DEF Refuse
    <3>3. outcome \in DispatchStates /\ outcome \in Exits /\ outcome \in Refused
      BY DEF DispatchStates, Exits, Refused
    <3>4. run'[i] = "failed" /\ \A r \in Runs : r # i => run'[r] = run[r]
      BY <1>0, <3>2 DEF Rows
    <3>5. run[i] # "published"
      BY <1>1, <2>2 DEF RunStands, Standing, RunActive
    <3>6. CASE ledger' = ledger /\ dispatch' = dispatch
      BY <3>2, <3>4, <3>5, <3>6
    <3>7. CASE /\ ledger[i] \notin LedgerTerminal
               /\ ledger' = [ledger EXCEPT ![i] = outcome]
               /\ dispatch' = Advanced(i, outcome)
      <4>1. /\ \A r \in Runs : r # i => dispatch'[r] = dispatch[r]
            /\ dispatch'[i] \in Late /\ dispatch'[i] \in {dispatch[i], outcome}
        BY <1>0, <3>3, <3>7, AdvancedAges
      <4>2. ledger'[i] = outcome /\ \A r \in Runs : r # i => ledger'[r] = ledger[r]
        BY <1>0, <3>7 DEF Rows
      <4> QED BY <2>2, <3>2, <3>3, <3>4, <3>5, <3>7, <4>1, <4>2
    <3> QED BY <3>2, <3>6, <3>7
  <2> QED BY <2>1, <2>2
<1>7. ASSUME NEW r \in Runs PROVE Ordered(r)' /\ Ages(w, r)
  <2>1. CASE r # i
    <3>1. Ordered(r)
      BY DEF WInv
    <3> QED BY <1>5, <1>6, <2>1, <3>1 DEF Ordered, Ages, Moved
  <2>2. CASE r = i
    <3>1. Moved(i) => Moved(i)'
      BY <1>6 DEF Moved
    <3>2. wh'[i] = "promoted" <=> wh[i] = "promoted"
      BY <1>4, <1>5
    <3>3. ledger'[i] \in Refused => ledger[i] \in Refused \/ Arrived(i)
      BY <1>0, <1>1, <1>2, <1>6 DEF Sound
    <3>4. ledger[i] \in LedgerTerminal => ledger'[i] = ledger[i]
      BY <1>6
    <3>5. wh[i] = "none" => wh'[i] = "none"
      BY <1>5
    <3>6. Ages(w, i)
      BY <1>2, <1>6, <3>1, <3>2, <3>3, <3>4, <3>5 DEF Ages, LedgerTerminal
    <3>7. Ordered(i)'
      <4>1. ledger'[i] \in LedgerTerminal \ {"published"} => dispatch'[i] \in Late
        BY <1>2, <1>6 DEF Ordered
      <4>2. run'[i] = "publishing" => dispatch'[i] \in Late
        BY <1>2, <1>6 DEF Ordered
      <4>3. ledger'[i] \in Refused => wh'[i] = "none"
        BY <1>2, <1>5, <1>6 DEF Ordered
      <4>4. run'[i] # "absent"
        BY <1>2, <1>6
      <4>5. wh'[i] = "promoted" => Moved(i)'
        BY <1>2, <3>1, <3>2 DEF Ordered
      <4>6. dispatch'[i] = "published" => wh'[i] = "promoted"
        BY <1>2, <1>6, <3>2 DEF Ordered
      <4> QED BY <4>1, <4>2, <4>3, <4>4, <4>5, <4>6 DEF Ordered
    <3> QED BY <2>2, <3>6, <3>7
  <2> QED BY <2>1, <2>2
<1> QED BY <1>0, <1>3, <1>7, LeavesKeep DEF Keeps

-----------------------------------------------------------------------------
(* The cross-store write and the reconciliation, in the same terms.        *)

\* What the halves do to the rows: the warehouse may have promoted those of a
\* promotion under way, the dispatch is advanced, or neither.
LEMMA HalvesAge ==
  ASSUME PInv, WInv, NEW p \in Procs, NEW i \in Runs, i = proc[p].run,
         proc[p].pc # "idle", UNCHANGED <<run, ledger, dq>>,
         \A r \in Runs : r # i => dispatch'[r] = dispatch[r] /\ wh'[r] = wh[r],
         dispatch[i] \in Late => dispatch'[i] \in Late,
         dispatch'[i] = "published" => dispatch[i] = "published" \/ At(p, "commit"),
         \/ wh'[i] = wh[i]
         \/ (Bringing(p, i) /\ wh[i] # "none" /\ wh'[i] = "promoted")
  PROVE  \A r \in Runs : Ordered(r)' /\ Ages(p, r)
<1> SUFFICES ASSUME NEW r \in Runs PROVE Ordered(r)' /\ Ages(p, r)
  OBVIOUS
<1>1. Ordered(r) /\ (Moved(r) => Moved(r)')
  BY DEF WInv, Moved
<1>2. wh'[r] = "promoted" => Moved(r)
  <2>1. Bringing(p, i) => Moved(i)
    BY DEF WInv, Placed, Bringing
  <2> QED BY <1>1, <2>1 DEF Ordered
<1>3. run[i] # "absent"
  BY DEF WInv, Placed
<1>4. Ages(p, r)
  BY <1>1 DEF Ages
<1>5. run[r] = "absent" => dispatch'[r] = dispatch[r] /\ wh'[r] = wh[r]
  BY <1>3
<1>6. ledger[r] \in Refused => wh'[r] = "none"
  BY <1>1 DEF Ordered
<1>7. dispatch[r] \in Late => dispatch'[r] \in Late
  OBVIOUS
<1>8. dispatch'[r] = "published" => wh'[r] = "promoted"
  <2>1. At(p, "commit") => wh[i] = "promoted"
    BY DEF WInv, Placed, At
  <2> QED BY <1>1, <2>1 DEF Ordered
<1> QED BY <1>1, <1>2, <1>4, <1>5, <1>6, <1>7, <1>8 DEF Ordered

\* ... a half that fails, or is refused, takes no rows ...
LEMMA HalvesKeep ==
  ASSUME PInv, WInv, NEW p \in Procs,
         \/ BeginRefused(p) \/ PromoteUnproven(p) \/ PromoteUncertain(p)
         \/ CommitRefused(p) \/ CommitRolledBack(p)
         \/ ReconcileUnready(p) \/ ReconcileRefused(p)
         \/ ConfirmPublished(p) \/ ConfirmUnproven(p)
  PROVE  Keeps(p)
<1>0. /\ proc[p].pc \in {"begin", "promote", "commit", "reconcile"} /\ TypeInv
      /\ Goes(p, Idle) /\ UNCHANGED <<run, ledger, dq>>
  BY DEF PInv, BeginRefused, PromoteUnproven, PromoteUncertain, CommitRefused,
         CommitRolledBack, CommitsGroup, ReconcileUnready, ReconcileRefused,
         ConfirmPublished, ConfirmUnproven, LeftToReconcile, At
<1>1. PICK i \in Runs : i = proc[p].run
  BY <1>0, KnowsItsRun
<1>2. /\ \A r \in Runs : r # i => dispatch'[r] = dispatch[r]
      /\ dispatch[i] \in Late => dispatch'[i] \in Late
      /\ dispatch'[i] = "published" => dispatch[i] = "published" \/ At(p, "commit")
  <2>1. PICK s \in {"reconcile_required", "rejected", "failed", "published"} :
          /\ dispatch' = Advanced(i, s)
          /\ s = "published" => At(p, "commit")
    BY <1>1 DEF BeginRefused, PromoteUnproven, PromoteUncertain, CommitRefused,
         CommitRolledBack, ReconcileUnready, ReconcileRefused, ConfirmPublished,
         ConfirmUnproven, LeftToReconcile
  <2>2. s \in DispatchStates
    BY DEF DispatchStates
  <2> QED BY <1>0, <2>1, <2>2, AdvancedAges
<1>3. /\ \A r \in Runs : r # i => wh'[r] = wh[r]
      /\ \/ wh'[i] = wh[i]
         \/ (Bringing(p, i) /\ wh[i] # "none" /\ wh'[i] = "promoted")
  <2>1. CASE PromoteUncertain(p)
    <3>1. proc[p].pc = "promote" /\ wh[i] # "none"
      BY <1>1, <2>1 DEF PromoteUncertain, Promotable, At
    <3>2. wh \in [Runs -> Phases]
      BY <1>0 DEF TypeInv, Rows
    <3> QED BY <1>1, <2>1, <3>1, <3>2 DEF PromoteUncertain, Bringing
  <2>2. CASE ~PromoteUncertain(p)
    <3>1. wh' = wh
      BY <2>2 DEF BeginRefused, PromoteUnproven, CommitRefused, CommitRolledBack,
         ReconcileUnready, ReconcileRefused, ConfirmPublished, ConfirmUnproven
    <3> QED BY <3>1
  <2> QED BY <2>1, <2>2
<1>4. \A r \in Runs : Ordered(r)' /\ Ages(p, r)
  BY <1>0, <1>1, <1>2, <1>3, HalvesAge
<1> QED BY <1>0, <1>4, LeavesKeep DEF Keeps

\* A promotion is announced of a run that passed its gates, and of no run that
\* failed; of a run seen published the ledger is read at the same time.
LEMMA PromotesKeep ==
  ASSUME PInv, WInv, NEW p \in Procs,
         Begin(p) \/ Promote(p) \/ ReconcileResumes(p)
  PROVE  Keeps(p)
<1>0. /\ proc[p].pc \in {"begin", "promote", "reconcile"} /\ TypeInv /\ Rows
      /\ proc \in [Procs -> Standing]
  BY DEF PInv, TypeInv, Begin, Promote, ReconcileResumes, At
<1>1. PICK i \in Runs : i = proc[p].run /\ proc[p] \in Standing /\ Placed(p) /\ Ordered(i)
  BY <1>0, KnowsItsRun DEF WInv
<1>2. /\ run[i] # "absent"
      /\ proc[p].closes = "confirm" => ledger[i] = "published"
  BY <1>0, <1>1 DEF Placed
<1>3. CASE Begin(p)
  <2>1. /\ CanBegin(i) /\ run' = [run EXCEPT ![i] = "publishing"]
        /\ dispatch' = [dispatch EXCEPT ![i] = IF @ = "ready" THEN "promoting" ELSE @]
        /\ UNCHANGED <<ledger, dq, wh>>
        /\ proc' = [proc EXCEPT ![p] = [proc[p] EXCEPT !.pc = "promote"]]
    BY <1>1, <1>3 DEF Begin, Goes
  <2>2. /\ run[i] \in {"ready", "publishing"} /\ dq[i]
        /\ dispatch'[i] \in {"promoting", "reconcile_required"}
        /\ dispatch[i] # "published"
        /\ run'[i] = "publishing"
        /\ \A r \in Runs : r # i => run'[r] = run[r] /\ dispatch'[r] = dispatch[r]
    BY <1>0, <2>1 DEF CanBegin, Rows
  <2>3. dispatch'[i] \in Late /\ Moved(i)'
    BY <2>1, <2>2 DEF Late, DispatchStates, Moved
  <2>4. ASSUME NEW r \in Runs PROVE Ordered(r)' /\ Ages(p, r)
    <3>1. Ordered(r) /\ (Moved(r) => Moved(r)')
      BY <2>1, <2>2, <2>3 DEF WInv, Moved
    <3> QED BY <1>2, <2>1, <2>2, <2>3, <3>1 DEF Ordered, Ages
  <2>5. /\ proc'[p].pc = "promote" /\ proc'[p].run = i
        /\ proc'[p].closes = proc[p].closes
        /\ \A q \in Procs : q # p => proc'[q] = proc[q]
    BY <1>0, <1>1, <1>2, <2>1 DEF Standing
  <2>6. Turns(p)
    BY <2>2, <2>5, TurnsOf DEF Bringing, Fresh
  <2>7. Placed(p)'
    BY <1>2, <2>1, <2>2, <2>3, <2>5 DEF Placed, At, Landers, Gates, Fresh
  <2> QED BY <2>4, <2>6, <2>7 DEF Keeps
<1>4. CASE Promote(p)
  <2>1. /\ proc[p].pc = "promote" /\ wh[i] # "none" /\ wh' = [wh EXCEPT ![i] = "promoted"]
        /\ UNCHANGED <<run, ledger, dispatch, dq>>
        /\ proc' = [proc EXCEPT ![p] = [proc[p] EXCEPT !.pc = "commit"]]
    BY <1>1, <1>4 DEF Promote, Promotable, Goes, At
  <2>2. Moved(i) /\ Bringing(p, i)
    BY <1>1, <2>1 DEF Placed, Bringing
  <2>3. wh'[i] = "promoted" /\ \A r \in Runs : r # i => wh'[r] = wh[r]
    BY <1>0, <2>1 DEF Rows
  <2>4. \A r \in Runs : Ordered(r)' /\ Ages(p, r)
    BY <1>0, <1>1, <2>1, <2>2, <2>3, HalvesAge
  <2>5. /\ proc'[p].pc = "commit" /\ proc'[p].run = i
        /\ proc'[p].closes = proc[p].closes
        /\ \A q \in Procs : q # p => proc'[q] = proc[q]
    BY <1>0, <1>1, <1>2, <2>1 DEF Standing
  <2>6. Turns(p)
    BY <2>2, <2>5, TurnsOf DEF Bringing, Fresh
  <2>7. Moved(i)'
    BY <2>1, <2>2 DEF Moved
  <2>8. Placed(p)'
    BY <1>2, <2>1, <2>3, <2>5, <2>7 DEF Placed, At, Landers, Gates, Fresh
  <2> QED BY <2>4, <2>6, <2>8 DEF Keeps
<1>5. CASE ReconcileResumes(p)
  <2> DEFINE agrees == ledger[i] = "published" /\ pointer = i
             how == IF agrees THEN "confirm" ELSE "unproven"
  <2>1. /\ proc[p].pc = "reconcile" /\ Publishable(i)
        /\ UNCHANGED <<run, ledger, dispatch, dq, wh>>
        /\ Goes(p, IF run[i] = "published"
                   THEN [proc[p] EXCEPT !.pc = "promote", !.closes = how]
                   ELSE [proc[p] EXCEPT !.pc = "begin"])
    BY <1>1, <1>5 DEF ReconcileResumes, At
  <2>2. /\ \/ (run[i] = "published" /\ proc'[p].pc = "promote" /\ proc'[p].closes = how)
           \/ (run[i] # "published" /\ proc'[p].pc = "begin" /\ proc'[p].closes = proc[p].closes)
        /\ proc'[p].run = i
        /\ \A q \in Procs : q # p => proc'[q] = proc[q]
    <3> HIDE DEF how
    <3> QED BY <1>0, <1>1, <2>1 DEF Goes, Standing
  <2>3. run[i] = "published" => Moved(i)
    BY <2>1 DEF Publishable, Moved
  <2>4. Turns(p)
    BY <2>2, TurnsOf DEF Bringing, Fresh
  <2>5. Moved(i) => Moved(i)'
    BY <2>1 DEF Moved
  <2>6. proc'[p].closes = "confirm" => ledger'[i] = "published"
    BY <1>2, <2>1, <2>2
  <2>7. Placed(p)'
    BY <1>2, <2>1, <2>2, <2>3, <2>5, <2>6 DEF Placed, At, Landers, Gates, Fresh
  <2> QED BY <2>1, <2>4, <2>7, RowsStill DEF Keeps
<1> QED BY <1>3, <1>4, <1>5

\* The commit of an import finds its rows promoted.
LEMMA CommitPlaces ==
  ASSUME PInv, WInv, NEW p \in Procs, Commit(p)
  PROVE  Keeps(p)
<1>0. proc[p].pc = "commit" /\ TypeInv /\ Rows
  BY DEF PInv, TypeInv, Commit, CommitsGroup, At
<1>1. PICK i \in Runs : i = proc[p].run /\ Placed(p) /\ Ordered(i)
  BY <1>0, KnowsItsRun DEF WInv
<1>2. /\ dq[i] /\ wh[i] = "promoted" /\ run[i] = "publishing" /\ ledger[i] = "written"
      /\ run' = [run EXCEPT ![i] = "published"]
      /\ ledger' = [ledger EXCEPT ![i] = "published"]
      /\ dispatch' = [dispatch EXCEPT ![i] = "published"]
      /\ Goes(p, Idle) /\ UNCHANGED <<dq, wh>>
  BY <1>0, <1>1 DEF Placed, At, Commit, CanCommit, PublicationGroup
<1>3. /\ run'[i] = "published" /\ ledger'[i] = "published" /\ dispatch'[i] = "published"
      /\ \A r \in Runs : r # i => /\ run'[r] = run[r] /\ ledger'[r] = ledger[r]
                                  /\ dispatch'[r] = dispatch[r]
  BY <1>0, <1>2 DEF Rows
<1>4. dispatch'[i] \in Late
  BY <1>3 DEF Late, DispatchStates
<1>5. ASSUME NEW r \in Runs PROVE Ordered(r)' /\ Ages(p, r)
  <2>1. CASE r # i
    BY <1>2, <1>3, <2>1 DEF WInv, Ordered, Ages, Moved
  <2>2. CASE r = i
    BY <1>2, <1>3, <1>4, <2>2 DEF Ordered, Ages, Moved, LedgerTerminal, Refused
  <2> QED BY <2>1, <2>2
<1> QED BY <1>2, <1>5, LeavesKeep DEF Keeps

\* The sweep counts on nothing but a live journal.
LEMMA SelectKeeps ==
  ASSUME PInv, WInv, NEW i \in Runs, Select(i)
  PROVE  Keeps("sweep")
<1>0. /\ "sweep" \in Procs /\ proc \in [Procs -> Standing]
      /\ dispatch[i] \in Retryable /\ UNCHANGED <<run, ledger, dispatch, dq, wh>>
      /\ Goes("sweep", [Idle EXCEPT !.pc = "reconcile", !.run = i])
  BY DEF Procs, PInv, TypeInv, Select
<1>1. /\ proc'["sweep"].pc = "reconcile" /\ proc'["sweep"].run = i
      /\ proc'["sweep"].closes = "group"
      /\ \A q \in Procs : q # "sweep" => proc'[q] = proc[q]
  BY <1>0 DEF Goes, Idle
<1>2. run[i] # "absent"
  BY <1>0 DEF WInv, Ordered, Retryable
<1>3. Turns("sweep")
  BY <1>0, <1>1, TurnsOf DEF Bringing, Fresh
<1>4. Placed("sweep")'
  BY <1>0, <1>1, <1>2 DEF Placed, At, Landers, Gates, Fresh
<1> QED BY <1>0, <1>3, <1>4, RowsStill DEF Keeps

\* ... and a process that dies knows nothing any more.
LEMMA DieKeeps ==
  ASSUME PInv, WInv, NEW p \in Procs, Die(p)
  PROVE  Keeps(p)
<1>1. Goes(p, Idle) /\ UNCHANGED <<run, ledger, dispatch, dq, wh>>
  BY DEF Die
<1> QED BY <1>1, RowsStill, LeavesKeep DEF Keeps

\* People move no process, and no run into or out of a promotion but to its end;
\* a press that publishes takes a run no promotion was announced of.
LEMMA PeopleKeep ==
  ASSUME PInv, WInv, NEW i \in Runs, Person(i) \/ ButtonCommits(i)
  PROVE  WInv'
<1>1. /\ UNCHANGED <<dispatch, dq, wh, proc>>
      /\ run \in [Runs -> RunStates] /\ ledger \in [Runs -> Outcomes] /\ Ordered(i)
  BY PersonWrites DEF ButtonCommits, PInv, TypeInv, Rows, WInv
<1>2. /\ \A r \in Runs : r # i => run'[r] = run[r] /\ ledger'[r] = ledger[r]
      /\ \/ ledger' = ledger
         \/ ledger[i] = "opened" /\ ledger'[i] = "written"
         \/ ledger[i] \notin LedgerTerminal /\ ledger'[i] = "published" /\ run[i] = "published"
      /\ \/ run' = run
         \/ /\ run[i] \in RunActive /\ run'[i] \notin {"absent", "publishing"}
            /\ run[i] = "publishing" => run'[i] = "failed"
  <2>1. CASE Person(i)
    <3>1. \/ /\ ledger' = ledger /\ run[i] \in RunActive
             /\ \E new \in RunStates \ {"absent", "publishing", "published"} :
                  /\ run' = [run EXCEPT ![i] = new]
                  /\ run[i] = "publishing" => new = "failed"
          \/ /\ run' = run
             /\ \/ ledger[i] = "opened" /\ ledger' = [ledger EXCEPT ![i] = "written"]
                \/ /\ ledger[i] \notin LedgerTerminal /\ run[i] = "published"
                   /\ ledger' = [ledger EXCEPT ![i] = "published"]
      BY <2>1, PersonWrites
    <3> QED BY <1>1, <3>1
  <2>2. CASE ButtonCommits(i)
    <3>1. /\ run[i] = "ready" /\ run' = [run EXCEPT ![i] = "published"] /\ ledger' = ledger
      BY <2>2 DEF ButtonCommits, PublicationGroup
    <3> QED BY <1>1, <3>1 DEF RunActive
  <2> QED BY <2>1, <2>2
<1>3. run[i] # "absent"
  BY <1>1, <1>2 DEF RunActive, Ordered, LedgerTerminal, Person, OwnerReconciles, MemberRecords,
     ButtonReadies, ButtonFails, ButtonMarks, MemberAdvances, IsValidTransition, ButtonCommits
<1>4. ASSUME NEW r \in Runs PROVE Ordered(r)' /\ \A p \in Procs : Ages(p, r)
  <2>1. Ordered(r)
    BY DEF WInv
  <2>2. Moved(r) => Moved(r)'
    BY <1>1, <1>2 DEF Moved, RunActive
  <2>3. ledger'[r] \in Refused => ledger'[r] = ledger[r]
    BY <1>1, <1>2 DEF Refused
  <2>4. ledger[r] \in LedgerTerminal => ledger'[r] = ledger[r]
    BY <1>1, <1>2 DEF LedgerTerminal
  <2>5. run[r] # "absent" => run'[r] # "absent"
    BY <1>1, <1>2
  <2>6. run'[r] = "publishing" => run[r] = "publishing"
    BY <1>1, <1>2
  <2>7. run'[r] = "absent" => run[r] = "absent" /\ ledger'[r] = ledger[r]
    BY <1>2, <1>3, <2>5
  <2>8. ASSUME NEW p \in Procs PROVE Ages(p, r)
    <3>1. /\ dispatch'[r] = dispatch[r] /\ wh'[r] = wh[r]
          /\ ledger'[r] \in Refused => ledger[r] \in Refused
      BY <1>1, <2>3
    <3>2. /\ ledger[r] = "published" => ledger'[r] = "published"
          /\ ledger[r] \in LedgerTerminal => ledger'[r] \in LedgerTerminal
      BY <2>4 DEF LedgerTerminal
    <3> QED BY <2>2, <2>5, <3>1, <3>2 DEF Ages
  <2>9. ledger'[r] \in LedgerTerminal \ {"published"} => ledger'[r] = ledger[r]
    BY <1>1, <1>2 DEF LedgerTerminal
  <2> QED BY <1>1, <2>1, <2>2, <2>3, <2>6, <2>7, <2>8, <2>9 DEF Ordered
<1>5. Flow
  BY <1>1 DEF Flow, Bringing, Fresh
<1>6. ASSUME NEW q \in Procs PROVE Placed(q)'
  BY <1>1, <1>4, <1>5, OthersPlaced
<1>7. Alone'
  <2>1. \A q \in Procs : Fresh(q)' <=> Fresh(q)
    BY <1>1 DEF Fresh
  <2>2. \A r \in Runs : ledger'[r] \in Refused => Arrived(r)
    BY <1>1, <1>2 DEF WInv, Alone, Refused
  <2>3. \A r \in Runs : Arrived(r) => Arrived(r)'
    BY <1>1, <2>1 DEF Arrived
  <2> QED BY <1>1, <2>1, <2>2, <2>3 DEF WInv, Alone
<1> QED BY <1>4, <1>6, <1>7 DEF WInv

\* Before anything was imported there are no rows to know of.
LEMMA InitPlaces == Init => WInv
<1> SUFFICES ASSUME Init PROVE WInv
  OBVIOUS
<1>1. \A r \in Runs : Ordered(r)
  BY DEF Init, Ordered, LedgerTerminal, Refused
<1>2. \A p \in Procs : proc[p].pc = "idle"
  BY DEF Init, Idle
<1> QED BY <1>1, <1>2 DEF Init, WInv, Placed, Alone, Fresh, Refused

\* Every step of a process keeps what it, and each other, knows of the rows.
LEMMA ProcessKeeps ==
  ASSUME PInv, WInv, NEW p \in Procs,
         \/ CrossStoreStep(p) \/ Die(p)
         \/ p \in Workers /\ (ImportStep(p) \/ \E r \in Runs : OpenImport(p, r) \/ ReplayImport(p, r))
  PROVE  Keeps(p)
<1>1. CASE CrossStoreStep(p)
  BY <1>1, CommitPlaces, HalvesKeep, PromotesKeep DEF CrossStoreStep
<1>2. CASE Die(p)
  BY <1>2, DieKeeps
<1>3. CASE p \in Workers /\ ImportStep(p)
  BY <1>3, StartKeeps, LandKeeps, ObserveKeeps, GatesKeep, RefuseKeeps DEF ImportStep
<1>4. CASE p \in Workers /\ \E r \in Runs : OpenImport(p, r) \/ ReplayImport(p, r)
  BY <1>4, OpenKeeps, ReplayKeeps
<1> QED BY <1>1, <1>2, <1>3, <1>4

\* So does every step.
LEMMA NextPlaces ==
  ASSUME PInv, WInv, [Next]_vars
  PROVE  WInv'
<1>1. CASE UNCHANGED vars
  BY <1>1 DEF vars, WInv, Ordered, Moved, Placed, Barred, Sound, Untouched, Bringing,
              Alone, Arrived, Fresh, At
<1>2. ASSUME NEW w \in Workers, ImportStep(w) \/ \E r \in Runs : OpenImport(w, r) \/ ReplayImport(w, r)
      PROVE  WInv'
  <2>1. w \in Procs
    BY DEF Procs
  <2> QED BY <1>2, <2>1, ProcessKeeps, KeepsAll
<1>3. ASSUME NEW p \in Procs, CrossStoreStep(p) \/ Die(p)
      PROVE  WInv'
  BY <1>3, ProcessKeeps, KeepsAll
<1>4. ASSUME NEW r \in Runs, Select(r)
      PROVE  WInv'
  <2>1. "sweep" \in Procs
    BY DEF Procs
  <2> QED BY <1>4, <2>1, SelectKeeps, KeepsAll
<1>5. ASSUME NEW r \in Runs, Person(r) \/ ButtonCommits(r)
      PROVE  WInv'
  BY <1>5, PeopleKeep
<1> QED BY <1>1, <1>2, <1>3, <1>4, <1>5 DEF Next, Person, Press

\* The rows are where the processes know them.
LEMMA Settling == Spec => []WInv
<1>1. PInv /\ WInv /\ [Next]_vars => WInv'
  BY NextPlaces
<1> QED BY <1>1, InitPlaces, Inductive, PTL DEF Spec

\* No worker that refuses an import leaves rows behind, neither its own nor those
\* another worker of the same import promoted meanwhile (import_runner.py).
THEOREM RefusedIsGone == Spec => []RefusedLeavesNothing
<1>1. WInv => RefusedLeavesNothing
  BY DEF WInv, Ordered, Refused, RefusedLeavesNothing
<1> QED BY <1>1, Settling, PTL

-----------------------------------------------------------------------------
(* The three records agree.  A refusal that the ledger knows has failed its *)
(* run, which is what lets a reconciliation close the dispatch on the word *)
(* of the ledger alone; and a reconciliation that confirms a publication   *)
(* has read the ledger before it promotes.                                 *)

Lost == {"failed", "cancelled"}

AInv ==
  /\ OutcomesAgree
  /\ \A r \in Runs : ledger[r] \in {"failed", "rejected"} => run[r] \in Lost

\* What every step but the group does to the three records.
Calm ==
  /\ UNCHANGED log
  /\ \A r \in Runs :
       /\ (run'[r] = "published") <=> (run[r] = "published")
       /\ run[r] \in Lost => run'[r] \in Lost
       /\ \/ ledger'[r] = ledger[r]
          \/ ledger[r] # "published" /\ ledger'[r] \in {"opened", "written"}
          \/ ledger[r] # "published" /\ ledger'[r] = "published" /\ run[r] = "published"
          \/ /\ ledger[r] # "published" /\ ledger'[r] \in {"rejected", "failed"}
             /\ run'[r] = "failed"
       /\ \/ dispatch'[r] = dispatch[r]
          \/ /\ dispatch[r] # "published"
             /\ dispatch'[r] = "published" => ledger[r] = "published"
             /\ dispatch'[r] \in {"failed", "rejected"} => run'[r] \in Lost

\* The log names runs.
LEMMA LogNamesRuns ==
  ASSUME PInv, NEW i \in DOMAIN log
  PROVE  log[i].run \in Runs
<1>1. log \in Seq(Entries) /\ i \in 1 .. Len(log)
  BY LenProperties DEF PInv, TypeInv
<1>2. log[i] \in Entries
  BY <1>1, ElementOfSeq
<1> QED BY <1>2 DEF Entries

\* A calm step leaves the three records in agreement.
LEMMA CalmAgrees ==
  ASSUME PInv, AInv, Calm
  PROVE  AInv'
<1>1. \A r \in Runs :
        /\ dispatch'[r] = "published" => ledger'[r] = "published"
        /\ ledger'[r] = "published" => run'[r] = "published"
        /\ dispatch'[r] \in {"failed", "rejected"} => run'[r] \in Lost
        /\ ledger'[r] \in {"failed", "rejected"} => run'[r] \in Lost
  <2> SUFFICES ASSUME NEW r \in Runs
               PROVE  /\ dispatch'[r] = "published" => ledger'[r] = "published"
                      /\ ledger'[r] = "published" => run'[r] = "published"
                      /\ dispatch'[r] \in {"failed", "rejected"} => run'[r] \in Lost
                      /\ ledger'[r] \in {"failed", "rejected"} => run'[r] \in Lost
    OBVIOUS
  <2> USE DEF AInv, OutcomesAgree, Calm, Lost
  <2>1. dispatch'[r] = "published" => ledger'[r] = "published"
    OBVIOUS
  <2>2. ledger'[r] = "published" => run'[r] = "published"
    OBVIOUS
  <2>3. dispatch'[r] \in {"failed", "rejected"} => run'[r] \in Lost
    OBVIOUS
  <2>4. ledger'[r] \in {"failed", "rejected"} => run'[r] \in Lost
    OBVIOUS
  <2> QED BY <2>1, <2>2, <2>3, <2>4
<1>2. ASSUME NEW i \in DOMAIN log', log'[i].by = "import"
      PROVE  dispatch'[log'[i].run] = "published"
  <2>1. log' = log /\ i \in DOMAIN log /\ log[i].run \in Runs
    BY LogNamesRuns DEF Calm
  <2>2. dispatch[log[i].run] = "published"
    BY <1>2, <2>1 DEF AInv, OutcomesAgree
  <2> QED BY <2>1, <2>2 DEF Calm
<1> QED BY <1>1, <1>2 DEF AInv, OutcomesAgree, Lost

\* advance_dispatch leaves a published dispatch alone.
LEMMA AdvancedCalm ==
  ASSUME TypeInv, NEW r \in Runs, NEW s \in DispatchStates,
         dispatch' = Advanced(r, s)
  PROVE  \A q \in Runs : \/ dispatch'[q] = dispatch[q]
                         \/ q = r /\ dispatch[q] # "published" /\ dispatch'[q] = s
<1>1. DispatchForward["published"] = {}
  BY DEF DispatchForward, DispatchStates
<1>2. dispatch \in [Runs -> DispatchStates]
  BY DEF TypeInv, Rows
<1>3. CASE dispatch[r] = "published"
  BY <1>1, <1>2, <1>3 DEF Advanced, Moves
<1>4. CASE dispatch[r] # "published"
  BY <1>2, <1>4 DEF Advanced
<1> QED BY <1>3, <1>4

\* Leaving a half to the reconciliation is calm for every dispatch ...
LEMMA LeftCalm ==
  ASSUME TypeInv, NEW r \in Runs, dispatch' = Advanced(r, "reconcile_required")
  PROVE  \A q \in Runs :
           \/ dispatch'[q] = dispatch[q]
           \/ dispatch[q] # "published" /\ dispatch'[q] = "reconcile_required"
<1>1. "reconcile_required" \in DispatchStates
  BY DEF DispatchStates
<1> DEFINE s == "reconcile_required"
<1>2. \A q \in Runs : \/ dispatch'[q] = dispatch[q]
                      \/ q = r /\ dispatch[q] # "published" /\ dispatch'[q] = s
  <2>1. s \in DispatchStates /\ dispatch' = Advanced(r, s)
    BY <1>1
  <2> HIDE DEF s
  <2> QED BY <2>1, AdvancedCalm
<1> QED BY <1>2

\* ... a governed step advances run and dispatch short of their ends ...
LEMMA GovernedCalm ==
  ASSUME TypeInv, NEW w \in Procs, proc[w].pc # "idle",
         \/ GovernedStep(w, "created", "loading", "landing", "land")
         \/ GovernedStep(w, "created", "loading", "landing", "observe")
         \/ GovernedStep(w, "none", "none", "landed", "gate")
         \/ GovernedStep(w, "loading", "validating", "validating", "dq")
         \/ GovernedStep(w, "validating", "ready", "ready", "begin")
  PROVE  \A r \in Runs :
           /\ run[r] \in Lost => run'[r] \in Lost
           /\ \/ dispatch'[r] = dispatch[r]
              \/ /\ dispatch[r] # "published"
                 /\ dispatch'[r] \notin {"published", "failed", "rejected"}
<1>1. proc[w].run \in Runs
  BY KnowsItsRun
<1>2. /\ proc[w].seen # "none"
      /\ run \in [Runs -> RunStates]
  <2>1. "none" \notin RunStates
    BY DEF RunStates, RunActive, RunTerminal
  <2> QED BY <2>1, KnowsItsRun DEF Standing, TypeInv, Rows
<1>3. \A r \in Runs : run[r] \in Lost => run'[r] \in Lost
  BY <1>1, <1>2 DEF GovernedStep, Lost
<1>4. \/ dispatch' = dispatch
      \/ \E s \in {"landing", "landed", "validating", "ready"} :
           dispatch' = Advanced(proc[w].run, s)
  BY DEF GovernedStep
<1>5. ASSUME NEW s \in {"landing", "landed", "validating", "ready"},
             dispatch' = Advanced(proc[w].run, s)
      PROVE  \A r \in Runs :
               \/ dispatch'[r] = dispatch[r]
               \/ /\ dispatch[r] # "published"
                  /\ dispatch'[r] \notin {"published", "failed", "rejected"}
  <2>1. s \in DispatchStates
    BY DEF DispatchStates
  <2> QED BY <1>1, <1>5, <2>1, AdvancedCalm
<1> QED BY <1>3, <1>4, <1>5

\* ... so the steps of an import are calm, unless they refuse ...
LEMMA ImportsCalm ==
  ASSUME PInv, NEW w \in Workers,
         \/ StartLanding(w) \/ Land(w) \/ LandUncertain(w)
         \/ Observe(w) \/ ObserveDiverged(w) \/ ObserveRaises(w)
         \/ Validate(w) \/ PassDqGates(w) \/ DieInRefusal(w)
  PROVE  Calm
<1>1. TypeInv /\ w \in Procs /\ proc[w].pc # "idle"
  BY DEF PInv, Procs, At, StartLanding, Land, LandUncertain, Observe,
         ObserveDiverged, ObserveRaises, Validate, PassDqGates, DieInRefusal
<1>2. proc[w].run \in Runs
  BY <1>1, KnowsItsRun
<1>3. UNCHANGED log /\ \A r \in Runs : (run'[r] = "published") <=> (run[r] = "published")
  <2>1. Step
    BY <1>1, OpensAndReplays, LandsRows, Observes, Validates, Refuses
  <2> QED BY <2>1 DEF Step, Quiet
<1>4. \A r \in Runs : \/ ledger'[r] = ledger[r]
                      \/ ledger[r] # "published" /\ ledger'[r] \in {"opened", "written"}
  <2>1. CASE Observe(w) \/ ObserveDiverged(w)
    <3>1. ledger' = Recorded(w) /\ Observable(w)
      BY <2>1 DEF Observe, ObserveDiverged
    <3>2. ledger \in [Runs -> Outcomes]
      BY <1>1 DEF TypeInv, Rows
    <3>3. CASE Lands(w)
      <4>1. /\ ledger[proc[w].run] = "opened"
            /\ ledger' = [ledger EXCEPT ![proc[w].run] = "written"]
        BY <3>1, <3>3 DEF Recorded, Observable
      <4> QED BY <1>2, <3>2, <4>1
    <3>4. CASE ~Lands(w)
      BY <3>1, <3>4 DEF Recorded
    <3> QED BY <3>3, <3>4
  <2>2. CASE ~(Observe(w) \/ ObserveDiverged(w))
    BY <2>2 DEF StartLanding, Land, LandUncertain, ObserveRaises,
                Validate, PassDqGates, DieInRefusal
  <2> QED BY <2>1, <2>2
<1>5. CASE StartLanding(w) \/ Observe(w) \/ Validate(w) \/ PassDqGates(w)
  <2>1. \A r \in Runs :
           /\ run[r] \in Lost => run'[r] \in Lost
           /\ \/ dispatch'[r] = dispatch[r]
              \/ /\ dispatch[r] # "published"
                 /\ dispatch'[r] \notin {"published", "failed", "rejected"}
    BY <1>1, <1>5, GovernedCalm DEF StartLanding, Observe, Validate, PassDqGates
  <2> QED BY <1>3, <1>4, <2>1 DEF Calm
<1>6. CASE LandUncertain(w) \/ ObserveDiverged(w)
  <2>1. dispatch' = Advanced(proc[w].run, "reconcile_required") /\ run' = run
    BY <1>6 DEF LandUncertain, ObserveDiverged
  <2>2. \A q \in Runs : \/ dispatch'[q] = dispatch[q]
                        \/ dispatch[q] # "published" /\ dispatch'[q] = "reconcile_required"
    BY <1>1, <1>2, <2>1, LeftCalm
  <2> QED BY <1>3, <1>4, <2>1, <2>2 DEF Calm
<1>7. CASE Land(w) \/ ObserveRaises(w) \/ DieInRefusal(w)
  <2>1. UNCHANGED <<run, dispatch>>
    BY <1>7 DEF Land, ObserveRaises, DieInRefusal
  <2> QED BY <1>3, <1>4, <2>1 DEF Calm
<1> QED BY <1>5, <1>6, <1>7

\* A new import has no record yet that says published.
LEMMA OpensCalm ==
  ASSUME PInv, AInv, NEW w \in Workers, NEW r \in Runs,
         OpenImport(w, r) \/ ReplayImport(w, r)
  PROVE  Calm
<1> USE DEF PInv, TypeInv, Rows, AInv, OutcomesAgree, Lost
<1>1. CASE OpenImport(w, r)
  <2>1. /\ run[r] = "absent" /\ run' = [run EXCEPT ![r] = "created"]
        /\ ledger' = [ledger EXCEPT ![r] = "opened"]
        /\ dispatch' = [dispatch EXCEPT ![r] = "pending"] /\ log' = log
    BY <1>1 DEF OpenImport, CreateExecution
  <2>2. ledger[r] # "published" /\ dispatch[r] # "published"
    BY <2>1
  <2> QED BY <2>1, <2>2 DEF Calm
<1>2. CASE ReplayImport(w, r)
  BY <1>2 DEF ReplayImport, Calm
<1> QED BY <1>1, <1>2

\* ... those that refuse end a run that is not published ...
LEMMA RefusesCalm ==
  ASSUME PInv, NEW w \in Workers, RefuseRejections(w) \/ RefuseOnDqGates(w)
  PROVE  Calm
<1>1. TypeInv /\ w \in Procs /\ proc[w].pc # "idle"
  BY DEF PInv, Procs, RefuseRejections, RefuseOnDqGates, At
<1>2. proc[w].run \in Runs
  BY <1>1, KnowsItsRun
<1>3. UNCHANGED log /\ \A r \in Runs : (run'[r] = "published") <=> (run[r] = "published")
  <2>1. Step
    BY <1>1, Refuses
  <2> QED BY <2>1 DEF Step, Quiet
<1>4. PICK outcome \in {"rejected", "failed"} : Refuse(w, outcome)
  BY DEF RefuseRejections, RefuseOnDqGates
<1>5. CASE RunStands(w)
  <2>1. /\ run' = [run EXCEPT ![proc[w].run] = "failed"]
        /\ \/ ledger' = ledger /\ dispatch' = dispatch
           \/ /\ ledger[proc[w].run] # "published"
              /\ ledger' = [ledger EXCEPT ![proc[w].run] = outcome]
              /\ dispatch' = Advanced(proc[w].run, outcome)
    BY <1>4, <1>5 DEF Refuse, LedgerTerminal
  <2>2. \/ ledger' = ledger /\ dispatch' = dispatch
        \/ /\ ledger[proc[w].run] # "published"
           /\ ledger' = [ledger EXCEPT ![proc[w].run] = outcome]
           /\ \A q \in Runs :
                \/ dispatch'[q] = dispatch[q]
                \/ /\ q = proc[w].run
                   /\ dispatch[q] # "published" /\ dispatch'[q] = outcome
    <3>1. outcome \in DispatchStates
      BY DEF DispatchStates
    <3> QED BY <1>1, <1>2, <2>1, <3>1, AdvancedCalm
  <2>3. run \in [Runs -> RunStates] /\ ledger \in [Runs -> Outcomes]
    BY <1>1 DEF TypeInv, Rows
  <2> QED BY <1>2, <1>3, <2>1, <2>2, <2>3 DEF Calm, Lost
<1>6. CASE ~RunStands(w)
  BY <1>3, <1>4, <1>6 DEF Refuse, Calm
<1> QED BY <1>5, <1>6

\* ... both halves are calm but for the commit; what is confirmed was in the
\* ledger when the reconciliation began ...
LEMMA CrossStoreCalm ==
  ASSUME PInv, AInv, WInv, NEW p \in Procs, CrossStoreStep(p), ~Commit(p)
  PROVE  Calm
<1>1. TypeInv /\ proc[p].pc # "idle"
  BY DEF PInv, CrossStoreStep, At, ReconcileRefused, ReconcileUnready,
         ReconcileResumes, Begin, BeginRefused, Promote, PromoteUnproven,
         PromoteUncertain, CommitsGroup, CommitRefused, CommitRolledBack,
         ConfirmPublished, ConfirmUnproven
<1>2. /\ proc[p].run \in Runs /\ run \in [Runs -> RunStates]
      /\ dispatch \in [Runs -> DispatchStates]
  BY <1>1, KnowsItsRun DEF TypeInv, Rows
<1>3. CASE \/ BeginRefused(p) \/ PromoteUnproven(p) \/ PromoteUncertain(p)
           \/ CommitRefused(p) \/ CommitRolledBack(p) \/ ReconcileUnready(p)
           \/ ConfirmUnproven(p)
  <2>1. /\ dispatch' = Advanced(proc[p].run, "reconcile_required")
        /\ UNCHANGED <<run, ledger, log>>
    BY <1>3 DEF LeftToReconcile, BeginRefused, PromoteUnproven, PromoteUncertain,
                CommitRefused, CommitRolledBack, ReconcileUnready, ConfirmUnproven
  <2>2. \A q \in Runs : \/ dispatch'[q] = dispatch[q]
                        \/ dispatch[q] # "published" /\ dispatch'[q] = "reconcile_required"
    BY <1>1, <1>2, <2>1, LeftCalm
  <2> QED BY <2>1, <2>2 DEF Calm
<1>4. CASE Begin(p)
  <2>1. /\ run[proc[p].run] \in {"ready", "publishing"}
        /\ run' = [run EXCEPT ![proc[p].run] = "publishing"]
        /\ dispatch' = [dispatch EXCEPT ![proc[p].run] = IF @ = "ready" THEN "promoting" ELSE @]
        /\ UNCHANGED <<ledger, log>>
    BY <1>4 DEF Begin, CanBegin
  <2> QED BY <1>2, <2>1 DEF Calm, Lost
<1>5. CASE Promote(p) \/ ReconcileResumes(p)
  BY <1>5 DEF Promote, ReconcileResumes, Calm
<1>6. CASE ReconcileRefused(p)
  <2> DEFINE s == IF ledger[proc[p].run] = "rejected" THEN "rejected" ELSE "failed"
  <2>1. /\ dispatch' = Advanced(proc[p].run, s)
        /\ UNCHANGED <<run, ledger, log>>
        /\ RefusedRun(proc[p].run)
    BY <1>6 DEF ReconcileRefused
  <2>2. run[proc[p].run] \in Lost
    BY <1>2, <2>1 DEF RefusedRun, AInv, Lost
  <2>3. s \in DispatchStates
    BY DEF DispatchStates
  <2>4. \A q \in Runs : \/ dispatch'[q] = dispatch[q]
                        \/ /\ q = proc[p].run
                           /\ dispatch[q] # "published" /\ dispatch'[q] = s
    BY <1>1, <1>2, <2>1, <2>3, AdvancedCalm
  <2> QED BY <2>1, <2>2, <2>4 DEF Calm
<1>7. CASE ConfirmPublished(p)
  <2>1. /\ \E s \in {"published", "reconcile_required"} : dispatch' = Advanced(proc[p].run, s)
        /\ UNCHANGED <<run, ledger, log>>
        /\ proc[p].closes = "confirm"
    BY <1>7 DEF ConfirmPublished
  <2>2. ledger[proc[p].run] = "published"
    BY <1>1, <2>1 DEF WInv, Placed
  <2>3. PICK s \in {"published", "reconcile_required"} : dispatch' = Advanced(proc[p].run, s)
    BY <2>1
  <2>4. s \in DispatchStates
    BY DEF DispatchStates
  <2>5. \A q \in Runs : \/ dispatch'[q] = dispatch[q]
                        \/ /\ q = proc[p].run
                           /\ dispatch[q] # "published" /\ dispatch'[q] = s
    BY <1>1, <1>2, <2>3, <2>4, AdvancedCalm
  <2> QED BY <2>1, <2>2, <2>5 DEF Calm
<1> QED BY <1>3, <1>4, <1>5, <1>6, <1>7 DEF CrossStoreStep

\* ... and so are deaths, the sweep, and people but for the press that publishes.
LEMMA OthersCalm ==
  ASSUME PInv,
         \/ \E p \in Procs : Die(p)
         \/ \E r \in Runs : Select(r) \/ Person(r)
  PROVE  Calm
<1>1. CASE \/ \E p \in Procs : Die(p)
           \/ \E r \in Runs : Select(r)
  <2>1. UNCHANGED <<run, ledger, dispatch, log>>
    BY <1>1 DEF Die, Select
  <2> QED BY <2>1 DEF Calm
<1>2. ASSUME NEW r \in Runs, Person(r)
      PROVE  Calm
  <2>1. UNCHANGED <<dispatch, log>> /\ Step
    BY <1>2, PersonWrites, PeopleMove
  <2>2. /\ run \in [Runs -> RunStates] /\ ledger \in [Runs -> Outcomes]
    BY DEF PInv, TypeInv, Rows
  <2>3. /\ \A q \in Runs : run[q] \in Lost => run'[q] \in Lost
        /\ \A q \in Runs :
             \/ ledger'[q] = ledger[q]
             \/ ledger[q] # "published" /\ ledger'[q] = "written"
             \/ ledger[q] # "published" /\ ledger'[q] = "published" /\ run[q] = "published"
    BY <1>2, <2>2, PersonWrites DEF Lost, RunActive, LedgerTerminal
  <2> QED BY <2>1, <2>3 DEF Calm, Step, Quiet
<1> QED BY <1>1, <1>2

\* The group publishes a run of which no record says that it was refused: the
\* import writes its three records together, the button leaves two behind.
LEMMA GroupAgrees ==
  ASSUME PInv, AInv, NEW i \in Runs, NEW by \in {"import", "button"},
         PublicationGroup(i, by), run[i] \notin Lost,
         \/ by = "button" /\ UNCHANGED <<ledger, dispatch>>
         \/ /\ ledger' = [ledger EXCEPT ![i] = "published"]
            /\ dispatch' = [dispatch EXCEPT ![i] = "published"]
  PROVE  AInv'
<1>1. /\ log \in Seq(Entries) /\ [run |-> i, by |-> by] \in Entries
      /\ log' = Append(log, [run |-> i, by |-> by])
      /\ run' = [run EXCEPT ![i] = "published"]
      /\ run \in [Runs -> RunStates] /\ ledger \in [Runs -> Outcomes]
      /\ dispatch \in [Runs -> DispatchStates]
  BY DEF PInv, TypeInv, Rows, PublicationGroup, Entries
<1>2. ASSUME NEW r \in Runs
      PROVE  /\ dispatch'[r] = "published" => ledger'[r] = "published"
             /\ ledger'[r] = "published" => run'[r] = "published"
             /\ dispatch'[r] \in {"failed", "rejected"} => run'[r] \in Lost
             /\ ledger'[r] \in {"failed", "rejected"} => run'[r] \in Lost
  <2>1. CASE r = i
    BY <1>1, <2>1 DEF AInv, OutcomesAgree, Lost
  <2>2. CASE r # i
    BY <1>1, <2>2 DEF AInv, OutcomesAgree, Lost
  <2> QED BY <2>1, <2>2
<1>3. ASSUME NEW n \in DOMAIN log', log'[n].by = "import"
      PROVE  dispatch'[log'[n].run] = "published"
  <2>1. /\ DOMAIN log = 1 .. Len(log) /\ DOMAIN log' = 1 .. Len(log) + 1 /\ Len(log) \in Nat
        /\ \A m \in 1 .. Len(log) : log'[m] = log[m]
        /\ log'[Len(log) + 1] = [run |-> i, by |-> by]
    BY <1>1, AppendProperties, LenProperties
  <2>2. CASE n \in DOMAIN log
    <3>1. log'[n] = log[n] /\ log[n].run \in Runs
      BY <2>1, <2>2, LogNamesRuns
    <3>2. dispatch[log[n].run] = "published"
      BY <1>3, <2>2, <3>1 DEF AInv, OutcomesAgree
    <3> QED BY <1>1, <3>1, <3>2
  <2>3. CASE n = Len(log) + 1
    BY <1>1, <1>3, <2>1, <2>3
  <2> QED BY <2>1, <2>2, <2>3
<1> QED BY <1>2, <1>3 DEF AInv, OutcomesAgree, Lost

\* The records agree after every step.
LEMMA NextAgrees ==
  ASSUME PInv, AInv, WInv, [Next]_vars
  PROVE  AInv'
<1>1. CASE UNCHANGED vars
  BY <1>1 DEF vars, AInv, OutcomesAgree
<1>2. ASSUME NEW w \in Workers, \E r \in Runs : OpenImport(w, r) \/ ReplayImport(w, r)
      PROVE  AInv'
  BY <1>2, OpensCalm, CalmAgrees
<1>3. ASSUME NEW w \in Workers, ImportStep(w)
      PROVE  AInv'
  BY <1>3, ImportsCalm, RefusesCalm, CalmAgrees DEF ImportStep
<1>4. ASSUME NEW p \in Procs, CrossStoreStep(p)
      PROVE  AInv'
  <2>1. CASE Commit(p)
    <3>1. TypeInv /\ proc[p].pc # "idle"
      BY <2>1 DEF PInv, Commit, CommitsGroup, At
    <3>2. PICK i \in Runs : i = proc[p].run
      BY <3>1, KnowsItsRun
    <3>3. /\ PublicationGroup(i, "import") /\ run[i] \notin Lost
          /\ ledger' = [ledger EXCEPT ![i] = "published"]
          /\ dispatch' = [dispatch EXCEPT ![i] = "published"]
      BY <2>1, <3>2 DEF Commit, CanCommit, Lost
    <3> QED BY <3>3, GroupAgrees
  <2> QED BY <1>4, <2>1, CrossStoreCalm, CalmAgrees
<1>5. ASSUME NEW r \in Runs, ButtonCommits(r)
      PROVE  AInv'
  BY <1>5, GroupAgrees DEF ButtonCommits, Lost
<1>6. CASE \/ \E p \in Procs : Die(p)
           \/ \E r \in Runs : Select(r) \/ Person(r)
  BY <1>6, OthersCalm, CalmAgrees
<1> QED BY <1>1, <1>2, <1>3, <1>4, <1>5, <1>6 DEF Next, Person, Press

\* What each record says of an import follows from what the others say, for any
\* number of imports and workers: the ledger never runs ahead of the execution
\* nor the dispatch of the ledger, although the button publishes beside both, and
\* a closed dispatch has a run that failed or was cancelled.
THEOREM RecordsAgree == Spec => []OutcomesAgree
<1>1. Init => AInv
  BY DEF Init, AInv, OutcomesAgree
<1>2. PInv /\ AInv /\ WInv /\ [Next]_vars => AInv'
  BY NextAgrees
<1>3. AInv => OutcomesAgree
  BY DEF AInv
<1> QED BY <1>1, <1>2, <1>3, Inductive, Settling, PTL DEF Spec

\* A publication that went through the dispatch has its rows in the durable
\* relation, and so has every dispatch that says published, whatever process
\* committed it, whichever died between the warehouse and Postgres, and whether
\* the button published the run meanwhile (managed_file_dispatch.py).
THEOREM CurrentIsBacked == Spec => []PointerBacked
<1>1. PInv /\ OutcomesAgree /\ WInv => PointerBacked
  <2> SUFFICES ASSUME PInv, OutcomesAgree, WInv PROVE PointerBacked
    OBVIOUS
  <2>1. \A r \in Runs : dispatch[r] = "published" => Logged(r) /\ wh[r] = "promoted"
    BY DEF WInv, Ordered, OutcomesAgree, PInv, PublishedIsLogged
  <2>2. \A i \in DOMAIN log : log[i].run \in Runs
    BY LogNamesRuns
  <2> QED BY <2>1, <2>2 DEF OutcomesAgree, PointerBacked
<1> QED BY <1>1, RecordsAgree, Inductive, Settling, PTL

-----------------------------------------------------------------------------
(* The history a Datastream promises.  A step touches one run, moves it or  *)
(* its rows and never both, and rows that were promoted stay; only the      *)
(* group publishes, over promoted rows or, by the button, bare, and rows    *)
(* that are promoted afterwards are the first that the run's readers see.   *)

\* All that a step does to the runs and to what their readers see, it does to i.
Touches(i) ==
  /\ \A r \in Runs : r # i => run'[r] = run[r] /\ wh'[r] = wh[r]
  /\ run[i] \in RunTerminal => run'[i] = run[i]
  /\ run'[i] = run[i] \/ (wh'[i] = "promoted" => wh[i] = "promoted")

\* A governed step advances one run, and moves no rows ...
LEMMA GovernedTouches ==
  ASSUME TypeInv, NEW w \in Procs, proc[w].pc # "idle", UNCHANGED wh,
         \/ GovernedStep(w, "created", "loading", "landing", "land")
         \/ GovernedStep(w, "created", "loading", "landing", "observe")
         \/ GovernedStep(w, "none", "none", "landed", "gate")
         \/ GovernedStep(w, "loading", "validating", "validating", "dq")
         \/ GovernedStep(w, "validating", "ready", "ready", "begin")
  PROVE  Touches(proc[w].run)
<1>1. proc[w].run \in Runs /\ run \in [Runs -> RunStates] /\ proc[w].seen # "none"
  <2>1. "none" \notin RunStates
    BY DEF RunStates, RunActive, RunTerminal
  <2> QED BY <2>1, KnowsItsRun DEF TypeInv, Rows, Standing
<1>2. \/ run' = run
      \/ \E to \in {"loading", "validating", "ready"} :
           /\ run[proc[w].run] \in {"created", "loading", "validating"}
           /\ run' = [run EXCEPT ![proc[w].run] = to]
  BY <1>1 DEF GovernedStep
<1> QED BY <1>1, <1>2 DEF Touches, RunTerminal

\* ... so each step of an import touches the run it imports ...
LEMMA ImportTouches ==
  ASSUME TypeInv, NEW w \in Workers, ImportStep(w)
  PROVE  \E i \in Runs : Touches(i)
<1>1. w \in Procs /\ proc[w].pc # "idle"
  BY DEF Procs, At, ImportStep, StartLanding, Land, LandUncertain, Observe,
         ObserveDiverged, ObserveRaises, Validate, PassDqGates, DieInRefusal,
         RefuseRejections, RefuseOnDqGates
<1>2. PICK i \in Runs : i = proc[w].run /\ proc[w] \in Standing
  BY <1>1, KnowsItsRun
<1>3. run \in [Runs -> RunStates] /\ wh \in [Runs -> Phases]
  BY DEF TypeInv, Rows
<1>4. CASE StartLanding(w) \/ Observe(w) \/ Validate(w) \/ PassDqGates(w)
  BY <1>1, <1>2, <1>4, GovernedTouches DEF StartLanding, Observe, Validate, PassDqGates
<1>5. CASE Land(w) \/ LandUncertain(w)
  <2>1. run' = run /\ \E rows : wh' = [wh EXCEPT ![i] = rows]
    BY <1>2, <1>5 DEF Land, LandUncertain
  <2> QED BY <1>2, <1>3, <2>1 DEF Touches
<1>6. ASSUME NEW outcome, Refuse(w, outcome)
      PROVE  Touches(i)
  <2>1. CASE RunStands(w)
    <3>1. /\ run' = [run EXCEPT ![i] = "failed"] /\ wh' = Discarded(i)
          /\ run[i] = "failed" \/ run[i] \in RunActive
      BY <1>2, <1>6, <2>1 DEF Refuse, RunStands, Standing
    <3> QED BY <1>3, <3>1 DEF Touches, Discarded, RunActive, RunTerminal
  <2>2. CASE ~RunStands(w)
    BY <1>6, <2>2 DEF Refuse, Touches
  <2> QED BY <2>1, <2>2
<1>7. CASE DieInRefusal(w)
  <2>1. run' = run /\ wh' = Discarded(i)
    BY <1>2, <1>7 DEF DieInRefusal
  <2> QED BY <1>3, <2>1 DEF Touches, Discarded
<1>8. CASE ObserveDiverged(w) \/ ObserveRaises(w)
  BY <1>8 DEF Touches, ObserveDiverged, ObserveRaises
<1> QED BY <1>4, <1>5, <1>6, <1>7, <1>8 DEF ImportStep, RefuseRejections, RefuseOnDqGates

\* ... each half and each reconciliation the run of its process ...
LEMMA HalvesTouch ==
  ASSUME TypeInv, NEW p \in Procs, CrossStoreStep(p), ~Commit(p)
  PROVE  \E i \in Runs : Touches(i)
<1>1. proc[p].pc # "idle"
  BY DEF CrossStoreStep, At, ReconcileRefused, ReconcileUnready,
         ReconcileResumes, Begin, BeginRefused, Promote, PromoteUnproven,
         PromoteUncertain, CommitsGroup, CommitRefused, CommitRolledBack,
         ConfirmPublished, ConfirmUnproven
<1>2. PICK i \in Runs : i = proc[p].run
  BY <1>1, KnowsItsRun
<1>3. run \in [Runs -> RunStates] /\ wh \in [Runs -> Phases]
  BY DEF TypeInv, Rows
<1>4. CASE Begin(p)
  <2>1. /\ run[i] \in {"ready", "publishing"} /\ wh' = wh
        /\ run' = [run EXCEPT ![i] = "publishing"]
    BY <1>2, <1>4 DEF Begin, CanBegin
  <2> QED BY <1>3, <2>1 DEF Touches, RunTerminal
<1>5. CASE Promote(p) \/ PromoteUncertain(p)
  <2>1. run' = run /\ \E rows : wh' = [wh EXCEPT ![i] = rows]
    BY <1>2, <1>5 DEF Promote, PromoteUncertain
  <2> QED BY <1>3, <2>1 DEF Touches
<1>6. CASE \/ BeginRefused(p) \/ PromoteUnproven(p) \/ CommitRefused(p)
           \/ CommitRolledBack(p) \/ ConfirmPublished(p) \/ ReconcileRefused(p)
           \/ ReconcileUnready(p) \/ ReconcileResumes(p) \/ ConfirmUnproven(p)
  BY <1>6 DEF Touches, BeginRefused, PromoteUnproven, CommitRefused, CommitRolledBack,
              ConfirmPublished, ConfirmUnproven, ReconcileRefused, ReconcileUnready,
              ReconcileResumes
<1> QED BY <1>4, <1>5, <1>6 DEF CrossStoreStep

\* ... and a person the run of the route.
LEMMA PeopleTouch ==
  ASSUME PInv, NEW i \in Runs, Person(i)
  PROVE  Touches(i)
<1>1. run \in [Runs -> RunStates]
  BY DEF PInv, TypeInv, Rows
<1> QED BY <1>1, PersonWrites DEF Touches, RunActive, RunTerminal

\* No step but the group publishes, and each touches at most one run.
LEMMA NextTouches ==
  ASSUME PInv, Next, ~(\E p \in Procs : Commit(p)), ~(\E r \in Runs : ButtonCommits(r))
  PROVE  Quiet /\ (UNCHANGED <<run, wh>> \/ \E i \in Runs : Touches(i))
<1>1. TypeInv
  BY DEF PInv
<1>2. ASSUME NEW w \in Workers, NEW r \in Runs, OpenImport(w, r)
      PROVE  Quiet /\ Touches(r)
  <2>1. Step
    BY <1>1, <1>2, OpensAndReplays
  <2>2. run' = [run EXCEPT ![r] = "created"] /\ run[r] = "absent" /\ wh' = wh
    BY <1>2 DEF OpenImport, CreateExecution
  <2>3. run \in [Runs -> RunStates]
    BY <1>1 DEF TypeInv, Rows
  <2> QED BY <2>1, <2>2, <2>3 DEF Step, Touches, RunTerminal
<1>3. ASSUME NEW w \in Workers, NEW r \in Runs, ReplayImport(w, r)
      PROVE  Quiet /\ UNCHANGED <<run, wh>>
  BY <1>3 DEF ReplayImport, Quiet
<1>4. ASSUME NEW w \in Workers, ImportStep(w)
      PROVE  Quiet /\ \E i \in Runs : Touches(i)
  <2>1. Step
    BY <1>1, <1>4, OpensAndReplays, LandsRows, Observes, Refuses, Validates DEF ImportStep
  <2> QED BY <1>1, <1>4, <2>1, ImportTouches DEF Step
<1>5. ASSUME NEW p \in Procs, CrossStoreStep(p)
      PROVE  Quiet /\ \E i \in Runs : Touches(i)
  <2>1. Step
    BY <1>1, <1>5, CrossStoreLeaves, Promotes, Reconciles DEF CrossStoreStep
  <2> QED BY <1>1, <1>5, <2>1, HalvesTouch DEF Step
<1>6. ASSUME NEW p \in Procs, Die(p)
      PROVE  Quiet /\ UNCHANGED <<run, wh>>
  BY <1>6 DEF Die, Quiet
<1>7. ASSUME NEW r \in Runs, Select(r)
      PROVE  Quiet /\ UNCHANGED <<run, wh>>
  BY <1>7 DEF Select, Quiet
<1>8. ASSUME NEW r \in Runs, Person(r)
      PROVE  Quiet /\ Touches(r)
  <2>1. Step
    BY <1>8, PeopleMove
  <2> QED BY <1>8, <2>1, PeopleTouch DEF Step
<1> QED BY <1>2, <1>3, <1>4, <1>5, <1>6, <1>7, <1>8 DEF Next, Person, Press

\* Rows a reader may have been pointed at are never dropped nor landed over.
LEMMA PromotedStays ==
  ASSUME PInv, WInv, [Next]_vars, NEW r \in Runs, wh[r] = "promoted"
  PROVE  wh'[r] = "promoted"
<1>1. run[r] # "absent"
  BY DEF WInv, Ordered, Moved
<1>2. ASSUME NEW p \in Procs, Keeps(p)
      PROVE  wh'[r] = "promoted"
  BY <1>1, <1>2 DEF Keeps, Ages
<1>3. ASSUME NEW w \in Workers,
             ImportStep(w) \/ \E i \in Runs : OpenImport(w, i) \/ ReplayImport(w, i)
      PROVE  wh'[r] = "promoted"
  <2>1. w \in Procs
    BY DEF Procs
  <2> QED BY <1>2, <1>3, <2>1, ProcessKeeps
<1>4. ASSUME NEW p \in Procs, CrossStoreStep(p) \/ Die(p)
      PROVE  wh'[r] = "promoted"
  BY <1>2, <1>4, ProcessKeeps
<1>5. ASSUME NEW i \in Runs, Select(i) \/ Person(i) \/ ButtonCommits(i)
      PROVE  wh'[r] = "promoted"
  BY <1>5, PersonWrites DEF Select, ButtonCommits
<1>6. CASE UNCHANGED vars
  BY <1>6 DEF vars
<1> QED BY <1>3, <1>4, <1>5, <1>6 DEF Next, Person, Press

\* What a run touched looks like to a reader: its rows come, before it is
\* published or after the button published it bare, it is over, or nothing.
LEMMA TouchKeeps ==
  ASSUME PInv, Quiet, NEW i \in Runs, Touches(i),
         wh[i] = "promoted" => wh'[i] = "promoted"
  PROVE  [Promise!Next]_Promise!promiseVars
<1> DEFINE Seen == {r \in Runs : wh[r] = "promoted"}
           Reads == [r \in Runs |->
             IF run[r] = "published" /\ wh[r] = "promoted" THEN r ELSE NoRun]
<1>1. UNCHANGED <<pointer, log>>
  BY DEF Quiet
<1>2. \A r \in Runs : r # i => RunPhase'[r] = RunPhase[r]
  BY DEF RunPhase, Touches
<1>3. CASE wh'[i] = "promoted" /\ wh[i] # "promoted"
  <2>1. run'[i] = run[i]
    BY <1>3 DEF Touches
  <2>2. RunPhase' = RunPhase
    BY <2>1 DEF RunPhase, Touches
  <2>3. Seen' = Seen \cup {i}
    BY <1>3 DEF Touches
  <2>4. CASE run[i] # "published"
    <3>1. RunPhase[i] # "published"
      BY <2>4 DEF RunPhase
    <3>2. Reads' = Reads
      BY <2>1, <2>4 DEF Touches
    <3>3. Promise!Serve(i)
      BY <1>1, <2>2, <2>3, <3>1, <3>2 DEF Promise!Serve
    <3> QED BY <3>3 DEF Promise!Next
  <2>5. CASE run[i] = "published"
    <3>1. RunPhase[i] = "published" /\ Reads[i] = NoRun
      BY <1>3, <2>5 DEF RunPhase
    <3>2. Reads' = [Reads EXCEPT ![i] = i]
      BY <1>3, <2>1, <2>5 DEF Touches
    <3>3. Promise!Fill(i)
      BY <1>1, <2>2, <2>3, <3>1, <3>2 DEF Promise!Fill
    <3> QED BY <3>3 DEF Promise!Next
  <2> QED BY <2>4, <2>5
<1>4. CASE ~(wh'[i] = "promoted" /\ wh[i] # "promoted")
  <2>1. \A r \in Runs : (wh'[r] = "promoted") <=> (wh[r] = "promoted")
    BY <1>4 DEF Touches
  <2>2. Seen' = Seen /\ Reads' = Reads
    BY <2>1 DEF Quiet
  <2>3. CASE RunPhase'[i] = RunPhase[i]
    <3>1. RunPhase' = RunPhase
      BY <1>2, <2>3 DEF RunPhase
    <3> QED BY <1>1, <2>2, <3>1 DEF Promise!promiseVars
  <2>4. CASE RunPhase'[i] # RunPhase[i]
    <3>1. RunPhase[i] = "open" /\ RunPhase'[i] = "over"
      BY <2>4 DEF RunPhase, Touches, Quiet, RunTerminal
    <3>2. RunPhase' = [RunPhase EXCEPT ![i] = "over"]
      BY <1>2, <3>1 DEF RunPhase
    <3>3. Promise!Abandon(i)
      BY <1>1, <2>2, <3>1, <3>2 DEF Promise!Abandon
    <3> QED BY <3>3 DEF Promise!Next
  <2> QED BY <2>3, <2>4
<1> QED BY <1>3, <1>4

\* The history of a reader is the log without the door of each entry.
LEMMA HistoryGrows ==
  ASSUME PInv, NEW i \in Runs, NEW by \in {"import", "button"}, PublicationGroup(i, by)
  PROVE  Promise!BecomesCurrent(i)
<1> DEFINE n == Len(log)
           Names == [k \in 1 .. n |-> log[k].run]
           Longer == [k \in 1 .. n + 1 |-> log'[k].run]
<1>1. /\ log \in Seq(Entries) /\ [run |-> i, by |-> by] \in Entries
      /\ log' = Append(log, [run |-> i, by |-> by]) /\ pointer' = i
  BY DEF PInv, TypeInv, PublicationGroup, Entries
<1>2. /\ n \in Nat /\ DOMAIN log = 1 .. n /\ DOMAIN log' = 1 .. n + 1
      /\ \A k \in 1 .. n : log'[k] = log[k]
      /\ log'[n + 1].run = i
  BY <1>1, AppendProperties, LenProperties
<1>3. Names \in Seq(Runs) /\ Len(Names) = n
  <2>1. \A k \in 1 .. n : log[k].run \in Runs
    BY <1>2, LogNamesRuns
  <2> QED BY <1>2, <2>1
<1>4. Append(Names, i) = Longer
  <2>1. /\ Append(Names, i) \in Seq(Runs) /\ Len(Append(Names, i)) = n + 1
        /\ \A k \in 1 .. n : Append(Names, i)[k] = log[k].run
        /\ Append(Names, i)[n + 1] = i
    BY <1>3, AppendProperties
  <2>2. Longer \in Seq(Runs) /\ Len(Longer) = n + 1
    <3>1. \A k \in 1 .. n + 1 : log'[k].run = IF k = n + 1 THEN i ELSE Names[k]
      BY <1>2
    <3>2. \A k \in 1 .. n : Names[k] \in Runs
      BY <1>3, LenProperties
    <3>3. \A k \in 1 .. n + 1 : log'[k].run \in Runs
      BY <1>2, <3>1, <3>2
    <3> QED BY <1>2, <3>3
  <2>3. \A k \in 1 .. n + 1 : Append(Names, i)[k] = Longer[k]
    BY <1>2, <2>1
  <2> QED BY <2>1, <2>2, <2>3, SeqEqual
<1> QED BY <1>1, <1>2, <1>4 DEF Promise!BecomesCurrent

\* The group publishes a run that was open ...
LEMMA GroupPublishes ==
  ASSUME PInv, NEW i \in Runs, NEW by \in {"import", "button"},
         run[i] \in RunActive, PublicationGroup(i, by)
  PROVE  /\ Promise!Publishes(i)
         /\ run'[i] = "published"
         /\ \A r \in Runs : r # i => run'[r] = run[r]
<1>1. /\ run \in [Runs -> RunStates] /\ run' = [run EXCEPT ![i] = "published"]
  BY DEF PInv, TypeInv, Rows, PublicationGroup
<1>2. run'[i] = "published" /\ \A r \in Runs : r # i => run'[r] = run[r]
  BY <1>1
<1>3. RunPhase[i] = "open" /\ RunPhase' = [RunPhase EXCEPT ![i] = "published"]
  BY <1>2 DEF RunPhase, RunTerminal, RunActive
<1> QED BY <1>2, <1>3, HistoryGrows DEF Promise!Publishes

\* ... the import over the rows it promoted ...
LEMMA CommitPublishes ==
  ASSUME PInv, WInv, NEW p \in Procs, Commit(p)
  PROVE  Promise!Next
<1>1. proc[p].pc = "commit" /\ TypeInv
  BY DEF PInv, Commit, CommitsGroup, At
<1>2. PICK i \in Runs : i = proc[p].run /\ Placed(p)
  BY <1>1, KnowsItsRun DEF WInv
<1>3. /\ wh[i] = "promoted" /\ wh' = wh /\ run[i] \in RunActive
      /\ PublicationGroup(i, "import")
  BY <1>1, <1>2 DEF Placed, At, Commit, CanCommit, RunActive
<1>4. /\ Promise!Publishes(i) /\ run'[i] = "published"
      /\ \A r \in Runs : r # i => run'[r] = run[r]
  BY <1>3, GroupPublishes
<1> DEFINE Seen == {r \in Runs : wh[r] = "promoted"}
           Reads == [r \in Runs |->
             IF run[r] = "published" /\ wh[r] = "promoted" THEN r ELSE NoRun]
<1>5. Seen' = Seen \cup {i}
  BY <1>3
<1>6. Reads' = [Reads EXCEPT ![i] = i]
  BY <1>3, <1>4
<1>7. Promise!PublishOwn(i)
  BY <1>4, <1>5, <1>6 DEF Promise!PublishOwn
<1> QED BY <1>7 DEF Promise!Next

\* ... and the button bare: nobody promotes a run that is ready.
LEMMA PressPublishes ==
  ASSUME PInv, WInv, NEW i \in Runs, ButtonCommits(i)
  PROVE  Promise!Next
<1>1. run[i] = "ready" /\ wh' = wh /\ PublicationGroup(i, "button")
  BY DEF ButtonCommits
<1>2. wh[i] # "promoted"
  BY <1>1 DEF WInv, Ordered, Moved
<1>3. /\ Promise!Publishes(i) /\ run'[i] = "published"
      /\ \A r \in Runs : r # i => run'[r] = run[r]
  BY <1>1, GroupPublishes DEF RunActive
<1> DEFINE Seen == {r \in Runs : wh[r] = "promoted"}
           Reads == [r \in Runs |->
             IF run[r] = "published" /\ wh[r] = "promoted" THEN r ELSE NoRun]
<1>4. Seen' = Seen
  BY <1>1
<1>5. Reads' = Reads
  BY <1>1, <1>2, <1>3
<1>6. Promise!PublishBare(i)
  BY <1>3, <1>4, <1>5 DEF Promise!PublishBare
<1> QED BY <1>6 DEF Promise!Next

\* The publication of a managed file implements CurrentPromise: whatever order
\* workers, sweep and people come in, an import is published once, with its entry
\* in the log and with the move of the pointer; the import's own publication is
\* over rows that are in the durable relation by then, what the button publishes
\* without them is bare, its readers are handed no other rows than those that may
\* follow, and no rows are taken away.
THEOREM PublicationKeepsHistory == Spec => KeepsHistory
<1>1. Init => Promise!Init
  BY DEF Init, Promise!Init, RunPhase, RunTerminal
<1>2. PInv /\ WInv /\ [Next]_vars => [Promise!Next]_Promise!promiseVars
  <2> SUFFICES ASSUME PInv, WInv, [Next]_vars
               PROVE  [Promise!Next]_Promise!promiseVars
    OBVIOUS
  <2>1. CASE UNCHANGED <<run, wh, pointer, log>>
    BY <2>1 DEF Promise!promiseVars, RunPhase
  <2>2. CASE \E p \in Procs : Commit(p)
    BY <2>2, CommitPublishes
  <2>3. CASE \E i \in Runs : ButtonCommits(i)
    BY <2>3, PressPublishes
  <2>4. CASE Next /\ ~(\E p \in Procs : Commit(p)) /\ ~(\E i \in Runs : ButtonCommits(i))
    <3>1. Quiet /\ (UNCHANGED <<run, wh>> \/ \E i \in Runs : Touches(i))
      BY <2>4, NextTouches
    <3>2. \A i \in Runs : wh[i] = "promoted" => wh'[i] = "promoted"
      BY PromotedStays
    <3> QED BY <2>1, <3>1, <3>2, TouchKeeps DEF Quiet
  <2>5. UNCHANGED vars => UNCHANGED <<run, wh, pointer, log>>
    BY DEF vars
  <2> QED BY <2>1, <2>2, <2>3, <2>4, <2>5
<1> QED BY <1>1, <1>2, Inductive, Settling, PTL DEF Spec, KeepsHistory, Promise!Spec
=============================================================================
