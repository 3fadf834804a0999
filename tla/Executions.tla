----------------------------- MODULE Executions -----------------------------
(***************************************************************************)
(* app.datastream_executions of one Datastream and the closed state machine *)
(* every writer goes through (server/core/execution_states.py and          *)
(* datastream_publication.create_execution / advance_state).               *)
(***************************************************************************)
CONSTANT Runs      \* the execution ids of the Datastream

VARIABLE run       \* app.datastream_executions.state, "absent" before create

RunTerminal == {"published", "collected", "failed", "cancelled"}
RunActive   == {"created", "loading", "validating", "ready", "publishing"}
RunStates   == RunActive \cup RunTerminal \cup {"absent"}

Cancellable == RunActive \ {"publishing"}

Forward == [s \in RunStates |->
  CASE s = "created"    -> {"loading"}
    [] s = "loading"    -> {"validating", "collected"}
    [] s = "validating" -> {"ready"}
    [] s = "ready"      -> {"publishing"}
    [] s = "publishing" -> {"published"}
    [] OTHER            -> {}]

IsValidTransition(current, new) ==
  /\ current \in RunActive
  /\ \/ new = "failed"
     \/ new = "cancelled" /\ current \in Cancellable
     \/ new \in Forward[current]

\* uq_datastream_executions_active: one non-terminal execution per Datastream.
NoRunActive == \A r \in Runs : run[r] \notin RunActive

\* create_execution, the INSERT.  The machine is entered at s.
CreateExecution(r, s) ==
  /\ run[r] = "absent"
  /\ NoRunActive
  /\ run' = [run EXCEPT ![r] = s]

\* advance_state: the row is locked, and anybody who moved it first wins.
AdvanceState(r, expected, new) ==
  /\ run[r] = expected
  /\ IsValidTransition(expected, new)
  /\ run' = [run EXCEPT ![r] = new]

\* What becomes of the executions, as CurrentPromise tells it.
RunPhase == [r \in Runs |->
  IF run[r] = "published" THEN "published"
  ELSE IF run[r] \in RunTerminal THEN "over" ELSE "open"]
=============================================================================
