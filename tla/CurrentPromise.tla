--------------------------- MODULE CurrentPromise ---------------------------
(***************************************************************************)
(* What a Datastream promises its readers, whichever door publishes and    *)
(* whatever dies on the way: an execution is published once, together with *)
(* its entry in the history and with the move of Current; the rows its     *)
(* readers are handed are in place by then, or, when it was published      *)
(* bare, its own rows follow; rows handed to readers are never exchanged   *)
(* nor taken away; Current moves back to what was published, and nowhere   *)
(* else.                                                                   *)
(***************************************************************************)
EXTENDS Sequences

CONSTANTS
  Runs,      \* the executions of the Datastream
  NoRun,     \* no execution
  MayBeBare  \* may an execution be published that names no rows?

VARIABLES
  phase,    \* "open", "published" or "over", per execution
  current,  \* the execution readers are pointed at
  history,  \* every Current there was, in order
  rows,     \* the executions whose rows are in the relation readers name
  reads     \* the execution whose rows a reader of an execution is handed

promiseVars == <<phase, current, history, rows, reads>>

Init ==
  /\ phase = [r \in Runs |-> "open"]
  /\ current = NoRun
  /\ history = <<>>
  /\ rows = {}
  /\ reads = [r \in Runs |-> NoRun]

\* The rows of an execution reach the relation before it is published.
Serve(r) ==
  /\ phase[r] # "published"
  /\ rows' = rows \cup {r}
  /\ UNCHANGED <<phase, current, history, reads>>

BecomesCurrent(r) == current' = r /\ history' = Append(history, r)

Publishes(r) ==
  /\ phase[r] = "open"
  /\ phase' = [phase EXCEPT ![r] = "published"]
  /\ BecomesCurrent(r)

\* With the rows it brought itself.
PublishOwn(r) ==
  /\ Publishes(r)
  /\ rows' = rows \cup {r}
  /\ reads' = [reads EXCEPT ![r] = r]

\* Over the rows of the Current it replaces.
PublishOver(r) ==
  /\ Publishes(r)
  /\ current \in Runs /\ reads[current] # NoRun
  /\ reads' = [reads EXCEPT ![r] = reads[current]]
  /\ UNCHANGED rows

PublishBare(r) == MayBeBare /\ Publishes(r) /\ UNCHANGED <<rows, reads>>

\* The rows of an execution published bare follow, and are then what is read.
Fill(r) ==
  /\ MayBeBare /\ phase[r] = "published" /\ reads[r] = NoRun
  /\ rows' = rows \cup {r}
  /\ reads' = [reads EXCEPT ![r] = r]
  /\ UNCHANGED <<phase, current, history>>

Abandon(r) ==
  /\ phase[r] = "open"
  /\ phase' = [phase EXCEPT ![r] = "over"]
  /\ UNCHANGED <<current, history, rows, reads>>

Return(r) ==
  /\ phase[r] = "published" /\ r # current
  /\ BecomesCurrent(r)
  /\ UNCHANGED <<phase, rows, reads>>

Next ==
  \E r \in Runs :
    \/ Serve(r) \/ PublishOwn(r) \/ PublishOver(r) \/ PublishBare(r)
    \/ Fill(r) \/ Abandon(r) \/ Return(r)

Spec == Init /\ [][Next]_promiseVars
=============================================================================
