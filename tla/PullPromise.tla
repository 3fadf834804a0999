----------------------------- MODULE PullPromise -----------------------------
(***************************************************************************)
(* What the pull queue promises its callers, whichever backend runs it: a  *)
(* window that was accepted is open until it ends, it ends once and for    *)
(* good, two open windows never cover the same key, and the rows of a      *)
(* window land only while it is open.                                      *)
(***************************************************************************)
EXTENDS Naturals

CONSTANTS Jobs, Keys

VARIABLES
  phase,    \* "none", "open" or "ended", per job
  covers,   \* the key an accepted job covers
  rows      \* how many times its rows landed

promiseVars == <<phase, covers, rows>>

Init ==
  /\ phase = [j \in Jobs |-> "none"]
  /\ covers \in [Jobs -> Keys]
  /\ rows = [j \in Jobs |-> 0]

Accept(j, k) ==
  /\ phase[j] = "none"
  /\ \A i \in Jobs : phase[i] = "open" => covers[i] # k
  /\ phase' = [phase EXCEPT ![j] = "open"]
  /\ covers' = [covers EXCEPT ![j] = k]
  /\ UNCHANGED rows

Land(j) ==
  /\ phase[j] = "open"
  /\ rows' = [rows EXCEPT ![j] = @ + 1]
  /\ UNCHANGED <<phase, covers>>

\* One window, or several whose claims were found spent together.
End(ended) ==
  /\ ended # {}
  /\ \A j \in ended : phase[j] = "open"
  /\ phase' = [j \in Jobs |-> IF j \in ended THEN "ended" ELSE phase[j]]
  /\ UNCHANGED <<covers, rows>>

Next ==
  \/ \E j \in Jobs, k \in Keys : Accept(j, k)
  \/ \E j \in Jobs : Land(j)
  \/ \E ended \in SUBSET Jobs : End(ended)

Spec == Init /\ [][Next]_promiseVars
=============================================================================
