----------------------------- MODULE LocalQueue -----------------------------
(***************************************************************************)
(* QUEUE_BACKEND=local: LocalBackend.enqueue_pull racing with itself, and  *)
(* the polling worker threads (server/core/queue.py).                      *)
(***************************************************************************)
EXTENDS PullLedger

CONSTANT Enqueuers   \* requests and ticks calling enqueue_pull concurrently

VARIABLES
  enq,       \* where each enqueue_pull call stands
  want,      \* the key it asks for
  answered   \* observer: the job ids handed back to callers

enqVars == <<enq, want, answered>>
vars    == <<ledgerVars, enqVars>>

\* What a call that is over asked for is forgotten.
NoMatter == CHOOSE k \in Keys : TRUE

Init ==
  /\ InitLedger
  /\ enq = [e \in Enqueuers |-> "idle"]
  /\ want = [e \in Enqueuers |-> NoMatter]
  /\ answered = {}

ActiveRow(k) == {j \in Jobs : Active(j) /\ key[j] = k}

\* Ids neither in the ledger nor handed out; _mint_job_id takes the next one, so
\* that < on ids is the order of enqueued_at.
Fresh == {j \in Jobs : state[j] = "absent"} \ answered
Minted(j) == j \in Fresh /\ \A i \in Fresh : j <= i

Answer(e, j) ==
  /\ answered' = answered \cup {j}
  /\ enq' = [enq EXCEPT ![e] = "idle"]
  /\ want' = [want EXCEPT ![e] = NoMatter]

-----------------------------------------------------------------------------
(* enqueue_pull: a SELECT, an INSERT, and after a lost race another SELECT. *)

\* The dedup fast path: an active row for this key is returned as it is.
Lookup(e, k) ==
  /\ enq[e] = "idle"
  /\ \/ \E j \in ActiveRow(k) : Answer(e, j)
     \/ /\ ActiveRow(k) = {}
        /\ enq' = [enq EXCEPT ![e] = "inserting"]
        /\ want' = [want EXCEPT ![e] = k]
        /\ UNCHANGED answered
  /\ UNCHANGED ledgerVars

InsertWins(e, j) ==
  /\ enq[e] = "inserting"
  /\ Minted(j)
  /\ Insert(j, want[e])
  /\ Answer(e, j)
  /\ UNCHANGED <<workerVars, landed, tries, paused, faults>>

InsertConflicts(e) ==
  /\ enq[e] = "inserting"
  /\ ActiveRow(want[e]) # {}
  /\ enq' = [enq EXCEPT ![e] = "lost"]
  /\ UNCHANGED <<ledgerVars, want, answered>>

\* The row that won is returned; when it has ended meanwhile, the id this call
\* minted is returned instead, as if it had been queued.
SelectWinner(e) ==
  /\ enq[e] = "lost"
  /\ \/ \E j \in ActiveRow(want[e]) : Answer(e, j)
     \/ ActiveRow(want[e]) = {} /\ \E j \in Jobs : Minted(j) /\ Answer(e, j)
  /\ UNCHANGED ledgerVars

Enqueue(e) ==
  \/ \E k \in Keys : Lookup(e, k)
  \/ \E j \in Jobs : InsertWins(e, j)
  \/ InsertConflicts(e)
  \/ SelectWinner(e)

-----------------------------------------------------------------------------
(* The worker loop.                                                        *)

\* _dequeue_one: ORDER BY enqueued_at LIMIT 1.
ClaimOldest(w) ==
  /\ \E j \in Jobs :
       /\ \A i \in Jobs : state[i] = "queued" => j <= i
       /\ Claim(w, j)
  /\ UNCHANGED enqVars

Work(w) ==
  \/ ClaimOldest(w)
  \/ ExecuteStep(w) /\ UNCHANGED enqVars
  \/ (\E j \in Jobs : Record(w, j)) /\ UNCHANGED enqVars

Sweep(w) == RecoverStale(w) /\ UNCHANGED enqVars
Die(w)   == Crash(w) /\ UNCHANGED enqVars
Age(j)   == Overdue(j) /\ UNCHANGED enqVars
Refill(p) == Resume(p) /\ UNCHANGED enqVars

Next ==
  \/ \E e \in Enqueuers : Enqueue(e)
  \/ \E w \in Workers : Work(w) \/ Sweep(w) \/ Die(w)
  \/ \E j \in Jobs : Age(j)
  \/ \E p \in Platforms : Refill(p)

Spec == Init /\ [][Next]_vars

\* The worker loop never stops polling and sweeps every ten minutes; time makes
\* stale claims overdue and refills budgets.  Nothing forces an enqueue.
Fairness ==
  /\ \A w \in Workers : WF_vars(Work(w)) /\ WF_vars(Sweep(w))
  /\ \A j \in Jobs : WF_vars(Age(j))
  /\ \A p \in Platforms : WF_vars(Refill(p))

FairSpec == Spec /\ Fairness

-----------------------------------------------------------------------------
TypeOK ==
  /\ LedgerTypeOK
  /\ enq \in [Enqueuers -> {"idle", "inserting", "lost"}]
  /\ want \in [Enqueuers -> Keys]
  /\ answered \subseteq Jobs

\* Every job id enqueue_pull hands to a caller is a row of the ledger.
AnsweredJobExists == \A j \in answered : state[j] # "absent"

\* Every window a caller was told about, and whose row exists (AnsweredJobExists),
\* reaches a terminal state, whatever faults, 429s and quota blocks it meets.
AnsweredWindowEnds ==
  \A j \in Jobs : (j \in answered /\ state[j] # "absent") ~> Ended(j)
=============================================================================
