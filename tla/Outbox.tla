------------------------------- MODULE Outbox -------------------------------
(***************************************************************************)
(* The transactional outbox of modules/platform: business transactions     *)
(* append facts (events.py), publisher workers claim the due ones under a  *)
(* five-minute lease, hand them to a provider and record the outcome       *)
(* (outbox.py).                                                            *)
(*                                                                         *)
(* Time is abstracted to what the queries compare: a row's lease is fresh  *)
(* or stale, its next_attempt_at has passed or has not.  A lock token is   *)
(* abstracted to the worker whose running batch holds it; the token of a   *)
(* batch that no longer runs is Orphan, because uuid4 tokens never recur.  *)
(***************************************************************************)
EXTENDS Integers, FiniteSets

CONSTANTS
  Event,        \* facts: values of the columns of outbox_unique_aggregate_fact
  Worker,       \* publisher processes running publish_claimed_batch
  NoEvent,      \* the loop variable outside publish() and mark_*()
  NoToken,      \* lock_token IS NULL
  Orphan,       \* a lock_token no running batch holds
  BatchSize,    \* batch_size
  MaxAttempts,  \* max_attempts of mark_failed (8 in the code)
  MaxCrashes,   \* bound: workers killed in the middle of a batch
  MaxTakeovers  \* bound: claims of one event that replace a stale lock

ASSUME OutboxAssumption ==
  /\ IsFiniteSet(Event) /\ IsFiniteSet(Worker) /\ NoEvent \notin Event
  /\ BatchSize \in Nat \ {0} /\ MaxAttempts \in Nat \ {0}
  /\ MaxCrashes \in Nat /\ MaxTakeovers \in Nat
  /\ NoToken \notin Worker /\ Orphan \notin Worker /\ NoToken # Orphan

VARIABLES
  row,        \* "none", "staged" (uncommitted insert), "committed"
  order,      \* rank of the row by (occurred_at, pk); 0 when there is no row
  published,  \* published_at IS NOT NULL
  dead,       \* dead_lettered_at IS NOT NULL
  attempts,   \* the attempts column
  waiting,    \* next_attempt_at lies in the future
  token,      \* lock_token
  stale,      \* locked_at lies before now - 5 minutes
  batch,      \* worker -> events its batch has still to handle
  pc,         \* worker -> where publish_claimed_batch stands
  current,    \* worker -> event it has called publish() for and not yet marked
  accepted,   \* history: some publish() of the event returned normally
  calls,      \* history: publish() calls made for the event
  takeovers,  \* history: claims of the event that replaced a stale lock
  crashes     \* history: workers killed

rowVars  == <<row, order, published, dead, attempts, waiting, token, stale>>
workVars == <<batch, pc, current>>
histVars == <<accepted, calls, takeovers, crashes>>
vars     == <<rowVars, workVars, histVars>>

PCs == {"idle", "publishing", "succeeded", "raised"}

TypeOK ==
  /\ row \in [Event -> {"none", "staged", "committed"}]
  /\ order \in [Event -> Nat]
  /\ published \in [Event -> BOOLEAN]
  /\ dead \in [Event -> BOOLEAN]
  /\ attempts \in [Event -> Nat]
  /\ waiting \in [Event -> BOOLEAN]
  /\ token \in [Event -> Worker \cup {NoToken, Orphan}]
  /\ stale \in [Event -> BOOLEAN]
  /\ batch \in [Worker -> SUBSET Event]
  /\ pc \in [Worker -> PCs]
  /\ current \in [Worker -> Event \cup {NoEvent}]
  /\ accepted \in [Event -> BOOLEAN]
  /\ calls \in [Event -> Nat]
  /\ takeovers \in [Event -> Nat]
  /\ crashes \in Nat

Init ==
  /\ row = [e \in Event |-> "none"]
  /\ order = [e \in Event |-> 0]
  /\ published = [e \in Event |-> FALSE]
  /\ dead = [e \in Event |-> FALSE]
  /\ attempts = [e \in Event |-> 0]
  /\ waiting = [e \in Event |-> FALSE]
  /\ token = [e \in Event |-> NoToken]
  /\ stale = [e \in Event |-> FALSE]
  /\ batch = [w \in Worker |-> {}]
  /\ pc = [w \in Worker |-> "idle"]
  /\ current = [w \in Worker |-> NoEvent]
  /\ accepted = [e \in Event |-> FALSE]
  /\ calls = [e \in Event |-> 0]
  /\ takeovers = [e \in Event |-> 0]
  /\ crashes = 0

-----------------------------------------------------------------------------
(* The business transaction that appends the fact.                         *)

\* append_event inside an open transaction: the insert needs a fact that no
\* row carries yet and stamps occurred_at, the row is not visible to others.
AppendEvent(e) ==
  /\ row[e] = "none"
  /\ row' = [row EXCEPT ![e] = "staged"]
  /\ order' = [order EXCEPT ![e] = 1 + Cardinality({f \in Event : order[f] > 0})]
  /\ UNCHANGED <<published, dead, attempts, waiting, token, stale,
                 workVars, histVars>>

CommitEvent(e) ==
  /\ row[e] = "staged"
  /\ row' = [row EXCEPT ![e] = "committed"]
  /\ UNCHANGED <<order, published, dead, attempts, waiting, token, stale,
                 workVars, histVars>>

\* The transaction rolls back and takes its row with it; later ranks close up.
RollbackEvent(e) ==
  /\ row[e] = "staged"
  /\ row' = [row EXCEPT ![e] = "none"]
  /\ order' = [f \in Event |-> IF f = e THEN 0
                               ELSE IF order[f] > order[e] THEN order[f] - 1
                               ELSE order[f]]
  /\ UNCHANGED <<published, dead, attempts, waiting, token, stale,
                 workVars, histVars>>

-----------------------------------------------------------------------------
(* publish_claimed_batch.                                                  *)

\* Mutant: the filter on locked_at is dropped.
DueThoughLocked == {e \in Event : /\ row[e] = "committed" /\ ~published[e]
                                  /\ ~dead[e] /\ ~waiting[e]}

\* Mutant: only locked_at IS NULL, no five-minute limit.
DueNeverReclaimed == {e \in DueThoughLocked : token[e] = NoToken}

\* The filter of claim_due_events.
Due == {e \in Event : /\ row[e] = "committed" /\ ~published[e] /\ ~dead[e]
                      /\ ~waiting[e]
                      /\ token[e] = NoToken \/ stale[e]}

\* queryset[:batch_size] ordered by (occurred_at, pk).
FirstDue(B) ==
  /\ B \subseteq Due
  /\ \A e \in B, f \in Due \ B : order[e] < order[f]
  /\ Cardinality(B) <= BatchSize
  /\ B = Due \/ Cardinality(B) = BatchSize

\* One transaction: skip_locked gives concurrent claims disjoint batches.  A
\* row taken with a stale lock loses its former holder's token.
ClaimDueEvents(w) ==
  /\ pc[w] = "idle"
  /\ Due # {}
  /\ \E B \in SUBSET Due :
       /\ FirstDue(B)
       /\ \A e \in B : stale[e] => takeovers[e] < MaxTakeovers
       /\ token' = [e \in Event |-> IF e \in B THEN w ELSE token[e]]
       /\ stale' = [e \in Event |-> stale[e] /\ e \notin B]
       /\ takeovers' = [e \in Event |-> IF e \in B /\ stale[e]
                                        THEN takeovers[e] + 1 ELSE takeovers[e]]
       /\ batch' = [batch EXCEPT ![w] = B]
  /\ pc' = [pc EXCEPT ![w] = "publishing"]
  /\ UNCHANGED <<row, order, published, dead, attempts, waiting, current,
                 accepted, calls, crashes>>

\* The loop of publish_claimed_batch reaches its next event and calls
\* publisher.publish(event), which returns or raises as outcome says.
Call(w, e, outcome) ==
  /\ pc[w] = "publishing"
  /\ e \in batch[w] /\ \A f \in batch[w] : order[e] <= order[f]
  /\ calls' = [calls EXCEPT ![e] = @ + 1]
  /\ current' = [current EXCEPT ![w] = e]
  /\ pc' = [pc EXCEPT ![w] = outcome]

PublishReturns(w, e) ==
  /\ Call(w, e, "succeeded")
  /\ accepted' = [accepted EXCEPT ![e] = TRUE]
  /\ UNCHANGED <<rowVars, batch, takeovers, crashes>>

\* The provider may nevertheless have got the event.
PublishRaises(w, e) ==
  /\ Call(w, e, "raised")
  /\ UNCHANGED <<rowVars, batch, accepted, takeovers, crashes>>

\* Mutant: the lock_token condition of .get() is dropped.
HoldsAnyToken(w, e) == ~published[e] /\ ~dead[e]

\* The row both mark_published and mark_failed select.
Holds(w, e) == token[e] = w /\ ~published[e] /\ ~dead[e]

\* The batch moves on to its next event, or ends.
Advance(w, e) ==
  /\ batch' = [batch EXCEPT ![w] = @ \ {e}]
  /\ pc' = [pc EXCEPT ![w] = IF batch[w] = {e} THEN "idle" ELSE "publishing"]
  /\ current' = [current EXCEPT ![w] = NoEvent]

\* Mutant: mark_published in a finally clause instead of the else clause.
MarkPublishedFinally(w, e) ==
  /\ pc[w] \in {"succeeded", "raised"} /\ current[w] = e /\ Holds(w, e)
  /\ published' = [published EXCEPT ![e] = TRUE]
  /\ token' = [token EXCEPT ![e] = NoToken]
  /\ stale' = [stale EXCEPT ![e] = FALSE]
  /\ Advance(w, e)
  /\ UNCHANGED <<row, order, dead, attempts, waiting, histVars>>

MarkPublished(w, e) ==
  /\ pc[w] = "succeeded" /\ current[w] = e /\ Holds(w, e)
  /\ published' = [published EXCEPT ![e] = TRUE]
  /\ token' = [token EXCEPT ![e] = NoToken]
  /\ stale' = [stale EXCEPT ![e] = FALSE]
  /\ Advance(w, e)
  /\ UNCHANGED <<row, order, dead, attempts, waiting, histVars>>

\* Mutant: locked_at and lock_token are not cleared.
MarkFailedKeepsLock(w, e) ==
  /\ pc[w] = "raised" /\ current[w] = e /\ Holds(w, e)
  /\ attempts' = [attempts EXCEPT ![e] = @ + 1]
  /\ dead' = [dead EXCEPT ![e] = attempts[e] + 1 >= MaxAttempts]
  /\ waiting' = [waiting EXCEPT ![e] = attempts[e] + 1 < MaxAttempts]
  /\ Advance(w, e)
  /\ UNCHANGED <<row, order, published, token, stale, histVars>>

MarkFailed(w, e) ==
  /\ pc[w] = "raised" /\ current[w] = e /\ Holds(w, e)
  /\ attempts' = [attempts EXCEPT ![e] = @ + 1]
  /\ dead' = [dead EXCEPT ![e] = attempts[e] + 1 >= MaxAttempts]
  /\ waiting' = [waiting EXCEPT ![e] = attempts[e] + 1 < MaxAttempts]
  /\ token' = [token EXCEPT ![e] = NoToken]
  /\ stale' = [stale EXCEPT ![e] = FALSE]
  /\ Advance(w, e)
  /\ UNCHANGED <<row, order, published, histVars>>

\* The batch of w stops short; rows that still carry its token are orphaned.
Abandon(w) ==
  /\ token' = [e \in Event |-> IF token[e] = w THEN Orphan ELSE token[e]]
  /\ batch' = [batch EXCEPT ![w] = {}]
  /\ pc' = [pc EXCEPT ![w] = "idle"]
  /\ current' = [current EXCEPT ![w] = NoEvent]

\* .get() finds no row with the token any more: DoesNotExist leaves
\* publish_claimed_batch, and the events it has not reached stay locked.
MarkRejected(w, e) ==
  /\ pc[w] \in {"succeeded", "raised"} /\ current[w] = e /\ ~Holds(w, e)
  /\ Abandon(w)
  /\ UNCHANGED <<row, order, published, dead, attempts, waiting, stale, histVars>>

\* The worker process dies between two statements.
Crash(w) ==
  /\ pc[w] # "idle" /\ crashes < MaxCrashes
  /\ crashes' = crashes + 1
  /\ Abandon(w)
  /\ UNCHANGED <<row, order, published, dead, attempts, waiting, stale,
                 accepted, calls, takeovers>>

-----------------------------------------------------------------------------
(* The clock.                                                              *)

\* Five minutes pass since the claim of a batch that no longer runs ...
OrphanExpires(e) ==
  /\ token[e] = Orphan /\ ~stale[e]
  /\ stale' = [stale EXCEPT ![e] = TRUE]
  /\ UNCHANGED <<row, order, published, dead, attempts, waiting, token,
                 workVars, histVars>>

\* ... or of one that does: all its rows carry the same locked_at.
LeaseRunsOut(w) ==
  /\ \E e \in Event : token[e] = w /\ ~stale[e]
  /\ stale' = [e \in Event |-> stale[e] \/ token[e] = w]
  /\ UNCHANGED <<row, order, published, dead, attempts, waiting, token,
                 workVars, histVars>>

BackoffElapses(e) ==
  /\ waiting[e]
  /\ waiting' = [waiting EXCEPT ![e] = FALSE]
  /\ UNCHANGED <<row, order, published, dead, attempts, token, stale,
                 workVars, histVars>>

-----------------------------------------------------------------------------
Publish(w, e) == PublishReturns(w, e) \/ PublishRaises(w, e)
Mark(w, e) == MarkPublished(w, e) \/ MarkFailed(w, e) \/ MarkRejected(w, e)

Next ==
  \/ \E e \in Event : \/ AppendEvent(e) \/ CommitEvent(e) \/ RollbackEvent(e)
                      \/ OrphanExpires(e) \/ BackoffElapses(e)
  \/ \E w \in Worker : ClaimDueEvents(w) \/ Crash(w) \/ LeaseRunsOut(w)
  \/ \E w \in Worker, e \in Event : Publish(w, e) \/ Mark(w, e)

Spec == Init /\ [][Next]_vars

(***************************************************************************)
(* Fairness: the clock runs.  Nothing obliges a business transaction to    *)
(* begin, a publish() to return, a worker to crash, or anyone to start a   *)
(* worker at all: no task, schedule or command of the repository does.     *)
(***************************************************************************)
Fairness ==
  /\ \A e \in Event : WF_vars(OrphanExpires(e)) /\ WF_vars(BackoffElapses(e))
  /\ \A w \in Worker : WF_vars(LeaseRunsOut(w))

FairSpec == Spec /\ Fairness

-----------------------------------------------------------------------------
(* Properties.                                                             *)

Settled(e) == published[e] \/ dead[e]

\* Only facts of committed transactions reach the provider, and a row is
\* marked published only after a publish() of it returned: neither a rolled
\* back transaction nor a late mark of a lost lease can produce a false receipt.
HonestReceipts ==
  \A e \in Event : /\ calls[e] > 0 => row[e] = "committed"
                   /\ published[e] => accepted[e]
                   /\ dead[e] => attempts[e] >= MaxAttempts /\ ~published[e]

\* Two batches never hold the same row: the token names one running batch
\* that still has the row before it, and a batch has a row before it that it
\* does not hold only after another claim took the row's stale lock.
SingleHolder ==
  \A e \in Event, w \in Worker :
    /\ token[e] = w => e \in batch[w] /\ pc[w] # "idle" /\ ~Settled(e)
    /\ e \in batch[w] => token[e] = w \/ takeovers[e] > 0

\* Retries are accounted for: beyond the first, every provider call for an
\* event is explained by a recorded failure or by the takeover of a stale lock.
CallBudget ==
  \A e \in Event : calls[e] <= 1 + attempts[e] + takeovers[e]

\* A settled row is never claimed, retried or settled differently again, and
\* a worker that lost its lock changes nothing about the row: only the holder
\* of the token moves published_at, dead_lettered_at or attempts.
FencedOutcomes ==
  [][\A e \in Event :
       /\ Settled(e) => /\ published'[e] = published[e] /\ dead'[e] = dead[e]
                        /\ token'[e] = NoToken /\ attempts'[e] = attempts[e]
       /\ <<published[e], dead[e], attempts[e]>>' # <<published[e], dead[e], attempts[e]>>
            => \E w \in Worker : token[e] = w /\ batch'[w] = batch[w] \ {e}]_vars

\* No committed fact gets stuck: wherever workers die, hang or give up, the
\* passing of time alone brings every row that is not settled back to where
\* the next claim finds it.
NeverStuck ==
  \A e \in Event : row[e] = "committed" ~> Settled(e) \/ e \in Due
=============================================================================
