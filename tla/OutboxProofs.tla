---------------------------- MODULE OutboxProofs ----------------------------
(***************************************************************************)
(* Safety of the outbox for every finite set of events, every set of       *)
(* workers and every bound.  The three properties below are proved from    *)
(* TypeOK and LeaseInv, their inductive strengthening: it ties where a     *)
(* worker stands to the rows of its batch.  Then of projects and drawings, *)
(* whose events go through it: who hands a project over, what counts its   *)
(* versions, and which drawing is in use.                                  *)
(***************************************************************************)
EXTENDS Outbox, ProjectWork, FiniteSetTheorems, TLAPS

\* Every step keeps every column and every program counter in its range.
LEMMA TypeStep == TypeOK /\ [Next]_vars => TypeOK'
<1> SUFFICES ASSUME TypeOK, [Next]_vars PROVE TypeOK'
  OBVIOUS
<1> USE OutboxAssumption DEF TypeOK, rowVars, workVars, histVars, PCs
<1>1. ASSUME NEW e \in Event, AppendEvent(e) PROVE TypeOK'
  <2>1. Cardinality({f \in Event : order[f] > 0}) \in Nat
    BY FS_Subset, FS_CardinalityType
  <2>2. QED BY <1>1, <2>1 DEF AppendEvent
<1>2. ASSUME NEW e \in Event, CommitEvent(e) PROVE TypeOK'
  BY <1>2 DEF CommitEvent
<1>3. ASSUME NEW e \in Event, RollbackEvent(e) PROVE TypeOK'
  BY <1>3 DEF RollbackEvent
<1>4. ASSUME NEW e \in Event, OrphanExpires(e) PROVE TypeOK'
  BY <1>4 DEF OrphanExpires
<1>5. ASSUME NEW e \in Event, BackoffElapses(e) PROVE TypeOK'
  BY <1>5 DEF BackoffElapses
<1>6. ASSUME NEW w \in Worker, ClaimDueEvents(w) PROVE TypeOK'
  <2>1. Due \subseteq Event
    BY DEF Due
  <2>2. QED BY <1>6, <2>1 DEF ClaimDueEvents
<1>7. ASSUME NEW w \in Worker, Crash(w) PROVE TypeOK'
  BY <1>7 DEF Crash, Abandon
<1>8. ASSUME NEW w \in Worker, LeaseRunsOut(w) PROVE TypeOK'
  BY <1>8 DEF LeaseRunsOut
<1>9. ASSUME NEW w \in Worker, NEW e \in Event, Publish(w, e) PROVE TypeOK'
  <2>1. CASE PublishReturns(w, e)
    BY <2>1 DEF PublishReturns, Call
  <2>2. CASE PublishRaises(w, e)
    BY <2>2 DEF PublishRaises, Call
  <2>3. QED BY <1>9, <2>1, <2>2 DEF Publish
<1>10. ASSUME NEW w \in Worker, NEW e \in Event, MarkPublished(w, e) PROVE TypeOK'
  BY <1>10 DEF MarkPublished, Advance
<1>11. ASSUME NEW w \in Worker, NEW e \in Event, MarkFailed(w, e) PROVE TypeOK'
  BY <1>11 DEF MarkFailed, Advance
<1>12. ASSUME NEW w \in Worker, NEW e \in Event, MarkRejected(w, e) PROVE TypeOK'
  BY <1>12 DEF MarkRejected, Abandon
<1>13. CASE UNCHANGED vars
  BY <1>13 DEF vars
<1>14. QED
  BY <1>1, <1>2, <1>3, <1>4, <1>5, <1>6, <1>7, <1>8, <1>9, <1>10, <1>11,
     <1>12, <1>13 DEF Next, Mark

\* Type correctness of the outbox.
THEOREM OutboxTypeCorrect == Spec => []TypeOK
<1>1. Init => TypeOK
  BY OutboxAssumption DEF Init, TypeOK, PCs
<1>2. QED BY <1>1, TypeStep, PTL DEF Spec

-----------------------------------------------------------------------------
(* The inductive invariant.                                                *)

\* A worker between batches has no rows and, as before each publish(), no
\* current event; one that is between publish() and
\* its mark still has the event, and knows the truth about it.
WorkerInv(w) ==
  /\ pc[w] = "idle" => batch[w] = {}
  /\ pc[w] \in {"idle", "publishing"} => current[w] = NoEvent
  /\ pc[w] \in {"succeeded", "raised"} => current[w] \in batch[w]
  /\ pc[w] = "succeeded" => accepted[current[w]]
  /\ \A e \in batch[w] : row[e] = "committed"

\* A row that is not committed was never touched by a worker, and a settled
\* one is not locked, not even by a worker that is gone.
RowInv(e) ==
  /\ row[e] # "committed" => token[e] = NoToken /\ ~Settled(e)
  /\ Settled(e) => token[e] = NoToken

LeaseInv ==
  /\ HonestReceipts /\ SingleHolder
  /\ \A w \in Worker : WorkerInv(w)
  /\ \A e \in Event : RowInv(e)

IInv == TypeOK /\ LeaseInv

LEMMA LeaseInit == Init => LeaseInv
  BY OutboxAssumption
  DEF Init, LeaseInv, HonestReceipts, SingleHolder, WorkerInv, RowInv, Settled

\* What a business transaction or the clock does leaves the leases alone.
LEMMA LeaseEventStep ==
  ASSUME IInv, NEW e \in Event,
         \/ AppendEvent(e) \/ CommitEvent(e) \/ RollbackEvent(e)
         \/ OrphanExpires(e) \/ BackoffElapses(e)
  PROVE  LeaseInv'
<1> USE DEF IInv, TypeOK, LeaseInv, HonestReceipts, SingleHolder, WorkerInv,
        RowInv, Settled, rowVars, workVars, histVars
<1>1. CASE AppendEvent(e) BY <1>1 DEF AppendEvent
<1>2. CASE CommitEvent(e) BY <1>2 DEF CommitEvent
<1>3. CASE RollbackEvent(e) BY <1>3 DEF RollbackEvent
<1>4. CASE OrphanExpires(e) BY <1>4 DEF OrphanExpires
<1>5. CASE BackoffElapses(e) BY <1>5 DEF BackoffElapses
<1>6. QED BY <1>1, <1>2, <1>3, <1>4, <1>5

\* A claim takes rows from the pool or from a stale holder, all committed and
\* unsettled; no row carried the token of a worker that was idle.
LEMMA LeaseClaimStep ==
  ASSUME IInv, NEW w \in Worker, ClaimDueEvents(w)
  PROVE  LeaseInv'
<1> USE DEF IInv, TypeOK
<1>1. PICK B \in SUBSET Due :
        /\ token' = [e \in Event |-> IF e \in B THEN w ELSE token[e]]
        /\ takeovers' = [e \in Event |-> IF e \in B /\ stale[e]
                                         THEN takeovers[e] + 1 ELSE takeovers[e]]
        /\ batch' = [batch EXCEPT ![w] = B]
  BY DEF ClaimDueEvents
<1>2. /\ pc[w] = "idle" /\ pc' = [pc EXCEPT ![w] = "publishing"]
      /\ UNCHANGED <<row, published, dead, attempts, current, accepted, calls>>
  BY DEF ClaimDueEvents
<1>3. \A e \in B : e \in Event /\ row[e] = "committed" /\ ~published[e] /\ ~dead[e]
  BY DEF Due
<1>4. HonestReceipts'
  BY <1>2 DEF LeaseInv, HonestReceipts
<1>5. SingleHolder'
  <2> SUFFICES ASSUME NEW e \in Event, NEW v \in Worker
               PROVE  /\ token'[e] = v => /\ e \in batch'[v] /\ pc'[v] # "idle"
                                          /\ ~Settled(e)'
                      /\ e \in batch'[v] => token'[e] = v \/ takeovers'[e] > 0
    BY DEF SingleHolder
  <2>1. ASSUME token'[e] = v
        PROVE  e \in batch'[v] /\ pc'[v] # "idle" /\ ~Settled(e)'
    <3>1. CASE e \in B
      BY <2>1, <3>1, <1>1, <1>2, <1>3 DEF Settled
    <3>2. CASE e \notin B
      <4>1. token[e] = v
        BY <2>1, <3>2, <1>1
      <4>2. e \in batch[v] /\ pc[v] # "idle" /\ ~Settled(e)
        BY <4>1 DEF LeaseInv, SingleHolder
      <4>3. v # w
        BY <4>2, <1>2
      <4>4. QED BY <4>2, <4>3, <1>1, <1>2 DEF Settled
    <3>3. QED BY <3>1, <3>2
  <2>2. ASSUME e \in batch'[v] PROVE token'[e] = v \/ takeovers'[e] > 0
    <3>1. CASE v = w
      BY <2>2, <3>1, <1>1
    <3>2. CASE v # w
      <4>1. token[e] = v \/ takeovers[e] > 0
        BY <2>2, <3>2, <1>1 DEF LeaseInv, SingleHolder
      <4>2. takeovers'[e] \in Nat /\ takeovers'[e] >= takeovers[e]
        BY <1>1
      <4>3. CASE e \in B /\ token[e] = v
        <5>1. stale[e]
          BY <4>3, OutboxAssumption DEF Due
        <5>2. QED BY <5>1, <4>3, <1>1
      <4>4. QED BY <4>1, <4>2, <4>3, <1>1
    <3>3. QED BY <3>1, <3>2
  <2>3. QED BY <2>1, <2>2
<1>6. \A v \in Worker : WorkerInv(v)'
  BY <1>1, <1>2, <1>3 DEF LeaseInv, WorkerInv
<1>7. \A e \in Event : RowInv(e)'
  BY <1>1, <1>2, <1>3 DEF LeaseInv, RowInv, Settled
<1>8. QED BY <1>4, <1>5, <1>6, <1>7 DEF LeaseInv

\* The steps of a running batch.
LEMMA LeaseBatchStep ==
  ASSUME IInv, NEW w \in Worker, NEW e \in Event, Publish(w, e) \/ Mark(w, e)
  PROVE  LeaseInv'
<1> USE DEF IInv, TypeOK, LeaseInv, WorkerInv, RowInv, Settled, HonestReceipts,
        SingleHolder
<1>1. CASE PublishReturns(w, e)
  BY <1>1 DEF PublishReturns, Call, rowVars
<1>2. CASE PublishRaises(w, e)
  BY <1>2 DEF PublishRaises, Call, rowVars
<1>3. CASE MarkPublished(w, e)
  BY <1>3, OutboxAssumption DEF MarkPublished, Holds, Advance, histVars
<1>4. CASE MarkFailed(w, e)
  BY <1>4, OutboxAssumption DEF MarkFailed, Holds, Advance, histVars
<1>5. CASE MarkRejected(w, e)
  BY <1>5, OutboxAssumption DEF MarkRejected, Abandon, histVars
<1>6. QED BY <1>1, <1>2, <1>3, <1>4, <1>5 DEF Publish, Mark

LEMMA LeaseStep == IInv /\ [Next]_vars => LeaseInv'
<1> SUFFICES ASSUME IInv, [Next]_vars PROVE LeaseInv'
  OBVIOUS
<1>1. ASSUME NEW w \in Worker, Crash(w) PROVE LeaseInv'
  BY <1>1, OutboxAssumption
  DEF IInv, TypeOK, LeaseInv, HonestReceipts, SingleHolder, WorkerInv, RowInv,
      Settled, Crash, Abandon
<1>2. ASSUME NEW w \in Worker, LeaseRunsOut(w) PROVE LeaseInv'
  BY <1>2
  DEF IInv, LeaseInv, HonestReceipts, SingleHolder, WorkerInv, RowInv, Settled,
      LeaseRunsOut, workVars, histVars
<1>3. CASE UNCHANGED vars
  BY <1>3
  DEF IInv, LeaseInv, HonestReceipts, SingleHolder, WorkerInv, RowInv, Settled,
      vars, rowVars, workVars, histVars
<1>4. QED
  BY <1>1, <1>2, <1>3, LeaseEventStep, LeaseClaimStep, LeaseBatchStep DEF Next

LEMMA LeaseInvariant == Spec => []IInv
<1>1. Init => IInv
  BY LeaseInit, OutboxAssumption DEF Init, TypeOK, PCs, IInv
<1>2. IInv /\ [Next]_vars => IInv'
  BY LeaseStep, TypeStep DEF IInv
<1>3. QED BY <1>1, <1>2, PTL DEF Spec

\* No false receipts, whatever crashes and lost leases do: a row is
\* published only after a publish() of it returned, and dead-lettered only
\* after max_attempts recorded failures.
THEOREM OutboxHonestReceipts == Spec => []HonestReceipts
<1>1. IInv => HonestReceipts
  BY DEF IInv, LeaseInv
<1>2. QED BY <1>1, LeaseInvariant, PTL

\* No two batches hold a row: claims under skip_locked and the tokens keep any
\* number of workers apart.
THEOREM OutboxSingleHolder == Spec => []SingleHolder
<1>1. IInv => SingleHolder
  BY DEF IInv, LeaseInv
<1>2. QED BY <1>1, LeaseInvariant, PTL

-----------------------------------------------------------------------------
(* Outcomes are fenced by the token.                                       *)

Fenced(e) ==
  /\ Settled(e) => /\ published'[e] = published[e] /\ dead'[e] = dead[e]
                   /\ token'[e] = NoToken /\ attempts'[e] = attempts[e]
  /\ <<published[e], dead[e], attempts[e]>>' # <<published[e], dead[e], attempts[e]>>
       => \E w \in Worker : token[e] = w /\ batch'[w] = batch[w] \ {e}

LEMMA FencedStep ==
  ASSUME IInv, [Next]_vars, NEW e \in Event
  PROVE  Fenced(e)
<1> USE DEF IInv, TypeOK, LeaseInv, RowInv, Settled, Fenced
<1>1. ASSUME NEW f \in Event,
             \/ AppendEvent(f) \/ CommitEvent(f) \/ RollbackEvent(f)
             \/ OrphanExpires(f) \/ BackoffElapses(f)
      PROVE  Fenced(e)
  BY <1>1 DEF AppendEvent, CommitEvent, RollbackEvent, OrphanExpires, BackoffElapses
<1>2. ASSUME NEW w \in Worker, ClaimDueEvents(w) PROVE Fenced(e)
  BY <1>2 DEF ClaimDueEvents, Due
<1>3. ASSUME NEW w \in Worker, Crash(w) \/ LeaseRunsOut(w) PROVE Fenced(e)
  BY <1>3, OutboxAssumption DEF Crash, Abandon, LeaseRunsOut
<1>4. ASSUME NEW w \in Worker, NEW f \in Event, Publish(w, f) PROVE Fenced(e)
  BY <1>4 DEF Publish, PublishReturns, PublishRaises, rowVars
<1>5. ASSUME NEW w \in Worker, NEW f \in Event, MarkPublished(w, f) PROVE Fenced(e)
  BY <1>5 DEF MarkPublished, Holds, Advance
<1>6. ASSUME NEW w \in Worker, NEW f \in Event, MarkFailed(w, f) PROVE Fenced(e)
  BY <1>6 DEF MarkFailed, Holds, Advance
<1>7. ASSUME NEW w \in Worker, NEW f \in Event, MarkRejected(w, f) PROVE Fenced(e)
  BY <1>7, OutboxAssumption DEF MarkRejected, Abandon
<1>8. CASE UNCHANGED vars
  BY <1>8 DEF vars, rowVars
<1>9. QED
  BY <1>1, <1>2, <1>3, <1>4, <1>5, <1>6, <1>7, <1>8 DEF Next, Mark

\* A settled row stays as it is, and only the holder of its token settles or
\* counts against a row.
THEOREM OutboxFencedOutcomes == Spec => FencedOutcomes
<1>1. IInv /\ [Next]_vars => \A e \in Event : Fenced(e)
  BY FencedStep
<1>2. QED BY <1>1, LeaseInvariant, PTL DEF Spec, FencedOutcomes, Fenced

-----------------------------------------------------------------------------
(* Provider calls are paid for.  Each claim of a row is a promise of one     *)
(* call; BudgetInv counts the calls made, the promises still open and the    *)
(* one that an unlocked, unsettled row gives its next holder.                *)

Pending(e) == {w \in Worker : e \in batch[w] /\ current[w] # e}

Slot(e) == IF token[e] = NoToken /\ ~Settled(e) THEN 1 ELSE 0

Paid(e) == calls[e] + Cardinality(Pending(e)) + Slot(e) <= 1 + attempts[e] + takeovers[e]

BudgetInv == \A e \in Event : Paid(e)

LEMMA PendingFinite ==
  ASSUME NEW e \in Event
  PROVE  IsFiniteSet(Pending(e)) /\ Cardinality(Pending(e)) \in Nat
  BY FS_Subset, FS_CardinalityType, OutboxAssumption DEF Pending

\* Fewer open promises never cost more.
LEMMA PendingShrinks ==
  ASSUME NEW e \in Event, Pending(e)' \subseteq Pending(e)
  PROVE  /\ Cardinality(Pending(e)') <= Cardinality(Pending(e))
         /\ Cardinality(Pending(e)') \in Nat
<1>1. IsFiniteSet(Pending(e))
  BY PendingFinite
<1>2. IsFiniteSet(Pending(e)') /\ Cardinality(Pending(e)') <= Cardinality(Pending(e))
  BY <1>1, FS_Subset
<1>3. QED BY <1>2, FS_CardinalityType

LEMMA BudgetInit == Init => BudgetInv
<1> SUFFICES ASSUME Init, NEW e \in Event PROVE Paid(e)
  BY DEF BudgetInv
<1>1. Pending(e) = {}
  BY DEF Init, Pending
<1>2. Cardinality(Pending(e)) = 0
  BY <1>1, FS_EmptySet
<1>3. calls[e] = 0 /\ attempts[e] = 0 /\ takeovers[e] = 0 /\ Slot(e) \in {0, 1}
  BY DEF Init, Slot
<1>4. QED BY <1>2, <1>3 DEF Paid

\* A claim turns the slot of an unlocked row, or the takeover of a stale one,
\* into an open promise of the claiming worker.
LEMMA BudgetClaimStep ==
  ASSUME IInv, BudgetInv, NEW w \in Worker, ClaimDueEvents(w), NEW e \in Event
  PROVE  Paid(e)'
<1> USE DEF IInv, TypeOK
<1>1. PICK B \in SUBSET Due :
        /\ token' = [f \in Event |-> IF f \in B THEN w ELSE token[f]]
        /\ takeovers' = [f \in Event |-> IF f \in B /\ stale[f]
                                         THEN takeovers[f] + 1 ELSE takeovers[f]]
        /\ batch' = [batch EXCEPT ![w] = B]
  BY DEF ClaimDueEvents
<1>2. /\ UNCHANGED <<published, dead, attempts, current, calls>>
      /\ batch[w] = {} /\ current[w] = NoEvent
  BY DEF ClaimDueEvents, LeaseInv, WorkerInv
<1>3. IsFiniteSet(Pending(e)) /\ Cardinality(Pending(e)) \in Nat
  BY PendingFinite
<1>4. Paid(e)
  BY DEF BudgetInv
<1>5. CASE e \in B
  <2>1. Pending(e)' = Pending(e) \cup {w} /\ w \notin Pending(e)
    BY <1>1, <1>2, <1>5, OutboxAssumption DEF Pending
  <2>2. Cardinality(Pending(e)') = Cardinality(Pending(e)) + 1
    <3>1. Cardinality(Pending(e) \cup {w}) = Cardinality(Pending(e)) + 1
      BY <2>1, <1>3, FS_AddElement
    <3>2. QED BY <3>1, <2>1
  <2>3. Slot(e)' = 0
    BY <1>1, <1>5, OutboxAssumption DEF Slot
  <2>4. CASE stale[e]
    <3>1. takeovers'[e] = takeovers[e] + 1 /\ Slot(e) \in {0, 1}
      BY <1>1, <1>5, <2>4 DEF Slot
    <3>2. QED BY <3>1, <2>2, <2>3, <1>2, <1>3, <1>4 DEF Paid
  <2>5. CASE ~stale[e]
    <3>1. token[e] = NoToken /\ ~Settled(e)
      BY <1>5, <2>5 DEF Due, Settled
    <3>2. takeovers'[e] = takeovers[e] /\ Slot(e) = 1
      BY <1>1, <2>5, <3>1 DEF Slot
    <3>3. QED BY <3>2, <2>2, <2>3, <1>2, <1>3, <1>4 DEF Paid
  <2>6. QED BY <2>4, <2>5
<1>6. CASE e \notin B
  <2>1. Pending(e)' = Pending(e)
    BY <1>1, <1>2, <1>6 DEF Pending
  <2>2. Slot(e)' = Slot(e) /\ takeovers'[e] = takeovers[e]
    BY <1>1, <1>2, <1>6 DEF Slot, Settled
  <2>3. QED BY <2>1, <2>2, <1>2, <1>4 DEF Paid
<1>7. QED BY <1>5, <1>6

\* A call keeps an open promise.
LEMMA BudgetCallStep ==
  ASSUME IInv, BudgetInv, NEW w \in Worker, NEW f \in Event, Publish(w, f),
         NEW e \in Event
  PROVE  Paid(e)'
<1> USE DEF IInv, TypeOK
<1>1. /\ pc[w] = "publishing" /\ f \in batch[w]
      /\ calls' = [calls EXCEPT ![f] = @ + 1]
      /\ current' = [current EXCEPT ![w] = f]
      /\ UNCHANGED <<published, dead, attempts, token, batch, takeovers>>
  BY DEF Publish, PublishReturns, PublishRaises, Call, rowVars
<1>2. current[w] = NoEvent
  BY <1>1 DEF LeaseInv, WorkerInv
<1>3. IsFiniteSet(Pending(e)) /\ Cardinality(Pending(e)) \in Nat
  BY PendingFinite
<1>4. Paid(e) /\ Slot(e)' = Slot(e) /\ Slot(e) \in {0, 1}
  BY <1>1 DEF BudgetInv, Slot, Settled
<1>5. CASE e = f
  <2>1. Pending(e)' = Pending(e) \ {w} /\ w \in Pending(e)
    BY <1>1, <1>2, <1>5, OutboxAssumption DEF Pending
  <2>2. Cardinality(Pending(e)') = Cardinality(Pending(e)) - 1
    BY <2>1, <1>3, FS_RemoveElement
  <2>3. calls'[e] = calls[e] + 1
    BY <1>1, <1>5
  <2>4. QED BY <2>2, <2>3, <1>1, <1>3, <1>4 DEF Paid
<1>6. CASE e # f
  <2>1. Pending(e)' = Pending(e) /\ calls'[e] = calls[e]
    BY <1>1, <1>2, <1>6, OutboxAssumption DEF Pending
  <2>2. QED BY <2>1, <1>1, <1>4 DEF Paid
<1>7. QED BY <1>5, <1>6

\* A recorded failure pays for the slot it opens; a batch that ends early only
\* gives promises up.
LEMMA BudgetMarkStep ==
  ASSUME IInv, BudgetInv, NEW w \in Worker,
         \/ Crash(w)
         \/ \E f \in Event : Mark(w, f),
         NEW e \in Event
  PROVE  Paid(e)'
<1> USE DEF IInv, TypeOK
<1>1. Paid(e) /\ Cardinality(Pending(e)) \in Nat /\ Slot(e) \in {0, 1}
  BY PendingFinite DEF BudgetInv, Slot
<1>2. CASE Crash(w) \/ \E f \in Event : MarkRejected(w, f)
  <2>1. /\ Abandon(w)
        /\ UNCHANGED <<published, dead, attempts, calls, takeovers>>
    BY <1>2 DEF Crash, MarkRejected, histVars
  <2>2. Pending(e)' \subseteq Pending(e)
    BY <2>1 DEF Abandon, Pending
  <2>3. Slot(e)' = Slot(e)
    BY <2>1, OutboxAssumption DEF Abandon, Slot, Settled
  <2>4. QED BY <2>1, <2>2, <2>3, <1>1, PendingShrinks DEF Paid
<1>3. ASSUME NEW f \in Event, MarkPublished(w, f) \/ MarkFailed(w, f)
      PROVE  Paid(e)'
  <2>1. /\ pc[w] \in {"succeeded", "raised"} /\ current[w] = f /\ Holds(w, f)
        /\ Advance(w, f)
        /\ token' = [token EXCEPT ![f] = NoToken]
        /\ UNCHANGED <<calls, takeovers>>
    BY <1>3 DEF MarkPublished, MarkFailed, histVars
  <2>2. Pending(e)' \subseteq Pending(e)
    BY <2>1 DEF Advance, Pending
  <2>3. Cardinality(Pending(e)') <= Cardinality(Pending(e))
        /\ Cardinality(Pending(e)') \in Nat
    BY <2>2, PendingShrinks
  <2>4. CASE e # f
    <3>1. Slot(e)' = Slot(e) /\ attempts'[e] = attempts[e]
      BY <1>3, <2>1, <2>4 DEF MarkPublished, MarkFailed, Slot, Settled
    <3>2. QED BY <3>1, <2>1, <2>3, <1>1 DEF Paid
  <2>5. CASE e = f /\ MarkPublished(w, f)
    <3>1. Slot(e)' = 0 /\ attempts'[e] = attempts[e]
      BY <2>5 DEF MarkPublished, Slot, Settled
    <3>2. QED BY <3>1, <2>1, <2>3, <1>1 DEF Paid
  <2>6. CASE e = f /\ MarkFailed(w, f)
    <3>1. Slot(e)' \in {0, 1} /\ attempts'[e] = attempts[e] + 1
      BY <2>6 DEF MarkFailed, Slot
    <3>2. Slot(e) = 0
      BY <2>1, <2>6, OutboxAssumption DEF Holds, Slot
    <3>3. QED BY <3>1, <3>2, <2>1, <2>3, <1>1 DEF Paid
  <2>7. QED BY <1>3, <2>4, <2>5, <2>6
<1>4. QED BY <1>2, <1>3 DEF Mark

\* The other steps touch nothing that is counted.
LEMMA BudgetOtherStep ==
  ASSUME BudgetInv, NEW e \in Event,
         UNCHANGED <<published, dead, attempts, token, batch, current, calls, takeovers>>
  PROVE  Paid(e)'
<1>1. Pending(e)' = Pending(e) /\ Slot(e)' = Slot(e)
  BY DEF Pending, Slot, Settled
<1>2. QED BY <1>1 DEF BudgetInv, Paid

LEMMA BudgetStep == IInv /\ BudgetInv /\ [Next]_vars => BudgetInv'
<1> SUFFICES ASSUME IInv, BudgetInv, [Next]_vars, NEW e \in Event PROVE Paid(e)'
  BY DEF BudgetInv
<1>1. ASSUME NEW f \in Event,
             \/ AppendEvent(f) \/ CommitEvent(f) \/ RollbackEvent(f)
             \/ OrphanExpires(f) \/ BackoffElapses(f)
      PROVE  Paid(e)'
  BY <1>1, BudgetOtherStep
  DEF AppendEvent, CommitEvent, RollbackEvent, OrphanExpires, BackoffElapses,
      workVars, histVars
<1>2. ASSUME NEW w \in Worker, LeaseRunsOut(w) PROVE Paid(e)'
  BY <1>2, BudgetOtherStep DEF LeaseRunsOut, workVars, histVars
<1>3. CASE UNCHANGED vars
  BY <1>3, BudgetOtherStep DEF vars, rowVars, workVars, histVars
<1>4. QED
  BY <1>1, <1>2, <1>3, BudgetClaimStep, BudgetCallStep, BudgetMarkStep DEF Next

\* Retries are accounted for, for any number of workers, crashes and lost
\* leases: beyond the first, every provider call for an event is explained by
\* a recorded failure or by the takeover of a stale lock.
THEOREM OutboxCallBudget == Spec => []CallBudget
<1>1. Init => BudgetInv
  BY BudgetInit
<1>2. IInv /\ IInv' /\ BudgetInv /\ [Next]_vars => BudgetInv'
  BY BudgetStep
<1>3. IInv /\ BudgetInv => CallBudget
  <2> SUFFICES ASSUME IInv, BudgetInv, NEW e \in Event
               PROVE  calls[e] <= 1 + attempts[e] + takeovers[e]
    BY DEF CallBudget
  <2>1. Cardinality(Pending(e)) \in Nat /\ Slot(e) \in {0, 1}
    BY PendingFinite DEF Slot
  <2>2. QED BY <2>1 DEF IInv, TypeOK, BudgetInv, Paid
<1>4. QED BY <1>1, <1>2, <1>3, LeaseInvariant, PTL DEF Spec

-----------------------------------------------------------------------------
(* Projects.                                                               *)

WasWon == "won" \in opportunity.ever /\ (WonIsFinal => opportunity.outcome = "won")

\* Who found no project and a won opportunity may insert one; whoever is second
\* finds the first.  What was won was so once, whatever it became.
HandedInv ==
  /\ DOMAIN project = Request /\ DOMAIN handing = Request
  /\ \A r \in Request : handing[r].doing = "answered" => Has(project, handing[r].project) /\ handing[r].project \in Request
  /\ \A r \in Request : Mode[r] = "award" /\ (handing[r].doing = "creating" \/ Has(project, r)) => WasWon
  /\ opportunity.outcome \in opportunity.ever
  /\ \A r, q \in Request : Has(project, r) /\ Has(project, q) => r = q
  /\ \A r \in Request : handing[r] = [doing |-> handing[r].doing, project |-> handing[r].project]

LEMMA HandedInit == ProjectInit => HandedInv
BY DEF ProjectInit, HandedInv, Has, Absent

\* A project that is there stays, whatever it becomes.
LEMMA HandedKept ==
  ASSUME HandedInv, UNCHANGED <<handing, opportunity>>, DOMAIN project' = Request,
         \A r \in Request : Has(project', r) <=> Has(project, r)
  PROVE  HandedInv'
BY DEF HandedInv, WasWon

LEMMA HandedStep ==
  ASSUME HandedInv, [ProjectNext]_projectVars
  PROVE  HandedInv'
<1>1. CASE TransitionOpportunity
  <2>1. WasWon => WasWon'
    BY <1>1 DEF TransitionOpportunity, WasWon, WonIsFinal
  <2>2. QED BY <1>1, <2>1 DEF TransitionOpportunity, HandedInv, Has
<1>2. ASSUME NEW r \in Request, ReadForHandoff(r) PROVE HandedInv'
  <2>1. UNCHANGED <<opportunity, project>>
    BY <1>2 DEF ReadForHandoff
  <2>2. CASE Existing # {}
    <3>1. PICK p \in Existing : handing' = [handing EXCEPT ![r] = [doing |-> "answered", project |-> p]]
      BY <1>2, <2>2 DEF ReadForHandoff, ProjectAnswer
    <3>2. p \in Request /\ Has(project, p)
      BY DEF Existing
    <3>3. QED BY <2>1, <3>1, <3>2 DEF HandedInv, WasWon, Has
  <2>3. CASE Existing = {}
    <3>1. handing' = [handing EXCEPT ![r].doing = "creating"]
      BY <1>2, <2>3 DEF ReadForHandoff
    <3>2. Mode[r] = "award" => WasWon
      BY <1>2 DEF ReadForHandoff, WasWon, HandedInv
    <3>3. handing[r] = [doing |-> handing[r].doing, project |-> handing[r].project] /\ DOMAIN handing = Request
      BY DEF HandedInv
    <3>4. handing'[r] = [doing |-> "creating", project |-> handing[r].project]
          /\ \A q \in Request : q # r => handing'[q] = handing[q]
      BY <3>1, <3>3
    <3>5. QED BY <2>1, <3>1, <3>2, <3>4 DEF HandedInv, WasWon, Has
  <2>4. QED BY <2>2, <2>3
<1>3. ASSUME NEW r \in Request, CreateProject(r) PROVE HandedInv'
  <2>1. handing[r].doing = "creating" /\ UNCHANGED opportunity
        /\ handing[r] = [doing |-> handing[r].doing, project |-> handing[r].project] /\ DOMAIN handing = Request
    BY <1>3 DEF CreateProject, HandedInv
  <2>2. CASE Existing # {}
    <3>1. handing' = [handing EXCEPT ![r].doing = "refused"] /\ UNCHANGED project
      BY <1>3, <2>2 DEF CreateProject
    <3>2. handing'[r] = [doing |-> "refused", project |-> handing[r].project]
          /\ \A q \in Request : q # r => handing'[q] = handing[q]
      BY <2>1, <3>1
    <3>3. QED BY <2>1, <3>1, <3>2 DEF HandedInv, WasWon, Has
  <2>3. CASE Existing = {}
    <3>1. /\ handing' = [handing EXCEPT ![r] = [doing |-> "answered", project |-> r]]
          /\ project' = [project EXCEPT ![r] = [status |-> "planning", version |-> 1, baselines |-> 0]]
      BY <1>3, <2>3 DEF CreateProject, ProjectAnswer
    <3>2. \A q \in Request : ~Has(project, q)
      BY <2>3 DEF Existing
    <3>3. \A q \in Request : Has(project', q) <=> q = r
      BY <3>1, <3>2 DEF HandedInv, WasWon, Has
    <3>4. \A q \in Request : q # r => handing'[q] = handing[q] /\ handing[q].doing # "answered"
      BY <3>1, <3>2 DEF HandedInv
    <3>5. handing'[r] = [doing |-> "answered", project |-> r] /\ DOMAIN handing' = Request /\ DOMAIN project' = Request
      BY <2>1, <3>1 DEF HandedInv
    <3>6. Mode[r] = "award" => WasWon
      BY <2>1 DEF HandedInv
    <3>7. QED BY <2>1, <3>3, <3>4, <3>5, <3>6 DEF HandedInv, WasWon
  <2>4. QED BY <2>2, <2>3
<1>4. ASSUME NEW r \in Request, Retry(r) PROVE HandedInv'
  <2>1. handing[r].doing = "refused" /\ handing' = [handing EXCEPT ![r].doing = "nothing"] /\ UNCHANGED <<opportunity, project>>
    BY <1>4 DEF Retry
  <2>2. handing[r] = [doing |-> handing[r].doing, project |-> handing[r].project] /\ DOMAIN handing = Request
    BY DEF HandedInv
  <2>3. handing'[r] = [doing |-> "nothing", project |-> handing[r].project]
        /\ \A q \in Request : q # r => handing'[q] = handing[q]
    BY <2>1, <2>2
  <2>4. QED BY <2>1, <2>3 DEF HandedInv, WasWon, Has
<1>5. ASSUME NEW r \in Request, TransitionProject(r) PROVE HandedInv'
  <2>1. PICK stage \in Offers(ProjectStages, project, r) : project' = [project EXCEPT ![r].status = stage, ![r].version = @ + 1]
    BY <1>5 DEF TransitionProject
  <2>2. stage # "ABSENT" /\ Has(project, r) /\ UNCHANGED <<handing, opportunity>>
    BY <1>5, <2>1 DEF TransitionProject, Offers, ProjectStages
  <2>3. DOMAIN project' = Request /\ \A q \in Request : Has(project', q) <=> Has(project, q)
    BY <2>1, <2>2 DEF HandedInv, WasWon, Has
  <2>4. QED BY <2>2, <2>3, HandedKept
<1>6. ASSUME NEW r \in Request, BaselineProject(r) PROVE HandedInv'
  <2>1. UNCHANGED <<handing, opportunity>> /\ DOMAIN project' = Request /\ \A q \in Request : Has(project', q) <=> Has(project, q)
    BY <1>6 DEF BaselineProject, HandedInv, Has
  <2>2. QED BY <2>1, HandedKept
<1>7. ASSUME UNCHANGED <<handing, opportunity, project>> PROVE HandedInv'
  BY <1>7, HandedKept DEF HandedInv, WasWon, Has
<1>8. ASSUME NEW r \in Request, ReadNodes(r) PROVE HandedInv'
  BY <1>7, <1>8 DEF ReadNodes
<1>9. ASSUME NEW n \in Node, CreateWbsNode(n) PROVE HandedInv'
  BY <1>7, <1>9 DEF CreateWbsNode
<1>10. ASSUME NEW t \in Task, CreateTask(t) \/ TransitionTask(t) PROVE HandedInv'
  BY <1>7, <1>10 DEF CreateTask, TransitionTask
<1>11. CASE UNCHANGED projectVars
  BY <1>7, <1>11 DEF projectVars
<1>12. QED BY <1>1, <1>2, <1>3, <1>4, <1>5, <1>6, <1>8, <1>9, <1>10, <1>11 DEF ProjectNext

\* The opportunity becomes one project at most, however many requests find none at
\* the same time; each that was answered was answered with it.  The opportunity of an
\* awarded project was won: it is read before the insertion and not locked, so where
\* the pipeline reopens what was won it need not be won any more when the project
\* comes about, and where won is final it is won still.
THEOREM ProjectOnePerOpportunity == ProjectSpec => []OneProjectPerOpportunity
<1>1. ProjectSpec => []HandedInv
  BY HandedInit, HandedStep, PTL DEF ProjectSpec
<1>2. ASSUME HandedInv PROVE OneProjectPerOpportunity
  <2>1. Cardinality(Existing) <= 1
    <3>1. CASE Existing = {}
      <4>1. Cardinality({}) = 0
        BY FS_EmptySet
      <4>2. QED BY <3>1, <4>1
    <3>2. CASE Existing # {}
      <4>1. PICK r \in Existing : TRUE
        BY <3>2
      <4>2. Existing = {r}
        BY <1>2, <4>1 DEF HandedInv, Existing
      <4>3. Cardinality({r}) = 1
        BY FS_Singleton
      <4>4. QED BY <4>2, <4>3
    <3>3. QED BY <3>1, <3>2
  <2>2. QED BY <1>2, <2>1 DEF HandedInv, OneProjectPerOpportunity, Existing, WasWon
<1>3. QED BY <1>1, <1>2, PTL

Moves(r) == {h \in history : h.of = r}
Taken(r) == {b \in projectBaseline : b.of = r}

\* What accounts for the versions of r.
Accounted(r) ==
  /\ IsFiniteSet(Moves(r)) /\ IsFiniteSet(Taken(r))
  /\ ~Has(project, r) => Moves(r) = {} /\ Taken(r) = {}
  /\ Has(project, r) =>
       /\ project[r].version \in Nat /\ project[r].baselines \in Nat
       /\ {h.version : h \in Moves(r)} \cup {b.version + 1 : b \in Taken(r)} = 1..project[r].version
       /\ Cardinality(Moves(r)) + Cardinality(Taken(r)) = project[r].version
       /\ {b.number : b \in Taken(r)} = 1..project[r].baselines

\* A baseline has no task that is gone, and none finished that is not.
Snapshot(b) ==
  /\ b.of \in Request /\ b.version \in Nat
  /\ \A t \in Task : Has(b.tasks, t) => Has(task, t)
  /\ \A t \in Task : In(b.tasks, t, {"complete", "cancelled"}) => task[t] = b.tasks[t]

Follows(b, c) ==
  /\ b.version < c.version
  /\ \A t \in Task : Has(b.tasks, t) => Has(c.tasks, t)
  /\ \A t \in Task : In(b.tasks, t, {"complete", "cancelled"}) => c.tasks[t] = b.tasks[t]

ToldInv ==
  /\ DOMAIN project = Request /\ DOMAIN task = Task
  /\ \A r \in Request : project[r] = Absent \/ project[r] \in [status : DOMAIN ProjectStages, version : Nat, baselines : Nat]
  /\ DOMAIN baselining = Request
  /\ \A r \in Request : ~Free(r) => Has(project, r)
  /\ \A r \in Request : Accounted(r)
  /\ \A b \in projectBaseline : Snapshot(b)
  /\ \A b, c \in projectBaseline : b.of = c.of /\ b.number < c.number => Follows(b, c)

LEMMA ToldInit == ProjectInit => ToldInv
<1> SUFFICES ASSUME ProjectInit PROVE ToldInv
  OBVIOUS
<1>1. IsFiniteSet({}) /\ history = {} /\ projectBaseline = {}
  BY FS_EmptySet DEF ProjectInit
<1>2. \A r \in Request : project[r] = Absent /\ ~Has(project, r) /\ Free(r)
  BY DEF ProjectInit, Has, Absent, Free
<1>3. \A r \in Request : Moves(r) = {} /\ Taken(r) = {}
  BY <1>1 DEF Moves, Taken
<1>4. \A r \in Request : Accounted(r)
  BY <1>1, <1>2, <1>3 DEF Accounted
<1>5. QED BY <1>1, <1>2, <1>4 DEF ProjectInit, ToldInv

\* Where neither projects nor what tells of them change.
LEMMA ToldKept ==
  ASSUME ToldInv, UNCHANGED <<project, history, projectBaseline>>,
         DOMAIN baselining' = Request, \A r \in Request : baselining'[r] = NotReading \/ Has(project, r),
         DOMAIN task' = Task, \A t \in Task : Has(task, t) => Has(task', t),
         \A t \in Task : In(task, t, {"complete", "cancelled"}) => task'[t] = task[t]
  PROVE  ToldInv'
<1>1. \A r \in Request : Accounted(r)'
  BY DEF ToldInv, Accounted, Moves, Taken, Has
<1>2. \A b \in projectBaseline : Snapshot(b)'
  BY DEF ToldInv, Snapshot, In
<1>3. \A r \in Request : ~Free(r)' => Has(project, r)'
  BY DEF Free, Has
<1>4. QED BY <1>1, <1>2, <1>3 DEF ToldInv, Follows

\* The project is new, and its first version is told by one step.
LEMMA ToldCreated ==
  ASSUME ToldInv, NEW r \in Request, CreateProject(r)
  PROVE  ToldInv'
<1>1. CASE Existing # {}
  <2>1. UNCHANGED <<project, history, projectBaseline, baselining, task>>
    BY <1>1 DEF CreateProject
  <2>2. DOMAIN baselining = Request /\ DOMAIN task = Task /\ \A q \in Request : baselining[q] = NotReading \/ Has(project, q)
    BY DEF ToldInv, Free
  <2>3. QED BY <2>1, <2>2, ToldKept
<1>2. CASE Existing = {}
  <2> DEFINE step == [of |-> r, from |-> "", to |-> "planning", version |-> 1]
             made == [status |-> "planning", version |-> 1, baselines |-> 0]
  <2>1. /\ history' = history \cup {step} /\ project' = [project EXCEPT ![r] = made]
        /\ UNCHANGED <<task, baselining, projectBaseline>>
    BY <1>2 DEF CreateProject
  <2>2. \A q \in Request : ~Has(project, q) /\ Moves(q) = {} /\ Taken(q) = {}
    BY <1>2 DEF Existing, ToldInv, Accounted
  <2>3. project'[r] = made /\ (\A q \in Request : q # r => project'[q] = project[q]) /\ DOMAIN project' = Request
    BY <2>1 DEF ToldInv
  <2>4. Moves(r)' = {step} /\ (\A q \in Request : q # r => Moves(q)' = {}) /\ (\A q \in Request : Taken(q)' = {})
    <3>1. step.of = r
      OBVIOUS
    <3> HIDE DEF step
    <3>2. \A q \in Request : \A h \in history : h.of # q
      BY <2>2 DEF Moves
    <3>3. Moves(r)' = {step} /\ \A q \in Request : q # r => Moves(q)' = {}
      BY <2>1, <3>1, <3>2 DEF Moves
    <3>4. QED BY <2>1, <2>2, <3>3 DEF Taken
  <2>5. Accounted(r)'
    <3>0. step.version = 1 /\ {1} = 1..1
      OBVIOUS
    <3>1. Cardinality({step}) = 1 /\ IsFiniteSet({step}) /\ Cardinality({}) = 0 /\ IsFiniteSet({})
      BY FS_Singleton, FS_EmptySet
    <3>2. {h.version : h \in {step}} = 1..1
      <4> HIDE DEF step
      <4>1. QED BY <3>0
    <3>3. Has(project', r) /\ project'[r].version = 1 /\ project'[r].baselines = 0
      BY <2>3 DEF Has
    <3>4. 1..0 = {} /\ {b.number : b \in {}} = {} /\ {b.version + 1 : b \in {}} = {}
      OBVIOUS
    <3> HIDE DEF step, made
    <3>5. QED BY <2>4, <3>1, <3>2, <3>3, <3>4 DEF Accounted
  <2>6. ASSUME NEW q \in Request, q # r PROVE Accounted(q)'
    <3>1. ~Has(project', q)
      BY <2>2, <2>3, <2>6 DEF Has
    <3>2. QED BY <2>4, <2>6, <3>1, FS_EmptySet DEF Accounted
  <2>7. \A q \in Request : project'[q] = Absent \/ project'[q] \in [status : DOMAIN ProjectStages, version : Nat, baselines : Nat]
    <3>1. made \in [status : DOMAIN ProjectStages, version : Nat, baselines : Nat]
      BY DEF ProjectStages
    <3>2. QED BY <2>3, <3>1 DEF ToldInv
  <2>8. \A q \in Request : ~Free(q)' => Has(project, q)'
    BY <2>1, <2>2 DEF ToldInv, Free
  <2>9. \A b \in projectBaseline : Snapshot(b)'
    BY <2>1 DEF ToldInv, Snapshot
  <2>10. QED BY <2>1, <2>3, <2>5, <2>6, <2>7, <2>8, <2>9 DEF ToldInv, Follows
<1>3. QED BY <1>1, <1>2

\* One more step tells of one more version.
LEMMA ToldMoved ==
  ASSUME ToldInv, NEW r \in Request, TransitionProject(r)
  PROVE  ToldInv'
<1>1. PICK stage \in Offers(ProjectStages, project, r) :
        /\ project' = [project EXCEPT ![r].status = stage, ![r].version = @ + 1]
        /\ history' = history \cup {[of |-> r, from |-> project[r].status, to |-> stage, version |-> project[r].version + 1]}
  BY DEF TransitionProject
<1> DEFINE n == project[r].version
           step == [of |-> r, from |-> project[r].status, to |-> stage, version |-> n + 1]
<1>2. Has(project, r) /\ UNCHANGED <<task, baselining, projectBaseline>>
  BY DEF TransitionProject
<1>3. project[r] \in [status : DOMAIN ProjectStages, version : Nat, baselines : Nat] /\ DOMAIN project = Request
  BY <1>2 DEF ToldInv, Has, Absent
<1>4. stage \in DOMAIN ProjectStages /\ stage # "ABSENT"
  BY <1>1, <1>3 DEF Offers, ProjectStages
<1>5. /\ project'[r] \in [status : DOMAIN ProjectStages, version : Nat, baselines : Nat]
      /\ project'[r].status = stage /\ project'[r].version = n + 1 /\ project'[r].baselines = project[r].baselines
      /\ DOMAIN project' = Request /\ \A q \in Request : q # r => project'[q] = project[q]
  <2>1. project'[r] = [project[r] EXCEPT !.status = stage, !.version = @ + 1]
    BY <1>1, <1>3
  <2>2. project'[r] = [status |-> stage, version |-> n + 1, baselines |-> project[r].baselines] /\ n \in Nat
    BY <1>3, <2>1
  <2>3. DOMAIN project' = Request /\ \A q \in Request : q # r => project'[q] = project[q]
    BY <1>1, <1>3
  <2>4. QED BY <1>3, <1>4, <2>2, <2>3
<1>6. Has(project', r) /\ n \in Nat
  BY <1>3, <1>4, <1>5 DEF Has
<1>7. /\ Moves(r)' = Moves(r) \cup {step} /\ \A q \in Request : q # r => Moves(q)' = Moves(q)
      /\ \A q \in Request : Taken(q)' = Taken(q)
  BY <1>1, <1>2 DEF Moves, Taken
<1>8. step.version = n + 1
  OBVIOUS
<1> HIDE DEF step
<1>9. Accounted(r)'
  <2>1. Accounted(r)
    BY DEF ToldInv
  <2>2. step \notin Moves(r)
    <3>1. \A h \in Moves(r) : h.version \in 1..n
      BY <1>2, <2>1 DEF Accounted
    <3>2. QED BY <1>6, <1>8, <3>1
  <2>3. IsFiniteSet(Moves(r)') /\ Cardinality(Moves(r)') = Cardinality(Moves(r)) + 1
    BY <1>7, <2>1, <2>2, FS_AddElement DEF Accounted
  <2>4. Cardinality(Moves(r)) \in Nat /\ Cardinality(Taken(r)) \in Nat
    BY <2>1, FS_CardinalityType DEF Accounted
  <2>5. Cardinality(Moves(r)') + Cardinality(Taken(r)') = n + 1
    BY <1>2, <1>6, <1>7, <2>1, <2>3, <2>4 DEF Accounted
  <2>6. {h.version : h \in Moves(r)'} = {h.version : h \in Moves(r)} \cup {n + 1}
    BY <1>7, <1>8
  <2>7. 1..(n + 1) = (1..n) \cup {n + 1}
    BY <1>6
  <2>8. {h.version : h \in Moves(r)'} \cup {b.version + 1 : b \in Taken(r)'} = 1..(n + 1)
    BY <1>2, <1>7, <2>1, <2>6, <2>7 DEF Accounted
  <2>9. QED BY <1>2, <1>3, <1>5, <1>6, <1>7, <2>1, <2>3, <2>5, <2>8 DEF Accounted
<1>10. ASSUME NEW q \in Request, q # r PROVE Accounted(q)'
  BY <1>5, <1>7, <1>10 DEF ToldInv, Accounted, Has
<1>11. \A q \in Request : ~Free(q)' => Has(project, q)'
  BY <1>2, <1>5, <1>6 DEF ToldInv, Free, Has
<1>12. \A b \in projectBaseline : Snapshot(b)'
  BY <1>2 DEF ToldInv, Snapshot
<1>13. QED BY <1>2, <1>5, <1>9, <1>10, <1>11, <1>12 DEF ToldInv, Follows

\* The next baseline has the tasks of now, the next number and the next version.
LEMMA ToldBaselined ==
  ASSUME ToldInv, NEW r \in Request, BaselineProject(r)
  PROVE  ToldInv'
<1> DEFINE n == project[r].version
           k == project[r].baselines
           base == [of |-> r, number |-> k + 1, version |-> n, nodes |-> baselining[r], tasks |-> task]
<1>1. /\ ~Free(r) /\ baselining' = [baselining EXCEPT ![r] = NotReading]
      /\ projectBaseline' = projectBaseline \cup {base}
      /\ project' = [project EXCEPT ![r].baselines = @ + 1, ![r].version = @ + 1]
      /\ UNCHANGED <<task, history>>
  BY DEF BaselineProject
<1>2. Has(project, r) /\ project[r] \in [status : DOMAIN ProjectStages, version : Nat, baselines : Nat] /\ DOMAIN project = Request
  BY <1>1 DEF ToldInv, Has, Absent
<1>3. /\ project'[r] \in [status : DOMAIN ProjectStages, version : Nat, baselines : Nat]
      /\ Has(project', r) /\ project'[r].version = n + 1 /\ project'[r].baselines = k + 1
      /\ DOMAIN project' = Request /\ \A q \in Request : q # r => project'[q] = project[q]
  <2>1. project'[r] = [project[r] EXCEPT !.baselines = @ + 1, !.version = @ + 1]
    BY <1>1, <1>2
  <2>2. project'[r] = [status |-> project[r].status, version |-> n + 1, baselines |-> k + 1] /\ n \in Nat /\ k \in Nat
    BY <1>2, <2>1
  <2>3. DOMAIN project' = Request /\ \A q \in Request : q # r => project'[q] = project[q]
    BY <1>1, <1>2
  <2>4. QED BY <1>2, <2>2, <2>3 DEF Has
<1>4. n \in Nat /\ k \in Nat
  BY <1>2
<1>5. base.of = r /\ base.number = k + 1 /\ base.version = n /\ base.tasks = task
  OBVIOUS
<1>6. /\ Taken(r)' = Taken(r) \cup {base} /\ \A q \in Request : q # r => Taken(q)' = Taken(q)
      /\ \A q \in Request : Moves(q)' = Moves(q)
  BY <1>1, <1>5 DEF Moves, Taken
<1> HIDE DEF base
<1>7. Accounted(r) /\ Has(project, r)
  BY <1>2 DEF ToldInv
<1>8. \A b \in Taken(r) : b.number \in 1..k /\ b.version + 1 \in 1..n
  BY <1>7 DEF Accounted
<1>9. Accounted(r)'
  <2>1. base \notin Taken(r)
    BY <1>4, <1>5, <1>8
  <2>2. IsFiniteSet(Taken(r)') /\ Cardinality(Taken(r)') = Cardinality(Taken(r)) + 1
    BY <1>6, <1>7, <2>1, FS_AddElement DEF Accounted
  <2>3. Cardinality(Moves(r)) \in Nat /\ Cardinality(Taken(r)) \in Nat
    BY <1>7, FS_CardinalityType DEF Accounted
  <2>4. Cardinality(Moves(r)') + Cardinality(Taken(r)') = n + 1
    BY <1>4, <1>6, <1>7, <2>2, <2>3 DEF Accounted
  <2>5. {b.version + 1 : b \in Taken(r)'} = {b.version + 1 : b \in Taken(r)} \cup {n + 1}
        /\ {b.number : b \in Taken(r)'} = {b.number : b \in Taken(r)} \cup {k + 1}
    BY <1>5, <1>6
  <2>6. 1..(n + 1) = (1..n) \cup {n + 1} /\ 1..(k + 1) = (1..k) \cup {k + 1}
    BY <1>4
  <2>7. {h.version : h \in Moves(r)'} \cup {b.version + 1 : b \in Taken(r)'} = 1..(n + 1)
        /\ {b.number : b \in Taken(r)'} = 1..(k + 1)
    BY <1>6, <1>7, <2>5, <2>6 DEF Accounted
  <2>8. QED BY <1>3, <1>4, <1>6, <1>7, <2>2, <2>4, <2>7 DEF Accounted
<1>10. ASSUME NEW q \in Request, q # r PROVE Accounted(q)'
  BY <1>3, <1>6, <1>10 DEF ToldInv, Accounted, Has
<1>11. \A q \in Request : ~Free(q)' => Has(project, q)'
  BY <1>1, <1>3 DEF ToldInv, Free, Has
<1>12. \A b \in projectBaseline' : Snapshot(b)'
  BY <1>1, <1>4, <1>5 DEF ToldInv, Snapshot
<1>13. ASSUME NEW b \in projectBaseline', NEW c \in projectBaseline', b.of = c.of, b.number < c.number
       PROVE  Follows(b, c)
  <2>1. CASE b \in projectBaseline /\ c \in projectBaseline
    BY <1>13, <2>1 DEF ToldInv
  <2>2. CASE c = base /\ b \in projectBaseline
    <3>1. b \in Taken(r) /\ Snapshot(b)
      BY <1>5, <1>13, <2>2 DEF Taken, ToldInv
    <3>2. b.version < n
      BY <1>4, <1>8, <3>1 DEF Snapshot
    <3>3. QED BY <1>5, <2>2, <3>1, <3>2 DEF Follows, Snapshot
  <2>3. CASE b = base /\ c \in projectBaseline
    <3>1. c \in Taken(r)
      BY <1>5, <1>13, <2>3 DEF Taken
    <3>2. QED BY <1>4, <1>5, <1>8, <1>13, <2>3, <3>1
  <2>4. CASE b = base /\ c = base
    BY <1>4, <1>5, <1>13, <2>4
  <2>5. QED BY <1>1, <1>13, <2>1, <2>2, <2>3, <2>4
<1>14. \A q \in Request : project'[q] = Absent \/ project'[q] \in [status : DOMAIN ProjectStages, version : Nat, baselines : Nat]
  BY <1>3 DEF ToldInv
<1>15. DOMAIN baselining' = Request /\ DOMAIN task' = Task
  BY <1>1 DEF ToldInv
<1>16. QED BY <1>3, <1>9, <1>10, <1>11, <1>12, <1>13, <1>14, <1>15 DEF ToldInv, Follows

LEMMA ToldStep ==
  ASSUME ToldInv, [ProjectNext]_projectVars
  PROVE  ToldInv'
<1>1. ASSUME UNCHANGED <<project, history, projectBaseline, baselining>>,
             DOMAIN task' = Task, \A t \in Task : Has(task, t) => Has(task', t),
             \A t \in Task : In(task, t, {"complete", "cancelled"}) => task'[t] = task[t]
      PROVE  ToldInv'
  <2>1. DOMAIN baselining' = Request /\ \A r \in Request : baselining'[r] = NotReading \/ Has(project, r)
    BY <1>1 DEF ToldInv, Free
  <2>2. QED BY <1>1, <2>1, ToldKept
<1>2. ASSUME UNCHANGED <<project, history, projectBaseline, baselining, task>> PROVE ToldInv'
  BY <1>1, <1>2 DEF ToldInv, Has
<1>3. CASE TransitionOpportunity
  BY <1>2, <1>3 DEF TransitionOpportunity
<1>4. ASSUME NEW r \in Request, ReadForHandoff(r) \/ Retry(r) PROVE ToldInv'
  BY <1>2, <1>4 DEF ReadForHandoff, Retry
<1>5. ASSUME NEW n \in Node, CreateWbsNode(n) PROVE ToldInv'
  BY <1>2, <1>5 DEF CreateWbsNode
<1>6. ASSUME NEW r \in Request, ReadNodes(r) PROVE ToldInv'
  <2>1. UNCHANGED <<project, history, projectBaseline, task>> /\ baselining' = [baselining EXCEPT ![r] = wbs]
        /\ In(project, r, {"approved"})
    BY <1>6 DEF ReadNodes
  <2>2. DOMAIN baselining' = Request /\ \A q \in Request : baselining'[q] = NotReading \/ Has(project, q)
    BY <2>1 DEF ToldInv, Free, In, Has
  <2>3. DOMAIN task' = Task /\ (\A t \in Task : Has(task, t) => Has(task', t))
        /\ \A t \in Task : In(task, t, {"complete", "cancelled"}) => task'[t] = task[t]
    BY <2>1 DEF ToldInv, Has
  <2>4. QED BY <2>1, <2>2, <2>3, ToldKept
<1>7. ASSUME NEW t \in Task, CreateTask(t) PROVE ToldInv'
  <2>1. ~Has(task, t) /\ task' = [task EXCEPT ![t] = [status |-> "not_started", progress |-> 0]]
        /\ UNCHANGED <<project, history, projectBaseline, baselining>>
    BY <1>7 DEF CreateTask
  <2>2. DOMAIN task' = Task /\ (\A x \in Task : Has(task, x) => Has(task', x))
        /\ \A x \in Task : In(task, x, {"complete", "cancelled"}) => task'[x] = task[x]
    BY <2>1 DEF ToldInv, Has, In
  <2>3. QED BY <1>1, <2>1, <2>2
<1>8. ASSUME NEW t \in Task, TransitionTask(t) PROVE ToldInv'
  <2>1. PICK stage \in Offers(TaskStages, task, t) : \E progress \in {task[t].progress, 50} :
          task' = [task EXCEPT ![t] = [status |-> stage, progress |-> IF stage = "complete" THEN 100 ELSE progress]]
    BY <1>8 DEF TransitionTask
  <2>2. stage # "ABSENT" /\ ~In(task, t, {"complete", "cancelled"})
    BY <2>1 DEF Offers, TaskStages, In
  <2>3. DOMAIN task' = Task /\ (\A x \in Task : Has(task, x) => Has(task', x))
        /\ \A x \in Task : In(task, x, {"complete", "cancelled"}) => task'[x] = task[x]
    BY <2>1, <2>2 DEF ToldInv, Has, In
  <2>4. UNCHANGED <<project, history, projectBaseline, baselining>>
    BY <1>8 DEF TransitionTask
  <2>5. QED BY <1>1, <2>3, <2>4
<1>9. CASE UNCHANGED projectVars
  BY <1>2, <1>9 DEF projectVars
<1>10. QED BY <1>3, <1>4, <1>5, <1>6, <1>7, <1>8, <1>9, ToldCreated, ToldMoved, ToldBaselined DEF ProjectNext

\* Each version of a project is one step of its history or one baseline, and a later
\* baseline has what an earlier one had, finished as it was, although baseline_project
\* reads the nodes before the tasks.
THEOREM ProjectVersionsAreTold == ProjectSpec => []VersionsAreTold
<1>1. ProjectSpec => []ToldInv
  BY ToldInit, ToldStep, PTL DEF ProjectSpec
<1>2. ASSUME ToldInv PROVE VersionsAreTold
  <2>1. ASSUME NEW r \in Existing
        PROVE  LET steps == {h \in history : h.of = r} taken == {b \in projectBaseline : b.of = r} IN
               /\ {h.version : h \in steps} \cup {b.version + 1 : b \in taken} = 1..project[r].version
               /\ Cardinality(steps) + Cardinality(taken) = project[r].version
               /\ {b.number : b \in taken} = 1..project[r].baselines
    BY <1>2, <2>1 DEF ToldInv, Accounted, Moves, Taken, Existing
  <2>2. \A b, c \in projectBaseline : b.of = c.of /\ b.number < c.number => Follows(b, c)
    BY <1>2 DEF ToldInv
  <2>3. QED BY <2>1, <2>2 DEF VersionsAreTold, Follows
<1>3. QED BY <1>1, <1>2, PTL

-----------------------------------------------------------------------------
(* Drawings.                                                               *)

Stamped == [status : DesignStage, number : Nat, issued : Nat, superseded : Nat]

\* What transmittal t carries was issued, and not superseded before it was read.
Carried(t) ==
  /\ transmittal[t].read \in Nat /\ transmittal[t].read <= now
  /\ \A v \in Carries[t] : /\ Has(designVersion, v) /\ designVersion[v].issued # Never
                           /\ designVersion[v].superseded = Never \/ designVersion[v].superseded >= transmittal[t].read

IssuedInv ==
  /\ now \in Nat \ {0}
  /\ DOMAIN designVersion = DesignVersion /\ DOMAIN transmittal = Transmittal
  /\ \A v \in DesignVersion : designVersion[v] = Absent \/ designVersion[v] \in Stamped
  /\ \A v, x \in DesignVersion : Has(designVersion, v) /\ Has(designVersion, x) /\ DocumentOf[v] = DocumentOf[x]
                                   /\ InUse(v) /\ InUse(x) => v = x
  /\ \A d \in Document : {designVersion[v].number : v \in Of(d)} = 1..Cardinality(Of(d))
  /\ \A t \in Transmittal : Has(transmittal, t) => Carried(t)

LEMMA IssuedInit == DesignInit => IssuedInv
<1> SUFFICES ASSUME DesignInit PROVE IssuedInv
  OBVIOUS
<1>1. designVersion = [v \in DesignVersion |-> Absent] /\ transmittal = [t \in Transmittal |-> Absent] /\ now = 1
  BY DEF DesignInit
<1>2. (\A v \in DesignVersion : ~Has(designVersion, v)) /\ \A t \in Transmittal : ~Has(transmittal, t)
  BY <1>1 DEF Has, Absent
<1>3. ASSUME NEW d \in Document PROVE {designVersion[v].number : v \in Of(d)} = 1..Cardinality(Of(d))
  <2>1. Of(d) = {} /\ Cardinality({}) = 0 /\ 1..0 = {}
    BY <1>2, FS_EmptySet DEF Of
  <2>2. QED BY <2>1
<1>4. QED BY <1>1, <1>2, <1>3 DEF IssuedInv

\* Where no version changes.
LEMMA IssuedKept ==
  ASSUME IssuedInv, UNCHANGED <<designVersion, now>>, DOMAIN transmittal' = Transmittal,
         \A t \in Transmittal : Has(transmittal', t) => Carried(t)'
  PROVE  IssuedInv'
BY DEF IssuedInv, Of, Has, InUse

LEMMA IssuedCreated ==
  ASSUME DesignAssumption, IssuedInv, NEW w \in DesignVersion, CreateVersion(w)
  PROVE  IssuedInv'
<1> DEFINE doc == DocumentOf[w]
           count == Cardinality(Of(doc))
<1>1. PICK s \in DesignStage : designVersion' = [designVersion EXCEPT ![w] =
        [status |-> s, number |-> count + 1, issued |-> Never, superseded |-> Never]]
  BY DEF CreateVersion
<1>2. ~Has(designVersion, w) /\ UNCHANGED <<transmittal, now>> /\ doc \in Document
  BY DEF CreateVersion, DesignAssumption
<1>3. \A d : IsFiniteSet(Of(d))
  <2>1. \A d : Of(d) \in SUBSET DesignVersion
    BY DEF Of
  <2>2. QED BY <2>1, FS_Subset DEF DesignAssumption
<1>4. count \in Nat
  BY <1>3, FS_CardinalityType
<1>5. s # "ABSENT"
  BY DEF DesignAssumption
<1>6. /\ designVersion'[w] = [status |-> s, number |-> count + 1, issued |-> Never, superseded |-> Never]
      /\ DOMAIN designVersion' = DesignVersion /\ \A x \in DesignVersion : x # w => designVersion'[x] = designVersion[x]
  BY <1>1 DEF IssuedInv
<1>7. Has(designVersion', w) /\ designVersion'[w].number = count + 1 /\ designVersion'[w].issued = Never
      /\ designVersion'[w] \in Stamped
  BY <1>4, <1>5, <1>6 DEF Has, Stamped, Never
<1>8. Of(doc)' = Of(doc) \cup {w} /\ w \notin Of(doc) /\ \A d : d # doc => Of(d)' = Of(d) /\ w \notin Of(d)
  BY <1>2, <1>6, <1>7 DEF Of, Has
<1>9. ASSUME NEW d \in Document PROVE {designVersion'[v].number : v \in Of(d)'} = 1..Cardinality(Of(d)')
  <2>1. \A v \in Of(d) : designVersion'[v] = designVersion[v]
    BY <1>6, <1>8 DEF Of
  <2>2. CASE d # doc
    BY <1>8, <1>9, <2>1, <2>2 DEF IssuedInv
  <2>3. CASE d = doc
    <3>1. Cardinality(Of(doc)') = count + 1
      BY <1>3, <1>8, FS_AddElement
    <3>2. {designVersion'[v].number : v \in Of(d)'} = {designVersion[v].number : v \in Of(d)} \cup {count + 1}
      BY <1>7, <1>8, <2>1, <2>3
    <3>3. 1..(count + 1) = (1..count) \cup {count + 1}
      BY <1>4
    <3>4. {designVersion[v].number : v \in Of(d)} = 1..count
      BY <1>2, <2>3 DEF IssuedInv
    <3>5. QED BY <2>3, <3>1, <3>2, <3>3, <3>4
  <2>4. QED BY <2>2, <2>3
<1>10. ASSUME NEW t \in Transmittal, Has(transmittal', t) PROVE Carried(t)'
  <2>1. Carried(t) /\ \A v \in Carries[t] : v # w
    BY <1>2, <1>10 DEF IssuedInv, Carried
  <2>2. Carries[t] \subseteq DesignVersion
    BY DEF DesignAssumption
  <2>3. \A v \in Carries[t] : designVersion'[v] = designVersion[v]
    BY <1>6, <2>1, <2>2
  <2>4. QED BY <1>2, <2>1, <2>3 DEF Carried, Has
<1>11. ASSUME NEW v \in DesignVersion, NEW x \in DesignVersion, Has(designVersion', v), Has(designVersion', x),
              DocumentOf[v] = DocumentOf[x], InUse(v)', InUse(x)'
       PROVE  v = x
  <2>1. v # w /\ x # w
    BY <1>7, <1>11 DEF InUse
  <2>2. QED BY <1>6, <1>11, <2>1 DEF IssuedInv, InUse, Has
<1>12. \A v \in DesignVersion : designVersion'[v] = Absent \/ designVersion'[v] \in Stamped
  BY <1>6, <1>7 DEF IssuedInv
<1>13. now' \in Nat \ {0} /\ DOMAIN transmittal' = Transmittal
  BY <1>2 DEF IssuedInv
<1>14. QED BY <1>6, <1>9, <1>10, <1>11, <1>12, <1>13 DEF IssuedInv

LEMMA IssuedMoved ==
  ASSUME DesignAssumption, IssuedInv, NEW w \in DesignVersion, TransitionVersion(w)
  PROVE  IssuedInv'
<1>1. PICK s \in DesignNextOf[designVersion[w].status] :
       /\ designVersion' = [x \in DesignVersion |->
         IF x = w THEN [designVersion[w] EXCEPT !.status = s,
                          !.issued = IF OutcomeOf[s] = "ISSUED" THEN now ELSE @,
                          !.superseded = IF OutcomeOf[s] = "SUPERSEDED" THEN now ELSE @]
         ELSE IF OutcomeOf[s] = "ISSUED" /\ x \in Replaced(w) THEN [designVersion[x] EXCEPT !.superseded = now]
         ELSE designVersion[x]]
       /\ now' = IF OutcomeOf[s] \in {"ISSUED", "SUPERSEDED"} THEN now + 1 ELSE now
  BY DEF TransitionVersion
<1>2. Has(designVersion, w) /\ UNCHANGED transmittal
  BY DEF TransitionVersion
<1>3. now \in Nat \ {0} /\ now' \in Nat \ {0} /\ now <= now'
  BY <1>1 DEF IssuedInv
<1>4. designVersion[w] \in Stamped
  BY <1>2 DEF IssuedInv, Has, Absent
<1>5. s \in DesignStage /\ s # "ABSENT"
  BY <1>4 DEF DesignAssumption, Stamped
<1>6. /\ designVersion'[w] \in Stamped /\ Has(designVersion', w) /\ designVersion'[w].number = designVersion[w].number
      /\ designVersion'[w].issued = IF OutcomeOf[s] = "ISSUED" THEN now ELSE designVersion[w].issued
      /\ designVersion'[w].superseded = IF OutcomeOf[s] = "SUPERSEDED" THEN now ELSE designVersion[w].superseded
  <2>1. designVersion'[w] = [designVersion[w] EXCEPT !.status = s,
                          !.issued = IF OutcomeOf[s] = "ISSUED" THEN now ELSE @,
                          !.superseded = IF OutcomeOf[s] = "SUPERSEDED" THEN now ELSE @]
    BY <1>1
  <2>2. designVersion'[w] = [status |-> s, number |-> designVersion[w].number,
            issued |-> IF OutcomeOf[s] = "ISSUED" THEN now ELSE designVersion[w].issued,
            superseded |-> IF OutcomeOf[s] = "SUPERSEDED" THEN now ELSE designVersion[w].superseded]
    BY <1>4, <2>1 DEF Stamped
  <2>3. now \in Nat
    BY <1>3
  <2>4. QED BY <1>4, <1>5, <2>2, <2>3 DEF Stamped, Has
<1>7. ASSUME NEW x \in DesignVersion, x # w
      PROVE  /\ Has(designVersion', x) <=> Has(designVersion, x)
             /\ designVersion'[x] = Absent \/ designVersion'[x] \in Stamped
             /\ Has(designVersion, x) => /\ designVersion'[x].number = designVersion[x].number
                                         /\ designVersion'[x].issued = designVersion[x].issued
                                         /\ designVersion'[x].superseded \in {designVersion[x].superseded, now}
             /\ OutcomeOf[s] = "ISSUED" /\ Has(designVersion, x) /\ DocumentOf[x] = DocumentOf[w] => ~InUse(x)'
             /\ OutcomeOf[s] # "ISSUED" => designVersion'[x] = designVersion[x]
             /\ Has(designVersion, x) /\ InUse(x)' => InUse(x)
  <2>1. designVersion[x] = Absent \/ designVersion[x] \in Stamped
    BY DEF IssuedInv
  <2>2. CASE OutcomeOf[s] = "ISSUED" /\ x \in Replaced(w)
    <3>1. designVersion'[x] = [designVersion[x] EXCEPT !.superseded = now]
      BY <1>1, <1>7, <2>2
    <3>2. Has(designVersion, x) /\ InUse(x)
      BY <2>2 DEF Replaced, Of, InUse
    <3>3. designVersion[x] \in Stamped
      BY <2>1, <3>2 DEF Has, Absent
    <3>4. designVersion'[x] = [status |-> designVersion[x].status, number |-> designVersion[x].number,
                               issued |-> designVersion[x].issued, superseded |-> now]
      BY <3>1, <3>3 DEF Stamped
    <3>5. now \in Nat /\ now # Never
      BY <1>3 DEF Never
    <3>6. designVersion'[x] \in Stamped
      BY <3>3, <3>4, <3>5 DEF Stamped
    <3>7. QED BY <2>2, <3>2, <3>4, <3>5, <3>6 DEF Has, InUse
  <2>3. CASE ~(OutcomeOf[s] = "ISSUED" /\ x \in Replaced(w))
    <3>1. designVersion'[x] = designVersion[x]
      BY <1>1, <1>7, <2>3
    <3>2. QED BY <1>7, <2>1, <2>3, <3>1 DEF Has, InUse, Replaced, Of
  <2>4. QED BY <2>2, <2>3
<1>8. ASSUME NEW d \in Document PROVE {designVersion'[v].number : v \in Of(d)'} = 1..Cardinality(Of(d)')
  <2>1. Of(d)' = Of(d)
    BY <1>2, <1>6, <1>7 DEF Of
  <2>2. \A v \in Of(d) : designVersion'[v].number = designVersion[v].number
    BY <1>6, <1>7 DEF Of
  <2>3. {designVersion'[v].number : v \in Of(d)} = {designVersion[v].number : v \in Of(d)}
    BY <2>2
  <2>4. QED BY <2>1, <2>3 DEF IssuedInv
<1>9. ASSUME NEW t \in Transmittal, Has(transmittal', t) PROVE Carried(t)'
  <2>1. Carried(t) /\ Carries[t] \subseteq DesignVersion
    BY <1>2, <1>9 DEF IssuedInv, DesignAssumption
  <2>2. ASSUME NEW v \in Carries[t]
        PROVE  /\ Has(designVersion', v) /\ designVersion'[v].issued # Never
               /\ designVersion'[v].superseded = Never \/ designVersion'[v].superseded >= transmittal[t].read
    <3>1. Has(designVersion, v) /\ designVersion[v].issued # Never /\ v \in DesignVersion
          /\ (designVersion[v].superseded = Never \/ designVersion[v].superseded >= transmittal[t].read)
      BY <2>1, <2>2 DEF Carried
    <3>2. now >= transmittal[t].read /\ now # Never
      BY <1>3, <2>1 DEF Carried, Never
    <3>3. CASE v = w
      BY <1>6, <3>1, <3>2, <3>3
    <3>4. CASE v # w
      BY <1>7, <3>1, <3>2, <3>4
    <3>5. QED BY <3>3, <3>4
  <2>3. transmittal[t].read \in Nat /\ transmittal[t].read <= now'
    BY <1>3, <2>1 DEF Carried
  <2>4. QED BY <1>2, <2>2, <2>3 DEF Carried
<1>10. ASSUME NEW v \in DesignVersion, NEW x \in DesignVersion, Has(designVersion', v), Has(designVersion', x),
              DocumentOf[v] = DocumentOf[x], InUse(v)', InUse(x)', v # x
       PROVE  FALSE
  <2>1. Has(designVersion, v) /\ Has(designVersion, x)
    BY <1>2, <1>7, <1>10
  <2>2. CASE OutcomeOf[s] = "ISSUED"
    BY <1>7, <1>10, <2>1, <2>2 DEF IssuedInv
  <2>3. CASE OutcomeOf[s] # "ISSUED"
    <3>1. InUse(w)' => InUse(w)
      BY <1>3, <1>6, <2>3 DEF InUse, Never
    <3>2. InUse(v) /\ InUse(x)
      BY <1>7, <1>10, <2>1, <3>1
    <3>3. QED BY <1>10, <2>1, <3>2 DEF IssuedInv
  <2>4. QED BY <2>2, <2>3
<1>11. DOMAIN designVersion' = DesignVersion /\ DOMAIN transmittal' = Transmittal
  BY <1>1, <1>2 DEF IssuedInv
<1>12. \A v \in DesignVersion : designVersion'[v] = Absent \/ designVersion'[v] \in Stamped
  BY <1>6, <1>7
<1>13. QED BY <1>3, <1>8, <1>9, <1>10, <1>11, <1>12 DEF IssuedInv

LEMMA IssuedStep ==
  ASSUME DesignAssumption, IssuedInv, [DesignNext]_designVars
  PROVE  IssuedInv'
<1>1. ASSUME UNCHANGED <<designVersion, now, transmittal>> PROVE IssuedInv'
  BY <1>1, IssuedKept DEF IssuedInv, Carried, Has
<1>2. ASSUME NEW d \in Document, CreateDocument(d) PROVE IssuedInv'
  BY <1>1, <1>2 DEF CreateDocument
<1>3. ASSUME NEW r \in Review, RequestReview(r) \/ DecideReview(r) PROVE IssuedInv'
  BY <1>1, <1>3 DEF RequestReview, DecideReview
<1>4. ASSUME NEW i \in Issue, CreateIssue(i) \/ CloseIssue(i) PROVE IssuedInv'
  BY <1>1, <1>4 DEF CreateIssue, CloseIssue
<1>5. ASSUME NEW t \in Transmittal, ReadVersions(t) PROVE IssuedInv'
  <2>1. /\ transmittal' = [transmittal EXCEPT ![t] = [status |-> "READING", read |-> now]]
        /\ \A v \in Carries[t] : Has(designVersion, v) /\ InUse(v)
        /\ UNCHANGED <<designVersion, now>>
    BY <1>5 DEF ReadVersions
  <2>2. DOMAIN transmittal' = Transmittal /\ transmittal'[t].read = now /\ now \in Nat /\ now <= now
        /\ \A u \in Transmittal : u # t => transmittal'[u] = transmittal[u]
    BY <2>1 DEF IssuedInv
  <2>3. Carried(t)'
    BY <2>1, <2>2 DEF Carried, InUse, Has
  <2>4. \A u \in Transmittal : u # t /\ Has(transmittal', u) => Carried(u)'
    BY <2>1, <2>2 DEF IssuedInv, Carried, Has
  <2>5. QED BY <2>1, <2>2, <2>3, <2>4, IssuedKept
<1>6. ASSUME NEW t \in Transmittal, CreateTransmittal(t) PROVE IssuedInv'
  <2>1. transmittal' = [transmittal EXCEPT ![t].status = "ISSUED"] /\ Has(transmittal, t) /\ UNCHANGED <<designVersion, now>>
    BY <1>6 DEF CreateTransmittal, Moved, In, Has
  <2>2. DOMAIN transmittal' = Transmittal /\ \A u \in Transmittal : u # t => transmittal'[u] = transmittal[u]
    BY <2>1 DEF IssuedInv
  <2>3. transmittal'[t].read = transmittal[t].read /\ Carried(t)
    BY <2>1 DEF IssuedInv
  <2>4. Carried(t)'
    BY <2>1, <2>3 DEF Carried, Has
  <2>5. \A u \in Transmittal : u # t /\ Has(transmittal', u) => Carried(u)'
    BY <2>1, <2>2 DEF IssuedInv, Carried, Has
  <2>6. QED BY <2>1, <2>2, <2>4, <2>5, IssuedKept
<1>7. CASE UNCHANGED designVars
  BY <1>1, <1>7 DEF designVars
<1>8. QED BY <1>2, <1>3, <1>4, <1>5, <1>6, <1>7, IssuedCreated, IssuedMoved DEF DesignNext

\* One version of a document is in use at most, its versions are numbered without a
\* gap, and nothing is sent that was superseded before the transmittal was composed,
\* although composing and sending hold none of the versions.
THEOREM DesignOneIssueInUse == ASSUME DesignAssumption PROVE DesignSpec => []OneIssueInUse
<1>1. DesignSpec => []IssuedInv
  BY IssuedInit, IssuedStep, PTL DEF DesignSpec
<1>2. ASSUME IssuedInv PROVE OneIssueInUse
  <2>1. \A d \in Document : \A v, x \in Of(d) : InUse(v) /\ InUse(x) => v = x
    BY <1>2 DEF IssuedInv, Of
  <2>2. ASSUME NEW t \in Transmittal, In(transmittal, t, {"ISSUED"}) PROVE Carried(t)
    BY <1>2, <2>2 DEF IssuedInv, In, Has
  <2>3. QED BY <1>2, <2>1, <2>2 DEF OneIssueInUse, Carried, IssuedInv
<1>3. QED BY <1>1, <1>2, PTL

=============================================================================
