------------------------ MODULE CommunicationProofs ------------------------
(***************************************************************************)
(* Safety of message dispatch and provider callbacks, for every set of     *)
(* requests, every limit and any number of rollbacks, changes of the       *)
(* settings and callbacks.  Then of who may do what in a company: roles    *)
(* and features, levels of access, its domains and its configuration.      *)
(***************************************************************************)
EXTENDS Communication, AccessControl, SequenceTheorems, FiniteSetTheorems, WellFoundedInduction, TLAPS

Outcome == {"sent", "delivered", "failed"}

InFlight(r) == IF sending[r] = "none" THEN 0 ELSE 1

\* Every attempt that was committed, the send that is under way and the
\* dispatches that rolled back account for the messages given to the provider.
BudgetOf(r) ==
  /\ Len(attempts[r]) + InFlight(r) <= RetryLimit
  /\ given[r] <= Len(attempts[r]) + InFlight(r) + rollbacks
  /\ sending[r] \in Outcome => given[r] > 0

\* A request is drafted once, and not sent before its row is there.
LifeOf(r) ==
  /\ draft[r] \in {"none", "suppressed", "queued", "scheduled"}
  /\ draft[r] # "none" => status[r] = "none"
  /\ status[r] = "none" => given[r] = 0 /\ sending[r] = "none" /\ msg[r] = NoMessage

BaseInv ==
  /\ TypeOK
  /\ rollbacks <= MaxRollbacks
  /\ \A r \in Request : BudgetOf(r)
  /\ \A r \in Request : LifeOf(r)

-----------------------------------------------------------------------------
(* What the types say, and what the steps that touch sequences do.         *)

LEMMA Typed ==
  ASSUME TypeOK
  PROVE  /\ RetryLimit \in Nat /\ MaxRollbacks \in Nat /\ rollbacks \in Nat
         /\ \A r \in Request : /\ attempts[r] \in Seq(Outcome) /\ Len(attempts[r]) \in Nat
                               /\ given[r] \in Nat
                               /\ sending[r] \in Outcome \cup {"none", "rejected"}
<1>1. \A r \in Request : attempts[r] \in Seq(Outcome)
  BY DEF TypeOK, Outcome
<1>2. \A r \in Request : Len(attempts[r]) \in Nat
  BY <1>1, LenProperties
<1>3. \A r \in Request : given[r] \in Nat /\ sending[r] \in Outcome \cup {"none", "rejected"}
  BY DEF TypeOK, Outcome
<1>4. QED BY <1>1, <1>2, <1>3, CommunicationAssumption DEF TypeOK

\* A committed dispatch adds one attempt.
LEMMA CommitStep ==
  ASSUME BaseInv, NEW r \in Request, CommitDispatch(r)
  PROVE  \E outcome \in Outcome :
           /\ outcome = IF sending[r] = "rejected" THEN "failed" ELSE sending[r]
           /\ status' = [status EXCEPT ![r] = outcome]
           /\ attempts' \in [Request -> Seq(Outcome)]
           /\ Len(attempts'[r]) = Len(attempts[r]) + 1
           /\ \A q \in Request \ {r} : attempts'[q] = attempts[q]
<1> DEFINE outcome == IF sending[r] = "rejected" THEN "failed" ELSE sending[r]
<1>1. outcome \in Outcome
  BY Typed DEF BaseInv, CommitDispatch, Outcome
<1>2. status' = [status EXCEPT ![r] = outcome]
      /\ attempts' = [attempts EXCEPT ![r] = Append(attempts[r], outcome)]
  BY DEF CommitDispatch, BaseInv, TypeOK
<1> HIDE DEF outcome
<1>3. attempts[r] \in Seq(Outcome) /\ attempts \in [Request -> Seq(Outcome)]
  BY DEF BaseInv, TypeOK, Outcome
<1>4. Append(attempts[r], outcome) \in Seq(Outcome)
      /\ Len(Append(attempts[r], outcome)) = Len(attempts[r]) + 1
  BY <1>1, <1>3, AppendProperties
<1>5. /\ attempts' \in [Request -> Seq(Outcome)]
      /\ attempts'[r] = Append(attempts[r], outcome)
      /\ \A q \in Request \ {r} : attempts'[q] = attempts[q]
  BY <1>2, <1>3, <1>4
<1>6. QED BY <1>1, <1>2, <1>4, <1>5 DEF outcome

\* A callback rewrites the status of one request and of its last attempt.
LEMMA CallbackStep ==
  ASSUME TypeOK, NEW e \in Event, ApplyCallback(e)
  PROVE  \E r \in Request :
           /\ msg[r] = e[1] /\ sending[r] = "none"
           /\ status' = [status EXCEPT ![r] = e[2]] /\ e[2] \in Outcome
           /\ attempts' \in [Request -> Seq(Outcome)]
           /\ Len(attempts'[r]) = Len(attempts[r])
           /\ \A q \in Request \ {r} : attempts'[q] = attempts[q]
<1>0. e[2] \in Outcome
  BY DEF Event, Outcome
<1>1. PICK r \in Request :
        /\ msg[r] = e[1] /\ sending[r] = "none"
        /\ status' = [status EXCEPT ![r] = e[2]]
        /\ attempts' = [attempts EXCEPT ![r] =
             [n \in DOMAIN @ |-> IF n = Len(@) /\ e[2] # "sent" THEN e[2] ELSE @[n]]]
  BY DEF ApplyCallback, Found
<1> DEFINE s == attempts[r]
           new == [n \in DOMAIN s |-> IF n = Len(s) /\ e[2] # "sent" THEN e[2] ELSE s[n]]
<1>2. s \in Seq(Outcome) /\ attempts \in [Request -> Seq(Outcome)]
  BY DEF TypeOK, Outcome
<1>3. DOMAIN s = 1..Len(s) /\ Len(s) \in Nat /\ \A n \in 1..Len(s) : s[n] \in Outcome
  BY <1>2, LenProperties, ElementOfSeq
<1>4. attempts' = [attempts EXCEPT ![r] = new]
  BY <1>1, <1>2
<1> HIDE DEF s
<1>5. new \in [1..Len(s) -> Outcome]
  BY <1>0, <1>3
<1>6. new \in Seq(Outcome) /\ Len(new) = Len(s)
  <2> HIDE DEF new
  <2>1. new \in Seq(Outcome)
    BY <1>3, <1>5, SeqDef
  <2>2. DOMAIN new = 1..Len(s)
    BY <1>5
  <2>3. QED BY <2>1, <2>2, <1>3, LenProperties
<1> HIDE DEF new
<1>7. /\ attempts' \in [Request -> Seq(Outcome)] /\ attempts'[r] = new
      /\ \A q \in Request \ {r} : attempts'[q] = attempts[q]
  BY <1>2, <1>4, <1>6
<1>8. QED BY <1>0, <1>1, <1>6, <1>7 DEF s

-----------------------------------------------------------------------------
(* Types, the budget of a request and its life.                            *)

\* Rows that a step does not touch keep what the invariant says of them.
LEMMA RowKept ==
  ASSUME NEW r \in Request, BudgetOf(r), LifeOf(r),
         UNCHANGED <<status, draft, attempts, msg, sending, given, rollbacks>>
  PROVE  BudgetOf(r)' /\ LifeOf(r)'
BY DEF BudgetOf, LifeOf, InFlight

LEMMA SettingsStep ==
  ASSUME BaseInv, RecordConsent \/ UpdateChannelPolicy \/ SwitchProvider
  PROVE  BaseInv'
<1>1. UNCHANGED <<rows, provider, inbox>> /\ changes' = changes + 1 /\ changes' \in Nat
  BY DEF BaseInv, TypeOK, RecordConsent, UpdateChannelPolicy, SwitchProvider, Change
<1>2. /\ consent' \in {"none", "granted", "withdrawn", "denied"}
      /\ enabled' \in BOOLEAN /\ provided' \in BOOLEAN
  BY DEF BaseInv, TypeOK, RecordConsent, UpdateChannelPolicy, SwitchProvider
<1>3. TypeOK'
  BY <1>1, <1>2 DEF BaseInv, TypeOK, rows, provider, inbox
<1>4. \A r \in Request : BudgetOf(r)' /\ LifeOf(r)'
  BY <1>1, RowKept DEF BaseInv, rows, provider
<1>5. QED BY <1>1, <1>3, <1>4 DEF BaseInv, provider

LEMMA CreateStep ==
  ASSUME BaseInv, NEW q \in Request,
         BeginCreate(q) \/ CommitCreate(q) \/ TimePasses(q) \/ CancelRequest(q)
           \/ DispatchTooEarly(q) \/ DispatchWithoutProvider(q)
  PROVE  BaseInv'
<1>1. UNCHANGED <<settings, msg, attempts, provider, inbox>>
  BY DEF BeginCreate, CommitCreate, TimePasses, CancelRequest, DispatchTooEarly,
         DispatchWithoutProvider
<1>2. LifeOf(q) /\ status \in [Request -> Statuses] /\ draft \in [Request -> Statuses]
      /\ bound \in [Request -> BOOLEAN] /\ later \in [Request -> BOOLEAN] /\ provided \in BOOLEAN
  BY DEF BaseInv, TypeOK
<1>3. bound' \in [Request -> BOOLEAN] /\ later' \in [Request -> BOOLEAN]
  BY <1>2 DEF BeginCreate, CommitCreate, TimePasses, CancelRequest, DispatchTooEarly,
              DispatchWithoutProvider
<1>4. /\ status' \in [Request -> Statuses] /\ draft' \in [Request -> Statuses]
      /\ \A r \in Request \ {q} : status'[r] = status[r] /\ draft'[r] = draft[r]
      /\ draft'[q] \in {"none", "suppressed", "queued", "scheduled"}
      /\ draft'[q] # "none" => status'[q] = "none"
      /\ status'[q] = "none" => status[q] = "none"
  <2>1. CASE BeginCreate(q)
    <3>1. PICK s \in Statuses : DecideStatus(s) /\ draft' = [draft EXCEPT ![q] = s]
      BY <2>1 DEF BeginCreate
    <3>2. s \in {"suppressed", "queued", "scheduled"}
      BY <3>1 DEF DecideStatus
    <3>3. status' = status /\ status[q] = "none"
      BY <2>1 DEF BeginCreate
    <3>4. QED BY <1>2, <3>1, <3>2, <3>3
  <2>2. CASE CommitCreate(q)
    BY <1>2, <2>2 DEF CommitCreate, LifeOf
  <2>3. CASE TimePasses(q)
    BY <1>2, <2>3 DEF TimePasses, LifeOf
  <2>4. CASE CancelRequest(q)
    BY <1>2, <2>4 DEF CancelRequest, LifeOf, Statuses
  <2>5. CASE DispatchTooEarly(q)
    BY <1>2, <2>5 DEF DispatchTooEarly, MayDispatch, LifeOf, Statuses
  <2>6. CASE DispatchWithoutProvider(q)
    BY <1>2, <2>6 DEF DispatchWithoutProvider, MayDispatch, LifeOf, Statuses
  <2>7. QED BY <2>1, <2>2, <2>3, <2>4, <2>5, <2>6
<1>5. TypeOK'
  BY <1>1, <1>3, <1>4 DEF BaseInv, TypeOK, settings, provider, inbox
<1>6. \A r \in Request : BudgetOf(r)'
  BY <1>1 DEF BaseInv, BudgetOf, InFlight, provider
<1>7. \A r \in Request : LifeOf(r)'
  BY <1>1, <1>2, <1>4 DEF BaseInv, LifeOf, provider
<1>8. QED BY <1>1, <1>5, <1>6, <1>7 DEF BaseInv, provider

LEMMA SendStep ==
  ASSUME BaseInv, NEW q \in Request, Send(q)
  PROVE  BaseInv'
<1>1. /\ UNCHANGED <<settings, rows, rollbacks, inbox>> /\ sending[q] = "none"
      /\ status[q] # "none" /\ Len(attempts[q]) < RetryLimit
  BY DEF Send, MayDispatch, RetriesLeft
<1>2. PICK outcome \in Outcome \cup {"rejected"} :
        /\ sending' = [sending EXCEPT ![q] = outcome]
        /\ given' = [given EXCEPT ![q] = IF outcome = "rejected" THEN @ ELSE @ + 1]
  BY DEF Send, Outcome
<1>3. sending \in [Request -> Outcome \cup {"none", "rejected"}] /\ given \in [Request -> Nat]
  BY DEF BaseInv, TypeOK, Outcome
<1>4. /\ sending' \in [Request -> Outcome \cup {"none", "rejected"}]
      /\ sending'[q] = outcome /\ \A r \in Request \ {q} : sending'[r] = sending[r]
  BY <1>2, <1>3
<1>5. /\ given' \in [Request -> Nat] /\ \A r \in Request \ {q} : given'[r] = given[r]
      /\ given'[q] = IF outcome = "rejected" THEN given[q] ELSE given[q] + 1
  BY <1>2, <1>3
<1>6. TypeOK'
  BY <1>1, <1>4, <1>5 DEF BaseInv, TypeOK, settings, rows, inbox, Outcome
<1>7. BudgetOf(q)'
  <2>1. BudgetOf(q) /\ Len(attempts[q]) \in Nat /\ given[q] \in Nat /\ rollbacks \in Nat
        /\ RetryLimit \in Nat
    BY Typed DEF BaseInv
  <2>2. UNCHANGED <<attempts, rollbacks>>
    BY <1>1 DEF rows
  <2>3. InFlight(q) = 0 /\ InFlight(q)' = 1
    BY <1>1, <1>4 DEF InFlight, Outcome
  <2>4. Len(attempts'[q]) + InFlight(q)' <= RetryLimit
    BY <1>1, <2>1, <2>2, <2>3
  <2>5. given'[q] <= Len(attempts'[q]) + InFlight(q)' + rollbacks'
    BY <1>5, <2>1, <2>2, <2>3 DEF BudgetOf
  <2>6. sending'[q] \in Outcome => given'[q] > 0
    BY <1>4, <1>5, <2>1 DEF Outcome
  <2>7. QED BY <2>4, <2>5, <2>6 DEF BudgetOf
<1>8. \A r \in Request \ {q} : BudgetOf(r)'
  BY <1>1, <1>4, <1>5 DEF BaseInv, BudgetOf, InFlight, rows
<1>9. \A r \in Request : LifeOf(r)'
  BY <1>1, <1>4, <1>5 DEF BaseInv, LifeOf, rows
<1>10. QED BY <1>1, <1>6, <1>7, <1>8, <1>9 DEF BaseInv

\* The id of a message is one that the provider can have given.
LEMMA MessageTyped ==
  ASSUME BaseInv, NEW r \in Request, sending[r] \in Outcome
  PROVE  <<r, given[r]>> \in Message
<1>1. BudgetOf(r) /\ Len(attempts[r]) \in Nat /\ given[r] \in Nat /\ rollbacks \in Nat
      /\ RetryLimit \in Nat /\ MaxRollbacks \in Nat /\ rollbacks <= MaxRollbacks
  BY Typed DEF BaseInv
<1>2. InFlight(r) = 1
  BY DEF InFlight, Outcome
<1>3. given[r] \in 1..(RetryLimit + MaxRollbacks)
  BY <1>1, <1>2 DEF BudgetOf
<1>4. QED BY <1>3 DEF Message

LEMMA CommitDispatchStep ==
  ASSUME BaseInv, NEW q \in Request, CommitDispatch(q)
  PROVE  BaseInv'
<1>1. PICK outcome \in Outcome :
        /\ status' = [status EXCEPT ![q] = outcome]
        /\ attempts' \in [Request -> Seq(Outcome)]
        /\ Len(attempts'[q]) = Len(attempts[q]) + 1
        /\ \A r \in Request \ {q} : attempts'[r] = attempts[r]
  BY CommitStep
<1>2. /\ UNCHANGED <<settings, draft, later, given, rollbacks, receipts, applied>>
      /\ sending[q] # "none" /\ sending' = [sending EXCEPT ![q] = "none"]
      /\ bound' = [bound EXCEPT ![q] = TRUE]
  BY DEF CommitDispatch
<1>3. /\ status \in [Request -> Statuses] /\ bound \in [Request -> BOOLEAN]
      /\ sending \in [Request -> {"none", "sent", "delivered", "failed", "rejected"}]
      /\ msg \in [Request -> Message \cup {NoMessage}] /\ told \subseteq Event
  BY DEF BaseInv, TypeOK
<1>4. sending[q] = "rejected" \/ sending[q] \in Outcome
  BY <1>2, <1>3 DEF Outcome
<1>5. msg' \in [Request -> Message \cup {NoMessage}]
  <2>1. CASE sending[q] = "rejected"
    BY <1>3, <2>1 DEF CommitDispatch
  <2>2. CASE sending[q] \in Outcome
    <3>1. <<q, given[q]>> \in Message
      BY <2>2, MessageTyped
    <3>2. sending[q] # "rejected"
      BY <2>2 DEF Outcome
    <3>3. QED BY <1>3, <3>1, <3>2 DEF CommitDispatch
  <2>3. QED BY <1>4, <2>1, <2>2
<1>6. told' \subseteq Event
  <2>1. CASE sending[q] = "rejected"
    BY <1>3, <2>1 DEF CommitDispatch
  <2>2. CASE sending[q] \in Outcome
    <3>1. <<q, given[q]>> \in Message
      BY <2>2, MessageTyped
    <3>2. <<<<q, given[q]>>, sending[q]>> \in Event
      BY <2>2, <3>1 DEF Event, Outcome
    <3>3. told' = told \cup {<<<<q, given[q]>>, sending[q]>>}
      BY <2>2 DEF CommitDispatch, Outcome
    <3>4. QED BY <1>3, <3>2, <3>3
  <2>3. QED BY <1>4, <2>1, <2>2
<1>7. /\ status' \in [Request -> Statuses] /\ status'[q] = outcome
      /\ \A r \in Request \ {q} : status'[r] = status[r]
  BY <1>1, <1>3 DEF Outcome, Statuses
<1>8. /\ sending' \in [Request -> {"none", "sent", "delivered", "failed", "rejected"}]
      /\ sending'[q] = "none" /\ \A r \in Request \ {q} : sending'[r] = sending[r]
  BY <1>2, <1>3
<1>9. bound' \in [Request -> BOOLEAN]
  BY <1>2, <1>3
<1>10. TypeOK'
  BY <1>1, <1>2, <1>5, <1>6, <1>7, <1>8, <1>9 DEF BaseInv, TypeOK, settings, Outcome
<1>11. BudgetOf(q)'
  <2>1. BudgetOf(q) /\ Len(attempts[q]) \in Nat /\ given[q] \in Nat /\ rollbacks \in Nat
        /\ RetryLimit \in Nat
    BY Typed DEF BaseInv
  <2>2. InFlight(q) = 1 /\ InFlight(q)' = 0
    BY <1>2, <1>8 DEF InFlight
  <2>3. QED BY <1>1, <1>2, <1>8, <2>1, <2>2 DEF BudgetOf, Outcome
<1>12. \A r \in Request \ {q} : BudgetOf(r)'
  BY <1>1, <1>2, <1>8 DEF BaseInv, BudgetOf, InFlight
<1>13. \A r \in Request : LifeOf(r)'
  <2>1. LifeOf(q) /\ \A r \in Request \ {q} : LifeOf(r)
    BY DEF BaseInv
  <2>2. status'[q] # "none" /\ draft' = draft /\ given' = given
    BY <1>2, <1>7 DEF Outcome
  <2>3. LifeOf(q)'
    BY <1>2, <2>1, <2>2 DEF LifeOf
  <2>4. \A r \in Request \ {q} : msg'[r] = msg[r]
    BY <1>3 DEF CommitDispatch
  <2>5. \A r \in Request \ {q} : LifeOf(r)'
    BY <1>7, <1>8, <2>1, <2>2, <2>4 DEF LifeOf
  <2>6. QED BY <2>3, <2>5
<1>14. QED BY <1>2, <1>10, <1>11, <1>12, <1>13 DEF BaseInv

LEMMA RollbackStep ==
  ASSUME BaseInv, NEW q \in Request, RollbackDispatch(q)
  PROVE  BaseInv'
<1>1. /\ UNCHANGED <<settings, rows, given, inbox>> /\ rollbacks < MaxRollbacks
      /\ rollbacks' = rollbacks + 1 /\ sending[q] # "none"
      /\ sending' = [sending EXCEPT ![q] = "none"]
  BY DEF RollbackDispatch
<1>2. /\ sending' \in [Request -> {"none", "sent", "delivered", "failed", "rejected"}]
      /\ sending'[q] = "none" /\ \A r \in Request \ {q} : sending'[r] = sending[r]
  BY <1>1 DEF BaseInv, TypeOK
<1>3. rollbacks' \in Nat /\ rollbacks' <= MaxRollbacks /\ rollbacks \in Nat
  BY <1>1, Typed DEF BaseInv
<1>4. TypeOK'
  BY <1>1, <1>2, <1>3 DEF BaseInv, TypeOK, settings, rows, inbox
<1>5. BudgetOf(q)'
  <2>1. BudgetOf(q) /\ Len(attempts[q]) \in Nat /\ given[q] \in Nat /\ RetryLimit \in Nat
    BY Typed DEF BaseInv
  <2>2. InFlight(q) = 1 /\ InFlight(q)' = 0
    BY <1>1, <1>2 DEF InFlight
  <2>3. /\ attempts' = attempts /\ given' = given /\ sending'[q] \notin Outcome
    BY <1>1, <1>2 DEF rows, Outcome
  <2>4. given[q] <= Len(attempts[q]) + 1 + rollbacks /\ Len(attempts[q]) + 1 <= RetryLimit
    BY <2>1, <2>2 DEF BudgetOf
  <2>5. Len(attempts'[q]) + InFlight(q)' <= RetryLimit
    BY <2>1, <2>2, <2>3, <2>4
  <2>6. given'[q] <= Len(attempts'[q]) + InFlight(q)' + rollbacks'
    <3>1. given'[q] = given[q] /\ Len(attempts'[q]) + InFlight(q)' = Len(attempts[q])
      BY <2>1, <2>2, <2>3
    <3>2. rollbacks' = rollbacks + 1
      BY <1>1
    <3>3. QED BY <1>3, <2>1, <2>4, <3>1, <3>2
  <2>7. QED BY <2>3, <2>5, <2>6 DEF BudgetOf
<1>6. ASSUME NEW r \in Request \ {q} PROVE BudgetOf(r)'
  <2>1. BudgetOf(r) /\ Len(attempts[r]) \in Nat /\ given[r] \in Nat /\ InFlight(r) \in Nat
    BY Typed DEF BaseInv, InFlight
  <2>2. InFlight(r)' = InFlight(r)
    BY <1>2 DEF InFlight
  <2>3. QED BY <1>1, <1>2, <1>3, <2>1, <2>2 DEF BudgetOf, rows
<1>7. \A r \in Request : LifeOf(r)'
  BY <1>1, <1>2 DEF BaseInv, LifeOf, rows
<1>8. QED BY <1>3, <1>4, <1>5, <1>6, <1>7 DEF BaseInv

LEMMA ReceiptStep ==
  ASSUME BaseInv, NEW e \in Event, KeepReceiptOnly(e)
  PROVE  BaseInv'
<1>1. UNCHANGED <<settings, rows, provider, applied, told>> /\ receipts' = receipts \cup {e}
  BY DEF KeepReceiptOnly
<1>2. TypeOK'
  BY <1>1 DEF BaseInv, TypeOK, settings, rows, provider
<1>3. \A r \in Request : BudgetOf(r)' /\ LifeOf(r)'
  BY <1>1, RowKept DEF BaseInv, rows, provider
<1>4. QED BY <1>1, <1>2, <1>3 DEF BaseInv, provider

LEMMA ApplyStep ==
  ASSUME BaseInv, NEW e \in Event, ApplyCallback(e)
  PROVE  BaseInv'
<1>1. PICK q \in Request :
        /\ msg[q] = e[1] /\ sending[q] = "none"
        /\ status' = [status EXCEPT ![q] = e[2]] /\ e[2] \in Outcome
        /\ attempts' \in [Request -> Seq(Outcome)]
        /\ Len(attempts'[q]) = Len(attempts[q])
        /\ \A r \in Request \ {q} : attempts'[r] = attempts[r]
  BY CallbackStep DEF BaseInv
<1>2. /\ UNCHANGED <<settings, draft, bound, later, msg, provider>>
      /\ receipts' = receipts \cup {e} /\ applied' = [applied EXCEPT ![e] = @ + 1]
      /\ told' = told \cup {e}
  BY DEF ApplyCallback
<1>3. /\ status' \in [Request -> Statuses] /\ status'[q] = e[2]
      /\ \A r \in Request \ {q} : status'[r] = status[r]
  BY <1>1 DEF BaseInv, TypeOK, Outcome, Statuses
<1>4. applied' \in [Event -> Nat] /\ told' \subseteq Event /\ receipts' \subseteq Event
  BY <1>2 DEF BaseInv, TypeOK
<1>5. TypeOK'
  BY <1>1, <1>2, <1>3, <1>4 DEF BaseInv, TypeOK, settings, provider, Outcome
<1>6. \A r \in Request : Len(attempts'[r]) = Len(attempts[r])
  BY <1>1
<1>7. \A r \in Request : BudgetOf(r)'
  BY <1>2, <1>6 DEF BaseInv, BudgetOf, InFlight, provider
<1>8. \A r \in Request : LifeOf(r)'
  <2>1. status'[q] # "none"
    BY <1>1, <1>3 DEF Outcome
  <2>2. draft' = draft /\ given' = given /\ sending' = sending
    BY <1>2 DEF provider
  <2>3. draft[q] = "none"
    <3>1. msg[q] # NoMessage
      BY <1>1, CommunicationAssumption DEF Event
    <3>2. QED BY <3>1 DEF BaseInv, LifeOf
  <2>4. msg' = msg
    BY <1>2
  <2>5. QED BY <1>3, <2>1, <2>2, <2>3, <2>4 DEF BaseInv, LifeOf
<1>9. QED BY <1>2, <1>5, <1>7, <1>8 DEF BaseInv, provider

LEMMA BaseStep == BaseInv /\ [Next]_vars => BaseInv'
<1> SUFFICES ASSUME BaseInv, [Next]_vars PROVE BaseInv'
  OBVIOUS
<1>1. CASE UNCHANGED vars
  <2>1. UNCHANGED <<settings, rows, provider, inbox>>
    BY <1>1 DEF vars
  <2>2. TypeOK'
    BY <2>1 DEF BaseInv, TypeOK, settings, rows, provider, inbox
  <2>3. \A r \in Request : BudgetOf(r)' /\ LifeOf(r)'
    BY <2>1, RowKept DEF BaseInv, rows, provider
  <2>4. QED BY <2>1, <2>2, <2>3 DEF BaseInv, provider
<1>2. QED
  BY <1>1, SettingsStep, CreateStep, SendStep, CommitDispatchStep, RollbackStep, ReceiptStep,
     ApplyStep
  DEF Next, Dispatch

LEMMA BaseInit == Init => BaseInv
<1> SUFFICES ASSUME Init PROVE BaseInv
  OBVIOUS
<1>1. <<>> \in Seq(Outcome) /\ Len(<<>>) = 0
  BY EmptySeq
<1>2. TypeOK
  BY <1>1 DEF Init, TypeOK, Statuses, Outcome
<1>3. rollbacks = 0 /\ MaxRollbacks \in Nat /\ RetryLimit \in Nat
  BY CommunicationAssumption DEF Init
<1>4. \A r \in Request : BudgetOf(r)
  BY <1>3 DEF Init, BudgetOf, InFlight, Outcome
<1>5. \A r \in Request : LifeOf(r)
  BY DEF Init, LifeOf
<1>6. QED BY <1>2, <1>3, <1>4, <1>5 DEF BaseInv

\* Every column keeps its type; in particular every message named anywhere is
\* one the provider can have given within the retry limit and the rollbacks.
THEOREM CommunicationTypeCorrect == Spec => []TypeOK
<1>1. BaseInv => TypeOK
  BY DEF BaseInv
<1>2. QED BY <1>1, BaseInit, BaseStep, PTL DEF Spec

\* A subject gets at most the retry limit of messages for one request, and one
\* more for each dispatch that rolled back after the provider was called.
THEOREM CommunicationSendBudget == Spec => []SendBudget
<1>1. BaseInv => SendBudget
  <2> SUFFICES ASSUME BaseInv, NEW r \in Request PROVE given[r] <= RetryLimit + rollbacks
    BY DEF SendBudget
  <2>1. BudgetOf(r) /\ Len(attempts[r]) \in Nat /\ given[r] \in Nat /\ RetryLimit \in Nat
        /\ rollbacks \in Nat /\ InFlight(r) \in Nat
    BY Typed DEF BaseInv, InFlight
  <2>2. QED BY <2>1 DEF BudgetOf
<1>2. QED BY <1>1, BaseInit, BaseStep, PTL DEF Spec

-----------------------------------------------------------------------------
(* Callbacks.                                                              *)

LEMMA AppliedStep == BaseInv /\ AppliedOnce /\ [Next]_vars => AppliedOnce'
<1> SUFFICES ASSUME BaseInv, AppliedOnce, [Next]_vars PROVE AppliedOnce'
  OBVIOUS
<1> USE DEF AppliedOnce
<1>a. applied \in [Event -> Nat] /\ receipts \subseteq Event
  BY DEF BaseInv, TypeOK
<1>1. CASE UNCHANGED <<applied, receipts>>
  BY <1>1
<1>2. ASSUME NEW e \in Event, KeepReceiptOnly(e) PROVE AppliedOnce'
  BY <1>2, <1>a DEF KeepReceiptOnly
<1>3. ASSUME NEW e \in Event, ApplyCallback(e) PROVE AppliedOnce'
  <2>1. /\ e \notin receipts /\ receipts' = receipts \cup {e}
        /\ applied' = [applied EXCEPT ![e] = @ + 1]
    BY <1>3 DEF ApplyCallback, SeenBefore
  <2>2. applied[e] = 0
    BY <2>1, <1>a
  <2>3. applied'[e] = 1 /\ \A f \in Event \ {e} : applied'[f] = applied[f]
    BY <2>1, <2>2, <1>a
  <2>4. QED BY <2>1, <2>3
<1>4. QED
  BY <1>1, <1>2, <1>3
  DEF Next, Dispatch, vars, inbox, RecordConsent, UpdateChannelPolicy, SwitchProvider,
      BeginCreate, CommitCreate, TimePasses, CancelRequest, DispatchTooEarly,
      DispatchWithoutProvider, Send, CommitDispatch, RollbackDispatch

\* The receipt of a callback is its idempotency key: however often and in
\* whichever order events arrive, each moves a request at most once.
THEOREM CommunicationAppliedOnce == Spec => []AppliedOnce
<1>1. Init => AppliedOnce
  BY DEF Init, AppliedOnce
<1>2. QED BY <1>1, BaseInit, BaseStep, AppliedStep, PTL DEF Spec

LEMMA ToldStep == BaseInv /\ StatusWasTold /\ [Next]_vars => StatusWasTold'
<1> SUFFICES ASSUME BaseInv, StatusWasTold, [Next]_vars PROVE StatusWasTold'
  OBVIOUS
<1> USE DEF StatusWasTold
<1>a. /\ status \in [Request -> Statuses] /\ draft \in [Request -> Statuses]
      /\ msg \in [Request -> Message \cup {NoMessage}]
      /\ sending \in [Request -> {"none", "sent", "delivered", "failed", "rejected"}]
      /\ \A r \in Request : LifeOf(r)
  BY DEF BaseInv, TypeOK
<1>1. CASE UNCHANGED <<status, msg, told>>
  BY <1>1
<1>2. ASSUME NEW r \in Request, CommitCreate(r) PROVE StatusWasTold'
  <2>1. /\ UNCHANGED <<msg, told>> /\ status'[r] = draft[r]
        /\ \A q \in Request \ {r} : status'[q] = status[q]
    BY <1>2, <1>a DEF CommitCreate, inbox
  <2>2. draft[r] \notin {"sent", "delivered"}
    BY <1>a DEF LifeOf
  <2>3. QED BY <2>1, <2>2
<1>3. ASSUME NEW r \in Request,
             CancelRequest(r) \/ DispatchTooEarly(r) \/ DispatchWithoutProvider(r)
      PROVE  StatusWasTold'
  <2>1. /\ UNCHANGED <<msg, told>> /\ status'[r] \notin {"sent", "delivered"}
        /\ \A q \in Request \ {r} : status'[q] = status[q]
    BY <1>3, <1>a DEF CancelRequest, DispatchTooEarly, DispatchWithoutProvider, inbox
  <2>2. QED BY <2>1
<1>4. ASSUME NEW r \in Request, CommitDispatch(r) PROVE StatusWasTold'
  <2>1. /\ \A q \in Request \ {r} : status'[q] = status[q] /\ msg'[q] = msg[q]
        /\ told \subseteq told'
    BY <1>4, <1>a DEF CommitDispatch
  <2>2. CASE sending[r] = "rejected"
    <3>1. status'[r] = "failed"
      BY <1>4, <1>a, <2>2 DEF CommitDispatch
    <3>2. QED BY <2>1, <3>1
  <2>3. CASE sending[r] # "rejected"
    <3>1. /\ status'[r] = sending[r] /\ msg'[r] = <<r, given[r]>>
          /\ <<<<r, given[r]>>, sending[r]>> \in told'
      BY <1>4, <1>a, <2>3 DEF CommitDispatch
    <3>2. QED BY <2>1, <3>1
  <2>4. QED BY <2>2, <2>3
<1>5. ASSUME NEW e \in Event, ApplyCallback(e) PROVE StatusWasTold'
  <2>1. PICK r \in Request : status' = [status EXCEPT ![r] = e[2]] /\ msg[r] = e[1]
    BY <1>5, CallbackStep DEF BaseInv
  <2>2. msg' = msg /\ told' = told \cup {e}
    BY <1>5 DEF ApplyCallback
  <2>3. status'[r] = e[2] /\ \A q \in Request \ {r} : status'[q] = status[q]
    BY <2>1, <1>a
  <2>4. e = <<e[1], e[2]>>
    BY DEF Event
  <2>5. QED BY <2>1, <2>2, <2>3, <2>4
<1>6. QED
  BY <1>1, <1>2, <1>3, <1>4, <1>5
  DEF Next, Dispatch, vars, rows, inbox, RecordConsent, UpdateChannelPolicy, SwitchProvider,
      BeginCreate, TimePasses, Send, RollbackDispatch, KeepReceiptOnly

\* A request that says "sent" or "delivered" says so of the message it names:
\* an adapter or a callback reported that status of that very message.
THEOREM CommunicationStatusWasTold == Spec => []StatusWasTold
<1>1. Init => StatusWasTold
  BY DEF Init, StatusWasTold
<1>2. QED BY <1>1, BaseInit, BaseStep, ToldStep, PTL DEF Spec

-----------------------------------------------------------------------------
(* Roles and features (AccessControl).  What a member, an invitation or an *)
(* open reconciliation names is a version that exists, and versions are    *)
(* only added (Grown); so what was read before the roles are replaced, and *)
(* before the company was locked, still names versions when it is written. *)

Permissions == SUBSET (AccessFeature \cup {"shared", "admin"})

\* The versions that exist, and those that an invitation may bring.
Made == {held \in AccessCode \X Nat : held[2] \in 1..Len(accessRole[held[1]])}
Lasting == {held \in Made : held[1] # "LEGACY"}

RolesInv ==
  /\ accessRole \in [AccessCode -> Seq(Permissions)] /\ retired \subseteq {"LEGACY"}
  /\ accessRole["ADMIN"] # <<>> /\ accessRole["USER"] # <<>>

SwitchesInv ==
  /\ DOMAIN override = Override
  /\ \A o \in Override : override[o] = [status |-> override[o].status, at |-> override[o].at] \/ override[o] = Absent

\* A reconciliation under way has its override, and versions of each member.
CompanyInv ==
  company.for # Nobody =>
    /\ company.for \in Invitation \/ (company.for \in Override /\ Has(override, company.for))
    /\ \A p \in Person : company.holds[p] \subseteq Made

MemberRow == [status : {"ACTIVE", "SUSPENDED", "TERMINATED"}, holds : SUBSET Made]

MembersInv ==
  /\ accessMember \in [Person -> MemberRow \cup {Absent}]
  /\ "LEGACY" \in retired => \A p \in Person : Has(accessMember, p) => accessMember[p].holds \subseteq Lasting

\* A choice of roles under way is of a member, and of versions that last.
ReplacingInv ==
  replacing # AccessIdle => replacing.for \in Person /\ Has(accessMember, replacing.for) /\ replacing.roles \subseteq Lasting

\* Invitations, and a table of them, that bring some of these versions.
InvitedRows(some) ==
  [status : {"OPEN", "DONE"}, kind : {"EMPLOYEE", "COMPANY_ADMIN"}, roles : SUBSET some, reading : SUBSET some,
   accepted : BOOLEAN, revoked : BOOLEAN]

Invited(table, some) ==
  /\ table \in [Invitation -> InvitedRows(some) \cup {Absent}]
  /\ \A i \in Invitation : Has(table, i) => ~(table[i].accepted /\ table[i].revoked)
  /\ \A i \in Invitation : In(table, i, {"OPEN"}) => ~table[i].accepted /\ ~table[i].revoked

InvitedRow == InvitedRows(Lasting)
InvitationsInv == Invited(invitation, Lasting)

UserFollows == accessRole["USER"][Len(accessRole["USER"])] = AccessPermits("USER", Features(Committed))

AccessInv == RolesInv /\ SwitchesInv /\ CompanyInv /\ MembersInv /\ ReplacingInv /\ InvitationsInv /\ UserFollows

LEMMA PermitsType ==
  ASSUME NEW c, NEW t PROVE Features(t) \subseteq AccessFeature /\ AccessPermits(c, Features(t)) \in Permissions
<1>1. Features(t) \subseteq AccessFeature
  BY DEF Features
<1>2. QED BY <1>1 DEF AccessPermits, Permissions

LEMMA PermitsAll == AccessPermits("USER", AccessFeature) \in Permissions /\ AccessPermits("ADMIN", AccessFeature) \in Permissions
                    /\ AccessPermits("LEGACY", AccessFeature) \in Permissions
BY DEF AccessPermits, Permissions

\* Bringing a role in line leaves it with versions, of which the last permits what it should.
LEMMA SyncedRole ==
  ASSUME RolesInv, NEW c \in AccessCode, NEW t
  PROVE  LET s == Synced(c, Features(t)) IN
         /\ s \in Seq(Permissions) /\ Len(s) >= Len(accessRole[c]) /\ Len(s) > 0 /\ s # <<>>
         /\ s[Len(s)] = AccessPermits(c, Features(t))
<1> DEFINE x == AccessPermits(c, Features(t))
           q == accessRole[c]
<1>1. x \in Permissions /\ q \in Seq(Permissions)
  BY PermitsType DEF RolesInv
<1> HIDE DEF x, q
<1>2. Len(q) \in Nat /\ (q # <<>> => Len(q) > 0)
  BY <1>1
<1>3. Append(q, x) \in Seq(Permissions) /\ Len(Append(q, x)) = Len(q) + 1 /\ Append(q, x)[Len(q) + 1] = x
  BY <1>1
<1>4. Len(Append(q, x)) > 0 /\ Append(q, x) # <<>>
  BY <1>2, <1>3
<1>5. CASE AccessInForce(c) /\ q[Len(q)] = x
  <2>1. Synced(c, Features(t)) = q /\ q # <<>>
    BY <1>5 DEF Synced, x, q, AccessInForce
  <2>2. QED BY <1>1, <1>2, <1>5, <2>1 DEF x, q
<1>6. CASE ~(AccessInForce(c) /\ q[Len(q)] = x)
  <2>1. Synced(c, Features(t)) = Append(q, x)
    BY <1>6 DEF Synced, x, q
  <2>2. QED BY <1>2, <1>3, <1>4, <2>1 DEF x, q
<1>7. QED BY <1>5, <1>6

\* Where no role loses a version, what names one goes on naming one.
LEMMA Grown ==
  ASSUME RolesInv, RolesInv', \A c \in AccessCode : Len(accessRole'[c]) >= Len(accessRole[c])
  PROVE  Made \subseteq Made' /\ Lasting \subseteq Lasting'
<1>1. \A c \in AccessCode : Len(accessRole[c]) \in Nat /\ Len(accessRole'[c]) \in Nat
  BY DEF RolesInv
<1>2. \A h \in Made : h \in AccessCode \X Nat /\ h[1] \in AccessCode /\ h[2] \in Nat /\ h[2] \in 1..Len(accessRole[h[1]])
  BY DEF Made
<1>3. \A h \in Made : h[2] \in 1..Len(accessRole'[h[1]])
  BY <1>1, <1>2
<1>4. QED BY <1>2, <1>3 DEF Made, Lasting

\* The last version of a role that has one.
LEMMA LatestMade ==
  ASSUME RolesInv, NEW c \in AccessCode, accessRole[c] # <<>>
  PROVE  Latest(c) \in Made /\ Latest(c)[1] = c
<1>1. Len(accessRole[c]) \in Nat /\ Len(accessRole[c]) > 0
  BY DEF RolesInv
<1>2. QED BY <1>1 DEF Latest, Made

\* A renamed version has its code, and exists among the versions now.
LEMMA RenamedMade ==
  ASSUME RolesInv, RolesInv', \A c \in AccessCode : Len(accessRole'[c]) >= Len(accessRole[c]), NEW h \in Made
  PROVE  Renamed(h, accessRole') \in Made' /\ Renamed(h, accessRole')[1] = h[1]
<1>1. h \in AccessCode \X Nat /\ h[1] \in AccessCode /\ h[2] \in 1..Len(accessRole[h[1]])
  BY DEF Made
<1>2. Len(accessRole[h[1]]) \in Nat /\ Len(accessRole'[h[1]]) \in Nat
  BY <1>1 DEF RolesInv
<1>3. Len(accessRole'[h[1]]) \in 1..Len(accessRole'[h[1]])
  BY <1>1, <1>2
<1>4. CASE Current(h)
  <2>1. Renamed(h, accessRole') = <<h[1], Len(accessRole'[h[1]])>>
    BY <1>4 DEF Renamed
  <2>2. QED BY <1>1, <1>2, <1>3, <2>1 DEF Made
<1>5. CASE ~Current(h)
  <2>1. Renamed(h, accessRole') = h
    BY <1>5 DEF Renamed
  <2>2. QED BY <2>1, Grown
<1>6. QED BY <1>4, <1>5

LEMMA AccessInitInv == AccessInit => AccessInv
<1> SUFFICES ASSUME AccessInit PROVE AccessInv
  OBVIOUS
<1>1. RolesInv
  <2>1. \A c \in AccessCode : accessRole[c] \in Seq(Permissions)
    BY PermitsAll DEF AccessInit
  <2>2. QED BY <2>1 DEF AccessInit, RolesInv, AccessCode
<1>2. SwitchesInv /\ CompanyInv /\ ReplacingInv /\ InvitationsInv
  BY DEF AccessInit, SwitchesInv, CompanyInv, ReplacingInv, InvitationsInv, Invited, AccessFree, Has, In, Absent
<1>3. MembersInv
  <2>1. accessRole["LEGACY"] # <<>> /\ Latest("LEGACY") = <<"LEGACY", 1>> /\ "LEGACY" \in AccessCode
    BY DEF AccessInit, Latest, AccessCode
  <2>2. <<"LEGACY", 1>> \in Made
    BY <1>1, <2>1, LatestMade
  <2>3. QED BY <2>2 DEF AccessInit, MembersInv, MemberRow
<1>4. UserFollows
  <2>1. \A o \in Override : ~Has(Committed, o)
    BY DEF AccessInit, Committed, In, Has, Absent
  <2>2. Features(Committed) = AccessFeature
    BY <2>1 DEF Features
  <2>3. accessRole["USER"] = <<AccessPermits("USER", AccessFeature)>>
    BY DEF AccessInit, AccessCode
  <2>4. QED BY <2>2, <2>3 DEF UserFollows
<1>5. QED BY <1>1, <1>2, <1>3, <1>4 DEF AccessInv

\* Where neither roles nor overrides change.
LEMMA RolesKept ==
  ASSUME AccessInv, UNCHANGED <<accessRole, retired, override>>
  PROVE  RolesInv' /\ SwitchesInv' /\ UserFollows' /\ Made' = Made /\ Lasting' = Lasting
<1>1. Made' = Made /\ Lasting' = Lasting
  BY DEF Made, Lasting
<1>2. RolesInv' /\ SwitchesInv'
  BY DEF AccessInv, RolesInv, SwitchesInv
<1>3. Committed' = Committed
  BY DEF Committed
<1>4. Features(Committed') = Features(Committed)
  BY <1>3
<1>5. QED BY <1>1, <1>2, <1>4 DEF AccessInv, UserFollows

LEMMA CompanyKept == ASSUME AccessInv, UNCHANGED <<accessRole, override, company>> PROVE CompanyInv'
BY DEF AccessInv, CompanyInv, Made

LEMMA MembersKept == ASSUME AccessInv, UNCHANGED <<accessRole, retired, accessMember>> PROVE MembersInv'
BY DEF AccessInv, MembersInv, MemberRow, Made, Lasting

LEMMA InvitationsKept == ASSUME AccessInv, UNCHANGED <<accessRole, invitation>> PROVE InvitationsInv'
<1>1. Lasting' = Lasting
  BY DEF Made, Lasting
<1>2. QED BY <1>1 DEF AccessInv, InvitationsInv

\* No member is taken away, and no version.
LEMMA ReplacingKept ==
  ASSUME AccessInv, UNCHANGED replacing, Lasting \subseteq Lasting',
         \A p \in Person : Has(accessMember, p) => Has(accessMember', p)
  PROVE  ReplacingInv'
BY DEF AccessInv, ReplacingInv

\* Where neither roles nor members change.
LEMMA ReplacingStays == ASSUME AccessInv, UNCHANGED <<accessRole, accessMember, replacing>> PROVE ReplacingInv'
<1>1. Lasting' = Lasting
  BY DEF Made, Lasting
<1>2. QED BY <1>1, ReplacingKept

\* Where only an invitation i changes, to row.
LEMMA OneInvitation ==
  ASSUME AccessInv, UNCHANGED <<accessRole>>, NEW i \in Invitation, NEW offer \in InvitedRow,
         invitation' = [invitation EXCEPT ![i] = offer],
         ~(offer.accepted /\ offer.revoked), offer.status = "OPEN" => ~offer.accepted /\ ~offer.revoked
  PROVE  InvitationsInv'
<1>1. Lasting' = Lasting
  BY DEF Lasting, Made
<1>2. invitation \in [Invitation -> InvitedRow \cup {Absent}]
  BY DEF AccessInv, InvitationsInv, Invited, InvitedRow
<1>3. invitation' \in [Invitation -> InvitedRow \cup {Absent}] /\ invitation'[i] = offer
      /\ \A x \in Invitation : x # i => invitation'[x] = invitation[x]
  BY <1>2
<1>4. \A x \in Invitation : Has(invitation', x) => ~(invitation'[x].accepted /\ invitation'[x].revoked)
  BY <1>3 DEF AccessInv, InvitationsInv, Invited, Has
<1>5. \A x \in Invitation : In(invitation', x, {"OPEN"}) => ~invitation'[x].accepted /\ ~invitation'[x].revoked
  BY <1>3 DEF AccessInv, InvitationsInv, Invited, In
<1>6. Invited(invitation', Lasting)
  BY <1>3, <1>4, <1>5 DEF Invited, InvitedRow
<1>7. QED BY <1>1, <1>6 DEF InvitationsInv

\* An invitation that is there is a row.
LEMMA InvitedThere == ASSUME AccessInv, NEW i \in Invitation, Has(invitation, i) PROVE invitation[i] \in InvitedRow
BY DEF AccessInv, InvitationsInv, Invited, InvitedRow, Has, Absent

LEMMA MemberThere == ASSUME AccessInv, NEW p \in Person, Has(accessMember, p) PROVE accessMember[p] \in MemberRow
BY DEF AccessInv, MembersInv, Has, Absent

LEMMA AppendFeatureOverrideStep ==
  ASSUME AccessInv, NEW o \in Override, AppendFeatureOverride(o) PROVE AccessInv'
<1> DEFINE at == Cardinality({x \in Override : Has(override, x)}) + 1
<1>1. override' = [override EXCEPT ![o] = [status |-> "OPEN", at |-> at]] /\ ~Has(override, o)
      /\ UNCHANGED <<accessRole, retired, accessMember, invitation, company, replacing>>
  BY DEF AppendFeatureOverride
<1> HIDE DEF at
<1>2. DOMAIN override = Override
  BY DEF AccessInv, SwitchesInv
<1>3. override'[o] = [status |-> "OPEN", at |-> at] /\ \A x \in Override : x # o => override'[x] = override[x]
  BY <1>1, <1>2
<1>4. SwitchesInv'
  BY <1>1, <1>3 DEF AccessInv, SwitchesInv
<1>5. RolesInv' /\ MembersInv' /\ ReplacingInv' /\ InvitationsInv'
  BY <1>1, MembersKept, ReplacingStays, InvitationsKept DEF AccessInv, RolesInv
<1>6. CompanyInv'
  BY <1>1, <1>3 DEF AccessInv, CompanyInv, Has, Made, Absent
<1>7. Committed' = Committed
  BY <1>1, <1>3 DEF Committed, In, Has
<1>8. Features(Committed') = Features(Committed)
  BY <1>7
<1>9. UserFollows'
  BY <1>1, <1>8 DEF AccessInv, UserFollows
<1>10. QED BY <1>4, <1>5, <1>6, <1>9 DEF AccessInv

\* What is undone was never committed.
LEMMA UndoSwitchStep ==
  ASSUME AccessInv, NEW o \in Override, UndoSwitch(o) PROVE AccessInv'
<1>1. override' = [override EXCEPT ![o].status = "LOST"] /\ In(override, o, {"OPEN"}) /\ DOMAIN override = Override
      /\ UNCHANGED <<accessRole, retired, accessMember, invitation, company, replacing>>
  BY DEF UndoSwitch, Appended, Moved, AccessInv, SwitchesInv
<1>2. override[o] = [status |-> override[o].status, at |-> override[o].at]
  BY <1>1 DEF AccessInv, SwitchesInv, In, Absent
<1>3. override'[o] = [status |-> "LOST", at |-> override[o].at] /\ \A x \in Override : x # o => override'[x] = override[x]
  BY <1>1, <1>2
<1>4. SwitchesInv'
  BY <1>1, <1>3 DEF AccessInv, SwitchesInv
<1>5. RolesInv' /\ MembersInv' /\ ReplacingInv' /\ InvitationsInv'
  BY <1>1, MembersKept, ReplacingStays, InvitationsKept DEF AccessInv, RolesInv
<1>6. CompanyInv'
  BY <1>1, <1>3 DEF AccessInv, CompanyInv, Has, Made, Absent
<1>7. Committed' = Committed
  BY <1>1, <1>3 DEF Committed, In
<1>8. Features(Committed') = Features(Committed)
  BY <1>7
<1>9. UserFollows'
  BY <1>1, <1>8 DEF AccessInv, UserFollows
<1>10. QED BY <1>4, <1>5, <1>6, <1>9 DEF AccessInv

LEMMA LockCompanyStep ==
  ASSUME AccessInv, NEW x \in Override \cup Invitation, LockCompany(x) PROVE AccessInv'
<1>1. UNCHANGED <<override, accessRole, retired, accessMember, invitation, replacing>>
      /\ company'.for = x /\ company'.holds = [p \in Person |-> IF Has(accessMember, p) THEN accessMember[p].holds ELSE {}]
  BY DEF LockCompany
<1>2. \A p \in Person : company'.holds[p] \subseteq Made
  BY <1>1, MemberThere DEF MemberRow
<1>3. x \in Invitation \/ (x \in Override /\ Has(override, x))
  BY DEF LockCompany, Appended, Has, In
<1>4. CompanyInv'
  BY <1>1, <1>2, <1>3, RolesKept DEF CompanyInv, Has
<1>5. QED BY <1>1, <1>4, RolesKept, MembersKept, ReplacingStays, InvitationsKept DEF AccessInv

-----------------------------------------------------------------------------
\* An invitation that is issued withdraws others, and brings versions that last.
LEMMA IssuedTable ==
  ASSUME NEW table, NEW some, Invited(table, some), NEW i \in Invitation, NEW kind \in {"EMPLOYEE", "COMPANY_ADMIN"},
         NEW roles \in SUBSET some
  PROVE  Invited(Issued(table, i, kind, roles), some)
<1> DEFINE new == [status |-> "OPEN", kind |-> kind, roles |-> roles, reading |-> {}, accepted |-> FALSE, revoked |-> FALSE]
           gone(x) == [table[x] EXCEPT !.status = "DONE", !.revoked = TRUE]
           next == Issued(table, i, kind, roles)
<1>1. next = [x \in Invitation |-> IF x = i THEN new
                ELSE IF Has(table, x) /\ For[x] = For[i] /\ ~table[x].accepted THEN gone(x) ELSE table[x]]
  BY DEF Issued
<1>2. new \in InvitedRows(some) /\ ~new.accepted /\ ~new.revoked
  BY DEF InvitedRows
<1>3. ASSUME NEW x \in Invitation, Has(table, x), ~table[x].accepted
      PROVE  gone(x) \in InvitedRows(some) /\ gone(x).status = "DONE" /\ ~gone(x).accepted
  <2>1. table[x] \in InvitedRows(some)
    BY <1>3 DEF Invited, Has, Absent
  <2>2. QED BY <1>3, <2>1 DEF InvitedRows
<1> HIDE DEF new, gone, next
<1>4. ASSUME NEW x \in Invitation
      PROVE  /\ next[x] \in InvitedRows(some) \cup {Absent}
             /\ Has(next, x) => ~(next[x].accepted /\ next[x].revoked)
             /\ In(next, x, {"OPEN"}) => ~next[x].accepted /\ ~next[x].revoked
  <2>1. CASE x = i
    BY <1>1, <1>2, <2>1
  <2>2. CASE x # i /\ Has(table, x) /\ For[x] = For[i] /\ ~table[x].accepted
    BY <1>1, <1>3, <2>2 DEF In
  <2>3. CASE x # i /\ ~(Has(table, x) /\ For[x] = For[i] /\ ~table[x].accepted)
    BY <1>1, <2>3 DEF Invited, Has, In
  <2>4. QED BY <2>1, <2>2, <2>3
<1>5. next \in [Invitation -> InvitedRows(some) \cup {Absent}]
  BY <1>1, <1>4
<1>6. QED BY <1>4, <1>5 DEF Invited, next

LEMMA CreateInvitationStep ==
  ASSUME AccessInv, NEW i \in Invitation, NEW c \in AccessCode \ {"LEGACY"}, NEW v \in DOMAIN accessRole[c], CreateInvitation(i, c, v)
  PROVE  AccessInv'
<1>1. invitation' = Issued(invitation, i, "EMPLOYEE", {<<c, v>>})
      /\ UNCHANGED <<override, accessRole, retired, accessMember, company, replacing>>
  BY DEF CreateInvitation
<1>2. <<c, v>> \in Lasting
  <2>1. accessRole[c] \in Seq(Permissions)
    BY DEF AccessInv, RolesInv
  <2>2. v \in 1..Len(accessRole[c]) /\ v \in Nat
    BY <2>1
  <2>3. QED BY <2>2 DEF Lasting, Made
<1>3. {<<c, v>>} \in SUBSET Lasting /\ Invited(invitation, Lasting)
  BY <1>2 DEF AccessInv, InvitationsInv
<1>4. Invited(invitation', Lasting)
  BY <1>1, <1>3, IssuedTable
<1>5. Lasting' = Lasting
  BY <1>1, RolesKept
<1>6. InvitationsInv'
  BY <1>4, <1>5 DEF InvitationsInv
<1>7. QED BY <1>1, <1>6, RolesKept, CompanyKept, MembersKept, ReplacingStays DEF AccessInv

\* Withdrawn, expired, or read by whoever accepts it.
LEMMA InvitationStep ==
  ASSUME AccessInv, NEW i \in Invitation, RevokeInvitation(i) \/ ExpireInvitation(i) \/ ReadInvitation(i)
  PROVE  AccessInv'
<1>1. Has(invitation, i) /\ UNCHANGED <<override, accessRole, retired, accessMember, company, replacing>>
  BY DEF RevokeInvitation, ExpireInvitation, ReadInvitation, Pending, In, Has
<1>2. invitation[i] \in InvitedRow /\ ~(invitation[i].accepted /\ invitation[i].revoked)
      /\ (Pending(i) => ~invitation[i].accepted /\ ~invitation[i].revoked) /\ invitation \in [Invitation -> InvitedRow \cup {Absent}]
  BY <1>1, InvitedThere DEF AccessInv, InvitationsInv, Invited, InvitedRow, Pending
<1>3. InvitationsInv'
  <2>1. CASE RevokeInvitation(i)
    <3> DEFINE offer == [invitation[i] EXCEPT !.status = "DONE", !.revoked = TRUE]
    <3>1. invitation' = [invitation EXCEPT ![i] = offer] /\ ~invitation[i].accepted
      BY <1>2, <2>1 DEF RevokeInvitation
    <3>2. offer \in InvitedRow /\ offer.status = "DONE" /\ offer.accepted = invitation[i].accepted
      BY <1>2 DEF InvitedRow, InvitedRows
    <3> HIDE DEF offer
    <3>3. QED BY <1>1, <3>1, <3>2, OneInvitation
  <2>2. CASE ExpireInvitation(i)
    <3> DEFINE offer == [invitation[i] EXCEPT !.status = "DONE"]
    <3>1. invitation' = [invitation EXCEPT ![i] = offer]
      BY <1>2, <2>2 DEF ExpireInvitation, Moved
    <3>2. offer \in InvitedRow /\ offer.status = "DONE" /\ offer.accepted = invitation[i].accepted /\ offer.revoked = invitation[i].revoked
      BY <1>2 DEF InvitedRow, InvitedRows
    <3> HIDE DEF offer
    <3>3. QED BY <1>1, <1>2, <3>1, <3>2, OneInvitation
  <2>3. CASE ReadInvitation(i)
    <3> DEFINE offer == [invitation[i] EXCEPT !.reading = invitation[i].roles]
    <3>1. invitation' = [invitation EXCEPT ![i] = offer] /\ Pending(i)
      BY <1>2, <2>3 DEF ReadInvitation
    <3>2. offer \in InvitedRow /\ offer.accepted = invitation[i].accepted /\ offer.revoked = invitation[i].revoked
      BY <1>2 DEF InvitedRow, InvitedRows
    <3> HIDE DEF offer
    <3>3. QED BY <1>1, <1>2, <3>1, <3>2, OneInvitation
  <2>4. QED BY <2>1, <2>2, <2>3
<1>4. QED BY <1>1, <1>3, RolesKept, CompanyKept, MembersKept, ReplacingStays DEF AccessInv

\* Where members come to hold other versions, and whoever holds some keeps none of
\* the old administrators' role once it is retired.
LEMMA MembersAre ==
  ASSUME AccessInv, UNCHANGED <<override, accessRole, retired>>,
         accessMember' \in [Person -> MemberRow \cup {Absent}],
         "LEGACY" \in retired => \A p \in Person : Has(accessMember', p) => accessMember'[p].holds \subseteq Lasting
  PROVE  MembersInv'
<1>1. MemberRow' = MemberRow /\ Lasting' = Lasting
  BY DEF MemberRow, Lasting, Made
<1>2. QED BY <1>1 DEF MembersInv

\* The case in which one member changes.
LEMMA OneMember ==
  ASSUME AccessInv, UNCHANGED <<override, accessRole, retired>>, NEW p \in Person, NEW one \in MemberRow,
         accessMember' = [accessMember EXCEPT ![p] = one],
         "LEGACY" \in retired => one.holds \subseteq Lasting
  PROVE  MembersInv'
<1>1. accessMember \in [Person -> MemberRow \cup {Absent}]
  BY DEF AccessInv, MembersInv
<1>2. accessMember' \in [Person -> MemberRow \cup {Absent}] /\ accessMember'[p] = one
      /\ \A x \in Person : x # p => accessMember'[x] = accessMember[x]
  BY <1>1
<1>3. ASSUME "LEGACY" \in retired, NEW x \in Person, Has(accessMember', x) PROVE accessMember'[x].holds \subseteq Lasting
  BY <1>2, <1>3 DEF AccessInv, MembersInv, Has
<1>4. QED BY <1>2, <1>3, MembersAre

LEMMA AcceptInvitationStep ==
  ASSUME AccessInv, AccessAssumption, NEW i \in Invitation, AcceptInvitation(i) PROVE AccessInv'
<1> DEFINE p == For[i]
           offer == [invitation[i] EXCEPT !.status = "DONE", !.reading = {}, !.accepted = TRUE]
           one == [status |-> "ACTIVE",
                   holds |-> (IF Has(accessMember, p) THEN accessMember[p].holds ELSE {}) \cup invitation[i].reading]
<1>1. Pending(i) /\ Has(invitation, i) /\ UNCHANGED <<override, accessRole, retired, company, replacing>>
  BY DEF AcceptInvitation, Pending, In, Has
<1>2. invitation[i] \in InvitedRow /\ ~invitation[i].revoked /\ p \in Person /\ invitation \in [Invitation -> InvitedRow \cup {Absent}]
  BY <1>1, InvitedThere DEF AccessInv, InvitationsInv, Invited, InvitedRow, Pending, AccessAssumption
<1>3. invitation' = [invitation EXCEPT ![i] = offer]
  BY <1>2 DEF AcceptInvitation
<1>4. offer \in InvitedRow /\ offer.status = "DONE" /\ offer.revoked = invitation[i].revoked
  BY <1>2 DEF InvitedRow, InvitedRows
<1>5. accessMember \in [Person -> MemberRow \cup {Absent}]
  BY DEF AccessInv, MembersInv
<1>6. accessMember' = [accessMember EXCEPT ![p] = one]
  BY <1>2, <1>5 DEF AcceptInvitation
<1>7. invitation[i].reading \subseteq Lasting /\ Lasting \subseteq Made
  BY <1>2 DEF InvitedRow, InvitedRows, Lasting
<1>8. one \in MemberRow
  BY <1>2, <1>7, MemberThere DEF MemberRow
<1>9. "LEGACY" \in retired => one.holds \subseteq Lasting
  BY <1>2, <1>7 DEF AccessInv, MembersInv
<1> HIDE DEF p, offer, one
<1>10. MembersInv'
  BY <1>1, <1>2, <1>6, <1>8, <1>9, OneMember
<1>11. InvitationsInv'
  BY <1>1, <1>2, <1>3, <1>4, OneInvitation
<1>12. ReplacingInv'
  <2>1. \A x \in Person : Has(accessMember, x) => Has(accessMember', x)
    BY <1>2, <1>5, <1>6, <1>8 DEF Has, MemberRow, Absent
  <2>2. QED BY <1>1, <2>1, RolesKept, ReplacingKept
<1>13. QED BY <1>1, <1>10, <1>11, <1>12, RolesKept, CompanyKept DEF AccessInv

LEMMA EndRolesStep ==
  ASSUME AccessInv, NEW p \in Person, NEW actor \in Person, NEW codes \in SUBSET {"ADMIN", "USER"}, EndRoles(p, actor, codes)
  PROVE  AccessInv'
<1>1. /\ Has(accessMember, p) /\ \A c \in codes : AccessInForce(c)
      /\ replacing' = [status |-> "ENDED", for |-> p, was |-> accessMember[p].holds, roles |-> {Latest(c) : c \in codes}]
      /\ UNCHANGED <<override, accessRole, retired, accessMember, invitation, company>>
  BY DEF EndRoles
<1>2. \A c \in codes : Latest(c) \in Lasting
  BY <1>1, LatestMade DEF AccessInForce, AccessInv, Lasting, AccessCode
<1>3. Lasting' = Lasting
  BY <1>1, RolesKept
<1>4. ReplacingInv'
  BY <1>1, <1>2, <1>3 DEF ReplacingInv
<1>5. QED BY <1>1, <1>4, RolesKept, CompanyKept, MembersKept, InvitationsKept DEF AccessInv

LEMMA ReplaceMembershipRolesStep == ASSUME AccessInv, ReplaceMembershipRoles PROVE AccessInv'
<1> DEFINE p == replacing.for
           one == [accessMember[p] EXCEPT !.holds = (@ \ replacing.was) \cup replacing.roles]
<1>1. replacing # AccessIdle /\ replacing' = AccessIdle /\ UNCHANGED <<override, accessRole, retired, invitation, company>>
  BY DEF ReplaceMembershipRoles
<1>2. p \in Person /\ Has(accessMember, p) /\ replacing.roles \subseteq Lasting
  BY <1>1 DEF AccessInv, ReplacingInv
<1>3. accessMember[p] \in MemberRow /\ accessMember \in [Person -> MemberRow \cup {Absent}]
  BY <1>2, MemberThere DEF AccessInv, MembersInv
<1>4. accessMember' = [accessMember EXCEPT ![p] = one]
  BY <1>3 DEF ReplaceMembershipRoles
<1>5. replacing.roles \subseteq Made
  BY <1>2 DEF Lasting
<1>6. one \in MemberRow /\ one.holds \subseteq accessMember[p].holds \cup replacing.roles
  BY <1>3, <1>5 DEF MemberRow
<1>7. "LEGACY" \in retired => one.holds \subseteq Lasting
  BY <1>2, <1>6 DEF AccessInv, MembersInv
<1> HIDE DEF p, one
<1>8. MembersInv'
  BY <1>1, <1>2, <1>4, <1>6, <1>7, OneMember
<1>9. ReplacingInv'
  BY <1>1 DEF ReplacingInv
<1>10. QED BY <1>1, <1>8, <1>9, RolesKept, CompanyKept, InvitationsKept DEF AccessInv

LEMMA SetMembershipStatusStep ==
  ASSUME AccessInv, NEW p \in Person, NEW actor \in Person, SetMembershipStatus(p, actor) PROVE AccessInv'
<1>1. Has(accessMember, p) /\ UNCHANGED <<override, accessRole, retired, invitation, company, replacing>>
  BY DEF SetMembershipStatus
<1>2. accessMember[p] \in MemberRow /\ accessMember \in [Person -> MemberRow \cup {Absent}]
  BY <1>1, MemberThere DEF AccessInv, MembersInv
<1>3. PICK to \in {"ACTIVE", "SUSPENDED", "TERMINATED"} : accessMember' = Moved(accessMember, p, to)
  BY DEF SetMembershipStatus
<1> DEFINE one == [accessMember[p] EXCEPT !.status = to]
<1>4. accessMember' = [accessMember EXCEPT ![p] = one]
  BY <1>2, <1>3 DEF Moved
<1>5. one \in MemberRow /\ one.holds = accessMember[p].holds
  BY <1>2 DEF MemberRow
<1>6. "LEGACY" \in retired => one.holds \subseteq Lasting
  BY <1>1, <1>5 DEF AccessInv, MembersInv
<1> HIDE DEF one
<1>7. MembersInv'
  BY <1>1, <1>4, <1>5, <1>6, OneMember
<1>8. ReplacingInv'
  <2>1. \A x \in Person : Has(accessMember, x) => Has(accessMember', x)
    BY <1>2, <1>4, <1>5 DEF Has, MemberRow, Absent
  <2>2. QED BY <1>1, <2>1, RolesKept, ReplacingKept
<1>9. QED BY <1>1, <1>7, <1>8, RolesKept, CompanyKept, InvitationsKept DEF AccessInv

LEMMA TransferStep ==
  ASSUME AccessInv, NEW p \in Person, TransferPrimaryCompanyAdmin(p) PROVE AccessInv'
<1> DEFINE next == [accessMember[p] EXCEPT !.holds = @ \cup {Latest("ADMIN"), Latest("USER")}]
           last(x) == [accessMember[x] EXCEPT !.holds = {held \in @ : held[1] \notin Administering}]
<1>1. /\ Has(accessMember, p) /\ AccessInForce("ADMIN") /\ AccessInForce("USER")
      /\ UNCHANGED <<override, accessRole, retired, invitation, company, replacing>>
      /\ accessMember' = [x \in Person |-> IF x = p THEN next
                            ELSE IF x = primary /\ Has(accessMember, x) THEN last(x) ELSE accessMember[x]]
  BY DEF TransferPrimaryCompanyAdmin, AccessActive, In, Has
<1>2. Latest("ADMIN") \in Lasting /\ Latest("USER") \in Lasting /\ Latest("ADMIN") \in Made /\ Latest("USER") \in Made
  BY <1>1, LatestMade DEF AccessInForce, AccessInv, Lasting, AccessCode
<1>3. next \in MemberRow /\ next.holds = accessMember[p].holds \cup {Latest("ADMIN"), Latest("USER")}
  BY <1>1, <1>2, MemberThere DEF MemberRow
<1>4. ASSUME NEW x \in Person, Has(accessMember, x) PROVE last(x) \in MemberRow /\ last(x).holds \subseteq accessMember[x].holds
  <2>1. accessMember[x] \in MemberRow
    BY <1>4, MemberThere
  <2>2. QED BY <2>1 DEF MemberRow
<1> HIDE DEF next, last
<1>5. ASSUME NEW x \in Person PROVE accessMember'[x] \in MemberRow \cup {Absent}
  BY <1>1, <1>3, <1>4 DEF AccessInv, MembersInv
<1>6. ASSUME "LEGACY" \in retired, NEW x \in Person, Has(accessMember', x) PROVE accessMember'[x].holds \subseteq Lasting
  <2>1. \A y \in Person : Has(accessMember, y) => accessMember[y].holds \subseteq Lasting
    BY <1>6 DEF AccessInv, MembersInv
  <2>2. QED BY <1>1, <1>2, <1>3, <1>4, <1>6, <2>1 DEF Has
<1>7. accessMember' \in [Person -> MemberRow \cup {Absent}]
  BY <1>1, <1>5
<1>8. MembersInv'
  BY <1>1, <1>6, <1>7, MembersAre
<1>9. ReplacingInv'
  <2>1. \A x \in Person : Has(accessMember, x) => Has(accessMember', x)
    BY <1>1, <1>3, <1>4 DEF Has, MemberRow, Absent
  <2>2. QED BY <1>1, <2>1, RolesKept, ReplacingKept
<1>10. QED BY <1>1, <1>8, <1>9, RolesKept, CompanyKept, InvitationsKept DEF AccessInv

\* Where roles get further versions, what names one stays.
LEMMA RolesGrew ==
  ASSUME AccessInv, RolesInv', \A c \in AccessCode : Len(accessRole'[c]) >= Len(accessRole[c])
  PROVE  /\ Made \subseteq Made' /\ Lasting \subseteq Lasting'
         /\ InvitedRow \subseteq InvitedRow' /\ MemberRow \subseteq MemberRow'
         /\ \A h \in Made : Renamed(h, accessRole') \in Made' /\ Renamed(h, accessRole')[1] = h[1]
         /\ \A h \in Lasting : Renamed(h, accessRole') \in Lasting'
<1>1. Made \subseteq Made' /\ Lasting \subseteq Lasting'
  BY Grown DEF AccessInv
<1>2. \A h \in Made : Renamed(h, accessRole') \in Made' /\ Renamed(h, accessRole')[1] = h[1]
  BY RenamedMade DEF AccessInv
<1>3. \A h \in Lasting : Renamed(h, accessRole') \in Lasting'
  BY <1>2 DEF Lasting
<1>4. MemberRow \subseteq MemberRow'
  BY <1>1 DEF MemberRow
<1>5. InvitedRow \subseteq InvitedRow'
  BY <1>1 DEF InvitedRow, InvitedRows
<1>6. QED BY <1>1, <1>2, <1>3, <1>4, <1>5

LEMMA SetMembershipManagedAccessStep ==
  ASSUME AccessInv, NEW p \in Person, SetMembershipManagedAccess(p) PROVE AccessInv'
<1>1. Has(accessMember, p) /\ UNCHANGED <<override, retired, invitation, company, replacing>>
  BY DEF SetMembershipManagedAccess
<1>2. PICK c \in {"MANAGED", "NONE"} :
        LET now == [accessRole EXCEPT ![c] = Synced(c, Features(Committed))] IN
        /\ accessRole' = now
        /\ accessMember' = [x \in Person |->
             IF x = p THEN [accessMember[p] EXCEPT !.holds = {<<c, Len(now[c])>>}]
             ELSE IF Has(accessMember, x) THEN [accessMember[x] EXCEPT !.holds = {Renamed(held, now) : held \in @}] ELSE accessMember[x]]
  BY DEF SetMembershipManagedAccess
<1> DEFINE one == [accessMember[p] EXCEPT !.holds = {<<c, Len(accessRole'[c])>>}]
           renamed(x) == [accessMember[x] EXCEPT !.holds = {Renamed(held, accessRole') : held \in @}]
<1>3. /\ accessRole' = [accessRole EXCEPT ![c] = Synced(c, Features(Committed))]
      /\ accessMember' = [x \in Person |-> IF x = p THEN one ELSE IF Has(accessMember, x) THEN renamed(x) ELSE accessMember[x]]
  BY <1>2
<1>4. c \in AccessCode /\ c # "USER" /\ c # "ADMIN" /\ c # "LEGACY"
  BY DEF AccessCode
<1>5. LET s == Synced(c, Features(Committed)) IN
      s \in Seq(Permissions) /\ Len(s) >= Len(accessRole[c]) /\ Len(s) > 0 /\ s # <<>>
  BY <1>4, SyncedRole DEF AccessInv
<1>6. /\ accessRole' \in [AccessCode -> Seq(Permissions)]
      /\ accessRole'[c] = Synced(c, Features(Committed))
      /\ \A d \in AccessCode : d # c => accessRole'[d] = accessRole[d]
  BY <1>3, <1>4, <1>5 DEF AccessInv, RolesInv
<1>7. accessRole'["USER"] = accessRole["USER"] /\ accessRole'["ADMIN"] = accessRole["ADMIN"]
  BY <1>4, <1>6 DEF AccessCode
<1>8. RolesInv'
  BY <1>1, <1>6, <1>7 DEF AccessInv, RolesInv
<1>9. \A d \in AccessCode : Len(accessRole'[d]) >= Len(accessRole[d])
  <2>1. \A d \in AccessCode : Len(accessRole[d]) \in Nat
    BY DEF AccessInv, RolesInv
  <2>2. QED BY <1>5, <1>6, <2>1
<1>10. UserFollows'
  <2>1. Committed' = Committed
    BY <1>1 DEF Committed
  <2>2. Features(Committed') = Features(Committed)
    BY <2>1
  <2>3. QED BY <1>7, <2>2 DEF AccessInv, UserFollows
<1>11. <<c, Len(accessRole'[c])>> \in Lasting' /\ <<c, Len(accessRole'[c])>> \in Made'
  BY <1>4, <1>5, <1>6 DEF Lasting, Made
<1>12. one \in MemberRow' /\ one.holds \subseteq Lasting'
  <2>1. accessMember[p] \in MemberRow
    BY <1>1, MemberThere
  <2>2. QED BY <1>11, <2>1 DEF MemberRow
<1>13. ASSUME NEW x \in Person, Has(accessMember, x)
       PROVE  renamed(x) \in MemberRow' /\ (accessMember[x].holds \subseteq Lasting => renamed(x).holds \subseteq Lasting')
  <2>1. accessMember[x] \in MemberRow
    BY <1>13, MemberThere
  <2>2. /\ \A h \in Made : Renamed(h, accessRole') \in Made'
        /\ \A h \in Lasting : Renamed(h, accessRole') \in Lasting'
    BY <1>8, <1>9, RolesGrew
  <2>3. QED BY <2>1, <2>2 DEF MemberRow
<1> HIDE DEF one, renamed
<1>14. ASSUME NEW x \in Person PROVE accessMember'[x] \in MemberRow' \cup {Absent}
  <2>1. CASE x = p
    BY <1>3, <1>12, <2>1
  <2>2. CASE x # p /\ Has(accessMember, x)
    BY <1>3, <1>13, <2>2
  <2>3. CASE x # p /\ ~Has(accessMember, x)
    <3>1. accessMember[x] \in MemberRow \cup {Absent}
      BY DEF AccessInv, MembersInv
    <3>2. accessMember[x] = Absent
      BY <2>3, <3>1 DEF MemberRow, Has
    <3>3. QED BY <1>3, <2>3, <3>2
  <2>4. QED BY <2>1, <2>2, <2>3
<1>15. ASSUME "LEGACY" \in retired, NEW x \in Person, Has(accessMember', x) PROVE accessMember'[x].holds \subseteq Lasting'
  <2>1. \A y \in Person : Has(accessMember, y) => accessMember[y].holds \subseteq Lasting
    BY <1>15 DEF AccessInv, MembersInv
  <2>2. QED BY <1>3, <1>12, <1>13, <1>15, <2>1 DEF Has
<1>16. accessMember' \in [Person -> MemberRow' \cup {Absent}]
  BY <1>3, <1>14
<1>17. MembersInv'
  BY <1>1, <1>15, <1>16 DEF MembersInv
<1>18. CompanyInv'
  BY <1>1, <1>8, <1>9, RolesGrew DEF AccessInv, CompanyInv
<1>19. InvitationsInv'
  <2>1. InvitedRow \subseteq InvitedRow'
    BY <1>8, <1>9, RolesGrew
  <2>2. QED BY <1>1, <2>1 DEF AccessInv, InvitationsInv, Invited, InvitedRow
<1>20. SwitchesInv'
  BY <1>1 DEF AccessInv, SwitchesInv
<1>21. ReplacingInv'
  <2>1. \A x \in Person : Has(accessMember, x) => Has(accessMember', x)
    BY <1>3, <1>12, <1>13 DEF Has, MemberRow, Absent
  <2>2. Lasting \subseteq Lasting'
    BY <1>8, <1>9, RolesGrew
  <2>3. QED BY <1>1, <2>1, <2>2, ReplacingKept
<1>22. QED BY <1>8, <1>10, <1>17, <1>18, <1>19, <1>20, <1>21 DEF AccessInv

\* The reconciliation x leaves versions, members and invitations as they are to be.
LEMMA Reconciles ==
  ASSUME AccessAssumption, AccessInv, NEW x \in Override \cup Invitation, Reconcile(x), Features(Committed') = Features(OwnAnd(x))
  PROVE  LET now == Republished(x) IN
         /\ RolesInv' /\ CompanyInv' /\ MembersInv' /\ ReplacingInv' /\ UserFollows'
         /\ <<"USER", Len(now["USER"])>> \in Lasting' /\ <<"ADMIN", Len(now["ADMIN"])>> \in Lasting'
         /\ Invited(AlignedWith(now), Lasting')
<1> DEFINE features == Features(OwnAnd(x))
           synced(c) == c \in {"ADMIN", "USER"} \/ (c \in {"MANAGED", "NONE"} /\ AccessInForce(c))
           now == Republished(x)
           held(p) == [accessMember[p] EXCEPT !.holds = Reconciled(p, now)]
           aligned(i) == [invitation[i] EXCEPT !.roles = Aligned(i, now)]
           table == AlignedWith(now)
<1>1. /\ company.for = x /\ accessRole' = now /\ company' = AccessFree /\ retired' = retired \cup {"LEGACY"}
      /\ accessMember' = [p \in Person |-> IF Has(accessMember, p) THEN held(p) ELSE accessMember[p]]
      /\ table = [i \in Invitation |-> IF Pending(i) THEN aligned(i) ELSE invitation[i]]
      /\ UNCHANGED replacing
  BY DEF Reconcile, AlignedWith
<1>2. x # Nobody /\ \A p \in Person : company.holds[p] \subseteq Made
  BY <1>1 DEF AccessAssumption, AccessInv, CompanyInv
<1>20. now = [c \in AccessCode |-> IF synced(c) THEN Synced(c, features) ELSE accessRole[c]]
  BY DEF Republished
<1> HIDE DEF now, table
\* The roles.
<1>3. \A c \in AccessCode : LET s == Synced(c, features) IN
        /\ s \in Seq(Permissions) /\ Len(s) >= Len(accessRole[c]) /\ s # <<>> /\ Len(s) > 0
        /\ s[Len(s)] = AccessPermits(c, features)
  BY SyncedRole DEF AccessInv
<1>4. \A c \in AccessCode : now[c] \in Seq(Permissions) /\ Len(now[c]) >= Len(accessRole[c])
  <2>1. \A c \in AccessCode : accessRole[c] \in Seq(Permissions) /\ Len(accessRole[c]) \in Nat
    BY DEF AccessInv, RolesInv
  <2> HIDE DEF features, synced
  <2>2. QED BY <1>3, <1>20, <2>1
<1>5. /\ now["USER"] = Synced("USER", features) /\ now["ADMIN"] = Synced("ADMIN", features)
      /\ now["USER"] # <<>> /\ now["ADMIN"] # <<>> /\ Len(now["USER"]) > 0 /\ Len(now["ADMIN"]) > 0
      /\ now["USER"][Len(now["USER"])] = AccessPermits("USER", features)
  <2>1. "USER" \in AccessCode /\ "ADMIN" \in AccessCode /\ synced("USER") /\ synced("ADMIN")
    BY DEF AccessCode
  <2>2. now["USER"] = Synced("USER", features) /\ now["ADMIN"] = Synced("ADMIN", features)
    BY <1>20, <2>1
  <2> HIDE DEF features, synced
  <2>3. QED BY <1>3, <2>1, <2>2
<1>6. now \in [AccessCode -> Seq(Permissions)]
  <2> HIDE DEF features, synced
  <2>1. QED BY <1>4, <1>20
<1> HIDE DEF features
<1>7. RolesInv'
  BY <1>1, <1>5, <1>6 DEF AccessInv, RolesInv
<1>8. /\ Made \subseteq Made' /\ Lasting \subseteq Lasting'
      /\ InvitedRow \subseteq InvitedRow' /\ MemberRow \subseteq MemberRow'
      /\ \A h \in Made : Renamed(h, now) \in Made' /\ Renamed(h, now)[1] = h[1]
      /\ \A h \in Lasting : Renamed(h, now) \in Lasting'
  <2>1. \A c \in AccessCode : Len(accessRole'[c]) >= Len(accessRole[c])
    BY <1>1, <1>4
  <2>2. QED BY <1>1, <1>7, <2>1, RolesGrew
<1>9. <<"USER", Len(now["USER"])>> \in Lasting' /\ <<"ADMIN", Len(now["ADMIN"])>> \in Lasting'
  <2>1. "USER" \in AccessCode /\ "ADMIN" \in AccessCode /\ Len(now["USER"]) \in Nat /\ Len(now["ADMIN"]) \in Nat
    BY <1>6 DEF AccessCode
  <2>2. Len(now["USER"]) \in 1..Len(now["USER"]) /\ Len(now["ADMIN"]) \in 1..Len(now["ADMIN"])
    BY <1>5, <2>1
  <2>3. QED BY <1>1, <2>1, <2>2 DEF Lasting, Made
<1>13. UserFollows'
  BY <1>1, <1>5 DEF UserFollows, features
<1>14. CompanyInv'
  BY <1>1 DEF CompanyInv, AccessFree
\* The members.
<1>15. ASSUME NEW p \in Person, Has(accessMember, p) PROVE held(p) \in MemberRow' /\ held(p).holds \subseteq Lasting'
  <2>1. accessMember[p] \in MemberRow /\ accessMember[p].holds \subseteq Made
    BY <1>15, MemberThere DEF MemberRow
  <2>2. Reconciled(p, now) \subseteq Lasting'
    <3> DEFINE was == company.holds[p]
               due == CASE p \in company.admins -> {"ADMIN", "USER"} [] p \in company.active /\ was = {} -> {"USER"} [] OTHER -> {}
               kept == (accessMember[p].holds \ was) \cup {Renamed(h, now) : h \in was}
    <3>1. Reconciled(p, now) = {h \in kept : h[1] # "LEGACY"} \cup {<<c, Len(now[c])>> : c \in due}
      BY DEF Reconciled
    <3>2. due \subseteq {"ADMIN", "USER"}
      OBVIOUS
    <3>3. kept \subseteq Made'
      BY <1>2, <1>8, <2>1
    <3> HIDE DEF due, kept
    <3>4. {h \in kept : h[1] # "LEGACY"} \subseteq Lasting'
      BY <3>3 DEF Lasting
    <3>5. {<<c, Len(now[c])>> : c \in due} \subseteq Lasting'
      BY <1>9, <3>2
    <3>6. QED BY <3>1, <3>4, <3>5
  <2>3. Lasting' \subseteq Made'
    BY DEF Lasting
  <2>4. QED BY <2>1, <2>2, <2>3 DEF MemberRow
<1>16. ASSUME NEW i \in Invitation, Pending(i)
       PROVE  /\ aligned(i) \in InvitedRow' /\ aligned(i).accepted = invitation[i].accepted
              /\ aligned(i).revoked = invitation[i].revoked
  <2>1. invitation[i] \in InvitedRow
    <3>1. Has(invitation, i)
      BY <1>16 DEF Pending, In, Has
    <3>2. QED BY <3>1, InvitedThere
  <2>2. \A h \in invitation[i].roles : Renamed(h, now) \in Lasting'
    BY <1>8, <2>1 DEF InvitedRow, InvitedRows
  <2>3. Aligned(i, now) \subseteq Lasting'
    BY <1>9, <2>2 DEF Aligned
  <2>4. invitation[i] \in InvitedRow'
    BY <1>8, <2>1
  <2>5. QED BY <2>3, <2>4 DEF InvitedRow, InvitedRows
<1> HIDE DEF held, aligned
<1>17. ASSUME NEW p \in Person
       PROVE  accessMember'[p] \in MemberRow' \cup {Absent} /\ (Has(accessMember', p) => accessMember'[p].holds \subseteq Lasting')
  <2>1. CASE Has(accessMember, p)
    BY <1>1, <1>15, <2>1
  <2>2. CASE ~Has(accessMember, p)
    <3>1. accessMember[p] \in MemberRow \cup {Absent}
      BY DEF AccessInv, MembersInv
    <3>2. accessMember[p] = Absent
      BY <2>2, <3>1 DEF MemberRow, Has
    <3>3. QED BY <1>1, <2>2, <3>2 DEF Has
  <2>3. QED BY <2>1, <2>2
<1>18. MembersInv'
  <2>1. accessMember' \in [Person -> MemberRow' \cup {Absent}]
    BY <1>1, <1>17
  <2>2. QED BY <1>17, <2>1 DEF MembersInv
\* The invitations.
<1>19. ASSUME NEW i \in Invitation
       PROVE  /\ table[i] \in InvitedRow' \cup {Absent}
              /\ Has(table, i) => ~(table[i].accepted /\ table[i].revoked)
              /\ In(table, i, {"OPEN"}) => ~table[i].accepted /\ ~table[i].revoked
  <2>1. CASE Pending(i)
    <3>1. ~invitation[i].accepted /\ ~invitation[i].revoked
      BY <2>1 DEF AccessInv, InvitationsInv, Invited, Pending
    <3>2. QED BY <1>1, <1>16, <2>1, <3>1
  <2>2. CASE ~Pending(i)
    <3>1. invitation[i] \in InvitedRow \cup {Absent} /\ table[i] = invitation[i]
      BY <1>1, <2>2 DEF AccessInv, InvitationsInv, Invited, InvitedRow
    <3>2. QED BY <1>8, <2>2, <3>1 DEF AccessInv, InvitationsInv, Invited, Has, In, Pending
  <2>3. QED BY <2>1, <2>2
<1>21. Invited(table, Lasting')
  <2>1. table \in [Invitation -> InvitedRow' \cup {Absent}]
    BY <1>1, <1>19
  <2>2. QED BY <1>19, <2>1 DEF Invited, InvitedRow
<1>22. ReplacingInv'
  <2>1. \A p \in Person : Has(accessMember, p) => Has(accessMember', p)
    BY <1>1, <1>15 DEF Has, MemberRow, Absent
  <2>2. QED BY <1>1, <1>8, <2>1, ReplacingKept
<1>23. QED BY <1>7, <1>9, <1>13, <1>14, <1>18, <1>21, <1>22 DEF now, table

LEMMA ReconcileStep ==
  ASSUME AccessAssumption, AccessInv, NEW o \in Override, ReconcileStandardCompanyAccess(o) PROVE AccessInv'
<1>1. Reconcile(o) /\ override' = [override EXCEPT ![o].status = "SET"] /\ invitation' = AlignedWith(Republished(o))
  BY DEF ReconcileStandardCompanyAccess, Moved
<1>2. Has(override, o)
  BY <1>1 DEF Reconcile, AccessAssumption, AccessInv, CompanyInv
<1>3. /\ override'[o] = [status |-> "SET", at |-> override[o].at]
      /\ \A x \in Override : x # o => override'[x] = override[x]
      /\ DOMAIN override' = Override
  <2>1. override[o] = [status |-> override[o].status, at |-> override[o].at] /\ DOMAIN override = Override
    BY <1>2 DEF AccessInv, SwitchesInv, Has, Absent
  <2>2. QED BY <1>1, <2>1
<1>4. SwitchesInv'
  BY <1>3 DEF AccessInv, SwitchesInv
<1>5. Features(Committed') = Features(OwnAnd(o))
  <2>1. \A x \in Override : Has(Committed', x) <=> Has(OwnAnd(o), x)
    BY <1>2, <1>3 DEF Committed, OwnAnd, Has, In, Absent
  <2>2. \A x \in Override : Has(Committed', x) => Committed'[x].at = OwnAnd(o)[x].at
    BY <1>2, <1>3 DEF Committed, OwnAnd, Has, In, Absent
  <2>3. QED BY <2>1, <2>2 DEF Features
<1>6. QED BY <1>1, <1>4, <1>5, Reconciles DEF AccessInv, InvitationsInv

LEMMA RegeneratePrimaryStep ==
  ASSUME AccessAssumption, AccessInv, NEW i \in Invitation, RegeneratePrimaryAdminInvitation(i) PROVE AccessInv'
<1> DEFINE now == Republished(i)
           roles == {<<"ADMIN", Len(now["ADMIN"])>>, <<"USER", Len(now["USER"])>>}
<1>1. Reconcile(i) /\ UNCHANGED override /\ invitation' = Issued(AlignedWith(now), i, "COMPANY_ADMIN", roles)
  BY DEF RegeneratePrimaryAdminInvitation
<1>2. Features(Committed') = Features(OwnAnd(i))
  <2>1. i \notin Override
    BY DEF AccessAssumption
  <2>2. Committed' = OwnAnd(i)
    BY <1>1, <2>1 DEF Committed, OwnAnd
  <2>3. QED BY <2>2
<1>3. RolesInv' /\ CompanyInv' /\ MembersInv' /\ ReplacingInv' /\ UserFollows' /\ Invited(AlignedWith(now), Lasting')
      /\ roles \in SUBSET Lasting'
  BY <1>1, <1>2, Reconciles
<1> HIDE DEF now, roles
<1>4. Invited(invitation', Lasting')
  BY <1>1, <1>3, IssuedTable
<1>5. SwitchesInv'
  BY <1>1 DEF AccessInv, SwitchesInv
<1>6. QED BY <1>3, <1>4, <1>5 DEF AccessInv, InvitationsInv

LEMMA AccessStep ==
  ASSUME AccessAssumption, AccessInv, [AccessNext]_accessVars PROVE AccessInv'
<1>1. ASSUME NEW o \in Override, AppendFeatureOverride(o) \/ UndoSwitch(o) \/ ReconcileStandardCompanyAccess(o) PROVE AccessInv'
  BY <1>1, AppendFeatureOverrideStep, UndoSwitchStep, ReconcileStep
<1>2. ASSUME NEW i \in Invitation, InviteEmployee(i) \/ RegenerateCompanyUserInvitation(i) \/ RegeneratePrimaryAdminInvitation(i)
      PROVE  AccessInv'
  <2>1. CASE InviteEmployee(i)
    <3>1. PICK c \in {"USER", "MANAGED", "NONE"} : \E v \in DOMAIN accessRole[c] : CreateInvitation(i, c, v)
      BY <2>1 DEF InviteEmployee
    <3>2. c \in AccessCode \ {"LEGACY"}
      BY DEF AccessCode
    <3>3. QED BY <3>1, <3>2, CreateInvitationStep
  <2>2. CASE RegenerateCompanyUserInvitation(i)
    <3>1. CreateInvitation(i, "USER", Len(accessRole["USER"])) /\ accessRole["USER"] # <<>>
      BY <2>2 DEF RegenerateCompanyUserInvitation, AccessInForce
    <3>2. "USER" \in AccessCode \ {"LEGACY"} /\ accessRole["USER"] \in Seq(Permissions)
      BY DEF AccessCode, AccessInv, RolesInv
    <3>3. Len(accessRole["USER"]) \in DOMAIN accessRole["USER"]
      BY <3>1, <3>2
    <3>4. QED BY <3>1, <3>2, <3>3, CreateInvitationStep
  <2>3. QED BY <1>2, <2>1, <2>2, RegeneratePrimaryStep
<1>3. ASSUME NEW i \in Invitation, RevokeInvitation(i) \/ ExpireInvitation(i) \/ ReadInvitation(i) \/ AcceptInvitation(i)
      PROVE  AccessInv'
  BY <1>3, InvitationStep, AcceptInvitationStep
<1>4. ASSUME NEW p \in Person, SetMembershipManagedAccess(p) \/ TransferPrimaryCompanyAdmin(p) PROVE AccessInv'
  BY <1>4, SetMembershipManagedAccessStep, TransferStep
<1>5. ASSUME NEW p \in Person, NEW actor \in Person, SetMembershipStatus(p, actor) PROVE AccessInv'
  BY <1>5, SetMembershipStatusStep
<1>6. ASSUME NEW p \in Person, NEW actor \in Person, NEW codes \in SUBSET {"ADMIN", "USER"}, EndRoles(p, actor, codes)
      PROVE  AccessInv'
  BY <1>6, EndRolesStep
<1>7. CASE UNCHANGED accessVars
  <2>1. UNCHANGED <<override, accessRole, retired, accessMember, invitation, company, replacing>>
    BY <1>7 DEF accessVars
  <2>2. QED BY <2>1, RolesKept, CompanyKept, MembersKept, ReplacingStays, InvitationsKept DEF AccessInv
<1>8. QED BY <1>1, <1>2, <1>3, <1>4, <1>5, <1>6, <1>7, LockCompanyStep, ReplaceMembershipRolesStep DEF AccessNext

\* The role of every user permits what the company has and nothing else, whatever
\* switches, invitations and changes by hand overlap; no member holds a version
\* that does not exist, although members are read before roles are replaced; no
\* invitation is both accepted and withdrawn; the old administrators' role is
\* nobody's once it is retired.
THEOREM AccessRolesFollowFeatures == ASSUME AccessAssumption PROVE AccessSpec => []RolesFollowFeatures
<1>1. AccessSpec => []AccessInv
  BY AccessInitInv, AccessStep, PTL DEF AccessSpec
<1>2. ASSUME AccessInv PROVE RolesFollowFeatures
  <2>1. ASSUME NEW p \in Person, Has(accessMember, p)
        PROVE  /\ \A held \in accessMember[p].holds : held[2] \in 1..Len(accessRole[held[1]])
               /\ "LEGACY" \in retired => "LEGACY" \notin Held(p)
    <3>1. accessMember[p].holds \subseteq Made
      BY <1>2, <2>1, MemberThere DEF MemberRow
    <3>2. "LEGACY" \in retired => accessMember[p].holds \subseteq Lasting
      BY <1>2, <2>1 DEF AccessInv, MembersInv
    <3>3. QED BY <3>1, <3>2 DEF Made, Lasting, Held
  <2>2. QED BY <1>2, <2>1 DEF AccessInv, UserFollows, InvitationsInv, Invited, RolesFollowFeatures
<1>3. QED BY <1>1, <1>2, PTL

-----------------------------------------------------------------------------
(* Levels.  What a version of a role may permit at most is fixed by its    *)
(* key; the roles in force of a member in the matrix are those of the      *)
(* levels set last, or fewer.                                              *)

\* What any version of a role permits at most.
Ceiling(key) ==
  IF key = User THEN LevelCode
  ELSE IF key \in {NoAccess, LevelCustom} THEN {}
  ELSE Filtered({p \in LevelCode : Of[p] = key[1]}, key[2])

\* The keys that levels may bring.
Allowed(levels) ==
  {<<x, levels[x]>> : x \in LevelArea} \cup {<<Shared, l>> : l \in Level} \cup {NoAccess}
  \cup {k \in {User} : \A x \in LevelArea : levels[x] = "FULL"}

\* Every area that levels open has its key among these.
Covers(keys, levels) == \A x \in LevelArea : levels[x] # "NONE" => <<x, levels[x]>> \in keys

CellRow == [status : {"ACTIVE"}, holds : SUBSET (Keys \X Nat), set : [LevelArea -> Level]]

Changing(t) ==
  /\ t.member \in Member /\ t.levels \in [LevelArea -> Level]
  /\ t.keys \subseteq Keys /\ t.keys \subseteq Allowed(t.levels) /\ Covers(t.keys, t.levels)
  /\ t.stale \subseteq t.keys /\ \A k \in t.keys \ t.stale : levelRole[k] # <<>>
Syncing(t) == t.key \in Keys \ {User, LevelCustom} /\ t.codes \subseteq Ceiling(t.key)

CallsInv ==
  /\ DOMAIN call = LevelCaller
  /\ \A c \in LevelCaller :
       /\ call[c].status = "CHANGE" => Changing(call[c])
       /\ call[c].status \in {"SYNC", "FOUND"} => Syncing(call[c])
       /\ call[c].status = "FOUND" => call[c].holders \subseteq Member
       /\ call[c].status = "CUSTOM" => call[c].member \in Member

KeysHeld(m) == {h[1] : h \in levelMember[m].holds}

CellsInv ==
  /\ levelEnabled \subseteq LevelFeature /\ overtaken \subseteq {"HOLDERS", "FEATURES"}
  /\ levelRole \in [Keys -> Seq(SUBSET LevelCode)] /\ levelRole[LevelCustom] # <<>>
  /\ \A k \in Keys : \A n \in DOMAIN levelRole[k] : levelRole[k][n] \subseteq Ceiling(k)
  /\ levelMember \in [Member -> CellRow]
  /\ \A m \in Member : \A h \in levelMember[m].holds : h[2] \in 1..Len(levelRole[h[1]])

InLine == \A k \in Keys \ {LevelCustom} : levelRole[k] = <<>> \/ ~OutOfLine(k, LevelPermits(k, levelEnabled))

MatrixInv ==
  /\ CellsInv /\ CallsInv
  /\ "HOLDERS" \notin overtaken => \A m \in Member : InMatrix(m) => ActiveKeys(m) \subseteq Allowed(levelMember[m].set)
  /\ overtaken = {} =>
       /\ InLine
       /\ \A m \in Member : InMatrix(m) => User \in KeysHeld(m) \/ Covers(KeysHeld(m), levelMember[m].set)

LEMMA KeyFacts ==
  ASSUME ManagedAccessAssumption
  PROVE  /\ {User, NoAccess, LevelCustom} \subseteq Keys /\ User # NoAccess /\ User # LevelCustom /\ NoAccess # LevelCustom
         /\ \A x \in LevelArea \cup {Shared}, l \in Level \ {"NONE"} : <<x, l>> \in Keys
         /\ \A x \in LevelArea \cup {Shared}, l \in Level : <<x, l>> \notin {User, NoAccess, LevelCustom}
         /\ \A levels \in [LevelArea -> Level] : LevelCustom \notin Allowed(levels)
  BY DEF ManagedAccessAssumption, Keys, User, NoAccess, LevelCustom, Allowed, Shared

LEMMA PermitsBelow ==
  ASSUME NEW k \in Keys, NEW features PROVE LevelPermits(k, features) \subseteq Ceiling(k) /\ Ceiling(k) \subseteq LevelCode
  BY DEF LevelPermits, Ceiling, Filtered, Package

LEMMA CellThere ==
  ASSUME CellsInv, NEW m \in Member
  PROVE  /\ levelMember[m] \in CellRow /\ levelMember[m].set \in [LevelArea -> Level]
         /\ \A h \in levelMember[m].holds :
              /\ h \in Keys \X Nat /\ h = <<h[1], h[2]>> /\ h[1] \in Keys /\ h[2] \in 1..Len(levelRole[h[1]])
<1>1. levelMember[m] \in CellRow
  BY DEF CellsInv
<1>2. QED BY <1>1 DEF CellsInv, CellRow

\* The next versions of some roles, and those of their holders.
LEMMA NextVersions ==
  ASSUME CellsInv, NEW keys \in SUBSET (Keys \ {LevelCustom}), NEW features, levelRole' = NextVersion(keys, features)
  PROVE  /\ levelRole' \in [Keys -> Seq(SUBSET LevelCode)]
         /\ \A k \in Keys : \A n \in DOMAIN levelRole'[k] : levelRole'[k][n] \subseteq Ceiling(k)
         /\ \A k \in Keys : k \notin keys => levelRole'[k] = levelRole[k]
         /\ \A k \in keys : /\ Len(levelRole'[k]) = Len(levelRole[k]) + 1 /\ levelRole'[k] # <<>>
                            /\ levelRole'[k][Len(levelRole'[k])] = LevelPermits(k, features)
         /\ \A k \in Keys : Len(levelRole[k]) \in Nat
<1>1. \A k \in Keys : levelRole[k] \in Seq(SUBSET LevelCode)
  BY DEF CellsInv
<1>2. ASSUME NEW k \in keys
      PROVE  /\ levelRole'[k] \in Seq(SUBSET LevelCode) /\ levelRole'[k] # <<>>
             /\ Len(levelRole'[k]) = Len(levelRole[k]) + 1
             /\ levelRole'[k][Len(levelRole'[k])] = LevelPermits(k, features)
             /\ \A n \in DOMAIN levelRole'[k] : levelRole'[k][n] \subseteq Ceiling(k)
  <2> DEFINE codes == LevelPermits(k, features)
             s == levelRole[k]
  <2>1. k \in Keys /\ codes \in SUBSET LevelCode /\ codes \subseteq Ceiling(k)
    BY PermitsBelow
  <2>2. s \in Seq(SUBSET LevelCode) /\ \A n \in DOMAIN s : s[n] \subseteq Ceiling(k)
    BY <2>1 DEF CellsInv
  <2>3. levelRole'[k] = Append(s, codes)
    BY <2>1 DEF NextVersion
  <2> HIDE DEF codes, s
  <2>4. /\ Append(s, codes) \in Seq(SUBSET LevelCode) /\ Len(Append(s, codes)) = Len(s) + 1 /\ Len(s) \in Nat
        /\ Append(s, codes)[Len(s) + 1] = codes /\ \A n \in 1..Len(s) : Append(s, codes)[n] = s[n]
        /\ DOMAIN s = 1..Len(s) /\ DOMAIN Append(s, codes) = 1..(Len(s) + 1)
    BY <2>1, <2>2
  <2>5. Append(s, codes) # <<>>
    BY <2>4
  <2>6. \A n \in 1..(Len(s) + 1) : n \in 1..Len(s) \/ n = Len(s) + 1
    BY <2>4
  <2>7. \A n \in DOMAIN Append(s, codes) : Append(s, codes)[n] \subseteq Ceiling(k)
    BY <2>1, <2>2, <2>4, <2>6
  <2>8. QED BY <2>3, <2>4, <2>5, <2>7 DEF codes, s
<1>3. \A k \in Keys : k \notin keys => levelRole'[k] = levelRole[k]
  BY DEF NextVersion
<1>4. DOMAIN levelRole' = Keys /\ levelRole' = [k \in Keys |-> levelRole'[k]]
  BY DEF NextVersion
<1>5. \A k \in Keys : levelRole'[k] \in Seq(SUBSET LevelCode) /\ \A n \in DOMAIN levelRole'[k] : levelRole'[k][n] \subseteq Ceiling(k)
  BY <1>1, <1>2, <1>3 DEF CellsInv
<1>6. levelRole' \in [Keys -> Seq(SUBSET LevelCode)]
  BY <1>4, <1>5
<1>7. \A k \in Keys : Len(levelRole[k]) \in Nat
  BY <1>1
<1>8. QED BY <1>2, <1>3, <1>5, <1>6, <1>7

LEMMA Moves ==
  ASSUME CellsInv, NEW keys \in SUBSET (Keys \ {LevelCustom}), NEW features, levelRole' = NextVersion(keys, features),
         NEW m \in Member, levelMember'[m] = [levelMember[m] EXCEPT !.holds = MovedOn(keys, m)]
  PROVE  /\ levelMember'[m] \in CellRow /\ \A h \in levelMember'[m].holds : h[2] \in 1..Len(levelRole'[h[1]])
         /\ levelMember'[m].set = levelMember[m].set /\ ActiveKeys(m)' = ActiveKeys(m) /\ KeysHeld(m)' = KeysHeld(m)
<1> DEFINE holds == levelMember[m].holds
           last(h) == IF h[1] \in keys /\ LevelInForce(h) THEN <<h[1], h[2] + 1>> ELSE h
<1>1. /\ levelMember[m] \in CellRow
      /\ \A h \in holds : h \in Keys \X Nat /\ h = <<h[1], h[2]>> /\ h[1] \in Keys /\ h[2] \in 1..Len(levelRole[h[1]])
  BY CellThere
<1>2. /\ \A k \in Keys : k \notin keys => levelRole'[k] = levelRole[k]
      /\ \A k \in keys : Len(levelRole'[k]) = Len(levelRole[k]) + 1
      /\ \A k \in Keys : Len(levelRole[k]) \in Nat
  BY NextVersions
<1>3. MovedOn(keys, m) = {last(h) : h \in holds}
  BY DEF MovedOn
<1>4. levelMember'[m].holds = {last(h) : h \in holds} /\ levelMember'[m].set = levelMember[m].set /\ levelMember'[m].status = levelMember[m].status
  BY <1>1, <1>3 DEF CellRow
<1>5. ASSUME NEW h \in holds
      PROVE  /\ last(h) \in Keys \X Nat /\ last(h)[1] = h[1] /\ last(h)[2] \in 1..Len(levelRole'[h[1]])
             /\ (last(h)[2] = Len(levelRole'[h[1]])) <=> LevelInForce(h)
  <2>1. h \in Keys \X Nat /\ h = <<h[1], h[2]>> /\ h[1] \in Keys /\ h[2] \in 1..Len(levelRole[h[1]]) /\ Len(levelRole[h[1]]) \in Nat
    BY <1>1, <1>2
  <2>2. CASE h[1] \in keys /\ LevelInForce(h)
    <3>1. last(h) = <<h[1], h[2] + 1>> /\ h[2] = Len(levelRole[h[1]])
      BY <2>2 DEF LevelInForce
    <3>2. QED BY <1>2, <2>1, <2>2, <3>1
  <2>3. CASE h[1] \in keys /\ ~LevelInForce(h)
    <3>1. last(h) = h /\ h[2] # Len(levelRole[h[1]])
      BY <2>3 DEF LevelInForce
    <3>2. Len(levelRole'[h[1]]) = Len(levelRole[h[1]]) + 1
      BY <1>2, <2>3
    <3>3. QED BY <2>1, <2>3, <3>1, <3>2
  <2>4. CASE h[1] \notin keys
    <3>1. last(h) = h /\ levelRole'[h[1]] = levelRole[h[1]]
      BY <1>2, <2>1, <2>4
    <3>2. QED BY <2>1, <3>1 DEF LevelInForce
  <2>5. QED BY <2>2, <2>3, <2>4
<1> HIDE DEF last
<1>6. levelMember'[m].holds \in SUBSET (Keys \X Nat) /\ \A h \in levelMember'[m].holds : h[2] \in 1..Len(levelRole'[h[1]])
  BY <1>4, <1>5
<1>7. levelMember'[m] \in CellRow
  <2>1. levelMember'[m] = [levelMember[m] EXCEPT !.holds = levelMember'[m].holds]
    BY <1>1, <1>3, <1>4 DEF CellRow
  <2>2. QED BY <1>1, <1>6, <2>1 DEF CellRow
<1>8. ActiveKeys(m)' = ActiveKeys(m)
  <2>1. ActiveKeys(m)' = {h[1] : h \in {g \in levelMember'[m].holds : g[2] = Len(levelRole'[g[1]])}}
    BY DEF ActiveKeys, LevelActive, LevelInForce
  <2>2. ActiveKeys(m) = {h[1] : h \in {g \in holds : LevelInForce(g)}}
    BY DEF ActiveKeys, LevelActive
  <2>3. \A h \in holds : last(h)[1] = h[1] /\ ((last(h)[2] = Len(levelRole'[last(h)[1]])) <=> LevelInForce(h))
    BY <1>5
  <2>4. QED BY <1>4, <2>1, <2>2, <2>3
<1>9. KeysHeld(m)' = KeysHeld(m)
  BY <1>4, <1>5 DEF KeysHeld
<1>10. QED BY <1>4, <1>6, <1>7, <1>8, <1>9

\* Requests under way, when versions are only added.
LEMMA CallsStay ==
  ASSUME CallsInv, DOMAIN call' = LevelCaller, \A c \in LevelCaller : call'[c] = call[c] \/ call'[c] = LevelIdle,
         \A k \in Keys : levelRole[k] # <<>> => levelRole'[k] # <<>>
  PROVE  CallsInv'
<1>1. \A c \in LevelCaller : call'[c].status \in {"CHANGE", "SYNC", "FOUND", "CUSTOM"} => call'[c] = call[c]
  BY DEF LevelIdle
<1>2. ASSUME NEW c \in LevelCaller
      PROVE  /\ call'[c].status = "CHANGE" => Changing(call[c])'
             /\ call'[c].status \in {"SYNC", "FOUND"} => Syncing(call[c])'
             /\ call'[c].status = "FOUND" => call'[c].holders \subseteq Member
             /\ call'[c].status = "CUSTOM" => call'[c].member \in Member
  <2>1. CASE call'[c] = call[c]
    <3>1. call[c].status = "CHANGE" => Changing(call[c])'
      BY <2>1 DEF CallsInv, Changing
    <3>2. call[c].status \in {"SYNC", "FOUND"} => Syncing(call[c])'
      BY <2>1 DEF CallsInv, Syncing
    <3>3. QED BY <2>1, <3>1, <3>2 DEF CallsInv
  <2>2. CASE call'[c] = LevelIdle
    BY <2>2 DEF LevelIdle
  <2>3. QED BY <2>1, <2>2
<1>3. QED BY <1>2 DEF CallsInv

LEMMA MatrixInit == ManagedAccessAssumption /\ LevelInit => MatrixInv
<1> SUFFICES ASSUME ManagedAccessAssumption, LevelInit PROVE MatrixInv
  OBVIOUS
<1> DEFINE start == [k \in Keys |-> IF k \in {User, LevelCustom} THEN <<LevelPermits(k, LevelFeature)>> ELSE <<>>]
           cell == [status |-> "ACTIVE", holds |-> {<<User, 1>>}, set |-> [x \in LevelArea |-> "FULL"]]
<1>1. /\ levelRole = start /\ levelMember = [m \in Member |-> cell] /\ overtaken = {} /\ levelEnabled = LevelFeature
      /\ call = [c \in LevelCaller |-> LevelIdle]
  BY DEF LevelInit
<1>2. User \in Keys /\ LevelCustom \in Keys /\ User # LevelCustom
  BY KeyFacts
<1>3. \A k \in Keys : LevelPermits(k, LevelFeature) \in SUBSET LevelCode /\ LevelPermits(k, LevelFeature) \subseteq Ceiling(k)
  BY PermitsBelow
<1>4. \A k \in Keys : /\ levelRole[k] \in Seq(SUBSET LevelCode)
                      /\ \A n \in DOMAIN levelRole[k] : levelRole[k][n] \subseteq Ceiling(k)
                      /\ levelRole[k] = <<>> \/ ~OutOfLine(k, LevelPermits(k, levelEnabled))
  <2> TAKE k \in Keys
  <2> DEFINE codes == LevelPermits(k, LevelFeature)
  <2>1. codes \in SUBSET LevelCode /\ codes \subseteq Ceiling(k)
    BY <1>3
  <2>2. levelRole[k] = IF k \in {User, LevelCustom} THEN <<codes>> ELSE <<>>
    BY <1>1
  <2> HIDE DEF codes
  <2>3. CASE levelRole[k] = <<codes>>
    <3>1. Len(<<codes>>) = 1 /\ DOMAIN <<codes>> = {1} /\ <<codes>>[1] = codes /\ <<codes>> \in Seq(SUBSET LevelCode)
      BY <2>1
    <3>2. ~OutOfLine(k, LevelPermits(k, levelEnabled))
      BY <1>1, <2>3, <3>1 DEF OutOfLine, codes
    <3>3. QED BY <2>1, <2>3, <3>1, <3>2
  <2>4. CASE levelRole[k] = <<>>
    BY <2>4
  <2>5. QED BY <2>2, <2>3, <2>4
<1>5. Len(levelRole[User]) = 1 /\ levelRole[LevelCustom] # <<>>
  <2>1. levelRole[User] = <<LevelPermits(User, LevelFeature)>> /\ levelRole[LevelCustom] = <<LevelPermits(LevelCustom, LevelFeature)>>
    BY <1>1, <1>2
  <2>2. QED BY <2>1
<1>6. levelRole \in [Keys -> Seq(SUBSET LevelCode)]
  BY <1>1, <1>4
<1>7. cell \in CellRow
  BY <1>2 DEF CellRow, ManagedAccessAssumption
<1>8. \A m \in Member : levelMember[m].holds = {<<User, 1>>} /\ levelMember[m].set = [x \in LevelArea |-> "FULL"]
  BY <1>1
<1>9. \A m \in Member : \A h \in levelMember[m].holds : h[1] = User /\ h[2] = 1
  BY <1>8
<1>10. CellsInv
  <2>1. levelMember \in [Member -> CellRow]
    BY <1>1, <1>7
  <2>2. \A m \in Member : \A h \in levelMember[m].holds : h[2] \in 1..Len(levelRole[h[1]])
    BY <1>5, <1>9
  <2>3. levelEnabled \subseteq LevelFeature /\ overtaken \subseteq {"HOLDERS", "FEATURES"}
    BY <1>1
  <2>4. QED BY <1>4, <1>5, <1>6, <2>1, <2>2, <2>3 DEF CellsInv
<1>11. CallsInv
  BY <1>1 DEF CallsInv, LevelIdle
<1>12. InLine
  BY <1>4 DEF InLine
<1>13. \A m \in Member : ActiveKeys(m) \subseteq {User} /\ User \in KeysHeld(m)
  BY <1>8, <1>9 DEF ActiveKeys, LevelActive, KeysHeld
<1>14. \A m \in Member : {User} \subseteq Allowed(levelMember[m].set)
  BY <1>8 DEF Allowed
<1>15. QED BY <1>10, <1>11, <1>12, <1>13, <1>14 DEF MatrixInv

\* What the property needs of the rows is kept while only requests change.
LEMMA CellsStay ==
  ASSUME MatrixInv, UNCHANGED <<levelEnabled, levelRole, levelMember, overtaken>>, CallsInv' PROVE MatrixInv'
<1>1. CellsInv' /\ InLine' = InLine
  BY DEF MatrixInv, CellsInv, InLine, OutOfLine
<1>2. \A m \in Member : ActiveKeys(m)' = ActiveKeys(m) /\ KeysHeld(m)' = KeysHeld(m) /\ InMatrix(m)' = InMatrix(m)
  BY DEF ActiveKeys, LevelActive, LevelInForce, KeysHeld, InMatrix
<1>3. QED BY <1>1, <1>2 DEF MatrixInv

LEMMA OneCall ==
  ASSUME CallsInv, NEW c \in LevelCaller, NEW t, call' = [call EXCEPT ![c] = t], UNCHANGED <<levelRole>>,
         t.status = "CHANGE" => Changing(t), t.status \in {"SYNC", "FOUND"} => Syncing(t),
         t.status = "FOUND" => t.holders \subseteq Member, t.status = "CUSTOM" => t.member \in Member
  PROVE  CallsInv'
<1>1. DOMAIN call' = LevelCaller /\ call'[c] = t /\ \A b \in LevelCaller : b # c => call'[b] = call[b]
  BY DEF CallsInv
<1>2. ASSUME NEW b \in LevelCaller
      PROVE  /\ call'[b].status = "CHANGE" => Changing(call[b])'
             /\ call'[b].status \in {"SYNC", "FOUND"} => Syncing(call[b])'
             /\ call'[b].status = "FOUND" => call'[b].holders \subseteq Member
             /\ call'[b].status = "CUSTOM" => call'[b].member \in Member
  <2>1. CASE b = c
    BY <1>1, <2>1 DEF Changing, Syncing
  <2>2. CASE b # c
    BY <1>1, <2>2 DEF CallsInv, Changing, Syncing
  <2>3. QED BY <2>1, <2>2
<1>3. QED BY <1>1, <1>2 DEF CallsInv

\* The highest of some levels.
LEMMA HighestLevel ==
  ASSUME NEW areas, areas # {}, NEW levels, DOMAIN levels = areas,
         \A x \in areas : levels[x] \in {"NONE", "VIEW", "EDIT", "FULL"}
  PROVE  /\ Highest(levels) \in {levels[x] : x \in DOMAIN levels}
         /\ Highest(levels) = "NONE" => \A x \in areas : levels[x] = "NONE"
<1> DEFINE S == {levels[x] : x \in DOMAIN levels}
           top(l) == \A x \in DOMAIN levels : Rank(levels[x]) <= Rank(l)
<1>1. S # {} /\ S \subseteq {"NONE", "VIEW", "EDIT", "FULL"} /\ \A x \in areas : levels[x] \in S
  OBVIOUS
<1>2. Rank("NONE") = 0 /\ Rank("VIEW") = 1 /\ Rank("EDIT") = 2 /\ Rank("FULL") = 3
  BY DEF Rank
<1>3. \E l \in S : top(l)
  <2>1. CASE "FULL" \in S
    BY <1>1, <1>2, <2>1
  <2>2. CASE "FULL" \notin S /\ "EDIT" \in S
    BY <1>1, <1>2, <2>2
  <2>3. CASE "FULL" \notin S /\ "EDIT" \notin S /\ "VIEW" \in S
    BY <1>1, <1>2, <2>3
  <2>4. CASE S = {"NONE"}
    BY <1>1, <1>2, <2>4
  <2>5. QED BY <1>1, <2>1, <2>2, <2>3, <2>4
<1>4. Highest(levels) \in S /\ top(Highest(levels))
  BY <1>3 DEF Highest
<1>5. QED BY <1>1, <1>2, <1>4

\* The keys that a change finds are those of the levels it sets.
LEMMA KeysOfLevels ==
  ASSUME ManagedAccessAssumption, NEW areas \in SUBSET LevelArea, areas # {}, NEW levels \in [LevelArea -> Level], NEW features
  PROVE  LET keys == KeysFor([x \in areas |-> levels[x]], features)
             new == [x \in LevelArea |-> IF x \in areas THEN levels[x] ELSE "NONE"]
         IN keys \subseteq Keys /\ keys \subseteq Allowed(new) /\ Covers(keys, new) /\ new \in [LevelArea -> Level]
<1> DEFINE asked == [x \in areas |-> levels[x]]
           keys == KeysFor(asked, features)
           new == [x \in LevelArea |-> IF x \in areas THEN levels[x] ELSE "NONE"]
           top == Highest(asked)
<1>1. Level \subseteq {"NONE", "VIEW", "EDIT", "FULL"} /\ "NONE" \in Level
  BY DEF ManagedAccessAssumption
<1>2. /\ DOMAIN asked = areas /\ \A x \in areas : asked[x] = levels[x] /\ new[x] = levels[x] /\ asked[x] \in Level
      /\ \A x \in LevelArea \ areas : new[x] = "NONE"
  BY <1>1
<1>3. new \in [LevelArea -> Level]
  BY <1>1
<1>4. top \in {asked[x] : x \in DOMAIN asked} /\ (top = "NONE" => \A x \in areas : asked[x] = "NONE")
  <2>1. \A x \in areas : asked[x] \in {"NONE", "VIEW", "EDIT", "FULL"}
    BY <1>1, <1>2
  <2> HIDE DEF asked
  <2>2. QED BY <1>2, <2>1, HighestLevel
<1>5. top \in Level
  BY <1>2, <1>4
<1>6. keys = IF top = "NONE" THEN {NoAccess}
             ELSE {<<x, asked[x]>> : x \in {y \in DOMAIN asked : asked[y] # "NONE"}}
                  \cup (IF LevelPermits(<<Shared, top>>, features) # {} THEN {<<Shared, top>>} ELSE {})
  BY DEF KeysFor
<1> HIDE DEF asked, keys, new, top
<1>7. CASE top = "NONE"
  <2>1. keys = {NoAccess} /\ \A x \in LevelArea : new[x] = "NONE"
    BY <1>2, <1>4, <1>6, <1>7
  <2>2. NoAccess \in Keys /\ NoAccess \in Allowed(new)
    BY KeyFacts DEF Allowed
  <2>3. QED BY <1>3, <2>1, <2>2 DEF Covers, asked, keys, new
<1>8. CASE top # "NONE"
  <2>1. /\ \A k \in keys : (\E x \in areas : k = <<x, new[x]>> /\ new[x] # "NONE") \/ k = <<Shared, top>>
        /\ \A x \in areas : new[x] # "NONE" => <<x, new[x]>> \in keys
    BY <1>2, <1>6, <1>8
  <2>2. \A x \in areas : new[x] # "NONE" => <<x, new[x]>> \in Keys
    BY <1>2, KeyFacts
  <2>3. <<Shared, top>> \in Keys
    BY <1>5, <1>8, KeyFacts
  <2>4. keys \subseteq Keys /\ keys \subseteq Allowed(new)
    BY <1>5, <2>1, <2>2, <2>3 DEF Allowed
  <2>5. Covers(keys, new)
    BY <1>2, <2>1 DEF Covers
  <2>6. QED BY <1>3, <2>4, <2>5 DEF asked, keys, new
<1>9. QED BY <1>7, <1>8

\* Requests find what they need, and leave the rows alone.
LEMMA FindingStep ==
  ASSUME ManagedAccessAssumption, MatrixInv, NEW c \in LevelCaller,
         \/ RefuseChange(c) \/ FindHolders(c) \/ \E k \in Keys : BeginSync(c, k)
         \/ \E m \in Member : EndLevels(c, m) \/ \E levels \in [LevelArea -> Level] : BeginChange(c, m, levels)
  PROVE  MatrixInv'
<1>1. CallsInv /\ CellsInv
  BY DEF MatrixInv
<1>2. CASE RefuseChange(c)
  <2>1. call' = [call EXCEPT ![c] = LevelIdle] /\ UNCHANGED <<levelEnabled, levelRole, levelMember, overtaken>>
    BY <1>2 DEF RefuseChange
  <2>2. LevelIdle.status = "IDLE"
    BY DEF LevelIdle
  <2>3. CallsInv'
    BY <1>1, <2>1, <2>2, OneCall
  <2>4. QED BY <2>1, <2>3, CellsStay
<1>3. CASE FindHolders(c)
  <2> DEFINE t == call[c]
             found == [status |-> "FOUND", key |-> t.key, codes |-> t.codes, at |-> Len(levelRole[t.key]),
                       holders |-> {x \in Member : LevelNewest(t.key) \in levelMember[x].holds}]
  <2>1. call' = [call EXCEPT ![c] = found] /\ UNCHANGED <<levelEnabled, levelRole, levelMember, overtaken>> /\ t.status = "SYNC"
    BY <1>3 DEF FindHolders
  <2>2. Syncing(t)
    BY <1>1, <2>1 DEF CallsInv
  <2>3. found.status = "FOUND" /\ found.key = t.key /\ found.codes = t.codes /\ found.holders \subseteq Member
    OBVIOUS
  <2>4. Syncing(found)
    BY <2>2, <2>3 DEF Syncing
  <2> HIDE DEF found
  <2>5. CallsInv'
    BY <1>1, <2>1, <2>3, <2>4, OneCall
  <2>6. QED BY <2>1, <2>5, CellsStay
<1>4. ASSUME NEW k \in Keys, BeginSync(c, k) PROVE MatrixInv'
  <2> DEFINE t == [status |-> "SYNC", key |-> k, codes |-> LevelPermits(k, levelEnabled)]
  <2>1. call' = [call EXCEPT ![c] = t] /\ UNCHANGED <<levelEnabled, levelRole, levelMember, overtaken>> /\ k \notin {User, LevelCustom}
    BY <1>4 DEF BeginSync
  <2>2. t.status = "SYNC" /\ t.key = k /\ t.codes \subseteq Ceiling(k)
    BY PermitsBelow
  <2>3. Syncing(t)
    BY <2>1, <2>2 DEF Syncing
  <2> HIDE DEF t
  <2>4. CallsInv'
    BY <1>1, <2>1, <2>2, <2>3, OneCall
  <2>5. QED BY <2>1, <2>4, CellsStay
<1>5. ASSUME NEW m \in Member, EndLevels(c, m) PROVE MatrixInv'
  <2> DEFINE t == [status |-> "CUSTOM", member |-> m, was |-> levelMember[m].holds]
  <2>1. call' = [call EXCEPT ![c] = t] /\ UNCHANGED <<levelEnabled, levelRole, levelMember, overtaken>>
    BY <1>5 DEF EndLevels
  <2>2. t.status = "CUSTOM" /\ t.member = m
    OBVIOUS
  <2> HIDE DEF t
  <2>3. CallsInv'
    BY <1>1, <2>1, <2>2, OneCall
  <2>4. QED BY <2>1, <2>3, CellsStay
<1>6. ASSUME NEW m \in Member, NEW levels \in [LevelArea -> Level], BeginChange(c, m, levels) PROVE MatrixInv'
  <2> DEFINE areas == Catalog(levelEnabled)
             keys == KeysFor([x \in areas |-> levels[x]], levelEnabled)
             new == [x \in LevelArea |-> IF x \in areas THEN levels[x] ELSE "NONE"]
             stale == {k \in keys : OutOfLine(k, LevelPermits(k, levelEnabled))}
             t == [status |-> "CHANGE", member |-> m, levels |-> new, keys |-> keys, stale |-> stale,
                   at |-> [k \in keys |-> Len(levelRole[k])]]
  <2>1. call' = [call EXCEPT ![c] = t] /\ UNCHANGED <<levelEnabled, levelRole, levelMember, overtaken>> /\ areas # {}
    BY <1>6 DEF BeginChange
  <2>2. areas \subseteq LevelArea
    BY DEF Catalog, Package, ManagedAccessAssumption
  <2>3. keys \subseteq Keys /\ keys \subseteq Allowed(new) /\ Covers(keys, new) /\ new \in [LevelArea -> Level]
    BY <2>1, <2>2, KeysOfLevels
  <2>4. t.status = "CHANGE" /\ t.member = m /\ t.levels = new /\ t.keys = keys /\ t.stale = stale
    OBVIOUS
  <2>5. stale \subseteq keys /\ \A k \in keys \ stale : ~OutOfLine(k, LevelPermits(k, levelEnabled))
    OBVIOUS
  <2> HIDE DEF t, keys, new, stale
  <2>6. \A k \in keys \ stale : levelRole[k] # <<>>
    <3> TAKE k \in keys \ stale
    <3>1. \E n \in DOMAIN levelRole[k] : n = Len(levelRole[k])
      BY <2>5 DEF OutOfLine
    <3>2. levelRole[k] \in Seq(SUBSET LevelCode)
      BY <1>1, <2>3 DEF CellsInv
    <3>3. QED BY <3>1, <3>2
  <2>7. Changing(t)
    BY <2>3, <2>4, <2>5, <2>6 DEF Changing
  <2>8. CallsInv'
    BY <1>1, <2>1, <2>4, <2>7, OneCall
  <2>9. QED BY <2>1, <2>8, CellsStay
<1>7. QED BY <1>2, <1>3, <1>4, <1>5, <1>6

\* The last version of each role is in line after those out of line have a next one.
LEMMA SwitchFeatureStep ==
  ASSUME ManagedAccessAssumption, MatrixInv, NEW x \in LevelFeature, SwitchFeature(x)
  PROVE  MatrixInv'
<1> DEFINE features == IF x \in levelEnabled THEN levelEnabled \ {x} ELSE levelEnabled \cup {x}
           old == {k \in Keys \ {LevelCustom} : levelRole[k] # <<>> /\ OutOfLine(k, LevelPermits(k, features))}
<1>1. /\ levelEnabled' = features /\ levelRole' = NextVersion(old, features)
      /\ levelMember' = [m \in Member |-> [levelMember[m] EXCEPT !.holds = MovedOn(old, m)]]
      /\ UNCHANGED <<call, overtaken>>
  BY DEF SwitchFeature
<1>2. CellsInv /\ CallsInv
  BY DEF MatrixInv
<1>3. features \subseteq LevelFeature
  BY <1>2 DEF CellsInv
<1>4. old \in SUBSET (Keys \ {LevelCustom})
  OBVIOUS
<1>5. \A k \in Keys \ {LevelCustom} : k \notin old => levelRole[k] = <<>> \/ ~OutOfLine(k, LevelPermits(k, features))
  OBVIOUS
<1> HIDE DEF features, old
<1>6. /\ levelRole' \in [Keys -> Seq(SUBSET LevelCode)]
      /\ \A k \in Keys : \A n \in DOMAIN levelRole'[k] : levelRole'[k][n] \subseteq Ceiling(k)
      /\ \A k \in Keys : k \notin old => levelRole'[k] = levelRole[k]
      /\ \A k \in old : levelRole'[k] # <<>> /\ levelRole'[k][Len(levelRole'[k])] = LevelPermits(k, features)
  BY <1>1, <1>2, <1>4, NextVersions
<1>7. ASSUME NEW m \in Member
      PROVE  /\ levelMember'[m] \in CellRow /\ \A h \in levelMember'[m].holds : h[2] \in 1..Len(levelRole'[h[1]])
             /\ levelMember'[m].set = levelMember[m].set /\ ActiveKeys(m)' = ActiveKeys(m) /\ KeysHeld(m)' = KeysHeld(m)
  <2>1. levelMember'[m] = [levelMember[m] EXCEPT !.holds = MovedOn(old, m)]
    BY <1>1
  <2>2. QED BY <1>1, <1>2, <1>4, <2>1, Moves
<1>8. CellsInv'
  <2>1. levelMember' \in [Member -> CellRow]
    BY <1>1, <1>7
  <2>2. levelRole'[LevelCustom] # <<>>
    BY <1>2, <1>4, <1>6, KeyFacts DEF CellsInv
  <2>3. QED BY <1>1, <1>2, <1>3, <1>6, <1>7, <2>1, <2>2 DEF CellsInv
<1>9. CallsInv'
  <2>1. \A k \in Keys : levelRole[k] # <<>> => levelRole'[k] # <<>>
    BY <1>6
  <2>2. DOMAIN call' = LevelCaller
    BY <1>1, <1>2 DEF CallsInv
  <2>3. QED BY <1>1, <1>2, <2>1, <2>2, CallsStay
<1>10. InLine'
  <2>1. ASSUME NEW k \in Keys \ {LevelCustom}
        PROVE levelRole'[k] = <<>> \/ \E n \in DOMAIN levelRole'[k] : n = Len(levelRole'[k]) /\ levelRole'[k][n] = LevelPermits(k, features)
    <3>1. CASE k \in old
      <4>1. levelRole'[k] \in Seq(SUBSET LevelCode)
        BY <1>6
      <4>2. Len(levelRole'[k]) \in DOMAIN levelRole'[k]
        BY <1>6, <3>1, <4>1
      <4>3. QED BY <1>6, <3>1, <4>2
    <3>2. CASE k \notin old
      BY <1>5, <1>6, <3>2 DEF OutOfLine
    <3>3. QED BY <3>1, <3>2
  <2>2. QED BY <1>1, <2>1 DEF InLine, OutOfLine
<1>11. \A m \in Member : InMatrix(m)' = InMatrix(m)
  BY <1>7 DEF InMatrix
<1>12. QED BY <1>1, <1>7, <1>8, <1>9, <1>10, <1>11 DEF MatrixInv

\* A member who has been given a role by hand is not in the matrix.
LEMMA GiveCustomRoleStep ==
  ASSUME ManagedAccessAssumption, MatrixInv, NEW c \in LevelCaller, GiveCustomRole(c)
  PROVE  MatrixInv'
<1>0. PICK m \in Member : m = call[c].member
  BY DEF MatrixInv, CallsInv, GiveCustomRole
<1> DEFINE was == call[c].was
<1> DEFINE after == (levelMember[m].holds \ was) \cup {LevelNewest(LevelCustom)}
<1>1. /\ call[c].status = "CUSTOM" /\ call' = [call EXCEPT ![c] = LevelIdle] /\ UNCHANGED <<levelEnabled, levelRole, overtaken>>
      /\ levelMember' = [levelMember EXCEPT ![m].holds = after]
  BY <1>0 DEF GiveCustomRole
<1>2. CellsInv /\ CallsInv
  BY DEF MatrixInv
<1>3. LevelCustom \in Keys /\ levelRole[LevelCustom] \in Seq(SUBSET LevelCode) /\ levelRole[LevelCustom] # <<>>
  BY <1>2, KeyFacts DEF CellsInv
<1>4. LevelNewest(LevelCustom) \in Keys \X Nat /\ LevelNewest(LevelCustom)[1] = LevelCustom
      /\ LevelNewest(LevelCustom)[2] = Len(levelRole[LevelCustom]) /\ Len(levelRole[LevelCustom]) \in 1..Len(levelRole[LevelCustom])
  BY <1>3 DEF LevelNewest
<1>5. levelMember[m] \in CellRow /\ \A h \in levelMember[m].holds : h \in Keys \X Nat /\ h[2] \in 1..Len(levelRole[h[1]])
  BY <1>2, CellThere
<1>6. after \in SUBSET (Keys \X Nat) /\ \A h \in after : h[2] \in 1..Len(levelRole[h[1]])
  BY <1>4, <1>5
<1>7. LevelNewest(LevelCustom) \in after
  OBVIOUS
<1> HIDE DEF after
<1>8. levelMember'[m].holds = after /\ levelMember'[m] \in CellRow
  BY <1>1, <1>2, <1>5, <1>6 DEF CellsInv, CellRow
<1>9. levelMember' \in [Member -> CellRow] /\ \A p \in Member : p # m => levelMember'[p] = levelMember[p]
  BY <1>1, <1>2, <1>8 DEF CellsInv
<1>10. CellsInv'
  BY <1>1, <1>2, <1>6, <1>8, <1>9 DEF CellsInv
<1>11. CallsInv'
  <2>1. LevelIdle.status = "IDLE"
    BY DEF LevelIdle
  <2>2. QED BY <1>1, <1>2, <2>1, OneCall
<1>12. InLine' = InLine
  BY <1>1 DEF InLine, OutOfLine
<1>13. ~InMatrix(m)'
  BY <1>1, <1>4, <1>7, <1>8 DEF InMatrix, ActiveKeys, LevelActive, LevelInForce
<1>14. ASSUME NEW p \in Member, p # m PROVE ActiveKeys(p)' = ActiveKeys(p) /\ KeysHeld(p)' = KeysHeld(p) /\ InMatrix(p)' = InMatrix(p)
  BY <1>1, <1>9, <1>14 DEF InMatrix, ActiveKeys, LevelActive, LevelInForce, KeysHeld
<1>15. QED BY <1>1, <1>9, <1>10, <1>11, <1>12, <1>13, <1>14 DEF MatrixInv

\* A change gives its member the keys of the levels it sets, all in force.
LEMMA CommitChangeStep ==
  ASSUME ManagedAccessAssumption, MatrixInv, NEW c \in LevelCaller, CommitChange(c)
  PROVE  MatrixInv'
<1> DEFINE t == call[c]
<1>2. /\ t.status = "CHANGE" /\ call' = [call EXCEPT ![c] = LevelIdle] /\ levelRole' = NextVersion(t.stale, levelEnabled)
      /\ UNCHANGED <<levelEnabled, overtaken>>
      /\ levelMember' = [x \in Member |->
           IF x = t.member
           THEN [levelMember[x] EXCEPT !.holds = {<<k, Len(levelRole[k]) + (IF k \in t.stale THEN 1 ELSE 0)>> : k \in t.keys}, !.set = t.levels]
           ELSE [levelMember[x] EXCEPT !.holds = MovedOn(t.stale, x)]]
  BY DEF CommitChange
<1>3. CellsInv /\ CallsInv
  BY DEF MatrixInv
<1>4. /\ t.member \in Member /\ t.levels \in [LevelArea -> Level] /\ t.keys \subseteq Keys /\ t.keys \subseteq Allowed(t.levels)
      /\ Covers(t.keys, t.levels) /\ t.stale \subseteq t.keys /\ \A k \in t.keys \ t.stale : levelRole[k] # <<>>
  BY <1>2, <1>3 DEF CallsInv, Changing
<1> HIDE DEF t
<1>5. t.stale \in SUBSET (Keys \ {LevelCustom})
  BY <1>4, KeyFacts
<1>6. /\ levelRole' \in [Keys -> Seq(SUBSET LevelCode)]
      /\ \A k \in Keys : \A n \in DOMAIN levelRole'[k] : levelRole'[k][n] \subseteq Ceiling(k)
      /\ \A k \in Keys : k \notin t.stale => levelRole'[k] = levelRole[k]
      /\ \A k \in t.stale : /\ Len(levelRole'[k]) = Len(levelRole[k]) + 1 /\ levelRole'[k] # <<>>
                            /\ levelRole'[k][Len(levelRole'[k])] = LevelPermits(k, levelEnabled)
      /\ \A k \in Keys : Len(levelRole[k]) \in Nat
  BY <1>2, <1>3, <1>5, NextVersions
\* The member.
<1> DEFINE m == t.member
           after == {<<k, Len(levelRole[k]) + (IF k \in t.stale THEN 1 ELSE 0)>> : k \in t.keys}
<1>7. ASSUME NEW k \in t.keys
      PROVE  /\ Len(levelRole[k]) + (IF k \in t.stale THEN 1 ELSE 0) = Len(levelRole'[k])
             /\ Len(levelRole'[k]) \in 1..Len(levelRole'[k])
  <2>1. k \in Keys /\ levelRole'[k] \in Seq(SUBSET LevelCode) /\ Len(levelRole'[k]) \in Nat
    BY <1>4, <1>6
  <2>2. levelRole'[k] # <<>>
    BY <1>4, <1>6, <2>1
  <2>3. Len(levelRole'[k]) > 0
    BY <2>1, <2>2
  <2>4. CASE k \in t.stale
    BY <1>6, <2>1, <2>3, <2>4
  <2>5. CASE k \notin t.stale
    BY <1>6, <2>1, <2>3, <2>5
  <2>6. QED BY <2>4, <2>5
<1>8. /\ \A h \in after : \E k \in t.keys : h = <<k, Len(levelRole'[k])>>
      /\ \A k \in t.keys : <<k, Len(levelRole'[k])>> \in after
  BY <1>7
<1> HIDE DEF after
<1>9. levelMember[m] \in CellRow
  BY <1>3, <1>4, CellThere
<1>10. levelMember'[m].holds = after /\ levelMember'[m].set = t.levels /\ levelMember'[m].status = levelMember[m].status
       /\ levelMember'[m] = [levelMember[m] EXCEPT !.holds = after, !.set = t.levels]
  BY <1>2, <1>4, <1>9 DEF CellRow, after
<1>11. after \in SUBSET (Keys \X Nat) /\ \A h \in after : h[2] \in 1..Len(levelRole'[h[1]])
  <2>1. \A k \in t.keys : k \in Keys /\ Len(levelRole'[k]) \in Nat /\ Len(levelRole'[k]) \in 1..Len(levelRole'[k])
    BY <1>4, <1>6, <1>7
  <2>2. \A k \in t.keys : <<k, Len(levelRole'[k])>> \in Keys \X Nat /\ <<k, Len(levelRole'[k])>>[1] = k /\ <<k, Len(levelRole'[k])>>[2] = Len(levelRole'[k])
    BY <2>1
  <2>3. QED BY <1>8, <2>1, <2>2
<1>12. levelMember'[m] \in CellRow
  BY <1>4, <1>9, <1>10, <1>11 DEF CellRow
<1>13. ASSUME NEW n \in Member, n = m PROVE ActiveKeys(n)' = t.keys /\ KeysHeld(n)' = t.keys
  <2>1. levelMember'[n].holds = after
    BY <1>10, <1>13
  <2>2. \A h \in after : h[1] \in t.keys /\ h[2] = Len(levelRole'[h[1]])
    BY <1>8
  <2>3. \A k \in t.keys : \E h \in after : h[1] = k
    BY <1>8
  <2>4. KeysHeld(n)' = {h[1] : h \in after} /\ ActiveKeys(n)' = {h[1] : h \in {g \in after : g[2] = Len(levelRole'[g[1]])}}
    BY <2>1 DEF ActiveKeys, LevelActive, LevelInForce, KeysHeld
  <2>5. QED BY <2>2, <2>3, <2>4
\* The others.
<1>14. ASSUME NEW p \in Member, p # m
       PROVE  /\ levelMember'[p] \in CellRow /\ \A h \in levelMember'[p].holds : h[2] \in 1..Len(levelRole'[h[1]])
              /\ levelMember'[p].set = levelMember[p].set /\ ActiveKeys(p)' = ActiveKeys(p) /\ KeysHeld(p)' = KeysHeld(p)
  <2>1. levelMember'[p] = [levelMember[p] EXCEPT !.holds = MovedOn(t.stale, p)]
    BY <1>2, <1>14
  <2>2. QED BY <1>2, <1>3, <1>5, <2>1, Moves
<1>15. CellsInv'
  <2>1. \A p \in Member : levelMember'[p] \in CellRow /\ \A h \in levelMember'[p].holds : h[2] \in 1..Len(levelRole'[h[1]])
    BY <1>10, <1>11, <1>12, <1>14
  <2>2. levelMember' \in [Member -> CellRow]
    BY <1>2, <2>1
  <2>3. levelRole'[LevelCustom] # <<>>
    BY <1>3, <1>5, <1>6, KeyFacts DEF CellsInv
  <2>4. QED BY <1>2, <1>3, <1>6, <2>1, <2>2, <2>3 DEF CellsInv
<1>16. CallsInv'
  <2>1. \A k \in Keys : levelRole[k] # <<>> => levelRole'[k] # <<>>
    BY <1>6
  <2>2. DOMAIN call' = LevelCaller /\ \A b \in LevelCaller : call'[b] = call[b] \/ call'[b] = LevelIdle
    BY <1>2, <1>3 DEF CallsInv
  <2>3. QED BY <1>3, <2>1, <2>2, CallsStay
<1>17. InLine => InLine'
  <2>1. ASSUME InLine, NEW k \in Keys \ {LevelCustom}
        PROVE levelRole'[k] = <<>> \/ \E n \in DOMAIN levelRole'[k] : n = Len(levelRole'[k]) /\ levelRole'[k][n] = LevelPermits(k, levelEnabled)
    <3>1. CASE k \in t.stale
      <4>1. levelRole'[k] \in Seq(SUBSET LevelCode)
        BY <1>6
      <4>2. Len(levelRole'[k]) \in DOMAIN levelRole'[k]
        BY <1>6, <3>1, <4>1
      <4>3. QED BY <1>6, <3>1, <4>2
    <3>2. CASE k \notin t.stale
      BY <1>6, <2>1, <3>2 DEF OutOfLine, InLine
    <3>3. QED BY <3>1, <3>2
  <2>2. QED BY <1>2, <2>1 DEF InLine, OutOfLine
<1>18. "HOLDERS" \notin overtaken' => \A p \in Member : InMatrix(p)' => ActiveKeys(p)' \subseteq Allowed(levelMember'[p].set)
  <2>1. \A p \in Member : p = m => ActiveKeys(p)' \subseteq Allowed(levelMember'[p].set)
    BY <1>4, <1>10, <1>13
  <2>2. \A p \in Member : p # m => InMatrix(p)' = InMatrix(p)
    BY <1>14 DEF InMatrix
  <2>3. QED BY <1>2, <1>14, <2>1, <2>2 DEF MatrixInv
<1>19. overtaken' = {} => \A p \in Member : InMatrix(p)' => User \in KeysHeld(p)' \/ Covers(KeysHeld(p)', levelMember'[p].set)
  <2>1. \A p \in Member : p = m => Covers(KeysHeld(p)', levelMember'[p].set)
    BY <1>4, <1>10, <1>13
  <2>2. \A p \in Member : p # m => InMatrix(p)' = InMatrix(p)
    BY <1>14 DEF InMatrix
  <2>3. QED BY <1>2, <1>14, <2>1, <2>2 DEF MatrixInv
<1>20. QED BY <1>2, <1>15, <1>16, <1>17, <1>18, <1>19 DEF MatrixInv

\* The next version of a role that an invitation needs: who does not hold the
\* last one any more is given it as well, and then the step is remembered.
LEMMA CommitSyncStep ==
  ASSUME ManagedAccessAssumption, MatrixInv, NEW c \in LevelCaller, CommitSync(c)
  PROVE  MatrixInv'
<1>1. PICK t : t = call[c]
  OBVIOUS
<1>2. PICK k, at : k = t.key /\ at = t.at
  OBVIOUS
<1> DEFINE old == <<k, at>>
           next == <<k, at + 1>>
           codes == t.codes
<1>3. t.status = "FOUND" /\ call' = [call EXCEPT ![c] = LevelIdle] /\ UNCHANGED levelEnabled
  BY <1>1 DEF CommitSync
<1>4. CellsInv /\ CallsInv
  BY DEF MatrixInv
<1>5. k \in Keys /\ k \notin {User, LevelCustom} /\ codes \subseteq Ceiling(k) /\ t.holders \subseteq Member /\ codes \subseteq LevelCode
  <2>1. Syncing(t) /\ t.holders \subseteq Member
    BY <1>1, <1>3, <1>4 DEF CallsInv
  <2>2. QED BY <1>2, <2>1, PermitsBelow DEF Syncing
<1>6. CASE UNCHANGED <<levelRole, levelMember, overtaken>>
  <2>1. CallsInv'
    <3>1. LevelIdle.status = "IDLE"
      BY DEF LevelIdle
    <3>2. QED BY <1>3, <1>4, <1>6, <3>1, OneCall
  <2>2. QED BY <1>3, <1>6, <2>1, CellsStay
<1>7. CASE Len(levelRole[k]) = at
  <2>1. /\ levelRole' = [levelRole EXCEPT ![k] = Append(@, codes)]
        /\ levelMember' = [x \in Member |->
             IF x \in t.holders THEN [levelMember[x] EXCEPT !.holds = (@ \ {old}) \cup {next}] ELSE levelMember[x]]
        /\ overtaken' = overtaken \cup (IF \E x \in t.holders : old \notin levelMember[x].holds THEN {"HOLDERS"} ELSE {})
                                 \cup (IF codes # LevelPermits(k, levelEnabled) THEN {"FEATURES"} ELSE {})
    BY <1>1, <1>2, <1>7 DEF CommitSync
  <2>2. /\ levelRole[k] \in Seq(SUBSET LevelCode) /\ at \in Nat /\ \A n \in DOMAIN levelRole[k] : levelRole[k][n] \subseteq Ceiling(k)
    BY <1>4, <1>5, <1>7 DEF CellsInv
  <2>3. levelRole'[k] = Append(levelRole[k], codes) /\ \A j \in Keys : j # k => levelRole'[j] = levelRole[j]
    BY <1>4, <1>5, <2>1 DEF CellsInv
  <2>4. /\ levelRole'[k] \in Seq(SUBSET LevelCode) /\ Len(levelRole'[k]) = at + 1 /\ levelRole'[k] # <<>>
        /\ levelRole'[k][at + 1] = codes /\ at + 1 \in DOMAIN levelRole'[k]
        /\ \A n \in DOMAIN levelRole'[k] : levelRole'[k][n] \subseteq Ceiling(k)
    <3> DEFINE s == levelRole[k]
               r == codes
    <3>0. s \in Seq(SUBSET LevelCode) /\ r \in SUBSET LevelCode /\ Len(s) = at /\ r \subseteq Ceiling(k) /\ \A n \in DOMAIN s : s[n] \subseteq Ceiling(k)
      BY <1>5, <1>7, <2>2
    <3> HIDE DEF s, r
    <3>1. /\ Append(s, r) \in Seq(SUBSET LevelCode) /\ Len(Append(s, r)) = Len(s) + 1 /\ Len(s) \in Nat
          /\ Append(s, r)[Len(s) + 1] = r /\ \A n \in 1..Len(s) : Append(s, r)[n] = s[n]
          /\ DOMAIN s = 1..Len(s) /\ DOMAIN Append(s, r) = 1..(Len(s) + 1)
      BY <3>0
    <3>2. \A n \in 1..(at + 1) : n \in 1..at \/ n = at + 1
      BY <2>2
    <3>3. Append(s, r) # <<>> /\ at + 1 \in 1..(at + 1) /\ DOMAIN s = 1..at /\ DOMAIN Append(s, r) = 1..(at + 1)
      <4>1. Append(s, r) # <<>>
        BY <3>1
      <4>2. at + 1 \in 1..(at + 1)
        BY <2>2
      <4>3. QED BY <3>0, <3>1, <4>1, <4>2
    <3>4. \A n \in DOMAIN Append(s, r) : Append(s, r)[n] \subseteq Ceiling(k)
      BY <3>0, <3>1, <3>2, <3>3
    <3>5. QED BY <2>3, <3>1, <3>3, <3>4 DEF s, r
  <2>5. levelRole' \in [Keys -> Seq(SUBSET LevelCode)] /\ levelRole'[LevelCustom] # <<>>
        /\ \A j \in Keys : \A n \in DOMAIN levelRole'[j] : levelRole'[j][n] \subseteq Ceiling(j)
    BY <1>4, <1>5, <2>1, <2>3, <2>4, KeyFacts DEF CellsInv
  <2>6. ASSUME NEW p \in Member
        PROVE  /\ levelMember'[p] \in CellRow /\ levelMember'[p].set = levelMember[p].set
               /\ levelMember'[p].holds = IF p \in t.holders THEN (levelMember[p].holds \ {old}) \cup {next} ELSE levelMember[p].holds
    <3>1. levelMember[p] \in CellRow
      BY <1>4, CellThere
    <3>2. next \in Keys \X Nat
      BY <1>5, <2>2
    <3> HIDE DEF old, next
    <3>3. CASE p \in t.holders
      <4>1. levelMember'[p] = [levelMember[p] EXCEPT !.holds = (@ \ {old}) \cup {next}]
        BY <2>1, <3>3
      <4>2. QED BY <3>1, <3>2, <3>3, <4>1 DEF CellRow
    <3>4. CASE p \notin t.holders
      BY <2>1, <3>1, <3>4
    <3>5. QED BY <3>3, <3>4
  <2>7. ASSUME NEW p \in Member, NEW h \in levelMember'[p].holds
        PROVE  /\ h[2] \in 1..Len(levelRole'[h[1]]) /\ h[1] \in Keys
               /\ h = next \/ (h \in levelMember[p].holds /\ (h[1] = k => h[2] # at + 1) /\ (h[1] # k => levelRole'[h[1]] = levelRole[h[1]]))
    <3>1. CASE h = next
      BY <1>5, <2>2, <2>4, <3>1
    <3>2. CASE h \in levelMember[p].holds
      <4>1. h[1] \in Keys /\ h[2] \in 1..Len(levelRole[h[1]])
        BY <1>4, <3>2, CellThere
      <4>2. CASE h[1] = k
        <5>1. h[2] \in 1..at
          BY <1>7, <4>1, <4>2
        <5>2. h[2] \in 1..(at + 1) /\ h[2] # at + 1
          BY <2>2, <5>1
        <5>3. QED BY <2>4, <3>2, <4>1, <4>2, <5>2
      <4>3. CASE h[1] # k
        BY <2>3, <3>2, <4>1, <4>3
      <4>4. QED BY <4>2, <4>3
    <3>3. QED BY <2>6, <3>1, <3>2
  <2>8. CellsInv'
    <3>1. levelMember' \in [Member -> CellRow]
      BY <2>1, <2>6
    <3>2. overtaken' \subseteq {"HOLDERS", "FEATURES"}
      BY <1>4, <2>1 DEF CellsInv
    <3>3. \A p \in Member : \A h \in levelMember'[p].holds : h[2] \in 1..Len(levelRole'[h[1]])
      BY <2>7
    <3>4. QED BY <1>3, <1>4, <2>5, <3>1, <3>2, <3>3 DEF CellsInv
  <2>9. CallsInv'
    <3>1. \A j \in Keys : levelRole[j] # <<>> => levelRole'[j] # <<>>
      BY <2>3, <2>4
    <3>2. DOMAIN call' = LevelCaller /\ \A b \in LevelCaller : call'[b] = call[b] \/ call'[b] = LevelIdle
      BY <1>3, <1>4 DEF CallsInv
    <3>3. QED BY <1>4, <3>1, <3>2, CallsStay
  \* Nobody's other roles come into force or go out of it.
  <2>10. ASSUME NEW p \in Member
         PROVE  /\ ActiveKeys(p)' \subseteq ActiveKeys(p) \cup {k} /\ (LevelCustom \in ActiveKeys(p)' <=> LevelCustom \in ActiveKeys(p))
                /\ k \in ActiveKeys(p)' => p \in t.holders \/ k \in ActiveKeys(p)
                /\ KeysHeld(p) \subseteq KeysHeld(p)'
    <3>1. ActiveKeys(p)' = {h[1] : h \in {g \in levelMember'[p].holds : g[2] = Len(levelRole'[g[1]])}}
      BY DEF ActiveKeys, LevelActive, LevelInForce
    <3>2. ActiveKeys(p) = {h[1] : h \in {g \in levelMember[p].holds : g[2] = Len(levelRole[g[1]])}}
      BY DEF ActiveKeys, LevelActive, LevelInForce
    <3>3. next[1] = k /\ next[2] = at + 1 /\ old[1] = k
      OBVIOUS
    <3> HIDE DEF next, old
    <3>4. \A h \in levelMember'[p].holds : h[2] = Len(levelRole'[h[1]]) => h = next \/ (h \in levelMember[p].holds /\ h[1] # k /\ h[2] = Len(levelRole[h[1]]))
      BY <2>4, <2>7
    <3>5. \A h \in levelMember[p].holds : h[1] # k => h \in levelMember'[p].holds /\ levelRole'[h[1]] = levelRole[h[1]]
      <4>1. \A h \in levelMember[p].holds : h[1] \in Keys
        BY <1>4, CellThere
      <4>2. QED BY <2>3, <2>6, <3>3, <4>1
    <3>6. ActiveKeys(p)' \subseteq ActiveKeys(p) \cup {k}
      BY <3>1, <3>2, <3>3, <3>4
    <3>7. LevelCustom \in ActiveKeys(p) => LevelCustom \in ActiveKeys(p)'
      BY <1>5, <3>1, <3>2, <3>5
    <3>8. k \in ActiveKeys(p)' => next \in levelMember'[p].holds
      BY <3>1, <3>4
    <3>9. next \notin levelMember[p].holds
      <4>1. \A h \in levelMember[p].holds : h[2] \in 1..Len(levelRole[h[1]])
        BY <1>4, CellThere
      <4>2. SUFFICES ASSUME next \in levelMember[p].holds PROVE FALSE
        OBVIOUS
      <4>3. at + 1 \in 1..at
        BY <1>7, <3>3, <4>1, <4>2
      <4>4. QED BY <2>2, <4>3
    <3>10. KeysHeld(p) \subseteq KeysHeld(p)'
      <4>1. KeysHeld(p)' = {h[1] : h \in levelMember'[p].holds}
        BY DEF KeysHeld
      <4>2. CASE p \in t.holders
        BY <2>6, <3>3, <4>1, <4>2 DEF KeysHeld
      <4>3. CASE p \notin t.holders
        BY <2>6, <4>1, <4>3 DEF KeysHeld
      <4>4. QED BY <4>2, <4>3
    <3>11. QED BY <1>5, <2>6, <3>6, <3>7, <3>8, <3>9, <3>10
  <2>11. "HOLDERS" \notin overtaken' => \A p \in Member : ActiveKeys(p)' \subseteq ActiveKeys(p)
    <3> SUFFICES ASSUME "HOLDERS" \notin overtaken', NEW p \in Member PROVE ActiveKeys(p)' \subseteq ActiveKeys(p)
      OBVIOUS
    <3>1. p \in t.holders => old \in levelMember[p].holds
      BY <2>1
    <3>2. p \in t.holders => k \in ActiveKeys(p)
      BY <1>7, <3>1 DEF ActiveKeys, LevelActive, LevelInForce
    <3>3. QED BY <2>10, <3>2
  <2>12. \A p \in Member : InMatrix(p)' => InMatrix(p)
    BY <2>10 DEF InMatrix
  <2>13. "HOLDERS" \notin overtaken' => \A p \in Member : InMatrix(p)' => ActiveKeys(p)' \subseteq Allowed(levelMember'[p].set)
    <3>1. "HOLDERS" \notin overtaken' => "HOLDERS" \notin overtaken
      BY <2>1
    <3>2. QED BY <2>6, <2>11, <2>12, <3>1 DEF MatrixInv
  <2>14. overtaken' = {} => overtaken = {} /\ codes = LevelPermits(k, levelEnabled)
    BY <2>1
  <2>15. overtaken' = {} => InLine'
    <3>1. SUFFICES ASSUME overtaken' = {}, NEW j \in Keys \ {LevelCustom}
                   PROVE  levelRole'[j] = <<>> \/ \E n \in DOMAIN levelRole'[j] : n = Len(levelRole'[j]) /\ levelRole'[j][n] = LevelPermits(j, levelEnabled)
      BY <1>3 DEF InLine, OutOfLine
    <3>2. CASE j = k
      BY <2>4, <2>14, <3>1, <3>2
    <3>3. CASE j # k
      <4>1. InLine
        BY <2>14, <3>1 DEF MatrixInv
      <4>2. QED BY <2>3, <3>3, <4>1 DEF InLine, OutOfLine
    <3>4. QED BY <3>2, <3>3
  <2>16. overtaken' = {} => \A p \in Member : InMatrix(p)' => User \in KeysHeld(p)' \/ Covers(KeysHeld(p)', levelMember'[p].set)
    BY <2>6, <2>10, <2>12, <2>14 DEF MatrixInv, Covers
  <2>17. QED BY <2>8, <2>9, <2>13, <2>15, <2>16 DEF MatrixInv
<1>8. QED BY <1>1, <1>2, <1>6, <1>7 DEF CommitSync

LEMMA MatrixStep == ASSUME ManagedAccessAssumption, MatrixInv, [LevelNext]_levelVars PROVE MatrixInv'
<1>1. CASE UNCHANGED levelVars
  <2>1. UNCHANGED <<levelEnabled, levelRole, levelMember, overtaken, call>>
    BY <1>1 DEF levelVars
  <2>2. CallsInv'
    BY <2>1 DEF MatrixInv, CallsInv, Changing, Syncing
  <2>3. QED BY <2>1, <2>2, CellsStay
<1>2. CASE LevelNext
  BY <1>2, CommitChangeStep, CommitSyncStep, GiveCustomRoleStep, FindingStep, SwitchFeatureStep DEF LevelNext
<1>3. QED BY <1>1, <1>2

\* What a key in force of a member in the matrix permits in an area is no more than its level.
LEMMA MatrixPermits ==
  ASSUME ManagedAccessAssumption, CellsInv, NEW m \in Member, ActiveKeys(m) \subseteq Allowed(levelMember[m].set), NEW h \in LevelActive(m)
  PROVE  /\ h[1] \in Keys /\ h[1] \in Allowed(levelMember[m].set) /\ h[2] = Len(levelRole[h[1]]) /\ h[2] \in DOMAIN levelRole[h[1]]
         /\ levelRole[h[1]][h[2]] \subseteq Ceiling(h[1])
         /\ \A p \in Ceiling(h[1]) : Of[p] = Shared \/ p \in Filtered({p}, levelMember[m].set[Of[p]])
<1> DEFINE levels == levelMember[m].set
           k == h[1]
<1>1. h \in levelMember[m].holds /\ h[2] = Len(levelRole[k]) /\ k \in ActiveKeys(m)
  BY DEF LevelActive, LevelInForce, ActiveKeys
<1>2. k \in Keys /\ h[2] \in 1..Len(levelRole[k]) /\ levels \in [LevelArea -> Level] /\ k \in Allowed(levels)
  BY <1>1, CellThere
<1>3. levelRole[k] \in Seq(SUBSET LevelCode)
  BY <1>2 DEF CellsInv
<1>4. h[2] \in DOMAIN levelRole[k]
  BY <1>2, <1>3
<1>5. levelRole[k][h[2]] \subseteq Ceiling(k)
  BY <1>2, <1>4 DEF CellsInv
<1>6. \A p \in LevelCode : Of[p] \in LevelArea \cup {Shared} /\ Kind[p] \in {"READ", "EDIT", "RISK"}
  BY DEF ManagedAccessAssumption
<1> HIDE DEF k, levels
<1>7. ASSUME NEW p \in Ceiling(k) PROVE Of[p] = Shared \/ p \in Filtered({p}, levels[Of[p]])
  <2>1. CASE k = User
    <3>1. \A x \in LevelArea : levels[x] = "FULL"
      BY <1>2, <2>1, KeyFacts DEF Allowed, NoAccess, User, ManagedAccessAssumption, Shared
    <3>2. p \in LevelCode
      BY <2>1 DEF Ceiling
    <3>3. QED BY <1>6, <3>1, <3>2 DEF Filtered
  <2>2. CASE k = NoAccess \/ k = LevelCustom
    BY <2>2, KeyFacts DEF Ceiling
  <2>3. CASE k \notin {User, NoAccess, LevelCustom}
    <3>1. p \in Filtered({q \in LevelCode : Of[q] = k[1]}, k[2])
      BY <2>3 DEF Ceiling
    <3>2. (\E x \in LevelArea : k = <<x, levels[x]>>) \/ (\E l \in Level : k = <<Shared, l>>)
      BY <1>2, <2>3 DEF Allowed
    <3>3. p \in LevelCode /\ Of[p] = k[1] /\ p \in Filtered({p}, k[2])
      BY <3>1 DEF Filtered
    <3>4. QED BY <3>2, <3>3
  <2>4. QED BY <2>1, <2>2, <2>3
<1>8. QED BY <1>1, <1>2, <1>4, <1>5, <1>7 DEF k, levels

\* The level shown is that of the key in force, if there is one.
LEMMA ShownLevel ==
  ASSUME ManagedAccessAssumption, CellsInv, NEW m \in Member, ActiveKeys(m) \subseteq Allowed(levelMember[m].set), NEW x \in LevelArea
  PROVE  /\ LevelShown(m, x) \in {levelMember[m].set[x], "NONE"}
         /\ (User \in ActiveKeys(m) \/ <<x, levelMember[m].set[x]>> \in ActiveKeys(m)) => LevelShown(m, x) = levelMember[m].set[x]
         /\ User \in ActiveKeys(m) => levelMember[m].set[x] = "FULL"
         /\ \A l : <<x, l>> \in ActiveKeys(m) => l = levelMember[m].set[x] /\ l # "NONE"
<1> DEFINE levels == levelMember[m].set
           keys == ActiveKeys(m)
<1>1. levels \in [LevelArea -> Level]
  BY CellThere
<1>2. keys \subseteq Keys
  BY CellThere DEF ActiveKeys, LevelActive
<1> HIDE DEF levels, keys
<1>3. User \in keys => levels[x] = "FULL"
  BY KeyFacts DEF Allowed, NoAccess, User, ManagedAccessAssumption, Shared, levels, keys
<1>4. \A l : <<x, l>> \in keys => l = levels[x] /\ l # "NONE"
  <2>1. SUFFICES ASSUME NEW l, <<x, l>> \in keys PROVE l = levels[x] /\ l # "NONE"
    OBVIOUS
  <2>2. x # Shared /\ x # "NONE" /\ x # "USER" /\ x # "CUSTOM"
    BY DEF ManagedAccessAssumption
  <2>3. <<x, l>> \in Allowed(levels) /\ <<x, l>> \in Keys
    BY <1>2, <2>1 DEF levels, keys
  <2>4. l = levels[x]
    BY <2>2, <2>3 DEF Allowed, NoAccess, User
  <2>5. l # "NONE"
    BY <2>2, <2>3 DEF Keys, NoAccess, User, LevelCustom
  <2>6. QED BY <2>4, <2>5
<1>5. LevelShown(m, x) = IF User \in keys THEN "FULL" ELSE IF \E l \in Level : <<x, l>> \in keys THEN CHOOSE l \in Level : <<x, l>> \in keys ELSE "NONE"
  BY DEF LevelShown, keys
<1>6. levels[x] \in Level
  BY <1>1
<1>7. (\E l \in Level : <<x, l>> \in keys) => (CHOOSE l \in Level : <<x, l>> \in keys) = levels[x]
  BY <1>4
<1>8. QED BY <1>3, <1>4, <1>5, <1>6, <1>7 DEF levels, keys

\* No member in the matrix is shown or permitted more in an area than the level
\* set last, however changes, feature switches and the roles of invitations follow
\* each other, as long as no invitation gave a role back that was lost after it looked.
THEOREM AccessNobodyGetsMore == ASSUME ManagedAccessAssumption PROVE LevelSpec => []NobodyGetsMore
<1>1. MatrixInv => NobodyGetsMore
  <2> SUFFICES ASSUME MatrixInv, "HOLDERS" \notin overtaken, NEW m \in Member, InMatrix(m)
               PROVE  /\ \A x \in LevelArea : LevelShown(m, x) \in {levelMember[m].set[x], "NONE"}
                      /\ \A p \in Granted(m) : Of[p] = Shared \/ p \in Filtered({p}, levelMember[m].set[Of[p]])
    BY DEF NobodyGetsMore
  <2>1. CellsInv /\ ActiveKeys(m) \subseteq Allowed(levelMember[m].set)
    BY DEF MatrixInv
  <2>2. \A x \in LevelArea : LevelShown(m, x) \in {levelMember[m].set[x], "NONE"}
    BY <2>1, ShownLevel
  <2>3. \A p \in Granted(m) : \E h \in LevelActive(m) : p \in levelRole[h[1]][h[2]]
    BY DEF Granted
  <2>4. QED BY <2>1, <2>2, <2>3, MatrixPermits
<1>2. QED BY <1>1, MatrixInit, MatrixStep, PTL DEF LevelSpec

\* A member all of whose roles are in force has exactly what the company's
\* package offers at the levels set, and is shown it, unless an invitation's role
\* was overtaken.
THEOREM AccessLevelsAreGiven == ASSUME ManagedAccessAssumption PROVE LevelSpec => []LevelsAreGiven
<1>1. MatrixInv => LevelsAreGiven
  <2> SUFFICES ASSUME MatrixInv, NEW m \in Member, InMatrix(m), levelMember[m].holds = LevelActive(m), overtaken = {},
                      NEW x \in Catalog(levelEnabled)
               PROVE  /\ LevelShown(m, x) = levelMember[m].set[x]
                      /\ {p \in Granted(m) : Of[p] = x} = Filtered({p \in Package(levelEnabled) : Of[p] = x}, levelMember[m].set[x])
    BY DEF LevelsAreGiven
  <2> DEFINE levels == levelMember[m].set
             keys == ActiveKeys(m)
             offered == {p \in Package(levelEnabled) : Of[p] = x}
  <2>1. CellsInv /\ keys \subseteq Allowed(levels) /\ InLine /\ (User \in KeysHeld(m) \/ Covers(KeysHeld(m), levels))
    BY DEF MatrixInv
  <2>2. x \in LevelArea
    BY DEF Catalog, Package, ManagedAccessAssumption
  <2>3. levels \in [LevelArea -> Level] /\ levels[x] \in {"NONE", "VIEW", "EDIT", "FULL"}
    BY <2>1, <2>2, CellThere DEF ManagedAccessAssumption
  <2>4. KeysHeld(m) = keys
    BY DEF KeysHeld, ActiveKeys
  <2>5. /\ LevelShown(m, x) \in {levels[x], "NONE"}
        /\ (User \in keys \/ <<x, levels[x]>> \in keys) => LevelShown(m, x) = levels[x]
        /\ User \in keys => levels[x] = "FULL"
        /\ \A l : <<x, l>> \in keys => l = levels[x] /\ l # "NONE"
    BY <2>1, <2>2, ShownLevel
  \* What a role in force permits is what its key does now.
  <2>6. ASSUME NEW h \in LevelActive(m)
        PROVE  /\ h[1] \in keys /\ h[1] # LevelCustom /\ levelRole[h[1]][h[2]] = LevelPermits(h[1], levelEnabled)
               /\ h[1] \in Keys /\ h[1] \in Allowed(levels)
    <3>1. h[1] \in Keys /\ h[1] \in Allowed(levels) /\ h[2] = Len(levelRole[h[1]]) /\ h[2] \in DOMAIN levelRole[h[1]]
      BY <2>1, MatrixPermits
    <3>2. h[1] \in keys /\ h[1] # LevelCustom
      BY DEF ActiveKeys, InMatrix
    <3>3. levelRole[h[1]] # <<>>
      BY <3>1
    <3>4. QED BY <2>1, <3>1, <3>2, <3>3 DEF InLine, OutOfLine
  <2>7. \A k \in keys : \E h \in LevelActive(m) : h[1] = k
    BY DEF ActiveKeys
  <2>8. Granted(m) = UNION {LevelPermits(k, levelEnabled) : k \in keys}
    BY <2>6, <2>7 DEF Granted
  <2>9. \A p \in offered : p \in LevelCode /\ Kind[p] \in {"READ", "EDIT", "RISK"}
    BY DEF Package, ManagedAccessAssumption
  <2> HIDE DEF keys, levels, offered
  <2>10. {p \in LevelPermits(User, levelEnabled) : Of[p] = x} = offered
    BY DEF LevelPermits, offered
  <2>11. <<x, levels[x]>> \notin {User, NoAccess, LevelCustom}
    BY <2>2, <2>3, KeyFacts
  <2>12. LevelPermits(<<x, levels[x]>>, levelEnabled) = Filtered(offered, levels[x])
    BY <2>11 DEF LevelPermits, offered
  <2>13. \A p \in Filtered(offered, levels[x]) : Of[p] = x
    BY DEF Filtered, offered
  \* Other keys permit nothing in the area.
  <2>14. ASSUME NEW k \in keys, k # User, k # <<x, levels[x]>>, NEW p \in LevelPermits(k, levelEnabled) PROVE Of[p] # x
    <3>1. k \in Keys /\ k \in Allowed(levels)
      BY <2>6, <2>7, <2>14
    <3>2. k # NoAccess /\ k # LevelCustom
      BY <2>14 DEF LevelPermits
    <3>3. Of[p] = k[1]
      BY <2>14, <3>2 DEF LevelPermits, Filtered
    <3>4. x # Shared
      BY <2>2 DEF ManagedAccessAssumption
    <3>5. (\E y \in LevelArea : k = <<y, levels[y]>>) \/ (\E l \in Level : k = <<Shared, l>>)
      BY <2>14, <3>1, <3>2 DEF Allowed
    <3>6. QED BY <2>14, <3>3, <3>4, <3>5
  <2>15. CASE User \in keys
    <3>1. levels[x] = "FULL" /\ LevelShown(m, x) = levels[x]
      BY <2>5, <2>15
    <3>2. Filtered(offered, levels[x]) = offered
      BY <2>9, <3>1 DEF Filtered
    <3>3. <<x, levels[x]>> \in keys => LevelPermits(<<x, levels[x]>>, levelEnabled) = offered
      BY <2>12, <3>2
    <3>4. {p \in Granted(m) : Of[p] = x} = offered
      BY <2>8, <2>10, <2>14, <2>15, <3>3
    <3>5. QED BY <3>1, <3>2, <3>4 DEF levels, offered
  <2>16. CASE User \notin keys /\ levels[x] # "NONE"
    <3>1. <<x, levels[x]>> \in keys
      BY <2>1, <2>2, <2>4, <2>16 DEF Covers
    <3>2. {p \in Granted(m) : Of[p] = x} = Filtered(offered, levels[x])
      BY <2>8, <2>12, <2>13, <2>14, <2>16, <3>1
    <3>3. QED BY <2>5, <3>1, <3>2 DEF levels, offered
  <2>17. CASE User \notin keys /\ levels[x] = "NONE"
    <3>1. <<x, levels[x]>> \notin keys
      BY <2>5, <2>17
    <3>2. Filtered(offered, levels[x]) = {}
      BY <2>17 DEF Filtered
    <3>3. {p \in Granted(m) : Of[p] = x} = {}
      BY <2>8, <2>14, <2>17, <3>1
    <3>4. QED BY <2>5, <2>17, <3>2, <3>3 DEF levels, offered
  <2>18. QED BY <2>15, <2>16, <2>17
<1>2. QED BY <1>1, MatrixInit, MatrixStep, PTL DEF LevelSpec

-----------------------------------------------------------------------------
(* Domains and assets.                                                     *)

HostRow == [status : {"PENDING", "ACTIVE"}, primary : BOOLEAN, ssl : {"PENDING", "ACTIVE"}, version : Nat]
CrowningRow == [status : {"CREATE", "PRIMARY", "COMMAND"}, domain : Domain, locks : SUBSET Domain, seen : SUBSET Domain]

\* A transaction under way has its domain in the state its way of starting needs.
Crowning(a) ==
  /\ crowning[a] \in CrowningRow
  /\ crowning[a].status = "PRIMARY" => In(domain, crowning[a].domain, {"ACTIVE"})
  /\ crowning[a].status = "COMMAND" => Has(domain, crowning[a].domain)

PrimaryInv ==
  /\ domain \in [Domain -> HostRow \cup {Absent}] /\ crowned \in BOOLEAN
  /\ \A d, e \in Primary : d = e
  /\ crowned <=> Primary # {}
  /\ \A d \in Primary : domain[d].status = "ACTIVE"
  /\ DOMAIN crowning = Admin /\ \A a \in Admin : crowning[a] = DomainIdle \/ Crowning(a)

\* What was looked at for a slot stays clean, and was uploaded for it.
Fitting(s, f) == f \in File /\ Purpose[f] = s /\ scan[f] = "CLEAN"

AssetsInv ==
  /\ DOMAIN scan = File /\ DOMAIN attaching = Admin /\ DOMAIN profile.file = Slot
  /\ profile = [file |-> profile.file, version |-> profile.version]
  /\ \A s \in Slot : profile.file[s] = NoFile \/ Fitting(s, profile.file[s])
  /\ \A a \in Admin : attaching[a] = DomainIdle \/ (attaching[a].slot \in Slot /\ Fitting(attaching[a].slot, attaching[a].file))

LEMMA DomainInitInv == DomainInit => PrimaryInv /\ AssetsInv
<1> SUFFICES ASSUME DomainInit PROVE PrimaryInv /\ AssetsInv
  OBVIOUS
<1>1. Primary = {}
  BY DEF DomainInit, Primary, Registered, Has, Absent
<1>2. QED BY <1>1 DEF DomainInit, PrimaryInv, AssetsInv

LEMMA HostThere == ASSUME PrimaryInv, NEW d \in Domain, Has(domain, d) PROVE domain[d] \in HostRow
BY DEF PrimaryInv, Has, Absent

\* Where one domain changes, and neither becomes primary nor ceases to be, nor
\* leaves its status when that is active.
LEMMA OneDomain ==
  ASSUME PrimaryInv, UNCHANGED <<crowned, crowning>>, NEW d \in Domain, NEW host \in HostRow,
         domain' = [domain EXCEPT ![d] = host], d \in Primary <=> host.primary,
         In(domain, d, {"ACTIVE"}) => host.status = "ACTIVE"
  PROVE  PrimaryInv'
<1>1. domain \in [Domain -> HostRow \cup {Absent}]
  BY DEF PrimaryInv
<1>2. domain' \in [Domain -> HostRow \cup {Absent}] /\ domain'[d] = host /\ \A e \in Domain : e # d => domain'[e] = domain[e]
  BY <1>1
<1>3. Has(domain', d)
  BY <1>2 DEF Has, HostRow
<1>4. Primary' = Primary
  BY <1>2, <1>3 DEF Primary, Registered, Has
<1>5. \A e \in Primary : domain'[e].status = "ACTIVE"
  BY <1>2 DEF PrimaryInv, Primary, Registered, In
<1>6. ASSUME NEW a \in Admin, Crowning(a) PROVE Crowning(a)'
  BY <1>2, <1>3, <1>6 DEF Crowning, In, Has
<1>7. QED BY <1>2, <1>4, <1>5, <1>6 DEF PrimaryInv

LEMMA DomainSteps ==
  ASSUME DomainsAssumption, PrimaryInv, NEW d \in Domain,
         \/ CreateDomain(d) \/ ActivateTenantDomain(d) \/ Provision(d)
         \/ \E v \in 1..DomainMaxVersion : VerifyDomain(d, v)
  PROVE  PrimaryInv'
<1>1. domain \in [Domain -> HostRow \cup {Absent}] /\ \A x \in Primary : x \in Domain /\ Has(domain, x) /\ domain[x].primary
  BY DEF PrimaryInv, Primary, Registered
<1>2. Has(domain, d) => domain[d] \in HostRow /\ (d \in Primary <=> domain[d].primary)
  BY HostThere DEF Primary, Registered
<1>3. CASE CreateDomain(d)
  <2> DEFINE host == New(IF d \in Subdomain THEN "ACTIVE" ELSE "PENDING")
  <2>1. domain' = [domain EXCEPT ![d] = host] /\ ~Has(domain, d) /\ UNCHANGED <<crowned, crowning>>
    BY <1>3 DEF CreateDomain
  <2>2. host \in HostRow /\ ~host.primary
    BY DEF New, HostRow
  <2>3. d \notin Primary
    BY <1>1, <2>1
  <2>4. ~In(domain, d, {"ACTIVE"})
    BY <2>1 DEF In, Has, PrimaryInv, HostRow, Absent
  <2> HIDE DEF host
  <2>5. QED BY <2>1, <2>2, <2>3, <2>4, OneDomain
<1>4. CASE ActivateTenantDomain(d)
  <2> DEFINE host == [domain[d] EXCEPT !.status = "ACTIVE", !.ssl = "PENDING", !.version = @ + 1]
  <2>1. Has(domain, d) /\ UNCHANGED <<crowned, crowning>>
    BY <1>4 DEF ActivateTenantDomain
  <2>2. domain' = [domain EXCEPT ![d] = host]
    BY <1>1, <1>2, <1>4, <2>1 DEF ActivateTenantDomain, HostRow
  <2>3. host \in HostRow /\ host.status = "ACTIVE" /\ host.primary = domain[d].primary
    <3>1. domain[d] \in HostRow /\ domain[d].version \in Nat
      BY <1>2, <2>1 DEF HostRow
    <3>2. PICK n \in Nat : n = domain[d].version + 1
      BY <3>1
    <3>3. host = [domain[d] EXCEPT !.status = "ACTIVE", !.ssl = "PENDING", !.version = n]
      BY <3>2
    <3> HIDE DEF host
    <3>4. QED BY <3>1, <3>3 DEF HostRow
  <2> HIDE DEF host
  <2>4. QED BY <1>2, <2>1, <2>2, <2>3, OneDomain
<1>5. CASE Provision(d)
  <2> DEFINE host == [domain[d] EXCEPT !.ssl = "ACTIVE"]
  <2>1. In(domain, d, {"ACTIVE"}) /\ Has(domain, d) /\ UNCHANGED <<crowned, crowning>>
    BY <1>5 DEF Provision, In, Has
  <2>2. domain' = [domain EXCEPT ![d] = host]
    BY <1>1, <1>2, <1>5, <2>1 DEF Provision
  <2>3. host \in HostRow /\ host.status = domain[d].status /\ host.primary = domain[d].primary
    BY <1>2, <2>1 DEF HostRow
  <2> HIDE DEF host
  <2>4. QED BY <1>2, <2>1, <2>2, <2>3, OneDomain DEF In
<1>6. ASSUME NEW v \in 1..DomainMaxVersion, VerifyDomain(d, v) PROVE PrimaryInv'
  <2> DEFINE host == [domain[d] EXCEPT !.status = "ACTIVE", !.version = v + 1]
  <2>1. Has(domain, d) /\ UNCHANGED <<crowned, crowning>>
    BY <1>6 DEF VerifyDomain
  <2>2. CASE d \in Subdomain
    <3>1. domain' = [domain EXCEPT ![d] = host]
      BY <1>1, <1>2, <1>6, <2>1, <2>2 DEF VerifyDomain, HostRow
    <3>2. host \in HostRow /\ host.status = "ACTIVE" /\ host.primary = domain[d].primary
      <4>1. domain[d] \in HostRow
        BY <1>2, <2>1
      <4>2. PICK n \in Nat : n = v + 1
        BY DEF DomainsAssumption
      <4>3. host = [domain[d] EXCEPT !.status = "ACTIVE", !.version = n]
        BY <4>2
      <4> HIDE DEF host
      <4>4. QED BY <4>1, <4>3 DEF HostRow
    <3> HIDE DEF host
    <3>3. QED BY <1>2, <2>1, <3>1, <3>2, OneDomain
  <2>3. CASE d \notin Subdomain
    <3>1. UNCHANGED domain
      BY <1>6, <2>3 DEF VerifyDomain
    <3>2. QED BY <2>1, <3>1 DEF PrimaryInv, Primary, Registered, Has, In, Crowning
  <2>4. QED BY <2>2, <2>3
<1>7. QED BY <1>3, <1>4, <1>5, <1>6

LEMMA BeginStep ==
  ASSUME PrimaryInv, NEW a \in Admin, NEW d \in Domain, NEW way \in {"CREATE", "PRIMARY", "COMMAND"}, Begin(a, d, way)
  PROVE  PrimaryInv'
<1> DEFINE t == [status |-> way, domain |-> d, locks |-> IF way = "CREATE" THEN {} ELSE {d},
                 seen |-> Primary \ (IF way = "PRIMARY" THEN {d} ELSE {})]
<1>1. crowning' = [crowning EXCEPT ![a] = t] /\ MayCrown(d, way) /\ UNCHANGED <<domain, crowned>>
  BY DEF Begin
<1>2. t \in CrowningRow /\ t.status = way /\ t.domain = d
  BY DEF CrowningRow, Primary, Registered
<1> HIDE DEF t
<1>3. crowning'[a] = t /\ DOMAIN crowning' = Admin /\ \A b \in Admin : b # a => crowning'[b] = crowning[b]
  BY <1>1 DEF PrimaryInv
<1>4. Crowning(a)'
  BY <1>1, <1>2, <1>3 DEF Crowning, MayCrown
<1>5. ASSUME NEW b \in Admin, b # a, Crowning(b) PROVE Crowning(b)'
  BY <1>1, <1>3, <1>5 DEF Crowning, CrowningRow
<1>6. Primary' = Primary
  BY <1>1 DEF Primary, Registered
<1>7. \A b \in Admin : crowning'[b] = DomainIdle \/ Crowning(b)'
  BY <1>3, <1>4, <1>5 DEF PrimaryInv
<1>8. QED BY <1>1, <1>3, <1>6, <1>7 DEF PrimaryInv

\* Whoever has seen the primary demotes it, and whoever has not is refused.
LEMMA MakePrimaryStep ==
  ASSUME DomainsAssumption, PrimaryInv, NEW a \in Admin, MakePrimary(a) PROVE PrimaryInv'
<1> DEFINE t == crowning[a]
           d == t.domain
           unset == t.seen \cap Primary
           base == Base(d, t.status)
           made == [base EXCEPT !.primary = TRUE, !.version = @ + 1,
                      !.status = IF t.status = "COMMAND" THEN "ACTIVE" ELSE @, !.ssl = IF t.status = "COMMAND" THEN "PENDING" ELSE @]
           demoted(e) == [domain[e] EXCEPT !.primary = FALSE, !.version = @ + 1]
<1>1. crowning[a] # DomainIdle /\ crowning' = [crowning EXCEPT ![a] = DomainIdle]
  BY DEF MakePrimary
<1>2. t \in CrowningRow /\ d \in Domain /\ (t.status = "PRIMARY" => In(domain, d, {"ACTIVE"})) /\ (t.status = "COMMAND" => Has(domain, d))
  BY <1>1 DEF PrimaryInv, Crowning, CrowningRow
<1>3. crowning'[a] = DomainIdle /\ DOMAIN crowning' = Admin /\ \A b \in Admin : b # a => crowning'[b] = crowning[b]
  BY <1>1 DEF PrimaryInv
<1>4. CASE UNCHANGED <<domain, crowned>>
  <2>1. Primary' = Primary
    BY <1>4 DEF Primary, Registered
  <2>2. ASSUME NEW b \in Admin, b # a, Crowning(b) PROVE Crowning(b)'
    BY <1>3, <1>4, <2>2 DEF Crowning, CrowningRow
  <2>3. \A b \in Admin : crowning'[b] = DomainIdle \/ Crowning(b)'
    BY <1>3, <2>2 DEF PrimaryInv
  <2>4. QED BY <1>3, <1>4, <2>1, <2>3 DEF PrimaryInv
<1>5. ASSUME /\ Primary \subseteq unset \cup {d}
             /\ domain' = [e \in Domain |-> IF e = d THEN made ELSE IF e \in unset THEN demoted(e) ELSE domain[e]]
             /\ crowned' = TRUE
      PROVE  PrimaryInv'
  <2>1. base \in HostRow /\ (t.status # "COMMAND" => base.status = "ACTIVE")
    <3>1. CASE t.status = "CREATE"
      <4>1. base = [status |-> "ACTIVE", primary |-> FALSE, ssl |-> "PENDING", version |-> 0]
        BY <3>1 DEF Base, New
      <4>2. QED BY <4>1 DEF HostRow
    <3>2. CASE t.status # "CREATE"
      <4>1. base = domain[d] /\ Has(domain, d)
        BY <1>2, <3>2 DEF Base, In, Has, CrowningRow
      <4>2. domain[d] \in HostRow
        BY <1>2, <4>1, HostThere
      <4>3. QED BY <1>2, <3>2, <4>1, <4>2 DEF CrowningRow, In
    <3>3. QED BY <3>1, <3>2
  <2> HIDE DEF base
  <2>2. made \in HostRow /\ made.primary /\ made.status = "ACTIVE"
    <3>1. base.version \in Nat
      BY <2>1 DEF HostRow
    <3>2. PICK n \in Nat : n = base.version + 1
      BY <3>1
    <3>3. made = [base EXCEPT !.primary = TRUE, !.version = n,
                    !.status = IF t.status = "COMMAND" THEN "ACTIVE" ELSE @, !.ssl = IF t.status = "COMMAND" THEN "PENDING" ELSE @]
      BY <3>2
    <3> HIDE DEF made
    <3>4. CASE t.status = "COMMAND"
      <4>1. made = [base EXCEPT !.primary = TRUE, !.version = n, !.status = "ACTIVE", !.ssl = "PENDING"]
        BY <2>1, <3>3, <3>4 DEF HostRow
      <4>2. QED BY <2>1, <4>1 DEF HostRow
    <3>5. CASE t.status # "COMMAND"
      <4>1. made = [base EXCEPT !.primary = TRUE, !.version = n]
        BY <2>1, <3>3, <3>5 DEF HostRow
      <4>2. QED BY <2>1, <3>5, <4>1 DEF HostRow
    <3>6. QED BY <3>4, <3>5
  <2>3. ASSUME NEW e \in unset PROVE demoted(e) \in HostRow /\ ~demoted(e).primary /\ demoted(e).status = domain[e].status
    <3>1. e \in Domain /\ Has(domain, e)
      BY DEF Primary, Registered
    <3>2. domain[e] \in HostRow
      BY <3>1, HostThere
    <3>3. PICK n \in Nat : n = domain[e].version + 1
      BY <3>2 DEF HostRow
    <3>4. demoted(e) = [domain[e] EXCEPT !.primary = FALSE, !.version = n]
      BY <3>3
    <3> HIDE DEF demoted
    <3>5. QED BY <3>2, <3>4 DEF HostRow
  <2> HIDE DEF made, demoted
  <2>4. \A e \in Domain : domain'[e] = IF e = d THEN made ELSE IF e \in unset THEN demoted(e) ELSE domain[e]
    BY <1>5
  <2>5. domain' \in [Domain -> HostRow \cup {Absent}]
    <3>1. \A e \in Domain : domain[e] \in HostRow \cup {Absent}
      BY DEF PrimaryInv
    <3> HIDE DEF unset, d
    <3>2. QED BY <1>5, <2>2, <2>3, <3>1
  <2>6. Primary' = {d}
    <3>1. d \in Primary'
      BY <1>2, <2>2, <2>4 DEF Primary, Registered, Has, HostRow
    <3>2. ASSUME NEW e \in Primary', e # d PROVE FALSE
      <4>1. e \in Domain /\ domain'[e].primary /\ Has(domain', e)
        BY DEF Primary, Registered
      <4>2. e \notin unset
        BY <2>3, <2>4, <3>2, <4>1
      <4>3. domain'[e] = domain[e]
        BY <2>4, <3>2, <4>1, <4>2
      <4>4. e \in Primary
        BY <4>1, <4>3 DEF Primary, Registered, Has
      <4>5. QED BY <1>5, <3>2, <4>2, <4>4
    <3>3. QED BY <3>1, <3>2
  <2>7. domain'[d].status = "ACTIVE"
    BY <1>2, <2>2, <2>4
  <2>8. \A e \in Domain : (In(domain, e, {"ACTIVE"}) => In(domain', e, {"ACTIVE"})) /\ (Has(domain, e) => Has(domain', e))
    <3>1. ASSUME NEW e \in Domain, e # d, e \in unset PROVE domain'[e].status = domain[e].status
      BY <2>3, <2>4, <3>1
    <3>2. ASSUME NEW e \in Domain, e # d, e \notin unset PROVE domain'[e].status = domain[e].status
      BY <2>4, <3>2
    <3>3. QED BY <2>7, <3>1, <3>2 DEF In, Has
  <2>9. ASSUME NEW b \in Admin, b # a, Crowning(b) PROVE Crowning(b)'
    <3>1. crowning'[b] = crowning[b] /\ crowning[b].domain \in Domain
      BY <1>3, <2>9 DEF Crowning, CrowningRow
    <3>2. QED BY <2>8, <2>9, <3>1 DEF Crowning, CrowningRow
  <2>10. \A b \in Admin : crowning'[b] = DomainIdle \/ Crowning(b)'
    BY <1>3, <2>9 DEF PrimaryInv
  <2>11. QED BY <1>3, <1>5, <2>5, <2>6, <2>7, <2>10 DEF PrimaryInv
<1>6. QED
  <2>1. \/ UNCHANGED <<domain, crowned>>
        \/ /\ Primary \ (unset \cup {d}) = {}
           /\ domain' = [e \in Domain |-> IF e = d THEN made ELSE IF e \in unset THEN demoted(e) ELSE domain[e]]
           /\ crowned' = TRUE
    BY DEF MakePrimary
  <2>2. QED BY <1>4, <1>5, <2>1

LEMMA PrimaryStep == ASSUME DomainsAssumption, PrimaryInv, [DomainNext]_domainVars PROVE PrimaryInv'
<1>1. CASE UNCHANGED <<domain, crowned, crowning>>
  <2>1. Primary' = Primary /\ \A a \in Admin : Crowning(a) => Crowning(a)'
    BY <1>1 DEF Primary, Registered, Crowning
  <2>2. QED BY <1>1, <2>1 DEF PrimaryInv
<1>2. ASSUME NEW d \in Domain,
             \/ CreateDomain(d) \/ ActivateTenantDomain(d) \/ Provision(d)
             \/ \E v \in 1..DomainMaxVersion : VerifyDomain(d, v)
      PROVE  PrimaryInv'
  BY <1>2, DomainSteps
<1>3. ASSUME NEW d \in Domain, NEW a \in Admin, NEW way \in {"CREATE", "PRIMARY", "COMMAND"}, Begin(a, d, way) PROVE PrimaryInv'
  BY <1>3, BeginStep
<1>4. ASSUME NEW a \in Admin, MakePrimary(a) PROVE PrimaryInv'
  BY <1>4, MakePrimaryStep
<1>5. CASE \/ \E a \in Admin : AttachAsset(a) \/ \E s \in Slot, f \in File, v \in 1..DomainMaxVersion : LookAtAsset(a, s, f, v)
           \/ \E f \in File : ScanFile(f)
           \/ \E v \in 1..DomainMaxVersion : UpdateBranding(v)
           \/ ChangeFeature \/ UNCHANGED domainVars
  BY <1>1, <1>5 DEF AttachAsset, LookAtAsset, ScanFile, UpdateBranding, ChangeFeature, domainVars
<1>6. QED BY <1>2, <1>3, <1>4, <1>5 DEF DomainNext

\* A scan is final, and an asset looked at goes into the slot it was uploaded for.
LEMMA AssetsStep == ASSUME AssetsInv, [DomainNext]_domainVars PROVE AssetsInv'
<1>1. CASE UNCHANGED <<profile, scan, attaching>>
  BY <1>1 DEF AssetsInv, Fitting
<1>2. ASSUME NEW a \in Admin, NEW s \in Slot, NEW f \in File, NEW v \in 1..DomainMaxVersion, LookAtAsset(a, s, f, v) PROVE AssetsInv'
  <2> DEFINE t == [status |-> "FOUND", locks |-> {}, slot |-> s, file |-> f, version |-> v]
  <2>1. attaching' = [attaching EXCEPT ![a] = t] /\ Fitting(s, f) /\ UNCHANGED <<profile, scan>>
    BY <1>2 DEF LookAtAsset, Fitting
  <2>2. attaching'[a] = t /\ DOMAIN attaching' = Admin /\ \A b \in Admin : b # a => attaching'[b] = attaching[b]
    BY <2>1 DEF AssetsInv
  <2>3. QED BY <2>1, <2>2 DEF AssetsInv, Fitting
<1>3. ASSUME NEW a \in Admin, AttachAsset(a) PROVE AssetsInv'
  <2> DEFINE t == attaching[a]
  <2>1. t # DomainIdle /\ attaching' = [attaching EXCEPT ![a] = DomainIdle] /\ UNCHANGED scan
        /\ profile' = IF profile.version = t.version /\ t.version < DomainMaxVersion
                      THEN [file |-> [profile.file EXCEPT ![t.slot] = t.file], version |-> t.version + 1] ELSE profile
    BY <1>3 DEF AttachAsset
  <2>2. t.slot \in Slot /\ Fitting(t.slot, t.file)
    BY <2>1 DEF AssetsInv
  <2>3. attaching'[a] = DomainIdle /\ DOMAIN attaching' = Admin /\ \A b \in Admin : b # a => attaching'[b] = attaching[b]
    BY <2>1 DEF AssetsInv
  <2>4. \A s \in Slot : profile'.file[s] = profile.file[s] \/ (s = t.slot /\ profile'.file[s] = t.file)
    BY <2>1, <2>2 DEF AssetsInv
  <2>5. DOMAIN profile'.file = Slot /\ profile' = [file |-> profile'.file, version |-> profile'.version]
    BY <2>1 DEF AssetsInv
  <2>6. QED BY <2>1, <2>2, <2>3, <2>4, <2>5 DEF AssetsInv, Fitting
<1>4. ASSUME NEW f \in File, ScanFile(f) PROVE AssetsInv'
  <2>1. scan[f] = "PENDING" /\ UNCHANGED <<profile, attaching>> /\ DOMAIN scan' = File /\ \A x \in File : x # f => scan'[x] = scan[x]
    BY <1>4 DEF ScanFile, AssetsInv
  <2>2. QED BY <2>1 DEF AssetsInv, Fitting
<1>5. ASSUME NEW v \in 1..DomainMaxVersion, UpdateBranding(v) PROVE AssetsInv'
  <2>1. profile'.file = profile.file /\ profile' = [file |-> profile'.file, version |-> profile'.version] /\ UNCHANGED <<scan, attaching>>
    BY <1>5 DEF UpdateBranding, AssetsInv
  <2>2. QED BY <2>1 DEF AssetsInv, Fitting
<1>6. CASE \/ \E d \in Domain :
                \/ CreateDomain(d) \/ ActivateTenantDomain(d) \/ Provision(d)
                \/ \E v \in 1..DomainMaxVersion : VerifyDomain(d, v)
                \/ \E a \in Admin, way \in {"CREATE", "PRIMARY", "COMMAND"} : Begin(a, d, way)
           \/ \E a \in Admin : MakePrimary(a)
           \/ ChangeFeature \/ UNCHANGED domainVars
  BY <1>1, <1>6 DEF CreateDomain, ActivateTenantDomain, Provision, VerifyDomain, Begin, MakePrimary, ChangeFeature, domainVars
<1>7. QED BY <1>2, <1>3, <1>4, <1>5, <1>6 DEF DomainNext

\* A company that ever had a primary domain has exactly one, and an active one,
\* although whoever makes another primary sees the primary rows before the locks;
\* letters link to that one once it is provisioned.
THEOREM DomainOnePrimary == ASSUME DomainsAssumption PROVE DomainSpec => []OnePrimaryDomain
<1>1. DomainSpec => []PrimaryInv
  BY DomainInitInv, PrimaryStep, PTL DEF DomainSpec
<1>2. ASSUME PrimaryInv PROVE OnePrimaryDomain
  <2>1. Primary = {} \/ \E d \in Primary : Primary = {d}
    BY <1>2 DEF PrimaryInv
  <2>2. Cardinality(Primary) = IF crowned THEN 1 ELSE 0
    <3>1. CASE Primary = {}
      BY <1>2, <3>1, FS_EmptySet DEF PrimaryInv
    <3>2. ASSUME NEW d \in Primary, Primary = {d} PROVE Cardinality(Primary) = IF crowned THEN 1 ELSE 0
      <4>1. Cardinality({d}) = 1
        BY FS_Singleton
      <4>2. crowned
        BY <1>2 DEF PrimaryInv
      <4>3. QED BY <3>2, <4>1, <4>2
    <3>3. QED BY <2>1, <3>1, <3>2
  <2>3. ASSUME NEW d \in Primary, Resolves(d), domain[d].ssl = "ACTIVE" PROVE Cardinality(Linked) = 1
    <3> DEFINE able == {x \in Registered : Resolves(x) /\ domain[x].ssl = "ACTIVE"}
    <3>1. Primary = {d} /\ d \in able
      BY <1>2, <2>3 DEF PrimaryInv, Primary
    <3>2. Linked = {d}
      BY <3>1 DEF Linked
    <3>3. QED BY <3>2, FS_Singleton
  <2>4. QED BY <1>2, <2>2, <2>3 DEF OnePrimaryDomain, PrimaryInv
<1>3. QED BY <1>1, <1>2, PTL

\* What is in a slot was uploaded for it, and every host that answers shows it,
\* although a file is looked at before the profile is locked.
THEOREM DomainAssetsAreShown == DomainSpec => []AssetsAreShown
<1>1. DomainSpec => []AssetsInv
  BY DomainInitInv, AssetsStep, PTL DEF DomainSpec
<1>2. ASSUME AssetsInv PROVE AssetsAreShown
  BY <1>2 DEF AssetsInv, Fitting, AssetsAreShown, DomainShown, Resolves
<1>3. QED BY <1>1, <1>2, PTL

-----------------------------------------------------------------------------
(* Versions of a configuration.                                            *)

DraftRow == [status : {"DRAFT", "PUBLISHED"}, payload : Payload, from : Nat, to : Nat, checksum : Payload \cup {NoPayload}]

\* Who has read the newest version inserts the next; that one is not taken back.
VersionsInv ==
  /\ configVersion \in [Numbers -> DraftRow \cup {Absent}] /\ DOMAIN first = Numbers /\ DOMAIN drafting = ConfigCaller
  /\ \E k \in 0..MaxVersions : Versions = 1..k
  /\ \A n \in Numbers : first[n] = IF n \in Versions THEN configVersion[n].payload ELSE NoPayload
  /\ \A n \in Published : configVersion[n].checksum = configVersion[n].payload
  /\ \A c \in ConfigCaller : drafting[c] = ConfigIdle \/
       /\ drafting[c] \in [status : {"DRAFT", "PUBLISHED"}, number : Nat \ {0}, payload : Payload, from : Nat, to : Nat]
       /\ drafting[c].number = 1 \/ drafting[c].number - 1 \in Versions

LEMMA VersionsInitInv == ConfigurationAssumption /\ ConfigInit => VersionsInv
<1> SUFFICES ASSUME ConfigurationAssumption, ConfigInit PROVE VersionsInv
  OBVIOUS
<1>1. Versions = {} /\ Published = {}
  BY DEF ConfigInit, Versions, Published, Has, In, Absent
<1>2. 0 \in 0..MaxVersions /\ Versions = 1..0
  BY <1>1 DEF ConfigurationAssumption
<1>3. QED BY <1>1, <1>2 DEF ConfigInit, VersionsInv

\* The newest version, when they run without a gap.
LEMMA NewestIs ==
  ASSUME ConfigurationAssumption, NEW k \in 0..MaxVersions, Versions = 1..k PROVE ConfigNewest = k
<1>1. k \in Nat
  BY DEF ConfigurationAssumption
<1>2. CASE k = 0
  BY <1>2 DEF ConfigNewest
<1>3. CASE k > 0
  <2>1. k \in Versions /\ \A n \in Versions : n <= k
    BY <1>1, <1>3
  <2>2. \A x \in Versions : (\A n \in Versions : n <= x) => x = k
    BY <1>1, <2>1
  <2>3. QED BY <2>1, <2>2 DEF ConfigNewest
<1>4. QED BY <1>1, <1>2, <1>3

LEMMA VersionsStep == ASSUME ConfigurationAssumption, VersionsInv, [ConfigNext]_configVars PROVE VersionsInv'
<1>1. PICK k \in 0..MaxVersions : Versions = 1..k
  BY DEF VersionsInv
<1>2. k \in Nat /\ MaxVersions \in Nat
  BY DEF ConfigurationAssumption
\* Where only a transaction begins or ends.
<1>3. ASSUME UNCHANGED <<configVersion, first>>, DOMAIN drafting' = ConfigCaller,
             \A c \in ConfigCaller : drafting'[c] = ConfigIdle \/
               /\ drafting'[c] \in [status : {"DRAFT", "PUBLISHED"}, number : Nat \ {0}, payload : Payload, from : Nat, to : Nat]
               /\ drafting'[c].number = 1 \/ drafting'[c].number - 1 \in Versions
      PROVE  VersionsInv'
  <2>1. Versions' = Versions /\ Published' = Published
    BY <1>3 DEF Versions, Published, Has, In
  <2>2. QED BY <1>3, <2>1 DEF VersionsInv
<1>4. ASSUME NEW c \in ConfigCaller, NEW p \in Payload, NEW from \in Moment, NEW to \in Moment \cup {Forever},
             NEW s \in {"DRAFT", "PUBLISHED"}, NEW n \in {1, ConfigNewest + 1}, UNCHANGED <<configVersion, first>>,
             drafting' = [drafting EXCEPT ![c] = [status |-> s, number |-> n, payload |-> p, from |-> from, to |-> to]]
      PROVE  VersionsInv'
  <2> DEFINE t == [status |-> s, number |-> n, payload |-> p, from |-> from, to |-> to]
  <2>1. ConfigNewest = k
    BY <1>1, NewestIs
  <2>2. n \in Nat \ {0} /\ (n = 1 \/ n - 1 \in Versions)
    BY <1>1, <1>2, <2>1
  <2>3. from \in Nat /\ to \in Nat
    BY DEF ConfigurationAssumption, Forever
  <2>4. t \in [status : {"DRAFT", "PUBLISHED"}, number : Nat \ {0}, payload : Payload, from : Nat, to : Nat] /\ t.number = n
    BY <2>2, <2>3
  <2> HIDE DEF t
  <2>5. drafting'[c] = t /\ DOMAIN drafting' = ConfigCaller /\ \A b \in ConfigCaller : b # c => drafting'[b] = drafting[b]
    BY <1>4 DEF VersionsInv, t
  <2>6. QED BY <1>3, <1>4, <2>2, <2>4, <2>5 DEF VersionsInv
<1>5. ASSUME NEW c \in ConfigCaller, NEW p \in Payload, NEW from \in Moment,
             BeginBootstrap(c, p, from) \/ \E to \in Moment \cup {Forever} : BeginDraft(c, p, from, to)
      PROVE  VersionsInv'
  <2>1. CASE BeginBootstrap(c, p, from)
    BY <1>4, <2>1 DEF BeginBootstrap
  <2>2. ASSUME NEW to \in Moment \cup {Forever}, BeginDraft(c, p, from, to) PROVE VersionsInv'
    BY <1>4, <2>2 DEF BeginDraft
  <2>3. QED BY <1>5, <2>1, <2>2
<1>6. ASSUME NEW c \in ConfigCaller, Insert(c) PROVE VersionsInv'
  <2> DEFINE t == drafting[c]
             n == t.number
  <2>1. t # ConfigIdle /\ drafting' = [drafting EXCEPT ![c] = ConfigIdle]
    BY <1>6 DEF Insert
  <2>2. t \in [status : {"DRAFT", "PUBLISHED"}, number : Nat \ {0}, payload : Payload, from : Nat, to : Nat]
        /\ (n = 1 \/ n - 1 \in Versions)
    BY <2>1 DEF VersionsInv
  <2>3. drafting'[c] = ConfigIdle /\ DOMAIN drafting' = ConfigCaller /\ \A b \in ConfigCaller : b # c => drafting'[b] = drafting[b]
    BY <2>1 DEF VersionsInv
  <2>4. CASE UNCHANGED <<configVersion, first>>
    BY <1>3, <2>3, <2>4 DEF VersionsInv
  <2>5. ASSUME n \in Numbers, n \notin Versions, configVersion' = [configVersion EXCEPT ![n] = Row(t)],
               first' = [first EXCEPT ![n] = IF @ = NoPayload THEN t.payload ELSE @]
        PROVE  VersionsInv'
    <3>1. n \in Nat \ {0}
      BY <2>2
    <3>2. n = k + 1
      BY <1>1, <1>2, <2>2, <2>5, <3>1
    <3>3. Row(t) \in DraftRow /\ Row(t).payload = t.payload /\ (Row(t).status = "PUBLISHED" => Row(t).checksum = t.payload)
      BY <2>2 DEF Row, DraftRow
    <3> HIDE DEF n
    <3>4. /\ configVersion' \in [Numbers -> DraftRow \cup {Absent}] /\ configVersion'[n] = Row(t)
          /\ \A x \in Numbers : x # n => configVersion'[x] = configVersion[x]
      BY <2>5, <3>3 DEF VersionsInv
    <3>5. Has(configVersion', n)
      BY <3>3, <3>4 DEF Has, DraftRow
    <3>6. Versions' = Versions \cup {n}
      BY <2>5, <3>4, <3>5 DEF Versions, Has
    <3>7. Versions' = 1..(k + 1) /\ k + 1 \in 0..MaxVersions
      <4>1. k + 1 <= MaxVersions
        BY <2>5, <3>2 DEF Numbers
      <4>2. 1..(k + 1) = 1..k \cup {k + 1}
        BY <1>2
      <4>3. QED BY <1>1, <1>2, <3>2, <3>6, <4>1, <4>2
    <3>8. DOMAIN first' = Numbers /\ first'[n] = t.payload /\ \A x \in Numbers : x # n => first'[x] = first[x]
      BY <2>5 DEF VersionsInv
    <3>9. \A x \in Numbers : first'[x] = IF x \in Versions' THEN configVersion'[x].payload ELSE NoPayload
      <4>1. ASSUME NEW x \in Numbers, x # n PROVE first'[x] = IF x \in Versions' THEN configVersion'[x].payload ELSE NoPayload
        BY <3>4, <3>6, <3>8, <4>1 DEF VersionsInv
      <4>2. first'[n] = configVersion'[n].payload /\ n \in Versions'
        BY <3>3, <3>4, <3>6, <3>8
      <4>3. QED BY <4>1, <4>2
    <3>10. \A x \in Published' : configVersion'[x].checksum = configVersion'[x].payload
      BY <3>3, <3>4 DEF VersionsInv, Published, In
    <3>11. \A b \in ConfigCaller : drafting'[b] = ConfigIdle \/
             /\ drafting'[b] \in [status : {"DRAFT", "PUBLISHED"}, number : Nat \ {0}, payload : Payload, from : Nat, to : Nat]
             /\ drafting'[b].number = 1 \/ drafting'[b].number - 1 \in Versions'
      BY <2>3, <3>6 DEF VersionsInv
    <3>12. QED BY <2>3, <3>4, <3>7, <3>8, <3>9, <3>10, <3>11 DEF VersionsInv
  <2>6. QED BY <1>6, <2>4, <2>5 DEF Insert
<1>7. ASSUME NEW n \in Numbers, PublishConfigurationVersion(n) PROVE VersionsInv'
  <2> DEFINE row == [configVersion[n] EXCEPT !.status = "PUBLISHED", !.checksum = configVersion[n].payload]
  <2>1. In(configVersion, n, {"DRAFT"}) /\ Has(configVersion, n) /\ UNCHANGED <<drafting, first>>
    BY <1>7 DEF PublishConfigurationVersion, In, Has
  <2>2. configVersion[n] \in DraftRow
    BY <2>1 DEF VersionsInv, Has, Absent
  <2>3. configVersion' = [configVersion EXCEPT ![n] = row]
    BY <1>7, <2>2 DEF PublishConfigurationVersion, VersionsInv, DraftRow
  <2>4. row \in DraftRow /\ row.checksum = row.payload /\ row.payload = configVersion[n].payload
    BY <2>2 DEF DraftRow
  <2> HIDE DEF row
  <2>5. /\ configVersion' \in [Numbers -> DraftRow \cup {Absent}] /\ configVersion'[n] = row
        /\ \A x \in Numbers : x # n => configVersion'[x] = configVersion[x]
    BY <2>3, <2>4 DEF VersionsInv
  <2>6. Versions' = Versions
    BY <2>1, <2>4, <2>5 DEF Versions, Has, DraftRow
  <2>7. \A x \in Published' : configVersion'[x].checksum = configVersion'[x].payload
    BY <2>4, <2>5 DEF VersionsInv, Published, In
  <2>8. \A x \in Numbers : first'[x] = IF x \in Versions' THEN configVersion'[x].payload ELSE NoPayload
    BY <2>1, <2>4, <2>5, <2>6 DEF VersionsInv
  <2>9. QED BY <2>1, <2>5, <2>6, <2>7, <2>8 DEF VersionsInv
<1>8. CASE ChangeSchema \/ UNCHANGED configVars
  BY <1>3, <1>8 DEF ChangeSchema, configVars, VersionsInv
<1>9. QED BY <1>5, <1>6, <1>7, <1>8 DEF ConfigNext

\* Versions are numbered without a gap, each keeps what it was made with, and the
\* checksum of a published one is of just that, whoever drafts, publishes and
\* bootstraps at once on what each has read of the newest.
THEOREM ConfigVersionsAreKept == ASSUME ConfigurationAssumption PROVE ConfigSpec => []VersionsAreKept
<1>1. ConfigSpec => []VersionsInv
  BY VersionsInitInv, VersionsStep, PTL DEF ConfigSpec
<1>2. ASSUME VersionsInv PROVE VersionsAreKept
  <2>1. PICK k \in 0..MaxVersions : Versions = 1..k
    BY <1>2 DEF VersionsInv
  <2>2. Cardinality(1..k) = k
    BY FS_Interval DEF ConfigurationAssumption
  <2>3. Published \subseteq Versions /\ Versions \subseteq Numbers
    BY DEF Published, Versions, Has, In
  <2>4. QED BY <1>2, <2>1, <2>2, <2>3 DEF VersionsInv, VersionsAreKept
<1>3. QED BY <1>1, <1>2, PTL

\* A bounded set of numbers has a highest one: of the sets of its members from
\* one of them on, which are finite, one is minimal.
LEMMA HighestOf ==
  ASSUME NEW S \in SUBSET Nat, S # {}, NEW b \in Nat, \A x \in S : x <= b
  PROVE  \E m \in S : \A x \in S : x <= m
<1> DEFINE From(n) == {x \in S : x >= n}
           F == {From(n) : n \in S}
           R == StrictSubsetOrdering(S)
<1>1. IsFiniteSet(S)
  BY FS_BoundedSetOfNaturals
<1>2. IsWellFoundedOn(R, FiniteSubsetsOf(S)) /\ FiniteSubsetsOf(S) = SUBSET S
  BY <1>1, FS_StrictSubsetOrderingWellFounded, FS_FiniteSubsetsOfFinite
<1>3. F # {} /\ F \subseteq FiniteSubsetsOf(S)
  <2>1. F # {} /\ F \subseteq SUBSET S
    OBVIOUS
  <2>2. QED BY <1>2, <2>1
<1> HIDE DEF F, R
<1>4. PICK T \in F : \A U \in F : ~(<<U, T>> \in R)
  BY <1>2, <1>3, WFMin
<1>5. PICK m \in S : T = From(m)
  BY DEF F
<1>6. ASSUME NEW x \in S, x > m PROVE FALSE
  <2>1. From(x) \subseteq From(m) /\ m \notin From(x) /\ m \in From(m) /\ From(x) \in F
    <3>1. x \in Nat /\ m \in Nat /\ \A y \in S : y \in Nat
      OBVIOUS
    <3>2. (\A y \in S : y >= x => y >= m) /\ ~(m >= x) /\ m >= m
      BY <1>6, <3>1
    <3>3. From(x) \in F
      BY DEF F
    <3>4. QED BY <3>2, <3>3
  <2>2. <<From(x), T>> \in R
    BY <1>5, <2>1 DEF R, StrictSubsetOrdering
  <2>3. QED BY <1>4, <2>1, <2>2
<1>7. \A x \in S : x <= m
  BY <1>6
<1>8. QED BY <1>7

\* At every moment at most one version is in force, one if any is in its window,
\* and the two readers agree as long as no version starts before an older one.
THEOREM ConfigReadersAgree == ASSUME ConfigurationAssumption PROVE ConfigSpec => []ReadersAgree
<1>1. ConfigSpec => []VersionsInv
  BY VersionsInitInv, VersionsStep, PTL DEF ConfigSpec
<1>2. ASSUME VersionsInv, NEW t \in Moment
      PROVE  /\ Cardinality(ActiveAt(t)) = (IF Candidates(t) = {} THEN 0 ELSE 1)
             /\ (\A k, n \in Published : k < n => configVersion[k].from <= configVersion[n].from) => ActiveAt(t) = LifecycleAt(t)
  <2> DEFINE start(n) == configVersion[n].from
             before(k, n) == start(k) < start(n) \/ (start(k) = start(n) /\ k < n)
  <2>1. t \in Nat /\ MaxVersions \in Nat
    BY DEF ConfigurationAssumption
  <2>2. \A n \in Candidates(t) : n \in Published /\ start(n) \in Nat /\ start(n) <= t /\ n \in Nat /\ n <= MaxVersions
    <3>1. ASSUME NEW n \in Candidates(t) PROVE n \in Published /\ start(n) \in Nat /\ start(n) <= t /\ n \in Nat /\ n <= MaxVersions
      <4>1. n \in Numbers /\ n \in Published /\ In(configVersion, n, {"PUBLISHED"}) /\ start(n) <= t
        BY DEF Candidates, Published, InWindow
      <4>2. configVersion[n] \in DraftRow
        BY <1>2, <4>1 DEF VersionsInv, In, Absent
      <4>3. QED BY <2>1, <4>1, <4>2 DEF DraftRow, Numbers
    <3>2. QED BY <3>1
  <2>3. ActiveAt(t) = {n \in Candidates(t) : \A k \in Candidates(t) \ {n} : before(k, n)}
    BY DEF ActiveAt
  <2>4. CASE Candidates(t) = {}
    <3>1. ActiveAt(t) = {} /\ LifecycleAt(t) = {}
      BY <2>4 DEF ActiveAt, LifecycleAt
    <3>2. QED BY <2>4, <3>1, FS_EmptySet
  <2>5. CASE Candidates(t) # {}
    <3> HIDE DEF start
    <3> DEFINE Starts == {start(n) : n \in Candidates(t)}
    <3>1. PICK s \in Starts : \A x \in Starts : x <= s
      <4>1. Starts \in SUBSET Nat /\ Starts # {} /\ \A x \in Starts : x <= t
        BY <2>2, <2>5
      <4> HIDE DEF Starts
      <4>2. QED BY <2>1, <4>1, HighestOf
    <3> DEFINE Last == {n \in Candidates(t) : start(n) = s}
    <3>2. PICK m \in Last : \A n \in Last : n <= m
      <4>1. Last \in SUBSET Nat /\ Last # {} /\ \A n \in Last : n <= MaxVersions
        BY <2>2, <3>1
      <4> HIDE DEF Last
      <4>2. QED BY <2>1, <4>1, HighestOf
    <3>3. \A n \in Candidates(t) \ {m} : before(n, m)
      <4>1. ASSUME NEW n \in Candidates(t), n # m PROVE before(n, m)
        <5>1. start(n) \in Nat /\ start(m) \in Nat /\ n \in Nat /\ m \in Nat /\ start(n) <= s /\ start(m) = s
          BY <2>2, <3>1, <3>2
        <5>2. CASE start(n) = s
          BY <3>2, <4>1, <5>1, <5>2
        <5>3. QED BY <5>1, <5>2
      <4>2. QED BY <4>1
    <3>4. ActiveAt(t) = {m}
      <4>1. m \in ActiveAt(t)
        BY <2>3, <3>2, <3>3
      <4>2. ASSUME NEW n \in ActiveAt(t), n # m PROVE FALSE
        <5>1. n \in Candidates(t) /\ m \in Candidates(t) /\ before(n, m) /\ before(m, n)
          BY <2>3, <3>2, <3>3, <4>2
        <5>2. QED BY <2>2, <5>1
      <4>3. QED BY <4>1, <4>2
    <3>5. Cardinality(ActiveAt(t)) = 1
      BY <3>4, FS_Singleton
    <3>6. ASSUME \A k, n \in Published : k < n => configVersion[k].from <= configVersion[n].from
          PROVE  ActiveAt(t) = LifecycleAt(t)
      <4>1. \A k, n \in Published : k < n => start(k) <= start(n)
        BY <3>6 DEF start
      <4>2. ASSUME NEW k \in Candidates(t) PROVE k <= m
        <5>1. k = m \/ before(k, m)
          BY <3>3
        <5>2. QED BY <2>2, <3>2, <4>1, <5>1
      <4>3. LifecycleAt(t) = {m}
        BY <2>2, <3>2, <4>2 DEF LifecycleAt
      <4>4. QED BY <3>4, <4>3
    <3>7. QED BY <2>5, <3>5, <3>6
  <2>6. QED BY <2>4, <2>5
<1>3. ASSUME VersionsInv PROVE ReadersAgree
  BY <1>2, <1>3 DEF ReadersAgree
<1>4. QED BY <1>1, <1>3, PTL
=============================================================================
