--------------------------- MODULE Communication ---------------------------
(***************************************************************************)
(* Requests to message one subject over one channel for one purpose, from  *)
(* their creation to the provider's callbacks (modules/communication,      *)
(* application/services.py, callbacks.py and adapters.py).                 *)
(*                                                                         *)
(* create_request reads the policy, the consent and the number of recent   *)
(* requests without a lock and inserts later, so it is two steps.          *)
(* dispatch_request calls the provider inside its transaction, so the      *)
(* message is out before the row says so: sending and committing are two   *)
(* steps, with a rollback in place of the second when the process dies or  *)
(* the adapter raises something else than ValidationError.  Everything     *)
(* happens within the one day that the daily limit looks at.               *)
(***************************************************************************)
EXTENDS Integers, Sequences, FiniteSets

CONSTANTS
  Request,       \* rows of communication_request
  NoMessage,     \* provider_message_id is empty
  DailyLimit,    \* max_daily_per_subject
  RetryLimit,    \* retry_limit
  MaxRollbacks,  \* bound: dispatches that roll back after the provider call
  MaxChanges,    \* bound: changes of consent, policy and provider
  MaxReceipts    \* bound: callbacks received

Message == Request \X (1..(RetryLimit + MaxRollbacks))  \* ids the provider gives
Event == Message \X {"sent", "delivered", "failed"}     \* callbacks, by event id

ASSUME CommunicationAssumption ==
  /\ IsFiniteSet(Request) /\ NoMessage \notin Message
  /\ DailyLimit \in Nat \ {0} /\ RetryLimit \in Nat \ {0}
  /\ MaxRollbacks \in Nat /\ MaxChanges \in Nat
  /\ MaxReceipts \in Nat

VARIABLES
  consent,    \* status of the latest consent record; "none" without one
  enabled,    \* is_enabled of the channel policy
  provided,   \* the channel has an active provider
  status,     \* Request -> status; "none" before the row is committed
  draft,      \* Request -> status create_request is about to insert
  bound,      \* Request -> a provider is recorded in the row
  later,      \* Request -> scheduled_for lies in the future
  msg,        \* Request -> provider_message_id
  attempts,   \* Request -> statuses of its attempts, by attempt_number
  sending,    \* Request -> outcome of an adapter.send not yet committed
  given,      \* Request -> messages the provider has been given for it
  receipts,   \* events with a row in communication_callback_receipt
  applied,    \* history: Event -> how often it changed a request
  told,       \* history: <<message, status>> as adapters and callbacks said
  rollbacks, changes

settings == <<consent, enabled, provided, changes>>
rows     == <<status, draft, bound, later, msg, attempts>>
provider == <<sending, given, rollbacks>>
inbox    == <<receipts, applied, told>>
vars     == <<settings, rows, provider, inbox>>

Statuses == {"none", "queued", "scheduled", "sent", "delivered", "failed",
             "suppressed", "cancelled"}

Init ==
  /\ consent \in {"none", "granted"} /\ enabled = TRUE /\ provided = TRUE
  /\ changes = 0
  /\ status = [r \in Request |-> "none"]
  /\ draft = [r \in Request |-> "none"]
  /\ bound = [r \in Request |-> FALSE]
  /\ later = [r \in Request |-> FALSE]
  /\ msg = [r \in Request |-> NoMessage]
  /\ attempts = [r \in Request |-> <<>>]
  /\ sending = [r \in Request |-> "none"]
  /\ given = [r \in Request |-> 0]
  /\ rollbacks = 0
  /\ receipts = {} /\ told = {}
  /\ applied = [e \in Event |-> 0]

-----------------------------------------------------------------------------
(* Settings: record_consent, update_channel_policy, provider activation.   *)

Change == changes < MaxChanges /\ changes' = changes + 1

RecordConsent ==
  /\ Change
  /\ consent' \in {"granted", "withdrawn", "denied"} \ {consent}
  /\ UNCHANGED <<enabled, provided, rows, provider, inbox>>

UpdateChannelPolicy ==
  /\ Change
  /\ enabled' = ~enabled
  /\ UNCHANGED <<consent, provided, rows, provider, inbox>>

SwitchProvider ==
  /\ Change
  /\ provided' = ~provided
  /\ UNCHANGED <<consent, enabled, rows, provider, inbox>>

-----------------------------------------------------------------------------
(* create_request and cancel_request.                                      *)

Recent == {r \in Request : status[r] \notin {"none", "cancelled"}}

Permitted == enabled /\ consent = "granted"

\* The status the request will get; quiet hours or a given time in the
\* future make it scheduled.
DecideStatus(s) ==
  IF ~Permitted \/ Cardinality(Recent) >= DailyLimit
  THEN s = "suppressed" ELSE s \in {"queued", "scheduled"}

BeginCreate(r) ==
  /\ status[r] = "none" /\ draft[r] = "none"
  /\ \E s \in Statuses : DecideStatus(s) /\ draft' = [draft EXCEPT ![r] = s]
  /\ bound' = [bound EXCEPT ![r] = provided]
  /\ UNCHANGED <<settings, status, later, msg, attempts, provider, inbox>>

CommitCreate(r) ==
  /\ draft[r] # "none"
  /\ status' = [status EXCEPT ![r] = draft[r]]
  /\ later' = [later EXCEPT ![r] = draft[r] = "scheduled"]
  /\ draft' = [draft EXCEPT ![r] = "none"]
  /\ UNCHANGED <<settings, bound, msg, attempts, provider, inbox>>

TimePasses(r) ==
  /\ later[r]
  /\ later' = [later EXCEPT ![r] = FALSE]
  /\ UNCHANGED <<settings, status, draft, bound, msg, attempts, provider, inbox>>

\* The row lock makes it wait for a dispatch; expected_version only makes a
\* client that has not seen the current row try again.
CancelRequest(r) ==
  /\ sending[r] = "none"
  /\ status[r] \in {"queued", "scheduled", "failed"}
  /\ status' = [status EXCEPT ![r] = "cancelled"]
  /\ UNCHANGED <<settings, draft, bound, later, msg, attempts, provider, inbox>>

-----------------------------------------------------------------------------
(* dispatch_request.                                                       *)

\* No early return, and nobody else holds the row.
MayDispatch(r) ==
  /\ sending[r] = "none"
  /\ status[r] \in {"queued", "scheduled", "failed"}

DispatchTooEarly(r) ==
  /\ MayDispatch(r) /\ later[r]
  /\ status' = [status EXCEPT ![r] = "scheduled"]
  /\ UNCHANGED <<settings, draft, bound, later, msg, attempts, provider, inbox>>

DispatchWithoutProvider(r) ==
  /\ MayDispatch(r) /\ ~later[r] /\ ~bound[r] /\ ~provided
  /\ status' = [status EXCEPT ![r] = "failed"]
  /\ UNCHANGED <<settings, draft, bound, later, msg, attempts, provider, inbox>>

\* Mutant: one attempt too many.
RetriesExceeded(r) == Len(attempts[r]) <= RetryLimit

RetriesLeft(r) == Len(attempts[r]) < RetryLimit

\* adapter.send has returned, or raised ValidationError ("rejected"); what the
\* transaction has written so far, nobody sees.
Send(r) ==
  /\ MayDispatch(r) /\ ~later[r] /\ (bound[r] \/ provided)
  /\ RetriesLeft(r)
  /\ \E outcome \in {"sent", "delivered", "failed", "rejected"} :
       /\ sending' = [sending EXCEPT ![r] = outcome]
       /\ given' = [given EXCEPT ![r] = IF outcome = "rejected" THEN @ ELSE @ + 1]
  /\ UNCHANGED <<settings, rows, rollbacks, inbox>>

CommitDispatch(r) ==
  /\ sending[r] # "none"
  /\ LET outcome == IF sending[r] = "rejected" THEN "failed" ELSE sending[r] IN
       /\ status' = [status EXCEPT ![r] = outcome]
       /\ attempts' = [attempts EXCEPT ![r] = Append(@, outcome)]
  /\ msg' = [msg EXCEPT ![r] = IF sending[r] = "rejected" THEN @ ELSE <<r, given[r]>>]
  /\ bound' = [bound EXCEPT ![r] = TRUE]
  /\ told' = IF sending[r] = "rejected" THEN told
             ELSE told \cup {<<<<r, given[r]>>, sending[r]>>}
  /\ sending' = [sending EXCEPT ![r] = "none"]
  /\ UNCHANGED <<settings, draft, later, given, rollbacks, receipts, applied>>

RollbackDispatch(r) ==
  /\ sending[r] # "none" /\ rollbacks < MaxRollbacks
  /\ rollbacks' = rollbacks + 1
  /\ sending' = [sending EXCEPT ![r] = "none"]
  /\ UNCHANGED <<settings, rows, given, inbox>>

-----------------------------------------------------------------------------
(* process_callback.                                                       *)

\* Mutant: requests are found by their id, whatever message they carry now.
FoundByRequest(e) == {r \in Request : e[1][1] = r /\ status[r] # "none"}

\* The request whose committed provider_message_id the event names.
Found(e) == {r \in Request : msg[r] = e[1]}

\* Mutant: a receipt does not keep an event from being processed again.
SeenNothing(e) == FALSE

SeenBefore(e) == e \in receipts

\* The provider reports on a message it was given, in any order and again and
\* again; an inactive provider is not listened to.
Reportable(e) ==
  /\ e[1][2] <= given[e[1][1]] /\ provided
  /\ e \in receipts \/ Cardinality(receipts) < MaxReceipts

\* The event of an unknown message or with an invalid signature leaves a
\* receipt and nothing else.
KeepReceiptOnly(e) ==
  /\ Reportable(e) /\ ~SeenBefore(e)
  /\ \A r \in Found(e) : sending[r] = "none"
  /\ receipts' = receipts \cup {e}
  /\ UNCHANGED <<settings, rows, provider, applied, told>>

\* The status of the event overwrites that of the request and of its last
\* attempt.
ApplyCallback(e) ==
  /\ Reportable(e) /\ ~SeenBefore(e)
  /\ \E r \in Found(e) :
       /\ sending[r] = "none"
       /\ status' = [status EXCEPT ![r] = e[2]]
       /\ attempts' = [attempts EXCEPT ![r] =
            [n \in DOMAIN @ |-> IF n = Len(@) /\ e[2] # "sent" THEN e[2] ELSE @[n]]]
  /\ receipts' = receipts \cup {e}
  /\ applied' = [applied EXCEPT ![e] = @ + 1]
  /\ told' = told \cup {e}
  /\ UNCHANGED <<settings, draft, bound, later, msg, provider>>

-----------------------------------------------------------------------------
Dispatch(r) ==
  \/ DispatchTooEarly(r) \/ DispatchWithoutProvider(r) \/ Send(r)
  \/ CommitDispatch(r) \/ RollbackDispatch(r)

Next ==
  \/ RecordConsent \/ UpdateChannelPolicy \/ SwitchProvider
  \/ \E r \in Request : \/ BeginCreate(r) \/ CommitCreate(r) \/ TimePasses(r)
                        \/ CancelRequest(r) \/ Dispatch(r)
  \/ \E e \in Event : KeepReceiptOnly(e) \/ ApplyCallback(e)

Spec == Init /\ [][Next]_vars

-----------------------------------------------------------------------------
(* Properties.                                                             *)

TypeOK ==
  /\ consent \in {"none", "granted", "withdrawn", "denied"}
  /\ enabled \in BOOLEAN /\ provided \in BOOLEAN /\ changes \in Nat
  /\ status \in [Request -> Statuses] /\ draft \in [Request -> Statuses]
  /\ bound \in [Request -> BOOLEAN] /\ later \in [Request -> BOOLEAN]
  /\ msg \in [Request -> Message \cup {NoMessage}]
  /\ attempts \in [Request -> Seq({"sent", "delivered", "failed"})]
  /\ sending \in [Request -> {"none", "sent", "delivered", "failed", "rejected"}]
  /\ given \in [Request -> Nat]
  /\ rollbacks \in Nat
  /\ receipts \subseteq Event /\ told \subseteq Event
  /\ applied \in [Event -> Nat]

\* The subject gets no more messages for a request than its retry limit and
\* the dispatches that rolled back explain, whatever the callbacks report.
SendBudget ==
  \A r \in Request : given[r] <= RetryLimit + rollbacks

\* A callback moves a request at most once, however often the provider
\* repeats it and whatever was dispatched again in between.
AppliedOnce == \A e \in Event : applied[e] <= 1 /\ (applied[e] = 1 => e \in receipts)

\* A status of success was said of the very message the row names: neither a
\* retry, a rollback nor a late callback of an earlier message mixes them up.
StatusWasTold ==
  \A r \in Request :
    status[r] \in {"sent", "delivered"} => <<msg[r], status[r]>> \in told

\* docs/api/phase-9-communications.md: "External channel requests are suppressed
\* when the channel is disabled, consent is not granted, [...]": what reaches
\* the provider is permitted when it is sent.
MessagesArePermitted ==
  [][\A r \in Request : given'[r] > given[r] => Permitted]_vars
=============================================================================
