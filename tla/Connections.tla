----------------------------- MODULE Connections ----------------------------
(* What comes in and goes out: packs, connectors and webhooks              *)
(* (IntegrationSpec), leads from advertisements (MetaSpec), and the        *)
(* insight kept of a lead (LeadSpec).                                      *)
EXTENDS Rows, Sequences, FiniteSetsExt

-----------------------------------------------------------------------------
(* Connections to other systems (modules/integration, application/         *)
(* services.py): localization packs, connectors and their mappings, API    *)
(* clients, webhook subscriptions and what they were sent, and runs that   *)
(* synchronise records.                                                    *)
(*                                                                         *)
(* Changes lock their row and check the version a caller saw, save that a  *)
(* delivery reads its subscription without a lock; creations read what is  *)
(* there and a unique constraint speaks when they commit.                  *)

CONSTANTS
  Pack, PackVersion,   \* drafts of packs of one code, and numbers a draft may get
  Connector, Local,    \* connectors, and those whose provider is local
  Mapping, On,         \* mappings, and Mapping -> connector
  Key, IntegrationRun,            \* idempotency keys, and runs
  Client, Webhook,
  Caller,              \* who has a transaction open
  IntegrationMaxVersion,          \* bound: version of a row that has one
  MaxSecrets           \* bound: secrets of a client

NoMapping == "no mapping"
NoKey == "no key"

IntegrationAssumption ==
  /\ Local \subseteq Connector /\ DOMAIN On = Mapping /\ \A n \in Mapping : On[n] \in Connector
  /\ NoMapping \notin Mapping /\ PackVersion \subseteq Nat /\ IntegrationMaxVersion \in Nat /\ MaxSecrets \in Nat

VARIABLES
  pack,       \* Pack -> row: version, whether it is the default
  integrationConnector,  \* Connector -> row: configured, health, version
  mapping,    \* Mapping -> row
  run,        \* Run -> row: connector, mapping, key, what it moved
  client,     \* Client -> row: secrets so far, version
  webhook,    \* Webhook -> row: secure, failures, version
  delivered,  \* Webhook -> deliveries: succeeded, failed
  tx          \* Caller -> what its transaction has read

packVars == <<pack>>
syncVars == <<integrationConnector, mapping, run>>
hookVars == <<client, webhook, delivered>>
integrationVars == <<packVars, syncVars, hookVars, tx>>

Idle == [status |-> "IDLE"]

IntegrationInit ==
  /\ pack = [p \in Pack |-> Absent] /\ integrationConnector = [n \in Connector |-> Absent]
  /\ mapping = [n \in Mapping |-> Absent] /\ run = [r \in IntegrationRun |-> Absent]
  /\ client = [k \in Client |-> Absent] /\ webhook = [h \in Webhook |-> Absent]
  /\ delivered = [h \in Webhook |-> [succeeded |-> 0, failed |-> 0]]
  /\ tx = [x \in Caller |-> Idle]

Opens(x, read) == tx[x] = Idle /\ tx' = [tx EXCEPT ![x] = read]
Commits(x) == tx' = [tx EXCEPT ![x] = Idle]
Latest(S) == IF S = {} THEN 0 ELSE CHOOSE n \in S : \A k \in S : k <= n

-----------------------------------------------------------------------------
\* create_localization_pack: the number after the latest that was read.
ReadPacks(x) ==
  /\ Opens(x, [status |-> "PACK", version |-> Latest({pack[p].version : p \in {p \in Pack : Has(pack, p)}}) + 1])
  /\ UNCHANGED <<packVars, syncVars, hookVars>>

CreateLocalizationPack(x, p, default) ==
  /\ tx[x].status = "PACK" /\ ~ Has(pack, p) /\ tx[x].version \in PackVersion /\ Commits(x)
  /\ pack' = IF \E q \in Pack : Has(pack, q) /\ pack[q].version = tx[x].version THEN pack
             ELSE [pack EXCEPT ![p] = [status |-> "DRAFT", version |-> tx[x].version, default |-> default]]
  /\ UNCHANGED <<syncVars, hookVars>>

\* publish_localization_pack: the other defaults, drafts among them, cease to be.
PublishLocalizationPack(p) ==
  /\ In(pack, p, {"DRAFT"})
  /\ pack' = [q \in Pack |-> IF q = p THEN [pack[p] EXCEPT !.status = "PUBLISHED"]
                             ELSE IF pack[p].default /\ Has(pack, q) THEN [pack[q] EXCEPT !.default = FALSE] ELSE pack[q]]
  /\ UNCHANGED <<syncVars, hookVars, tx>>

-----------------------------------------------------------------------------
CreateConnector(n, configured) ==
  /\ ~ Has(integrationConnector, n)
  /\ integrationConnector' = [integrationConnector EXCEPT ![n] = [status |-> "DRAFT", configured |-> configured, health |-> "UNKNOWN", version |-> 1]]
  /\ UNCHANGED <<packVars, mapping, run, hookVars, tx>>

\* Of the version that was seen: of any status to any, but ACTIVE needs a base
\* URL and a secret unless the provider is local.
TransitionConnectorStatus(n, version, target) ==
  /\ Has(integrationConnector, n) /\ integrationConnector[n].version = version /\ version < IntegrationMaxVersion
  /\ target = "ACTIVE" => integrationConnector[n].configured \/ n \in Local
  /\ integrationConnector' = [integrationConnector EXCEPT ![n].status = target, ![n].version = version + 1]
  /\ UNCHANGED <<packVars, mapping, run, hookVars, tx>>

\* No request is made: what is configured is healthy.
EvaluateConnectorHealth(n, version) ==
  /\ Has(integrationConnector, n) /\ integrationConnector[n].version = version /\ version < IntegrationMaxVersion
  /\ integrationConnector' = [integrationConnector EXCEPT ![n].health = IF integrationConnector[n].configured THEN "HEALTHY" ELSE "DEGRADED", ![n].version = version + 1]
  /\ UNCHANGED <<packVars, mapping, run, hookVars, tx>>

CreateMappingProfile(n) ==
  /\ ~ Has(mapping, n) /\ Has(integrationConnector, On[n]) /\ mapping' = [mapping EXCEPT ![n] = [status |-> "DRAFT"]]
  /\ UNCHANGED <<packVars, integrationConnector, run, hookVars, tx>>

PublishMappingProfile(n) ==
  /\ In(mapping, n, {"DRAFT"}) /\ mapping' = Moved(mapping, n, "PUBLISHED")
  /\ UNCHANGED <<packVars, integrationConnector, run, hookVars, tx>>

\* start_synchronization_run: the run that has the key is the answer, whichever
\* connector it is of; a key that is taken meanwhile refuses the insert.
ByKey(k) == {r \in IntegrationRun : Has(run, r) /\ run[r].key = k}
ReadKey(x, k, n, g) ==
  /\ Has(integrationConnector, n)
  /\ g # NoMapping => In(mapping, g, {"PUBLISHED"}) /\ On[g] = n
  /\ ByKey(k) = {} /\ Opens(x, [status |-> "RUN", key |-> k, connector |-> n, mapping |-> g])
  /\ UNCHANGED <<packVars, syncVars, hookVars>>

StartSynchronizationRun(x, r) ==
  /\ tx[x].status = "RUN" /\ ~ Has(run, r) /\ Commits(x)
  /\ LET t == tx[x] IN
     run' = IF ByKey(t.key) # {} THEN run
            ELSE [run EXCEPT ![r] = [status |-> "RUNNING", key |-> t.key, connector |-> t.connector, mapping |-> t.mapping, version |-> 1]]
  /\ UNCHANGED <<packVars, integrationConnector, mapping, hookVars>>

CompleteSynchronizationRun(r, version, status) ==
  /\ In(run, r, {"RUNNING"}) /\ run[r].version = version
  /\ status \in {"COMPLETED", "PARTIAL", "FAILED", "CANCELLED"}
  /\ run' = [run EXCEPT ![r].status = status, ![r].version = version + 1]
  /\ UNCHANGED <<packVars, integrationConnector, mapping, hookVars, tx>>

-----------------------------------------------------------------------------
IssueApiClient(k) ==
  /\ ~ Has(client, k) /\ client' = [client EXCEPT ![k] = [status |-> "ACTIVE", secrets |-> 1, version |-> 1]]
  /\ UNCHANGED <<packVars, syncVars, webhook, delivered, tx>>

RotateApiClient(k, version) ==
  /\ In(client, k, {"ACTIVE"}) /\ client[k].version = version /\ client[k].secrets < MaxSecrets
  /\ client' = [client EXCEPT ![k].secrets = @ + 1, ![k].version = version + 1]
  /\ UNCHANGED <<packVars, syncVars, webhook, delivered, tx>>

\* Also of one that is revoked.
RevokeApiClient(k, version) ==
  /\ Has(client, k) /\ client[k].version = version /\ version < IntegrationMaxVersion
  /\ client' = [client EXCEPT ![k].status = "REVOKED", ![k].version = version + 1]
  /\ UNCHANGED <<packVars, syncVars, webhook, delivered, tx>>

CreateWebhookSubscription(h, secure) ==
  /\ ~ Has(webhook, h) /\ webhook' = [webhook EXCEPT ![h] = [status |-> "PAUSED", secure |-> secure, failures |-> 0, version |-> 1]]
  /\ UNCHANGED <<packVars, syncVars, client, delivered, tx>>

\* ACTIVE needs an https target and a secret.
TransitionWebhookStatus(h, version, target) ==
  /\ Has(webhook, h) /\ webhook[h].version = version /\ version < IntegrationMaxVersion
  /\ target = "ACTIVE" => webhook[h].secure
  /\ webhook' = [webhook EXCEPT ![h].status = target, ![h].version = version + 1]
  /\ UNCHANGED <<packVars, syncVars, client, delivered, tx>>

\* simulate_webhook_delivery reads the subscription without a lock, records a
\* delivery, and saves the count of failures and the version it made of those.
ReadWebhook(x, h) ==
  /\ Has(webhook, h) /\ Opens(x, [status |-> "HOOK", webhook |-> h, row |-> webhook[h]])
  /\ UNCHANGED <<packVars, syncVars, hookVars>>

SimulateWebhookDelivery(x) ==
  /\ tx[x].status = "HOOK" /\ tx[x].row.version < IntegrationMaxVersion /\ Commits(x)
  /\ LET h == tx[x].webhook
         succeeds == tx[x].row.status = "ACTIVE" IN
     /\ webhook' = [webhook EXCEPT ![h].failures = IF succeeds THEN 0 ELSE tx[x].row.failures + 1, ![h].version = tx[x].row.version + 1]
     /\ delivered' = [delivered EXCEPT ![h].succeeded = @ + (IF succeeds THEN 1 ELSE 0), ![h].failed = @ + (IF succeeds THEN 0 ELSE 1)]
  /\ UNCHANGED <<packVars, syncVars, client>>

\* integration_summary counts rows by their status.
IntegrationSummary ==
  [packs |-> Cardinality({p \in Pack : In(pack, p, {"PUBLISHED"})}), connectors |-> Cardinality({n \in Connector : In(integrationConnector, n, {"ACTIVE"})}),
   clients |-> Cardinality({k \in Client : In(client, k, {"ACTIVE"})}), webhooks |-> Cardinality({h \in Webhook : In(webhook, h, {"ACTIVE"})}),
   runs |-> Cardinality({r \in IntegrationRun : In(run, r, {"RUNNING"})})]

IntegrationNext ==
  \/ \E x \in Caller :
       \/ ReadPacks(x) \/ \E p \in Pack, default \in BOOLEAN : CreateLocalizationPack(x, p, default)
       \/ \E k \in Key, n \in Connector, g \in Mapping \cup {NoMapping} : ReadKey(x, k, n, g)
       \/ \E r \in IntegrationRun : StartSynchronizationRun(x, r)
       \/ \E h \in Webhook : ReadWebhook(x, h)
       \/ SimulateWebhookDelivery(x)
  \/ \E p \in Pack : PublishLocalizationPack(p)
  \/ \E n \in Connector, y \in BOOLEAN, v \in 1..IntegrationMaxVersion :
       \/ CreateConnector(n, y) \/ EvaluateConnectorHealth(n, v)
       \/ \E target \in {"DRAFT", "ACTIVE", "SUSPENDED", "RETIRED"} : TransitionConnectorStatus(n, v, target)
  \/ \E n \in Mapping : CreateMappingProfile(n) \/ PublishMappingProfile(n)
  \/ \E r \in IntegrationRun, status \in {"COMPLETED", "PARTIAL", "FAILED", "CANCELLED"} : CompleteSynchronizationRun(r, 1, status)
  \/ \E k \in Client, v \in 1..IntegrationMaxVersion : IssueApiClient(k) \/ RotateApiClient(k, v) \/ RevokeApiClient(k, v)
  \/ \E h \in Webhook, y \in BOOLEAN, v \in 1..IntegrationMaxVersion :
       \/ CreateWebhookSubscription(h, y)
       \/ \E target \in {"ACTIVE", "PAUSED", "DISABLED"} : TransitionWebhookStatus(h, v, target)

IntegrationSpec == IntegrationInit /\ [][IntegrationNext]_integrationVars

-----------------------------------------------------------------------------
LocalizationPackRow == [status : {"DRAFT", "PUBLISHED"}, version : PackVersion, default : BOOLEAN]
ConnectorProfileRow == [status : {"DRAFT", "ACTIVE", "SUSPENDED", "RETIRED"}, configured : BOOLEAN,
                        health : {"UNKNOWN", "HEALTHY", "DEGRADED"}, version : 1..IntegrationMaxVersion]
DataMappingProfileRow == [status : {"DRAFT", "PUBLISHED"}]
SynchronizationRunRow == [status : {"RUNNING", "COMPLETED", "PARTIAL", "FAILED", "CANCELLED"}, key : Key, connector : Connector,
                          mapping : Mapping \cup {NoMapping}, version : 1..2]
ApiClientCredentialRow == [status : {"ACTIVE", "REVOKED"}, secrets : 1..MaxSecrets, version : 1..(IntegrationMaxVersion + MaxSecrets)]
WebhookSubscriptionRow == [status : {"ACTIVE", "PAUSED", "DISABLED"}, secure : BOOLEAN, failures : Nat, version : 1..IntegrationMaxVersion]

IntegrationTypeOK ==
  /\ pack \in [Pack -> LocalizationPackRow \cup {Absent}] /\ integrationConnector \in [Connector -> ConnectorProfileRow \cup {Absent}]
  /\ mapping \in [Mapping -> DataMappingProfileRow \cup {Absent}] /\ run \in [IntegrationRun -> SynchronizationRunRow \cup {Absent}]
  /\ client \in [Client -> ApiClientCredentialRow \cup {Absent}] /\ webhook \in [Webhook -> WebhookSubscriptionRow \cup {Absent}]

\* However creations meet publications, a version of a pack is there once, and at
\* most one published pack is the default.
OneDefaultPack ==
  /\ \A p, q \in Pack : Has(pack, p) /\ Has(pack, q) /\ pack[p].version = pack[q].version => p = q
  /\ Cardinality({p \in Pack : In(pack, p, {"PUBLISHED"}) /\ pack[p].default}) <= 1

\* One run has a key, however many ask at the same time, and it follows a mapping
\* that was published for its own connector.
RunsAreUnique ==
  /\ \A k \in Key : Cardinality(ByKey(k)) <= 1
  /\ \A r \in IntegrationRun : Has(run, r) /\ run[r].mapping # NoMapping
                               => In(mapping, run[r].mapping, {"PUBLISHED"}) /\ On[run[r].mapping] = run[r].connector

\* Deliveries that count at the same time may lose a failure but make none up; one
\* that succeeded is of a subscription whose target was found secure; and a
\* connector that is active could be.
FailuresWereCounted ==
  /\ \A h \in Webhook :
       Has(webhook, h) => /\ webhook[h].failures <= delivered[h].failed
                          /\ delivered[h].succeeded > 0 \/ webhook[h].status = "ACTIVE" => webhook[h].secure
  /\ \A n \in Connector : In(integrationConnector, n, {"ACTIVE"}) => integrationConnector[n].configured \/ n \in Local

-----------------------------------------------------------------------------
(* Leads from advertising (modules/integration, application/meta_leads.py, *)
(* tasks.py and the webhook and retry views): what the webhook tells is    *)
(* recorded as receipts, and a task makes of each a contact and a call.    *)
(*                                                                         *)
(* The task is not a transaction: each of its writes commits on its own,   *)
(* between them it may fail, and its process may die.  Tasks are           *)
(* acknowledged late, so one may run again after its end, or be lost with  *)
(* its process.  Attempts are numbered by attempt_count as it was read.    *)

CONSTANTS
  Receipt, PersonOf,  \* the leads of the provider, and Receipt -> person
  SourceOf,           \* Receipt -> GENERIC or a specific source
  Contact,
  Known,              \* Contact -> person it is of from the start, or Nobody
  Worker,
  MaxRuns             \* bound: runs of the task, by whatever starts it

Generic == "META_ADS"

MetaLeadsAssumption ==
  /\ DOMAIN PersonOf = Receipt /\ DOMAIN SourceOf = Receipt /\ DOMAIN Known = Contact
  /\ \A r \in Receipt : PersonOf[r] # Nobody
  /\ MaxRuns \in Nat

VARIABLES
  metaConnector,  \* whether it is active, and whether the company is entitled to it
  receipt,    \* Receipt -> row: attempts, contact
  queue,      \* Receipt -> tasks of it in the broker
  worker,     \* Worker -> what its run is about to do
  contact,    \* Contact -> row: person, source, the sources it was told
  call,       \* Receipt -> calls that were planned for it
  runs        \* runs so far

metaVars == <<metaConnector, receipt, queue, worker, contact, call, runs>>

Free == [status |-> "FREE"]
NoContact == "no contact"

MetaInit ==
  /\ metaConnector = [active |-> TRUE, entitled |-> TRUE]
  /\ receipt = [r \in Receipt |-> Absent] /\ queue = [r \in Receipt |-> 0]
  /\ worker = [w \in Worker |-> Free] /\ call = [r \in Receipt |-> 0] /\ runs = 0
  /\ contact = [c \in Contact |-> IF Known[c] = Nobody THEN Absent
                                  ELSE [status |-> "ACTIVE", person |-> Known[c], source |-> "other", told |-> {}]]

-----------------------------------------------------------------------------
\* _connector_contract, as far as it changes: the rest of the configuration is whole.
Contract == metaConnector.entitled

\* activate_meta_connector; and the subscription of the company changes.
Activate(active) ==
  /\ active => Contract
  /\ metaConnector' = [metaConnector EXCEPT !.active = active]
  /\ UNCHANGED <<receipt, queue, worker, contact, call, runs>>

MetaChangeSubscription(entitled) ==
  /\ metaConnector' = [metaConnector EXCEPT !.entitled = entitled]
  /\ UNCHANGED <<receipt, queue, worker, contact, call, runs>>

\* record_webhook_payload gets or creates; a task follows the commit of those
\* that are created, unless the broker cannot be reached.
RecordWebhookPayload(R, sent) ==
  /\ metaConnector.active /\ metaConnector.entitled
  /\ LET new == {r \in R : ~ Has(receipt, r)} IN
     /\ sent \subseteq new
     /\ receipt' = [r \in Receipt |-> IF r \in new THEN [status |-> "RECEIVED", attempts |-> 0, contact |-> NoContact] ELSE receipt[r]]
     /\ queue' = [r \in Receipt |-> IF r \in sent THEN queue[r] + 1 ELSE queue[r]]
  /\ UNCHANGED <<metaConnector, worker, contact, call, runs>>

\* A run reads the receipt; it ends at once unless the contract is kept.
MetaRun(w, r) ==
  /\ runs < MaxRuns /\ runs' = runs + 1
  /\ IF Contract THEN worker' = [worker EXCEPT ![w] = [status |-> "MARK", receipt |-> r, attempts |-> receipt[r].attempts]]
     ELSE UNCHANGED worker
  /\ UNCHANGED <<metaConnector, receipt, contact, call>>

\* The task, whatever the receipt's status is by now.
ProcessMetaLeadReceipt(w, r) ==
  /\ worker[w] = Free /\ queue[r] > 0 /\ queue' = [queue EXCEPT ![r] = @ - 1]
  /\ MetaRun(w, r)

\* A user's retry, of a receipt that failed or was not begun when it was read.
MetaLeadReceiptRetry(w, r) ==
  /\ worker[w] = Free /\ In(receipt, r, {"FAILED", "RECEIVED"}) /\ UNCHANGED queue
  /\ MetaRun(w, r)

Step(w, next) == worker' = [worker EXCEPT ![w] = next]
Mine(w) == worker[w].receipt

MarkProcessing(w) ==
  /\ worker[w].status = "MARK"
  /\ receipt' = [receipt EXCEPT ![Mine(w)].status = "PROCESSING", ![Mine(w)].attempts = worker[w].attempts + 1]
  /\ Step(w, [status |-> "FETCH", receipt |-> Mine(w)])
  /\ UNCHANGED <<metaConnector, queue, contact, call, runs>>

\* The provider has answered and a contact of the person is looked for.
Duplicates(p) == {c \in Contact : In(contact, c, {"ACTIVE"}) /\ contact[c].person = p}
ContactDuplicates(w) ==
  /\ worker[w].status = "FETCH"
  /\ LET found == Duplicates(PersonOf[Mine(w)]) IN
     IF found = {} THEN Step(w, [status |-> "CREATE", receipt |-> Mine(w)])
     ELSE \E c \in found : Step(w, [status |-> "REFRESH", receipt |-> Mine(w), contact |-> c, source |-> contact[c].source])
  /\ UNCHANGED <<metaConnector, receipt, queue, contact, call, runs>>

CreateContact(w, c) ==
  /\ worker[w].status = "CREATE" /\ ~ Has(contact, c)
  /\ LET s == SourceOf[Mine(w)] IN
     contact' = [contact EXCEPT ![c] = [status |-> "ACTIVE", person |-> PersonOf[Mine(w)], source |-> s, told |-> {s}]]
  /\ Step(w, [status |-> "CALL", receipt |-> Mine(w), contact |-> c, new |-> TRUE])
  /\ UNCHANGED <<metaConnector, receipt, queue, call, runs>>

\* A generic source does not replace the specific one that was read.
Specific(s) == s \in {"FACEBOOK", "INSTAGRAM"}
RefreshContact(w) ==
  /\ worker[w].status = "REFRESH"
  /\ LET c == worker[w].contact
         s == SourceOf[Mine(w)] IN
     contact' = [contact EXCEPT ![c].source = IF s = Generic /\ Specific(worker[w].source) THEN worker[w].source ELSE s,
                                ![c].told = contact[c].told \cup {s}]
  /\ Step(w, [status |-> "CALL", receipt |-> Mine(w), contact |-> worker[w].contact, new |-> FALSE])
  /\ UNCHANGED <<metaConnector, receipt, queue, call, runs>>

MetaCreateActivity(w) ==
  /\ worker[w].status = "CALL" /\ call' = [call EXCEPT ![Mine(w)] = @ + 1]
  /\ Step(w, [worker[w] EXCEPT !.status = "SAVE"])
  /\ UNCHANGED <<metaConnector, receipt, queue, contact, runs>>

SaveReceipt(w) ==
  /\ worker[w].status = "SAVE" /\ Step(w, Free)
  /\ receipt' = [receipt EXCEPT ![Mine(w)].status = IF worker[w].new THEN "PROCESSED" ELSE "DUPLICATE",
                                ![Mine(w)].contact = worker[w].contact]
  /\ UNCHANGED <<metaConnector, queue, contact, call, runs>>

\* From the mark on, whatever is raised, what was committed stays.
Fail(w) ==
  /\ worker[w].status \notin {"FREE", "MARK"} /\ Step(w, Free)
  /\ receipt' = [receipt EXCEPT ![Mine(w)].status = "FAILED"]
  /\ UNCHANGED <<metaConnector, queue, contact, call, runs>>

\* The process dies: the task is given out again, or is gone.
Die(w) ==
  /\ worker[w] # Free /\ Step(w, Free)
  /\ \E again \in {0, 1} : queue' = [queue EXCEPT ![Mine(w)] = @ + again]
  /\ UNCHANGED <<metaConnector, receipt, contact, call, runs>>

\* The task is given out again although a run of it has ended or goes on.
Redeliver(r) ==
  /\ Has(receipt, r) /\ receipt[r].attempts > 0 /\ queue[r] = 0 /\ runs < MaxRuns /\ queue' = [queue EXCEPT ![r] = 1]
  /\ UNCHANGED <<metaConnector, receipt, worker, contact, call, runs>>

MetaNext ==
  \/ \E x \in BOOLEAN : Activate(x) \/ MetaChangeSubscription(x)
  \/ \E R \in SUBSET Receipt : \E sent \in SUBSET R : RecordWebhookPayload(R, sent)
  \/ \E w \in Worker :
       \/ \E r \in Receipt : ProcessMetaLeadReceipt(w, r) \/ MetaLeadReceiptRetry(w, r)
       \/ MarkProcessing(w) \/ ContactDuplicates(w) \/ RefreshContact(w) \/ MetaCreateActivity(w) \/ SaveReceipt(w)
       \/ \E c \in Contact : CreateContact(w, c)
       \/ Fail(w) \/ Die(w)
  \/ \E r \in Receipt : Redeliver(r)

MetaSpec == MetaInit /\ [][MetaNext]_metaVars

-----------------------------------------------------------------------------
MetaLeadReceiptRow ==
  [status : {"RECEIVED", "PROCESSING", "PROCESSED", "DUPLICATE", "FAILED"}, attempts : 0..MaxRuns, contact : Contact \cup {NoContact}]

MetaTypeOK ==
  /\ receipt \in [Receipt -> MetaLeadReceiptRow \cup {Absent}]
  /\ queue \in [Receipt -> Nat] /\ call \in [Receipt -> 0..MaxRuns]

Done == {r \in Receipt : In(receipt, r, {"PROCESSED", "DUPLICATE"})}

\* Whatever runs at the same time, dies or runs again: a receipt that is done has
\* a contact of its person and a call, a contact is new to one receipt only, and
\* a person has no more contacts than there were runs at the same time.
LeadsAreAnswered ==
  /\ \A r \in Done : call[r] >= 1 /\ Has(contact, receipt[r].contact) /\ contact[receipt[r].contact].person = PersonOf[r]
  /\ \A r, s \in Done : receipt[r].status = "PROCESSED" /\ receipt[s].status = "PROCESSED" /\ r # s
                        => receipt[r].contact # receipt[s].contact
  /\ \A p \in {PersonOf[r] : r \in Receipt} : Cardinality(Duplicates(p)) <= Cardinality(Worker)
  /\ \A r \in Receipt : Has(receipt, r) => receipt[r].attempts <= runs /\ call[r] <= runs

\* With one run at a time, a call was planned in an attempt of its own, and a
\* contact that was told of a specific source is never generic again.
CallsAreAttempts ==
  Cardinality(Worker) = 1 =>
    /\ \A r \in Receipt : Has(receipt, r) => call[r] <= receipt[r].attempts
    /\ \A c \in Contact : Has(contact, c) /\ (\E s \in contact[c].told : Specific(s)) => Specific(contact[c].source)

-----------------------------------------------------------------------------
(* Advice on one lead (modules/ai, application/crm_lead_intelligence.py).  *)
(* What is said is computed from the lead, its activities and the hour; it *)
(* is kept in an interaction per digest of what it was computed from, and  *)
(* an insight shows the interaction of the refresh that wrote last.        *)
(* Wording is left out: advice is the code of an action, signals and gaps. *)

CONSTANTS
  Session,        \* requests that refresh
  Stages,         \* outcomes of the stages the lead may move to
  Outcomes,       \* outcomes of a completed activity
  Due,            \* days something may be due, 0 for none
  Plans,          \* the subscriptions a company may change to
  MaxActivities,  \* bound
  LeadMaxVersion,     \* bound: version of the lead
  LastDay,        \* bound
  Cold,           \* days after which a relationship goes cold
  MaxRecords,     \* activities the policy lets a refresh consider
  DefaultRecords, \* activities that source_digest considers
  MaxWrites       \* bound: version of the insight

LeadIntelligenceAssumption ==
  /\ Stages \subseteq {"open", "ready", "converted", "disqualified"} /\ Outcomes \subseteq {"none", "follow_up_required", "bounced"}
  /\ Due \subseteq 0..LastDay /\ \A plan \in Plans : plan \subseteq {"summary", "recommendation"}
  /\ MaxActivities \in Nat /\ LeadMaxVersion \in Nat \ {0} /\ LastDay \in Nat \ {0} /\ Cold \in Nat \ {0}
  /\ MaxRecords \in Nat \ {0} /\ DefaultRecords \in Nat \ {0} /\ MaxWrites \in Nat \ {0}

VARIABLES
  lead,         \* version, stage, day of the next follow-up (0: none)
  activity,     \* its activities, the latest first: status, due (0: none), outcome, made, version
  today,
  access,       \* features of the company's subscription
  interaction,  \* set of interactions: digest, output, access and day they were made with
  insight,      \* Absent, or what is shown: digest, output, day generated, version, override
  refreshing    \* Session -> what its transaction has read, or Absent

leadVars == <<lead, activity, today, access, interaction, insight, refreshing>>

Features == {"summary", "recommendation"}

LeadInit ==
  /\ lead = [version |-> 1, stage |-> "open", follow |-> 0] /\ activity = << >> /\ today = 1
  /\ access = Features /\ interaction = {} /\ insight = Absent
  /\ refreshing = [s \in Session |-> Absent]

-----------------------------------------------------------------------------
(* What the advice is, from a lead l, its activities as and a day d.       *)
Planned(as) == SelectSeq(as, LAMBDA x : x.status = "PLANNED")
Completed(as) == SelectSeq(as, LAMBDA x : x.status = "COMPLETED")
Overdue(as, d) == SelectSeq(as, LAMBDA x : x.status = "PLANNED" /\ x.due \in 1..(d - 1))
Upcoming(as, d) == SelectSeq(as, LAMBDA x : x.status = "PLANNED" /\ x.due >= d)

Recommendation(l, as, d) ==
  CASE l.stage = "converted" -> "NO_SALES_ACTION"
    [] l.stage = "disqualified" -> "REVIEW_CLOSURE"
    [] l.stage \in {"open", "ready"} ->
         IF Overdue(as, d) # << >> THEN "COMPLETE_OVERDUE_ACTIVITY"
         ELSE IF l.follow \in 1..(d - 1) THEN "FOLLOW_UP_NOW"
         ELSE IF as = << >> THEN "FIRST_CONTACT"
         ELSE IF Upcoming(as, d) # << >> THEN "COMPLETE_SCHEDULED_ACTIVITY"
         ELSE IF l.stage = "ready" /\ Completed(as) # << >> THEN "REVIEW_CONVERSION_READINESS"
         ELSE IF l.follow = 0 THEN "SET_NEXT_FOLLOW_UP" ELSE "CONTINUE_FOLLOW_UP"

AttentionSignals(l, as, d) ==
  LET done == Completed(as)
      told(outcome) == done # << >> /\ done[1].outcome = outcome
      signals ==
        [OVERDUE_COMMITMENT |-> Overdue(as, d) # << >>, LEAD_FOLLOW_UP_OVERDUE |-> l.follow \in 1..(d - 1),
         CUSTOMER_REQUESTED_NEXT_STEP |-> told("follow_up_required"), CONTACT_CHANNEL_ISSUE |-> told("bounced"),
         NO_INTERACTION |-> as = << >>, RELATIONSHIP_STALE |-> done # << >> /\ d >= done[1].at + Cold,
         NO_NEXT_ACTION |-> l.follow = 0 /\ \A i \in DOMAIN as : as[i].status = "PLANNED" => as[i].due = 0] IN
  {c \in DOMAIN signals : signals[c]}

DataGaps(l) == IF l.follow = 0 /\ l.stage \in {"open", "ready"} THEN {"FOLLOW_UP_MISSING"} ELSE {}

\* A summary says how things were that day: where the lead is and what it waits for.
Summary(l, as, d) == <<l.stage, Len(Overdue(as, d)), l.follow \in 1..(d - 1)>>

Output(l, as, d, features) ==
  [summary |-> IF "summary" \in features THEN Summary(l, as, d) ELSE << >>,
   action |-> IF "recommendation" \in features THEN Recommendation(l, as, d) ELSE "",
   signals |-> IF "recommendation" \in features THEN AttentionSignals(l, as, d) ELSE {},
   gaps |-> IF "recommendation" \in features THEN DataGaps(l) ELSE {},
   about |-> Len(as)]

-----------------------------------------------------------------------------
LatestOf(as, n) == SubSeq(as, 1, IF Len(as) < n THEN Len(as) ELSE n)

\* The lead, with its version, and of every activity considered all but its
\* outcome; the hour is no part of it.
MeaningfulContext(l, as) ==
  <<l, [i \in DOMAIN as |-> [status |-> as[i].status, due |-> as[i].due, at |-> as[i].at, version |-> as[i].version]]>>
SourceDigest == MeaningfulContext(lead, LatestOf(activity, DefaultRecords))

Stale == insight = Absent \/ insight.digest # SourceDigest

\* state: refused without a feature; what was generated, under an override.
Effective ==
  IF insight.override = "" THEN insight.output ELSE [insight.output EXCEPT !.action = "HUMAN_OVERRIDE"]

\* A refresh reads features, lead and activities ...
ReadForRefresh(s) ==
  /\ refreshing[s] = Absent /\ access # {}
  /\ LET as == LatestOf(activity, MaxRecords) IN
     refreshing' = [refreshing EXCEPT ![s] =
       [status |-> "READ", digest |-> MeaningfulContext(lead, as), lead |-> lead, activity |-> as, access |-> access]]
  /\ UNCHANGED <<lead, activity, today, access, interaction, insight>>

\* ... and then locks the insight.  One that has this digest stands, and so does
\* one that was not there yet when this transaction looked; else the interaction
\* of the digest is used again, whoever had it made and when, or is made, and
\* the insight shows it.  An override stays.
Refresh(s) ==
  /\ Has(refreshing, s) /\ refreshing' = [refreshing EXCEPT ![s] = Absent]
  /\ LET r == refreshing[s]
         known == {x \in interaction : x.digest = r.digest}
         used == IF known # {} THEN CHOOSE x \in known : TRUE
                 ELSE [digest |-> r.digest, output |-> Output(r.lead, r.activity, today, r.access), access |-> r.access, day |-> today]
         write(version, override) ==
           /\ interaction' = interaction \cup {used}
           /\ insight' = [status |-> "SHOWN", digest |-> r.digest, output |-> used.output, generated |-> today,
                          version |-> version, override |-> override] IN
     \/ insight = Absent /\ write(1, "")
     \/ insight # Absent /\ insight.digest # r.digest /\ insight.version < MaxWrites /\ write(insight.version + 1, insight.override)
     \/ insight # Absent /\ UNCHANGED <<interaction, insight>>
  /\ UNCHANGED <<lead, activity, today, access>>

Override ==
  /\ access # {} /\ insight # Absent /\ insight.version < MaxWrites
  /\ \E text \in {"", "call the architect"} :
       insight' = [insight EXCEPT !.override = text, !.version = @ + 1]
  /\ UNCHANGED <<lead, activity, today, access, interaction, refreshing>>

-----------------------------------------------------------------------------
(* The lead's life, as far as the advice looks at it: modules/crm.         *)
TransitionLead ==
  /\ lead.version < LeadMaxVersion
  /\ \E stage \in Stages, day \in Due :
       lead' = [version |-> lead.version + 1, stage |-> stage, follow |-> day]
  /\ UNCHANGED <<activity, today, access, interaction, insight, refreshing>>

LeadCreateActivity ==
  /\ Len(activity) < MaxActivities
  /\ \E status \in {"PLANNED", "COMPLETED"}, due \in Due :
       activity' = <<[status |-> status, due |-> due, outcome |-> "none", at |-> today, version |-> 1]>> \o activity
  /\ UNCHANGED <<lead, today, access, interaction, insight, refreshing>>

\* Also of one that is completed: the outcome is changed, the version counts it.
UpdateActivity ==
  /\ \E i \in DOMAIN activity, outcome \in Outcomes :
       /\ activity[i].version < LeadMaxVersion
       /\ activity' = [activity EXCEPT ![i].status = "COMPLETED", ![i].outcome = outcome, ![i].version = @ + 1,
                                            ![i].at = IF activity[i].status = "PLANNED" THEN today ELSE @]
  /\ UNCHANGED <<lead, today, access, interaction, insight, refreshing>>

DayPasses ==
  /\ today < LastDay /\ today' = today + 1
  /\ UNCHANGED <<lead, activity, access, interaction, insight, refreshing>>

LeadChangeSubscription ==
  /\ \E plan \in Plans : access' = plan
  /\ UNCHANGED <<lead, activity, today, interaction, insight, refreshing>>

LeadNext ==
  \/ Override \/ TransitionLead \/ LeadCreateActivity \/ UpdateActivity \/ DayPasses \/ LeadChangeSubscription
  \/ \E s \in Session : ReadForRefresh(s) \/ Refresh(s)

LeadSpec == LeadInit /\ [][LeadNext]_leadVars

-----------------------------------------------------------------------------
LeadTypeOK ==
  /\ lead \in [version : 1..LeadMaxVersion, stage : Stages \cup {"open"}, follow : 0..LastDay]
  /\ \A i \in DOMAIN activity :
       activity[i] \in [status : {"PLANNED", "COMPLETED"}, due : 0..LastDay, outcome : Outcomes \cup {"none"}, at : 1..LastDay, version : 1..LeadMaxVersion]
  /\ today \in 1..LastDay /\ access \subseteq Features
  /\ insight # Absent => insight.version \in 1..MaxWrites /\ insight.generated \in 1..LastDay

\* An insight that is not called stale says what would be computed today from
\* the lead and its activities, but for the day and the features: those are of
\* the interaction that was made first for this digest, which may be older than
\* the insight.  Whoever refreshes, and in whatever order refreshes end.
AdviceIsGrounded ==
  insight # Absent =>
    /\ \E x \in interaction :
         /\ x.digest = insight.digest /\ x.day <= insight.generated /\ x.output = insight.output
         /\ ~ Stale => insight.output = Output(lead, LatestOf(activity, MaxRecords), x.day, x.access)
    /\ \A x, y \in interaction : x.digest = y.digest => x = y

\* What is advised and what is signalled agree: what is overdue is signalled,
\* and comes before anything else for a lead that is open; who advises a first
\* contact signals that there was none; at most five signals are shown and
\* there are never more, so that none is cut off.
AdviceAgrees ==
  LET signals == AttentionSignals(lead, activity, today)
      action == Recommendation(lead, activity, today) IN
  /\ Cardinality(signals) <= 5
  /\ action = "COMPLETE_OVERDUE_ACTIVITY" => "OVERDUE_COMMITMENT" \in signals
  /\ action = "FIRST_CONTACT" => "NO_INTERACTION" \in signals
  /\ lead.stage \in {"open", "ready"} /\ "LEAD_FOLLOW_UP_OVERDUE" \in signals =>
       action \in {"COMPLETE_OVERDUE_ACTIVITY", "FOLLOW_UP_NOW"}
  /\ action = "SET_NEXT_FOLLOW_UP" => "NO_NEXT_ACTION" \in signals /\ DataGaps(lead) # {}
=============================================================================
