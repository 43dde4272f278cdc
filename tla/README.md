# Build360: a verification project

Build360 is a Django application (`src/backend`) of some sixty modules behind one
multi-tenant API, with a Next.js client (`src/frontend`). Every module has the same
shape: `models.py` (tables and their constraints), `application/*.py` (services) and
`api/` (views). A service is one PostgreSQL transaction (`@transaction.atomic`, READ
COMMITTED) that reads rows, some of them with `select_for_update`, checks, writes, and
appends an audit record and a business event in the same transaction. The publisher of
these events (`publish_claimed_batch`) is a function that no task, schedule or command of
the repository calls: ADR-0003 (lines 40-41) and `docs/api/phase-3-platform-controls.md`
(68-70) leave its worker to later work. The model of it takes any number of such workers,
none of which is obliged to run. The one Celery task under `src/` is
`integration.process_meta_lead_receipt`.

So the questions a test suite hardly reaches are the same everywhere: what is read
without a lock and used later; which steps of two transactions interleave; what a
rollback undoes and what it cannot undo (a message already sent); what a retried,
late or repeated call does; and whether stage tables, ledgers and balances still agree
after a long sequence of legal calls. The models here are about those.

## 1. Inventory

The parts of the system, grouped by what they have in common. `PROJECT.json` lists every
module directory under `components`, with its status, what of it is left out, and the
hazards at their lines.

| Component | State it keeps | Operations | Talks to | What is hard | What makes it correct |
|---|---|---|---|---|---|
| `platform` events and outbox | `BusinessEventOutbox` rows: published, dead-lettered, attempts, lease | append in a business transaction, claim a batch, publish, mark | every module appends; a provider receives | worker deaths, leases that expire under a living worker, retries | nothing committed is lost, nothing uncommitted leaves, no outcome is written by a worker that lost its lease |
| `workflow` | versions, instances, approval tasks, transition log | draft, publish, start, request a transition, decide an approval | outbox; any module starts instances | stale clients, approvals that outlive their state, new versions under running instances | the log is the history; one approval, one move; an instance keeps its version |
| `identity` | users, sessions, refresh tokens, reset links | login, rotate, detect reuse, revoke, suspend, reactivate, terminate, reset | outbox's unique facts; `tenant` mails links | two clients with one token, checks before a transaction, rollbacks by a repeated fact | single-use tokens, complete revocation, latest-only links |
| `communication` | consents, policies, providers, requests, attempts, callback receipts | consent, policy, create, dispatch, cancel, callback | external providers | sending inside a transaction, callbacks early, late, twice | bounded sends, a callback counts once, status belongs to its message |
| `finance` | periods, invoices, payments, adjustments, budgets, variations, ledger | lock a period, approve, post, pay, reverse, adjust | outbox | period locks raced by postings, retention, reversals | ledger and documents agree; nothing is lost; two persons behind an approval |
| `inventory`, `procurement`, `vendor` | balances and stock ledger; requests, RFQs, quotes, orders, receipts; vendors | post a movement; stage transitions, quote, award, receive; qualify | each other | same source twice, inexact averages, late quotes, competing receipts | balance = ledger, value conserved, one award, booked = received |
| `fieldops`, `labour`, `equipment`, `quality`, `safety` | offline operations, checkpoints; workers, machines, attendance, inspections, incidents; stages | replay, record, submit, report, add a stage | web API of the same records | retries, other orders, one operation over two channels | exactly once; meter forward; first submission wins; one initial stage |
| `crm` | leads, opportunities, snapshots, history, pipelines, packs, rules | create, transition, convert, set up; lists and workspaces | `projects`, `communication` | rules that run inside the change and write the record again; a half-finished conversion; views from several queries | converted once and as a whole; history is a path; views agree |
| `ai` | interactions, extractions, actions, signals, insights on leads | ask, review, propose, decide, scan, refresh | `reporting`, `crm` | answers that outlive the figures; two refreshes | two persons behind what leaves; what is advised is so |
| `projects` | projects, breakdown, tasks, baselines | hand-over, transition, baseline; views of a project | `crm`, `procurement` | the same hand-over twice; views from several queries | one project per opportunity; versions accounted for; closed is unseen |
| `accessops`, `subscription`, `controlplane`, `portal`, `collabops` | roles in versions, members, invitations, features, levels; plans, subscriptions, tenants; grants and shares; partners | invite, accept, switch, level, transfer, assign, grant, revoke, answer | `identity`, `tenant` | switches in another order than locked, roles replaced under a reader, grants that outlive their cause | roles follow features; nobody gets more than the level; what is seen was granted |
| `tenant`, `configuration` | mail settings, domains, brand assets, versions of a configuration | save, test, send; verify, make primary, attach; draft, publish, bootstrap | mail servers, `projects` | a server that took the letter and is not heard; two primaries; two readers of versions | letters arrive; one primary; readers agree |
| `integration`, `notifications`, `files`, `reporting`, `dataops`, `design`, `estimation` | connectors, runs, deliveries, receipts of leads; rules, preferences, notifications; uploads; reports and exports; imports; drawings; bills of quantities | create, run, deliver, retry; publish; upload, scan, download; compute; stage, commit; issue; baseline | outbox, object store, providers | tasks without a transaction, keys asked for twice, counts computed beside the rows | one run per key, sealed exports, adding-up counts, frozen baselines |
| sales, land, lease, capital, commercial, payroll, people, organisation, workforce, plant, quality, safety, documents, work, release, pilot, go-live, risk transfer, facilities, sustainability, support, success, twin, cloud, stability, insight, compliance (`*ops`, `compliance`) | tables of rows with a stage, some with figures summed over others | create, transition, request and decide approvals | outbox | checks on rows that are not locked; rows saved whole from an old copy; approvals that rework should void; maker and approver | nothing twice; totals agree; what is in force was approved by another; what is final stays |

Not modelled: audit trail and middleware, approval center (reads), `employee` (no
operations), settings, the web client, infrastructure.

## 2. The modules

Every step of a model is a stretch of code that no other transaction can separate: a
whole service call when the rows it decides on are locked first, two or three steps
when something is read before the lock, or an external call is made inside the
transaction. The head comment of each module says which and why. `\* Mutant:` marks
variants of an operator with a plausible bug; nothing refers to them, they exist to
show that a property can fail. `PROJECT.json` maps the principal definitions of each module
to the lines they model: the handlers, the tables of stages and the computations. A helper
or a row type whose lines lie within those of a definition that uses it has no entry.

**`Outbox`** - `platform/outbox.py`, `platform/events.py`. A row of
`BusinessEventOutbox` is the tuple of the functions over `Event`; a worker is a program
counter over the loop of `publish_claimed_batch`. `claim_due_events`, `mark_published`,
`mark_failed` are one transaction each; the provider call lies between them
(`PublishReturns`, `PublishRaises`), and a crash or a lost lease may come between any
two. Time is what the queries compare: lease fresh or stale, backoff elapsed or not.

**`Workflow`**, **`Process`** - `workflow/application/services.py`. `Process` is the
abstract specification: an instance runs on the document it was started with, moves
along its transitions and, once completed, stays. `Workflow` has versions, tasks, the
log, optimistic locking and clients with stale views, and implements `Process` under
the mapping `P` (property `RunsAsProcess`).

**`Identity`** - `identity/application/{tokens,password_reset,lifecycle}.py` and
`LoginView`. One user and its sessions. `LoginView` is two steps, because it checks
`is_active` and the password before its transaction. `facts` is the part of the outbox
these services depend on: some of them always record version 1, and a repetition rolls
the whole command back.

**`Communication`** - `communication/application/{services,callbacks,adapters}.py`.
Creation is two steps (policy, consent and count are read without a lock), dispatch is
two (`Send`, then `CommitDispatch` or `RollbackDispatch`), callbacks are one. Consent
and the channel's policy decide on creation (`Permitted`) and are not looked at again by a
dispatch; quiet hours schedule a request for later.

**`Finance`** - `finance/application/services.py`: one vendor invoice with retention,
its lines, payments, adjustments and the ledger, in periods that are locked one by one. An
entry has the key under which `_ledger` looks for it before it inserts. A
period that is joined to a locked row is locked with it; one that is only read is
checked in a step of its own.

**`Inventory`**, **`Procurement`** - `inventory/application/services.py` and
`procurement/application/services.py`. `Inventory` is the variable `books` and the
operator `Post`, what `post_movement` makes of them; `Procurement` extends it and posts
the stocked lines of a receipt one after the other in one transaction (`ReceiveLines`, a
fold of `Post` over the lines: one refused movement undoes the receipt). The API lets who
posts by hand name any source, the line of a receipt included; `post_receipt` is then
answered with that entry and moves no stock (`Manual` is any set of sources, and
`ReceivedIsBooked` speaks of the lines nobody named by hand). Costs are whole units of the
four decimals a balance stores, so that the refusal of an inexact average by `full_clean`
is part of the model.

**`FieldSync`** - `fieldops/application/sync.py` with `record_meter` and
`submit_inspection`. A replay is two steps, since `record_meter` looks for an earlier
reading of the operation before it locks the equipment. The web API can carry the same
operation id, and races it. (The stages that `bootstrap_field_phase7` creates lead an
inspection from "scheduled" to "submitted" only through "in_progress", to which no
service moves it; the model's inspection is in a stage, created over the API, from
which it can be submitted.)

The other modules share vocabulary:

* **`Rows`** - tables of rows with a status, stage tables, and what `SELECT ... FOR UPDATE`
  with `select_related` holds (the joined rows too, unless `of=("self",)`): an open
  transaction is a record with the rows it holds.
* **`Governed`** - records under a policy whose configuration names transitions, the
  approvals they ask for and the milestone they stamp. An approval keeps who asked for it,
  whom, and who decided it (`decider`), which need not be the one who was asked.
* **`MakerChecker`** - records with a maker and an approver who must be another.

On them, the service files, one by one; those of one part of the business share a module.
Each has a head that names the file, what it locks and what therefore is two steps, its
own `Init`, `Next` and `Spec` (named for it: `LandInit`, `LandSpec`) and its own
properties:

| Module | Specifications | Modules of the source |
|---|---|---|
| `Estate` | `LandSpec`, `LeaseSpec`, `SalesSpec` | `landops`, `leaseops`, `salesops` |
| `Resources` | `StaffingSpec`, `EquipmentSpec`, `PayrollSpec` | `workforceops`, `equipmentops`, `payrollops` |
| `QualitySafety` | `QualitySpec`, `SafetySpec` | `qualityops`, `safetyops` |
| `Contracts` | `DocumentSpec`, `CommercialSpec` | `documentops`, `commercialops` |
| `WorkOps` | `WorkSpec` | `workops` |
| `Launch` | `GoLiveSpec`, `ReleaseSpec`, `PilotSpec`, `StabilitySpec` | `goliveops`, `releaseops`, `pilotops`, `stabilityops` |
| `Funding` | `CapitalSpec`, `BudgetSpec`, `InsightSpec`, `VendorSpec` | `capitalops`, budgets of `finance`, `insightops`, `vendor` |
| `Assurance` | `CoverSpec`, `ComplianceSpec`, `DataSpec` | `risktransferops`, `compliance`, `dataops` |
| `Facilities` | `FacilitySpec`, `TwinSpec`, `CarbonSpec` | `facilityops`, `digitaltwinops`, `sustainabilityops` |
| `ServiceDesk` | `SupportSpec`, `DeskSpec`, `NoticeSpec`, `ReportSpec` | `supportops`, `successops`, `notifications`, `reporting` |
| `Operations` | `CloudSpec`, `TenancySpec`, `MailSpec` | `adminops` with `cloudops`, `controlplane` with `subscription`, mail of `tenant` |
| `Staff` | `PeopleSpec`, `OrgSpec`, `SiteSpec` | `peopleops`, `orgops`, `labour` with `equipment`, `quality`, `safety` and the stages of `fieldops` |
| `AccessControl` | `AccessSpec`, `LevelSpec`, `DomainSpec`, `ConfigSpec` | `accessops`, domains and brand of `tenant`, `configuration` |
| `Partners` | `PortalSpec`, `CollabSpec`, `AssistantSpec`, `MyWorkSpec` | `portal`, `collabops`, `ai`, `myworkops` |
| `ProjectWork` | `ProjectSpec`, `OverviewSpec`, `DesignSpec`, `EstimateSpec`, `FileSpec` | `projects`, `design`, `estimation`, `files` |
| `Customers` | `CrmSpec`, `CrmSetupSpec`, `RelationSpec` | `crm` |
| `Connections` | `IntegrationSpec`, `MetaSpec`, `LeadSpec` | `integration`, leads from advertisements, insight kept of a lead in `ai` and `crm` |

In `AccessSpec` and `LevelSpec` the row of the company serialises: a member or an
invitation is locked together with its company. What happens outside of that lock is a
step of its own. A feature override is inserted first (the insertion shares the lock of
the company's row, so that two switches which have both inserted wait for each other and
PostgreSQL undoes one: `UndoSwitch`); `replace_membership_roles` ends what it finds before
it waits for the company; an invitation with levels makes its roles one by one
(`BeginSync`, `FindHolders`, `CommitSync`), and the assignments that it moves to the next
version are those it has read (`create_role`, `services.py:289-308`): a member who was
given another level meanwhile gets the role back. `NobodyGetsMore` and `LevelsAreGiven`
say what holds otherwise, `overtaken` records the exception.

What a caller or an administrator may send is an input of the models, also where the
seeded configuration is narrower. In `LandSpec` a parcel is entered with any status
(`ParcelStatus`). In `ProjectSpec` an opportunity follows whatever moves between outcomes
the stages allow (`OutcomeMoves`), out of a won one too, between the unlocked reading of
the hand-over and its insertion. In `CommercialSpec` the rules are those of a policy that
`clean` accepts; the instance `reopened` has one that leads from an approved variation
back to its approval (`MaxApprovals` bounds how often).

In `CrmSetupSpec` a stage may have no pipeline: the column is nullable, and there are rows
from before migration 0004 or made by an older process. `_stage` adopts such a stage in
steps of its own: it reads the stage, reads the default pipeline, updates the row if it
still has none, and goes on with the pipeline it read, whether or not a row was updated. A
transition that was overtaken in between by another adoption leaves its lead at a stage of
another pipeline. `LeadsKeepTheirPipeline` says what holds otherwise, `overtaken` records
the exception, and `LeadsStayInPipeline` states what the tests expect.

In `SiteSpec` looks and insertion are two steps with no lock between them, so that only
constraints keep a record single. `BudgetSpec` has `transition_budget`,
`transition_variation` and what they book.

Three of them model computations rather than records: `OverviewSpec` (what a viewer of a
project is shown), `RelationSpec` (lists and workspaces) and `LeadSpec` (advice); their
properties compare the views with each other, with the rows behind them, and with what
they would be if rows the viewer may not read were others.

**Composition.** Modules whose services call each other, or write the same tables, are one
specification: `Procurement` over `Inventory`, `CloudSpec` over the rows of `adminops`,
`VendorSpec` with the RFQs of `procurement`, `AccessSpec` with the features of
`subscription`, `SiteSpec` with `fieldops`. Services that do not write each other's tables
are checked in one run but not interleaved: in `MCDelivery` and `MCEnterprise` the
variable `world` is chosen initially and names the instance that runs, on variables `a`,
`b`, ... which the others leave idle; in `MCPurchaseToPay` the variable `side` says
whether procurement or finance runs.
Interleaving them would only multiply states: no step of one reads or writes a row of
another, and none of the properties relates them. What a module takes as given of another
(a published plan, a parcel, a policy) changes in it by an action of its own where the
other service can change it.

## 3. What the runs check

| Run | Instance | What it shows |
|---|---|---|
| `outbox` | 2 facts, 2 workers, batches of 2, 2 attempts, 1 crash, 1 lease running out under a living worker | `HonestReceipts`, `SingleHolder`, `CallBudget`, `FencedOutcomes`; with a clock that runs `NeverStuck` |
| `workflow` | 1 instance, 2 tasks, clerk and manager, 4 documents, 2 versions, 3 moves | `LogIsHistory`, `ApprovalsSpentOnce`, `TransitionsLeaveWhatWasSeen`, refinement of `Process` |
| `workflow_stale` (violated) | the same, 1 task | a stale approval is not cancelled: the exception rolls it back |
| `identity` | 2 sessions, 3 tokens each, 1 reset, 2 links | `LinearFamily`, `RevokedWithFamily`, `SweepIsComplete`, `OnlyNewestLink` |
| `communication` | 2 requests, daily limit 1, 1 rollback, 1 change of settings, 2 callbacks | `SendBudget`, `AppliedOnce`, `StatusWasTold` |
| `communication_consent` (violated) | 1 request, 1 change of settings | a request that was queued is sent after consent was withdrawn or the channel disabled: dispatch does not look again |
| `purchase_to_pay` | buying: 2 vendors, 3 lines (2 of one item at different rates, 1 not stocked), 2 receipts, 2 movements by hand, one of which names the line of a receipt; paying: 2 equal lines of 1, retention 1, 2 payments, 1 adjustment, 2 periods | `OneAward`, `ReceivedIsBooked`, `StockIsLedger`, `ValueIsConserved`; `LedgerAgrees`, `BooksClose`, `OwnPeriodFenced` |
| `finance_lock` (violated) | the paying side with 1 payment, 1 adjustment | an adjustment is posted into a period locked after the check |
| `procurement_cancelled` (violated) | the buying side | posting an old draft receipt revives a cancelled order |
| `delivery` | the 8 specifications of `Resources`, `QualitySafety`, `Contracts` and `WorkOps`, each on small instances; `FieldSync` with 2 readings, 2 inspections, 2 devices, 1 reading by web, 4 inserts | `NothingTwice`, `WorkIsReviewed`, `RecordsAreLinked`, `TotalsAgree`, `FinalStays`; `AppliedExactlyOnce`, `MeterRunsForward`, `FirstSubmissionWins`, `CheckpointWasAnswered` |
| `enterprise` | the other 46 specifications of the table above, each on one to five small instances (some 2.8 million states in all) | `OnlyOnce`, `RecordsAreBacked`, `MoneyIsTraced`, `StartedWasApproved`, `FiguresAgree`, `SealedAndClosed` |
| `crm_pipelines` (violated) | 2 pipelines, 3 stages, 1 lead | a transition takes a lead to a stage of another pipeline, which another transaction has just adopted |

The properties of `enterprise` and the first five of `delivery` are conjunctions: each conjunct is a property of a
module, stated with its comment at the end of that module, under the kind of promise it
makes.

| Property | Stated in the modules as |
|---|---|
| `NothingTwice` | `Resources!StaffingAgrees`, `Resources!NoDoubleDeployment`, `Resources!MeterIsHighest` |
| `WorkIsReviewed` | `Resources!PlansWereReviewed`, `QualitySafety!QualityIsReviewed`, `QualitySafety!SafetyIsReviewed`, `WorkOps!DoneWasApproved` |
| `RecordsAreLinked` | `QualitySafety!FailuresAreFollowedUp`, `Contracts!OnlyIssuedIsCurrent` |
| `TotalsAgree` | `Contracts!ContractValueAgrees`, `Resources!PayrollAddsUp` |
| `FinalStays` | `Resources!LockedPlanFrozen`, `Resources!RetiredAssetStays`, `Resources!PaidRunFrozen`, `Contracts!NoStatusIsLost`, `WorkOps!ProgressNeverFalls` |
| `OnlyOnce` | `Estate!NoDoubleLetting`, `Customers!ConvertedOnce`, `ProjectWork!OneProjectPerOpportunity`, `Partners!OneSignalAlive`, `Customers!LeadsKeepTheirPipeline`, `Customers!CompletionsAreToldOnce`, `Connections!LeadsAreAnswered`, `Connections!CallsAreAttempts`, `Connections!OneDefaultPack`, `Connections!RunsAreUnique`, `Operations!LettersArrive`, `AccessControl!OnePrimaryDomain`, `ServiceDesk!RunsAreAnswered`, `ProjectWork!OneIssueInUse`, `Assurance!OnePolicyInForce`, `Partners!RecordedByUpload`, `Staff!SiteRecordsAreSingle`, `Operations!TenantsAreServed` |
| `RecordsAreBacked` | `Estate!AcquisitionIsBacked`, `Facilities!AssetIsTraced`, `Facilities!TwinIsTraced`, `Funding!VendorsWereQualified`, `Staff!NobodyFallsOut`, `Customers!HistoryIsAPath`, `ProjectWork!VersionsAreTold`, `ServiceDesk!LevelsAreTold`, `Launch!ScansAreTrue`, `Staff!SiteRecordsAreRooted` |
| `MoneyIsTraced` | `Estate!CollectionsAreTraced`, `ServiceDesk!InvoicesBalance`, `Staff!LeaveIsAccounted`, `Funding!ApprovalsAreBooked` |
| `StartedWasApproved` | `Launch!WhatIsLiveWasApproved`, `Launch!PublishedWasReady`, `Launch!LiveWasIndependent`, `Assurance!CoverStands`, `Facilities!PublishedWasReviewed`, `Operations!DeployedWasApproved`, `Funding!BoardReadsApproved`, `Partners!TwoStandBehind`, `Funding!TwoApproved`, `Operations!ActiveWasTested` |
| `FiguresAgree` | `Funding!FundingAgrees`, `Assurance!ImportsAddUp`, `ProjectWork!BaselineIsFrozen`, `ServiceDesk!DeliveriesAreTold`, `ProjectWork!ViewsAreTrue`, `ProjectWork!FlowIsInBetween`, `Connections!AdviceIsGrounded`, `Connections!AdviceAgrees`, `Customers!PackIsWhole`, `Customers!RelationsAgree`, `Connections!FailuresWereCounted`, `AccessControl!ReadersAgree`, `AccessControl!LevelsAreGiven` |
| `SealedAndClosed` | `Assurance!EvidenceIsSealed`, `Partners!PartnersStayInside`, `AccessControl!RolesFollowFeatures`, `Partners!SharedIsGranted`, `ProjectWork!HandedOutIsClean`, `ProjectWork!ClosedIsUnseen`, `Customers!LeadsStayClosed`, `AccessControl!AssetsAreShown`, `ServiceDesk!ExportsAreSealed`, `AccessControl!VersionsAreKept`, `AccessControl!NobodyGetsMore` |

The runs that are violated check one statement of a document, a message or a comment of
the sources that the code does not keep (`findings` quotes it). The type invariants of
the modules with proofs are theorems or part of the invariants there (section 4; all but
`PayrollTypeOK`, `DataTypeOK`, `StabilityTypeOK` and those of `ProjectWork` and
`AccessControl`). They and the type invariants of the remaining modules also hold on the instances of the
runs, but are not among their properties, because these evaluate every field that the type
invariants constrain.

**Other disagreements met while modelling**, which have no run of their own:

* `docs/api/phase-10-operations.md:13` says that CSV, XLSX and PDF exports are supported.
  A download renders the export again and compares its digest
  (`reporting/application/services.py:509-530`), and a workbook's archive holds the time of
  writing (336): a workbook of an earlier moment is refused. In `ReportSpec` a download
  happens only at the same moment, so that `ExportsAreSealed` holds.
* `workops/application/services.py:779` says "Total timesheet hours for one employee cannot
  exceed 24 per day". Only creation counts them, and leaves out what was rejected (774):
  a rejected entry is submitted again uncounted (824), and two entries can be counted
  before either is inserted. `WorkOps!DayIsDay` states the rule; TLC finds
  the first.
* `myworkops` synchronises a draft under a lock that includes an outer join, which
  PostgreSQL refuses (`MyWorkSpec` has that step end in a refusal).

**Bounds.** They are CONSTANTS named in the modules. Two actors of a kind are enough to
interleave, because every step involves at most one actor and the rows it locks; two
rows because the services compare at most two (a row and the one that conflicts with
it). One crash and one lost lease already give every order of crash, reclaim, late mark
and second failure on two events; two attempts reach the dead letter. Three tokens make
reuse of a token that is neither first nor last. A retry limit of one and one rollback
give the third message for a request, the first that a late callback can mix up. Total
2 with retention 1 is the smallest invoice with a partial payment and a release; rates
3 and 6 with single goods given away at cost 0 produce averages that end and that do
not. Four inserts leave room for the retries of one operation while all others run, or
of several while fewer do. In `delivery` and `enterprise`, `MaxOpen` transactions are open
at once (two where a race is the question, one where every service is a step), versions
are bounded by the number of moves that lead through rework and back, and a module with
many tables has an instance for each group of tables whose rows are decided together.

**Fairness** is used in one place, `Outbox!FairSpec`, and of the clock alone: leases and
backoffs run out. No business transaction must begin, no provider call must return, no
worker must claim, go on or crash, because nothing in the repository starts a publisher.
`NeverStuck` is what the code promises without that: wherever its workers die, hang or
give up, every committed row is settled or comes back to where the next claim, whoever
makes it, finds it. That events are delivered in the end is not claimed. The other modules
state safety only: their operations are commands of users, and nothing obliges a user to
act.

`CHECK_DEADLOCK FALSE` stands in every configuration: documents reach final stages and
bounds run out, so each of these systems may stop.

## 4. What is proved

Every safety property of the runs `outbox`, `workflow`, `identity`, `communication` and
`purchase_to_pay`, and those of `FieldSync`, are theorems of TLAPS, for every value of the
constants; so is type correctness of these modules, and the refinement of `Process` by
`Workflow`. So is every conjunct of the run `delivery`, in its own module: people, machines, pay, reviewed work and its follow-ups, documents and
contracts; and of the conjuncts of `enterprise` those of
`Estate` on which money and land depend, those of `Assurance`, of `Launch` how a company, a
release and a pilot go live, of `ProjectWork` what is said of projects and
drawings, and all of `AccessControl`. Each proof has the same shape: an invariant that is inductive
(`Init => Inv`, `Inv /\ [Next]_vars => Inv'`), one lemma per action or group of actions,
and the property as a consequence. Few of the properties are inductive over the types
alone; what had to be added to the others says what the code relies on:

* **`OutboxProofs`** - any finite sets of events and workers, any batch size, retry limit
  and bounds. `LeaseInv` adds, per worker (`WorkerInv`), that an idle one has an empty
  batch and one between a call and its mark still has the event and knows the truth
  about it; and, per row (`RowInv`), that an uncommitted one was never touched and a
  settled one is not locked, not even by a worker that is gone. `OutboxHonestReceipts`,
  `OutboxSingleHolder` and the action property `OutboxFencedOutcomes` follow.
  `OutboxCallBudget` counts promises: `BudgetInv` says that calls made, plus workers that
  still have the event ahead of them (`Pending`, a cardinality), plus one if the row is
  free for its next holder (`Slot`), never exceed 1 + attempts + takeovers.
  Two sections follow for `ProjectWork`. *Projects* (`HandedInv`): the insertion looks
  for a project of the opportunity once more, so whoever is second finds the first; that
  the opportunity was won persists, that it is won still only where no stage leads out of a
  won one (`WonIsFinal`), which an administrator may change (`ProjectOnePerOpportunity`). `ToldInv` accounts for each version by one
  recorded step or one baseline (`Accounted`, two cardinalities), and says of every
  baseline taken that its tasks are still there and what it shows finished stays finished
  (`Snapshot`), which a later one is read after (`ProjectVersionsAreTold`). *Drawings* (`IssuedInv`):
  an issue supersedes the version in use in the same commit, and stamps only grow, so a
  transmittal that reads its versions without a lock can still be dated against what
  superseded them later (`DesignOneIssueInUse`).
* **`WorkflowProofs`** - `BaseInv` is the types and what references need (`Linked`: the
  version of an instance exists, every stored document is valid). `HistoryInv`: the log is
  numbered without a gap, each entry leaves the state the one before it reached, and the
  instance is in the last (`WorkflowLogIsHistory`). `TaskInv` and `SpentInv`: a task keeps
  the code, state and approver of a transition of its instance's document, and an approved
  one is named by an entry (`WorkflowApprovalsSpentOnce`: two entries that name one task
  would be one). That a version number stands for one state
  (`VersionIdentifiesState`) is inductive over `BaseInv`, because the lock version of an
  instance rises with every move; with the comparison in `MayRequest` it gives the action
  property `WorkflowTransitionsLeaveWhatWasSeen`. The refinement
  (`WorkflowRunsAsProcess`) is proved as `Init => P!Init` and
  `[Next]_vars => [P!Next]_P!vars` under `PhaseInv`: an instance is completed exactly when
  its state is terminal, and no approval is pending that would lead out of one (the
  exception is a document whose initial state is terminal; `Process` allows it its move).
* **`IdentityProofs`** - `FamilyInv` is `LinearFamily` and `RevokedWithFamily` family by
  family (a chain whose last token alone is unused; tokens revoked with the session);
  `LoginInv` says that a login that passed its check and has no row yet did so before the last
  sweep if the user was deactivated since: the fact on which `IdentitySweepIsComplete`
  hangs. `LinkInv` dates every reset link by the security event it was issued at.
  Three sections follow for `Assurance`. *Compliance* (`SealedInv`): whoever evaluates a
  control holds the assessment's row, so it cannot be submitted between the check and the
  write, and what it sealed stays what the evaluations say (`ComplianceEvidenceIsSealed`).
  *Cover* (`CoverInv`): no lock helps here, a record is inserted on parents read earlier;
  but from an approved coverage, instrument or party no stage leads back behind its
  approval (`Standing`), so what was checked still holds at the insertion and ever after
  (`Rooted`, `CoverAlwaysStands`). *Data*: `ImportInv` counts, per job, its rows by what
  became of them (`Tallied`) and gives each code one row that created it (`Created`);
  `PolicyInv` says that the versions of a type run without a gap, from which the next one,
  which is a count, is the highest (`DataOnePolicyInForce`).
* **`CommunicationProofs`** - `BudgetOf`: committed attempts and the send under way stay
  within the retry limit, and with the rolled-back dispatches account for every message
  given to the provider (`CommunicationSendBudget`). `LifeOf`: nothing is sent before its
  row is there. `CommunicationAppliedOnce` and `CommunicationStatusWasTold` are inductive
  over that.
  Four sections follow for `AccessControl`. *Roles* (`AccessInv`): versions of a role are
  only added (`Grown`), so what members, invitations, an open reconciliation and a choice of
  roles under way have read (`Made`, `ReplacingInv`) still names versions when it is
  written, and none of it brings the retired role back (`Lasting`); `UserFollows` says that
  the role of users permits what the committed overrides switch on: a reconciliation derives
  it from its own override and the committed ones, and these are the committed ones when it
  ends (`AccessRolesFollowFeatures`). *Levels* (`MatrixInv`): what any version of
  a role permits is bounded by its key (`Ceiling`), whoever makes it and whatever has been
  switched since; the roles of a member in the matrix that are in force are keys of the
  levels set last (`Allowed`), and all of them are held (`Covers`). Only the role that an
  invitation makes without the company's lock can break this, by giving its next version
  to a member who no longer holds the last; the action remembers that in `overtaken`, on
  which `AccessNobodyGetsMore` and `AccessLevelsAreGiven` depend. *Domains*:
  `PrimaryInv` says that there is one primary domain as soon as there has been one, and that
  whoever is making another holds it in the state it was found in (`DomainOnePrimary`);
  `AssetsInv`, that what was looked at for a slot stays clean and was uploaded for it
  (`DomainAssetsAreShown`). *Configuration*: `VersionsInv` numbers versions without a gap
  (`ConfigVersionsAreKept`); a bounded set of numbers has a highest (`HighestOf`, again by
  a minimal subset), so both readers find one version and the same
  (`ConfigReadersAgree`).
* **`FieldSyncProofs`** - `LifeOf`, `StageInv`: an operation has a number while it is
  replayed, is not replayed after it was answered, the inspection is submitted at most
  once. `ReadingsInv` ties readings, answers and the replays under way
  (`FieldSyncAppliedExactlyOnce`), `ToldInv` the answers to the one winning submission
  (`FieldSyncFirstSubmissionWins`), `CheckpointOf` a checkpoint to an answered operation of
  the device (`FieldSyncCheckpointWasAnswered`). `FieldSyncMeterRunsForward` is inductive
  over the types.
  Three sections follow for `Launch`. `LiveInv`: the transition of a wave holds its row,
  and what it reads without a lock, the plan, goes on once it executes
  (`GoLiveWasApproved`). `ReadyInv`: readiness and backups are never taken back, and the
  approver of a release stays (`ReleasePublishedWasReady`). `PilotInv`: an approval
  under way holds the plan, which is still in review, so there is one at a time
  (`PilotLiveWasIndependent`); `assess_readiness` may write `ready` over a live
  program, but never the other way round.
* **`PurchaseToPayProofs`**, for `Finance`, for `Procurement` (with `Inventory`) and for
  `Contracts`, in four sections. *Sums*: what the others need of `SumFunctionOnSet` (adding, removing, equal
  terms, pairs that cancel) and of folds. These operators are defined by recursion on a
  finite set. Rules of induction with an operator as a parameter are beyond the installed
  provers; the lemmas use instead that a nonempty family of subsets of a finite set has a
  minimal member (`MinimalSubset`), and refute a minimal counterexample.
  *Finance*: `DocumentInv` gives the entries of the invoice and of each payment, stage
  by stage. A document that is not posted has none; the entries of a posted invoice, one for
  each line and one for what is withheld, are told apart by fact and key and worth its
  total and that; a reversed one nets to zero. Without it not even `TypeOK` is inductive,
  because a reversal copies what it finds on the ledger. `FinanceLedgerAgrees` and, for any
  number of payments in any order, `FinanceBooksClose` (paid + retained + outstanding =
  total) follow; `FinanceOwnPeriodFenced` rests on it that whoever posts into the document's
  own period holds its row (`NewEntriesFenced`), and that the period of a payment that has
  left an entry does not change (`PeriodFixed`).
  *Procurement*: `Sound` says of any books what `StockIsLedger`
  and `ValueIsConserved` say of the current ones. One movement preserves it (`PostSound`:
  the average is exact, because `full_clean` refuses one that is not), hence every prefix of
  the fold over the lines of a receipt does (`AfterLines`), whatever was posted by hand
  under which source. `AwardInv`: a vendor about to quote has none, and no order exists
  without an accepted quote (`ProcurementOneAward`). `StockInv` adds that what is on no
  receipt has booked nothing (`ProcurementReceivedIsBooked`).
  *Contracts*: `_record_for_transition` and `transition_revision` lock, through the join,
  the one policy row, hence at most one transaction is open and what it has read of the
  document or the contract is still the table at its commit (`RevisionTxOK`,
  `VariationTxOK`). `ControlledInv`: a revision, once there, stays with its document and
  its stamps, so whatever names an issued one goes on naming an issued one
  (`DocumentOnlyIssuedIsCurrent`), and a commit writes back the status it finds
  (`DocumentNoStatusIsLost`). `AgreedInv`: the stored variation value of a contract is the
  sum over its variations, each taken as often as it was approved, to which a commit adds
  one more (`VariedMore`). Where the policy approves for good (`ApprovedForGood`), an approved
  variation is in a status from which no rule approves again (`Spent`), so none counts
  twice. `CommercialValueAgrees` follows, for any amounts, variations and policies.
* **`EstateProofs`** - three specifications, each with its types and one promise.
  `LeaseInv`: at most one transaction holds a unit's row, and what it found there still
  stands when it writes; this is the whole argument for `LeaseNoDoubleLetting`.
  `LandInv`: a command holds the row of its opportunity, but reads scenario and offer
  without a lock. `LandAcquisitionIsBacked` holds nevertheless, because an approved scenario
  can only be superseded and an accepted offer is final: what was read cannot be
  undone. It speaks of what the transitions bring about; `create_parcel` takes any status
  from its caller, and nobody asks a row that was entered as acquired for its offer
  (`entered`). `SalesInv`: an open transaction holds the row it works on and nobody else does;
  the approver of a booking persists; and, row by row, a receipt, a handover or a
  conversion is backed by the booking it names (`BookingsHold`, `ReceiptsHold`,
  `HandoversHold`, `ConversionsHold`). The amount a transaction has read may be stale, and
  `SalesCollectionsAreTraced` shows in which direction.
* **`DeliveryProofs`** - six specifications. Those of `Resources` check under a lock and
  commit later. `StaffingInv`: an assignment holds the rows of its demand and of the
  demand's plan, so that when it commits the demand still asks for one more and the plan
  may still be changed (`StaffingTxOK`); hence `StaffingCountsAgree`, a count over a finite
  set of assignments, and the action property `StaffingLockedPlanFrozen`.
  `StaffingPlansWereReviewed` needs no lock: a decision is final, and never made by who
  asked for it (`DecisionsStand`). `EquipmentInv`: a deployment holds the machine's row, and what
  did not overlap when it was checked does not overlap when it is written
  (`EquipmentNoDoubleDeployment`); readings and orders name machines that are there, from which
  `EquipmentMeterIsHighest`, and `EquipmentRetiredAssetStays` for the status.
  `PayrollInv`: every change of lines locks the payroll policy, so there is one at a time,
  and the sums it writes are those of the lines it leaves (`PayrollTotalsAddUp`,
  `PayrollPaidRunFrozen`). `PayrollTypeOK` alone is not a theorem: that a sum of amounts
  is a number needs the induction of the first section of `PurchaseToPayProofs`, and the
  proof of the rest says of the totals that they are sums of some lines (`SummedRow`).
  Quality and safety records have rules of any form, which may lead back: that the
  approvals of a status still stand (`QualityReviewsStand`, `SafetyReviewsStand`) rests on
  it that an accepted approval is final and that who decided it, whoever was asked, is not
  who asked for it (`DecidedByAnother`). `SafetyInv` adds that a row once there stays, with what others refer
  to it by (`RecordStands`), and that an inspection which needs an action names one of its
  own (`SafetyFailuresAreFollowedUp`). `WorkInv`: an open request for an approval has read
  a reviewer other than the one who asks (`WorkTxOK`), so what it inserts is not
  reviewed by its author (`WorkDoneWasApproved`); progress is written by an `UPDATE`
  that compares with the row itself, not with what a request read
  (`WorkProgressNeverFalls`).

The proofs assume nothing but the `...Assumption` of the modules, which TLC evaluates in
their runs: sets that must be finite, bounds that are numbers, marker values that differ
from the values they are told from, foreign keys that lead to rows of their table, and a
few facts of the code and its policies: `Line` has positive
quantities (`pr_line_quantity_positive`), a payment is no adjustment (they
are rows of two tables), the lines of an invoice add up to its total, no configured status
code is empty, and safety risks start out open (`initial_risk_status`). What holds only
under some policies says so in its statement: `transition_record` adds the value of a
variation at every rule with that milestone, so a policy that leads back to an approval
(`CommercialPolicyVersion.clean` accepts it) counts a variation again.

**Only model-checked:**

* `NeverStuck`: liveness under fairness, for which the prover has no rules.
* The conjunctions of the runs `delivery` and `enterprise`. They speak of the concrete
  instances in these runs; what is worth proving is each conjunct, in its module and for
  any constants. This is done for the three of `Estate`, all of `Resources`, `QualitySafety`, `Contracts`, `WorkOps` and `Assurance`, those of `Launch` but `ScansAreTrue`, all seven of `AccessControl`, and `OneProjectPerOpportunity`, `VersionsAreTold` and `OneIssueInUse` of `ProjectWork`; the others are checked by TLC alone.
* `PayrollTypeOK` of `Resources` (see `DeliveryProofs`).
* That the instances of the violated runs reach the disagreement.

## 5. Not modelled, and why

Tenancy and permission checks (but where a specification is about them:
`AccessControl`, `Partners`, `OverviewSpec`), serialisers, payload validation, audit
records and `expected_version` where it only refuses a caller (it never changes what an
accepted call does; where stale versions matter, it is there). Idempotency keys of the API
where the rows are the identities (in `IntegrationSpec`, `ReportSpec` and
`AssistantSpec`, where the key is looked up, it is there). Database deadlocks but the one of
`AccessSpec`: the victim rolls back as a whole and leaves nothing. Rendering, mail and provider protocols: a provider accepts or raises, and
calls back with any status. Seed and bootstrap commands, whose rows are given. Events and
facts that only insert a row nobody reads back. The conditions and actions of the rules of
`crm` automation: a rule succeeds, fails or is skipped, and may raise the version. Lists,
searches and dashboards other than those of `OverviewSpec`, `RelationSpec` and
`LeadSpec`: reads. What `notes` in `components` name. The modules marked
`not_modelled`.

## 6. Plan

Done: the modules of section 2 and the proofs of section 4.

Left to prove, module by module and for any constants, in this order: `PayrollTypeOK` in `Resources`;
`FundingAgrees` in `Funding`; then the other conjuncts
listed in section 3. No module has a `RECURSIVE` operator, so none of them is out of reach.
Sums are ready in the first section of `PurchaseToPayProofs`.
