------------------------------- MODULE Launch -------------------------------
(* Going live: of a company, of a release of the platform, of the pilot,   *)
(* and the stability desk that watches what is live. Each is specified by  *)
(* itself (GoLiveSpec, ReleaseSpec, PilotSpec, StabilitySpec).             *)
EXTENDS MakerChecker

-----------------------------------------------------------------------------
(* Going live (modules/goliveops, application/services.py): migration      *)
(* batches and their issues, training, cutover plans with their tasks,     *)
(* waves, gates and hypercare issues.                                      *)
(*                                                                         *)
(* Every service locks the row it moves.  transition_go_live_wave locks    *)
(* the wave alone (of=self): the gates, the tasks and the plan that it     *)
(* reads and writes can change between its checks and its commit.          *)

CONSTANTS
  Actor, Batch, Issue, Enrollment, Plan, Task, Wave, Hypercare, GoLiveGate,
  PlanOf,     \* Task or Wave -> plan
  GoLiveCritical,   \* tasks that are critical
  Counts,     \* numbers of rows that a batch may report
  MaxOpen     \* bound: transactions of a wave open at once

GoLiveAssumption ==
  /\ PlanOf \in [Task \cup Wave -> Plan] /\ GoLiveCritical \subseteq Task /\ 0 \in Counts /\ Counts \subseteq Nat
  /\ Nobody \notin Actor

VARIABLES
  batch,      \* Batch -> row: total and invalid rows, maker and approver
  issue,      \* Issue -> row
  enrollment, \* Enrollment -> row: whether it has a score
  plan,       \* Plan -> row
  task,       \* Task -> row
  wave,       \* Wave -> row: maker and approver
  hypercare,  \* Hypercare -> row: whether it has a resolution summary
  goLiveGate,       \* required gates -> row, seeded with the company
  waveTx      \* transitions of a wave between checks and commit

goLiveVars == <<batch, issue, enrollment, plan, task, wave, hypercare, goLiveGate, waveTx>>

MigrationStages ==
  [DRAFT |-> {"VALIDATING", "CANCELLED"}, VALIDATING |-> {"VALIDATED", "FAILED", "CANCELLED"},
   VALIDATED |-> {"APPROVED", "VALIDATING", "CANCELLED"}, FAILED |-> {"VALIDATING", "CANCELLED"},
   APPROVED |-> {"IMPORTED", "CANCELLED"}, IMPORTED |-> {}, CANCELLED |-> {}]

WaveStages ==
  [DRAFT |-> {"READY"}, READY |-> {"APPROVED", "DRAFT"}, APPROVED |-> {"LIVE", "ROLLED_BACK"},
   LIVE |-> {"HYPERCARE", "ROLLED_BACK"}, HYPERCARE |-> {"CLOSED", "ROLLED_BACK"},
   CLOSED |-> {}, ROLLED_BACK |-> {}]

HypercareStages ==
  [OPEN |-> {"ACKNOWLEDGED", "MITIGATING", "RESOLVED"}, ACKNOWLEDGED |-> {"MITIGATING", "RESOLVED"},
   MITIGATING |-> {"RESOLVED", "OPEN"}, RESOLVED |-> {"CLOSED", "OPEN"}, CLOSED |-> {"OPEN"}]

GoLiveTrainingStatus == {"NOT_STARTED", "IN_PROGRESS", "COMPLETED", "FAILED", "WAIVED"}
TaskStatus == {"PENDING", "IN_PROGRESS", "BLOCKED", "DONE", "SKIPPED"}
GateStatus == {"PENDING", "PASSED", "FAILED", "WAIVED"}

BatchRow == [status : DOMAIN MigrationStages, total : Counts, invalid : Counts,
             by : Actor, approver : Actor \cup {Nobody}]
IssueRow == [status : {"OPEN", "RESOLVED"}]
EnrollmentRow == [status : GoLiveTrainingStatus, scored : BOOLEAN]
PlanRow == [status : {"DRAFT", "EXECUTING"}]
TaskRow == [status : TaskStatus]
WaveRow == [status : DOMAIN WaveStages, by : Actor, approver : Actor \cup {Nobody}]
HypercareRow == [status : DOMAIN HypercareStages, summary : BOOLEAN]

GoLiveInit ==
  /\ batch = [b \in Batch |-> Absent] /\ issue = [i \in Issue |-> Absent]
  /\ enrollment = [e \in Enrollment |-> Absent] /\ plan = [p \in Plan |-> Absent]
  /\ task = [t \in Task |-> Absent] /\ wave = [w \in Wave |-> Absent]
  /\ hypercare = [h \in Hypercare |-> Absent] /\ goLiveGate = [g \in GoLiveGate |-> "PENDING"] /\ waveTx = {}

-----------------------------------------------------------------------------
(* Migration.                                                              *)

CreateMigrationBatch(b, a) ==
  /\ ~Has(batch, b)
  /\ batch' = [batch EXCEPT ![b] =
       [status |-> "DRAFT", total |-> 0, invalid |-> 0, by |-> a, approver |-> Nobody]]
  /\ UNCHANGED <<issue, enrollment, plan, task, wave, hypercare, goLiveGate, waveTx>>

\* Mutant: the counters are those that the batch had before.
CleanBefore(b, target, invalid) ==
  target \in {"VALIDATED", "APPROVED", "IMPORTED"} => batch[b].invalid = 0

\* The counters come with the transition and are checked after they are set.
Clean(b, target, invalid) == target \in {"VALIDATED", "APPROVED", "IMPORTED"} => invalid = 0

TransitionMigrationBatch(b, a) ==
  /\ \E target \in Offers(MigrationStages, batch, b), total, invalid \in Counts :
       /\ invalid <= total /\ Clean(b, target, invalid)
       /\ target = "APPROVED" => batch[b].by # a
       /\ batch' = [batch EXCEPT ![b].status = target, ![b].total = total, ![b].invalid = invalid,
                      ![b].approver = IF target = "APPROVED" THEN a ELSE @]
  /\ UNCHANGED <<issue, enrollment, plan, task, wave, hypercare, goLiveGate, waveTx>>

CreateMigrationIssue(i) ==
  /\ ~Has(issue, i) /\ \E b \in Batch : Has(batch, b)
  /\ issue' = [issue EXCEPT ![i] = [status |-> "OPEN"]]
  /\ UNCHANGED <<batch, enrollment, plan, task, wave, hypercare, goLiveGate, waveTx>>

ResolveMigrationIssue(i) ==
  /\ Has(issue, i) /\ issue' = Moved(issue, i, "RESOLVED")
  /\ UNCHANGED <<batch, enrollment, plan, task, wave, hypercare, goLiveGate, waveTx>>

-----------------------------------------------------------------------------
(* Training, cutover, gates and hypercare.                                 *)

CreateTrainingEnrollment(e) ==
  /\ ~Has(enrollment, e)
  /\ enrollment' = [enrollment EXCEPT ![e] = [status |-> "NOT_STARTED", scored |-> FALSE]]
  /\ UNCHANGED <<batch, issue, plan, task, wave, hypercare, goLiveGate, waveTx>>

TransitionTrainingEnrollment(e) ==
  /\ Has(enrollment, e)
  /\ \E status \in GoLiveTrainingStatus, scored \in BOOLEAN :
       /\ status = "COMPLETED" => scored
       /\ enrollment' = [enrollment EXCEPT ![e] = [status |-> status, scored |-> scored]]
  /\ UNCHANGED <<batch, issue, plan, task, wave, hypercare, goLiveGate, waveTx>>

CreateCutoverPlan(p) ==
  /\ ~Has(plan, p) /\ plan' = [plan EXCEPT ![p] = [status |-> "DRAFT"]]
  /\ UNCHANGED <<batch, issue, enrollment, task, wave, hypercare, goLiveGate, waveTx>>

CreateCutoverTask(t) ==
  /\ ~Has(task, t) /\ Has(plan, PlanOf[t])
  /\ task' = [task EXCEPT ![t] = [status |-> "PENDING"]]
  /\ UNCHANGED <<batch, issue, enrollment, plan, wave, hypercare, goLiveGate, waveTx>>

TransitionCutoverTask(t) ==
  /\ Has(task, t)
  /\ \E status \in TaskStatus \ (IF t \in GoLiveCritical THEN {"SKIPPED"} ELSE {}) :
       task' = Moved(task, t, status)
  /\ UNCHANGED <<batch, issue, enrollment, plan, wave, hypercare, goLiveGate, waveTx>>

GoLiveDecideGate(g) ==
  /\ \E status \in GateStatus : goLiveGate' = [goLiveGate EXCEPT ![g] = status]
  /\ UNCHANGED <<batch, issue, enrollment, plan, task, wave, hypercare, waveTx>>

CreateHypercareIssue(h) ==
  /\ ~Has(hypercare, h)
  /\ hypercare' = [hypercare EXCEPT ![h] = [status |-> "OPEN", summary |-> FALSE]]
  /\ UNCHANGED <<batch, issue, enrollment, plan, task, wave, goLiveGate, waveTx>>

\* A summary, once given, stays.
TransitionHypercareIssue(h) ==
  /\ \E target \in Offers(HypercareStages, hypercare, h), given \in BOOLEAN :
       /\ target \in {"RESOLVED", "CLOSED"} => given \/ hypercare[h].summary
       /\ hypercare' = [hypercare EXCEPT ![h].status = target, ![h].summary = @ \/ given]
  /\ UNCHANGED <<batch, issue, enrollment, plan, task, wave, goLiveGate, waveTx>>

-----------------------------------------------------------------------------
(* Waves.                                                                  *)

CreateGoLiveWave(w, a) ==
  /\ ~Has(wave, w) /\ Has(plan, PlanOf[w])
  /\ wave' = [wave EXCEPT ![w] = [status |-> "DRAFT", by |-> a, approver |-> Nobody]]
  /\ UNCHANGED <<batch, issue, enrollment, plan, task, hypercare, goLiveGate, waveTx>>

MayApprove(w, a) == wave[w].by # a /\ \A g \in GoLiveGate : goLiveGate[g] = "PASSED"

MayGoLive(w) == \A t \in GoLiveCritical : PlanOf[t] = PlanOf[w] /\ Has(task, t) => In(task, t, {"DONE"})

CheckWave(w, a) ==
  /\ Cardinality(waveTx) < MaxOpen /\ Unlocked(waveTx, {w})
  /\ \E target \in Offers(WaveStages, wave, w) :
       /\ target = "APPROVED" => MayApprove(w, a)
       /\ target = "LIVE" => MayGoLive(w)
       /\ waveTx' = waveTx \cup {[row |-> w, to |-> target, by |-> a, locks |-> {w}]}
  /\ UNCHANGED <<batch, issue, enrollment, plan, task, wave, hypercare, goLiveGate>>

CommitWave(t) ==
  /\ wave' = [wave EXCEPT ![t.row].status = t.to,
                ![t.row].approver = IF t.to = "APPROVED" THEN t.by ELSE @]
  /\ plan' = IF t.to = "LIVE" THEN Moved(plan, PlanOf[t.row], "EXECUTING") ELSE plan
  /\ waveTx' = waveTx \ {t}
  /\ UNCHANGED <<batch, issue, enrollment, task, hypercare, goLiveGate>>

GoLiveNext ==
  \/ \E b \in Batch, a \in Actor : CreateMigrationBatch(b, a) \/ TransitionMigrationBatch(b, a)
  \/ \E i \in Issue : CreateMigrationIssue(i) \/ ResolveMigrationIssue(i)
  \/ \E e \in Enrollment : CreateTrainingEnrollment(e) \/ TransitionTrainingEnrollment(e)
  \/ \E p \in Plan : CreateCutoverPlan(p)
  \/ \E t \in Task : CreateCutoverTask(t) \/ TransitionCutoverTask(t)
  \/ \E g \in GoLiveGate : GoLiveDecideGate(g)
  \/ \E h \in Hypercare : CreateHypercareIssue(h) \/ TransitionHypercareIssue(h)
  \/ \E w \in Wave, a \in Actor : CreateGoLiveWave(w, a) \/ CheckWave(w, a)
  \/ \E t \in waveTx : CommitWave(t)

GoLiveSpec == GoLiveInit /\ [][GoLiveNext]_goLiveVars

-----------------------------------------------------------------------------
GoLiveTypeOK ==
  /\ batch \in [Batch -> BatchRow \cup {Absent}] /\ issue \in [Issue -> IssueRow \cup {Absent}]
  /\ enrollment \in [Enrollment -> EnrollmentRow \cup {Absent}]
  /\ plan \in [Plan -> PlanRow \cup {Absent}] /\ task \in [Task -> TaskRow \cup {Absent}]
  /\ wave \in [Wave -> WaveRow \cup {Absent}] /\ goLiveGate \in [GoLiveGate -> GateStatus]
  /\ hypercare \in [Hypercare -> HypercareRow \cup {Absent}]

Approved(table, r) == table[r].approver \notin {Nobody, table[r].by}

\* What is live was approved by somebody who did not make it, however often it
\* was sent back: an imported batch without invalid rows, a wave whose plan
\* has been executing since it went live.
WhatIsLiveWasApproved ==
  /\ \A b \in Batch : In(batch, b, {"APPROVED", "IMPORTED"}) =>
       Approved(batch, b) /\ batch[b].invalid = 0
  /\ \A w \in Wave : In(wave, w, {"APPROVED", "LIVE", "HYPERCARE", "CLOSED", "ROLLED_BACK"}) =>
       Approved(wave, w)
  /\ \A w \in Wave : In(wave, w, {"LIVE", "HYPERCARE", "CLOSED"}) => In(plan, PlanOf[w], {"EXECUTING"})

-----------------------------------------------------------------------------
(* Releases (modules/releaseops, application/services.py): candidates with *)
(* their gates and acceptance tests, deployment targets, backups and       *)
(* readiness runs, approval and publication.                               *)
(*                                                                         *)
(* A gate or a test is decided under its own lock: the release whose       *)
(* status the service reads is not locked, so that the release may be      *)
(* published between that check and the commit.                            *)

CONSTANTS
  Candidate,
  ReleaseGate   \* required gates and acceptance tests of every candidate

ReleaseAssumption ==
  ReleaseGate # {} /\ IsFiniteSet(ReleaseGate) /\ MaxOpen \in Nat /\ Nobody \notin Actor

VARIABLES
  releaseTarget,  \* deployment target: "ABSENT" or "ACTIVE"
  release,        \* Candidate -> row: maker, approver
  decided,        \* Candidate -> Gate -> status
  backup,         \* candidates with a restore-tested backup available
  ready,          \* candidates with a readiness run that passed
  gateTx          \* decisions between check and commit

releaseVars == <<releaseTarget, release, decided, backup, ready, gateTx>>

CandidateRow == [status : {"DRAFT", "APPROVED", "PUBLISHED"}, by : Actor,
                 approver : Actor \cup {Nobody}]

ReleaseInit ==
  /\ releaseTarget = "ABSENT" /\ release = [r \in Candidate |-> Absent]
  /\ decided = [r \in Candidate |-> [g \in ReleaseGate |-> "PENDING"]]
  /\ backup = {} /\ ready = {} /\ gateTx = {}

CreateTarget == releaseTarget = "ABSENT" /\ releaseTarget' = "ACTIVE" /\ UNCHANGED <<release, decided, backup, ready, gateTx>>

\* With all its gates and the tests of the library.
CreateRelease(r, a) ==
  /\ ~Has(release, r)
  /\ release' = [release EXCEPT ![r] = [status |-> "DRAFT", by |-> a, approver |-> Nobody]]
  /\ UNCHANGED <<releaseTarget, decided, backup, ready, gateTx>>

-----------------------------------------------------------------------------
CheckDecision(r, g) ==
  /\ Has(release, r) /\ ~In(release, r, {"PUBLISHED"})
  /\ Cardinality(gateTx) < MaxOpen /\ Unlocked(gateTx, {<<r, g>>})
  /\ gateTx' = gateTx \cup {[row |-> r, gate |-> g, locks |-> {<<r, g>>}]}
  /\ UNCHANGED <<releaseTarget, release, decided, backup, ready>>

\* decide_gate, execute_uat
Decide(t) ==
  /\ \E status \in GateStatus : decided' = [decided EXCEPT ![t.row][t.gate] = status]
  /\ gateTx' = gateTx \ {t}
  /\ UNCHANGED <<releaseTarget, release, backup, ready>>

RegisterBackup(r) ==
  /\ Has(release, r)
  /\ backup' \in {backup, backup \cup {r}}
  /\ UNCHANGED <<releaseTarget, release, decided, ready, gateTx>>

AllPassed(r) == \A g \in ReleaseGate : decided[r][g] = "PASSED"

\* The checks of the installation are constants; those of the release are not.
RunReadiness(r) ==
  /\ Has(release, r)
  /\ ready' = IF releaseTarget = "ACTIVE" /\ AllPassed(r) /\ r \in backup THEN ready \cup {r} ELSE ready
  /\ UNCHANGED <<releaseTarget, release, decided, backup, gateTx>>

\* _validate_release_for_approval
Validate(r) == AllPassed(r) /\ r \in backup /\ r \in ready

ApproveRelease(r, a) ==
  /\ In(release, r, {"DRAFT"}) /\ release[r].by # a /\ Validate(r)
  /\ release' = [release EXCEPT ![r].status = "APPROVED", ![r].approver = a]
  /\ UNCHANGED <<releaseTarget, decided, backup, ready, gateTx>>

PublishRelease(r) ==
  /\ In(release, r, {"APPROVED"}) /\ releaseTarget = "ACTIVE"
  /\ release' = Moved(release, r, "PUBLISHED")
  /\ UNCHANGED <<releaseTarget, decided, backup, ready, gateTx>>

ReleaseNext ==
  \/ CreateTarget
  \/ \E r \in Candidate :
       \/ RegisterBackup(r) \/ RunReadiness(r) \/ PublishRelease(r)
       \/ \E a \in Actor : CreateRelease(r, a) \/ ApproveRelease(r, a)
       \/ \E g \in ReleaseGate : CheckDecision(r, g)
  \/ \E t \in gateTx : Decide(t)

ReleaseSpec == ReleaseInit /\ [][ReleaseNext]_releaseVars

-----------------------------------------------------------------------------
ReleaseTypeOK ==
  /\ releaseTarget \in {"ABSENT", "ACTIVE"} /\ release \in [Candidate -> CandidateRow \cup {Absent}]
  /\ decided \in [Candidate -> [ReleaseGate -> GateStatus]]
  /\ backup \subseteq Candidate /\ ready \subseteq Candidate

\* A published release was approved by somebody other than its maker, after a
\* readiness run that passed, and has a backup that was restored; no readiness
\* run passes without an active target.
PublishedWasReady ==
  /\ \A r \in Candidate : In(release, r, {"APPROVED", "PUBLISHED"}) =>
       release[r].approver \notin {Nobody, release[r].by} /\ r \in ready /\ r \in backup
  /\ ready # {} => releaseTarget = "ACTIVE"

\* "Published or cancelled releases cannot be changed"
PublishedIsFinal ==
  [][\A r \in Candidate : In(release, r, {"PUBLISHED"}) => decided'[r] = decided[r]]_releaseVars

-----------------------------------------------------------------------------
(* Pilots (modules/pilotops, application/services.py): the readiness of a  *)
(* program - checklist, master data, training and sign-offs - and its      *)
(* go-live plan.                                                           *)
(*                                                                         *)
(* transition_go_live locks the plan and, by its joins, the program and    *)
(* the owner; assess_readiness reads the program without a lock and saves  *)
(* READY over whatever it has become.  The items that readiness counts are *)
(* moved under locks of their own.                                         *)

CONSTANTS
  Owner, Checklist, Domain, Training, Signoff,
  AssigneeOf                                    \* Training or Signoff -> actor

PilotAssumption ==
  Owner \in Actor /\ Nobody \notin Actor /\ AssigneeOf \in [Training \cup Signoff -> Actor]

VARIABLES
  program,    \* status
  goLive,     \* the plan: status, approver
  checklist,  \* Checklist -> status; all are required
  domain,     \* domains of master data that are ready
  training,   \* Training -> status
  signoff,    \* Signoff -> status
  pilotTx     \* assessments and approvals between reading and commit

pilotVars == <<program, goLive, checklist, domain, training, signoff, pilotTx>>

ChecklistStages ==
  [pending |-> {"in_progress", "completed", "blocked", "waived"},
   in_progress |-> {"completed", "blocked", "waived"},
   blocked |-> {"in_progress", "completed", "waived"},
   completed |-> {"in_progress"}, waived |-> {"in_progress"}]

GoLiveStages ==
  [draft |-> {"in_review", "cancelled"}, in_review |-> {"approved", "draft"},
   approved |-> {"in_progress", "cancelled"}, in_progress |-> {"live", "rolled_back"},
   live |-> {"rolled_back"}, rolled_back |-> {}, cancelled |-> {}]

ProgramStatus == {"preparing", "ready", "live", "paused"}
PilotTrainingStatus == {"assigned", "in_progress", "completed", "waived"}
SignoffStatus == {"pending", "approved", "rejected", "waived"}
GoLivePlan == [status : DOMAIN GoLiveStages, approver : Actor \cup {Nobody}]

\* The program and its items are seeded; no service makes them.
PilotInit ==
  /\ program = "preparing" /\ goLive = [status |-> "draft", approver |-> Nobody]
  /\ checklist = [c \in Checklist |-> "pending"] /\ domain = {}
  /\ training = [t \in Training |-> "assigned"]
  /\ signoff = [s \in Signoff |-> "pending"] /\ pilotTx = {}

TransitionChecklistItem(c) ==
  /\ \E status \in ChecklistStages[checklist[c]] : checklist' = [checklist EXCEPT ![c] = status]
  /\ UNCHANGED <<program, goLive, domain, training, signoff, pilotTx>>

\* Every domain is counted anew; records come and go in other modules.
ValidateMasterData ==
  /\ domain' \in SUBSET Domain
  /\ UNCHANGED <<program, goLive, checklist, training, signoff, pilotTx>>

UpdateTrainingCompletion(t, a) ==
  /\ AssigneeOf[t] = a
  /\ \E status \in PilotTrainingStatus : training' = [training EXCEPT ![t] = status]
  /\ UNCHANGED <<program, goLive, checklist, domain, signoff, pilotTx>>

\* The join locks the plan and the program.
SignoffGoLive(s, a) ==
  /\ AssigneeOf[s] = a /\ Unlocked(pilotTx, {"plan"})
  /\ \E status \in SignoffStatus : signoff' = [signoff EXCEPT ![s] = status]
  /\ UNCHANGED <<program, goLive, checklist, domain, training, pilotTx>>

\* readiness_metrics: everything required is done or waived.
Ready ==
  /\ \A c \in Checklist : checklist[c] \in {"completed", "waived"}
  /\ domain = Domain
  /\ \A t \in Training : training[t] \in {"completed", "waived"}
  /\ \A s \in Signoff : signoff[s] \in {"approved", "waived"}

-----------------------------------------------------------------------------
ReadForAssessment ==
  /\ Ready /\ program = "preparing" /\ Cardinality(pilotTx) < MaxOpen
  /\ pilotTx' = pilotTx \cup {[do |-> "assess", locks |-> {}]}
  /\ UNCHANGED <<program, goLive, checklist, domain, training, signoff>>

\* An assessment that found the program not ready only records it.
AssessReadiness(t) ==
  /\ t.do = "assess" /\ Unlocked(pilotTx, {"plan"})
  /\ program' = "ready" /\ pilotTx' = pilotTx \ {t}
  /\ UNCHANGED <<goLive, checklist, domain, training, signoff>>

PilotIndependent(a) == a # Owner

\* Readiness is read item by item and the approval written after it.
CheckApproval(a) ==
  /\ goLive.status = "in_review" /\ PilotIndependent(a) /\ Ready
  /\ Cardinality(pilotTx) < MaxOpen /\ Unlocked(pilotTx, {"plan"})
  /\ pilotTx' = pilotTx \cup {[do |-> "approve", by |-> a, locks |-> {"plan"}]}
  /\ UNCHANGED <<program, goLive, checklist, domain, training, signoff>>

CommitApproval(t) ==
  /\ t.do = "approve"
  /\ goLive' = [status |-> "approved", approver |-> t.by]
  /\ pilotTx' = pilotTx \ {t}
  /\ UNCHANGED <<program, checklist, domain, training, signoff>>

TransitionGoLive ==
  /\ Unlocked(pilotTx, {"plan"})
  /\ \E status \in GoLiveStages[goLive.status] \ {"approved"} :
       /\ goLive' = [goLive EXCEPT !.status = status]
       /\ program' = CASE status = "live" -> "live" [] status = "rolled_back" -> "paused"
                       [] OTHER -> program
  /\ UNCHANGED <<checklist, domain, training, signoff, pilotTx>>

PilotNext ==
  \/ \E c \in Checklist : TransitionChecklistItem(c)
  \/ ValidateMasterData \/ ReadForAssessment \/ TransitionGoLive
  \/ \E a \in Actor : \/ CheckApproval(a)
                      \/ \E t \in Training : UpdateTrainingCompletion(t, a)
                      \/ \E s \in Signoff : SignoffGoLive(s, a)
  \/ \E t \in pilotTx : AssessReadiness(t) \/ CommitApproval(t)

PilotSpec == PilotInit /\ [][PilotNext]_pilotVars

-----------------------------------------------------------------------------
PilotTypeOK ==
  /\ program \in ProgramStatus /\ goLive \in GoLivePlan
  /\ checklist \in [Checklist -> DOMAIN ChecklistStages] /\ domain \subseteq Domain
  /\ training \in [Training -> PilotTrainingStatus] /\ signoff \in [Signoff -> SignoffStatus]

\* A plan past its review was approved by someone other than the owner, and
\* only a program whose plan went live is live.
LiveWasIndependent ==
  /\ goLive.status \in {"approved", "in_progress", "live", "rolled_back"} =>
       goLive.approver \notin {Owner, Nobody}
  /\ program = "live" => goLive.status = "live"

-----------------------------------------------------------------------------
(* Stabilisation (modules/stabilityops, application/services.py):          *)
(* endpoints with their performance samples, production incidents,         *)
(* regressions, gates, and the scan over all of them.                      *)
(*                                                                         *)
(* A scan is one transaction that reads table after table, under READ      *)
(* COMMITTED: what it counts of each is of another moment.                 *)

CONSTANTS
  Endpoint, Sample, Incident, Regression, StabilityGate, Scan, Member,
  StabilityCritical,  \* incidents of severity P0 or P1, regressions of severity critical or high
  Slow       \* samples whose duration is over the budget

StabilityAssumption == StabilityCritical \subseteq Incident \cup Regression /\ Slow \subseteq Sample

VARIABLES
  endpoint,    \* endpoints that are monitored
  sample,      \* samples recorded
  incident,    \* Incident -> row
  regression,  \* Regression -> row
  stabilityGate,        \* Gate -> row
  scan         \* Scan -> row

stabilityVars == <<endpoint, sample, incident, regression, stabilityGate, scan>>

IncidentStages ==
  [OPEN |-> {"ACKNOWLEDGED", "MITIGATING", "RESOLVED"}, ACKNOWLEDGED |-> {"MITIGATING", "RESOLVED"},
   MITIGATING |-> {"RESOLVED", "OPEN"}, RESOLVED |-> {"CLOSED", "OPEN"}, CLOSED |-> {"OPEN"}]
RegressionStatus == {"OPEN", "ACCEPTED", "FIXED", "WONT_FIX"}

StabilityInit ==
  /\ endpoint = {} /\ sample = {}
  /\ incident = [i \in Incident |-> Absent] /\ regression = [r \in Regression |-> Absent]
  /\ stabilityGate = [g \in StabilityGate |-> [status |-> "PENDING", by |-> Nobody]] /\ scan = [s \in Scan |-> Absent]

CreateEndpoint(e) ==
  e \notin endpoint /\ endpoint' = endpoint \cup {e} /\ UNCHANGED <<sample, incident, regression, stabilityGate, scan>>

RecordPerformanceSample(s) ==
  s \notin sample /\ sample' = sample \cup {s} /\ UNCHANGED <<endpoint, incident, regression, stabilityGate, scan>>

-----------------------------------------------------------------------------
CreateIncident(i) ==
  /\ ~Has(incident, i)
  /\ incident' = [incident EXCEPT ![i] = [status |-> "OPEN", acknowledged |-> FALSE, resolved |-> FALSE]]
  /\ UNCHANGED <<endpoint, sample, regression, stabilityGate, scan>>

ResolvedAt(was, stage) == stage # "OPEN" /\ (was \/ stage \in {"RESOLVED", "CLOSED"})

TransitionIncident(i) ==
  /\ \E stage \in Offers(IncidentStages, incident, i) :
       incident' = [incident EXCEPT ![i].status = stage,
         ![i].acknowledged = @ \/ stage \in {"ACKNOWLEDGED", "MITIGATING"},
         ![i].resolved = ResolvedAt(@, stage)]
  /\ UNCHANGED <<endpoint, sample, regression, stabilityGate, scan>>

CreateRegression(r) ==
  /\ ~Has(regression, r)
  /\ regression' = [regression EXCEPT ![r] = [status |-> "OPEN", fixed |-> FALSE]]
  /\ UNCHANGED <<endpoint, sample, incident, stabilityGate, scan>>

\* To any status, from any.
TransitionRegression(r) ==
  /\ Has(regression, r)
  /\ \E to \in RegressionStatus : regression' = [regression EXCEPT ![r] = [status |-> to, fixed |-> to = "FIXED"]]
  /\ UNCHANGED <<endpoint, sample, incident, stabilityGate, scan>>

StabilityDecideGate(g, m) ==
  /\ \E to \in GateStatus : stabilityGate' = [stabilityGate EXCEPT ![g] = [status |-> to, by |-> m]]
  /\ UNCHANGED <<endpoint, sample, incident, regression, scan>>

-----------------------------------------------------------------------------
OpenIncidents == {i \in Incident \cap StabilityCritical : Has(incident, i) /\ ~In(incident, i, {"RESOLVED", "CLOSED"})}
OpenRegressions == {r \in Regression \cap StabilityCritical : In(regression, r, {"OPEN"})}

\* The row of the scan, and the checks of telemetry and its budget, which are
\* not critical.
ReadTelemetry(s) ==
  /\ ~Has(scan, s)
  /\ scan' = [scan EXCEPT ![s] = [status |-> "RUNNING", measured |-> sample # {} /\ sample \cap Slow = {}]]
  /\ UNCHANGED <<endpoint, sample, incident, regression, stabilityGate>>

ReadIncidents(s) ==
  /\ In(scan, s, {"RUNNING"}) /\ "clear" \notin DOMAIN scan[s]
  /\ scan' = [scan EXCEPT ![s] = [status |-> "RUNNING", measured |-> @.measured, clear |-> OpenIncidents = {}]]
  /\ UNCHANGED <<endpoint, sample, incident, regression, stabilityGate>>

RunStabilityScan(s) ==
  LET sound == OpenRegressions = {} IN
  /\ In(scan, s, {"RUNNING"}) /\ "clear" \in DOMAIN scan[s]
  /\ scan' = [scan EXCEPT ![s] =
       [status |-> IF ~@.clear \/ ~sound THEN "FAILED" ELSE IF ~@.measured THEN "WARNING" ELSE "PASSED",
        measured |-> @.measured, clear |-> @.clear, sound |-> sound]]
  /\ UNCHANGED <<endpoint, sample, incident, regression, stabilityGate>>

StabilityNext ==
  \/ \E e \in Endpoint : CreateEndpoint(e)
  \/ \E s \in Sample : RecordPerformanceSample(s)
  \/ \E i \in Incident : CreateIncident(i) \/ TransitionIncident(i)
  \/ \E r \in Regression : CreateRegression(r) \/ TransitionRegression(r)
  \/ \E g \in StabilityGate, m \in Member : StabilityDecideGate(g, m)
  \/ \E s \in Scan : ReadTelemetry(s) \/ ReadIncidents(s) \/ RunStabilityScan(s)

StabilitySpec == StabilityInit /\ [][StabilityNext]_stabilityVars

-----------------------------------------------------------------------------
ProductionIncidentRow == [status : Reached(IncidentStages), acknowledged : BOOLEAN, resolved : BOOLEAN]
RegressionRecordRow == [status : RegressionStatus, fixed : BOOLEAN]
StabilizationGateRow == [status : GateStatus, by : Member \cup {Nobody}]
StabilityScanRow ==
  [status : {"RUNNING"}, measured : BOOLEAN] \cup [status : {"RUNNING"}, measured : BOOLEAN, clear : BOOLEAN]
    \cup [status : {"PASSED", "WARNING", "FAILED"}, measured : BOOLEAN, clear : BOOLEAN, sound : BOOLEAN]

StabilityTypeOK ==
  /\ endpoint \subseteq Endpoint /\ sample \subseteq Sample
  /\ incident \in [Incident -> ProductionIncidentRow \cup {Absent}]
  /\ regression \in [Regression -> RegressionRecordRow \cup {Absent}]
  /\ stabilityGate \in [StabilityGate -> StabilizationGateRow] /\ scan \in [Scan -> StabilityScanRow \cup {Absent}]

\* An incident carries a resolution exactly while it is resolved or closed, and
\* an acknowledgement as soon as somebody works on it; a regression is fixed
\* when it says so; no gate is decided by nobody; and no scan passes over
\* samples that were missing or slow.
ScansAreTrue ==
  /\ \A i \in Incident : Has(incident, i) =>
       /\ (incident[i].resolved <=> In(incident, i, {"RESOLVED", "CLOSED"}))
       /\ In(incident, i, {"ACKNOWLEDGED", "MITIGATING"}) => incident[i].acknowledged
  /\ \A r \in Regression : Has(regression, r) => (regression[r].fixed <=> In(regression, r, {"FIXED"}))
  /\ \A g \in StabilityGate : stabilityGate[g].status # "PENDING" => stabilityGate[g].by # Nobody
  /\ \A s \in Scan : In(scan, s, {"PASSED"}) => scan[s].clear /\ scan[s].sound /\ sample # {}
=============================================================================
