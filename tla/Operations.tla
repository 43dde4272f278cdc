----------------------------- MODULE Operations -----------------------------
(* Operation of the platform: administration and cloud operations (one     *)
(* specification, CloudSpec: they move rows of one shape), plans with the  *)
(* requests of the platform's operators (TenancySpec), and the mail server *)
(* of a company (MailSpec).                                                *)
EXTENDS MakerChecker, Sequences

-----------------------------------------------------------------------------
(* Operations of the platform (modules/adminops, application/services.py): *)
(* environments, releases with their checks, incidents, feature flags and  *)
(* maintenance windows.                                                    *)
(*                                                                         *)
(* A release is locked while it moves, its checks are not: they may be     *)
(* recorded anew after they were read, so that the reading is one step and *)
(* the move another.                                                       *)

CONSTANTS
  Member, Item,
  Kind,       \* Item -> kind of its row
  Of,         \* the row that a row belongs to
  Governed,   \* flags that require an approval, incidents that require a postmortem
  Production  \* environments of production

AdminUnder ==
  [RELEASE |-> "ENVIRONMENT", CHECK |-> "RELEASE", INCIDENT |-> "ENVIRONMENT", WINDOW |-> "ENVIRONMENT",
   SNAPSHOT |-> "ENVIRONMENT"]

AdminOpsAssumption ==
  \A i \in Item : Kind[i] \in DOMAIN AdminUnder => Kind[Of[i]] = AdminUnder[Kind[i]]

VARIABLES
  row,    \* Item -> row
  moving  \* transitions of releases that have read their checks

ReleaseStages ==
  [DRAFT |-> {"VALIDATED", "FAILED"}, VALIDATED |-> {"APPROVED", "FAILED"}, APPROVED |-> {"DEPLOYED", "FAILED"},
   DEPLOYED |-> {"ROLLED_BACK", "FAILED"}, FAILED |-> {"DRAFT"}]
CheckStatus == {"PENDING", "PASSED", "FAILED", "WAIVED"}
IncidentStages ==
  [IDENTIFIED |-> {"INVESTIGATING"}, INVESTIGATING |-> {"MITIGATED", "RESOLVED"}, MITIGATED |-> {"RESOLVED"},
   RESOLVED |-> {"CLOSED", "INVESTIGATING"}]
WindowStages ==
  [PLANNED |-> {"APPROVED", "CANCELLED"}, APPROVED |-> {"IN_PROGRESS", "CANCELLED"}, IN_PROGRESS |-> {"COMPLETED"}]

AdminInit == row = [i \in Item |-> Absent] /\ moving = {}

-----------------------------------------------------------------------------
\* The insertions, under a row that exists.
Insert(k, i, new) ==
  /\ Kind[i] = k /\ ~Has(row, i)
  /\ i \in DOMAIN Of => Has(row, Of[i])
  /\ row' = [row EXCEPT ![i] = new]
  /\ UNCHANGED moving

CreateEnvironment(i) == Insert("ENVIRONMENT", i, [status |-> "ACTIVE"])
CreateRelease(i, m) == Insert("RELEASE", i, Drafted("DRAFT", m))
CreateServiceObjective(i) == Insert("OBJECTIVE", i, [status |-> "ACTIVE"])
RecordHealthSnapshot(i) == Insert("SNAPSHOT", i, [status |-> "TAKEN"])
CreateIncident(i) == Insert("INCIDENT", i, [status |-> "IDENTIFIED", acknowledged |-> FALSE, postmortem |-> FALSE])
CreateRunbook(i) == Insert("RUNBOOK", i, [status |-> "ACTIVE"])
CreateFeatureFlag(i, m) == Insert("FLAG", i, [status |-> "OFF", by |-> m, approver |-> Nobody])
CreateMaintenanceWindow(i, m) == Insert("WINDOW", i, Drafted("PLANNED", m))

-----------------------------------------------------------------------------
Critical(r) == {c \in Item : Kind[c] = "CHECK" /\ Of[c] = r /\ Has(row, c) /\ row[c].critical}

\* With checks required, as the settings have it by default.
ReleaseReadiness(r) ==
  Critical(r) # {} /\ \A c \in Critical(r) : In(row, c, {"PASSED", "WAIVED"})

\* update_or_create, whatever the stage of the release; no lock of it.
RecordReleaseCheck(c) ==
  /\ Kind[c] = "CHECK" /\ Has(row, Of[c])
  /\ \E result \in CheckStatus, critical \in BOOLEAN :
       row' = [row EXCEPT ![c] = [status |-> result, critical |-> critical]]
  /\ UNCHANGED moving

ReadChecks(r, m) ==
  /\ Unlocked(moving, {r})
  /\ \E stage \in Open(Kind[r] = "RELEASE", row, r, ReleaseStages, {"APPROVED"}, m) :
       /\ stage \in {"VALIDATED", "APPROVED"} => ReleaseReadiness(r)
       /\ moving' = moving \cup {[locks |-> {r}, release |-> r, stage |-> stage,
                             by |-> IF stage = "APPROVED" THEN m ELSE Nobody]}
  /\ UNCHANGED row

TransitionRelease(t) ==
  /\ row' = Judged(row, t.release, t.stage, t.by, {"APPROVED"}, {})
  /\ moving' = moving \ {t}

TransitionIncident(i) ==
  /\ Kind[i] = "INCIDENT"
  /\ \E stage \in Offers(IncidentStages, row, i), postmortem \in BOOLEAN :
       /\ stage = "CLOSED" /\ i \in Governed => postmortem
       /\ row' = [row EXCEPT ![i].status = stage, ![i].acknowledged = @ \/ stage = "INVESTIGATING",
                             ![i].postmortem = IF stage = "CLOSED" THEN postmortem ELSE @]
  /\ UNCHANGED moving

\* Switching off asks nobody and keeps the approver of the last switching on.
UpdateFeatureFlag(i, m) ==
  /\ Kind[i] = "FLAG" /\ Has(row, i)
  /\ \E to \in {"ON", "OFF"} :
       LET judging == i \in Governed /\ to = "ON" IN
       /\ judging => Independent(row, i, m)
       /\ row' = [row EXCEPT ![i].status = to, ![i].approver = IF judging THEN m ELSE @]
  /\ UNCHANGED moving

TransitionMaintenanceWindow(i, m) ==
  /\ \E stage \in Open(Kind[i] = "WINDOW", row, i, WindowStages, {"APPROVED"}, m) :
       row' = Judged(row, i, stage, m, {"APPROVED"}, {})
  /\ UNCHANGED moving

AdminNext ==
  \/ \E i \in Item :
       \/ CreateEnvironment(i) \/ CreateServiceObjective(i) \/ RecordHealthSnapshot(i) \/ CreateIncident(i)
       \/ CreateRunbook(i) \/ RecordReleaseCheck(i) \/ TransitionIncident(i)
  \/ \E i \in Item, m \in Member :
       \/ CreateRelease(i, m) \/ CreateFeatureFlag(i, m) \/ CreateMaintenanceWindow(i, m)
       \/ ReadChecks(i, m) \/ UpdateFeatureFlag(i, m) \/ TransitionMaintenanceWindow(i, m)
  \/ \E t \in moving : TransitionRelease(t)

-----------------------------------------------------------------------------
RuntimeEnvironmentRow == [status : {"ACTIVE"}]
ReleaseRecordRow == Judgeable(ReleaseStages, Member)
ReleaseCheckRow == [status : CheckStatus, critical : BOOLEAN]
ServiceObjectiveRow == [status : {"ACTIVE"}]
HealthSnapshotRow == [status : {"TAKEN"}]
IncidentRow == [status : Reached(IncidentStages), acknowledged : BOOLEAN, postmortem : BOOLEAN]
RunbookRow == [status : {"ACTIVE"}]
FeatureFlagRow == [status : {"ON", "OFF"}, by : Member, approver : Member \cup {Nobody}]
MaintenanceWindowRow == Judgeable(WindowStages, Member)

AdminRowOf(i) ==
  CASE Kind[i] = "RELEASE" -> ReleaseRecordRow [] Kind[i] = "CHECK" -> ReleaseCheckRow
    [] Kind[i] = "INCIDENT" -> IncidentRow [] Kind[i] = "FLAG" -> FeatureFlagRow
    [] Kind[i] = "WINDOW" -> MaintenanceWindowRow [] Kind[i] = "SNAPSHOT" -> HealthSnapshotRow
    [] Kind[i] = "OBJECTIVE" -> ServiceObjectiveRow [] Kind[i] = "RUNBOOK" -> RunbookRow
    [] OTHER -> RuntimeEnvironmentRow

\* What is released, switched on or taken down was agreed to by another than
\* the one who asked, and no governed incident is closed without a postmortem.
AdminWasApproved ==
  \A i \in Item :
    /\ Kind[i] = "RELEASE" /\ In(row, i, {"APPROVED", "DEPLOYED", "ROLLED_BACK"}) => Independently(row, i)
    /\ Kind[i] = "FLAG" /\ In(row, i, {"ON"}) /\ i \in Governed => Independently(row, i)
    /\ Kind[i] = "WINDOW" /\ In(row, i, {"APPROVED", "IN_PROGRESS", "COMPLETED"}) => Independently(row, i)
    /\ Kind[i] = "INCIDENT" /\ In(row, i, {"CLOSED"}) /\ i \in Governed => row[i].postmortem

-----------------------------------------------------------------------------
(* Cloud operations (modules/cloudops, application/services.py) over the   *)
(* releases and environments of adminops: targets, pipelines and their     *)
(* deployments, backups and restore exercises, secrets.                    *)
(*                                                                         *)
(* A deployment locks its own row only (of=("self",)): the target and the  *)
(* release it was judged by may move before it is written.                 *)

CONSTANTS
  ReleaseFor,  \* deployment -> set of at most one release
  BackupFor    \* restore exercise -> backup

CloudUnder ==
  [TARGET |-> "ENVIRONMENT", PIPELINE |-> "TARGET", DEPLOYMENT |-> "PIPELINE", BACKUP_POLICY |-> "TARGET",
   BACKUP |-> "BACKUP_POLICY", RESTORE |-> "TARGET", SECRET |-> "TARGET"]

CloudOpsAssumption ==
  /\ AdminOpsAssumption
  /\ \A i \in Item :
       /\ Kind[i] \in DOMAIN CloudUnder => Kind[Of[i]] = CloudUnder[Kind[i]]
       /\ Kind[i] = "DEPLOYMENT" => \A r \in ReleaseFor[i] : Kind[r] = "RELEASE"
       /\ Kind[i] = "RESTORE" => Kind[BackupFor[i]] = "BACKUP"

VARIABLE deploying  \* transitions of deployments that have judged their readiness

cloudVars == <<row, moving, deploying>>

TargetStages ==
  [DRAFT |-> {"READY", "RETIRED"}, READY |-> {"ACTIVE", "SUSPENDED", "RETIRED"},
   ACTIVE |-> {"SUSPENDED", "RETIRED"}, SUSPENDED |-> {"READY", "RETIRED"}]
DeploymentStages ==
  [REQUESTED |-> {"VALIDATED", "FAILED"}, VALIDATED |-> {"APPROVED", "RUNNING", "FAILED"},
   APPROVED |-> {"RUNNING", "FAILED"}, RUNNING |-> {"SUCCEEDED", "FAILED"}, SUCCEEDED |-> {"ROLLED_BACK"},
   FAILED |-> {"REQUESTED"}]
BackupStatus == {"RUNNING", "SUCCEEDED", "VERIFIED", "FAILED"}
RestoreStages ==
  [PLANNED |-> {"RUNNING"}, RUNNING |-> {"PASSED", "FAILED"}, PASSED |-> {"APPROVED"}, FAILED |-> {"PLANNED"}]

CloudInit == AdminInit /\ deploying = {}

-----------------------------------------------------------------------------
CreateTarget(i) == Insert("TARGET", i, [status |-> "DRAFT", cleared |-> FALSE]) /\ UNCHANGED deploying
CreatePipeline(i) == Insert("PIPELINE", i, [status |-> "ACTIVE"]) /\ UNCHANGED deploying
CreateDeployment(i, m) ==
  /\ Kind[i] = "DEPLOYMENT" /\ \A r \in ReleaseFor[i] : Has(row, r)
  /\ Insert("DEPLOYMENT", i, Drafted("REQUESTED", m)) /\ UNCHANGED deploying
CreateBackupPolicy(i) == Insert("BACKUP_POLICY", i, [status |-> "ACTIVE"]) /\ UNCHANGED deploying
RecordBackupExecution(i) ==
  \E result \in BackupStatus : Insert("BACKUP", i, [status |-> result]) /\ UNCHANGED deploying
CreateRestoreExercise(i, m) ==
  /\ Kind[i] = "RESTORE" /\ In(row, BackupFor[i], {"SUCCEEDED", "VERIFIED"})
  /\ Insert("RESTORE", i, Drafted("PLANNED", m)) /\ UNCHANGED deploying
CreateSecretPolicy(i) == Insert("SECRET", i, [status |-> "DUE"]) /\ UNCHANGED deploying

-----------------------------------------------------------------------------
TargetOf(d) == Of[Of[d]]
InProduction(target) == Of[target] \in Production

TransitionTarget(i) ==
  /\ Kind[i] = "TARGET"
  /\ \E stage \in Offers(TargetStages, row, i), clear \in BOOLEAN :
       LET cleared == row[i].cleared \/ clear IN
       /\ stage = "ACTIVE" /\ InProduction(i) => cleared
       /\ row' = [row EXCEPT ![i] = [status |-> stage, cleared |-> cleared]]
  /\ UNCHANGED <<moving, deploying>>

DeploymentReadiness(d) ==
  /\ In(row, TargetOf(d), {"ACTIVE"})
  /\ \A r \in ReleaseFor[d] : ReleaseReadiness(r)
  /\ InProduction(TargetOf(d)) =>
       /\ row[TargetOf(d)].cleared
       /\ ReleaseFor[d] # {} /\ \A r \in ReleaseFor[d] : In(row, r, {"APPROVED", "DEPLOYED"})

\* Every pipeline of the instances requires an approval, as is the default; an
\* approval once given outlives a failure.
JudgeReadiness(d, m) ==
  /\ Unlocked(deploying, {d})
  /\ \E stage \in Open(Kind[d] = "DEPLOYMENT", row, d, DeploymentStages, {"APPROVED"}, m) :
       /\ stage \in {"VALIDATED", "APPROVED", "RUNNING"} => DeploymentReadiness(d)
       /\ stage = "RUNNING" => row[d].approver # Nobody
       /\ deploying' = deploying \cup {[locks |-> {d}, deployment |-> d, stage |-> stage,
                             by |-> IF stage = "APPROVED" THEN m ELSE Nobody]}
  /\ UNCHANGED <<row, moving>>

TransitionDeployment(t) ==
  /\ row' = Judged(row, t.deployment, t.stage, t.by, {"APPROVED"}, {})
  /\ deploying' = deploying \ {t}
  /\ UNCHANGED moving

TransitionRestoreExercise(i, m) ==
  /\ \E stage \in Open(Kind[i] = "RESTORE", row, i, RestoreStages, {"APPROVED"}, m) :
       row' = Judged(row, i, stage, m, {"APPROVED"}, {})
  /\ UNCHANGED <<moving, deploying>>

RecordSecretRotation(i) ==
  /\ Kind[i] = "SECRET" /\ Has(row, i)
  /\ row' = Moved(row, i, "CURRENT")
  /\ UNCHANGED <<moving, deploying>>

CloudNext ==
  \/ AdminNext /\ UNCHANGED deploying
  \/ \E i \in Item :
       \/ CreateTarget(i) \/ CreatePipeline(i) \/ CreateBackupPolicy(i) \/ RecordBackupExecution(i)
       \/ CreateSecretPolicy(i) \/ TransitionTarget(i) \/ RecordSecretRotation(i)
  \/ \E i \in Item, m \in Member :
       \/ CreateDeployment(i, m) \/ CreateRestoreExercise(i, m)
       \/ JudgeReadiness(i, m) \/ TransitionRestoreExercise(i, m)
  \/ \E t \in deploying : TransitionDeployment(t)

CloudSpec == CloudInit /\ [][CloudNext]_cloudVars

-----------------------------------------------------------------------------
CloudTargetRow == [status : Reached(TargetStages), cleared : BOOLEAN]
DeploymentPipelineRow == [status : {"ACTIVE"}]
DeploymentExecutionRow == Judgeable(DeploymentStages, Member)
BackupPolicyRow == [status : {"ACTIVE"}]
BackupExecutionRow == [status : BackupStatus]
RestoreExerciseRow == Judgeable(RestoreStages, Member)
SecretRotationPolicyRow == [status : {"DUE", "CURRENT"}]

RowOf(i) ==
  CASE Kind[i] = "TARGET" -> CloudTargetRow [] Kind[i] = "PIPELINE" -> DeploymentPipelineRow
    [] Kind[i] = "DEPLOYMENT" -> DeploymentExecutionRow [] Kind[i] = "BACKUP_POLICY" -> BackupPolicyRow
    [] Kind[i] = "BACKUP" -> BackupExecutionRow [] Kind[i] = "RESTORE" -> RestoreExerciseRow
    [] Kind[i] = "SECRET" -> SecretRotationPolicyRow [] OTHER -> AdminRowOf(i)

CloudTypeOK == DOMAIN row = Item /\ \A i \in Item : row[i] \in RowOf(i) \cup {Absent}

\* What ran was agreed to by another than the one who asked, and in production
\* it ran a release that had been approved so, on a target cleared for it -
\* whatever became of release and target meanwhile.  A restore that counts as
\* proof restored a backup that had succeeded.
DeployedWasApproved ==
  /\ AdminWasApproved
  /\ \A i \in Item :
       /\ Kind[i] = "DEPLOYMENT" /\ In(row, i, {"RUNNING", "SUCCEEDED", "ROLLED_BACK"}) =>
            /\ Independently(row, i)
            /\ InProduction(TargetOf(i)) =>
                 /\ row[TargetOf(i)].cleared
                 /\ ReleaseFor[i] # {} /\ \A r \in ReleaseFor[i] : Independently(row, r)
       /\ Kind[i] = "RESTORE" /\ In(row, i, {"APPROVED"}) =>
            Independently(row, i) /\ In(row, BackupFor[i], {"SUCCEEDED", "VERIFIED"})

-----------------------------------------------------------------------------
(* Tenants (modules/controlplane, application/services.py, with            *)
(* modules/subscription): the life of a tenant and whether its company is  *)
(* active, plans and subscriptions, usage, and access for support.         *)
(*                                                                         *)
(* assign_subscription locks what is in force, but not the tenant: an      *)
(* assignment that another one overlaps does not see its subscription.     *)

CONSTANTS
  Plan, Subscription, Request, Operator, Reviewer, Day,
  PlanOf,    \* Subscription -> Plan
  Starts,    \* Subscription -> the day it starts
  Lasts      \* Request -> days it may last

TenancyAssumption ==
  /\ PlanOf \in [Subscription -> Plan] /\ Starts \in [Subscription -> Day] /\ Lasts \in [Request -> Nat \ {0}]
  /\ Day \subseteq Nat

VARIABLES
  today,
  tenant,        \* its lifecycle status
  company,       \* whether it is active, and whether it was closed
  plan,          \* Plan -> row
  subscription,  \* Subscription -> row; read: the subscriptions its assignment found in force
  request,       \* Request -> row
  snapshot       \* days that usage was collected of

tenancyVars == <<today, tenant, company, plan, subscription, request, snapshot>>

LifecycleStages ==
  [PILOT |-> {"ACTIVE", "SUSPENDED", "CLOSED"}, ACTIVE |-> {"GRACE", "SUSPENDED", "CLOSED"},
   GRACE |-> {"ACTIVE", "SUSPENDED", "CLOSED"}, SUSPENDED |-> {"ACTIVE", "CLOSED"}, CLOSED |-> {}]
InService == {"TRIAL", "ACTIVE", "GRACE"}

TenancyInit ==
  /\ today \in Day /\ \A n \in Day : today <= n
  /\ tenant = "PILOT" /\ company = [active |-> TRUE, closed |-> FALSE] /\ plan = [p \in Plan |-> Absent]
  /\ subscription = [s \in Subscription |-> Absent] /\ request = [q \in Request |-> Absent] /\ snapshot = {}

DayPasses ==
  /\ today + 1 \in Day /\ today' = today + 1
  /\ UNCHANGED <<tenant, company, plan, subscription, request, snapshot>>

-----------------------------------------------------------------------------
\* Locks the tenant with its company, and writes both.
TransitionTenantLifecycle ==
  /\ \E stage \in LifecycleStages[tenant] :
       /\ tenant' = stage
       /\ company' = [active |-> stage \in {"ACTIVE", "GRACE"}, closed |-> company.closed \/ stage = "CLOSED"]
  /\ UNCHANGED <<today, plan, subscription, request, snapshot>>

\* set_company_active of accessops, which leaves the tenant as it is.
SetCompanyActive(active) ==
  /\ active => ~company.closed
  /\ company' = [company EXCEPT !.active = active]
  /\ UNCHANGED <<today, tenant, plan, subscription, request, snapshot>>

-----------------------------------------------------------------------------
CreatePlan(p) ==
  /\ ~Has(plan, p) /\ plan' = [plan EXCEPT ![p] = [status |-> "DRAFT"]]
  /\ UNCHANGED <<today, tenant, company, subscription, request, snapshot>>

PublishPlan(p) ==
  /\ In(plan, p, {"DRAFT"}) /\ plan' = Moved(plan, p, "PUBLISHED")
  /\ UNCHANGED <<today, tenant, company, subscription, request, snapshot>>

InForce(table) == {s \in Subscription : In(table, s, InService)}

\* Finds a published plan and the subscriptions in force.
ReadSubscriptions(s) ==
  /\ ~Has(subscription, s) /\ In(plan, PlanOf[s], {"PUBLISHED"})
  /\ subscription' = [subscription EXCEPT ![s] = [status |-> "ASSIGNING", read |-> InForce(subscription), ended |-> 0]]
  /\ UNCHANGED <<today, tenant, company, plan, request, snapshot>>

\* Ends them, those that another assignment ended meanwhile left alone.  One that
\* has not started cannot end before it starts: the constraint refuses it all.
Ending(s) == subscription[s].read \cap InForce(subscription)

AssignSubscription(s) ==
  /\ In(subscription, s, {"ASSIGNING"}) /\ \A x \in Ending(s) : Starts[x] < today
  /\ \E status \in InService :
       subscription' = [x \in Subscription |->
         IF x = s THEN [subscription[s] EXCEPT !.status = status]
         ELSE IF x \in Ending(s) THEN [subscription[x] EXCEPT !.status = "ENDED", !.ended = today] ELSE subscription[x]]
  /\ UNCHANGED <<today, tenant, company, plan, request, snapshot>>

RefuseSubscription(s) ==
  /\ In(subscription, s, {"ASSIGNING"}) /\ \E x \in Ending(s) : Starts[x] >= today
  /\ subscription' = [subscription EXCEPT ![s] = Absent]
  /\ UNCHANGED <<today, tenant, company, plan, request, snapshot>>

\* effective_entitlements: of those that have started, the one that started last.
Served == {s \in InForce(subscription) : Starts[s] <= today}
EffectiveEntitlements == {PlanOf[s] : s \in {x \in Served : \A y \in Served : Starts[y] <= Starts[x]}}

-----------------------------------------------------------------------------
\* The row of a day that was collected before is returned as it is.
CollectUsageSnapshot ==
  /\ snapshot' = snapshot \cup {today}
  /\ UNCHANGED <<today, tenant, company, plan, subscription, request>>

CreateSupportAccessRequest(q, o) ==
  /\ ~Has(request, q)
  /\ request' = [request EXCEPT ![q] = [status |-> "REQUESTED", by |-> o, expires |-> today + Lasts[q]]]
  /\ UNCHANGED <<today, tenant, company, plan, subscription, snapshot>>

\* The status EXPIRED is written and rolled back by the error that follows: an
\* expired request stays as it was.
DecideSupportAccessRequest(q, m) ==
  /\ In(request, q, {"REQUESTED"}) /\ today < request[q].expires
  /\ \E decision \in {"APPROVED", "REJECTED"} :
       /\ decision = "APPROVED" => m # request[q].by
       /\ request' = [request EXCEPT ![q] = [status |-> decision, by |-> @.by, expires |-> @.expires, decider |-> m, on |-> today]]
  /\ UNCHANGED <<today, tenant, company, plan, subscription, snapshot>>

TenancyNext ==
  \/ DayPasses \/ TransitionTenantLifecycle \/ CollectUsageSnapshot
  \/ \E active \in BOOLEAN : SetCompanyActive(active)
  \/ \E p \in Plan : CreatePlan(p) \/ PublishPlan(p)
  \/ \E s \in Subscription : ReadSubscriptions(s) \/ AssignSubscription(s) \/ RefuseSubscription(s)
  \/ \E q \in Request : \/ \E o \in Operator : CreateSupportAccessRequest(q, o)
                        \/ \E m \in Reviewer \cup Operator : DecideSupportAccessRequest(q, m)

TenancySpec == TenancyInit /\ [][TenancyNext]_tenancyVars

-----------------------------------------------------------------------------
CompanySubscriptionRow == [status : {"ASSIGNING", "ENDED"} \cup InService, read : SUBSET Subscription, ended : {0} \cup Day]
SupportAccessRequestRow ==
  [status : {"REQUESTED"}, by : Operator, expires : Nat]
    \cup [status : {"APPROVED", "REJECTED"}, by : Operator, expires : Nat, decider : Operator \cup Reviewer, on : Day]

TenancyTypeOK ==
  /\ today \in Day /\ tenant \in DOMAIN LifecycleStages /\ company \in [active : BOOLEAN, closed : BOOLEAN]
  /\ plan \in [Plan -> [status : {"DRAFT", "PUBLISHED"}] \cup {Absent}] /\ snapshot \subseteq Day
  /\ subscription \in [Subscription -> CompanySubscriptionRow \cup {Absent}]
  /\ request \in [Request -> SupportAccessRequestRow \cup {Absent}]

\* A tenant that was closed stays closed, its company too, whichever of the two
\* services asks; of two subscriptions in force, neither assignment found the
\* other; what serves a company has a published plan; support was let in before
\* its request expired, by another person than the one who asked.
TenantsAreServed ==
  /\ tenant = "CLOSED" => ~company.active /\ company.closed
  /\ \A s, x \in InForce(subscription) : x \notin subscription[s].read
  /\ \A p \in EffectiveEntitlements : In(plan, p, {"PUBLISHED"})
  /\ \A q \in Request : In(request, q, {"APPROVED"}) =>
       request[q].on < request[q].expires /\ request[q].decider # request[q].by

-----------------------------------------------------------------------------
(* A company's own mail server (modules/tenant: application/               *)
(* email_delivery.py, api/email_delivery_views.py) and the letters that    *)
(* invite people or reset a password.                                      *)
(*                                                                         *)
(* An administrator saves the settings and has them tested; a test talks   *)
(* to the server outside any transaction.  A letter goes by the company's  *)
(* server when its settings are active, by the platform's otherwise, and   *)
(* also by the platform's when the company's did not answer.               *)

CONSTANTS
  Company, Settings,
  Admin,
  Letter,
  Host,        \* Letter -> the company whose domain asked for it, or NoCompany
  MaxVersion,  \* bound: version of a profile
  MaxChanges   \* bound: how often servers, subscriptions and memberships change

NoCompany == "platform"
NoSettings == "none"

TenantMailAssumption == Host \in [Letter -> Company \cup {NoCompany}] /\ MaxVersion \in Nat /\ MaxChanges \in Nat

VARIABLES
  profile,   \* Company -> row: mode, settings, verified, version
  test,      \* Admin -> the test under way, or Idle
  letter,    \* Letter -> row: status, company, settings, route, copies handed over
  passed,    \* Company -> settings that passed a test, the latest first
  working,   \* settings whose server answers
  labelled,  \* companies with white label
  members,   \* companies the person who resets a password is active in
  changes

mailVars == <<profile, test, letter, passed, working, labelled, members, changes>>

Idle == [status |-> "IDLE"]

MailInit ==
  /\ profile = [c \in Company |-> [status |-> "DISABLED", mode |-> "PLATFORM", settings |-> NoSettings, verified |-> FALSE, version |-> 1]]
  /\ test = [a \in Admin |-> Idle] /\ letter = [l \in Letter |-> Absent] /\ passed = [c \in Company |-> <<>>]
  /\ working = Settings /\ labelled = Company /\ members \in SUBSET Company /\ changes = 0

\* Saved settings count as untested, whatever they were.
SaveSettings(c, mode, s, version) ==
  /\ c \in labelled /\ profile[c].version = version /\ version < MaxVersion
  /\ profile' = [profile EXCEPT ![c] = [status |-> IF mode = "TENANT_SMTP" THEN "PENDING" ELSE "DISABLED",
                                        mode |-> mode, settings |-> s, verified |-> FALSE, version |-> version + 1]]
  /\ UNCHANGED <<test, letter, passed, working, labelled, members, changes>>

BeginTest(a, c, version) ==
  /\ test[a] = Idle /\ c \in labelled /\ profile[c].version = version
  /\ test' = [test EXCEPT ![a] = [status |-> "OPEN", company |-> c, mode |-> profile[c].mode,
                                  settings |-> profile[c].settings, version |-> version]]
  /\ UNCHANGED <<profile, letter, passed, working, labelled, members, changes>>

\* A server that answers may still be heard too late.
TestCompanySmtp(a) ==
  /\ test[a].status = "OPEN"
  /\ \E r \in {"FAILED"} \cup (IF test[a].mode = "TENANT_SMTP" /\ test[a].settings \in working THEN {"SENT"} ELSE {}) :
       test' = [test EXCEPT ![a].status = r]
  /\ UNCHANGED <<profile, letter, passed, working, labelled, members, changes>>

\* The profile is locked, and the version compared again.
RecordTest(a) ==
  /\ test[a].status \in {"SENT", "FAILED"} /\ test' = [test EXCEPT ![a] = Idle]
  /\ LET t == test[a]  c == t.company  ok == t.status = "SENT" IN
     IF profile[c].version # t.version THEN UNCHANGED <<profile, passed>>
     ELSE /\ profile[c].version < MaxVersion
          /\ profile' = [profile EXCEPT ![c].status = IF ok THEN "ACTIVE" ELSE "FAILED", ![c].verified = ok, ![c].version = t.version + 1]
          /\ passed' = IF ok THEN [passed EXCEPT ![c] = <<t.settings>> \o @] ELSE passed
  /\ UNCHANGED <<letter, working, labelled, members, changes>>

-----------------------------------------------------------------------------
\* The company a reset speaks for: that of the domain, of which the person must
\* be a member, or the only one the person is a member of.
ResetScope(l) ==
  IF Host[l] # NoCompany THEN {Host[l]} ELSE IF Cardinality(members) = 1 THEN members ELSE {}

Refused(l) == Host[l] # NoCompany /\ Host[l] \notin members

ActiveCompanySmtp(c) ==
  c \in labelled /\ profile[c].mode = "TENANT_SMTP" /\ profile[c].status = "ACTIVE" /\ profile[c].verified

\* scope: the company as a set, empty for the platform.
Begin(l, scope) ==
  /\ ~ Has(letter, l)
  /\ LET own == {c \in scope \cap labelled : ActiveCompanySmtp(c)} IN
     letter' = [letter EXCEPT ![l] =
       IF own = {} THEN [status |-> "BY_PLATFORM", company |-> NoCompany, settings |-> NoSettings, route |-> "PLATFORM", copies |-> 0]
       ELSE LET c == CHOOSE x \in own : TRUE IN
            [status |-> "BY_COMPANY", company |-> c, settings |-> profile[c].settings, route |-> "TENANT_SMTP", copies |-> 0]]
  /\ UNCHANGED <<profile, test, passed, working, labelled, members, changes>>

SendInvitation(l, c) == Begin(l, {c})
SendReset(l) == ~ Refused(l) /\ Begin(l, ResetScope(l))

\* What the sender hears may be less than what the server has taken.
SendByCompany(l) ==
  /\ In(letter, l, {"BY_COMPANY"})
  /\ \E taken \in (IF letter[l].settings \in working THEN {TRUE} ELSE {FALSE}), heard \in BOOLEAN :
       /\ heard => taken
       /\ letter' = [letter EXCEPT ![l].status = IF heard THEN "SENT" ELSE "UNHEARD", ![l].copies = IF taken THEN 1 ELSE 0]
  /\ UNCHANGED <<profile, test, passed, working, labelled, members, changes>>

\* The profile fails as it is now, whether or not it is the one that was read;
\* an error of this write is logged and forgotten.
MarkTenantDeliveryFailed(l) ==
  /\ In(letter, l, {"UNHEARD"})
  /\ letter' = [letter EXCEPT ![l].status = "BY_PLATFORM", ![l].route = "PLATFORM_FALLBACK"]
  /\ LET c == letter[l].company IN
     \/ profile' = profile
     \/ /\ profile[c].version < MaxVersion
        /\ profile' = [profile EXCEPT ![c].status = "FAILED", ![c].verified = FALSE, ![c].version = @ + 1]
  /\ UNCHANGED <<test, passed, working, labelled, members, changes>>

SendByPlatform(l) ==
  /\ In(letter, l, {"BY_PLATFORM"})
  /\ \E taken, heard \in BOOLEAN :
       /\ heard => taken
       /\ letter' = [letter EXCEPT ![l].status = IF heard THEN "SENT" ELSE "FAILED", ![l].copies = IF taken THEN @ + 1 ELSE @]
  /\ UNCHANGED <<profile, test, passed, working, labelled, members, changes>>

-----------------------------------------------------------------------------
Flip(set, x) == IF x \in set THEN set \ {x} ELSE set \cup {x}

\* Servers, subscriptions and memberships are changed by others.
Change ==
  /\ changes < MaxChanges /\ changes' = changes + 1
  /\ \/ /\ \E s \in Settings : working' = Flip(working, s)
        /\ UNCHANGED <<labelled, members>>
     \/ /\ \E c \in Company : labelled' = Flip(labelled, c)
        /\ UNCHANGED <<working, members>>
     \/ /\ \E c \in Company : members' = Flip(members, c)
        /\ UNCHANGED <<working, labelled>>
  /\ UNCHANGED <<profile, test, letter, passed>>

MailNext ==
  \/ \E c \in Company, v \in 1..MaxVersion :
       \/ \E mode \in {"PLATFORM", "TENANT_SMTP"}, s \in Settings : SaveSettings(c, mode, s, v)
       \/ \E a \in Admin : BeginTest(a, c, v)
  \/ \E a \in Admin : TestCompanySmtp(a) \/ RecordTest(a)
  \/ \E l \in Letter :
       \/ \E c \in Company : SendInvitation(l, c)
       \/ SendReset(l) \/ SendByCompany(l) \/ MarkTenantDeliveryFailed(l) \/ SendByPlatform(l)
  \/ Change

MailSpec == MailInit /\ [][MailNext]_mailVars

-----------------------------------------------------------------------------
CompanyEmailDeliveryProfileRow ==
  [status : {"DISABLED", "PENDING", "ACTIVE", "FAILED"}, mode : {"PLATFORM", "TENANT_SMTP"}, settings : Settings \cup {NoSettings},
   verified : BOOLEAN, version : 1..MaxVersion]

MailTypeOK ==
  /\ profile \in [Company -> CompanyEmailDeliveryProfileRow]
  /\ \A l \in Letter : Has(letter, l) => letter[l].company \in Company \cup {NoCompany} /\ letter[l].copies \in 0..2
  /\ working \subseteq Settings /\ labelled \subseteq Company /\ members \subseteq Company

\* The settings in force are those of the latest test that passed, and a letter
\* that went by a company's server went with settings that passed a test of that
\* company: also when they were saved, tested and failed by letters in any order.
ActiveWasTested ==
  /\ \A c \in Company : profile[c].status = "ACTIVE" =>
       profile[c].mode = "TENANT_SMTP" /\ passed[c] # <<>> /\ passed[c][1] = profile[c].settings
  /\ \A l \in Letter : Has(letter, l) /\ letter[l].settings # NoSettings =>
       \E n \in DOMAIN passed[letter[l].company] : passed[letter[l].company][n] = letter[l].settings

\* A letter reported sent was handed over, and twice at most, the second time
\* only because the company's server was not heard.
LettersArrive ==
  \A l \in Letter :
    /\ In(letter, l, {"SENT"}) => letter[l].copies \in (IF letter[l].route = "PLATFORM_FALLBACK" THEN {1, 2} ELSE {1})
    /\ Has(letter, l) /\ letter[l].copies = 2 => letter[l].route = "PLATFORM_FALLBACK"
=============================================================================
