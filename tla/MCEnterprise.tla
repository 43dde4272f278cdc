---------------------------- MODULE MCEnterprise ----------------------------
(* Instances of the estate, funding, customer and platform modules for     *)
(* TLC.                                                                    *)
(*                                                                         *)
(* The variable world names the instance that runs; its variables are a,   *)
(* b, c, ..., of which it leaves the rest at Idle.  An instance runs by    *)
(* itself: a module has the steps that write the tables it is about, and   *)
(* its head says what of other modules it takes as given.                  *)
EXTENDS TLC, Integers

CONSTANTS ann, bob

VARIABLES world, a, b, c, d, e, f, g, h, i

vars == <<world, a, b, c, d, e, f, g, h, i>>

People == {ann, bob}
None == [n \in {} |-> 0]
Idle == "idle"


Estate(w) == INSTANCE Estate WITH
       \* Two offers under one opportunity; an offer or a diligence case with a scenario;
       \* two owners who claim more than the whole, with a risk; a mandatory approval.
       ownership <- a, diligence <- b, feasibility <- c, opportunity <- d, parcel <- e, offer <- f,
       approval <- g, risk <- h, landTx <- i, Actor <- People,
       Owner <- IF w = "files" THEN {"w1", "w2"} ELSE {},
       Share <- IF w = "files" THEN [w1 |-> 60, w2 |-> 60] ELSE None,
       Diligence <- IF w = "review" THEN {"d1"} ELSE {},
       Scenario <- IF w \in {"terms", "review"} THEN {"s1"} ELSE {},
       Offer <- IF w = "deal" THEN {"f1", "f2"} ELSE IF w \in {"terms", "papers"} THEN {"f1"} ELSE {},
       Permit <- IF w = "papers" THEN {"p1"} ELSE {}, Risk <- IF w = "files" THEN {"k1"} ELSE {},
       MaxOpen <- IF w \in {"rent", "handover"} THEN 1 ELSE 2,
       \* Two agreements whose terms share a month; invoices and cases by themselves.
       leaseUnit <- a, lease <- b, occupancy <- c, invoice <- d, case <- e, leaseTx <- f,
       Lease <- IF w = "lease" THEN {"l1", "l2"} ELSE {"l1"},
       Period <- IF w = "lease" THEN [l1 |-> {1, 2}, l2 |-> {2, 3}] ELSE [l1 |-> {1}],
       Occupancy <- IF w = "lease" THEN {"o1"} ELSE {}, Invoice <- IF w = "lease" THEN {} ELSE {"n1"},
       Case <- IF w = "lease" THEN {} ELSE {"k1"}, Charged <- 2,
       \* Two bookings; a booking and a reservation; two receipts of different amounts for one
       \* milestone; a commission and a handover.
       salesUnit <- a, reservation <- b, booking <- c, milestone <- d, receipt <- e, commission <- f,
       handover <- g, salesTx <- h, Reservation <- IF w = "reserved" THEN {"r1"} ELSE {},
       Booking <- IF w = "sale" THEN {"b1", "b2"} ELSE {"b1"},
       Milestone <- IF w = "collection" THEN {"m1"} ELSE {},
       Due <- IF w = "collection" THEN [m1 |-> 2] ELSE None,
       Receipt <- IF w = "collection" THEN {"c1", "c2"} ELSE {},
       Amount <- IF w = "collection" THEN [c1 |-> 1, c2 |-> 2] ELSE None, Consideration <- 2,
       Commission <- IF w = "handover" THEN {"k1"} ELSE {}, Handover <- IF w = "handover" THEN {"h1"} ELSE {}

Launch(w) == INSTANCE Launch WITH
       \* What a plan needs before its cutover; then two waves of one plan.
       batch <- a, issue <- b, enrollment <- c, plan <- d, task <- e, wave <- f, hypercare <- g,
       goLiveGate <- h, waveTx <- i, Actor <- People, Batch <- IF w = "rehearsal" THEN {"b1"} ELSE {},
       Issue <- IF w = "rehearsal" THEN {"i1"} ELSE {}, Enrollment <- IF w = "rehearsal" THEN {"e1"} ELSE {},
       Plan <- {"p1"}, Hypercare <- IF w = "rehearsal" THEN {"h1"} ELSE {},
       Task <- IF w = "rehearsal" THEN {} ELSE {"t1"}, Wave <- IF w = "rehearsal" THEN {} ELSE {"w1", "w2"},
       GoLiveGate <- IF w = "rehearsal" THEN {} ELSE {"g1"},
       PlanOf <- IF w = "rehearsal" THEN None ELSE [t1 |-> "p1", w1 |-> "p1", w2 |-> "p1"],
       GoLiveCritical <- IF w = "rehearsal" THEN {} ELSE {"t1"}, Counts <- {0, 1}, MaxOpen <- 2,
       \* A release with two gates that are decided while it is published.
       releaseTarget <- a, release <- b, decided <- c, backup <- d, ready <- e, gateTx <- f,
       Candidate <- {"r1"}, ReleaseGate <- {"g1", "u1"},
       \* A pilot whose owner is assigned the training, the other one the sign-off.
       program <- a, goLive <- b, checklist <- c, domain <- d, training <- e, signoff <- f, pilotTx <- g,
       Owner <- ann, Checklist <- {"c1"}, Domain <- {"d1"}, Training <- {"t1"}, Signoff <- {"s1"},
       AssigneeOf <- [t1 |-> ann, s1 |-> bob],
       \* A scan over an incident and a regression that move meanwhile.
       endpoint <- a, sample <- b, incident <- c, regression <- d, stabilityGate <- e, scan <- f,
       Member <- {ann}, Endpoint <- {"p1"}, Sample <- {"s1", "s2"}, Incident <- {"i1"}, Regression <- {"r1"},
       StabilityGate <- {"g1"}, Scan <- {"n1"}, StabilityCritical <- {"i1", "r1"}, Slow <- {"s2"}

CapitalKind == [
  calls    |-> [n1 |-> "INVESTOR", c1 |-> "COMMITMENT", d1 |-> "DRAWDOWN", d2 |-> "DRAWDOWN"],
  ventures |-> [p1 |-> "PROGRAM", v1 |-> "VENTURE", v2 |-> "VENTURE"],
  debt     |-> [f1 |-> "FACILITY", d3 |-> "DRAWDOWN", t1 |-> "COVENANT"],
  payouts  |-> [x1 |-> "DISTRIBUTION"]]
BoardKind == [s1 |-> "SNAPSHOT", r1 |-> "REPORT", x1 |-> "ACTION", o1 |-> "OBJECTIVE", k1 |-> "KPI", n1 |-> "BENEFIT",
              v1 |-> "OBSERVATION", v2 |-> "OBSERVATION", m1 |-> "MEASUREMENT"]
VendorNext == [registered |-> {"under_review", "retired"}, under_review |-> {"qualified", "rejected"},
               qualified |-> {"suspended", "retired"}, rejected |-> {"under_review", "retired"},
               suspended |-> {"qualified", "retired"}, retired |-> {}]
Funding(w) == INSTANCE Funding WITH
       \* Two capital calls on one commitment; ventures that share a program; a debt
       \* facility with a drawdown and a covenant test; a distribution.
       capitalRow <- a, capTx <- b, CapitalMember <- People, CapitalItem <- DOMAIN CapitalKind[w],
       CapitalKind <- CapitalKind[w],
       SourceOf <- [c1 |-> "n1", d1 |-> "c1", d2 |-> "c1", d3 |-> "f1", t1 |-> "f1"],
       Amount <- [c1 |-> 2, d1 |-> 1, d2 |-> 2, v1 |-> 2, v2 |-> 1, f1 |-> 1, d3 |-> 1], Whole <- 2,
       MaxOpen <- IF w = "calls" THEN 2 ELSE 1,
       \* A budget of two lines and a variation of one project; then two documents of two.
       document <- a, locked <- b, enforced <- c, ledger <- d, approving <- e, Budget <- {"b1"},
       Variation <- {"v1"}, Line <- {"l1", "l2"},
       Amounts <- [b1 |-> [l1 |-> 5, l2 |-> IF w = "budgeted" THEN 0 ELSE 3], v1 |-> [l1 |-> 2, l2 |-> 0]],
       Project <- [b1 |-> "p1", v1 |-> IF w = "budgeted" THEN "p1" ELSE "p2"], Person <- {"x1", "x2"},
       BudgetPeriod <- {"q1", "q2"}, MaxVersion <- IF w = "varied" THEN 3 ELSE 5,
       \* A snapshot that goes back to review, a report, an action and what is measured.
       insightRow <- a, InsightItem <- DOMAIN BoardKind, InsightKind <- BoardKind, InsightMember <- People,
       Of <- [k1 |-> "o1", v1 |-> "k1", v2 |-> "k1", m1 |-> "n1"],
       InsightPeriod <- [v1 |-> 1, v2 |-> 1, m1 |-> 1],
       \* A vendor under the stages that bootstrap_supply_phase6 configures, and one without history.
       vendor <- a, decided <- b, rfq <- c, Vendor <- {"v1", "v2"}, Rfq <- {"q1", "q2"},
       Invited <- [q1 |-> {"v1"}, q2 |-> {"v1", "v2"}], NextOf <- VendorNext, MaxDecisions <- 2

RiskKind == [
  cover  |-> [y1 |-> "PARTY", c1 |-> "COVERAGE", p1 |-> "PREMIUM", k1 |-> "CLAIM"],
  calls2 |-> [y1 |-> "PARTY", g1 |-> "INSTRUMENT", d1 |-> "CALL", d2 |-> "CALL"],
  losses |-> [m1 |-> "PROGRAM", o1 |-> "LOSS"]]
RiskParents == [
  cover  |-> [y1 |-> {}, c1 |-> {"y1"}, p1 |-> {"c1"}, k1 |-> {"c1"}],
  calls2 |-> [y1 |-> {}, g1 |-> {"y1"}, d1 |-> {"g1"}, d2 |-> {"g1"}],
  losses |-> [m1 |-> {}, o1 |-> {"m1"}]]
Assurance(w) == INSTANCE Assurance WITH
       \* A coverage with premium, loss and claim; an instrument with two calls that
       \* together are more than it.
       coverRow <- a, opening <- b, Member <- People, Item <- DOMAIN RiskKind[w], Kind <- RiskKind[w],
       Parents <- RiskParents[w],
       Amount <- IF w = "cover" THEN [p1 |-> 2, k1 |-> 2] ELSE [g1 |-> 2, d1 |-> 1, d2 |-> 2],
       MaxOpen <- IF w \in {"assessments", "reviews"} THEN 2 ELSE 1,
       \* Two controls of one assessment; a review, an exception and a risk.
       assessment <- a, evaluation <- b, campaign <- c, decision <- d, exception <- e, risk <- f, evalTx <- g,
       Assessment <- IF w = "assessments" THEN {"a1"} ELSE {}, Control <- {"c1", "c2"},
       Campaign <- IF w = "assessments" THEN {} ELSE {"k1"}, Access <- {"r1", "r2"},
       Exception <- IF w = "assessments" THEN {} ELSE {"x1"},
       Risk <- IF w = "assessments" THEN {} ELSE {"r1"},
       \* Two jobs that import one code twice, a refused row, and the other records.
       job <- a, dataRow <- b, target <- c, request <- d, policy <- e, exercise <- f,
       Job <- {"j1", "j2", "j3"}, Row <- 1..5, KeyOf <- [j1 |-> "k1", j2 |-> "k2", j3 |-> "k2"],
       RowsOf <- [j1 |-> {1, 2, 3}, j2 |-> {4}, j3 |-> {5}], Invalid <- {3}, Broken <- {5},
       CodeOf <- [x \in 1..5 |-> IF x = 1 THEN "x" ELSE IF x = 3 THEN "z" ELSE "y"], Request <- {"q1"},
       Policy <- {"p1", "p2"}, RecordType <- [p1 |-> "t", p2 |-> "t"], Exercise <- {"e1"}

FacilityKind == [
  upkeep    |-> [a1 |-> "ASSET", p1 |-> "PLAN", o1 |-> "ORDER"],
  condition |-> [a1 |-> "ASSET", r1 |-> "REQUEST", k1 |-> "CLAIM"],
  inspected |-> [a1 |-> "ASSET", i1 |-> "INSPECTION"]]
TwinKind == [
  model  |-> [m1 |-> "MODEL", v1 |-> "REVISION", v2 |-> "REVISION"],
  sensor |-> [s1 |-> "DEVICE", r1 |-> "READING", r2 |-> "READING", t1 |-> "ALERT", t2 |-> "ALERT"],
  clash  |-> [m1 |-> "MODEL", f1 |-> "FEDERATION", c1 |-> "CLASH", u1 |-> "ISSUE", k1 |-> "ASSET"]]
CarbonKind == [
  carbon  |-> [c1 |-> "ACTIVITY", c2 |-> "ACTIVITY", n1 |-> "INVENTORY"],
  reports |-> [t1 |-> "TARGET", e1 |-> "INITIATIVE", s1 |-> "ASSESSMENT", d1 |-> "DISCLOSURE"]]
Facilities(w) == INSTANCE Facilities WITH
       \* An asset with its plan and two orders; with a request and a claim; with an inspection.
       row <- a, today <- b, Member <- People,
       Item <- CASE w \in {"carbon", "reports"} -> DOMAIN CarbonKind[w] [] w \in {"upkeep", "condition", "inspected"} -> DOMAIN FacilityKind[w] [] OTHER -> DOMAIN TwinKind[w],
       Kind <- CASE w \in {"carbon", "reports"} -> CarbonKind[w] [] w \in {"upkeep", "condition", "inspected"} -> FacilityKind[w] [] OTHER -> TwinKind[w],
       AssetOf <- [x \in DOMAIN FacilityKind[w] |-> "a1"], PlanOf <- [o1 |-> {"p1"}],
       Days <- [a1 |-> 0, p1 |-> 1], LastDay <- IF w = "upkeep" THEN 2 ELSE 1,
       \* Two revisions of a model; a sensor with two readings that arrive in any
       \* order; a clash between models, an issue and an asset.
       Of <- [v1 |-> "m1", v2 |-> "m1", r1 |-> "s1", r2 |-> "s1", t1 |-> "r1", t2 |-> "r2", c1 |-> "f1"],
       Models <- [f1 |-> {"m1"}], Day <- [r1 |-> 1, r2 |-> 2],
       Breaching <- IF w = "sensor" THEN {"r2"} ELSE {},
       \* Two activities and an inventory; reports, a target and an initiative.
       summing <- b, Emitted <- [c1 |-> 1, c2 |-> 2], Offset <- [n1 |-> 1], MaxOpen <- 1

SupportKind == [
  tickets  |-> [t1 |-> "TICKET"], changes |-> [c1 |-> "CHANGE", p1 |-> "PROBLEM"],
  articles |-> [k1 |-> "ARTICLE", i1 |-> "IMPROVEMENT"]]
ServiceDesk(w) == INSTANCE ServiceDesk WITH
       \* Two callers respond to one ticket; a change with its problem; an article
       \* and an improvement.
       row <- a, answers <- b, adding <- c, today <- d, Member <- People, Item <- DOMAIN SupportKind[w],
       Kind <- SupportKind[w], ResponseDue <- 1, ResolutionDue <- 2,
       LastDay <- IF w = "tickets" THEN 4 ELSE 1, MaxOpen <- 2,
       \* Two tickets that are counted at once; two payments of one invoice.
       ticket <- a, counting <- b, invoice <- c, payment <- d, plan <- e, snapshot <- f,
       Ticket <- IF w = "desk" THEN {"t1", "t2"} ELSE {}, Invoice <- IF w = "desk" THEN {} ELSE {"i1", "i2"},
       Payment <- IF w = "desk" THEN {} ELSE {"p1", "p2", "p3"},
       Total <- IF w = "desk" THEN None ELSE [i1 |-> 3, i2 |-> 2],
       Paid <- IF w = "desk" THEN None ELSE [p1 |-> 1, p2 |-> 2, p3 |-> 2],
       InvoiceOf <- IF w = "desk" THEN None ELSE [p1 |-> "i1", p2 |-> "i1", p3 |-> "i1"], Plan <- {"n1"},
       Day <- {1},
       \* Two notifications over two external channels, the settings changing once.
       rule <- a, muted <- b, configured <- c, notification <- d, noticeSent <- e, now <- f, changes <- g,
       rollbacks <- h, Notification <- {"n1", "n2"}, External <- {"email"}, MaxChanges <- 1,
       MaxRollbacks <- 1,
       \* Two requests with one key, of two metrics whose figures change; then one run and
       \* its downloads while time goes on.
       metric <- a, report <- b, run <- c, answer <- d, figure <- e, during <- f, moment <- g,
       Metric <- {"m1", "m2"}, Report <- IF w = "reported" THEN {} ELSE {"r1"},
       Run <- IF w = "reported" THEN {"x1", "x2"} ELSE {"x1"},
       Key <- IF w = "reported" THEN [x1 |-> "k1", x2 |-> "k1"] ELSE [x1 |-> "k1"], MaxFigure <- 1,
       MaxMoment <- IF w = "reported" THEN 0 ELSE 1, MaxDownloads <- IF w = "reported" THEN 0 ELSE 2

CloudKind == [
  rollout |-> [e1 |-> "ENVIRONMENT", r1 |-> "RELEASE", c1 |-> "CHECK", t1 |-> "TARGET", p1 |-> "PIPELINE",
               d1 |-> "DEPLOYMENT"],
  flags   |-> [e1 |-> "ENVIRONMENT", f1 |-> "FLAG", m1 |-> "WINDOW", n1 |-> "INCIDENT", h1 |-> "SNAPSHOT",
               o1 |-> "OBJECTIVE", b1 |-> "RUNBOOK"],
  restore |-> [e1 |-> "ENVIRONMENT", t1 |-> "TARGET", y1 |-> "BACKUP_POLICY", k1 |-> "BACKUP",
               x1 |-> "RESTORE", s1 |-> "SECRET"]]
CloudOf == [r1 |-> "e1", c1 |-> "r1", t1 |-> "e1", p1 |-> "t1", d1 |-> "p1", m1 |-> "e1", n1 |-> "e1",
            h1 |-> "e1", y1 |-> "t1", k1 |-> "y1", x1 |-> "t1", s1 |-> "t1"]
Operations(w) == INSTANCE Operations WITH
       \* A release, its check and its deployment to production; a governed flag, a
       \* window and an incident; a restored backup and a secret.
       row <- a, moving <- b, deploying <- c, Member <- People, Item <- DOMAIN CloudKind[w],
       Kind <- CloudKind[w], Of <- CloudOf, Governed <- {"f1", "n1"}, Production <- {"e1"},
       ReleaseFor <- [d1 |-> {"r1"}], BackupFor <- [x1 |-> "k1"],
       \* The life of a tenant with support; two overlapping assignments and a later one.
       today <- a, tenant <- b, company <- c, plan <- d, subscription <- e, request <- f, snapshot <- g,
       Plan <- IF w = "tenant" THEN {} ELSE {"p1"},
       Subscription <- IF w = "tenant" THEN {} ELSE {"s1", "s2", "s3"},
       Request <- IF w = "tenant" THEN {"q1", "q2"} ELSE {}, Operator <- IF w = "tenant" THEN {ann} ELSE {},
       Reviewer <- IF w = "tenant" THEN {bob} ELSE {}, Day <- {1, 2, 3},
       PlanOf <- [x \in IF w = "tenant" THEN {} ELSE {"s1", "s2", "s3"} |-> "p1"],
       Starts <- IF w = "tenant" THEN None ELSE [s1 |-> 1, s2 |-> 1, s3 |-> 2],
       Lasts <- IF w = "tenant" THEN [q1 |-> 1, q2 |-> 2] ELSE None,
       \* One company's settings saved and tested by two while letters go; then two
       \* companies and a person who may be a member of each.
       profile <- a, test <- b, letter <- c, passed <- d, working <- e, labelled <- f, members <- g,
       changes <- h, Company <- IF w = "mailed" THEN {"c1"} ELSE {"c1", "c2"},
       Settings <- IF w = "mailed" THEN {"s1", "s2"} ELSE {"s1"},
       Admin <- IF w = "mailed" THEN {"x1", "x2"} ELSE {"x1"}, Letter <- {"l1"},
       Host <- [l1 |-> IF w = "mailed" THEN "c1" ELSE "platform"],
       MaxVersion <- IF w = "mailed" THEN 3 ELSE 2, MaxChanges <- IF w = "mailed" THEN 0 ELSE 1

Units == [kind : {"DEPARTMENT", "DESIGNATION", "CALENDAR", "LEAVE_TYPE"}, code : {"u1"}]
SiteEntries == {"e1", "e2", "e3", "e4", "w1", "l1", "m1", "d1", "q1", "t1", "i1", "n1", "s1", "b1"}
Staff(w) == INSTANCE Staff WITH
       \* Three leave requests of one employee, two of which overlap; payroll and a sheet.
       peopleRequest <- a, asking <- b, taken <- c, sheet <- d, run <- e, contract <- f, Employee <- People,
       Request <- CASE w \in {"import"} -> {"r1"} [] w \in {"leave", "payroll"} -> (IF w = "leave" THEN {"r1", "r2", "r3"} ELSE {}) [] OTHER -> {},
       Owner <- IF w = "leave" THEN [r1 |-> ann, r2 |-> ann, r3 |-> ann] ELSE [s1 |-> ann],
       Span <- [r1 |-> {1}, r2 |-> {1, 2}, r3 |-> {3}], PeopleAutomatic <- IF w = "leave" THEN {"r3"} ELSE {},
       Entitled <- [x \in People |-> 2], Sheet <- IF w = "leave" THEN {} ELSE {"s1"}, Hours <- [s1 |-> 8],
       Run <- IF w = "leave" THEN {} ELSE {"n1", "n2"}, Gross <- [x \in People |-> IF x = ann THEN 2 ELSE 3],
       MaxOpen <- IF w \in {"opened"} THEN 1 ELSE 2,
       \* Three changes in the structure of two employees; an import with a leave
       \* request and attendance; units of every kind.
       unit <- a, profile <- b, line <- c, changing <- d, orgRequest <- e, attendance <- f, invited <- g,
       job <- h, OrgMember <- IF w = "import" THEN People ELSE {},
       Unit <- CASE w = "units" -> Units [] w = "import" -> {u \in Units : u.kind # "DESIGNATION"} [] OTHER -> {},
       Line <- IF w = "lines" THEN {"n1", "n2", "n3"} ELSE {}, Day <- IF w = "lines" THEN {1, 2} ELSE {1},
       OrgAutomatic <- {}, Job <- IF w = "import" THEN {"j1"} ELSE {},
       Rows <- {[person |-> ann, known |-> TRUE], [person |-> bob, known |-> FALSE]},
       \* One day that is recorded by a replay, by a call with its operation and by one without;
       \* then stages that two add while a day is recorded; then a record of every other kind.
       record <- a, operation <- b, initial <- c, everInitial <- d, meter <- e, tx <- f,
       SiteMember <- IF w = "opened" THEN {"x1"} ELSE People,
       Entry <- CASE w = "attended" -> {"e1", "e2", "e3", "w1"} [] w = "sited" -> {"e4", "w1"}
                  [] OTHER -> {"w1", "l1", "m1", "d1", "q1", "t1", "i1", "n1", "s1", "b1"},
       Kind <- [e1 |-> "attendance", e2 |-> "attendance", e3 |-> "attendance", e4 |-> "attendance", w1 |-> "worker",
                i1 |-> "inspection", n1 |-> "ncr", q1 |-> "maintenance", l1 |-> "allocation", m1 |-> "machine",
                d1 |-> "machineAllocation", t1 |-> "template", s1 |-> "incident", b1 |-> "observation"],
       Parents <- [e1 |-> {"w1"}, e2 |-> {"w1"}, e3 |-> {"w1"}, e4 |-> {"w1"}, w1 |-> {}, l1 |-> {"w1"},
                   m1 |-> {}, d1 |-> {"m1"}, q1 |-> {"m1"}, t1 |-> {}, i1 |-> {"t1"}, n1 |-> {"i1"}, s1 |-> {}, b1 |-> {}],
       Key <- [n \in SiteEntries |-> IF n = "e2" THEN "k2" ELSE "k1"],
       Operation <- [n \in SiteEntries |-> CASE n \in {"e1", "e2"} -> "o1" [] n = "i1" -> "o2" [] n = "s1" -> "o3" [] OTHER -> "none"],
       NoOperation <- "none", Offline <- IF w = "attended" THEN {"e1"} ELSE {},
       NewStage <- IF w # "sited" THEN {} ELSE {"signed", "checked"},
       Rank <- [draft |-> 2, signed |-> 1, checked |-> 3], MaxMeter <- IF w = "opened" THEN 1 ELSE 0,
       MaxVersion <- IF w = "sited" THEN 6 ELSE 3

Partners(w) == INSTANCE Partners WITH
       \* Two invitations of one user to a project, or to the company; what is shared under two grants.
       portalToday <- a, member <- b, invitation <- c, portalGrant <- d, share <- e, queued <- f,
       User <- {bob}, PortalDay <- {1, 2}, PortalGrant <- {"g1", "g2"},
       Invitation <- IF w = "invited" THEN {"i1", "i2"} ELSE {"i1"},
       Share <- IF w = "invited" THEN {} ELSE {"s1", "s2"},
       Scope <- IF w = "invited" THEN {"tower", "company"} ELSE {"tower"},
       CompanyWide <- IF w = "invited" THEN {"company"} ELSE {},
       To <- [x \in IF w = "invited" THEN {"i1", "i2"} ELSE {"i1"} |-> bob],
       On <- [x \in IF w = "invited" THEN {"i1", "i2"} ELSE {"i1"} |-> "tower"],
       Allows <- [x \in IF w = "invited" THEN {"i1", "i2"} ELSE {"i1"} |-> {"view"}],
       Lasts <- [x \in IF w = "invited" THEN {"i1", "i2"} ELSE {"i1"} |-> 1], Entity <- {"plan"},
       EntityOf <- [x \in IF w = "invited" THEN {} ELSE {"s1", "s2"} |-> "plan"], Needs <- [plan |-> "view"],
       Within <- [plan |-> {"tower"}],
       \* Two contacts of one partner and one of another; what they may do, and when.
       collabToday <- a, partner <- b, role <- c, contact <- d, collabGrant <- e, collabItem <- f,
       submission <- g, collabDecision <- h, message <- i,
       Partner <- IF w = "answers" THEN {"p1", "p2"} ELSE {"p1"},
       Contact <- IF w = "answers" THEN {"c1", "c2", "c3"} ELSE {"c1", "c2"},
       CollabGrant <- IF w = "answers" THEN {"g1"} ELSE {"g1", "g2"}, CollabItem <- {"i1"},
       Submission <- IF w = "answers" THEN {"s1", "s2"} ELSE {"s1"},
       Decision <- IF w = "answers" THEN {} ELSE {"n1", "n2"},
       Message <- IF w = "answers" THEN {"m1"} ELSE {}, CollabDay <- IF w = "answers" THEN {1, 2} ELSE {1},
       OrgOf <- IF w = "answers" THEN [c1 |-> "p1", c2 |-> "p1", c3 |-> "p2", i1 |-> "p1"]
                ELSE [c1 |-> "p1", c2 |-> "p1", i1 |-> "p1"],
       Assigned <- [i1 |-> "nobody"], Approver <- {"c2"},
       GrantFor <- IF w = "answers"
                   THEN [g1 |-> [contact |-> "c1", items |-> {"i1"}, scopes |-> {"SUBMIT", "MESSAGE"}, days |-> {1}]]
                   ELSE [g1 |-> [contact |-> "c1", items |-> {"i1"}, scopes |-> {"SUBMIT"}, days |-> {1}],
                         g2 |-> [contact |-> "c2", items |-> {"i1"}, scopes |-> {"APPROVE"}, days |-> {1}]],
       OfItem <- IF w = "answers" THEN [s1 |-> "i1", s2 |-> "i1", m1 |-> "i1"] ELSE [s1 |-> "i1"],
       Closing <- {"APPROVED", "REJECTED", "ACKNOWLEDGED"},
       \* Two requests with one key, an extraction, and an action that is proposed, while the
       \* policy changes; then two scans of two metrics.
       policy <- a, asking <- b, answer <- c, given <- d, assistantAction <- e, metric <- f, signal <- g,
       scan <- h, assistantToday <- i, Person <- IF w = "questions" THEN {"p1", "p2"} ELSE {},
       Request <- IF w = "questions" THEN {"q1", "q2", "q3"} ELSE {},
       By <- IF w = "questions" THEN [q1 |-> "p1", q2 |-> "p2", q3 |-> "p2"] ELSE None,
       Key <- IF w = "questions" THEN [q1 |-> "k", q2 |-> "k", q3 |-> "k"] ELSE None,
       Extraction <- IF w = "questions" THEN {"q3"} ELSE {}, Reviewed <- {1},
       Action <- IF w = "questions" THEN {"x1"} ELSE {},
       OfAnswer <- IF w = "questions" THEN [x1 |-> "q1"] ELSE None,
       Metric <- IF w = "questions" THEN {} ELSE {"m1", "m2"},
       Slot <- IF w = "questions" THEN {} ELSE {"s1", "s2", "s3"},
       MetricOf <- IF w = "questions" THEN None ELSE [s1 |-> "m1", s2 |-> "m1", s3 |-> "m2"],
       MaxPolicy <- IF w = "questions" THEN 2 ELSE 1, MaxReviews <- 1, MaxDecisions <- 2,
       LastDay <- IF w = "questions" THEN 3 ELSE 1,
       \* A progress and a note written offline; an item that is moved by two while notices are read.
       myWorkItem <- a, assigned <- b, moving <- c, draft <- d, uploads <- e, discards <- f, recorded <- g,
       notice <- h, MyWorkItem <- {"i1"}, Draft <- IF w = "drafts" THEN {"d1"} ELSE {},
       About <- IF w = "drafts" THEN [d1 |-> "i1"] ELSE None,
       Kind <- IF w = "drafts" THEN [d1 |-> "PROGRESS"] ELSE None, Stamp <- {1, 2},
       MaxVersion <- IF w = "drafts" THEN 2 ELSE 3, MaxUploads <- 2, OuterLocks <- TRUE

AccessControl(w) == INSTANCE AccessControl WITH
       \* Two switches of one feature and a member; then two invitations of one person.
       override <- a, accessRole <- b, retired <- c, accessMember <- d, invitation <- e, primary <- f,
       company <- g, replacing <- i, swaps <- h, Person <- People, AccessFeature <- {"crm", "field"}, AccessArea <- {"crm"},
       Override <- IF w = "switches" THEN {"o1", "o2"} ELSE {"o1"},
       Changes <- IF w = "switches" THEN [o1 |-> [feature |-> "crm", on |-> FALSE], o2 |-> [feature |-> "field", on |-> FALSE]]
                  ELSE [o1 |-> [feature |-> "crm", on |-> FALSE]],
       Invitation <- IF w = "switches" THEN {"i1"} ELSE {"i1", "i2"},
       For <- IF w = "switches" THEN [i1 |-> bob] ELSE [i1 |-> bob, i2 |-> bob], AccessMaxVersion <- 3,
       MaxSwaps <- IF w = "switches" THEN 1 ELSE 3,
       \* A caller sets two members' levels of one area; then two callers one member's, and an
       \* area of two features that go on and off.
       levelEnabled <- a, levelRole <- b, levelMember <- c, call <- d, overtaken <- e, LevelArea <- {"crm"},
       LevelFeature <- IF w = "levelled" THEN {"core"} ELSE {"core", "ads"},
       LevelCode <- {"read", "edit", "lead", "tenant"},
       Of <- [read |-> "crm", edit |-> "crm", lead |-> "crm", tenant |-> "SHARED"],
       Opens <- [read |-> "core", edit |-> "core", lead |-> IF w = "levelled" THEN "core" ELSE "ads", tenant |-> "SHARED"],
       Kind <- [read |-> "READ", edit |-> "EDIT", lead |-> IF w = "levelled" THEN "RISK" ELSE "READ", tenant |-> "READ"],
       Level <- IF w = "levelled" THEN {"NONE", "VIEW", "EDIT", "FULL"} ELSE {"NONE", "FULL"},
       Member <- IF w = "levelled" THEN {"n1", "n2"} ELSE {"n1"}, LevelCaller <- IF w = "levelled" THEN {"x1"} ELSE {"x1", "x2"},
       LevelMaxVersion <- 2,
       \* Two domains made primary by two at once; then a brand of two slots.
       domain <- a, crowning <- b, crowned <- c, profile <- d, scan <- e, attaching <- f, domainEnabled <- g,
       Subdomain <- {"d1"}, DomainCustom <- IF w = "hosted" THEN {"d2"} ELSE {}, Admin <- {"x1", "x2"},
       Slot <- IF w = "hosted" THEN {} ELSE {"logo", "favicon"},
       File <- IF w = "hosted" THEN {} ELSE {"f1", "f2"},
       Purpose <- IF w = "hosted" THEN None ELSE [f1 |-> "logo", f2 |-> "favicon"],
       DomainMaxVersion <- IF w = "hosted" THEN 3 ELSE 2,
       \* Two callers draft, publish and bootstrap three versions of two contents.
       configVersion <- a, drafting <- b, fits <- c, first <- d, ConfigCaller <- {"x1", "x2"},
       Payload <- {"p1", "p2"}, Moment <- {1}, MaxVersions <- 2

Filled == [crm |-> {1}, setup |-> {TRUE}, plan |-> {[nodes |-> 1, baseline |-> 1]},
           tasks |-> {[count |-> 2, completed |-> 2, cancelled |-> 0, overdue |-> 0, progress |-> 100, late |-> FALSE],
                      [count |-> 2, completed |-> 1, cancelled |-> 1, overdue |-> 1, progress |-> 100, late |-> TRUE]},
           supply |-> 0..4, design |-> {[documents |-> 0, approved |-> 0, issues |-> 0, issued |-> 0], [documents |-> 4, approved |-> 4, issues |-> 1, issued |-> 1]},
           estimation |-> {[estimates |-> 1, baselines |-> 0], [estimates |-> 1, baselines |-> 1]}, portal |-> {1},
           finance |-> {[invoices |-> 1, outstanding |-> 0], [invoices |-> 1, outstanding |-> 5]},
           handover |-> {[assets |-> 2, verified |-> 1], [assets |-> 2, verified |-> 2]}, quality |-> {0, 2}, safety |-> {1}]
First == [n \in DOMAIN Filled |-> IF n = "supply" THEN Filled[n] ELSE {CHOOSE x \in Filled[n] : TRUE}]
DesignNext == [draft |-> {"review"}, review |-> {"issued", "draft"}, issued |-> {"old"}, old |-> {}]
EstimateNext == [draft |-> {"approved"}, approved |-> {}]
ProjectWork(w) == INSTANCE ProjectWork WITH
       \* Three requests for one opportunity, which may be reopened when it was won or where
       \* won is final; then the baselines of a project with two tasks.
       opportunity <- a, handing <- b, project <- c, wbs <- d, task <- e, history <- f, baselining <- g,
       projectBaseline <- h, Request <- IF w = "baselines" THEN {"r1"} ELSE {"r1", "r2", "r3"},
       Mode <- IF w = "baselines" THEN [r1 |-> "preconstruction"]
               ELSE [r1 |-> "preconstruction", r2 |-> "award", r3 |-> "award"],
       OutcomeMoves <- {<<"open", "won">>, <<"open", "lost">>}
                         \cup IF w = "handoff" THEN {<<"won", "open">>, <<"lost", "open">>} ELSE {},
       Node <- IF w = "baselines" THEN {"n1"} ELSE {}, Task <- IF w = "baselines" THEN {"t1", "t2"} ELSE {},
       WbsOf <- IF w = "baselines" THEN [t1 |-> "n1", t2 |-> "n1"] ELSE None, MaxVersion <- 3,
       MaxBaselines <- IF w = "baselines" THEN 2 ELSE 1,
       \* One project whose sections have something or nothing, seen by four kinds of viewer;
       \* then the flow of procurement, asked for twice while it goes on.
       \* A section for which only its first rows matter.
       data <- a, viewer <- b, flow <- c, Values <- IF w = "viewers" THEN Filled ELSE First,
       MaxAsked <- IF w = "viewers" THEN 0 ELSE 2,
       Viewers <- {{}, {"portal", "supply", "quality"}, {"design", "estimation", "finance", "safety"},
                   {"supply", "design", "estimation", "portal", "finance", "handover", "quality", "safety"}},
       Lifecycle <- <<"CRM", "PRECONSTRUCTION", "DESIGN", "ESTIMATION", "CLIENT_APPROVAL", "PLANNING", "PROCUREMENT", "EXECUTION", "BILLING", "HANDOVER">>,
       \* Two versions of a document, issued in either order while one is transmitted.
       document <- a, designVersion <- b, review <- c, issue <- d, transmittal <- e, now <- f,
       Document <- {"d1"}, DesignVersion <- {"v1", "v2"}, Review <- {"r1"}, Issue <- {"i1"},
       Transmittal <- {"t1"}, Member <- {ann}, DocumentOf <- [v1 |-> "d1", v2 |-> "d1"],
       VersionOf <- [r1 |-> "v1"], Carries <- [t1 |-> {"v1"}], DesignStage <- DOMAIN DesignNext,
       DesignNextOf <- DesignNext,
       OutcomeOf <- [draft |-> "OPEN", review |-> "REVIEW", issued |-> "ISSUED", old |-> "SUPERSEDED"],
       \* Two versions of an estimate, the second a copy of the first, and a late section.
       estimate <- a, estimateVersion <- b, estimateBaseline <- c, adding <- d, EstimateVersion <- {1, 2},
       Section <- {"s1", "s2"}, Item <- {"i1", "i2"}, EstimateSectionOf <- [i1 |-> "s1", i2 |-> "s2"],
       Amount <- [i1 |-> 1, i2 |-> 2], EstimateStage <- {"draft", "approved"}, EstimateNextOf <- EstimateNext,
       Baselining <- {"approved"},
       \* Two files; the store may hold another content than was declared, or a malicious one.
       fileVersion <- a, object <- b, stored <- c, reading <- d, given <- e, FileVersion <- {"v1", "v2"},
       Content <- {"plan", "other", "worm"}, Declared <- [v1 |-> "plan", v2 |-> "worm"], Malicious <- {"worm"}

LeadStages == [new |-> {"qualified", "disqualified"}, qualified |-> {"converted", "disqualified"}, converted |-> {}, disqualified |-> {}]
DealStages == [qualification |-> {"proposal", "lost"}, proposal |-> {"won", "lost"}, won |-> {}, lost |-> {}]
LeadRules == <<[trigger |-> "stage_changed", of |-> "lead", bumps |-> 2, stop |-> FALSE], [trigger |-> "stage_changed", of |-> "lead", bumps |-> 1, stop |-> TRUE],
               [trigger |-> "created", of |-> "opportunity", bumps |-> 1, stop |-> FALSE], [trigger |-> "stage_changed", of |-> "lead", bumps |-> 0, stop |-> FALSE]>>
Somebody == "nobody"
Customers(w) == INSTANCE Customers WITH
       \* The stages that ensure_foundation configures, shortened: two leads of one contact;
       \* then one lead whose changes set off rules that write it again.
       contact <- a, crmLead <- b, crmOpportunity <- c, history <- d, snapshot <- e, converting <- f,
       execution <- g, CrmLead <- IF w = "enquiries" THEN {"l1", "l2"} ELSE {"l1"},
       Rules <- IF w = "enquiries" THEN <<>> ELSE LeadRules, LeadNext <- LeadStages,
       OpportunityNext <- DealStages, CrmMaxVersion <- 8,
       \* Two admins make a pipeline and stages while a lead is made and moved; then they
       \* apply packs that share a field; then they make two pipelines, each a default.
       pipeline <- a, crmSetupStage <- b, setting <- c, crmSetupLead <- d, profile <- e, field <- f,
       applying <- g, adopting <- h, Admin <- {"x1", "x2"}, Makes <- IF w = "pipelines" THEN [x1 |-> {"PIPELINE"}, x2 |-> {"STAGE"}] ELSE [x1 |-> {"PIPELINE", "STAGE"}, x2 |-> {"PIPELINE"}],
       Pipeline <- CASE w = "pipelines" -> {"p1", "p2"} [] w = "packs" -> {"p1"} [] OTHER -> {"p1", "p2", "p3"},
       Stage <- IF w = "pipelines" THEN {"s1", "s2", "s3"} ELSE {},
       CodeOf <- IF w = "pipelines" THEN [s1 |-> "new", s2 |-> "qualified", s3 |-> "qualified"] ELSE None,
       Leads <- [new |-> {"qualified"}, qualified |-> {}],
       CrmSetupLead <- IF w = "pipelines" THEN {"l1"} ELSE {},
       Pack <- IF w = "packs" THEN {"construction", "interior"} ELSE {},
       Fields <- IF w = "packs" THEN [construction |-> {"budget", "site"}, interior |-> {"budget", "area"}] ELSE None,
       FieldCode <- IF w = "packs" THEN {"budget", "site", "area"} ELSE {},
       CrmSetupMaxVersion <- IF w = "packs" THEN 4 ELSE 1,
       \* A person with two leads, an opportunity and activities about each; then people
       \* whose leads and activities two members share; then one activity that is changed.
       relationLead <- a, relationOpportunity <- b, activity <- c, now <- d,
       Person <- IF w = "mine" THEN {"p1", "p2"} ELSE {"p1"},
       CustomerOf <- IF w = "mine" THEN [p1 |-> "c1", p2 |-> Somebody] ELSE [p1 |-> Somebody],
       RelationLead <- IF w = "relations" THEN {"l1"} ELSE IF w = "mine" THEN {"l1", "l2"} ELSE {},
       Opportunity <- IF w = "relations" THEN {"o1"} ELSE {},
       Of <- CASE w = "relations" -> [l1 |-> "p1", o1 |-> "p1"] [] w = "mine" -> [l1 |-> "p1", l2 |-> "p2"] [] OTHER -> None,
       Value <- IF w = "relations" THEN [o1 |-> 5] ELSE None,
       Member <- IF w = "mine" THEN {"m1", "m2"} ELSE {"m1"}, Customer <- IF w = "mine" THEN {"c1"} ELSE {},
       About <- CASE w = "relations" -> {[contact |-> "p1", lead |-> Somebody, opportunity |-> Somebody],
                                         [contact |-> Somebody, lead |-> "l1", opportunity |-> Somebody],
                                         [contact |-> Somebody, lead |-> Somebody, opportunity |-> "o1"]}
                  [] w = "mine" -> {[contact |-> Somebody, lead |-> "l1", opportunity |-> Somebody]}
                  [] OTHER -> {[contact |-> "p1", lead |-> Somebody, opportunity |-> Somebody]},
       Times <- CASE w = "logged" -> {999} [] OTHER -> {0, 999}, Day <- 1, LastHour <- 1,
       Kinds <- CASE w = "logged" -> {{}, {"automation"}} [] w = "mine" -> {{"communication"}, {}} [] OTHER -> {{}},
       MaxActivities <- IF w = "relations" THEN 2 ELSE 1, RelationMaxVersion <- IF w = "logged" THEN 5 ELSE 1,
       Limit <- IF w = "relations" THEN 2 ELSE 1,
       Viewers <- IF w = "relations" THEN {{"activities", "customers"}, {"opportunities", "activities"}} ELSE {}

Connections(w) == INSTANCE Connections WITH
       \* Two callers create and publish packs; start runs of two connectors with one key;
       \* deliver to one webhook while it changes, beside a client of the API.
       pack <- a, integrationConnector <- b, mapping <- c, run <- d, client <- e, webhook <- f,
       delivered <- g, tx <- h, Pack <- IF w = "localized" THEN {"k1", "k2", "k3"} ELSE {},
       PackVersion <- 1..3, Connector <- IF w = "synchronised" THEN {"n1", "n2"} ELSE {},
       Local <- IF w = "synchronised" THEN {"n2"} ELSE {},
       Mapping <- IF w = "synchronised" THEN {"g1"} ELSE {},
       On <- IF w = "synchronised" THEN [g1 |-> "n1"] ELSE None,
       Key <- IF w = "synchronised" THEN {"q1"} ELSE {},
       IntegrationRun <- IF w = "synchronised" THEN {"r1", "r2"} ELSE {},
       Client <- IF w = "hooked" THEN {"t1"} ELSE {}, Webhook <- IF w = "hooked" THEN {"h1"} ELSE {},
       Caller <- {"x1", "x2"},
       IntegrationMaxVersion <- CASE w = "hooked" -> 3 [] w = "synchronised" -> 1 [] OTHER -> 2,
       MaxSecrets <- 2,
       \* Two receipts of one person are processed at the same time; then one worker
       \* processes them again and again, for a contact that was there before.
       metaConnector <- a, receipt <- b, queue <- c, worker <- d, contact <- e, call <- f, runs <- g,
       Receipt <- {"r1", "r2"}, PersonOf <- [r1 |-> "p1", r2 |-> "p1"],
       SourceOf <- [r1 |-> "META_ADS", r2 |-> "FACEBOOK"], Contact <- {"c1", "c2"},
       Known <- IF w = "racing" THEN [c1 |-> "nobody", c2 |-> "nobody"] ELSE [c1 |-> "p1", c2 |-> "nobody"],
       Worker <- IF w = "racing" THEN {"w1", "w2"} ELSE {"w1"}, MaxRuns <- IF w = "racing" THEN 2 ELSE 3,
       \* A request refreshes the advice on a lead while it and an activity change; then a
       \* policy that lets a refresh consider fewer activities than the check does; then
       \* what the advice is, whatever the lead and its activities are.
       lead <- a, activity <- b, today <- c, access <- d, interaction <- e, insight <- f, refreshing <- g,
       Session <- CASE w = "advised" -> {"s1", "s2"} [] w = "capped" -> {"s1"} [] OTHER -> {},
       Stages <- IF w = "hours" THEN {"open", "ready", "converted", "disqualified"} ELSE {"open"},
       Outcomes <- IF w = "hours" THEN {"none", "follow_up_required", "bounced"} ELSE {"bounced"},
       Due <- IF w = "hours" THEN {0, 1, 2} ELSE {0, 1},
       Plans <- IF w = "capped" THEN {{"summary"}, {}} ELSE {},
       MaxActivities <- IF w = "advised" THEN 1 ELSE 2, LeadMaxVersion <- IF w = "capped" THEN 1 ELSE 2,
       LastDay <- 2, Cold <- 1, MaxRecords <- IF w = "capped" THEN 1 ELSE 2, DefaultRecords <- 2,
       MaxWrites <- 2

ASSUME /\ \A w \in {"lease", "rent"} : Estate(w)!LeaseAssumption
       /\ \A w \in {"deal", "terms", "review", "files", "papers"} : Estate(w)!LandAssumption
       /\ \A w \in {"sale", "reserved", "collection", "handover"} : Estate(w)!SalesAssumption
       /\ \A w \in {"rehearsal", "cutover"} : Launch(w)!GoLiveAssumption
       /\ Launch("release")!ReleaseAssumption
       /\ Launch("pilot")!PilotAssumption
       /\ \A w \in {"calls", "ventures", "debt", "payouts"} : Funding(w)!CapitalAssumption
       /\ \A w \in {"assessments", "reviews"} : Assurance(w)!ComplianceAssumption
       /\ \A w \in {"cover", "calls2", "losses"} : Assurance(w)!RiskTransferAssumption
       /\ \A w \in {"upkeep", "condition", "inspected"} : Facilities(w)!FacilityAssumption
       /\ \A w \in {"carbon", "reports"} : Facilities(w)!SustainabilityAssumption
       /\ \A w \in {"tickets", "changes", "articles"} : ServiceDesk(w)!SupportAssumption
       /\ \A w \in {"model", "sensor", "clash"} : Facilities(w)!TwinAssumption
       /\ \A w \in {"desk", "billing"} : ServiceDesk(w)!SuccessDeskAssumption
       /\ \A w \in {"rollout", "flags", "restore"} : Operations(w)!CloudOpsAssumption
       /\ Launch("scan")!StabilityAssumption
       /\ \A w \in {"leave", "payroll"} : Staff(w)!PeopleAssumption
       /\ \A w \in {"lines", "import", "units"} : Staff(w)!OrgAssumption
       /\ \A w \in {"answers", "verdicts"} : Partners(w)!CollabAssumption
       /\ Funding("board")!InsightAssumption
       /\ Assurance("staging")!DataOpsAssumption
       /\ \A w \in {"switches", "invitations"} : AccessControl(w)!AccessAssumption
       /\ \A w \in {"tenant", "plans"} : Operations(w)!TenancyAssumption
       /\ ProjectWork("drawings")!DesignAssumption
       /\ ProjectWork("estimate")!EstimationAssumption
       /\ \A w \in {"invited", "shared"} : Partners(w)!PortalAssumption
       /\ ProjectWork("uploads")!FilesAssumption
       /\ ServiceDesk("notices")!NoticesAssumption
       /\ Funding("vendors")!VendorsAssumption
       /\ \A w \in {"drafts", "moves"} : Partners(w)!MyWorkAssumption
       /\ \A w \in {"enquiries", "automated"} : Customers(w)!CrmAssumption
       /\ \A w \in {"handoff", "awarded", "baselines"} : ProjectWork(w)!ProjectsAssumption
       /\ \A w \in {"viewers", "flows"} : ProjectWork(w)!Project360Assumption
       /\ \A w \in {"advised", "capped", "hours"} : Connections(w)!LeadIntelligenceAssumption
       /\ \A w \in {"questions", "riskscans"} : Partners(w)!AssistantAssumption
       /\ \A w \in {"pipelines", "packs", "defaults"} : Customers(w)!CrmSetupAssumption
       /\ \A w \in {"relations", "mine", "logged"} : Customers(w)!CrmRelationsAssumption
       /\ \A w \in {"racing", "retried"} : Connections(w)!MetaLeadsAssumption
       /\ \A w \in {"localized", "synchronised", "hooked"} : Connections(w)!IntegrationAssumption
       /\ \A w \in {"budgeted", "varied"} : Funding(w)!BudgetsAssumption
       /\ \A w \in {"mailed", "posted"} : Operations(w)!TenantMailAssumption
       /\ \A w \in {"hosted", "dressed"} : AccessControl(w)!DomainsAssumption
       /\ \A w \in {"reported", "exported"} : ServiceDesk(w)!ReportingAssumption
       /\ AccessControl("configured")!ConfigurationAssumption
       /\ \A w \in {"levelled", "shifted"} : AccessControl(w)!ManagedAccessAssumption
       /\ \A w \in {"attended", "sited", "opened"} : Staff(w)!SiteLogAssumption

-----------------------------------------------------------------------------
IdleFrom2 == b = Idle /\ c = Idle /\ d = Idle /\ e = Idle /\ f = Idle /\ g = Idle /\ h = Idle /\ i = Idle
IdleFrom3 == c = Idle /\ d = Idle /\ e = Idle /\ f = Idle /\ g = Idle /\ h = Idle /\ i = Idle
IdleFrom4 == d = Idle /\ e = Idle /\ f = Idle /\ g = Idle /\ h = Idle /\ i = Idle
IdleFrom5 == e = Idle /\ f = Idle /\ g = Idle /\ h = Idle /\ i = Idle
IdleFrom6 == f = Idle /\ g = Idle /\ h = Idle /\ i = Idle
IdleFrom7 == g = Idle /\ h = Idle /\ i = Idle
IdleFrom8 == h = Idle /\ i = Idle
IdleFrom9 == i = Idle

Init ==
  \/ \E w \in {"lease", "rent"} : world = w /\ Estate(w)!LeaseInit /\ IdleFrom7
  \/ \E w \in {"deal", "terms", "review", "files", "papers"} : world = w /\ Estate(w)!LandInit
  \/ \E w \in {"sale", "reserved", "collection", "handover"} : world = w /\ Estate(w)!SalesInit /\ IdleFrom9
  \/ \E w \in {"rehearsal", "cutover"} : world = w /\ Launch(w)!GoLiveInit
  \/ world = "release" /\ Launch("release")!ReleaseInit /\ IdleFrom7
  \/ world = "pilot" /\ Launch("pilot")!PilotInit /\ IdleFrom8
  \/ \E w \in {"calls", "ventures", "debt", "payouts"} : world = w /\ Funding(w)!CapitalInit /\ IdleFrom3
  \/ \E w \in {"assessments", "reviews"} : world = w /\ Assurance(w)!ComplianceInit /\ IdleFrom8
  \/ \E w \in {"cover", "calls2", "losses"} : world = w /\ Assurance(w)!CoverInit /\ IdleFrom3
  \/ \E w \in {"upkeep", "condition", "inspected"} : world = w /\ Facilities(w)!FacilityInit /\ IdleFrom3
  \/ \E w \in {"carbon", "reports"} : world = w /\ Facilities(w)!CarbonInit /\ IdleFrom3
  \/ \E w \in {"tickets", "changes", "articles"} : world = w /\ ServiceDesk(w)!SupportInit /\ IdleFrom5
  \/ \E w \in {"model", "sensor", "clash"} : world = w /\ Facilities(w)!TwinInit /\ IdleFrom2
  \/ \E w \in {"desk", "billing"} : world = w /\ ServiceDesk(w)!DeskInit /\ IdleFrom7
  \/ \E w \in {"rollout", "flags", "restore"} : world = w /\ Operations(w)!CloudInit /\ IdleFrom4
  \/ world = "scan" /\ Launch("scan")!StabilityInit /\ IdleFrom7
  \/ \E w \in {"leave", "payroll"} : world = w /\ Staff(w)!PeopleInit /\ IdleFrom7
  \/ \E w \in {"lines", "import", "units"} : world = w /\ Staff(w)!OrgInit /\ IdleFrom9
  \/ \E w \in {"answers", "verdicts"} : world = w /\ Partners(w)!CollabInit
  \/ world = "board" /\ Funding("board")!InsightInit /\ IdleFrom2
  \/ world = "staging" /\ Assurance("staging")!DataInit /\ IdleFrom7
  \/ \E w \in {"switches", "invitations"} : world = w /\ AccessControl(w)!AccessInit
  \/ \E w \in {"tenant", "plans"} : world = w /\ Operations(w)!TenancyInit /\ IdleFrom8
  \/ world = "drawings" /\ ProjectWork("drawings")!DesignInit /\ IdleFrom7
  \/ world = "estimate" /\ ProjectWork("estimate")!EstimateInit /\ IdleFrom5
  \/ \E w \in {"invited", "shared"} : world = w /\ Partners(w)!PortalInit /\ IdleFrom7
  \/ world = "uploads" /\ ProjectWork("uploads")!FileInit /\ IdleFrom6
  \/ world = "notices" /\ ServiceDesk("notices")!NoticeInit /\ IdleFrom9
  \/ world = "vendors" /\ Funding("vendors")!VendorInit /\ IdleFrom4
  \/ \E w \in {"drafts", "moves"} : world = w /\ Partners(w)!MyWorkInit /\ IdleFrom9
  \/ \E w \in {"enquiries", "automated"} : world = w /\ Customers(w)!CrmInit /\ IdleFrom8
  \/ \E w \in {"handoff", "awarded", "baselines"} : world = w /\ ProjectWork(w)!ProjectInit /\ IdleFrom9
  \/ \E w \in {"viewers", "flows"} : world = w /\ ProjectWork(w)!OverviewInit /\ IdleFrom4
  \/ \E w \in {"advised", "capped", "hours"} : world = w /\ Connections(w)!LeadInit /\ IdleFrom8
  \/ \E w \in {"questions", "riskscans"} : world = w /\ Partners(w)!AssistantInit
  \/ \E w \in {"pipelines", "packs", "defaults"} : world = w /\ Customers(w)!CrmSetupInit /\ IdleFrom9
  \/ \E w \in {"relations", "mine", "logged"} : world = w /\ Customers(w)!RelationInit /\ IdleFrom5
  \/ \E w \in {"racing", "retried"} : world = w /\ Connections(w)!MetaInit /\ IdleFrom8
  \/ \E w \in {"localized", "synchronised", "hooked"} : world = w /\ Connections(w)!IntegrationInit /\ IdleFrom9
  \/ \E w \in {"budgeted", "varied"} : world = w /\ Funding(w)!BudgetInit /\ IdleFrom6
  \/ \E w \in {"mailed", "posted"} : world = w /\ Operations(w)!MailInit /\ IdleFrom9
  \/ \E w \in {"hosted", "dressed"} : world = w /\ AccessControl(w)!DomainInit /\ IdleFrom8
  \/ \E w \in {"reported", "exported"} : world = w /\ ServiceDesk(w)!ReportInit /\ IdleFrom8
  \/ world = "configured" /\ AccessControl("configured")!ConfigInit /\ IdleFrom5
  \/ \E w \in {"levelled", "shifted"} : world = w /\ AccessControl(w)!LevelInit /\ IdleFrom6
  \/ \E w \in {"attended", "sited", "opened"} : world = w /\ Staff(w)!SiteInit /\ IdleFrom7

Next ==
  /\ UNCHANGED world
  /\ \/ \E w \in {"lease", "rent"} : world = w /\ Estate(w)!LeaseNext /\ UNCHANGED <<g, h, i>>
     \/ \E w \in {"deal", "terms", "review", "files", "papers"} : world = w /\ Estate(w)!LandNext
     \/ \E w \in {"sale", "reserved", "collection", "handover"} : world = w /\ Estate(w)!SalesNext /\ UNCHANGED <<i>>
     \/ \E w \in {"rehearsal", "cutover"} : world = w /\ Launch(w)!GoLiveNext
     \/ world = "release" /\ Launch("release")!ReleaseNext /\ UNCHANGED <<g, h, i>>
     \/ world = "pilot" /\ Launch("pilot")!PilotNext /\ UNCHANGED <<h, i>>
     \/ \E w \in {"calls", "ventures", "debt", "payouts"} : world = w /\ Funding(w)!CapitalNext /\ UNCHANGED <<c, d, e, f, g, h, i>>
     \/ \E w \in {"assessments", "reviews"} : world = w /\ Assurance(w)!ComplianceNext /\ UNCHANGED <<h, i>>
     \/ \E w \in {"cover", "calls2", "losses"} : world = w /\ Assurance(w)!CoverNext /\ UNCHANGED <<c, d, e, f, g, h, i>>
     \/ \E w \in {"upkeep", "condition", "inspected"} : world = w /\ Facilities(w)!FacilityNext /\ UNCHANGED <<c, d, e, f, g, h, i>>
     \/ \E w \in {"carbon", "reports"} : world = w /\ Facilities(w)!CarbonNext /\ UNCHANGED <<c, d, e, f, g, h, i>>
     \/ \E w \in {"tickets", "changes", "articles"} : world = w /\ ServiceDesk(w)!SupportNext /\ UNCHANGED <<e, f, g, h, i>>
     \/ \E w \in {"model", "sensor", "clash"} : world = w /\ Facilities(w)!TwinNext /\ UNCHANGED <<b, c, d, e, f, g, h, i>>
     \/ \E w \in {"desk", "billing"} : world = w /\ ServiceDesk(w)!DeskNext /\ UNCHANGED <<g, h, i>>
     \/ \E w \in {"rollout", "flags", "restore"} : world = w /\ Operations(w)!CloudNext /\ UNCHANGED <<d, e, f, g, h, i>>
     \/ world = "scan" /\ Launch("scan")!StabilityNext /\ UNCHANGED <<g, h, i>>
     \/ \E w \in {"leave", "payroll"} : world = w /\ Staff(w)!PeopleNext /\ UNCHANGED <<g, h, i>>
     \/ \E w \in {"lines", "import", "units"} : world = w /\ Staff(w)!OrgNext /\ UNCHANGED <<i>>
     \/ \E w \in {"answers", "verdicts"} : world = w /\ Partners(w)!CollabNext
     \/ world = "board" /\ Funding("board")!InsightNext /\ UNCHANGED <<b, c, d, e, f, g, h, i>>
     \/ world = "staging" /\ Assurance("staging")!DataNext /\ UNCHANGED <<g, h, i>>
     \/ \E w \in {"switches", "invitations"} : world = w /\ AccessControl(w)!AccessNext
     \/ \E w \in {"tenant", "plans"} : world = w /\ Operations(w)!TenancyNext /\ UNCHANGED <<h, i>>
     \/ world = "drawings" /\ ProjectWork("drawings")!DesignNext /\ UNCHANGED <<g, h, i>>
     \/ world = "estimate" /\ ProjectWork("estimate")!EstimateNext /\ UNCHANGED <<e, f, g, h, i>>
     \/ \E w \in {"invited", "shared"} : world = w /\ Partners(w)!PortalNext /\ UNCHANGED <<g, h, i>>
     \/ world = "uploads" /\ ProjectWork("uploads")!FileNext /\ UNCHANGED <<f, g, h, i>>
     \/ world = "notices" /\ ServiceDesk("notices")!NoticeNext /\ UNCHANGED <<i>>
     \/ world = "vendors" /\ Funding("vendors")!VendorNext /\ UNCHANGED <<d, e, f, g, h, i>>
     \/ \E w \in {"drafts", "moves"} : world = w /\ Partners(w)!MyWorkNext /\ UNCHANGED <<i>>
     \/ \E w \in {"enquiries", "automated"} : world = w /\ Customers(w)!CrmNext /\ UNCHANGED <<h, i>>
     \/ \E w \in {"handoff", "awarded", "baselines"} : world = w /\ ProjectWork(w)!ProjectNext /\ UNCHANGED <<i>>
     \/ \E w \in {"viewers", "flows"} : world = w /\ ProjectWork(w)!OverviewNext /\ UNCHANGED <<d, e, f, g, h, i>>
     \/ \E w \in {"advised", "capped", "hours"} : world = w /\ Connections(w)!LeadNext /\ UNCHANGED <<h, i>>
     \/ \E w \in {"questions", "riskscans"} : world = w /\ Partners(w)!AssistantNext
     \/ \E w \in {"pipelines", "packs", "defaults"} : world = w /\ Customers(w)!CrmSetupNext /\ UNCHANGED <<i>>
     \/ \E w \in {"relations", "mine", "logged"} : world = w /\ Customers(w)!RelationNext /\ UNCHANGED <<e, f, g, h, i>>
     \/ \E w \in {"racing", "retried"} : world = w /\ Connections(w)!MetaNext /\ UNCHANGED <<h, i>>
     \/ \E w \in {"localized", "synchronised", "hooked"} : world = w /\ Connections(w)!IntegrationNext /\ UNCHANGED <<i>>
     \/ \E w \in {"budgeted", "varied"} : world = w /\ Funding(w)!BudgetNext /\ UNCHANGED <<f, g, h, i>>
     \/ \E w \in {"mailed", "posted"} : world = w /\ Operations(w)!MailNext /\ UNCHANGED <<i>>
     \/ \E w \in {"hosted", "dressed"} : world = w /\ AccessControl(w)!DomainNext /\ UNCHANGED <<h, i>>
     \/ \E w \in {"reported", "exported"} : world = w /\ ServiceDesk(w)!ReportNext /\ UNCHANGED <<h, i>>
     \/ world = "configured" /\ AccessControl("configured")!ConfigNext /\ UNCHANGED <<e, f, g, h, i>>
     \/ \E w \in {"levelled", "shifted"} : world = w /\ AccessControl(w)!LevelNext /\ UNCHANGED <<f, g, h, i>>
     \/ \E w \in {"attended", "sited", "opened"} : world = w /\ Staff(w)!SiteNext /\ UNCHANGED <<g, h, i>>

Spec == Init /\ [][Next]_vars

-----------------------------------------------------------------------------
\* What may be there once is there once, however two callers race: a month of a
\* unit is let once, a lead is converted once, an opportunity becomes one project,
\* a request with a key has one run, a type of record one policy, a company one
\* primary domain, a letter goes once (the fallback may repeat it).  Each conjunct
\* is a property of the module of its instance.
OnlyOnce ==
  /\ \A w \in {"lease", "rent"} : world = w => Estate(w)!NoDoubleLetting
  /\ \A w \in {"enquiries", "automated"} : world = w => Customers(w)!ConvertedOnce
  /\ \A w \in {"handoff", "awarded", "baselines"} : world = w => ProjectWork(w)!OneProjectPerOpportunity
  /\ \A w \in {"questions", "riskscans"} : world = w => Partners(w)!OneSignalAlive
  /\ \A w \in {"pipelines", "packs", "defaults"} : world = w => Customers(w)!LeadsKeepTheirPipeline
  /\ \A w \in {"relations", "mine", "logged"} : world = w => Customers(w)!CompletionsAreToldOnce
  /\ \A w \in {"racing", "retried"} : world = w => Connections(w)!LeadsAreAnswered
  /\ \A w \in {"racing", "retried"} : world = w => Connections(w)!CallsAreAttempts
  /\ \A w \in {"localized", "synchronised", "hooked"} : world = w => Connections(w)!OneDefaultPack
  /\ \A w \in {"localized", "synchronised", "hooked"} : world = w => Connections(w)!RunsAreUnique
  /\ \A w \in {"mailed", "posted"} : world = w => Operations(w)!LettersArrive
  /\ \A w \in {"hosted", "dressed"} : world = w => AccessControl(w)!OnePrimaryDomain
  /\ \A w \in {"reported", "exported"} : world = w => ServiceDesk(w)!RunsAreAnswered
  /\ world = "drawings" => ProjectWork("drawings")!OneIssueInUse
  /\ world = "staging" => Assurance("staging")!OnePolicyInForce
  /\ \A w \in {"drafts", "moves"} : world = w => Partners(w)!RecordedByUpload
  /\ \A w \in {"attended", "sited", "opened"} : world = w => Staff(w)!SiteRecordsAreSingle
  /\ \A w \in {"tenant", "plans"} : world = w => Operations(w)!TenantsAreServed

\* What a record says of itself is backed by records of other tables that did
\* come about: an acquired parcel by one accepted, feasible offer, an asset's last
\* service by a closed order, a twin's revision by a published one, a stage by its
\* history, a line of the structure by the one before it, a first response by a
\* responder.
RecordsAreBacked ==
  /\ \A w \in {"deal", "terms", "review", "files", "papers"} : world = w => Estate(w)!AcquisitionIsBacked
  /\ \A w \in {"upkeep", "condition", "inspected"} : world = w => Facilities(w)!AssetIsTraced
  /\ \A w \in {"model", "sensor", "clash"} : world = w => Facilities(w)!TwinIsTraced
  /\ world = "vendors" => Funding("vendors")!VendorsWereQualified
  /\ \A w \in {"lines", "import", "units"} : world = w => Staff(w)!NobodyFallsOut
  /\ \A w \in {"enquiries", "automated"} : world = w => Customers(w)!HistoryIsAPath
  /\ \A w \in {"handoff", "awarded", "baselines"} : world = w => ProjectWork(w)!VersionsAreTold
  /\ \A w \in {"tickets", "changes", "articles"} : world = w => ServiceDesk(w)!LevelsAreTold
  /\ world = "scan" => Launch("scan")!ScansAreTrue
  /\ \A w \in {"attended", "sited", "opened"} : world = w => Staff(w)!SiteRecordsAreRooted

\* Money and entitlements are used once: what was collected leads to approved
\* bookings and overpays no milestone, an invoice shows what its payments leave,
\* leave taken is leave approved, and the ledger has each approved line once.
MoneyIsTraced ==
  /\ \A w \in {"sale", "reserved", "collection", "handover"} : world = w => Estate(w)!CollectionsAreTraced
  /\ \A w \in {"desk", "billing"} : world = w => ServiceDesk(w)!InvoicesBalance
  /\ \A w \in {"leave", "payroll"} : world = w => Staff(w)!LeaveIsAccounted
  /\ \A w \in {"budgeted", "varied"} : world = w => Funding(w)!ApprovalsAreBooked

\* What is live, published, deployed, covered, booked or in force was approved by
\* somebody else than its maker, or passed its test, on evidence that stands.
StartedWasApproved ==
  /\ \A w \in {"rehearsal", "cutover"} : world = w => Launch(w)!WhatIsLiveWasApproved
  /\ world = "release" => Launch("release")!PublishedWasReady
  /\ world = "pilot" => Launch("pilot")!LiveWasIndependent
  /\ \A w \in {"cover", "calls2", "losses"} : world = w => Assurance(w)!CoverStands
  /\ \A w \in {"carbon", "reports"} : world = w => Facilities(w)!PublishedWasReviewed
  /\ \A w \in {"rollout", "flags", "restore"} : world = w => Operations(w)!DeployedWasApproved
  /\ world = "board" => Funding("board")!BoardReadsApproved
  /\ \A w \in {"questions", "riskscans"} : world = w => Partners(w)!TwoStandBehind
  /\ \A w \in {"budgeted", "varied"} : world = w => Funding(w)!TwoApproved
  /\ \A w \in {"mailed", "posted"} : world = w => Operations(w)!ActiveWasTested

\* Figures kept on a row, and answers computed from several rows, agree with the
\* rows behind them and with each other, although these are read one after the
\* other while they change: funded amounts, import counts, a baseline's total,
\* progress, advice, lists and workspaces, levels and roles.
FiguresAgree ==
  /\ \A w \in {"calls", "ventures", "debt", "payouts"} : world = w => Funding(w)!FundingAgrees
  /\ world = "staging" => Assurance("staging")!ImportsAddUp
  /\ world = "estimate" => ProjectWork("estimate")!BaselineIsFrozen
  /\ world = "notices" => ServiceDesk("notices")!DeliveriesAreTold
  /\ \A w \in {"viewers", "flows"} : world = w => ProjectWork(w)!ViewsAreTrue
  /\ \A w \in {"viewers", "flows"} : world = w => ProjectWork(w)!FlowIsInBetween
  /\ \A w \in {"advised", "capped", "hours"} : world = w => Connections(w)!AdviceIsGrounded
  /\ \A w \in {"advised", "capped", "hours"} : world = w => Connections(w)!AdviceAgrees
  /\ \A w \in {"pipelines", "packs", "defaults"} : world = w => Customers(w)!PackIsWhole
  /\ \A w \in {"relations", "mine", "logged"} : world = w => Customers(w)!RelationsAgree
  /\ \A w \in {"localized", "synchronised", "hooked"} : world = w => Connections(w)!FailuresWereCounted
  /\ world = "configured" => AccessControl("configured")!ReadersAgree
  /\ \A w \in {"levelled", "shifted"} : world = w => AccessControl(w)!LevelsAreGiven

\* What was sealed stays as it was, and what is closed stays closed: submitted
\* evidence, exports, published versions; what a partner, a portal user, a viewer
\* or a member reaches is what he was granted, in any order of granting, revoking
\* and switching.
SealedAndClosed ==
  /\ \A w \in {"assessments", "reviews"} : world = w => Assurance(w)!EvidenceIsSealed
  /\ \A w \in {"answers", "verdicts"} : world = w => Partners(w)!PartnersStayInside
  /\ \A w \in {"switches", "invitations"} : world = w => AccessControl(w)!RolesFollowFeatures
  /\ \A w \in {"invited", "shared"} : world = w => Partners(w)!SharedIsGranted
  /\ world = "uploads" => ProjectWork("uploads")!HandedOutIsClean
  /\ \A w \in {"viewers", "flows"} : world = w => ProjectWork(w)!ClosedIsUnseen
  /\ \A w \in {"relations", "mine", "logged"} : world = w => Customers(w)!LeadsStayClosed
  /\ \A w \in {"hosted", "dressed"} : world = w => AccessControl(w)!AssetsAreShown
  /\ \A w \in {"reported", "exported"} : world = w => ServiceDesk(w)!ExportsAreSealed
  /\ world = "configured" => AccessControl("configured")!VersionsAreKept
  /\ \A w \in {"levelled", "shifted"} : world = w => AccessControl(w)!NobodyGetsMore

\* The instance of pipelines and stages by itself.
PipelineSpec == world = "pipelines" /\ Customers("pipelines")!CrmSetupInit /\ IdleFrom9 /\ [][Next]_vars

\* A transition takes no lead to a stage of another pipeline than the one its stage is
\* of: it is refused instead.
LeadsStayInPipeline == [][Customers("pipelines")!StaysInPipeline]_vars

=============================================================================
