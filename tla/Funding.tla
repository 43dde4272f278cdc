------------------------------- MODULE Funding ------------------------------
(* Money planned and shown: capital with its investors, commitments, calls *)
(* and debt (CapitalSpec), project budgets (BudgetSpec), dashboards and    *)
(* their lineage (InsightSpec), and the vendors it goes to (VendorSpec).   *)
EXTENDS MakerChecker, Integers, FiniteSetsExt

-----------------------------------------------------------------------------
(* Funding of projects (modules/capitalops, application/services.py):      *)
(* programs, investors, joint ventures, commitments, debt facilities,      *)
(* drawdowns on a commitment or a facility, covenant tests, distributions. *)
(*                                                                         *)
(* What create_drawdown, create_commitment and create_joint_venture check  *)
(* they read without locks, so that they are two steps.  A transition      *)
(* decides on the row it locks; a disbursement locks the commitment before *)
(* it reads its amounts, so that it is one.                                *)

CONSTANTS
  CapitalMember,
  CapitalItem, CapitalKind,   \* records, and the table each belongs to
  SourceOf,     \* drawdown -> commitment or facility; commitment -> investor or
                \* venture; covenant test -> facility
  Amount,       \* of commitments, facilities and drawdowns; share of ventures
  Whole,        \* 100 (percent) in the code
  MaxOpen       \* bound: creations between their checks and their commit

CapitalKinds == {"PROGRAM", "INVESTOR", "VENTURE", "COMMITMENT", "FACILITY", "DRAWDOWN", "COVENANT",
                 "DISTRIBUTION"}

CapitalAssumption ==
  /\ IsFiniteSet(CapitalItem) /\ CapitalKind \in [CapitalItem -> CapitalKinds] /\ MaxOpen \in Nat /\ Whole \in Nat
  /\ \A i \in DOMAIN Amount : Amount[i] \in Nat \ {0}

VARIABLES
  capitalRow,   \* Item -> row; a commitment has what was called and paid in
  capTx  \* creations between their checks and their commit

capitalVars == <<capitalRow, capTx>>

-----------------------------------------------------------------------------
Draft == [DRAFT |-> {"SUBMITTED", "CANCELLED"}, SUBMITTED |-> {"APPROVED", "REJECTED", "DRAFT"},
          REJECTED |-> {"DRAFT"}]

With(more) == [s \in DOMAIN Draft \cup DOMAIN more |-> IF s \in DOMAIN more THEN more[s] ELSE Draft[s]]

ProgramStages ==
  With([APPROVED |-> {"ACTIVE", "CANCELLED"}, ACTIVE |-> {"SUSPENDED", "CLOSED"},
        SUSPENDED |-> {"ACTIVE", "CLOSED"}])
InvestorStages ==
  [PENDING |-> {"VERIFIED", "REJECTED"}, REJECTED |-> {"PENDING"}, VERIFIED |-> {"SUSPENDED"},
   SUSPENDED |-> {"VERIFIED"}]
VentureStages == With([APPROVED |-> {"ACTIVE", "CANCELLED"}, ACTIVE |-> {"CLOSED"}])
CommitmentStages ==
  With([APPROVED |-> {"ACTIVE", "CANCELLED"}, ACTIVE |-> {"FULLY_FUNDED", "CANCELLED"},
        FULLY_FUNDED |-> {"CLOSED"}])
FacilityStages ==
  With([APPROVED |-> {"ACTIVE", "CANCELLED"}, ACTIVE |-> {"MATURED", "CLOSED", "SUSPENDED"},
        SUSPENDED |-> {"ACTIVE", "CLOSED"}, MATURED |-> {"CLOSED"}])
DrawdownStages == With([APPROVED |-> {"DISBURSED", "CANCELLED"}, DISBURSED |-> {"SETTLED"}])
CovenantStages ==
  [OPEN |-> {"REVIEWED"}, REVIEWED |-> {"CLOSED", "WAIVED", "OPEN"}, WAIVED |-> {"CLOSED"}]
DistributionStages == With([APPROVED |-> {"PAID", "CANCELLED"}, PAID |-> {"CLOSED"}])

Statuses(stages) == DOMAIN stages \cup UNION {stages[s] : s \in DOMAIN stages}

Row(stages) == [status : Statuses(stages), by : CapitalMember, approver : CapitalMember \cup {Nobody}]

ProgramRow == [status : Statuses(ProgramStages), by : CapitalMember, approver : CapitalMember \cup {Nobody},
               funded : BOOLEAN]  \* target_capital is positive
InvestorRow == Row(InvestorStages)
VentureRow == Row(VentureStages)
CommitmentRow == [status : Statuses(CommitmentStages), by : CapitalMember, approver : CapitalMember \cup {Nobody},
                  called : Nat, paid : Nat]
FacilityRow == Row(FacilityStages)
DrawdownRow == Row(DrawdownStages)
CovenantRow == [status : Statuses(CovenantStages), by : CapitalMember, approver : CapitalMember \cup {Nobody},
                compliant : BOOLEAN]
DistributionRow == Row(DistributionStages)

CapitalInit == capitalRow = [i \in CapitalItem |-> Absent] /\ capTx = {}

-----------------------------------------------------------------------------
Created(k, i, new) ==
  /\ CapitalKind[i] = k /\ ~Has(capitalRow, i)
  /\ capitalRow' = [capitalRow EXCEPT ![i] = new]
  /\ UNCHANGED capTx

CreateProgram(i, m) ==
  \E positive \in BOOLEAN :
    Created("PROGRAM", i, [status |-> "DRAFT", by |-> m, approver |-> Nobody, funded |-> positive])
CreateInvestor(i, m) == Created("INVESTOR", i, Drafted("PENDING", m))
CreateDebtFacility(i, m) == Created("FACILITY", i, Drafted("DRAFT", m))
CreateDistribution(i, m) == Created("DISTRIBUTION", i, Drafted("DRAFT", m))
CreateCovenantTest(i, m) ==
  /\ CapitalKind[i] = "COVENANT" /\ Has(capitalRow, SourceOf[i])
  /\ \E compliant \in BOOLEAN :
       Created("COVENANT", i, [status |-> "OPEN", by |-> m, approver |-> Nobody, compliant |-> compliant])

Total(items) == MapThenSumSet(LAMBDA i : Amount[i], items)

CreateJointVenture(i) ==
  /\ CapitalKind[i] = "VENTURE"
  /\ Amount[i] + Total({v \in CapitalItem : CapitalKind[v] = "VENTURE" /\ Has(capitalRow, v)
                          /\ ~In(capitalRow, v, {"CLOSED", "CANCELLED", "REJECTED"})}) <= Whole

CreateCommitment(i) ==
  /\ CapitalKind[i] = "COMMITMENT"
  /\ In(capitalRow, SourceOf[i], IF CapitalKind[SourceOf[i]] = "INVESTOR" THEN {"VERIFIED"} ELSE {"APPROVED", "ACTIVE"})

\* _drawdown_reserved: what is still a draft, or submitted, does not count.
DrawdownReserved(source) ==
  Total({d \in CapitalItem : CapitalKind[d] = "DRAWDOWN" /\ SourceOf[d] = source
                               /\ In(capitalRow, d, {"APPROVED", "DISBURSED", "SETTLED"})})

CreateDrawdown(i) ==
  /\ CapitalKind[i] = "DRAWDOWN" /\ In(capitalRow, SourceOf[i], {"APPROVED", "ACTIVE"})
  /\ Amount[i] + DrawdownReserved(SourceOf[i]) <= Amount[SourceOf[i]]

CheckCreation(i, m) ==
  /\ ~Has(capitalRow, i) /\ Cardinality(capTx) < MaxOpen
  /\ (CreateJointVenture(i) \/ CreateCommitment(i) \/ CreateDrawdown(i))
  /\ capTx' = capTx \cup {[row |-> i, by |-> m]}
  /\ UNCHANGED capitalRow

CommitCreation(t) ==
  /\ ~Has(capitalRow, t.row)
  /\ capitalRow' = [capitalRow EXCEPT ![t.row] =
       IF CapitalKind[t.row] = "COMMITMENT"
       THEN [status |-> "DRAFT", by |-> t.by, approver |-> Nobody, called |-> 0, paid |-> 0]
       ELSE Drafted("DRAFT", t.by)]
  /\ capTx' = capTx \ {t}

RollbackCreation(t) == capTx' = capTx \ {t} /\ UNCHANGED capitalRow

-----------------------------------------------------------------------------
Approved(i, stage, m) ==
  capitalRow' = Judged(capitalRow, i, stage, m, {"APPROVED"}, {"DRAFT", "REJECTED"}) /\ UNCHANGED capTx

TransitionProgram(i, m) ==
  \E stage \in Open(CapitalKind[i] = "PROGRAM", capitalRow, i, ProgramStages, {"APPROVED"}, m) :
    /\ stage = "APPROVED" => capitalRow[i].funded
    /\ Approved(i, stage, m)

TransitionInvestor(i, m) ==
  /\ \E stage \in Open(CapitalKind[i] = "INVESTOR", capitalRow, i, InvestorStages, {"VERIFIED"}, m) :
       capitalRow' = Judged(capitalRow, i, stage, m, {"VERIFIED"}, {"PENDING", "REJECTED"})
  /\ UNCHANGED capTx

TransitionJointVenture(i, m) ==
  \E stage \in Open(CapitalKind[i] = "VENTURE", capitalRow, i, VentureStages, {"APPROVED"}, m) : Approved(i, stage, m)

TransitionCommitment(i, m) ==
  \E stage \in Open(CapitalKind[i] = "COMMITMENT", capitalRow, i, CommitmentStages, {"APPROVED"}, m) :
    /\ stage = "FULLY_FUNDED" => capitalRow[i].paid >= Amount[i]
    /\ Approved(i, stage, m)

TransitionDebtFacility(i, m) ==
  \E stage \in Open(CapitalKind[i] = "FACILITY", capitalRow, i, FacilityStages, {"APPROVED"}, m) : Approved(i, stage, m)

TransitionDistribution(i, m) ==
  \E stage \in Open(CapitalKind[i] = "DISTRIBUTION", capitalRow, i, DistributionStages, {"APPROVED"}, m) : Approved(i, stage, m)

TransitionCovenantTest(i, m) ==
  LET reviewing == {"REVIEWED", "WAIVED", "CLOSED"} IN
  /\ \E stage \in Open(CapitalKind[i] = "COVENANT", capitalRow, i, CovenantStages, reviewing, m) :
       /\ stage = "CLOSED" => capitalRow[i].compliant \/ In(capitalRow, i, {"WAIVED"})
       /\ capitalRow' = Judged(capitalRow, i, stage, m, reviewing, {})
  /\ UNCHANGED capTx

\* Mutant: what comes in is added, the commitment is not looked at.
PaidInUncapped(c, paid, amount) == paid + amount

\* No more is booked on a commitment than was committed.
PaidIn(c, paid, amount) == Min({Amount[c], paid + amount})

\* A disbursement is booked on its commitment, in whatever status that is.
Disbursed(table, d) ==
  LET c == SourceOf[d] paid == PaidIn(c, table[c].paid, Amount[d]) IN
  [table EXCEPT ![c].called = PaidIn(c, @, Amount[d]), ![c].paid = paid,
     ![c].status = IF paid >= Amount[c] /\ @ \in {"APPROVED", "ACTIVE"} THEN "FULLY_FUNDED" ELSE @]

TransitionDrawdown(d, m) ==
  /\ \E stage \in Open(CapitalKind[d] = "DRAWDOWN", capitalRow, d, DrawdownStages, {"APPROVED"}, m) :
       LET after == Judged(capitalRow, d, stage, m, {"APPROVED"}, {"DRAFT", "REJECTED"}) IN
       capitalRow' = IF stage = "DISBURSED" /\ CapitalKind[SourceOf[d]] = "COMMITMENT" THEN Disbursed(after, d) ELSE after
  /\ UNCHANGED capTx

CapitalNext ==
  \/ \E i \in CapitalItem, m \in CapitalMember :
       \/ CreateProgram(i, m) \/ CreateInvestor(i, m) \/ CreateDebtFacility(i, m)
       \/ CreateCovenantTest(i, m) \/ CreateDistribution(i, m) \/ CheckCreation(i, m)
       \/ TransitionProgram(i, m) \/ TransitionInvestor(i, m) \/ TransitionJointVenture(i, m)
       \/ TransitionCommitment(i, m) \/ TransitionDebtFacility(i, m) \/ TransitionDrawdown(i, m)
       \/ TransitionCovenantTest(i, m) \/ TransitionDistribution(i, m)
  \/ \E t \in capTx : CommitCreation(t) \/ RollbackCreation(t)

CapitalSpec == CapitalInit /\ [][CapitalNext]_capitalVars

-----------------------------------------------------------------------------
CapitalRowOf(i) ==
  CASE CapitalKind[i] = "PROGRAM" -> ProgramRow [] CapitalKind[i] = "INVESTOR" -> InvestorRow
    [] CapitalKind[i] = "VENTURE" -> VentureRow [] CapitalKind[i] = "COMMITMENT" -> CommitmentRow
    [] CapitalKind[i] = "FACILITY" -> FacilityRow [] CapitalKind[i] = "DRAWDOWN" -> DrawdownRow
    [] CapitalKind[i] = "COVENANT" -> CovenantRow [] OTHER -> DistributionRow

CapitalTypeOK ==
  /\ DOMAIN capitalRow = CapitalItem /\ \A i \in CapitalItem : capitalRow[i] \in CapitalRowOf(i) \cup {Absent}
  /\ Cardinality(capTx) <= MaxOpen

\* What is booked on a commitment is what its drawdowns disbursed, and never
\* more than was committed although drawdowns together may exceed it; it is
\* fully funded, or closed after that, when all of it came in.
FundingAgrees ==
  \A c \in CapitalItem : CapitalKind[c] = "COMMITMENT" /\ Has(capitalRow, c) =>
    /\ capitalRow[c].paid = Min({Amount[c], Total({d \in CapitalItem :
         CapitalKind[d] = "DRAWDOWN" /\ SourceOf[d] = c /\ In(capitalRow, d, {"DISBURSED", "SETTLED"})})})
    /\ capitalRow[c].called = capitalRow[c].paid
    /\ In(capitalRow, c, {"FULLY_FUNDED", "CLOSED"}) => capitalRow[c].paid = Amount[c]

-----------------------------------------------------------------------------
(* Project budgets and variations of modules/finance: made by one, moved   *)
(* through the stages bootstrap_finance_phase8 makes, and booked into a    *)
(* financial period of the commercial ledger when another approves them.   *)
(*                                                                         *)
(* A transition locks the document and its project (and its stage, which   *)
(* could only keep more calls apart).  The period is read without a lock:  *)
(* an approval is two steps, the checks, and the entries, which commit     *)
(* whether or not the period was locked meanwhile.                         *)

CONSTANTS
  Budget, Variation,
  Line, Amounts,   \* lines, and Budget or Variation -> amounts of its lines
  Project,         \* Budget or Variation -> project
  Person, BudgetPeriod,
  MaxVersion       \* bound: version of a document

Document == Budget \cup Variation

BudgetsAssumption ==
  /\ Budget \cap Variation = {} /\ DOMAIN Project = Document /\ MaxVersion \in Nat
  /\ Amounts \in [Document -> [Line -> Nat]]

VARIABLES
  document,  \* Document -> row: maker, approver, version, and whether the policy
             \* was in force when its approval was checked
  locked,    \* Period -> locked_at is set
  enforced,  \* policy: an approver is someone else
  ledger,    \* entries: source, line, amount, period, and whether that was locked by then
  approving  \* Document -> what its open approval has read, or Idle

budgetVars == <<document, locked, enforced, ledger, approving>>

Idle == [status |-> "IDLE", locks |-> {}]

BudgetInit ==
  /\ document = [d \in Document |-> Absent] /\ locked = [q \in BudgetPeriod |-> FALSE]
  /\ enforced = TRUE /\ ledger = {} /\ approving = [d \in Document |-> Idle]

Stages(d) ==
  [draft |-> {"submitted", "cancelled"}, submitted |-> {"approved", "rejected"},
   approved |-> IF d \in Budget THEN {"closed"} ELSE {}, rejected |-> {"draft", "cancelled"}]

\* The totals of a budget are those of its lines, read once.
Create(d, maker) ==
  /\ ~ Has(document, d)
  /\ document' = [document EXCEPT ![d] = [status |-> "draft", maker |-> maker, approver |-> Nobody, strict |-> FALSE, version |-> 1]]
  /\ UNCHANGED <<locked, enforced, ledger, approving>>

BudgetOpen(d) == Unlocked({approving[e] : e \in Document \ {d}}, {d, Project[d]}) /\ approving[d] = Idle

\* Every transition but an approval is one step.
Transition(d, stage, version) ==
  /\ stage # "approved" /\ stage \in Offers(Stages(d), document, d) /\ BudgetOpen(d)
  /\ document[d].version = version /\ version < MaxVersion
  /\ document' = [document EXCEPT ![d].status = stage, ![d].version = version + 1]
  /\ UNCHANGED <<locked, enforced, ledger, approving>>

\* _assert_checker and _assert_period_open.
CheckApproval(d, x, q, version) ==
  /\ "approved" \in Offers(Stages(d), document, d) /\ BudgetOpen(d) /\ document[d].version = version /\ version < MaxVersion
  /\ enforced => x # document[d].maker
  /\ ~ locked[q]
  /\ approving' = [approving EXCEPT ![d] = [status |-> "CHECKED", locks |-> {d, Project[d]}, by |-> x, period |-> q, enforced |-> enforced]]
  /\ UNCHANGED <<document, locked, enforced, ledger>>

\* A line of a budget without an amount is not booked; a variation always is.
Booked(d) == {l \in Line : d \in Variation \/ Amounts[d][l] > 0}
Entries(d, q) == {[source |-> d, line |-> l, amount |-> Amounts[d][l], period |-> q, late |-> locked[q]] : l \in Booked(d)}
Posted(d) == {e \in ledger : e.source = d}

\* A source fact that has an entry refuses the approval.
Approve(d) ==
  /\ approving[d] # Idle /\ approving' = [approving EXCEPT ![d] = Idle]
  /\ LET t == approving[d] IN
     IF \E e \in Posted(d) : e.line \in Booked(d) THEN UNCHANGED <<document, ledger>>
     ELSE /\ ledger' = ledger \cup Entries(d, t.period)
          /\ document' = [document EXCEPT ![d] = [status |-> "approved", maker |-> document[d].maker, version |-> document[d].version + 1,
                                                  approver |-> t.by, strict |-> t.enforced]]
  /\ UNCHANGED <<locked, enforced>>

LockPeriod(q) ==
  /\ ~ locked[q] /\ locked' = [locked EXCEPT ![q] = TRUE]
  /\ UNCHANGED <<document, enforced, ledger, approving>>

ChangePolicy ==
  /\ enforced' = ~ enforced /\ UNCHANGED <<document, locked, ledger, approving>>

BudgetNext ==
  \/ \E d \in Document :
       \/ \E x \in Person : Create(d, x) \/ \E q \in BudgetPeriod, v \in 1..MaxVersion : CheckApproval(d, x, q, v)
       \/ \E v \in 1..MaxVersion, s \in {"draft", "submitted", "rejected", "cancelled", "closed"} : Transition(d, s, v)
       \/ Approve(d)
  \/ \E q \in BudgetPeriod : LockPeriod(q)
  \/ ChangePolicy

BudgetSpec == BudgetInit /\ [][BudgetNext]_budgetVars

-----------------------------------------------------------------------------
ProjectBudgetRow == [status : {"draft", "submitted", "approved", "rejected", "cancelled", "closed"}, maker : Person,
                     approver : Person \cup {Nobody}, strict : BOOLEAN, version : 1..MaxVersion]

BudgetTypeOK ==
  /\ document \in [Document -> ProjectBudgetRow \cup {Absent}] /\ locked \in [BudgetPeriod -> BOOLEAN] /\ enforced \in BOOLEAN
  /\ \A e \in ledger : e.source \in Document /\ e.line \in Line /\ e.period \in BudgetPeriod

\* The ledger has of a document its total, each line once and in one period, when
\* it was approved, and nothing before: also when it was rejected and is approved
\* later, and whoever locks periods or changes the policy meanwhile.
ApprovalsAreBooked ==
  \A d \in Document :
    IF In(document, d, {"approved", "closed"})
    THEN /\ MapThenSumSet(LAMBDA e : e.amount, Posted(d)) = MapThenSumSet(LAMBDA l : Amounts[d][l], Line)
         /\ Cardinality({e.line : e \in Posted(d)}) = Cardinality(Posted(d)) /\ Cardinality({e.period : e \in Posted(d)}) <= 1
    ELSE Posted(d) = {}

\* A document that was approved under the policy has two people behind it, also
\* when the policy is changed, or the document was sent back, on the way.
TwoApproved ==
  \A d \in Document : In(document, d, {"approved", "closed"}) /\ document[d].strict => document[d].approver # document[d].maker

-----------------------------------------------------------------------------
(* The boardroom (modules/insightops, application/services.py): objectives *)
(* and KPIs with observations, portfolio snapshots, benefits with their    *)
(* measurements, executive actions and board reports.                      *)

CONSTANTS
  InsightItem, InsightMember, InsightKind,   \* Kind[i]: the table that i is a row of
  Of,                   \* KPI -> objective, OBSERVATION -> KPI, MEASUREMENT -> benefit
  InsightPeriod                \* OBSERVATION, MEASUREMENT -> the period it is of

InsightKinds == {"OBJECTIVE", "KPI", "OBSERVATION", "SNAPSHOT", "BENEFIT", "MEASUREMENT", "ACTION", "REPORT"}
InsightAssumption ==
  InsightKind \in [InsightItem -> InsightKinds] /\ \A i \in InsightItem : InsightKind[i] \in {"OBSERVATION", "MEASUREMENT"} => i \in DOMAIN Of \cap DOMAIN InsightPeriod

VARIABLE insightRow   \* Item -> row

insightVars == <<insightRow>>

SnapshotStages ==
  [DRAFT |-> {"IN_REVIEW", "CANCELLED"}, IN_REVIEW |-> {"APPROVED", "DRAFT", "CANCELLED"},
   APPROVED |-> {"PUBLISHED", "IN_REVIEW"}, PUBLISHED |-> {}, CANCELLED |-> {}]
ReportStages == [SnapshotStages EXCEPT !.PUBLISHED = {"ARCHIVED"}]
ActionStages ==
  [OPEN |-> {"IN_PROGRESS", "BLOCKED", "CANCELLED"}, IN_PROGRESS |-> {"BLOCKED", "COMPLETED", "CANCELLED"},
   BLOCKED |-> {"IN_PROGRESS", "COMPLETED", "CANCELLED"}, COMPLETED |-> {"IN_PROGRESS"}]

InsightInit == insightRow = [i \in InsightItem |-> Absent]

Insert(kind, i, new) == InsightKind[i] = kind /\ ~Has(insightRow, i) /\ insightRow' = [insightRow EXCEPT ![i] = new]

CreateObjective(i) == Insert("OBJECTIVE", i, [status |-> "ACTIVE"])
CreateKpi(i) == InsightKind[i] = "KPI" /\ (i \in DOMAIN Of => Has(insightRow, Of[i])) /\ Insert("KPI", i, [status |-> "ACTIVE"])
CreateBenefit(i) == Insert("BENEFIT", i, [status |-> "ACTIVE"])
CreateAction(i) == Insert("ACTION", i, [status |-> "OPEN", summary |-> FALSE, completed |-> FALSE])
CreateSnapshot(i, m) == Insert("SNAPSHOT", i, Drafted("DRAFT", m))
CreateBoardReport(i, m) == Insert("REPORT", i, Drafted("DRAFT", m))

\* One for each period of what is measured, which a constraint ensures.
Free(i) == \A x \in InsightItem : Has(insightRow, x) /\ InsightKind[x] = InsightKind[i] => Of[x] # Of[i] \/ InsightPeriod[x] # InsightPeriod[i]

RecordObservation(i) ==
  InsightKind[i] = "OBSERVATION" /\ Has(insightRow, Of[i]) /\ Free(i) /\ Insert("OBSERVATION", i, [status |-> "CAPTURED"])

RecordBenefitMeasurement(i) ==
  InsightKind[i] = "MEASUREMENT" /\ Has(insightRow, Of[i]) /\ Free(i) /\ Insert("MEASUREMENT", i, [status |-> "CAPTURED"])

-----------------------------------------------------------------------------
\* The approver stays on a row that is sent back, until another one approves it.
Review(i, kind, stages, m) ==
  \E stage \in Open(InsightKind[i] = kind, insightRow, i, stages, {"APPROVED"}, m) :
    /\ stage = "PUBLISHED" => insightRow[i].approver # Nobody
    /\ insightRow' = Judged(insightRow, i, stage, m, {"APPROVED"}, {})

TransitionSnapshot(i, m) == Review(i, "SNAPSHOT", SnapshotStages, m)
TransitionBoardReport(i, m) == Review(i, "REPORT", ReportStages, m)

Summarised(i, stage, said) == stage = "COMPLETED" => said \/ insightRow[i].summary

TransitionAction(i) ==
  /\ InsightKind[i] = "ACTION"
  /\ \E stage \in Offers(ActionStages, insightRow, i), said \in BOOLEAN :
       /\ Summarised(i, stage, said)
       /\ insightRow' = [insightRow EXCEPT ![i] = [status |-> stage, summary |-> @.summary \/ said, completed |-> stage = "COMPLETED"]]

InsightNext ==
  \E i \in InsightItem :
    \/ CreateObjective(i) \/ CreateKpi(i) \/ CreateBenefit(i) \/ CreateAction(i)
    \/ RecordObservation(i) \/ RecordBenefitMeasurement(i) \/ TransitionAction(i)
    \/ \E m \in InsightMember : \/ CreateSnapshot(i, m) \/ CreateBoardReport(i, m)
                                \/ TransitionSnapshot(i, m) \/ TransitionBoardReport(i, m)

InsightSpec == InsightInit /\ [][InsightNext]_insightVars

-----------------------------------------------------------------------------
PortfolioSnapshotRow == Judgeable(SnapshotStages, InsightMember)
BoardReportRow == Judgeable(ReportStages, InsightMember)
ExecutiveActionRow == [status : Reached(ActionStages), summary : BOOLEAN, completed : BOOLEAN]
InsightRowOf(kind) ==
  CASE kind = "SNAPSHOT" -> PortfolioSnapshotRow [] kind = "REPORT" -> BoardReportRow
    [] kind = "ACTION" -> ExecutiveActionRow [] OTHER -> [status : {"ACTIVE", "CAPTURED"}]

InsightTypeOK == DOMAIN insightRow = InsightItem /\ \A i \in InsightItem : insightRow[i] \in InsightRowOf(InsightKind[i]) \cup {Absent}

\* What the board has read was approved by somebody else than its author, even
\* after a round back to review; a completed action says what came of it; no
\* period of a KPI or benefit is measured twice.
BoardReadsApproved ==
  /\ \A i \in InsightItem : InsightKind[i] \in {"SNAPSHOT", "REPORT"} /\ In(insightRow, i, {"APPROVED", "PUBLISHED", "ARCHIVED"}) =>
       Independently(insightRow, i)
  /\ \A i \in InsightItem : InsightKind[i] = "ACTION" /\ Has(insightRow, i) =>
       /\ insightRow[i].completed <=> In(insightRow, i, {"COMPLETED"})
       /\ insightRow[i].completed => insightRow[i].summary
  /\ \A i, x \in InsightItem : InsightKind[i] \in {"OBSERVATION", "MEASUREMENT"} /\ InsightKind[x] = InsightKind[i] /\ i # x
                               /\ Has(insightRow, i) /\ Has(insightRow, x) => <<Of[i], InsightPeriod[i]>> # <<Of[x], InsightPeriod[x]>>

-----------------------------------------------------------------------------
(* Vendors (modules/vendor, application/services.py) and the requests for  *)
(* quotation they are invited to (create_rfq of modules/procurement).      *)
(*                                                                         *)
(* A transition follows the stages the company has configured; a           *)
(* qualification sets the stage past them.  create_rfq finds its vendors   *)
(* qualified without a lock and inserts later.                             *)

CONSTANTS
  Vendor, Rfq, Invited,   \* Rfq -> the vendors it invites
  NextOf,                 \* allowed_next_codes of the configured stages
  MaxDecisions            \* bound: qualifications of a vendor

VendorsAssumption ==
  /\ Invited \in [Rfq -> (SUBSET Vendor) \ {{}}] /\ MaxDecisions \in Nat
  /\ \A s \in DOMAIN NextOf : NextOf[s] \subseteq DOMAIN NextOf
  /\ {"registered", "under_review", "qualified", "rejected", "suspended", "retired"} \subseteq DOMAIN NextOf

VARIABLES
  vendor,   \* Vendor -> row: stage, and whether its times of suspension and qualification are set
  decided,  \* Vendor -> number of qualifications, and the last of them
  rfq       \* Rfq -> row

vendorVars == <<vendor, decided, rfq>>

VendorInit ==
  /\ vendor = [v \in Vendor |-> Absent] /\ rfq = [q \in Rfq |-> Absent]
  /\ decided = [v \in Vendor |-> [count |-> 0, last |-> "none"]]

CreateVendor(v) ==
  /\ ~Has(vendor, v)
  /\ vendor' = [vendor EXCEPT ![v] = [status |-> "registered", suspended |-> FALSE, qualified |-> FALSE]]
  /\ UNCHANGED <<decided, rfq>>

TransitionVendor(v) ==
  /\ \E s \in Offers(NextOf, vendor, v) :
       vendor' = [vendor EXCEPT ![v].status = s,
                    ![v].suspended = CASE s = "suspended" -> TRUE [] s = "qualified" -> FALSE [] OTHER -> @]
  /\ UNCHANGED <<decided, rfq>>

\* A decision that is still pending counts as a rejection.
QualifyVendor(v) ==
  /\ In(vendor, v, {"registered", "under_review", "rejected"}) /\ decided[v].count < MaxDecisions
  /\ \E decision \in {"APPROVED", "REJECTED", "PENDING"} :
       /\ decided' = [decided EXCEPT ![v] = [count |-> @.count + 1, last |-> decision]]
       /\ vendor' = [vendor EXCEPT ![v].status = IF decision = "APPROVED" THEN "qualified" ELSE "rejected",
                                   ![v].qualified = decision = "APPROVED"]
  /\ UNCHANGED rfq

\* The vendors are found qualified ...
ReadVendors(q) ==
  /\ ~Has(rfq, q) /\ \A v \in Invited[q] : In(vendor, v, {"qualified"})
  /\ rfq' = [rfq EXCEPT ![q] = [status |-> "CREATING"]] /\ UNCHANGED <<vendor, decided>>

\* ... and invited, whatever became of them meanwhile.
CreateRfq(q) == In(rfq, q, {"CREATING"}) /\ rfq' = Moved(rfq, q, "DRAFT") /\ UNCHANGED <<vendor, decided>>

VendorNext ==
  \/ \E v \in Vendor : CreateVendor(v) \/ TransitionVendor(v) \/ QualifyVendor(v)
  \/ \E q \in Rfq : ReadVendors(q) \/ CreateRfq(q)

VendorSpec == VendorInit /\ [][VendorNext]_vendorVars

-----------------------------------------------------------------------------
VendorProfileRow == [status : DOMAIN NextOf, suspended : BOOLEAN, qualified : BOOLEAN]

VendorTypeOK ==
  /\ vendor \in [Vendor -> VendorProfileRow \cup {Absent}]
  /\ decided \in [Vendor -> [count : 0..MaxDecisions, last : {"none", "APPROVED", "REJECTED", "PENDING"}]]
  /\ rfq \in [Rfq -> [status : {"CREATING", "DRAFT"}] \cup {Absent}]

\* Two paths write a vendor.  Whichever was taken: its time of qualification
\* says what was decided last; a vendor in service does not look suspended; and
\* a vendor that an RFQ invites has been through review.
VendorsWereQualified ==
  /\ \A v \in Vendor : Has(vendor, v) =>
       /\ vendor[v].qualified <=> decided[v].last = "APPROVED"
       /\ vendor[v].suspended => vendor[v].status \in {"suspended", "retired"}
  /\ \A q \in Rfq : Has(rfq, q) => \A v \in Invited[q] : Has(vendor, v) /\ vendor[v].status # "registered"
=============================================================================
