----------------------------- MODULE Facilities -----------------------------
(* What is kept of a building once it stands: its assets and their upkeep, *)
(* its digital twin, its carbon. Three tables of one shape, each with its  *)
(* own kinds of records and its own specification (FacilitySpec, TwinSpec, *)
(* CarbonSpec).                                                            *)
EXTENDS MakerChecker, FiniteSetsExt

-----------------------------------------------------------------------------
(* Facility operations (modules/facilityops, application/services.py):     *)
(* the assets of a facility, their maintenance plans, service requests,    *)
(* work orders, warranty claims and condition inspections.                 *)
(*                                                                         *)
(* Closing a work order and verifying an inspection also write the asset,  *)
(* which they lock after their own row; nothing of it is read before.      *)

CONSTANTS
  Member, Item,
  Kind,     \* Item -> kind of its row
  AssetOf,  \* plans, orders, claims and inspections -> asset
  PlanOf,   \* orders -> set of at most one plan
  Days,     \* plans and assets -> days between two services
  LastDay   \* bound: the last day looked at

FacilityKinds == {"ASSET", "PLAN", "REQUEST", "ORDER", "CLAIM", "INSPECTION"}

FacilityAssumption ==
  /\ Kind \in [Item -> FacilityKinds] /\ LastDay \in Nat
  /\ \A i \in Item : Kind[i] \notin {"ASSET", "REQUEST"} => Kind[AssetOf[i]] = "ASSET"
  /\ \A i \in Item : Kind[i] \in {"ASSET", "PLAN"} => Days[i] \in Nat
  /\ \A i \in Item : Kind[i] = "ORDER" => \A p \in PlanOf[i] : Kind[p] = "PLAN" /\ AssetOf[p] = AssetOf[i]

VARIABLES
  row,   \* Item -> row
  today

facilityVars == <<row, today>>

Never == 0
Conditions == {"GOOD", "POOR"}

FacilityAssetStages ==
  [DRAFT |-> {"VERIFIED", "CANCELLED"}, VERIFIED |-> {"IN_SERVICE", "OUT_OF_SERVICE"},
   IN_SERVICE |-> {"OUT_OF_SERVICE", "DECOMMISSIONED"},
   OUT_OF_SERVICE |-> {"IN_SERVICE", "DECOMMISSIONED"}, DECOMMISSIONED |-> {"RETIRED"}]
RequestStages ==
  [NEW |-> {"ACKNOWLEDGED", "ASSIGNED", "CANCELLED"},
   ACKNOWLEDGED |-> {"ASSIGNED", "IN_PROGRESS", "CANCELLED"},
   ASSIGNED |-> {"IN_PROGRESS", "RESOLVED", "CANCELLED"},
   IN_PROGRESS |-> {"RESOLVED", "ON_HOLD", "CANCELLED"}, ON_HOLD |-> {"IN_PROGRESS", "CANCELLED"},
   RESOLVED |-> {"CLOSED", "REOPENED"}, REOPENED |-> {"ASSIGNED", "IN_PROGRESS"}]
OrderStages ==
  [DRAFT |-> {"SUBMITTED", "CANCELLED"}, SUBMITTED |-> {"APPROVED", "REJECTED"},
   REJECTED |-> {"DRAFT", "CANCELLED"}, APPROVED |-> {"SCHEDULED", "IN_PROGRESS", "CANCELLED"},
   SCHEDULED |-> {"IN_PROGRESS", "CANCELLED"}, IN_PROGRESS |-> {"COMPLETED", "ON_HOLD"},
   ON_HOLD |-> {"IN_PROGRESS", "CANCELLED"}, COMPLETED |-> {"VERIFIED", "IN_PROGRESS"},
   VERIFIED |-> {"CLOSED", "IN_PROGRESS"}]
ClaimStages ==
  [DRAFT |-> {"FILED", "CANCELLED"}, FILED |-> {"UNDER_REVIEW", "WITHDRAWN"},
   UNDER_REVIEW |-> {"APPROVED", "REJECTED", "INFO_REQUIRED"},
   INFO_REQUIRED |-> {"UNDER_REVIEW", "WITHDRAWN"}, APPROVED |-> {"SETTLED", "CLOSED"},
   REJECTED |-> {"CLOSED"}, SETTLED |-> {"CLOSED"}]
InspectionStages ==
  [DRAFT |-> {"SUBMITTED", "CANCELLED"}, SUBMITTED |-> {"VERIFIED", "REJECTED"},
   REJECTED |-> {"DRAFT", "CANCELLED"}, VERIFIED |-> {"CLOSED"}]

FacilityInit == row = [i \in Item |-> Absent] /\ today = 1

DayPasses == today < LastDay /\ today' = today + 1 /\ UNCHANGED row

-----------------------------------------------------------------------------
FacilityInsert(k, i, new) ==
  /\ Kind[i] = k /\ ~Has(row, i)
  /\ k \notin {"ASSET", "REQUEST"} => Has(row, AssetOf[i])
  /\ row' = [row EXCEPT ![i] = new]
  /\ UNCHANGED today

FacilityCreateAsset(i, m) ==
  FacilityInsert("ASSET", i, [status |-> "DRAFT", by |-> m, approver |-> Nobody, condition |-> "AS_RECORDED",
                              serviced |-> Never, next |-> Never, maintainable |-> TRUE])
CreatePlan(i) == FacilityInsert("PLAN", i, [status |-> "ACTIVE", due |-> today])
CreateServiceRequest(i) == FacilityInsert("REQUEST", i, [status |-> "NEW", responded |-> Never, resolved |-> Never])
CreateWorkOrder(i, m) ==
  /\ Kind[i] = "ORDER"
  /\ \A p \in PlanOf[i] : Has(row, p)
  /\ \E assignee \in Member \cup {Nobody} :
       FacilityInsert("ORDER", i, [status |-> "DRAFT", by |-> m, approver |-> Nobody, assignee |-> assignee,
                                   verifier |-> Nobody, completed |-> Never])
CreateWarrantyClaim(i, m) == FacilityInsert("CLAIM", i, Drafted("DRAFT", m))
CreateInspection(i, m) ==
  \E found \in Conditions :
    FacilityInsert("INSPECTION", i, [status |-> "DRAFT", by |-> m, approver |-> Nobody, condition |-> found])

-----------------------------------------------------------------------------
FacilityTransitionAsset(i, m) ==
  /\ \E stage \in Open(Kind[i] = "ASSET", row, i, FacilityAssetStages, {"VERIFIED"}, m) :
       row' = [Judged(row, i, stage, m, {"VERIFIED"}, {}) EXCEPT ![i].maintainable = @ /\ stage # "RETIRED"]
  /\ UNCHANGED today

TransitionServiceRequest(i) ==
  /\ Kind[i] = "REQUEST"
  /\ \E stage \in Offers(RequestStages, row, i) :
       row' = [row EXCEPT ![i].status = stage,
         ![i].responded = IF @ = Never /\ stage \in {"ACKNOWLEDGED", "ASSIGNED", "IN_PROGRESS"} THEN today ELSE @,
         ![i].resolved = IF stage = "REOPENED" THEN Never
                         ELSE IF @ = Never /\ stage \in {"RESOLVED", "CLOSED"} THEN today ELSE @]
  /\ UNCHANGED today

\* completed_at, or now.
ServiceDay(o) == IF row[o].completed = Never THEN today ELSE row[o].completed

\* Closing an order moves the dates of its asset, and of its plan.
Serviced(table, o) ==
  LET a == AssetOf[o] day == ServiceDay(o)
      every == IF PlanOf[o] = {} THEN Days[a] ELSE Days[CHOOSE p \in PlanOf[o] : TRUE] IN
  [i \in Item |->
     IF i = a THEN [table[a] EXCEPT !.serviced = day, !.next = IF every = 0 THEN @ ELSE day + every]
     ELSE IF i \in PlanOf[o] THEN [table[i] EXCEPT !.due = day + Days[i]]
     ELSE table[i]]

TransitionWorkOrder(o, m) ==
  /\ \E stage \in Open(Kind[o] = "ORDER", row, o, OrderStages, {"APPROVED"}, m) :
       LET moved == [Judged(row, o, stage, m, {"APPROVED"}, {}) EXCEPT
                       ![o].completed = IF stage = "COMPLETED" THEN today ELSE @,
                       ![o].verifier = IF stage = "VERIFIED" THEN m ELSE @] IN
       /\ stage = "VERIFIED" => row[o].assignee # m
       /\ row' = IF stage = "CLOSED" THEN Serviced(moved, o) ELSE moved
  /\ UNCHANGED today

TransitionWarrantyClaim(i, m) ==
  LET deciding == {"APPROVED", "REJECTED"} IN
  /\ \E stage \in Open(Kind[i] = "CLAIM", row, i, ClaimStages, deciding, m) :
       row' = Judged(row, i, stage, m, deciding, {})
  /\ UNCHANGED today

TransitionInspection(i, m) ==
  /\ \E stage \in Open(Kind[i] = "INSPECTION", row, i, InspectionStages, {"VERIFIED"}, m) :
       LET moved == Judged(row, i, stage, m, {"VERIFIED"}, {}) IN
       row' = IF stage = "VERIFIED" THEN [moved EXCEPT ![AssetOf[i]].condition = row[i].condition] ELSE moved
  /\ UNCHANGED today

FacilityNext ==
  \/ DayPasses
  \/ \E i \in Item : CreatePlan(i) \/ CreateServiceRequest(i) \/ TransitionServiceRequest(i)
  \/ \E i \in Item, m \in Member :
       \/ FacilityCreateAsset(i, m) \/ CreateWorkOrder(i, m) \/ CreateWarrantyClaim(i, m) \/ CreateInspection(i, m)
       \/ FacilityTransitionAsset(i, m) \/ TransitionWorkOrder(i, m) \/ TransitionWarrantyClaim(i, m)
       \/ TransitionInspection(i, m)

FacilitySpec == FacilityInit /\ [][FacilityNext]_facilityVars

-----------------------------------------------------------------------------
Person == Member \cup {Nobody}

OperationalAssetRow ==
  [status : Reached(FacilityAssetStages), by : Member, approver : Person, condition : Conditions \cup {"AS_RECORDED"},
   serviced : Nat, next : Nat, maintainable : BOOLEAN]
MaintenancePlanRow == [status : {"ACTIVE"}, due : Nat]
ServiceRequestRow == [status : Reached(RequestStages), responded : Nat, resolved : Nat]
FacilityWorkOrderRow ==
  [status : Reached(OrderStages), by : Member, approver : Person, assignee : Person, verifier : Person,
   completed : Nat]
WarrantyClaimRow == Judgeable(ClaimStages, Member)
ConditionInspectionRow ==
  [status : Reached(InspectionStages), by : Member, approver : Person, condition : Conditions]

FacilityRowOf(i) ==
  CASE Kind[i] = "ASSET" -> OperationalAssetRow [] Kind[i] = "PLAN" -> MaintenancePlanRow
    [] Kind[i] = "REQUEST" -> ServiceRequestRow [] Kind[i] = "ORDER" -> FacilityWorkOrderRow
    [] Kind[i] = "CLAIM" -> WarrantyClaimRow [] OTHER -> ConditionInspectionRow

FacilityTypeOK == DOMAIN row = Item /\ (\A i \in Item : row[i] \in FacilityRowOf(i) \cup {Absent}) /\ today \in 1..LastDay

\* What an asset says about itself leads to a record of its own: the day of its
\* last service to a closed order that was completed then, was approved by
\* another than its maker and verified by another than the technician; its
\* condition to an inspection that another than the inspector verified.
AssetIsTraced ==
  \A a \in Item : Kind[a] = "ASSET" /\ Has(row, a) =>
    /\ row[a].serviced # Never =>
         \E o \in Item : /\ Kind[o] = "ORDER" /\ AssetOf[o] = a /\ In(row, o, {"CLOSED"})
                         /\ row[o].completed = row[a].serviced
                         /\ Independently(row, o)
                         /\ row[o].verifier \notin {Nobody, row[o].assignee}
    /\ row[a].condition # "AS_RECORDED" =>
         \E i \in Item : /\ Kind[i] = "INSPECTION" /\ AssetOf[i] = a /\ In(row, i, {"VERIFIED", "CLOSED"})
                         /\ row[i].condition = row[a].condition
                         /\ Independently(row, i)
    /\ In(row, a, {"IN_SERVICE", "OUT_OF_SERVICE", "DECOMMISSIONED", "RETIRED"}) =>
         Independently(row, a)

-----------------------------------------------------------------------------
(* The digital twin (modules/digitaltwinops, application/services.py):     *)
(* building models with their revisions and federations, clashes, issues,  *)
(* sensors with their readings and alerts, and the assets handed over.     *)

CONSTANTS
  Of,         \* revision -> model, clash -> federation, reading -> device, alert -> reading
  Models,     \* federation -> the models it names
  Day,        \* reading -> day it was observed, in whatever order it arrives
  Breaching   \* readings outside the thresholds of their device

TwinKinds == {"MODEL", "REVISION", "FEDERATION", "CLASH", "ISSUE", "DEVICE", "READING", "ALERT", "ASSET"}

Under == [REVISION |-> "MODEL", CLASH |-> "FEDERATION", READING |-> "DEVICE", ALERT |-> "READING"]

TwinAssumption ==
  /\ Kind \in [Item -> TwinKinds] /\ Breaching \subseteq Item
  /\ \A i \in Item :
       /\ Kind[i] \in DOMAIN Under => Kind[Of[i]] = Under[Kind[i]]
       /\ Kind[i] = "READING" => Day[i] \in Nat \ {0}
       /\ Kind[i] = "FEDERATION" => \A x \in Models[i] : Kind[x] = "MODEL"

RevisionStages ==
  [DRAFT |-> {"SUBMITTED", "CANCELLED"}, SUBMITTED |-> {"APPROVED", "REJECTED", "DRAFT"},
   REJECTED |-> {"DRAFT", "CANCELLED"}, APPROVED |-> {"PUBLISHED", "REJECTED"}]
ClashStages ==
  [OPEN |-> {"IN_PROGRESS", "BLOCKED", "CANCELLED"}, IN_PROGRESS |-> {"RESOLVED", "BLOCKED", "OPEN"},
   BLOCKED |-> {"IN_PROGRESS", "CANCELLED"}, RESOLVED |-> {"VERIFIED", "IN_PROGRESS"},
   VERIFIED |-> {"CLOSED", "IN_PROGRESS"}]
IssueStages ==
  [OPEN |-> {"IN_PROGRESS", "BLOCKED", "CANCELLED"}, IN_PROGRESS |-> {"RESOLVED", "BLOCKED", "OPEN"},
   BLOCKED |-> {"IN_PROGRESS", "CANCELLED"}, RESOLVED |-> {"CLOSED", "IN_PROGRESS"}]
AlertStages ==
  [OPEN |-> {"ACKNOWLEDGED", "RESOLVED", "SUPPRESSED"}, ACKNOWLEDGED |-> {"RESOLVED", "OPEN", "SUPPRESSED"},
   RESOLVED |-> {"CLOSED", "OPEN"}, SUPPRESSED |-> {"OPEN", "CLOSED"}]
TwinAssetStages ==
  [DRAFT |-> {"VERIFIED", "CANCELLED"}, VERIFIED |-> {"HANDED_OVER", "DRAFT"},
   HANDED_OVER |-> {"IN_SERVICE", "VERIFIED"}, IN_SERVICE |-> {"OUT_OF_SERVICE", "RETIRED"},
   OUT_OF_SERVICE |-> {"IN_SERVICE", "RETIRED"}]

NoRevision == "none"

TwinInit == row = [i \in Item |-> Absent]

-----------------------------------------------------------------------------
TwinInsert(k, i, new) ==
  /\ Kind[i] = k /\ ~Has(row, i)
  /\ k \in DOMAIN Under => Has(row, Of[i])
  /\ row' = [row EXCEPT ![i] = new]

CreateModel(i) == TwinInsert("MODEL", i, [status |-> "DRAFT", current |-> NoRevision])
CreateRevision(i, m) == TwinInsert("REVISION", i, Drafted("DRAFT", m))
\* The models that a federation names exist; their number is stored with it.
CreateFederation(i) ==
  /\ Kind[i] = "FEDERATION" /\ \A x \in Models[i] : Has(row, x)
  /\ TwinInsert("FEDERATION", i, [status |-> "DRAFT", count |-> Cardinality(Models[i])])
CreateClash(i) == TwinInsert("CLASH", i, [status |-> "OPEN", resolved |-> FALSE])
CreateIssue(i) == TwinInsert("ISSUE", i, [status |-> "OPEN", closed |-> FALSE])
CreateDevice(i) == TwinInsert("DEVICE", i, [status |-> "REGISTERED", seen |-> Never])
TwinCreateAsset(i, m) == TwinInsert("ASSET", i, Drafted("DRAFT", m))

-----------------------------------------------------------------------------
\* A publication also writes the model, whose row the transition has locked.
TransitionRevision(i, m) ==
  \E stage \in Open(Kind[i] = "REVISION", row, i, RevisionStages, {"APPROVED"}, m) :
    LET moved == Judged(row, i, stage, m, {"APPROVED"}, {}) IN
    row' = IF stage = "PUBLISHED"
           THEN [moved EXCEPT ![Of[i]] = [status |-> "PUBLISHED", current |-> i]] ELSE moved

TransitionClash(i) ==
  /\ Kind[i] = "CLASH"
  /\ \E stage \in Offers(ClashStages, row, i) :
       row' = [row EXCEPT ![i] = [status |-> stage,
         resolved |-> CASE stage \in {"RESOLVED", "VERIFIED", "CLOSED"} -> TRUE
                        [] stage = "IN_PROGRESS" -> FALSE [] OTHER -> @.resolved]]

TransitionIssue(i) ==
  /\ Kind[i] = "ISSUE"
  /\ \E stage \in Offers(IssueStages, row, i) :
       row' = [row EXCEPT ![i] = [status |-> stage, closed |-> stage = "CLOSED"]]

ThresholdAlert(r) == r \in Breaching

\* The device shows the day of the reading that arrived last.
Seen(r) == Day[r]

AlertsOf(r) == {x \in Item : Kind[x] = "ALERT" /\ Of[x] = r /\ ThresholdAlert(r)}

RecordTelemetry(r) ==
  /\ Kind[r] = "READING" /\ ~Has(row, r) /\ Has(row, Of[r])
  /\ row' = [i \in Item |->
       IF i = r THEN [status |-> "RECORDED"]
       ELSE IF i = Of[r] THEN [status |-> "ONLINE", seen |-> Seen(r)]
       ELSE IF i \in AlertsOf(r) THEN [status |-> "OPEN", resolver |-> Nobody]
       ELSE row[i]]

TransitionAlert(i, m) ==
  /\ Kind[i] = "ALERT"
  /\ \E stage \in Offers(AlertStages, row, i) :
       row' = [row EXCEPT ![i] = [status |-> stage,
         resolver |-> CASE stage = "RESOLVED" -> m [] stage = "OPEN" -> Nobody [] OTHER -> @.resolver]]

TwinTransitionAsset(i, m) ==
  \E stage \in Open(Kind[i] = "ASSET", row, i, TwinAssetStages, {"VERIFIED"}, m) :
    row' = Judged(row, i, stage, m, {"VERIFIED"}, {})

TwinNext ==
  \/ \E i \in Item :
       \/ CreateModel(i) \/ CreateFederation(i) \/ CreateClash(i) \/ CreateIssue(i) \/ CreateDevice(i)
       \/ RecordTelemetry(i) \/ TransitionClash(i) \/ TransitionIssue(i)
  \/ \E i \in Item, m \in Member :
       \/ CreateRevision(i, m) \/ TwinCreateAsset(i, m)
       \/ TransitionRevision(i, m) \/ TransitionAlert(i, m) \/ TwinTransitionAsset(i, m)

TwinSpec == TwinInit /\ [][TwinNext]_row

-----------------------------------------------------------------------------
BIMModelRow == [status : {"DRAFT", "PUBLISHED"}, current : Item \cup {NoRevision}]
BIMRevisionRow == Judgeable(RevisionStages, Member)
ModelFederationRow == [status : {"DRAFT"}, count : Nat]
ClashRecordRow == [status : Reached(ClashStages), resolved : BOOLEAN]
BIMIssueRow == [status : Reached(IssueStages), closed : BOOLEAN]
IoTDeviceRow == [status : {"REGISTERED", "ONLINE"}, seen : Nat]
TelemetryReadingRow == [status : {"RECORDED"}]
SmartAlertRow == [status : Reached(AlertStages), resolver : Member \cup {Nobody}]
HandoverAssetRecordRow == Judgeable(TwinAssetStages, Member)

TwinRowOf(i) ==
  CASE Kind[i] = "MODEL" -> BIMModelRow [] Kind[i] = "REVISION" -> BIMRevisionRow
    [] Kind[i] = "FEDERATION" -> ModelFederationRow [] Kind[i] = "CLASH" -> ClashRecordRow
    [] Kind[i] = "ISSUE" -> BIMIssueRow [] Kind[i] = "DEVICE" -> IoTDeviceRow
    [] Kind[i] = "READING" -> TelemetryReadingRow [] Kind[i] = "ALERT" -> SmartAlertRow
    [] OTHER -> HandoverAssetRecordRow

TwinTypeOK == DOMAIN row = Item /\ \A i \in Item : row[i] \in TwinRowOf(i) \cup {Absent}

\* The twin agrees with what it was told: the current revision of a model is a
\* published one that another than its author approved, and a published
\* revision makes its model published; the day a device was seen is that of one
\* of its readings; every reading outside the thresholds has its alert, and no
\* other has; a clash is resolved exactly in the stages that say so; an asset in
\* service was verified by another than the one who captured it.
TwinIsTraced ==
  \A i \in Item :
    /\ Kind[i] = "MODEL" /\ Has(row, i) =>
         IF row[i].current = NoRevision
         THEN \A v \in Item : Kind[v] = "REVISION" /\ Of[v] = i => ~In(row, v, {"PUBLISHED"})
         ELSE /\ In(row, row[i].current, {"PUBLISHED"}) /\ Of[row[i].current] = i
              /\ Independently(row, row[i].current)
    /\ Kind[i] = "DEVICE" /\ Has(row, i) =>
         row[i].seen \in {Never} \cup {Day[r] : r \in {x \in Item : Kind[x] = "READING" /\ Of[x] = i /\ Has(row, x)}}
    /\ Kind[i] = "ALERT" => (Has(row, i) <=> (Has(row, Of[i]) /\ Of[i] \in Breaching))
    /\ Kind[i] = "ALERT" /\ In(row, i, {"RESOLVED"}) => row[i].resolver # Nobody
    /\ Kind[i] = "CLASH" /\ Has(row, i) =>
         (row[i].resolved <=> In(row, i, {"RESOLVED", "VERIFIED", "CLOSED"}))
    /\ Kind[i] = "ASSET" /\ In(row, i, {"HANDED_OVER", "IN_SERVICE", "OUT_OF_SERVICE", "RETIRED"}) =>
         Independently(row, i)

-----------------------------------------------------------------------------
(* Sustainability (modules/sustainabilityops, application/services.py):    *)
(* carbon activities and the inventories that add them up, targets,        *)
(* initiatives, assurance assessments and disclosure reports.              *)

CONSTANTS
  Emitted,  \* activities -> calculated_kg_co2e
  Offset,   \* inventories -> offsets_kg_co2e
  MaxOpen   \* bound: inventories summed up and not inserted

CarbonKinds == {"ACTIVITY", "INVENTORY", "TARGET", "INITIATIVE", "ASSESSMENT", "DISCLOSURE"}

SustainabilityAssumption ==
  /\ Kind \in [Item -> CarbonKinds] /\ IsFiniteSet(Item) /\ MaxOpen \in Nat
  /\ \A i \in Item : Kind[i] = "ACTIVITY" => Emitted[i] \in Nat
  /\ \A i \in Item : Kind[i] = "INVENTORY" => Offset[i] \in Nat

VARIABLES
  summing   \* create_inventory between its sum and its insertion

carbonVars == <<row, summing>>

ActivityStages ==
  [DRAFT |-> {"VERIFIED", "REJECTED"}, REJECTED |-> {"DRAFT"}, VERIFIED |-> {"REJECTED"}]
InventoryStages ==
  [DRAFT |-> {"IN_REVIEW", "CANCELLED"}, IN_REVIEW |-> {"APPROVED", "DRAFT", "CANCELLED"},
   APPROVED |-> {"PUBLISHED", "IN_REVIEW"}]
TargetStages ==
  [DRAFT |-> {"ACTIVE", "CANCELLED"}, ACTIVE |-> {"AT_RISK", "ACHIEVED", "CANCELLED"},
   AT_RISK |-> {"ACTIVE", "ACHIEVED", "CANCELLED"}, ACHIEVED |-> {"ACTIVE"}]
InitiativeStages ==
  [PLANNED |-> {"IN_PROGRESS", "CANCELLED"}, IN_PROGRESS |-> {"BLOCKED", "COMPLETED", "CANCELLED"},
   BLOCKED |-> {"IN_PROGRESS", "COMPLETED", "CANCELLED"}, COMPLETED |-> {"IN_PROGRESS"}]
AssessmentStages ==
  [DRAFT |-> {"IN_REVIEW", "CANCELLED"}, IN_REVIEW |-> {"APPROVED", "DRAFT", "CANCELLED"},
   APPROVED |-> {"PUBLISHED", "IN_REVIEW"}, PUBLISHED |-> {"CLOSED"}]
DisclosureStages ==
  [DRAFT |-> {"IN_REVIEW", "CANCELLED"}, IN_REVIEW |-> {"APPROVED", "DRAFT", "CANCELLED"},
   APPROVED |-> {"PUBLISHED", "IN_REVIEW"}, PUBLISHED |-> {"ARCHIVED"}]

CarbonInit == row = [i \in Item |-> Absent] /\ summing = {}

-----------------------------------------------------------------------------
CarbonInsert(k, i, new) ==
  Kind[i] = k /\ ~Has(row, i) /\ row' = [row EXCEPT ![i] = new] /\ UNCHANGED summing

RecordActivity(i, m) == CarbonInsert("ACTIVITY", i, Drafted("DRAFT", m))
CreateTarget(i) == CarbonInsert("TARGET", i, [status |-> "DRAFT"])
CreateInitiative(i) == CarbonInsert("INITIATIVE", i, [status |-> "PLANNED", completed |-> FALSE])
CreateAssessment(i, m) == CarbonInsert("ASSESSMENT", i, Drafted("DRAFT", m))
CreateDisclosure(i, m) == CarbonInsert("DISCLOSURE", i, Drafted("DRAFT", m))

\* A verified activity may be rejected again once it is verified.
TransitionActivity(i, m) ==
  /\ \E stage \in Open(Kind[i] = "ACTIVITY", row, i, ActivityStages, {"VERIFIED"}, m) :
       row' = Judged(row, i, stage, m, {"VERIFIED"}, {"DRAFT"})
  /\ UNCHANGED summing

\* The verified activities of the period, whatever becomes of them later.
Counted == {a \in Item : Kind[a] = "ACTIVITY" /\ In(row, a, {"VERIFIED"})}
Gross(activities) == MapThenSumSet(LAMBDA a : Emitted[a], activities)

SumInventory(i, m) ==
  /\ Kind[i] = "INVENTORY" /\ ~Has(row, i) /\ Cardinality(summing) < MaxOpen
  /\ summing' = summing \cup {[row |-> i, by |-> m, of |-> Counted, gross |-> Gross(Counted)]}
  /\ UNCHANGED row

CreateInventory(t) ==
  /\ ~Has(row, t.row)
  /\ row' = [row EXCEPT ![t.row] =
       [status |-> "DRAFT", by |-> t.by, approver |-> Nobody, of |-> t.of,
        net |-> IF t.gross > Offset[t.row] THEN t.gross - Offset[t.row] ELSE 0]]
  /\ summing' = summing \ {t}

RollbackInventory(t) == summing' = summing \ {t} /\ UNCHANGED row

\* An approval is kept when the record is reviewed once more.
Reviewed(k, stages, i, m) ==
  /\ \E stage \in Open(Kind[i] = k, row, i, stages, {"APPROVED"}, m) :
       /\ stage = "PUBLISHED" => row[i].approver # Nobody
       /\ row' = Judged(row, i, stage, m, {"APPROVED"}, {})
  /\ UNCHANGED summing

TransitionInventory(i, m) == Reviewed("INVENTORY", InventoryStages, i, m)
TransitionAssessment(i, m) == Reviewed("ASSESSMENT", AssessmentStages, i, m)
TransitionDisclosure(i, m) == Reviewed("DISCLOSURE", DisclosureStages, i, m)

TransitionTarget(i) ==
  /\ Kind[i] = "TARGET"
  /\ \E stage \in Offers(TargetStages, row, i) : row' = Moved(row, i, stage)
  /\ UNCHANGED summing

TransitionInitiative(i) ==
  /\ Kind[i] = "INITIATIVE"
  /\ \E stage \in Offers(InitiativeStages, row, i) :
       row' = [row EXCEPT ![i] = [status |-> stage, completed |-> stage = "COMPLETED"]]
  /\ UNCHANGED summing

CarbonNext ==
  \/ \E i \in Item, m \in Member :
       \/ RecordActivity(i, m) \/ CreateAssessment(i, m) \/ CreateDisclosure(i, m) \/ SumInventory(i, m)
       \/ TransitionActivity(i, m) \/ TransitionInventory(i, m) \/ TransitionAssessment(i, m)
       \/ TransitionDisclosure(i, m)
  \/ \E i \in Item : CreateTarget(i) \/ CreateInitiative(i) \/ TransitionTarget(i) \/ TransitionInitiative(i)
  \/ \E t \in summing : CreateInventory(t) \/ RollbackInventory(t)

CarbonSpec == CarbonInit /\ [][CarbonNext]_carbonVars

-----------------------------------------------------------------------------
CarbonActivityRow == Judgeable(ActivityStages, Member)
CarbonInventoryRow ==
  [status : Reached(InventoryStages), by : Member, approver : Member \cup {Nobody},
   of : SUBSET Item, net : Nat]
SustainabilityTargetRow == [status : Reached(TargetStages)]
ESGInitiativeRow == [status : Reached(InitiativeStages), completed : BOOLEAN]
AssuranceAssessmentRow == Judgeable(AssessmentStages, Member)
DisclosureReportRow == Judgeable(DisclosureStages, Member)

CarbonRowOf(i) ==
  CASE Kind[i] = "ACTIVITY" -> CarbonActivityRow [] Kind[i] = "INVENTORY" -> CarbonInventoryRow
    [] Kind[i] = "TARGET" -> SustainabilityTargetRow [] Kind[i] = "INITIATIVE" -> ESGInitiativeRow
    [] Kind[i] = "ASSESSMENT" -> AssuranceAssessmentRow [] OTHER -> DisclosureReportRow

CarbonTypeOK == DOMAIN row = Item /\ \A i \in Item : row[i] \in CarbonRowOf(i) \cup {Absent}

\* What of an inventory, of an assessment or of a disclosure is public was
\* approved by another than who prepared it, through every return to review;
\* an activity that counts as verified was verified by another than its
\* recorder, and what was counted of an inventory less its offsets is what it
\* shows, although its activities may be rejected afterwards.
PublishedWasReviewed ==
  \A i \in Item : Has(row, i) =>
    /\ Kind[i] \in {"INVENTORY", "ASSESSMENT", "DISCLOSURE"}
         /\ In(row, i, {"APPROVED", "PUBLISHED", "CLOSED", "ARCHIVED"}) => Independently(row, i)
    /\ Kind[i] = "ACTIVITY" /\ In(row, i, {"VERIFIED"}) => Independently(row, i)
    /\ Kind[i] = "INVENTORY" => row[i].net = Max({0, Gross(row[i].of) - Offset[i]})
=============================================================================
