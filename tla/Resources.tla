------------------------------ MODULE Resources -----------------------------
(* The people and the plant that projects are staffed with: workforce      *)
(* plans and their assignments (StaffingSpec), equipment and its           *)
(* deployments (EquipmentSpec), payroll runs (PayrollSpec).                *)
EXTENDS Rows, FiniteSetsExt

-----------------------------------------------------------------------------
(* Workforce planning (modules/workforceops, application/services.py):     *)
(* plans under a retained policy, their demands, the workers assigned to   *)
(* them, credentials, approvals and risks.                                 *)
(*                                                                         *)
(* assign_worker locks the demand and, by its joins, the plan and the      *)
(* policy; it reads the credentials, which it does not lock: two steps.    *)
(* transition_plan reads approvals it does not lock, but a decided one is  *)
(* final.  Policies and skills are inserted and never changed: the policy  *)
(* is what the constants say.                                              *)

CONSTANTS
  Actor, Plan, Demand, Worker, Day, StaffingStep, StaffingRisk,
  Required,      \* quantity_required of every demand
  StaffingTransitions,   \* records [from, to, needs]: a step of needs must be accepted
  StaffingInitial, StaffingImmutable, Accepted, Decisions,
  MakerChecker,  \* maker_checker_required
  Enforcement,   \* credential_enforcement: BLOCK, RISK or OFF
  MaxOpen        \* bound: transactions open at once

\* The policy: clean() of a version takes no transition to where it starts and
\* none twice, and an approval that it asks for has statuses that satisfy it.
StaffingPolicy ==
  /\ Enforcement \in {"BLOCK", "RISK", "OFF"} /\ MakerChecker \in BOOLEAN
  /\ \A t \in StaffingTransitions : t.from # t.to /\ t.needs \subseteq StaffingStep
  /\ \A t, u \in StaffingTransitions : t.from = u.from /\ t.to = u.to => t = u
  /\ (\E t \in StaffingTransitions : t.needs # {}) => Accepted # {}

WorkforceAssumption ==
  /\ IsFiniteSet(Worker) /\ IsFiniteSet(Day) /\ Required \in Nat \ {0} /\ MaxOpen \in Nat
  /\ StaffingPolicy /\ Nobody \notin Actor
  /\ "ABSENT" \notin {StaffingInitial} \cup {t.to : t \in StaffingTransitions} \cup Accepted \cup Decisions

VARIABLES
  plan,        \* Plan -> row
  demand,      \* Demand -> row: its plan, quantity_filled
  assigned,    \* set of assignments [demand, worker, starts]
  credential,  \* workers whose mandatory skills are verified and not expired
  staffingApproval,    \* Plan -> Step -> row: requested by and from whom, decided by whom
  staffingRisk,        \* Risk -> row: OPEN (by hand), GAP (by assign_worker), RESOLVED
  staffingTx           \* transactions of assign_worker between checks and commit

staffingVars == <<plan, demand, assigned, credential, staffingApproval, staffingRisk, staffingTx>>

PlanRow == [status : {StaffingInitial} \cup {t.to : t \in StaffingTransitions}]

DemandRow == [status : {"OPEN", "FILLED"}, plan : Plan, filled : 0..Required]

AssignmentRow == [demand : Demand, worker : Worker, starts : Day]

StaffingApprovalRow ==
  [status : {"REQUESTED"} \cup Accepted \cup Decisions, by : Actor, from : Actor,
   decider : Actor \cup {Nobody}]

StaffingRiskRow == [status : {"OPEN", "GAP", "RESOLVED"}]

StaffingInit ==
  /\ plan = [p \in Plan |-> Absent] /\ demand = [d \in Demand |-> Absent]
  /\ staffingApproval = [p \in Plan |-> [s \in StaffingStep |-> Absent]]
  /\ staffingRisk = [r \in StaffingRisk |-> Absent]
  /\ assigned = {} /\ credential = {} /\ staffingTx = {}

-----------------------------------------------------------------------------
\* _plan_is_immutable
StaffingFrozen(p) == In(plan, p, StaffingImmutable)

CreatePlan(p) ==
  /\ ~Has(plan, p)
  /\ plan' = [plan EXCEPT ![p] = [status |-> StaffingInitial]]
  /\ UNCHANGED <<demand, assigned, credential, staffingApproval, staffingRisk, staffingTx>>

CreateDemand(d, p) ==
  /\ ~Has(demand, d) /\ Has(plan, p) /\ Unlocked(staffingTx, {<<"plan", p>>}) /\ ~StaffingFrozen(p)
  /\ demand' = [demand EXCEPT ![d] = [status |-> "OPEN", plan |-> p, filled |-> 0]]
  /\ UNCHANGED <<plan, assigned, credential, staffingApproval, staffingRisk, staffingTx>>

\* An approval that required_approvals of a transition looks for.
StaffingApproved(p, s) == In(staffingApproval[p], s, Accepted) /\ staffingApproval[p][s].decider # Nobody

TransitionPlan(p) ==
  /\ Has(plan, p) /\ Unlocked(staffingTx, {<<"plan", p>>}) /\ ~StaffingFrozen(p)
  /\ \E t \in StaffingTransitions :
       /\ t.from = plan[p].status /\ \A s \in t.needs : StaffingApproved(p, s)
       /\ plan' = Moved(plan, p, t.to)
  /\ UNCHANGED <<demand, assigned, credential, staffingApproval, staffingRisk, staffingTx>>

-----------------------------------------------------------------------------
(* Assignment.                                                             *)

LocksOfDemand(d) == {<<"demand", d>>, <<"plan", demand[d].plan>>}

CheckAssignment(d, w, s) ==
  /\ Has(demand, d) /\ Cardinality(staffingTx) < MaxOpen /\ Unlocked(staffingTx, LocksOfDemand(d))
  /\ ~StaffingFrozen(demand[d].plan) /\ demand[d].filled < Required
  /\ Enforcement = "BLOCK" => w \in credential
  /\ staffingTx' = staffingTx \cup {[row |-> [demand |-> d, worker |-> w, starts |-> s],
                                     gap |-> w \notin credential /\ Enforcement = "RISK",
                                     locks |-> LocksOfDemand(d)]}
  /\ UNCHANGED <<plan, demand, assigned, credential, staffingApproval, staffingRisk>>

\* The assignment, the count and the risk of the gap are one transaction;
\* wassign_demand_emp_start_uq refuses the same worker for the same day.
CommitAssignment(t) ==
  LET d == t.row.demand IN
  /\ t.row \notin assigned
  /\ assigned' = assigned \cup {t.row}
  /\ demand' = [demand EXCEPT ![d].filled = @ + 1,
                  ![d].status = IF demand[d].filled + 1 = Required THEN "FILLED" ELSE @]
  /\ IF t.gap THEN \E r \in StaffingRisk : ~Has(staffingRisk, r) /\ staffingRisk' = [staffingRisk EXCEPT ![r] = [status |-> "GAP"]]
              ELSE staffingRisk' = staffingRisk
  /\ staffingTx' = staffingTx \ {t}
  /\ UNCHANGED <<plan, credential, staffingApproval>>

RollbackAssignment(t) ==
  /\ staffingTx' = staffingTx \ {t}
  /\ UNCHANGED <<plan, demand, assigned, credential, staffingApproval, staffingRisk>>

\* upsert_credential sets every attribute it is given, forwards or back.
UpsertCredential(w) ==
  /\ credential' \in {credential \cup {w}, credential \ {w}}
  /\ UNCHANGED <<plan, demand, assigned, staffingApproval, staffingRisk, staffingTx>>

-----------------------------------------------------------------------------
(* Approvals and risks.                                                    *)

\* The status of a request is the caller's; a step is asked for once a plan.
StaffingRequestApproval(p, s, a, m) ==
  /\ Has(plan, p) /\ ~Has(staffingApproval[p], s)
  /\ \E status \in {"REQUESTED"} \cup Accepted :
       staffingApproval' = [staffingApproval EXCEPT ![p][s] =
         [status |-> status, by |-> a, from |-> m, decider |-> Nobody]]
  /\ UNCHANGED <<plan, demand, assigned, credential, staffingRisk, staffingTx>>

\* The lock on the approval joins the plan.
StaffingDecideApproval(p, s, a) ==
  /\ Has(staffingApproval[p], s) /\ Unlocked(staffingTx, {<<"plan", p>>})
  /\ staffingApproval[p][s].decider = Nobody /\ staffingApproval[p][s].from = a
  /\ MakerChecker => staffingApproval[p][s].by # a
  /\ \E status \in Decisions :
       staffingApproval' = [staffingApproval EXCEPT ![p][s].status = status, ![p][s].decider = a]
  /\ UNCHANGED <<plan, demand, assigned, credential, staffingRisk, staffingTx>>

StaffingCreateRisk(r) ==
  /\ ~Has(staffingRisk, r)
  /\ staffingRisk' = [staffingRisk EXCEPT ![r] = [status |-> "OPEN"]]
  /\ UNCHANGED <<plan, demand, assigned, credential, staffingApproval, staffingTx>>

StaffingResolveRisk(r) ==
  /\ In(staffingRisk, r, {"OPEN", "GAP"})
  /\ staffingRisk' = Moved(staffingRisk, r, "RESOLVED")
  /\ UNCHANGED <<plan, demand, assigned, credential, staffingApproval, staffingTx>>

StaffingNext ==
  \/ \E p \in Plan : CreatePlan(p) \/ TransitionPlan(p) \/ \E d \in Demand : CreateDemand(d, p)
  \/ \E d \in Demand, w \in Worker, s \in Day : CheckAssignment(d, w, s)
  \/ \E t \in staffingTx : CommitAssignment(t) \/ RollbackAssignment(t)
  \/ \E w \in Worker : UpsertCredential(w)
  \/ \E p \in Plan, s \in StaffingStep, a \in Actor :
       StaffingDecideApproval(p, s, a) \/ \E m \in Actor : StaffingRequestApproval(p, s, a, m)
  \/ \E r \in StaffingRisk : StaffingCreateRisk(r) \/ StaffingResolveRisk(r)

StaffingSpec == StaffingInit /\ [][StaffingNext]_staffingVars

-----------------------------------------------------------------------------
StaffingTypeOK ==
  /\ plan \in [Plan -> PlanRow \cup {Absent}]
  /\ demand \in [Demand -> DemandRow \cup {Absent}]
  /\ assigned \subseteq AssignmentRow /\ credential \subseteq Worker
  /\ staffingApproval \in [Plan -> [StaffingStep -> StaffingApprovalRow \cup {Absent}]]
  /\ staffingRisk \in [StaffingRisk -> StaffingRiskRow \cup {Absent}]

\* The count of a demand is the number of its assignments, never more than it
\* asks for, and it reads FILLED from the last one on, whatever assignments,
\* refusals and rollbacks came between.
StaffingAgrees ==
  \A d \in Demand : Has(demand, d) =>
    /\ demand[d].filled = Cardinality({x \in assigned : x.demand = d})
    /\ demand[d].filled <= Required
    /\ In(demand, d, {"FILLED"}) <=> demand[d].filled = Required

\* A plan in a status that only gated transitions lead to has its steps decided
\* by someone other than who asked.
PlansWereReviewed ==
  \A p \in Plan : Has(plan, p) /\ plan[p].status # StaffingInitial =>
    \E t \in StaffingTransitions :
      /\ t.to = plan[p].status
      /\ \A s \in t.needs : /\ StaffingApproved(p, s)
                            /\ MakerChecker => staffingApproval[p][s].decider # staffingApproval[p][s].by

\* Once a plan is immutable nobody is added to it: an assignment that was
\* checked before the plan was locked cannot commit after.
LockedPlanFrozen ==
  \A d \in Demand : Has(demand, d) /\ StaffingFrozen(demand[d].plan) =>
    demand'[d] = demand[d] /\ {x \in assigned' : x.demand = d} = {x \in assigned : x.demand = d}

-----------------------------------------------------------------------------
(* Plant and equipment (modules/equipmentops, application/services.py):    *)
(* assets, deployments, meter readings, maintenance work orders with their *)
(* approvals, inspections and risks.                                       *)
(*                                                                         *)
(* Every service locks the asset, or the work order and by its joins the   *)
(* asset, for what it decides.  create_deployment looks for deployments    *)
(* that overlap after it has the lock: it is two steps here, so that the   *)
(* lock is seen to matter.  The policy is what the constants say.          *)

CONSTANTS
  Asset, Deployment, Period, Order, EquipmentStep, Reading, EquipmentRisk,
  EquipmentInitial, Deployed, Held, EquipmentImmutable,                     \* asset statuses of the policy
  EquipmentTransitions,                                                     \* records [from, to, needs] for work orders
  AssetStatus,                                                              \* asset_status_by_work_order_status
  Regression,                                                               \* meter_regression_action: BLOCK, RISK, OFF
  MaxMeter                                                                  \* bounds: readings; transactions open at once

\* The policy: clean() of a version takes no transition to where it starts and
\* none twice, and an approval that it asks for has statuses that satisfy it.
EquipmentPolicy ==
  /\ Regression \in {"BLOCK", "RISK", "OFF"}
  /\ \A t \in EquipmentTransitions : t.from # t.to /\ t.needs \subseteq EquipmentStep
  /\ \A t, u \in EquipmentTransitions : t.from = u.from /\ t.to = u.to => t = u
  /\ (\E t \in EquipmentTransitions : t.needs # {}) => Accepted # {}

EquipmentAssumption ==
  /\ IsFiniteSet(Asset) /\ MaxMeter \in Nat /\ MaxOpen \in Nat
  /\ EquipmentPolicy
  /\ "ABSENT" \notin {EquipmentInitial, Deployed, Held} \cup EquipmentImmutable \cup {AssetStatus[s] : s \in DOMAIN AssetStatus}
  /\ \A d \in Deployment : IsFiniteSet(Period[d])

VARIABLES
  asset,              \* Asset -> row: status, current_meter_value, compliance_due_on set
  deployment,         \* Deployment -> row; its status is never changed
  order,              \* Order -> row
  equipmentApproval,  \* Order -> Step -> row
  reading,            \* Reading -> row: asset and value
  equipmentRisk,      \* Risk -> row
  equipmentTx         \* transactions of create_deployment between checks and commit

equipmentVars == <<asset, deployment, order, equipmentApproval, reading, equipmentRisk, equipmentTx>>

OrderStatus == {"REPORTED"} \cup {t.to : t \in EquipmentTransitions}

AssetRow ==
  [status : {EquipmentInitial, Deployed, Held} \cup {AssetStatus[s] : s \in DOMAIN AssetStatus},
   meter : 0..MaxMeter, due : BOOLEAN]

DeploymentRow == [status : {"ACTIVE"}, asset : Asset]

OrderRow == [status : OrderStatus, asset : Asset]

EquipmentApprovalRow ==
  [status : {"REQUESTED"} \cup Accepted \cup Decisions, by : Actor, from : Actor,
   decider : Actor \cup {Nobody}]

ReadingRow == [status : {"RECORDED"}, asset : Asset, value : 0..MaxMeter]

EquipmentRiskRow == [status : {"OPEN", "RESOLVED"}]

EquipmentInit ==
  /\ asset = [a \in Asset |-> Absent] /\ deployment = [d \in Deployment |-> Absent]
  /\ order = [w \in Order |-> Absent] /\ equipmentTx = {}
  /\ equipmentApproval = [w \in Order |-> [s \in EquipmentStep |-> Absent]]
  /\ reading = [r \in Reading |-> Absent] /\ equipmentRisk = [r \in EquipmentRisk |-> Absent]

-----------------------------------------------------------------------------
(* Assets and deployments.                                                 *)

\* _asset_is_immutable
EquipmentFrozen(a) == In(asset, a, EquipmentImmutable)

AssetLock(a) == {<<"asset", a>>}

CreateAsset(a) ==
  /\ ~Has(asset, a)
  /\ \E meter \in 0..MaxMeter :
       asset' = [asset EXCEPT ![a] = [status |-> EquipmentInitial, meter |-> meter, due |-> FALSE]]
  /\ UNCHANGED <<deployment, order, equipmentApproval, reading, equipmentRisk, equipmentTx>>

\* A deployment of the asset that is in the way of d.
Overlapped(d, a) ==
  \E e \in Deployment : /\ Has(deployment, e) /\ deployment[e].asset = a
                        /\ Period[e] \cap Period[d] # {}

\* Mutant: the asset is read, not locked.
LocksOfNothing(a) == {}

LocksOfDeployment(a) == AssetLock(a)

CheckDeployment(d, a) ==
  /\ ~Has(deployment, d) /\ Has(asset, a) /\ ~EquipmentFrozen(a)
  /\ Cardinality(equipmentTx) < MaxOpen /\ Unlocked(equipmentTx, LocksOfDeployment(a)) /\ ~Overlapped(d, a)
  /\ equipmentTx' = equipmentTx \cup {[deployment |-> d, asset |-> a, locks |-> LocksOfDeployment(a)]}
  /\ UNCHANGED <<asset, deployment, order, equipmentApproval, reading, equipmentRisk>>

\* eqdeploy_company_code_uq refuses the code a second time.
CommitDeployment(t) ==
  /\ ~Has(deployment, t.deployment)
  /\ deployment' = [deployment EXCEPT ![t.deployment] = [status |-> "ACTIVE", asset |-> t.asset]]
  /\ asset' = Moved(asset, t.asset, Deployed)
  /\ equipmentTx' = equipmentTx \ {t}
  /\ UNCHANGED <<order, equipmentApproval, reading, equipmentRisk>>

RollbackDeployment(t) ==
  /\ equipmentTx' = equipmentTx \ {t}
  /\ UNCHANGED <<asset, deployment, order, equipmentApproval, reading, equipmentRisk>>

-----------------------------------------------------------------------------
(* Meter and inspections, also of an asset that is immutable.              *)

\* A risk is raised with the row it is about, or none is.
Raised(r, wanted) ==
  IF wanted THEN ~Has(equipmentRisk, r) /\ equipmentRisk' = [equipmentRisk EXCEPT ![r] = [status |-> "OPEN"]]
            ELSE equipmentRisk' = equipmentRisk

Refused(a, value) == Regression = "BLOCK" /\ value < asset[a].meter

RecordMeterReading(n, a, value, r) ==
  /\ ~Has(reading, n) /\ Has(asset, a) /\ Unlocked(equipmentTx, AssetLock(a)) /\ ~Refused(a, value)
  /\ reading' = [reading EXCEPT ![n] = [status |-> "RECORDED", asset |-> a, value |-> value]]
  /\ asset' = [asset EXCEPT ![a].meter = value]
  /\ Raised(r, value < asset[a].meter /\ Regression = "RISK")
  /\ UNCHANGED <<deployment, order, equipmentApproval, equipmentTx>>

RecordInspection(a, accepted, r) ==
  /\ Has(asset, a) /\ Unlocked(equipmentTx, AssetLock(a))
  /\ \E dated \in BOOLEAN : asset' = [asset EXCEPT ![a].due = @ \/ (accepted /\ dated)]
  /\ Raised(r, ~accepted)
  /\ UNCHANGED <<deployment, order, reading, equipmentApproval, equipmentTx>>

-----------------------------------------------------------------------------
(* Work orders.                                                            *)

\* What a work order does to its asset, unless the asset is immutable.
Restated(a, status) == IF EquipmentFrozen(a) THEN asset ELSE Moved(asset, a, status)

\* A priority of maintenance_hold_priorities puts the asset on hold.
CreateWorkOrder(w, a, urgent) ==
  /\ ~Has(order, w) /\ Has(asset, a) /\ Unlocked(equipmentTx, AssetLock(a))
  /\ order' = [order EXCEPT ![w] = [status |-> "REPORTED", asset |-> a]]
  /\ asset' = IF urgent THEN Restated(a, Held) ELSE asset
  /\ UNCHANGED <<deployment, equipmentApproval, reading, equipmentRisk, equipmentTx>>

\* Whoever requested it and whether it was decided is not asked.
EquipmentApproved(w, s) == In(equipmentApproval[w], s, Accepted)

TransitionWorkOrder(w) ==
  /\ Has(order, w) /\ Unlocked(equipmentTx, AssetLock(order[w].asset))
  /\ \E t \in EquipmentTransitions :
       /\ t.from = order[w].status /\ \A s \in t.needs : EquipmentApproved(w, s)
       /\ order' = Moved(order, w, t.to)
       /\ asset' = IF t.to \in DOMAIN AssetStatus
                   THEN Restated(order[w].asset, AssetStatus[t.to]) ELSE asset
  /\ UNCHANGED <<deployment, equipmentApproval, reading, equipmentRisk, equipmentTx>>

\* The status of a request is the caller's; eqapproval_order_step_uq.
EquipmentRequestApproval(w, s, a, m) ==
  /\ Has(order, w) /\ ~Has(equipmentApproval[w], s)
  /\ \E status \in {"REQUESTED"} \cup Accepted :
       equipmentApproval' = [equipmentApproval EXCEPT ![w][s] =
         [status |-> status, by |-> a, from |-> m, decider |-> Nobody]]
  /\ UNCHANGED <<asset, deployment, order, reading, equipmentRisk, equipmentTx>>

EquipmentDecideApproval(w, s, a) ==
  /\ Has(equipmentApproval[w], s) /\ Unlocked(equipmentTx, AssetLock(order[w].asset))
  /\ equipmentApproval[w][s].decider = Nobody /\ equipmentApproval[w][s].from = a
  /\ MakerChecker => equipmentApproval[w][s].by # a
  /\ \E status \in Decisions :
       equipmentApproval' = [equipmentApproval EXCEPT ![w][s].status = status, ![w][s].decider = a]
  /\ UNCHANGED <<asset, deployment, order, reading, equipmentRisk, equipmentTx>>

EquipmentCreateRisk(r) ==
  /\ ~Has(equipmentRisk, r) /\ \E a \in Asset : Has(asset, a)
  /\ equipmentRisk' = [equipmentRisk EXCEPT ![r] = [status |-> "OPEN"]]
  /\ UNCHANGED <<asset, deployment, order, equipmentApproval, reading, equipmentTx>>

EquipmentResolveRisk(r) ==
  /\ In(equipmentRisk, r, {"OPEN"})
  /\ equipmentRisk' = Moved(equipmentRisk, r, "RESOLVED")
  /\ UNCHANGED <<asset, deployment, order, equipmentApproval, reading, equipmentTx>>

EquipmentNext ==
  \/ \E a \in Asset : \/ CreateAsset(a)
                      \/ \E d \in Deployment : CheckDeployment(d, a)
                      \/ \E w \in Order, urgent \in BOOLEAN : CreateWorkOrder(w, a, urgent)
  \/ \E t \in equipmentTx : CommitDeployment(t) \/ RollbackDeployment(t)
  \/ \E a \in Asset, r \in EquipmentRisk : \/ \E accepted \in BOOLEAN : RecordInspection(a, accepted, r)
                                           \/ \E n \in Reading, v \in 0..MaxMeter : RecordMeterReading(n, a, v, r)
  \/ \E w \in Order : TransitionWorkOrder(w)
  \/ \E w \in Order, s \in EquipmentStep, a \in Actor :
       EquipmentDecideApproval(w, s, a) \/ \E m \in Actor : EquipmentRequestApproval(w, s, a, m)
  \/ \E r \in EquipmentRisk : EquipmentCreateRisk(r) \/ EquipmentResolveRisk(r)

EquipmentSpec == EquipmentInit /\ [][EquipmentNext]_equipmentVars

-----------------------------------------------------------------------------
EquipmentTypeOK ==
  /\ asset \in [Asset -> AssetRow \cup {Absent}]
  /\ deployment \in [Deployment -> DeploymentRow \cup {Absent}]
  /\ order \in [Order -> OrderRow \cup {Absent}]
  /\ equipmentApproval \in [Order -> [EquipmentStep -> EquipmentApprovalRow \cup {Absent}]]
  /\ reading \in [Reading -> ReadingRow \cup {Absent}]
  /\ equipmentRisk \in [EquipmentRisk -> EquipmentRiskRow \cup {Absent}]

\* An asset is never in two places: no two of its deployments overlap, though
\* two callers may look for overlaps at the same time.
NoDoubleDeployment ==
  \A d, e \in Deployment :
    d # e /\ Has(deployment, d) /\ Has(deployment, e) /\ deployment[d].asset = deployment[e].asset
      => Period[d] \cap Period[e] = {}

\* Where regressions are blocked, no reading is above the meter of its asset.
MeterIsHighest ==
  Regression = "BLOCK" =>
    \A n \in Reading : Has(reading, n) => reading[n].value <= asset[reading[n].asset].meter

\* An asset in an immutable status keeps it, whatever deployment was under way
\* and whatever its work orders still do.
RetiredAssetStays ==
  \A a \in Asset : EquipmentFrozen(a) => asset'[a].status = asset[a].status

-----------------------------------------------------------------------------
(* Payroll runs (modules/payrollops, application/services.py): runs of a   *)
(* period, their lines and totals, approvals, exceptions.                  *)
(*                                                                         *)
(* upsert_run_lines, transition_run and decide_approval lock the run and,  *)
(* by a join, the policy.  Writing lines and totals is two steps here, so  *)
(* that the lock is seen to matter.  Policies and periods are inserted and *)
(* never changed; the policy is what the constants say.  Exceptions come   *)
(* from outside these services: they are part of the first state.          *)

CONSTANTS
  Run, Employee, PayrollStep, Exception,
  Amount,                                 \* records [gross, deduction] a line may have
  PayrollTransitions,                     \* records [from, to, needs, segregated]
  PayrollInitial, PayrollImmutable,
  RunOf                                   \* exception -> run

\* The policy: clean() of a version takes no transition to where it starts and
\* none twice, and an approval that it asks for has statuses that satisfy it.
PayrollPolicy ==
  /\ \A t \in PayrollTransitions : t.from # t.to /\ t.needs \subseteq PayrollStep
  /\ \A t, u \in PayrollTransitions : t.from = u.from /\ t.to = u.to => t = u
  /\ (\E t \in PayrollTransitions : t.needs # {}) => Accepted # {}

PayrollAssumption ==
  /\ PayrollPolicy /\ RunOf \in [Exception -> Run]
  /\ "ABSENT" \notin {PayrollInitial} \cup {t.to : t \in PayrollTransitions} \cup PayrollImmutable
  /\ IsFiniteSet(Employee) /\ IsFiniteSet(Exception) /\ MaxOpen \in Nat
  /\ \A x \in Amount : x.gross \in Nat /\ x.deduction \in Nat

VARIABLES
  run,              \* Run -> row: initiated by, totals, counts
  line,             \* Run -> Employee -> row
  payrollApproval,  \* Run -> Step -> row
  exception,        \* Exception -> row
  payrollTx         \* transactions of upsert_run_lines between checks and commit

payrollVars == <<run, line, payrollApproval, exception, payrollTx>>

RunRow ==
  [status : {PayrollInitial} \cup {t.to : t \in PayrollTransitions}, by : Actor, gross : Nat, net : Nat,
   employees : 0..Cardinality(Employee), exceptions : 0..Cardinality(Exception)]

LineRow == [status : {"CALCULATED"}, gross : Nat, net : Nat]

PayrollApprovalRow ==
  [status : {"REQUESTED"} \cup Accepted \cup Decisions, by : Actor, from : Actor,
   decider : Actor \cup {Nobody}]

ExceptionRow == [status : {"OPEN", "RESOLVED"}]

PayrollInit ==
  /\ run = [r \in Run |-> Absent] /\ payrollTx = {}
  /\ line = [r \in Run |-> [e \in Employee |-> Absent]]
  /\ payrollApproval = [r \in Run |-> [s \in PayrollStep |-> Absent]]
  /\ exception = [x \in Exception |-> Absent]

-----------------------------------------------------------------------------
OpenExceptions(table, r) == Cardinality({x \in Exception : RunOf[x] = r /\ In(table, x, {"OPEN"})})

\* payrun_period_number_uq refuses the number a second time.
CreateRun(r, a) ==
  /\ ~Has(run, r)
  /\ run' = [run EXCEPT ![r] = [status |-> PayrollInitial, by |-> a, gross |-> 0, net |-> 0,
                                employees |-> 0, exceptions |-> 0]]
  /\ UNCHANGED <<line, payrollApproval, exception, payrollTx>>

\* An exception recorded by the calculation that feeds the run.
RaiseException(x) ==
  /\ ~Has(exception, x) /\ Has(run, RunOf[x])
  /\ exception' = [exception EXCEPT ![x] = [status |-> "OPEN"]]
  /\ UNCHANGED <<run, line, payrollApproval, payrollTx>>

PayrollApproved(r, s) == In(payrollApproval[r], s, Accepted) /\ payrollApproval[r][s].decider # Nobody

TransitionRun(r, a) ==
  /\ Has(run, r) /\ Unlocked(payrollTx, {r, "policy"})
  /\ \E t \in PayrollTransitions :
       /\ t.from = run[r].status /\ \A s \in t.needs : PayrollApproved(r, s)
       /\ t.segregated => run[r].by # a
       /\ run' = Moved(run, r, t.to)
  /\ UNCHANGED <<line, payrollApproval, exception, payrollTx>>

-----------------------------------------------------------------------------
(* Lines and totals.                                                       *)

LocksOfRun(r) == {r, "policy"}

CheckLines(r, lines) ==
  /\ Has(run, r) /\ Cardinality(payrollTx) < MaxOpen /\ Unlocked(payrollTx, LocksOfRun(r))
  /\ run[r].status \notin PayrollImmutable
  /\ \A e \in DOMAIN lines : lines[e].deduction <= lines[e].gross
  /\ payrollTx' = payrollTx \cup {[run |-> r, lines |-> lines, locks |-> LocksOfRun(r)]}
  /\ UNCHANGED <<run, line, payrollApproval, exception>>

\* The totals are those of all lines of the run.
TotalOf(table, lines, field) ==
  MapThenSumSet(LAMBDA e : table[e][field], {e \in Employee : Has(table, e)})

CommitLines(t) ==
  LET r == t.run
      table == [e \in Employee |->
        IF e \in DOMAIN t.lines
        THEN [status |-> "CALCULATED", gross |-> t.lines[e].gross,
              net |-> t.lines[e].gross - t.lines[e].deduction]
        ELSE line[r][e]]
  IN /\ line' = [line EXCEPT ![r] = table]
     /\ run' = [run EXCEPT ![r].gross = TotalOf(table, t.lines, "gross"),
                           ![r].net = TotalOf(table, t.lines, "net"),
                           ![r].employees = Cardinality({e \in Employee : Has(table, e)}),
                           ![r].exceptions = OpenExceptions(exception, r)]
     /\ payrollTx' = payrollTx \ {t}
     /\ UNCHANGED <<payrollApproval, exception>>

RollbackLines(t) == payrollTx' = payrollTx \ {t} /\ UNCHANGED <<run, line, payrollApproval, exception>>

-----------------------------------------------------------------------------
(* Approvals and exceptions.                                               *)

\* The status of a request is the caller's; payapproval_run_step_uq.
PayrollRequestApproval(r, s, a, m) ==
  /\ Has(run, r) /\ ~Has(payrollApproval[r], s) /\ Unlocked(payrollTx, {r})
  /\ \E status \in {"REQUESTED"} \cup Accepted :
       payrollApproval' = [payrollApproval EXCEPT ![r][s] =
         [status |-> status, by |-> a, from |-> m, decider |-> Nobody]]
  /\ UNCHANGED <<run, line, exception, payrollTx>>

\* Assignment and segregation of duties as policies have them by default.
PayrollDecideApproval(r, s, a) ==
  /\ Has(payrollApproval[r], s) /\ Unlocked(payrollTx, {r, "policy"})
  /\ payrollApproval[r][s].decider = Nobody /\ payrollApproval[r][s].from = a /\ payrollApproval[r][s].by # a
  /\ \E status \in Decisions :
       payrollApproval' = [payrollApproval EXCEPT ![r][s].status = status, ![r][s].decider = a]
  /\ UNCHANGED <<run, line, exception, payrollTx>>

\* The run is locked and counted again, immutable or not.
ResolveException(x) ==
  /\ In(exception, x, {"OPEN"}) /\ Unlocked(payrollTx, {RunOf[x]})
  /\ exception' = Moved(exception, x, "RESOLVED")
  /\ run' = [run EXCEPT ![RunOf[x]].exceptions = OpenExceptions(exception', RunOf[x])]
  /\ UNCHANGED <<line, payrollApproval, payrollTx>>

Sent == UNION {[es -> Amount] : es \in SUBSET Employee \ {{}}}

PayrollNext ==
  \/ \E r \in Run, a \in Actor : CreateRun(r, a) \/ TransitionRun(r, a)
  \/ \E r \in Run, lines \in Sent : CheckLines(r, lines)
  \/ \E t \in payrollTx : CommitLines(t) \/ RollbackLines(t)
  \/ \E r \in Run, s \in PayrollStep, a \in Actor :
       PayrollDecideApproval(r, s, a) \/ \E m \in Actor : PayrollRequestApproval(r, s, a, m)
  \/ \E x \in Exception : RaiseException(x) \/ ResolveException(x)

PayrollSpec == PayrollInit /\ [][PayrollNext]_payrollVars

-----------------------------------------------------------------------------
PayrollTypeOK ==
  /\ run \in [Run -> RunRow \cup {Absent}]
  /\ line \in [Run -> [Employee -> LineRow \cup {Absent}]]
  /\ payrollApproval \in [Run -> [PayrollStep -> PayrollApprovalRow \cup {Absent}]]
  /\ exception \in [Exception -> ExceptionRow \cup {Absent}]

\* The totals of a run are those of its lines, whichever lines were sent in
\* which order and by how many callers at once.
PayrollAddsUp ==
  \A r \in Run : Has(run, r) =>
    LET paid == {e \in Employee : Has(line[r], e)} IN
    /\ run[r].gross = MapThenSumSet(LAMBDA e : line[r][e].gross, paid)
    /\ run[r].net = MapThenSumSet(LAMBDA e : line[r][e].net, paid)
    /\ run[r].employees = Cardinality(paid)

\* A run in an immutable status keeps its lines and its totals, also when lines
\* were being written while it was approved.
PaidRunFrozen ==
  \A r \in Run : run[r].status \in PayrollImmutable =>
    line'[r] = line[r] /\ run'[r].gross = run[r].gross /\ run'[r].net = run[r].net
=============================================================================
