---------------------------- MODULE DeliveryProofs ----------------------------
(***************************************************************************)
(* Proofs about the work on a site, for any number of rows and callers:    *)
(* staffing, plant and payroll (Resources), quality and safety             *)
(* (QualitySafety), work items (WorkOps).                                  *)
(*                                                                         *)
(* Types; that the count of a demand is the number of its assignments;     *)
(* that plans, machines and runs in an immutable status keep what they     *)
(* have; that no machine is in two places; that a payroll run is the sum   *)
(* of its lines; that plans, quality and safety records and work items got *)
(* where they are by decisions of others than who asked; that failed       *)
(* inspections and critical incidents have their follow-up; that progress  *)
(* never falls.                                                            *)
(*                                                                         *)
(* An assignment, a deployment or a change of lines is a lock with checks  *)
(* and a later commit.  The invariants add to the properties that what was *)
(* checked under the lock still stands at the commit (StaffingTxOK,        *)
(* EquipmentTxOK, PayrollTxOK), that one transaction at a time holds a     *)
(* row, and that rows which others refer to do not go away.  A decision is *)
(* final and never made by who asked for it: what was reviewed stays so.   *)
(***************************************************************************)
EXTENDS Resources, QualitySafety, WorkOps, FiniteSetTheorems, TLAPS

-----------------------------------------------------------------------------
(* Staffing.                                                               *)

\* The demand asks for one more, and its plan, which exists, may be changed.
StaffingTxOK(t) ==
  /\ t.row \in AssignmentRow /\ t.locks = LocksOfDemand(t.row.demand)
  /\ Has(demand, t.row.demand) /\ demand[t.row.demand].filled < Required
  /\ ~StaffingFrozen(demand[t.row.demand].plan)

StaffingLinked ==
  /\ \A d \in Demand : Has(demand, d) => Has(plan, demand[d].plan)
  /\ \A x \in assigned : Has(demand, x.demand)

StaffingBase ==
  /\ StaffingTypeOK /\ IsFiniteSet(assigned) /\ StaffingLinked
  /\ \A t, u \in staffingTx : t.row.demand = u.row.demand => t = u
  /\ \A t \in staffingTx : StaffingTxOK(t)

\* A decision was made by another than who asked, where the policy wants that.
DecisionsStand ==
  \A p \in Plan, s \in StaffingStep :
    /\ Has(staffingApproval[p], s) /\ staffingApproval[p][s].decider # Nobody /\ MakerChecker
    => staffingApproval[p][s].decider # staffingApproval[p][s].by

StaffingInv == StaffingBase /\ StaffingAgrees /\ DecisionsStand /\ PlansWereReviewed

-----------------------------------------------------------------------------
(* Equipment.                                                              *)

\* The machine exists, may be deployed, and nothing of it is in the way.
EquipmentTxOK(t) ==
  /\ t.deployment \in Deployment /\ t.asset \in Asset /\ t.locks = LocksOfDeployment(t.asset)
  /\ Has(asset, t.asset) /\ ~EquipmentFrozen(t.asset)
  /\ ~Overlapped(t.deployment, t.asset)

EquipmentLinked ==
  /\ \A w \in Order : Has(order, w) => Has(asset, order[w].asset)
  /\ \A n \in Reading : Has(reading, n) => Has(asset, reading[n].asset)

EquipmentInv ==
  /\ EquipmentTypeOK /\ EquipmentLinked
  /\ \A t, u \in equipmentTx : t.asset = u.asset => t = u
  /\ \A t \in equipmentTx : EquipmentTxOK(t)
  /\ NoDoubleDeployment /\ MeterIsHighest

-----------------------------------------------------------------------------
(* Payroll.                                                                *)

\* The sums over the lines there are.
Gross(table) == MapThenSumSet(LAMBDA e : table[e].gross, {e \in Employee : Has(table, e)})
Net(table) == MapThenSumSet(LAMBDA e : table[e].net, {e \in Employee : Has(table, e)})

RunAddsUp(r) ==
  /\ run[r].gross = Gross(line[r]) /\ run[r].net = Net(line[r])
  /\ run[r].employees = Cardinality({e \in Employee : Has(line[r], e)})

LineTable == [Employee -> LineRow \cup {Absent}]

\* What the proofs need to know of a run: its sums are those of some lines.
SummedRow ==
  [status : {PayrollInitial} \cup {t.to : t \in PayrollTransitions}, by : Actor,
   gross : {Gross(table) : table \in LineTable}, net : {Net(table) : table \in LineTable},
   employees : 0..Cardinality(Employee), exceptions : 0..Cardinality(Exception)]

PayrollTxOK(t) ==
  /\ t.run \in Run /\ t.lines \in Sent /\ t.locks = LocksOfRun(t.run)
  /\ \A e \in DOMAIN t.lines : t.lines[e].deduction <= t.lines[e].gross
  /\ Has(run, t.run) /\ run[t.run].status \notin PayrollImmutable

PayrollInv ==
  /\ run \in [Run -> SummedRow \cup {Absent}]
  /\ line \in [Run -> LineTable]
  /\ payrollApproval \in [Run -> [PayrollStep -> PayrollApprovalRow \cup {Absent}]]
  /\ exception \in [Exception -> ExceptionRow \cup {Absent}]
  /\ \A t, u \in payrollTx : t = u
  /\ \A t \in payrollTx : PayrollTxOK(t)
  /\ \A r \in Run : ~Has(run, r) => \A e \in Employee : ~Has(line[r], e)
  /\ \A x \in Exception : Has(exception, x) => Has(run, RunOf[x])
  /\ \A r \in Run : Has(run, r) => RunAddsUp(r)

-----------------------------------------------------------------------------
(* Tables of rows, and tables of tables.                                   *)

\* One row of a table is replaced.
LEMMA RowReplaced ==
  ASSUME NEW K, NEW Row, NEW table \in [K -> Row \cup {Absent}], NEW k \in K, NEW row \in Row
  PROVE  [table EXCEPT ![k] = row] \in [K -> Row \cup {Absent}]
OBVIOUS

LEMMA RowMoved ==
  ASSUME NEW K, NEW Row, NEW table \in [K -> Row \cup {Absent}], NEW k \in K, NEW to,
         [table[k] EXCEPT !.status = to] \in Row
  PROVE  Moved(table, k, to) \in [K -> Row \cup {Absent}]
<1> DEFINE row == [table[k] EXCEPT !.status = to]
<1>1. Moved(table, k, to) = [table EXCEPT ![k] = row]
  BY DEF Moved
<1>2. row \in Row
  OBVIOUS
<1> HIDE DEF row
<1>3. QED BY <1>1, <1>2

LEMMA ThereIsRow ==
  ASSUME NEW K, NEW Row, NEW table \in [K -> Row \cup {Absent}], NEW k \in K, Has(table, k)
  PROVE  table[k] \in Row
BY DEF Has, Absent

\* One cell of a table of tables is replaced.
Replaced(table, k, l, cell) == [table EXCEPT ![k][l] = cell]

LEMMA CellReplaced ==
  ASSUME NEW K, NEW L, NEW Cell, NEW table \in [K -> [L -> Cell]],
         NEW k \in K, NEW l \in L, NEW cell \in Cell
  PROVE  /\ Replaced(table, k, l, cell) \in [K -> [L -> Cell]]
         /\ Replaced(table, k, l, cell)[k][l] = cell
         /\ \A i \in K, j \in L : i # k \/ j # l => Replaced(table, k, l, cell)[i][j] = table[i][j]
<1> DEFINE inner == [table[k] EXCEPT ![l] = cell]
<1>1. inner \in [L -> Cell] /\ inner[l] = cell /\ \A j \in L : j # l => inner[j] = table[k][j]
  OBVIOUS
<1> DEFINE after == Replaced(table, k, l, cell)
<1>2. after = [table EXCEPT ![k] = inner]
  BY DEF Replaced
<1> HIDE DEF inner, after
<1>3. after \in [K -> [L -> Cell]] /\ after[k] = inner /\ \A i \in K : i # k => after[i] = table[i]
  BY <1>1, <1>2
<1>4. QED BY <1>1, <1>3 DEF after

\* The three services have one shape of approvals: asked for once ...
AskedRow(status, a, m) == [status |-> status, by |-> a, from |-> m, decider |-> Nobody]

LEMMA ApprovalAsked ==
  ASSUME NEW K, NEW S, NEW table \in [K -> [S -> StaffingApprovalRow \cup {Absent}]],
         NEW k \in K, NEW s \in S, NEW cell \in StaffingApprovalRow,
         NEW after, after = Replaced(table, k, s, cell)
  PROVE  /\ after \in [K -> [S -> StaffingApprovalRow \cup {Absent}]]
         /\ after[k][s] = cell
         /\ \A i \in K, j \in S : i # k \/ j # s => after[i][j] = table[i][j]
<1> DEFINE Cell == StaffingApprovalRow \cup {Absent}
<1>1. cell \in Cell /\ table \in [K -> [S -> Cell]]
  OBVIOUS
<1> HIDE DEF Cell
<1>2. after \in [K -> [S -> Cell]]
  BY <1>1, CellReplaced
<1>3. after[k][s] = cell
  BY <1>1, <1>2, CellReplaced
<1>4. \A i \in K, j \in S : i # k \/ j # s => after[i][j] = table[i][j]
  BY <1>1, <1>2, CellReplaced
<1>5. QED BY <1>2, <1>3, <1>4 DEF Cell

\* ... and decided once, by whom they were assigned to.
DecidedRow(row, status, a) == [row EXCEPT !.status = status, !.decider = a]

AfterDeciding(table, k, s, status, a) ==
  [table EXCEPT ![k][s].status = status, ![k][s].decider = a]

LEMMA OneIsDecided ==
  ASSUME NEW K, NEW S, NEW table \in [K -> [S -> StaffingApprovalRow \cup {Absent}]],
         NEW k \in K, NEW s \in S, NEW status, NEW a
  PROVE  AfterDeciding(table, k, s, status, a) = Replaced(table, k, s, DecidedRow(table[k][s], status, a))
BY DEF AfterDeciding, Replaced, DecidedRow

LEMMA ApprovalDecided ==
  ASSUME NEW K, NEW S, NEW table \in [K -> [S -> StaffingApprovalRow \cup {Absent}]],
         NEW k \in K, NEW s \in S, Has(table[k], s), NEW status \in Decisions, NEW a \in Actor
  PROVE  /\ DecidedRow(table[k][s], status, a) \in StaffingApprovalRow
         /\ DecidedRow(table[k][s], status, a).by = table[k][s].by
         /\ DecidedRow(table[k][s], status, a).decider = a
<1>1. table[k][s] \in StaffingApprovalRow
  BY ThereIsRow
<1>2. QED BY <1>1 DEF StaffingApprovalRow, DecidedRow

-----------------------------------------------------------------------------
(* Proofs of staffing.                                                     *)

LEMMA StaffingInitOK == ASSUME WorkforceAssumption, StaffingInit PROVE StaffingInv
<1> USE DEF StaffingInit
<1>1. StaffingTypeOK
  BY DEF StaffingTypeOK
<1>2. \A p \in Plan : ~Has(plan, p) /\ \A s \in StaffingStep : ~Has(staffingApproval[p], s)
  BY DEF Has, Absent
<1>3. \A d \in Demand : ~Has(demand, d)
  BY DEF Has, Absent
<1>4. StaffingBase
  BY <1>1, <1>3, FS_EmptySet DEF StaffingBase, StaffingLinked
<1>5. QED BY <1>2, <1>3, <1>4 DEF StaffingInv, StaffingAgrees, DecisionsStand, PlansWereReviewed

\* A demand and its plan as they were: what was checked about them stands.
LEMMA StaffingTxStands ==
  ASSUME NEW t, StaffingTxOK(t), demand'[t.row.demand] = demand[t.row.demand],
         plan'[demand[t.row.demand].plan] = plan[demand[t.row.demand].plan]
  PROVE  StaffingTxOK(t)'
BY DEF StaffingTxOK, StaffingFrozen, In, Has, LocksOfDemand

\* Who wants the row of a plan waits for the assignments under it.
LEMMA PlanIsHeld ==
  ASSUME NEW t \in staffingTx, StaffingTxOK(t), NEW p, Unlocked(staffingTx, {<<"plan", p>>})
  PROVE  demand[t.row.demand].plan # p
BY DEF StaffingTxOK, Unlocked, LocksOfDemand

\* Everything that leaves plans, demands and assignments alone.
LEMMA StaffingAside ==
  ASSUME StaffingBase, StaffingAgrees, UNCHANGED <<plan, demand, assigned, staffingTx>>, StaffingTypeOK'
  PROVE  StaffingBase' /\ StaffingAgrees'
<1>1. \A t \in staffingTx : StaffingTxOK(t)'
  BY StaffingTxStands DEF StaffingBase
<1>2. StaffingLinked' /\ IsFiniteSet(assigned)'
  BY DEF StaffingBase, StaffingLinked, Has
<1>3. StaffingBase'
  BY <1>1, <1>2 DEF StaffingBase
<1>4. StaffingAgrees'
  BY DEF StaffingAgrees, Has, In
<1>5. QED BY <1>3, <1>4

\* Plans and approvals as they were: so are the reviews.
LEMMA ReviewsAside ==
  ASSUME DecisionsStand, PlansWereReviewed, UNCHANGED <<plan, staffingApproval>>
  PROVE  DecisionsStand' /\ PlansWereReviewed'
BY DEF DecisionsStand, PlansWereReviewed, StaffingApproved, Has, In

LEMMA DemandOfPlan ==
  ASSUME StaffingTypeOK, NEW d \in Demand, Has(demand, d)
  PROVE  demand[d].plan \in Plan
<1>1. demand \in [Demand -> DemandRow \cup {Absent}]
  BY DEF StaffingTypeOK
<1>2. demand[d] \in DemandRow
  BY <1>1, ThereIsRow
<1>3. QED BY <1>2 DEF DemandRow

LEMMA PlanCreated ==
  ASSUME WorkforceAssumption, StaffingInv, NEW p \in Plan, CreatePlan(p)
  PROVE  StaffingInv'
<1>1. /\ ~Has(plan, p) /\ plan' = [plan EXCEPT ![p] = [status |-> StaffingInitial]]
      /\ UNCHANGED <<demand, assigned, credential, staffingApproval, staffingRisk, staffingTx>>
  BY DEF CreatePlan
<1>2. StaffingBase /\ StaffingTypeOK /\ StaffingLinked
  BY DEF StaffingInv, StaffingBase
<1>3. StaffingTypeOK'
  <2>1. [status |-> StaffingInitial] \in PlanRow
    BY DEF PlanRow
  <2>2. plan' \in [Plan -> PlanRow \cup {Absent}]
    BY <1>1, <1>2, <2>1, RowReplaced DEF StaffingTypeOK
  <2>3. QED BY <1>1, <1>2, <2>2 DEF StaffingTypeOK
<1>4. plan'[p].status = StaffingInitial /\ \A q \in Plan : q # p => plan'[q] = plan[q]
  BY <1>1, <1>2 DEF StaffingTypeOK
<1>5. \A d \in Demand : Has(demand, d) => demand[d].plan \in Plan /\ demand[d].plan # p
  BY <1>1, <1>2, DemandOfPlan DEF StaffingLinked
<1>6. StaffingLinked'
  BY <1>1, <1>2, <1>4, <1>5 DEF StaffingLinked, Has
<1>7. ASSUME NEW t \in staffingTx PROVE StaffingTxOK(t)'
  <2>1. StaffingTxOK(t) /\ t.row.demand \in Demand
    BY <1>2 DEF StaffingBase, StaffingTxOK, AssignmentRow
  <2>2. QED BY <1>1, <1>4, <1>5, <2>1, StaffingTxStands DEF StaffingTxOK
<1>8. StaffingBase'
  BY <1>1, <1>2, <1>3, <1>6, <1>7 DEF StaffingBase
<1>9. StaffingAgrees'
  BY <1>1 DEF StaffingInv, StaffingAgrees, Has, In
<1>10. DecisionsStand'
  BY <1>1 DEF StaffingInv, DecisionsStand, Has
<1>11. PlansWereReviewed'
  BY <1>1, <1>4 DEF StaffingInv, PlansWereReviewed, StaffingApproved, Has, In
<1>12. QED BY <1>8, <1>9, <1>10, <1>11 DEF StaffingInv

LEMMA PlanTransitioned ==
  ASSUME WorkforceAssumption, StaffingInv, NEW p \in Plan, TransitionPlan(p)
  PROVE  StaffingInv'
<1>1. /\ Has(plan, p) /\ Unlocked(staffingTx, {<<"plan", p>>})
      /\ UNCHANGED <<demand, assigned, credential, staffingApproval, staffingRisk, staffingTx>>
  BY DEF TransitionPlan
<1>2. PICK t \in StaffingTransitions :
        /\ \A s \in t.needs : StaffingApproved(p, s)
        /\ plan' = Moved(plan, p, t.to)
  BY DEF TransitionPlan
<1>3. StaffingBase /\ StaffingTypeOK /\ StaffingLinked /\ plan \in [Plan -> PlanRow \cup {Absent}]
  BY DEF StaffingInv, StaffingBase, StaffingTypeOK
<1>4. StaffingTypeOK'
  <2>1. plan[p] \in PlanRow
    BY <1>1, <1>3, ThereIsRow
  <2>2. [plan[p] EXCEPT !.status = t.to] \in PlanRow
    BY <2>1 DEF PlanRow
  <2>3. plan' \in [Plan -> PlanRow \cup {Absent}]
    BY <1>2, <1>3, <2>2, RowMoved
  <2>4. QED BY <1>1, <1>3, <2>3 DEF StaffingTypeOK
<1>5. plan'[p].status = t.to /\ \A q \in Plan : q # p => plan'[q] = plan[q]
  <2>1. plan[p] \in PlanRow
    BY <1>1, <1>3, ThereIsRow
  <2>2. QED BY <1>2, <1>3, <2>1 DEF Moved, PlanRow
<1>6. t.to # "ABSENT"
  BY DEF WorkforceAssumption
<1>7. \A q \in Plan : Has(plan, q) => Has(plan', q)
  BY <1>5, <1>6 DEF Has
<1>8. \A d \in Demand : Has(demand, d) => demand[d].plan \in Plan
  BY <1>3, DemandOfPlan
<1>9. StaffingLinked'
  BY <1>1, <1>3, <1>7, <1>8 DEF StaffingLinked, Has
<1>10. ASSUME NEW u \in staffingTx PROVE StaffingTxOK(u)'
  <2>1. StaffingTxOK(u) /\ u.row.demand \in Demand
    BY <1>3 DEF StaffingBase, StaffingTxOK, AssignmentRow
  <2>2. demand[u.row.demand].plan \in Plan /\ demand[u.row.demand].plan # p
    BY <1>1, <1>8, <2>1, PlanIsHeld DEF StaffingTxOK
  <2>3. QED BY <1>1, <1>5, <2>1, <2>2, StaffingTxStands
<1>11. StaffingBase'
  BY <1>1, <1>3, <1>4, <1>9, <1>10 DEF StaffingBase
<1>12. StaffingAgrees'
  BY <1>1 DEF StaffingInv, StaffingAgrees, Has, In
<1>13. DecisionsStand'
  BY <1>1 DEF StaffingInv, DecisionsStand, Has
<1>14. PlansWereReviewed'
  <2>1. ASSUME NEW q \in Plan, q # p, Has(plan, q)', plan'[q].status # StaffingInitial
        PROVE  \E w \in StaffingTransitions :
                 /\ w.to = plan'[q].status
                 /\ \A s \in w.needs : /\ In(staffingApproval'[q], s, Accepted) /\ staffingApproval'[q][s].decider # Nobody
                                       /\ MakerChecker => staffingApproval'[q][s].decider # staffingApproval'[q][s].by
    BY <1>1, <1>5, <2>1 DEF StaffingInv, PlansWereReviewed, StaffingApproved, Has
  <2>2. ASSUME NEW s \in t.needs
        PROVE  /\ In(staffingApproval'[p], s, Accepted) /\ staffingApproval'[p][s].decider # Nobody
               /\ MakerChecker => staffingApproval'[p][s].decider # staffingApproval'[p][s].by
    <3>1. s \in StaffingStep /\ "ABSENT" \notin Accepted
      BY DEF WorkforceAssumption, StaffingPolicy
    <3>2. In(staffingApproval[p], s, Accepted) /\ staffingApproval[p][s].decider # Nobody
      BY <1>2 DEF StaffingApproved
    <3>3. Has(staffingApproval[p], s)
      BY <3>1, <3>2 DEF In, Has
    <3>4. QED BY <1>1, <3>1, <3>2, <3>3 DEF StaffingInv, DecisionsStand
  <2>3. QED BY <1>5, <2>1, <2>2 DEF PlansWereReviewed, StaffingApproved
<1>15. QED BY <1>11, <1>12, <1>13, <1>14 DEF StaffingInv

LEMMA DemandCreated ==
  ASSUME WorkforceAssumption, StaffingInv, NEW d \in Demand, NEW p \in Plan, CreateDemand(d, p)
  PROVE  StaffingInv'
<1>1. /\ ~Has(demand, d) /\ Has(plan, p)
      /\ demand' = [demand EXCEPT ![d] = [status |-> "OPEN", plan |-> p, filled |-> 0]]
      /\ UNCHANGED <<plan, assigned, credential, staffingApproval, staffingRisk, staffingTx>>
  BY DEF CreateDemand
<1>2. StaffingBase /\ StaffingTypeOK /\ StaffingLinked /\ StaffingAgrees /\ Required \in Nat \ {0}
  BY DEF StaffingInv, StaffingBase, WorkforceAssumption
<1> DEFINE row == [status |-> "OPEN", plan |-> p, filled |-> 0]
<1>3. row \in DemandRow
  BY <1>2 DEF DemandRow
<1>4. /\ demand' \in [Demand -> DemandRow \cup {Absent}] /\ demand'[d] = row
      /\ \A e \in Demand : e # d => demand'[e] = demand[e]
  <2> HIDE DEF row
  <2>1. demand' = [demand EXCEPT ![d] = row]
    BY <1>1 DEF row
  <2>2. demand \in [Demand -> DemandRow \cup {Absent}]
    BY <1>2 DEF StaffingTypeOK
  <2>3. QED BY <1>3, <2>1, <2>2
<1>5. StaffingTypeOK'
  BY <1>1, <1>2, <1>4 DEF StaffingTypeOK
<1>6. \A x \in assigned : x.demand \in Demand /\ x.demand # d
  BY <1>1, <1>2 DEF StaffingLinked, StaffingTypeOK, AssignmentRow
<1>7. StaffingLinked'
  <2>1. ASSUME NEW e \in Demand, Has(demand, e)' PROVE Has(plan', demand'[e].plan)
    BY <1>1, <1>2, <1>4, <2>1 DEF StaffingLinked, Has
  <2>2. ASSUME NEW x \in assigned' PROVE Has(demand, x.demand)'
    BY <1>1, <1>2, <1>4, <1>6 DEF StaffingLinked, Has
  <2>3. QED BY <2>1, <2>2 DEF StaffingLinked
<1>8. ASSUME NEW t \in staffingTx PROVE StaffingTxOK(t)'
  <2>1. StaffingTxOK(t) /\ t.row.demand \in Demand /\ t.row.demand # d
    BY <1>1, <1>2 DEF StaffingBase, StaffingTxOK, AssignmentRow
  <2>2. QED BY <1>1, <1>4, <2>1, StaffingTxStands
<1>9. StaffingBase'
  BY <1>1, <1>2, <1>5, <1>7, <1>8 DEF StaffingBase
<1>10. StaffingAgrees'
  <2>1. {x \in assigned : x.demand = d} = {} /\ Cardinality({}) = 0
    BY <1>6, FS_EmptySet
  <2>2. row.filled = 0 /\ row.status # "FILLED" /\ 0 <= Required /\ 0 # Required
    BY <1>2
  <2> HIDE DEF row
  <2>3. ASSUME NEW e \in Demand, Has(demand, e)'
        PROVE  /\ demand'[e].filled = Cardinality({x \in assigned : x.demand = e})
               /\ demand'[e].filled <= Required
               /\ demand'[e].status = "FILLED" <=> demand'[e].filled = Required
    <3>1. CASE e = d
      BY <1>4, <2>1, <2>2, <3>1
    <3>2. CASE e # d
      BY <1>2, <1>4, <2>3, <3>2 DEF StaffingAgrees, Has, In
    <3>3. QED BY <3>1, <3>2
  <2>4. QED BY <1>1, <2>3 DEF StaffingAgrees, In
<1>11. QED BY <1>1, <1>9, <1>10, ReviewsAside DEF StaffingInv

LEMMA AssignmentChecked ==
  ASSUME WorkforceAssumption, StaffingInv, NEW d \in Demand, NEW w \in Worker, NEW s \in Day, CheckAssignment(d, w, s)
  PROVE  StaffingInv'
<1> DEFINE row == [demand |-> d, worker |-> w, starts |-> s]
           new == [row |-> row, gap |-> w \notin credential /\ Enforcement = "RISK", locks |-> LocksOfDemand(d)]
<1>1. /\ Has(demand, d) /\ Unlocked(staffingTx, LocksOfDemand(d))
      /\ ~StaffingFrozen(demand[d].plan) /\ demand[d].filled < Required
      /\ staffingTx' = staffingTx \cup {new}
      /\ UNCHANGED <<plan, demand, assigned, credential, staffingApproval, staffingRisk>>
  BY DEF CheckAssignment
<1>2. StaffingBase /\ StaffingTypeOK /\ StaffingLinked
  BY DEF StaffingInv, StaffingBase
<1>3. row \in AssignmentRow /\ row.demand = d /\ new.row = row /\ new.locks = LocksOfDemand(d)
  BY DEF AssignmentRow
<1> HIDE DEF new, row
<1>4. StaffingTxOK(new)
  BY <1>1, <1>3 DEF StaffingTxOK
<1>5. \A t \in staffingTx : t.row.demand # d
  BY <1>1, <1>2 DEF Unlocked, StaffingBase, StaffingTxOK, LocksOfDemand
<1>6. \A t \in staffingTx' : StaffingTxOK(t)
  BY <1>1, <1>2, <1>4 DEF StaffingBase
<1>7. \A t \in staffingTx' : StaffingTxOK(t)'
  BY <1>1, <1>6, StaffingTxStands
<1>8. \A t, u \in staffingTx' : t.row.demand = u.row.demand => t = u
  BY <1>1, <1>2, <1>3, <1>5 DEF StaffingBase
<1>9. StaffingTypeOK' /\ StaffingLinked' /\ IsFiniteSet(assigned)'
  BY <1>1, <1>2 DEF StaffingTypeOK, StaffingLinked, StaffingBase, Has
<1>10. StaffingBase'
  BY <1>7, <1>8, <1>9 DEF StaffingBase
<1>11. StaffingAgrees'
  BY <1>1 DEF StaffingInv, StaffingAgrees, Has, In
<1>12. QED BY <1>1, <1>10, <1>11, ReviewsAside DEF StaffingInv

LEMMA AssignmentCommitted ==
  ASSUME WorkforceAssumption, StaffingInv, NEW t \in staffingTx, CommitAssignment(t)
  PROVE  StaffingInv'
<1> DEFINE d == t.row.demand
<1>1. /\ t.row \notin assigned /\ assigned' = assigned \cup {t.row}
      /\ demand' = [demand EXCEPT ![d].filled = @ + 1,
                      ![d].status = IF demand[d].filled + 1 = Required THEN "FILLED" ELSE @]
      /\ staffingTx' = staffingTx \ {t}
      /\ UNCHANGED <<plan, credential, staffingApproval>>
  BY DEF CommitAssignment
<1>2. /\ StaffingBase /\ StaffingTypeOK /\ StaffingLinked /\ StaffingAgrees /\ StaffingTxOK(t)
      /\ Required \in Nat \ {0} /\ IsFiniteSet(assigned)
  BY DEF StaffingInv, StaffingBase, WorkforceAssumption
<1>3. t.row \in AssignmentRow /\ d \in Demand /\ Has(demand, d) /\ demand[d].filled < Required
  BY <1>2 DEF StaffingTxOK, AssignmentRow
<1>4. demand[d] \in DemandRow /\ demand \in [Demand -> DemandRow \cup {Absent}]
  BY <1>2, <1>3, ThereIsRow DEF StaffingTypeOK
<1> DEFINE n == demand[d].filled + 1
           status == IF n = Required THEN "FILLED" ELSE demand[d].status
           row == [demand[d] EXCEPT !.filled = n, !.status = status]
<1>5. n \in 0..Required /\ status \in {"OPEN", "FILLED"}
  BY <1>2, <1>3, <1>4 DEF DemandRow
<1>6. demand' = [demand EXCEPT ![d] = row]
  BY <1>1
<1>7. status = "FILLED" <=> n = Required
  <2>1. demand[d].filled # Required
    BY <1>2, <1>3, <1>4 DEF DemandRow
  <2>2. demand[d].status # "FILLED"
    BY <1>2, <1>3, <2>1 DEF StaffingAgrees, In
  <2>3. QED BY <2>2
<1> HIDE DEF n, status
<1>8. row \in DemandRow /\ row.plan = demand[d].plan /\ row.filled = n /\ row.status = status
  BY <1>4, <1>5 DEF DemandRow
<1> HIDE DEF row
<1>9. /\ demand' \in [Demand -> DemandRow \cup {Absent}] /\ demand'[d] = row
      /\ \A e \in Demand : e # d => demand'[e] = demand[e]
  BY <1>3, <1>4, <1>6, <1>8
<1>10. Has(demand, d)' /\ \A e \in Demand : Has(demand, e)' <=> Has(demand, e)
  BY <1>3, <1>5, <1>8, <1>9 DEF Has
<1>11. StaffingTypeOK'
  <2>1. staffingRisk' \in [StaffingRisk -> StaffingRiskRow \cup {Absent}]
    <3>1. CASE staffingRisk' = staffingRisk
      BY <1>2, <3>1 DEF StaffingTypeOK
    <3>2. CASE \E r \in StaffingRisk : staffingRisk' = [staffingRisk EXCEPT ![r] = [status |-> "GAP"]]
      BY <1>2, <3>2 DEF StaffingTypeOK, StaffingRiskRow
    <3>3. QED BY <3>1, <3>2 DEF CommitAssignment
  <2>2. assigned' \subseteq AssignmentRow
    BY <1>1, <1>2, <1>3 DEF StaffingTypeOK
  <2>3. QED BY <1>1, <1>2, <1>9, <2>1, <2>2 DEF StaffingTypeOK
<1>12. StaffingLinked'
  <2>1. ASSUME NEW e \in Demand, Has(demand, e)' PROVE Has(plan', demand'[e].plan)
    <3>1. Has(plan, demand[e].plan) /\ demand'[e].plan = demand[e].plan
      BY <1>2, <1>8, <1>9, <1>10, <2>1 DEF StaffingLinked
    <3>2. QED BY <1>1, <3>1 DEF Has
  <2>2. ASSUME NEW x \in assigned' PROVE Has(demand, x.demand)'
    <3>1. CASE x \in assigned
      <4>1. Has(demand, x.demand) /\ x.demand \in Demand
        BY <1>2, <3>1 DEF StaffingLinked, StaffingTypeOK, AssignmentRow
      <4>2. QED BY <1>10, <4>1
    <3>2. CASE x = t.row
      BY <1>10, <3>2
    <3>3. QED BY <1>1, <3>1, <3>2
  <2>3. QED BY <2>1, <2>2 DEF StaffingLinked
<1>13. ASSUME NEW u \in staffingTx' PROVE StaffingTxOK(u)'
  <2>1. u \in staffingTx /\ u # t
    BY <1>1
  <2>2. StaffingTxOK(u) /\ u.row.demand \in Demand /\ u.row.demand # d
    BY <1>2, <2>1 DEF StaffingBase, StaffingTxOK, AssignmentRow
  <2> HIDE DEF d
  <2>3. QED BY <1>1, <1>9, <2>2, StaffingTxStands
<1>14. IsFiniteSet(assigned)'
  BY <1>1, <1>2, FS_AddElement
<1>15. StaffingBase'
  BY <1>1, <1>2, <1>11, <1>12, <1>13, <1>14 DEF StaffingBase
<1>16. StaffingAgrees'
  <2> DEFINE Of(e) == {x \in assigned : x.demand = e}
  <2>1. {x \in assigned' : x.demand = d} = Of(d) \cup {t.row}
    BY <1>1
  <2>2. IsFiniteSet(Of(d)) /\ t.row \notin Of(d)
    BY <1>1, <1>2, FS_Subset
  <2>3. Cardinality(Of(d) \cup {t.row}) = Cardinality(Of(d)) + 1
    BY <2>2, FS_AddElement
  <2>4. demand[d].filled = Cardinality(Of(d))
    BY <1>2, <1>3 DEF StaffingAgrees
  <2>5. row.filled = Cardinality({x \in assigned' : x.demand = d})
    BY <1>8, <2>1, <2>3, <2>4 DEF n
  <2>6. row.filled <= Required /\ (row.status = "FILLED" <=> row.filled = Required)
    BY <1>2, <1>5, <1>7, <1>8
  <2>7. ASSUME NEW e \in Demand, e # d, Has(demand, e)'
        PROVE  /\ demand'[e].filled = Cardinality({x \in assigned' : x.demand = e})
               /\ demand'[e].filled <= Required
               /\ demand'[e].status = "FILLED" <=> demand'[e].filled = Required
    <3>1. {x \in assigned' : x.demand = e} = {x \in assigned : x.demand = e}
      BY <1>1, <2>7
    <3>2. demand'[e] = demand[e] /\ Has(demand, e)
      BY <1>9, <1>10, <2>7
    <3>3. QED BY <1>2, <3>1, <3>2 DEF StaffingAgrees, In
  <2> HIDE DEF d
  <2>8. QED BY <1>9, <2>5, <2>6, <2>7 DEF StaffingAgrees, In
<1>17. DecisionsStand' /\ PlansWereReviewed'
  BY <1>1, ReviewsAside DEF StaffingInv
<1>18. QED BY <1>15, <1>16, <1>17 DEF StaffingInv

\* Credentials and risks.
LEMMA StaffingRecordsStep ==
  ASSUME WorkforceAssumption, StaffingInv,
         \/ \E w \in Worker : UpsertCredential(w)
         \/ \E r \in StaffingRisk : StaffingCreateRisk(r) \/ StaffingResolveRisk(r)
  PROVE  StaffingInv'
<1>1. UNCHANGED <<plan, demand, assigned, staffingApproval, staffingTx>>
  BY DEF UpsertCredential, StaffingCreateRisk, StaffingResolveRisk
<1>2. StaffingBase /\ StaffingTypeOK /\ StaffingAgrees
  BY DEF StaffingInv, StaffingBase
<1>3. credential' \subseteq Worker
  BY <1>2 DEF StaffingTypeOK, UpsertCredential, StaffingCreateRisk, StaffingResolveRisk
<1>4. staffingRisk' \in [StaffingRisk -> StaffingRiskRow \cup {Absent}]
  <2>1. ASSUME NEW r \in StaffingRisk, StaffingCreateRisk(r) PROVE  staffingRisk' \in [StaffingRisk -> StaffingRiskRow \cup {Absent}]
    BY <1>2, <2>1 DEF StaffingTypeOK, StaffingCreateRisk, StaffingRiskRow
  <2>2. ASSUME NEW r \in StaffingRisk, StaffingResolveRisk(r) PROVE  staffingRisk' \in [StaffingRisk -> StaffingRiskRow \cup {Absent}]
    <3>1. staffingRisk[r] \in StaffingRiskRow
      BY <1>2, <2>2 DEF StaffingTypeOK, StaffingResolveRisk, In, Absent
    <3>2. [staffingRisk[r] EXCEPT !.status = "RESOLVED"] \in StaffingRiskRow
      BY <3>1 DEF StaffingRiskRow
    <3>3. QED BY <1>2, <2>2, <3>2, RowMoved DEF StaffingTypeOK, StaffingResolveRisk
  <2>3. ASSUME NEW w \in Worker, UpsertCredential(w) PROVE  staffingRisk' \in [StaffingRisk -> StaffingRiskRow \cup {Absent}]
    BY <1>2, <2>3 DEF StaffingTypeOK, UpsertCredential
  <2>4. QED BY <2>1, <2>2, <2>3
<1>5. StaffingTypeOK'
  BY <1>1, <1>2, <1>3, <1>4 DEF StaffingTypeOK
<1>6. QED BY <1>1, <1>2, <1>5, StaffingAside, ReviewsAside DEF StaffingInv

\* A decided approval is never asked for or decided again.
LEMMA StaffingApprovalsStep ==
  ASSUME WorkforceAssumption, StaffingInv, NEW p \in Plan, NEW s \in StaffingStep, NEW a \in Actor,
         StaffingDecideApproval(p, s, a) \/ \E m \in Actor : StaffingRequestApproval(p, s, a, m)
  PROVE  StaffingInv'
<1>1. UNCHANGED <<plan, demand, assigned, credential, staffingRisk, staffingTx>>
  BY DEF StaffingDecideApproval, StaffingRequestApproval
<1>2. /\ StaffingBase /\ StaffingTypeOK /\ StaffingAgrees /\ DecisionsStand /\ PlansWereReviewed
      /\ staffingApproval \in [Plan -> [StaffingStep -> StaffingApprovalRow \cup {Absent}]]
  BY DEF StaffingInv, StaffingBase, StaffingTypeOK
<1>3. /\ staffingApproval' \in [Plan -> [StaffingStep -> StaffingApprovalRow \cup {Absent}]]
      /\ \A q \in Plan, r \in StaffingStep : q # p \/ r # s => staffingApproval'[q][r] = staffingApproval[q][r]
      /\ ~Has(staffingApproval[p], s) \/ staffingApproval[p][s].decider = Nobody
      /\ \/ staffingApproval'[p][s].decider = Nobody
         \/ MakerChecker => staffingApproval'[p][s].decider # staffingApproval'[p][s].by
  <2>1. CASE StaffingDecideApproval(p, s, a)
    <3>1. /\ Has(staffingApproval[p], s) /\ staffingApproval[p][s].decider = Nobody
          /\ MakerChecker => staffingApproval[p][s].by # a
      BY <2>1 DEF StaffingDecideApproval
    <3>2. PICK status \in Decisions : staffingApproval' = AfterDeciding(staffingApproval, p, s, status, a)
      BY <2>1 DEF StaffingDecideApproval, AfterDeciding
    <3> DEFINE cell == DecidedRow(staffingApproval[p][s], status, a)
    <3>3. cell \in StaffingApprovalRow /\ cell.by = staffingApproval[p][s].by /\ cell.decider = a
      BY <1>2, <3>1, ApprovalDecided
    <3> HIDE DEF cell
    <3>4. staffingApproval' = Replaced(staffingApproval, p, s, cell)
      BY <1>2, <3>2, OneIsDecided DEF cell
    <3>5. staffingApproval' \in [Plan -> [StaffingStep -> StaffingApprovalRow \cup {Absent}]]
      BY <1>2, <3>3, <3>4, ApprovalAsked
    <3>6. /\ staffingApproval'[p][s] = cell
          /\ \A q \in Plan, r \in StaffingStep : q # p \/ r # s => staffingApproval'[q][r] = staffingApproval[q][r]
      BY <1>2, <3>3, <3>4, <3>5, ApprovalAsked
    <3>7. QED BY <3>1, <3>3, <3>5, <3>6
  <2>2. CASE \E m \in Actor : StaffingRequestApproval(p, s, a, m)
    <3>1. PICK m \in Actor : StaffingRequestApproval(p, s, a, m)
      BY <2>2
    <3>2. ~Has(staffingApproval[p], s)
      BY <3>1 DEF StaffingRequestApproval
    <3>3. PICK status \in {"REQUESTED"} \cup Accepted :
            staffingApproval' = Replaced(staffingApproval, p, s, AskedRow(status, a, m))
      BY <3>1 DEF StaffingRequestApproval, Replaced, AskedRow
    <3> DEFINE cell == AskedRow(status, a, m)
    <3>4. cell \in StaffingApprovalRow /\ cell.decider = Nobody
      BY DEF AskedRow, StaffingApprovalRow
    <3>a. staffingApproval' = Replaced(staffingApproval, p, s, cell)
      BY <3>3
    <3> HIDE DEF cell
    <3>5. staffingApproval' \in [Plan -> [StaffingStep -> StaffingApprovalRow \cup {Absent}]]
      BY <1>2, <3>a, <3>4, ApprovalAsked
    <3>6. /\ staffingApproval'[p][s] = cell
          /\ \A q \in Plan, r \in StaffingStep : q # p \/ r # s => staffingApproval'[q][r] = staffingApproval[q][r]
      BY <1>2, <3>a, <3>4, <3>5, ApprovalAsked
    <3>7. QED BY <3>2, <3>4, <3>5, <3>6
  <2>3. QED BY <2>1, <2>2
<1>4. StaffingTypeOK'
  BY <1>1, <1>2, <1>3 DEF StaffingTypeOK
<1>5. DecisionsStand'
  <2> SUFFICES ASSUME NEW q \in Plan, NEW r \in StaffingStep, Has(staffingApproval'[q], r),
                      staffingApproval'[q][r].decider # Nobody, MakerChecker
               PROVE  staffingApproval'[q][r].decider # staffingApproval'[q][r].by
    BY DEF DecisionsStand
  <2>1. CASE q = p /\ r = s
    BY <1>3, <2>1
  <2>2. CASE q # p \/ r # s
    BY <1>2, <1>3, <2>2 DEF DecisionsStand, Has
  <2>3. QED BY <2>1, <2>2
<1>6. PlansWereReviewed'
  <2>1. ASSUME NEW q \in Plan, NEW r \in StaffingStep,
               In(staffingApproval[q], r, Accepted), staffingApproval[q][r].decider # Nobody
        PROVE  staffingApproval'[q][r] = staffingApproval[q][r]
    <3>1. Has(staffingApproval[q], r)
      BY <2>1 DEF WorkforceAssumption, In, Has
    <3>2. q # p \/ r # s
      BY <1>3, <2>1, <3>1
    <3>3. QED BY <1>3, <3>2
  <2>2. \A w \in StaffingTransitions : w.needs \subseteq StaffingStep
    BY DEF WorkforceAssumption, StaffingPolicy
  <2>3. QED BY <1>1, <1>2, <2>1, <2>2 DEF PlansWereReviewed, StaffingApproved, Has, In
<1>7. StaffingBase' /\ StaffingAgrees'
  BY <1>1, <1>2, <1>4, StaffingAside
<1>8. QED BY <1>5, <1>6, <1>7 DEF StaffingInv

LEMMA AssignmentRolledBack ==
  ASSUME StaffingInv, NEW t \in staffingTx, RollbackAssignment(t)
  PROVE  StaffingInv'
<1>1. /\ staffingTx' \subseteq staffingTx
      /\ UNCHANGED <<plan, demand, assigned, credential, staffingApproval, staffingRisk>>
  BY DEF RollbackAssignment
<1>2. StaffingBase
  BY DEF StaffingInv
<1>3. \A u \in staffingTx : StaffingTxOK(u)'
  BY <1>1, <1>2, StaffingTxStands DEF StaffingBase
<1>4. StaffingTypeOK' /\ StaffingLinked' /\ IsFiniteSet(assigned)'
  BY <1>1, <1>2 DEF StaffingTypeOK, StaffingLinked, StaffingBase, Has
<1>5. StaffingBase'
  BY <1>1, <1>2, <1>3, <1>4 DEF StaffingBase
<1>6. StaffingAgrees'
  BY <1>1 DEF StaffingInv, StaffingAgrees, Has, In
<1>7. QED BY <1>1, <1>5, <1>6, ReviewsAside DEF StaffingInv

LEMMA StaffingStepOK ==
  ASSUME WorkforceAssumption, StaffingInv, [StaffingNext]_staffingVars PROVE StaffingInv'
<1>1. ASSUME UNCHANGED staffingVars PROVE StaffingInv'
  <2>1. UNCHANGED <<plan, demand, assigned, credential, staffingApproval, staffingRisk, staffingTx>>
    BY <1>1 DEF staffingVars
  <2>2. StaffingTypeOK'
    BY <2>1 DEF StaffingInv, StaffingBase, StaffingTypeOK
  <2>3. QED BY <2>1, <2>2, StaffingAside, ReviewsAside DEF StaffingInv
<1>2. CASE \E p \in Plan : CreatePlan(p) \/ TransitionPlan(p) \/ \E d \in Demand : CreateDemand(d, p)
  BY <1>2, PlanCreated, PlanTransitioned, DemandCreated
<1>3. CASE \E d \in Demand, w \in Worker, s \in Day : CheckAssignment(d, w, s)
  BY <1>3, AssignmentChecked
<1>4. CASE \E t \in staffingTx : CommitAssignment(t) \/ RollbackAssignment(t)
  BY <1>4, AssignmentCommitted, AssignmentRolledBack
<1>5. CASE \/ \E w \in Worker : UpsertCredential(w)
           \/ \E r \in StaffingRisk : StaffingCreateRisk(r) \/ StaffingResolveRisk(r)
  BY <1>5, StaffingRecordsStep
<1>6. CASE \E p \in Plan, s \in StaffingStep, a \in Actor :
             StaffingDecideApproval(p, s, a) \/ \E m \in Actor : StaffingRequestApproval(p, s, a, m)
  BY <1>6, StaffingApprovalsStep
<1>7. QED BY <1>1, <1>2, <1>3, <1>4, <1>5, <1>6 DEF StaffingNext

LEMMA StaffingInvariance == ASSUME WorkforceAssumption PROVE StaffingSpec => []StaffingInv
<1>1. StaffingInit => StaffingInv
  BY StaffingInitOK
<1>2. StaffingInv /\ [StaffingNext]_staffingVars => StaffingInv'
  BY StaffingStepOK
<1>3. QED BY <1>1, <1>2, PTL DEF StaffingSpec

\* Rows of workforceops keep their types.
THEOREM StaffingTypeCorrect == ASSUME WorkforceAssumption PROVE StaffingSpec => []StaffingTypeOK
<1>1. StaffingInv => StaffingTypeOK
  BY DEF StaffingInv, StaffingBase
<1>2. QED BY <1>1, StaffingInvariance, PTL

\* quantity_filled is the number of assignments and never above what was asked
\* for, for any number of callers of assign_worker.
THEOREM StaffingCountsAgree == ASSUME WorkforceAssumption PROVE StaffingSpec => []StaffingAgrees
<1>1. StaffingInv => StaffingAgrees
  BY DEF StaffingInv
<1>2. QED BY <1>1, StaffingInvariance, PTL

\* A plan that left its first status went through decisions of others than those
\* who asked for them, though transition_plan does not lock what it reads of them.
THEOREM StaffingPlansWereReviewed == ASSUME WorkforceAssumption PROVE StaffingSpec => []PlansWereReviewed
<1>1. StaffingInv => PlansWereReviewed
  BY DEF StaffingInv
<1>2. QED BY <1>1, StaffingInvariance, PTL

\* Nobody is added to a plan that is immutable, not by a call of assign_worker
\* that began before either.
THEOREM StaffingLockedPlanFrozen ==
  ASSUME WorkforceAssumption PROVE StaffingSpec => [][LockedPlanFrozen]_staffingVars
<1>1. StaffingInv /\ [StaffingNext]_staffingVars => [LockedPlanFrozen]_staffingVars
  <2> SUFFICES ASSUME StaffingInv, StaffingNext, NEW d \in Demand, Has(demand, d), StaffingFrozen(demand[d].plan)
               PROVE  demand'[d] = demand[d] /\ {x \in assigned' : x.demand = d} = {x \in assigned : x.demand = d}
    BY DEF LockedPlanFrozen
  <2>1. CASE UNCHANGED <<demand, assigned>>
    BY <2>1
  <2>2. ASSUME NEW e \in Demand, NEW p \in Plan, CreateDemand(e, p)
        PROVE  demand'[d] = demand[d] /\ {x \in assigned' : x.demand = d} = {x \in assigned : x.demand = d}
    BY <2>2 DEF CreateDemand
  <2>3. ASSUME NEW t \in staffingTx, CommitAssignment(t)
        PROVE  demand'[d] = demand[d] /\ {x \in assigned' : x.demand = d} = {x \in assigned : x.demand = d}
    <3>1. t.row.demand # d
      BY DEF StaffingInv, StaffingBase, StaffingTxOK
    <3>2. demand \in [Demand -> DemandRow \cup {Absent}]
      BY DEF StaffingInv, StaffingBase, StaffingTypeOK
    <3>3. demand'[d] = demand[d]
      BY <2>3, <3>1, <3>2 DEF CommitAssignment
    <3>4. assigned' = assigned \cup {t.row}
      BY <2>3 DEF CommitAssignment
    <3>5. QED BY <3>1, <3>3, <3>4
  <2>4. QED BY <2>1, <2>2, <2>3 DEF StaffingNext, TransitionPlan, CreatePlan, CheckAssignment,
           RollbackAssignment, UpsertCredential, StaffingDecideApproval, StaffingRequestApproval,
           StaffingCreateRisk, StaffingResolveRisk
<1>2. QED BY <1>1, StaffingInvariance, PTL DEF StaffingSpec

-----------------------------------------------------------------------------
(* Proofs of equipment.                                                    *)

\* A machine that is there stays one.
LEMMA MachineIsThere ==
  ASSUME EquipmentAssumption, NEW row \in AssetRow
  PROVE  row.status # "ABSENT"
BY DEF EquipmentAssumption, AssetRow

LEMMA EquipmentInitOK == ASSUME EquipmentAssumption, EquipmentInit PROVE EquipmentInv
<1> USE DEF EquipmentInit
<1>1. EquipmentTypeOK
  BY DEF EquipmentTypeOK
<1>2. \A w \in Order : ~Has(order, w)
  BY DEF Has, Absent
<1>3. \A n \in Reading : ~Has(reading, n)
  BY DEF Has, Absent
<1>4. \A d \in Deployment : ~Has(deployment, d)
  BY DEF Has, Absent
<1>5. QED BY <1>1, <1>2, <1>3, <1>4 DEF EquipmentInv, EquipmentLinked, NoDoubleDeployment, MeterIsHighest

\* Who wants the row of a machine waits for its deployment.
LEMMA MachineIsHeld ==
  ASSUME NEW t \in equipmentTx, EquipmentTxOK(t), NEW a, Unlocked(equipmentTx, AssetLock(a))
  PROVE  t.asset # a
BY DEF EquipmentTxOK, Unlocked, LocksOfDeployment, AssetLock

\* One machine changes, which nobody is deploying; deployments do not.
LEMMA MachineChanges ==
  ASSUME EquipmentAssumption, EquipmentInv, NEW a \in Asset,
         asset' \in [Asset -> AssetRow \cup {Absent}], asset'[a] \in AssetRow,
         \A b \in Asset : b # a => asset'[b] = asset[b],
         ~Has(asset, a) \/ Unlocked(equipmentTx, AssetLock(a)),
         UNCHANGED <<deployment, equipmentTx>>
  PROVE  /\ \A t \in equipmentTx : EquipmentTxOK(t)'
         /\ \A b \in Asset : Has(asset, b) => Has(asset', b)
         /\ NoDoubleDeployment'
<1>1. ASSUME NEW t \in equipmentTx PROVE EquipmentTxOK(t)'
  <2>1. EquipmentTxOK(t) /\ t.asset \in Asset /\ t.asset # a
    BY MachineIsHeld DEF EquipmentInv, EquipmentTxOK
  <2>2. asset'[t.asset] = asset[t.asset]
    BY <2>1
  <2>3. QED BY <2>1, <2>2 DEF EquipmentTxOK, EquipmentFrozen, In, Has, Overlapped
<1>2. \A b \in Asset : Has(asset, b) => Has(asset', b)
  BY MachineIsThere DEF Has
<1>3. NoDoubleDeployment'
  BY DEF EquipmentInv, NoDoubleDeployment, Has
<1>4. QED BY <1>1, <1>2, <1>3

\* No machine and no deployment changes.
LEMMA MachinesStand ==
  ASSUME EquipmentInv, UNCHANGED <<asset, deployment>>, equipmentTx' \subseteq equipmentTx
  PROVE  /\ \A t \in equipmentTx' : EquipmentTxOK(t)'
         /\ \A t, u \in equipmentTx' : t.asset = u.asset => t = u
         /\ NoDoubleDeployment'
BY DEF EquipmentInv, EquipmentTxOK, EquipmentFrozen, In, Has, Overlapped, NoDoubleDeployment

\* What orders and readings are of does not go away.
LEMMA LinksStand ==
  ASSUME EquipmentInv, \A b \in Asset : Has(asset, b) => Has(asset', b)
  PROVE  /\ order' = order => \A w \in Order : Has(order, w)' => Has(asset', order'[w].asset)
         /\ reading' = reading => \A n \in Reading : Has(reading, n)' => Has(asset', reading'[n].asset)
<1>1. \A w \in Order : Has(order, w) => order[w].asset \in Asset
  BY DEF EquipmentInv, EquipmentTypeOK, Has, OrderRow, Absent
<1>2. \A n \in Reading : Has(reading, n) => reading[n].asset \in Asset
  BY DEF EquipmentInv, EquipmentTypeOK, Has, ReadingRow, Absent
<1>3. QED BY <1>1, <1>2 DEF EquipmentInv, EquipmentLinked, Has

\* Neither readings nor the meters of machines that are there change.
LEMMA MetersStand ==
  ASSUME EquipmentInv, reading' = reading, \A b \in Asset : Has(asset, b) => asset'[b].meter = asset[b].meter
  PROVE  MeterIsHighest'
<1>1. \A n \in Reading : Has(reading, n) => reading[n].asset \in Asset /\ Has(asset, reading[n].asset)
  BY DEF EquipmentInv, EquipmentLinked, EquipmentTypeOK, Has, ReadingRow, Absent
<1>2. QED BY <1>1 DEF EquipmentInv, MeterIsHighest, Has

LEMMA AssetCreated ==
  ASSUME EquipmentAssumption, EquipmentInv, NEW a \in Asset, CreateAsset(a)
  PROVE  EquipmentInv'
<1>1. ~Has(asset, a) /\ UNCHANGED <<deployment, order, equipmentApproval, reading, equipmentRisk, equipmentTx>>
  BY DEF CreateAsset
<1>2. PICK meter \in 0..MaxMeter :
        asset' = [asset EXCEPT ![a] = [status |-> EquipmentInitial, meter |-> meter, due |-> FALSE]]
  BY DEF CreateAsset
<1> DEFINE row == [status |-> EquipmentInitial, meter |-> meter, due |-> FALSE]
<1>3. row \in AssetRow
  BY DEF AssetRow
<1>4. asset' = [asset EXCEPT ![a] = row]
  BY <1>2
<1> HIDE DEF row
<1>5. asset \in [Asset -> AssetRow \cup {Absent}] /\ EquipmentTypeOK
  BY DEF EquipmentInv, EquipmentTypeOK
<1>6. /\ asset' \in [Asset -> AssetRow \cup {Absent}] /\ asset'[a] \in AssetRow
      /\ \A b \in Asset : b # a => asset'[b] = asset[b]
  BY <1>3, <1>4, <1>5
<1>7. /\ \A t \in equipmentTx : EquipmentTxOK(t)'
      /\ \A b \in Asset : Has(asset, b) => Has(asset', b)
      /\ NoDoubleDeployment'
  BY <1>1, <1>6, MachineChanges
<1>8. EquipmentTypeOK'
  BY <1>1, <1>5, <1>6 DEF EquipmentTypeOK
<1>9. EquipmentLinked'
  BY <1>1, <1>7, LinksStand DEF EquipmentLinked
<1>10. MeterIsHighest'
  BY <1>1, <1>6, MetersStand
<1>11. \A t, u \in equipmentTx' : t.asset = u.asset => t = u
  BY <1>1 DEF EquipmentInv
<1>12. QED BY <1>1, <1>7, <1>8, <1>9, <1>10, <1>11 DEF EquipmentInv

LEMMA DeploymentChecked ==
  ASSUME EquipmentAssumption, EquipmentInv, NEW a \in Asset, NEW d \in Deployment, CheckDeployment(d, a)
  PROVE  EquipmentInv'
<1> DEFINE new == [deployment |-> d, asset |-> a, locks |-> LocksOfDeployment(a)]
<1>1. /\ ~Has(deployment, d) /\ Has(asset, a) /\ ~EquipmentFrozen(a)
      /\ Unlocked(equipmentTx, LocksOfDeployment(a)) /\ ~Overlapped(d, a)
      /\ equipmentTx' = equipmentTx \cup {new}
      /\ UNCHANGED <<asset, deployment, order, equipmentApproval, reading, equipmentRisk>>
  BY DEF CheckDeployment
<1>2. EquipmentTypeOK' /\ EquipmentLinked' /\ MeterIsHighest' /\ NoDoubleDeployment'
  BY <1>1 DEF EquipmentInv, EquipmentTypeOK, EquipmentLinked, MeterIsHighest, NoDoubleDeployment, Has
<1>3. EquipmentTxOK(new) /\ new.asset = a
  BY <1>1 DEF EquipmentTxOK
<1> HIDE DEF new
<1>4. \A t \in equipmentTx : t.asset # a
  BY <1>1, MachineIsHeld DEF EquipmentInv, LocksOfDeployment
<1>5. \A t, u \in equipmentTx' : t.asset = u.asset => t = u
  BY <1>1, <1>3, <1>4 DEF EquipmentInv
<1>6. \A t \in equipmentTx' : EquipmentTxOK(t)
  BY <1>1, <1>3 DEF EquipmentInv
<1>7. \A t \in equipmentTx' : EquipmentTxOK(t)'
  BY <1>1, <1>6 DEF EquipmentTxOK, EquipmentFrozen, In, Has, Overlapped
<1>8. QED BY <1>2, <1>5, <1>7 DEF EquipmentInv

LEMMA DeploymentCommitted ==
  ASSUME EquipmentAssumption, EquipmentInv, NEW t \in equipmentTx, CommitDeployment(t)
  PROVE  EquipmentInv'
<1> DEFINE a == t.asset
           d == t.deployment
           row == [status |-> "ACTIVE", asset |-> a]
<1>1. /\ ~Has(deployment, d) /\ deployment' = [deployment EXCEPT ![d] = row]
      /\ asset' = Moved(asset, a, Deployed) /\ equipmentTx' = equipmentTx \ {t}
      /\ UNCHANGED <<order, equipmentApproval, reading, equipmentRisk>>
  BY DEF CommitDeployment
<1>2. EquipmentTypeOK /\ EquipmentTxOK(t) /\ asset \in [Asset -> AssetRow \cup {Absent}]
  BY DEF EquipmentInv, EquipmentTypeOK
<1>3. a \in Asset /\ d \in Deployment /\ Has(asset, a) /\ ~Overlapped(d, a)
  BY <1>2 DEF EquipmentTxOK
<1>4. row \in DeploymentRow /\ row.asset = a
  BY <1>3 DEF DeploymentRow
<1> HIDE DEF row, a, d
<1>5. /\ deployment' \in [Deployment -> DeploymentRow \cup {Absent}] /\ deployment'[d] = row
      /\ \A e \in Deployment : e # d => deployment'[e] = deployment[e]
  BY <1>1, <1>2, <1>3, <1>4 DEF EquipmentTypeOK
<1>6. /\ asset' \in [Asset -> AssetRow \cup {Absent}] /\ asset'[a] \in AssetRow
      /\ asset'[a].meter = asset[a].meter
      /\ \A b \in Asset : b # a => asset'[b] = asset[b]
  <2>1. asset[a] \in AssetRow
    BY <1>2, <1>3, ThereIsRow
  <2> DEFINE machine == [asset[a] EXCEPT !.status = Deployed]
  <2>2. machine \in AssetRow /\ machine.meter = asset[a].meter
    BY <2>1 DEF AssetRow
  <2>3. asset' = [asset EXCEPT ![a] = machine]
    BY <1>1 DEF Moved
  <2> HIDE DEF machine
  <2>4. QED BY <1>2, <1>3, <2>2, <2>3
<1>7. \A b \in Asset : Has(asset, b) => Has(asset', b)
  BY <1>6, MachineIsThere DEF Has
<1>8. EquipmentTypeOK'
  BY <1>1, <1>2, <1>5, <1>6 DEF EquipmentTypeOK
<1>9. EquipmentLinked' /\ MeterIsHighest'
  BY <1>1, <1>6, <1>7, LinksStand, MetersStand DEF EquipmentLinked
<1>10. NoDoubleDeployment'
  <2>1. ASSUME NEW e \in Deployment, e # d, Has(deployment, e)', deployment'[e].asset = a
        PROVE  Period[e] \cap Period[d] = {}
    BY <1>3, <1>5, <2>1 DEF Overlapped, Has
  <2>2. ASSUME NEW e \in Deployment, NEW f \in Deployment, e # f, Has(deployment, e)', Has(deployment, f)',
               deployment'[e].asset = deployment'[f].asset
        PROVE  Period[e] \cap Period[f] = {}
    <3>1. CASE e = d
      BY <1>4, <1>5, <2>1, <2>2, <3>1
    <3>2. CASE f = d
      BY <1>4, <1>5, <2>1, <2>2, <3>2
    <3>3. CASE e # d /\ f # d
      BY <1>5, <2>2, <3>3 DEF EquipmentInv, NoDoubleDeployment, Has
    <3>4. QED BY <3>1, <3>2, <3>3
  <2>3. QED BY <2>2 DEF NoDoubleDeployment
<1>11. ASSUME NEW u \in equipmentTx' PROVE EquipmentTxOK(u)'
  <2>1. u \in equipmentTx /\ EquipmentTxOK(u) /\ u.asset # a /\ u.asset \in Asset
    BY <1>1 DEF EquipmentInv, EquipmentTxOK, a
  <2>2. asset'[u.asset] = asset[u.asset]
    BY <1>6, <2>1
  <2>3. ~Overlapped(u.deployment, u.asset)'
    BY <1>4, <1>5, <2>1 DEF EquipmentTxOK, Overlapped, Has
  <2>4. QED BY <2>1, <2>2, <2>3 DEF EquipmentTxOK, EquipmentFrozen, In, Has
<1>12. \A u, v \in equipmentTx' : u.asset = v.asset => u = v
  BY <1>1 DEF EquipmentInv
<1>13. QED BY <1>8, <1>9, <1>10, <1>11, <1>12 DEF EquipmentInv

LEMMA MeterRead ==
  ASSUME EquipmentAssumption, EquipmentInv, NEW a \in Asset, NEW r \in EquipmentRisk, NEW n \in Reading,
         NEW v \in 0..MaxMeter, RecordMeterReading(n, a, v, r)
  PROVE  EquipmentInv'
<1> DEFINE note == [status |-> "RECORDED", asset |-> a, value |-> v]
<1>1. /\ ~Has(reading, n) /\ Has(asset, a) /\ Unlocked(equipmentTx, AssetLock(a)) /\ ~Refused(a, v)
      /\ reading' = [reading EXCEPT ![n] = note]
      /\ asset' = [asset EXCEPT ![a].meter = v]
      /\ UNCHANGED <<deployment, order, equipmentApproval, equipmentTx>>
  BY DEF RecordMeterReading
<1>2. EquipmentTypeOK /\ asset \in [Asset -> AssetRow \cup {Absent}] /\ MaxMeter \in Nat
  BY DEF EquipmentInv, EquipmentTypeOK, EquipmentAssumption
<1>3. note \in ReadingRow /\ note.asset = a /\ note.value = v
  BY DEF ReadingRow
<1> HIDE DEF note
<1>4. /\ reading' \in [Reading -> ReadingRow \cup {Absent}] /\ reading'[n] = note
      /\ \A m \in Reading : m # n => reading'[m] = reading[m]
  BY <1>1, <1>2, <1>3 DEF EquipmentTypeOK
<1>5. /\ asset' \in [Asset -> AssetRow \cup {Absent}] /\ asset'[a] \in AssetRow
      /\ asset'[a].meter = v
      /\ \A b \in Asset : b # a => asset'[b] = asset[b]
  <2>1. asset[a] \in AssetRow
    BY <1>1, <1>2, ThereIsRow
  <2> DEFINE machine == [asset[a] EXCEPT !.meter = v]
  <2>2. machine \in AssetRow /\ machine.meter = v
    BY <2>1 DEF AssetRow
  <2>3. asset' = [asset EXCEPT ![a] = machine]
    BY <1>1
  <2> HIDE DEF machine
  <2>4. QED BY <1>2, <2>2, <2>3
<1>6. /\ \A t \in equipmentTx : EquipmentTxOK(t)'
      /\ \A b \in Asset : Has(asset, b) => Has(asset', b)
      /\ NoDoubleDeployment'
  BY <1>1, <1>5, MachineChanges
<1>7. equipmentRisk' \in [EquipmentRisk -> EquipmentRiskRow \cup {Absent}]
  <2>1. equipmentRisk' \in {equipmentRisk, [equipmentRisk EXCEPT ![r] = [status |-> "OPEN"]]}
    BY DEF RecordMeterReading, Raised
  <2>2. QED BY <1>2, <2>1 DEF EquipmentTypeOK, EquipmentRiskRow
<1>8. EquipmentTypeOK'
  BY <1>1, <1>2, <1>4, <1>5, <1>7 DEF EquipmentTypeOK
<1>9. \A m \in Reading : Has(reading, m) => reading[m].asset \in Asset /\ Has(asset, reading[m].asset)
  <2>1. \A m \in Reading : Has(reading, m) => reading[m] \in ReadingRow
    BY <1>2 DEF EquipmentTypeOK, Has, Absent
  <2>2. QED BY <2>1 DEF EquipmentInv, EquipmentLinked, ReadingRow
<1>10. EquipmentLinked'
  <2>1. ASSUME NEW m \in Reading, Has(reading, m)' PROVE Has(asset', reading'[m].asset)
    BY <1>1, <1>3, <1>4, <1>6, <1>9, <2>1 DEF Has
  <2>2. QED BY <1>1, <1>6, <2>1, LinksStand DEF EquipmentLinked
<1>11. MeterIsHighest'
  <2> SUFFICES ASSUME Regression = "BLOCK", NEW m \in Reading, Has(reading, m)'
               PROVE  reading'[m].value <= asset'[reading'[m].asset].meter
    BY DEF MeterIsHighest
  <2>1. CASE m = n
    BY <1>2, <1>3, <1>4, <1>5, <2>1
  <2>2. CASE m # n
    <3>1. /\ reading'[m] = reading[m] /\ Has(reading, m) /\ reading[m].asset \in Asset
          /\ reading[m].value <= asset[reading[m].asset].meter
      BY <1>4, <1>9, <2>2 DEF EquipmentInv, MeterIsHighest, Has
    <3>2. CASE reading[m].asset # a
      BY <1>5, <3>1, <3>2
    <3>3. CASE reading[m].asset = a
      <4>1. ~(v < asset[a].meter)
        BY <1>1 DEF Refused
      <4>2. reading[m] \in ReadingRow /\ asset[a] \in AssetRow
        BY <1>1, <1>2, <3>1, ThereIsRow DEF EquipmentTypeOK
      <4>3. reading[m].value \in Nat /\ asset[a].meter \in Nat /\ v \in Nat
        BY <1>2, <4>2 DEF ReadingRow, AssetRow
      <4>4. QED BY <1>5, <3>1, <3>3, <4>1, <4>3
    <3>4. QED BY <3>2, <3>3
  <2>3. QED BY <2>1, <2>2
<1>12. \A t, u \in equipmentTx' : t.asset = u.asset => t = u
  BY <1>1 DEF EquipmentInv
<1>13. QED BY <1>1, <1>6, <1>8, <1>10, <1>11, <1>12 DEF EquipmentInv

LEMMA InspectionRecorded ==
  ASSUME EquipmentAssumption, EquipmentInv, NEW a \in Asset, NEW r \in EquipmentRisk,
         NEW accepted \in BOOLEAN, RecordInspection(a, accepted, r)
  PROVE  EquipmentInv'
<1>1. /\ Has(asset, a) /\ Unlocked(equipmentTx, AssetLock(a))
      /\ UNCHANGED <<deployment, order, reading, equipmentApproval, equipmentTx>>
  BY DEF RecordInspection
<1>2. PICK dated \in BOOLEAN : asset' = [asset EXCEPT ![a].due = @ \/ (accepted /\ dated)]
  BY DEF RecordInspection
<1>3. EquipmentTypeOK /\ asset \in [Asset -> AssetRow \cup {Absent}]
  BY DEF EquipmentInv, EquipmentTypeOK
<1> DEFINE due == asset[a].due \/ (accepted /\ dated)
           machine == [asset[a] EXCEPT !.due = due]
<1>4. asset[a] \in AssetRow
  BY <1>1, <1>3, ThereIsRow
<1>5. due \in BOOLEAN
  OBVIOUS
<1>6. asset' = [asset EXCEPT ![a] = machine]
  BY <1>2
<1> HIDE DEF due
<1>7. machine \in AssetRow /\ machine.meter = asset[a].meter
  BY <1>4, <1>5 DEF AssetRow
<1> HIDE DEF machine
<1>8. /\ asset' \in [Asset -> AssetRow \cup {Absent}] /\ asset'[a] \in AssetRow
      /\ asset'[a].meter = asset[a].meter
      /\ \A b \in Asset : b # a => asset'[b] = asset[b]
  BY <1>3, <1>6, <1>7
<1>9. /\ \A t \in equipmentTx : EquipmentTxOK(t)'
      /\ \A b \in Asset : Has(asset, b) => Has(asset', b)
      /\ NoDoubleDeployment'
  BY <1>1, <1>8, MachineChanges
<1>10. equipmentRisk' \in [EquipmentRisk -> EquipmentRiskRow \cup {Absent}]
  <2>1. equipmentRisk' \in {equipmentRisk, [equipmentRisk EXCEPT ![r] = [status |-> "OPEN"]]}
    BY DEF RecordInspection, Raised
  <2>2. QED BY <1>3, <2>1 DEF EquipmentTypeOK, EquipmentRiskRow
<1>11. EquipmentTypeOK'
  BY <1>1, <1>3, <1>8, <1>10 DEF EquipmentTypeOK
<1>12. EquipmentLinked' /\ MeterIsHighest'
  BY <1>1, <1>8, <1>9, LinksStand, MetersStand DEF EquipmentLinked
<1>13. \A t, u \in equipmentTx' : t.asset = u.asset => t = u
  BY <1>1 DEF EquipmentInv
<1>14. QED BY <1>1, <1>9, <1>11, <1>12, <1>13 DEF EquipmentInv

\* A work order puts its machine in another status, unless that is immutable.
LEMMA MachineRestated ==
  ASSUME EquipmentAssumption, EquipmentInv, NEW a \in Asset, Has(asset, a),
         NEW status \in {EquipmentInitial, Deployed, Held} \cup {AssetStatus[s] : s \in DOMAIN AssetStatus},
         asset' = asset \/ asset' = Restated(a, status)
  PROVE  /\ asset' \in [Asset -> AssetRow \cup {Absent}] /\ asset'[a] \in AssetRow
         /\ asset'[a].meter = asset[a].meter
         /\ \A b \in Asset : b # a => asset'[b] = asset[b]
<1>1. asset \in [Asset -> AssetRow \cup {Absent}]
  BY DEF EquipmentInv, EquipmentTypeOK
<1>2. asset[a] \in AssetRow
  BY <1>1, ThereIsRow
<1> DEFINE machine == [asset[a] EXCEPT !.status = status]
<1>3. machine \in AssetRow /\ machine.meter = asset[a].meter
  BY <1>2 DEF AssetRow
<1>4. asset' = asset \/ asset' = [asset EXCEPT ![a] = machine]
  BY DEF Restated, Moved
<1> HIDE DEF machine
<1>5. QED BY <1>1, <1>2, <1>3, <1>4

LEMMA OrderCreated ==
  ASSUME EquipmentAssumption, EquipmentInv, NEW a \in Asset, NEW w \in Order, NEW urgent \in BOOLEAN,
         CreateWorkOrder(w, a, urgent)
  PROVE  EquipmentInv'
<1> DEFINE row == [status |-> "REPORTED", asset |-> a]
<1>1. /\ ~Has(order, w) /\ Has(asset, a) /\ Unlocked(equipmentTx, AssetLock(a))
      /\ order' = [order EXCEPT ![w] = row]
      /\ asset' = asset \/ asset' = Restated(a, Held)
      /\ UNCHANGED <<deployment, equipmentApproval, reading, equipmentRisk, equipmentTx>>
  BY DEF CreateWorkOrder
<1>2. EquipmentTypeOK
  BY DEF EquipmentInv
<1>3. row \in OrderRow /\ row.asset = a
  BY DEF OrderRow, OrderStatus
<1> HIDE DEF row
<1>4. /\ order' \in [Order -> OrderRow \cup {Absent}] /\ order'[w] = row
      /\ \A v \in Order : v # w => order'[v] = order[v]
  BY <1>1, <1>2, <1>3 DEF EquipmentTypeOK
<1>5. /\ asset' \in [Asset -> AssetRow \cup {Absent}] /\ asset'[a] \in AssetRow
      /\ asset'[a].meter = asset[a].meter
      /\ \A b \in Asset : b # a => asset'[b] = asset[b]
  BY <1>1, MachineRestated
<1>6. /\ \A t \in equipmentTx : EquipmentTxOK(t)'
      /\ \A b \in Asset : Has(asset, b) => Has(asset', b)
      /\ NoDoubleDeployment'
  BY <1>1, <1>5, MachineChanges
<1>7. EquipmentTypeOK'
  BY <1>1, <1>2, <1>4, <1>5 DEF EquipmentTypeOK
<1>8. EquipmentLinked'
  <2>1. \A v \in Order : Has(order, v) => order[v].asset \in Asset /\ Has(asset, order[v].asset)
    BY <1>2 DEF EquipmentInv, EquipmentLinked, EquipmentTypeOK, Has, OrderRow, Absent
  <2>2. ASSUME NEW v \in Order, Has(order, v)' PROVE Has(asset', order'[v].asset)
    BY <1>1, <1>3, <1>4, <1>6, <2>1, <2>2 DEF Has
  <2>3. QED BY <1>1, <1>6, <2>2, LinksStand DEF EquipmentLinked
<1>9. MeterIsHighest'
  BY <1>1, <1>5, MetersStand
<1>10. \A t, u \in equipmentTx' : t.asset = u.asset => t = u
  BY <1>1 DEF EquipmentInv
<1>11. QED BY <1>1, <1>6, <1>7, <1>8, <1>9, <1>10 DEF EquipmentInv

LEMMA OrderTransitioned ==
  ASSUME EquipmentAssumption, EquipmentInv, NEW w \in Order, TransitionWorkOrder(w)
  PROVE  EquipmentInv'
<1> DEFINE a == order[w].asset
<1>1. /\ Has(order, w) /\ Unlocked(equipmentTx, AssetLock(a))
      /\ UNCHANGED <<deployment, equipmentApproval, reading, equipmentRisk, equipmentTx>>
  BY DEF TransitionWorkOrder
<1>2. PICK t \in EquipmentTransitions :
        /\ order' = Moved(order, w, t.to)
        /\ asset' = IF t.to \in DOMAIN AssetStatus THEN Restated(a, AssetStatus[t.to]) ELSE asset
  BY DEF TransitionWorkOrder
<1>3. EquipmentTypeOK /\ order \in [Order -> OrderRow \cup {Absent}]
  BY DEF EquipmentInv, EquipmentTypeOK
<1>4. order[w] \in OrderRow
  BY <1>1, <1>3, ThereIsRow
<1>5. a \in Asset /\ Has(asset, a)
  BY <1>1, <1>4 DEF EquipmentInv, EquipmentLinked, OrderRow
<1> DEFINE row == [order[w] EXCEPT !.status = t.to]
<1>6. row \in OrderRow /\ row.asset = a
  BY <1>4 DEF OrderRow, OrderStatus
<1>7. order' = [order EXCEPT ![w] = row]
  BY <1>2 DEF Moved
<1> HIDE DEF row
<1>8. /\ order' \in [Order -> OrderRow \cup {Absent}] /\ order'[w] = row
      /\ \A v \in Order : v # w => order'[v] = order[v]
  BY <1>3, <1>6, <1>7
<1>9. /\ asset' \in [Asset -> AssetRow \cup {Absent}] /\ asset'[a] \in AssetRow
      /\ asset'[a].meter = asset[a].meter
      /\ \A b \in Asset : b # a => asset'[b] = asset[b]
  <2> HIDE DEF a
  <2>1. CASE t.to \in DOMAIN AssetStatus
    BY <1>2, <1>5, <2>1, MachineRestated
  <2>2. CASE t.to \notin DOMAIN AssetStatus
    <3>1. asset' = asset /\ asset[a] \in AssetRow
      BY <1>2, <1>3, <1>5, <2>2, ThereIsRow DEF EquipmentTypeOK
    <3>2. QED BY <1>3, <3>1 DEF EquipmentTypeOK
  <2>3. QED BY <2>1, <2>2
<1> HIDE DEF a
<1>10. /\ \A u \in equipmentTx : EquipmentTxOK(u)'
       /\ \A b \in Asset : Has(asset, b) => Has(asset', b)
       /\ NoDoubleDeployment'
  BY <1>1, <1>5, <1>9, MachineChanges
<1>11. EquipmentTypeOK'
  BY <1>1, <1>3, <1>8, <1>9 DEF EquipmentTypeOK
<1>12. EquipmentLinked'
  <2>1. \A v \in Order : Has(order, v) => order[v].asset \in Asset /\ Has(asset, order[v].asset)
    BY <1>3 DEF EquipmentInv, EquipmentLinked, EquipmentTypeOK, Has, OrderRow, Absent
  <2>2. ASSUME NEW v \in Order, Has(order, v)' PROVE Has(asset', order'[v].asset)
    BY <1>5, <1>6, <1>8, <1>10, <2>1, <2>2 DEF Has
  <2>3. QED BY <1>1, <1>10, <2>2, LinksStand DEF EquipmentLinked
<1>13. MeterIsHighest'
  BY <1>1, <1>5, <1>9, MetersStand
<1>14. \A u, v \in equipmentTx' : u.asset = v.asset => u = v
  BY <1>1 DEF EquipmentInv
<1>15. QED BY <1>1, <1>10, <1>11, <1>12, <1>13, <1>14 DEF EquipmentInv

\* Everything that leaves machines, deployments, orders and readings alone.
LEMMA EquipmentAside ==
  ASSUME EquipmentInv, UNCHANGED <<asset, deployment, order, reading>>, EquipmentTypeOK',
         equipmentTx' \subseteq equipmentTx
  PROVE  EquipmentInv'
<1>1. EquipmentLinked' /\ MeterIsHighest'
  BY DEF EquipmentInv, EquipmentLinked, MeterIsHighest, Has
<1>2. QED BY <1>1, MachinesStand DEF EquipmentInv

LEMMA EquipmentApprovalsStep ==
  ASSUME EquipmentInv, NEW w \in Order, NEW s \in EquipmentStep, NEW a \in Actor,
         EquipmentDecideApproval(w, s, a) \/ \E m \in Actor : EquipmentRequestApproval(w, s, a, m)
  PROVE  EquipmentInv'
<1>1. UNCHANGED <<asset, deployment, order, reading, equipmentRisk, equipmentTx>>
  BY DEF EquipmentDecideApproval, EquipmentRequestApproval
<1>2. /\ EquipmentTypeOK
      /\ equipmentApproval \in [Order -> [EquipmentStep -> StaffingApprovalRow \cup {Absent}]]
  BY DEF EquipmentInv, EquipmentTypeOK, EquipmentApprovalRow, StaffingApprovalRow
<1>3. equipmentApproval' \in [Order -> [EquipmentStep -> StaffingApprovalRow \cup {Absent}]]
  <2>1. CASE EquipmentDecideApproval(w, s, a)
    <3>1. Has(equipmentApproval[w], s)
      BY <2>1 DEF EquipmentDecideApproval
    <3>2. PICK status \in Decisions : equipmentApproval' = AfterDeciding(equipmentApproval, w, s, status, a)
      BY <2>1 DEF EquipmentDecideApproval, AfterDeciding
    <3> DEFINE cell == DecidedRow(equipmentApproval[w][s], status, a)
    <3>3. cell \in StaffingApprovalRow
      BY <1>2, <3>1, ApprovalDecided
    <3> HIDE DEF cell
    <3>4. equipmentApproval' = Replaced(equipmentApproval, w, s, cell)
      BY <1>2, <3>2, OneIsDecided DEF cell
    <3>5. QED BY <1>2, <3>3, <3>4, ApprovalAsked
  <2>2. CASE \E m \in Actor : EquipmentRequestApproval(w, s, a, m)
    <3>1. PICK m \in Actor : EquipmentRequestApproval(w, s, a, m)
      BY <2>2
    <3>2. PICK status \in {"REQUESTED"} \cup Accepted :
            equipmentApproval' = Replaced(equipmentApproval, w, s, AskedRow(status, a, m))
      BY <3>1 DEF EquipmentRequestApproval, Replaced, AskedRow
    <3> DEFINE cell == AskedRow(status, a, m)
    <3>3. cell \in StaffingApprovalRow
      BY DEF AskedRow, StaffingApprovalRow
    <3> HIDE DEF cell
    <3>4. equipmentApproval' = Replaced(equipmentApproval, w, s, cell)
      BY <3>2 DEF cell
    <3>5. QED BY <1>2, <3>3, <3>4, ApprovalAsked
  <2>3. QED BY <2>1, <2>2
<1>4. EquipmentTypeOK'
  BY <1>1, <1>2, <1>3 DEF EquipmentTypeOK, EquipmentApprovalRow, StaffingApprovalRow
<1>5. QED BY <1>1, <1>4, EquipmentAside

LEMMA EquipmentRisksStep ==
  ASSUME EquipmentInv, NEW r \in EquipmentRisk, EquipmentCreateRisk(r) \/ EquipmentResolveRisk(r)
  PROVE  EquipmentInv'
<1>1. UNCHANGED <<asset, deployment, order, reading, equipmentApproval, equipmentTx>>
  BY DEF EquipmentCreateRisk, EquipmentResolveRisk
<1>2. EquipmentTypeOK
  BY DEF EquipmentInv
<1>3. equipmentRisk' \in [EquipmentRisk -> EquipmentRiskRow \cup {Absent}]
  <2>1. CASE EquipmentCreateRisk(r)
    BY <1>2, <2>1 DEF EquipmentTypeOK, EquipmentCreateRisk, EquipmentRiskRow
  <2>2. CASE EquipmentResolveRisk(r)
    <3>1. equipmentRisk[r] \in EquipmentRiskRow
      BY <1>2, <2>2 DEF EquipmentTypeOK, EquipmentResolveRisk, In, Absent
    <3>2. [equipmentRisk[r] EXCEPT !.status = "RESOLVED"] \in EquipmentRiskRow
      BY <3>1 DEF EquipmentRiskRow
    <3>3. QED BY <1>2, <2>2, <3>2, RowMoved DEF EquipmentTypeOK, EquipmentResolveRisk
  <2>3. QED BY <2>1, <2>2
<1>4. EquipmentTypeOK'
  BY <1>1, <1>2, <1>3 DEF EquipmentTypeOK
<1>5. QED BY <1>1, <1>4, EquipmentAside

LEMMA DeploymentRolledBack ==
  ASSUME EquipmentInv, NEW t \in equipmentTx, RollbackDeployment(t)
  PROVE  EquipmentInv'
<1>1. /\ equipmentTx' \subseteq equipmentTx
      /\ UNCHANGED <<asset, deployment, order, equipmentApproval, reading, equipmentRisk>>
  BY DEF RollbackDeployment
<1>2. EquipmentTypeOK'
  BY <1>1 DEF EquipmentInv, EquipmentTypeOK
<1>3. QED BY <1>1, <1>2, EquipmentAside

LEMMA EquipmentStepOK ==
  ASSUME EquipmentAssumption, EquipmentInv, [EquipmentNext]_equipmentVars PROVE EquipmentInv'
<1>1. CASE UNCHANGED equipmentVars
  <2>1. UNCHANGED <<asset, deployment, order, equipmentApproval, reading, equipmentRisk, equipmentTx>>
    BY <1>1 DEF equipmentVars
  <2>2. EquipmentTypeOK'
    BY <2>1 DEF EquipmentInv, EquipmentTypeOK
  <2>3. QED BY <2>1, <2>2, EquipmentAside
<1>2. CASE \E a \in Asset : \/ CreateAsset(a)
                            \/ \E d \in Deployment : CheckDeployment(d, a)
                            \/ \E w \in Order, urgent \in BOOLEAN : CreateWorkOrder(w, a, urgent)
  BY <1>2, AssetCreated, DeploymentChecked, OrderCreated
<1>3. CASE \E t \in equipmentTx : CommitDeployment(t) \/ RollbackDeployment(t)
  BY <1>3, DeploymentCommitted, DeploymentRolledBack
<1>4. CASE \E a \in Asset, r \in EquipmentRisk :
             \/ \E accepted \in BOOLEAN : RecordInspection(a, accepted, r)
             \/ \E n \in Reading, v \in 0..MaxMeter : RecordMeterReading(n, a, v, r)
  BY <1>4, InspectionRecorded, MeterRead
<1>5. CASE \E w \in Order : TransitionWorkOrder(w)
  BY <1>5, OrderTransitioned
<1>6. CASE \E w \in Order, s \in EquipmentStep, a \in Actor :
             EquipmentDecideApproval(w, s, a) \/ \E m \in Actor : EquipmentRequestApproval(w, s, a, m)
  BY <1>6, EquipmentApprovalsStep
<1>7. CASE \E r \in EquipmentRisk : EquipmentCreateRisk(r) \/ EquipmentResolveRisk(r)
  BY <1>7, EquipmentRisksStep
<1>8. QED BY <1>1, <1>2, <1>3, <1>4, <1>5, <1>6, <1>7 DEF EquipmentNext

LEMMA EquipmentInvariance == ASSUME EquipmentAssumption PROVE EquipmentSpec => []EquipmentInv
<1>1. EquipmentInit => EquipmentInv
  BY EquipmentInitOK
<1>2. EquipmentInv /\ [EquipmentNext]_equipmentVars => EquipmentInv'
  BY EquipmentStepOK
<1>3. QED BY <1>1, <1>2, PTL DEF EquipmentSpec

\* Rows of equipmentops keep their types.
THEOREM EquipmentTypeCorrect == ASSUME EquipmentAssumption PROVE EquipmentSpec => []EquipmentTypeOK
<1>1. EquipmentInv => EquipmentTypeOK
  BY DEF EquipmentInv
<1>2. QED BY <1>1, EquipmentInvariance, PTL

\* No machine is deployed twice for a day, for any number of callers of
\* create_deployment who look for overlaps at the same time.
THEOREM EquipmentNoDoubleDeployment == ASSUME EquipmentAssumption PROVE EquipmentSpec => []NoDoubleDeployment
<1>1. EquipmentInv => NoDoubleDeployment
  BY DEF EquipmentInv
<1>2. QED BY <1>1, EquipmentInvariance, PTL

\* Under meter_regression_action BLOCK the meter of a machine is its highest reading.
THEOREM EquipmentMeterIsHighest == ASSUME EquipmentAssumption PROVE EquipmentSpec => []MeterIsHighest
<1>1. EquipmentInv => MeterIsHighest
  BY DEF EquipmentInv
<1>2. QED BY <1>1, EquipmentInvariance, PTL

\* A machine in an immutable status keeps it: a deployment checked before cannot
\* commit after, and a work order moves on without it.
THEOREM EquipmentRetiredAssetStays ==
  ASSUME EquipmentAssumption PROVE EquipmentSpec => [][RetiredAssetStays]_equipmentVars
<1>1. EquipmentInv /\ [EquipmentNext]_equipmentVars => [RetiredAssetStays]_equipmentVars
  <2> SUFFICES ASSUME EquipmentInv, EquipmentNext, NEW a \in Asset, EquipmentFrozen(a)
               PROVE  asset'[a].status = asset[a].status
    BY DEF RetiredAssetStays
  <2>1. Has(asset, a) /\ asset \in [Asset -> AssetRow \cup {Absent}]
    BY DEF EquipmentAssumption, EquipmentInv, EquipmentTypeOK, EquipmentFrozen, In, Has
  <2>2. asset[a] \in AssetRow
    BY <2>1, ThereIsRow
  <2>3. CASE asset' = asset
    BY <2>3
  <2>4. ASSUME NEW b \in Asset, CreateAsset(b) PROVE asset'[a].status = asset[a].status
    BY <2>1, <2>4 DEF CreateAsset
  <2>5. ASSUME NEW b \in Asset, NEW w \in Order, NEW urgent \in BOOLEAN, CreateWorkOrder(w, b, urgent)
        PROVE  asset'[a].status = asset[a].status
    BY <2>1, <2>5 DEF CreateWorkOrder, Restated, Moved
  <2>6. ASSUME NEW t \in equipmentTx, CommitDeployment(t) PROVE asset'[a].status = asset[a].status
    <3>1. t.asset # a
      BY DEF EquipmentInv, EquipmentTxOK
    <3>2. QED BY <2>1, <2>6, <3>1 DEF CommitDeployment, Moved
  <2>7. ASSUME NEW b \in Asset, NEW r \in EquipmentRisk, NEW accepted \in BOOLEAN, RecordInspection(b, accepted, r)
        PROVE  asset'[a].status = asset[a].status
    BY <2>1, <2>2, <2>7 DEF RecordInspection, AssetRow
  <2>8. ASSUME NEW b \in Asset, NEW r \in EquipmentRisk, NEW n \in Reading, NEW v \in 0..MaxMeter,
               RecordMeterReading(n, b, v, r)
        PROVE  asset'[a].status = asset[a].status
    BY <2>1, <2>2, <2>8 DEF RecordMeterReading, AssetRow
  <2>9. ASSUME NEW w \in Order, TransitionWorkOrder(w) PROVE asset'[a].status = asset[a].status
    BY <2>1, <2>9 DEF TransitionWorkOrder, Restated, Moved
  <2>10. QED BY <2>3, <2>4, <2>5, <2>6, <2>7, <2>8, <2>9 DEF EquipmentNext, CheckDeployment, RollbackDeployment,
            EquipmentDecideApproval, EquipmentRequestApproval, EquipmentCreateRisk, EquipmentResolveRisk
<1>2. QED BY <1>1, EquipmentInvariance, PTL DEF EquipmentSpec

-----------------------------------------------------------------------------
(* Proofs of payroll.                                                      *)

\* A run without lines adds up to nothing.
LEMMA NoLinesNoPay ==
  ASSUME NEW table, \A e \in Employee : ~Has(table, e)
  PROVE  Gross(table) = 0 /\ Net(table) = 0 /\ Cardinality({e \in Employee : Has(table, e)}) = 0
<1>1. {e \in Employee : Has(table, e)} = {}
  OBVIOUS
<1>2. ASSUME NEW worth(_) PROVE MapThenSumSet(worth, {}) = 0
  <2> DEFINE Folds(g) == g = [s \in SUBSET {} |->
               IF s = {} THEN 0 ELSE worth(CHOOSE x \in s : TRUE) + g[s \ {CHOOSE x \in s : TRUE}]]
  <2>1. MapThenSumSet(worth, {}) = (CHOOSE g : Folds(g))[{}]
    BY DEF MapThenSumSet, MapThenFoldSet
  <2>2. Folds([s \in SUBSET {} |-> 0])
    OBVIOUS
  <2>3. Folds(CHOOSE g : Folds(g))
    <3> HIDE DEF Folds
    <3>1. QED BY <2>2
  <2>4. QED BY <2>1, <2>3
<1>3. QED BY <1>1, <1>2, FS_EmptySet DEF Gross, Net

LEMMA RunIsThere ==
  ASSUME PayrollAssumption, NEW row \in SummedRow
  PROVE  row.status # "ABSENT"
BY DEF PayrollAssumption, SummedRow

LEMMA ExceptionsTyped ==
  ASSUME PayrollAssumption, NEW table, NEW r
  PROVE  OpenExceptions(table, r) \in 0..Cardinality(Exception)
<1> DEFINE open == {x \in Exception : RunOf[x] = r /\ In(table, x, {"OPEN"})}
<1>1. IsFiniteSet(Exception) /\ open \subseteq Exception
  BY DEF PayrollAssumption
<1> HIDE DEF open
<1>2. Cardinality(open) \in Nat /\ Cardinality(Exception) \in Nat /\ Cardinality(open) <= Cardinality(Exception)
  BY <1>1, FS_Subset, FS_CardinalityType
<1>3. OpenExceptions(table, r) = Cardinality(open)
  BY DEF OpenExceptions, open
<1>4. QED BY <1>2, <1>3

LEMMA EmployeesCounted ==
  ASSUME PayrollAssumption, NEW table
  PROVE  Cardinality({e \in Employee : Has(table, e)}) \in 0..Cardinality(Employee)
<1> DEFINE paid == {e \in Employee : Has(table, e)}
<1>1. IsFiniteSet(Employee) /\ paid \subseteq Employee
  BY DEF PayrollAssumption
<1> HIDE DEF paid
<1>2. Cardinality(paid) \in Nat /\ Cardinality(Employee) \in Nat /\ Cardinality(paid) <= Cardinality(Employee)
  BY <1>1, FS_Subset, FS_CardinalityType
<1>3. Cardinality(paid) \in 0..Cardinality(Employee)
  BY <1>2
<1>4. QED BY <1>3 DEF paid

LEMMA PayrollInitOK == ASSUME PayrollAssumption, PayrollInit PROVE PayrollInv
<1> USE DEF PayrollInit
<1>1. \A r \in Run : ~Has(run, r) /\ \A e \in Employee : ~Has(line[r], e)
  BY DEF Has, Absent
<1>2. \A x \in Exception : ~Has(exception, x)
  BY DEF Has, Absent
<1>3. line \in [Run -> LineTable]
  BY DEF LineTable
<1>4. QED BY <1>1, <1>2, <1>3 DEF PayrollInv

\* The policy row is locked by all: one change of lines at a time.
LEMMA NobodyWrites ==
  ASSUME PayrollInv, NEW r, Unlocked(payrollTx, {r, "policy"})
  PROVE  payrollTx = {}
BY DEF PayrollInv, PayrollTxOK, LocksOfRun, Unlocked

LEMMA RunOpened ==
  ASSUME PayrollAssumption, PayrollInv, NEW r \in Run, NEW a \in Actor, CreateRun(r, a)
  PROVE  PayrollInv'
<1> DEFINE row == [status |-> PayrollInitial, by |-> a, gross |-> 0, net |-> 0, employees |-> 0, exceptions |-> 0]
<1>1. ~Has(run, r) /\ run' = [run EXCEPT ![r] = row] /\ UNCHANGED <<line, payrollApproval, exception, payrollTx>>
  BY DEF CreateRun
<1>2. /\ run \in [Run -> SummedRow \cup {Absent}] /\ line \in [Run -> LineTable]
      /\ \A e \in Employee : ~Has(line[r], e)
  BY <1>1 DEF PayrollInv
<1>3. Gross(line[r]) = 0 /\ Net(line[r]) = 0 /\ Cardinality({e \in Employee : Has(line[r], e)}) = 0
  BY <1>2, NoLinesNoPay
<1>4. row \in SummedRow /\ row.gross = 0 /\ row.net = 0 /\ row.employees = 0
  <2>1. 0 \in {Gross(table) : table \in LineTable} /\ 0 \in {Net(table) : table \in LineTable}
    BY <1>2, <1>3
  <2>2. Cardinality(Employee) \in Nat /\ Cardinality(Exception) \in Nat
    BY FS_CardinalityType DEF PayrollAssumption
  <2>3. QED BY <2>1, <2>2 DEF SummedRow
<1> HIDE DEF row
<1>5. /\ run' \in [Run -> SummedRow \cup {Absent}] /\ run'[r] = row
      /\ \A q \in Run : q # r => run'[q] = run[q]
  BY <1>1, <1>2, <1>4
<1>6. \A q \in Run : Has(run, q) => Has(run', q)
  BY <1>4, <1>5, RunIsThere DEF Has
<1>7. ASSUME NEW t \in payrollTx PROVE PayrollTxOK(t)'
  <2>1. PayrollTxOK(t) /\ t.run \in Run /\ t.run # r
    BY <1>1 DEF PayrollInv, PayrollTxOK
  <2>2. QED BY <1>5, <2>1 DEF PayrollTxOK, Has
<1>8. ASSUME NEW q \in Run, Has(run, q)' PROVE RunAddsUp(q)'
  <2>1. CASE q = r
    BY <1>1, <1>3, <1>4, <1>5, <2>1 DEF RunAddsUp
  <2>2. CASE q # r
    <3>1. RunAddsUp(q) /\ run'[q] = run[q]
      BY <1>5, <1>8, <2>2 DEF PayrollInv, Has
    <3>2. QED BY <1>1, <3>1 DEF RunAddsUp
  <2>3. QED BY <2>1, <2>2
<1>9. \A q \in Run : ~Has(run, q)' => \A e \in Employee : ~Has(line'[q], e)
  BY <1>1, <1>6 DEF PayrollInv
<1>10. \A x \in Exception : Has(exception, x)' => Has(run', RunOf[x])
  BY <1>1, <1>6 DEF PayrollInv, PayrollAssumption
<1>11. QED BY <1>1, <1>5, <1>7, <1>8, <1>9, <1>10 DEF PayrollInv

LEMMA RunTransitioned ==
  ASSUME PayrollAssumption, PayrollInv, NEW r \in Run, NEW a \in Actor, TransitionRun(r, a)
  PROVE  PayrollInv'
<1>1. /\ Has(run, r) /\ Unlocked(payrollTx, {r, "policy"})
      /\ UNCHANGED <<line, payrollApproval, exception, payrollTx>>
  BY DEF TransitionRun
<1>2. PICK t \in PayrollTransitions : run' = Moved(run, r, t.to)
  BY DEF TransitionRun
<1>3. run \in [Run -> SummedRow \cup {Absent}] /\ payrollTx = {}
  BY <1>1, NobodyWrites DEF PayrollInv
<1>4. run[r] \in SummedRow
  BY <1>1, <1>3, ThereIsRow
<1> DEFINE row == [run[r] EXCEPT !.status = t.to]
<1>5. /\ row \in SummedRow /\ row.gross = run[r].gross /\ row.net = run[r].net
      /\ row.employees = run[r].employees
  BY <1>4 DEF SummedRow
<1>6. run' = [run EXCEPT ![r] = row]
  BY <1>2 DEF Moved
<1> HIDE DEF row
<1>7. /\ run' \in [Run -> SummedRow \cup {Absent}] /\ run'[r] = row
      /\ \A q \in Run : q # r => run'[q] = run[q]
  BY <1>3, <1>5, <1>6
<1>8. \A q \in Run : Has(run, q)' <=> Has(run, q)
  BY <1>1, <1>5, <1>7, RunIsThere DEF Has
<1>9. ASSUME NEW q \in Run, Has(run, q)' PROVE RunAddsUp(q)'
  <2>1. RunAddsUp(q)
    BY <1>8, <1>9 DEF PayrollInv
  <2>2. run'[q].gross = run[q].gross /\ run'[q].net = run[q].net /\ run'[q].employees = run[q].employees
    BY <1>5, <1>7
  <2>3. QED BY <1>1, <2>1, <2>2 DEF RunAddsUp
<1>10. \A q \in Run : ~Has(run, q)' => \A e \in Employee : ~Has(line'[q], e)
  BY <1>1, <1>8 DEF PayrollInv
<1>11. \A x \in Exception : Has(exception, x)' => Has(run', RunOf[x])
  BY <1>1, <1>8 DEF PayrollInv, PayrollAssumption
<1>12. QED BY <1>1, <1>3, <1>7, <1>9, <1>10, <1>11 DEF PayrollInv

LEMMA LinesChecked ==
  ASSUME PayrollInv, NEW r \in Run, NEW lines \in Sent, CheckLines(r, lines)
  PROVE  PayrollInv'
<1> DEFINE new == [run |-> r, lines |-> lines, locks |-> LocksOfRun(r)]
<1>1. /\ Has(run, r) /\ Unlocked(payrollTx, LocksOfRun(r)) /\ run[r].status \notin PayrollImmutable
      /\ \A e \in DOMAIN lines : lines[e].deduction <= lines[e].gross
      /\ payrollTx' = payrollTx \cup {new} /\ UNCHANGED <<run, line, payrollApproval, exception>>
  BY DEF CheckLines
<1>2. payrollTx' = {new}
  BY <1>1, NobodyWrites DEF LocksOfRun
<1>3. PayrollTxOK(new)
  BY <1>1 DEF PayrollTxOK
<1> HIDE DEF new
<1>4. \A t \in payrollTx' : PayrollTxOK(t)'
  BY <1>1, <1>2, <1>3 DEF PayrollTxOK, Has
<1>5. \A q \in Run : Has(run, q)' => RunAddsUp(q)'
  BY <1>1 DEF PayrollInv, RunAddsUp, Has
<1>6. QED BY <1>1, <1>2, <1>4, <1>5 DEF PayrollInv, Has

LEMMA LinesRolledBack ==
  ASSUME PayrollInv, NEW t \in payrollTx, RollbackLines(t)
  PROVE  PayrollInv'
<1>1. payrollTx' \subseteq payrollTx /\ UNCHANGED <<run, line, payrollApproval, exception>>
  BY DEF RollbackLines
<1>2. \A q \in Run : Has(run, q)' => RunAddsUp(q)'
  BY <1>1 DEF PayrollInv, RunAddsUp, Has
<1>3. \A u \in payrollTx' : PayrollTxOK(u)'
  BY <1>1 DEF PayrollInv, PayrollTxOK, Has
<1>4. QED BY <1>1, <1>2, <1>3 DEF PayrollInv, Has

LEMMA LinesCommitted ==
  ASSUME PayrollAssumption, PayrollInv, NEW t \in payrollTx, CommitLines(t)
  PROVE  PayrollInv'
<1> DEFINE r == t.run
           cell(e) == IF e \in DOMAIN t.lines
                      THEN [status |-> "CALCULATED", gross |-> t.lines[e].gross,
                            net |-> t.lines[e].gross - t.lines[e].deduction]
                      ELSE line[r][e]
           table == [e \in Employee |-> cell(e)]
           paid == {e \in Employee : Has(table, e)}
           row == [run[r] EXCEPT !.gross = Gross(table), !.net = Net(table),
                                 !.employees = Cardinality(paid), !.exceptions = OpenExceptions(exception, r)]
<1>1. /\ line' = [line EXCEPT ![r] = table] /\ payrollTx' = payrollTx \ {t}
      /\ UNCHANGED <<payrollApproval, exception>>
  BY DEF CommitLines
<1>2. run' = [run EXCEPT ![r] = row]
  <2>1. TotalOf(table, t.lines, "gross") = Gross(table) /\ TotalOf(table, t.lines, "net") = Net(table)
    BY DEF TotalOf, Gross, Net
  <2>2. run' = [run EXCEPT ![r].gross = TotalOf(table, t.lines, "gross"), ![r].net = TotalOf(table, t.lines, "net"),
                           ![r].employees = Cardinality(paid), ![r].exceptions = OpenExceptions(exception, r)]
    BY DEF CommitLines
  <2> HIDE DEF table, paid
  <2>3. QED BY <2>1, <2>2
<1>3. /\ PayrollTxOK(t) /\ run \in [Run -> SummedRow \cup {Absent}] /\ line \in [Run -> LineTable]
      /\ r \in Run /\ Has(run, r)
  BY DEF PayrollInv, PayrollTxOK
<1>4. table \in LineTable
  <2>1. ASSUME NEW e \in Employee PROVE cell(e) \in LineRow \cup {Absent}
    <3>1. CASE e \in DOMAIN t.lines
      <4>1. t.lines[e] \in Amount /\ t.lines[e].deduction <= t.lines[e].gross
        BY <1>3, <3>1 DEF PayrollTxOK, Sent
      <4>2. t.lines[e].gross \in Nat /\ t.lines[e].gross - t.lines[e].deduction \in Nat
        BY <4>1 DEF PayrollAssumption
      <4>3. QED BY <3>1, <4>2 DEF LineRow
    <3>2. CASE e \notin DOMAIN t.lines
      BY <1>3, <3>2 DEF LineTable
    <3>3. QED BY <3>1, <3>2
  <2> HIDE DEF cell
  <2>2. QED BY <2>1 DEF LineTable
<1>5. Cardinality(paid) \in 0..Cardinality(Employee) /\ OpenExceptions(exception, r) \in 0..Cardinality(Exception)
  BY EmployeesCounted, ExceptionsTyped
<1>6. run[r] \in SummedRow
  BY <1>3, ThereIsRow
<1> HIDE DEF table
<1>7. /\ row \in SummedRow /\ row.gross = Gross(table) /\ row.net = Net(table)
      /\ row.employees = Cardinality(paid) /\ row.status = run[r].status
  <2>1. Gross(table) \in {Gross(u) : u \in LineTable} /\ Net(table) \in {Net(u) : u \in LineTable}
    BY <1>4
  <2> HIDE DEF paid
  <2>2. QED BY <1>5, <1>6, <2>1 DEF SummedRow
<1> HIDE DEF row
<1>8. /\ run' \in [Run -> SummedRow \cup {Absent}] /\ run'[r] = row
      /\ \A q \in Run : q # r => run'[q] = run[q]
  BY <1>2, <1>3, <1>7
<1>9. /\ line' \in [Run -> LineTable] /\ line'[r] = table
      /\ \A q \in Run : q # r => line'[q] = line[q]
  BY <1>1, <1>3, <1>4
<1>10. \A q \in Run : Has(run, q)' <=> Has(run, q)
  BY <1>7, <1>8 DEF Has
<1>11. payrollTx' = {}
  BY <1>1 DEF PayrollInv
<1>12. ASSUME NEW q \in Run, Has(run, q)' PROVE RunAddsUp(q)'
  <2>1. CASE q = r
    BY <1>7, <1>8, <1>9, <2>1 DEF RunAddsUp, paid
  <2>2. CASE q # r
    <3>1. RunAddsUp(q) /\ run'[q] = run[q] /\ line'[q] = line[q]
      BY <1>8, <1>9, <1>10, <1>12, <2>2 DEF PayrollInv
    <3>2. QED BY <3>1 DEF RunAddsUp
  <2>3. QED BY <2>1, <2>2
<1>13. \A q \in Run : ~Has(run, q)' => \A e \in Employee : ~Has(line'[q], e)
  <2>1. \A q \in Run : ~Has(run, q)' => q # r
    BY <1>3, <1>10
  <2> HIDE DEF r
  <2>2. QED BY <1>9, <1>10, <2>1 DEF PayrollInv
<1>14. \A x \in Exception : Has(exception, x)' => Has(run', RunOf[x])
  BY <1>1, <1>10 DEF PayrollInv, PayrollAssumption
<1>15. QED BY <1>1, <1>8, <1>9, <1>11, <1>12, <1>13, <1>14 DEF PayrollInv

\* Runs keep their sums, lines are not touched, and no transaction begins.
LEMMA PayrollAside ==
  ASSUME PayrollAssumption, PayrollInv, run' \in [Run -> SummedRow \cup {Absent}],
         \A q \in Run : /\ Has(run, q)' <=> Has(run, q)
                        /\ run'[q].status = run[q].status /\ run'[q].gross = run[q].gross
                        /\ run'[q].net = run[q].net /\ run'[q].employees = run[q].employees,
         payrollApproval' \in [Run -> [PayrollStep -> PayrollApprovalRow \cup {Absent}]],
         exception' \in [Exception -> ExceptionRow \cup {Absent}],
         \A x \in Exception : Has(exception, x)' => Has(run, RunOf[x]),
         UNCHANGED <<line, payrollTx>>
  PROVE  PayrollInv'
<1>1. ASSUME NEW q \in Run, Has(run, q)' PROVE RunAddsUp(q)'
  <2>1. RunAddsUp(q)
    BY <1>1 DEF PayrollInv
  <2>2. line'[q] = line[q] /\ run'[q].gross = run[q].gross /\ run'[q].net = run[q].net
        /\ run'[q].employees = run[q].employees
    OBVIOUS
  <2>3. QED BY <2>1, <2>2 DEF RunAddsUp
<1>2. ASSUME NEW t \in payrollTx' PROVE PayrollTxOK(t)'
  BY DEF PayrollInv, PayrollTxOK
<1>3. \A q \in Run : ~Has(run, q)' => \A e \in Employee : ~Has(line'[q], e)
  BY DEF PayrollInv
<1>4. \A x \in Exception : Has(exception, x)' => Has(run', RunOf[x])
  BY DEF PayrollAssumption
<1>5. QED BY <1>1, <1>2, <1>3, <1>4 DEF PayrollInv

LEMMA ExceptionRaised ==
  ASSUME PayrollAssumption, PayrollInv, NEW x \in Exception, RaiseException(x)
  PROVE  PayrollInv'
<1>1. /\ Has(run, RunOf[x]) /\ exception' = [exception EXCEPT ![x] = [status |-> "OPEN"]]
      /\ UNCHANGED <<run, line, payrollApproval, payrollTx>>
  BY DEF RaiseException
<1>2. /\ run \in [Run -> SummedRow \cup {Absent}] /\ exception \in [Exception -> ExceptionRow \cup {Absent}]
      /\ payrollApproval \in [Run -> [PayrollStep -> PayrollApprovalRow \cup {Absent}]]
  BY DEF PayrollInv
<1>3. exception' \in [Exception -> ExceptionRow \cup {Absent}]
  BY <1>1, <1>2 DEF ExceptionRow
<1>4. \A y \in Exception : Has(exception, y)' => Has(run, RunOf[y])
  BY <1>1, <1>2 DEF PayrollInv, Has
<1>5. \A q \in Run : /\ Has(run, q)' <=> Has(run, q)
                     /\ run'[q].status = run[q].status /\ run'[q].gross = run[q].gross
                     /\ run'[q].net = run[q].net /\ run'[q].employees = run[q].employees
  BY <1>1 DEF Has
<1>6. QED BY <1>1, <1>2, <1>3, <1>4, <1>5, PayrollAside

\* The exceptions of the run are counted again; nothing else of it changes.
LEMMA ExceptionResolved ==
  ASSUME PayrollAssumption, PayrollInv, NEW x \in Exception, ResolveException(x)
  PROVE  PayrollInv'
<1> DEFINE r == RunOf[x]
           left == OpenExceptions(exception', r)
           row == [run[r] EXCEPT !.exceptions = left]
<1>1. /\ In(exception, x, {"OPEN"}) /\ exception' = Moved(exception, x, "RESOLVED")
      /\ run' = [run EXCEPT ![r] = row] /\ UNCHANGED <<line, payrollApproval, payrollTx>>
  BY DEF ResolveException
<1>2. /\ run \in [Run -> SummedRow \cup {Absent}] /\ exception \in [Exception -> ExceptionRow \cup {Absent}]
      /\ payrollApproval \in [Run -> [PayrollStep -> PayrollApprovalRow \cup {Absent}]]
  BY DEF PayrollInv
<1>3. Has(exception, x) /\ exception[x] \in ExceptionRow
  BY <1>1, <1>2 DEF In, Has, Absent
<1>4. exception' \in [Exception -> ExceptionRow \cup {Absent}]
  <2>1. [exception[x] EXCEPT !.status = "RESOLVED"] \in ExceptionRow
    BY <1>3 DEF ExceptionRow
  <2>2. QED BY <1>1, <1>2, <2>1, RowMoved
<1>5. r \in Run /\ Has(run, r) /\ run[r] \in SummedRow
  <2>1. r \in Run /\ Has(run, r)
    BY <1>3 DEF PayrollInv, PayrollAssumption
  <2> HIDE DEF r
  <2>2. QED BY <1>2, <2>1, ThereIsRow
<1>6. left \in 0..Cardinality(Exception)
  BY ExceptionsTyped
<1> HIDE DEF left, r
<1>7. /\ row \in SummedRow /\ row.gross = run[r].gross /\ row.net = run[r].net
      /\ row.employees = run[r].employees /\ row.status = run[r].status
  BY <1>5, <1>6 DEF SummedRow
<1> HIDE DEF row
<1>8. /\ run' \in [Run -> SummedRow \cup {Absent}] /\ run'[r] = row
      /\ \A q \in Run : q # r => run'[q] = run[q]
  BY <1>1, <1>2, <1>5, <1>7
<1>9. \A q \in Run : /\ Has(run, q)' <=> Has(run, q)
                     /\ run'[q].status = run[q].status /\ run'[q].gross = run[q].gross
                     /\ run'[q].net = run[q].net /\ run'[q].employees = run[q].employees
  BY <1>7, <1>8 DEF Has
<1>10. \A y \in Exception : Has(exception, y)' => Has(run, RunOf[y])
  BY <1>1, <1>2, <1>3 DEF PayrollInv, Has, Moved
<1>11. QED BY <1>1, <1>2, <1>4, <1>8, <1>9, <1>10, PayrollAside

LEMMA PayrollApprovalsStep ==
  ASSUME PayrollAssumption, PayrollInv, NEW r \in Run, NEW s \in PayrollStep, NEW a \in Actor,
         PayrollDecideApproval(r, s, a) \/ \E m \in Actor : PayrollRequestApproval(r, s, a, m)
  PROVE  PayrollInv'
<1>1. UNCHANGED <<run, line, exception, payrollTx>>
  BY DEF PayrollDecideApproval, PayrollRequestApproval
<1>2. payrollApproval \in [Run -> [PayrollStep -> StaffingApprovalRow \cup {Absent}]]
  BY DEF PayrollInv, PayrollApprovalRow, StaffingApprovalRow
<1>3. payrollApproval' \in [Run -> [PayrollStep -> StaffingApprovalRow \cup {Absent}]]
  <2>1. CASE PayrollDecideApproval(r, s, a)
    <3>1. Has(payrollApproval[r], s)
      BY <2>1 DEF PayrollDecideApproval
    <3>2. PICK status \in Decisions : payrollApproval' = AfterDeciding(payrollApproval, r, s, status, a)
      BY <2>1 DEF PayrollDecideApproval, AfterDeciding
    <3> DEFINE cell == DecidedRow(payrollApproval[r][s], status, a)
    <3>3. cell \in StaffingApprovalRow
      BY <1>2, <3>1, ApprovalDecided
    <3> HIDE DEF cell
    <3>4. payrollApproval' = Replaced(payrollApproval, r, s, cell)
      BY <1>2, <3>2, OneIsDecided DEF cell
    <3>5. QED BY <1>2, <3>3, <3>4, ApprovalAsked
  <2>2. CASE \E m \in Actor : PayrollRequestApproval(r, s, a, m)
    <3>1. PICK m \in Actor : PayrollRequestApproval(r, s, a, m)
      BY <2>2
    <3>2. PICK status \in {"REQUESTED"} \cup Accepted :
            payrollApproval' = Replaced(payrollApproval, r, s, AskedRow(status, a, m))
      BY <3>1 DEF PayrollRequestApproval, Replaced, AskedRow
    <3> DEFINE cell == AskedRow(status, a, m)
    <3>3. cell \in StaffingApprovalRow
      BY DEF AskedRow, StaffingApprovalRow
    <3> HIDE DEF cell
    <3>4. payrollApproval' = Replaced(payrollApproval, r, s, cell)
      BY <3>2 DEF cell
    <3>5. QED BY <1>2, <3>3, <3>4, ApprovalAsked
  <2>3. QED BY <2>1, <2>2
<1>4. payrollApproval' \in [Run -> [PayrollStep -> PayrollApprovalRow \cup {Absent}]]
  BY <1>3 DEF PayrollApprovalRow, StaffingApprovalRow
<1>5. /\ run' \in [Run -> SummedRow \cup {Absent}] /\ exception' \in [Exception -> ExceptionRow \cup {Absent}]
      /\ \A x \in Exception : Has(exception, x)' => Has(run, RunOf[x])
  BY <1>1 DEF PayrollInv, Has
<1>6. \A q \in Run : /\ Has(run, q)' <=> Has(run, q)
                     /\ run'[q].status = run[q].status /\ run'[q].gross = run[q].gross
                     /\ run'[q].net = run[q].net /\ run'[q].employees = run[q].employees
  BY <1>1 DEF Has
<1>7. QED BY <1>1, <1>4, <1>5, <1>6, PayrollAside

LEMMA PayrollStepOK ==
  ASSUME PayrollAssumption, PayrollInv, [PayrollNext]_payrollVars PROVE PayrollInv'
<1>1. CASE UNCHANGED payrollVars
  <2>1. UNCHANGED <<run, line, payrollApproval, exception, payrollTx>>
    BY <1>1 DEF payrollVars
  <2>2. /\ run' \in [Run -> SummedRow \cup {Absent}] /\ exception' \in [Exception -> ExceptionRow \cup {Absent}]
        /\ payrollApproval' \in [Run -> [PayrollStep -> PayrollApprovalRow \cup {Absent}]]
        /\ \A x \in Exception : Has(exception, x)' => Has(run, RunOf[x])
    BY <2>1 DEF PayrollInv, Has
  <2>3. \A q \in Run : /\ Has(run, q)' <=> Has(run, q)
                       /\ run'[q].status = run[q].status /\ run'[q].gross = run[q].gross
                       /\ run'[q].net = run[q].net /\ run'[q].employees = run[q].employees
    BY <2>1 DEF Has
  <2>4. QED BY <2>1, <2>2, <2>3, PayrollAside
<1>2. CASE \E r \in Run, a \in Actor : CreateRun(r, a) \/ TransitionRun(r, a)
  BY <1>2, RunOpened, RunTransitioned
<1>3. CASE \E r \in Run, lines \in Sent : CheckLines(r, lines)
  BY <1>3, LinesChecked
<1>4. CASE \E t \in payrollTx : CommitLines(t) \/ RollbackLines(t)
  BY <1>4, LinesCommitted, LinesRolledBack
<1>5. CASE \E r \in Run, s \in PayrollStep, a \in Actor :
             PayrollDecideApproval(r, s, a) \/ \E m \in Actor : PayrollRequestApproval(r, s, a, m)
  BY <1>5, PayrollApprovalsStep
<1>6. CASE \E x \in Exception : RaiseException(x) \/ ResolveException(x)
  BY <1>6, ExceptionRaised, ExceptionResolved
<1>7. QED BY <1>1, <1>2, <1>3, <1>4, <1>5, <1>6 DEF PayrollNext

LEMMA PayrollInvariance == ASSUME PayrollAssumption PROVE PayrollSpec => []PayrollInv
<1>1. PayrollInit => PayrollInv
  BY PayrollInitOK
<1>2. PayrollInv /\ [PayrollNext]_payrollVars => PayrollInv'
  BY PayrollStepOK
<1>3. QED BY <1>1, <1>2, PTL DEF PayrollSpec

\* The totals of a run are the sums over its lines, for any number of employees,
\* whatever lines are sent and by how many callers of upsert_run_lines.
THEOREM PayrollTotalsAddUp == ASSUME PayrollAssumption PROVE PayrollSpec => []PayrollAddsUp
<1>1. PayrollInv => PayrollAddsUp
  BY DEF PayrollInv, PayrollAddsUp, RunAddsUp, Gross, Net
<1>2. QED BY <1>1, PayrollInvariance, PTL

\* A run in an immutable status keeps lines and totals: who sends lines holds the
\* run's row, so that its status does not change before they are written.
THEOREM PayrollPaidRunFrozen == ASSUME PayrollAssumption PROVE PayrollSpec => [][PaidRunFrozen]_payrollVars
<1>1. PayrollInv /\ [PayrollNext]_payrollVars => [PaidRunFrozen]_payrollVars
  <2> SUFFICES ASSUME PayrollInv, PayrollNext, NEW r \in Run, run[r].status \in PayrollImmutable
               PROVE  line'[r] = line[r] /\ run'[r].gross = run[r].gross /\ run'[r].net = run[r].net
    BY DEF PaidRunFrozen
  <2>1. Has(run, r) /\ run \in [Run -> SummedRow \cup {Absent}] /\ line \in [Run -> LineTable]
    BY DEF PayrollAssumption, PayrollInv, Has
  <2>2. run[r] \in SummedRow
    BY <2>1, ThereIsRow
  <2>3. CASE UNCHANGED <<run, line>>
    BY <2>3
  <2>4. ASSUME NEW q \in Run, NEW a \in Actor, CreateRun(q, a) \/ TransitionRun(q, a)
        PROVE  line'[r] = line[r] /\ run'[r].gross = run[r].gross /\ run'[r].net = run[r].net
    <3>1. CASE CreateRun(q, a)
      BY <2>1, <3>1 DEF CreateRun
    <3>2. CASE TransitionRun(q, a)
      <4>1. line' = line /\ \E t \in PayrollTransitions : run' = [run EXCEPT ![q].status = t.to]
        BY <3>2 DEF TransitionRun, Moved
      <4>2. QED BY <2>1, <2>2, <4>1 DEF SummedRow
    <3>3. QED BY <2>4, <3>1, <3>2
  <2>5. ASSUME NEW t \in payrollTx, CommitLines(t)
        PROVE  line'[r] = line[r] /\ run'[r].gross = run[r].gross /\ run'[r].net = run[r].net
    <3>1. t.run # r
      BY DEF PayrollInv, PayrollTxOK
    <3>2. line'[r] = line[r]
      BY <2>1, <2>5, <3>1 DEF CommitLines
    <3>3. run'[r] = run[r]
      BY <2>1, <2>5, <3>1 DEF CommitLines
    <3>4. QED BY <3>2, <3>3
  <2>6. ASSUME NEW x \in Exception, ResolveException(x)
        PROVE  line'[r] = line[r] /\ run'[r].gross = run[r].gross /\ run'[r].net = run[r].net
    <3> DEFINE left == OpenExceptions(exception', RunOf[x])
    <3>1. line' = line /\ run' = [run EXCEPT ![RunOf[x]].exceptions = left]
      BY <2>6 DEF ResolveException
    <3> HIDE DEF left
    <3>2. QED BY <2>1, <2>2, <3>1 DEF SummedRow
  <2>7. QED BY <2>3, <2>4, <2>5, <2>6 DEF PayrollNext, CheckLines, RollbackLines, RaiseException,
           PayrollDecideApproval, PayrollRequestApproval
<1>2. QED BY <1>1, PayrollInvariance, PTL DEF PayrollSpec

-----------------------------------------------------------------------------
(* Quality and safety: rows under a policy, and the approvals they need.   *)

\* A record in a status other than its first has the approvals of a rule that
\* leads there.
ReviewedRow(k, row, i, approvals) ==
  \/ row.status = Initial[k]
  \/ \E t \in Rules[k] : t.to = row.status /\
       \A s \in t.needs : \E x \in approvals :
         x.of = i /\ x.step = s /\ x.status = "ACCEPTED" /\ x.decider \notin {Nobody, x.by}

\* Nobody decides on what he asked for.
DecidedByAnother == \A x \in approval : x.status # "PENDING" => x.decider \notin {Nobody, x.by}

QualityReviewedKinds == {"ITP", "REQUEST", "NCR", "ACTION"}

\* What the promise says of one action.
VerifiedByAnother(row) ==
  "verified" \in row.stamps => row.verifier # row.owner /\ "completed" \in row.stamps

QualityInv ==
  /\ QualityTypeOK /\ DecidedByAnother
  /\ \A i \in Item : Has(item, i) =>
       /\ Kind[i] \in QualityReviewedKinds => ReviewedRow(Kind[i], item[i], i, approval)
       /\ Kind[i] = "ACTION" => VerifiedByAnother(item[i])

LEMMA ReviewedIsRow ==
  ASSUME NEW k, NEW i
  PROVE  Reviewed(Rules[k], Initial[k], item, approval, i) <=>
           (Has(item, i) => ReviewedRow(k, item[i], i, approval))
BY DEF Reviewed, ReviewedRow

\* Accepted approvals stay, so that what was reviewed is so afterwards.
LEMMA ReviewStands ==
  ASSUME NEW k, NEW row, NEW i, NEW before, NEW after,
         ReviewedRow(k, row, i, before),
         \A x \in before : x.status = "ACCEPTED" => x \in after
  PROVE  ReviewedRow(k, row, i, after)
BY DEF ReviewedRow

\* The row that a rule leaves.
SteppedRow(row, t) == [row EXCEPT !.status = t.to, !.stamps = @ \cup ({t.milestone} \ {"none"})]

LEMMA SteppedIsRow ==
  ASSUME NEW i \in DOMAIN item, NEW t
  PROVE  Stepped(item, i, t) = [item EXCEPT ![i] = SteppedRow(item[i], t)]
BY DEF Stepped, SteppedRow

\* A rule whose approvals are there leads to a reviewed row.
LEMMA SteppedIsReviewed ==
  ASSUME NEW k, NEW i, NEW t \in Rules[k], Met(approval, i, t), DecidedByAnother,
         NEW row, row.status = t.to
  PROVE  ReviewedRow(k, row, i, approval)
BY DEF Met, ReviewedRow, DecidedByAnother

-----------------------------------------------------------------------------
(* Proofs of quality.                                                      *)

\* One record of its kind is written, and is what the invariant wants.
QualityWritten(i, row) ==
  /\ item' = [item EXCEPT ![i] = row] /\ UNCHANGED approval
  /\ row \in QualityRowOf(i)
  /\ Kind[i] \in QualityReviewedKinds => ReviewedRow(Kind[i], row, i, approval)
  /\ Kind[i] = "ACTION" => VerifiedByAnother(row)

LEMMA QualityWrittenOK ==
  ASSUME QualityInv, NEW i \in Item, NEW row, QualityWritten(i, row)
  PROVE  QualityInv'
<1>1. /\ DOMAIN item' = Item /\ item'[i] = row
      /\ \A j \in Item : j # i => item'[j] = item[j]
  BY DEF QualityInv, QualityTypeOK, QualityWritten
<1>2. approval' = approval
  BY DEF QualityWritten
<1>3. \A j \in Item : item'[j] \in QualityRowOf(j) \cup {Absent}
  BY <1>1 DEF QualityInv, QualityTypeOK, QualityWritten
<1>4. QualityTypeOK'
  BY <1>1, <1>2, <1>3 DEF QualityInv, QualityTypeOK, QualityApprovalRow, QualityRowOf, ItpRow,
    RequestRow, QualityInspectionRow, TestRow, NcrRow, QualityActionRow, QualityRiskRow, QualityRow, Status, Stamp
<1>5. DecidedByAnother'
  BY <1>2 DEF QualityInv, DecidedByAnother
<1>6. ASSUME NEW j \in Item, Has(item', j)
      PROVE  /\ Kind[j] \in QualityReviewedKinds => ReviewedRow(Kind[j], item'[j], j, approval)
             /\ Kind[j] = "ACTION" => VerifiedByAnother(item'[j])
  <2>1. CASE j = i
    BY <1>1, <2>1 DEF QualityWritten
  <2>2. CASE j # i
    <3>1. Has(item, j) /\ item'[j] = item[j]
      BY <1>1, <1>6, <2>2 DEF Has
    <3>2. QED BY <3>1 DEF QualityInv
  <2>3. QED BY <2>1, <2>2
<1>7. QED BY <1>2, <1>4, <1>5, <1>6 DEF QualityInv, Has, ReviewedRow, VerifiedByAnother

LEMMA QualityInitOK == ASSUME QualityInit PROVE QualityInv
<1>1. QualityTypeOK
  BY DEF QualityInit, QualityTypeOK
<1>2. \A i \in Item : ~Has(item, i)
  BY DEF QualityInit, Has, Absent
<1>3. DecidedByAnother
  BY DEF QualityInit, DecidedByAnother
<1>4. QED BY <1>1, <1>2, <1>3 DEF QualityInv

\* What the rows are, kind by kind.
LEMMA QualityRowsOfKind ==
  ASSUME NEW i
  PROVE  /\ Kind[i] \in {"ITP", "REQUEST", "NCR"} => QualityRowOf(i) = QualityRow(Kind[i])
         /\ Kind[i] = "ACTION" => QualityRowOf(i) = QualityActionRow
         /\ Kind[i] = "INSPECTION" => QualityRowOf(i) = QualityInspectionRow
         /\ Kind[i] = "TEST" => QualityRowOf(i) = TestRow
         /\ Kind[i] = "RISK" => QualityRowOf(i) = QualityRiskRow
BY DEF QualityRowOf, ItpRow, RequestRow, NcrRow

LEMMA QualityCreations ==
  ASSUME QualityInv, NEW i \in Item,
         \/ CreateItp(i) \/ CreateInspectionRequest(i) \/ QualityRecordInspection(i)
         \/ RecordTestResult(i) \/ CreateNcr(i) \/ QualityCreateAction(i) \/ QualityCreateRisk(i)
  PROVE  QualityInv'
<1>1. ASSUME NEW k \in {"ITP", "REQUEST", "NCR"}, Created(k, i, Fresh(k)) PROVE QualityInv'
  <2>1. Fresh(k) \in QualityRow(k) /\ Fresh(k).status = Initial[k]
    BY DEF Fresh, QualityRow, Status
  <2>2. QualityWritten(i, Fresh(k))
    BY <1>1, <2>1, QualityRowsOfKind DEF Created, QualityWritten, ReviewedRow
  <2>3. QED BY <2>2, QualityWrittenOK
<1>2. ASSUME NEW k \in {"INSPECTION", "TEST", "RISK"}, NEW row \in QualityRowOf(i), Created(k, i, row)
      PROVE  QualityInv'
  <2>1. QualityWritten(i, row)
    BY <1>2 DEF Created, QualityWritten, QualityReviewedKinds
  <2>2. QED BY <2>1, QualityWrittenOK
<1>3. CASE QualityRecordInspection(i)
  <2>1. PICK status \in {"SCHEDULED", "COMPLETED"} : Created("INSPECTION", i, [status |-> status, stamps |-> {}])
    BY <1>3 DEF QualityRecordInspection
  <2>2. [status |-> status, stamps |-> {}] \in QualityRowOf(i)
    BY <2>1, QualityRowsOfKind DEF Created, QualityInspectionRow
  <2>3. QED BY <1>2, <2>1, <2>2
<1>4. CASE RecordTestResult(i)
  <2>1. [status |-> "RECORDED", stamps |-> {}] \in QualityRowOf(i)
    BY <1>4, QualityRowsOfKind DEF RecordTestResult, Created, TestRow
  <2>2. QED BY <1>2, <1>4, <2>1 DEF RecordTestResult
<1>5. CASE QualityCreateRisk(i)
  <2>1. [status |-> "OPEN", stamps |-> {}] \in QualityRowOf(i)
    BY <1>5, QualityRowsOfKind DEF QualityCreateRisk, Created, QualityRiskRow
  <2>2. QED BY <1>2, <1>5, <2>1 DEF QualityCreateRisk
<1>6. CASE QualityCreateAction(i)
  <2>1. PICK owner \in Member \cup {Nobody} :
          Created("ACTION", i, [status |-> Initial["ACTION"], stamps |-> {}, owner |-> owner, verifier |-> Nobody])
    BY <1>6 DEF QualityCreateAction
  <2> DEFINE row == [status |-> Initial["ACTION"], stamps |-> {}, owner |-> owner, verifier |-> Nobody]
  <2>2. row \in QualityActionRow /\ row.status = Initial["ACTION"] /\ row.stamps = {}
    BY DEF QualityActionRow, Status
  <2>3. Created("ACTION", i, row)
    BY <2>1
  <2> HIDE DEF row
  <2>4. QualityWritten(i, row)
    BY <2>2, <2>3, QualityRowsOfKind DEF Created, QualityWritten, ReviewedRow, VerifiedByAnother
  <2>5. QED BY <2>4, QualityWrittenOK
<1>7. QED BY <1>1, <1>3, <1>4, <1>5, <1>6 DEF CreateItp, CreateInspectionRequest, CreateNcr

LEMMA QualityTransitions ==
  ASSUME QualityInv, NEW i \in Item, NEW k \in {"ITP", "REQUEST", "NCR"}, QualityTransitioned(k, i)
  PROVE  QualityInv'
<1>1. PICK t \in Allowed(Rules[k], item, i) : Met(approval, i, t) /\ item' = Stepped(item, i, t)
  BY DEF QualityTransitioned
<1>2. Kind[i] = k /\ UNCHANGED approval
  BY DEF QualityTransitioned
<1>3. t \in Rules[k] /\ Has(item, i)
  BY <1>1 DEF Allowed
<1> DEFINE row == SteppedRow(item[i], t)
<1>4. i \in DOMAIN item /\ item[i] \in QualityRow(k)
  BY <1>2, <1>3, QualityRowsOfKind DEF QualityInv, QualityTypeOK, Has, Absent
<1>5. row \in QualityRow(k) /\ row.status = t.to
  BY <1>3, <1>4 DEF QualityRow, Status, Stamp, SteppedRow
<1>6. item' = [item EXCEPT ![i] = row]
  BY <1>1, <1>4, SteppedIsRow
<1> HIDE DEF row
<1>7. ReviewedRow(k, row, i, approval)
  BY <1>1, <1>3, <1>5, SteppedIsReviewed DEF QualityInv
<1>8. QualityWritten(i, row)
  BY <1>2, <1>5, <1>6, <1>7, QualityRowsOfKind DEF QualityWritten
<1>9. QED BY <1>8, QualityWrittenOK

LEMMA QualityActionTransition ==
  ASSUME QualityInv, NEW i \in Item, NEW m \in Member, QualityTransitionAction(i, m)
  PROVE  QualityInv'
<1>1. PICK t \in Allowed(Rules["ACTION"], item, i) :
        /\ Met(approval, i, t)
        /\ t.milestone = "verified" => MayVerify(i, m)
        /\ item' = [Stepped(item, i, t) EXCEPT
             ![i].verifier = IF t.milestone = "verified" THEN m ELSE @]
  BY DEF QualityTransitionAction
<1>2. Kind[i] = "ACTION" /\ UNCHANGED approval
  BY DEF QualityTransitionAction
<1>3. t \in Rules["ACTION"] /\ Has(item, i)
  BY <1>1 DEF Allowed
<1> DEFINE next == SteppedRow(item[i], t)
           verifier == IF t.milestone = "verified" THEN m ELSE next.verifier
           row == [next EXCEPT !.verifier = verifier]
<1>4. i \in DOMAIN item /\ item[i] \in QualityActionRow /\ VerifiedByAnother(item[i])
  BY <1>2, <1>3, QualityRowsOfKind DEF QualityInv, QualityTypeOK, Has, Absent
<1>5. /\ next \in QualityActionRow /\ next.status = t.to
      /\ next.owner = item[i].owner /\ next.verifier = item[i].verifier
      /\ next.stamps = item[i].stamps \cup ({t.milestone} \ {"none"})
  BY <1>3, <1>4 DEF QualityActionRow, Status, Stamp, SteppedRow
<1>6. item' = [item EXCEPT ![i] = row]
  <2>1. Stepped(item, i, t) = [item EXCEPT ![i] = next]
    BY <1>4, SteppedIsRow
  <2>2. item' = [[item EXCEPT ![i] = next] EXCEPT
             ![i].verifier = IF t.milestone = "verified" THEN m ELSE @]
    BY <1>1, <2>1
  <2> HIDE DEF next
  <2>3. QED BY <1>4, <2>2
<1> HIDE DEF next
<1>7. /\ row \in QualityActionRow /\ row.status = t.to /\ row.stamps = next.stamps
      /\ row.owner = next.owner /\ row.verifier = verifier
  BY <1>5 DEF QualityActionRow
<1> HIDE DEF row
<1>8. ReviewedRow("ACTION", row, i, approval)
  BY <1>1, <1>3, <1>7, SteppedIsReviewed DEF QualityInv
<1>9. VerifiedByAnother(row)
  BY <1>1, <1>4, <1>5, <1>7 DEF VerifiedByAnother, MayVerify
<1>10. QualityWritten(i, row)
  BY <1>2, <1>6, <1>7, <1>8, <1>9, QualityRowsOfKind DEF QualityWritten
<1>11. QED BY <1>10, QualityWrittenOK

LEMMA QualityRiskResolved ==
  ASSUME QualityInv, NEW i \in Item, QualityResolveRisk(i)
  PROVE  QualityInv'
<1> DEFINE row == [item[i] EXCEPT !.status = "RESOLVED"]
<1>1. Kind[i] = "RISK" /\ item' = [item EXCEPT ![i] = row] /\ UNCHANGED approval /\ item[i].status = "OPEN"
  BY DEF QualityResolveRisk, Moved, In
<1>2. item[i] \in QualityRiskRow
  BY <1>1, QualityRowsOfKind DEF QualityInv, QualityTypeOK, Absent
<1>3. row \in QualityRiskRow
  BY <1>2 DEF QualityRiskRow
<1> HIDE DEF row
<1>4. QualityWritten(i, row)
  BY <1>1, <1>3, QualityRowsOfKind DEF QualityWritten, QualityReviewedKinds
<1>5. QED BY <1>4, QualityWrittenOK

\* Records as they were and accepted approvals kept.
LEMMA QualityApprovalsOK ==
  ASSUME QualityInv, UNCHANGED item, approval' \subseteq QualityApprovalRow, DecidedByAnother',
         \A x \in approval : x.status = "ACCEPTED" => x \in approval'
  PROVE  QualityInv'
<1>1. QualityTypeOK'
  BY DEF QualityInv, QualityTypeOK, QualityApprovalRow, QualityRowOf, ItpRow, RequestRow,
    QualityInspectionRow, TestRow, NcrRow, QualityActionRow, QualityRiskRow, QualityRow, Status, Stamp
<1>2. ASSUME NEW i \in Item, Has(item, i)
      PROVE  /\ Kind[i] \in QualityReviewedKinds => ReviewedRow(Kind[i], item[i], i, approval')
             /\ Kind[i] = "ACTION" => VerifiedByAnother(item[i])
  BY <1>2, ReviewStands DEF QualityInv
<1>3. QED BY <1>1, <1>2 DEF QualityInv, Has, ReviewedRow, VerifiedByAnother

\* An approval that is decided: the others are as they were.
LEMMA DecidedApproval ==
  ASSUME NEW x \in approval, approval \subseteq QualityApprovalRow, DecidedByAnother, x.status = "PENDING",
         NEW m \in Member, m # Nobody, m # x.by,
         NEW verdict \in Verdicts, approval' = Decided(approval, x, verdict, m)
  PROVE  /\ approval' \subseteq QualityApprovalRow /\ DecidedByAnother'
         /\ \A y \in approval : y.status = "ACCEPTED" => y \in approval'
<1> DEFINE y == [x EXCEPT !.status = verdict, !.decider = m]
<1>1. y \in QualityApprovalRow /\ y.by = x.by /\ y.decider = m
  BY DEF QualityApprovalRow, ApprovalRow
<1>2. approval' = (approval \ {x}) \cup {y}
  BY DEF Decided
<1> HIDE DEF y
<1>3. QED BY <1>1, <1>2 DEF DecidedByAnother

LEMMA RequestedApproval ==
  ASSUME approval \subseteq QualityApprovalRow, DecidedByAnother, NEW i \in Item, NEW s \in Step,
         NEW m \in Member, NEW from \in Member,
         approval' = approval \cup {Requested(i, s, m, from)}
  PROVE  /\ approval' \subseteq QualityApprovalRow /\ DecidedByAnother'
         /\ \A y \in approval : y.status = "ACCEPTED" => y \in approval'
<1>1. Requested(i, s, m, from) \in QualityApprovalRow /\ Requested(i, s, m, from).status = "PENDING"
  BY DEF Requested, QualityApprovalRow, ApprovalRow
<1>2. QED BY <1>1 DEF DecidedByAnother

LEMMA QualityStepOK == ASSUME QualityAssumption, QualityInv, [QualityNext]_qualityVars PROVE QualityInv'
<1>1. CASE UNCHANGED qualityVars
  <2>1. approval' \subseteq QualityApprovalRow /\ DecidedByAnother' /\ UNCHANGED item /\ approval' = approval
    BY <1>1 DEF qualityVars, QualityInv, QualityTypeOK, DecidedByAnother
  <2>2. QED BY <2>1, QualityApprovalsOK
<1>2. ASSUME NEW i \in Item, NEW s \in Step, NEW m \in Member, NEW from \in Member,
             QualityRequestApproval(i, s, m, from)
      PROVE  QualityInv'
  <2>1. approval' = approval \cup {Requested(i, s, m, from)} /\ UNCHANGED item
    BY <1>2 DEF QualityRequestApproval
  <2>2. approval \subseteq QualityApprovalRow /\ DecidedByAnother
    BY DEF QualityInv, QualityTypeOK
  <2>3. approval' \subseteq QualityApprovalRow /\ DecidedByAnother'
    BY <2>1, <2>2, RequestedApproval
  <2>4. QED BY <2>1, <2>3, QualityApprovalsOK
<1>3. ASSUME NEW x \in approval, NEW m \in Member, QualityDecideApproval(x, m) PROVE QualityInv'
  <2>1. PICK verdict \in Verdicts : approval' = Decided(approval, x, verdict, m)
    BY <1>3 DEF QualityDecideApproval
  <2>2. /\ approval \subseteq QualityApprovalRow /\ DecidedByAnother /\ UNCHANGED item
        /\ x.status = "PENDING" /\ m # x.by /\ m # Nobody
    BY <1>3 DEF QualityInv, QualityTypeOK, QualityDecideApproval, MayDecide, QualityAssumption
  <2>3. /\ approval' \subseteq QualityApprovalRow /\ DecidedByAnother'
        /\ \A y \in approval : y.status = "ACCEPTED" => y \in approval'
    BY <2>1, <2>2, DecidedApproval
  <2>4. QED BY <2>2, <2>3, QualityApprovalsOK
<1>4. QED BY <1>1, <1>2, <1>3, QualityCreations, QualityTransitions, QualityActionTransition,
           QualityRiskResolved
      DEF QualityNext, TransitionItp, TransitionInspectionRequest, TransitionNcr

LEMMA QualityInvariance == ASSUME QualityAssumption PROVE QualitySpec => []QualityInv
<1>1. QualityInv /\ [QualityNext]_qualityVars => QualityInv'
  BY QualityStepOK
<1>2. QualityInit => QualityInv
  BY QualityInitOK
<1>3. QED BY <1>1, <1>2, PTL DEF QualitySpec

\* Rows of qualityops keep their types.
THEOREM QualityTypeCorrect == ASSUME QualityAssumption PROVE QualitySpec => []QualityTypeOK
<1>1. QualityInv => QualityTypeOK
  BY DEF QualityInv
<1>2. QED BY <1>1, QualityInvariance, PTL

\* Whatever a record of quality went through, the approvals that its status asked
\* for stand, decided by others than asked for them, and no corrective action is
\* verified by its owner or before it is completed, for any policy and records.
THEOREM QualityReviewsStand == ASSUME QualityAssumption PROVE QualitySpec => []QualityIsReviewed
<1>1. QualityInv => QualityIsReviewed
  BY ReviewedIsRow DEF QualityInv, QualityIsReviewed, QualityReviewedKinds, VerifiedByAnother
<1>2. QED BY <1>1, QualityInvariance, PTL

-----------------------------------------------------------------------------
(* Proofs of safety.                                                       *)

SafetyReviewedKinds == {"OBSERVATION", "INCIDENT", "PERMIT", "ACTION"}

\* What went wrong with record i has its follow-up.
FollowedUp(i) ==
  /\ Kind[i] = "INCIDENT" /\ item[i].critical =>
       \E r \in Item : Kind[r] = "RISK" /\ Has(item, r) /\ item[r].source = i
  /\ Kind[i] = "INSPECTION" /\ In(item, i, {"FAILED"}) =>
       Has(item, AutoAction[i]) /\ item[AutoAction[i]].source = i

SafetyInv ==
  /\ SafetyTypeOK /\ DecidedByAnother
  /\ \A i \in Item : Has(item, i) =>
       /\ Kind[i] \in SafetyReviewedKinds => ReviewedRow(Kind[i], item[i], i, approval)
       /\ Kind[i] = "INSPECTION" => i \in DOMAIN AutoAction
       /\ FollowedUp(i)

\* A record that is there stays, with what other records refer to.
RecordStands(i) ==
  Has(item, i) =>
    /\ Has(item', i)
    /\ Kind[i] \in {"RISK", "ACTION"} => item'[i].source = item[i].source
    /\ Kind[i] = "INCIDENT" => item'[i].critical = item[i].critical
    /\ Kind[i] = "INSPECTION" => item'[i].status = item[i].status

LEMMA FollowUpsStand ==
  ASSUME SafetyAssumption, SafetyInv, \A i \in Item : RecordStands(i), NEW i \in Item, Has(item, i)
  PROVE  FollowedUp(i)'
<1>1. FollowedUp(i) /\ RecordStands(i)
  BY DEF SafetyInv
<1>2. ASSUME Kind[i] = "INCIDENT", item'[i].critical
      PROVE  \E r \in Item : Kind[r] = "RISK" /\ Has(item', r) /\ item'[r].source = i
  <2>1. PICK r \in Item : Kind[r] = "RISK" /\ Has(item, r) /\ item[r].source = i
    BY <1>1, <1>2 DEF FollowedUp, RecordStands
  <2>2. Has(item', r) /\ item'[r].source = i
    BY <2>1 DEF RecordStands
  <2>3. QED BY <2>1, <2>2
<1>3. ASSUME Kind[i] = "INSPECTION", In(item', i, {"FAILED"})
      PROVE  Has(item', AutoAction[i]) /\ item'[AutoAction[i]].source = i
  <2>1. i \in DOMAIN AutoAction
    BY <1>3 DEF SafetyInv
  <2>2. AutoAction[i] \in Item /\ Kind[AutoAction[i]] = "ACTION"
    BY <2>1 DEF SafetyAssumption
  <2>3. Has(item, AutoAction[i]) /\ item[AutoAction[i]].source = i
    BY <1>1, <1>3 DEF FollowedUp, RecordStands, In
  <2>4. QED BY <2>2, <2>3 DEF RecordStands
<1>4. QED BY <1>2, <1>3 DEF FollowedUp, Has, In

\* Kind by kind, what the rows are; a row of any of them is there.
LEMMA SafetyRowsOfKind ==
  ASSUME NEW i
  PROVE  /\ Kind[i] = "OBSERVATION" => SafetyRowOf(i) = ObservationRow
         /\ Kind[i] = "INCIDENT" => SafetyRowOf(i) = IncidentRow
         /\ Kind[i] = "PERMIT" => SafetyRowOf(i) = PermitRow
         /\ Kind[i] = "INSPECTION" => SafetyRowOf(i) = SafetyInspectionRow
         /\ Kind[i] = "TALK" => SafetyRowOf(i) = TalkRow
         /\ Kind[i] = "ACTION" => SafetyRowOf(i) = SafetyActionRow
         /\ Kind[i] = "RISK" => SafetyRowOf(i) = SafetyRiskRow
BY DEF SafetyRowOf

LEMMA SafetyRowIsThere ==
  ASSUME SafetyAssumption, NEW i \in Item, NEW row \in SafetyRowOf(i)
  PROVE  row.status # "ABSENT"
<1>1. Kind[i] \in SafetyKinds
  BY DEF SafetyAssumption
<1>2. \A k \in SafetyKinds : "ABSENT" \notin Status(k)
  BY DEF SafetyAssumption, SafetyPolicy, IsPolicy, Status
<1>3. Kind[i] \in {"OBSERVATION", "INCIDENT", "PERMIT", "ACTION"} => row.status \in Status(Kind[i])
  <2>1. CASE Kind[i] = "OBSERVATION"
    <3>1. row \in ObservationRow
      BY <2>1, SafetyRowsOfKind
    <3>2. QED BY <2>1, <3>1 DEF ObservationRow, SafetyRow
  <2>2. CASE Kind[i] = "INCIDENT"
    <3>1. row \in IncidentRow
      BY <2>2, SafetyRowsOfKind
    <3>2. QED BY <2>2, <3>1 DEF IncidentRow
  <2>3. CASE Kind[i] = "PERMIT"
    <3>1. row \in PermitRow
      BY <2>3, SafetyRowsOfKind
    <3>2. QED BY <2>3, <3>1 DEF PermitRow, SafetyRow
  <2>4. CASE Kind[i] = "ACTION"
    <3>1. row \in SafetyActionRow
      BY <2>4, SafetyRowsOfKind
    <3>2. QED BY <2>4, <3>1 DEF SafetyActionRow
  <2>5. QED BY <2>1, <2>2, <2>3, <2>4
<1>4. Kind[i] \in {"INSPECTION", "TALK", "RISK"} => row.status # "ABSENT"
  <2>1. CASE Kind[i] = "INSPECTION"
    <3>1. row \in SafetyInspectionRow
      BY <2>1, SafetyRowsOfKind
    <3>2. QED BY <2>1, <3>1 DEF SafetyInspectionRow
  <2>2. CASE Kind[i] = "TALK"
    <3>1. row \in TalkRow
      BY <2>2, SafetyRowsOfKind
    <3>2. QED BY <2>2, <3>1 DEF TalkRow
  <2>3. CASE Kind[i] = "RISK"
    <3>1. row \in SafetyRiskRow
      BY <2>3, SafetyRowsOfKind
    <3>2. QED BY <2>3, <3>1 DEF SafetyRiskRow
  <2>4. QED BY <2>1, <2>2, <2>3
<1>5. QED BY <1>1, <1>2, <1>3, <1>4 DEF SafetyKinds

\* Records written as their types, reviews and follow-ups want them.
LEMMA SafetyWrittenOK ==
  ASSUME SafetyAssumption, SafetyInv, UNCHANGED approval, DOMAIN item' = Item,
         \A i \in Item : item'[i] \in SafetyRowOf(i) \cup {Absent},
         \A i \in Item : RecordStands(i),
         \A i \in Item : Has(item', i) =>
           /\ Kind[i] \in SafetyReviewedKinds => ReviewedRow(Kind[i], item'[i], i, approval)
           /\ ~Has(item, i) => (Kind[i] = "INSPECTION" => i \in DOMAIN AutoAction) /\ FollowedUp(i)'
  PROVE  SafetyInv'
<1>1. SafetyTypeOK'
  BY DEF SafetyInv, SafetyTypeOK, SafetyApprovalRow, SafetyRowOf, ObservationRow, IncidentRow,
    PermitRow, SafetyInspectionRow, TalkRow, SafetyActionRow, SafetyRiskRow, SafetyRow, Status
<1>2. DecidedByAnother'
  BY DEF SafetyInv, DecidedByAnother
<1>3. ASSUME NEW i \in Item, Has(item', i)
      PROVE  (Kind[i] = "INSPECTION" => i \in DOMAIN AutoAction) /\ FollowedUp(i)'
  BY <1>3, FollowUpsStand DEF SafetyInv
<1>4. QED BY <1>1, <1>2, <1>3 DEF SafetyInv, Has, ReviewedRow

LEMMA SafetyInitOK == ASSUME SafetyInit PROVE SafetyInv
<1>1. SafetyTypeOK
  BY DEF SafetyInit, SafetyTypeOK
<1>2. \A i \in Item : ~Has(item, i)
  BY DEF SafetyInit, Has, Absent
<1>3. DecidedByAnother
  BY DEF SafetyInit, DecidedByAnother
<1>4. QED BY <1>1, <1>2, <1>3 DEF SafetyInv

\* The rows of one transaction: new, and with their follow-ups among them.
NewRow(i, rows) ==
  /\ rows[i] \in SafetyRowOf(i)
  /\ Kind[i] \in SafetyReviewedKinds => rows[i].status = Initial[Kind[i]]
  /\ Kind[i] = "INSPECTION" => i \in DOMAIN AutoAction
  /\ Kind[i] = "INCIDENT" /\ rows[i].critical =>
       \E r \in DOMAIN rows : Kind[r] = "RISK" /\ rows[r].source = i
  /\ Kind[i] = "INSPECTION" /\ rows[i].status = "FAILED" =>
       AutoAction[i] \in DOMAIN rows /\ rows[AutoAction[i]].source = i

LEMMA InsertedOK ==
  ASSUME SafetyAssumption, SafetyInv, NEW rows, DOMAIN rows \subseteq Item,
         \A i \in DOMAIN rows : NewRow(i, rows), Inserted(rows)
  PROVE  SafetyInv'
<1>1. /\ DOMAIN item' = Item /\ UNCHANGED approval
      /\ \A i \in DOMAIN rows : item'[i] = rows[i] /\ ~Has(item, i)
      /\ \A i \in Item : i \notin DOMAIN rows => item'[i] = item[i]
  BY DEF Inserted
<1>2. \A i \in Item : item'[i] \in SafetyRowOf(i) \cup {Absent}
  BY <1>1 DEF SafetyInv, SafetyTypeOK, NewRow
<1>3. \A i \in Item : RecordStands(i)
  BY <1>1 DEF RecordStands, Has
<1>4. \A i \in DOMAIN rows : Has(item', i)
  BY <1>1, SafetyRowIsThere DEF NewRow, Has
<1>5. ASSUME NEW i \in DOMAIN rows PROVE FollowedUp(i)'
  <2>1. ASSUME Kind[i] = "INCIDENT", item'[i].critical
        PROVE  \E r \in Item : Kind[r] = "RISK" /\ Has(item', r) /\ item'[r].source = i
    <3>1. PICK r \in DOMAIN rows : Kind[r] = "RISK" /\ rows[r].source = i
      BY <1>1, <2>1 DEF NewRow
    <3>2. QED BY <1>1, <1>4, <3>1
  <2>2. ASSUME Kind[i] = "INSPECTION", In(item', i, {"FAILED"})
        PROVE  Has(item', AutoAction[i]) /\ item'[AutoAction[i]].source = i
    BY <1>1, <1>4, <2>2 DEF NewRow, In
  <2>3. QED BY <2>1, <2>2 DEF FollowedUp, Has, In
<1>6. ASSUME NEW i \in Item, Has(item', i)
      PROVE  /\ Kind[i] \in SafetyReviewedKinds => ReviewedRow(Kind[i], item'[i], i, approval)
             /\ ~Has(item, i) => (Kind[i] = "INSPECTION" => i \in DOMAIN AutoAction) /\ FollowedUp(i)'
  <2>1. CASE i \in DOMAIN rows
    BY <1>1, <1>5, <2>1 DEF NewRow, ReviewedRow
  <2>2. CASE i \notin DOMAIN rows
    <3>1. Has(item, i) /\ item'[i] = item[i]
      BY <1>1, <1>6, <2>2 DEF Has
    <3>2. QED BY <3>1 DEF SafetyInv
  <2>3. QED BY <2>1, <2>2
<1>7. QED BY <1>1, <1>2, <1>3, <1>6, SafetyWrittenOK

LEMMA SafetyCreations ==
  ASSUME SafetyAssumption, SafetyInv, NEW i \in Item,
         \/ CreateObservation(i) \/ CreatePermit(i) \/ RecordToolboxTalk(i)
         \/ SafetyCreateAction(i) \/ SafetyCreateRisk(i)
  PROVE  SafetyInv'
<1>1. ASSUME NEW k \in {"OBSERVATION", "PERMIT", "TALK", "ACTION", "RISK"}, Kind[i] = k,
             NEW row \in SafetyRowOf(i), k \in SafetyReviewedKinds => row.status = Initial[k],
             Inserted([x \in {i} |-> row])
      PROVE  SafetyInv'
  <2> DEFINE rows == [x \in {i} |-> row]
  <2>1. DOMAIN rows = {i} /\ rows[i] = row
    OBVIOUS
  <2> HIDE DEF rows
  <2>2. NewRow(i, rows)
    BY <1>1, <2>1 DEF NewRow
  <2>3. Inserted(rows)
    BY <1>1 DEF rows
  <2>4. QED BY <2>1, <2>2, <2>3, InsertedOK
<1>2. Initial["RISK"] = "OPEN"
  BY DEF SafetyAssumption, SafetyPolicy
<1>3. CASE CreateObservation(i)
  <2>1. Fresh("OBSERVATION") \in ObservationRow /\ Fresh("OBSERVATION").status = Initial["OBSERVATION"]
    BY DEF Fresh, ObservationRow, SafetyRow, Status
  <2>2. QED BY <1>1, <1>3, <2>1, SafetyRowsOfKind DEF CreateObservation
<1>4. CASE CreatePermit(i)
  <2>1. Fresh("PERMIT") \in PermitRow /\ Fresh("PERMIT").status = Initial["PERMIT"]
    BY DEF Fresh, PermitRow, SafetyRow, Status
  <2>2. QED BY <1>1, <1>4, <2>1, SafetyRowsOfKind DEF CreatePermit
<1>5. CASE RecordToolboxTalk(i)
  <2>1. [status |-> "RECORDED", stamps |-> {}] \in TalkRow
    BY DEF TalkRow
  <2>2. QED BY <1>1, <1>5, <2>1, SafetyRowsOfKind DEF RecordToolboxTalk, SafetyReviewedKinds
<1>6. CASE SafetyCreateAction(i)
  <2>1. Following("ACTION", Nothing) \in SafetyActionRow /\ Following("ACTION", Nothing).status = Initial["ACTION"]
    BY DEF Following, SafetyActionRow, Status
  <2>2. QED BY <1>1, <1>6, <2>1, SafetyRowsOfKind DEF SafetyCreateAction
<1>7. CASE SafetyCreateRisk(i)
  <2>1. Following("RISK", Nothing) \in SafetyRiskRow
    BY <1>2 DEF Following, SafetyRiskRow
  <2>2. QED BY <1>1, <1>7, <2>1, SafetyRowsOfKind DEF SafetyCreateRisk, SafetyReviewedKinds
<1>8. QED BY <1>3, <1>4, <1>5, <1>6, <1>7

LEMMA IncidentReported ==
  ASSUME SafetyAssumption, SafetyInv, NEW i \in Item, ReportIncident(i)
  PROVE  SafetyInv'
<1> DEFINE incident(critical) == [status |-> Initial["INCIDENT"], stamps |-> {}, critical |-> critical]
<1>1. \A critical \in BOOLEAN : /\ incident(critical) \in IncidentRow
                                /\ incident(critical).status = Initial["INCIDENT"]
                                /\ incident(critical).critical = critical
  BY DEF IncidentRow, Status
<1>2. Kind[i] = "INCIDENT" /\ SafetyRowOf(i) = IncidentRow
  BY SafetyRowsOfKind DEF ReportIncident
<1>3. \/ Inserted([x \in {i} |-> incident(FALSE)])
      \/ \E r \in Item : Kind[r] = "RISK" /\
             Inserted([x \in {i, r} |-> IF x = i THEN incident(TRUE) ELSE Following("RISK", i)])
  BY DEF ReportIncident
<1> HIDE DEF incident
<1>4. CASE Inserted([x \in {i} |-> incident(FALSE)])
  <2> DEFINE rows == [x \in {i} |-> incident(FALSE)]
  <2>1. DOMAIN rows = {i} /\ rows[i] = incident(FALSE) /\ Inserted(rows)
    BY <1>4
  <2> HIDE DEF rows
  <2>2. NewRow(i, rows)
    BY <1>1, <1>2, <2>1 DEF NewRow
  <2>3. QED BY <2>1, <2>2, InsertedOK
<1>5. ASSUME NEW r \in Item, Kind[r] = "RISK",
             Inserted([x \in {i, r} |-> IF x = i THEN incident(TRUE) ELSE Following("RISK", i)])
      PROVE  SafetyInv'
  <2> DEFINE rows == [x \in {i, r} |-> IF x = i THEN incident(TRUE) ELSE Following("RISK", i)]
  <2>1. DOMAIN rows = {i, r} /\ rows[i] = incident(TRUE) /\ rows[r] = Following("RISK", i) /\ Inserted(rows)
    BY <1>2, <1>5
  <2> HIDE DEF rows
  <2>2. Following("RISK", i) \in SafetyRiskRow /\ Following("RISK", i).source = i
    BY DEF Following, SafetyRiskRow, SafetyAssumption, SafetyPolicy
  <2>3. NewRow(i, rows)
    BY <1>1, <1>2, <1>5, <2>1, <2>2 DEF NewRow
  <2>4. NewRow(r, rows)
    BY <1>5, <2>1, <2>2, SafetyRowsOfKind DEF NewRow, SafetyReviewedKinds
  <2>5. QED BY <2>1, <2>3, <2>4, InsertedOK
<1>6. QED BY <1>3, <1>4, <1>5

LEMMA SafetyInspectionRecorded ==
  ASSUME SafetyAssumption, SafetyInv, NEW i \in Item, SafetyRecordInspection(i)
  PROVE  SafetyInv'
<1>1. i \in DOMAIN AutoAction
  BY DEF SafetyRecordInspection
<1>2. PICK result \in {"OPEN", "PASSED", "FAILED"} :
        Inserted([x \in FollowUp(i, result = "FAILED") |->
          IF x = i THEN [status |-> result, stamps |-> {}] ELSE Following("ACTION", i)])
  BY DEF SafetyRecordInspection
<1>3. /\ Kind[i] = "INSPECTION" /\ AutoAction[i] \in Item /\ Kind[AutoAction[i]] = "ACTION"
      /\ AutoAction[i] # i
  BY <1>1 DEF SafetyAssumption
<1> DEFINE new == FollowUp(i, result = "FAILED")
           first == [status |-> result, stamps |-> {}]
           rows == [x \in new |-> IF x = i THEN first ELSE Following("ACTION", i)]
<1>4. new = IF result = "FAILED" THEN {i, AutoAction[i]} ELSE {i}
  BY DEF FollowUp
<1>5. first \in SafetyInspectionRow /\ first.status = result
  BY DEF SafetyInspectionRow
<1> HIDE DEF new, first
<1>6. /\ DOMAIN rows = new /\ rows[i] = first
      /\ result = "FAILED" => rows[AutoAction[i]] = Following("ACTION", i)
  BY <1>3, <1>4
<1>7. Inserted(rows)
  BY <1>2 DEF new, first
<1> HIDE DEF rows
<1>8. /\ Following("ACTION", i) \in SafetyActionRow /\ Following("ACTION", i).source = i
      /\ Following("ACTION", i).status = Initial["ACTION"]
  BY DEF Following, SafetyActionRow, Status
<1>9. NewRow(i, rows)
  BY <1>1, <1>3, <1>4, <1>5, <1>6, <1>8, SafetyRowsOfKind DEF NewRow, SafetyReviewedKinds
<1>10. result = "FAILED" => NewRow(AutoAction[i], rows)
  BY <1>3, <1>4, <1>6, <1>8, SafetyRowsOfKind DEF NewRow
<1>11. \A j \in DOMAIN rows : NewRow(j, rows)
  BY <1>4, <1>6, <1>9, <1>10
<1>12. DOMAIN rows \subseteq Item
  BY <1>3, <1>4, <1>6
<1>13. QED BY <1>7, <1>11, <1>12, InsertedOK

\* One record is rewritten; it keeps what other records refer to.
LEMMA SafetyRewritten ==
  ASSUME SafetyAssumption, SafetyInv, NEW i \in Item, NEW row \in SafetyRowOf(i), Has(item, i),
         item' = [item EXCEPT ![i] = row], UNCHANGED approval,
         Kind[i] \in SafetyReviewedKinds => ReviewedRow(Kind[i], row, i, approval),
         Kind[i] # "INSPECTION",
         Kind[i] \in {"RISK", "ACTION"} => row.source = item[i].source,
         Kind[i] = "INCIDENT" => row.critical = item[i].critical
  PROVE  SafetyInv'
<1>1. /\ DOMAIN item' = Item /\ item'[i] = row
      /\ \A j \in Item : j # i => item'[j] = item[j]
  BY DEF SafetyInv, SafetyTypeOK
<1>2. \A j \in Item : item'[j] \in SafetyRowOf(j) \cup {Absent}
  BY <1>1 DEF SafetyInv, SafetyTypeOK
<1>3. row.status # "ABSENT"
  BY SafetyRowIsThere
<1>4. \A j \in Item : RecordStands(j)
  BY <1>1, <1>3 DEF RecordStands, Has
<1>5. ASSUME NEW j \in Item, Has(item', j)
      PROVE  /\ Has(item, j)
             /\ Kind[j] \in SafetyReviewedKinds => ReviewedRow(Kind[j], item'[j], j, approval)
  <2>1. CASE j = i
    BY <1>1, <2>1
  <2>2. CASE j # i
    <3>1. Has(item, j) /\ item'[j] = item[j]
      BY <1>1, <1>5, <2>2 DEF Has
    <3>2. QED BY <3>1 DEF SafetyInv
  <2>3. QED BY <2>1, <2>2
<1>6. QED BY <1>1, <1>2, <1>4, <1>5, SafetyWrittenOK

LEMMA SteppedPlainRow ==
  ASSUME NEW Stages, NEW Stamps, NEW before \in [status : Stages, stamps : SUBSET Stamps],
         NEW t, t.to \in Stages, t.milestone \in Stamps
  PROVE  /\ SteppedRow(before, t) \in [status : Stages, stamps : SUBSET Stamps]
         /\ SteppedRow(before, t).status = t.to
BY DEF SteppedRow

\* What a rule changes of a row are its status and its stamps.
LEMMA SteppedSafetyRow ==
  ASSUME NEW k, NEW t \in Rules[k], NEW before
  PROVE  /\ before \in SafetyRow(k) =>
              SteppedRow(before, t) \in SafetyRow(k) /\ SteppedRow(before, t).status = t.to
         /\ k = "INCIDENT" /\ before \in IncidentRow =>
              /\ SteppedRow(before, t) \in IncidentRow /\ SteppedRow(before, t).status = t.to
              /\ SteppedRow(before, t).critical = before.critical
         /\ k = "ACTION" /\ before \in SafetyActionRow =>
              /\ SteppedRow(before, t) \in SafetyActionRow /\ SteppedRow(before, t).status = t.to
              /\ SteppedRow(before, t).source = before.source
<1> DEFINE Stamps(l) == {u.milestone : u \in Rules[l]}
<1>1. t.to \in Status(k) /\ t.milestone \in Stamps(k)
  BY DEF Status
<1> DEFINE next(stamps) == stamps \cup ({t.milestone} \ {"none"})
<1>2. \A stamps \in SUBSET Stamps(k) : next(stamps) \in SUBSET Stamps(k)
  BY <1>1
<1>3. SteppedRow(before, t) = [before EXCEPT !.status = t.to, !.stamps = next(before.stamps)]
  BY DEF SteppedRow
<1> HIDE DEF next
<1>4. SafetyRow(k) = [status : Status(k), stamps : SUBSET Stamps(k)]
  BY DEF SafetyRow
<1>5. /\ IncidentRow = [status : Status("INCIDENT"), critical : BOOLEAN, stamps : SUBSET Stamps("INCIDENT")]
      /\ SafetyActionRow = [status : Status("ACTION"), source : Item \cup {Nothing}, stamps : SUBSET Stamps("ACTION")]
  BY DEF IncidentRow, SafetyActionRow
<1> HIDE DEF Stamps
<1>6. ASSUME before \in SafetyRow(k)
      PROVE  SteppedRow(before, t) \in SafetyRow(k) /\ SteppedRow(before, t).status = t.to
  BY <1>1, <1>4, <1>6, SteppedPlainRow
<1>7. ASSUME k = "INCIDENT", before \in IncidentRow
      PROVE  /\ SteppedRow(before, t) \in IncidentRow /\ SteppedRow(before, t).status = t.to
             /\ SteppedRow(before, t).critical = before.critical
  BY <1>1, <1>2, <1>3, <1>5, <1>7
<1>8. ASSUME k = "ACTION", before \in SafetyActionRow
      PROVE  /\ SteppedRow(before, t) \in SafetyActionRow /\ SteppedRow(before, t).status = t.to
             /\ SteppedRow(before, t).source = before.source
  BY <1>1, <1>2, <1>3, <1>5, <1>8
<1>9. QED BY <1>6, <1>7, <1>8

LEMMA SafetyTransitions ==
  ASSUME SafetyAssumption, SafetyInv, NEW i \in Item, NEW k \in SafetyReviewedKinds, SafetyTransitioned(k, i)
  PROVE  SafetyInv'
<1>1. PICK t \in Allowed(Rules[k], item, i) : Met(approval, i, t) /\ item' = Stepped(item, i, t)
  BY DEF SafetyTransitioned
<1>2. Kind[i] = k /\ UNCHANGED approval
  BY DEF SafetyTransitioned
<1>3. t \in Rules[k] /\ Has(item, i)
  BY <1>1 DEF Allowed
<1> DEFINE row == SteppedRow(item[i], t)
<1>4. i \in DOMAIN item /\ item[i] \in SafetyRowOf(i)
  BY <1>2, <1>3 DEF SafetyInv, SafetyTypeOK, Has, Absent
<1>5. item' = [item EXCEPT ![i] = row]
  BY <1>1, <1>4, SteppedIsRow
<1>6. CASE k \in {"OBSERVATION", "PERMIT"}
  <2>1. SafetyRowOf(i) = SafetyRow(k)
    BY <1>2, <1>6, SafetyRowsOfKind DEF ObservationRow, PermitRow
  <2>2. row \in SafetyRow(k) /\ row.status = t.to
    BY <1>3, <1>4, <2>1, SteppedSafetyRow
  <2> HIDE DEF row
  <2>3. ReviewedRow(k, row, i, approval)
    BY <1>1, <1>3, <2>2, SteppedIsReviewed DEF SafetyInv
  <2>4. QED BY <1>2, <1>3, <1>5, <1>6, <2>1, <2>2, <2>3, SafetyRewritten
<1>7. CASE k = "INCIDENT"
  <2>1. SafetyRowOf(i) = IncidentRow
    BY <1>2, <1>7, SafetyRowsOfKind
  <2>2. row \in IncidentRow /\ row.status = t.to /\ row.critical = item[i].critical
    BY <1>3, <1>4, <1>7, <2>1, SteppedSafetyRow
  <2> HIDE DEF row
  <2>3. ReviewedRow(k, row, i, approval)
    BY <1>1, <1>3, <2>2, SteppedIsReviewed DEF SafetyInv
  <2>4. QED BY <1>2, <1>3, <1>5, <1>7, <2>1, <2>2, <2>3, SafetyRewritten
<1>8. CASE k = "ACTION"
  <2>1. SafetyRowOf(i) = SafetyActionRow
    BY <1>2, <1>8, SafetyRowsOfKind
  <2>2. row \in SafetyActionRow /\ row.status = t.to /\ row.source = item[i].source
    BY <1>3, <1>4, <1>8, <2>1, SteppedSafetyRow
  <2> HIDE DEF row
  <2>3. ReviewedRow(k, row, i, approval)
    BY <1>1, <1>3, <2>2, SteppedIsReviewed DEF SafetyInv
  <2>4. QED BY <1>2, <1>3, <1>5, <1>8, <2>1, <2>2, <2>3, SafetyRewritten
<1>9. QED BY <1>6, <1>7, <1>8 DEF SafetyReviewedKinds

LEMMA SafetyRiskResolved ==
  ASSUME SafetyAssumption, SafetyInv, NEW i \in Item, SafetyResolveRisk(i)
  PROVE  SafetyInv'
<1> DEFINE row == [item[i] EXCEPT !.status = "RESOLVED"]
<1>1. Kind[i] = "RISK" /\ item' = [item EXCEPT ![i] = row] /\ UNCHANGED approval /\ item[i].status = "OPEN"
  BY DEF SafetyResolveRisk, Moved, In
<1>2. item[i] \in SafetyRiskRow /\ Has(item, i)
  BY <1>1, SafetyRowsOfKind DEF SafetyInv, SafetyTypeOK, Absent, Has
<1>3. row \in SafetyRiskRow /\ row.source = item[i].source
  BY <1>2 DEF SafetyRiskRow
<1> HIDE DEF row
<1>4. SafetyRowOf(i) = SafetyRiskRow
  BY <1>1, SafetyRowsOfKind
<1>5. QED BY <1>1, <1>2, <1>3, <1>4, SafetyRewritten DEF SafetyReviewedKinds

\* Records as they were and accepted approvals kept.
LEMMA SafetyApprovalsOK ==
  ASSUME SafetyInv, UNCHANGED item, approval' \subseteq SafetyApprovalRow, DecidedByAnother',
         \A x \in approval : x.status = "ACCEPTED" => x \in approval'
  PROVE  SafetyInv'
<1>1. SafetyTypeOK'
  BY DEF SafetyInv, SafetyTypeOK, SafetyApprovalRow, SafetyRowOf, ObservationRow, IncidentRow,
    PermitRow, SafetyInspectionRow, TalkRow, SafetyActionRow, SafetyRiskRow, SafetyRow, Status
<1>2. ASSUME NEW i \in Item, Has(item, i)
      PROVE  /\ Kind[i] \in SafetyReviewedKinds => ReviewedRow(Kind[i], item[i], i, approval')
             /\ Kind[i] = "INSPECTION" => i \in DOMAIN AutoAction
             /\ FollowedUp(i)
  BY <1>2, ReviewStands DEF SafetyInv
<1>3. QED BY <1>1, <1>2 DEF SafetyInv, Has, In, ReviewedRow, FollowedUp

LEMMA SafetyStepOK == ASSUME SafetyAssumption, SafetyInv, [SafetyNext]_safetyVars PROVE SafetyInv'
<1>1. SafetyApprovalRow = QualityApprovalRow
  BY DEF SafetyApprovalRow, QualityApprovalRow
<1>2. approval \subseteq QualityApprovalRow /\ DecidedByAnother
  BY <1>1 DEF SafetyInv, SafetyTypeOK
<1>3. CASE UNCHANGED safetyVars
  <2>1. approval' \subseteq SafetyApprovalRow /\ DecidedByAnother' /\ UNCHANGED item /\ approval' = approval
    BY <1>1, <1>2, <1>3 DEF safetyVars, DecidedByAnother
  <2>2. QED BY <2>1, SafetyApprovalsOK
<1>4. ASSUME NEW i \in Item, NEW s \in Step, NEW m \in Member, NEW from \in Member,
             SafetyRequestApproval(i, s, m, from)
      PROVE  SafetyInv'
  <2>1. approval' = approval \cup {Requested(i, s, m, from)} /\ UNCHANGED item
    BY <1>4 DEF SafetyRequestApproval
  <2>2. approval' \subseteq QualityApprovalRow /\ DecidedByAnother'
    BY <1>2, <2>1, RequestedApproval
  <2>3. QED BY <1>1, <2>1, <2>2, SafetyApprovalsOK
<1>5. ASSUME NEW x \in approval, NEW m \in Member, SafetyDecideApproval(x, m) PROVE SafetyInv'
  <2>1. PICK verdict \in Verdicts : approval' = Decided(approval, x, verdict, m)
    BY <1>5 DEF SafetyDecideApproval
  <2>2. UNCHANGED item /\ x.status = "PENDING" /\ m # x.by /\ m # Nobody
    BY <1>5 DEF SafetyDecideApproval, SafetyAssumption
  <2>3. /\ approval' \subseteq QualityApprovalRow /\ DecidedByAnother'
        /\ \A y \in approval : y.status = "ACCEPTED" => y \in approval'
    BY <1>2, <2>1, <2>2, DecidedApproval
  <2>4. QED BY <1>1, <2>2, <2>3, SafetyApprovalsOK
<1>6. ASSUME NEW i \in Item,
             TransitionObservation(i) \/ TransitionIncident(i) \/ TransitionPermit(i) \/ SafetyTransitionAction(i)
      PROVE  SafetyInv'
  BY <1>6, SafetyTransitions
     DEF TransitionObservation, TransitionIncident, TransitionPermit, SafetyTransitionAction, SafetyReviewedKinds
<1>7. QED BY <1>3, <1>4, <1>5, <1>6, SafetyCreations, IncidentReported, SafetyInspectionRecorded,
           SafetyRiskResolved
      DEF SafetyNext

LEMMA SafetyInvariance == ASSUME SafetyAssumption PROVE SafetySpec => []SafetyInv
<1>1. SafetyInv /\ [SafetyNext]_safetyVars => SafetyInv'
  BY SafetyStepOK
<1>2. SafetyInit => SafetyInv
  BY SafetyInitOK
<1>3. QED BY <1>1, <1>2, PTL DEF SafetySpec

\* Rows of safetyops keep their types.
THEOREM SafetyTypeCorrect == ASSUME SafetyAssumption PROVE SafetySpec => []SafetyTypeOK
<1>1. SafetyInv => SafetyTypeOK
  BY DEF SafetyInv
<1>2. QED BY <1>1, SafetyInvariance, PTL

\* The approvals that the status of a safety record asked for stand, for any
\* policy, although any member but the maker may decide.
THEOREM SafetyReviewsStand == ASSUME SafetyAssumption PROVE SafetySpec => []SafetyIsReviewed
<1>1. SafetyInv => SafetyIsReviewed
  BY ReviewedIsRow DEF SafetyInv, SafetyIsReviewed, SafetyReviewedKinds
<1>2. QED BY <1>1, SafetyInvariance, PTL

\* No critical incident is without its risk and no failed inspection without its
\* corrective action, whatever becomes of these and in whatever order codes are taken.
THEOREM SafetyFailuresAreFollowedUp ==
  ASSUME SafetyAssumption PROVE SafetySpec => []FailuresAreFollowedUp
<1>1. SafetyInv => FailuresAreFollowedUp
  BY DEF SafetyInv, FailuresAreFollowedUp, FollowedUp
<1>2. QED BY <1>1, SafetyInvariance, PTL

-----------------------------------------------------------------------------
(* Work items.                                                             *)

\* A request for approval names a reviewer other than who asks.
WorkTxOK(t) ==
  /\ t.do = "link" => t.row \in Work \X Work
  /\ t.do = "progress" => t.row \in Work /\ t.to \in 0..Full /\ Has(work, t.row)
  /\ t.do = "approval" => /\ t.row \in Work /\ Has(work, t.row)
                          /\ t.by \in Person /\ t.reviewer \in Person /\ t.by # t.reviewer
  /\ t.do = "sheet" => t.row \in Sheet

\* Nobody reviews what he asked to be approved.
ReviewedByAnother ==
  \A a \in Approval : Has(workApproval, a) => workApproval[a].by # workApproval[a].reviewer

WorkInv ==
  /\ WorkTypeOK /\ ReviewedByAnother /\ DoneWasApproved
  /\ \A t \in workTx : WorkTxOK(t)

ApprovedByAnother(i) ==
  \E a \in Approval : /\ In(workApproval, a, {"APPROVED"}) /\ workApproval[a].of = i
                      /\ workApproval[a].by # workApproval[a].reviewer

-----------------------------------------------------------------------------
(* Proofs of work items.                                                   *)

LEMMA StagesAreStages ==
  /\ \A s \in DOMAIN WORK_TRANSITIONS : WORK_TRANSITIONS[s] \subseteq DOMAIN WORK_TRANSITIONS
  /\ \A s \in ProjectStatus : PROJECT_TRANSITIONS[s] \subseteq ProjectStatus
  /\ "ABSENT" \notin DOMAIN WORK_TRANSITIONS
  /\ {"BACKLOG", "ASSIGNED", "REVIEW", "APPROVED", "IN_PROGRESS"} \subseteq DOMAIN WORK_TRANSITIONS
  /\ "DRAFT" \in ProjectStatus
BY DEF WORK_TRANSITIONS, PROJECT_TRANSITIONS, ProjectStatus

LEMMA WorkInitOK == ASSUME WorkInit PROVE WorkInv
<1> USE DEF WorkInit
<1>1. WorkTypeOK
  BY DEF WorkTypeOK
<1>2. (\A i \in Work : ~In(work, i, {"DONE"})) /\ \A a \in Approval : ~Has(workApproval, a)
  BY DEF Has, In, Absent
<1>3. QED BY <1>1, <1>2 DEF WorkInv, ReviewedByAnother, DoneWasApproved

\* A step of items alone: row by row, none disappears and none is done unapproved.
ItemsMoved ==
  /\ work' \in [Work -> ItemRow \cup {Absent}]
  /\ \A i \in Work : Has(work, i) => Has(work', i) /\ work'[i].progress >= work[i].progress
  /\ \A i \in Work : In(work', i, {"DONE"}) =>
       work'[i].progress = Full /\ (Reviewer[i] # NoReviewer => ApprovedByAnother(i))

LEMMA ItemsMovedOK ==
  ASSUME WorkInv, ItemsMoved, UNCHANGED <<project, link, check, sheet, workApproval>>,
         workTx' \subseteq workTx
  PROVE  WorkInv'
<1>1. WorkTypeOK'
  BY DEF WorkInv, WorkTypeOK, ItemsMoved
<1>2. ReviewedByAnother'
  BY DEF WorkInv, ReviewedByAnother, Has
<1>3. DoneWasApproved'
  BY DEF ItemsMoved, DoneWasApproved, ApprovedByAnother, In
<1>4. \A t \in workTx' : WorkTxOK(t)'
  BY DEF WorkInv, WorkTxOK, ItemsMoved, Has
<1>5. QED BY <1>1, <1>2, <1>3, <1>4 DEF WorkInv

\* One item is written.
LEMMA ItemWritten ==
  ASSUME WorkInv, NEW i \in Work, NEW row \in ItemRow, work' = [work EXCEPT ![i] = row],
         Has(work, i) => row.progress >= work[i].progress,
         row.status = "DONE" => row.progress = Full /\ (Reviewer[i] # NoReviewer => ApprovedByAnother(i))
  PROVE  ItemsMoved
<1>1. work \in [Work -> ItemRow \cup {Absent}]
  BY DEF WorkInv, WorkTypeOK
<1>2. work' \in [Work -> ItemRow \cup {Absent}]
  BY <1>1, RowReplaced
<1>3. work'[i] = row /\ \A j \in Work : j # i => work'[j] = work[j]
  BY <1>1
<1>4. row.status # "ABSENT"
  BY StagesAreStages DEF ItemRow
<1>5. ASSUME NEW j \in Work, Has(work, j)
      PROVE  Has(work', j) /\ work'[j].progress >= work[j].progress
  <2>1. work[j] \in ItemRow
    BY <1>1, <1>5, ThereIsRow
  <2>2. work[j].progress \in Int
    BY <2>1 DEF ItemRow
  <2>3. QED BY <1>3, <1>4, <1>5, <2>2 DEF Has
<1>6. ASSUME NEW j \in Work, In(work', j, {"DONE"})
      PROVE  work'[j].progress = Full /\ (Reviewer[j] # NoReviewer => ApprovedByAnother(j))
  <2>1. CASE j = i
    BY <1>3, <1>6, <2>1 DEF In
  <2>2. CASE j # i
    BY <1>3, <1>6, <2>2 DEF In, WorkInv, DoneWasApproved, ApprovedByAnother
  <2>3. QED BY <2>1, <2>2
<1>7. QED BY <1>2, <1>5, <1>6 DEF ItemsMoved

\* Items as they were.
LEMMA ItemsAsTheyWere == ASSUME WorkInv, work' = work PROVE ItemsMoved
<1>1. work \in [Work -> ItemRow \cup {Absent}]
  BY DEF WorkInv, WorkTypeOK
<1>2. ASSUME NEW i \in Work, Has(work, i) PROVE work'[i].progress >= work[i].progress
  <2>1. work[i] \in ItemRow
    BY <1>1, <1>2, ThereIsRow
  <2>2. work[i].progress \in Int
    BY <2>1 DEF ItemRow
  <2>3. QED BY <2>2
<1>3. QED BY <1>1, <1>2 DEF ItemsMoved, WorkInv, DoneWasApproved, ApprovedByAnother, Has, In

\* An item that moves by a table or a request keeps its progress.
LEMMA ItemStatusMoved ==
  ASSUME WorkInv, NEW i \in Work, Has(work, i), NEW to \in DOMAIN WORK_TRANSITIONS, to # "DONE",
         work' = Moved(work, i, to)
  PROVE  ItemsMoved
<1> DEFINE row == [work[i] EXCEPT !.status = to]
<1>1. work[i] \in ItemRow
  BY ThereIsRow DEF WorkInv, WorkTypeOK
<1>2. row \in ItemRow /\ row.status = to /\ row.progress = work[i].progress
  BY <1>1 DEF ItemRow
<1>3. work' = [work EXCEPT ![i] = row]
  BY DEF Moved
<1>4. work[i].progress \in Int
  BY <1>1 DEF ItemRow
<1> HIDE DEF row
<1>5. row.progress >= work[i].progress
  BY <1>2, <1>4
<1>6. row.status # "DONE"
  BY <1>2
<1>7. QED BY <1>2, <1>3, <1>5, <1>6, ItemWritten

LEMMA ItemCreated ==
  ASSUME WorkAssumption, WorkInv, NEW i \in Work, CreateWorkItem(i)
  PROVE  WorkInv' /\ ItemsMoved
<1>1. PICK status \in {"ASSIGNED", "BACKLOG"} : work' = [work EXCEPT ![i] = [status |-> status, progress |-> 0]]
  BY DEF CreateWorkItem
<1>2. [status |-> status, progress |-> 0] \in ItemRow
  BY StagesAreStages DEF ItemRow, WorkAssumption
<1>3. ItemsMoved
  BY <1>1, <1>2, ItemWritten DEF CreateWorkItem
<1>4. QED BY <1>3, ItemsMovedOK DEF CreateWorkItem

LEMMA ItemTransitioned ==
  ASSUME WorkAssumption, WorkInv, NEW i \in Work, AssignWorkItem(i) \/ TransitionWorkItem(i)
  PROVE  WorkInv' /\ ItemsMoved
<1>1. CASE AssignWorkItem(i)
  <2>1. Has(work, i) /\ work' = Moved(work, i, "ASSIGNED") /\ UNCHANGED <<project, link, check, sheet, workApproval, workTx>>
    BY <1>1 DEF AssignWorkItem, In, Has
  <2>2. ItemsMoved
    BY <2>1, StagesAreStages, ItemStatusMoved
  <2>3. QED BY <2>1, <2>2, ItemsMovedOK
<1>2. CASE TransitionWorkItem(i)
  <2>1. UNCHANGED <<project, link, check, sheet, workApproval, workTx>>
    BY <1>2 DEF TransitionWorkItem
  <2>2. PICK target \in Offers(WORK_TRANSITIONS, work, i) :
          /\ MayMove(i, target)
          /\ work' = [Moved(work, i, target) EXCEPT ![i].progress = IF target = "DONE" THEN Full ELSE @]
    BY <1>2 DEF TransitionWorkItem
  <2>3. work[i].status \in DOMAIN WORK_TRANSITIONS /\ target \in WORK_TRANSITIONS[work[i].status]
    BY <2>2 DEF Offers
  <2>4. Has(work, i) /\ target \in DOMAIN WORK_TRANSITIONS
    BY <2>3, StagesAreStages DEF Has
  <2>5. work[i] \in ItemRow /\ Full \in Nat
    BY <2>4, ThereIsRow DEF WorkInv, WorkTypeOK, WorkAssumption
  <2> DEFINE progress == IF target = "DONE" THEN Full ELSE work[i].progress
             row == [work[i] EXCEPT !.status = target, !.progress = progress]
  <2>6. progress \in 0..Full /\ progress >= work[i].progress
    BY <2>5 DEF ItemRow
  <2> HIDE DEF progress
  <2>7. row \in ItemRow /\ row.status = target /\ row.progress = progress
    BY <2>4, <2>5, <2>6 DEF ItemRow
  <2>8. work' = [work EXCEPT ![i] = row]
    BY <2>2 DEF Moved, progress
  <2> HIDE DEF row
  <2>9. ASSUME target = "DONE", Reviewer[i] # NoReviewer PROVE ApprovedByAnother(i)
    BY <2>2, <2>9 DEF MayMove, Approved, ApprovedByAnother, WorkInv, ReviewedByAnother, In, Has
  <2>10. ItemsMoved
    BY <2>6, <2>7, <2>8, <2>9, ItemWritten DEF progress
  <2>11. QED BY <2>1, <2>10, ItemsMovedOK
<1>3. QED BY <1>1, <1>2

LEMMA ProgressRecorded ==
  ASSUME WorkAssumption, WorkInv, NEW t \in workTx, RecordDailyProgress(t)
  PROVE  WorkInv' /\ ItemsMoved
<1> DEFINE i == t.row
           row == [work[i] EXCEPT !.progress = AdvancedIfLess(t)]
<1>1. i \in Work /\ t.to \in 0..Full /\ Has(work, i)
  BY DEF WorkInv, WorkTxOK, RecordDailyProgress
<1>2. work[i] \in ItemRow
  BY <1>1, ThereIsRow DEF WorkInv, WorkTypeOK
<1>3. AdvancedIfLess(t) \in 0..Full /\ AdvancedIfLess(t) >= work[i].progress
  BY <1>1, <1>2 DEF AdvancedIfLess, ItemRow, WorkAssumption
<1>4. row \in ItemRow /\ row.status = work[i].status /\ row.progress = AdvancedIfLess(t)
  BY <1>2, <1>3 DEF ItemRow
<1>5. work' = [work EXCEPT ![i] = row] /\ UNCHANGED <<project, link, check, sheet, workApproval>> /\ workTx' \subseteq workTx
  BY DEF RecordDailyProgress
<1> HIDE DEF row
<1>6. ASSUME row.status = "DONE"
      PROVE  row.progress = Full /\ (Reviewer[i] # NoReviewer => ApprovedByAnother(i))
  <2>1. work[i].progress = Full /\ (Reviewer[i] # NoReviewer => ApprovedByAnother(i))
    BY <1>1, <1>4, <1>6 DEF WorkInv, DoneWasApproved, ApprovedByAnother, In
  <2>2. QED BY <1>3, <1>4, <2>1 DEF WorkAssumption
<1>7. ItemsMoved
  BY <1>1, <1>3, <1>4, <1>5, <1>6, ItemWritten
<1>8. QED BY <1>5, <1>7, ItemsMovedOK

\* Steps that leave items alone: the other tables keep their types, and what is
\* approved stays so.
LEMMA OthersMovedOK ==
  ASSUME WorkInv, work' = work, project' \in ProjectStatus \cup {"ABSENT"}, link' \subseteq Work \X Work,
         check' \in [Check -> CheckRow \cup {Absent}], sheet' \in [Sheet -> SheetRow \cup {Absent}],
         workApproval' = workApproval, \A t \in workTx' : t \in workTx \/ WorkTxOK(t)
  PROVE  WorkInv' /\ ItemsMoved
<1>1. WorkTypeOK'
  BY DEF WorkInv, WorkTypeOK
<1>2. ReviewedByAnother' /\ DoneWasApproved'
  BY DEF WorkInv, ReviewedByAnother, DoneWasApproved, Has, In
<1>3. \A t \in workTx' : WorkTxOK(t)'
  BY DEF WorkInv, WorkTxOK, Has
<1>4. ItemsMoved
  BY ItemsAsTheyWere
<1>5. QED BY <1>1, <1>2, <1>3, <1>4 DEF WorkInv

LEMMA WorkUnchanged == ASSUME WorkInv, UNCHANGED workVars PROVE WorkInv' /\ ItemsMoved
<1>1. WorkInv'
  BY DEF workVars, WorkInv, WorkTypeOK, ReviewedByAnother, DoneWasApproved, WorkTxOK, Has, In
<1>2. QED BY <1>1, ItemsAsTheyWere DEF workVars

LEMMA ProjectMoved ==
  ASSUME WorkInv, CreateProject \/ TransitionProject
  PROVE  WorkInv' /\ ItemsMoved
<1>1. project' \in ProjectStatus \cup {"ABSENT"}
  BY StagesAreStages DEF CreateProject, TransitionProject
<1>2. QED BY <1>1, OthersMovedOK DEF CreateProject, TransitionProject, WorkInv, WorkTypeOK

LEMMA ChecklistMoved ==
  ASSUME WorkInv, NEW c \in Check, SetChecklistCompletion(c) \/ \E i \in Work : CreateChecklistItem(c, i)
  PROVE  WorkInv' /\ ItemsMoved
<1>1. check \in [Check -> CheckRow \cup {Absent}]
  BY DEF WorkInv, WorkTypeOK
<1>2. CASE SetChecklistCompletion(c)
  <2>1. PICK status \in {"OPEN", "TICKED"} : check' = Moved(check, c, status)
    BY <1>2 DEF SetChecklistCompletion
  <2>2. check[c] \in CheckRow
    BY <1>1, <1>2, ThereIsRow DEF SetChecklistCompletion
  <2>3. [check[c] EXCEPT !.status = status] \in CheckRow
    BY <2>2 DEF CheckRow
  <2>4. check' \in [Check -> CheckRow \cup {Absent}]
    BY <1>1, <2>1, <2>3, RowMoved
  <2>5. QED BY <1>2, <2>4, OthersMovedOK DEF SetChecklistCompletion, WorkInv, WorkTypeOK
<1>3. ASSUME NEW i \in Work, CreateChecklistItem(c, i) PROVE WorkInv' /\ ItemsMoved
  <2>1. [status |-> "OPEN", of |-> i] \in CheckRow
    BY DEF CheckRow
  <2>2. check' \in [Check -> CheckRow \cup {Absent}]
    BY <1>1, <1>3, <2>1, RowReplaced DEF CreateChecklistItem
  <2>3. QED BY <1>3, <2>2, OthersMovedOK DEF CreateChecklistItem, WorkInv, WorkTypeOK
<1>4. QED BY <1>2, <1>3

\* A request read what it needs.
LEMMA WorkRequested ==
  ASSUME WorkInv, NEW t, Opened(t), WorkTxOK(t),
         UNCHANGED <<project, work, link, check, sheet, workApproval>>
  PROVE  WorkInv' /\ ItemsMoved
BY OthersMovedOK DEF Opened, WorkInv, WorkTypeOK

LEMMA WorkRequests ==
  ASSUME WorkAssumption, WorkInv,
         \/ \E i \in Work : LoadForProgress(i) \/ (\E s \in Work : CheckDependency(i, s))
                            \/ \E m, r \in Person : LoadForApproval(i, m, r)
         \/ \E s \in Sheet : CheckTimesheet(s)
  PROVE  WorkInv' /\ ItemsMoved
<1>1. ASSUME NEW i \in Work, LoadForProgress(i) PROVE WorkInv' /\ ItemsMoved
  <2>1. PICK p \in Progress : Opened([do |-> "progress", row |-> i, to |-> p, read |-> work[i].progress])
    BY <1>1 DEF LoadForProgress
  <2> DEFINE t == [do |-> "progress", row |-> i, to |-> p, read |-> work[i].progress]
  <2>2. WorkTxOK(t)
    BY <1>1 DEF WorkTxOK, LoadForProgress, WorkAssumption
  <2> HIDE DEF t
  <2>3. Opened(t)
    BY <2>1 DEF t
  <2>4. QED BY <1>1, <2>2, <2>3, WorkRequested DEF LoadForProgress
<1>2. ASSUME NEW i \in Work, NEW s \in Work, CheckDependency(i, s) PROVE WorkInv' /\ ItemsMoved
  <2> DEFINE t == [do |-> "link", row |-> <<i, s>>]
  <2>1. Opened(t)
    BY <1>2 DEF CheckDependency
  <2>2. WorkTxOK(t)
    BY DEF WorkTxOK
  <2> HIDE DEF t
  <2>3. QED BY <1>2, <2>1, <2>2, WorkRequested DEF CheckDependency
<1>3. ASSUME NEW i \in Work, NEW m \in Person, NEW r \in Person, LoadForApproval(i, m, r)
      PROVE  WorkInv' /\ ItemsMoved
  <2> DEFINE t == [do |-> "approval", row |-> i, read |-> work[i].status, by |-> m, reviewer |-> r]
  <2>1. Opened(t)
    BY <1>3 DEF LoadForApproval
  <2>2. WorkTxOK(t)
    BY <1>3 DEF WorkTxOK, LoadForApproval, In, Has
  <2> HIDE DEF t
  <2>3. QED BY <1>3, <2>1, <2>2, WorkRequested DEF LoadForApproval
<1>4. ASSUME NEW s \in Sheet, CheckTimesheet(s) PROVE WorkInv' /\ ItemsMoved
  <2> DEFINE t == [do |-> "sheet", row |-> s]
  <2>1. Opened(t)
    BY <1>4 DEF CheckTimesheet
  <2>2. WorkTxOK(t)
    BY DEF WorkTxOK
  <2> HIDE DEF t
  <2>3. QED BY <1>4, <2>1, <2>2, WorkRequested DEF CheckTimesheet
<1>5. QED BY <1>1, <1>2, <1>3, <1>4

LEMMA DependencyAdded ==
  ASSUME WorkInv, NEW t \in workTx, AddDependency(t) PROVE WorkInv' /\ ItemsMoved
<1>1. t.row \in Work \X Work
  BY DEF WorkInv, WorkTxOK, AddDependency
<1>2. QED BY <1>1, OthersMovedOK DEF AddDependency, WorkInv, WorkTypeOK

LEMMA SheetsMoved ==
  ASSUME WorkInv, \/ \E t \in workTx : CreateTimesheet(t)
                  \/ \E s \in Sheet : SubmitTimesheet(s) \/ ReviewTimesheet(s)
  PROVE  WorkInv' /\ ItemsMoved
<1>1. sheet \in [Sheet -> SheetRow \cup {Absent}]
  BY DEF WorkInv, WorkTypeOK
<1>2. ASSUME NEW t \in workTx, CreateTimesheet(t) PROVE WorkInv' /\ ItemsMoved
  <2>1. t.row \in Sheet
    BY <1>2 DEF WorkInv, WorkTxOK, CreateTimesheet
  <2>2. PICK status \in {"DRAFT", "SUBMITTED"} : sheet' = [sheet EXCEPT ![t.row] = [status |-> status]]
    BY <1>2 DEF CreateTimesheet
  <2>3. [status |-> status] \in SheetRow
    BY DEF SheetRow
  <2>4. sheet' \in [Sheet -> SheetRow \cup {Absent}]
    BY <1>1, <2>1, <2>2, <2>3, RowReplaced
  <2>5. QED BY <1>2, <2>4, OthersMovedOK DEF CreateTimesheet, WorkInv, WorkTypeOK
<1>3. ASSUME NEW s \in Sheet, NEW to \in {"SUBMITTED", "APPROVED", "REJECTED"}, Has(sheet, s),
             sheet' = Moved(sheet, s, to), UNCHANGED <<project, work, link, check, workApproval, workTx>>
      PROVE  WorkInv' /\ ItemsMoved
  <2>1. sheet[s] \in SheetRow
    BY <1>1, <1>3, ThereIsRow
  <2>2. [sheet[s] EXCEPT !.status = to] \in SheetRow
    BY <2>1 DEF SheetRow
  <2>3. sheet' \in [Sheet -> SheetRow \cup {Absent}]
    BY <1>1, <1>3, <2>2, RowMoved
  <2>4. QED BY <1>3, <2>3, OthersMovedOK DEF WorkInv, WorkTypeOK
<1>4. ASSUME NEW s \in Sheet, SubmitTimesheet(s) PROVE WorkInv' /\ ItemsMoved
  BY <1>3, <1>4 DEF SubmitTimesheet, In, Has
<1>5. ASSUME NEW s \in Sheet, ReviewTimesheet(s) PROVE WorkInv' /\ ItemsMoved
  BY <1>3, <1>5 DEF ReviewTimesheet, In, Has
<1>6. QED BY <1>2, <1>4, <1>5

\* Approvals change; what is approved stays so, by whom it was.
LEMMA WorkApprovalsOK ==
  ASSUME WorkInv, ItemsMoved, UNCHANGED <<project, link, check, sheet>>, workTx' \subseteq workTx,
         NEW a \in Approval, NEW row \in WorkApprovalRow, workApproval' = [workApproval EXCEPT ![a] = row],
         ~In(workApproval, a, {"APPROVED"}), row.by # row.reviewer
  PROVE  WorkInv'
<1>1. workApproval \in [Approval -> WorkApprovalRow \cup {Absent}]
  BY DEF WorkInv, WorkTypeOK
<1>2. workApproval' \in [Approval -> WorkApprovalRow \cup {Absent}]
  BY <1>1, RowReplaced
<1>3. workApproval'[a] = row /\ \A b \in Approval : b # a => workApproval'[b] = workApproval[b]
  BY <1>1
<1>4. WorkTypeOK'
  BY <1>2 DEF WorkInv, WorkTypeOK, ItemsMoved
<1>5. ReviewedByAnother'
  BY <1>3 DEF WorkInv, ReviewedByAnother, Has
<1>6. ASSUME NEW i, ApprovedByAnother(i) PROVE ApprovedByAnother(i)'
  <2>1. PICK b \in Approval : /\ In(workApproval, b, {"APPROVED"}) /\ workApproval[b].of = i
                              /\ workApproval[b].by # workApproval[b].reviewer
    BY <1>6 DEF ApprovedByAnother
  <2>2. workApproval'[b] = workApproval[b]
    BY <1>3, <2>1
  <2>3. QED BY <2>1, <2>2 DEF ApprovedByAnother, In
<1>7. DoneWasApproved'
  BY <1>6 DEF ItemsMoved, DoneWasApproved, ApprovedByAnother, In
<1>8. \A t \in workTx' : WorkTxOK(t)'
  BY DEF WorkInv, WorkTxOK, ItemsMoved, Has
<1>9. QED BY <1>4, <1>5, <1>7, <1>8 DEF WorkInv

LEMMA WorkApprovalRequested ==
  ASSUME WorkInv, NEW t \in workTx, NEW a \in Approval, RequestWorkApproval(t, a)
  PROVE  WorkInv' /\ ItemsMoved
<1> DEFINE row == [status |-> "PENDING", of |-> t.row, by |-> t.by, reviewer |-> t.reviewer]
<1>1. /\ t.row \in Work /\ Has(work, t.row)
      /\ t.by \in Person /\ t.reviewer \in Person /\ t.by # t.reviewer
  BY DEF WorkInv, WorkTxOK, RequestWorkApproval
<1>2. row \in WorkApprovalRow /\ row.by # row.reviewer
  BY <1>1 DEF WorkApprovalRow
<1>3. /\ workApproval' = [workApproval EXCEPT ![a] = row] /\ workTx' \subseteq workTx
      /\ UNCHANGED <<project, link, check, sheet>> /\ ~In(workApproval, a, {"APPROVED"})
  BY DEF RequestWorkApproval, Has, In
<1> HIDE DEF row
<1>4. ItemsMoved
  <2>1. CASE t.read = "IN_PROGRESS"
    <3>1. work' = Moved(work, t.row, "REVIEW")
      BY <2>1 DEF RequestWorkApproval
    <3>2. QED BY <1>1, <3>1, StagesAreStages, ItemStatusMoved
  <2>2. CASE t.read # "IN_PROGRESS"
    BY <2>2, ItemsAsTheyWere DEF RequestWorkApproval
  <2>3. QED BY <2>1, <2>2
<1>5. QED BY <1>2, <1>3, <1>4, WorkApprovalsOK

LEMMA WorkApprovalReviewed ==
  ASSUME WorkInv, NEW a \in Approval, NEW m \in Person, ReviewWorkApproval(a, m)
  PROVE  WorkInv' /\ ItemsMoved
<1>1. PICK decision \in {"APPROVED", "REJECTED"} :
        /\ workApproval' = [workApproval EXCEPT ![a].status = decision, ![a].reviewer = m]
        /\ work' = IF In(work, workApproval[a].of, {"REVIEW"})
                     THEN Moved(work, workApproval[a].of,
                                IF decision = "APPROVED" THEN "APPROVED" ELSE "IN_PROGRESS")
                     ELSE work
  BY DEF ReviewWorkApproval
<1>2. MayReview(a, m) /\ UNCHANGED <<project, link, check, sheet, workTx>>
  BY DEF ReviewWorkApproval
<1>3. In(workApproval, a, {"PENDING"}) /\ workApproval[a].by # m
  BY <1>2 DEF MayReview
<1>4. workApproval \in [Approval -> WorkApprovalRow \cup {Absent}]
  BY DEF WorkInv, WorkTypeOK
<1>5. workApproval[a] \in WorkApprovalRow
  BY <1>3, <1>4, ThereIsRow DEF In, Has
<1> DEFINE row == [workApproval[a] EXCEPT !.status = decision, !.reviewer = m]
<1>6. row \in WorkApprovalRow /\ row.by # row.reviewer
  BY <1>3, <1>5 DEF WorkApprovalRow
<1>7. workApproval' = [workApproval EXCEPT ![a] = row]
  BY <1>1, <1>4
<1> HIDE DEF row
<1>8. ItemsMoved
  <2> DEFINE i == workApproval[a].of
             to == IF decision = "APPROVED" THEN "APPROVED" ELSE "IN_PROGRESS"
  <2>1. i \in Work
    BY <1>5 DEF WorkApprovalRow
  <2>2. CASE In(work, i, {"REVIEW"})
    <3>1. work' = Moved(work, i, to) /\ Has(work, i) /\ to \in DOMAIN WORK_TRANSITIONS /\ to # "DONE"
      BY <1>1, <2>2, StagesAreStages DEF In, Has
    <3> HIDE DEF to
    <3>2. QED BY <2>1, <3>1, ItemStatusMoved
  <2>3. CASE ~In(work, i, {"REVIEW"})
    BY <1>1, <2>3, ItemsAsTheyWere
  <2>4. QED BY <2>2, <2>3
<1>9. ~In(workApproval, a, {"APPROVED"})
  BY <1>3 DEF In
<1>10. QED BY <1>2, <1>6, <1>7, <1>8, <1>9, WorkApprovalsOK

LEMMA WorkStepOK ==
  ASSUME WorkAssumption, WorkInv, [WorkNext]_workVars PROVE WorkInv' /\ ItemsMoved
<1>1. CASE WorkNext
  <2>1. CASE CreateProject \/ TransitionProject
    BY <2>1, ProjectMoved
  <2>2. CASE \E i \in Work : \/ CreateWorkItem(i) \/ AssignWorkItem(i) \/ TransitionWorkItem(i)
    BY <2>2, ItemCreated, ItemTransitioned
  <2>3. CASE \/ \E i \in Work : LoadForProgress(i) \/ (\E s \in Work : CheckDependency(i, s))
                                \/ \E m, r \in Person : LoadForApproval(i, m, r)
             \/ \E s \in Sheet : CheckTimesheet(s)
    BY <2>3, WorkRequests
  <2>4. CASE \E c \in Check : SetChecklistCompletion(c) \/ \E i \in Work : CreateChecklistItem(c, i)
    BY <2>4, ChecklistMoved
  <2>5. CASE \E t \in workTx : AddDependency(t) \/ RecordDailyProgress(t)
    BY <2>5, DependencyAdded, ProgressRecorded
  <2>6. CASE \/ \E t \in workTx : CreateTimesheet(t)
             \/ \E s \in Sheet : SubmitTimesheet(s) \/ ReviewTimesheet(s)
    BY <2>6, SheetsMoved
  <2>7. CASE \E a \in Approval : \/ \E t \in workTx : RequestWorkApproval(t, a)
                                 \/ \E m \in Person : ReviewWorkApproval(a, m)
    BY <2>7, WorkApprovalRequested, WorkApprovalReviewed
  <2>8. QED BY <1>1, <2>1, <2>2, <2>3, <2>4, <2>5, <2>6, <2>7 DEF WorkNext
<1>2. QED BY <1>1, WorkUnchanged

LEMMA WorkInvariance == ASSUME WorkAssumption PROVE WorkSpec => []WorkInv
<1>1. WorkInv /\ [WorkNext]_workVars => WorkInv'
  BY WorkStepOK
<1>2. WorkInit => WorkInv
  BY WorkInitOK
<1>3. QED BY <1>1, <1>2, PTL DEF WorkSpec

\* Rows of workops keep their types.
THEOREM WorkTypeCorrect == ASSUME WorkAssumption PROVE WorkSpec => []WorkTypeOK
<1>1. WorkInv => WorkTypeOK
  BY DEF WorkInv
<1>2. QED BY <1>1, WorkInvariance, PTL

\* What is done and has a reviewer was approved by another than asked for it and
\* reads full progress, for any items, requests and reports, read however long ago.
THEOREM WorkDoneWasApproved == ASSUME WorkAssumption PROVE WorkSpec => []DoneWasApproved
<1>1. WorkInv => DoneWasApproved
  BY DEF WorkInv
<1>2. QED BY <1>1, WorkInvariance, PTL

\* The progress of an item never falls, in whatever order reports arrive.
THEOREM WorkProgressNeverFalls ==
  ASSUME WorkAssumption PROVE WorkSpec => [][ProgressNeverFalls]_workVars
<1>1. WorkInv /\ [WorkNext]_workVars => [ProgressNeverFalls]_workVars
  BY WorkStepOK DEF ItemsMoved, ProgressNeverFalls
<1>2. QED BY <1>1, WorkInvariance, PTL DEF WorkSpec
=============================================================================
