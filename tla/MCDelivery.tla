----------------------------- MODULE MCDelivery -----------------------------
(* Instances of the project delivery modules for TLC: staffing, plant,     *)
(* quality, safety, documents, contracts, payroll, work items, and the     *)
(* operations captured offline.                                            *)
(*                                                                         *)
(* No service of one calls a service of another, and they have no table in *)
(* common, so that a property of one holds whatever the others do as soon  *)
(* as it holds alone.  The variable world names the instance that runs;    *)
(* its variables are a, b, c, ..., of which it leaves the rest at Idle.    *)
(* FieldSync has variables of its own, which the others leave as they are. *)
EXTENDS FieldSync, TLC

CONSTANTS ann, bob, x, y
CONSTANTS m1, m2, n1, n2, phone, tablet

VARIABLES world, a, b, c, d, e, f, g

services == <<a, b, c, d, e, f, g>>
siteVars == <<world, services, vars>>

People == {ann, bob}
Empty == [n \in {} |-> 0]
Idle == "idle"

-----------------------------------------------------------------------------
(* Policies.  Every kind is reviewed on its way forward and can be sent    *)
(* back, except where a kind has milestones that the code looks for.       *)

Rule(from, to, needs, milestone) ==
  [from |-> from, to |-> to, needs |-> needs, milestone |-> milestone]

Forward(milestone) == {Rule("NEW", "OK", {"qa"}, milestone), Rule("OK", "NEW", {}, "none")}

Corrective == {Rule("NEW", "DONE", {}, "completed"), Rule("DONE", "VERIFIED", {"qa"}, "verified"),
               Rule("DONE", "NEW", {}, "none")}

QualityRules == [k \in {"ITP", "REQUEST", "INSPECTION", "TEST", "NCR", "RISK"} |-> Forward("approved")]
                @@ ("ACTION" :> Corrective)

SafetyRules == [k \in {"OBSERVATION", "INCIDENT", "PERMIT", "INSPECTION", "TALK", "RISK"} |-> Forward("none")]
               @@ ("ACTION" :> Corrective)

DocumentRules ==
  [k \in {"SUBMITTAL", "DISTRIBUTION", "RISK"} |-> Forward("approved")]
  @@ ("DOCUMENT" :> {Rule("NEW", "LIVE", {}, "none"), Rule("LIVE", "WITHDRAWN", {}, "none")})
  @@ ("REVISION" :> {Rule("NEW", "ISSUED", {"qa"}, "issued"), Rule("ISSUED", "OLD", {}, "superseded"),
                     Rule("NEW", "OLD", {}, "superseded")})
  @@ ("RFI" :> {Rule("NEW", "ANSWERED", {}, "responded"), Rule("NEW", "CLOSED", {}, "closed"),
                Rule("ANSWERED", "CLOSED", {}, "closed")})
  @@ ("TRANSMITTAL" :> {Rule("NEW", "SENT", {}, "sent"), Rule("SENT", "CLOSED", {}, "closed")})

CommercialRules ==
  [k \in {"CONTRACT", "MILESTONE", "CLAIM", "EOT", "RISK"} |-> Forward("approved")]
  @@ ("VARIATION" :> {Rule("NEW", "APPROVED", {"qa"}, "approved"), Rule("NEW", "REJECTED", {}, "rejected")})
  @@ ("PAYMENT" :> {Rule("NEW", "CERTIFIED", {"qa"}, "certified"), Rule("CERTIFIED", "NEW", {}, "none")})

\* An administrator lets an approved variation be drafted again.
ReopeningRules == [CommercialRules EXCEPT !["VARIATION"] = @ \cup {Rule("APPROVED", "NEW", {}, "none")}]

PlanRules ==
  {[from |-> "DRAFT", to |-> "APPROVED", needs |-> {"hr"}],
   [from |-> "APPROVED", to |-> "DRAFT", needs |-> {}],
   [from |-> "APPROVED", to |-> "LOCKED", needs |-> {}]}

OrderRules ==
  {[from |-> "REPORTED", to |-> "DONE", needs |-> {"sup"}],
   [from |-> "REPORTED", to |-> "SCRAP", needs |-> {}]}

RunRules ==
  {[from |-> "DRAFT", to |-> "APPROVED", needs |-> {"fin"}, segregated |-> TRUE],
   [from |-> "APPROVED", to |-> "DRAFT", needs |-> {}, segregated |-> FALSE],
   [from |-> "APPROVED", to |-> "PAID", needs |-> {}, segregated |-> FALSE]}

First(rules) == [k \in DOMAIN rules |-> "NEW"]

-----------------------------------------------------------------------------
\* Two workers compete for the one place of a demand; two deployments of one
\* machine share a day; two callers send lines of one payroll run.
R == INSTANCE Resources WITH
       Actor <- People, Accepted <- {"APPROVED"}, Decisions <- {"APPROVED", "REJECTED"},
       MakerChecker <- TRUE, MaxOpen <- 2,
       plan <- a, demand <- b, assigned <- c, credential <- d, staffingApproval <- e,
       staffingRisk <- f, staffingTx <- g,
       Plan <- {"p"}, Demand <- {"d"}, Worker <- {x, y}, Day <- {1}, StaffingStep <- {"hr"},
       StaffingRisk <- {"r"}, Required <- 1, StaffingTransitions <- PlanRules,
       StaffingInitial <- "DRAFT", StaffingImmutable <- {"LOCKED"}, Enforcement <- "RISK",
       asset <- a, deployment <- b, order <- c, equipmentApproval <- d, reading <- e,
       equipmentRisk <- f, equipmentTx <- g,
       Asset <- {"p"}, Deployment <- {x, y}, Period <- (x :> {1, 2}) @@ (y :> {2, 3}),
       Order <- {"w"}, EquipmentStep <- {"sup"}, Reading <- {"n1"}, EquipmentRisk <- {"r"},
       EquipmentInitial <- "AVAILABLE", Deployed <- "DEPLOYED", Held <- "HOLD",
       EquipmentImmutable <- {"RETIRED"}, EquipmentTransitions <- OrderRules,
       AssetStatus <- [DONE |-> "AVAILABLE", SCRAP |-> "RETIRED"], Regression <- "BLOCK",
       MaxMeter <- 1,
       run <- a, line <- b, payrollApproval <- c, exception <- d, payrollTx <- e,
       Run <- {"r"}, Employee <- {x, y}, PayrollStep <- {"fin"}, Exception <- {"e1"},
       Amount <- {[gross |-> 2, deduction |-> 1], [gross |-> 1, deduction |-> 2]},
       PayrollTransitions <- RunRules, PayrollInitial <- "DRAFT", PayrollImmutable <- {"PAID"},
       RunOf <- [e1 |-> "r"]

\* Records by world, and the contract, document or action that belongs to one.
KindOf == [
  actions    |-> ("a1" :> "ACTION") @@ ("i1" :> "ITP") @@ ("r1" :> "RISK"),
  ncrs       |-> ("n1" :> "NCR") @@ ("q1" :> "REQUEST") @@ ("i1" :> "INSPECTION") @@ ("t1" :> "TEST"),
  incidents  |-> ("i1" :> "INCIDENT") @@ ("r1" :> "RISK") @@ ("t1" :> "TALK"),
  failures   |-> ("s1" :> "INSPECTION") @@ ("a1" :> "ACTION"),
  permits    |-> ("p1" :> "PERMIT") @@ ("o1" :> "OBSERVATION"),
  revisions  |-> ("d1" :> "DOCUMENT") @@ ("r1" :> "REVISION") @@ ("r2" :> "REVISION") @@ ("x1" :> "DISTRIBUTION"),
  letters    |-> ("t1" :> "TRANSMITTAL") @@ ("f1" :> "RFI") @@ ("s1" :> "SUBMITTAL"),
  risks      |-> ("k1" :> "RISK") @@ ("d1" :> "DOCUMENT"),
  variations |-> ("c1" :> "CONTRACT") @@ ("v1" :> "VARIATION") @@ ("v2" :> "VARIATION"),
  reopened   |-> ("c1" :> "CONTRACT") @@ ("v1" :> "VARIATION") @@ ("v2" :> "VARIATION"),
  payments   |-> ("c1" :> "CONTRACT") @@ ("p1" :> "PAYMENT") @@ ("k1" :> "RISK"),
  claims     |-> ("c1" :> "CONTRACT") @@ ("m1" :> "MILESTONE") @@ ("l1" :> "CLAIM") @@ ("e1" :> "EOT")]

QWorlds == {"actions", "ncrs"}
SWorlds == {"incidents", "failures", "permits"}
DWorlds == {"revisions", "letters", "risks"}
CWorlds == {"variations", "reopened", "payments", "claims"}

Owner == [r1 |-> "d1", r2 |-> "d1", x1 |-> "r1", v1 |-> "c1", v2 |-> "c1",
          p1 |-> "c1", m1 |-> "c1", l1 |-> "c1", e1 |-> "c1"]

Q(w) == INSTANCE QualitySafety WITH
       item <- a, approval <- b, Member <- People, Item <- DOMAIN KindOf[w], Kind <- KindOf[w],
       AutoAction <- IF w = "failures" THEN [s1 |-> "a1"] ELSE Empty, Step <- {"qa"},
       Rules <- IF w \in SWorlds THEN SafetyRules ELSE QualityRules,
       Initial <- IF w \in SWorlds THEN [First(SafetyRules) EXCEPT !["RISK"] = "OPEN"]
                  ELSE First(QualityRules)

D(w) == INSTANCE Contracts WITH
       item <- a, approval <- b, tx <- c, Member <- People, Record <- DOMAIN KindOf[w], Kind <- KindOf[w],
       DocumentOf <- Owner, ContractOf <- Owner, ClaimOf <- [e1 |-> "l1"], Step <- {"qa"},
       Rules <- IF w = "reopened" THEN ReopeningRules ELSE IF w \in CWorlds THEN CommercialRules ELSE DocumentRules,
       Initial <- First(IF w \in CWorlds THEN CommercialRules ELSE DocumentRules),
       Values <- {1}, MaxOpen <- 2, MaxApprovals <- 2

\* One item with a checklist and two approvals; two items with timesheets.
K(w) == INSTANCE WorkOps WITH
       project <- a, work <- b, link <- c, check <- d, sheet <- e, workApproval <- f, workTx <- g,
       Person <- People, Work <- IF w = "items" THEN {"i1"} ELSE {"i1", "i2"},
       Check <- IF w = "items" THEN {"c1"} ELSE {}, Sheet <- IF w = "items" THEN {} ELSE {x, y},
       Approval <- IF w = "items" THEN {"a1", "a2"} ELSE {},
       Reviewer <- IF w = "items" THEN "i1" :> bob ELSE ("i1" :> bob) @@ ("i2" :> "nobody"),
       Hours <- IF w = "items" THEN Empty ELSE (x :> 16) @@ (y :> 16), DayHours <- 24,
       Progress <- IF w = "items" THEN {1, 2} ELSE {}, Full <- 2, NoReviewer <- "nobody",
       MaxRequests <- IF w = "items" THEN 2 ELSE 1
KWorlds == {"items", "sheets"}

\* Two readings of the meter and two visits on a phone and a tablet; m1 was read
\* before m2, and the web records a reading between them.
MCMeter == {m1, m2}
MCVisit == {n1, n2}
MCDevice == {phone, tablet}
MCDeviceOf == (m1 :> phone) @@ (m2 :> phone) @@ (n1 :> phone) @@ (n2 :> tablet)
MCReadingOf == (m1 :> 1) @@ (m2 :> 3)
MCWebReading == {2}

ASSUME /\ R!WorkforceAssumption /\ R!EquipmentAssumption /\ R!PayrollAssumption
       /\ \A w \in QWorlds : Q(w)!QualityAssumption
       /\ \A w \in SWorlds : Q(w)!SafetyAssumption
       /\ \A w \in DWorlds : D(w)!DocumentsAssumption
       /\ \A w \in CWorlds : D(w)!CommercialAssumption
       /\ \A w \in KWorlds : K(w)!WorkAssumption

-----------------------------------------------------------------------------
IdleFrom3 == c = Idle /\ d = Idle /\ e = Idle /\ f = Idle /\ g = Idle
IdleFrom4 == d = Idle /\ e = Idle /\ f = Idle /\ g = Idle
IdleFrom6 == f = Idle /\ g = Idle

Started ==
  \/ world = "staff" /\ R!StaffingInit
  \/ world = "plant" /\ R!EquipmentInit
  \/ \E w \in QWorlds : world = w /\ Q(w)!QualityInit /\ IdleFrom3
  \/ \E w \in SWorlds : world = w /\ Q(w)!SafetyInit /\ IdleFrom3
  \/ \E w \in DWorlds : world = w /\ D(w)!DocumentInit /\ IdleFrom4
  \/ \E w \in CWorlds : world = w /\ D(w)!CommercialInit /\ IdleFrom4
  \/ world = "payroll" /\ R!PayrollInit /\ IdleFrom6
  \/ \E w \in KWorlds : world = w /\ K(w)!WorkInit

Moved ==
  \/ world = "staff" /\ R!StaffingNext
  \/ world = "plant" /\ R!EquipmentNext
  \/ \E w \in QWorlds : world = w /\ Q(w)!QualityNext /\ UNCHANGED <<c, d, e, f, g>>
  \/ \E w \in SWorlds : world = w /\ Q(w)!SafetyNext /\ UNCHANGED <<c, d, e, f, g>>
  \/ \E w \in DWorlds : world = w /\ D(w)!DocumentNext /\ UNCHANGED <<d, e, f, g>>
  \/ \E w \in CWorlds : world = w /\ D(w)!CommercialNext /\ UNCHANGED <<d, e, f, g>>
  \/ world = "payroll" /\ R!PayrollNext /\ UNCHANGED <<f, g>>
  \/ \E w \in KWorlds : world = w /\ K(w)!WorkNext

DeliveryInit ==
  /\ Init
  /\ Started \/ (world = "offline" /\ a = Idle /\ b = Idle /\ IdleFrom3)

DeliveryNext ==
  /\ UNCHANGED world
  /\ \/ Moved /\ UNCHANGED vars
     \/ world = "offline" /\ Next /\ UNCHANGED services

DeliverySpec == DeliveryInit /\ [][DeliveryNext]_siteVars

-----------------------------------------------------------------------------
DeliveryTypeOK ==
  /\ TypeOK
  /\ world = "staff" => R!StaffingTypeOK
  /\ world = "plant" => R!EquipmentTypeOK
  /\ \A w \in QWorlds : world = w => Q(w)!QualityTypeOK
  /\ \A w \in SWorlds : world = w => Q(w)!SafetyTypeOK
  /\ \A w \in DWorlds : world = w => D(w)!DocumentTypeOK
  /\ \A w \in CWorlds : world = w => D(w)!CommercialTypeOK
  /\ world = "payroll" => R!PayrollTypeOK
  /\ \A w \in KWorlds : world = w => K(w)!WorkTypeOK

\* Nothing is counted or placed twice: the count of a demand is that of its
\* workers and never above what it asks for (Resources!StaffingAgrees), a
\* machine is in one place at a time, and its meter is its highest reading
\* (NoDoubleDeployment, MeterIsHighest).
NothingTwice ==
  /\ world = "staff" => R!StaffingAgrees
  /\ world = "plant" => R!NoDoubleDeployment /\ R!MeterIsHighest

\* Whatever rework a record went through, the approvals that its status asked
\* for still stand, given by another member than asked for them: plans, quality
\* and safety records, work items (PlansWereReviewed, QualityIsReviewed,
\* SafetyIsReviewed, DoneWasApproved of their modules).
WorkIsReviewed ==
  /\ world = "staff" => R!PlansWereReviewed
  /\ \A w \in QWorlds : world = w => Q(w)!QualityIsReviewed
  /\ \A w \in SWorlds : world = w => Q(w)!SafetyIsReviewed
  /\ \A w \in KWorlds : world = w => K(w)!DoneWasApproved

\* Rows that the code writes together stay together: a critical incident and
\* its risk, a failed inspection and its action (QualitySafety!FailuresAreFollowedUp),
\* a document and the issued revision it names (Contracts!OnlyIssuedIsCurrent).
RecordsAreLinked ==
  /\ \A w \in SWorlds : world = w => Q(w)!FailuresAreFollowedUp
  /\ \A w \in DWorlds : world = w => D(w)!OnlyIssuedIsCurrent

\* Stored totals are those of the rows they sum up, whoever writes at once:
\* the value of a contract (Contracts!ContractValueAgrees) and the totals of a
\* payroll run (Resources!PayrollAddsUp).
TotalsAgree ==
  /\ \A w \in CWorlds : world = w => D(w)!ContractValueAgrees
  /\ world = "payroll" => R!PayrollAddsUp

\* What is locked, paid or retired stays as it is, a revision that is issued
\* brings no old status of its document back, and the progress of an item never
\* falls (Resources, Contracts, WorkOps).
FinalStays ==
  [][/\ world = "staff" => R!LockedPlanFrozen
     /\ world = "plant" => R!RetiredAssetStays
     /\ world = "payroll" => R!PaidRunFrozen
     /\ \A w \in DWorlds : world = w => D(w)!NoStatusIsLost
     /\ \A w \in KWorlds : world = w => K(w)!ProgressNeverFalls]_siteVars
=============================================================================
